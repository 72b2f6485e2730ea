# Verification of the Signal bot and its payment system

TLA+ models, TLC runs and TLAPS proofs for the Rust workspace under
`src/crates/`: a Signal bot that runs in a trusted execution environment,
answers messages with a language model, sells its answers for prepaid credits
and shares its machine with a proxy that registers further phone numbers.

File names below are relative to `src/crates/`.

    cd tla
    tlc -workers 2 -config ChatRoom.cfg MCChatHandler.tla    # one of the runs
    tlapm CreditStoreProofs.tla                              # one of the proofs

## The system

One process runs the bot (`signal-bot/src/main.rs`): a task for the message
loop, a task for the payment server's HTTP handlers, a task that sweeps the
on-chain balances, a task that removes expired conversations. Another process
runs the registration proxy. All state is in memory behind tokio locks; two
files survive a restart, the credit store and the registry. signal-cli, the
model (NEAR AI), the chains' RPC nodes and the guest agent of the enclave
(dstack) are external services.

| component | state | operations | talks to |
|---|---|---|---|
| credit store, `x402-payments/src/credits/store.rs` | balances, deposit and usage logs, processed transactions; the encrypted file and its temporary file | add_credits, deduct_credits, persist, load | dstack for the key; two instances share one file |
| payment API, `x402-payments/src/api/` | none of its own | deposit, balance, pricing | credit store, facilitators |
| facilitators, `x402-payments/src/chains/` | an RPC client each | verify_payment, settle, transfer | chains |
| pricing, `x402-payments/src/credits/pricing.rs` | constants | estimate, cost of tokens, conversion | payment API, chat handler |
| sweeper, `x402-payments/src/sweeper.rs` | history of sweeps | wake up, sweep the chains one after the other | facilitators |
| conversation store, `conversation-store/src/` | histories with an expiry | add, read, clear, cleanup task | message loop, chat handler, summary |
| message loop and chat handler, `signal-bot/src/main.rs`, `commands/chat.rs` | the message in hand, tool loop, token counters | receive, credit check, ask, tool loop, charge | conversation store, credit store, model, tools |
| sealed negotiation, `signal-bot/src/commands/conditional_recall.rs` | negotiations | negotiate, offer, withdraw, deals | message loop |
| receiver and client, `signal-client/src/` | list of accounts, websocket | poll, stream, send | signal-cli |
| translation, `signal-bot/src/translation_interceptor.rs`, `translation/src/` | groups being translated, token bucket, cache | intercept, translate | message loop, LibreTranslate |
| tools, `tools/src/` | a registry fixed at the start | execute | web services |
| registration proxy, `signal-registration-proxy/src/` | registry of numbers; its encrypted file; rate limiter | register, verify, unregister, adopt, names, profile, configuration, health | signal-cli, dstack |

What makes each of them hard, and what has to be right:

- **Credit store.** Memory is updated under a write guard and saved later under
  a read guard, which several saves share; they also share one temporary path.
  A client may hang up in the middle, and its file call runs on. The process
  may die between any two steps. Two instances use one file. The key
  of the file is asked for once by each instance and may be another one after a
  restart. A transaction must be credited once, a balance must be covered by deposits, and a deposit that
  was confirmed must not disappear.
- **Conversation store.** Readers filter expired histories, writers do not, a
  background task removes them. Trimming counts messages, not exchanges.
- **Chat handler.** A model and tools that may answer anything, a loop with a
  limit, messages stored on some paths and not on others, tokens counted across
  requests and charged once, credits checked before and deducted after. Group
  members share a history but not a bill.
- **Negotiation.** Offers in any order, parties with several names, offers that
  are NaN, and a promise that failed offers are forgotten.
- **Registration proxy.** Check, long external call, change: with requests that
  overlap, hang up, time out or fail to save; health checks that hold a guard
  while they wait; a key that may change.
- **Payment API and facilitators.** A transaction is looked up, its amount and
  recipient checked, then credited; the same transaction may be submitted
  twice, concurrently, after an error or with its hash spelled differently.
- **Sweeper.** A transfer can fail after it was broadcast, and the balance it
  was computed from is stale by then. Chains are swept one after the other, so
  each waits for the others.
- **Receiver.** The stream is a generator that runs only between two messages;
  accounts register and frames arrive while a message is handled. A socket of
  one account is read until the account list is due, and the frame that shows
  that it is due has been taken off the socket by then.
- **Translation.** A token bucket that is filled lazily; a post in the middle of
  the handling of a message, before a reply that may fail; two of the bot's own
  accounts in one group hear each other.

`PROJECT.json` lists the hazards by line, with the properties that cover them,
and the components with what is modelled of each.

## Modules

Every component has a module with its state as variables and one action for
each operation or step; a `...Proofs` module with theorems for all constants;
an `MC...` module that names the values of a small instance. Definitions named
`X_Something` are mutations of `X`, used to show that the properties notice a
bug.

### Credit store

`CreditBalance` is the arithmetic of `types.rs` (saturating counters with a
maximum `MaxCredits`). `CreditStore` has one variable for the memory of every
instance and a worker for every sequential caller: `DepositWorkers` are HTTP
connections, `ChargeWorkers` message loops. `StoreOf` says which instance a
worker was given. `AddCredits`, `RefuseDuplicate`, `DeductCredits`,
`RefuseCharge` and `ChargeUnknownUser` are the paths through `add_credits` and
`deduct_credits` up to `persist`; they run under the write guard without an
await and are one step each. `LookUpKey` and `KeyDerived` are `derive_key`: the
cached key, or the one that the guest agent's DeriveKey gives, or, when that
fails, the one computed from AppInfo, without an error and cached like the other
(`Keys`, `Derived`). `Serialize`, `OpenTmp`, `WriteTmp` and `RenameTmp`
are the file steps of `persist`; a reader in between keeps writers out
(`Readers`). A file carries the key it was written with, and `Restart` needs
instances that derive that same key (`Opens`); until then the start fails
(`StartFails`). `PersistFails`, `Disconnect` and `Crash` are the other faults. An
open file keeps its identity through a rename (`fd`): a
writer whose temporary file was renamed by another one writes into the main
file.

`DurableLedger` is what a payer may rely on, with no locks, snapshots or files:
deposits are granted once, saved all together, confirmed when saved; a crash
forgets what was granted and not saved. `CreditStoreLedger` gives the refinement
mapping; run OneCaller checks that the store with one instance and one caller
implements it, safety only: a ledger that is down may stay down, as the store does
when the key is lost. With more callers or instances it does not, which is what run
TwoStoresLoseDeposit shows.

### Conversation store, chat handler and message loop

`Conversation` is the data: messages as roles with sets of tool calls and their
times, trimming, and when a sequence pairs calls with results.
`ConversationStore` has the map, the clock and the cleanup task. Every
operation reads the clock and works under one lock, so it is one step.

`ChatHandler` extends it: the message loop of `main.rs` and the steps of
`ChatHandler::execute` between two awaits. The actions that add to a
conversation are conjunctions with the store's `AddMessage`; theorem
`HandlerUsesStore` says that the composition is a client of the store, so what
is proved of the store holds in it. Model and tools are choices: an answer in
text, any set of tool calls, an error. The balance changes as
`CreditBalance` says; its file is the credit store's subject.

`Pricing` is what an answer costs: tokens of the prompt and of the completion
at a rate each per million, rounded up over the sum, and the estimate that the
pre-flight check is based on, a token for four bytes of the text. The counters
of a message are `u32` and the estimate is cast to one: `TokenWidth` is the
number of values of that type, and additions are modulo it. `ChatHandler` counts
with `Accumulate`, asks `StoreHasCredits` before the first request and deducts
`Price` after the last.

### Sealed negotiation

`Negotiation` has the list of negotiations and, as history, who said what.
Commands are one step each (the message loop runs them one at a time). Senders
are pairs of a source and an optional number, as `signal-client` produces them:
`Matches` is how the code compares a sender with a party.

`SealedBargain` is what the two parties are promised, without names of accounts,
commands or midpoints: each speaks at most once and only for themselves; when
both have spoken there is a price between their valuations, or both are
forgotten; until then either may call it off. `NegotiationBargain` maps the list
of negotiations to bargains between people (`BargainOf`), and run Bargains checks
that every command is a step of the bargain or none.

### Deposits and sweeps

`Payments` follows a payment from its transaction to the operator's wallet. A
connection's request names a transaction by a string (`Hashes`, `TxOf`: on Base
several spellings name one transaction), passes the duplicate check, which compares
strings (`Submit`, `IsTxProcessed`), is verified by the
facilitator of its chain (`Verify`, `VerifyFails`; `BaseAmount`, `NearAmount`
and `SolanaAmount` are what each finds in a transaction) and credited
(`AddCredits`): the three steps between which `process_deposit` awaits. The
sweeper is a second process with a place in the list of chains: `AskBalance`
and `NothingToSweep` are the balance with the checks after it, `Broadcast` the
transfer, `Answer`, `AnswerLost` and `ChainFails` the ways a chain's turn ends,
`Done` the step to the next chain or the end of the cycle with its history.
A facilitator that could not derive its key has no operator (`HasOperator`), one
whose wallet holds no gas can read balances but not transfer
(`Funded`, until `Fund`). The chains are external: `Pay`, `Mine`, `Forget`,
`Fund`. The credit store appears by
its effect, a set of granted deposits; how that is saved is `CreditStore`'s
subject, whose deposit workers begin where `Verify` ends.

### Registration proxy

`RegistrationProxy` has the registry, its file, the accounts of signal-cli and
a task for every connection. `Begin` is the arrival with the checks under the
read guard, `CallSucceeds`, `AlreadyRegistered`, `CallFails` and `CallLost` the
answers of signal-cli, `Lock` the change of the record under the write guard,
`Derive`, `Open`, `Write` and `Rename` the save. The operations are the routes
of `api/mod.rs`; each has an operator for its checks (`MayRegister` and so on) and one
for what it does to the record (`MarkVerified` and so on).
`Restart` covers `main` and `Store::new`, with the fallback to an in-memory
store. `unsaved`, `calm` and `disturbed` are history variables: they name the
saves and numbers for which nothing can be promised.

### Receiver, translation and the message loop

`Receiver` is `signal-client`'s side: `queue` holds the frames signal-cli has for
each account, `accounts` the list as last fetched, `hand` the message that the
loop was given. `Stream` is the polling stream or the websocket stream, one
action for each request or frame: `ListAccounts`, `ListFails`, `Poll`,
`PollFails`, `Connect`, `ReadMessage`, `SocketEnds`, and `ReadTooLate` for the
frame that is dropped when the list is due, with any number of frames behind it
(`LeaveSocket`). What the loop
does with a message is only that it takes time (`Finish`) or kills the process
(`Die`).

`MessageLoop` extends it with the loop of `main.rs`: `Untranslated`,
`StartTranslation`, `ProviderEnds`, `SendTranslation` are the translation
interceptor with the token bucket, `NoHandler`, `Execute`, `Panic` and `Reply`
the dispatch. What a chat handler computes is `ChatHandler`'s subject; here it is
a reply or none, of any text the constant `Written` admits. What the loop posts is
delivered to the other members of the
room, the bot's other accounts among them (`Send`, `Deliver`). A message to a
room with two of the bot's accounts is a frame for each of them, and so are its
translations and its answers.

## Runs

| run | instance | shows |
|---|---|---|
| OneStore | one instance, two HTTP connections, one message loop, no faults | saves never replace newer history, every credited transaction reaches the file, every caller is answered, although callers take away each other's temporary file |
| OneCaller | one instance, one caller; two crashes, a hang-up, an I/O error, a DeriveKey that fails once | the file is never partial; the store implements `DurableLedger`: what was confirmed is in the file, and a store that opens has it; the store stays down only if the file was written under the fallback key |
| Deployed | two instances, two connections, message loop; one crash, one hang-up, one I/O error, one failing DeriveKey; saturating counters | every copy of the data is sound; the audit trail explains the balances; no save publishes data its own instance has moved past |
| TwoStoresLoseDeposit | two instances, a deposit and a charge | **violated:** the bot's next save erases a confirmed deposit |
| ChatRoom | two users and their group, two tool calls at a time, two iterations, two messages, two clock units | trimming keeps the last messages; silence ends a conversation, activity keeps it, abandoned memory is released; every call in a prompt has its result and the question is there; nobody is overcharged; every message ends |
| Bargains | two negotiations, three people, every kind of sender, NaN | outcomes are fair, failed ones forgotten; the commands implement `SealedBargain` |
| MoneyFlow | three chains, one of them unreachable and one without gas at first; a payment of two transfers, a reverted one, a plain one; two users, connections and requests; one failed call, lost answer or forgotten transfer | credits are backed by a payment, one for each spelling of its hash; a sweep leaves the reserve; the history accounts for what left; an unreachable chain, or one without gas, holds up no other |
| RespelledHash | the same | **violated:** a payment on Base is credited again when its hash is submitted with other letters in upper case |
| Registry | one number, two connections, three requests, one fault, one restart | the file is the registry whenever nobody saves; restarts forget nothing; records agree with accounts, unless requests overlapped or were interrupted; every request ends |
| RegistryUnreadable | the same | **violated:** one failed DeriveKey and a restart finds an empty registry |
| SignalBot | two accounts of the bot, a plain and a bilingual group and direct chats, one person; polling or websocket; one fault | messages are handled in order; a due refresh is asked for before a socket is left for it again; the translator is asked within its rate; an account posts at most one translation and one answer for a message it received; every message to a polled account is handled or lost with a request or the process |
| RefreshDropsMessage | one account on a websocket, no faults | **violated:** the frame that shows that the account list is due is dropped |

The four violated properties quote comments of the code; `PROJECT.json` lists
them under `findings` with the lines.

More that was met while modelling, without a run of its own:

- Two concurrent saves of one instance use the same temporary file, so that a
  truncated or half-written file can be renamed to the credit store
  (`store.rs:189`, "Atomic write"). The next save repairs it, which is why
  OneStore holds; `MainNeverPartial` is for one caller. A crash in between leaves a file that does not open, or an
  empty one, which `load` takes for a new store (`store.rs:218`).
- When DeriveKey fails, `derive_key` uses a key computed from AppInfo, caches it
  and saves under it (`store.rs:109-160`), with a warning and no error. After a
  restart with the guest agent back, that file does not decrypt and the bot does
  not start, at every attempt: the exception in `OpensAgain`.
- No NEAR deposit is ever verified: the facilitator needs the sender
  (`chains/near.rs:429`) and the deposit handler never passes one
  (`api/handlers.rs:171`), although NEAR is swept.
- After an answer that was lost the same balance may be sent twice, and if
  payments have come in meanwhile the second transfer takes the reserve.
- The transfers of the sweeper have no timeout: neither NEAR's RPC client
  (`chains/near.rs:289-371`) nor Base's provider (`chains/base.rs:407-423`, the
  wait for a receipt among them). One that never ends stops the sweeper for all
  chains. Reading balances and verifying payments have 30 seconds.
- Confirmations (`chains/mod.rs:64-68`) are never checked.
- The bot's credit store never sees a deposit that the server's instance
  confirmed until the process restarts.
- A history that is cut between a request for tools and its results
  (`conversation-store/src/types.rs:88`) starts with results without a call, which
  the model's API may refuse: `PromptWellFormed` allows them at the front, and
  only there.
- Tokens of a tool loop that fails or is exhausted are not charged; an answer
  whose price exceeds what the estimate found is sent and free.
- `chat.rs:243` forces "a text response" by offering no tools; a call that the
  model makes all the same is executed.
- Texts are cut at a byte position for the log (`chat.rs:194`,
  `executor.rs:71`), which panics inside a character: the model's `Deadly`
  messages, which end the process.
- The price of a deal is told only in the chat of the second offer
  (`conditional_recall.rs:324`), where `:24` promises that both parties learn it.
  `!deals` decides the role by the source alone (`:405`), so that an initiator
  who is named by their other identity is listed as the other party.
- A group for which translation is configured gets answers only to mentions,
  whatever `also_chat` says (`translation_interceptor.rs:18`). Two of the bot's
  accounts in one group both translate and answer a message to it, and each
  other's posts: only an account's own messages are skipped (`:80`).
- A message that arrives after a conversation has expired and before the cleanup
  task has run brings the expired history back.
- `/v1/debug/force-unregister` is a route like any other (`api/mod.rs:81`) and asks
  for no secret (`api/handlers.rs:249`): whoever calls the proxy can remove any
  number's record, where `docs/plan-registration-proxy.md:12` says that only the
  original registrant can use a number and `:364` that the ownership proof is
  required for sensitive operations. A pending record is also replaced by whoever
  adopts the number. So no property says who may change a record.
- While the websocket of one account is silent nothing is read for the others,
  however long: the stream moves on when a frame arrives or the socket ends.
- Overlapping requests for one number can turn a verified registry record back
  into a pending one; deleting a username leaves it in the record; the rate
  limit layer covers `/health`, which `api/mod.rs:58` excludes, and the limit per
  number is never used.

### Bounds, and why they are enough

- *Credit store:* two transactions and three workers are the smallest instance
  in which one save is overtaken by two others; a transaction of two credits
  against a maximum of three saturates on the second deposit. `MaxUsage` bounds
  the usage log, `MaxFaults` each kind of fault.
- *Conversation store and chat handler:* two clock units cover an expiry and the
  cleanup task's period; the theorems about histories are for any time, and for
  any traffic. A history of seven is exactly the room two iterations with two
  calls need; the second message in the same conversation makes trimming cut
  into the first one's calls. Rates of six and one per "million" of two round up
  and down, counters of width four wrap, texts are short or so long that the
  estimate wraps, and nine credits pay for one expensive answer and not for every
  second one. `MaxReceived` bounds the messages.
- *Negotiation:* two negotiations can be confused with each other; two amounts
  and NaN give every outcome of a comparison.
- *Deposits and sweeps:* two requests of two users for one transaction are the
  smallest overlap, and of one for two spellings the smallest repetition; the
  unreachable chain has one before and one after it in the
  list; a history of one is displaced within a cycle. A payment of two transfers
  is worth different amounts to the Base and the Solana verifier. `MaxRequests`
  and `MaxFaults` bound requests and faults.
- *Message loop:* two accounts hear each other; one spoken message is joined by
  what the bot posts itself, up to `MaxFrames` frames, so that a socket holds one
  frame while another is handled and a third arrives at the refresh; a bucket of
  one token that takes two ticks to fill is empty for the second translation.
  What the loop writes is one of two kinds (`MCWritten`), a plain text and one
  that mentions the bot and has a wide character at byte 50.
  `MaxSpoken`, `MaxClock` and `MaxFaults` bound people, time and faults.
- *Proxy:* two connections are enough for every overlap of a check, a call and
  a change; the third request finds what two have left behind. There is one
  secret and no configuration: with a caller who has no secret that is enough for
  every outcome of the checks; the proofs are for any.

The theorems repeat most of these properties for every value of the constants,
so that the bounds matter for liveness, the properties marked below as only
model-checked.

### Fairness

- Credit store: weak fairness of every worker's next step of `persist` (tokio
  polls ready tasks and completes file calls and requests to the guest agent) and
  of `Restart` without a fault (the container has `restart: unless-stopped`, so it
  is started again until the guest agent works). Nothing is assumed of new requests or faults.
- Message loop: weak fairness of `Handle`, the next step of the message in hand:
  model and tools have timeouts, so each call returns. None for new messages.
- Sweeper: weak fairness of its next step, and of the chains' execution of what
  was broadcast. Balances are read with a timeout of 30 seconds. The calls of a
  transfer have none, so that they end is an assumption on the libraries and the
  nodes, not a fact of this code: that a node which is down is given up on, and
  that Base does not forget a transfer whose receipt is waited for. Nothing is
  assumed of payers, requests or faults.
- Receiver and loop: weak fairness of the stream's next request or frame, of the
  passing of the refresh interval, and of the loop's next step with the message
  in hand: every await of the loop has a timeout. None of people, frames in the
  air, accounts or faults. The stream makes no progress while a message is in
  hand, as in the code.
- Proxy: weak fairness of every request's next step: calls to signal-cli end
  after at most 120 seconds; the call to the guest agent has no timeout and is
  assumed to be answered. No fairness is assumed of faults, nor of any answer
  being a success.

## Proofs

All theorems are `Spec => []Inv`, `Spec => [][A]_vars` or `Spec => Abstract!Spec`
for arbitrary constants that satisfy the modules' named assumptions (`ConstantsAssumption`,
`StoreAssumption`, `ChatAssumption`, `NegotiationAssumption`,
`PaymentsAssumption`, `HashAssumption`, `ProxyAssumption`, `PricingAssumption`,
`ReceiverAssumption`, `LoopAssumption`: typing, disjointness, bounds in Nat).

- **`CreditStoreProofs`**: `TypeCorrect`, `NoDoubleSpend`, `NoUnbackedCredits`
  for any number of instances, workers and faults. The properties quantify over
  every copy of the data; they are inductive together with typing because each
  step either copies one copy to another place or applies `WithDeposit`,
  `WithCharge` or `WithUsage`, and a lemma for each says that it keeps data
  sound. `AuditTrailHolds` says the same of the books: sums over logs of any
  length, which are recursive functions. What such a function computes is shown
  through the least index at which it would be wrong (`LeastNatural`,
  `InductiveSet`), as the library's induction theorem cannot be applied; then an
  entry appended adds its credits to one user's sum and to no other.
  `NoStaleSnapshot` needs the guard invariant: whoever is in a file call
  and not detached holds a read guard, and no update runs beside it.
  What a save does to the file is proved under hypotheses that the theorems
  name, as the runs show it false without them. `OneInstance` and `NoHangUps`,
  any number of callers: the file never goes back to older data
  (`OneInstanceNeverRegresses`): while somebody is about to write or to rename,
  whole data in the temporary file is the memory, as no update meets a file
  call, and the memory continues what the file holds (`FileInv`). `OneCaller` (one
  instance, at most one worker, hang-ups and crashes included): the file is
  whole, what was confirmed is saved, and the store implements
  `DurableLedger` (`FileIsWhole`,
  `ConfirmedIsSaved`, `StoreKeepsLedger`, from `CallerInv`), whichever keys the
  guest agent gives; with two stores on
  one file `ConfirmedIsSaved` is what `TwoStoresLoseDeposit` refutes. What the
  ledger promises is proved of the ledger alone, in four short actions
  (`LedgerKeepsItsPromise`), and the store has it by refinement
  (`StoreKeepsPromise`). `ConcurrentSavesKeepConfirmed` is for any number of
  callers of one instance who wait for their answers, without crashes
  (`NoCrashes`, without which the empty file described above loses a confirmed
  deposit): it adds to `FileInv` that what was confirmed is remembered by the memory and by
  whatever whole file somebody may publish.
- **`ConversationStoreProofs`**: the one lemma about data is that the last n of
  the last n followed by a message are the last n of everything; the one about
  time is that an entry in the map is never older than its TTL and a cleanup
  period, since the clock does not pass a wake-up of the cleanup task.
  `ActivityIsKept` needs that an entry expires exactly one TTL after its last
  message (`ExpiryFollowsLast`), so that what the cleanup task finds expired has
  been silent for that long; `AbandonedIsReleasedInTime` follows from the same
  invariant and bounds how long the text of an abandoned conversation stays.
- **`ChatHandlerProofs`**: `PromptsPaired` rests on an invariant of all
  conversations, whether or not they are being handled (`CallsPaired`): the
  calls that wait for a result belong to the last request for tools and are
  exactly `todo`. Trimming keeps it because it removes a prefix.
  `NoOvercharge` needs what is due of the message in hand (`Due`) and a ceiling
  of what its counters may have reached (`WithinCeiling`), with lemmas on the
  arithmetic: a wrapped counter is never more than the exact one
  (`AccumulateFacts`), and the price grows with it (`PriceFacts`).
  `QuestionIsAsked` needs to know where the question is in the stored history
  (`QuestionStored`): behind it are only calls and results of this request, at
  least two for each iteration and no more than the iterations so far can add,
  so that trimming, which keeps `MaxMessages`, does not reach it. The hypothesis
  that the history has that much room is the property's own (`Room`).
  `MessageIsBoundedWork` bounds the steps of a message by a number that each of
  them lowers (`Effort`): the safety half of `EveryMessageEnds`, for any model
  and tools. And `HandlerUsesStore` transfers the store's theorems.
- **`NegotiationProofs`**: the invariant gives for every status what is stored
  and what was said: while waiting at most one offer, of the party it is stored
  for; afterwards both were made, once each. A second offer is accepted only
  from the other party, which is a different person unless somebody negotiates
  with their own number. `NegotiationImplementsBargain` takes the commands one by
  one: `Negotiate` starts a bargain, a first offer speaks, a second one settles
  with the midpoint as the price, `Withdraw` calls off. That what has ended stays
  as it ended and nobody has second thoughts is proved of `SealedBargain` in a
  few lines (`BargainIsSealed`) and carried over (`NegotiationsAreSealed`).
- **`PaymentsProofs`**: `CreditsBacked` needs that a request that was verified is
  backed by its transaction and stays so, since blocks are final; that each
  spelling of a hash is credited once is the check inside `add_credits`, and on the
  chains other than Base a transaction has one spelling (`HashAssumption`).
  `RespelledHash` shows that more does not hold. `ReserveIsKept`
  needs that nothing but the transfer the sweeper waits for is in flight on a
  chain without lost answers (`OneInFlight`), and that from the balance to the
  block the wallet holds the amount and the reserve (`EnoughThere`).
  `HistoryIsComplete` speaks of the book, the history followed by the records
  of the cycle: it has no transfer that was not sent, names as success only what
  was mined (`Entered`), and keeps each mined transfer or `HistoryLimit` newer
  entries (`Kept`); cutting the history to its last entries preserves that.
- **`RegistrationProxyProofs`**: `ProxySaves` needs to know of every leftover
  file call: a calm save has the temporary file to itself (`Alone`), what a save
  sealed is still the registry (`Sealing`), and a leftover exists only while
  `unsaved` is set (`Leftovers`). `ProxyAgrees` follows each undisturbed number
  through its one request (`AgreesAt`, `InStep`): between the call and the
  change the account is already what the record is about to say.
- **`SignalBotProofs`**: `LoopImplementsReceiver` shows each step of the loop to
  be a step of the receiver or a stutter, so that the receiver's invariants are
  those of the bot. `RefreshComesNext` needs that while the list is due the sockets
  from the current account on have not been left for it in this round, and none
  has while it is fresh (`Late`); `OrderKept` that what was
  handled, what is in hand and what the server holds form one ascending line of
  each account (`Line`, `Distinct`); `RateKept` that the bucket never holds more
  than what the calls so far have left of its capacity and refill (`Budget`);
  `OncePerDeliveryKept` follows a message through the program points after which it
  may have a post (`PostInv`).

Only model-checked: the liveness properties (`CreditReachesDisk`,
`RequestAnswered`, `OpensAgain`, `EveryMessageEnds`, `EventuallySwept`,
`EveryRequestEnds`, `PolledIsHandled`), as the
prover does not reach liveness under fairness. Only proved, since the proof holds
for every instance: the type invariant of `Payments`, and what a theorem says
without a property of a run (`MessageIsBoundedWork`,
the promises of `DurableLedger` and `SealedBargain`). The type invariant of
`ConversationStore` is part of the one that ChatRoom checks.

## What the models leave out

- A crash is the end of the process, not a loss of power: what the kernel has
  been given is on disk. The file is whole, torn or of another key; ciphertext
  has no structure.
- Timestamps, identifiers, names and texts are abstract values; a text has a
  length where its estimate matters, a language and a room where translation
  does, and whether a wide character lies across the byte at which the log cuts
  it.
- Tool results come in any order; the code stores them in the order of the
  calls, which is one of those.
- A conversation does not expire while one of its messages is being handled
  (`InTime`): the timeouts of model and tools add up to minutes, the TTL is 24
  hours. The cleanup task is not delayed beyond its period.
- A detached file call keeps its worker busy until it ends.
- Sums of offers are exact; the code adds two f64.
- In the proxy, a username is recorded or not; a listed account is a registered
  one.
- A hash on Base is taken to be spelled in several ways, one on Solana in one:
  that is how their nodes read them, which is not in this repository.
- USDC amounts have no width; a restart of the process, which empties the
  sweeper's history, is not a step of `Payments`.

### Not modelled

- The other commands (help, verify, models, balance, summary, quotes): read-only,
  they format what other components hold.
- HTTP clients without state: dstack, LibreTranslate's and signal-cli's requests,
  plain and streaming chat of the NEAR AI client, what tools compute. Their
  failures are actions of the modules that call them.
- The proxy's rate limiter (a counter of a library), the derivation of wallets and
  the encoding of RPC calls, configuration, display of amounts, the web front end
  and the deployment scripts.

## Plan

Done, in this order: credit store with its ledger, conversation store, chat
handler, negotiation, registration proxy, deposits and sweeps, pricing, receiver
with the message loop and translation, and their proofs.

What could follow: a composition of `Payments` with `CreditStore`, a deposit from
the request to the file; a restart in `Payments`; the saved file for several
callers of which some hang up; an abstract registry that `RegistrationProxy`
implements for numbers that were not disturbed.
