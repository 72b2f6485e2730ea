------------------------------ MODULE Payments ------------------------------
(***************************************************************************)
(* How USDC comes in and goes out: the handler of POST /deposit between    *)
(* its duplicate check, the verification by the chain's facilitator and    *)
(* add_credits (crates/x402-payments/src/api/handlers.rs, chains/), and    *)
(* the FundSweeper that moves the deposit wallets' balances to the         *)
(* operator (sweeper.rs).                                                  *)
(*                                                                         *)
(* The chains are external.  A payer's transaction is what the verifier    *)
(* can see of it; blocks are final.  A transfer of the sweeper is          *)
(* broadcast, then mined or forgotten, and the sweeper may or may not hear *)
(* of it.  add_credits is its effect on the store; how that is saved is    *)
(* CreditStore's subject.  A credit is a micro-USDC (usdc_to_credits).     *)
(***************************************************************************)
EXTENDS Naturals, Sequences, FiniteSets

CONSTANTS Users,
          Connections,   \* HTTP connections, one request at a time
          Txs,           \* payers' transactions
          Tx,            \* what each of them does
          Hashes,        \* the strings a client may submit as a tx_hash
          TxOf,          \* the transaction the chain's node finds by each of them
          SweepOrder,    \* the chains, in the order of the sweeper's list
          Operators,     \* chains with an operator address
          Dead,          \* chains whose RPC node answers no request
          Gasless,       \* chains whose deposit wallet has no gas at first
          MinAmount,     \* config sweep.min_amount_usdc
          Reserve,       \* config sweep.reserve_for_gas
          HistoryLimit,  \* sweeps remembered
          MaxRequests,   \* bound: deposit requests
          MaxFaults      \* bound: failed calls and lost answers

Chains == {SweepOrder[i] : i \in DOMAIN SweepOrder}

ASSUME PaymentsAssumption ==
    /\ SweepOrder \in Seq({"base", "near", "solana"})
    /\ Len(SweepOrder) > 0
    /\ \A i, j \in DOMAIN SweepOrder : SweepOrder[i] = SweepOrder[j] => i = j
    \* first: the first transfer to the deposit wallet; total: all of them.
    /\ Tx \in [Txs -> [chain : Chains, first : Nat, total : Nat, reverted : BOOLEAN]]
    /\ \A x \in Txs : Tx[x].first <= Tx[x].total
    /\ Operators \subseteq Chains /\ Dead \subseteq Chains /\ Gasless \subseteq Chains
    /\ MinAmount \in Nat /\ Reserve \in Nat
    /\ HistoryLimit \in Nat \ {0}
    /\ MaxRequests \in Nat /\ MaxFaults \in Nat

\* A Base hash is hexadecimal, and its node does not tell upper from lower case;
\* the base58 hashes of the other chains have one spelling.
ASSUME HashAssumption ==
    /\ TxOf \in [Hashes -> Txs]
    /\ \A g, h \in Hashes : TxOf[g] = TxOf[h] /\ g # h => Tx[TxOf[g]].chain = "base"

VARIABLES mined,      \* payers' transactions that are on chain
          conn,       \* the request of each connection, a set of 0 or 1
          granted,    \* deposits in the credit store
          wallet,     \* USDC in the deposit wallet of each chain
          gas,        \* chains whose deposit wallet can pay for a transfer
          out,        \* transfers the sweeper has broadcast, oldest first
          phase,      \* where the sweeper is
          at,         \* the place in SweepOrder of the chain it works on
          amount,     \* what it has decided to transfer
          records,    \* SweepRecords of this cycle
          history,    \* sweep_history
          lost,       \* history: transfers whose answer was lost
          requests, faults

chainVars == <<mined, wallet, gas, out>>
depositVars == <<conn, granted, requests>>
sweeperVars == <<phase, at, amount, records, history>>
vars == <<mined, conn, granted, wallet, gas, out, phase, at, amount, records,
          history, lost, requests, faults>>

Deposit == [user : Users, hash : Hashes, credits : Nat]
Request == [user : Users, hash : Hashes, amount : Nat]  \* 0: not verified yet
Transfer == [chain : Chains, amount : Nat,
             state : {"flying", "mined", "reverted", "forgotten"}]
SweepRecord == [id : Nat, chain : Chains, amount : Nat, success : BOOLEAN]

Init ==
    /\ mined = {}
    /\ conn = [w \in Connections |-> {}]
    /\ granted = {}
    /\ wallet = [c \in Chains |-> 0]
    /\ gas = Chains \ Gasless
    /\ out = << >>
    /\ phase = "sleeping" /\ at = 1 /\ amount = 0
    /\ records = << >> /\ history = << >>
    /\ lost = {}
    /\ requests = 0 /\ faults = 0

Fault == faults < MaxFaults /\ faults' = faults + 1

-----------------------------------------------------------------------------
(* The chains' nodes and the deposit wallets. *)

\* Every request to a node that is down ends in an error.  The HTTP clients that
\* verify payments and read balances have a timeout of 30 seconds; those of the
\* transfers (NEAR's JsonRpcClient, near.rs:289-371, and Base's wallet provider,
\* base.rs:407-423) set none, and that they give up is assumed of the libraries.
Reachable(c) == c \notin Dead

\* Without gas in the wallet transfer_to fails before it broadcasts anything:
\* NEAR asks for the account first, the others find out when they send.
Funded(c) == c \in gas

\* get_deposit_wallet_balance; a wallet whose token account does not exist yet
\* has a balance of 0.
Balance(c) == wallet[c]

\* The operator of the bot puts gas into a deposit wallet.
Fund(c) ==
    /\ c \notin gas
    /\ gas' = gas \cup {c}
    /\ UNCHANGED <<mined, wallet, out, depositVars, sweeperVars, lost, faults>>

-----------------------------------------------------------------------------
(* Deposits. *)

\* A payer's transaction is included in a block.
Pay(x) ==
    /\ x \notin mined
    /\ mined' = mined \cup {x}
    /\ wallet' = IF Tx[x].reverted THEN wallet
                 ELSE [wallet EXCEPT ![Tx[x].chain] = @ + Tx[x].total]
    /\ UNCHANGED <<depositVars, sweeperVars, gas, out, lost, faults>>

\* The strings are compared as they were submitted.
IsTxProcessed(h) == \E d \in granted : d.hash = h

\* The request passes the duplicate check.  One that is refused is no step.
Submit(w, u, h) ==
    /\ conn[w] = {}
    /\ requests < MaxRequests
    /\ ~IsTxProcessed(h)
    /\ conn' = [conn EXCEPT ![w] = {[user |-> u, hash |-> h, amount |-> 0]}]
    /\ requests' = requests + 1
    /\ UNCHANGED <<chainVars, sweeperVars, granted, lost, faults>>

\* What verify_usdc_transfer finds, 0 if nothing: on Base the first Transfer event
\* to the wallet,
BaseAmount(x) == IF Tx[x].reverted THEN 0 ELSE Tx[x].first

\* on NEAR nothing, since a transaction is looked up by its sender too and the
\* handler's payload has none,
NearAmount(x) == 0

\* on Solana the change of the wallet's balance.
SolanaAmount(x) == IF Tx[x].reverted THEN 0 ELSE Tx[x].total

Verified(x) ==
    CASE Tx[x].chain = "base" -> BaseAmount(x)
      [] Tx[x].chain = "near" -> NearAmount(x)
      [] Tx[x].chain = "solana" -> SolanaAmount(x)

\* The facilitator finds the transaction, with the amount that was claimed.
Verify(w) ==
    \E r \in conn[w] :
        /\ r.amount = 0
        /\ LET x == TxOf[r.hash]
           IN  /\ x \in mined /\ Reachable(Tx[x].chain)
               /\ Verified(x) > 0
               /\ conn' = [conn EXCEPT
                      ![w] = {[user |-> r.user, hash |-> r.hash, amount |-> Verified(x)]}]
        /\ UNCHANGED <<chainVars, sweeperVars, granted, requests, lost, faults>>

\* It does not, or another amount was claimed, or the RPC node fails, or the
\* client hangs up.
VerifyFails(w) ==
    /\ \E r \in conn[w] : r.amount = 0
    /\ conn' = [conn EXCEPT ![w] = {}]
    /\ UNCHANGED <<chainVars, sweeperVars, granted, requests, lost, faults>>

Credited(r) == [user |-> r.user, hash |-> r.hash, credits |-> r.amount]

\* Mutant: the duplicate check of the handler is taken to be enough.
AddCredits_Unchecked(w) ==
    \E r \in conn[w] :
        /\ r.amount > 0
        /\ granted' = granted \cup {Credited(r)}
        /\ conn' = [conn EXCEPT ![w] = {}]
        /\ UNCHANGED <<chainVars, sweeperVars, requests, lost, faults>>

\* add_credits, with its own duplicate check.
AddCredits(w) ==
    \E r \in conn[w] :
        /\ r.amount > 0
        /\ granted' = IF IsTxProcessed(r.hash) THEN granted
                      ELSE granted \cup {Credited(r)}
        /\ conn' = [conn EXCEPT ![w] = {}]
        /\ UNCHANGED <<chainVars, sweeperVars, requests, lost, faults>>

-----------------------------------------------------------------------------
(* The sweeper. *)

chain == SweepOrder[at]

LastN(s, n) == IF Len(s) <= n THEN s ELSE SubSeq(s, Len(s) - n + 1, Len(s))

\* Mutant: the limit is applied before the new records come in.
Done_TrimmedTooEarly(rs) ==
    IF at < Len(SweepOrder)
    THEN /\ phase' = "asking" /\ at' = at + 1 /\ amount' = 0
         /\ records' = rs
         /\ UNCHANGED history
    ELSE /\ phase' = "sleeping" /\ at' = 1 /\ amount' = 0
         /\ records' = << >>
         /\ history' = LastN(history, HistoryLimit) \o rs

\* sweep_once is done with a chain, whether sweep_chain failed or not: the next
\* chain, or the end of the cycle.
Done(rs) ==
    IF at < Len(SweepOrder)
    THEN /\ phase' = "asking" /\ at' = at + 1 /\ amount' = 0
         /\ records' = rs
         /\ UNCHANGED history
    ELSE /\ phase' = "sleeping" /\ at' = 1 /\ amount' = 0
         /\ records' = << >>
         /\ history' = LastN(history \o rs, HistoryLimit)

Wake ==
    /\ phase = "sleeping"
    /\ phase' = "asking"
    /\ UNCHANGED <<chainVars, depositVars, at, amount, records, history, lost, faults>>

\* Mutant: the reserve is swept with the rest.
ToSweep_NoReserve(balance) == IF balance < MinAmount THEN 0 ELSE balance

\* balance.saturating_sub(reserve) if the threshold is reached.
ToSweep(balance) ==
    IF balance < MinAmount \/ balance < Reserve THEN 0 ELSE balance - Reserve

HasOperator(c) == c \in Operators

Due(c) == HasOperator(c) /\ ToSweep(Balance(c)) > 0

\* Without an operator address the balance is not even asked for.
NothingToSweep ==
    /\ phase = "asking"
    /\ ~HasOperator(chain) \/ (Reachable(chain) /\ ~Due(chain))
    /\ Done(records)
    /\ UNCHANGED <<chainVars, depositVars, lost, faults>>

AskBalance ==
    /\ phase = "asking"
    /\ Reachable(chain) /\ Due(chain)
    /\ amount' = ToSweep(Balance(chain))
    /\ phase' = "sending"
    /\ UNCHANGED <<chainVars, depositVars, at, records, history, lost, faults>>

\* The sweeper's next call to the chain is bound to fail.
CallFails == ~Reachable(chain) \/ (phase = "sending" /\ ~Funded(chain))

\* Mutant: the error of one chain ends the cycle.
ChainFails_EndingCycle ==
    /\ phase \in {"asking", "sending"} /\ HasOperator(chain)
    /\ IF CallFails THEN UNCHANGED faults ELSE Fault
    /\ phase' = "sleeping" /\ at' = 1 /\ amount' = 0
    /\ records' = << >>
    /\ history' = LastN(history \o records, HistoryLimit)
    /\ UNCHANGED <<chainVars, depositVars, lost>>

\* The balance cannot be read, or the transfer fails before it is broadcast.
ChainFails ==
    /\ phase \in {"asking", "sending"} /\ HasOperator(chain)
    /\ IF CallFails THEN UNCHANGED faults ELSE Fault
    /\ Done(records)
    /\ UNCHANGED <<chainVars, depositVars, lost>>

Broadcast ==
    /\ phase = "sending"
    /\ Funded(chain)
    /\ out' = Append(out, [chain |-> chain, amount |-> amount, state |-> "flying"])
    /\ phase' = "waiting"
    /\ UNCHANGED <<mined, wallet, gas, depositVars, at, amount, records, history,
                   lost, faults>>

Becomes(id, state) ==
    out' = [out EXCEPT ![id] = [chain |-> out[id].chain, amount |-> out[id].amount,
                                state |-> state]]

\* A transfer is executed, or reverted for want of balance.
Mine(id) ==
    LET c == out[id].chain
    IN  /\ out[id].state = "flying"
        /\ IF wallet[c] >= out[id].amount
           THEN /\ wallet' = [wallet EXCEPT ![c] = @ - out[id].amount]
                /\ Becomes(id, "mined")
           ELSE /\ Becomes(id, "reverted")
                /\ UNCHANGED wallet
        /\ UNCHANGED <<mined, gas, depositVars, sweeperVars, lost, faults>>

\* The chain forgets a transfer: it expires, or its nonce is taken.  Base is
\* assumed not to while the sweeper waits: its get_receipt would wait for ever.
Forget(id) ==
    /\ out[id].state = "flying"
    /\ IF id \in lost THEN UNCHANGED faults ELSE out[id].chain # "base" /\ Fault
    /\ Becomes(id, "forgotten")
    /\ UNCHANGED <<mined, wallet, gas, depositVars, sweeperVars, lost>>

\* What a transfer's outcome has to be for transfer_to to return: Base reports
\* a reverted one as unsuccessful, the others as an error.
BaseReturns(state) == state \in {"mined", "reverted"}
NearReturns(state) == state = "mined"
SolanaReturns(state) == state = "mined"

Returns(state) ==
    CASE chain = "base" -> BaseReturns(state)
      [] chain = "near" -> NearReturns(state)
      [] chain = "solana" -> SolanaReturns(state)

Record(success) ==
    [id |-> Len(out), chain |-> chain, amount |-> amount, success |-> success]

\* The outcome; there is no record of an error.
Answer ==
    LET state == out[Len(out)].state
    IN  /\ phase = "waiting"
        /\ state # "flying"
        /\ Done(IF Returns(state) THEN Append(records, Record(state = "mined"))
                ELSE records)
        /\ UNCHANGED <<chainVars, depositVars, lost, faults>>

\* The call ends without the outcome although the transfer was broadcast: in an
\* error, or on NEAR as an unsuccessful transfer.
AnswerLost ==
    /\ phase = "waiting"
    /\ Fault
    /\ lost' = lost \cup {Len(out)}
    /\ \E rs \in IF chain = "near" THEN {records, Append(records, Record(FALSE))}
                                 ELSE {records} : Done(rs)
    /\ UNCHANGED <<chainVars, depositVars>>

-----------------------------------------------------------------------------
Sweep == Wake \/ NothingToSweep \/ AskBalance \/ ChainFails \/ Broadcast \/ Answer
             \/ AnswerLost

Next ==
    \/ \E x \in Txs : Pay(x)
    \/ \E c \in Chains : Fund(c)
    \/ \E w \in Connections :
          \/ \E u \in Users, h \in Hashes : Submit(w, u, h)
          \/ Verify(w) \/ VerifyFails(w) \/ AddCredits(w)
    \/ Sweep
    \/ \E id \in DOMAIN out : Mine(id) \/ Forget(id)

Spec == Init /\ [][Next]_vars

\* The sweeper wakes up and its calls end (see Reachable for what that assumes of
\* the libraries); what is broadcast is mined or forgotten.
FairSpec ==
    /\ Spec
    /\ WF_vars(Sweep)
    /\ WF_vars(\E id \in DOMAIN out : Mine(id) \/ Forget(id))

-----------------------------------------------------------------------------
(* Properties. *)

TypeOK ==
    /\ mined \subseteq Txs
    /\ conn \in [Connections -> SUBSET Request]
    /\ \A w \in Connections : \A q, r \in conn[w] : q = r
    /\ granted \subseteq Deposit
    /\ wallet \in [Chains -> Nat]
    /\ gas \subseteq Chains
    /\ out \in Seq(Transfer)
    /\ phase \in {"sleeping", "asking", "sending", "waiting"}
    /\ at \in DOMAIN SweepOrder
    /\ amount \in Nat
    /\ records \in Seq(SweepRecord) /\ history \in Seq(SweepRecord)
    /\ phase = "waiting" => out # << >>
    /\ lost \subseteq DOMAIN out
    /\ requests \in Nat /\ faults \in Nat

Paid(d) == TxOf[d.hash]

\* However requests overlap, a transaction is credited once for each spelling of
\* its hash, to one user, which on NEAR and Solana is once; and only with USDC
\* that it brought into the wallet and that no revert took back.
CreditsAreBacked ==
    /\ \A d, e \in granted :
          d # e /\ Paid(d) = Paid(e) => d.hash # e.hash /\ Tx[Paid(d)].chain = "base"
    /\ \A d \in granted : /\ Paid(d) \in mined
                          /\ ~Tx[Paid(d)].reverted
                          /\ 0 < d.credits /\ d.credits <= Tx[Paid(d)].total

\* "Processed transaction hashes (for double-spend prevention)": no payment is
\* credited twice.
PaymentCreditedOnce == \A d, e \in granted : Paid(d) = Paid(e) => d = e

LostOn(c) == \E id \in lost : out[id].chain = c

\* A sweep leaves the reserve in the wallet, and never asks for more than is
\* there, whatever is paid in meanwhile; unless the answer to an earlier one
\* was lost, after which the same balance may be swept twice.
ReserveKept ==
    \A c \in Chains :
        ~LostOn(c) =>
            \A id \in DOMAIN out :
                out[id].chain = c =>
                    /\ out[id].state # "reverted"
                    /\ out[id].state = "mined" => wallet[c] >= Reserve

Remembered(rs, id) ==
    \E i \in DOMAIN rs : /\ rs[i].id = id
                         /\ rs[i].chain = out[id].chain
                         /\ rs[i].amount = out[id].amount
                         /\ rs[i].success

\* Between the cycles the history accounts for what has left the wallets: a
\* transfer that was mined is in it, unless its answer was lost or HistoryLimit
\* newer ones have displaced it; and it has nothing that was not mined.
HistoryAccounts ==
    phase = "sleeping" =>
        /\ \A id \in DOMAIN out \ lost :
              out[id].state = "mined" =>
                  \/ Remembered(history, id)
                  \/ /\ Len(history) = HistoryLimit
                     /\ \A i \in DOMAIN history : history[i].id > id
        /\ \A i \in DOMAIN history :
              history[i].success => out[history[i].id].state = "mined"
        /\ Len(history) <= HistoryLimit

\* "Transfers will fail until the account is funded", and no longer: a deposit
\* wallet that has something to sweep and the gas for it, from the start or
\* since some later moment, is swept, once calls to its chain succeed, although
\* other chains fail for ever, at the balance or at the transfer.
EventuallySwept ==
    \A c \in Operators : Reachable(c) => (Due(c) /\ Funded(c) ~> ~Due(c))
=============================================================================
