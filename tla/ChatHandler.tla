----------------------------- MODULE ChatHandler -----------------------------
(***************************************************************************)
(* The bot's message loop (crates/signal-bot/src/main.rs) and its default  *)
(* command, ChatHandler::execute (commands/chat.rs), over the conversation *)
(* store and the users' credit balances.                                   *)
(*                                                                         *)
(* The loop handles one message at a time; one step here is the code up to *)
(* the next answer of the model, tool or store, and between two steps time *)
(* passes and the cleanup task runs.  The model (NEAR AI) and the tools    *)
(* are free to answer what they like, in particular the model may ask for  *)
(* tools it was not offered.  The tokens of its answers are added up for a *)
(* message and priced once (Pricing); deduct_credits is its effect on the  *)
(* balance, and how that is saved is CreditStore's subject.                *)
(***************************************************************************)
EXTENDS ConversationStore, Pricing, FiniteSets

CONSTANTS Users,
          Groups,          \* the keys that are group conversations
          MaxIterations,   \* config tools.max_tool_calls
          Lengths,         \* bytes a message may have
          Usages,          \* tokens an answer of the model may report
          InitialCredits,  \* what each user has deposited
          MaxReceived      \* bound: messages received

ASSUME ChatAssumption ==
    /\ Keys = Users \cup Groups
    /\ Users \cap Groups = {}
    /\ MaxIterations \in Nat
    /\ InitialCredits \in Credits
    /\ Lengths \subseteq Nat
    /\ Usages \subseteq TokenUsage
    /\ MaxReceived \in Nat

VARIABLES hpc,         \* where the handler is
          user, key,   \* sender and conversation of the message it handles
          iteration,   \* of the tool loop
          todo,        \* tool calls of this iteration still to execute
          used,        \* tokens accumulated for this message
          balance,     \* the users' credit balances
          received,    \* messages so far
          spent,       \* history: worth of all tokens used for each user
          answers      \* history: answers finalized, of each user

handlerVars == <<hpc, user, key, iteration, todo, used, balance, received, spent, answers>>
vars == <<storeVars, handlerVars>>

HandlerPhases == {"idle", "preflight", "ask", "call", "tools", "charge"}

\* The message loop waits for the next message.
Return == hpc' = "idle"

Init ==
    /\ StoreInit
    /\ hpc = "idle"
    /\ user \in Users
    /\ key = user
    /\ iteration = 0
    /\ todo = {}
    /\ used = NoTokens
    /\ balance = [u \in Users |-> AddCreditsTo(NewBalance, InitialCredits)]
    /\ received = 0
    /\ spent = [u \in Users |-> 0]
    /\ answers = [u \in Users |-> 0]

-----------------------------------------------------------------------------
(* The message loop. *)

\* Mutant: the token counters live in the handler and are not reset.
StartHandling_KeepingTokens(u, k) ==
    /\ hpc = "idle"
    /\ received < MaxReceived
    /\ received' = received + 1
    /\ user' = u
    /\ key' = k
    /\ iteration' = 0
    /\ hpc' = "preflight"
    /\ UNCHANGED <<todo, used, balance, spent, answers>>

StartHandling(u, k) ==
    /\ hpc = "idle"
    /\ received < MaxReceived
    /\ received' = received + 1
    /\ user' = u
    /\ key' = k
    /\ iteration' = 0
    /\ used' = NoTokens
    /\ hpc' = "preflight"
    /\ UNCHANGED <<todo, balance, spent, answers>>

ReceiveDirect(u) ==
    /\ StartHandling(u, u)
    /\ UNCHANGED storeVars

\* A group message is stored for !summary before any handler sees it, and
\* once more by the chat handler.
ReceiveInGroup(u, g) ==
    /\ StartHandling(u, g)
    /\ AddMessage(g, Text("user", now))

\* In a group that is being translated, a message that does not mention the bot
\* is stored and no handler runs.
Overhear(g) ==
    /\ hpc = "idle"
    /\ received < MaxReceived
    /\ received' = received + 1
    /\ AddMessage(g, Text("user", now))
    /\ UNCHANGED <<hpc, user, key, iteration, todo, used, balance, spent, answers>>

\* !clear, in a direct conversation or in a group by any of its members.
ReceiveClear(k) ==
    /\ hpc = "idle"
    /\ received < MaxReceived
    /\ received' = received + 1
    /\ Clear(k)
    /\ UNCHANGED <<hpc, user, key, iteration, todo, used, balance, spent, answers>>

-----------------------------------------------------------------------------
(* ChatHandler::execute. *)

\* What the credit store answers for a user.
StoreHasCredits(u, required) == HasCredits(balance[u], required)

\* A message of this length is refused without the credits it may cost.
Preflight(length) ==
    /\ hpc = "preflight"
    /\ hpc' = IF StoreHasCredits(user, EstimateCredits(length))
              THEN "ask" ELSE "idle"
    /\ UNCHANGED <<storeVars, user, key, iteration, todo, used, balance, received,
                   spent, answers>>

Ask ==
    /\ hpc = "ask"
    /\ AddMessage(key, Text("user", now))
    /\ hpc' = "call"
    /\ UNCHANGED <<user, key, iteration, todo, used, balance, received, spent, answers>>

\* The history the model is asked with.
Prompt == History(key)

\* The model is being asked.
Asking == hpc = "call" /\ iteration < MaxIterations

\* The tokens of an answer of the model, counted for the message.  An answer
\* that reports none counts as none.
Count(usage) ==
    /\ used' = Accumulate(used, usage)
    /\ spent' = [spent EXCEPT ![user] = @ + Worth(usage)]

\* The model answers in text (or with an empty list of tool calls).
Finalize(usage) ==
    /\ Asking
    /\ Count(usage)
    /\ AddMessage(key, Text("assistant", now))
    /\ answers' = [answers EXCEPT ![user] = @ + 1]
    /\ hpc' = "charge"
    /\ UNCHANGED <<user, key, iteration, todo, balance, received>>

\* Mutant: the tool loop runs once more than configured.
RequestTools_OnceMore(ids, usage) ==
    /\ hpc = "call"
    /\ iteration <= MaxIterations
    /\ Count(usage)
    /\ AddMessage(key, ToolCalls(ids, now))
    /\ todo' = ids
    /\ hpc' = "tools"
    /\ UNCHANGED <<user, key, iteration, balance, received, answers>>

\* The model asks for tools, whether or not they were offered, under identifiers
\* of its choice.
RequestTools(ids, usage) ==
    /\ Asking
    /\ Count(usage)
    /\ AddMessage(key, ToolCalls(ids, now))
    /\ todo' = ids
    /\ hpc' = "tools"
    /\ UNCHANGED <<user, key, iteration, balance, received, answers>>

\* Rate limit, empty answer, any other error: a fixed reply, nothing charged.
ModelFails ==
    /\ Asking
    /\ Return
    /\ UNCHANGED <<storeVars, user, key, iteration, todo, used, balance, received,
                   spent, answers>>

\* Mutant: the result of a tool that failed is not stored.
RunTool_DroppingErrors(id) ==
    /\ hpc = "tools"
    /\ id \in todo
    /\ todo' = todo \ {id}
    /\ \/ AddMessage(key, ToolResult(id, now))
       \/ UNCHANGED storeVars
    /\ IF todo' = {} THEN hpc' = "call" /\ iteration' = iteration + 1
                     ELSE UNCHANGED <<hpc, iteration>>
    /\ UNCHANGED <<user, key, used, balance, received, spent, answers>>

\* A tool that succeeds, fails, is unknown or times out has a result.
RunTool(id) ==
    /\ hpc = "tools"
    /\ id \in todo
    /\ todo' = todo \ {id}
    /\ AddMessage(key, ToolResult(id, now))
    /\ IF todo' = {} THEN hpc' = "call" /\ iteration' = iteration + 1
                     ELSE UNCHANGED <<hpc, iteration>>
    /\ UNCHANGED <<user, key, used, balance, received, spent, answers>>

\* Mutant: one more answer is waited for before giving up.
GiveUp_OffByOne ==
    /\ hpc = "call"
    /\ iteration > MaxIterations
    /\ Return
    /\ UNCHANGED <<storeVars, user, key, iteration, todo, used, balance, received,
                   spent, answers>>

\* The loop ends: a fixed reply, nothing charged.
GiveUp ==
    /\ hpc = "call"
    /\ iteration >= MaxIterations
    /\ Return
    /\ UNCHANGED <<storeVars, user, key, iteration, todo, used, balance, received,
                   spent, answers>>

\* A deduction that is refused is logged; the reply is sent all the same.
Charge ==
    /\ hpc = "charge"
    /\ balance' = [balance EXCEPT ![user] = DeductCreditsFrom(@, CalculateCredits(used))]
    /\ Return
    /\ UNCHANGED <<storeVars, user, key, iteration, todo, used, received, spent, answers>>

Handle ==
    \/ \E length \in Lengths : Preflight(length)
    \/ Ask
    \/ \E usage \in Usages :
          \/ Finalize(usage)
          \/ \E ids \in (SUBSET CallIds) \ {{}} : RequestTools(ids, usage)
    \/ ModelFails
    \/ \E id \in CallIds : RunTool(id)
    \/ GiveUp
    \/ Charge

\* The timeouts of the model (60 s) and the tools (10 s) are far below the TTL
\* (24 h): a conversation does not expire while its message is handled.
InTime == hpc \in {"call", "tools"} => \A e \in conversations[key] : e.expires_at > now + 1

Background == Cleanup \/ (InTime /\ Tick)

Next ==
    \/ \E u \in Users : ReceiveDirect(u) \/ \E g \in Groups : ReceiveInGroup(u, g)
    \/ \E g \in Groups : Overhear(g)
    \/ \E k \in Keys : ReceiveClear(k)
    \/ Handle
    \/ Background /\ UNCHANGED handlerVars

\* The main task is polled whenever the call it awaits has returned, and every
\* call returns: the model's and the tools' have timeouts.
Spec == Init /\ [][Next]_vars /\ WF_vars(Handle)

-----------------------------------------------------------------------------
HandlerTypeOK ==
    /\ hpc \in HandlerPhases
    /\ user \in Users
    /\ key \in Keys
    /\ iteration \in 0 .. MaxIterations
    /\ todo \subseteq CallIds
    /\ used \in TokenUsage
    /\ balance \in [Users -> Balance]
    /\ received \in 0 .. MaxReceived
    /\ spent \in [Users -> Nat]
    /\ answers \in [Users -> Nat]

TypeOK == StoreTypeOK /\ HandlerTypeOK

\* In every prompt each tool call is followed by its result, also when tools
\* failed or an earlier request ended in an error, and results without their call
\* are only at the very front.  Such results do occur: trim counts messages and
\* cuts between a call and its results, and nothing drops what is left of the
\* exchange, so this is less than an API that insists on the call accepts.
PromptWellFormed ==
    hpc = "call" =>
        LET s == Prompt
        IN  /\ CallsAnswered(s)
            /\ \A j \in DOMAIN s : Orphan(s, j) => \A i \in 1 .. j : s[i].role = "tool"

\* What the last iteration needs: the question, and per earlier iteration the
\* calls and their results.
Room ==
    /\ IsFiniteSet(CallIds)
    /\ MaxMessages >= 1 + MaxIterations * (1 + Cardinality(CallIds))

\* Given that room, the question is still in the prompt at every iteration,
\* with nothing after it but this request's own calls and results: trimming,
\* expiry and cleanup never make the model answer something else.
QuestionInPrompt ==
    hpc = "call" /\ Room =>
        LET s == Prompt
        IN  \E q \in DOMAIN s :
                /\ s[q].role = "user"
                /\ \A i \in q + 1 .. Len(s) : s[i].calls # {}
                /\ Len(s) - q >= 2 * iteration

\* Nobody pays for more than the tokens used on their behalf are worth, or the
\* minimum for each answer: not for refused or failed requests, not for another
\* member of the group, not twice, however sums are rounded or wrap around.
NeverOvercharged ==
    \A u \in Users :
        Million * balance[u].total_consumed
            <= spent[u] + Million * (MinimumCredits * answers[u])

\* Every message is responded to: a model that keeps asking for tools, tools
\* that fail and users without credits do not hang the loop.
EveryMessageEnds == hpc # "idle" ~> hpc = "idle"
=============================================================================
