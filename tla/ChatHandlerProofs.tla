-------------------------- MODULE ChatHandlerProofs --------------------------
(***************************************************************************)
(* Machine-checked proofs about ChatHandler, for every set of users,       *)
(* groups and tool calls and every value of the limits.                    *)
(***************************************************************************)
EXTENDS ChatHandler, ConversationStoreProofs, CreditBalanceProofs, FiniteSetTheorems

-----------------------------------------------------------------------------
(* Prices. *)

LEMMA CreditsAreNat == Credits \subseteq Nat /\ 0 \in Credits
BY MaxCreditsAssumption DEF Credits

LEMMA ModuloFacts ==
    ASSUME NEW a \in Nat, NEW n \in Nat \ {0}
    PROVE  a % n \in 0 .. n - 1 /\ a % n \in Nat /\ a % n <= a
OBVIOUS

LEMMA DivisionFacts ==
    ASSUME NEW a \in Nat, NEW n \in Nat \ {0}
    PROVE  a \div n \in Nat /\ n * (a \div n) <= a
OBVIOUS

LEMMA ProductFacts ==
    ASSUME NEW a \in Nat, NEW b \in Nat, NEW c \in Nat
    PROVE  /\ a * c \in Nat /\ c * a \in Nat
           /\ c * (a + b) = c * a + c * b
           /\ (a + b) * c = a * c + b * c
           /\ a <= b => a * c <= b * c /\ c * a <= c * b
OBVIOUS

LEMMA WrapFacts ==
    ASSUME NEW a \in Nat
    PROVE  /\ Wrap32(a) \in Tokens /\ Wrap32(a) \in Nat /\ Wrap32(a) <= a
           /\ Wrap64(a) \in Credits /\ Wrap64(a) \in Nat /\ Wrap64(a) <= a
<1>1. TokenWidth \in Nat \ {0} /\ MaxCredits + 1 \in Nat \ {0} /\ MaxCredits \in Nat
  BY PricingAssumption, MaxCreditsAssumption
<1>2. (MaxCredits + 1) - 1 = MaxCredits
  BY <1>1
<1> QED
  BY <1>1, <1>2, ModuloFacts DEF Wrap32, Wrap64, Tokens, Credits

LEMMA UsageFacts ==
    ASSUME NEW usage \in TokenUsage
    PROVE  /\ usage.prompt_tokens \in Nat /\ usage.completion_tokens \in Nat
           /\ Worth(usage) \in Nat
<1>1. usage.prompt_tokens \in Nat /\ usage.completion_tokens \in Nat
  BY PricingAssumption DEF TokenUsage, Tokens
<1>2. PromptRate \in Nat /\ CompletionRate \in Nat
  BY PricingAssumption, CreditsAreNat
<1>3. /\ usage.prompt_tokens * PromptRate \in Nat
      /\ usage.completion_tokens * CompletionRate \in Nat
  BY <1>1, <1>2, ProductFacts
<1> QED
  BY <1>1, <1>3 DEF Worth

\* Adding up tokens loses some when it wraps around, and never gains any.
LEMMA AccumulateFacts ==
    ASSUME NEW usage \in TokenUsage, NEW more \in TokenUsage
    PROVE  /\ Accumulate(usage, more) \in TokenUsage
           /\ Worth(Accumulate(usage, more)) <= Worth(usage) + Worth(more)
<1> DEFINE p == usage.prompt_tokens + more.prompt_tokens
           c == usage.completion_tokens + more.completion_tokens
<1>1. /\ usage.prompt_tokens \in Nat /\ usage.completion_tokens \in Nat
      /\ more.prompt_tokens \in Nat /\ more.completion_tokens \in Nat
  BY UsageFacts
<1>2. PromptRate \in Nat /\ CompletionRate \in Nat
  BY PricingAssumption, CreditsAreNat
<1>3. p \in Nat /\ c \in Nat
  BY <1>1
<1>4. /\ p * PromptRate = usage.prompt_tokens * PromptRate + more.prompt_tokens * PromptRate
      /\ c * CompletionRate = usage.completion_tokens * CompletionRate
                              + more.completion_tokens * CompletionRate
  BY <1>1, <1>2, ProductFacts
<1>5. Accumulate(usage, more)
          = [prompt_tokens |-> Wrap32(p), completion_tokens |-> Wrap32(c)]
  BY DEF Accumulate
<1> HIDE DEF p, c
<1>6. /\ Wrap32(p) \in Tokens /\ Wrap32(p) \in Nat /\ Wrap32(p) <= p
      /\ Wrap32(c) \in Tokens /\ Wrap32(c) \in Nat /\ Wrap32(c) <= c
  BY <1>3, WrapFacts
<1>7. Accumulate(usage, more) \in TokenUsage
  BY <1>5, <1>6 DEF TokenUsage
<1>8. Worth(Accumulate(usage, more))
          = Wrap32(p) * PromptRate + Wrap32(c) * CompletionRate
  BY <1>5 DEF Worth
<1>9. Wrap32(p) * PromptRate <= p * PromptRate /\ Wrap32(p) * PromptRate \in Nat
  BY <1>2, <1>3, <1>6, ProductFacts
<1>10. Wrap32(c) * CompletionRate <= c * CompletionRate /\ Wrap32(c) * CompletionRate \in Nat
  BY <1>2, <1>3, <1>6, ProductFacts
<1>11. /\ usage.prompt_tokens * PromptRate \in Nat /\ more.prompt_tokens * PromptRate \in Nat
       /\ usage.completion_tokens * CompletionRate \in Nat
       /\ more.completion_tokens * CompletionRate \in Nat
  BY <1>1, <1>2, ProductFacts
<1>12. Worth(Accumulate(usage, more)) <= Worth(usage) + Worth(more)
  BY <1>4, <1>8, <1>9, <1>10, <1>11 DEF Worth
<1> QED
  BY <1>7, <1>12

LEMMA NoTokensFacts == NoTokens \in TokenUsage /\ Worth(NoTokens) = 0
<1>1. PromptRate \in Nat /\ CompletionRate \in Nat
  BY PricingAssumption, CreditsAreNat
<1> QED
  BY <1>1, PricingAssumption DEF NoTokens, TokenUsage, Tokens, Worth

LEMMA CostFacts ==
    ASSUME NEW n \in Nat, NEW rate \in Nat
    PROVE  Cost(n, rate) \in Nat /\ Million * Cost(n, rate) <= n * rate
<1>1. n * rate \in Nat
  BY ProductFacts
<1>2. Wrap64(n * rate) \in Nat /\ Wrap64(n * rate) <= n * rate
  BY <1>1, WrapFacts
<1>3. /\ Wrap64(n * rate) \div Million \in Nat
      /\ Million * (Wrap64(n * rate) \div Million) <= Wrap64(n * rate)
  BY <1>2, DivisionFacts, PricingAssumption
<1>4. Million * (Wrap64(n * rate) \div Million) \in Nat
  BY <1>3, ProductFacts, PricingAssumption
<1> QED
  BY <1>1, <1>2, <1>3, <1>4 DEF Cost

\* A price is at most what the tokens are worth, or the minimum.
LEMMA PriceFacts ==
    ASSUME NEW usage \in TokenUsage
    PROVE  /\ CalculateCredits(usage) \in Credits
           /\ Million * CalculateCredits(usage) \in Nat
           /\ Million * CalculateCredits(usage)
                  <= Worth(usage) + Million * MinimumCredits
<1> DEFINE p == Cost(usage.prompt_tokens, PromptRate)
           c == Cost(usage.completion_tokens, CompletionRate)
<1>1. usage.prompt_tokens \in Nat /\ usage.completion_tokens \in Nat /\ Worth(usage) \in Nat
  BY UsageFacts
<1>2. /\ PromptRate \in Nat /\ CompletionRate \in Nat /\ Million \in Nat
      /\ MinimumCredits \in Nat /\ MinimumCredits \in Credits
  BY PricingAssumption, CreditsAreNat
<1>3. /\ p \in Nat /\ Million * p <= usage.prompt_tokens * PromptRate
      /\ c \in Nat /\ Million * c <= usage.completion_tokens * CompletionRate
  BY <1>1, <1>2, CostFacts
<1>4. CalculateCredits(usage) = Wrap64(p + c) \/ CalculateCredits(usage) = MinimumCredits
  BY DEF CalculateCredits
<1> HIDE DEF p, c
<1>5. Wrap64(p + c) \in Credits /\ Wrap64(p + c) \in Nat /\ Wrap64(p + c) <= p + c
  BY <1>3, WrapFacts
<1>6. /\ Million * Wrap64(p + c) <= Million * (p + c) /\ Million * Wrap64(p + c) \in Nat
      /\ Million * (p + c) = Million * p + Million * c
      /\ Million * p \in Nat /\ Million * c \in Nat
      /\ Million * MinimumCredits \in Nat
  BY <1>2, <1>3, <1>5, ProductFacts
<1>7. /\ usage.prompt_tokens * PromptRate \in Nat
      /\ usage.completion_tokens * CompletionRate \in Nat
  BY <1>1, <1>2, ProductFacts
<1>8. Million * Wrap64(p + c) <= Worth(usage)
  BY <1>3, <1>6, <1>7 DEF Worth
<1> QED
  BY <1>1, <1>2, <1>4, <1>5, <1>6, <1>8

-----------------------------------------------------------------------------
(* The handler's own state. *)

\* What the control point says of the counters.
HandlerInv ==
    /\ HandlerTypeOK
    /\ hpc = "tools" => iteration < MaxIterations
    /\ hpc \in {"preflight", "ask"} => used = NoTokens

LEMMA NewBalanceOfUser ==
    /\ AddCreditsTo(NewBalance, InitialCredits) \in Balance
    /\ AddCreditsTo(NewBalance, InitialCredits).total_consumed = 0
<1>1. InitialCredits \in Credits
  BY ChatAssumption
<1>2. AddCreditsTo(NewBalance, InitialCredits) \in Balance
  BY <1>1, NewBalanceFacts, AddCreditsToFacts
<1> QED
  BY <1>2 DEF AddCreditsTo, NewBalance

LEMMA HandlerInvInit == Init => HandlerInv
<1> SUFFICES ASSUME Init PROVE HandlerInv
  OBVIOUS
<1>1. balance \in [Users -> Balance]
  BY NewBalanceOfUser DEF Init
<1>2. 0 \in 0 .. MaxIterations /\ 0 \in 0 .. MaxReceived
  BY ChatAssumption
<1>3. key \in Keys
  BY ChatAssumption DEF Init
<1>4. hpc \in HandlerPhases /\ hpc = "idle"
  BY DEF Init, HandlerPhases
<1>5. spent \in [Users -> Nat] /\ answers \in [Users -> Nat]
  BY DEF Init
<1>6. NoTokens \in TokenUsage
  BY NoTokensFacts
<1> QED
  BY <1>1, <1>2, <1>3, <1>4, <1>5, <1>6 DEF Init, HandlerInv, HandlerTypeOK

LEMMA CountType ==
    ASSUME HandlerInv, NEW usage \in Usages, Count(usage)
    PROVE  used' \in TokenUsage /\ spent' \in [Users -> Nat]
<1>1. usage \in TokenUsage /\ used \in TokenUsage /\ Worth(usage) \in Nat
  BY ChatAssumption, UsageFacts DEF HandlerInv, HandlerTypeOK
<1>2. used' \in TokenUsage
  BY <1>1, AccumulateFacts DEF Count
<1>3. spent' \in [Users -> Nat]
  BY <1>1 DEF Count, HandlerInv, HandlerTypeOK
<1> QED
  BY <1>2, <1>3

LEMMA HandlerInvNext == HandlerInv /\ [Next]_vars => HandlerInv'
<1> SUFFICES ASSUME HandlerInv, [Next]_vars PROVE HandlerInv'
  OBVIOUS
<1> USE DEF HandlerInv, HandlerTypeOK
<1>0. MaxIterations \in Nat /\ MaxReceived \in Nat /\ Keys = Users \cup Groups
  BY ChatAssumption
<1>1. ASSUME NEW u \in Users, NEW k \in Keys, StartHandling(u, k)
      PROVE  HandlerInv'
  BY <1>0, <1>1, NoTokensFacts DEF StartHandling, HandlerPhases
<1>2. ASSUME NEW k \in Keys, ReceiveClear(k)
      PROVE  HandlerInv'
  BY <1>0, <1>2 DEF ReceiveClear
<1>12. ASSUME NEW g \in Groups, Overhear(g)
       PROVE  HandlerInv'
  BY <1>0, <1>12 DEF Overhear
<1>3. ASSUME NEW length \in Lengths, Preflight(length)
      PROVE  HandlerInv'
  BY <1>3 DEF Preflight, HandlerPhases
<1>4. CASE Ask
  BY <1>4 DEF Ask, HandlerPhases
<1>5. ASSUME NEW usage \in Usages, Finalize(usage)
      PROVE  HandlerInv'
  <2>1. used' \in TokenUsage /\ spent' \in [Users -> Nat]
    BY <1>5, CountType DEF Finalize
  <2>2. answers' \in [Users -> Nat]
    BY <1>5 DEF Finalize
  <2> QED
    BY <1>5, <2>1, <2>2 DEF Finalize, Asking, HandlerPhases
<1>6. ASSUME NEW ids \in SUBSET CallIds, NEW usage \in Usages, RequestTools(ids, usage)
      PROVE  HandlerInv'
  <2>1. used' \in TokenUsage /\ spent' \in [Users -> Nat]
    BY <1>6, CountType DEF RequestTools
  <2> QED
    BY <1>6, <2>1 DEF RequestTools, Asking, HandlerPhases
<1>7. CASE ModelFails
  BY <1>7 DEF ModelFails, Return, HandlerPhases
<1>8. ASSUME NEW id \in CallIds, RunTool(id)
      PROVE  HandlerInv'
  <2>1. CASE todo' = {}
    BY <1>0, <1>8, <2>1 DEF RunTool, HandlerPhases
  <2>2. CASE todo' # {}
    BY <1>0, <1>8, <2>2 DEF RunTool, HandlerPhases
  <2> QED
    BY <2>1, <2>2
<1>9. CASE GiveUp
  BY <1>9 DEF GiveUp, Return, HandlerPhases
<1>10. CASE Charge
  <2>1. DeductCreditsFrom(balance[user], CalculateCredits(used)) \in Balance
    BY PriceFacts, DeductCreditsFromFacts
  <2>2. balance' \in [Users -> Balance]
    BY <1>10, <2>1 DEF Charge
  <2> QED
    BY <1>10, <2>2 DEF Charge, Return, HandlerPhases
<1>11. CASE UNCHANGED handlerVars
  BY <1>11 DEF handlerVars
<1> QED
  <2>1. ASSUME NEW u \in Users, ReceiveDirect(u) PROVE HandlerInv'
    BY <1>0, <1>1, <2>1 DEF ReceiveDirect
  <2>2. ASSUME NEW u \in Users, NEW g \in Groups, ReceiveInGroup(u, g) PROVE HandlerInv'
    BY <1>0, <1>1, <2>2 DEF ReceiveInGroup
  <2>3. CASE Handle
    BY <1>3, <1>4, <1>5, <1>6, <1>7, <1>8, <1>9, <1>10, <2>3 DEF Handle
  <2>4. CASE UNCHANGED vars
    BY <1>11, <2>4 DEF vars
  <2> QED
    BY <1>2, <1>11, <1>12, <2>1, <2>2, <2>3, <2>4 DEF Next

THEOREM HandlerInvariant == Spec => []HandlerInv
<1> QED
  BY HandlerInvInit, HandlerInvNext, PTL DEF Spec

-----------------------------------------------------------------------------
(* The handler is a client of the conversation store. *)

LEMMA HandlerStepOnStore ==
    HandlerInv /\ [Next]_vars => [StoreNext]_storeVars
<1> SUFFICES ASSUME HandlerInv, [Next]_vars PROVE [StoreNext]_storeVars
  OBVIOUS
<1>1. key \in Keys /\ user \in Users /\ Keys = Users \cup Groups
  BY ChatAssumption DEF HandlerInv, HandlerTypeOK
<1>2. ASSUME NEW k \in Keys, NEW m \in NewMessages, AddMessage(k, m)
      PROVE  StoreNext
  BY <1>2 DEF StoreNext
<1>3. Text("user", now) \in NewMessages /\ Text("assistant", now) \in NewMessages
  BY DEF NewMessages
<1>4. ASSUME NEW u \in Users, ReceiveDirect(u) PROVE UNCHANGED storeVars
  BY <1>4 DEF ReceiveDirect
<1>5. ASSUME NEW u \in Users, NEW g \in Groups, ReceiveInGroup(u, g) PROVE StoreNext
  BY <1>1, <1>2, <1>3, <1>5 DEF ReceiveInGroup
<1>6. ASSUME NEW k \in Keys, ReceiveClear(k) PROVE StoreNext
  BY <1>6 DEF ReceiveClear, StoreNext
<1>15. ASSUME NEW g \in Groups, Overhear(g) PROVE StoreNext
  BY <1>1, <1>2, <1>3, <1>15 DEF Overhear
<1>7. CASE ModelFails \/ GiveUp \/ Charge
  BY <1>7 DEF ModelFails, GiveUp, Charge
<1>16. ASSUME NEW length \in Lengths, Preflight(length) PROVE UNCHANGED storeVars
  BY <1>16 DEF Preflight
<1>8. CASE Ask
  BY <1>1, <1>2, <1>3, <1>8 DEF Ask
<1>9. ASSUME NEW usage \in Usages, Finalize(usage) PROVE StoreNext
  BY <1>1, <1>2, <1>3, <1>9 DEF Finalize
<1>10. ASSUME NEW ids \in (SUBSET CallIds) \ {{}}, NEW usage \in Usages,
              RequestTools(ids, usage)
       PROVE  StoreNext
  <2>1. ToolCalls(ids, now) \in NewMessages
    BY DEF NewMessages
  <2> QED
    BY <1>1, <1>2, <1>10, <2>1 DEF RequestTools
<1>11. ASSUME NEW id \in CallIds, RunTool(id) PROVE StoreNext
  <2>1. ToolResult(id, now) \in NewMessages
    BY DEF NewMessages
  <2> QED
    BY <1>1, <1>2, <1>11, <2>1 DEF RunTool
<1>12. CASE Background
  BY <1>12 DEF Background, StoreNext
<1>13. CASE UNCHANGED vars
  BY <1>13 DEF vars
<1>14. CASE Handle
  BY <1>7, <1>8, <1>9, <1>10, <1>11, <1>14, <1>16 DEF Handle
<1> QED
  BY <1>4, <1>5, <1>6, <1>12, <1>13, <1>14, <1>15 DEF Next

\* The message loop, the chat handler and the clear command use the store only
\* through its operations, so what is proved of the store holds in the bot.
THEOREM HandlerUsesStore == Spec => StoreSpec
<1>1. Init => StoreInit
  BY DEF Init
<1> QED
  BY <1>1, HandlerInvariant, HandlerStepOnStore, PTL DEF Spec, StoreSpec

\* Conversations, balances, counters and the control point stay well formed.
THEOREM ChatTypeCorrect == Spec => []TypeOK
<1>1. StoreTypeOK /\ HandlerInv => TypeOK
  BY DEF TypeOK, HandlerInv
<1> QED
  BY <1>1, HandlerUsesStore, StoreTypeCorrect, HandlerInvariant, PTL

-----------------------------------------------------------------------------
(* What users are charged. *)

LEMMA OneMoreAnswer ==
    ASSUME NEW a \in Nat, NEW b \in Nat
    PROVE  a * b \in Nat /\ a * (b + 1) = a * b + a
OBVIOUS

\* What the message in hand may still cost user u, in fractions of a credit.
Due(u) ==
    IF u # user THEN 0
    ELSE IF hpc \in {"call", "tools"} THEN Worth(used)
    ELSE IF hpc = "charge" THEN Million * CalculateCredits(used)
    ELSE 0

\* What user u has been charged, and the most that may be by now.
Charged(u) == Million * balance[u].total_consumed
Ceiling(u) == spent[u] + Million * (MinimumCredits * answers[u])

WithinCeiling == \A u \in Users : Charged(u) + Due(u) <= Ceiling(u)

LEMMA SaturatingAddBound ==
    ASSUME NEW a \in Credits, NEW b \in Credits
    PROVE  SaturatingAdd(a, b) <= a + b
BY MaxCreditsAssumption DEF SaturatingAdd, Credits

LEMMA ChargeTypes ==
    ASSUME HandlerInv, NEW u \in Users
    PROVE  /\ balance[u] \in Balance
           /\ balance[u].total_consumed \in Nat
           /\ balance[u].total_consumed \in Credits
           /\ spent[u] \in Nat /\ answers[u] \in Nat
           /\ used \in TokenUsage /\ Worth(used) \in Nat
           /\ Charged(u) \in Nat /\ Due(u) \in Nat /\ Ceiling(u) \in Nat
           /\ Million \in Nat /\ MinimumCredits \in Nat
           /\ Million * (MinimumCredits * answers[u]) \in Nat
<1>1. balance[u] \in Balance /\ spent[u] \in Nat /\ answers[u] \in Nat /\ used \in TokenUsage
  BY DEF HandlerInv, HandlerTypeOK
<1>2. balance[u].total_consumed \in Credits /\ balance[u].total_consumed \in Nat
  BY <1>1, CreditsAreNat DEF Balance
<1>3. MinimumCredits \in Nat /\ Million \in Nat
  BY PricingAssumption, CreditsAreNat
<1>4. Worth(used) \in Nat /\ Million * CalculateCredits(used) \in Nat
  BY <1>1, UsageFacts, PriceFacts
<1>5. Due(u) \in Nat
  BY <1>4 DEF Due
<1>6. Charged(u) \in Nat
  BY <1>2, <1>3, ProductFacts DEF Charged
<1>7. MinimumCredits * answers[u] \in Nat
  BY <1>1, <1>3, ProductFacts
<1>8. Million * (MinimumCredits * answers[u]) \in Nat
  BY <1>3, <1>7, ProductFacts
<1> QED
  BY <1>1, <1>2, <1>3, <1>4, <1>5, <1>6, <1>8 DEF Ceiling

\* A step that changes neither balances nor usage and leaves nothing more due.
LEMMA NothingMoreDue ==
    ASSUME HandlerInv, WithinCeiling, UNCHANGED <<balance, spent, answers>>,
           \A u \in Users : Due(u)' \in Nat /\ Due(u)' <= Due(u)
    PROVE  WithinCeiling'
<1>1. ASSUME NEW u \in Users
      PROVE  Charged(u)' + Due(u)' <= Ceiling(u)'
  <2>1. Charged(u) \in Nat /\ Due(u) \in Nat /\ Ceiling(u) \in Nat
    BY ChargeTypes
  <2>2. Charged(u) + Due(u) <= Ceiling(u)
    BY DEF WithinCeiling
  <2>3. Ceiling(u)' = Ceiling(u) /\ Charged(u)' = Charged(u)
    BY DEF Ceiling, Charged
  <2>4. Due(u)' \in Nat /\ Due(u)' <= Due(u)
    OBVIOUS
  <2> HIDE DEF Due, Ceiling, Charged
  <2> QED
    BY <2>1, <2>2, <2>3, <2>4
<1> QED
  BY <1>1 DEF WithinCeiling

\* The step to an answer counts its tokens and what it may at least cost.
LEMMA FinalizeWithinCeiling ==
    ASSUME HandlerInv, WithinCeiling, NEW usage \in Usages, Finalize(usage)
    PROVE  WithinCeiling'
<1>1. usage \in TokenUsage /\ Worth(usage) \in Nat
  BY ChatAssumption, UsageFacts
<1>2. /\ user \in Users /\ user' = user /\ hpc = "call" /\ hpc' = "charge"
      /\ balance' = balance
      /\ used' = Accumulate(used, usage)
      /\ spent' = [spent EXCEPT ![user] = @ + Worth(usage)]
      /\ answers' = [answers EXCEPT ![user] = @ + 1]
  BY DEF Finalize, Asking, Count, HandlerInv, HandlerTypeOK
<1>3. ASSUME NEW u \in Users
      PROVE  Charged(u)' + Due(u)' <= Ceiling(u)'
  <2>1. /\ Charged(u) \in Nat /\ spent[u] \in Nat /\ answers[u] \in Nat
        /\ used \in TokenUsage /\ Worth(used) \in Nat
        /\ Million \in Nat /\ MinimumCredits \in Nat
        /\ Million * (MinimumCredits * answers[u]) \in Nat /\ Ceiling(u) \in Nat
    BY ChargeTypes
  <2>2. Charged(u) + Due(u) <= Ceiling(u)
    BY DEF WithinCeiling
  <2>3. Charged(u)' = Charged(u)
    BY <1>2 DEF Charged
  <2>4. CASE u = user
    <3>1. Due(u) = Worth(used)
      BY <1>2, <2>4 DEF Due
    <3>2. /\ used' \in TokenUsage
          /\ Worth(used') <= Worth(used) + Worth(usage) /\ Worth(used') \in Nat
      BY <1>1, <1>2, <2>1, AccumulateFacts, UsageFacts
    <3>3. Due(u)' = Million * CalculateCredits(used')
      BY <1>2, <2>4 DEF Due, CalculateCredits, Cost, Wrap64
    <3>4. /\ Million * CalculateCredits(used') \in Nat
          /\ Million * CalculateCredits(used') <= Worth(used') + Million * MinimumCredits
          /\ Million * MinimumCredits \in Nat
      BY <2>1, <3>2, PriceFacts, ProductFacts
    <3>5. spent'[u] = spent[u] + Worth(usage) /\ answers'[u] = answers[u] + 1
      BY <1>2, <2>4 DEF HandlerInv, HandlerTypeOK
    <3>6. Million * (MinimumCredits * answers'[u])
              = Million * (MinimumCredits * answers[u]) + Million * MinimumCredits
      <4>1. MinimumCredits * (answers[u] + 1) = MinimumCredits * answers[u] + MinimumCredits
        BY <2>1, OneMoreAnswer
      <4>2. MinimumCredits * answers[u] \in Nat
        BY <2>1, ProductFacts
      <4>3. Million * (MinimumCredits * answers[u] + MinimumCredits)
                = Million * (MinimumCredits * answers[u]) + Million * MinimumCredits
        BY <2>1, <4>2, ProductFacts
      <4>4. MinimumCredits * answers'[u] = MinimumCredits * answers[u] + MinimumCredits
        BY <3>5, <4>1
      <4> QED
        BY <4>3, <4>4
    <3>7. Ceiling(u)' = spent[u] + Worth(usage)
                        + (Million * (MinimumCredits * answers[u]) + Million * MinimumCredits)
      BY <3>5, <3>6 DEF Ceiling
    <3>8. Charged(u) + Worth(used) <= spent[u] + Million * (MinimumCredits * answers[u])
      BY <2>2, <3>1 DEF Ceiling
    <3> HIDE DEF Charged
    <3>9. Charged(u) + Million * CalculateCredits(used')
              <= spent[u] + Worth(usage)
                 + (Million * (MinimumCredits * answers[u]) + Million * MinimumCredits)
      BY <1>1, <2>1, <3>2, <3>4, <3>8
    <3> QED
      BY <2>3, <3>3, <3>7, <3>9
  <2>5. CASE u # user
    <3>1. Due(u)' = 0 /\ Due(u) = 0
      BY <1>2, <2>5 DEF Due
    <3>2. spent'[u] = spent[u] /\ answers'[u] = answers[u]
      BY <1>2, <2>5 DEF HandlerInv, HandlerTypeOK
    <3>3. Ceiling(u)' = Ceiling(u)
      BY <3>2 DEF Ceiling
    <3> QED
      BY <2>2, <2>3, <3>1, <3>3
  <2> QED
    BY <2>4, <2>5
<1> QED
  BY <1>3 DEF WithinCeiling

LEMMA RequestToolsWithinCeiling ==
    ASSUME HandlerInv, WithinCeiling, NEW ids, NEW usage \in Usages, RequestTools(ids, usage)
    PROVE  WithinCeiling'
<1>1. usage \in TokenUsage /\ Worth(usage) \in Nat
  BY ChatAssumption, UsageFacts
<1>2. /\ user \in Users /\ user' = user /\ hpc = "call" /\ hpc' = "tools"
      /\ balance' = balance /\ answers' = answers
      /\ used' = Accumulate(used, usage)
      /\ spent' = [spent EXCEPT ![user] = @ + Worth(usage)]
  BY DEF RequestTools, Asking, Count, HandlerInv, HandlerTypeOK
<1>3. ASSUME NEW u \in Users
      PROVE  Charged(u)' + Due(u)' <= Ceiling(u)'
  <2>1. /\ Charged(u) \in Nat /\ spent[u] \in Nat
        /\ used \in TokenUsage /\ Worth(used) \in Nat
        /\ Million * (MinimumCredits * answers[u]) \in Nat
    BY ChargeTypes
  <2>2. Charged(u) + Due(u) <= Ceiling(u)
    BY DEF WithinCeiling
  <2>3. Charged(u)' = Charged(u)
    BY <1>2 DEF Charged
  <2>4. CASE u = user
    <3>1. Due(u) = Worth(used) /\ Due(u)' = Worth(used')
      BY <1>2, <2>4 DEF Due, Worth
    <3>2. Worth(used') \in Nat /\ Worth(used') <= Worth(used) + Worth(usage)
      BY <1>1, <1>2, <2>1, AccumulateFacts, UsageFacts
    <3>3. spent'[u] = spent[u] + Worth(usage)
      BY <1>2, <2>4 DEF HandlerInv, HandlerTypeOK
    <3>4. Ceiling(u)' = spent[u] + Worth(usage) + Million * (MinimumCredits * answers[u])
      BY <1>2, <3>3 DEF Ceiling
    <3>5. Charged(u) + Worth(used) <= spent[u] + Million * (MinimumCredits * answers[u])
      BY <2>2, <3>1 DEF Ceiling
    <3> HIDE DEF Charged
    <3>6. Charged(u) + Worth(used')
              <= spent[u] + Worth(usage) + Million * (MinimumCredits * answers[u])
      BY <1>1, <2>1, <3>2, <3>5
    <3> QED
      BY <2>3, <3>1, <3>4, <3>6
  <2>5. CASE u # user
    <3>1. Due(u)' = 0 /\ Due(u) = 0
      BY <1>2, <2>5 DEF Due
    <3>2. Ceiling(u)' = Ceiling(u)
      BY <1>2, <2>5 DEF Ceiling, HandlerInv, HandlerTypeOK
    <3> QED
      BY <2>2, <2>3, <3>1, <3>2
  <2> QED
    BY <2>4, <2>5
<1> QED
  BY <1>3 DEF WithinCeiling

LEMMA ChargeWithinCeiling ==
    ASSUME HandlerInv, WithinCeiling, Charge
    PROVE  WithinCeiling'
<1> DEFINE price == CalculateCredits(used)
<1>1. /\ user \in Users /\ user' = user /\ hpc = "charge" /\ hpc' = "idle"
      /\ spent' = spent /\ answers' = answers
      /\ balance' = [balance EXCEPT ![user] = DeductCreditsFrom(balance[user], price)]
  BY DEF Charge, Return, HandlerInv, HandlerTypeOK
<1>2. ASSUME NEW u \in Users
      PROVE  Charged(u)' + Due(u)' <= Ceiling(u)'
  <2>1. /\ balance[u] \in Balance /\ balance[u].total_consumed \in Nat
        /\ balance[u].total_consumed \in Credits /\ Million \in Nat
        /\ Charged(u) \in Nat /\ Due(u) \in Nat /\ Ceiling(u) \in Nat
        /\ used \in TokenUsage
    BY ChargeTypes
  <2>2. Charged(u) + Due(u) <= Ceiling(u)
    BY DEF WithinCeiling
  <2>3. Ceiling(u)' = Ceiling(u) /\ Due(u)' = 0
    BY <1>1 DEF Ceiling, Due
  <2>4. CASE u = user
    <3>1. /\ Due(u) = Million * price /\ Million * price \in Nat
          /\ price \in Credits /\ price \in Nat
      BY <1>1, <2>1, <2>4, PriceFacts, CreditsAreNat DEF Due
    <3> HIDE DEF price
    <3>2. balance'[u] = DeductCreditsFrom(balance[u], price)
      BY <1>1, <2>4 DEF HandlerInv, HandlerTypeOK
    <3>3. \/ balance'[u] = balance[u]
          \/ balance'[u].total_consumed = SaturatingAdd(balance[u].total_consumed, price)
      BY <3>2 DEF DeductCreditsFrom
    <3>4. /\ SaturatingAdd(balance[u].total_consumed, price)
                 <= balance[u].total_consumed + price
          /\ SaturatingAdd(balance[u].total_consumed, price) \in Nat
      BY <2>1, <3>1, SaturatingAddBound, SaturatingAddFacts, CreditsAreNat
    <3>5. /\ balance'[u].total_consumed \in Nat
          /\ balance'[u].total_consumed <= balance[u].total_consumed + price
      BY <2>1, <3>1, <3>3, <3>4
    <3>6. /\ Million * balance'[u].total_consumed
                 <= Million * (balance[u].total_consumed + price)
          /\ Million * (balance[u].total_consumed + price)
                 = Million * balance[u].total_consumed + Million * price
          /\ Million * balance'[u].total_consumed \in Nat
      <4>1. balance[u].total_consumed + price \in Nat
        BY <2>1, <3>1
      <4> QED
        BY <2>1, <3>1, <3>5, <4>1, ProductFacts
    <3>7. Charged(u)' = Million * balance'[u].total_consumed
      BY DEF Charged
    <3>8. Charged(u) = Million * balance[u].total_consumed
      BY DEF Charged
    <3> HIDE DEF Charged, Due, Ceiling
    <3>9. Charged(u)' <= Ceiling(u) /\ Charged(u)' \in Nat
      BY <2>1, <2>2, <3>1, <3>6, <3>7, <3>8
    <3> QED
      BY <2>1, <2>3, <3>9
  <2>5. CASE u # user
    <3>1. Charged(u)' = Charged(u) /\ Due(u) = 0
      BY <1>1, <2>5 DEF Due, Charged, HandlerInv, HandlerTypeOK
    <3> QED
      BY <2>2, <2>3, <3>1
  <2> QED
    BY <2>4, <2>5
<1> QED
  BY <1>2 DEF WithinCeiling

LEMMA WithinCeilingInit == Init => WithinCeiling
<1> SUFFICES ASSUME Init, NEW u \in Users
             PROVE  Charged(u) + Due(u) <= Ceiling(u)
  BY DEF WithinCeiling
<1>1. balance[u].total_consumed = 0 /\ Due(u) = 0
  BY NewBalanceOfUser DEF Init, Due
<1>2. MinimumCredits \in Nat /\ Million \in Nat
  BY PricingAssumption, CreditsAreNat
<1>3. Charged(u) = 0
  BY <1>1, <1>2 DEF Charged
<1>4. MinimumCredits * answers[u] = 0 /\ spent[u] = 0
  BY <1>2 DEF Init
<1>5. Ceiling(u) = 0
  BY <1>2, <1>4 DEF Ceiling
<1> QED
  BY <1>1, <1>3, <1>5

LEMMA WithinCeilingNext ==
    HandlerInv /\ WithinCeiling /\ [Next]_vars => WithinCeiling'
<1> SUFFICES ASSUME HandlerInv, WithinCeiling, [Next]_vars PROVE WithinCeiling'
  OBVIOUS
<1>1. \A u \in Users : Due(u) \in Nat
  BY ChargeTypes
<1>2. ASSUME NEW u \in Users, NEW k, StartHandling(u, k) PROVE WithinCeiling'
  <2>1. \A v \in Users : Due(v)' = 0
    BY <1>2 DEF StartHandling, Due
  <2> QED
    BY <1>1, <1>2, <2>1, NothingMoreDue DEF StartHandling
<1>3. ASSUME NEW k \in Keys, ReceiveClear(k) PROVE WithinCeiling'
  <2>1. \A v \in Users : Due(v)' = Due(v)
    BY <1>3 DEF ReceiveClear, Due
  <2> QED
    BY <1>1, <1>3, <2>1, NothingMoreDue DEF ReceiveClear
<1>9. ASSUME NEW g \in Groups, Overhear(g) PROVE WithinCeiling'
  <2>1. \A v \in Users : Due(v)' = Due(v)
    BY <1>9 DEF Overhear, Due
  <2> QED
    BY <1>1, <1>9, <2>1, NothingMoreDue DEF Overhear
<1>10. ASSUME NEW length \in Lengths, Preflight(length) PROVE WithinCeiling'
  <2>1. /\ hpc' \in {"ask", "idle"} /\ user' = user /\ used' = used
        /\ UNCHANGED <<balance, spent, answers>>
    BY <1>10 DEF Preflight
  <2>2. \A v \in Users : Due(v)' = 0
    BY <2>1 DEF Due
  <2> QED
    BY <1>1, <2>1, <2>2, NothingMoreDue
<1>4. CASE ModelFails \/ GiveUp
  <2>1. /\ hpc' \in {"ask", "idle"} /\ user' = user /\ used' = used
        /\ UNCHANGED <<balance, spent, answers>>
    BY <1>4 DEF ModelFails, GiveUp, Return
  <2>2. \A v \in Users : Due(v)' = 0
    BY <2>1 DEF Due
  <2> QED
    BY <1>1, <2>1, <2>2, NothingMoreDue
<1>5. CASE Ask
  <2>1. /\ used = NoTokens /\ used' = used /\ user' = user /\ hpc' = "call"
        /\ UNCHANGED <<balance, spent, answers>>
    BY <1>5 DEF Ask, HandlerInv
  <2>2. Worth(used') = 0
    BY <2>1, NoTokensFacts
  <2>3. \A v \in Users : Due(v)' = 0
    BY <2>1, <2>2 DEF Due
  <2> QED
    BY <1>1, <2>1, <2>3, NothingMoreDue
<1>6. ASSUME NEW id \in CallIds, RunTool(id) PROVE WithinCeiling'
  <2>1. /\ hpc = "tools" /\ hpc' \in {"tools", "call"} /\ used' = used /\ user' = user
        /\ UNCHANGED <<balance, spent, answers>>
    BY <1>6 DEF RunTool
  <2>2. \A v \in Users : Due(v)' = Due(v)
    BY <2>1 DEF Due
  <2> QED
    BY <1>1, <2>1, <2>2, NothingMoreDue
<1>7. CASE UNCHANGED handlerVars
  <2>1. /\ hpc' = hpc /\ used' = used /\ user' = user
        /\ UNCHANGED <<balance, spent, answers>>
    BY <1>7 DEF handlerVars
  <2>2. \A v \in Users : Due(v)' = Due(v)
    BY <2>1 DEF Due
  <2> QED
    BY <1>1, <2>1, <2>2, NothingMoreDue
<1>8. CASE Handle
  BY <1>4, <1>5, <1>6, <1>8, <1>10, FinalizeWithinCeiling, RequestToolsWithinCeiling,
     ChargeWithinCeiling DEF Handle
<1> QED
  BY <1>2, <1>3, <1>7, <1>8, <1>9 DEF Next, ReceiveDirect, ReceiveInGroup, vars

\* Nobody is charged more than the tokens used for them are worth, or the
\* minimum for each answer given to them: not for refused or failed requests,
\* and never twice, for any rates, rounding and wrapping sums.
THEOREM NoOvercharge == Spec => []NeverOvercharged
<1>1. HandlerInv /\ WithinCeiling => NeverOvercharged
  <2> SUFFICES ASSUME HandlerInv, WithinCeiling, NEW u \in Users
               PROVE  Charged(u) <= Ceiling(u)
    BY DEF NeverOvercharged, Charged, Ceiling
  <2>1. Charged(u) + Due(u) <= Ceiling(u)
    BY DEF WithinCeiling
  <2>2. Charged(u) \in Nat /\ Due(u) \in Nat /\ Ceiling(u) \in Nat
    BY ChargeTypes
  <2> HIDE DEF Charged, Due, Ceiling
  <2> QED
    BY <2>1, <2>2
<1>2. Init => WithinCeiling
  BY WithinCeilingInit
<1>3. HandlerInv /\ WithinCeiling /\ [Next]_vars => WithinCeiling'
  BY WithinCeilingNext
<1> QED
  BY <1>1, <1>2, <1>3, HandlerInvariant, PTL DEF Spec

-----------------------------------------------------------------------------
(* Tool calls and their results. *)

\* Up to position j, s ends with the call id and nothing but results, or has
\* nothing but results at all because the call was trimmed away.
FollowsCall(s, j, id) ==
    \/ \E i \in 1 .. j : Requests(s, i, id) /\ \A l \in i + 1 .. j : s[l].role = "tool"
    \/ \A l \in 1 .. j : s[l].role = "tool"

AnsweredOrPending(s, pending) ==
    \A i \in 1 .. Len(s) : \A id \in CallIds :
        Requests(s, i, id) =>
            id \in pending \/ \E j \in 1 .. Len(s) : i < j /\ Answers(s, j, id)

ResultsFollow(s) ==
    \A j \in 1 .. Len(s) : \A id \in CallIds : Answers(s, j, id) => FollowsCall(s, j, id)

PendingFollow(s, pending) == \A id \in pending : FollowsCall(s, Len(s), id)

\* A history in which the calls in pending are still being executed.
WellPaired(s, pending) ==
    AnsweredOrPending(s, pending) /\ ResultsFollow(s) /\ PendingFollow(s, pending)

LEMMA EmptyWellPaired == ASSUME NEW pending PROVE WellPaired(<< >>, pending)
<1>1. Len(<< >>) = 0
  OBVIOUS
<1>2. \A id : FollowsCall(<< >>, 0, id)
  BY DEF FollowsCall
<1> QED
  BY <1>1, <1>2 DEF WellPaired, AnsweredOrPending, ResultsFollow, PendingFollow

\* What a history says of its old positions is not changed by a new message.
LEMMA AppendFacts ==
    ASSUME NEW s \in Seq(StoredMessage), NEW m \in StoredMessage
    PROVE  /\ Append(s, m) \in Seq(StoredMessage)
           /\ Len(s) \in Nat /\ Len(Append(s, m)) = Len(s) + 1
           /\ \A i \in 1 .. Len(s) : Append(s, m)[i] = s[i]
           /\ Append(s, m)[Len(s) + 1] = m
OBVIOUS

LEMMA AppendFollows ==
    ASSUME NEW s \in Seq(StoredMessage), NEW m \in StoredMessage,
           NEW j \in 0 .. Len(s), NEW id, FollowsCall(s, j, id)
    PROVE  FollowsCall(Append(s, m), j, id)
<1> DEFINE t == Append(s, m)
<1>1. Len(s) \in Nat /\ \A i \in 1 .. Len(s) : t[i] = s[i]
  BY AppendFacts
<1> HIDE DEF t
<1>2. CASE \A l \in 1 .. j : s[l].role = "tool"
  <2>1. \A l \in 1 .. j : t[l].role = "tool"
    BY <1>1, <1>2
  <2> QED
    BY <2>1 DEF FollowsCall, t
<1>3. ASSUME NEW i \in 1 .. j, Requests(s, i, id),
             \A l \in i + 1 .. j : s[l].role = "tool"
      PROVE  FollowsCall(t, j, id)
  <2>1. Requests(t, i, id)
    BY <1>1, <1>3 DEF Requests
  <2>2. \A l \in i + 1 .. j : t[l].role = "tool"
    BY <1>1, <1>3
  <2> QED
    BY <2>1, <2>2 DEF FollowsCall
<1> QED
  BY <1>2, <1>3 DEF FollowsCall, t

\* A text starts nothing and ends nothing.
LEMMA TextWellPaired ==
    ASSUME NEW s \in Seq(StoredMessage), NEW m \in StoredMessage, m.calls = {},
           WellPaired(s, {})
    PROVE  WellPaired(Append(s, m), {})
<1> DEFINE t == Append(s, m)
<1>1. /\ Len(s) \in Nat /\ Len(t) = Len(s) + 1 /\ t[Len(s) + 1] = m
      /\ \A i \in 1 .. Len(s) : t[i] = s[i]
  BY AppendFacts
<1>2. \A j \in 1 .. Len(s) : \A id : FollowsCall(s, j, id) => FollowsCall(t, j, id)
  BY <1>1, AppendFollows
<1> HIDE DEF t
<1>3. AnsweredOrPending(t, {})
  <2> SUFFICES ASSUME NEW i \in 1 .. Len(t), NEW id \in CallIds, Requests(t, i, id)
               PROVE  \E j \in 1 .. Len(t) : i < j /\ Answers(t, j, id)
    BY DEF AnsweredOrPending
  <2>1. i \in 1 .. Len(s)
    BY <1>1 DEF Requests
  <2>2. Requests(s, i, id)
    BY <1>1, <2>1 DEF Requests
  <2>3. PICK j \in 1 .. Len(s) : i < j /\ Answers(s, j, id)
    BY <2>1, <2>2 DEF WellPaired, AnsweredOrPending
  <2>4. j \in 1 .. Len(t) /\ Answers(t, j, id)
    BY <1>1, <2>3 DEF Answers
  <2> QED
    BY <2>3, <2>4
<1>4. ResultsFollow(t)
  <2> SUFFICES ASSUME NEW j \in 1 .. Len(t), NEW id \in CallIds, Answers(t, j, id)
               PROVE  FollowsCall(t, j, id)
    BY DEF ResultsFollow
  <2>1. j \in 1 .. Len(s)
    BY <1>1 DEF Answers
  <2>2. Answers(s, j, id)
    BY <1>1, <2>1 DEF Answers
  <2> QED
    BY <1>2, <2>1, <2>2 DEF WellPaired, ResultsFollow
<1> QED
  BY <1>3, <1>4 DEF WellPaired, PendingFollow, t

\* The model's tool calls become the pending ones.
LEMMA CallsWellPaired ==
    ASSUME NEW s \in Seq(StoredMessage), NEW ids \in SUBSET CallIds, NEW at \in Nat,
           WellPaired(s, {})
    PROVE  WellPaired(Append(s, ToolCalls(ids, at)), ids)
<1> DEFINE m == ToolCalls(ids, at)
           t == Append(s, m)
<1>0. m \in StoredMessage /\ m.role = "assistant" /\ m.calls = ids
  BY DEF ToolCalls, StoredMessage, Roles
<1> HIDE DEF m
<1>1. /\ Len(s) \in Nat /\ Len(t) = Len(s) + 1 /\ t[Len(s) + 1] = m
      /\ \A i \in 1 .. Len(s) : t[i] = s[i]
  BY <1>0, AppendFacts
<1>2. \A j \in 1 .. Len(s) : \A id : FollowsCall(s, j, id) => FollowsCall(t, j, id)
  BY <1>0, <1>1, AppendFollows
<1> HIDE DEF t
<1>3. AnsweredOrPending(t, ids)
  <2> SUFFICES ASSUME NEW i \in 1 .. Len(t), NEW id \in CallIds, Requests(t, i, id),
                      id \notin ids
               PROVE  \E j \in 1 .. Len(t) : i < j /\ Answers(t, j, id)
    BY DEF AnsweredOrPending
  <2>1. i \in 1 .. Len(s)
    BY <1>0, <1>1 DEF Requests
  <2>2. Requests(s, i, id)
    BY <1>1, <2>1 DEF Requests
  <2>3. PICK j \in 1 .. Len(s) : i < j /\ Answers(s, j, id)
    BY <2>1, <2>2 DEF WellPaired, AnsweredOrPending
  <2>4. j \in 1 .. Len(t) /\ Answers(t, j, id)
    BY <1>1, <2>3 DEF Answers
  <2> QED
    BY <2>3, <2>4
<1>4. ResultsFollow(t)
  <2> SUFFICES ASSUME NEW j \in 1 .. Len(t), NEW id \in CallIds, Answers(t, j, id)
               PROVE  FollowsCall(t, j, id)
    BY DEF ResultsFollow
  <2>1. j \in 1 .. Len(s)
    BY <1>0, <1>1 DEF Answers
  <2>2. Answers(s, j, id)
    BY <1>1, <2>1 DEF Answers
  <2> QED
    BY <1>2, <2>1, <2>2 DEF WellPaired, ResultsFollow
<1>5. PendingFollow(t, ids)
  <2> SUFFICES ASSUME NEW id \in ids PROVE FollowsCall(t, Len(t), id)
    BY DEF PendingFollow
  <2>1. Len(t) \in 1 .. Len(t) /\ Requests(t, Len(t), id)
    BY <1>0, <1>1 DEF Requests
  <2>2. \A l \in Len(t) + 1 .. Len(t) : t[l].role = "tool"
    BY <1>1
  <2> QED
    BY <2>1, <2>2 DEF FollowsCall
<1> QED
  BY <1>3, <1>4, <1>5 DEF WellPaired, m, t

\* A result answers a pending call.
LEMMA ResultWellPaired ==
    ASSUME NEW s \in Seq(StoredMessage), NEW pending \in SUBSET CallIds,
           NEW id \in pending, NEW at \in Nat, WellPaired(s, pending)
    PROVE  WellPaired(Append(s, ToolResult(id, at)), pending \ {id})
<1> DEFINE m == ToolResult(id, at)
           t == Append(s, m)
<1>0. m \in StoredMessage /\ m.role = "tool" /\ m.calls = {id}
  BY DEF ToolResult, StoredMessage, Roles
<1> HIDE DEF m
<1>1. /\ Len(s) \in Nat /\ Len(t) = Len(s) + 1 /\ t[Len(s) + 1] = m
      /\ \A i \in 1 .. Len(s) : t[i] = s[i]
  BY <1>0, AppendFacts
<1>2. \A j \in 0 .. Len(s) : \A x : FollowsCall(s, j, x) => FollowsCall(t, j, x)
  BY <1>0, <1>1, AppendFollows
<1> HIDE DEF t
<1>3. ASSUME NEW x \in pending PROVE FollowsCall(t, Len(t), x)
  <2>1. FollowsCall(t, Len(s), x)
    BY <1>1, <1>2 DEF WellPaired, PendingFollow
  <2>2. CASE \A l \in 1 .. Len(s) : t[l].role = "tool"
    <3>1. \A l \in 1 .. Len(t) : t[l].role = "tool"
      BY <1>0, <1>1, <2>2
    <3> QED
      BY <3>1 DEF FollowsCall
  <2>3. ASSUME NEW i \in 1 .. Len(s), Requests(t, i, x),
               \A l \in i + 1 .. Len(s) : t[l].role = "tool"
        PROVE  FollowsCall(t, Len(t), x)
    <3>1. \A l \in i + 1 .. Len(t) : t[l].role = "tool"
      BY <1>0, <1>1, <2>3
    <3>2. i \in 1 .. Len(t)
      BY <1>1
    <3> QED
      BY <2>3, <3>1, <3>2 DEF FollowsCall
  <2> QED
    BY <2>1, <2>2, <2>3 DEF FollowsCall
<1>4. AnsweredOrPending(t, pending \ {id})
  <2> SUFFICES ASSUME NEW i \in 1 .. Len(t), NEW x \in CallIds, Requests(t, i, x),
                      x \notin pending \ {id}
               PROVE  \E j \in 1 .. Len(t) : i < j /\ Answers(t, j, x)
    BY DEF AnsweredOrPending
  <2>1. i \in 1 .. Len(s)
    BY <1>0, <1>1 DEF Requests
  <2>2. CASE x = id
    <3>1. Len(t) \in 1 .. Len(t) /\ i < Len(t) /\ Answers(t, Len(t), x)
      BY <1>0, <1>1, <2>1, <2>2 DEF Answers
    <3> QED
      BY <3>1
  <2>3. CASE x # id
    <3>1. Requests(s, i, x) /\ x \notin pending
      BY <1>1, <2>1, <2>3 DEF Requests
    <3>2. PICK j \in 1 .. Len(s) : i < j /\ Answers(s, j, x)
      BY <2>1, <3>1 DEF WellPaired, AnsweredOrPending
    <3>3. j \in 1 .. Len(t) /\ Answers(t, j, x)
      BY <1>1, <3>2 DEF Answers
    <3> QED
      BY <3>2, <3>3
  <2> QED
    BY <2>2, <2>3
<1>5. ResultsFollow(t)
  <2> SUFFICES ASSUME NEW j \in 1 .. Len(t), NEW x \in CallIds, Answers(t, j, x)
               PROVE  FollowsCall(t, j, x)
    BY DEF ResultsFollow
  <2>1. CASE j = Len(t)
    <3>1. x = id
      BY <1>0, <1>1, <2>1 DEF Answers
    <3> QED
      BY <1>3, <2>1, <3>1
  <2>2. CASE j # Len(t)
    <3>1. j \in 1 .. Len(s) /\ Answers(s, j, x)
      BY <1>1, <2>2 DEF Answers
    <3> QED
      BY <1>2, <3>1 DEF WellPaired, ResultsFollow
  <2> QED
    BY <2>1, <2>2
<1>6. PendingFollow(t, pending \ {id})
  BY <1>3 DEF PendingFollow
<1> QED
  BY <1>4, <1>5, <1>6 DEF WellPaired, m, t

\* Trimming keeps results behind their calls, or leaves them at the very front.
LEMMA LastNWellPaired ==
    ASSUME NEW s \in Seq(StoredMessage), NEW n \in Nat, NEW pending,
           WellPaired(s, pending)
    PROVE  WellPaired(LastN(s, n), pending)
<1> DEFINE t == LastN(s, n)
           d == Len(s) - Len(t)
<1>1. Len(t) \in Nat /\ Len(s) \in Nat /\ Len(t) <= Len(s)
  BY LastNLength
<1>2. \A i \in 1 .. Len(t) : t[i] = s[d + i]
  BY LastNElement
<1>3. d \in Nat /\ d + Len(t) = Len(s)
  BY <1>1
<1> HIDE DEF t, d
<1>4. \A i \in 1 .. Len(t) : d + i \in 1 .. Len(s)
  BY <1>1, <1>3
<1>5. ASSUME NEW j \in 0 .. Len(t), NEW id, FollowsCall(s, d + j, id)
      PROVE  FollowsCall(t, j, id)
  <2>1. CASE \A l \in 1 .. d + j : s[l].role = "tool"
    <3>1. ASSUME NEW l \in 1 .. j PROVE t[l].role = "tool"
      <4>1. l \in 1 .. Len(t) /\ d + l \in 1 .. d + j
        BY <1>1, <1>3
      <4> QED
        BY <1>2, <2>1, <4>1
    <3> QED
      BY <3>1 DEF FollowsCall
  <2>2. ASSUME NEW i \in 1 .. d + j, Requests(s, i, id),
               \A l \in i + 1 .. d + j : s[l].role = "tool"
        PROVE  FollowsCall(t, j, id)
    <3>1. CASE i <= d
      <4>1. ASSUME NEW l \in 1 .. j PROVE t[l].role = "tool"
        <5>1. l \in 1 .. Len(t) /\ d + l \in i + 1 .. d + j
          BY <1>1, <1>3, <3>1
        <5> QED
          BY <1>2, <2>2, <5>1
      <4> QED
        BY <4>1 DEF FollowsCall
    <3>2. CASE ~(i <= d)
      <4>1. PICK p \in 1 .. j : i = d + p
        <5>1. i - d \in 1 .. j /\ i = d + (i - d)
          BY <1>1, <1>3, <3>2
        <5> QED
          BY <5>1
      <4>2. p \in 1 .. Len(t)
        BY <1>1
      <4>3. Requests(t, p, id)
        BY <1>2, <2>2, <4>1, <4>2 DEF Requests
      <4>4. ASSUME NEW l \in p + 1 .. j PROVE t[l].role = "tool"
        <5>1. l \in 1 .. Len(t) /\ d + l \in i + 1 .. d + j
          BY <1>1, <1>3, <4>1
        <5> QED
          BY <1>2, <2>2, <5>1
      <4> QED
        BY <4>3, <4>4 DEF FollowsCall
    <3> QED
      BY <3>1, <3>2
  <2> QED
    BY <1>5, <2>1, <2>2 DEF FollowsCall
<1>6. AnsweredOrPending(t, pending)
  <2> SUFFICES ASSUME NEW i \in 1 .. Len(t), NEW id \in CallIds, Requests(t, i, id),
                      id \notin pending
               PROVE  \E j \in 1 .. Len(t) : i < j /\ Answers(t, j, id)
    BY DEF AnsweredOrPending
  <2>1. Requests(s, d + i, id) /\ d + i \in 1 .. Len(s)
    BY <1>2, <1>4 DEF Requests
  <2>2. PICK j \in 1 .. Len(s) : d + i < j /\ Answers(s, j, id)
    BY <2>1 DEF WellPaired, AnsweredOrPending
  <2>3. PICK q \in 1 .. Len(t) : j = d + q
    <3>1. j - d \in 1 .. Len(t) /\ j = d + (j - d)
      BY <1>1, <1>3, <2>2
    <3> QED
      BY <3>1
  <2>4. i < q /\ Answers(t, q, id)
    BY <1>1, <1>2, <1>3, <2>2, <2>3 DEF Answers
  <2> QED
    BY <2>4
<1>7. ResultsFollow(t)
  <2> SUFFICES ASSUME NEW j \in 1 .. Len(t), NEW id \in CallIds, Answers(t, j, id)
               PROVE  FollowsCall(t, j, id)
    BY DEF ResultsFollow
  <2>1. Answers(s, d + j, id) /\ d + j \in 1 .. Len(s)
    BY <1>2, <1>4 DEF Answers
  <2>2. FollowsCall(s, d + j, id)
    BY <2>1 DEF WellPaired, ResultsFollow
  <2>3. j \in 0 .. Len(t)
    BY <1>1
  <2> QED
    BY <1>5, <2>2, <2>3
<1>8. PendingFollow(t, pending)
  <2> SUFFICES ASSUME NEW id \in pending PROVE FollowsCall(t, Len(t), id)
    BY DEF PendingFollow
  <2>1. FollowsCall(s, d + Len(t), id)
    BY <1>3 DEF WellPaired, PendingFollow
  <2>2. Len(t) \in 0 .. Len(t)
    BY <1>1
  <2> QED
    BY <1>5, <2>1, <2>2
<1> QED
  BY <1>6, <1>7, <1>8 DEF WellPaired, t

-----------------------------------------------------------------------------
(* Every prompt is well formed. *)

\* The calls of conversation k that are being executed.
Pending(k) == IF k = key /\ hpc = "tools" THEN todo ELSE {}

CallsPaired == \A k \in Keys : WellPaired(Stored(k), Pending(k))

\* What the operations of the store do to the histories.
LEMMA AddMessageEffect ==
    ASSUME StoreTypeOK, NEW k \in Keys, NEW m, AddMessage(k, m)
    PROVE  /\ Stored(k)' = LastN(Append(Stored(k), m), MaxMessages)
           /\ \A j \in Keys \ {k} : Stored(j)' = Stored(j)
<1> DEFINE entry == [messages   |-> LastN(Append(Stored(k), m), MaxMessages),
                     expires_at |-> now + TTL]
<1>1. conversations' = [conversations EXCEPT ![k] = {entry}]
  BY DEF AddMessage, Pushed, Trim
<1>2. entry.messages = LastN(Append(Stored(k), m), MaxMessages)
  OBVIOUS
<1> HIDE DEF entry
<1>3. DOMAIN conversations = Keys
  BY DEF StoreTypeOK
<1>4. conversations'[k] = {entry}
  BY <1>1, <1>3
<1>5. Stored(k)' = entry.messages
  BY <1>4, TheOnly DEF Stored, NewConversation
<1>6. ASSUME NEW j \in Keys \ {k} PROVE Stored(j)' = Stored(j)
  <2>1. conversations'[j] = conversations[j]
    BY <1>1, <1>3
  <2> QED
    BY <2>1 DEF Stored, NewConversation
<1> QED
  BY <1>2, <1>5, <1>6

LEMMA ClearEffect ==
    ASSUME StoreTypeOK, NEW k \in Keys, Clear(k), NEW j \in Keys
    PROVE  Stored(j)' = << >> \/ Stored(j)' = Stored(j)
<1>1. CASE j = k
  BY <1>1 DEF Clear, StoreTypeOK, Stored, NewConversation
<1>2. CASE j # k
  <2>1. conversations'[j] = conversations[j]
    BY <1>2 DEF Clear, StoreTypeOK
  <2> QED
    BY <2>1 DEF Stored, NewConversation
<1> QED
  BY <1>1, <1>2

LEMMA CleanupEffect ==
    ASSUME StoreTypeOK, Cleanup, NEW j \in Keys
    PROVE  Stored(j)' = << >> \/ Stored(j)' = Stored(j)
<1>1. conversations'[j] = {e \in conversations[j] : Retained(e)}
  BY DEF Cleanup
<1>2. CASE conversations'[j] = {}
  BY <1>2 DEF Stored, NewConversation
<1>3. CASE conversations'[j] # {}
  <2>1. PICK e \in conversations[j] : Retained(e)
    BY <1>1, <1>3
  <2>2. conversations[j] = {e}
    BY <2>1 DEF StoreTypeOK
  <2>3. conversations'[j] = conversations[j]
    BY <1>1, <2>1, <2>2
  <2> QED
    BY <2>3 DEF Stored, NewConversation
<1> QED
  BY <1>2, <1>3

\* A step after which every history is the old one or empty, and no more calls
\* are pending than before.
LEMMA HistoriesKept ==
    ASSUME CallsPaired,
           \A j \in Keys : Stored(j)' = << >> \/ Stored(j)' = Stored(j),
           \A j \in Keys : Pending(j)' = Pending(j)
    PROVE  CallsPaired'
<1>1. ASSUME NEW j \in Keys PROVE WellPaired(Stored(j)', Pending(j)')
  <2>1. CASE Stored(j)' = << >>
    BY <2>1, EmptyWellPaired
  <2>2. CASE Stored(j)' = Stored(j)
    <3>1. WellPaired(Stored(j), Pending(j))
      BY DEF CallsPaired
    <3>2. Pending(j)' = Pending(j)
      OBVIOUS
    <3> HIDE DEF Pending
    <3> QED
      BY <2>2, <3>1, <3>2
  <2> QED
    BY <2>1, <2>2
<1>2. \A j \in Keys : WellPaired(Stored(j), Pending(j))'
  BY <1>1 DEF WellPaired, AnsweredOrPending, ResultsFollow, PendingFollow, FollowsCall,
              Requests, Answers
<1> QED
  BY <1>2 DEF CallsPaired

\* A step that adds one message to conversation k.
LEMMA MessageAdded ==
    ASSUME StoreTypeOK, CallsPaired, NEW k \in Keys, NEW m, AddMessage(k, m),
           WellPaired(Append(Stored(k), m), Pending(k)'),
           Append(Stored(k), m) \in Seq(StoredMessage),
           \A j \in Keys \ {k} : Pending(j)' = Pending(j)
    PROVE  CallsPaired'
<1>1. /\ Stored(k)' = LastN(Append(Stored(k), m), MaxMessages)
      /\ \A j \in Keys \ {k} : Stored(j)' = Stored(j)
  BY AddMessageEffect
<1>2. WellPaired(Stored(k)', Pending(k)')
  BY <1>1, LastNWellPaired, MaxMessagesAssumption
<1>3. ASSUME NEW j \in Keys \ {k} PROVE WellPaired(Stored(j)', Pending(j)')
  <2>1. Stored(j)' = Stored(j) /\ Pending(j)' = Pending(j)
    BY <1>1
  <2>2. WellPaired(Stored(j), Pending(j))
    BY DEF CallsPaired
  <2> QED
    BY <2>1, <2>2
<1>4. \A j \in Keys : WellPaired(Stored(j)', Pending(j)')
  BY <1>2, <1>3
<1>5. \A j \in Keys : WellPaired(Stored(j), Pending(j))'
  BY <1>4 DEF WellPaired, AnsweredOrPending, ResultsFollow, PendingFollow, FollowsCall,
              Requests, Answers
<1> QED
  BY <1>5 DEF CallsPaired

LEMMA MessageTypes ==
    ASSUME StoreTypeOK
    PROVE  /\ Text("user", now) \in StoredMessage /\ Text("user", now).calls = {}
           /\ Text("assistant", now) \in StoredMessage /\ Text("assistant", now).calls = {}
           /\ \A ids \in SUBSET CallIds : ToolCalls(ids, now) \in StoredMessage
           /\ \A id \in CallIds : ToolResult(id, now) \in StoredMessage
BY DEF StoreTypeOK, Text, ToolCalls, ToolResult, StoredMessage, Roles

\* A text is added while no calls are pending.
LEMMA TextAdded ==
    ASSUME StoreTypeOK, CallsPaired, NEW k \in Keys, NEW m \in StoredMessage,
           m.calls = {}, AddMessage(k, m), hpc # "tools", hpc' # "tools"
    PROVE  CallsPaired'
<1>1. \A j \in Keys : Pending(j) = {} /\ Pending(j)' = {}
  BY DEF Pending
<1>2. Stored(k) \in Seq(StoredMessage) /\ WellPaired(Stored(k), {})
  BY <1>1, StoredType DEF CallsPaired
<1>3. WellPaired(Append(Stored(k), m), {})
  BY <1>2, TextWellPaired
<1>4. Append(Stored(k), m) \in Seq(StoredMessage)
  BY <1>2
<1>5. WellPaired(Append(Stored(k), m), Pending(k)')
  BY <1>1, <1>3
<1>6. \A j \in Keys \ {k} : Pending(j)' = Pending(j)
  BY <1>1
<1> QED
  BY <1>4, <1>5, <1>6, MessageAdded

LEMMA CallsPairedInit == Init => CallsPaired
<1> SUFFICES ASSUME Init, NEW k \in Keys PROVE WellPaired(Stored(k), Pending(k))
  BY DEF CallsPaired
<1>1. Stored(k) = << >>
  BY DEF Init, StoreInit, Stored, NewConversation
<1> QED
  BY <1>1, EmptyWellPaired

LEMMA CallsPairedNext ==
    HandlerInv /\ StoreTypeOK /\ CallsPaired /\ [Next]_vars => CallsPaired'
<1> SUFFICES ASSUME HandlerInv, StoreTypeOK, CallsPaired, [Next]_vars
             PROVE  CallsPaired'
  OBVIOUS
<1>0. /\ key \in Keys /\ user \in Users /\ todo \subseteq CallIds
      /\ Keys = Users \cup Groups /\ now \in Nat
  BY ChatAssumption DEF HandlerInv, HandlerTypeOK, StoreTypeOK
<1>1. ASSUME UNCHANGED storeVars, hpc # "tools", hpc' # "tools"
      PROVE  CallsPaired'
  <2>1. \A j \in Keys : Pending(j)' = Pending(j)
    BY <1>1 DEF Pending
  <2>2. conversations' = conversations
    BY <1>1 DEF storeVars
  <2>3. \A j \in Keys : Stored(j)' = Stored(j)
    BY <2>2 DEF Stored, NewConversation
  <2> QED
    BY <2>1, <2>3, HistoriesKept
<1>2. ASSUME NEW u \in Users, ReceiveDirect(u) PROVE CallsPaired'
  BY <1>1, <1>2 DEF ReceiveDirect, StartHandling
<1>3. ASSUME NEW u \in Users, NEW g \in Groups, ReceiveInGroup(u, g) PROVE CallsPaired'
  <2>1. g \in Keys /\ AddMessage(g, Text("user", now)) /\ hpc # "tools" /\ hpc' # "tools"
    BY <1>0, <1>3 DEF ReceiveInGroup, StartHandling
  <2> QED
    BY <2>1, MessageTypes, TextAdded
<1>12. ASSUME NEW g \in Groups, Overhear(g) PROVE CallsPaired'
  <2>1. /\ AddMessage(g, Text("user", now)) /\ g \in Keys
        /\ hpc = "idle" /\ hpc' = "idle"
    BY <1>0, <1>12 DEF Overhear
  <2> QED
    BY <2>1, MessageTypes, TextAdded
<1>4. ASSUME NEW k \in Keys, ReceiveClear(k) PROVE CallsPaired'
  <2>1. Clear(k) /\ hpc' = hpc /\ key' = key /\ todo' = todo
    BY <1>4 DEF ReceiveClear
  <2>2. \A j \in Keys : Pending(j)' = Pending(j)
    BY <2>1 DEF Pending
  <2>3. \A j \in Keys : Stored(j)' = << >> \/ Stored(j)' = Stored(j)
    BY <2>1, ClearEffect
  <2> QED
    BY <2>2, <2>3, HistoriesKept
<1>5. CASE (\E length \in Lengths : Preflight(length)) \/ ModelFails \/ GiveUp \/ Charge
  BY <1>1, <1>5 DEF Preflight, ModelFails, GiveUp, Charge, Asking, Return
<1>6. CASE Ask
  <2>1. AddMessage(key, Text("user", now)) /\ hpc # "tools" /\ hpc' # "tools"
    BY <1>6 DEF Ask
  <2> QED
    BY <1>0, <2>1, MessageTypes, TextAdded
<1>7. ASSUME NEW usage \in Usages, Finalize(usage) PROVE CallsPaired'
  <2>1. AddMessage(key, Text("assistant", now)) /\ hpc # "tools" /\ hpc' # "tools"
    BY <1>7 DEF Finalize, Asking
  <2> QED
    BY <1>0, <2>1, MessageTypes, TextAdded
<1>8. ASSUME NEW ids \in SUBSET CallIds, NEW usage \in Usages, RequestTools(ids, usage)
      PROVE  CallsPaired'
  <2>1. /\ AddMessage(key, ToolCalls(ids, now))
        /\ hpc = "call" /\ hpc' = "tools" /\ key' = key /\ todo' = ids
    BY <1>8 DEF RequestTools, Asking
  <2>2. /\ \A j \in Keys : Pending(j) = {}
        /\ Pending(key)' = ids
        /\ \A j \in Keys \ {key} : Pending(j)' = {}
    BY <2>1 DEF Pending
  <2>3. Stored(key) \in Seq(StoredMessage) /\ WellPaired(Stored(key), {})
    BY <1>0, <2>2, StoredType DEF CallsPaired
  <2>4. WellPaired(Append(Stored(key), ToolCalls(ids, now)), ids)
    BY <1>0, <2>3, CallsWellPaired
  <2>5. Append(Stored(key), ToolCalls(ids, now)) \in Seq(StoredMessage)
    BY <2>3, MessageTypes
  <2>6. WellPaired(Append(Stored(key), ToolCalls(ids, now)), Pending(key)')
    BY <2>2, <2>4
  <2>7. \A j \in Keys \ {key} : Pending(j)' = Pending(j)
    BY <2>2
  <2> QED
    BY <1>0, <2>1, <2>5, <2>6, <2>7, MessageAdded
<1>9. ASSUME NEW id \in CallIds, RunTool(id) PROVE CallsPaired'
  <2>1. /\ AddMessage(key, ToolResult(id, now))
        /\ hpc = "tools" /\ id \in todo /\ key' = key /\ todo' = todo \ {id}
        /\ hpc' = "tools" \/ todo' = {}
    BY <1>9 DEF RunTool
  <2>2. /\ Pending(key) = todo /\ Pending(key)' = todo \ {id}
        /\ \A j \in Keys \ {key} : Pending(j)' = {} /\ Pending(j) = {}
    BY <2>1 DEF Pending
  <2>3. Stored(key) \in Seq(StoredMessage) /\ WellPaired(Stored(key), todo)
    BY <1>0, <2>2, StoredType DEF CallsPaired
  <2>4. WellPaired(Append(Stored(key), ToolResult(id, now)), todo \ {id})
    BY <1>0, <2>1, <2>3, ResultWellPaired
  <2>5. Append(Stored(key), ToolResult(id, now)) \in Seq(StoredMessage)
    BY <2>3, MessageTypes
  <2>6. WellPaired(Append(Stored(key), ToolResult(id, now)), Pending(key)')
    BY <2>2, <2>4
  <2>7. \A j \in Keys \ {key} : Pending(j)' = Pending(j)
    BY <2>2
  <2> QED
    BY <1>0, <2>1, <2>5, <2>6, <2>7, MessageAdded
<1>10. ASSUME UNCHANGED handlerVars, Cleanup \/ Tick \/ UNCHANGED storeVars
       PROVE  CallsPaired'
  <2>1. \A j \in Keys : Pending(j)' = Pending(j)
    BY <1>10 DEF handlerVars, Pending
  <2>2. CASE Cleanup
    BY <2>1, <2>2, CleanupEffect, HistoriesKept
  <2>3. CASE Tick \/ UNCHANGED storeVars
    <3>1. conversations' = conversations
      BY <2>3 DEF Tick, storeVars
    <3>2. \A j \in Keys : Stored(j)' = Stored(j)
      BY <3>1 DEF Stored, NewConversation
    <3> QED
      BY <2>1, <3>2, HistoriesKept
  <2> QED
    BY <1>10, <2>2, <2>3
<1>11. CASE Handle
  BY <1>5, <1>6, <1>7, <1>8, <1>9, <1>11 DEF Handle
<1> QED
  BY <1>2, <1>3, <1>4, <1>10, <1>11, <1>12 DEF Next, Background, vars

LEMMA PairedIsWellFormed ==
    ASSUME StoreTypeOK, HandlerInv, CallsPaired PROVE PromptWellFormed
<1> SUFFICES ASSUME hpc = "call"
             PROVE  /\ CallsAnswered(History(key))
                    /\ \A j \in DOMAIN History(key) :
                           Orphan(History(key), j)
                               => \A i \in 1 .. j : History(key)[i].role = "tool"
  BY DEF PromptWellFormed, Prompt
<1> DEFINE s == History(key)
<1>0. key \in Keys
  BY ChatAssumption DEF HandlerInv, HandlerTypeOK
<1>1. s = << >> \/ s = Stored(key)
  <2>1. CASE Live(key) = {}
    BY <2>1 DEF History
  <2>2. CASE Live(key) # {}
    <3>1. PICK e \in conversations[key] : e \in Live(key)
      BY <2>2 DEF Live
    <3>2. conversations[key] = {e}
      BY <1>0, <3>1 DEF StoreTypeOK
    <3>3. Live(key) = {e}
      BY <3>1, <3>2 DEF Live
    <3> QED
      BY <2>2, <3>2, <3>3, TheOnly DEF History, Stored, NewConversation
  <2> QED
    BY <2>1, <2>2
<1>2. WellPaired(s, {})
  <2>1. WellPaired(Stored(key), {})
    BY <1>0 DEF CallsPaired, Pending
  <2> QED
    BY <1>1, <2>1, EmptyWellPaired
<1> HIDE DEF s
<1>3. s \in Seq(StoredMessage)
  <2>1. Stored(key) \in Seq(StoredMessage)
    BY <1>0, StoredType
  <2>2. << >> \in Seq(StoredMessage)
    OBVIOUS
  <2> QED
    BY <1>1, <2>1, <2>2
<1>4. DOMAIN s = 1 .. Len(s)
  BY <1>3
<1>5. CallsAnswered(s)
  BY <1>2, <1>4 DEF WellPaired, AnsweredOrPending, CallsAnswered
<1>6. ASSUME NEW j \in 1 .. Len(s), Orphan(s, j)
      PROVE  \A i \in 1 .. j : s[i].role = "tool"
  <2>1. PICK id \in CallIds : Answers(s, j, id) /\ ~\E i \in 1 .. j - 1 : Requests(s, i, id)
    BY <1>6 DEF Orphan
  <2>2. FollowsCall(s, j, id)
    BY <1>2, <2>1 DEF WellPaired, ResultsFollow
  <2>3. ~\E i \in 1 .. j : Requests(s, i, id)
    <3>1. ~Requests(s, j, id)
      BY <2>1 DEF Requests, Answers
    <3>2. \A i \in 1 .. j : i = j \/ i \in 1 .. j - 1
      BY <1>3
    <3> QED
      BY <2>1, <3>1, <3>2
  <2> QED
    BY <2>2, <2>3 DEF FollowsCall
<1> QED
  BY <1>4, <1>5, <1>6 DEF s

\* Whatever the model asks for, whichever tools and requests fail, and wherever
\* a history is trimmed: each prompt pairs every tool call with its result.
THEOREM PromptsPaired == Spec => []PromptWellFormed
<1>1. Init => CallsPaired
  BY CallsPairedInit
<1>2. HandlerInv /\ StoreTypeOK /\ CallsPaired /\ [Next]_vars => CallsPaired'
  BY CallsPairedNext
<1>3. StoreTypeOK /\ HandlerInv /\ CallsPaired => PromptWellFormed
  BY PairedIsWellFormed
<1> QED
  BY <1>1, <1>2, <1>3, HandlerInvariant, HandlerUsesStore, StoreTypeCorrect, PTL DEF Spec

-----------------------------------------------------------------------------
(* The question stays in the prompt. *)

\* In s there is a question with between least and most messages after it, all
\* of them tool calls or their results.
QuestionKept(s, least, most) ==
    \E q \in 1 .. Len(s) :
        /\ s[q].role = "user"
        /\ \A i \in q + 1 .. Len(s) : s[i].calls # {}
        /\ least <= Len(s) - q
        /\ Len(s) - q <= most

\* An iteration adds the message with the calls and the result of each.
PerIteration == 1 + Cardinality(CallIds)

Least == 2 * iteration + IF hpc = "tools" THEN 1 ELSE 0
Most == iteration * PerIteration
            + IF hpc = "tools" THEN PerIteration - Cardinality(todo) ELSE 0

\* While the model and the tools work on a message, its conversation has not
\* expired and, given room, still holds the question.
QuestionStored ==
    /\ hpc \in {"preflight", "ask"} => iteration = 0
    /\ hpc \in {"call", "tools"} =>
          /\ \E e \in conversations[key] : e.expires_at > now
          /\ Room => QuestionKept(Stored(key), Least, Most)

\* Trimming does not reach the question while there is room for it and what
\* follows.
LEMMA QuestionPushed ==
    ASSUME NEW s \in Seq(StoredMessage), NEW m \in StoredMessage, m.calls # {},
           NEW least \in Nat, NEW most \in Nat, QuestionKept(s, least, most),
           most + 2 <= MaxMessages
    PROVE  QuestionKept(PushLast(s, m, MaxMessages), least + 1, most + 1)
<1> DEFINE t == PushLast(s, m, MaxMessages)
<1>0. Len(s) \in Nat /\ MaxMessages \in Nat
  BY MaxMessagesAssumption
<1>1. /\ Len(t) \in Nat
      /\ Len(t) = IF Len(s) + 1 > MaxMessages THEN MaxMessages ELSE Len(s) + 1
  BY <1>0, PushLastLength
<1>2. \A i \in 1 .. Len(t) :
          t[i] = IF i = Len(t) THEN m ELSE s[Len(s) + 1 - Len(t) + i]
  BY <1>0, PushLastElements
<1> HIDE DEF t
<1>3. PICK q \in 1 .. Len(s) : /\ s[q].role = "user"
                               /\ \A i \in q + 1 .. Len(s) : s[i].calls # {}
                               /\ least <= Len(s) - q
                               /\ Len(s) - q <= most
  BY DEF QuestionKept
<1>4. PICK d \in Nat : d = Len(s) + 1 - Len(t)
  <2>1. Len(s) + 1 - Len(t) \in Nat
    BY <1>0, <1>1
  <2> QED
    BY <2>1
<1>5. PICK p \in Nat : q = d + p
  <2>1. q \in Nat /\ 1 <= q /\ q <= Len(s) /\ Len(s) + 2 <= MaxMessages + q
    BY <1>0, <1>3
  <2>2. d <= q
    BY <1>0, <1>1, <1>4, <2>1
  <2>3. q - d \in Nat /\ q = d + (q - d)
    BY <2>1, <2>2
  <2> QED
    BY <2>3
<1>6. p \in 1 .. Len(t) /\ p < Len(t) /\ Len(t) - p = Len(s) - q + 1
  BY <1>0, <1>1, <1>3, <1>4, <1>5
<1>7. t[p].role = "user"
  <2>1. t[p] = s[d + p]
    BY <1>2, <1>4, <1>6
  <2> QED
    BY <1>3, <1>5, <2>1
<1>8. ASSUME NEW i \in p + 1 .. Len(t) PROVE t[i].calls # {}
  <2>1. i \in 1 .. Len(t) /\ i \in Nat
    BY <1>1, <1>6
  <2>2. CASE i = Len(t)
    BY <1>2, <2>1, <2>2
  <2>3. CASE i # Len(t)
    <3>1. t[i] = s[d + i]
      BY <1>2, <1>4, <2>1, <2>3
    <3>2. d + i \in q + 1 .. Len(s)
      BY <1>0, <1>1, <1>4, <1>5, <2>1, <2>3
    <3> QED
      BY <1>3, <3>1, <3>2
  <2> QED
    BY <2>2, <2>3
<1>9. least + 1 <= Len(t) - p /\ Len(t) - p <= most + 1
  <2>1. PICK n \in Nat : n = Len(s) - q
    <3>1. Len(s) - q \in Nat
      BY <1>0, <1>3
    <3> QED
      BY <3>1
  <2>2. Len(t) - p = n + 1 /\ least <= n /\ n <= most
    BY <1>3, <1>6, <2>1
  <2> QED
    BY <2>2
<1>10. QuestionKept(t, least + 1, most + 1)
  BY <1>6, <1>7, <1>8, <1>9 DEF QuestionKept
<1> QED
  BY <1>10 DEF t

LEMMA QuestionAsked ==
    ASSUME NEW s \in Seq(StoredMessage), NEW m \in StoredMessage, m.role = "user",
           MaxMessages >= 1
    PROVE  QuestionKept(PushLast(s, m, MaxMessages), 0, 0)
<1> DEFINE t == PushLast(s, m, MaxMessages)
<1>0. Len(s) \in Nat /\ MaxMessages \in Nat
  BY MaxMessagesAssumption
<1>1. /\ Len(t) \in Nat
      /\ Len(t) = IF Len(s) + 1 > MaxMessages THEN MaxMessages ELSE Len(s) + 1
  BY <1>0, PushLastLength
<1>2. Len(t) \in 1 .. Len(t)
  BY <1>0, <1>1
<1>3. t[Len(t)] = m
  BY <1>0, <1>2, PushLastElements
<1> HIDE DEF t
<1>4. Len(t) - Len(t) = 0 /\ Len(t) + 1 .. Len(t) = {}
  BY <1>1
<1>5. QuestionKept(t, 0, 0)
  BY <1>2, <1>3, <1>4 DEF QuestionKept
<1> QED
  BY <1>5 DEF t

\* The entry a message is added to is live.
LEMMA AddedIsLive ==
    ASSUME StoreTypeOK, NEW k \in Keys, NEW m, AddMessage(k, m)
    PROVE  \E e \in conversations'[k] : e.expires_at > now'
<1> DEFINE entry == [messages |-> Pushed(Stored(k), m), expires_at |-> now + TTL]
<1>1. conversations'[k] = {entry} /\ now' = now
  BY DEF AddMessage, StoreTypeOK
<1>2. now + TTL > now
  BY StoreAssumption DEF StoreTypeOK
<1>3. entry.expires_at > now'
  BY <1>1, <1>2
<1> QED
  BY <1>1, <1>3

\* What room there is, in messages.
LEMMA RoomFacts ==
    ASSUME HandlerInv, Room
    PROVE  /\ PerIteration \in Nat /\ PerIteration >= 1
           /\ iteration \in Nat /\ iteration * PerIteration \in Nat
           /\ IsFiniteSet(todo) /\ Cardinality(todo) \in Nat
           /\ Cardinality(todo) < PerIteration
           /\ MaxMessages \in Nat /\ MaxMessages >= 1
           /\ (iteration + 1) * PerIteration = iteration * PerIteration + PerIteration
           /\ iteration < MaxIterations
                 => 1 + iteration * PerIteration + PerIteration <= MaxMessages
<1>1. IsFiniteSet(CallIds) /\ Cardinality(CallIds) \in Nat
  BY FS_CardinalityType DEF Room
<1>2. PICK c \in Nat : c = PerIteration /\ c = 1 + Cardinality(CallIds)
  BY <1>1 DEF PerIteration
<1>3. iteration \in Nat /\ MaxIterations \in Nat /\ MaxMessages \in Nat
  BY ChatAssumption, MaxMessagesAssumption DEF HandlerInv, HandlerTypeOK
<1>4. /\ IsFiniteSet(todo) /\ Cardinality(todo) \in Nat
      /\ Cardinality(todo) <= Cardinality(CallIds)
  <2>1. todo \subseteq CallIds
    BY DEF HandlerInv, HandlerTypeOK
  <2> QED
    BY <1>1, <2>1, FS_Subset, FS_CardinalityType
<1>5. iteration * c \in Nat /\ (iteration + 1) * c = iteration * c + c
  BY <1>2, <1>3, ProductFacts
<1>6. MaxMessages >= 1 + MaxIterations * c /\ MaxIterations * c \in Nat
  BY <1>2, <1>3, ProductFacts DEF Room
<1>7. ASSUME iteration < MaxIterations
      PROVE  1 + iteration * c + c <= MaxMessages
  <2>1. iteration + 1 \in Nat /\ iteration + 1 <= MaxIterations
    BY <1>3, <1>7
  <2>2. (iteration + 1) * c <= MaxIterations * c
    BY <1>2, <1>3, <2>1, ProductFacts
  <2> QED
    BY <1>2, <1>3, <1>5, <1>6, <2>2
<1>8. Cardinality(todo) < c /\ c >= 1
  BY <1>1, <1>2, <1>4
<1>9. MaxMessages >= 1
  BY <1>3, <1>6
<1> QED
  BY <1>2, <1>3, <1>4, <1>5, <1>7, <1>8, <1>9

LEMMA QuestionStoredInit == Init => QuestionStored
BY DEF Init, QuestionStored

\* The steps of the handler that do not leave it in the tool loop.
LEMMA OutsideTheLoop ==
    ASSUME hpc' \notin {"call", "tools"},
           hpc' \in {"preflight", "ask"} => iteration' = 0
    PROVE  QuestionStored'
BY DEF QuestionStored

LEMMA AskStored ==
    ASSUME HandlerInv, StoreTypeOK, QuestionStored, Ask
    PROVE  QuestionStored'
<1>1. /\ AddMessage(key, Text("user", now)) /\ key' = key /\ key \in Keys
      /\ hpc' = "call" /\ iteration' = iteration /\ iteration = 0
  BY ChatAssumption DEF Ask, HandlerInv, HandlerTypeOK, QuestionStored
<1>2. \E e \in conversations'[key'] : e.expires_at > now'
  BY <1>1, AddedIsLive
<1>3. ASSUME Room PROVE QuestionKept(Stored(key), Least, Most)'
  <2> DEFINE m == Text("user", now)
  <2>1. m \in StoredMessage /\ m.role = "user" /\ Stored(key) \in Seq(StoredMessage)
    BY <1>1, MessageTypes, StoredType DEF Text
  <2> HIDE DEF m
  <2>2. Stored(key)' = PushLast(Stored(key), m, MaxMessages)
    BY <1>1, AddMessageEffect DEF PushLast, m
  <2>3. QuestionKept(PushLast(Stored(key), m, MaxMessages), 0, 0)
    BY <1>3, <2>1, QuestionAsked, RoomFacts
  <2>4. Least' = 0 /\ Most' = 0
    <3>1. PerIteration \in Nat
      BY <1>3, RoomFacts
    <3>2. PerIteration' = PerIteration
      BY DEF PerIteration
    <3> QED
      BY <1>1, <3>1, <3>2 DEF Least, Most
  <2>5. QuestionKept(Stored(key)', Least', Most')
    BY <1>1, <2>2, <2>3, <2>4
  <2> QED
    BY <2>5 DEF QuestionKept
<1> QED
  BY <1>1, <1>2, <1>3 DEF QuestionStored, Room

LEMMA RequestStored ==
    ASSUME HandlerInv, StoreTypeOK, QuestionStored,
           NEW ids \in (SUBSET CallIds) \ {{}}, NEW usage \in Usages, RequestTools(ids, usage)
    PROVE  QuestionStored'
<1>1. /\ AddMessage(key, ToolCalls(ids, now)) /\ key' = key /\ key \in Keys
      /\ hpc = "call" /\ hpc' = "tools" /\ iteration' = iteration
      /\ iteration < MaxIterations /\ todo' = ids
  BY ChatAssumption DEF RequestTools, Asking, HandlerInv, HandlerTypeOK
<1>2. \E e \in conversations'[key'] : e.expires_at > now'
  BY <1>1, AddedIsLive
<1>3. ASSUME Room PROVE QuestionKept(Stored(key), Least, Most)'
  <2> DEFINE m == ToolCalls(ids, now)
             done == iteration * PerIteration
             left == PerIteration - Cardinality(ids)
  <2>1. /\ m \in StoredMessage /\ m.calls # {}
        /\ Stored(key) \in Seq(StoredMessage)
    <3>1. ids \in SUBSET CallIds /\ ids # {}
      OBVIOUS
    <3>2. m \in StoredMessage
      BY <3>1, MessageTypes
    <3>3. m.calls # {}
      BY <3>1 DEF ToolCalls
    <3> QED
      BY <1>1, <3>2, <3>3, StoredType
  <2> HIDE DEF m
  <2>2. Stored(key)' = PushLast(Stored(key), m, MaxMessages)
    BY <1>1, AddMessageEffect DEF PushLast, m
  <2>3. /\ done \in Nat /\ PerIteration \in Nat /\ PerIteration >= 1
        /\ iteration \in Nat /\ MaxMessages \in Nat
        /\ 1 + done + PerIteration <= MaxMessages
    BY <1>1, <1>3, RoomFacts
  <2>4. left \in Nat /\ left >= 1
    <3>1. /\ IsFiniteSet(CallIds) /\ Cardinality(CallIds) \in Nat
          /\ Cardinality(ids) \in Nat /\ Cardinality(ids) <= Cardinality(CallIds)
      BY <1>3, FS_Subset, FS_CardinalityType DEF Room
    <3> QED
      BY <3>1 DEF PerIteration
  <2>5. QuestionKept(Stored(key), 2 * iteration, done)
    <3>1. Least = 2 * iteration /\ Most = done
      BY <1>1, <2>3 DEF Least, Most
    <3> QED
      BY <1>1, <1>3, <3>1 DEF QuestionStored
  <2>6. Least' = 2 * iteration + 1 /\ Most' = done + left
    BY <1>1 DEF Least, Most, PerIteration
  <2> HIDE DEF done, left
  <2>7. QuestionKept(PushLast(Stored(key), m, MaxMessages), 2 * iteration + 1, done + 1)
    <3>1. 2 * iteration \in Nat /\ done + 2 <= MaxMessages
      BY <2>3
    <3> QED
      BY <2>1, <2>3, <2>5, <3>1, QuestionPushed
  <2>8. QuestionKept(Stored(key)', 2 * iteration + 1, done + left)
    <3>1. PICK q \in 1 .. Len(Stored(key)') :
              /\ Stored(key)'[q].role = "user"
              /\ \A i \in q + 1 .. Len(Stored(key)') : Stored(key)'[i].calls # {}
              /\ 2 * iteration + 1 <= Len(Stored(key)') - q
              /\ Len(Stored(key)') - q <= done + 1
      BY <2>2, <2>7 DEF QuestionKept
    <3>2. Len(Stored(key)') \in Nat
      BY <2>1, <2>2, <2>3, PushLastLength
    <3>3. Len(Stored(key)') - q <= done + left
      BY <2>3, <2>4, <3>1, <3>2
    <3> QED
      BY <3>1, <3>3 DEF QuestionKept
  <2>9. QuestionKept(Stored(key)', Least', Most')
    BY <2>6, <2>8
  <2> QED
    BY <1>1, <2>9 DEF QuestionKept
<1> QED
  BY <1>1, <1>2, <1>3 DEF QuestionStored, Room

LEMMA RunToolStored ==
    ASSUME HandlerInv, StoreTypeOK, QuestionStored, NEW id \in CallIds, RunTool(id)
    PROVE  QuestionStored'
<1>1. /\ AddMessage(key, ToolResult(id, now)) /\ key' = key /\ key \in Keys
      /\ hpc = "tools" /\ iteration < MaxIterations
      /\ id \in todo /\ todo' = todo \ {id}
      /\ \/ todo' = {} /\ hpc' = "call" /\ iteration' = iteration + 1
         \/ todo' # {} /\ hpc' = "tools" /\ iteration' = iteration
  BY ChatAssumption DEF RunTool, HandlerInv, HandlerTypeOK
<1>2. \E e \in conversations'[key'] : e.expires_at > now'
  BY <1>1, AddedIsLive
<1>3. ASSUME Room PROVE QuestionKept(Stored(key), Least, Most)'
  <2> DEFINE m == ToolResult(id, now)
             done == iteration * PerIteration
  <2>1. /\ m \in StoredMessage /\ m.calls # {}
        /\ Stored(key) \in Seq(StoredMessage)
    BY <1>1, MessageTypes, StoredType DEF ToolResult
  <2> HIDE DEF m
  <2>2. Stored(key)' = PushLast(Stored(key), m, MaxMessages)
    BY <1>1, AddMessageEffect DEF PushLast, m
  <2>3. /\ done \in Nat /\ PerIteration \in Nat /\ PerIteration >= 1
        /\ iteration \in Nat /\ MaxMessages \in Nat
        /\ Cardinality(todo) \in Nat /\ Cardinality(todo) < PerIteration
        /\ 1 + done + PerIteration <= MaxMessages
    BY <1>1, <1>3, RoomFacts
  <2>4. Cardinality(todo') = Cardinality(todo) - 1 /\ Cardinality(todo) >= 1
    <3>1. IsFiniteSet(todo)
      BY <1>3, RoomFacts
    <3>2. Cardinality(todo \ {id}) = Cardinality(todo) - 1 /\ IsFiniteSet(todo \ {id})
      BY <1>1, <3>1, FS_RemoveElement
    <3>3. Cardinality(todo \ {id}) \in Nat
      BY <3>2, FS_CardinalityType
    <3> QED
      BY <1>1, <2>3, <3>2, <3>3
  <2>5. PICK left \in Nat : left = PerIteration - Cardinality(todo)
    BY <2>3
  <2>6. QuestionKept(Stored(key), 2 * iteration + 1, done + left)
    <3>1. Least = 2 * iteration + 1 /\ Most = done + left
      BY <1>1, <2>5 DEF Least, Most
    <3> QED
      BY <1>1, <1>3, <3>1 DEF QuestionStored
  <2>7. Least' <= 2 * iteration + 2 /\ Least' \in Nat /\ Most' = done + left + 1
    <3>1. PerIteration' = PerIteration
      BY DEF PerIteration
    <3>2. CASE hpc' = "call"
      <4>1. todo' = {} /\ iteration' = iteration + 1
        BY <1>1, <3>2
      <4>2. Cardinality(todo) = 1
        <5>1. Cardinality(todo') = 0
          BY <4>1, FS_EmptySet
        <5> QED
          BY <2>3, <2>4, <5>1
      <4>3. (iteration + 1) * PerIteration = done + PerIteration
        BY <1>3, RoomFacts
      <4>4. Most' = done + PerIteration
        <5>1. Most' = iteration' * PerIteration' + 0
          BY <3>2 DEF Most
        <5> QED
          BY <2>3, <3>1, <4>1, <4>3, <5>1
      <4>5. Least' = 2 * iteration + 2
        BY <2>3, <3>2, <4>1 DEF Least
      <4> HIDE DEF done
      <4>6. done + PerIteration = done + left + 1
        BY <2>3, <2>5, <4>2
      <4> QED
        BY <2>3, <4>4, <4>5, <4>6
    <3>3. CASE hpc' = "tools"
      <4>1. iteration' = iteration
        BY <1>1, <3>3
      <4>2. Most' = done + (PerIteration - Cardinality(todo'))
        BY <3>1, <3>3, <4>1 DEF Most
      <4>3. Least' = 2 * iteration + 1
        BY <2>3, <3>3, <4>1 DEF Least
      <4> HIDE DEF done
      <4>4. done + (PerIteration - Cardinality(todo')) = done + left + 1
        BY <2>3, <2>4, <2>5
      <4> QED
        BY <2>3, <4>2, <4>3, <4>4
    <3> QED
      BY <1>1, <3>2, <3>3
  <2> HIDE DEF done
  <2>8. QuestionKept(PushLast(Stored(key), m, MaxMessages), 2 * iteration + 2,
                     done + left + 1)
    <3>1. /\ 2 * iteration + 1 \in Nat /\ done + left \in Nat
          /\ done + left + 2 <= MaxMessages
          /\ 2 * iteration + 1 + 1 = 2 * iteration + 2
      BY <2>3, <2>4, <2>5
    <3> QED
      BY <2>1, <2>6, <3>1, QuestionPushed
  <2>9. QuestionKept(Stored(key)', Least', Most')
    <3>1. PICK q \in 1 .. Len(Stored(key)') :
              /\ Stored(key)'[q].role = "user"
              /\ \A i \in q + 1 .. Len(Stored(key)') : Stored(key)'[i].calls # {}
              /\ 2 * iteration + 2 <= Len(Stored(key)') - q
              /\ Len(Stored(key)') - q <= done + left + 1
      BY <2>2, <2>8 DEF QuestionKept
    <3>2. Len(Stored(key)') \in Nat
      BY <2>1, <2>2, <2>3, PushLastLength
    <3>3. Least' <= Len(Stored(key)') - q
      BY <2>3, <2>7, <3>1, <3>2
    <3> QED
      BY <2>7, <3>1, <3>3 DEF QuestionKept
  <2> QED
    BY <1>1, <2>9 DEF QuestionKept
<1> QED
  BY <1>1, <1>2, <1>3 DEF QuestionStored, Room

\* Neither the cleanup task nor, in time, the clock takes the conversation of
\* the message in hand away.
LEMMA BackgroundStored ==
    ASSUME HandlerInv, StoreTypeOK, QuestionStored, Background, UNCHANGED handlerVars
    PROVE  QuestionStored'
<1>1. /\ hpc' = hpc /\ key' = key /\ iteration' = iteration /\ todo' = todo
      /\ key \in Keys
  BY ChatAssumption DEF handlerVars, HandlerInv, HandlerTypeOK
<1>2. CASE hpc \notin {"call", "tools"}
  BY <1>1, <1>2 DEF QuestionStored
<1>3. CASE hpc \in {"call", "tools"}
  <2>1. PICK e \in conversations[key] : e.expires_at > now
    BY <1>3 DEF QuestionStored
  <2>2. conversations[key] = {e} /\ e \in Entry /\ now \in Nat
    BY <1>1, <2>1 DEF StoreTypeOK
  <2>3. conversations'[key] = conversations[key] /\ e.expires_at > now'
    <3>1. CASE Cleanup
      <4>1. /\ conversations'[key] = {f \in conversations[key] : Retained(f)}
            /\ now' = now
        BY <1>1, <3>1 DEF Cleanup
      <4> QED
        BY <2>1, <2>2, <4>1 DEF Retained
    <3>2. CASE InTime /\ Tick
      BY <1>3, <2>1, <3>2 DEF InTime, Tick
    <3> QED
      BY <3>1, <3>2 DEF Background
  <2>4. Stored(key)' = Stored(key)
    BY <1>1, <2>3 DEF Stored, NewConversation
  <2>5. Least' = Least /\ Most' = Most
    BY <1>1 DEF Least, Most, PerIteration
  <2>6. Room => QuestionKept(Stored(key), Least, Most)'
    BY <1>3, <2>4, <2>5 DEF QuestionStored, QuestionKept
  <2> QED
    BY <1>1, <1>3, <2>1, <2>3, <2>6 DEF QuestionStored, Room
<1> QED
  BY <1>2, <1>3

LEMMA QuestionStoredNext ==
    HandlerInv /\ StoreTypeOK /\ QuestionStored /\ [Next]_vars => QuestionStored'
<1> SUFFICES ASSUME HandlerInv, StoreTypeOK, QuestionStored, [Next]_vars
             PROVE  QuestionStored'
  OBVIOUS
<1>1. ASSUME NEW u, NEW k, StartHandling(u, k) PROVE QuestionStored'
  <2>1. hpc' = "preflight" /\ iteration' = 0
    BY <1>1 DEF StartHandling
  <2> QED
    BY <2>1, OutsideTheLoop
<1>2. ASSUME hpc = "idle", hpc' = hpc PROVE QuestionStored'
  BY <1>2, OutsideTheLoop
<1>3. ASSUME NEW length \in Lengths, Preflight(length) PROVE QuestionStored'
  <2>1. hpc' \in {"ask", "idle"} /\ iteration' = iteration /\ iteration = 0
    BY <1>3 DEF Preflight, QuestionStored
  <2> QED
    BY <2>1, OutsideTheLoop
<1>4. ASSUME NEW usage \in Usages, Finalize(usage) PROVE QuestionStored'
  <2>1. hpc' = "charge"
    BY <1>4 DEF Finalize
  <2> QED
    BY <2>1, OutsideTheLoop
<1>5. CASE ModelFails \/ GiveUp \/ Charge
  <2>1. hpc' = "idle"
    BY <1>5 DEF ModelFails, GiveUp, Charge, Return
  <2> QED
    BY <2>1, OutsideTheLoop
<1>6. CASE Handle
  BY <1>3, <1>4, <1>5, <1>6, AskStored, RequestStored, RunToolStored DEF Handle
<1>7. CASE UNCHANGED vars
  <2>1. /\ hpc' = hpc /\ key' = key /\ iteration' = iteration /\ todo' = todo
        /\ conversations' = conversations /\ now' = now
    BY <1>7 DEF vars, handlerVars, storeVars
  <2>2. Stored(key)' = Stored(key) /\ Least' = Least /\ Most' = Most
    BY <2>1 DEF Stored, NewConversation, Least, Most, PerIteration
  <2> QED
    BY <2>1, <2>2 DEF QuestionStored, QuestionKept, Room
<1> QED
  BY <1>1, <1>2, <1>6, <1>7, BackgroundStored
     DEF Next, ReceiveDirect, ReceiveInGroup, Overhear, ReceiveClear

LEMMA StoredIsPrompted ==
    ASSUME HandlerInv, StoreTypeOK, QuestionStored PROVE QuestionInPrompt
<1> SUFFICES ASSUME hpc = "call", Room
             PROVE  \E q \in DOMAIN Prompt :
                        /\ Prompt[q].role = "user"
                        /\ \A i \in q + 1 .. Len(Prompt) : Prompt[i].calls # {}
                        /\ Len(Prompt) - q >= 2 * iteration
  BY DEF QuestionInPrompt
<1>1. key \in Keys
  BY ChatAssumption DEF HandlerInv, HandlerTypeOK
<1>2. PICK e \in conversations[key] : e.expires_at > now
  BY DEF QuestionStored
<1>3. conversations[key] = {e}
  BY <1>1, <1>2 DEF StoreTypeOK
<1>4. Live(key) = {e}
  BY <1>2, <1>3 DEF Live
<1>5. Prompt = Stored(key)
  BY <1>3, <1>4, TheOnly DEF Prompt, History, Stored
<1>6. Stored(key) \in Seq(StoredMessage)
  BY <1>1, StoredType
<1>7. PICK q \in 1 .. Len(Stored(key)) :
          /\ Stored(key)[q].role = "user"
          /\ \A i \in q + 1 .. Len(Stored(key)) : Stored(key)[i].calls # {}
          /\ Least <= Len(Stored(key)) - q
  BY DEF QuestionStored, QuestionKept
<1>8. Least = 2 * iteration
  BY RoomFacts DEF Least
<1>9. Len(Stored(key)) - q >= 2 * iteration
  BY <1>6, <1>7, <1>8, RoomFacts
<1>10. q \in DOMAIN Stored(key)
  BY <1>6
<1> QED
  BY <1>5, <1>7, <1>9, <1>10

\* With room for one question and its tool loop, the model is at every
\* iteration asked the question at hand, followed by nothing but the calls and
\* results of this request, for any limits, tools and identifiers.
THEOREM QuestionIsAsked == Spec => []QuestionInPrompt
<1>1. Init => QuestionStored
  BY QuestionStoredInit
<1>2. HandlerInv /\ StoreTypeOK /\ QuestionStored /\ [Next]_vars => QuestionStored'
  BY QuestionStoredNext
<1>3. HandlerInv /\ StoreTypeOK /\ QuestionStored => QuestionInPrompt
  BY StoredIsPrompted
<1> QED
  BY <1>1, <1>2, <1>3, HandlerInvariant, HandlerUsesStore, StoreTypeCorrect, PTL DEF Spec

-----------------------------------------------------------------------------
(* A message is a bounded amount of work. *)

\* The most calls of the model, the tools and the store that the message in
\* hand still takes.
AfterIterations(i) == (MaxIterations - i) * PerIteration

Effort ==
    CASE hpc = "idle"      -> 0
      [] hpc = "preflight" -> AfterIterations(0) + 4
      [] hpc = "ask"       -> AfterIterations(0) + 3
      [] hpc = "call"      -> AfterIterations(iteration) + 2
      [] hpc = "tools"     -> AfterIterations(iteration + 1) + Cardinality(todo) + 2
      [] hpc = "charge"    -> 1

LEMMA IterationFacts ==
    ASSUME IsFiniteSet(CallIds)
    PROVE  /\ PerIteration \in Nat /\ PerIteration >= 1
           /\ \A ids \in SUBSET CallIds :
                  /\ IsFiniteSet(ids) /\ Cardinality(ids) \in Nat
                  /\ Cardinality(ids) < PerIteration
           /\ \A i \in 0 .. MaxIterations :
                  /\ AfterIterations(i) \in Nat
                  /\ AfterIterations(i) <= AfterIterations(0)
                  /\ i < MaxIterations =>
                        AfterIterations(i) = AfterIterations(i + 1) + PerIteration
<1>1. Cardinality(CallIds) \in Nat
  BY FS_CardinalityType
<1>2. PICK c \in Nat : c = PerIteration /\ c = 1 + Cardinality(CallIds)
  BY <1>1 DEF PerIteration
<1>3. MaxIterations \in Nat
  BY ChatAssumption
<1>4. ASSUME NEW ids \in SUBSET CallIds
      PROVE  IsFiniteSet(ids) /\ Cardinality(ids) \in Nat /\ Cardinality(ids) < c
  <2>1. IsFiniteSet(ids) /\ Cardinality(ids) <= Cardinality(CallIds)
    BY FS_Subset
  <2>2. Cardinality(ids) \in Nat
    BY <2>1, FS_CardinalityType
  <2> QED
    BY <1>1, <1>2, <2>1, <2>2
<1>5. ASSUME NEW i \in 0 .. MaxIterations
      PROVE  /\ AfterIterations(i) \in Nat
             /\ AfterIterations(i) <= AfterIterations(0)
             /\ i < MaxIterations =>
                   AfterIterations(i) = AfterIterations(i + 1) + c
  <2>1. PICK n \in Nat : n = MaxIterations - i
    <3>1. MaxIterations - i \in Nat
      BY <1>3
    <3> QED
      BY <3>1
  <2>2. n <= MaxIterations /\ MaxIterations - 0 = MaxIterations
    BY <1>3, <2>1
  <2>3. n * c \in Nat /\ n * c <= MaxIterations * c
    BY <1>2, <1>3, <2>2, ProductFacts
  <2>4. ASSUME i < MaxIterations
        PROVE  n * c = (MaxIterations - (i + 1)) * c + c
    <3>1. PICK p \in Nat : p = n - 1
      <4>1. n - 1 \in Nat
        BY <1>3, <2>1, <2>4
      <4> QED
        BY <4>1
    <3>2. n = p + 1 /\ MaxIterations - (i + 1) = p
      BY <1>3, <2>1, <3>1
    <3>3. (p + 1) * c = p * c + c
      BY <1>2, ProductFacts
    <3> QED
      BY <3>2, <3>3
  <2> QED
    BY <1>2, <2>1, <2>2, <2>3, <2>4 DEF AfterIterations
<1> QED
  BY <1>2, <1>4, <1>5

LEMMA EffortType ==
    ASSUME IsFiniteSet(CallIds), HandlerInv
    PROVE  Effort \in Nat /\ Effort <= AfterIterations(0) + 4
<1>1. /\ hpc \in HandlerPhases /\ iteration \in 0 .. MaxIterations
      /\ todo \in SUBSET CallIds /\ MaxIterations \in Nat
      /\ hpc = "tools" => iteration < MaxIterations
  BY ChatAssumption DEF HandlerInv, HandlerTypeOK
<1>2. /\ PerIteration \in Nat
      /\ AfterIterations(0) \in Nat /\ 0 \in 0 .. MaxIterations
  BY <1>1, IterationFacts
<1>3. CASE hpc = "tools"
  <2>1. iteration + 1 \in 0 .. MaxIterations
    BY <1>1, <1>3
  <2>2. /\ AfterIterations(iteration + 1) \in Nat
        /\ AfterIterations(iteration + 1) + PerIteration <= AfterIterations(0)
        /\ Cardinality(todo) \in Nat /\ Cardinality(todo) < PerIteration
    BY <1>1, <1>3, <2>1, IterationFacts
  <2>3. Effort = AfterIterations(iteration + 1) + Cardinality(todo) + 2
    BY <1>3 DEF Effort
  <2> QED
    BY <1>2, <2>2, <2>3
<1>4. CASE hpc = "call"
  <2>1. Effort = AfterIterations(iteration) + 2
    BY <1>4 DEF Effort
  <2>2. /\ AfterIterations(iteration) \in Nat
        /\ AfterIterations(iteration) <= AfterIterations(0)
    BY <1>1, IterationFacts
  <2> QED
    BY <1>2, <2>1, <2>2
<1>5. CASE hpc \in {"idle", "preflight", "ask", "charge"}
  <2>1. \/ Effort = 0 \/ Effort = 1
        \/ Effort = AfterIterations(0) + 4 \/ Effort = AfterIterations(0) + 3
    BY <1>5 DEF Effort
  <2> QED
    BY <1>2, <2>1
<1> QED
  BY <1>1, <1>3, <1>4, <1>5 DEF HandlerPhases

LEMMA HandleStep ==
    ASSUME IsFiniteSet(CallIds), HandlerInv, QuestionStored, Handle
    PROVE  Effort' < Effort
<1>1. /\ iteration \in 0 .. MaxIterations /\ MaxIterations \in Nat /\ iteration \in Nat
      /\ todo \in SUBSET CallIds
  BY ChatAssumption DEF HandlerInv, HandlerTypeOK
<1>2. /\ PerIteration \in Nat /\ PerIteration >= 1
      /\ AfterIterations(0) \in Nat /\ AfterIterations(iteration) \in Nat
  BY <1>1, IterationFacts
<1>3. \A i : AfterIterations(i)' = AfterIterations(i)
  BY DEF AfterIterations, PerIteration
<1>4. ASSUME NEW length \in Lengths, Preflight(length) PROVE Effort' < Effort
  <2>1. hpc = "preflight" /\ hpc' \in {"ask", "idle"}
    BY <1>4 DEF Preflight
  <2>2. Effort = AfterIterations(0) + 4
    BY <2>1 DEF Effort
  <2>3. Effort' = AfterIterations(0)' + 3 \/ Effort' = 0
    BY <2>1 DEF Effort
  <2> QED
    BY <1>2, <1>3, <2>2, <2>3
<1>5. CASE Ask
  <2>1. hpc = "ask" /\ hpc' = "call" /\ iteration' = 0
    BY <1>5 DEF Ask, QuestionStored
  <2>2. Effort = AfterIterations(0) + 3
    BY <2>1 DEF Effort
  <2>3. Effort' = AfterIterations(0)' + 2
    BY <2>1 DEF Effort, AfterIterations
  <2> QED
    BY <1>2, <1>3, <2>2, <2>3
<1>6. ASSUME NEW usage \in Usages, Finalize(usage) PROVE Effort' < Effort
  <2>1. hpc = "call" /\ hpc' = "charge"
    BY <1>6 DEF Finalize, Asking
  <2>2. Effort = AfterIterations(iteration) + 2 /\ Effort' = 1
    BY <2>1 DEF Effort
  <2> QED
    BY <1>2, <2>2
<1>7. ASSUME NEW usage \in Usages, NEW ids \in (SUBSET CallIds) \ {{}},
             RequestTools(ids, usage)
      PROVE  Effort' < Effort
  <2>1. /\ hpc = "call" /\ hpc' = "tools" /\ iteration < MaxIterations
        /\ iteration' = iteration /\ todo' = ids
    BY <1>7 DEF RequestTools, Asking
  <2>2. Effort = AfterIterations(iteration) + 2
    BY <2>1 DEF Effort
  <2>3. Effort' = AfterIterations(iteration + 1) + Cardinality(ids) + 2
    <3>1. hpc' = "tools" /\ iteration' = iteration /\ todo' = ids
      BY <2>1
    <3> QED
      BY <3>1 DEF Effort, AfterIterations, PerIteration
  <2>4. /\ AfterIterations(iteration) = AfterIterations(iteration + 1) + PerIteration
        /\ AfterIterations(iteration + 1) \in Nat
    <3>1. iteration + 1 \in 0 .. MaxIterations
      BY <1>1, <2>1
    <3> QED
      BY <1>1, <2>1, <3>1, IterationFacts
  <2>5. Cardinality(ids) \in Nat /\ Cardinality(ids) < PerIteration
    <3>1. ids \in SUBSET CallIds
      OBVIOUS
    <3> QED
      BY <3>1, IterationFacts
  <2> QED
    BY <1>2, <2>2, <2>3, <2>4, <2>5
<1>8. CASE ModelFails \/ GiveUp
  <2>1. hpc = "call" /\ hpc' = "idle"
    BY <1>8 DEF ModelFails, Asking, GiveUp, Return
  <2>2. Effort = AfterIterations(iteration) + 2 /\ Effort' = 0
    BY <2>1 DEF Effort
  <2> QED
    BY <1>2, <2>2
<1>9. ASSUME NEW id \in CallIds, RunTool(id) PROVE Effort' < Effort
  <2>1. /\ hpc = "tools" /\ id \in todo /\ todo' = todo \ {id}
        /\ \/ todo' = {} /\ hpc' = "call" /\ iteration' = iteration + 1
           \/ todo' # {} /\ hpc' = "tools" /\ iteration' = iteration
        /\ iteration < MaxIterations
    BY <1>9 DEF RunTool, HandlerInv
  <2>2. /\ IsFiniteSet(todo) /\ Cardinality(todo) \in Nat
        /\ AfterIterations(iteration + 1) \in Nat
    <3>1. iteration + 1 \in 0 .. MaxIterations
      BY <1>1, <2>1
    <3> QED
      BY <1>1, <3>1, IterationFacts
  <2>3. Cardinality(todo') = Cardinality(todo) - 1 /\ Cardinality(todo') \in Nat
    <3>1. Cardinality(todo \ {id}) = Cardinality(todo) - 1 /\ IsFiniteSet(todo \ {id})
      BY <2>1, <2>2, FS_RemoveElement
    <3> QED
      BY <2>1, <3>1, FS_CardinalityType
  <2>4. Effort = AfterIterations(iteration + 1) + Cardinality(todo) + 2
    BY <2>1 DEF Effort
  <2>5. CASE hpc' = "call"
    <3>1. Effort' = AfterIterations(iteration + 1) + 2
      <4>1. iteration' = iteration + 1
        BY <2>1, <2>5
      <4> QED
        BY <2>5, <4>1 DEF Effort, AfterIterations, PerIteration
    <3> QED
      BY <2>2, <2>3, <2>4, <3>1
  <2>6. CASE hpc' = "tools"
    <3>1. Effort' = AfterIterations(iteration + 1) + Cardinality(todo') + 2
      <4>1. iteration' = iteration
        BY <2>1, <2>6
      <4> QED
        BY <2>6, <4>1 DEF Effort, AfterIterations, PerIteration
    <3> QED
      BY <2>2, <2>3, <2>4, <3>1
  <2> QED
    BY <2>1, <2>5, <2>6
<1>10. CASE Charge
  <2>1. hpc = "charge" /\ hpc' = "idle"
    BY <1>10 DEF Charge, Return
  <2>2. Effort = 1 /\ Effort' = 0
    BY <2>1 DEF Effort
  <2> QED
    BY <2>2
<1> QED
  BY <1>4, <1>5, <1>6, <1>7, <1>8, <1>9, <1>10 DEF Handle

\* While a message is handled, every step of the handler uses up some effort, and
\* what runs besides, the cleanup task and the clock, leaves it alone.
EffortSpent ==
    [][hpc # "idle" => IF Handle THEN Effort' < Effort ELSE Effort' = Effort]_vars

\* The bound behind EveryMessageEnds: from its reception a message takes at most
\* four steps and, per iteration of the tool loop, one for the model and one for
\* each tool, whatever the model asks for and whatever fails.
THEOREM MessageIsBoundedWork ==
    ASSUME IsFiniteSet(CallIds)
    PROVE  Spec => [](Effort \in 0 .. MaxIterations * PerIteration + 4) /\ EffortSpent
<1>1. HandlerInv => Effort \in 0 .. MaxIterations * PerIteration + 4
  <2> SUFFICES ASSUME HandlerInv PROVE Effort \in 0 .. MaxIterations * PerIteration + 4
    OBVIOUS
  <2>1. AfterIterations(0) = MaxIterations * PerIteration /\ AfterIterations(0) \in Nat
    BY ChatAssumption, IterationFacts DEF AfterIterations
  <2> QED
    BY <2>1, EffortType
<1>2. HandlerInv /\ QuestionStored /\ [Next]_vars =>
          [hpc # "idle" => IF Handle THEN Effort' < Effort ELSE Effort' = Effort]_vars
  <2> SUFFICES ASSUME HandlerInv, QuestionStored, [Next]_vars, hpc # "idle"
               PROVE  IF Handle THEN Effort' < Effort ELSE Effort' = Effort
    OBVIOUS
  <2>1. Handle => Effort' < Effort
    BY HandleStep
  <2>2. ASSUME UNCHANGED handlerVars PROVE Effort' = Effort
    BY <2>2 DEF handlerVars, Effort, AfterIterations, PerIteration
  <2>3. Handle \/ UNCHANGED handlerVars
    BY DEF Next, ReceiveDirect, ReceiveInGroup, StartHandling, Overhear,
           ReceiveClear, vars
  <2> QED
    BY <2>1, <2>2, <2>3
<1>3. Init => QuestionStored
  BY QuestionStoredInit
<1>4. HandlerInv /\ StoreTypeOK /\ QuestionStored /\ [Next]_vars => QuestionStored'
  BY QuestionStoredNext
<1> QED
  BY <1>1, <1>2, <1>3, <1>4, HandlerInvariant, HandlerUsesStore, StoreTypeCorrect, PTL
     DEF Spec, EffortSpent

=============================================================================
