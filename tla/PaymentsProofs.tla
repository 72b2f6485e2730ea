--------------------------- MODULE PaymentsProofs ---------------------------
(***************************************************************************)
(* Proofs about Payments, for any users, connections, transactions, chains *)
(* and limits: its type invariant, that every credit is backed by a        *)
(* payment, credited once for each spelling of its hash                    *)
(* (CreditsAreBacked), that a sweep leaves the reserve             *)
(* (ReserveKept), and that the history accounts for what was swept         *)
(* (HistoryAccounts).                                                      *)
(***************************************************************************)
EXTENDS Payments, SequenceTheorems, TLAPS

USE PaymentsAssumption

LEMMA ChainOfPlace == ASSUME at \in DOMAIN SweepOrder PROVE chain \in Chains
  BY DEF chain, Chains

LEMMA LastNIsSeq ==
  ASSUME NEW S, NEW s \in Seq(S), NEW n \in Nat PROVE LastN(s, n) \in Seq(S)
<1>1. CASE Len(s) <= n
  BY <1>1 DEF LastN
<1>2. CASE ~(Len(s) <= n)
  <2>1. Len(s) - n + 1 \in 1 .. Len(s) + 1
    BY <1>2
  <2>2. Len(s) \in (Len(s) - n + 1) - 1 .. Len(s)
    BY <1>2
  <2>. QED  BY <1>2, <2>1, <2>2, SubSeqProperties DEF LastN
<1>. QED  BY <1>1, <1>2

\* The end of a chain's turn is well typed, and the sweeper holds nothing after it.
LEMMA DoneProperties ==
  ASSUME TypeOK, NEW rs \in Seq(SweepRecord), Done(rs)
  PROVE  /\ phase' \in {"sleeping", "asking"}
         /\ at' \in DOMAIN SweepOrder
         /\ amount' \in Nat
         /\ records' \in Seq(SweepRecord) /\ history' \in Seq(SweepRecord)
<1>1. CASE at < Len(SweepOrder)
  BY <1>1 DEF Done, TypeOK
<1>2. CASE ~(at < Len(SweepOrder))
  <2>1. history \o rs \in Seq(SweepRecord)
    BY DEF TypeOK
  <2>2. LastN(history \o rs, HistoryLimit) \in Seq(SweepRecord)
    BY <2>1, LastNIsSeq
  <2>3. << >> \in Seq(SweepRecord) /\ 1 \in DOMAIN SweepOrder
    OBVIOUS
  <2>. QED  BY <1>2, <2>2, <2>3 DEF Done
<1>. QED  BY <1>1, <1>2

\* What Answer and AnswerLost may pass to Done.
LEMMA RecordsKept ==
  ASSUME TypeOK
  PROVE  /\ records \in Seq(SweepRecord)
         /\ \A b \in BOOLEAN : Append(records, Record(b)) \in Seq(SweepRecord)
<1>. SUFFICES ASSUME NEW b \in BOOLEAN PROVE Record(b) \in SweepRecord
  BY DEF TypeOK
<1>1. Len(out) \in Nat /\ chain \in Chains /\ amount \in Nat
  BY ChainOfPlace DEF TypeOK
<1>. QED  BY <1>1 DEF Record, SweepRecord

\* A change of one transfer's state.
LEMMA BecomesProperties ==
  ASSUME out \in Seq(Transfer), NEW id \in DOMAIN out,
         NEW state \in {"flying", "mined", "reverted", "forgotten"}, Becomes(id, state)
  PROVE  /\ out' \in Seq(Transfer) /\ Len(out') = Len(out) /\ DOMAIN out' = DOMAIN out
         /\ out'[id].state = state
         /\ \A i \in DOMAIN out : /\ out'[i].chain = out[i].chain
                                  /\ out'[i].amount = out[i].amount
                                  /\ i # id => out'[i] = out[i]
<1>1. out[id] \in Transfer
  OBVIOUS
<1>. DEFINE new == [chain |-> out[id].chain, amount |-> out[id].amount, state |-> state]
<1>2. new \in Transfer
  BY <1>1 DEF Transfer
<1>3. new.chain = out[id].chain /\ new.amount = out[id].amount /\ new.state = state
  OBVIOUS
<1>4. out' = [out EXCEPT ![id] = new]
  BY DEF Becomes
<1>. HIDE DEF new
<1>. QED  BY <1>2, <1>3, <1>4

-----------------------------------------------------------------------------
(* Types. *)

LEMMA TypeInit == ASSUME Init PROVE TypeOK
<1>1. << >> \in Seq(Transfer) /\ << >> \in Seq(SweepRecord) /\ DOMAIN << >> = {}
  OBVIOUS
<1>2. 1 \in DOMAIN SweepOrder
  OBVIOUS
<1>. QED  BY <1>1, <1>2 DEF Init, TypeOK

LEMMA TypeStep == ASSUME TypeOK, [Next]_vars PROVE TypeOK'
<1>. USE DEF TypeOK, chainVars, depositVars, sweeperVars
<1>1. CASE UNCHANGED vars
  BY <1>1 DEF vars
<1>2. ASSUME NEW x \in Txs, Pay(x) PROVE TypeOK'
  BY <1>2 DEF Pay
<1>3. ASSUME NEW w \in Connections, NEW u \in Users, NEW h \in Hashes, Submit(w, u, h)
      PROVE  TypeOK'
  <2>. DEFINE r == [user |-> u, hash |-> h, amount |-> 0]
  <2>1. r \in Request
    BY DEF Request
  <2>2. conn' = [conn EXCEPT ![w] = {r}]
    BY <1>3 DEF Submit
  <2>. HIDE DEF r
  <2>3. conn' \in [Connections -> SUBSET Request]
    BY <2>1, <2>2
  <2>4. \A v \in Connections : \A p, q \in conn'[v] : p = q
    BY <2>2
  <2>. QED  BY <1>3, <2>3, <2>4 DEF Submit
<1>4. ASSUME NEW w \in Connections, Verify(w) PROVE TypeOK'
  <2>1. PICK r \in conn[w] :
          /\ conn' = [conn EXCEPT ![w] =
                        {[user |-> r.user, hash |-> r.hash,
                          amount |-> Verified(TxOf[r.hash])]}]
          /\ UNCHANGED <<chainVars, sweeperVars, granted, requests, lost, faults>>
    BY <1>4 DEF Verify
  <2>2. r \in Request
    BY <2>1
  <2>. DEFINE x == TxOf[r.hash]
              q == [user |-> r.user, hash |-> r.hash, amount |-> Verified(x)]
  <2>10. r.hash \in Hashes /\ x \in Txs
    BY <2>2, HashAssumption DEF Request
  <2>3. Tx[x] \in [chain : Chains, first : Nat, total : Nat, reverted : BOOLEAN]
    BY <2>10
  <2>4. Tx[x].chain \in {"base", "near", "solana"}
    BY <2>3 DEF Chains
  <2>5. Verified(x) \in Nat
    BY <2>3, <2>4 DEF Verified, BaseAmount, NearAmount, SolanaAmount
  <2>6. q \in Request
    BY <2>2, <2>5 DEF Request
  <2>7. conn' = [conn EXCEPT ![w] = {q}]
    BY <2>1
  <2>. HIDE DEF q, x
  <2>8. conn' \in [Connections -> SUBSET Request]
    BY <2>6, <2>7
  <2>9. \A v \in Connections : \A a, b \in conn'[v] : a = b
    BY <2>7
  <2>. QED  BY <2>1, <2>8, <2>9
<1>5. ASSUME NEW w \in Connections, VerifyFails(w) PROVE TypeOK'
  BY <1>5 DEF VerifyFails
<1>6. ASSUME NEW w \in Connections, AddCredits(w) PROVE TypeOK'
  <2>1. PICK r \in conn[w] :
          /\ granted' = IF IsTxProcessed(r.hash) THEN granted
                        ELSE granted \cup {Credited(r)}
          /\ conn' = [conn EXCEPT ![w] = {}]
          /\ UNCHANGED <<chainVars, sweeperVars, requests, lost, faults>>
    BY <1>6 DEF AddCredits
  <2>2. Credited(r) \in Deposit
    BY <2>1 DEF Credited, Request, Deposit
  <2>3. granted' \subseteq Deposit
    BY <2>1, <2>2
  <2>. QED  BY <2>1, <2>3
<1>7. CASE Wake
  BY <1>7 DEF Wake
<1>8. CASE NothingToSweep
  <2>1. Done(records)
    BY <1>8 DEF NothingToSweep
  <2>. QED  BY <1>8, <2>1, DoneProperties DEF NothingToSweep
<1>9. CASE AskBalance
  <2>1. chain \in Chains
    BY ChainOfPlace
  <2>2. ToSweep(Balance(chain)) \in Nat
    BY <2>1 DEF ToSweep, Balance
  <2>. QED  BY <1>9, <2>2 DEF AskBalance
<1>10. CASE ChainFails
  <2>1. Done(records)
    BY <1>10 DEF ChainFails
  <2>2. faults' \in Nat
    BY <1>10 DEF ChainFails, Fault
  <2>. QED  BY <1>10, <2>1, <2>2, DoneProperties DEF ChainFails
<1>11. CASE Broadcast
  <2>. DEFINE new == [chain |-> chain, amount |-> amount, state |-> "flying"]
  <2>1. new \in Transfer
    BY ChainOfPlace DEF Transfer
  <2>2. out' = Append(out, new)
    BY <1>11 DEF Broadcast
  <2>. HIDE DEF new
  <2>3. out' \in Seq(Transfer) /\ DOMAIN out \subseteq DOMAIN out'
    BY <2>1, <2>2
  <2>. QED  BY <1>11, <2>3 DEF Broadcast
<1>12. CASE Answer
  <2>1. PICK rs \in Seq(SweepRecord) : Done(rs)
    BY <1>12, RecordsKept DEF Answer
  <2>. QED  BY <1>12, <2>1, DoneProperties DEF Answer
<1>13. CASE AnswerLost
  <2>1. PICK rs \in Seq(SweepRecord) : Done(rs)
    BY <1>13, RecordsKept DEF AnswerLost
  <2>2. faults' \in Nat
    BY <1>13 DEF AnswerLost, Fault
  <2>3. Len(out) \in DOMAIN out
    BY <1>13 DEF AnswerLost
  <2>. QED  BY <1>13, <2>1, <2>2, <2>3, DoneProperties DEF AnswerLost
<1>14. ASSUME NEW id \in DOMAIN out, Mine(id) PROVE TypeOK'
  <2>. out[id] \in Transfer
    OBVIOUS
  <2>1. out[id].chain \in Chains /\ out[id].amount \in Nat
    BY DEF Transfer
  <2>2. Becomes(id, "mined") \/ Becomes(id, "reverted")
    BY <1>14 DEF Mine
  <2>3. out' \in Seq(Transfer) /\ DOMAIN out' = DOMAIN out
    BY <2>2, BecomesProperties
  <2>4. wallet' \in [Chains -> Nat]
    <3>. DEFINE c == out[id].chain
                a == out[id].amount
    <3>1. \/ wallet' = wallet
          \/ wallet[c] >= a /\ wallet' = [wallet EXCEPT ![c] = wallet[c] - a]
      BY <1>14 DEF Mine
    <3>2. c \in Chains /\ a \in Nat
      BY <2>1
    <3>. HIDE DEF c, a
    <3>3. wallet[c] >= a => wallet[c] - a \in Nat
      BY <3>2
    <3>. QED  BY <3>1, <3>2, <3>3
  <2>. QED  BY <1>14, <2>3, <2>4 DEF Mine
<1>15. ASSUME NEW id \in DOMAIN out, Forget(id) PROVE TypeOK'
  <2>1. out' \in Seq(Transfer) /\ DOMAIN out' = DOMAIN out
    BY <1>15, BecomesProperties DEF Forget
  <2>2. faults' \in Nat
    BY <1>15 DEF Forget, Fault
  <2>. QED  BY <1>15, <2>1, <2>2 DEF Forget
<1>16. ASSUME NEW c \in Chains, Fund(c) PROVE TypeOK'
  BY <1>16 DEF Fund
<1>. QED
  BY <1>1, <1>2, <1>3, <1>4, <1>5, <1>6, <1>7, <1>8, <1>9, <1>10, <1>11, <1>12,
     <1>13, <1>14, <1>15, <1>16 DEF Next, Sweep

\* Every variable keeps its type, whatever the chains, the payers and the RPC
\* nodes do (process_deposit, FundSweeper).
THEOREM TypeCorrect == Spec => []TypeOK
<1>1. Init => TypeOK
  BY TypeInit
<1>2. TypeOK /\ [Next]_vars => TypeOK'
  BY TypeStep
<1>. QED  BY <1>1, <1>2, PTL DEF Spec

-----------------------------------------------------------------------------
(* Credits. *)

\* What was verified, or granted, was paid.
Backed(x, n) == /\ x \in mined /\ ~Tx[x].reverted
                /\ 0 < n /\ n <= Tx[x].total

VerifiedIsBacked ==
    \A w \in Connections : \A r \in conn[w] : r.amount > 0 => Backed(TxOf[r.hash], r.amount)

CreditsInv == VerifiedIsBacked /\ CreditsAreBacked

LEMMA VerifiedIsPaid ==
  ASSUME NEW x \in Txs, Verified(x) > 0
  PROVE  ~Tx[x].reverted /\ Verified(x) \in Nat /\ Verified(x) <= Tx[x].total
<1>1. Tx[x] \in [chain : Chains, first : Nat, total : Nat, reverted : BOOLEAN]
  OBVIOUS
<1>2. Tx[x].chain \in {"base", "near", "solana"} /\ Tx[x].first <= Tx[x].total
  BY <1>1 DEF Chains
<1>. QED  BY <1>1, <1>2 DEF Verified, BaseAmount, NearAmount, SolanaAmount

LEMMA CreditsStep == ASSUME TypeOK, CreditsInv, [Next]_vars PROVE CreditsInv'
<1>. USE DEF CreditsInv, VerifiedIsBacked, CreditsAreBacked, Backed
<1>1. CASE UNCHANGED <<mined, conn, granted>>
  BY <1>1
<1>2. ASSUME NEW x \in Txs, Pay(x) PROVE CreditsInv'
  <2>1. mined \subseteq mined' /\ UNCHANGED <<conn, granted>>
    BY <1>2 DEF Pay, depositVars
  <2>. QED  BY <2>1
<1>3. ASSUME NEW w \in Connections, NEW u \in Users, NEW h \in Hashes, Submit(w, u, h)
      PROVE  CreditsInv'
  <2>. DEFINE r == [user |-> u, hash |-> h, amount |-> 0]
  <2>1. conn' = [conn EXCEPT ![w] = {r}] /\ UNCHANGED <<mined, granted>>
    BY <1>3 DEF Submit, chainVars
  <2>2. r.amount = 0
    OBVIOUS
  <2>. HIDE DEF r
  <2>3. \A v \in Connections : \A q \in conn'[v] : q.amount = 0 \/ q \in conn[v]
    BY <2>1, <2>2 DEF TypeOK
  <2>. QED  BY <2>1, <2>3
<1>4. ASSUME NEW w \in Connections, Verify(w) PROVE CreditsInv'
  <2>1. PICK r \in conn[w] :
          /\ TxOf[r.hash] \in mined /\ Verified(TxOf[r.hash]) > 0
          /\ conn' = [conn EXCEPT ![w] =
                        {[user |-> r.user, hash |-> r.hash,
                          amount |-> Verified(TxOf[r.hash])]}]
          /\ UNCHANGED <<mined, granted>>
    BY <1>4 DEF Verify, chainVars
  <2>. DEFINE q == [user |-> r.user, hash |-> r.hash, amount |-> Verified(TxOf[r.hash])]
  <2>2. TxOf[r.hash] \in Txs
    BY <2>1, HashAssumption DEF TypeOK, Request
  <2>3. Backed(TxOf[q.hash], q.amount)
    BY <2>1, <2>2, VerifiedIsPaid
  <2>4. conn' = [conn EXCEPT ![w] = {q}]
    BY <2>1
  <2>. HIDE DEF q
  <2>5. \A v \in Connections : \A p \in conn'[v] : p = q \/ p \in conn[v]
    BY <2>4 DEF TypeOK
  <2>. QED  BY <2>1, <2>3, <2>5
<1>5. ASSUME NEW w \in Connections, VerifyFails(w) PROVE CreditsInv'
  <2>1. conn' = [conn EXCEPT ![w] = {}] /\ UNCHANGED <<mined, granted>>
    BY <1>5 DEF VerifyFails, chainVars
  <2>. QED  BY <2>1 DEF TypeOK
<1>6. ASSUME NEW w \in Connections, AddCredits(w) PROVE CreditsInv'
  <2>1. PICK r \in conn[w] :
          /\ r.amount > 0
          /\ granted' = IF IsTxProcessed(r.hash) THEN granted
                        ELSE granted \cup {Credited(r)}
          /\ conn' = [conn EXCEPT ![w] = {}] /\ mined' = mined
    BY <1>6 DEF AddCredits, chainVars
  <2>2. VerifiedIsBacked'
    BY <2>1 DEF TypeOK
  <2>. DEFINE new == Credited(r)
  <2>3. new.hash = r.hash /\ new.credits = r.amount /\ r.hash \in Hashes
    BY <2>1 DEF Credited, TypeOK, Request
  <2>4. Backed(TxOf[r.hash], r.amount)
    BY <2>1
  <2>. HIDE DEF new
  <2>5. CASE IsTxProcessed(r.hash)
    BY <2>1, <2>2, <2>5 DEF Paid
  <2>6. CASE ~IsTxProcessed(r.hash)
    <3>1. \A d \in granted : d.hash # new.hash /\ d.hash \in Hashes
      BY <2>3, <2>6 DEF IsTxProcessed, TypeOK, Deposit
    <3>2. granted' = granted \cup {new}
      BY <2>1, <2>6 DEF new
    <3>3. \A d \in granted :
            Paid(d) = Paid(new) => /\ d.hash # new.hash
                                   /\ Tx[Paid(d)].chain = "base"
                                   /\ Tx[Paid(new)].chain = "base"
      BY <2>3, <3>1, HashAssumption DEF Paid
    <3>4. Paid(new) \in mined /\ ~Tx[Paid(new)].reverted
          /\ 0 < new.credits /\ new.credits <= Tx[Paid(new)].total
      BY <2>3, <2>4 DEF Paid
    <3>5. CreditsAreBacked'
      BY <2>1, <3>2, <3>3, <3>4 DEF Paid
    <3>. QED  BY <2>2, <3>5
  <2>. QED  BY <2>5, <2>6
<1>7. ASSUME \/ Sweep
             \/ \E id \in DOMAIN out : Mine(id) \/ Forget(id)
             \/ \E c \in Chains : Fund(c)
      PROVE  CreditsInv'
  BY <1>7, <1>1 DEF Sweep, Wake, NothingToSweep, AskBalance, ChainFails, Broadcast,
       Answer, AnswerLost, Mine, Forget, Fund, chainVars, depositVars
<1>. QED
  BY <1>1, <1>2, <1>3, <1>4, <1>5, <1>6, <1>7 DEF Next, vars

\* A transaction is credited with no more than it paid, once for each spelling of
\* its hash and to one user, which on NEAR and Solana is once: of overlapping
\* requests that submitted the same string, all passed the handler's duplicate
\* check and were all verified, add_credits lets one through.
THEOREM CreditsBacked == Spec => []CreditsAreBacked
<1>1. Init => CreditsInv
  BY DEF Init, CreditsInv, VerifiedIsBacked, CreditsAreBacked
<1>2. TypeOK /\ CreditsInv /\ [Next]_vars => CreditsInv'
  BY CreditsStep
<1>3. CreditsInv => CreditsAreBacked
  BY DEF CreditsInv
<1>. QED  BY <1>1, <1>2, <1>3, TypeCorrect, PTL DEF Spec

-----------------------------------------------------------------------------
(* The reserve. *)

\* The only transfer in flight whose answer is not lost is the one that the
\* sweeper waits for.
OneInFlight ==
    \A id \in DOMAIN out :
        out[id].state = "flying" /\ id \notin lost => phase = "waiting" /\ id = Len(out)

WaitsForChain == phase = "waiting" => out[Len(out)].chain = chain

\* From the balance to the block, the wallet holds what was asked for and the
\* reserve.
EnoughThere ==
    ~LostOn(chain) =>
        /\ phase = "sending" => wallet[chain] >= amount + Reserve
        /\ phase = "waiting" /\ out[Len(out)].state = "flying" =>
              wallet[chain] >= out[Len(out)].amount + Reserve

ReserveInv == OneInFlight /\ WaitsForChain /\ EnoughThere /\ ReserveKept

\* Steps that leave the transfers alone and no chain in hand.
LEMMA NextChainKeepsReserve ==
  ASSUME TypeOK, ReserveInv, phase' \in {"sleeping", "asking"},
         out' = out, wallet' = wallet, lost \subseteq lost',
         \A id \in DOMAIN out : out[id].state = "flying" => id \in lost'
  PROVE  ReserveInv'
<1>1. \A c \in Chains : LostOn(c) => LostOn(c)'
  BY DEF LostOn
<1>2. ReserveKept'
  BY <1>1 DEF ReserveInv, ReserveKept
<1>. QED  BY <1>2 DEF ReserveInv, OneInFlight, WaitsForChain, EnoughThere

\* What the lemmas below need of the types.
LEMMA SweeperTypes ==
  ASSUME TypeOK
  PROVE  /\ lost \subseteq DOMAIN out /\ DOMAIN out = 1 .. Len(out) /\ Len(out) \in Nat
         /\ \A i \in DOMAIN out : out[i] \in Transfer
         /\ \A k \in Chains : wallet[k] \in Nat
         /\ Reserve \in Nat /\ amount \in Nat /\ chain \in Chains
         /\ phase = "waiting" => Len(out) \in DOMAIN out
<1>1. chain \in Chains
  BY ChainOfPlace DEF TypeOK
<1>2. Reserve \in Nat
  BY PaymentsAssumption
<1>3. out \in Seq(Transfer) /\ lost \subseteq DOMAIN out /\ wallet \in [Chains -> Nat]
      /\ amount \in Nat /\ (phase = "waiting" => out # << >>)
  BY DEF TypeOK
<1>. QED  BY <1>1, <1>2, <1>3

\* What is lost on a chain depends on the chains of the lost transfers only.
LEMMA LostOnStays ==
  ASSUME lost \subseteq DOMAIN out, lost' = lost,
         \A i \in DOMAIN out : out'[i].chain = out[i].chain,
         NEW k
  PROVE  LostOn(k)' <=> LostOn(k)
BY DEF LostOn

LEMMA MineKeepsReserve ==
  ASSUME TypeOK, ReserveInv, NEW id \in DOMAIN out, Mine(id) PROVE ReserveInv'
<1>. DEFINE ch == out[id].chain
            am == out[id].amount
<1>1. /\ OneInFlight /\ WaitsForChain /\ EnoughThere /\ ReserveKept
  BY DEF ReserveInv
<1>2. ch \in Chains /\ am \in Nat /\ wallet[ch] \in Nat /\ chain \in Chains
  <2>1. out[id] \in Transfer
    BY SweeperTypes
  <2>. QED  BY <2>1, SweeperTypes DEF Transfer
<1>3. UNCHANGED <<phase, at, amount, lost>> /\ out[id].state = "flying"
  BY DEF Mine, sweeperVars
<1>4. \/ /\ wallet[ch] >= am
         /\ wallet' = [wallet EXCEPT ![ch] = wallet[ch] - am]
         /\ Becomes(id, "mined")
      \/ /\ ~(wallet[ch] >= am)
         /\ wallet' = wallet
         /\ Becomes(id, "reverted")
  BY DEF Mine
<1>5. /\ Len(out') = Len(out) /\ DOMAIN out' = DOMAIN out
      /\ out'[id].state \in {"mined", "reverted"}
      /\ wallet[ch] >= am => out'[id].state = "mined"
      /\ \A i \in DOMAIN out : /\ out'[i].chain = out[i].chain
                               /\ out'[i].amount = out[i].amount
                               /\ i # id => out'[i] = out[i]
  <2>1. out \in Seq(Transfer)
    BY DEF TypeOK
  <2>2. CASE Becomes(id, "mined")
    BY <2>1, <2>2, BecomesProperties
  <2>3. CASE Becomes(id, "reverted") /\ ~(wallet[ch] >= am)
    <3>1. Becomes(id, "reverted")
      BY <2>3
    <3>2. /\ Len(out') = Len(out) /\ DOMAIN out' = DOMAIN out
          /\ out'[id].state = "reverted"
          /\ \A i \in DOMAIN out : /\ out'[i].chain = out[i].chain
                                   /\ out'[i].amount = out[i].amount
                                   /\ i # id => out'[i] = out[i]
      BY <2>1, <3>1, BecomesProperties
    <3>. QED  BY <2>3, <3>2
  <2>. QED  BY <1>4, <2>2, <2>3
<1>6. wallet \in [Chains -> Nat]
  BY DEF TypeOK
<1>7. /\ \A k \in Chains : k # ch => wallet'[k] = wallet[k]
      /\ wallet[ch] >= am => wallet'[ch] = wallet[ch] - am
  <2>. HIDE DEF ch, am
  <2>. QED  BY <1>2, <1>4, <1>6
<1>8. chain' = chain
  BY <1>3 DEF chain
<1>9. \A k : LostOn(k)' <=> LostOn(k)
  BY <1>3, <1>5, SweeperTypes, LostOnStays
<1>10. OneInFlight'
  <2>1. ASSUME NEW i \in DOMAIN out', out'[i].state = "flying", i \notin lost'
        PROVE  phase' = "waiting" /\ i = Len(out')
    <3>1. i # id /\ i \in DOMAIN out /\ out[i].state = "flying" /\ i \notin lost
      BY <1>3, <1>5, <2>1
    <3>. QED  BY <1>1, <1>3, <1>5, <3>1 DEF OneInFlight
  <2>. QED  BY <2>1 DEF OneInFlight
<1>11. WaitsForChain'
  <2>1. phase = "waiting" => Len(out) \in DOMAIN out
    BY SweeperTypes
  <2>. QED  BY <1>1, <1>3, <1>5, <1>8, <2>1 DEF WaitsForChain
<1>12. ASSUME ~LostOn(ch)
       PROVE  /\ phase = "waiting" /\ id = Len(out) /\ chain = ch
              /\ wallet[ch] >= am + Reserve
  <2>1. id \notin lost
    BY <1>12 DEF LostOn
  <2>2. phase = "waiting" /\ id = Len(out)
    BY <1>1, <1>3, <2>1 DEF OneInFlight
  <2>3. chain = ch
    BY <1>1, <2>2 DEF WaitsForChain
  <2>. QED  BY <1>1, <1>3, <1>12, <2>2, <2>3 DEF EnoughThere
<1>13. ~LostOn(ch) => wallet'[ch] >= Reserve /\ out'[id].state = "mined"
  <2>1. ASSUME ~LostOn(ch) PROVE wallet'[ch] >= Reserve /\ wallet[ch] >= am
    <3>1. wallet[ch] >= am + Reserve /\ Reserve \in Nat
      BY <1>12, <2>1, SweeperTypes
    <3>. HIDE DEF ch, am
    <3>2. wallet[ch] >= am
      BY <1>2, <3>1
    <3>. QED  BY <1>2, <1>7, <3>1, <3>2
  <2>. QED  BY <1>5, <2>1
<1>14. EnoughThere'
  <2>. SUFFICES ASSUME ~LostOn(chain)
                PROVE  /\ phase = "sending" => wallet'[chain] >= amount + Reserve
                       /\ phase = "waiting" /\ out'[Len(out)].state = "flying" =>
                             wallet'[chain] >= out'[Len(out)].amount + Reserve
    BY <1>3, <1>5, <1>8, <1>9 DEF EnoughThere
  <2>1. CASE chain = ch
    <3>1. phase = "waiting" /\ id = Len(out)
      BY <1>12, <2>1
    <3>. QED  BY <1>5, <3>1
  <2>2. CASE chain # ch
    <3>1. wallet'[chain] = wallet[chain]
      BY <1>2, <1>7, <2>2
    <3>2. phase = "waiting" => Len(out) \in DOMAIN out /\ Len(out) # id
      BY <1>1, <2>2, SweeperTypes DEF WaitsForChain
    <3>3. phase = "waiting" => out'[Len(out)] = out[Len(out)]
      BY <1>5, <3>2
    <3>. QED  BY <1>1, <3>1, <3>3 DEF EnoughThere
  <2>. QED  BY <2>1, <2>2
<1>15. ReserveKept'
  <2>. SUFFICES ASSUME NEW k \in Chains, ~LostOn(k)', NEW i \in DOMAIN out',
                       out'[i].chain = k
                PROVE  /\ out'[i].state # "reverted"
                       /\ out'[i].state = "mined" => wallet'[k] >= Reserve
    BY DEF ReserveKept
  <2>1. ~LostOn(k) /\ i \in DOMAIN out /\ out[i].chain = k
    BY <1>5, <1>9
  <2>2. CASE i = id
    BY <1>13, <2>1, <2>2
  <2>3. CASE i # id
    <3>1. out'[i] = out[i]
      BY <1>5, <2>1, <2>3
    <3>2. out[i].state # "reverted" /\ (out[i].state = "mined" => wallet[k] >= Reserve)
      BY <1>1, <2>1 DEF ReserveKept
    <3>3. CASE k = ch
      BY <1>13, <2>1, <3>1, <3>2, <3>3
    <3>4. CASE k # ch
      BY <1>7, <3>1, <3>2, <3>4
    <3>. QED  BY <3>3, <3>4
  <2>. QED  BY <2>2, <2>3
<1>. QED  BY <1>10, <1>11, <1>14, <1>15 DEF ReserveInv

LEMMA ForgetKeepsReserve ==
  ASSUME TypeOK, ReserveInv, NEW id \in DOMAIN out, Forget(id) PROVE ReserveInv'
<1>1. OneInFlight /\ WaitsForChain /\ EnoughThere /\ ReserveKept
  BY DEF ReserveInv
<1>2. /\ Len(out') = Len(out) /\ DOMAIN out' = DOMAIN out
      /\ out'[id].state = "forgotten"
      /\ \A i \in DOMAIN out : /\ out'[i].chain = out[i].chain
                               /\ out'[i].amount = out[i].amount
                               /\ i # id => out'[i] = out[i]
  <2>1. out \in Seq(Transfer) /\ Becomes(id, "forgotten")
    BY DEF TypeOK, Forget
  <2>. QED  BY <2>1, BecomesProperties
<1>3. UNCHANGED <<phase, at, amount, lost, wallet>> /\ chain' = chain
  BY DEF Forget, sweeperVars, chain
<1>4. \A k : LostOn(k)' <=> LostOn(k)
  BY <1>2, <1>3, SweeperTypes, LostOnStays
<1>5. phase = "waiting" => Len(out) \in DOMAIN out
  BY SweeperTypes
<1>6. OneInFlight'
  <2>1. ASSUME NEW i \in DOMAIN out', out'[i].state = "flying", i \notin lost'
        PROVE  phase' = "waiting" /\ i = Len(out')
    <3>1. i \in DOMAIN out /\ out[i].state = "flying" /\ i \notin lost
      BY <1>2, <1>3, <2>1
    <3>. QED  BY <1>1, <1>2, <1>3, <3>1 DEF OneInFlight
  <2>. QED  BY <2>1 DEF OneInFlight
<1>7. WaitsForChain'
  BY <1>1, <1>2, <1>3, <1>5 DEF WaitsForChain
<1>8. EnoughThere'
  <2>1. phase = "waiting" /\ out'[Len(out)].state = "flying" => out'[Len(out)] = out[Len(out)]
    BY <1>2, <1>5
  <2>. QED  BY <1>1, <1>2, <1>3, <1>4, <2>1 DEF EnoughThere
<1>9. ReserveKept'
  <2>. SUFFICES ASSUME NEW k \in Chains, ~LostOn(k)', NEW i \in DOMAIN out',
                       out'[i].chain = k
                PROVE  /\ out'[i].state # "reverted"
                       /\ out'[i].state = "mined" => wallet'[k] >= Reserve
    BY DEF ReserveKept
  <2>1. ~LostOn(k) /\ i \in DOMAIN out /\ out[i].chain = k
    BY <1>2, <1>4
  <2>2. CASE i = id
    BY <1>2, <2>2
  <2>3. CASE i # id
    BY <1>1, <1>2, <1>3, <2>1, <2>3 DEF ReserveKept
  <2>. QED  BY <2>2, <2>3
<1>. QED  BY <1>6, <1>7, <1>8, <1>9 DEF ReserveInv

LEMMA BroadcastKeepsReserve ==
  ASSUME TypeOK, ReserveInv, Broadcast PROVE ReserveInv'
<1>. DEFINE new == [chain |-> chain, amount |-> amount, state |-> "flying"]
<1>1. new.chain = chain /\ new.amount = amount /\ new.state = "flying"
  OBVIOUS
<1>2. new \in Transfer
  BY SweeperTypes DEF Transfer
<1>3. out' = Append(out, new) /\ phase = "sending" /\ phase' = "waiting"
  BY DEF Broadcast
<1>4. UNCHANGED <<wallet, at, amount, lost>> /\ chain' = chain
  BY DEF Broadcast, chain
<1>. HIDE DEF new
<1>5. /\ Len(out') = Len(out) + 1 /\ DOMAIN out' = 1 .. Len(out) + 1
      /\ DOMAIN out = 1 .. Len(out) /\ Len(out) \in Nat
      /\ out'[Len(out')] = new
      /\ \A i \in DOMAIN out : out'[i] = out[i]
  <2>1. out \in Seq(Transfer)
    BY DEF TypeOK
  <2>. QED  BY <1>2, <1>3, <2>1
<1>6. OneInFlight /\ EnoughThere /\ ReserveKept
  BY DEF ReserveInv
<1>7. \A k : LostOn(k)' <=> LostOn(k)
  BY <1>4, <1>5, SweeperTypes, LostOnStays
<1>8. OneInFlight'
  <2>1. ASSUME NEW i \in DOMAIN out', out'[i].state = "flying", i \notin lost'
        PROVE  i = Len(out')
    <3>1. ASSUME i # Len(out') PROVE FALSE
      <4>1. i \in DOMAIN out
        BY <1>5, <3>1
      <4>2. out[i].state = "flying" /\ i \notin lost
        BY <1>4, <1>5, <2>1, <4>1
      <4>. QED  BY <1>3, <1>6, <4>1, <4>2 DEF OneInFlight
    <3>. QED  BY <3>1
  <2>. QED  BY <1>3, <2>1 DEF OneInFlight
<1>9. WaitsForChain'
  BY <1>1, <1>4, <1>5 DEF WaitsForChain
<1>10. EnoughThere'
  BY <1>1, <1>3, <1>4, <1>5, <1>6, <1>7 DEF EnoughThere
<1>11. ReserveKept'
  <2>. SUFFICES ASSUME NEW k \in Chains, ~LostOn(k)', NEW i \in DOMAIN out',
                       out'[i].chain = k
                PROVE  /\ out'[i].state # "reverted"
                       /\ out'[i].state = "mined" => wallet'[k] >= Reserve
    BY DEF ReserveKept
  <2>1. CASE i = Len(out')
    BY <1>1, <1>5, <2>1
  <2>2. CASE i # Len(out')
    <3>1. i \in DOMAIN out /\ out'[i] = out[i]
      BY <1>5, <2>2
    <3>. QED  BY <1>4, <1>6, <1>7, <3>1 DEF ReserveKept
  <2>. QED  BY <2>1, <2>2
<1>. QED  BY <1>8, <1>9, <1>10, <1>11 DEF ReserveInv

LEMMA ReserveStep == ASSUME TypeOK, ReserveInv, [Next]_vars PROVE ReserveInv'
<1>. USE DEF TypeOK, chainVars, depositVars, sweeperVars
<1>1. ASSUME UNCHANGED <<out, phase, at, amount, lost>>, NEW c \in Chains,
             NEW n \in Nat, wallet' = [wallet EXCEPT ![c] = wallet[c] + n]
      PROVE  ReserveInv'
  <2>1. chain' = chain /\ chain \in Chains /\ \A k : LostOn(k)' <=> LostOn(k)
    BY <1>1, ChainOfPlace DEF chain, LostOn
  <2>2. \A k \in Chains : wallet'[k] >= wallet[k] /\ wallet[k] \in Nat /\ wallet'[k] \in Nat
    BY <1>1
  <2>3. OneInFlight' /\ WaitsForChain'
    BY <1>1, <2>1 DEF ReserveInv, OneInFlight, WaitsForChain
  <2>4. EnoughThere'
    <3>1. phase = "waiting" => out[Len(out)] \in Transfer
      OBVIOUS
    <3>2. phase = "waiting" => out[Len(out)].amount \in Nat
      BY <3>1 DEF Transfer
    <3>. QED  BY <1>1, <2>1, <2>2, <3>2 DEF ReserveInv, EnoughThere
  <2>5. ReserveKept'
    BY <1>1, <2>1, <2>2 DEF ReserveInv, ReserveKept
  <2>. QED  BY <2>3, <2>4, <2>5 DEF ReserveInv
<1>2. CASE UNCHANGED <<out, wallet, phase, at, amount, lost>>
  <2>1. UNCHANGED chain /\ \A k : LostOn(k)' <=> LostOn(k)
    BY <1>2 DEF chain, LostOn
  <2>. QED
    BY <1>2, <2>1 DEF ReserveInv, OneInFlight, WaitsForChain, EnoughThere, ReserveKept
<1>3. ASSUME NEW x \in Txs, Pay(x) PROVE ReserveInv'
  <2>1. CASE Tx[x].reverted
    BY <1>2, <1>3, <2>1 DEF Pay
  <2>2. CASE ~Tx[x].reverted
    <3>1. Tx[x].chain \in Chains /\ Tx[x].total \in Nat
      OBVIOUS
    <3>. QED  BY <1>1, <1>3, <2>2, <3>1 DEF Pay
  <2>. QED  BY <2>1, <2>2
<1>4. ASSUME \E w \in Connections :
               \/ \E u \in Users, h \in Hashes : Submit(w, u, h)
               \/ Verify(w) \/ VerifyFails(w) \/ AddCredits(w)
      PROVE  ReserveInv'
  BY <1>2, <1>4 DEF Submit, Verify, VerifyFails, AddCredits
<1>5. CASE Wake
  <2>1. \A id \in DOMAIN out : out[id].state = "flying" => id \in lost'
    BY <1>5 DEF Wake, ReserveInv, OneInFlight
  <2>. QED  BY <1>5, <2>1, NextChainKeepsReserve DEF Wake
<1>6. CASE NothingToSweep \/ ChainFails
  <2>1. Done(records) /\ phase \in {"asking", "sending"} /\ UNCHANGED <<out, wallet, lost>>
    BY <1>6 DEF NothingToSweep, ChainFails
  <2>2. \A id \in DOMAIN out : out[id].state = "flying" => id \in lost'
    BY <2>1 DEF ReserveInv, OneInFlight
  <2>3. phase' \in {"sleeping", "asking"}
    BY <2>1, DoneProperties
  <2>. QED  BY <2>1, <2>2, <2>3, NextChainKeepsReserve
<1>7. CASE AskBalance
  <2>1. /\ phase = "asking" /\ phase' = "sending"
        /\ ToSweep(wallet[chain]) > 0 /\ amount' = ToSweep(wallet[chain])
        /\ UNCHANGED <<out, wallet, lost, at>>
    BY <1>7 DEF AskBalance, Due, Balance
  <2>2. chain' = chain /\ chain \in Chains /\ \A k : LostOn(k)' <=> LostOn(k)
    BY <2>1, ChainOfPlace DEF chain, LostOn
  <2>3. wallet[chain] >= amount' + Reserve
    BY <2>1, <2>2 DEF ToSweep
  <2>4. OneInFlight' /\ WaitsForChain'
    BY <2>1 DEF ReserveInv, OneInFlight, WaitsForChain
  <2>5. EnoughThere'
    BY <2>1, <2>2, <2>3 DEF EnoughThere
  <2>6. ReserveKept'
    BY <2>1, <2>2 DEF ReserveInv, ReserveKept
  <2>. QED  BY <2>4, <2>5, <2>6 DEF ReserveInv
<1>8. CASE Broadcast
  BY <1>8, BroadcastKeepsReserve
<1>9. CASE Answer
  <2>1. PICK rs \in Seq(SweepRecord) : Done(rs)
    BY <1>9, RecordsKept DEF Answer
  <2>2. out[Len(out)].state # "flying" /\ UNCHANGED <<out, wallet, lost>>
    BY <1>9 DEF Answer
  <2>3. phase' \in {"sleeping", "asking"}
    BY <2>1, DoneProperties
  <2>4. \A id \in DOMAIN out : out[id].state = "flying" => id \in lost'
    BY <2>2 DEF ReserveInv, OneInFlight
  <2>. QED  BY <2>2, <2>3, <2>4, NextChainKeepsReserve
<1>10. CASE AnswerLost
  <2>1. PICK rs \in Seq(SweepRecord) : Done(rs)
    BY <1>10, RecordsKept DEF AnswerLost
  <2>2. lost' = lost \cup {Len(out)} /\ UNCHANGED <<out, wallet>>
    BY <1>10 DEF AnswerLost
  <2>3. phase' \in {"sleeping", "asking"}
    BY <2>1, DoneProperties
  <2>4. \A id \in DOMAIN out : out[id].state = "flying" => id \in lost'
    BY <2>2 DEF ReserveInv, OneInFlight
  <2>. QED  BY <2>2, <2>3, <2>4, NextChainKeepsReserve
<1>11. ASSUME NEW id \in DOMAIN out, Mine(id) \/ Forget(id) PROVE ReserveInv'
  BY <1>11, MineKeepsReserve, ForgetKeepsReserve
<1>12. ASSUME NEW c \in Chains, Fund(c) PROVE ReserveInv'
  BY <1>2, <1>12 DEF Fund
<1>13. CASE UNCHANGED vars
  BY <1>2, <1>13 DEF vars
<1>. QED
  BY <1>3, <1>4, <1>5, <1>6, <1>7, <1>8, <1>9, <1>10, <1>11, <1>12, <1>13
     DEF Next, Sweep

\* A sweep leaves the reserve, and never asks for more than the wallet holds,
\* on every chain on which no answer was lost (sweep_chain, transfer_to).
THEOREM ReserveIsKept == Spec => []ReserveKept
<1>1. Init => ReserveInv
  BY DEF Init, ReserveInv, OneInFlight, WaitsForChain, EnoughThere, ReserveKept
<1>2. TypeOK /\ ReserveInv /\ [Next]_vars => ReserveInv'
  BY ReserveStep
<1>3. ReserveInv => ReserveKept
  BY DEF ReserveInv
<1>. QED  BY <1>1, <1>2, <1>3, TypeCorrect, PTL DEF Spec

-----------------------------------------------------------------------------
(* The history.  The invariant is about the book: the history followed by   *)
(* the records of the cycle, which is what the history is about to be,      *)
(* before it is cut to its limit.                                           *)

Book == history \o records

\* The records have rising ids, of transfers, and claim no success that was none.
Entered(B) ==
    /\ B \in Seq(SweepRecord)
    /\ \A i, j \in DOMAIN B : i < j => B[i].id < B[j].id
    /\ \A i \in DOMAIN B : /\ B[i].id \in DOMAIN out
                           /\ B[i].success => out[B[i].id].state = "mined"

\* A transfer has its record in the book, or the history is full of newer ones.
Kept(B, id) ==
    \/ Remembered(B, id)
    \/ Len(history) = HistoryLimit /\ \A i \in DOMAIN B : B[i].id > id

Awaited(id) == phase = "waiting" /\ id = Len(out)

HistInv ==
    /\ Entered(Book)
    /\ \A id \in DOMAIN out \ lost :
          out[id].state = "mined" /\ ~Awaited(id) => Kept(Book, id)
    /\ phase = "waiting" => /\ \A i \in DOMAIN Book : Book[i].id # Len(out)
                            /\ out[Len(out)].amount = amount
    /\ Len(history) <= HistoryLimit
    /\ phase = "sleeping" => records = << >>

\* The last n elements are the sequence from some place on.
LEMMA LastNFacts ==
  ASSUME NEW S, NEW s \in Seq(S), NEW n \in Nat
  PROVE  \E k \in Nat : /\ Len(s) = k + Len(LastN(s, n))
                        /\ Len(LastN(s, n)) <= n
                        /\ k > 0 => Len(LastN(s, n)) = n
                        /\ \A i \in 1 .. Len(LastN(s, n)) : LastN(s, n)[i] = s[i + k]
<1>0. Len(s) \in Nat
  OBVIOUS
<1>1. CASE Len(s) <= n
  <2>1. LastN(s, n) = s
    BY <1>1 DEF LastN
  <2>2. \A i \in 1 .. Len(s) : i + 0 = i
    BY <1>0
  <2>. WITNESS 0 \in Nat
  <2>. QED  BY <1>0, <1>1, <2>1, <2>2
<1>2. CASE ~(Len(s) <= n)
  <2>. DEFINE t == SubSeq(s, Len(s) - n + 1, Len(s))
              k == Len(s) - n
  <2>1. LastN(s, n) = t /\ k \in Nat /\ k > 0
    BY <1>0, <1>2 DEF LastN
  <2>2. \A i \in (Len(s) - n + 1) .. Len(s) : s[i] \in S
    BY <1>0, <1>2
  <2>3. /\ Len(t) = IF Len(s) - n + 1 <= Len(s) THEN Len(s) - (Len(s) - n + 1) + 1 ELSE 0
        /\ \A i \in 1 .. Len(s) - (Len(s) - n + 1) + 1 : t[i] = s[(Len(s) - n + 1) + i - 1]
    <3>1. Len(s) - n + 1 \in Int /\ Len(s) \in Int
      BY <1>0
    <3>. QED  BY <2>2, <3>1, SubSeqProperties
  <2>. HIDE DEF t
  <2>4. Len(t) = n
    BY <1>0, <2>3
  <2>5. \A i \in 1 .. n : t[i] = s[i + k]
    BY <1>0, <2>3
  <2>6. Len(s) = k + n /\ n <= n
    BY <1>0
  <2>. HIDE DEF k
  <2>7. k \in Nat
    BY <2>1
  <2>. WITNESS k \in Nat
  <2>. QED  BY <2>1, <2>4, <2>5, <2>6
<1>. QED  BY <1>1, <1>2

\* The end of a chain's turn cuts the book at the end of the cycle only, and what
\* is cut off then is older than everything that stays.
LEMMA TurnKeepsHistory ==
  ASSUME TypeOK, NEW rs \in Seq(SweepRecord), Done(rs),
         out' = out, lost \subseteq lost', Len(history) <= HistoryLimit,
         Entered(history \o rs),
         \A id \in DOMAIN out \ lost' : out[id].state = "mined" => Kept(history \o rs, id)
  PROVE  HistInv'
<1>. DEFINE B == history \o rs
<1>0. history \in Seq(SweepRecord) /\ HistoryLimit \in Nat \ {0}
  BY DEF TypeOK
<1>1. B \in Seq(SweepRecord) /\ Entered(B) /\ Len(B) \in Nat /\ DOMAIN B = 1 .. Len(B)
  BY <1>0
<1>2. phase' \in {"sleeping", "asking"}
  BY DoneProperties
<1>3. \A id : ~Awaited(id)'
  BY <1>2 DEF Awaited
<1>4. CASE at < Len(SweepOrder)
  <2>1. history' = history /\ records' = rs /\ phase' = "asking"
    BY <1>4 DEF Done
  <2>2. Book' = B
    BY <2>1 DEF Book
  <2>. HIDE DEF B
  <2>3. Entered(Book)'
    BY <1>1, <2>2 DEF Entered
  <2>4. \A id \in DOMAIN out \ lost' : out[id].state = "mined" => Kept(Book, id)'
    BY <2>1, <2>2 DEF Kept, Remembered, B
  <2>. QED  BY <1>3, <2>1, <2>3, <2>4 DEF HistInv
<1>5. CASE ~(at < Len(SweepOrder))
  <2>. DEFINE t == LastN(B, HistoryLimit)
  <2>1. history' = t /\ records' = << >> /\ phase' = "sleeping"
    BY <1>5 DEF Done
  <2>2. t \in Seq(SweepRecord)
    BY <1>0, <1>1, LastNIsSeq
  <2>3. PICK k \in Nat : /\ Len(B) = k + Len(t) /\ Len(t) <= HistoryLimit
                         /\ k > 0 => Len(t) = HistoryLimit
                         /\ \A i \in 1 .. Len(t) : t[i] = B[i + k]
    <3>1. B \in Seq(SweepRecord) /\ HistoryLimit \in Nat
      BY <1>0, <1>1
    <3>. HIDE DEF B
    <3>2. ASSUME NEW n \in Nat
          PROVE  \E k \in Nat : /\ Len(B) = k + Len(LastN(B, n))
                                /\ Len(LastN(B, n)) <= n
                                /\ k > 0 => Len(LastN(B, n)) = n
                                /\ \A i \in 1 .. Len(LastN(B, n)) : LastN(B, n)[i] = B[i + k]
      BY <3>1, LastNFacts
    <3>. QED  BY <3>1, <3>2
  <2>4. Len(history) <= Len(B)
    BY <1>0, ConcatProperties
  <2>. HIDE DEF B, t
  <2>5. Book' = t
    <3>1. Book' = t \o << >>
      BY <2>1 DEF Book
    <3>. QED  BY <2>2, <3>1, ConcatEmptySeq
  <2>6. DOMAIN t = 1 .. Len(t) /\ Len(t) \in Nat
    BY <2>2
  <2>7. \A i \in DOMAIN t : i + k \in DOMAIN B /\ t[i] = B[i + k]
    <3>1. \A i \in 1 .. Len(t) : i + k \in 1 .. k + Len(t)
      BY <2>6
    <3>. QED  BY <1>1, <2>3, <2>6, <3>1
  <2>8. Entered(Book)'
    <3>1. \A i, j \in DOMAIN t : i < j => t[i].id < t[j].id
      <4>. SUFFICES ASSUME NEW i \in DOMAIN t, NEW j \in DOMAIN t, i < j
                    PROVE  t[i].id < t[j].id
        OBVIOUS
      <4>1. i + k < j + k
        BY <2>6
      <4>. QED  BY <1>1, <2>7, <4>1 DEF Entered
    <3>2. \A i \in DOMAIN t : /\ t[i].id \in DOMAIN out
                              /\ t[i].success => out[t[i].id].state = "mined"
      BY <1>1, <2>7 DEF Entered
    <3>. QED  BY <2>2, <2>5, <3>1, <3>2 DEF Entered
  <2>9. ASSUME NEW id \in DOMAIN out \ lost', out[id].state = "mined"
        PROVE  Kept(Book, id)'
    <3>1. Kept(B, id)
      BY <2>9 DEF B
    <3>2. CASE Remembered(B, id)
      <4>1. PICK i \in DOMAIN B : /\ B[i].id = id /\ B[i].chain = out[id].chain
                                  /\ B[i].amount = out[id].amount /\ B[i].success
        BY <3>2 DEF Remembered
      <4>2. CASE i > k
        <5>1. i - k \in DOMAIN t /\ t[i - k] = B[i]
          <6>1. i - k \in 1 .. Len(t) /\ (i - k) + k = i
            <7>1. i \in 1 .. k + Len(t)
              BY <1>1, <2>3, <4>1
            <7>. QED  BY <2>6, <4>2, <7>1
          <6>. QED  BY <2>3, <2>6, <6>1
        <5>2. Remembered(t, id)
          BY <4>1, <5>1 DEF Remembered
        <5>. QED  BY <2>5, <5>2 DEF Kept, Remembered
      <4>3. CASE ~(i > k)
        <5>1. k > 0
          BY <1>1, <4>1, <4>3
        <5>2. Len(history') = HistoryLimit
          BY <2>1, <2>3, <5>1
        <5>3. \A j \in DOMAIN t : t[j].id > id
          <6>. SUFFICES ASSUME NEW j \in DOMAIN t PROVE t[j].id > id
            OBVIOUS
          <6>1. i < j + k /\ j + k \in DOMAIN B /\ t[j] = B[j + k]
            BY <1>1, <2>6, <2>7, <4>1, <4>3
          <6>2. B[i].id < B[j + k].id
            BY <1>1, <4>1, <6>1 DEF Entered
          <6>. QED  BY <4>1, <6>1, <6>2
        <5>. QED  BY <2>5, <5>2, <5>3 DEF Kept
      <4>. QED  BY <4>2, <4>3
    <3>3. CASE Len(history) = HistoryLimit /\ \A i \in DOMAIN B : B[i].id > id
      <4>1. Len(t) = HistoryLimit
        <5>1. CASE k > 0
          BY <2>3, <5>1
        <5>2. CASE k = 0
          <6>1. Len(B) = Len(t)
            BY <2>3, <2>6, <5>2
          <6>2. /\ HistoryLimit \in Nat /\ Len(history) = HistoryLimit
                /\ Len(t) <= HistoryLimit /\ Len(history) <= Len(t)
            BY <1>0, <2>3, <2>4, <3>3, <6>1
          <6>. QED  BY <2>6, <6>2
        <5>. QED  BY <5>1, <5>2
      <4>2. \A j \in DOMAIN t : t[j].id > id
        BY <2>7, <3>3
      <4>. QED  BY <2>1, <2>5, <4>1, <4>2 DEF Kept
    <3>. QED  BY <3>1, <3>2, <3>3 DEF Kept
  <2>. QED  BY <1>3, <2>1, <2>3, <2>8, <2>9 DEF HistInv
<1>. QED  BY <1>4, <1>5


\* Steps that enter nothing and neither start nor end the wait for a transfer.
LEMMA HistoryStays ==
  ASSUME HistInv, UNCHANGED <<out, history, records>>, lost \subseteq lost',
         phase' = "waiting" <=> phase = "waiting",
         phase' = "waiting" => amount' = amount,
         phase' = "sleeping" => phase = "sleeping"
  PROVE  HistInv'
<1>1. Book' = Book /\ \A id : Awaited(id)' <=> Awaited(id)
  BY DEF Book, Awaited
<1>2. Entered(Book)'
  BY <1>1 DEF HistInv, Entered
<1>3. \A id : Kept(Book, id) => Kept(Book, id)'
  BY <1>1 DEF Kept, Remembered
<1>4. \A id \in DOMAIN out' \ lost' :
         out'[id].state = "mined" /\ ~Awaited(id)' => Kept(Book, id)'
  BY <1>1, <1>3 DEF HistInv
<1>. QED  BY <1>1, <1>2, <1>4 DEF HistInv

\* The end of a transfer on its chain.  One that is mined now is awaited, or lost.
LEMMA OutcomeKeepsHistory ==
  ASSUME TypeOK, OneInFlight, HistInv, NEW id \in DOMAIN out, out[id].state = "flying",
         NEW state \in {"mined", "reverted", "forgotten"}, Becomes(id, state),
         UNCHANGED <<sweeperVars, lost>>
  PROVE  HistInv'
<1>1. /\ Len(out') = Len(out) /\ DOMAIN out' = DOMAIN out
      /\ \A i \in DOMAIN out : /\ out'[i].chain = out[i].chain
                               /\ out'[i].amount = out[i].amount
                               /\ i # id => out'[i] = out[i]
  <2>1. out \in Seq(Transfer) /\ state \in {"flying", "mined", "reverted", "forgotten"}
    BY DEF TypeOK
  <2>. QED  BY <2>1, BecomesProperties
<1>2. UNCHANGED <<phase, amount, records, history, lost>> /\ Book' = Book
  BY DEF sweeperVars, Book
<1>3. \A k : Awaited(k)' <=> Awaited(k)
  BY <1>1, <1>2 DEF Awaited
<1>4. Entered(Book)'
  <2>1. ASSUME NEW i \in DOMAIN Book, Book[i].success
        PROVE  out'[Book[i].id].state = "mined"
    <3>1. Book[i].id \in DOMAIN out /\ out[Book[i].id].state = "mined"
      BY <2>1 DEF HistInv, Entered
    <3>. QED  BY <1>1, <3>1
  <2>. QED  BY <1>1, <1>2, <2>1 DEF HistInv, Entered
<1>5. ASSUME NEW k \in DOMAIN out' \ lost', out'[k].state = "mined", ~Awaited(k)'
      PROVE  Kept(Book, k)'
  <2>1. k \in DOMAIN out \ lost /\ ~Awaited(k)
    BY <1>1, <1>2, <1>3, <1>5
  <2>2. k # id
    BY <2>1 DEF OneInFlight, Awaited
  <2>3. Kept(Book, k)
    BY <1>1, <1>5, <2>1, <2>2 DEF HistInv
  <2>. QED  BY <1>1, <1>2, <2>1, <2>3 DEF Kept, Remembered
<1>6. phase = "waiting" => out'[Len(out)].amount = out[Len(out)].amount
  BY <1>1, SweeperTypes
<1>. QED  BY <1>1, <1>2, <1>4, <1>5, <1>6 DEF HistInv

LEMMA BroadcastKeepsHistory ==
  ASSUME TypeOK, HistInv, Broadcast PROVE HistInv'
<1>. DEFINE new == [chain |-> chain, amount |-> amount, state |-> "flying"]
<1>1. new.chain = chain /\ new.amount = amount /\ new.state = "flying"
  OBVIOUS
<1>2. new \in Transfer
  BY SweeperTypes DEF Transfer
<1>3. out' = Append(out, new) /\ phase = "sending" /\ phase' = "waiting"
  BY DEF Broadcast
<1>4. UNCHANGED <<amount, history, records, lost>> /\ Book' = Book
  BY DEF Broadcast, Book
<1>. HIDE DEF new
<1>5. /\ Len(out') = Len(out) + 1 /\ DOMAIN out' = 1 .. Len(out) + 1
      /\ DOMAIN out = 1 .. Len(out) /\ Len(out) \in Nat
      /\ out'[Len(out')] = new
      /\ \A i \in DOMAIN out : out'[i] = out[i]
  <2>1. out \in Seq(Transfer)
    BY DEF TypeOK
  <2>. QED  BY <1>2, <1>3, <2>1
<1>6. DOMAIN out \subseteq DOMAIN out' /\ Len(out') \notin DOMAIN out
  BY <1>5
<1>7. Entered(Book)'
  <2>1. Entered(Book)
    BY DEF HistInv
  <2>. QED  BY <1>4, <1>5, <1>6, <2>1 DEF Entered
<1>8. ASSUME NEW k \in DOMAIN out' \ lost', out'[k].state = "mined"
      PROVE  Kept(Book, k)'
  <2>1. k # Len(out')
    BY <1>1, <1>5, <1>8
  <2>2. k \in DOMAIN out \ lost /\ out[k].state = "mined" /\ out'[k] = out[k]
    BY <1>4, <1>5, <1>8, <2>1
  <2>3. Kept(Book, k)
    BY <1>3, <2>2 DEF HistInv, Awaited
  <2>. QED  BY <1>4, <2>2, <2>3 DEF Kept, Remembered
<1>9. \A i \in DOMAIN Book : Book[i].id # Len(out')
  BY <1>6 DEF HistInv, Entered
<1>. QED  BY <1>1, <1>3, <1>4, <1>5, <1>7, <1>8, <1>9 DEF HistInv

\* A record at the end of the book.
LEMMA RecordEntersBook ==
  ASSUME TypeOK, HistInv, phase = "waiting", NEW b \in BOOLEAN,
         b => out[Len(out)].state = "mined"
  PROVE  LET B == history \o Append(records, Record(b))
         IN  /\ Entered(B)
             /\ DOMAIN Book \subseteq DOMAIN B /\ Len(Book) + 1 \in DOMAIN B
             /\ \A i \in DOMAIN B : i \in DOMAIN Book \/ i = Len(Book) + 1
             /\ \A i \in DOMAIN Book : B[i] = Book[i]
             /\ B[Len(Book) + 1] = Record(b)
<1>. DEFINE B == history \o Append(records, Record(b))
<1>1. /\ history \in Seq(SweepRecord) /\ records \in Seq(SweepRecord)
      /\ Append(records, Record(b)) \in Seq(SweepRecord) /\ Record(b) \in SweepRecord
  <2>1. Len(out) \in Nat /\ chain \in Chains /\ amount \in Nat
    BY SweeperTypes
  <2>. QED  BY <2>1, RecordsKept DEF TypeOK, Record, SweepRecord
<1>2. /\ Book \in Seq(SweepRecord) /\ Len(Book) = Len(history) + Len(records)
      /\ \A i \in 1 .. Len(history) + Len(records) :
            Book[i] = IF i <= Len(history) THEN history[i] ELSE records[i - Len(history)]
  BY <1>1, ConcatProperties DEF Book
<1>3. /\ B \in Seq(SweepRecord) /\ Len(B) = Len(history) + Len(Append(records, Record(b)))
      /\ \A i \in 1 .. Len(history) + Len(Append(records, Record(b))) :
            B[i] = IF i <= Len(history) THEN history[i]
                   ELSE Append(records, Record(b))[i - Len(history)]
  <2>. DEFINE rs == Append(records, Record(b))
  <2>1. history \in Seq(SweepRecord) /\ rs \in Seq(SweepRecord) /\ B = history \o rs
    BY <1>1
  <2>. HIDE DEF B, rs
  <2>2. /\ history \o rs \in Seq(SweepRecord)
        /\ Len(history \o rs) = Len(history) + Len(rs)
        /\ \A i \in 1 .. Len(history) + Len(rs) :
              (history \o rs)[i] = IF i <= Len(history) THEN history[i]
                                   ELSE rs[i - Len(history)]
    BY <2>1, ConcatProperties
  <2>3. /\ B \in Seq(SweepRecord) /\ Len(B) = Len(history) + Len(rs)
        /\ \A i \in 1 .. Len(history) + Len(rs) :
              B[i] = IF i <= Len(history) THEN history[i] ELSE rs[i - Len(history)]
    BY <2>1, <2>2
  <2>. QED  BY <2>3 DEF rs
<1>. HIDE DEF B
<1>4. /\ Len(Append(records, Record(b))) = Len(records) + 1
      /\ \A i \in 1 .. Len(records) : Append(records, Record(b))[i] = records[i]
      /\ Append(records, Record(b))[Len(records) + 1] = Record(b)
      /\ Len(records) \in Nat /\ Len(history) \in Nat
  BY <1>1, AppendProperties
<1>5. DOMAIN Book = 1 .. Len(Book) /\ Len(Book) \in Nat /\ DOMAIN B = 1 .. Len(Book) + 1
  <2>1. DOMAIN Book = 1 .. Len(Book) /\ Len(Book) \in Nat /\ DOMAIN B = 1 .. Len(B)
    BY <1>2, <1>3
  <2>2. Len(B) = Len(Book) + 1
    BY <1>2, <1>3, <1>4
  <2>. QED  BY <2>1, <2>2
<1>6. ASSUME NEW i \in DOMAIN Book PROVE B[i] = Book[i]
  <2>1. i \in 1 .. Len(history) + Len(records) /\ i \in Nat
    BY <1>2, <1>5
  <2>2. CASE i <= Len(history)
    BY <1>2, <1>3, <1>4, <2>1, <2>2
  <2>3. CASE ~(i <= Len(history))
    <3>1. i - Len(history) \in 1 .. Len(records)
      BY <1>4, <2>1, <2>3
    <3>2. B[i] = Append(records, Record(b))[i - Len(history)]
      BY <1>3, <1>4, <2>1, <2>3
    <3>. QED  BY <1>2, <1>4, <2>1, <2>3, <3>1, <3>2
  <2>. QED  BY <2>2, <2>3
<1>7. B[Len(Book) + 1] = Record(b)
  <2>. DEFINE n == Len(Book) + 1
  <2>1. /\ n \in 1 .. Len(history) + Len(Append(records, Record(b)))
        /\ ~(n <= Len(history)) /\ n - Len(history) = Len(records) + 1
    BY <1>2, <1>4
  <2>. HIDE DEF n
  <2>2. B[n] = Append(records, Record(b))[n - Len(history)]
    BY <1>3, <2>1
  <2>. QED  BY <1>4, <2>1, <2>2 DEF n
<1>8. Record(b).id = Len(out) /\ Record(b).success = b /\ Len(out) \in DOMAIN out
  BY SweeperTypes DEF Record
<1>9. \A i \in DOMAIN Book : Book[i].id < Len(out)
  <2>1. \A i \in DOMAIN Book : Book[i].id \in 1 .. Len(out) /\ Book[i].id # Len(out)
    BY SweeperTypes DEF HistInv, Entered
  <2>2. Len(out) \in Nat
    BY SweeperTypes
  <2>. QED  BY <2>1, <2>2
<1>10. Entered(B)
  <2>1. ASSUME NEW i \in DOMAIN B, NEW j \in DOMAIN B, i < j PROVE B[i].id < B[j].id
    <3>1. i \in DOMAIN Book
      BY <1>5, <2>1
    <3>2. CASE j \in DOMAIN Book
      BY <1>6, <2>1, <3>1, <3>2 DEF HistInv, Entered
    <3>3. CASE j = Len(Book) + 1
      BY <1>6, <1>7, <1>8, <1>9, <3>1, <3>3
    <3>. QED  BY <1>5, <3>2, <3>3
  <2>2. ASSUME NEW i \in DOMAIN B
        PROVE  B[i].id \in DOMAIN out /\ (B[i].success => out[B[i].id].state = "mined")
    <3>1. CASE i \in DOMAIN Book
      BY <1>6, <3>1 DEF HistInv, Entered
    <3>2. CASE i = Len(Book) + 1
      BY <1>7, <1>8, <3>2
    <3>. QED  BY <1>5, <3>1, <3>2
  <2>. QED  BY <1>3, <2>1, <2>2 DEF Entered
<1>11. /\ DOMAIN Book \subseteq DOMAIN B /\ Len(Book) + 1 \in DOMAIN B
       /\ \A i \in DOMAIN B : i \in DOMAIN Book \/ i = Len(Book) + 1
  BY <1>5
<1>. QED  BY <1>6, <1>7, <1>10, <1>11 DEF B


LEMMA AnswerKeepsHistory ==
  ASSUME TypeOK, ReserveInv, HistInv, Answer PROVE HistInv'
<1>. DEFINE last == out[Len(out)]
<1>1. /\ phase = "waiting" /\ last.state # "flying" /\ UNCHANGED <<out, lost>>
      /\ Done(IF Returns(last.state) THEN Append(records, Record(last.state = "mined"))
              ELSE records)
  BY DEF Answer, chainVars
<1>2. Returns("mined")
  <2>1. chain \in {"base", "near", "solana"}
    BY SweeperTypes DEF Chains
  <2>. QED  BY <2>1 DEF Returns, BaseReturns, NearReturns, SolanaReturns
<1>3. Len(history) <= HistoryLimit
  BY DEF HistInv
<1>4. ASSUME NEW k \in DOMAIN out \ lost, out[k].state = "mined", k # Len(out)
      PROVE  Kept(Book, k) /\ k < Len(out)
  BY <1>4, SweeperTypes DEF HistInv, Awaited
<1>5. CASE Returns(last.state)
  <2>. DEFINE b == last.state = "mined"
              B == history \o Append(records, Record(b))
  <2>1. b \in BOOLEAN /\ (b => out[Len(out)].state = "mined")
    OBVIOUS
  <2>. HIDE DEF b
  <2>2. /\ Entered(B) /\ DOMAIN Book \subseteq DOMAIN B /\ Len(Book) + 1 \in DOMAIN B
        /\ \A i \in DOMAIN B : i \in DOMAIN Book \/ i = Len(Book) + 1
        /\ \A i \in DOMAIN Book : B[i] = Book[i]
        /\ B[Len(Book) + 1] = Record(b)
    BY <1>1, <2>1, RecordEntersBook
  <2>3. Append(records, Record(b)) \in Seq(SweepRecord) /\ Done(Append(records, Record(b)))
    BY <1>1, <1>5, <2>1, RecordsKept DEF b
  <2>4. /\ Record(b).id = Len(out) /\ Record(b).success = b
        /\ Record(b).chain = chain /\ Record(b).amount = amount
    BY DEF Record
  <2>5. ASSUME NEW k \in DOMAIN out \ lost, out[k].state = "mined"
        PROVE  Kept(B, k)
    <3>. HIDE DEF B
    <3>1. CASE k = Len(out)
      <4>1. b /\ out[k].chain = chain /\ out[k].amount = amount
        BY <1>1, <2>5, <3>1 DEF b, HistInv, ReserveInv, WaitsForChain
      <4>. QED  BY <2>2, <2>4, <3>1, <4>1 DEF Kept, Remembered
    <3>2. CASE k # Len(out)
      <4>1. Kept(Book, k) /\ k < Len(out)
        BY <1>4, <2>5, <3>2
      <4>2. CASE Remembered(Book, k)
        BY <2>2, <4>2 DEF Kept, Remembered
      <4>3. CASE Len(history) = HistoryLimit /\ \A i \in DOMAIN Book : Book[i].id > k
        <5>1. \A i \in DOMAIN B : B[i].id > k
          <6>1. Len(out) > k
            BY <4>1, SweeperTypes
          <6>. QED  BY <2>2, <2>4, <4>3, <6>1
        <5>. QED  BY <4>3, <5>1 DEF Kept
      <4>. QED  BY <4>1, <4>2, <4>3 DEF Kept
    <3>. QED  BY <3>1, <3>2
  <2>. QED  BY <1>1, <1>3, <2>2, <2>3, <2>5, TurnKeepsHistory
<1>6. CASE ~Returns(last.state)
  <2>1. Done(records) /\ last.state # "mined" /\ records \in Seq(SweepRecord)
    BY <1>1, <1>2, <1>6, RecordsKept
  <2>2. Entered(history \o records)
    BY DEF HistInv, Book
  <2>3. ASSUME NEW k \in DOMAIN out \ lost, out[k].state = "mined"
        PROVE  Kept(history \o records, k)
    <3>1. k # Len(out)
      BY <2>1, <2>3
    <3>. QED  BY <1>4, <2>3, <3>1 DEF Book
  <2>. QED  BY <1>1, <1>3, <2>1, <2>2, <2>3, TurnKeepsHistory
<1>. QED  BY <1>5, <1>6

LEMMA AnswerLostKeepsHistory ==
  ASSUME TypeOK, HistInv, AnswerLost PROVE HistInv'
<1>1. /\ phase = "waiting" /\ out' = out /\ lost' = lost \cup {Len(out)}
      /\ Done(records) \/ Done(Append(records, Record(FALSE)))
  BY DEF AnswerLost, chainVars
<1>2. Len(history) <= HistoryLimit
  BY DEF HistInv
<1>3. ASSUME NEW k \in DOMAIN out \ lost', out[k].state = "mined"
      PROVE  Kept(Book, k) /\ k < Len(out)
  <2>1. k \in DOMAIN out \ lost /\ k # Len(out)
    BY <1>1, <1>3
  <2>. QED  BY <1>3, <2>1, SweeperTypes DEF HistInv, Awaited
<1>4. CASE Done(records)
  <2>1. records \in Seq(SweepRecord) /\ Entered(history \o records)
    BY DEF TypeOK, HistInv, Book
  <2>2. \A k \in DOMAIN out \ lost' : out[k].state = "mined" => Kept(history \o records, k)
    BY <1>3 DEF Book
  <2>. QED  BY <1>1, <1>2, <1>4, <2>1, <2>2, TurnKeepsHistory
<1>5. CASE Done(Append(records, Record(FALSE)))
  <2>. DEFINE B == history \o Append(records, Record(FALSE))
  <2>1. /\ Entered(B) /\ DOMAIN Book \subseteq DOMAIN B /\ Len(Book) + 1 \in DOMAIN B
        /\ \A i \in DOMAIN B : i \in DOMAIN Book \/ i = Len(Book) + 1
        /\ \A i \in DOMAIN Book : B[i] = Book[i]
        /\ B[Len(Book) + 1] = Record(FALSE)
    BY <1>1, RecordEntersBook
  <2>2. Append(records, Record(FALSE)) \in Seq(SweepRecord)
    BY RecordsKept
  <2>3. Record(FALSE).id = Len(out)
    BY DEF Record
  <2>4. ASSUME NEW k \in DOMAIN out \ lost', out[k].state = "mined"
        PROVE  Kept(B, k)
    <3>. HIDE DEF B
    <3>1. Kept(Book, k) /\ k < Len(out)
      BY <1>3, <2>4
    <3>2. CASE Remembered(Book, k)
      BY <2>1, <3>2 DEF Kept, Remembered
    <3>3. CASE Len(history) = HistoryLimit /\ \A i \in DOMAIN Book : Book[i].id > k
      <4>1. Len(out) > k
        BY <3>1, SweeperTypes
      <4>2. \A i \in DOMAIN B : B[i].id > k
        BY <2>1, <2>3, <3>3, <4>1
      <4>. QED  BY <3>3, <4>2 DEF Kept
    <3>. QED  BY <3>1, <3>2, <3>3 DEF Kept
  <2>5. lost \subseteq lost'
    BY <1>1
  <2>. QED  BY <1>1, <1>2, <1>5, <2>1, <2>2, <2>4, <2>5, TurnKeepsHistory
<1>. QED  BY <1>1, <1>4, <1>5

LEMMA HistoryStep == ASSUME TypeOK, ReserveInv, HistInv, [Next]_vars PROVE HistInv'
<1>1. CASE UNCHANGED <<out, history, records, lost, phase, amount>>
  BY <1>1, HistoryStays
<1>2. ASSUME \/ \E x \in Txs : Pay(x)
             \/ \E c \in Chains : Fund(c)
             \/ \E w \in Connections :
                   \/ \E u \in Users, h \in Hashes : Submit(w, u, h)
                   \/ Verify(w) \/ VerifyFails(w) \/ AddCredits(w)
             \/ UNCHANGED vars
      PROVE  HistInv'
  <2>1. UNCHANGED <<out, history, records, lost, phase, amount>>
    BY <1>2 DEF Pay, Fund, Submit, Verify, VerifyFails, AddCredits, vars, chainVars, sweeperVars
  <2>. QED  BY <1>1, <2>1
<1>3. CASE Wake \/ AskBalance
  <2>1. UNCHANGED <<out, history, records, lost>> /\ phase # "waiting"
        /\ phase' \notin {"waiting", "sleeping"}
    BY <1>3 DEF Wake, AskBalance, chainVars
  <2>. QED  BY <2>1, HistoryStays
<1>4. CASE NothingToSweep \/ ChainFails
  <2>1. Done(records) /\ phase \in {"asking", "sending"} /\ UNCHANGED <<out, lost>>
    BY <1>4 DEF NothingToSweep, ChainFails, chainVars
  <2>2. /\ records \in Seq(SweepRecord) /\ Entered(history \o records)
        /\ Len(history) <= HistoryLimit
    BY DEF TypeOK, HistInv, Book
  <2>3. \A k \in DOMAIN out \ lost : out[k].state = "mined" => Kept(history \o records, k)
    BY <2>1 DEF HistInv, Book, Awaited
  <2>. QED  BY <2>1, <2>2, <2>3, TurnKeepsHistory
<1>5. CASE Broadcast
  BY <1>5, BroadcastKeepsHistory
<1>6. CASE Answer
  BY <1>6, AnswerKeepsHistory
<1>7. CASE AnswerLost
  BY <1>7, AnswerLostKeepsHistory
<1>8. ASSUME NEW id \in DOMAIN out, Mine(id) \/ Forget(id) PROVE HistInv'
  <2>1. /\ out[id].state = "flying" /\ UNCHANGED <<sweeperVars, lost>>
        /\ \E state \in {"mined", "reverted", "forgotten"} : Becomes(id, state)
    BY <1>8 DEF Mine, Forget
  <2>. QED  BY <2>1, OutcomeKeepsHistory DEF ReserveInv
<1>. QED
  BY <1>2, <1>3, <1>4, <1>5, <1>6, <1>7, <1>8 DEF Next, Sweep

\* What left the wallets is in the history of sweeps, or displaced from it by
\* newer ones, and what the history says was sent was, except for transfers whose
\* answer was lost.
THEOREM HistoryIsComplete == Spec => []HistoryAccounts
<1>1. Init => ReserveInv /\ HistInv
  <2>1. ASSUME Init PROVE ReserveInv
    BY <2>1 DEF Init, ReserveInv, OneInFlight, WaitsForChain, EnoughThere, ReserveKept
  <2>2. ASSUME Init PROVE HistInv
    <3>1. Book = << >> /\ out = << >> /\ history = << >> /\ records = << >> /\ phase = "sleeping"
      <4>1. << >> \in Seq(SweepRecord)
        OBVIOUS
      <4>. QED  BY <2>2, <4>1, ConcatEmptySeq DEF Init, Book
    <3>. QED  BY <3>1 DEF HistInv, Entered
  <2>. QED  BY <2>1, <2>2
<1>2. TypeOK /\ ReserveInv /\ HistInv /\ [Next]_vars => (ReserveInv /\ HistInv)'
  BY ReserveStep, HistoryStep
<1>3. ASSUME TypeOK, HistInv PROVE HistoryAccounts
  <2>. SUFFICES ASSUME phase = "sleeping"
                PROVE  /\ \A id \in DOMAIN out \ lost :
                              out[id].state = "mined" => Kept(history, id)
                       /\ \A i \in DOMAIN history :
                              history[i].success => out[history[i].id].state = "mined"
                       /\ Len(history) <= HistoryLimit
    BY DEF HistoryAccounts, Kept
  <2>1. Book = history
    BY <1>3, ConcatEmptySeq DEF HistInv, Book, TypeOK
  <2>. QED  BY <1>3, <2>1 DEF HistInv, Entered, Awaited
<1>. QED  BY <1>1, <1>2, <1>3, TypeCorrect, PTL DEF Spec

=============================================================================
