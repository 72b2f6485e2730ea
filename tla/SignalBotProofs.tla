-------------------------- MODULE SignalBotProofs --------------------------
(***************************************************************************)
(* Proofs about Receiver and MessageLoop, for any accounts, rooms, rates,  *)
(* messages and faults.                                                    *)
(*                                                                         *)
(* Every step of the loop is a step of the receiver or leaves it alone     *)
(* (LoopStepReceives), so what the receiver's steps keep is shown once, of *)
(* ReceiverNext: Late has a due refresh come next; Line orders the         *)
(* frames of an account from those handled to those queued; Distinct puts  *)
(* a frame in one place.  Of the loop itself, Budget is the token bucket's *)
(* account of the calls made, and PostInv ties what was posted to the      *)
(* message it was posted for.                                              *)
(***************************************************************************)
EXTENDS MessageLoop, SequenceTheorems, TLAPS

USE ReceiverAssumption

-----------------------------------------------------------------------------
(* Types. *)

LEMMA HeadAndTail ==
    ASSUME NEW S, NEW s \in Seq(S), s # << >>
    PROVE  Head(s) \in S /\ Tail(s) \in Seq(S)
OBVIOUS

LEMMA SubSeqType ==
    ASSUME NEW S, NEW s \in Seq(S), NEW n \in 0 .. Len(s)
    PROVE  SubSeq(s, n + 1, Len(s)) \in Seq(S) /\ SubSeq(s, 1, n) \in Seq(S)
<1>1. \A i \in n + 1 .. Len(s) : s[i] \in S
  OBVIOUS
<1>2. \A i \in 1 .. n : s[i] \in S
  OBVIOUS
<1> QED BY <1>1, <1>2, SubSeqProperties

LEMMA IdsType ==
    ASSUME NEW s \in Seq(Frame) PROVE Ids(s) \subseteq Nat
<1>1. \A i \in DOMAIN s : s[i] \in Frame
  OBVIOUS
<1> QED BY <1>1 DEF Ids, Frame

LEMMA AccountType ==
    ASSUME accounts \in Seq(Accounts), at \in DOMAIN accounts PROVE account \in Accounts
BY DEF account

\* What is taken of a socket or a batch.
LEMMA ExtractedType ==
    ASSUME NEW f \in Frame, account \in Accounts
    PROVE  /\ Extracted(f) \subseteq Message
           /\ \A m, n \in Extracted(f) : m = n
           /\ \A m \in Extracted(f) : m.id = f.id /\ m.account = account
<1>1. f.id \in Nat /\ f.kind \in Kinds
  BY DEF Frame
<1> QED BY <1>1 DEF Extracted, Message

SourceTypes ==
    /\ registered \in Seq(Accounts)
    /\ \A i, j \in DOMAIN registered : registered[i] = registered[j] => i = j
    /\ queue \in [Accounts -> Seq(Frame)]
    /\ frames \in Nat

StreamTypes ==
    /\ rpc \in {"list", "wait", "next", "read", "yield", "pause"}
    /\ accounts \in Seq(Accounts)
    /\ \A i, j \in DOMAIN accounts : accounts[i] = accounts[j] => i = j
    /\ at \in Nat
    /\ rpc \in {"next", "read", "yield"} => at \in DOMAIN accounts
    /\ stale \in BOOLEAN
    /\ batch \in Seq(Frame) /\ (rpc # "yield" => batch = << >>)

HistoryTypes ==
    /\ handled \in Seq(Message)
    /\ skipped \subseteq Nat /\ gone \subseteq Nat
    /\ late \in [Accounts -> Nat]
    /\ faults \in Nat

HandTypes == hand \subseteq Message /\ \A m, n \in hand : m = n

LEMMA TypeParts ==
    ReceiverTypeOK <=> /\ mode \in {"websocket", "polling"}
                       /\ SourceTypes /\ StreamTypes /\ HandTypes /\ HistoryTypes
BY DEF ReceiverTypeOK, SourceTypes, StreamTypes, HandTypes, HistoryTypes

LEMMA TypePartsNext ==
    ReceiverTypeOK' <=> /\ mode' \in {"websocket", "polling"}
                        /\ SourceTypes' /\ StreamTypes' /\ HandTypes' /\ HistoryTypes'
BY DEF ReceiverTypeOK, SourceTypes, StreamTypes, HandTypes, HistoryTypes

\* A step leaves a part of the state alone.
LEMMA SourceKept == ASSUME SourceTypes, UNCHANGED sourceVars PROVE SourceTypes'
BY DEF SourceTypes, sourceVars
LEMMA StreamKept == ASSUME StreamTypes, UNCHANGED streamVars PROVE StreamTypes'
BY DEF StreamTypes, streamVars
LEMMA HandKept == ASSUME HandTypes, UNCHANGED hand PROVE HandTypes'
BY DEF HandTypes
LEMMA HistoryKept ==
    ASSUME HistoryTypes, UNCHANGED <<handled, skipped, gone, late, faults>>
    PROVE  HistoryTypes'
BY DEF HistoryTypes

\* A queue from which frames are taken.
LEMMA QueueShrinks ==
    ASSUME SourceTypes, NEW a \in Accounts, NEW s \in Seq(Frame),
           queue' = [queue EXCEPT ![a] = s], UNCHANGED <<registered, frames>>
    PROVE  SourceTypes'
BY DEF SourceTypes

\* The stream goes on with the next account or ends its round.
LEMMA NextAccountTypes ==
    ASSUME StreamTypes, rpc \in {"next", "read", "yield"}, NextAccount,
           UNCHANGED <<accounts, stale>>, batch' = << >>
    PROVE  StreamTypes'
BY DEF StreamTypes, NextAccount

LEMMA LeaveSocketTypes ==
    ASSUME SourceTypes, StreamTypes, rpc = "read", account \in Accounts,
           NEW n \in 0 .. Len(queue[account]), LeaveSocket(n),
           UNCHANGED <<registered, frames, accounts, stale, batch>>
    PROVE  /\ SourceTypes' /\ StreamTypes'
           /\ skipped \subseteq Nat => skipped' \subseteq Nat
<1>1. queue[account] \in Seq(Frame)
  BY DEF SourceTypes
<1>2. /\ SubSeq(queue[account], n + 1, Len(queue[account])) \in Seq(Frame)
      /\ SubSeq(queue[account], 1, n) \in Seq(Frame)
  BY <1>1, SubSeqType
<1>3. SourceTypes'
  BY <1>2, QueueShrinks DEF LeaveSocket
<1>4. batch' = << >>
  BY DEF StreamTypes
<1>5. StreamTypes'
  BY <1>4, NextAccountTypes DEF LeaveSocket
<1>6. Ids(SubSeq(queue[account], 1, n)) \subseteq Nat
  BY <1>2, IdsType
<1> QED BY <1>3, <1>5, <1>6 DEF LeaveSocket

LEMMA EnvironmentTypes ==
    ASSUME ReceiverTypeOK, Environment PROVE ReceiverTypeOK'
<1> USE TypeParts, TypePartsNext
<1>1. ASSUME NEW a \in Accounts, Register(a) PROVE ReceiverTypeOK'
  <2>1. SourceTypes'
    <3>1. \A i \in DOMAIN registered : registered[i] # a
      BY <1>1 DEF Register, Range
    <3>2. /\ registered' \in Seq(Accounts)
          /\ DOMAIN registered' = 1 .. Len(registered) + 1
          /\ registered'[Len(registered) + 1] = a
          /\ \A i \in DOMAIN registered : registered'[i] = registered[i]
      BY <1>1 DEF SourceTypes, Register
    <3>3. DOMAIN registered = 1 .. Len(registered) /\ Len(registered) \in Nat
      BY DEF SourceTypes
    <3>4. ASSUME NEW i \in DOMAIN registered', NEW j \in DOMAIN registered',
                 registered'[i] = registered'[j]
          PROVE  i = j
      <4>1. CASE i \in DOMAIN registered /\ j \in DOMAIN registered
        BY <3>2, <3>4, <4>1 DEF SourceTypes
      <4>2. CASE i \notin DOMAIN registered \/ j \notin DOMAIN registered
        BY <3>1, <3>2, <3>3, <3>4, <4>2
      <4> QED BY <4>1, <4>2
    <3> QED BY <1>1, <3>2, <3>4 DEF SourceTypes, Register
  <2> QED BY <1>1, <2>1, StreamKept, HandKept, HistoryKept DEF Register
<1>2. ASSUME NEW a \in Accounts, NEW k \in Kinds, Arrive(a, k) PROVE ReceiverTypeOK'
  <2>1. [id |-> frames', kind |-> k] \in Frame /\ frames' \in Nat
    BY <1>2 DEF Arrive, SourceTypes, Frame
  <2>2. Append(queue[a], [id |-> frames', kind |-> k]) \in Seq(Frame)
    BY <2>1 DEF SourceTypes
  <2>3. SourceTypes'
    BY <1>2, <2>1, <2>2 DEF Arrive, SourceTypes
  <2> QED BY <1>2, <2>3, StreamKept, HandKept, HistoryKept DEF Arrive
<1>3. ASSUME IntervalPasses PROVE ReceiverTypeOK'
  <2>1. StreamTypes'
    BY <1>3 DEF IntervalPasses, StreamTypes
  <2> QED BY <1>3, <2>1, SourceKept, HandKept, HistoryKept DEF IntervalPasses
<1> QED BY <1>1, <1>2, <1>3 DEF Environment

LEMMA StreamStepTypes ==
    ASSUME ReceiverTypeOK, Stream PROVE ReceiverTypeOK'
<1> USE TypeParts, TypePartsNext
<1>1. rpc \in {"next", "read", "yield"} => account \in Accounts
  BY AccountType DEF StreamTypes
<1>2. CASE ListAccounts
  <2>1. registered # << >> => 1 \in DOMAIN registered
    BY DEF SourceTypes
  <2>2. /\ accounts' \in Seq(Accounts)
        /\ \A i, j \in DOMAIN accounts' : accounts'[i] = accounts'[j] => i = j
    BY <1>2 DEF ListAccounts, SourceTypes
  <2>3. batch' = << >> /\ << >> \in Seq(Frame)
    BY <1>2 DEF ListAccounts, StreamTypes, Runs
  <2>4. StreamTypes'
    BY <1>2, <2>1, <2>2, <2>3 DEF ListAccounts, StreamTypes
  <2>5. HistoryTypes'
    BY <1>2 DEF ListAccounts, HistoryTypes
  <2> QED BY <1>2, <2>4, <2>5, SourceKept, HandKept DEF ListAccounts
<1>3. CASE ListFails
  <2>1. StreamTypes'
    BY <1>3 DEF ListFails, StreamTypes, Runs
  <2>2. HistoryTypes'
    BY <1>3 DEF ListFails, HistoryTypes, Fault
  <2> QED BY <1>3, <2>1, <2>2, SourceKept, HandKept DEF ListFails
<1>4. CASE ListIsFresh
  <2>1. StreamTypes'
    BY <1>4 DEF ListIsFresh, StreamTypes, Runs, RefreshDue
  <2> QED BY <1>4, <2>1, SourceKept, HandKept, HistoryKept DEF ListIsFresh
<1>5. CASE Again
  <2>1. StreamTypes'
    BY <1>5 DEF Again, StreamTypes
  <2> QED BY <1>5, <2>1, SourceKept, HandKept, HistoryKept DEF Again
<1>6. CASE Connect
  <2>1. StreamTypes'
    BY <1>6 DEF Connect, StreamTypes, Runs
  <2> QED BY <1>6, <2>1, SourceKept, HandKept, HistoryKept DEF Connect
<1>7. CASE ConnectFails
  <2>1. batch' = << >>
    BY <1>7 DEF ConnectFails, Runs, StreamTypes
  <2>2. StreamTypes'
    BY <1>7, <2>1, NextAccountTypes DEF ConnectFails, Runs
  <2>3. HistoryTypes'
    BY <1>7 DEF ConnectFails, HistoryTypes, Fault
  <2> QED BY <1>7, <2>2, <2>3, SourceKept, HandKept DEF ConnectFails
<1>8. CASE ReadMessage
  <2>1. account \in Accounts
    BY <1>1, <1>8 DEF ReadMessage, Runs
  <2>2. queue[account] \in Seq(Frame) /\ queue[account] # << >>
    BY <1>8, <2>1 DEF SourceTypes, ReadMessage
  <2>3. Head(queue[account]) \in Frame /\ Tail(queue[account]) \in Seq(Frame)
    BY <2>2, HeadAndTail
  <2>4. SourceTypes'
    BY <1>8, <2>1, <2>3, QueueShrinks DEF ReadMessage
  <2>5. HandTypes'
    BY <1>8, <2>1, <2>3, ExtractedType DEF ReadMessage, HandTypes
  <2> QED BY <1>8, <2>4, <2>5, StreamKept, HistoryKept DEF ReadMessage
<1>9. CASE ReadTooLate
  <2>1. account \in Accounts /\ rpc = "read"
    BY <1>1, <1>9 DEF ReadTooLate, Runs
  <2>2. PICK n \in 1 .. Len(queue[account]) : LeaveSocket(n)
    BY <1>9 DEF ReadTooLate
  <2>3. n \in 0 .. Len(queue[account])
    BY <2>1 DEF SourceTypes
  <2>4. SourceTypes' /\ StreamTypes' /\ skipped' \subseteq Nat
    BY <1>9, <2>1, <2>2, <2>3, LeaveSocketTypes DEF ReadTooLate, HistoryTypes
  <2>5. late' = [late EXCEPT ![account] = @ + 1]
    BY <1>9 DEF ReadTooLate
  <2>6. late' \in [Accounts -> Nat]
    BY <2>1, <2>5 DEF HistoryTypes
  <2>7. UNCHANGED <<handled, gone, faults>>
    BY <1>9 DEF ReadTooLate
  <2>8. HistoryTypes'
    BY <2>4, <2>6, <2>7 DEF HistoryTypes
  <2> QED BY <1>9, <2>4, <2>8, HandKept DEF ReadTooLate
<1>10. CASE SocketEnds
  <2>1. account \in Accounts /\ rpc = "read"
    BY <1>1, <1>10 DEF SocketEnds, Runs
  <2>2. PICK n \in 0 .. Len(queue[account]) : LeaveSocket(n)
    BY <1>10 DEF SocketEnds
  <2>3. SourceTypes' /\ StreamTypes' /\ skipped' \subseteq Nat
    BY <1>10, <2>1, <2>2, LeaveSocketTypes DEF SocketEnds, HistoryTypes
  <2>4. HistoryTypes'
    BY <1>10, <2>3 DEF SocketEnds, HistoryTypes, Fault
  <2> QED BY <1>10, <2>3, <2>4, HandKept DEF SocketEnds
<1>11. CASE Poll
  <2>1. account \in Accounts
    BY <1>1, <1>11 DEF Poll, Runs
  <2>2. queue[account] \in Seq(Frame) /\ << >> \in Seq(Frame)
    BY <2>1 DEF SourceTypes
  <2>3. SourceTypes'
    BY <1>11, <2>1, <2>2, QueueShrinks DEF Poll
  <2>4. StreamTypes'
    BY <1>11, <2>2 DEF Poll, StreamTypes, Runs
  <2> QED BY <1>11, <2>3, <2>4, HandKept, HistoryKept DEF Poll
<1>12. CASE PollFails
  <2>1. account \in Accounts /\ rpc = "next"
    BY <1>1, <1>12 DEF PollFails, Runs
  <2>2. queue[account] \in Seq(Frame) /\ << >> \in Seq(Frame)
    BY <2>1 DEF SourceTypes
  <2>3. SourceTypes'
    <3>1. CASE UNCHANGED queue
      BY <1>12, <3>1, SourceKept DEF PollFails, sourceVars
    <3>2. CASE queue' = [queue EXCEPT ![account] = << >>]
      BY <1>12, <2>1, <2>2, <3>2, QueueShrinks DEF PollFails
    <3> QED BY <1>12, <3>1, <3>2 DEF PollFails
  <2>4. batch' = << >>
    BY <1>12, <2>1 DEF PollFails, StreamTypes
  <2>5. StreamTypes'
    BY <1>12, <2>1, <2>4, NextAccountTypes DEF PollFails
  <2>6. Ids(queue[account]) \subseteq Nat
    BY <2>2, IdsType
  <2>7. HistoryTypes'
    BY <1>12, <2>6 DEF PollFails, HistoryTypes, Fault
  <2> QED BY <1>12, <2>3, <2>5, <2>7, HandKept DEF PollFails
<1>13. CASE Yield
  <2>1. account \in Accounts
    BY <1>1, <1>13 DEF Yield, Runs
  <2>2. Head(batch) \in Frame /\ Tail(batch) \in Seq(Frame)
    BY <1>13, HeadAndTail DEF Yield, StreamTypes
  <2>3. StreamTypes'
    BY <1>13, <2>2 DEF Yield, StreamTypes, Runs
  <2>4. HandTypes'
    BY <1>13, <2>1, <2>2, ExtractedType DEF Yield, HandTypes
  <2> QED BY <1>13, <2>3, <2>4, SourceKept, HistoryKept DEF Yield
<1>14. CASE BatchDone
  <2>1. StreamTypes'
    BY <1>14, NextAccountTypes DEF BatchDone, Runs
  <2> QED BY <1>14, <2>1, SourceKept, HandKept, HistoryKept DEF BatchDone
<1> QED BY <1>2, <1>3, <1>4, <1>5, <1>6, <1>7, <1>8, <1>9, <1>10, <1>11, <1>12, <1>13,
           <1>14 DEF Stream

LEMMA FinishTypes ==
    ASSUME ReceiverTypeOK, Finish PROVE ReceiverTypeOK'
<1> USE TypeParts, TypePartsNext
<1>1. HandTypes'
  BY DEF Finish, HandTypes
<1>2. HistoryTypes'
  BY DEF Finish, HistoryTypes, HandTypes
<1> QED BY <1>1, <1>2, SourceKept, StreamKept DEF Finish

LEMMA DieTypes ==
    ASSUME ReceiverTypeOK, Die, faults' \in Nat PROVE ReceiverTypeOK'
<1> USE TypeParts, TypePartsNext
<1>1. StreamTypes' /\ HandTypes'
  <2>1. << >> \in Seq(Accounts) /\ << >> \in Seq(Frame) /\ DOMAIN << >> = {}
    OBVIOUS
  <2>2. StreamTypes'
    BY <2>1 DEF Die, StreamTypes
  <2> QED BY <2>2 DEF Die, HandTypes
<1>2. Ids(batch) \subseteq Nat /\ {m.id : m \in hand} \subseteq Nat
  BY IdsType DEF StreamTypes, HandTypes, Message
<1>3. HistoryTypes'
  BY <1>2 DEF Die, HistoryTypes
<1> QED BY <1>1, <1>3, SourceKept DEF Die

LEMMA ReceiverStepTypes ==
    ASSUME ReceiverTypeOK, [ReceiverNext]_receiverVars PROVE ReceiverTypeOK'
<1>1. CASE UNCHANGED receiverVars
  BY <1>1 DEF ReceiverTypeOK, receiverVars
<1>2. CASE Crash
  <2>1. faults' \in Nat
    BY <1>2 DEF Crash, Fault, ReceiverTypeOK
  <2> QED BY <1>2, <2>1, DieTypes DEF Crash
<1> QED BY <1>1, <1>2, EnvironmentTypes, StreamStepTypes, FinishTypes DEF ReceiverNext

LEMMA ReceiverInitTypes == ReceiverInit => ReceiverTypeOK
<1> SUFFICES ASSUME ReceiverInit PROVE ReceiverTypeOK
  OBVIOUS
<1>1. /\ << >> \in Seq(Accounts) /\ << >> \in Seq(Frame) /\ << >> \in Seq(Message)
      /\ DOMAIN << >> = {}
  OBVIOUS
<1>2. SourceTypes
  BY <1>1 DEF ReceiverInit, SourceTypes
<1>3. StreamTypes
  BY <1>1 DEF ReceiverInit, StreamTypes
<1>4. HandTypes /\ HistoryTypes
  BY <1>1 DEF ReceiverInit, HandTypes, HistoryTypes
<1> QED BY <1>2, <1>3, <1>4, TypeParts DEF ReceiverInit

-----------------------------------------------------------------------------
(* A due refresh is not put off. *)

\* No socket has been left while the list is fresh.  Once it is due, those of the
\* accounts from at on have not yet been in this round.
Late ==
    /\ \A a \in Accounts : late[a] <= 1
    /\ ~stale => \A a \in Accounts : late[a] = 0
    /\ rpc \in {"next", "read", "yield"} =>
          \A i \in DOMAIN accounts : i >= at => late[accounts[i]] = 0

\* The steps that neither leave a socket for a refresh nor ask for the list.
LEMMA LateKept ==
    ASSUME ReceiverTypeOK, Late, UNCHANGED <<accounts, late>>,
           stale => stale',
           rpc' \in {"next", "read", "yield"} =>
              rpc \in {"next", "read", "yield"} /\ at' \in {at, at + 1}
    PROVE  Late'
<1>1. /\ accounts \in Seq(Accounts) /\ at \in Nat
      /\ late \in [Accounts -> Nat]
  BY DEF ReceiverTypeOK
<1>2. \A i \in DOMAIN accounts : i \in Nat
  BY <1>1
<1>3. CASE rpc' \in {"next", "read", "yield"}
  <2>1. ASSUME NEW i \in DOMAIN accounts, i >= at' PROVE i >= at
    BY <1>1, <1>2, <1>3, <2>1
  <2> QED BY <2>1, <1>3 DEF Late
<1>4. CASE rpc' \notin {"next", "read", "yield"}
  BY <1>4 DEF Late
<1> QED BY <1>3, <1>4

\* The list is asked for, or forgotten with the process.
LEMMA LateReset ==
    ASSUME late' = [a \in Accounts |-> 0], ReceiverTypeOK'
    PROVE  Late'
<1>1. \A i \in DOMAIN accounts' : accounts'[i] \in Accounts
  BY DEF ReceiverTypeOK
<1> QED BY <1>1 DEF Late

\* The socket of one account is left, and its turn in this round is over.
LEMMA LateOnce ==
    ASSUME ReceiverTypeOK, ReceiverTypeOK', Late, ReadTooLate
    PROVE  Late'
<1>1. /\ accounts \in Seq(Accounts) /\ at \in DOMAIN accounts
      /\ \A i, j \in DOMAIN accounts : accounts[i] = accounts[j] => i = j
      /\ late \in [Accounts -> Nat]
  BY DEF ReceiverTypeOK, ReadTooLate, Runs
<1>2. /\ accounts' = accounts /\ stale' = stale /\ stale
      /\ late' = [late EXCEPT ![account] = @ + 1]
      /\ NextAccount /\ rpc = "read"
  BY DEF ReadTooLate, LeaveSocket, Runs
<1>3. account = accounts[at] /\ account \in Accounts
  BY <1>1 DEF account
<1>4. late[account] = 0
  BY <1>1, <1>2, <1>3 DEF Late
<1>5. \A a \in Accounts : late'[a] <= 1
  BY <1>1, <1>2, <1>3, <1>4 DEF Late
<1>6. ASSUME rpc' \in {"next", "read", "yield"}, NEW i \in DOMAIN accounts, i >= at'
      PROVE  late'[accounts[i]] = 0
  <2>1. at' = at + 1
    BY <1>2, <1>6 DEF NextAccount
  <2>2. i # at /\ i >= at /\ accounts[i] \in Accounts
    BY <1>1, <1>6, <2>1
  <2>3. accounts[i] # account
    BY <1>1, <1>3, <2>2
  <2>4. late'[accounts[i]] = late[accounts[i]]
    BY <1>1, <1>2, <2>2, <2>3
  <2> QED BY <1>2, <2>2, <2>4 DEF Late
<1> QED BY <1>2, <1>5, <1>6 DEF Late

LEMMA LateInductive ==
    ASSUME ReceiverTypeOK, ReceiverTypeOK', Late, [ReceiverNext]_receiverVars
    PROVE  Late'
<1>1. CASE UNCHANGED receiverVars
  BY <1>1, LateKept DEF receiverVars
<1>2. CASE Environment
  <2>1. UNCHANGED <<rpc, accounts, at, late>> /\ (stale => stale')
    <3>1. ASSUME NEW a \in Accounts, Register(a)
          PROVE  UNCHANGED <<rpc, accounts, at, late, stale>>
      BY <3>1 DEF Register, streamVars
    <3>2. ASSUME NEW a \in Accounts, NEW k \in Kinds, Arrive(a, k)
          PROVE  UNCHANGED <<rpc, accounts, at, late, stale>>
      BY <3>2 DEF Arrive, streamVars
    <3>3. CASE IntervalPasses
      BY <3>3 DEF IntervalPasses
    <3> QED BY <1>2, <3>1, <3>2, <3>3 DEF Environment
  <2> QED BY <2>1, LateKept
<1>3. CASE ListAccounts \/ ListFails \/ Crash
  BY <1>3, LateReset DEF ListAccounts, ListFails, Crash, Die
<1>5. CASE ListIsFresh
  <2>1. accounts' = accounts /\ late' = late /\ stale' = stale /\ ~stale
    BY <1>5 DEF ListIsFresh, RefreshDue
  <2>2. \A i \in DOMAIN accounts : accounts[i] \in Accounts
    BY DEF ReceiverTypeOK
  <2> QED BY <2>1, <2>2 DEF Late
<1>6. CASE Again \/ Connect \/ ReadMessage \/ Poll \/ Yield
  BY <1>6, LateKept DEF Again, Connect, ReadMessage, Poll, Yield, Runs, streamVars
<1>7. CASE ConnectFails \/ PollFails \/ BatchDone
  BY <1>7, LateKept DEF ConnectFails, PollFails, BatchDone, Runs, NextAccount
<1>8. CASE SocketEnds
  BY <1>8, LateKept DEF SocketEnds, LeaveSocket, Runs, NextAccount
<1>9. CASE ReadTooLate
  BY <1>9, LateOnce
<1>10. CASE Finish
  BY <1>10, LateKept DEF Finish, streamVars
<1> QED BY <1>1, <1>2, <1>3, <1>5, <1>6, <1>7, <1>8, <1>9, <1>10
        DEF ReceiverNext, Stream

-----------------------------------------------------------------------------
(* The way of a message: from the queue over the batch and the hand to     *)
(* those that were handled.                                                *)

HandledOf(a) == {handled[i].id : i \in {n \in DOMAIN handled : handled[n].account = a}}
InHand(a)    == {m.id : m \in {n \in hand : n.account = a}}
InBatch(a)   == IF rpc = "yield" /\ account = a THEN Ids(batch) ELSE {}
Queued(a)    == Ids(queue[a])

Before(S, T) == \A x \in S, y \in T : x < y
Rising(s) == \A i, j \in DOMAIN s : i < j => s[i].id < s[j].id

LineOf(a) ==
    /\ Before(HandledOf(a), InHand(a)) /\ Before(HandledOf(a), InBatch(a))
    /\ Before(HandledOf(a), Queued(a)) /\ Before(InHand(a), InBatch(a))
    /\ Before(InHand(a), Queued(a)) /\ Before(InBatch(a), Queued(a))
    /\ HandledOf(a) \cup InHand(a) \cup InBatch(a) \cup Queued(a) \subseteq 1 .. frames
    /\ Rising(queue[a])

Line == /\ \A a \in Accounts : LineOf(a)
        /\ Rising(batch)
        /\ HandledInOrder

LEMMA RisingTail ==
    ASSUME NEW s \in Seq(Frame), s # << >>, Rising(s)
    PROVE  /\ Rising(Tail(s))
           /\ Ids(Tail(s)) \subseteq Ids(s)
           /\ Head(s).id \in Ids(s)
           /\ Before({Head(s).id}, Ids(Tail(s)))
<1>1. /\ Len(s) \in Nat /\ Len(s) > 0 /\ DOMAIN s = 1 .. Len(s)
      /\ DOMAIN Tail(s) = 1 .. Len(s) - 1
      /\ \A i \in 1 .. Len(s) - 1 : Tail(s)[i] = s[i + 1]
      /\ Head(s) = s[1]
  OBVIOUS
<1>2. \A i \in 1 .. Len(s) - 1 : i + 1 \in DOMAIN s /\ 1 < i + 1
  BY <1>1
<1>3. Rising(Tail(s))
  BY <1>1, <1>2 DEF Rising
<1>4. Ids(Tail(s)) \subseteq Ids(s) /\ Head(s).id \in Ids(s)
  BY <1>1, <1>2 DEF Ids
<1>5. Before({Head(s).id}, Ids(Tail(s)))
  BY <1>1, <1>2 DEF Rising, Ids, Before
<1> QED BY <1>3, <1>4, <1>5

LEMMA RisingSub ==
    ASSUME NEW s \in Seq(Frame), NEW n \in 0 .. Len(s), Rising(s)
    PROVE  /\ Rising(SubSeq(s, n + 1, Len(s)))
           /\ Ids(SubSeq(s, n + 1, Len(s))) \subseteq Ids(s)
<1> DEFINE r == SubSeq(s, n + 1, Len(s))
<1>1. /\ Len(s) \in Nat /\ DOMAIN s = 1 .. Len(s)
      /\ DOMAIN r = 1 .. Len(s) - n
      /\ \A i \in 1 .. Len(s) - n : r[i] = s[n + i]
  <2>1. Len(s) \in n + 1 - 1 .. Len(s) /\ n + 1 \in 1 .. Len(s) + 1
    OBVIOUS
  <2> QED BY <2>1, SubSeqProperties
<1>2. \A i \in 1 .. Len(s) - n : n + i \in DOMAIN s
  BY <1>1
<1> HIDE DEF r
<1>3. Rising(r)
  BY <1>1, <1>2 DEF Rising
<1>4. Ids(r) \subseteq Ids(s)
  BY <1>1, <1>2 DEF Ids
<1> QED BY <1>3, <1>4 DEF r

\* Nothing comes into the line, it only loses messages.
LEMMA LineShrinks ==
    ASSUME Line, UNCHANGED <<handled, frames>>,
           \A a \in Accounts : /\ InHand(a)' \subseteq InHand(a)
                               /\ InBatch(a)' \subseteq InBatch(a)
                               /\ Queued(a)' \subseteq Queued(a)
                               /\ Rising(queue'[a]),
           Rising(batch')
    PROVE  Line'
<1>1. \A a \in Accounts : HandledOf(a)' = HandledOf(a)
  BY DEF HandledOf
<1>2. ASSUME NEW a \in Accounts PROVE LineOf(a)'
  BY <1>1 DEF Line, LineOf, Before
<1> QED BY <1>2 DEF Line, HandledInOrder

LEMMA LineKept ==
    ASSUME Line, UNCHANGED <<handled, frames, queue, hand, batch, rpc, accounts, at>>
    PROVE  Line'
BY LineShrinks DEF InHand, InBatch, Queued, account, Line, LineOf

\* Steps at which the stream leaves an account or has none.
LEMMA LineTurns ==
    ASSUME ReceiverTypeOK, Line, UNCHANGED <<handled, frames, queue, hand>>, batch' = << >>,
           rpc # "yield" \/ batch = << >>
    PROVE  Line'
<1>1. Ids(batch') = {} /\ Rising(batch')
  BY DEF Ids, Rising
<1> QED BY <1>1, LineShrinks DEF InHand, InBatch, Queued, Line, LineOf

LEMMA LineLeaves ==
    ASSUME ReceiverTypeOK, Line, account \in Accounts, NEW s \in Seq(Frame),
           queue' = [queue EXCEPT ![account] = s],
           Ids(s) \subseteq Ids(queue[account]), Rising(s),
           UNCHANGED <<handled, frames, hand>>, batch' = << >>
    PROVE  Line'
<1>1. Ids(batch') = {} /\ Rising(batch')
  BY DEF Ids, Rising
<1>2. queue \in [Accounts -> Seq(Frame)]
  BY DEF ReceiverTypeOK
<1>3. \A a \in Accounts : Queued(a)' \subseteq Queued(a) /\ Rising(queue'[a])
  BY <1>2 DEF Queued, Line, LineOf
<1> QED BY <1>1, <1>3, LineShrinks DEF InHand, InBatch

LEMMA LineArrives ==
    ASSUME ReceiverTypeOK, Line, NEW a \in Accounts, NEW k \in Kinds, Arrive(a, k)
    PROVE  Line'
<1> DEFINE f == [id |-> frames + 1, kind |-> k]
<1>1. /\ queue \in [Accounts -> Seq(Frame)] /\ frames \in Nat /\ f \in Frame
  <2>1. queue \in [Accounts -> Seq(Frame)] /\ frames \in Nat
    BY DEF ReceiverTypeOK
  <2>2. frames + 1 \in Nat
    BY <2>1
  <2>3. f \in Frame
    BY <2>2 DEF Frame
  <2> QED BY <2>1, <2>3
<1>2. /\ frames' = frames + 1 /\ f.id = frames + 1
      /\ queue' = [queue EXCEPT ![a] = Append(queue[a], f)]
      /\ UNCHANGED <<handled, hand, batch, rpc, accounts, at>>
  BY DEF Arrive, streamVars
<1>3. queue[a] \in Seq(Frame)
  BY <1>1
<1> HIDE DEF f
<1>4. /\ DOMAIN queue[a] = 1 .. Len(queue[a]) /\ Len(queue[a]) \in Nat
      /\ DOMAIN queue'[a] = 1 .. Len(queue[a]) + 1
      /\ queue'[a][Len(queue[a]) + 1] = f
      /\ \A i \in 1 .. Len(queue[a]) : queue'[a][i] = queue[a][i]
  BY <1>1, <1>2, <1>3
<1>5. Queued(a)' = Queued(a) \cup {frames + 1}
  BY <1>2, <1>4 DEF Queued, Ids
<1>6. \A i \in DOMAIN queue[a] : queue[a][i].id \in 1 .. frames
  BY DEF Line, LineOf, Queued, Ids
<1>7. Rising(queue'[a])
  <2>1. Rising(queue[a])
    BY DEF Line, LineOf
  <2> SUFFICES ASSUME NEW i \in DOMAIN queue'[a], NEW j \in DOMAIN queue'[a], i < j
               PROVE  queue'[a][i].id < queue'[a][j].id
    BY DEF Rising
  <2>2. i \in DOMAIN queue[a]
    BY <1>4
  <2>3. CASE j \in DOMAIN queue[a]
    BY <1>4, <2>1, <2>2, <2>3 DEF Rising
  <2>4. CASE j = Len(queue[a]) + 1
    BY <1>1, <1>2, <1>4, <1>6, <2>2, <2>4
  <2> QED BY <1>4, <2>3, <2>4
<1>8. ASSUME NEW b \in Accounts PROVE LineOf(b)'
  <2>1. /\ HandledOf(b)' = HandledOf(b) /\ InHand(b)' = InHand(b)
        /\ InBatch(b)' = InBatch(b)
    BY <1>2 DEF HandledOf, InHand, InBatch, account
  <2>2. LineOf(b)
    BY DEF Line
  <2>3. CASE b = a
    <3>1. \A x \in 1 .. frames : x \in 1 .. frames + 1 /\ x < frames + 1
      BY <1>1
    <3>2. frames + 1 \in 1 .. frames + 1
      BY <1>1
    <3> QED BY <1>2, <1>5, <1>7, <2>1, <2>2, <2>3, <3>1, <3>2 DEF LineOf, Before
  <2>4. CASE b # a
    <3>1. queue'[b] = queue[b]
      BY <1>1, <1>2, <2>4
    <3>2. \A x \in 1 .. frames : x \in 1 .. frames + 1
      BY <1>1
    <3>3. Queued(b)' = Queued(b)
      BY <3>1 DEF Queued
    <3> QED BY <1>2, <2>1, <2>2, <3>1, <3>2, <3>3 DEF LineOf
  <2> QED BY <2>3, <2>4
<1> QED BY <1>2, <1>8 DEF Line, HandledInOrder

\* The first of the frames in a queue or a batch becomes the message in hand.
LEMMA HandOf ==
    ASSUME hand = {}, account \in Accounts, NEW f \in Frame, hand' = Extracted(f)
    PROVE  \A a \in Accounts :
              /\ InHand(a) = {}
              /\ InHand(a)' \subseteq IF a = account THEN {f.id} ELSE {}
BY ExtractedType DEF InHand

LEMMA LineReads ==
    ASSUME ReceiverTypeOK, Line, ReadMessage
    PROVE  Line'
<1>1. /\ hand = {} /\ queue[account] # << >> /\ rpc = "read"
      /\ hand' = Extracted(Head(queue[account]))
      /\ queue' = [queue EXCEPT ![account] = Tail(queue[account])]
      /\ UNCHANGED <<handled, frames, batch, rpc, accounts, at>>
  BY DEF ReadMessage, Runs, streamVars
<1>2. queue \in [Accounts -> Seq(Frame)] /\ account \in Accounts
  BY <1>1 DEF ReceiverTypeOK, account
<1>3. queue[account] \in Seq(Frame) /\ Head(queue[account]) \in Frame
  BY <1>1, <1>2, HeadAndTail
<1>4. Rising(queue[account])
  BY <1>2 DEF Line, LineOf
<1>5. /\ queue'[account] = Tail(queue[account])
      /\ \A a \in Accounts : a # account => queue'[a] = queue[a]
  BY <1>1, <1>2
<1>6. ASSUME NEW a \in Accounts PROVE LineOf(a)'
  <2>1. /\ HandledOf(a)' = HandledOf(a) /\ InBatch(a)' = {}
    BY <1>1 DEF HandledOf, InBatch
  <2>2. LineOf(a)
    BY DEF Line
  <2>3. InHand(a)' \subseteq IF a = account THEN {Head(queue[account]).id} ELSE {}
    BY <1>1, <1>2, <1>3, HandOf
  <2>4. CASE a = account
    <3>1. /\ Rising(queue'[a]) /\ Queued(a)' \subseteq Queued(a)
          /\ Head(queue[account]).id \in Queued(a)
          /\ Before({Head(queue[account]).id}, Queued(a)')
      BY <1>1, <1>3, <1>4, <1>5, <2>4, RisingTail DEF Queued
    <3> QED BY <1>1, <2>1, <2>2, <2>3, <2>4, <3>1 DEF LineOf, Before
  <2>5. CASE a # account
    <3>1. queue'[a] = queue[a] /\ Queued(a)' = Queued(a)
      BY <1>5, <2>5 DEF Queued
    <3> QED BY <1>1, <2>1, <2>2, <2>3, <2>5, <3>1 DEF LineOf, Before
  <2> QED BY <2>4, <2>5
<1> QED BY <1>1, <1>6 DEF Line, HandledInOrder

LEMMA LinePolls ==
    ASSUME ReceiverTypeOK, Line, Poll
    PROVE  Line'
<1>1. /\ hand = {} /\ hand' = {} /\ rpc = "next" /\ rpc' = "yield"
      /\ batch' = queue[account]
      /\ queue' = [queue EXCEPT ![account] = << >>]
      /\ UNCHANGED <<handled, frames, accounts, at>>
  BY DEF Poll, Runs
<1>2. queue \in [Accounts -> Seq(Frame)] /\ account \in Accounts
  BY <1>1 DEF ReceiverTypeOK, account
<1>3. account' = account
  BY <1>1 DEF account
<1>4. Ids(<< >>) = {} /\ Rising(<< >>)
  BY DEF Ids, Rising
<1>5. Rising(batch')
  BY <1>1, <1>2 DEF Line, LineOf
<1>6. ASSUME NEW a \in Accounts PROVE LineOf(a)'
  <2>1. HandledOf(a)' = HandledOf(a) /\ InHand(a)' = {}
    BY <1>1 DEF HandledOf, InHand
  <2>2. LineOf(a)
    BY DEF Line
  <2>3. CASE a = account
    <3>1. InBatch(a)' = Queued(a) /\ Queued(a)' = {} /\ Rising(queue'[a])
      BY <1>1, <1>2, <1>3, <1>4, <2>3 DEF InBatch, Queued
    <3> QED BY <1>1, <2>1, <2>2, <3>1 DEF LineOf, Before
  <2>4. CASE a # account
    <3>1. InBatch(a)' = {} /\ queue'[a] = queue[a] /\ Queued(a)' = Queued(a)
      BY <1>1, <1>2, <1>3, <2>4 DEF InBatch, Queued
    <3> QED BY <1>1, <2>1, <2>2, <3>1 DEF LineOf, Before
  <2> QED BY <2>3, <2>4
<1> QED BY <1>1, <1>5, <1>6 DEF Line, HandledInOrder

LEMMA LineYields ==
    ASSUME ReceiverTypeOK, Line, Yield
    PROVE  Line'
<1>1. /\ hand = {} /\ batch # << >> /\ rpc = "yield"
      /\ hand' = Extracted(Head(batch)) /\ batch' = Tail(batch)
      /\ UNCHANGED <<handled, frames, queue, rpc, accounts, at>>
  BY DEF Yield, Runs, sourceVars
<1>2. batch \in Seq(Frame) /\ account \in Accounts
  BY <1>1 DEF ReceiverTypeOK, account
<1>3. /\ Head(batch) \in Frame /\ Rising(batch) /\ account' = account
      /\ Rising(batch') /\ Ids(batch') \subseteq Ids(batch) /\ Head(batch).id \in Ids(batch)
      /\ Before({Head(batch).id}, Ids(batch'))
  BY <1>1, <1>2, HeadAndTail, RisingTail DEF Line, account
<1>4. ASSUME NEW a \in Accounts PROVE LineOf(a)'
  <2>1. HandledOf(a)' = HandledOf(a) /\ Queued(a)' = Queued(a) /\ queue'[a] = queue[a]
    BY <1>1 DEF HandledOf, Queued
  <2>2. LineOf(a)
    BY DEF Line
  <2>3. InHand(a)' \subseteq IF a = account THEN {Head(batch).id} ELSE {}
    BY <1>1, <1>2, <1>3, HandOf
  <2>4. CASE a = account
    <3>1. InBatch(a) = Ids(batch) /\ InBatch(a)' = Ids(batch')
      BY <1>1, <1>3, <2>4 DEF InBatch
    <3> QED BY <1>1, <1>3, <2>1, <2>2, <2>3, <2>4, <3>1 DEF LineOf, Before
  <2>5. CASE a # account
    <3>1. InBatch(a)' = {}
      BY <1>3, <2>5 DEF InBatch
    <3> QED BY <1>1, <2>1, <2>2, <2>3, <2>5, <3>1 DEF LineOf, Before
  <2> QED BY <2>4, <2>5
<1> QED BY <1>1, <1>3, <1>4 DEF Line, HandledInOrder

LEMMA LineFinishes ==
    ASSUME ReceiverTypeOK, Line, Finish
    PROVE  Line'
<1>1. PICK m \in hand : handled' = Append(handled, m)
  BY DEF Finish
<1>2. /\ hand = {m} /\ hand' = {} /\ m \in Message /\ handled \in Seq(Message)
      /\ UNCHANGED <<frames, queue, batch, rpc, accounts, at>>
  BY <1>1 DEF Finish, ReceiverTypeOK, sourceVars, streamVars
<1>3. /\ DOMAIN handled = 1 .. Len(handled) /\ Len(handled) \in Nat
      /\ DOMAIN handled' = 1 .. Len(handled) + 1
      /\ handled'[Len(handled) + 1] = m
      /\ \A i \in 1 .. Len(handled) : handled'[i] = handled[i]
  BY <1>1, <1>2
<1>4. m.account \in Accounts /\ m.id \in InHand(m.account)
  BY <1>2 DEF Message, InHand
<1>5. ASSUME NEW a \in Accounts PROVE LineOf(a)'
  <2>1. /\ InHand(a)' = {} /\ InBatch(a)' = InBatch(a) /\ Queued(a)' = Queued(a)
        /\ queue'[a] = queue[a]
    BY <1>2 DEF InHand, InBatch, Queued, account
  <2>2. HandledOf(a)' \subseteq HandledOf(a) \cup InHand(a)
    BY <1>2, <1>3 DEF HandledOf, InHand
  <2>3. LineOf(a)
    BY DEF Line
  <2> QED BY <1>2, <2>1, <2>2, <2>3 DEF LineOf, Before
<1>6. HandledInOrder'
  <2> SUFFICES ASSUME NEW i \in DOMAIN handled', NEW j \in DOMAIN handled', i < j,
                      handled'[i].account = handled'[j].account
               PROVE  handled'[i].id < handled'[j].id
    BY DEF HandledInOrder
  <2>1. i \in DOMAIN handled /\ handled'[i] = handled[i]
    BY <1>3
  <2>2. CASE j \in DOMAIN handled
    BY <1>3, <2>1, <2>2 DEF Line, HandledInOrder
  <2>3. CASE j = Len(handled) + 1
    <3>1. handled[i].account = m.account
      BY <1>3, <2>1, <2>3
    <3>2. handled[i].id \in HandledOf(m.account)
      BY <2>1, <3>1 DEF HandledOf
    <3>3. Before(HandledOf(m.account), InHand(m.account))
      BY <1>4 DEF Line, LineOf
    <3> QED BY <1>3, <1>4, <2>1, <2>3, <3>2, <3>3 DEF Before
  <2> QED BY <1>3, <2>2, <2>3
<1> QED BY <1>2, <1>5, <1>6 DEF Line

LEMMA LineDies ==
    ASSUME Line, Die PROVE Line'
<1>1. /\ rpc' = "list" /\ batch' = << >> /\ hand' = {}
      /\ UNCHANGED <<handled, frames, queue>>
  BY DEF Die, sourceVars
<1>2. Ids(batch') = {} /\ Rising(batch')
  BY <1>1 DEF Ids, Rising
<1> QED BY <1>1, <1>2, LineShrinks DEF InHand, InBatch, Queued, Line, LineOf

LEMMA LineInductive ==
    ASSUME ReceiverTypeOK, Line, [ReceiverNext]_receiverVars
    PROVE  Line'
<1>0. /\ rpc # "yield" => batch = << >>
      /\ rpc \in {"next", "read", "yield"} => account \in Accounts
      /\ \A a \in Accounts : queue[a] \in Seq(Frame)
  BY DEF ReceiverTypeOK, account
<1>1. CASE UNCHANGED receiverVars
  BY <1>1, LineKept DEF receiverVars
<1>2. CASE Environment
  <2>1. ASSUME NEW a \in Accounts, Register(a) PROVE Line'
    BY <2>1, LineKept DEF Register, streamVars
  <2>2. CASE IntervalPasses
    BY <2>2, LineKept DEF IntervalPasses, sourceVars
  <2> QED BY <1>2, <2>1, <2>2, LineArrives DEF Environment
<1>3. CASE ListAccounts \/ ListFails \/ ListIsFresh \/ Connect
  <2>1. rpc # "yield" /\ UNCHANGED <<handled, frames, queue, hand, batch>>
    BY <1>3 DEF ListAccounts, ListFails, ListIsFresh, Connect, Runs, sourceVars
  <2> QED BY <1>0, <2>1, LineTurns
<1>4. CASE Again
  <2>1. rpc # "yield" /\ UNCHANGED <<handled, frames, queue, hand, batch>>
    BY <1>4 DEF Again, sourceVars
  <2> QED BY <1>0, <2>1, LineTurns
<1>5. CASE ConnectFails \/ BatchDone
  <2>1. batch = << >> /\ UNCHANGED <<handled, frames, queue, hand, batch>>
    BY <1>0, <1>5 DEF ConnectFails, BatchDone, Runs, sourceVars
  <2> QED BY <2>1, LineTurns
<1>6. CASE ReadTooLate \/ SocketEnds
  <2>1. /\ rpc = "read" /\ account \in Accounts
        /\ UNCHANGED <<handled, frames, hand, batch>>
    BY <1>0, <1>6 DEF ReadTooLate, SocketEnds, Runs
  <2>2. PICK n \in 0 .. Len(queue[account]) : LeaveSocket(n)
    <3>1. Len(queue[account]) \in Nat
      BY <1>0, <2>1
    <3> QED BY <1>6, <3>1 DEF ReadTooLate, SocketEnds
  <2>3. queue[account] \in Seq(Frame) /\ Rising(queue[account])
    BY <1>0, <2>1 DEF Line, LineOf
  <2>4. /\ SubSeq(queue[account], n + 1, Len(queue[account])) \in Seq(Frame)
        /\ Rising(SubSeq(queue[account], n + 1, Len(queue[account])))
        /\ Ids(SubSeq(queue[account], n + 1, Len(queue[account]))) \subseteq Ids(queue[account])
    BY <2>3, SubSeqType, RisingSub
  <2>5. queue' = [queue EXCEPT ![account] =
                      SubSeq(queue[account], n + 1, Len(queue[account]))]
    BY <2>2 DEF LeaveSocket
  <2> QED BY <1>0, <2>1, <2>4, <2>5, LineLeaves
<1>7. CASE PollFails
  <2>1. /\ batch' = << >> /\ account \in Accounts /\ rpc = "next"
        /\ UNCHANGED <<handled, frames, hand>>
    BY <1>0, <1>7 DEF PollFails, Runs
  <2>2. CASE UNCHANGED queue
    BY <2>1, <2>2, LineTurns
  <2>3. CASE queue' = [queue EXCEPT ![account] = << >>]
    <3>1. << >> \in Seq(Frame) /\ Ids(<< >>) = {} /\ Rising(<< >>)
      BY DEF Ids, Rising
    <3> QED BY <2>1, <2>3, <3>1, LineLeaves
  <2> QED BY <1>7, <2>2, <2>3 DEF PollFails
<1>8. CASE Crash
  BY <1>8, LineDies DEF Crash
<1> QED BY <1>1, <1>2, <1>3, <1>4, <1>5, <1>6, <1>7, <1>8,
           LineReads, LinePolls, LineYields, LineFinishes
        DEF ReceiverNext, Stream

LEMMA LineInit == ReceiverInit => Line
<1> SUFFICES ASSUME ReceiverInit PROVE Line
  OBVIOUS
<1>1. /\ handled = << >> /\ hand = {} /\ batch = << >> /\ rpc = "list"
      /\ \A a \in Accounts : queue[a] = << >>
  BY DEF ReceiverInit
<1>2. DOMAIN << >> = {} /\ Ids(<< >>) = {}
  BY DEF Ids
<1>3. \A a \in Accounts : /\ HandledOf(a) = {} /\ InHand(a) = {} /\ InBatch(a) = {}
                          /\ Queued(a) = {}
  BY <1>1, <1>2 DEF HandledOf, InHand, InBatch, Queued
<1> QED BY <1>1, <1>2, <1>3 DEF Line, LineOf, Before, Rising, HandledInOrder

-----------------------------------------------------------------------------
(* The message loop is a client of the receiver. *)

LEMMA StreamWaits ==
    ASSUME Stream PROVE hand = {}
BY DEF Stream, ListAccounts, ListFails, ListIsFresh, Again, Connect, ConnectFails,
       ReadMessage, ReadTooLate, SocketEnds, Poll, PollFails, Yield, BatchDone, Runs

\* Every step of the loop is a step of the receiver or leaves it alone.
LEMMA LoopStepReceives ==
    ASSUME LoopTypeOK, [Next]_vars PROVE [ReceiverNext]_receiverVars
<1>1. CASE UNCHANGED vars
  BY <1>1 DEF vars
<1>2. ASSUME NEW k \in Spoken, Speak(k) PROVE UNCHANGED receiverVars
  BY <1>2 DEF Speak
<1>3. ASSUME NEW f \in air, Deliver(f) PROVE ReceiverNext
  <2>1. f.to \in Accounts /\ f.kind \in Kinds
    BY DEF LoopTypeOK
  <2> QED BY <1>3, <2>1 DEF Deliver, ReceiverNext, Environment
<1>4. ASSUME NEW a \in Accounts, Register(a) PROVE ReceiverNext
  BY <1>4 DEF ReceiverNext, Environment
<1>5. CASE Tick
  BY <1>5 DEF Tick
<1>6. CASE Receive
  BY <1>6 DEF Receive, ReceiverNext, Environment
<1>7. CASE Untranslated \/ StartTranslation \/ ProviderEnds \/ SendTranslation \/ Execute
  BY <1>7 DEF Untranslated, StartTranslation, ProviderEnds, SendTranslation, Execute
<1>8. CASE NoHandler \/ Reply
  BY <1>8 DEF NoHandler, LoopFinish, Reply, ReceiverNext
<1>9. CASE Panic
  BY <1>9 DEF Panic, ReceiverNext, Crash
<1>10. CASE Restart
  BY <1>10 DEF Restart, ReceiverNext, Crash
<1> QED BY <1>1, <1>2, <1>3, <1>4, <1>5, <1>6, <1>7, <1>8, <1>9, <1>10 DEF Next, Handling

LEMMA Product == ASSUME NEW x \in Nat, NEW y \in Nat PROVE x * y \in Nat
OBVIOUS

LEMMA FramesType ==
    ASSUME NEW n \in Nat, NEW k \in Kinds, NEW to \in SUBSET Accounts
    PROVE  Frames(n, k, to) \subseteq [no : Nat, to : Accounts, kind : Kinds]
BY DEF Frames

\* What the loop sends is a message like any other.
LEMMA SendType ==
    ASSUME LoopTypeOK, NEW m \in hand, NEW what \in {"translation", "answer"},
           Send(m, what)
    PROVE  /\ posts' = Append(posts, [for |-> m.id, account |-> m.account,
                                      room |-> m.kind.room, what |-> what])
           /\ posts' \in Seq(Post)
           /\ air' \subseteq [no : Nat, to : Accounts, kind : Kinds]
<1> USE LoopAssumption
<1> DEFINE to == IF m.kind.room = Direct THEN {} ELSE Members[m.kind.room] \ {m.account}
           post == [for |-> m.id, account |-> m.account, room |-> m.kind.room, what |-> what]
<1>1. m.id \in Nat /\ m.account \in Accounts /\ m.kind \in Kind
  BY DEF LoopTypeOK, ReceiverTypeOK, Message
<1>2. m.kind.room \in Rooms
  BY <1>1 DEF Kind
<1>4. to \in SUBSET Accounts
  BY <1>2 DEF Rooms
<1>5. post \in Post
  BY <1>1, <1>2 DEF Post
<1>6. PICK k \in Wording(m, what) :
        /\ posts' = Append(posts, post)
        /\ air' = air \cup Frames(spoken + Len(posts'), k, to)
  BY DEF Send
<1>3. k \in Kinds
  BY <1>6 DEF Wording
<1> HIDE DEF to, post
<1>7. posts' \in Seq(Post) /\ Len(posts') \in Nat
  BY <1>5, <1>6 DEF LoopTypeOK
<1>8. spoken + Len(posts') \in Nat
  BY <1>7 DEF LoopTypeOK
<1>9. air' \subseteq [no : Nat, to : Accounts, kind : Kinds]
  BY <1>3, <1>4, <1>6, <1>8, FramesType DEF LoopTypeOK
<1> QED BY <1>6, <1>7, <1>9 DEF post

LEMMA RefilledType ==
    ASSUME LoopTypeOK
    PROVE  /\ Refilled \in 0 .. Capacity * Unit
           /\ Refilled <= tokens + (clock - refilled) * Refill
           /\ (clock - refilled) * Refill \in Nat
           /\ Capacity * Unit \in Nat
<1> USE LoopAssumption
<1>1. clock - refilled \in Nat /\ tokens \in Nat /\ Refill \in Nat
  BY DEF LoopTypeOK
<1>2. (clock - refilled) * Refill \in Nat /\ Capacity * Unit \in Nat
  BY <1>1, Product
<1> QED BY <1>1, <1>2 DEF Refilled, Least

\* The loop's own variables, but for what it sends.
ControlTypes ==
    /\ lpc \in {"take", "translate", "quote", "route", "reply"}
    /\ lpc # "take" => hand # {}
    /\ clock \in Nat /\ refilled \in 0 .. clock
    /\ tokens \in 0 .. Capacity * Unit
    /\ spoken \in Nat
    /\ calls \in Seq(Nat)

SendTypes ==
    /\ air \subseteq [no : Nat, to : Accounts, kind : Kinds]
    /\ posts \in Seq(Post)

LEMMA LoopTypeParts == LoopTypeOK <=> ReceiverTypeOK /\ ControlTypes /\ SendTypes
BY DEF LoopTypeOK, ControlTypes, SendTypes

LEMMA LoopTypePartsNext == LoopTypeOK' <=> ReceiverTypeOK' /\ ControlTypes' /\ SendTypes'
BY DEF LoopTypeOK, ControlTypes, SendTypes

LEMMA StartTypes ==
    ASSUME LoopTypeOK, Start PROVE ControlTypes' /\ SendTypes'
<1>1. Capacity * Unit \in Nat
  BY Product, LoopAssumption
<1>2. << >> \in Seq(Nat)
  OBVIOUS
<1> QED BY <1>1, <1>2 DEF Start, LoopTypeOK, ControlTypes, SendTypes

LEMMA LoopStepTypes ==
    ASSUME LoopTypeOK, [Next]_vars PROVE LoopTypeOK'
<1>0. ReceiverTypeOK'
  BY LoopStepReceives, ReceiverStepTypes DEF LoopTypeOK
<1> USE LoopTypeParts, LoopTypePartsNext
<1>1. CASE UNCHANGED vars
  BY <1>0, <1>1 DEF vars, receiverVars, loopVars, ControlTypes, SendTypes
<1>2. ASSUME NEW k \in Spoken, Speak(k) PROVE LoopTypeOK'
  <2>1. PICK to \in IF k.room = Direct THEN {{a} : a \in Accounts} ELSE {Members[k.room]} :
           air' = air \cup Frames(spoken' + Len(posts), k, to)
    BY <1>2 DEF Speak
  <2>2. k \in Kinds /\ k.room \in Rooms
    BY LoopAssumption DEF Kind
  <2>3. to \in SUBSET Accounts
    BY <2>1, <2>2, LoopAssumption DEF Rooms
  <2>4. spoken' + Len(posts) \in Nat /\ spoken' \in Nat
    BY <1>2 DEF Speak, LoopTypeOK
  <2>5. SendTypes'
    BY <1>2, <2>1, <2>2, <2>3, <2>4, FramesType DEF Speak, SendTypes
  <2>6. ControlTypes'
    BY <1>2, <2>4 DEF Speak, ControlTypes, receiverVars, translatorVars
  <2> QED BY <1>0, <2>5, <2>6
<1>3. ASSUME NEW f \in air, Deliver(f) PROVE LoopTypeOK'
  <2>1. ControlTypes' /\ SendTypes'
    BY <1>3 DEF Deliver, Arrive, ControlTypes, SendTypes, translatorVars
  <2> QED BY <1>0, <2>1
<1>4. ASSUME NEW a \in Accounts, Register(a), UNCHANGED loopVars PROVE LoopTypeOK'
  <2>1. ControlTypes' /\ SendTypes'
    BY <1>4 DEF Register, ControlTypes, SendTypes, loopVars
  <2> QED BY <1>0, <2>1
<1>5. CASE Tick
  <2>1. ControlTypes' /\ SendTypes'
    BY <1>5 DEF Tick, ControlTypes, SendTypes, receiverVars
  <2> QED BY <1>0, <2>1
<1>6. CASE Receive
  <2>1. hand = {} \/ hand' = hand
    BY <1>6, StreamWaits DEF Receive, IntervalPasses
  <2>2. ControlTypes' /\ SendTypes'
    BY <1>6, <2>1 DEF Receive, ControlTypes, SendTypes, loopVars
  <2> QED BY <1>0, <2>2
<1>7. CASE Untranslated \/ ProviderEnds \/ Execute
  <2>1. /\ lpc' \in {"quote", "route", "reply"} /\ hand # {} /\ hand' = hand
        /\ UNCHANGED <<clock, tokens, refilled, calls, air, spoken, posts>>
    BY <1>7 DEF Untranslated, ProviderEnds, Execute, receiverVars, translatorVars, ControlTypes
  <2> QED BY <1>0, <2>1 DEF ControlTypes, SendTypes
<1>8. CASE StartTranslation
  <2>1. /\ lpc' \in {"translate", "route"} /\ hand # {} /\ hand' = hand
        /\ refilled' = clock /\ tokens' = IF Acquires THEN Refilled - Unit ELSE Refilled
        /\ calls' = calls \/ calls' = Append(calls, clock)
        /\ UNCHANGED <<clock, air, spoken, posts>>
    BY <1>8 DEF StartTranslation, receiverVars
  <2>2. tokens' \in 0 .. Capacity * Unit
    BY <2>1, RefilledType, LoopAssumption DEF Acquires
  <2>3. calls' \in Seq(Nat)
    BY <2>1 DEF ControlTypes
  <2> QED BY <1>0, <2>1, <2>2, <2>3 DEF ControlTypes, SendTypes
<1>9. CASE SendTranslation
  <2>1. SendTypes'
    <3>1. ASSUME NEW m \in hand, Send(m, "translation") PROVE SendTypes'
      BY <3>1, SendType DEF SendTypes
    <3> QED BY <1>9, <3>1 DEF SendTranslation, SendTypes
  <2>2. ControlTypes'
    BY <1>9 DEF SendTranslation, ControlTypes, receiverVars, translatorVars
  <2> QED BY <1>0, <2>1, <2>2
<1>10. CASE NoHandler
  <2>1. ControlTypes' /\ SendTypes'
    BY <1>10 DEF NoHandler, LoopFinish, ControlTypes, SendTypes, translatorVars
  <2> QED BY <1>0, <2>1
<1>11. CASE Reply
  <2>1. SendTypes'
    <3>1. ASSUME NEW m \in hand, Send(m, "answer") PROVE SendTypes'
      BY <3>1, SendType DEF SendTypes
    <3> QED BY <1>11, <3>1 DEF Reply, SendTypes
  <2>2. ControlTypes'
    BY <1>11 DEF Reply, ControlTypes, translatorVars
  <2> QED BY <1>0, <2>1, <2>2
<1>12. CASE Panic \/ Restart
  BY <1>0, <1>12, StartTypes DEF Panic, Restart
<1> QED BY <1>1, <1>2, <1>3, <1>4, <1>5, <1>6, <1>7, <1>8, <1>9, <1>10, <1>11, <1>12
        DEF Next, Handling

LEMMA LoopInitTypes == Init => LoopTypeOK
<1> SUFFICES ASSUME Init PROVE LoopTypeOK
  OBVIOUS
<1>1. ReceiverTypeOK
  BY ReceiverInitTypes DEF Init
<1>2. Capacity * Unit \in Nat
  BY Product, LoopAssumption
<1> QED BY <1>1, <1>2 DEF Init, LoopTypeOK

\* The state of both streams and of the loop stays well formed.
THEOREM LoopTypeCorrect == Spec => []LoopTypeOK
BY LoopInitTypes, LoopStepTypes, PTL DEF Spec

\* The loop with its translations and handlers is a client of the receiver:
\* what the receiver promises on its own, it promises to the loop.
THEOREM LoopImplementsReceiver == Spec => ReceiverSpec
<1>1. Init => ReceiverInit
  BY DEF Init
<1>2. LoopTypeOK /\ [Next]_vars => [ReceiverNext]_receiverVars
  BY LoopStepReceives
<1> QED BY <1>1, <1>2, LoopTypeCorrect, PTL DEF Spec, ReceiverSpec

\* A due refresh is not put off, however fast frames come in and for any number of
\* accounts: before list_accounts is called again, whether it fails or not,
\* websocket_stream leaves each account's socket for it at most once (receiver.rs).
THEOREM RefreshComesNext == Spec => []RefreshIsNext
<1>1. Init => Late
  BY LoopInitTypes DEF Init, ReceiverInit, Late, LoopTypeOK
<1>2. LoopTypeOK /\ Late /\ [Next]_vars => Late'
  BY LoopStepReceives, LoopStepTypes, LateInductive DEF LoopTypeOK
<1>3. Late => RefreshIsNext
  BY DEF Late, RefreshIsNext
<1> QED BY <1>1, <1>2, <1>3, LoopTypeCorrect, PTL DEF Spec

\* What one account is sent is handled in order and at most once: frames leave the
\* queue of signal-cli, the batch and the stream from the front, and both the
\* stream and the loop keep one message at a time (receiver.rs, main.rs).
THEOREM OrderKept == Spec => []HandledInOrder
<1>1. Init => Line
  BY LineInit DEF Init
<1>2. LoopTypeOK /\ Line /\ [Next]_vars => Line'
  BY LoopStepReceives, LineInductive DEF LoopTypeOK
<1>3. Line => HandledInOrder
  BY DEF Line
<1> QED BY <1>1, <1>2, <1>3, LoopTypeCorrect, PTL DEF Spec

-----------------------------------------------------------------------------
(* The rate limit. *)

\* What was spent since a call and what is left do not exceed a full bucket
\* and what has flowed in since.
Budget ==
    /\ \A i \in DOMAIN calls : calls[i] <= refilled
    /\ \A i \in DOMAIN calls :
          tokens + (Len(calls) - i + 1) * Unit
             <= Capacity * Unit + Refill * (refilled - calls[i])
    /\ WithinRate

LEMMA Distribute ==
    ASSUME NEW r \in Int, NEW x \in Int, NEW y \in Int
    PROVE  r * (x + y) = r * x + r * y /\ r * x = x * r
OBVIOUS

LEMMA BudgetKept ==
    ASSUME LoopTypeOK, Budget, calls' = calls, refilled' = refilled, tokens' = tokens
    PROVE  Budget'
BY DEF Budget, WithinRate

\* What is in the bucket at an attempt, and what was spent since call i.
LEMMA BudgetRefilled ==
    ASSUME LoopTypeOK, Budget, NEW i \in DOMAIN calls
    PROVE  Refilled + (Len(calls) - i + 1) * Unit
              <= Capacity * Unit + Refill * (clock - calls[i])
<1> USE LoopAssumption
<1> DEFINE spent == (Len(calls) - i + 1) * Unit
           full == Capacity * Unit
<1>1. /\ clock \in Nat /\ refilled \in Nat /\ calls[i] \in Nat /\ refilled <= clock
      /\ calls[i] <= refilled /\ tokens \in Nat /\ Refill \in Nat
      /\ Len(calls) - i + 1 \in Nat
  BY DEF LoopTypeOK, Budget
<1>2. spent \in Nat /\ full \in Nat
  BY <1>1, Product
<1>3. tokens + spent <= full + Refill * (refilled - calls[i])
  BY DEF Budget
<1>4. Refilled <= tokens + (clock - refilled) * Refill /\ Refilled \in Nat
  BY RefilledType, <1>2
<1>5. Refill * (clock - calls[i]) = Refill * (refilled - calls[i]) + (clock - refilled) * Refill
  <2>1. clock - calls[i] = (refilled - calls[i]) + (clock - refilled)
    BY <1>1
  <2>2. /\ refilled - calls[i] \in Int /\ clock - refilled \in Int /\ Refill \in Int
    BY <1>1
  <2> QED BY <2>1, <2>2, Distribute
<1>6. /\ Refill * (refilled - calls[i]) \in Nat
      /\ (clock - refilled) * Refill \in Nat
  <2>1. refilled - calls[i] \in Nat /\ clock - refilled \in Nat
    BY <1>1
  <2> QED BY <1>1, <2>1, Product
<1> HIDE DEF spent, full
<1> DEFINE p == Refill * (refilled - calls[i])
           q == (clock - refilled) * Refill
           r == Refill * (clock - calls[i])
<1>7. /\ tokens + spent <= full + p /\ Refilled <= tokens + q /\ r = p + q
      /\ p \in Nat /\ q \in Nat
  BY <1>3, <1>4, <1>5, <1>6
<1> HIDE DEF p, q, r
<1>8. Refilled + spent <= full + r
  BY <1>1, <1>2, <1>4, <1>7
<1> QED BY <1>8 DEF spent, full, r

LEMMA Less ==
    ASSUME NEW t \in Nat, NEW u \in Int, NEW v \in Int, t + u <= v PROVE u <= v
OBVIOUS

LEMMA BudgetSpent ==
    ASSUME LoopTypeOK, Budget, StartTranslation
    PROVE  Budget'
<1>1. /\ clock \in Nat /\ refilled \in Nat /\ refilled <= clock
      /\ calls \in Seq(Nat) /\ Unit \in Nat /\ Unit > 0 /\ Refill \in Nat
  BY LoopAssumption DEF LoopTypeOK
<1>2. /\ \A i \in DOMAIN calls : calls[i] \in Nat /\ calls[i] <= clock /\ i \in Nat
      /\ refilled' = clock
  <2>1. \A i \in DOMAIN calls : calls[i] \in Nat /\ i \in Nat
    BY <1>1
  <2>2. \A i \in DOMAIN calls : calls[i] <= refilled
    BY DEF Budget
  <2> QED BY <1>1, <2>1, <2>2 DEF StartTranslation
<1>3. CASE ~Acquires
  <2>1. calls' = calls /\ tokens' = Refilled
    BY <1>3 DEF StartTranslation
  <2> QED BY <1>2, <2>1, BudgetRefilled DEF Budget, WithinRate
<1>4. CASE Acquires
  <2> DEFINE n == Len(calls)
  <2>1. /\ calls' = Append(calls, clock) /\ tokens' = Refilled - Unit
        /\ Refilled \in 0 .. Capacity * Unit /\ Refilled >= Unit /\ Capacity * Unit \in Nat
    BY <1>4, RefilledType DEF StartTranslation, Acquires
  <2>2. /\ n \in Nat /\ DOMAIN calls = 1 .. n /\ DOMAIN calls' = 1 .. n + 1
        /\ Len(calls') = n + 1 /\ calls'[n + 1] = clock
        /\ \A i \in 1 .. n : calls'[i] = calls[i]
    BY <1>1, <2>1
  <2>3. \A i \in DOMAIN calls' : calls'[i] <= refilled'
    BY <1>1, <1>2, <2>2
  <2>4. ASSUME NEW i \in DOMAIN calls'
        PROVE  tokens' + (Len(calls') - i + 1) * Unit
                  <= Capacity * Unit + Refill * (refilled' - calls'[i])
    <3>1. CASE i = n + 1
      <4>1. Len(calls') - i + 1 = 1 /\ refilled' - calls'[i] = 0
        BY <1>1, <1>2, <2>2, <3>1
      <4>2. 1 * Unit = Unit /\ Refill * 0 = 0
        BY <1>1
      <4>3. (Len(calls') - i + 1) * Unit = Unit
        BY <4>1, <4>2
      <4>4. Refill * (refilled' - calls'[i]) = 0
        BY <4>1, <4>2
      <4>5. tokens' + Unit <= Capacity * Unit + 0
        BY <1>1, <2>1
      <4> QED BY <4>3, <4>4, <4>5
    <3>2. CASE i \in 1 .. n
      <4>1. Refilled + (n - i + 1) * Unit <= Capacity * Unit + Refill * (clock - calls[i])
        BY <2>2, <3>2, BudgetRefilled
      <4>2. (Len(calls') - i + 1) * Unit = (n - i + 1) * Unit + Unit
        <5>1. Len(calls') - i + 1 = (n - i + 1) + 1 /\ n - i + 1 \in Int
          BY <2>2, <3>2
        <5> QED BY <1>1, <5>1, Distribute
      <4>3. (n - i + 1) * Unit \in Int
        BY <1>1, <2>2, <3>2
      <4>4. tokens' + (Len(calls') - i + 1) * Unit = Refilled + (n - i + 1) * Unit
        BY <1>1, <2>1, <4>2, <4>3
      <4> QED BY <1>2, <2>2, <3>2, <4>1, <4>4
    <3> QED BY <2>2, <3>1, <3>2
  <2>5. ASSUME NEW i \in DOMAIN calls', NEW j \in DOMAIN calls', i <= j
        PROVE  (j - i + 1) * Unit <= Capacity * Unit + Refill * (calls'[j] - calls'[i])
    <3>1. CASE j = n + 1
      <4>1. tokens' + (n + 1 - i + 1) * Unit
               <= Capacity * Unit + Refill * (clock - calls'[i])
        BY <1>2, <2>2, <2>4
      <4>2. tokens' \in Nat
        BY <1>1, <2>1
      <4> DEFINE used == (n + 1 - i + 1) * Unit
                 room == Capacity * Unit + Refill * (clock - calls'[i])
      <4>3. used \in Int
        <5>1. n + 1 - i + 1 \in Int
          BY <2>2
        <5> QED BY <1>1, <5>1
      <4>4. room \in Int
        <5>1. calls'[i] \in Nat
          BY <1>1, <1>2, <2>2
        <5>2. clock - calls'[i] \in Int
          BY <1>1, <5>1
        <5>3. Refill * (clock - calls'[i]) \in Int
          BY <1>1, <5>2, Distribute
        <5> QED BY <2>1, <5>3
      <4>5. tokens' + used <= room
        BY <4>1
      <4> HIDE DEF used, room
      <4>6. used <= room
        BY <4>2, <4>3, <4>4, <4>5, Less
      <4> QED BY <2>2, <3>1, <4>6 DEF used, room
    <3>2. CASE j \in 1 .. n
      <4>1. i \in 1 .. n
        BY <2>2, <2>5, <3>2
      <4> QED BY <2>2, <2>5, <3>2, <4>1 DEF Budget, WithinRate
    <3> QED BY <2>2, <3>1, <3>2
  <2> QED BY <2>3, <2>4, <2>5 DEF Budget, WithinRate
<1> QED BY <1>3, <1>4

LEMMA BudgetInductive ==
    ASSUME LoopTypeOK, Budget, [Next]_vars PROVE Budget'
<1>1. CASE Panic \/ Restart
  <2>1. calls' = << >> /\ DOMAIN << >> = {}
    BY <1>1 DEF Panic, Restart, Start
  <2> QED BY <2>1 DEF Budget, WithinRate
<1>2. CASE StartTranslation
  BY <1>2, BudgetSpent
<1>3. ASSUME NEW k \in Spoken, Speak(k) PROVE Budget'
  BY <1>3, BudgetKept DEF Speak, translatorVars
<1>4. ASSUME NEW f \in air, Deliver(f) PROVE Budget'
  BY <1>4, BudgetKept DEF Deliver, translatorVars
<1>5. CASE UNCHANGED loopVars
  BY <1>5, BudgetKept DEF loopVars
<1>6. CASE Tick \/ Untranslated \/ ProviderEnds \/ SendTranslation \/ NoHandler \/ Execute
           \/ Reply
  BY <1>6, BudgetKept DEF Tick, Untranslated, ProviderEnds, SendTranslation, NoHandler,
                          LoopFinish, Execute, Reply, translatorVars
<1> QED BY <1>1, <1>2, <1>3, <1>4, <1>5, <1>6 DEF Next, Handling, Receive, vars

\* The provider is called no more often than a full bucket and what flows in allow,
\* over any stretch of time and any rate: TokenBucket::try_acquire, whose tokens are
\* taken before the call (translation_interceptor.rs).
THEOREM RateKept == Spec => []WithinRate
<1>1. Init => Budget
  <2>1. DOMAIN << >> = {}
    OBVIOUS
  <2> QED BY <2>1 DEF Init, Budget, WithinRate
<1>2. LoopTypeOK /\ Budget /\ [Next]_vars => Budget'
  BY BudgetInductive
<1>3. Budget => WithinRate
  BY DEF Budget
<1> QED BY <1>1, <1>2, <1>3, LoopTypeCorrect, PTL DEF Spec

-----------------------------------------------------------------------------
(* One translation and one answer. *)

InTransit == Ids(batch) \cup UNION {Queued(a) : a \in Accounts}

\* A frame is in one place only.
Distinct ==
    /\ \A a, b \in Accounts : a # b => Queued(a) \cap Queued(b) = {}
    /\ \A a \in Accounts : Queued(a) \cap Ids(batch) = {}
    /\ \A m \in hand : m.id \notin InTransit

\* What a step of the receiver may do to messages: frames come into transit by
\* arriving, messages into the hand out of transit, and they leave the hand by
\* being handled or with the process.
Effects ==
    /\ frames' \in {frames, frames + 1}
    /\ \A x \in InTransit' : x \in InTransit \/ x = frames + 1
    /\ \A m \in hand' : m \in hand \/ m.id \in InTransit
    /\ gone \subseteq gone'
    /\ \A n \in DOMAIN handled : n \in DOMAIN handled' /\ handled'[n] = handled[n]
    /\ \A m \in hand : \/ m \in hand' \/ m.id \in gone'
                       \/ \E n \in DOMAIN handled' : handled'[n] = m

LEMMA TransitShrinks ==
    ASSUME \A a \in Accounts : Queued(a)' \subseteq Queued(a), Ids(batch') \subseteq Ids(batch)
    PROVE  InTransit' \subseteq InTransit
BY DEF InTransit

\* Steps that take frames out of queues and batch, if any.
LEMMA EffectsOfShrinking ==
    ASSUME Distinct, \A a \in Accounts : Queued(a)' \subseteq Queued(a),
           Ids(batch') \subseteq Ids(batch),
           UNCHANGED <<hand, handled, frames>>, gone \subseteq gone'
    PROVE  Distinct' /\ Effects
<1>1. InTransit' \subseteq InTransit
  BY TransitShrinks
<1> QED BY <1>1 DEF Distinct, Effects

LEMMA EffectsOfQueue ==
    ASSUME ReceiverTypeOK, Distinct, account \in Accounts, NEW s \in Seq(Frame),
           queue' = [queue EXCEPT ![account] = s], Ids(s) \subseteq Ids(queue[account]),
           UNCHANGED <<hand, handled, frames>>, batch' = batch, gone \subseteq gone'
    PROVE  Distinct' /\ Effects
<1>1. queue \in [Accounts -> Seq(Frame)]
  BY DEF ReceiverTypeOK
<1>2. \A a \in Accounts : Queued(a)' \subseteq Queued(a)
  BY <1>1 DEF Queued
<1> QED BY <1>2, EffectsOfShrinking

LEMMA EffectsOfArrival ==
    ASSUME ReceiverTypeOK, Line, Distinct, NEW a \in Accounts, NEW k \in Kinds, Arrive(a, k)
    PROVE  Distinct' /\ Effects
<1>1. /\ queue \in [Accounts -> Seq(Frame)] /\ frames \in Nat
      /\ frames' = frames + 1
      /\ queue' = [queue EXCEPT ![a] = Append(queue[a], [id |-> frames + 1, kind |-> k])]
      /\ UNCHANGED <<handled, hand, batch, rpc, accounts, at, gone>>
  BY DEF Arrive, streamVars, ReceiverTypeOK
<1>2. Queued(a)' = Queued(a) \cup {frames + 1}
  <2> DEFINE f == [id |-> frames + 1, kind |-> k]
  <2>1. queue[a] \in Seq(Frame) /\ f.id = frames + 1
    BY <1>1
  <2>2. queue'[a] = Append(queue[a], f)
    BY <1>1
  <2> HIDE DEF f
  <2>3. /\ DOMAIN queue[a] = 1 .. Len(queue[a]) /\ Len(queue[a]) \in Nat
        /\ DOMAIN queue'[a] = 1 .. Len(queue[a]) + 1
        /\ queue'[a][Len(queue[a]) + 1] = f
        /\ \A i \in 1 .. Len(queue[a]) : queue'[a][i] = queue[a][i]
    BY <2>1, <2>2
  <2> QED BY <2>1, <2>3 DEF Queued, Ids
<1>3. \A b \in Accounts : b # a => Queued(b)' = Queued(b)
  BY <1>1 DEF Queued
<1>4. \A b \in Accounts : frames + 1 \notin Queued(b)
  <2>1. \A b \in Accounts : Queued(b) \subseteq 1 .. frames
    BY DEF Line, LineOf
  <2>2. frames + 1 \notin 1 .. frames
    BY <1>1
  <2> QED BY <2>1, <2>2
<1>5. frames + 1 \notin Ids(batch)
  <2>1. CASE batch = << >>
    BY <2>1 DEF Ids
  <2>2. CASE batch # << >>
    <3>1. rpc = "yield" /\ account \in Accounts
      BY <2>2 DEF ReceiverTypeOK, account
    <3>2. Ids(batch) \subseteq 1 .. frames
      BY <3>1 DEF Line, LineOf, InBatch
    <3>3. frames + 1 \notin 1 .. frames
      BY <1>1
    <3> QED BY <3>2, <3>3
  <2> QED BY <2>1, <2>2
<1>6. \A m \in hand : m.id # frames + 1
  <2> SUFFICES ASSUME NEW m \in hand PROVE m.id # frames + 1
    OBVIOUS
  <2>1. m.account \in Accounts
    BY DEF ReceiverTypeOK, Message
  <2>2. m.id \in 1 .. frames
    BY <2>1 DEF Line, LineOf, InHand
  <2> QED BY <1>1, <2>2
<1>7. \A x \in InTransit' : x \in InTransit \/ x = frames + 1
  BY <1>1, <1>2, <1>3 DEF InTransit
<1>8. Distinct'
  <2>1. \A b, c \in Accounts : b # c => Queued(b)' \cap Queued(c)' = {}
    BY <1>2, <1>3, <1>4 DEF Distinct
  <2>2. \A b \in Accounts : Queued(b)' \cap Ids(batch') = {}
    BY <1>1, <1>2, <1>3, <1>5 DEF Distinct
  <2>3. \A m \in hand' : m.id \notin InTransit'
    BY <1>1, <1>6, <1>7 DEF Distinct
  <2> QED BY <2>1, <2>2, <2>3 DEF Distinct
<1> QED BY <1>1, <1>7, <1>8 DEF Effects

LEMMA OneQueueChanges ==
    ASSUME queue \in [Accounts -> Seq(Frame)], NEW c \in Accounts, NEW s,
           queue' = [queue EXCEPT ![c] = s]
    PROVE  /\ Queued(c)' = Ids(s)
           /\ \A a \in Accounts : a # c => Queued(a)' = Queued(a)
BY DEF Queued

LEMMA EffectsOfReading ==
    ASSUME ReceiverTypeOK, Line, Distinct, ReadMessage
    PROVE  Distinct' /\ Effects
<1>1. /\ hand = {} /\ queue[account] # << >> /\ rpc = "read"
      /\ hand' = Extracted(Head(queue[account]))
      /\ queue' = [queue EXCEPT ![account] = Tail(queue[account])]
      /\ UNCHANGED <<handled, frames, batch, gone>>
  BY DEF ReadMessage, Runs, streamVars
<1>2. queue \in [Accounts -> Seq(Frame)] /\ account \in Accounts
  BY <1>1 DEF ReceiverTypeOK, account
<1> PICK c \in Accounts : c = account
  BY <1>2
<1>3. queue[c] \in Seq(Frame) /\ Rising(queue[c])
  BY <1>2 DEF Line, LineOf
<1> DEFINE x == Head(queue[c]).id
<1>4. /\ Head(queue[c]) \in Frame /\ x \in Queued(c)
      /\ Ids(Tail(queue[c])) \subseteq Queued(c)
      /\ Before({x}, Ids(Tail(queue[c])))
  BY <1>1, <1>3, HeadAndTail, RisingTail DEF Queued
<1>5. /\ Queued(c)' = Ids(Tail(queue[c]))
      /\ \A a \in Accounts : a # c => Queued(a)' = Queued(a)
  BY <1>1, <1>2, OneQueueChanges
<1>6. \A m \in hand' : m.id = x
  BY <1>1, <1>2, <1>4, ExtractedType
<1>7. x \notin Queued(c)'
  <2>1. x \in Nat
    BY <1>4 DEF Frame
  <2> QED BY <1>4, <1>5, <2>1 DEF Before
<1> HIDE DEF x
<1>8. Ids(batch') = Ids(batch)
  BY <1>1
<1>9. \A a \in Accounts : Queued(a)' \subseteq Queued(a)
  BY <1>4, <1>5
<1>10. InTransit' \subseteq InTransit
  BY <1>8, <1>9, TransitShrinks
<1>11. x \notin InTransit'
  <2>1. x \notin Ids(batch)
    BY <1>4 DEF Distinct
  <2>2. \A a \in Accounts : a # c => x \notin Queued(a)
    BY <1>4 DEF Distinct
  <2> QED BY <1>5, <1>7, <1>8, <2>1, <2>2 DEF InTransit
<1>12. Distinct'
  <2>1. \A a, b \in Accounts : a # b => Queued(a)' \cap Queued(b)' = {}
    BY <1>9 DEF Distinct
  <2>2. \A a \in Accounts : Queued(a)' \cap Ids(batch') = {}
    BY <1>8, <1>9 DEF Distinct
  <2> QED BY <1>6, <1>11, <2>1, <2>2 DEF Distinct
<1>13. x \in InTransit
  BY <1>4 DEF InTransit
<1> QED BY <1>1, <1>6, <1>10, <1>12, <1>13 DEF Effects

LEMMA EffectsOfPolling ==
    ASSUME ReceiverTypeOK, Distinct, Poll
    PROVE  Distinct' /\ Effects
<1>1. /\ hand = {} /\ hand' = {} /\ rpc = "next"
      /\ batch' = queue[account]
      /\ queue' = [queue EXCEPT ![account] = << >>]
      /\ UNCHANGED <<handled, frames, gone>>
  BY DEF Poll, Runs
<1>2. queue \in [Accounts -> Seq(Frame)] /\ account \in Accounts
  BY <1>1 DEF ReceiverTypeOK, account
<1> PICK c \in Accounts : c = account
  BY <1>2
<1>3. /\ Queued(c)' = Ids(<< >>)
      /\ \A a \in Accounts : a # c => Queued(a)' = Queued(a)
  BY <1>1, <1>2, OneQueueChanges
<1>4. Ids(<< >>) = {} /\ Ids(batch') = Queued(c)
  BY <1>1 DEF Queued, Ids
<1>5. InTransit' \subseteq InTransit
  BY <1>3, <1>4 DEF InTransit
<1>6. Distinct'
  <2>1. \A a, b \in Accounts : a # b => Queued(a)' \cap Queued(b)' = {}
    BY <1>3, <1>4 DEF Distinct
  <2>2. \A a \in Accounts : Queued(a)' \cap Ids(batch') = {}
    BY <1>3, <1>4 DEF Distinct
  <2> QED BY <1>1, <2>1, <2>2 DEF Distinct
<1> QED BY <1>1, <1>5, <1>6 DEF Effects

LEMMA EffectsOfYielding ==
    ASSUME ReceiverTypeOK, Line, Distinct, Yield
    PROVE  Distinct' /\ Effects
<1>1. /\ hand = {} /\ batch # << >> /\ rpc = "yield"
      /\ hand' = Extracted(Head(batch)) /\ batch' = Tail(batch)
      /\ UNCHANGED <<handled, frames, queue, gone>>
  BY DEF Yield, Runs, sourceVars
<1>2. batch \in Seq(Frame) /\ account \in Accounts
  BY <1>1 DEF ReceiverTypeOK, account
<1>3. /\ Head(batch) \in Frame /\ Ids(batch') \subseteq Ids(batch) /\ Head(batch).id \in Ids(batch)
      /\ Before({Head(batch).id}, Ids(batch'))
  BY <1>1, <1>2, HeadAndTail, RisingTail DEF Line
<1>4. \A m \in hand' : m.id = Head(batch).id
  BY <1>1, <1>2, <1>3, ExtractedType
<1>5. \A a \in Accounts : Queued(a)' = Queued(a)
  BY <1>1 DEF Queued
<1>6. Head(batch).id \notin InTransit'
  <2>1. Head(batch).id \in Nat
    BY <1>3 DEF Frame
  <2>2. Head(batch).id \notin Ids(batch')
    BY <1>3, <2>1 DEF Before
  <2> QED BY <1>3, <1>5, <2>2 DEF InTransit, Distinct
<1>7. InTransit' \subseteq InTransit /\ Head(batch).id \in InTransit
  BY <1>3, <1>5 DEF InTransit
<1>8. Distinct'
  BY <1>3, <1>4, <1>5, <1>6 DEF Distinct
<1> QED BY <1>1, <1>4, <1>7, <1>8 DEF Effects

LEMMA EffectsOfFinishing ==
    ASSUME ReceiverTypeOK, Distinct, Finish
    PROVE  Distinct' /\ Effects
<1>1. PICK m \in hand : handled' = Append(handled, m)
  BY DEF Finish
<1>2. /\ hand = {m} /\ hand' = {} /\ handled \in Seq(Message) /\ m \in Message
      /\ UNCHANGED <<frames, queue, batch, gone>>
  BY <1>1 DEF Finish, ReceiverTypeOK, sourceVars, streamVars
<1>3. /\ DOMAIN handled = 1 .. Len(handled) /\ Len(handled) \in Nat
      /\ DOMAIN handled' = 1 .. Len(handled) + 1
      /\ handled'[Len(handled) + 1] = m
      /\ \A i \in 1 .. Len(handled) : handled'[i] = handled[i]
  BY <1>1, <1>2
<1>4. InTransit' = InTransit /\ \A a \in Accounts : Queued(a)' = Queued(a)
  BY <1>2 DEF InTransit, Queued
<1>5. Distinct'
  BY <1>2, <1>4 DEF Distinct
<1>6. Len(handled) + 1 \in DOMAIN handled'
  BY <1>3
<1> QED BY <1>2, <1>3, <1>4, <1>5, <1>6 DEF Effects

LEMMA EffectsOfDying ==
    ASSUME Distinct, Die PROVE Distinct' /\ Effects
<1>1. /\ batch' = << >> /\ hand' = {} /\ UNCHANGED <<handled, frames, queue>>
      /\ gone' = gone \cup Ids(batch) \cup {m.id : m \in hand}
  BY DEF Die, sourceVars
<1>2. Ids(batch') = {} /\ \A a \in Accounts : Queued(a)' = Queued(a)
  BY <1>1 DEF Ids, Queued
<1>3. InTransit' \subseteq InTransit
  BY <1>2, TransitShrinks
<1> QED BY <1>1, <1>2, <1>3 DEF Distinct, Effects

LEMMA ReceiverEffects ==
    ASSUME ReceiverTypeOK, Line, Distinct, [ReceiverNext]_receiverVars
    PROVE  Distinct' /\ Effects
<1>0. /\ rpc \in {"next", "read", "yield"} => account \in Accounts
      /\ \A a \in Accounts : queue[a] \in Seq(Frame)
  BY DEF ReceiverTypeOK, account
<1>1. CASE /\ UNCHANGED <<queue, batch, hand, handled, frames>>
           /\ gone \subseteq gone'
  BY <1>1, EffectsOfShrinking DEF Queued
<1>2. CASE UNCHANGED receiverVars
  BY <1>1, <1>2 DEF receiverVars
<1>3. CASE Environment
  <2>1. ASSUME NEW a \in Accounts, Register(a) PROVE Distinct' /\ Effects
    BY <1>1, <2>1 DEF Register, streamVars
  <2>2. CASE IntervalPasses
    BY <1>1, <2>2 DEF IntervalPasses, sourceVars
  <2> QED BY <1>3, <2>1, <2>2, EffectsOfArrival DEF Environment
<1>4. CASE ListAccounts \/ ListFails \/ ListIsFresh \/ Again \/ Connect \/ ConnectFails
           \/ BatchDone
  BY <1>1, <1>4 DEF ListAccounts, ListFails, ListIsFresh, Again, Connect, ConnectFails,
                    BatchDone, sourceVars
<1>5. CASE ReadTooLate \/ SocketEnds
  <2>1. /\ rpc = "read" /\ account \in Accounts
        /\ UNCHANGED <<handled, frames, hand, batch, gone>>
    BY <1>0, <1>5 DEF ReadTooLate, SocketEnds, Runs
  <2>2. PICK n \in 0 .. Len(queue[account]) : LeaveSocket(n)
    <3>1. Len(queue[account]) \in Nat
      BY <1>0, <2>1
    <3> QED BY <1>5, <3>1 DEF ReadTooLate, SocketEnds
  <2>3. queue[account] \in Seq(Frame) /\ Rising(queue[account])
    BY <1>0, <2>1 DEF Line, LineOf
  <2>4. /\ SubSeq(queue[account], n + 1, Len(queue[account])) \in Seq(Frame)
        /\ Ids(SubSeq(queue[account], n + 1, Len(queue[account]))) \subseteq Ids(queue[account])
    BY <2>3, SubSeqType, RisingSub
  <2>5. queue' = [queue EXCEPT ![account] =
                      SubSeq(queue[account], n + 1, Len(queue[account]))]
    BY <2>2 DEF LeaveSocket
  <2> QED BY <2>1, <2>4, <2>5, EffectsOfQueue
<1>6. CASE PollFails
  <2>1. /\ account \in Accounts /\ UNCHANGED <<handled, frames, hand, batch>>
    BY <1>0, <1>6 DEF PollFails, Runs
  <2>2. CASE UNCHANGED <<queue, gone>>
    BY <1>1, <2>1, <2>2
  <2>3. CASE /\ queue' = [queue EXCEPT ![account] = << >>]
             /\ gone \subseteq gone'
    <3>1. << >> \in Seq(Frame) /\ Ids(<< >>) = {}
      BY DEF Ids
    <3> QED BY <2>1, <2>3, <3>1, EffectsOfQueue
  <2> QED BY <1>6, <2>2, <2>3 DEF PollFails
<1>7. CASE Crash
  BY <1>7, EffectsOfDying DEF Crash
<1> QED BY <1>2, <1>3, <1>4, <1>5, <1>6, <1>7, EffectsOfReading, EffectsOfPolling,
           EffectsOfYielding, EffectsOfFinishing
        DEF ReceiverNext, Stream
-----------------------------------------------------------------------------
Apart ==
    \A i, j \in DOMAIN posts :
        posts[i].for = posts[j].for /\ posts[i].what = posts[j].what => i = j

Of(p, m) == m.id = p.for /\ m.account = p.account /\ m.kind.room = p.room

Owned ==
    \A i \in DOMAIN posts :
        \/ posts[i].for \in gone
        \/ \E m \in hand : Of(posts[i], m)
        \/ \E n \in DOMAIN handled : Of(posts[i], handled[n])

\* What has been posted for is not received again.
Passed == \A i \in DOMAIN posts : posts[i].for \in 1 .. frames /\ posts[i].for \notin InTransit

\* Nothing has been posted for the message in hand, but a translation before the
\* handler is chosen.
InProgress ==
    \A m \in hand : \A i \in DOMAIN posts :
        posts[i].for = m.id => lpc \in {"route", "reply"} /\ posts[i].what = "translation"

PostInv == Apart /\ Owned /\ Passed /\ InProgress

LEMMA StillPassed ==
    ASSUME NEW x \in 1 .. frames, x \notin InTransit, frames \in Nat, Effects
    PROVE  x \in 1 .. frames' /\ x \notin InTransit'
<1>1. frames' \in {frames, frames + 1} /\ (x \in InTransit' => x \in InTransit \/ x = frames + 1)
  BY DEF Effects
<1> QED BY <1>1

LEMMA StillOwned ==
    ASSUME Effects, NEW p,
           \/ p.for \in gone
           \/ \E m \in hand : Of(p, m)
           \/ \E n \in DOMAIN handled : Of(p, handled[n])
    PROVE  \/ p.for \in gone'
           \/ \E m \in hand' : Of(p, m)
           \/ \E n \in DOMAIN handled' : Of(p, handled'[n])
<1>1. CASE p.for \in gone
  BY <1>1 DEF Effects
<1>2. CASE \E n \in DOMAIN handled : Of(p, handled[n])
  <2> PICK n \in DOMAIN handled : Of(p, handled[n])
    BY <1>2
  <2>1. n \in DOMAIN handled' /\ handled'[n] = handled[n]
    BY DEF Effects
  <2>2. Of(p, handled'[n])
    BY <2>1
  <2> QED BY <2>1, <2>2
<1>3. CASE \E m \in hand : Of(p, m)
  <2> PICK m \in hand : Of(p, m)
    BY <1>3
  <2>1. m \in hand' \/ m.id \in gone' \/ \E n \in DOMAIN handled' : handled'[n] = m
    BY DEF Effects
  <2>2. m.id = p.for
    BY DEF Of
  <2> QED BY <2>1, <2>2
<1> QED BY <1>1, <1>2, <1>3

\* A step that posts nothing, and does not take the message in hand back to where
\* it could be translated.
LEMMA PostsKept ==
    ASSUME PostInv, frames \in Nat, Effects, UNCHANGED posts,
           hand' = {} \/ (lpc \in {"route", "reply"} => lpc' \in {"route", "reply"})
    PROVE  PostInv'
<1>1. Apart'
  BY DEF PostInv, Apart
<1>2. Owned'
  <2> SUFFICES ASSUME NEW i \in DOMAIN posts'
               PROVE  \/ posts'[i].for \in gone'
                      \/ \E m \in hand' : Of(posts'[i], m)
                      \/ \E n \in DOMAIN handled' : Of(posts'[i], handled'[n])
    BY DEF Owned, Of
  <2>1. \/ posts'[i].for \in gone
        \/ \E m \in hand : Of(posts'[i], m)
        \/ \E n \in DOMAIN handled : Of(posts'[i], handled[n])
    BY DEF PostInv, Owned
  <2> QED BY <2>1, StillOwned
<1>3. Passed'
  BY StillPassed DEF PostInv, Passed
<1>4. InProgress'
  <2> SUFFICES ASSUME NEW m \in hand', NEW i \in DOMAIN posts, posts[i].for = m.id
               PROVE  lpc' \in {"route", "reply"} /\ posts[i].what = "translation"
    BY DEF InProgress
  <2>1. m.id \notin InTransit
    BY DEF PostInv, Passed
  <2>2. m \in hand
    BY <2>1 DEF Effects
  <2> QED BY <2>2 DEF PostInv, InProgress
<1> QED BY <1>1, <1>2, <1>3, <1>4 DEF PostInv

\* A step that posts for the message in hand what has not been posted for it.
LEMMA PostsAdded ==
    ASSUME PostInv, ReceiverTypeOK, Line, Distinct, Effects, posts \in Seq(Post),
           NEW m \in hand, NEW p \in Post, Of(p, m),
           \A i \in DOMAIN posts : posts[i].for = m.id => posts[i].what # p.what,
           posts' = Append(posts, p)
    PROVE  Apart' /\ Owned' /\ Passed'
<1>1. /\ DOMAIN posts = 1 .. Len(posts) /\ Len(posts) \in Nat
      /\ DOMAIN posts' = 1 .. Len(posts) + 1
      /\ posts'[Len(posts) + 1] = p
      /\ \A i \in DOMAIN posts : posts'[i] = posts[i]
  OBVIOUS
<1>2. p.for = m.id /\ frames \in Nat
  BY DEF Of, ReceiverTypeOK
<1>3. m.id \in 1 .. frames /\ m.id \notin InTransit
  <2>1. m.account \in Accounts
    BY DEF ReceiverTypeOK, Message
  <2>2. m.id \in InHand(m.account)
    BY DEF InHand
  <2> QED BY <2>1, <2>2 DEF Line, LineOf, Distinct
<1>4. \A i \in DOMAIN posts' : i \in DOMAIN posts \/ (i = Len(posts) + 1 /\ i \notin DOMAIN posts)
  BY <1>1
<1>5. Apart'
  <2> SUFFICES ASSUME NEW i \in DOMAIN posts', NEW j \in DOMAIN posts',
                      posts'[i].for = posts'[j].for, posts'[i].what = posts'[j].what
               PROVE  i = j
    BY DEF Apart
  <2>1. CASE i \in DOMAIN posts /\ j \in DOMAIN posts
    BY <1>1, <2>1 DEF PostInv, Apart
  <2>2. CASE i \in DOMAIN posts /\ j = Len(posts) + 1
    BY <1>1, <1>2, <2>2
  <2>3. CASE j \in DOMAIN posts /\ i = Len(posts) + 1
    BY <1>1, <1>2, <2>3
  <2> QED BY <1>4, <2>1, <2>2, <2>3
<1>6. Owned'
  <2> SUFFICES ASSUME NEW i \in DOMAIN posts'
               PROVE  \/ posts'[i].for \in gone'
                      \/ \E n \in hand' : Of(posts'[i], n)
                      \/ \E n \in DOMAIN handled' : Of(posts'[i], handled'[n])
    BY DEF Owned, Of
  <2>1. CASE i \in DOMAIN posts
    <3>1. posts'[i] = posts[i]
      BY <1>1, <2>1
    <3>2. \/ posts'[i].for \in gone
          \/ \E n \in hand : Of(posts'[i], n)
          \/ \E n \in DOMAIN handled : Of(posts'[i], handled[n])
      BY <2>1, <3>1 DEF PostInv, Owned
    <3> QED BY <3>2, StillOwned
  <2>2. CASE i = Len(posts) + 1
    <3>1. Of(posts'[i], m)
      BY <1>1, <2>2
    <3> QED BY <3>1, StillOwned
  <2> QED BY <1>4, <2>1, <2>2
<1>7. Passed'
  <2> SUFFICES ASSUME NEW i \in DOMAIN posts'
               PROVE  posts'[i].for \in 1 .. frames' /\ posts'[i].for \notin InTransit'
    BY DEF Passed
  <2>1. posts'[i].for \in 1 .. frames /\ posts'[i].for \notin InTransit
    BY <1>1, <1>2, <1>3, <1>4 DEF PostInv, Passed
  <2> QED BY <1>2, <2>1, StillPassed
<1> QED BY <1>5, <1>6, <1>7

LEMMA PostOf ==
    ASSUME LoopAssumption, NEW m \in Message, NEW what \in {"translation", "answer"},
           Send(m, what)
    PROVE  \E p \in Post : p.what = what /\ Of(p, m) /\ posts' = Append(posts, p)
<1> DEFINE p == [for |-> m.id, account |-> m.account, room |-> m.kind.room, what |-> what]
<1>1. m.kind \in Kind /\ m.id \in Nat /\ m.account \in Accounts
  BY DEF Message, LoopAssumption
<1>2. m.kind.room \in Rooms
  BY <1>1 DEF Kind
<1>3. p \in Post /\ p.what = what /\ Of(p, m)
  BY <1>1, <1>2 DEF Post, Of
<1>4. posts' = Append(posts, p)
  BY DEF Send
<1> QED BY <1>3, <1>4

LEMMA PostsInductive ==
    ASSUME LoopAssumption, LoopTypeOK, Line, Distinct, PostInv, [Next]_vars
    PROVE  PostInv'
<1>0. ReceiverTypeOK /\ frames \in Nat /\ posts \in Seq(Post) /\ hand \subseteq Message
  BY DEF LoopTypeOK, ReceiverTypeOK
<1>1. Effects
  BY <1>0, LoopStepReceives, ReceiverEffects
<1>2. CASE /\ UNCHANGED posts
           /\ hand' = {} \/ (lpc \in {"route", "reply"} => lpc' \in {"route", "reply"})
  BY <1>0, <1>1, <1>2, PostsKept
<1>3. ASSUME NEW m \in hand, Send(m, "translation"),
             lpc = "quote", lpc' = "route", UNCHANGED receiverVars
      PROVE  PostInv'
  <2>1. PICK p \in Post : p.what = "translation" /\ Of(p, m) /\ posts' = Append(posts, p)
    BY <1>0, <1>3, PostOf
  <2>2. \A i \in DOMAIN posts : posts[i].for # m.id
    BY <1>3 DEF PostInv, InProgress
  <2>3. Apart' /\ Owned' /\ Passed'
    BY <1>0, <1>1, <2>1, <2>2, PostsAdded
  <2>4. InProgress'
    <3> SUFFICES ASSUME NEW n \in hand', NEW i \in DOMAIN posts', posts'[i].for = n.id
                 PROVE  posts'[i].what = "translation"
      BY <1>3 DEF InProgress
    <3>1. n = m
      BY <1>3 DEF receiverVars, LoopTypeOK, ReceiverTypeOK
    <3>2. i \in DOMAIN posts => posts'[i] = posts[i]
      BY <1>0, <2>1
    <3>3. i \notin DOMAIN posts => posts'[i] = p
      BY <1>0, <2>1
    <3> QED BY <2>1, <2>2, <3>1, <3>2, <3>3
  <2> QED BY <2>3, <2>4 DEF PostInv
<1>4. ASSUME NEW m \in hand, Send(m, "answer"), Finish
      PROVE  PostInv'
  <2>1. PICK p \in Post : p.what = "answer" /\ Of(p, m) /\ posts' = Append(posts, p)
    BY <1>0, <1>4, PostOf
  <2>2. \A i \in DOMAIN posts : posts[i].for = m.id => posts[i].what = "translation"
    BY DEF PostInv, InProgress
  <2>3. Apart' /\ Owned' /\ Passed'
    BY <1>0, <1>1, <2>1, <2>2, PostsAdded
  <2>4. InProgress'
    BY <1>4 DEF Finish, InProgress
  <2> QED BY <2>3, <2>4 DEF PostInv
<1>5. CASE UNCHANGED vars
  BY <1>2, <1>5 DEF vars, loopVars
<1>6. ASSUME NEW k \in Spoken, Speak(k) PROVE PostInv'
  BY <1>2, <1>6 DEF Speak
<1>7. ASSUME NEW f \in air, Deliver(f) PROVE PostInv'
  BY <1>2, <1>7 DEF Deliver
<1>8. CASE \/ (\E a \in Accounts : Register(a)) /\ UNCHANGED loopVars
           \/ Tick \/ Receive
  BY <1>2, <1>8 DEF Tick, Receive, loopVars
<1>9. CASE Untranslated \/ StartTranslation \/ ProviderEnds \/ Execute
  BY <1>2, <1>9 DEF Untranslated, StartTranslation, ProviderEnds, Execute
<1>10. CASE NoHandler \/ Panic \/ Restart
  BY <1>2, <1>10 DEF NoHandler, Panic, Restart, LoopFinish, Finish, Start, Die
<1>11. CASE SendTranslation
  <2>1. CASE UNCHANGED <<posts, air>>
    BY <1>2, <1>11, <2>1 DEF SendTranslation
  <2>2. CASE \E m \in hand : Send(m, "translation")
    BY <1>3, <1>11, <2>2 DEF SendTranslation
  <2> QED BY <1>11, <2>1, <2>2 DEF SendTranslation
<1>12. CASE Reply
  <2>1. CASE UNCHANGED <<posts, air>>
    BY <1>2, <1>12, <2>1 DEF Reply, Finish
  <2>2. CASE \E m \in hand : Send(m, "answer")
    BY <1>4, <1>12, <2>2 DEF Reply
  <2> QED BY <1>12, <2>1, <2>2 DEF Reply
<1> QED BY <1>5, <1>6, <1>7, <1>8, <1>9, <1>10, <1>11, <1>12 DEF Next, Handling

LEMMA PostsMeaning == ASSUME PostInv PROVE OncePerDelivery
<1>1. \A i, j \in DOMAIN posts :
          posts[i].for = posts[j].for /\ posts[i].what = posts[j].what => i = j
  BY DEF PostInv, Apart
<1>2. ASSUME NEW i \in DOMAIN posts
      PROVE  \/ posts[i].for \in {m.id : m \in hand} \cup gone
             \/ \E n \in DOMAIN handled : /\ handled[n].id = posts[i].for
                                          /\ handled[n].account = posts[i].account
                                          /\ handled[n].kind.room = posts[i].room
  BY DEF PostInv, Owned, Of
<1> QED BY <1>1, <1>2 DEF OncePerDelivery

LEMMA PostsInit == ASSUME Init PROVE Distinct /\ PostInv
<1>1. batch = << >> /\ queue = [a \in Accounts |-> << >>] /\ hand = {} /\ posts = << >>
  BY DEF Init, ReceiverInit
<1>2. Distinct
  BY <1>1 DEF Distinct, Queued, Ids
<1>3. PostInv
  BY <1>1 DEF PostInv, Apart, Owned, Passed, InProgress
<1> QED BY <1>2, <1>3

\* For each message that an account received, it posts at most one translation and
\* one answer, and what was posted belongs to a message in hand, finished or lost
\* with the process: of the path from try_translate to the reply of the handler, errors ignored on the way,
\* and of the receiver, that never yields a frame again (main.rs, receiver.rs).
THEOREM OncePerDeliveryKept == Spec => []OncePerDelivery
<1>1. Init => Line /\ Distinct /\ PostInv
  BY LineInit, PostsInit DEF Init
<1>2. LoopTypeOK /\ Line /\ Distinct /\ PostInv /\ [Next]_vars => (Line /\ Distinct /\ PostInv)'
  <2> SUFFICES ASSUME LoopTypeOK, Line, Distinct, PostInv, [Next]_vars
               PROVE  Line' /\ Distinct' /\ PostInv'
    OBVIOUS
  <2>1. ReceiverTypeOK /\ [ReceiverNext]_receiverVars
    BY LoopStepReceives DEF LoopTypeOK
  <2> QED BY <2>1, LineInductive, ReceiverEffects, PostsInductive, LoopAssumption
<1> QED BY <1>1, <1>2, LoopTypeCorrect, PostsMeaning, PTL DEF Spec
=============================================================================
