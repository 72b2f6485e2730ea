----------------------- MODULE ConversationStoreProofs -----------------------
(***************************************************************************)
(* Machine-checked proofs about ConversationStore, for every set of        *)
(* conversations and every value of the limits and periods.                *)
(***************************************************************************)
EXTENDS ConversationStore, TLAPS

-----------------------------------------------------------------------------
(* Trimming. *)

\* The last n elements of a sequence, element by element.
LEMMA LastNLength ==
    ASSUME NEW S, NEW s \in Seq(S), NEW n \in Nat
    PROVE  /\ LastN(s, n) \in Seq(S)
           /\ Len(LastN(s, n)) \in Nat
           /\ Len(LastN(s, n)) = IF Len(s) > n THEN n ELSE Len(s)
<1>1. CASE Len(s) > n
  BY <1>1 DEF LastN
<1>2. CASE ~(Len(s) > n)
  BY <1>2 DEF LastN
<1> QED
  BY <1>1, <1>2

LEMMA LastNElement ==
    ASSUME NEW S, NEW s \in Seq(S), NEW n \in Nat, NEW i \in 1 .. Len(LastN(s, n))
    PROVE  LastN(s, n)[i] = s[Len(s) - Len(LastN(s, n)) + i]
<1>1. CASE Len(s) > n
  BY <1>1 DEF LastN
<1>2. CASE ~(Len(s) > n)
  <2>1. LastN(s, n) = s
    BY <1>2 DEF LastN
  <2>2. Len(s) - Len(s) + i = i
    BY <2>1
  <2> QED
    BY <2>1, <2>2
<1> QED
  BY <1>1, <1>2

PushLast(s, m, n) == LastN(Append(s, m), n)

\* The same of a sequence with one more element.
LEMMA PushLastLength ==
    ASSUME NEW S, NEW s \in Seq(S), NEW m \in S, NEW n \in Nat
    PROVE  /\ PushLast(s, m, n) \in Seq(S)
           /\ Len(PushLast(s, m, n)) \in Nat
           /\ Len(PushLast(s, m, n)) = IF Len(s) + 1 > n THEN n ELSE Len(s) + 1
<1> DEFINE q == Append(s, m)
           a == PushLast(s, m, n)
<1>1. q \in Seq(S) /\ Len(q) = Len(s) + 1
  OBVIOUS
<1>2. a = LastN(q, n)
  BY DEF PushLast
<1> HIDE DEF q, a
<1>3. a \in Seq(S) /\ Len(a) \in Nat
  BY <1>1, <1>2, LastNLength
<1>4. Len(a) = IF Len(q) > n THEN n ELSE Len(q)
  BY <1>1, <1>2, LastNLength
<1> QED
  BY <1>1, <1>3, <1>4 DEF a

LEMMA PushLastElements ==
    ASSUME NEW S, NEW s \in Seq(S), NEW m \in S, NEW n \in Nat,
           NEW i \in 1 .. Len(PushLast(s, m, n))
    PROVE  PushLast(s, m, n)[i]
               = IF i = Len(PushLast(s, m, n)) THEN m
                 ELSE s[Len(s) + 1 - Len(PushLast(s, m, n)) + i]
<1> DEFINE q == Append(s, m)
           a == PushLast(s, m, n)
<1>1. /\ q \in Seq(S) /\ Len(q) = Len(s) + 1 /\ Len(s) \in Nat
      /\ \A j \in 1 .. Len(s) : q[j] = s[j]
      /\ q[Len(s) + 1] = m
  OBVIOUS
<1>2. a = LastN(q, n)
  BY DEF PushLast
<1>3. Len(a) \in Nat /\ Len(a) = IF Len(s) + 1 > n THEN n ELSE Len(s) + 1
  BY PushLastLength
<1>4. i \in 1 .. Len(a)
  OBVIOUS
<1> HIDE DEF q, a
<1>5. a[i] = q[Len(q) - Len(a) + i]
  BY <1>1, <1>2, <1>4, LastNElement
<1>6. a[i] = q[Len(s) + 1 - Len(a) + i]
  BY <1>1, <1>5
<1>7. CASE i = Len(a)
  <2>1. Len(s) + 1 - Len(a) + i = Len(s) + 1
    BY <1>1, <1>3, <1>7
  <2> QED
    BY <1>1, <1>6, <1>7, <2>1 DEF a
<1>8. CASE i # Len(a)
  <2>1. Len(s) + 1 - Len(a) + i \in 1 .. Len(s)
    BY <1>1, <1>3, <1>4, <1>8
  <2> QED
    BY <1>1, <1>6, <1>8, <2>1 DEF a
<1> QED
  BY <1>7, <1>8

\* Trimming after every message keeps what trimming once at the end would.
LEMMA PushLastOfLast ==
    ASSUME NEW S, NEW s \in Seq(S), NEW m \in S, NEW n \in Nat
    PROVE  PushLast(LastN(s, n), m, n) = PushLast(s, m, n)
<1> DEFINE t == LastN(s, n)
           a == PushLast(t, m, n)
           b == PushLast(s, m, n)
<1>1. /\ t \in Seq(S) /\ Len(t) \in Nat /\ Len(s) \in Nat
      /\ Len(t) = IF Len(s) > n THEN n ELSE Len(s)
  BY LastNLength
<1>2. \A i \in 1 .. Len(t) : t[i] = s[Len(s) - Len(t) + i]
  BY LastNElement
<1> HIDE DEF t
<1>3. /\ a \in Seq(S) /\ Len(a) \in Nat
      /\ Len(a) = IF Len(t) + 1 > n THEN n ELSE Len(t) + 1
  BY <1>1, PushLastLength
<1>4. /\ b \in Seq(S) /\ Len(b) \in Nat
      /\ Len(b) = IF Len(s) + 1 > n THEN n ELSE Len(s) + 1
  BY PushLastLength
<1>5. Len(a) = Len(b) /\ Len(a) <= Len(t) + 1
  BY <1>1, <1>3, <1>4
<1>6. ASSUME NEW i \in 1 .. Len(a)
      PROVE  a[i] = b[i]
  <2>1. a[i] = IF i = Len(a) THEN m ELSE t[Len(t) + 1 - Len(a) + i]
    BY <1>1, PushLastElements
  <2>2. i \in 1 .. Len(b)
    BY <1>5
  <2>3. b[i] = IF i = Len(b) THEN m ELSE s[Len(s) + 1 - Len(b) + i]
    BY <2>2, PushLastElements
  <2> HIDE DEF a, b
  <2>4. CASE i = Len(a)
    BY <1>5, <2>1, <2>3, <2>4
  <2>5. CASE i # Len(a)
    <3>1. i \in Nat /\ 1 <= i /\ i < Len(a)
      BY <1>3, <2>5
    <3>2. PICK p \in Nat : p = Len(t) + 1 - Len(a) + i
      <4>1. Len(t) + 1 - Len(a) + i \in Nat
        BY <1>1, <1>3, <1>5, <3>1
      <4> QED
        BY <4>1
    <3>3. p \in 1 .. Len(t)
      BY <1>1, <1>3, <1>5, <3>1, <3>2
    <3>4. Len(s) - Len(t) + p = Len(s) + 1 - Len(b) + i
      <4>1. Len(s) \in Nat /\ Len(t) \in Nat /\ Len(a) \in Nat /\ Len(b) = Len(a)
        BY <1>1, <1>3, <1>5
      <4>2. Len(s) - Len(t) + p = Len(s) + 1 - Len(a) + i
        BY <3>1, <3>2, <4>1
      <4> QED
        BY <4>1, <4>2
    <3>5. t[p] = s[Len(s) - Len(t) + p]
      BY <1>2, <3>3
    <3> QED
      BY <1>5, <2>1, <2>3, <2>5, <3>4, <3>5
  <2> QED
    BY <2>4, <2>5
<1> HIDE DEF a, b
<1>7. a = b
  BY <1>3, <1>4, <1>5, <1>6
<1> QED
  BY <1>7 DEF a, b, t

-----------------------------------------------------------------------------
(* The inductive invariant. *)

\* A history starts with its entry.
AddedSinceCreation ==
    \A k \in Keys : conversations[k] = {} => added[k] = << >>

\* An entry expires TTL after its last message.
ExpiryFollowsLast ==
    \A k \in Keys : \A e \in conversations[k] :
        e.messages # << >> => e.expires_at = e.messages[Len(e.messages)].at + TTL

\* No entry is overdue by a whole cleanup period.
NotOverdue ==
    \A k \in Keys : \A e \in conversations[k] : e.expires_at + CleanupEvery > cleanupAt

CleanupScheduled == now <= cleanupAt /\ cleanupAt <= now + CleanupEvery

StoreIInv ==
    /\ StoreTypeOK
    /\ HistoryIsTail
    /\ AddedSinceCreation
    /\ ExpiryFollowsLast
    /\ NotOverdue
    /\ CleanupScheduled
    /\ NoLongSilence

LEMMA TheOnly == ASSUME NEW e PROVE (CHOOSE x \in {e} : TRUE) = e
  OBVIOUS

\* An entry of the map, seen through Stored.
LEMMA StoredCases ==
    ASSUME StoreTypeOK, NEW k \in Keys
    PROVE  \/ conversations[k] = {} /\ Stored(k) = << >>
           \/ \E e \in Entry : conversations[k] = {e} /\ Stored(k) = e.messages
<1>1. CASE conversations[k] = {}
  BY <1>1 DEF Stored, NewConversation
<1>2. CASE conversations[k] # {}
  <2>1. PICK e \in conversations[k] : TRUE
    BY <1>2
  <2>2. e \in Entry /\ conversations[k] = {e}
    BY <2>1 DEF StoreTypeOK
  <2>3. Stored(k) = e.messages
    BY <1>2, <2>2, TheOnly DEF Stored, NewConversation
  <2> QED
    BY <2>2, <2>3
<1> QED
  BY <1>1, <1>2

LEMMA StoredType ==
    ASSUME StoreTypeOK, NEW k \in Keys
    PROVE  Stored(k) \in Seq(StoredMessage)
<1>1. CASE Stored(k) = << >>
  BY <1>1
<1>2. ASSUME NEW e \in Entry, Stored(k) = e.messages
      PROVE  Stored(k) \in Seq(StoredMessage)
  BY <1>2 DEF Entry
<1> QED
  BY <1>1, <1>2, StoredCases

LEMMA NewMessageType ==
    ASSUME now \in Nat, NEW m \in NewMessages
    PROVE  m \in StoredMessage /\ m.at = now
BY DEF NewMessages, Text, ToolCalls, ToolResult, StoredMessage, Roles

LEMMA StoreInitIInv == StoreInit => StoreIInv
<1> SUFFICES ASSUME StoreInit PROVE StoreIInv
  OBVIOUS
<1>1. StoreTypeOK
  BY StoreAssumption DEF StoreInit, StoreTypeOK
<1>2. \A k \in Keys : conversations[k] = {} /\ added[k] = << >> /\ Stored(k) = << >>
  BY DEF StoreInit, Stored, NewConversation
<1>3. LastN(<< >>, MaxMessages) = << >>
  BY MaxMessagesAssumption DEF LastN
<1>4. HistoryIsTail /\ AddedSinceCreation /\ ExpiryFollowsLast /\ NotOverdue
  BY <1>2, <1>3 DEF HistoryIsTail, AddedSinceCreation, ExpiryFollowsLast, NotOverdue
<1>5. CleanupScheduled
  BY StoreAssumption DEF StoreInit, CleanupScheduled
<1>6. NoLongSilence
  <2>1. \A k \in Keys : Len(Stored(k)) = 0
    BY <1>2
  <2> QED
    BY <2>1 DEF NoLongSilence
<1> QED
  BY <1>1, <1>4, <1>5, <1>6 DEF StoreIInv

\* Adding a message keeps the invariant.
LEMMA AddMessageIInv ==
    ASSUME StoreIInv, NEW k \in Keys, NEW m \in StoredMessage, m.at = now,
           AddMessage(k, m)
    PROVE  StoreIInv'
<1> DEFINE old == Stored(k)
           new == PushLast(old, m, MaxMessages)
           entry == [messages |-> new, expires_at |-> now + TTL]
<1>1. /\ MaxMessages \in Nat /\ TTL \in Nat /\ TTL > 0 /\ now \in Nat
      /\ CleanupEvery \in Nat /\ cleanupAt \in Nat
  BY MaxMessagesAssumption, StoreAssumption DEF StoreIInv, StoreTypeOK
<1>2. old \in Seq(StoredMessage)
  BY StoredType DEF StoreIInv
<1>3. new = Pushed(old, m)
  BY DEF Pushed, Trim, PushLast
<1>4. /\ conversations' = [conversations EXCEPT ![k] = {entry}]
      /\ added' = [added EXCEPT ![k] = Append(@, m)]
      /\ now' = now /\ cleanupAt' = cleanupAt
  BY <1>3 DEF AddMessage
<1>5. /\ new \in Seq(StoredMessage) /\ Len(new) \in Nat
      /\ Len(new) = IF Len(old) + 1 > MaxMessages THEN MaxMessages ELSE Len(old) + 1
  BY <1>1, <1>2, PushLastLength
<1>6. \A i \in 1 .. Len(new) :
          new[i] = IF i = Len(new) THEN m ELSE old[Len(old) + 1 - Len(new) + i]
  BY <1>1, <1>2, PushLastElements
<1> HIDE DEF new
<1>7. /\ DOMAIN conversations = Keys /\ DOMAIN added = Keys
      /\ added[k] \in Seq(StoredMessage)
  BY DEF StoreIInv, StoreTypeOK
<1>8. conversations'[k] = {entry} /\ added'[k] = Append(added[k], m)
  BY <1>4, <1>7
<1>9. \A j \in Keys \ {k} : conversations'[j] = conversations[j] /\ added'[j] = added[j]
  BY <1>4, <1>7
<1>10. entry \in Entry /\ entry.messages = new /\ entry.expires_at = now + TTL
  BY <1>1, <1>5 DEF Entry
<1> HIDE DEF entry
<1>11. Stored(k)' = new
  BY <1>8, <1>10, TheOnly DEF Stored, NewConversation
<1>12. ASSUME NEW j \in Keys \ {k} PROVE Stored(j)' = Stored(j)
  <2>1. conversations'[j] = conversations[j]
    BY <1>9
  <2> QED
    BY <2>1 DEF Stored, NewConversation
<1> HIDE DEF old
<1>13. StoreTypeOK'
  <2>1. \A j \in Keys : \A e \in conversations'[j] : e \in Entry /\ conversations'[j] = {e}
    <3>1. ASSUME NEW j \in Keys, NEW e \in conversations'[j]
          PROVE  e \in Entry /\ conversations'[j] = {e}
      <4>1. CASE j = k
        BY <1>8, <1>10, <3>1, <4>1
      <4>2. CASE j # k
        BY <1>9, <3>1, <4>2 DEF StoreIInv, StoreTypeOK
      <4> QED
        BY <4>1, <4>2
    <3> QED
      BY <3>1
  <2>2. DOMAIN conversations' = Keys
    BY <1>4, <1>7
  <2>3. added' \in [Keys -> Seq(StoredMessage)]
    BY <1>4 DEF StoreIInv, StoreTypeOK
  <2> QED
    BY <1>1, <1>4, <2>1, <2>2, <2>3 DEF StoreTypeOK
<1>14. HistoryIsTail'
  <2>1. old = LastN(added[k], MaxMessages)
    BY DEF old, StoreIInv, HistoryIsTail
  <2>2. new = PushLast(added[k], m, MaxMessages)
    BY <1>1, <1>7, <2>1, PushLastOfLast DEF new
  <2>3. Stored(k)' = LastN(added'[k], MaxMessages)
    BY <1>8, <1>11, <2>2 DEF PushLast
  <2>4. ASSUME NEW j \in Keys \ {k} PROVE Stored(j)' = LastN(added'[j], MaxMessages)
    BY <1>9, <1>12 DEF StoreIInv, HistoryIsTail
  <2> QED
    BY <2>3, <2>4 DEF HistoryIsTail
<1>15. AddedSinceCreation'
  BY <1>8, <1>9 DEF StoreIInv, AddedSinceCreation
<1>16. ASSUME new # << >>
       PROVE  Len(new) \in 1 .. Len(new) /\ new[Len(new)] = m
  <2>1. Len(new) # 0
    BY <1>5, <1>16
  <2>2. Len(new) \in 1 .. Len(new)
    BY <1>5, <2>1
  <2> QED
    BY <1>6, <2>2
<1>17. ExpiryFollowsLast'
  <2>1. entry.messages # << >>
            => entry.expires_at = entry.messages[Len(entry.messages)].at + TTL
    BY <1>10, <1>16
  <2>2. ASSUME NEW j \in Keys, NEW e \in conversations'[j]
        PROVE  e.messages # << >> => e.expires_at = e.messages[Len(e.messages)].at + TTL
    <3>1. CASE j = k
      BY <1>8, <2>1, <2>2, <3>1
    <3>2. CASE j # k
      BY <1>9, <2>2, <3>2 DEF StoreIInv, ExpiryFollowsLast
    <3> QED
      BY <3>1, <3>2
  <2> QED
    BY <2>2 DEF ExpiryFollowsLast
<1>18. NotOverdue'
  <2>1. entry.expires_at + CleanupEvery > cleanupAt
    BY <1>1, <1>10 DEF StoreIInv, CleanupScheduled
  <2>2. ASSUME NEW j \in Keys, NEW e \in conversations'[j]
        PROVE  e.expires_at + CleanupEvery > cleanupAt'
    <3>1. CASE j = k
      BY <1>4, <1>8, <2>1, <2>2, <3>1
    <3>2. CASE j # k
      BY <1>4, <1>9, <2>2, <3>2 DEF StoreIInv, NotOverdue
    <3> QED
      BY <3>1, <3>2
  <2> QED
    BY <2>2 DEF NotOverdue
<1>19. CleanupScheduled'
  BY <1>4 DEF StoreIInv, CleanupScheduled
<1>20. NoLongSilence'
  <2>1. ASSUME NEW i \in 1 .. Len(new) - 1
        PROVE  new[i + 1].at - new[i].at < TTL + CleanupEvery
    <3>1. i \in Nat /\ 1 <= i /\ i < Len(new) /\ Len(old) \in Nat
      BY <1>2, <1>5, <2>1
    <3>2. PICK p \in Nat : p = Len(old) + 1 - Len(new) + i
      <4>1. Len(old) + 1 - Len(new) + i \in Nat
        BY <1>5, <3>1
      <4> QED
        BY <4>1
    <3>3. p \in 1 .. Len(old)
      BY <1>5, <3>1, <3>2
    <3>4. new[i] = old[p] /\ old[p] \in StoredMessage /\ old[p].at \in Nat
      <4>1. i \in 1 .. Len(new) /\ i # Len(new)
        BY <1>5, <3>1
      <4>2. new[i] = old[p]
        BY <1>6, <3>2, <4>1
      <4>3. old[p] \in StoredMessage
        BY <1>2, <3>3
      <4> QED
        BY <4>2, <4>3 DEF StoredMessage
    <3>5. CASE i + 1 = Len(new)
      <4>1. p = Len(old)
        BY <1>5, <3>1, <3>2, <3>5
      <4>2. new[i + 1] = m
        BY <1>5, <1>6, <3>1, <3>5
      <4>3. old # << >>
        BY <3>3
      <4>4. PICK e \in conversations[k] : e \in Entry /\ old = e.messages
        BY <4>3, StoredCases DEF old, StoreIInv
      <4>5. e.expires_at = old[p].at + TTL
        BY <4>1, <4>3, <4>4 DEF StoreIInv, ExpiryFollowsLast
      <4>6. e.expires_at + CleanupEvery > cleanupAt /\ e.expires_at \in Nat
        BY <4>4 DEF StoreIInv, NotOverdue, Entry
      <4>7. now <= cleanupAt
        BY DEF StoreIInv, CleanupScheduled
      <4>8. now - old[p].at < TTL + CleanupEvery
        <5>1. PICK x \in Nat : x = old[p].at
          BY <3>4
        <5>2. x + TTL + CleanupEvery > cleanupAt
          BY <4>5, <4>6, <5>1
        <5>3. now - x < TTL + CleanupEvery
          BY <1>1, <4>7, <5>2, StoreAssumption
        <5> QED
          BY <5>1, <5>3
      <4> QED
        BY <3>4, <4>2, <4>8
    <3>6. CASE i + 1 # Len(new)
      <4>1. p + 1 \in 1 .. Len(old) /\ p \in 1 .. Len(old) - 1
        BY <1>5, <3>1, <3>2, <3>3, <3>6
      <4>2. i + 1 \in 1 .. Len(new) /\ Len(old) + 1 - Len(new) + (i + 1) = p + 1
        BY <1>5, <3>1, <3>2
      <4>3. new[i + 1] = old[p + 1]
        BY <1>6, <3>6, <4>2
      <4>4. old[p + 1].at - old[p].at < TTL + CleanupEvery
        BY <4>1 DEF old, StoreIInv, NoLongSilence
      <4> QED
        BY <3>4, <4>3, <4>4
    <3> QED
      BY <3>5, <3>6
  <2>2. ASSUME NEW j \in Keys \ {k}, NEW i \in 1 .. Len(Stored(j)) - 1
        PROVE  Stored(j)[i + 1].at - Stored(j)[i].at < TTL + CleanupEvery
    BY DEF StoreIInv, NoLongSilence
  <2> QED
    BY <1>11, <1>12, <2>1, <2>2 DEF NoLongSilence
<1> QED
  BY <1>13, <1>14, <1>15, <1>17, <1>18, <1>19, <1>20 DEF StoreIInv

\* Clearing a conversation keeps the invariant.
LEMMA ClearIInv ==
    ASSUME StoreIInv, NEW k \in Keys, Clear(k)
    PROVE  StoreIInv'
<1>1. DOMAIN conversations = Keys /\ DOMAIN added = Keys
  BY DEF StoreIInv, StoreTypeOK
<1>2. /\ conversations' = [conversations EXCEPT ![k] = {}]
      /\ added' = [added EXCEPT ![k] = << >>]
      /\ now' = now /\ cleanupAt' = cleanupAt
  BY DEF Clear
<1>3. conversations'[k] = {} /\ added'[k] = << >> /\ Stored(k)' = << >>
  BY <1>1, <1>2 DEF Stored, NewConversation
<1>4. \A j \in Keys \ {k} : conversations'[j] = conversations[j] /\ added'[j] = added[j]
  BY <1>1, <1>2
<1>5. ASSUME NEW j \in Keys \ {k} PROVE Stored(j)' = Stored(j)
  <2>1. conversations'[j] = conversations[j]
    BY <1>4
  <2> QED
    BY <2>1 DEF Stored, NewConversation
<1>6. StoreTypeOK'
  <2>1. added' \in [Keys -> Seq(StoredMessage)]
    BY <1>2 DEF StoreIInv, StoreTypeOK
  <2>2. \A j \in Keys : \A e \in conversations'[j] : e \in Entry /\ conversations'[j] = {e}
    BY <1>3, <1>4 DEF StoreIInv, StoreTypeOK
  <2> QED
    BY <1>1, <1>2, <2>1, <2>2 DEF StoreIInv, StoreTypeOK
<1>7. HistoryIsTail'
  <2>1. LastN(<< >>, MaxMessages) = << >>
    BY MaxMessagesAssumption DEF LastN
  <2>2. ASSUME NEW j \in Keys \ {k} PROVE Stored(j)' = LastN(added'[j], MaxMessages)
    BY <1>4, <1>5 DEF StoreIInv, HistoryIsTail
  <2> QED
    BY <1>3, <2>1, <2>2 DEF HistoryIsTail
<1>8. AddedSinceCreation' /\ ExpiryFollowsLast' /\ NotOverdue' /\ CleanupScheduled'
  BY <1>2, <1>3, <1>4
     DEF StoreIInv, AddedSinceCreation, ExpiryFollowsLast, NotOverdue, CleanupScheduled
<1>9. NoLongSilence'
  <2>1. Len(Stored(k)') = 0
    BY <1>3
  <2>2. ASSUME NEW j \in Keys, NEW i \in 1 .. Len(Stored(j)') - 1
        PROVE  Stored(j)'[i + 1].at - Stored(j)'[i].at < TTL + CleanupEvery
    <3>1. j # k
      BY <2>1
    <3>2. Stored(j)' = Stored(j)
      BY <1>5, <3>1
    <3> QED
      BY <3>2 DEF StoreIInv, NoLongSilence
  <2> QED
    BY <2>2 DEF NoLongSilence
<1> QED
  BY <1>6, <1>7, <1>8, <1>9 DEF StoreIInv

\* The cleanup task keeps the invariant.
LEMMA CleanupIInv ==
    ASSUME StoreIInv, Cleanup
    PROVE  StoreIInv'
<1>1. /\ now = cleanupAt /\ now' = now /\ cleanupAt' = now + CleanupEvery
      /\ conversations' = [k \in Keys |-> {e \in conversations[k] : Retained(e)}]
      /\ added' = [k \in Keys |-> IF conversations'[k] = {} THEN << >> ELSE added[k]]
  BY DEF Cleanup
<1>2. now \in Nat /\ CleanupEvery \in Nat
  BY StoreAssumption DEF StoreIInv, StoreTypeOK
<1>3. ASSUME NEW k \in Keys
      PROVE  \/ conversations'[k] = {} /\ added'[k] = << >> /\ Stored(k)' = << >>
             \/ /\ conversations'[k] = conversations[k] /\ conversations[k] # {}
                /\ added'[k] = added[k] /\ Stored(k)' = Stored(k)
                /\ \A e \in conversations[k] : e.expires_at > now
  <2>1. conversations'[k] = {e \in conversations[k] : Retained(e)}
    BY <1>1
  <2>2. CASE conversations'[k] = {}
    <3>1. added'[k] = << >>
      BY <1>1, <2>2
    <3> QED
      BY <2>2, <3>1 DEF Stored, NewConversation
  <2>3. CASE conversations'[k] # {}
    <3>1. PICK e \in conversations[k] : Retained(e)
      BY <2>1, <2>3
    <3>2. conversations[k] = {e}
      BY <3>1 DEF StoreIInv, StoreTypeOK
    <3>3. conversations'[k] = conversations[k]
      BY <2>1, <3>1, <3>2
    <3>4. added'[k] = added[k]
      BY <1>1, <2>3
    <3> QED
      BY <3>1, <3>2, <3>3, <3>4 DEF Stored, NewConversation, Retained
  <2> QED
    BY <2>2, <2>3
<1>4. StoreTypeOK'
  <2>1. \A k \in Keys : \A e \in conversations'[k] : e \in Entry /\ conversations'[k] = {e}
    BY <1>3 DEF StoreIInv, StoreTypeOK
  <2>2. DOMAIN conversations' = Keys
    BY <1>1
  <2>3. added' \in [Keys -> Seq(StoredMessage)]
    <3>1. \A k \in Keys : added[k] \in Seq(StoredMessage)
      BY DEF StoreIInv, StoreTypeOK
    <3> QED
      BY <1>1, <3>1
  <2>4. now' \in Nat /\ cleanupAt' \in Nat
    BY <1>1, <1>2
  <2> QED
    BY <2>1, <2>2, <2>3, <2>4 DEF StoreTypeOK
<1>5. HistoryIsTail'
  <2>1. LastN(<< >>, MaxMessages) = << >>
    BY MaxMessagesAssumption DEF LastN
  <2>2. ASSUME NEW k \in Keys PROVE Stored(k)' = LastN(added'[k], MaxMessages)
    <3>1. Stored(k) = LastN(added[k], MaxMessages)
      BY DEF StoreIInv, HistoryIsTail
    <3> QED
      BY <1>3, <2>1, <3>1
  <2> QED
    BY <2>2 DEF HistoryIsTail
<1>6. AddedSinceCreation'
  BY <1>3 DEF AddedSinceCreation
<1>7. ExpiryFollowsLast'
  BY <1>3 DEF StoreIInv, ExpiryFollowsLast
<1>8. NotOverdue'
  <2>1. ASSUME NEW k \in Keys, NEW e \in conversations'[k]
        PROVE  e.expires_at + CleanupEvery > cleanupAt'
    <3>1. e \in conversations[k] /\ e.expires_at > now
      BY <1>3, <2>1
    <3>2. e.expires_at \in Nat
      BY <3>1 DEF StoreIInv, StoreTypeOK, Entry
    <3> QED
      BY <1>1, <1>2, <3>1, <3>2
  <2> QED
    BY <2>1 DEF NotOverdue
<1>9. CleanupScheduled'
  BY <1>1, <1>2 DEF CleanupScheduled
<1>10. NoLongSilence'
  <2>1. ASSUME NEW k \in Keys, NEW i \in 1 .. Len(Stored(k)') - 1
        PROVE  Stored(k)'[i + 1].at - Stored(k)'[i].at < TTL + CleanupEvery
    <3>1. Stored(k)' # << >>
      <4>1. CASE Stored(k)' = << >>
        <5>1. Len(Stored(k)') = 0
          BY <4>1
        <5> QED
          BY <5>1
      <4> QED
        BY <4>1
    <3>2. Stored(k)' = Stored(k)
      BY <1>3, <3>1
    <3> QED
      BY <3>2 DEF StoreIInv, NoLongSilence
  <2> QED
    BY <2>1 DEF NoLongSilence
<1> QED
  BY <1>4, <1>5, <1>6, <1>7, <1>8, <1>9, <1>10 DEF StoreIInv

LEMMA TickIInv ==
    ASSUME StoreIInv, Tick
    PROVE  StoreIInv'
<1>1. /\ conversations' = conversations /\ added' = added /\ cleanupAt' = cleanupAt
      /\ now < cleanupAt /\ now' = now + 1
      /\ now \in Nat /\ cleanupAt \in Nat /\ CleanupEvery \in Nat
  BY StoreAssumption DEF Tick, StoreIInv, StoreTypeOK
<1>2. \A k \in Keys : Stored(k)' = Stored(k)
  BY <1>1 DEF Stored, NewConversation
<1>3. StoreTypeOK'
  BY <1>1 DEF StoreIInv, StoreTypeOK
<1>4. HistoryIsTail' /\ AddedSinceCreation' /\ ExpiryFollowsLast' /\ NotOverdue'
  BY <1>1, <1>2
     DEF StoreIInv, HistoryIsTail, AddedSinceCreation, ExpiryFollowsLast, NotOverdue
<1>5. CleanupScheduled'
  BY <1>1 DEF StoreIInv, CleanupScheduled
<1>6. NoLongSilence'
  BY <1>2 DEF StoreIInv, NoLongSilence
<1> QED
  BY <1>3, <1>4, <1>5, <1>6 DEF StoreIInv

LEMMA StoreNextIInv == StoreIInv /\ [StoreNext]_storeVars => StoreIInv'
<1> SUFFICES ASSUME StoreIInv, [StoreNext]_storeVars PROVE StoreIInv'
  OBVIOUS
<1>1. ASSUME NEW k \in Keys, NEW m \in NewMessages, AddMessage(k, m)
      PROVE  StoreIInv'
  <2>1. m \in StoredMessage /\ m.at = now
    BY NewMessageType DEF StoreIInv, StoreTypeOK
  <2> QED
    BY <1>1, <2>1, AddMessageIInv
<1>2. ASSUME NEW k \in Keys, Clear(k)
      PROVE  StoreIInv'
  BY <1>2, ClearIInv
<1>3. CASE Cleanup
  BY <1>3, CleanupIInv
<1>4. CASE Tick
  BY <1>4, TickIInv
<1>5. CASE UNCHANGED storeVars
  <2>1. /\ conversations' = conversations /\ added' = added
        /\ cleanupAt' = cleanupAt /\ now' = now
    BY <1>5 DEF storeVars
  <2>2. \A k \in Keys : Stored(k)' = Stored(k)
    BY <2>1 DEF Stored, NewConversation
  <2>3. StoreTypeOK' /\ AddedSinceCreation' /\ ExpiryFollowsLast' /\ NotOverdue'
    BY <2>1 DEF StoreIInv, StoreTypeOK, AddedSinceCreation, ExpiryFollowsLast, NotOverdue
  <2>4. HistoryIsTail' /\ NoLongSilence'
    BY <2>1, <2>2 DEF StoreIInv, HistoryIsTail, NoLongSilence
  <2> QED
    BY <2>1, <2>3, <2>4 DEF StoreIInv, CleanupScheduled
<1> QED
  BY <1>1, <1>2, <1>3, <1>4, <1>5 DEF StoreNext

-----------------------------------------------------------------------------
(* Activity. *)

\* What is stored for a key is its one entry's.
LEMMA StoredEntry ==
    ASSUME StoreTypeOK, NEW k \in Keys, Stored(k) # << >>
    PROVE  \E e \in Entry : conversations[k] = {e} /\ Stored(k) = e.messages
<1>1. /\ conversations[k] # {}
      /\ Stored(k) = (CHOOSE e \in conversations[k] : TRUE).messages
  BY DEF Stored, NewConversation
<1>2. PICK e : e \in conversations[k]
  BY <1>1
<1>3. e \in Entry /\ conversations[k] = {e}
  BY <1>2 DEF StoreTypeOK
<1> QED
  BY <1>1, <1>3, TheOnly

\* One step: a conversation with activity within the TTL stays readable.
LEMMA ActiveStep ==
    ASSUME StoreIInv, [StoreNext]_storeVars, NEW k \in Keys,
           Stored(k) # << >>,
           now' < Stored(k)[Len(Stored(k))].at + TTL,
           ~Clear(k)
    PROVE  History(k)' # << >>
<1>1. PICK e \in Entry : conversations[k] = {e} /\ Stored(k) = e.messages
  BY StoredEntry DEF StoreIInv
<1>2. e.messages # << >> /\ e.expires_at = e.messages[Len(e.messages)].at + TTL
  BY <1>1 DEF StoreIInv, ExpiryFollowsLast
<1>3. e.expires_at > now' /\ e.expires_at \in Nat
  <2>1. now' < e.expires_at
    BY <1>1, <1>2
  <2>2. e.expires_at \in Nat /\ now' \in Nat
    BY <1>1, StoreNextIInv DEF Entry, StoreIInv, StoreTypeOK
  <2> QED
    BY <2>1, <2>2
<1>4. ASSUME NEW f, conversations'[k] = {f}, f.expires_at > now', f.messages # << >>
      PROVE  History(k)' # << >>
  <2>1. Live(k)' = {f}
    BY <1>4 DEF Live
  <2>2. History(k)' = f.messages
    BY <2>1, TheOnly DEF History
  <2> QED
    BY <1>4, <2>2
<1>5. ASSUME NEW j \in Keys, NEW m \in NewMessages, AddMessage(j, m)
      PROVE  History(k)' # << >>
  <2>1. now' = now /\ DOMAIN conversations = Keys
    BY <1>5 DEF AddMessage, StoreIInv, StoreTypeOK
  <2>2. CASE j # k
    <3>1. conversations'[k] = conversations[k]
      BY <1>5, <2>1, <2>2 DEF AddMessage
    <3> QED
      BY <1>1, <1>2, <1>3, <1>4, <3>1
  <2>3. CASE j = k
    <3> DEFINE new == Pushed(Stored(k), m)
               entry == [messages |-> new, expires_at |-> now + TTL]
    <3>1. conversations'[k] = {entry}
      BY <1>5, <2>1, <2>3 DEF AddMessage
    <3>2. /\ entry.messages = new /\ entry.expires_at = now + TTL
          /\ now \in Nat /\ TTL \in Nat /\ TTL > 0
      BY StoreAssumption DEF StoreIInv, StoreTypeOK
    <3>3. new # << >>
      <4>1. Stored(k) = e.messages /\ Stored(k) \in Seq(StoredMessage)
        BY <1>1, TheOnly, StoredType DEF Stored, StoreIInv
      <4>2. Len(Stored(k)) \in Nat /\ Len(Stored(k)) # 0
        BY <1>2, <4>1
      <4>3. added[k] \in Seq(StoredMessage) /\ Stored(k) = LastN(added[k], MaxMessages)
        BY DEF StoreIInv, StoreTypeOK, HistoryIsTail
      <4>4. MaxMessages \in Nat /\ MaxMessages # 0
        BY <4>2, <4>3, LastNLength, MaxMessagesAssumption
      <4>5. m \in StoredMessage
        BY NewMessageType DEF StoreIInv, StoreTypeOK
      <4>6. Len(new) # 0
        <5>1. new = PushLast(Stored(k), m, MaxMessages)
          BY DEF Pushed, Trim, PushLast
        <5> QED
          BY <4>1, <4>2, <4>4, <4>5, <5>1, PushLastLength
      <4> QED
        BY <4>6
    <3> HIDE DEF entry
    <3>4. entry.expires_at > now'
      BY <2>1, <3>2
    <3> QED
      BY <1>4, <3>1, <3>2, <3>3, <3>4
  <2> QED
    BY <2>2, <2>3
<1>6. ASSUME NEW j \in Keys, Clear(j)
      PROVE  History(k)' # << >>
  <2>1. j # k /\ DOMAIN conversations = Keys
    BY <1>6 DEF StoreIInv, StoreTypeOK
  <2>2. conversations'[k] = conversations[k]
    BY <1>6, <2>1 DEF Clear
  <2> QED
    BY <1>1, <1>2, <1>3, <1>4, <2>2
<1>7. CASE Cleanup
  <2>1. conversations'[k] = {f \in conversations[k] : Retained(f)}
    BY <1>7 DEF Cleanup
  <2>2. conversations'[k] = {e}
    BY <1>1, <1>3, <1>7, <2>1 DEF Retained, Cleanup
  <2> QED
    BY <1>2, <1>3, <1>4, <2>2
<1>8. CASE Tick \/ UNCHANGED storeVars
  <2>1. conversations'[k] = {e}
    BY <1>1, <1>8 DEF Tick, storeVars
  <2> QED
    BY <1>2, <1>3, <1>4, <2>1
<1> QED
  BY <1>5, <1>6, <1>7, <1>8 DEF StoreNext

-----------------------------------------------------------------------------
(* The theorems. *)

THEOREM StoreInvariant == StoreSpec => []StoreIInv
<1>1. StoreInit => StoreIInv
  BY StoreInitIInv
<1>2. StoreIInv /\ [StoreNext]_storeVars => StoreIInv'
  BY StoreNextIInv
<1> QED
  BY <1>1, <1>2, PTL DEF StoreSpec

\* The map holds at most one well-formed entry for each key.
THEOREM StoreTypeCorrect == StoreSpec => []StoreTypeOK
<1>1. StoreIInv => StoreTypeOK
  BY DEF StoreIInv
<1> QED
  BY <1>1, StoreInvariant, PTL

\* Trimming, on whichever path and however often, keeps exactly the last
\* MaxMessages messages of a conversation.
THEOREM TrimmingKeepsTail == StoreSpec => []HistoryIsTail
<1>1. StoreIInv => HistoryIsTail
  BY DEF StoreIInv
<1> QED
  BY <1>1, StoreInvariant, PTL

\* Two consecutive messages of a history were said less than the TTL and one
\* cleanup period apart.
THEOREM SilenceEndsConversation == StoreSpec => []NoLongSilence
<1>1. StoreIInv => NoLongSilence
  BY DEF StoreIInv
<1> QED
  BY <1>1, StoreInvariant, PTL

\* A conversation with activity within the TTL is readable until it is
\* cleared: no cleanup, no other conversation and no trimming takes it away.
THEOREM ActivityIsKept == StoreSpec => ActiveIsKept
<1>1. StoreIInv /\ [StoreNext]_storeVars =>
          [\A k \in Keys :
              (/\ Stored(k) # << >>
               /\ now' < Stored(k)[Len(Stored(k))].at + TTL
               /\ ~Clear(k))
              => History(k)' # << >>]_storeVars
  <2> SUFFICES ASSUME StoreIInv, [StoreNext]_storeVars, NEW k \in Keys,
                      Stored(k) # << >>,
                      now' < Stored(k)[Len(Stored(k))].at + TTL,
                      ~Clear(k)
               PROVE  History(k)' # << >>
    OBVIOUS
  <2> QED
    BY ActiveStep
<1> QED
  BY <1>1, StoreInvariant, PTL DEF StoreSpec, ActiveIsKept

\* The background task leaves an expired conversation in the map for less than its
\* period: no fairness is needed, since the clock does not pass its wake-up.
THEOREM AbandonedIsReleasedInTime == StoreSpec => []ReleasedInTime
<1>1. StoreIInv => ReleasedInTime
  <2> SUFFICES ASSUME StoreIInv, NEW k \in Keys, NEW e \in conversations[k],
                      e.messages # << >>
               PROVE  now < e.messages[Len(e.messages)].at + TTL + CleanupEvery
    BY DEF ReleasedInTime
  <2>1. e.expires_at = e.messages[Len(e.messages)].at + TTL
    BY DEF StoreIInv, ExpiryFollowsLast
  <2>2. e.expires_at + CleanupEvery > cleanupAt /\ now <= cleanupAt
    BY DEF StoreIInv, NotOverdue, CleanupScheduled
  <2>3. e.expires_at \in Nat /\ now \in Nat /\ cleanupAt \in Nat /\ CleanupEvery \in Nat
    BY StoreAssumption DEF StoreIInv, StoreTypeOK, Entry
  <2> QED
    BY <2>1, <2>2, <2>3
<1> QED
  BY <1>1, StoreInvariant, PTL

=============================================================================
