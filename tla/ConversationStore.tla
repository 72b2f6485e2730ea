-------------------------- MODULE ConversationStore --------------------------
(***************************************************************************)
(* The in-memory conversation store of                                     *)
(* crates/conversation-store/src/store.rs: histories that expire after a   *)
(* time of inactivity, a background task that removes the expired ones     *)
(* every CleanupEvery units, and readers and writers in between.  Every    *)
(* operation holds the lock from its reading of the clock to its end, so   *)
(* it is one step; the clock moves between steps.                          *)
(*                                                                         *)
(* The cleanup task reads the clock just before it takes the lock.  No     *)
(* operation awaits anything while it holds the lock, so the wait is       *)
(* shorter than the unit of the clock and the two are one step here.       *)
(***************************************************************************)
EXTENDS Conversation

CONSTANTS Keys,          \* conversation keys: a sender or a group
          TTL,           \* config ttl
          CleanupEvery,  \* period of the cleanup task
          MaxTime,       \* bound: the clock stops here
          MaxAdds        \* bound: messages added to each conversation

ASSUME StoreAssumption ==
    /\ TTL \in Nat \ {0}
    /\ CleanupEvery \in Nat \ {0}
    /\ MaxTime \in Nat
    /\ MaxAdds \in Nat

VARIABLES conversations, \* the entry of each key, a set of 0 or 1
          now,
          cleanupAt,     \* when the cleanup task wakes up
          added          \* history: every message added since the entry of a
                         \* key was created

storeVars == <<conversations, now, cleanupAt, added>>

Entry == [messages : Seq(StoredMessage), expires_at : Nat]

StoreInit ==
    /\ conversations = [k \in Keys |-> {}]
    /\ now = 0
    /\ cleanupAt = CleanupEvery
    /\ added = [k \in Keys |-> << >>]

-----------------------------------------------------------------------------
(* Reading: get, to_openai_messages, get_today_messages, message_count. *)

Live(k) == {e \in conversations[k] : e.expires_at > now}

History(k) == IF Live(k) = {} THEN << >> ELSE (CHOOSE e \in Live(k) : TRUE).messages

Stored(k) == IF conversations[k] = {} THEN NewConversation
             ELSE (CHOOSE e \in conversations[k] : TRUE).messages

-----------------------------------------------------------------------------
(* Writing. *)

\* Mutant: activity does not extend the life of a conversation.
AddMessage_NoRefresh(k, m) ==
    /\ Len(added[k]) < MaxAdds
    /\ LET expires == IF conversations[k] = {} THEN now + TTL
                      ELSE (CHOOSE e \in conversations[k] : TRUE).expires_at
       IN  conversations' = [conversations EXCEPT
               ![k] = {[messages |-> Pushed(Stored(k), m), expires_at |-> expires]}]
    /\ added' = [added EXCEPT ![k] = Append(@, m)]
    /\ UNCHANGED <<now, cleanupAt>>

\* add_message and add_message_internal: an entry that is still in the map is
\* extended, expired or not.
AddMessage(k, m) ==
    /\ Len(added[k]) < MaxAdds
    /\ conversations' = [conversations EXCEPT
           ![k] = {[messages   |-> Pushed(Stored(k), m),
                    expires_at |-> now + TTL]}]
    /\ added' = [added EXCEPT ![k] = Append(@, m)]
    /\ UNCHANGED <<now, cleanupAt>>

Clear(k) ==
    /\ conversations' = [conversations EXCEPT ![k] = {}]
    /\ added' = [added EXCEPT ![k] = << >>]
    /\ UNCHANGED <<now, cleanupAt>>

\* Mutant: nothing is ever removed.
Retained_Always(e) == TRUE

Retained(e) == e.expires_at > now

Cleanup ==
    /\ now = cleanupAt
    /\ conversations' = [k \in Keys |-> {e \in conversations[k] : Retained(e)}]
    /\ added' = [k \in Keys |-> IF conversations'[k] = {} THEN << >> ELSE added[k]]
    /\ cleanupAt' = now + CleanupEvery
    /\ UNCHANGED now

Tick ==
    /\ now < cleanupAt
    /\ now < MaxTime
    /\ now' = now + 1
    /\ UNCHANGED <<conversations, cleanupAt, added>>

-----------------------------------------------------------------------------
(* The store on its own, with callers that add whatever messages they like. *)

NewMessages == {Text("user", now), Text("assistant", now)}
                   \cup {ToolCalls(ids, now) : ids \in (SUBSET CallIds) \ {{}}}
                   \cup {ToolResult(id, now) : id \in CallIds}

StoreNext ==
    \/ \E k \in Keys : (\E m \in NewMessages : AddMessage(k, m)) \/ Clear(k)
    \/ Cleanup
    \/ Tick

StoreSpec == StoreInit /\ [][StoreNext]_storeVars

-----------------------------------------------------------------------------
(* Properties. *)

StoreTypeOK ==
    /\ \A k \in Keys : \A e \in conversations[k] :
          /\ e \in Entry
          /\ conversations[k] = {e}
    /\ DOMAIN conversations = Keys
    /\ now \in Nat
    /\ cleanupAt \in Nat
    /\ added \in [Keys -> Seq(StoredMessage)]

\* "Trim to max messages, keeping most recent": a history is exactly the last
\* MaxMessages messages that were added since it was created, in order,
\* whichever of the three operations added them and whenever it was trimmed.
HistoryIsTail ==
    \A k \in Keys : Stored(k) = LastN(added[k], MaxMessages)

\* A conversation is never shown or extended across a silence longer than the
\* TTL and one cleanup period: what the model sees together was said together.
NoLongSilence ==
    \A k \in Keys : \A i \in 1 .. Len(Stored(k)) - 1 :
        Stored(k)[i + 1].at - Stored(k)[i].at < TTL + CleanupEvery

\* A conversation with activity within the TTL is not lost: only clearing it
\* empties it earlier.  In particular neither the cleanup task, working on
\* the whole map, nor another conversation's traffic takes it away.
ActiveIsKept ==
    [][\A k \in Keys :
          (/\ Stored(k) # << >>
           /\ now' < Stored(k)[Len(Stored(k))].at + TTL
           /\ ~Clear(k))
          => History(k)' # << >>]_storeVars

\* The memory of a conversation nobody writes to is held for less than the TTL
\* and one cleanup period after its last message.
ReleasedInTime ==
    \A k \in Keys : \A e \in conversations[k] :
        e.messages # << >> => now < e.messages[Len(e.messages)].at + TTL + CleanupEvery
=============================================================================
