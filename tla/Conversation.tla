---------------------------- MODULE Conversation ----------------------------
(***************************************************************************)
(* One conversation's history: Conversation and StoredMessage of           *)
(* crates/conversation-store/src/types.rs.  Text is abstracted; a message  *)
(* is its role, the tool calls it makes or answers, and when it was added. *)
(***************************************************************************)
EXTENDS Naturals, Sequences

CONSTANTS CallIds,       \* tool call identifiers, chosen by the model
          MaxMessages    \* config max_messages

ASSUME MaxMessagesAssumption == MaxMessages \in Nat

Roles == {"user", "assistant", "tool"}

StoredMessage == [role : Roles, calls : SUBSET CallIds, at : Nat]

Text(role, at)     == [role |-> role, calls |-> {}, at |-> at]
ToolCalls(ids, at) == [role |-> "assistant", calls |-> ids, at |-> at]
ToolResult(id, at) == [role |-> "tool", calls |-> {id}, at |-> at]

NewConversation == << >>

LastN(s, n) == IF Len(s) > n THEN SubSeq(s, Len(s) - n + 1, Len(s)) ELSE s

\* Mutant: one message too many survives.
Trim_OffByOne(s) == LastN(s, MaxMessages + 1)

\* Mutant: the oldest messages are kept.
Trim_KeepingOldest(s) == IF Len(s) > MaxMessages THEN SubSeq(s, 1, MaxMessages) ELSE s

Trim(s) == LastN(s, MaxMessages)

Pushed(s, m) == Trim(Append(s, m))

-----------------------------------------------------------------------------
(* Tool calls and their results in a history.  A chat-completion endpoint  *)
(* wants each call answered and each result after its call.                *)

Requests(s, i, id) == s[i].role = "assistant" /\ id \in s[i].calls
Answers(s, i, id)  == s[i].role = "tool" /\ id \in s[i].calls

\* Every tool call is followed by its result.
CallsAnswered(s) ==
    \A i \in DOMAIN s, id \in CallIds :
        Requests(s, i, id) => \E j \in DOMAIN s : i < j /\ Answers(s, j, id)

\* A result whose call has been trimmed away.
Orphan(s, j) ==
    \E id \in CallIds : Answers(s, j, id) /\ ~\E i \in 1 .. j - 1 : Requests(s, i, id)
=============================================================================
