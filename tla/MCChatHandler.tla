---------------------------- MODULE MCChatHandler ----------------------------
(* Small instances of ChatHandler for TLC. *)
EXTENDS ChatHandler

CONSTANTS alice, bob, group, c1, c2

\* Completion tokens of two answers wrap around, and an answer's price has a
\* rest that is rounded off.
MCUsages == {[prompt_tokens |-> 1, completion_tokens |-> 3]}
=============================================================================
