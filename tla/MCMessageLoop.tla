--------------------------- MODULE MCMessageLoop ---------------------------
(* A small instance of MessageLoop for TLC. *)
EXTENDS MessageLoop

CONSTANTS a1, a2, ann

MCMembers == [r \in Groups \cup Bilingual |-> Accounts]
MCTexts == {k \in Kind : k.sort # "receipt"}
MCDeadly == {k \in Kind : k.sort = "plain" /\ k.wide}

Say(sort, room, lang, mention, wide) ==
    [sort |-> sort, room |-> room, from |-> ann, lang |-> lang, mention |-> mention,
     wide |-> wide]

MCSpoken ==
    {Say("plain", "bilingual", "a", FALSE, FALSE), Say("plain", "bilingual", "b", TRUE, TRUE),
     Say("command", "bilingual", "unclear", FALSE, FALSE),
     Say("plain", "group", "unclear", FALSE, FALSE), Say("receipt", Direct, "unclear", FALSE, FALSE)}

\* What the loop writes is neutral, or mentions the bot and has a wide character.
MCWritten ==
    {k \in Kind : /\ k.sort = "plain" /\ k.from \in Accounts
                  /\ \/ k.lang = "a" /\ ~k.mention /\ ~k.wide
                     \/ k.lang = "b" /\ k.mention /\ k.wide}
=============================================================================
