---------------------------- MODULE MCNegotiation ----------------------------
(* Small instances of Negotiation for TLC: each person has a UUID and a    *)
(* phone number, and messages name their sender in one of four ways.       *)
EXTENDS NegotiationBargain

CONSTANTS alice, bob, carol

MCIdentities == People \X {"uuid", "number"}
MCNumbers    == People \X {"number"}
MCPersonOf   == [i \in MCIdentities |-> i[1]]

From(p, source, shown) ==
    [source |-> <<p, source>>, number |-> IF shown THEN {<<p, "number">>} ELSE {}]

\* Sources as the receiver's tests have them: phone numbers.
ByNumber == {From(p, "number", shown) : p \in People, shown \in BOOLEAN}

\* Sources as the comments describe them: UUIDs.
ByUuid == {From(p, "uuid", shown) : p \in People, shown \in BOOLEAN}

\* The parties' names vary, an outsider's does not.
AnyName == {s \in ByNumber \cup ByUuid : s.source[1] # carol} \cup {From(carol, "uuid", TRUE)}
=============================================================================
