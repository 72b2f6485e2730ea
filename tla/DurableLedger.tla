---------------------------- MODULE DurableLedger ----------------------------
(***************************************************************************)
(* What the credit store promises the payer of a deposit, without locks,   *)
(* snapshots, temporary files or several copies of the data: deposits are  *)
(* granted in memory, saved all at once, and confirmed only when saved; a  *)
(* crash forgets what was granted and not saved, nothing else.             *)
(***************************************************************************)
EXTENDS Naturals

CONSTANT Deposit       \* records with a field tx, the transaction paid by

VARIABLES granted,     \* deposits the running program counts
          durable,     \* deposits that survive a crash
          confirmed,   \* deposits whose payer was told so
          up           \* the program runs

vars == <<granted, durable, confirmed, up>>

Init ==
    /\ granted = {}
    /\ durable = {}
    /\ confirmed = {}
    /\ up = TRUE

\* A transaction is granted to one user, once.
Grant(dep) ==
    /\ up
    /\ \A g \in granted : g.tx # dep.tx
    /\ granted' = granted \cup {dep}
    /\ UNCHANGED <<durable, confirmed, up>>

\* A save makes everything granted so far durable; the request it was made
\* for, if any, is confirmed by the same step.
Save ==
    /\ up
    /\ durable' = granted
    /\ \/ UNCHANGED confirmed
       \/ \E dep \in granted : confirmed' = confirmed \cup {dep}
    /\ UNCHANGED <<granted, up>>

Crash ==
    /\ up
    /\ up' = FALSE
    /\ granted' = {}
    /\ UNCHANGED <<durable, confirmed>>

Recover ==
    /\ ~up
    /\ up' = TRUE
    /\ granted' = durable
    /\ UNCHANGED <<durable, confirmed>>

Next == (\E dep \in Deposit : Grant(dep)) \/ Save \/ Crash \/ Recover

Spec == Init /\ [][Next]_vars

-----------------------------------------------------------------------------
\* The promise itself.
ConfirmedIsDurable == confirmed \subseteq durable
DurableIsGranted   == up => durable \subseteq granted
GrantedOnce        == \A g, h \in granted \cup durable : g.tx = h.tx => g = h
=============================================================================
