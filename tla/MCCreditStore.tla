--------------------------- MODULE MCCreditStore ---------------------------
(***************************************************************************)
(* Small instances of CreditStore for TLC: the values of its constants.    *)
(***************************************************************************)
EXTENDS CreditStoreLedger, TLC

CONSTANTS alice, bob, t1, t2, bot, server, d1, d2, c1

MCTxCredits == t1 :> 2 @@ t2 :> 2

OneStore == [w \in Workers |-> server]

\* The deployed program: main.rs gives the message loop an instance of its
\* own, spawn_payment_server gives the HTTP handlers another.
TwoStores == [w \in Workers |-> IF w \in ChargeWorkers THEN bot ELSE server]

Faults(crash, disconnect, io, agent) ==
    "crash" :> crash @@ "disconnect" :> disconnect @@ "io" :> io @@ "agent" :> agent

NoFaults       == Faults(0, 0, 0, 0)
OneCrash       == Faults(1, 0, 0, 0)
CallerFaults   == Faults(2, 1, 1, 1)
AllFaults      == Faults(1, 1, 1, 1)

Symmetry == Permutations({alice, bob})

=============================================================================
