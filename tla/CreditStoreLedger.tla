-------------------------- MODULE CreditStoreLedger --------------------------
(***************************************************************************)
(* CreditStore with a single instance, seen through what its callers can   *)
(* observe, is a DurableLedger.                                            *)
(***************************************************************************)
EXTENDS CreditStore

DepositsInMemory == UNION {DepositsIn(mem[s]) : s \in Stores}

DepositsOnDisk == IF main.kind = "data" THEN DepositsIn(main.data) ELSE {}

Ledger == INSTANCE DurableLedger
            WITH granted   <- DepositsInMemory,
                 durable   <- DepositsOnDisk,
                 confirmed <- acked,
                 up        <- running

\* Every execution of the store is one of the ledger: crashes, failed saves
\* and restarts never show the payer anything but grants, whole saves and
\* recoveries of what was saved.  That a recovery comes at all is OpensAgain.
ImplementsLedger == Ledger!Spec
=============================================================================
