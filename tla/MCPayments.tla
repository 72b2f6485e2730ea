----------------------------- MODULE MCPayments -----------------------------
(* Small instances of Payments for TLC. *)
EXTENDS Payments, TLC

CONSTANTS alice, bob, w1, w2, b1, b2, s1, hb1, hb1up, hb2, hs1

Paying(chn, first, total) ==
    [chain |-> chn, first |-> first, total |-> total, reverted |-> FALSE]

MCTx == b1 :> Paying("base", 2, 3)
            @@ b2 :> [chain |-> "base", first |-> 2, total |-> 2, reverted |-> TRUE]
            @@ s1 :> Paying("solana", 1, 3)

\* hb1up is hb1 with its hexadecimal digits in upper case.
MCTxOf == hb1 :> b1 @@ hb1up :> b1 @@ hb2 :> b2 @@ hs1 :> s1

MCSweepOrder == <<"base", "near", "solana">>
=============================================================================
