---------------------------- MODULE CreditBalance ----------------------------
(***************************************************************************)
(* One user's prepaid credit balance: the arithmetic of CreditBalance in   *)
(* crates/x402-payments/src/types.rs.  The code counts in u64 with         *)
(* saturating additions; MaxCredits stands for u64::MAX.  The three        *)
(* timestamps of the record are left out: nothing reads them back.         *)
(***************************************************************************)
EXTENDS Naturals

CONSTANT MaxCredits    \* the largest representable number of credits

ASSUME MaxCreditsAssumption == MaxCredits \in Nat

Credits == 0 .. MaxCredits

Balance == [credits_remaining : Credits,
            total_deposited   : Credits,
            total_consumed    : Credits]

NewBalance == [credits_remaining |-> 0,
               total_deposited   |-> 0,
               total_consumed    |-> 0]

\* Mutant: additions that do not saturate.
SaturatingAdd_Unbounded(a, b) == a + b

SaturatingAdd(a, b) == IF a + b > MaxCredits THEN MaxCredits ELSE a + b

\* Mutant: the lifetime total wraps around where the balance saturates.
AddCreditsTo_WrappingTotal(b, amount) ==
    [credits_remaining |-> SaturatingAdd(b.credits_remaining, amount),
     total_deposited   |-> (b.total_deposited + amount) % (MaxCredits + 1),
     total_consumed    |-> b.total_consumed]

AddCreditsTo(b, amount) ==
    [credits_remaining |-> SaturatingAdd(b.credits_remaining, amount),
     total_deposited   |-> SaturatingAdd(b.total_deposited, amount),
     total_consumed    |-> b.total_consumed]

HasCredits(b, amount) == b.credits_remaining >= amount

\* A refused deduction leaves the balance as it was.
DeductCreditsFrom(b, amount) ==
    IF HasCredits(b, amount)
    THEN [credits_remaining |-> b.credits_remaining - amount,
          total_deposited   |-> b.total_deposited,
          total_consumed    |-> SaturatingAdd(b.total_consumed, amount)]
    ELSE b

-----------------------------------------------------------------------------
(* Nobody can hold more credits than were ever deposited, and deposited    *)
(* credits are either still there or accounted for as consumed.  The       *)
(* relation is an equality until one of the counters saturates             *)
(* (BalanceExact); BalanceSound is the part of it that survives.           *)
BalanceSound(b) ==
    /\ b.credits_remaining <= b.total_deposited
    /\ b.total_deposited <= b.credits_remaining + b.total_consumed

BalanceExact(b) ==
    b.total_deposited < MaxCredits =>
        b.credits_remaining = b.total_deposited - b.total_consumed
=============================================================================
