------------------------- MODULE CreditBalanceProofs -------------------------
(***************************************************************************)
(* Machine-checked lemmas about the arithmetic of one balance, for every   *)
(* width of the counters.                                                  *)
(***************************************************************************)
EXTENDS CreditBalance, TLAPS

\* Saturating addition stays within u64 and never loses anything below the cap.
LEMMA SaturatingAddFacts ==
    ASSUME NEW a \in Credits, NEW b \in Credits
    PROVE  /\ SaturatingAdd(a, b) \in Credits
           /\ SaturatingAdd(a, b) = a + b \/ SaturatingAdd(a, b) = MaxCredits
           /\ SaturatingAdd(a, b) >= a
BY MaxCreditsAssumption DEF SaturatingAdd, Credits

\* The balance of a user nobody has credited.
LEMMA NewBalanceFacts == NewBalance \in Balance /\ BalanceSound(NewBalance)
BY MaxCreditsAssumption DEF NewBalance, Balance, Credits, BalanceSound

\* A deposit leaves a sound balance sound.
LEMMA AddCreditsToFacts ==
    ASSUME NEW b \in Balance, NEW amount \in Credits
    PROVE  /\ AddCreditsTo(b, amount) \in Balance
           /\ BalanceSound(b) => BalanceSound(AddCreditsTo(b, amount))
<1> DEFINE r == b.credits_remaining
           t == b.total_deposited
           k == b.total_consumed
<1>1. r \in Credits /\ t \in Credits /\ k \in Credits
  BY DEF Balance
<1>2. AddCreditsTo(b, amount) = [credits_remaining |-> SaturatingAdd(r, amount),
                                 total_deposited   |-> SaturatingAdd(t, amount),
                                 total_consumed    |-> k]
  BY DEF AddCreditsTo
<1>3. SaturatingAdd(r, amount) \in Credits /\ SaturatingAdd(t, amount) \in Credits
  BY <1>1, SaturatingAddFacts
<1>4. AddCreditsTo(b, amount) \in Balance
  BY <1>1, <1>2, <1>3 DEF Balance
<1>5. ASSUME BalanceSound(b)
      PROVE  BalanceSound(AddCreditsTo(b, amount))
  <2>1. r <= t /\ t <= r + k
    BY <1>5 DEF BalanceSound
  <2>2. SaturatingAdd(r, amount) <= SaturatingAdd(t, amount)
    BY <1>1, <2>1, MaxCreditsAssumption DEF SaturatingAdd, Credits
  <2>3. SaturatingAdd(t, amount) <= SaturatingAdd(r, amount) + k
    BY <1>1, <2>1, MaxCreditsAssumption DEF SaturatingAdd, Credits
  <2> QED
    BY <1>2, <2>2, <2>3 DEF BalanceSound
<1> QED
  BY <1>4, <1>5

\* A deduction, granted or refused, leaves a sound balance sound.
LEMMA DeductCreditsFromFacts ==
    ASSUME NEW b \in Balance, NEW amount \in Credits
    PROVE  /\ DeductCreditsFrom(b, amount) \in Balance
           /\ BalanceSound(b) => BalanceSound(DeductCreditsFrom(b, amount))
<1> DEFINE r == b.credits_remaining
           t == b.total_deposited
           k == b.total_consumed
<1>1. r \in Credits /\ t \in Credits /\ k \in Credits
  BY DEF Balance
<1>2. CASE ~HasCredits(b, amount)
  BY <1>2 DEF DeductCreditsFrom
<1>3. CASE HasCredits(b, amount)
  <2>1. DeductCreditsFrom(b, amount) =
            [credits_remaining |-> r - amount,
             total_deposited   |-> t,
             total_consumed    |-> SaturatingAdd(k, amount)]
    BY <1>3 DEF DeductCreditsFrom, Balance
  <2>2. r - amount \in Credits
    BY <1>1, <1>3, MaxCreditsAssumption DEF HasCredits, Credits
  <2>3. SaturatingAdd(k, amount) \in Credits
    BY <1>1, SaturatingAddFacts
  <2>4. DeductCreditsFrom(b, amount) \in Balance
    BY <1>1, <2>1, <2>2, <2>3 DEF Balance
  <2>5. ASSUME BalanceSound(b)
        PROVE  BalanceSound(DeductCreditsFrom(b, amount))
    <3>1. r <= t /\ t <= r + k
      BY <2>5 DEF BalanceSound
    <3>2. r - amount <= t /\ t <= (r - amount) + SaturatingAdd(k, amount)
      BY <1>1, <1>3, <3>1, MaxCreditsAssumption
         DEF SaturatingAdd, Credits, HasCredits
    <3> QED
      BY <2>1, <3>2 DEF BalanceSound
  <2> QED
    BY <2>4, <2>5
<1> QED
  BY <1>2, <1>3

\* Until the deposits saturate, every credit is either there or consumed.
LEMMA ExactFacts ==
    ASSUME NEW b \in Balance, BalanceExact(b), NEW amount \in Credits
    PROVE  /\ BalanceExact(AddCreditsTo(b, amount))
           /\ BalanceExact(DeductCreditsFrom(b, amount))
<1> DEFINE r == b.credits_remaining
           t == b.total_deposited
           k == b.total_consumed
<1>1. r \in Credits /\ t \in Credits /\ k \in Credits
  BY DEF Balance
<1>2. t < MaxCredits => r = t - k
  BY DEF BalanceExact
<1>3. ASSUME SaturatingAdd(t, amount) < MaxCredits
      PROVE  SaturatingAdd(r, amount) = SaturatingAdd(t, amount) - k
  BY <1>1, <1>2, <1>3, MaxCreditsAssumption DEF SaturatingAdd, Credits
<1>4. BalanceExact(AddCreditsTo(b, amount))
  BY <1>3 DEF BalanceExact, AddCreditsTo
<1>5. CASE HasCredits(b, amount)
  <2>1. ASSUME t < MaxCredits
        PROVE  r - amount = t - SaturatingAdd(k, amount)
    BY <1>1, <1>2, <1>5, <2>1, MaxCreditsAssumption DEF SaturatingAdd, Credits, HasCredits
  <2> QED
    BY <1>4, <1>5, <2>1 DEF BalanceExact, DeductCreditsFrom
<1>6. CASE ~HasCredits(b, amount)
  BY <1>4, <1>6 DEF DeductCreditsFrom
<1> QED
  BY <1>4, <1>5, <1>6

LEMMA NewBalanceExact == BalanceExact(NewBalance)
BY DEF BalanceExact, NewBalance

=============================================================================
