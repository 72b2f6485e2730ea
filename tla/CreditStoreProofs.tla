-------------------------- MODULE CreditStoreProofs --------------------------
(***************************************************************************)
(* Machine-checked proofs about CreditStore, for every set of users,       *)
(* transactions, stores and workers and every value of the bounds.         *)
(*                                                                         *)
(* The argument: a property of CreditStoreData that FreshData has and that *)
(* WithDeposit, WithUsage and WithCharge preserve holds of every copy of   *)
(* the data, because the other steps only move copies around.              *)
(***************************************************************************)
EXTENDS CreditStoreLedger, CreditBalanceProofs, WellFoundedInduction

-----------------------------------------------------------------------------
(* Induction, from the well-foundedness of the natural numbers. *)

\* A set of natural numbers that is not empty has a least element.
LEMMA LeastNatural ==
    ASSUME NEW T, T \subseteq Nat, T # {}
    PROVE  \E x \in T : \A y \in T : x <= y
<1> DEFINE R == OpToRel(<, Nat)
<1>1. IsWellFoundedOn(R, Nat)
  BY NatLessThanWellFounded
<1>2. \A x, y \in Nat : <<y, x>> \in R <=> y < x
  BY DEF OpToRel
<1> HIDE DEF R
<1>3. PICK x \in T : \A y \in T : ~(<<y, x>> \in R)
  BY <1>1, WFMin
<1>4. ASSUME NEW y \in T PROVE x <= y
  <2>1. x \in Nat /\ y \in Nat
    OBVIOUS
  <2>2. ~(y < x)
    BY <1>2, <1>3, <2>1
  <2> QED
    BY <2>1, <2>2
<1> QED
  BY <1>4

\* A set that holds 0 and with every number the next one holds all of them.
LEMMA InductiveSet ==
    ASSUME NEW S, 0 \in S, \A n \in Nat : n \in S => n + 1 \in S
    PROVE  Nat \subseteq S
<1> SUFFICES ASSUME Nat \ S # {} PROVE FALSE
  OBVIOUS
<1>1. PICK x \in Nat \ S : \A y \in Nat \ S : x <= y
  BY LeastNatural
<1>2. x # 0 /\ x - 1 \in Nat
  BY <1>1
<1>3. x - 1 \in S
  BY <1>1, <1>2
<1> QED
  BY <1>1, <1>2, <1>3

-----------------------------------------------------------------------------
(* Sums over a log. *)

\* f holds the sums of the first 0, 1, .., n entries of a log.
IsTally(f, u, log, n) ==
    f = [i \in 0 .. n |->
            IF i = 0 THEN 0
            ELSE IF log[i].user = u THEN SaturatingAdd(f[i - 1], log[i].credits)
                 ELSE f[i - 1]]

LEMMA TallyExists ==
    ASSUME NEW u, NEW log, NEW n \in Nat
    PROVE  \E f : IsTally(f, u, log, n)
<1> DEFINE S == {k \in Nat : \E f : IsTally(f, u, log, k)}
<1>1. 0 \in S
  <2>1. IsTally([i \in 0 .. 0 |-> 0], u, log, 0)
    BY DEF IsTally
  <2> QED
    BY <2>1
<1>2. ASSUME NEW k \in Nat, k \in S PROVE k + 1 \in S
  <2>1. PICK f : IsTally(f, u, log, k)
    BY <1>2
  <2> DEFINE next == IF log[k + 1].user = u THEN SaturatingAdd(f[k], log[k + 1].credits)
                     ELSE f[k]
             g == [i \in 0 .. k + 1 |-> IF i = k + 1 THEN next ELSE f[i]]
  <2>2. /\ DOMAIN g = 0 .. k + 1 /\ g[k + 1] = next
        /\ \A i \in 0 .. k : g[i] = f[i]
    OBVIOUS
  <2>3. \A i \in 0 .. k :
            f[i] = IF i = 0 THEN 0
                   ELSE IF log[i].user = u THEN SaturatingAdd(f[i - 1], log[i].credits)
                        ELSE f[i - 1]
    BY <2>1 DEF IsTally
  <2>4. ASSUME NEW i \in 0 .. k + 1
        PROVE  g[i] = IF i = 0 THEN 0
                      ELSE IF log[i].user = u THEN SaturatingAdd(g[i - 1], log[i].credits)
                           ELSE g[i - 1]
    <3> HIDE DEF g
    <3>1. CASE i = k + 1
      <4>1. i # 0 /\ i - 1 = k /\ k \in 0 .. k
        BY <3>1
      <4>2. g[i - 1] = f[k]
        BY <2>2, <4>1
      <4> QED
        BY <2>2, <3>1, <4>1, <4>2
    <3>2. CASE i # k + 1
      <4>1. i \in 0 .. k
        BY <3>2
      <4>2. CASE i = 0
        BY <2>2, <2>3, <4>1, <4>2
      <4>3. CASE i # 0
        <5>1. i - 1 \in 0 .. k
          BY <4>1, <4>3
        <5> QED
          BY <2>2, <2>3, <4>1, <4>3, <5>1
      <4> QED
        BY <4>2, <4>3
    <3> QED
      BY <3>1, <3>2
  <2>5. g = [i \in 0 .. k + 1 |-> g[i]]
    OBVIOUS
  <2> HIDE DEF g
  <2>6. IsTally(g, u, log, k + 1)
    BY <2>4, <2>5 DEF IsTally
  <2> QED
    BY <2>6
<1> HIDE DEF S
<1>3. Nat \subseteq S
  BY <1>1, <1>2, InductiveSet
<1> QED
  BY <1>3 DEF S

SameUpTo(n, log, more) == \A i \in 1 .. n : more[i] = log[i]

\* The sums of a log and of one that continues it agree.
LEMMA TalliesAgree ==
    ASSUME NEW u, NEW n \in Nat, NEW m \in Nat, n <= m,
           NEW log, NEW more, SameUpTo(n, log, more),
           NEW f, NEW g, IsTally(f, u, log, n), IsTally(g, u, more, m),
           NEW k \in 0 .. n
    PROVE  g[k] = f[k]
<1> DEFINE S == {i \in Nat : i <= n => g[i] = f[i]}
<1>1. \A i \in 0 .. n :
          f[i] = IF i = 0 THEN 0
                 ELSE IF log[i].user = u THEN SaturatingAdd(f[i - 1], log[i].credits)
                      ELSE f[i - 1]
  BY DEF IsTally
<1>2. \A i \in 0 .. m :
          g[i] = IF i = 0 THEN 0
                 ELSE IF more[i].user = u THEN SaturatingAdd(g[i - 1], more[i].credits)
                      ELSE g[i - 1]
  BY DEF IsTally
<1>3. 0 \in S
  BY <1>1, <1>2
<1>4. ASSUME NEW i \in Nat, i \in S PROVE i + 1 \in S
  <2> SUFFICES ASSUME i + 1 <= n PROVE g[i + 1] = f[i + 1]
    OBVIOUS
  <2>1. /\ i + 1 \in 0 .. n /\ i + 1 \in 0 .. m /\ i + 1 \in 1 .. n
        /\ i + 1 # 0 /\ (i + 1) - 1 = i
    OBVIOUS
  <2>2. g[i] = f[i]
    BY <1>4
  <2> QED
    BY <1>1, <1>2, <2>1, <2>2 DEF SameUpTo
<1> HIDE DEF S
<1>5. Nat \subseteq S
  BY <1>3, <1>4, InductiveSet
<1> QED
  BY <1>5 DEF S

\* The recursion defines the sum.
LEMMA SumOfTally ==
    ASSUME NEW u, NEW log, Len(log) \in Nat
    PROVE  \E f : IsTally(f, u, log, Len(log)) /\ SumOf(u, log) = f[Len(log)]
<1> DEFINE f == CHOOSE f : IsTally(f, u, log, Len(log))
<1>1. IsTally(f, u, log, Len(log))
  BY TallyExists
<1>2. SumOf(u, log) = f[Len(log)]
  BY DEF SumOf, IsTally
<1> QED
  BY <1>1, <1>2

LEMMA SumOfEmpty == ASSUME NEW u PROVE SumOf(u, << >>) = 0
<1>1. Len(<< >>) = 0
  OBVIOUS
<1>2. PICK f : IsTally(f, u, << >>, 0) /\ SumOf(u, << >>) = f[0]
  BY <1>1, SumOfTally
<1> QED
  BY <1>2 DEF IsTally

LEMMA SumOfAppend ==
    ASSUME NEW R, NEW log \in Seq(R), NEW r \in R, NEW u
    PROVE  SumOf(u, Append(log, r))
               = IF r.user = u THEN SaturatingAdd(SumOf(u, log), r.credits)
                 ELSE SumOf(u, log)
<1> DEFINE more == Append(log, r)
           n == Len(log)
<1>1. /\ n \in Nat /\ Len(more) = n + 1 /\ more[n + 1] = r
      /\ \A i \in 1 .. n : more[i] = log[i]
  OBVIOUS
<1>2. PICK f : IsTally(f, u, log, n) /\ SumOf(u, log) = f[n]
  BY <1>1, SumOfTally
<1> HIDE DEF more, n
<1>3. PICK g : IsTally(g, u, more, n + 1) /\ SumOf(u, more) = g[n + 1]
  BY <1>1, SumOfTally
<1>4. g[n] = f[n]
  <2>1. n \in Nat /\ n + 1 \in Nat /\ n <= n + 1 /\ n \in 0 .. n
    BY <1>1
  <2>2. SameUpTo(n, log, more)
    BY <1>1 DEF SameUpTo
  <2>3. IsTally(f, u, log, n) /\ IsTally(g, u, more, n + 1)
    BY <1>2, <1>3
  <2> QED
    BY <2>1, <2>2, <2>3, TalliesAgree
<1>5. g[n + 1] = IF more[n + 1].user = u THEN SaturatingAdd(g[n], more[n + 1].credits)
                 ELSE g[n]
  <2>1. n + 1 \in 0 .. n + 1 /\ n + 1 # 0 /\ (n + 1) - 1 = n
    BY <1>1
  <2> QED
    BY <1>3, <2>1 DEF IsTally
<1> QED
  BY <1>1, <1>2, <1>3, <1>4, <1>5 DEF more, n

-----------------------------------------------------------------------------
(* One copy of the data. *)

\* What CreditedOnce and BalancesSound say of a copy.
DataSound(d) ==
    /\ NoTxTwice(d)
    /\ d.processed = {dep.tx : dep \in DepositsIn(d)}
    /\ \A u \in Users : /\ BalanceSound(d.balances[u])
                        /\ u \notin d.users => d.balances[u] = NewBalance

SoundData == {d \in CreditStoreData : DataSound(d)}

LEMMA FreshDataSound == FreshData \in SoundData
<1>1. FreshData \in CreditStoreData
  BY NewBalanceFacts DEF FreshData, CreditStoreData
<1>2. DepositsIn(FreshData) = {} /\ NoTxTwice(FreshData)
  BY DEF FreshData, DepositsIn, NoTxTwice
<1>3. FreshData.processed = {} /\ \A u \in Users : FreshData.balances[u] = NewBalance
  BY DEF FreshData
<1>4. DataSound(FreshData)
  BY <1>2, <1>3, NewBalanceFacts DEF DataSound
<1> QED
  BY <1>1, <1>4 DEF SoundData

\* add_credits, past the duplicate check: the new transaction is in no older
\* deposit, because processed holds exactly the transactions of those.
LEMMA WithDepositSound ==
    ASSUME NEW d \in SoundData, NEW dep \in Deposit, dep.tx \notin d.processed
    PROVE  WithDeposit(d, dep) \in SoundData
<1> DEFINE e == WithDeposit(d, dep)
<1>1. d \in CreditStoreData /\ DataSound(d)
  BY DEF SoundData
<1>2. /\ d.users \subseteq Users
      /\ d.balances \in [Users -> Balance]
      /\ d.deposits \in Seq(Deposit)
      /\ d.usage_log \in Seq(UsageRecord)
      /\ d.processed \subseteq Txs
  BY <1>1 DEF CreditStoreData
<1>3. dep.user \in Users /\ dep.tx \in Txs /\ dep.credits \in Credits
  BY DEF Deposit
<1>4. e = [users     |-> d.users \cup {dep.user},
           balances  |-> [d.balances EXCEPT ![dep.user] = AddCreditsTo(@, dep.credits)],
           deposits  |-> Append(d.deposits, dep),
           usage_log |-> d.usage_log,
           processed |-> d.processed \cup {dep.tx}]
  BY DEF WithDeposit
<1> HIDE DEF e
<1>5. ASSUME NEW u \in Users
      PROVE  e.balances[u] = IF u = dep.user THEN AddCreditsTo(d.balances[u], dep.credits)
                                             ELSE d.balances[u]
  BY <1>2, <1>3, <1>4
<1>6. \A u \in Users : e.balances[u] \in Balance
  BY <1>2, <1>3, <1>5, AddCreditsToFacts
<1>7. e \in CreditStoreData
  <2>1. e.balances \in [Users -> Balance]
    BY <1>2, <1>4, <1>6
  <2>2. Append(d.deposits, dep) \in Seq(Deposit)
    BY <1>2
  <2> QED
    BY <1>2, <1>3, <1>4, <2>1, <2>2 DEF CreditStoreData
<1>8. /\ DOMAIN e.deposits = 1 .. Len(d.deposits) + 1
      /\ \A i \in 1 .. Len(d.deposits) : e.deposits[i] = d.deposits[i]
      /\ e.deposits[Len(d.deposits) + 1] = dep
      /\ DOMAIN d.deposits = 1 .. Len(d.deposits)
      /\ Len(d.deposits) \in Nat
  BY <1>2, <1>4
<1>9. \A i \in 1 .. Len(d.deposits) : d.deposits[i].tx # dep.tx
  BY <1>1, <1>8 DEF DataSound, DepositsIn
<1>10. NoTxTwice(e)
  <2> SUFFICES ASSUME NEW i \in DOMAIN e.deposits, NEW j \in DOMAIN e.deposits,
                      e.deposits[i].tx = e.deposits[j].tx
               PROVE  i = j
    BY DEF NoTxTwice
  <2>1. CASE i \in 1 .. Len(d.deposits) /\ j \in 1 .. Len(d.deposits)
    <3>1. d.deposits[i].tx = d.deposits[j].tx
      BY <1>8, <2>1
    <3> QED
      BY <1>1, <1>8, <2>1, <3>1 DEF NoTxTwice, DataSound
  <2>2. CASE i = Len(d.deposits) + 1 /\ j \in 1 .. Len(d.deposits)
    BY <1>8, <1>9, <2>2
  <2>3. CASE i \in 1 .. Len(d.deposits) /\ j = Len(d.deposits) + 1
    BY <1>8, <1>9, <2>3
  <2>4. CASE i = Len(d.deposits) + 1 /\ j = Len(d.deposits) + 1
    BY <2>4
  <2> QED
    BY <1>8, <2>1, <2>2, <2>3, <2>4
<1>11. e.processed = {x.tx : x \in DepositsIn(e)}
  <2>1. DepositsIn(e) = DepositsIn(d) \cup {dep}
    BY <1>8 DEF DepositsIn
  <2>2. d.processed = {x.tx : x \in DepositsIn(d)}
    BY <1>1 DEF DataSound
  <2> QED
    BY <1>4, <2>1, <2>2
<1>12. \A u \in Users : /\ BalanceSound(e.balances[u])
                        /\ u \notin e.users => e.balances[u] = NewBalance
  BY <1>1, <1>2, <1>3, <1>4, <1>5, AddCreditsToFacts DEF DataSound
<1> QED
  BY <1>7, <1>10, <1>11, <1>12 DEF SoundData, DataSound, e

\* The usage log is not consulted by anything the program decides.
LEMMA WithUsageSound ==
    ASSUME NEW d \in SoundData, NEW u \in Users, NEW c \in Credits
    PROVE  WithUsage(d, u, c) \in SoundData
<1>1. d \in CreditStoreData /\ DataSound(d)
  BY DEF SoundData
<1> DEFINE log == Append(d.usage_log, [user |-> u, credits |-> c])
           e == WithUsage(d, u, c)
<1>2. log \in Seq(UsageRecord)
  BY <1>1 DEF CreditStoreData, UsageRecord
<1>3. e = [d EXCEPT !.usage_log = log]
  BY DEF WithUsage
<1> HIDE DEF log, e
<1>4. e = [users     |-> d.users,
           balances  |-> d.balances,
           deposits  |-> d.deposits,
           usage_log |-> log,
           processed |-> d.processed]
  BY <1>1, <1>3 DEF CreditStoreData
<1>5. e \in CreditStoreData
  BY <1>1, <1>2, <1>4 DEF CreditStoreData
<1>6. DataSound(e)
  BY <1>1, <1>4 DEF DataSound, NoTxTwice, DepositsIn
<1> QED
  BY <1>5, <1>6 DEF SoundData, e

\* deduct_credits of a user who has an account.
LEMMA WithChargeSound ==
    ASSUME NEW d \in SoundData, NEW u \in d.users, NEW c \in Credits
    PROVE  WithCharge(d, u, c) \in SoundData
<1>1. d \in CreditStoreData /\ DataSound(d) /\ u \in Users
  BY DEF SoundData, CreditStoreData
<1> DEFINE f == WithUsage(d, u, c)
           e == WithCharge(d, u, c)
<1>2. f \in SoundData /\ f.users = d.users /\ f.balances = d.balances
  BY <1>1, WithUsageSound DEF WithUsage, CreditStoreData
<1>3. f \in CreditStoreData /\ DataSound(f)
  BY <1>2 DEF SoundData
<1> HIDE DEF f
<1>4. f = [users |-> f.users, balances |-> f.balances, deposits |-> f.deposits,
           usage_log |-> f.usage_log, processed |-> f.processed]
  BY <1>3 DEF CreditStoreData
<1> DEFINE bals == [d.balances EXCEPT ![u] = DeductCreditsFrom(@, c)]
<1>0. e = [f EXCEPT !.balances = bals]
  BY DEF WithCharge, f
<1> HIDE DEF e
<1>5. e = [users     |-> f.users,
           balances  |-> bals,
           deposits  |-> f.deposits,
           usage_log |-> f.usage_log,
           processed |-> f.processed]
  <2> HIDE DEF bals
  <2> QED
    BY <1>0, <1>4
<1>6. ASSUME NEW v \in Users
      PROVE  e.balances[v] = IF v = u THEN DeductCreditsFrom(f.balances[v], c)
                                      ELSE f.balances[v]
  BY <1>1, <1>2, <1>3, <1>5 DEF CreditStoreData
<1>7. \A v \in Users : e.balances[v] \in Balance
  BY <1>1, <1>3, <1>6, DeductCreditsFromFacts DEF CreditStoreData
<1>8. e \in CreditStoreData
  <2>1. e.balances \in [Users -> Balance]
    BY <1>1, <1>5, <1>7 DEF CreditStoreData
  <2> QED
    BY <1>3, <1>5, <2>1 DEF CreditStoreData
<1>9. \A v \in Users : /\ BalanceSound(e.balances[v])
                       /\ v \notin e.users => e.balances[v] = NewBalance
  BY <1>1, <1>2, <1>3, <1>5, <1>6, DeductCreditsFromFacts DEF DataSound, CreditStoreData
<1>10. NoTxTwice(e) /\ e.processed = {x.tx : x \in DepositsIn(e)}
  BY <1>3, <1>5 DEF DataSound, NoTxTwice, DepositsIn
<1> QED
  BY <1>8, <1>9, <1>10 DEF SoundData, DataSound, e

-----------------------------------------------------------------------------
(* The logs of one copy. *)

GoodData == {d \in SoundData : Audited(d)}

LEMMA GoodDataFacts ==
    ASSUME NEW d \in GoodData
    PROVE  d \in SoundData /\ d \in CreditStoreData /\ DataSound(d) /\ Audited(d)
BY DEF GoodData, SoundData

LEMMA FreshDataGood == FreshData \in GoodData
<1>1. ASSUME NEW u \in Users
      PROVE  /\ FreshData.balances[u] = NewBalance
             /\ SumOf(u, FreshData.deposits) = 0
             /\ SumOf(u, FreshData.usage_log) = 0
  BY SumOfEmpty DEF FreshData
<1>2. NewBalance.total_deposited = 0 /\ NewBalance.total_consumed = 0
  BY DEF NewBalance
<1>3. Audited(FreshData)
  BY <1>1, <1>2, NewBalanceExact DEF Audited
<1> QED
  BY <1>3, FreshDataSound DEF GoodData

\* A deposit enters the log and the balance together.
LEMMA WithDepositGood ==
    ASSUME NEW d \in GoodData, NEW dep \in Deposit, dep.tx \notin d.processed
    PROVE  WithDeposit(d, dep) \in GoodData
<1> DEFINE e == WithDeposit(d, dep)
<1>1. e \in SoundData
  BY GoodDataFacts, WithDepositSound
<1>2. /\ d.deposits \in Seq(Deposit) /\ d.balances \in [Users -> Balance]
      /\ dep.user \in Users /\ dep.credits \in Credits /\ Audited(d)
  BY GoodDataFacts DEF CreditStoreData, Deposit
<1>3. /\ e.deposits = Append(d.deposits, dep) /\ e.usage_log = d.usage_log
      /\ e.balances = [d.balances EXCEPT ![dep.user] = AddCreditsTo(@, dep.credits)]
  BY DEF WithDeposit
<1> HIDE DEF e
<1>4. ASSUME NEW u \in Users
      PROVE  /\ e.balances[u].total_deposited = SumOf(u, e.deposits)
             /\ e.balances[u].total_consumed = SumOf(u, e.usage_log)
             /\ BalanceExact(e.balances[u])
  <2>1. /\ d.balances[u] \in Balance /\ BalanceExact(d.balances[u])
        /\ d.balances[u].total_deposited = SumOf(u, d.deposits)
        /\ d.balances[u].total_consumed = SumOf(u, d.usage_log)
    BY <1>2 DEF Audited
  <2>2. SumOf(u, e.deposits) = IF dep.user = u
                               THEN SaturatingAdd(SumOf(u, d.deposits), dep.credits)
                               ELSE SumOf(u, d.deposits)
    BY <1>2, <1>3, SumOfAppend
  <2>3. CASE u = dep.user
    <3>1. e.balances[u] = AddCreditsTo(d.balances[u], dep.credits)
      BY <1>2, <1>3, <2>3
    <3>2. /\ e.balances[u].total_deposited
                 = SaturatingAdd(d.balances[u].total_deposited, dep.credits)
          /\ e.balances[u].total_consumed = d.balances[u].total_consumed
      BY <3>1 DEF AddCreditsTo
    <3> QED
      BY <1>2, <1>3, <2>1, <2>2, <2>3, <3>1, <3>2, ExactFacts
  <2>4. CASE u # dep.user
    <3>1. e.balances[u] = d.balances[u]
      BY <1>2, <1>3, <2>4
    <3> QED
      BY <1>3, <2>1, <2>2, <2>4, <3>1
  <2> QED
    BY <2>3, <2>4
<1>5. Audited(e)
  BY <1>4 DEF Audited
<1> QED
  BY <1>1, <1>5 DEF GoodData, e

\* A usage record adds its credits to the sum of its user, and only there.
LEMMA UsageSums ==
    ASSUME NEW d \in CreditStoreData, NEW u \in Users, NEW c \in Credits, NEW v \in Users
    PROVE  SumOf(v, Append(d.usage_log, [user |-> u, credits |-> c]))
               = IF u = v THEN SaturatingAdd(SumOf(v, d.usage_log), c)
                 ELSE SumOf(v, d.usage_log)
<1> DEFINE r == [user |-> u, credits |-> c]
<1>1. r \in UsageRecord /\ r.user = u /\ r.credits = c /\ d.usage_log \in Seq(UsageRecord)
  BY DEF UsageRecord, CreditStoreData
<1> HIDE DEF r
<1>2. SumOf(v, Append(d.usage_log, r)) = IF r.user = v
                                         THEN SaturatingAdd(SumOf(v, d.usage_log), r.credits)
                                         ELSE SumOf(v, d.usage_log)
  BY <1>1, SumOfAppend
<1> QED
  BY <1>1, <1>2 DEF r

\* The record of a charge of nothing, whose account was never found.
LEMMA WithUsageGood ==
    ASSUME NEW d \in GoodData, NEW u \in Users
    PROVE  WithUsage(d, u, 0) \in GoodData
<1> DEFINE e == WithUsage(d, u, 0)
<1>0. 0 \in Credits
  BY MaxCreditsAssumption DEF Credits
<1>1. e \in SoundData /\ d \in CreditStoreData /\ Audited(d)
  BY <1>0, GoodDataFacts, WithUsageSound
<1>2. /\ e.deposits = d.deposits /\ e.balances = d.balances
      /\ e.usage_log = Append(d.usage_log, [user |-> u, credits |-> 0])
  BY <1>1 DEF WithUsage, CreditStoreData
<1> HIDE DEF e
<1>3. ASSUME NEW v \in Users
      PROVE  SumOf(v, e.usage_log) = SumOf(v, d.usage_log)
  <2>1. d.balances[v].total_consumed \in Credits
    BY <1>1 DEF CreditStoreData, Balance
  <2>2. d.balances[v].total_consumed = SumOf(v, d.usage_log)
    BY <1>1 DEF Audited
  <2>3. SaturatingAdd(SumOf(v, d.usage_log), 0) = SumOf(v, d.usage_log)
    BY <2>1, <2>2, MaxCreditsAssumption DEF SaturatingAdd, Credits
  <2> QED
    BY <1>0, <1>1, <1>2, <2>3, UsageSums
<1>4. Audited(e)
  BY <1>1, <1>2, <1>3 DEF Audited
<1> QED
  BY <1>1, <1>4 DEF GoodData, e

\* A charge enters the log and the balance together, because the balance was
\* checked before either.
LEMMA WithChargeGood ==
    ASSUME NEW d \in GoodData, NEW u \in d.users, NEW c \in Credits,
           HasCredits(d.balances[u], c)
    PROVE  WithCharge(d, u, c) \in GoodData
<1> DEFINE e == WithCharge(d, u, c)
<1>1. /\ e \in SoundData /\ d \in CreditStoreData /\ Audited(d)
      /\ u \in Users /\ d.balances \in [Users -> Balance]
  BY GoodDataFacts, WithChargeSound DEF CreditStoreData
<1>2. /\ e.deposits = d.deposits
      /\ e.usage_log = Append(d.usage_log, [user |-> u, credits |-> c])
      /\ e.balances = [d.balances EXCEPT ![u] = DeductCreditsFrom(@, c)]
  BY <1>1 DEF WithCharge, WithUsage, CreditStoreData
<1> HIDE DEF e
<1>3. ASSUME NEW v \in Users
      PROVE  /\ e.balances[v].total_deposited = SumOf(v, e.deposits)
             /\ e.balances[v].total_consumed = SumOf(v, e.usage_log)
             /\ BalanceExact(e.balances[v])
  <2>1. /\ d.balances[v] \in Balance /\ BalanceExact(d.balances[v])
        /\ d.balances[v].total_deposited = SumOf(v, d.deposits)
        /\ d.balances[v].total_consumed = SumOf(v, d.usage_log)
    BY <1>1 DEF Audited
  <2>2. SumOf(v, e.usage_log) = IF u = v THEN SaturatingAdd(SumOf(v, d.usage_log), c)
                                ELSE SumOf(v, d.usage_log)
    BY <1>1, <1>2, UsageSums
  <2>3. CASE v = u
    <3>1. e.balances[v] = DeductCreditsFrom(d.balances[v], c)
      BY <1>1, <1>2, <2>3
    <3>2. /\ e.balances[v].total_deposited = d.balances[v].total_deposited
          /\ e.balances[v].total_consumed = SaturatingAdd(d.balances[v].total_consumed, c)
      BY <2>3, <3>1 DEF DeductCreditsFrom
    <3> QED
      BY <1>2, <2>1, <2>2, <2>3, <3>1, <3>2, ExactFacts
  <2>4. CASE v # u
    <3>1. e.balances[v] = d.balances[v]
      BY <1>1, <1>2, <2>4
    <3> QED
      BY <1>2, <2>1, <2>2, <2>4, <3>1
  <2> QED
    BY <2>3, <2>4
<1>4. Audited(e)
  BY <1>3 DEF Audited
<1> QED
  BY <1>1, <1>4 DEF GoodData, e

-----------------------------------------------------------------------------
(* The inductive invariant: TypeOK with GoodData for CreditStoreData.  The *)
(* types alone would not do: that a new transaction is in no older deposit *)
(* needs the soundness of the copy it is added to, and that copy may have  *)
(* come from the file, which a snapshot was written to.                    *)

GoodFile == [kind : FileKinds, key : Keys \cup {"none"}, data : GoodData]

Control ==
    /\ pc \in [Workers -> Phases]
    /\ req \in [Workers -> SUBSET Deposit]
    /\ cached \in [Stores -> Keys \cup {"none"}]
    /\ key \in [Workers -> Keys \cup {"none"}]
    /\ fd \in [Workers -> {"none", "tmp", "main", "gone"}]
    /\ detached \subseteq Workers
    /\ acked \subseteq Deposit
    /\ running \in BOOLEAN
    /\ faults \in [FaultKinds -> Nat]

Copies ==
    /\ mem \in [Stores -> GoodData]
    /\ snap \in [Workers -> GoodData]
    /\ tmp \in GoodFile
    /\ main \in GoodFile

IInv == Control /\ Copies

LEMMA GoodFileFacts ==
    /\ Absent \in GoodFile /\ Empty \in GoodFile /\ Torn \in GoodFile
    /\ \A k \in Keys \cup {"none"}, d \in GoodData : Saved(k, d) \in GoodFile
    /\ \A f \in GoodFile : Loaded(f) \in GoodData
    /\ \A old, new : new \in GoodFile => WriteOutcome(old, new) \subseteq GoodFile
<1>1. Absent \in GoodFile /\ Empty \in GoodFile /\ Torn \in GoodFile
  BY FreshDataGood DEF GoodFile, Absent, Empty, Torn, FileKinds
<1>2. \A k \in Keys \cup {"none"}, d \in GoodData : Saved(k, d) \in GoodFile
  BY DEF GoodFile, Saved, FileKinds
<1>3. \A f \in GoodFile : Loaded(f) \in GoodData
  BY FreshDataGood DEF GoodFile, Loaded
<1>4. \A old, new : new \in GoodFile => WriteOutcome(old, new) \subseteq GoodFile
  BY <1>1 DEF WriteOutcome
<1> QED
  BY <1>1, <1>2, <1>3, <1>4

\* The verified amount of a transaction makes a well-formed deposit.
LEMMA DepositFacts ==
    ASSUME NEW u \in Users, NEW x \in Txs
    PROVE  [user |-> u, tx |-> x, credits |-> TxCredits[x]] \in Deposit
BY ConstantsAssumption DEF Deposit

\* Every fault counter stays a number.
LEMMA FaultFacts ==
    ASSUME Control, NEW kind \in FaultKinds, Fault(kind)
    PROVE  faults' \in [FaultKinds -> Nat]
BY DEF Control, Fault

\* Ending a request resets the worker.
LEMMA EndRequestFacts ==
    ASSUME IInv, NEW w \in Workers, EndRequest(w)
    PROVE  /\ pc' \in [Workers -> Phases]
           /\ req' \in [Workers -> SUBSET Deposit]
           /\ key' \in [Workers -> Keys \cup {"none"}]
           /\ snap' \in [Workers -> GoodData]
           /\ detached' \subseteq Workers
BY FreshDataGood DEF IInv, Control, Copies, EndRequest, Phases

\* A write leaves good files behind whatever the open file is called by now.
LEMMA PutFileFacts ==
    ASSUME IInv, NEW w \in Workers, NEW f \in GoodFile, PutFile(w, f)
    PROVE  tmp' \in GoodFile /\ main' \in GoodFile
BY DEF IInv, Copies, PutFile

LEMMA IInvInit == Init => IInv
BY FreshDataGood, GoodFileFacts, ConstantsAssumption
   DEF Init, IInv, Control, Copies, Phases, FaultKinds

LEMMA IInvNext == IInv /\ [Next]_vars => IInv'
<1> SUFFICES ASSUME IInv, [Next]_vars
             PROVE  IInv'
  OBVIOUS
<1> USE DEF IInv, Control, Copies
<1>0. DepositWorkers \subseteq Workers /\ ChargeWorkers \subseteq Workers
  BY DEF Workers
<1>1. ASSUME NEW w \in DepositWorkers, NEW x \in Txs, NEW u \in Users,
             AddCredits(w, u, x)
      PROVE  IInv'
  <2> DEFINE dep == [user |-> u, tx |-> x, credits |-> TxCredits[x]]
  <2>1. dep \in Deposit /\ dep.tx = x
    BY DepositFacts
  <2>2. StoreOf[w] \in Stores /\ w \in Workers
    BY <1>0, ConstantsAssumption
  <2>3. WithDeposit(mem[StoreOf[w]], dep) \in GoodData
    BY <1>1, <2>1, <2>2, WithDepositGood DEF AddCredits
  <2>4. mem' = [mem EXCEPT ![StoreOf[w]] = WithDeposit(@, dep)]
    BY <1>1 DEF AddCredits
  <2>5. req' = [req EXCEPT ![w] = {dep}]
    BY <1>1 DEF AddCredits
  <2> HIDE DEF dep
  <2>6. mem' \in [Stores -> GoodData]
    BY <2>2, <2>3, <2>4
  <2>7. req' \in [Workers -> SUBSET Deposit]
    BY <2>1, <2>2, <2>5
  <2>8. pc' \in [Workers -> Phases]
    BY <1>1 DEF AddCredits, Phases, PersistPhases
  <2> QED
    BY <1>1, <2>6, <2>7, <2>8 DEF AddCredits
<1>2. ASSUME NEW w \in DepositWorkers, NEW x \in Txs, RefuseDuplicate(w, x)
      PROVE  IInv'
  BY <1>2 DEF RefuseDuplicate, vars
<1>3. ASSUME NEW w \in DepositWorkers, Disconnect(w)
      PROVE  IInv'
  <2>1. w \in Workers
    BY <1>0
  <2>2. faults' \in [FaultKinds -> Nat]
    BY <1>3, FaultFacts DEF Disconnect, FaultKinds
  <2>3. CASE EndRequest(w)
    BY <1>3, <2>1, <2>2, <2>3, EndRequestFacts DEF Disconnect
  <2>4. CASE /\ detached' = detached \cup {w}
             /\ UNCHANGED <<pc, req, key, snap>>
    BY <1>3, <2>1, <2>2, <2>4 DEF Disconnect
  <2> QED
    BY <1>3, <2>3, <2>4 DEF Disconnect
<1>4. ASSUME NEW w \in ChargeWorkers, NEW u \in Users, NEW c \in ChargeAmounts,
             DeductCredits(w, u, c)
      PROVE  IInv'
  <2>1. StoreOf[w] \in Stores /\ w \in Workers /\ c \in Credits
    BY <1>0, ConstantsAssumption
  <2>2. WithCharge(mem[StoreOf[w]], u, c) \in GoodData
    BY <1>4, <2>1, WithChargeGood DEF DeductCredits
  <2>3. mem' = [mem EXCEPT ![StoreOf[w]] = WithCharge(@, u, c)]
    BY <1>4 DEF DeductCredits
  <2>4. mem' \in [Stores -> GoodData]
    BY <2>1, <2>2, <2>3
  <2>5. pc' \in [Workers -> Phases]
    BY <1>4 DEF DeductCredits, Phases, PersistPhases
  <2> QED
    BY <1>4, <2>4, <2>5 DEF DeductCredits
<1>5. ASSUME NEW w \in ChargeWorkers, NEW u \in Users, NEW c \in ChargeAmounts,
             RefuseCharge(w, u, c)
      PROVE  IInv'
  BY <1>5 DEF RefuseCharge, vars
<1>6. ASSUME NEW w \in ChargeWorkers, NEW u \in Users, ChargeUnknownUser(w, u)
      PROVE  IInv'
  <2>1. StoreOf[w] \in Stores /\ w \in Workers /\ 0 \in Credits
    BY <1>0, ConstantsAssumption, MaxCreditsAssumption DEF Credits
  <2>2. WithUsage(mem[StoreOf[w]], u, 0) \in GoodData
    BY <2>1, WithUsageGood
  <2>3. mem' = [mem EXCEPT ![StoreOf[w]] = WithUsage(@, u, 0)]
    BY <1>6 DEF ChargeUnknownUser
  <2>4. mem' \in [Stores -> GoodData]
    BY <2>1, <2>2, <2>3
  <2> QED
    BY <1>6, <2>4 DEF ChargeUnknownUser
<1>16. ASSUME NEW w \in Workers, LookUpKey(w)
       PROVE  IInv'
  <2>1. cached[StoreOf[w]] \in Keys \cup {"none"}
    BY ConstantsAssumption
  <2>2. key' \in [Workers -> Keys \cup {"none"}] /\ pc' \in [Workers -> Phases]
    BY <1>16, <2>1 DEF LookUpKey, Phases, PersistPhases
  <2> QED
    BY <1>16, <2>2 DEF LookUpKey
<1>17. ASSUME NEW w \in Workers, KeyDerived(w)
       PROVE  IInv'
  <2>1. PICK k \in Keys : /\ Derived({k})
                          /\ key' = [key EXCEPT ![w] = k]
                          /\ cached' = [cached EXCEPT ![StoreOf[w]] = k]
    BY <1>17 DEF KeyDerived
  <2>2. faults' \in [FaultKinds -> Nat]
    BY <2>1, FaultFacts DEF Derived, FaultKinds
  <2>3. /\ key' \in [Workers -> Keys \cup {"none"}]
        /\ cached' \in [Stores -> Keys \cup {"none"}]
    BY <2>1
  <2>4. pc' \in [Workers -> Phases]
    BY <1>17 DEF KeyDerived, Phases, PersistPhases
  <2> QED
    BY <1>17, <2>2, <2>3, <2>4 DEF KeyDerived
<1>7. ASSUME NEW w \in Workers, Serialize(w)
      PROVE  IInv'
  <2>1. mem[StoreOf[w]] \in GoodData
    BY ConstantsAssumption
  <2> QED
    BY <1>7, <2>1 DEF Serialize, Phases, PersistPhases, FilePhases
<1>8. ASSUME NEW w \in Workers, OpenTmp(w)
      PROVE  IInv'
  BY <1>8, GoodFileFacts DEF OpenTmp, Phases, PersistPhases, FilePhases
<1>9. ASSUME NEW w \in Workers, WriteTmp(w)
      PROVE  IInv'
  <2>1. Saved(key[w], snap[w]) \in GoodFile
    BY GoodFileFacts
  <2>2. tmp' \in GoodFile /\ main' \in GoodFile
    <3>1. PICK f \in WriteOutcome(OpenFile(w), Saved(key[w], snap[w])) : PutFile(w, f)
      BY <1>9 DEF WriteTmp
    <3> QED
      BY <2>1, <3>1, GoodFileFacts, PutFileFacts
  <2>3. /\ pc' \in [Workers -> Phases]
        /\ req' \in [Workers -> SUBSET Deposit]
        /\ key' \in [Workers -> Keys \cup {"none"}]
        /\ snap' \in [Workers -> GoodData]
        /\ detached' \subseteq Workers
    <3>1. CASE w \in detached
      BY <1>9, <3>1, EndRequestFacts DEF WriteTmp
    <3>2. CASE w \notin detached
      BY <1>9, <3>2 DEF WriteTmp, Phases, PersistPhases, FilePhases
    <3> QED
      BY <3>1, <3>2
  <2> QED
    BY <1>9, <2>2, <2>3 DEF WriteTmp
<1>10. ASSUME NEW w \in Workers, RenameTmp(w)
       PROVE  IInv'
  <2>1. /\ tmp' \in GoodFile /\ main' \in GoodFile
        /\ fd' \in [Workers -> {"none", "tmp", "main", "gone"}]
    <3>1. CASE Publish
      BY <3>1, GoodFileFacts DEF Publish, RenamedTo
    <3>2. CASE UNCHANGED <<tmp, main, fd>>
      BY <3>2
    <3> QED
      BY <1>10, <3>1, <3>2 DEF RenameTmp
  <2>2. acked' \subseteq Deposit
    BY <1>10 DEF RenameTmp
  <2> QED
    BY <1>10, <2>1, <2>2, EndRequestFacts DEF RenameTmp
<1>11. ASSUME NEW w \in Workers, PersistFails(w)
       PROVE  IInv'
  <2>1. tmp' \in GoodFile /\ main' \in GoodFile
    BY <1>11, GoodFileFacts, PutFileFacts DEF PersistFails
  <2>2. faults' \in [FaultKinds -> Nat]
    BY <1>11, FaultFacts DEF PersistFails, FaultKinds
  <2> QED
    BY <1>11, <2>1, <2>2, EndRequestFacts DEF PersistFails
<1>12. ASSUME Crash
       PROVE  IInv'
  <2>1. tmp' \in GoodFile /\ main' \in GoodFile
    BY <1>12, GoodFileFacts, PutFileFacts DEF Crash
  <2>2. faults' \in [FaultKinds -> Nat]
    BY <1>12, FaultFacts DEF Crash, FaultKinds
  <2> QED
    BY <1>12, <2>1, <2>2, FreshDataGood DEF Crash, Phases
<1>13. ASSUME Restart
       PROVE  IInv'
  <2>1. faults' \in [FaultKinds -> Nat]
    BY <1>13, FaultFacts DEF Restart, Derived, FaultKinds
  <2>2. cached' \in [Stores -> Keys \cup {"none"}]
    BY <1>13 DEF Restart
  <2>3. mem' \in [Stores -> GoodData]
    BY <1>13, GoodFileFacts DEF Restart
  <2> QED
    BY <1>13, <2>1, <2>2, <2>3 DEF Restart
<1>14. CASE StartFails
  BY <1>14 DEF StartFails, vars
<1>15. CASE UNCHANGED vars
  BY <1>15 DEF vars
<1> QED
  BY <1>1, <1>2, <1>3, <1>4, <1>5, <1>6, <1>7, <1>8, <1>9, <1>10, <1>11, <1>12,
     <1>13, <1>14, <1>15, <1>16, <1>17 DEF Next, PersistStep

LEMMA IInvInvariant == Spec => []IInv
BY IInvInit, IInvNext, PTL DEF Spec

\* Type correctness: all the data the program keeps, serializes, writes or
\* loads is well formed whatever is interrupted.
THEOREM TypeCorrect == Spec => []TypeOK
<1>1. IInv => TypeOK
  BY DEF IInv, Control, Copies, TypeOK, GoodData, SoundData, GoodFile, File
<1> QED
  BY <1>1, IInvInvariant, PTL

\* What IInv says of each copy.
LEMMA AllDataGood == IInv => \A d \in AllData : d \in GoodData
BY DEF IInv, Copies, AllData, GoodFile

\* Double-spend prevention, for any number of instances, callers and faults.
THEOREM NoDoubleSpend == Spec => []CreditedOnce
<1>1. IInv => CreditedOnce
  BY AllDataGood DEF CreditedOnce, GoodData, SoundData, DataSound
<1> QED
  BY <1>1, IInvInvariant, PTL

\* Nobody can spend what was not deposited.
THEOREM NoUnbackedCredits == Spec => []BalancesSound
<1>1. IInv => BalancesSound
  BY AllDataGood DEF BalancesSound, GoodData, SoundData, DataSound
<1> QED
  BY <1>1, IInvInvariant, PTL

\* The books balance in every copy of the data: what the logs of deposits and of
\* usage add up to is what the account says was deposited and consumed, after any
\* interleaving of callers, failed saves, crashes and reloads.
THEOREM AuditTrailHolds == Spec => []AuditAgrees
<1>1. IInv => AuditAgrees
  BY AllDataGood DEF AuditAgrees, GoodData
<1> QED
  BY <1>1, IInvInvariant, PTL

-----------------------------------------------------------------------------
(* The read guard.  Nobody holds a guard while the program is down, so that *)
(* a restart may replace the memory.                                        *)

DownIsIdle == ~running => \A w \in Workers : pc[w] = "idle"

GuardInv == IInv /\ SnapshotCurrent /\ DownIsIdle

\* A writer that got its guard is alone: no snapshot of its store is in use.
LEMMA WriterAlone ==
    ASSUME NEW w \in Workers, CanWrite(w), NEW v \in Workers,
           pc[v] \in FilePhases, v \notin detached
    PROVE  StoreOf[v] # StoreOf[w]
BY DEF CanWrite, Readers

LEMMA GuardInit == Init => SnapshotCurrent /\ DownIsIdle
BY DEF Init, SnapshotCurrent, DownIsIdle, FilePhases

LEMMA GuardNext == GuardInv /\ [Next]_vars => (SnapshotCurrent /\ DownIsIdle)'
<1> SUFFICES ASSUME GuardInv, [Next]_vars
             PROVE  (SnapshotCurrent /\ DownIsIdle)'
  OBVIOUS
<1> USE DEF GuardInv, SnapshotCurrent, DownIsIdle
<1>0. /\ DepositWorkers \subseteq Workers /\ ChargeWorkers \subseteq Workers
      /\ mem \in [Stores -> GoodData] /\ snap \in [Workers -> GoodData]
      /\ pc \in [Workers -> Phases] /\ detached \subseteq Workers
      /\ \A w \in Workers : StoreOf[w] \in Stores
  BY ConstantsAssumption DEF Workers, IInv, Control, Copies
<1>1. ASSUME NEW w \in Workers, CanWrite(w), NEW d,
             mem' = [mem EXCEPT ![StoreOf[w]] = d],
             pc' = [pc EXCEPT ![w] = "persist"] \/ pc' = pc,
             UNCHANGED <<snap, detached, running>>
      PROVE  (SnapshotCurrent /\ DownIsIdle)'
  <2>1. ASSUME NEW v \in Workers, pc'[v] \in FilePhases, v \notin detached'
        PROVE  snap'[v] = mem'[StoreOf[v]]
    <3>1. pc[v] \in FilePhases /\ v \notin detached
      BY <1>0, <1>1, <2>1 DEF FilePhases
    <3>2. StoreOf[v] # StoreOf[w]
      BY <1>1, <3>1, WriterAlone
    <3> QED
      BY <1>0, <1>1, <3>1, <3>2
  <2>2. running'
    BY <1>1 DEF CanWrite
  <2> QED
    BY <2>1, <2>2
<1>2. ASSUME NEW w \in DepositWorkers, NEW x \in Txs, NEW u \in Users,
             AddCredits(w, u, x)
      PROVE  (SnapshotCurrent /\ DownIsIdle)'
  <2> DEFINE dep == [user |-> u, tx |-> x, credits |-> TxCredits[x]]
             d == WithDeposit(mem[StoreOf[w]], dep)
  <2>1. mem' = [mem EXCEPT ![StoreOf[w]] = d]
    BY <1>2 DEF AddCredits
  <2> HIDE DEF d
  <2> QED
    BY <1>0, <1>1, <1>2, <2>1 DEF AddCredits
<1>3. ASSUME NEW w \in ChargeWorkers, NEW u \in Users, NEW c \in ChargeAmounts,
             DeductCredits(w, u, c)
      PROVE  (SnapshotCurrent /\ DownIsIdle)'
  <2> DEFINE d == WithCharge(mem[StoreOf[w]], u, c)
  <2>1. mem' = [mem EXCEPT ![StoreOf[w]] = d]
    BY <1>3 DEF DeductCredits
  <2> HIDE DEF d
  <2> QED
    BY <1>0, <1>1, <1>3, <2>1 DEF DeductCredits
<1>4. ASSUME NEW w \in ChargeWorkers, NEW u \in Users, ChargeUnknownUser(w, u)
      PROVE  (SnapshotCurrent /\ DownIsIdle)'
  <2> DEFINE d == WithUsage(mem[StoreOf[w]], u, 0)
  <2>1. mem' = [mem EXCEPT ![StoreOf[w]] = d]
    BY <1>4 DEF ChargeUnknownUser
  <2> HIDE DEF d
  <2> QED
    BY <1>0, <1>1, <1>4, <2>1 DEF ChargeUnknownUser
<1>5. ASSUME NEW w \in Workers, Serialize(w)
      PROVE  (SnapshotCurrent /\ DownIsIdle)'
  <2>1. running /\ running' = running
    BY <1>5 DEF Serialize
  <2> QED
    BY <1>0, <1>5, <2>1 DEF Serialize
<1>15. ASSUME NEW w \in Workers, LookUpKey(w) \/ KeyDerived(w)
       PROVE  (SnapshotCurrent /\ DownIsIdle)'
  <2>1. /\ UNCHANGED <<mem, snap, detached, running>>
        /\ pc[w] \in {"persist", "asking"}
        /\ pc' = [pc EXCEPT ![w] = "asking"] \/ pc' = [pc EXCEPT ![w] = "serialize"]
    BY <1>15 DEF LookUpKey, KeyDerived
  <2> QED
    BY <1>0, <2>1 DEF FilePhases
<1>6. ASSUME NEW w \in Workers,
             pc[w] \in FilePhases,
             \E phase \in FilePhases : pc' = [pc EXCEPT ![w] = phase],
             UNCHANGED <<mem, snap, detached, running>>
      PROVE  (SnapshotCurrent /\ DownIsIdle)'
  BY <1>0, <1>6 DEF FilePhases
<1>7. ASSUME NEW w \in Workers, EndRequest(w), UNCHANGED <<mem, running>>
      PROVE  (SnapshotCurrent /\ DownIsIdle)'
  BY <1>0, <1>7 DEF EndRequest, FilePhases
<1>8. ASSUME NEW w \in Workers, OpenTmp(w)
      PROVE  (SnapshotCurrent /\ DownIsIdle)'
  BY <1>6, <1>8 DEF OpenTmp, FilePhases
<1>9. ASSUME NEW w \in Workers, WriteTmp(w)
      PROVE  (SnapshotCurrent /\ DownIsIdle)'
  BY <1>6, <1>7, <1>9 DEF WriteTmp, FilePhases
<1>10. ASSUME NEW w \in Workers, RenameTmp(w) \/ PersistFails(w)
       PROVE  (SnapshotCurrent /\ DownIsIdle)'
  BY <1>7, <1>10 DEF RenameTmp, PersistFails
<1>11. ASSUME NEW w \in DepositWorkers, Disconnect(w)
       PROVE  (SnapshotCurrent /\ DownIsIdle)'
  <2>1. CASE EndRequest(w)
    BY <1>0, <1>7, <1>11, <2>1 DEF Disconnect
  <2>2. CASE detached' = detached \cup {w} /\ UNCHANGED <<pc, req, key, snap>>
    BY <1>11, <2>2 DEF Disconnect
  <2> QED
    BY <1>11, <2>1, <2>2 DEF Disconnect
<1>12. ASSUME Crash
       PROVE  (SnapshotCurrent /\ DownIsIdle)'
  BY <1>12 DEF Crash, FilePhases
<1>13. ASSUME Restart
       PROVE  (SnapshotCurrent /\ DownIsIdle)'
  BY <1>13 DEF Restart, FilePhases
<1>14. CASE UNCHANGED vars
  BY <1>14 DEF vars
<1> QED
  BY <1>2, <1>3, <1>4, <1>5, <1>8, <1>9, <1>10, <1>11, <1>12, <1>13, <1>14, <1>15
     DEF Next, PersistStep, RefuseDuplicate, RefuseCharge, StartFails

LEMMA GuardInvariant == Spec => []GuardInv
<1>1. Init => GuardInv
  BY IInvInit, GuardInit DEF GuardInv
<1>2. GuardInv /\ [Next]_vars => GuardInv'
  BY IInvNext, GuardNext DEF GuardInv
<1> QED
  BY <1>1, <1>2, PTL DEF Spec

\* What a persist publishes is what its store holds, unless it was cut off
\* from its caller: no lost update inside one instance.
THEOREM NoStaleSnapshot == Spec => []SnapshotCurrent
<1>1. GuardInv => SnapshotCurrent
  BY DEF GuardInv
<1> QED
  BY <1>1, GuardInvariant, PTL

-----------------------------------------------------------------------------
(* The file of one instance with any number of callers, who crash, fail    *)
(* and take away each other's temporary file, but are not cut off: whoever *)
(* has the temporary file open or waits to rename it works for the same    *)
(* memory, because all of them hold the guard that keeps writers out.      *)

OneInstance == \E s : Stores = {s}

NoHangUps == MaxFaults["disconnect"] = 0

\* d holds the history of e, and possibly more.
Continues(d, e) == /\ IsPrefixOf(e.deposits, d.deposits)
                   /\ IsPrefixOf(e.usage_log, d.usage_log)

LEMMA PrefixFacts ==
    ASSUME NEW S, NEW s \in Seq(S), NEW t \in Seq(S), NEW u \in Seq(S)
    PROVE  /\ IsPrefixOf(s, s)
           /\ IsPrefixOf(s, t) /\ IsPrefixOf(t, u) => IsPrefixOf(s, u)
           /\ \A x \in S : IsPrefixOf(s, Append(s, x))
<1>1. /\ Len(s) \in Nat /\ Len(t) \in Nat /\ Len(u) \in Nat
      /\ DOMAIN s = 1 .. Len(s) /\ DOMAIN t = 1 .. Len(t) /\ DOMAIN u = 1 .. Len(u)
  OBVIOUS
<1>2. IsPrefixOf(s, s)
  BY <1>1 DEF IsPrefixOf
<1>3. ASSUME IsPrefixOf(s, t), IsPrefixOf(t, u)
      PROVE  IsPrefixOf(s, u)
  BY <1>1, <1>3 DEF IsPrefixOf
<1>4. ASSUME NEW x \in S
      PROVE  IsPrefixOf(s, Append(s, x))
  <2>1. /\ Len(Append(s, x)) = Len(s) + 1
        /\ \A i \in 1 .. Len(s) : Append(s, x)[i] = s[i]
    OBVIOUS
  <2> QED
    BY <1>1, <2>1 DEF IsPrefixOf
<1> QED
  BY <1>2, <1>3, <1>4

LEMMA ContinuesFacts ==
    ASSUME NEW d \in GoodData, NEW e \in GoodData, NEW f \in GoodData
    PROVE  /\ Continues(d, d)
           /\ Continues(e, d) /\ Continues(f, e) => Continues(f, d)
<1>1. \A x \in {d, e, f} : x.deposits \in Seq(Deposit) /\ x.usage_log \in Seq(UsageRecord)
  BY DEF GoodData, SoundData, CreditStoreData
<1> QED
  BY <1>1, PrefixFacts DEF Continues

\* The updates only append.
LEMMA UpdatesContinue ==
    ASSUME NEW d \in GoodData
    PROVE  /\ \A dep \in Deposit : Continues(WithDeposit(d, dep), d)
           /\ \A u \in Users, c \in Credits : Continues(WithUsage(d, u, c), d)
           /\ \A u \in Users, c \in Credits : Continues(WithCharge(d, u, c), d)
<1>1. /\ d \in CreditStoreData
      /\ d.deposits \in Seq(Deposit) /\ d.usage_log \in Seq(UsageRecord)
  BY DEF GoodData, SoundData, CreditStoreData
<1>2. ASSUME NEW dep \in Deposit
      PROVE  Continues(WithDeposit(d, dep), d)
  <2>1. /\ WithDeposit(d, dep).deposits = Append(d.deposits, dep)
        /\ WithDeposit(d, dep).usage_log = d.usage_log
    BY DEF WithDeposit
  <2> QED
    BY <1>1, <2>1, PrefixFacts DEF Continues
<1>3. ASSUME NEW u \in Users, NEW c \in Credits
      PROVE  /\ Continues(WithUsage(d, u, c), d)
             /\ Continues(WithCharge(d, u, c), d)
  <2> DEFINE r == [user |-> u, credits |-> c]
             g == WithUsage(d, u, c)
             h == WithCharge(d, u, c)
  <2>1. r \in UsageRecord
    BY DEF UsageRecord
  <2>2. g.deposits = d.deposits /\ g.usage_log = Append(d.usage_log, r)
    BY <1>1 DEF WithUsage, CreditStoreData
  <2>3. h.deposits = g.deposits /\ h.usage_log = g.usage_log
    BY <1>1 DEF WithCharge, WithUsage, CreditStoreData
  <2> HIDE DEF r, g, h
  <2>4. Continues(g, d) /\ Continues(h, d)
    BY <1>1, <2>1, <2>2, <2>3, PrefixFacts DEF Continues
  <2> QED
    BY <2>4 DEF g, h
<1> QED
  BY <1>2, <1>3

FileInv ==
    /\ detached = {}
    /\ \A w \in Workers : fd[w] # "none" => pc[w] = "write"
    /\ \A w \in Workers :
          pc[w] \in {"write", "rename"} /\ tmp.kind = "data" => tmp.data = mem[StoreOf[w]]
    /\ running /\ main.kind = "data" => \A s \in Stores : Continues(mem[s], main.data)

\* The step of FileNeverRegresses.
Advances == main.kind = "data" /\ main'.kind = "data" => Continues(main'.data, main.data)

LEMMA FileInit == Init => FileInv
BY DEF Init, FileInv, Absent

\* An update meets nobody in a file call.
LEMMA UpdateKeepsFile ==
    ASSUME OneInstance, GuardInv, FileInv,
           NEW w \in Workers, CanWrite(w), NEW d \in GoodData,
           Continues(d, mem[StoreOf[w]]),
           mem' = [mem EXCEPT ![StoreOf[w]] = d],
           pc' = [pc EXCEPT ![w] = "persist"] \/ pc' = pc,
           UNCHANGED <<fd, detached, tmp, main, running>>
    PROVE  FileInv' /\ Advances
<1>1. /\ mem \in [Stores -> GoodData] /\ pc \in [Workers -> Phases] /\ main \in GoodFile
      /\ \A v \in Workers : StoreOf[v] = StoreOf[w]
      /\ Stores = {StoreOf[w]}
  BY ConstantsAssumption DEF OneInstance, GuardInv, IInv, Control, Copies
<1>2. \A v \in Workers : pc[v] \notin FilePhases
  BY <1>1, WriterAlone DEF FileInv
<1>3. \A v \in Workers : pc'[v] \notin FilePhases /\ fd'[v] = "none"
  BY <1>1, <1>2 DEF FileInv, FilePhases
<1>4. main'.kind = "data" /\ running' => Continues(mem'[StoreOf[w]], main'.data)
  <2> SUFFICES ASSUME main.kind = "data"
               PROVE  Continues(d, main.data)
    BY <1>1
  <2>1. main.data \in GoodData /\ mem[StoreOf[w]] \in GoodData
    BY <1>1 DEF GoodFile
  <2>2. Continues(mem[StoreOf[w]], main.data)
    BY <1>1 DEF FileInv, CanWrite
  <2> QED
    BY <2>1, <2>2, ContinuesFacts
<1>5. FileInv'
  BY <1>1, <1>3, <1>4 DEF FileInv, FilePhases
<1>6. Advances
  BY <1>1, ContinuesFacts DEF Advances, GoodFile
<1> QED
  BY <1>5, <1>6

\* A step that starts no file call and leaves the files and handles alone.
LEMMA FilesIdle ==
    ASSUME FileInv, UNCHANGED <<mem, fd, detached, tmp, main>>,
           running' => running,
           \A w \in Workers : pc'[w] \in {"write", "rename"} => pc'[w] = pc[w],
           \A w \in Workers : pc[w] = "write" => pc'[w] = "write"
    PROVE  FileInv'
<1>1. /\ detached' = {}
      /\ \A w \in Workers : fd'[w] # "none" => pc'[w] = "write"
  BY DEF FileInv
<1>2. \A w \in Workers :
         pc'[w] \in {"write", "rename"} /\ tmp'.kind = "data" => tmp'.data = mem'[StoreOf[w]]
  BY DEF FileInv
<1>3. running' /\ main'.kind = "data" => \A s \in Stores : Continues(mem'[s], main'.data)
  BY DEF FileInv
<1> QED
  BY <1>1, <1>2, <1>3 DEF FileInv

LEMMA FileNext ==
    ASSUME OneInstance, NoHangUps, GuardInv, FileInv, [Next]_vars
    PROVE  FileInv' /\ Advances
<1>0. /\ DepositWorkers \subseteq Workers /\ ChargeWorkers \subseteq Workers
      /\ mem \in [Stores -> GoodData] /\ snap \in [Workers -> GoodData]
      /\ pc \in [Workers -> Phases] /\ fd \in [Workers -> {"none", "tmp", "main", "gone"}]
      /\ tmp \in GoodFile /\ main \in GoodFile /\ main.data \in GoodData
      /\ \A w \in Workers : StoreOf[w] \in Stores /\ mem[StoreOf[w]] \in GoodData
      /\ \A v, w \in Workers : StoreOf[v] = StoreOf[w]
      /\ \A s \in Stores, w \in Workers : StoreOf[w] = s
  BY ConstantsAssumption
     DEF OneInstance, Workers, GuardInv, IInv, Control, Copies, GoodFile
<1>1. ASSUME NEW w \in DepositWorkers, NEW x \in Txs, NEW u \in Users,
             AddCredits(w, u, x)
      PROVE  FileInv' /\ Advances
  <2> DEFINE dep == [user |-> u, tx |-> x, credits |-> TxCredits[x]]
             d == WithDeposit(mem[StoreOf[w]], dep)
  <2>1. mem' = [mem EXCEPT ![StoreOf[w]] = d]
    BY <1>1 DEF AddCredits
  <2>2. dep \in Deposit /\ dep.tx \notin mem[StoreOf[w]].processed
    BY <1>1, DepositFacts DEF AddCredits
  <2>3. d \in GoodData /\ Continues(d, mem[StoreOf[w]])
    <3> HIDE DEF dep
    <3> QED BY <1>0, <2>2, WithDepositGood, UpdatesContinue
  <2> HIDE DEF d
  <2> QED
    BY <1>0, <1>1, <2>1, <2>3, UpdateKeepsFile DEF AddCredits
<1>2. ASSUME NEW w \in ChargeWorkers, NEW u \in Users, NEW c \in ChargeAmounts,
             DeductCredits(w, u, c)
      PROVE  FileInv' /\ Advances
  <2> DEFINE d == WithCharge(mem[StoreOf[w]], u, c)
  <2>1. /\ mem' = [mem EXCEPT ![StoreOf[w]] = d]
        /\ u \in mem[StoreOf[w]].users
        /\ HasCredits(mem[StoreOf[w]].balances[u], c)
    BY <1>2 DEF DeductCredits
  <2>2. c \in Credits
    BY ConstantsAssumption
  <2>3. d \in GoodData /\ Continues(d, mem[StoreOf[w]])
    BY <1>0, <2>1, <2>2, WithChargeGood, UpdatesContinue
  <2> HIDE DEF d
  <2> QED
    BY <1>0, <1>2, <2>1, <2>3, UpdateKeepsFile DEF DeductCredits
<1>3. ASSUME NEW w \in ChargeWorkers, NEW u \in Users, ChargeUnknownUser(w, u)
      PROVE  FileInv' /\ Advances
  <2> DEFINE d == WithUsage(mem[StoreOf[w]], u, 0)
  <2>1. mem' = [mem EXCEPT ![StoreOf[w]] = d]
    BY <1>3 DEF ChargeUnknownUser
  <2>2. 0 \in Credits
    BY MaxCreditsAssumption DEF Credits
  <2>3. d \in GoodData /\ Continues(d, mem[StoreOf[w]])
    BY <1>0, <2>2, WithUsageGood, UpdatesContinue
  <2> HIDE DEF d
  <2> QED
    BY <1>0, <1>3, <2>1, <2>3, UpdateKeepsFile DEF ChargeUnknownUser
<1>4. ASSUME UNCHANGED main
      PROVE  Advances
  BY <1>0, <1>4, ContinuesFacts DEF Advances
<1>5. ASSUME NEW w \in Workers, LookUpKey(w) \/ KeyDerived(w) \/ Serialize(w)
      PROVE  FileInv' /\ Advances
  BY <1>0, <1>4, <1>5, FilesIdle DEF LookUpKey, KeyDerived, Serialize
<1>6. ASSUME NEW w \in Workers, OpenTmp(w)
      PROVE  FileInv' /\ Advances
  BY <1>0, <1>4, <1>6 DEF OpenTmp, FileInv, Empty
<1>7. ASSUME NEW w \in Workers, WriteTmp(w)
      PROVE  FileInv' /\ Advances
  <2>1. w \notin detached /\ pc[w] = "write" /\ snap[w] = mem[StoreOf[w]]
    BY <1>7 DEF WriteTmp, FileInv, GuardInv, SnapshotCurrent, FilePhases
  <2>2. PICK f \in WriteOutcome(OpenFile(w), Saved(key[w], snap[w])) : PutFile(w, f)
    BY <1>7 DEF WriteTmp
  <2>3. f.kind = "data" => f.data = mem[StoreOf[w]]
    BY <2>1 DEF WriteOutcome, Saved, Torn
  <2>4. /\ mem' = mem /\ running' = running /\ detached' = detached
        /\ pc' = [pc EXCEPT ![w] = "rename"] /\ fd' = [fd EXCEPT ![w] = "none"]
    BY <1>7, <2>1 DEF WriteTmp
  <2>5. tmp' \in {tmp, f} /\ main' \in {main, f}
    BY <2>2 DEF PutFile
  <2>6. tmp'.kind = "data" => tmp'.data = mem[StoreOf[w]]
    BY <2>1, <2>3, <2>5 DEF FileInv
  <2>7. Continues(mem[StoreOf[w]], mem[StoreOf[w]])
    BY <1>0, ContinuesFacts
  <2>8. main'.kind = "data" /\ running => Continues(mem[StoreOf[w]], main'.data)
    BY <1>0, <2>3, <2>5, <2>7 DEF FileInv
  <2>9. FileInv'
    BY <1>0, <2>4, <2>6, <2>8 DEF FileInv
  <2>10. running
    BY <2>1 DEF GuardInv, DownIsIdle
  <2>11. Advances
    BY <1>0, <1>4, <2>3, <2>5, <2>10 DEF Advances, FileInv
  <2> QED
    BY <2>9, <2>11
<1>8. ASSUME NEW w \in Workers, RenameTmp(w)
      PROVE  FileInv' /\ Advances
  <2>1. /\ pc[w] = "rename" /\ mem' = mem /\ running' = running /\ EndRequest(w)
        /\ Publish \/ UNCHANGED <<tmp, main, fd>>
    BY <1>8 DEF RenameTmp
  <2>2. running /\ detached' = {} /\ pc' = [pc EXCEPT ![w] = "idle"]
    BY <2>1 DEF GuardInv, DownIsIdle, EndRequest, FileInv
  <2>3. CASE UNCHANGED <<tmp, main, fd>>
    BY <1>0, <1>4, <2>1, <2>2, <2>3, FilesIdle DEF FileInv
  <2>4. CASE Publish
    <3>1. main' = tmp /\ tmp'.kind = "absent" /\ \A v \in Workers : fd'[v] = RenamedTo[fd[v]]
      BY <2>4 DEF Publish, Absent
    <3>2. \A v \in Workers : fd'[v] # "none" => fd[v] # "none"
      BY <1>0, <3>1 DEF RenamedTo
    <3>3. main'.kind = "data" => main'.data = mem[StoreOf[w]]
      BY <2>1, <3>1 DEF FileInv
    <3>4. FileInv'
      BY <1>0, <2>1, <2>2, <3>1, <3>2, <3>3, ContinuesFacts DEF FileInv
    <3>5. Advances
      BY <1>0, <2>2, <3>3 DEF Advances, FileInv
    <3> QED BY <3>4, <3>5
  <2> QED
    BY <2>1, <2>3, <2>4
<1>9. ASSUME NEW w \in Workers, PersistFails(w)
      PROVE  FileInv' /\ Advances
  <2>1. /\ mem' = mem /\ running' = running
        /\ detached' = {} /\ pc' = [pc EXCEPT ![w] = "idle"]
        /\ fd' = [fd EXCEPT ![w] = "none"]
    BY <1>9 DEF PersistFails, EndRequest, FileInv
  <2>2. tmp' \in {tmp, Torn} /\ main' \in {main, Torn}
    BY <1>9 DEF PersistFails, PutFile
  <2>3. Torn.kind # "data"
    BY DEF Torn
  <2>4. FileInv'
    BY <1>0, <2>1, <2>2, <2>3 DEF FileInv
  <2> QED
    BY <1>4, <2>2, <2>3, <2>4 DEF Advances
<1>10. ASSUME NEW w \in DepositWorkers, Disconnect(w)
       PROVE  FALSE
  BY <1>10 DEF Disconnect, Fault, NoHangUps, GuardInv, IInv, Control, FaultKinds
<1>11. ASSUME Crash
       PROVE  FileInv' /\ Advances
  <2>1. /\ ~running' /\ detached' = {}
        /\ \A w \in Workers : pc'[w] = "idle" /\ fd'[w] = "none"
        /\ main' \in {main, Torn}
    BY <1>11 DEF Crash, PutFile
  <2>2. Torn.kind # "data"
    BY DEF Torn
  <2> QED
    BY <1>4, <2>1, <2>2 DEF FileInv, Advances
<1>12. ASSUME Restart
       PROVE  FileInv' /\ Advances
  <2>1. /\ ~running /\ \A s \in Stores : mem'[s] = Loaded(main)
        /\ UNCHANGED <<pc, fd, detached, tmp, main>>
    BY <1>12 DEF Restart
  <2>2. main.kind = "data" => \A s \in Stores : Continues(mem'[s], main.data)
    BY <1>0, <2>1, ContinuesFacts DEF Loaded
  <2>3. \A w \in Workers : pc[w] = "idle"
    BY <2>1 DEF GuardInv, DownIsIdle
  <2>4. FileInv'
    BY <2>1, <2>2, <2>3 DEF FileInv
  <2> QED
    BY <1>4, <2>1, <2>4
<1>13. CASE UNCHANGED vars
  BY <1>4, <1>13, FilesIdle DEF vars
<1> QED
  BY <1>1, <1>2, <1>3, <1>5, <1>6, <1>7, <1>8, <1>9, <1>10, <1>11, <1>12, <1>13
     DEF Next, PersistStep, RefuseDuplicate, RefuseCharge, StartFails

\* With one instance whose callers wait for their answers, no save, failed save,
\* stolen temporary file or restart takes back what a whole file has held, for any
\* number of concurrent callers.
THEOREM OneInstanceNeverRegresses ==
    ASSUME OneInstance, NoHangUps
    PROVE  Spec => FileNeverRegresses
<1>1. Init => FileInv
  BY FileInit
<1>2. GuardInv /\ FileInv /\ [Next]_vars => FileInv' /\ Advances
  BY FileNext
<1>3. Advances => (main.kind = "data" /\ main'.kind = "data" =>
                     /\ IsPrefixOf(main.data.deposits, main'.data.deposits)
                     /\ IsPrefixOf(main.data.usage_log, main'.data.usage_log))
  BY DEF Advances, Continues
<1> QED
  BY <1>1, <1>2, <1>3, GuardInvariant, PTL DEF Spec, FileNeverRegresses

-----------------------------------------------------------------------------
(* One instance with one caller, who may hang up as well.  A file call that *)
(* was cut off keeps the caller's connection busy until it ends, so nobody  *)
(* else touches the memory or the temporary file in between.                *)

OneCaller == OneInstance /\ \A v, w \in Workers : v = w

\* What is being saved, and for whom.
Saving ==
    \A w \in Workers :
        /\ pc[w] \in FilePhases => snap[w] = mem[StoreOf[w]]
        /\ pc[w] = "write" => fd[w] = "tmp" /\ tmp = Empty
        /\ pc[w] # "write" => fd[w] = "none"
        /\ pc[w] = "rename" => tmp = Saved(key[w], mem[StoreOf[w]])
        /\ pc[w] = "idle" => req[w] = {}
        /\ \A dep \in req[w] : req[w] = {dep} /\ dep \in DepositsIn(mem[StoreOf[w]])

\* What has been saved.
Kept ==
    /\ MainNeverPartial
    /\ acked \subseteq DepositsOnDisk
    /\ running => \A s \in Stores : DepositsOnDisk \subseteq DepositsIn(mem[s])

CallerInv == GuardInv /\ Saving /\ Kept

LEMMA CallerInit == Init => Saving /\ Kept
BY DEF Init, Saving, Kept, MainNeverPartial, DepositsOnDisk, Absent, FilePhases

\* The ledger's variables, with one instance.
LEMMA LedgerFacts ==
    ASSUME OneInstance
    PROVE  /\ \A s \in Stores : DepositsInMemory = DepositsIn(mem[s])
           /\ \A s \in Stores : DepositsInMemory' = DepositsIn(mem'[s])
BY DEF OneInstance, DepositsInMemory

LEMMA UpdatedDeposits ==
    ASSUME NEW d \in GoodData
    PROVE  /\ \A dep \in Deposit :
                  DepositsIn(WithDeposit(d, dep)) = DepositsIn(d) \cup {dep}
           /\ \A u, c : DepositsIn(WithUsage(d, u, c)) = DepositsIn(d)
           /\ \A u, c : DepositsIn(WithCharge(d, u, c)) = DepositsIn(d)
<1>1. d \in CreditStoreData /\ d.deposits \in Seq(Deposit)
  BY DEF GoodData, SoundData, CreditStoreData
<1>2. ASSUME NEW dep \in Deposit
      PROVE  DepositsIn(WithDeposit(d, dep)) = DepositsIn(d) \cup {dep}
  <2> DEFINE new == Append(d.deposits, dep)
  <2>1. /\ DOMAIN new = 1 .. Len(d.deposits) + 1
        /\ \A i \in 1 .. Len(d.deposits) : new[i] = d.deposits[i]
        /\ new[Len(d.deposits) + 1] = dep
        /\ DOMAIN d.deposits = 1 .. Len(d.deposits)
        /\ Len(d.deposits) \in Nat
    BY <1>1
  <2>2. WithDeposit(d, dep).deposits = new
    BY DEF WithDeposit
  <2> HIDE DEF new
  <2> QED
    BY <2>1, <2>2 DEF DepositsIn
<1>3. ASSUME NEW u, NEW c
      PROVE  /\ DepositsIn(WithUsage(d, u, c)) = DepositsIn(d)
             /\ DepositsIn(WithCharge(d, u, c)) = DepositsIn(d)
  <2>1. WithUsage(d, u, c).deposits = d.deposits /\ WithCharge(d, u, c).deposits = d.deposits
    BY <1>1 DEF WithUsage, WithCharge, CreditStoreData
  <2> QED
    BY <2>1 DEF DepositsIn
<1> QED
  BY <1>2, <1>3

\* A step that neither changes a file nor what is granted.
LEMMA LedgerStutters ==
    ASSUME UNCHANGED <<main, acked, running>>,
           \A s \in Stores : DepositsIn(mem'[s]) = DepositsIn(mem[s])
    PROVE  UNCHANGED Ledger!vars
<1>1. DepositsInMemory' = DepositsInMemory
  BY DEF DepositsInMemory
<1>2. DepositsOnDisk' = DepositsOnDisk
  BY DEF DepositsOnDisk
<1> QED
  BY <1>1, <1>2 DEF Ledger!vars

LEMMA CallerNext ==
    ASSUME OneCaller, CallerInv, [Next]_vars
    PROVE  (Saving /\ Kept)' /\ [Ledger!Next]_(Ledger!vars)
<1>0. /\ DepositWorkers \subseteq Workers /\ ChargeWorkers \subseteq Workers
      /\ mem \in [Stores -> GoodData] /\ snap \in [Workers -> GoodData]
      /\ pc \in [Workers -> Phases] /\ fd \in [Workers -> {"none", "tmp", "main", "gone"}]
      /\ req \in [Workers -> SUBSET Deposit]
      /\ \A w \in Workers : StoreOf[w] \in Stores /\ mem[StoreOf[w]] \in GoodData
      /\ \A v, w \in Workers : v = w
      /\ \A s \in Stores, w \in Workers : StoreOf[w] = s
      /\ \A w \in Workers : pc[w] # "idle" => running
      /\ OneInstance
  BY ConstantsAssumption
     DEF OneCaller, OneInstance, Workers, CallerInv, GuardInv, DownIsIdle, IInv, Control, Copies
<1>1. ASSUME NEW w \in DepositWorkers, NEW x \in Txs, NEW u \in Users,
             AddCredits(w, u, x)
      PROVE  (Saving /\ Kept)' /\ [Ledger!Next]_(Ledger!vars)
  <2> DEFINE dep == [user |-> u, tx |-> x, credits |-> TxCredits[x]]
             old == mem[StoreOf[w]]
             d == WithDeposit(old, dep)
  <2>1. dep \in Deposit /\ dep.tx = x /\ x \notin old.processed /\ old \in GoodData
    BY <1>0, <1>1, DepositFacts DEF AddCredits
  <2>2. /\ mem' = [mem EXCEPT ![StoreOf[w]] = d] /\ req' = [req EXCEPT ![w] = {dep}]
        /\ pc' = [pc EXCEPT ![w] = "persist"] /\ running /\ pc[w] = "idle"
        /\ UNCHANGED <<snap, fd, detached, tmp, main, acked, running>>
    BY <1>1 DEF AddCredits, CanWrite
  <2>3. DepositsIn(d) = DepositsIn(old) \cup {dep}
    <3> HIDE DEF dep
    <3> QED BY <2>1, UpdatedDeposits
  <2>4. \A g \in DepositsIn(old) : g.tx # dep.tx
    BY <2>1 DEF GoodData, SoundData, DataSound
  <2> HIDE DEF d, dep
  <2>5. /\ w \in Workers /\ \A v \in Workers : v = w
        /\ mem'[StoreOf[w]] = d /\ req'[w] = {dep} /\ pc'[w] = "persist"
        /\ \A s \in Stores : s = StoreOf[w]
    BY <1>0, <2>2
  <2>6. Saving'
    BY <2>2, <2>3, <2>5 DEF CallerInv, Saving, FilePhases
  <2>7. Kept'
    BY <2>2, <2>3, <2>5 DEF CallerInv, Kept, MainNeverPartial, DepositsOnDisk
  <2>8. DepositsInMemory = DepositsIn(old) /\ DepositsInMemory' = DepositsIn(d)
    BY <1>0, <2>5, LedgerFacts
  <2>9. DepositsOnDisk' = DepositsOnDisk
    BY <2>2 DEF DepositsOnDisk
  <2>10. Ledger!Grant(dep)
    BY <2>2, <2>3, <2>4, <2>8, <2>9 DEF Ledger!Grant
  <2> QED
    BY <2>1, <2>6, <2>7, <2>10 DEF Ledger!Next
<1>2. ASSUME NEW w \in Workers, NEW d, pc[w] = "idle",
             DepositsIn(d) = DepositsIn(mem[StoreOf[w]]),
             mem' = [mem EXCEPT ![StoreOf[w]] = d],
             pc' = [pc EXCEPT ![w] = "persist"] \/ pc' = pc,
             UNCHANGED <<req, snap, fd, detached, tmp, main, acked, running>>
      PROVE  (Saving /\ Kept)' /\ [Ledger!Next]_(Ledger!vars)
  <2>1. /\ \A v \in Workers : v = w
        /\ mem'[StoreOf[w]] = d /\ pc'[w] \in {"idle", "persist"}
        /\ \A s \in Stores : s = StoreOf[w]
    BY <1>0, <1>2
  <2>2. \A s \in Stores : DepositsIn(mem'[s]) = DepositsIn(mem[s])
    BY <1>2, <2>1
  <2>3. Saving'
    BY <1>2, <2>1 DEF CallerInv, Saving, FilePhases
  <2>4. Kept'
    BY <1>2, <2>2 DEF CallerInv, Kept, MainNeverPartial, DepositsOnDisk
  <2> QED
    BY <1>2, <2>2, <2>3, <2>4, LedgerStutters
<1>3. ASSUME NEW w \in ChargeWorkers, NEW u \in Users, NEW c \in ChargeAmounts,
             DeductCredits(w, u, c)
      PROVE  (Saving /\ Kept)' /\ [Ledger!Next]_(Ledger!vars)
  <2> DEFINE d == WithCharge(mem[StoreOf[w]], u, c)
  <2>1. mem' = [mem EXCEPT ![StoreOf[w]] = d]
    BY <1>3 DEF DeductCredits
  <2>2. DepositsIn(d) = DepositsIn(mem[StoreOf[w]])
    BY <1>0, UpdatedDeposits
  <2> HIDE DEF d
  <2> QED
    BY <1>0, <1>2, <1>3, <2>1, <2>2 DEF DeductCredits, CanWrite
<1>4. ASSUME NEW w \in ChargeWorkers, NEW u \in Users, ChargeUnknownUser(w, u)
      PROVE  (Saving /\ Kept)' /\ [Ledger!Next]_(Ledger!vars)
  <2> DEFINE d == WithUsage(mem[StoreOf[w]], u, 0)
  <2>1. mem' = [mem EXCEPT ![StoreOf[w]] = d]
    BY <1>4 DEF ChargeUnknownUser
  <2>2. DepositsIn(d) = DepositsIn(mem[StoreOf[w]])
    BY <1>0, UpdatedDeposits
  <2> HIDE DEF d
  <2> QED
    BY <1>0, <1>2, <1>4, <2>1, <2>2 DEF ChargeUnknownUser, CanWrite
<1>5. ASSUME UNCHANGED <<mem, main, acked, running>>, Saving'
      PROVE  (Saving /\ Kept)' /\ [Ledger!Next]_(Ledger!vars)
  <2>1. Kept'
    BY <1>5 DEF CallerInv, Kept, MainNeverPartial, DepositsOnDisk
  <2> QED
    BY <1>5, <2>1, LedgerStutters
<1>16. ASSUME NEW w \in Workers, LookUpKey(w) \/ KeyDerived(w)
       PROVE  (Saving /\ Kept)' /\ [Ledger!Next]_(Ledger!vars)
  <2>1. /\ \A v \in Workers : v = w
        /\ pc[w] \in {"persist", "asking"} /\ pc'[w] \in {"asking", "serialize"}
        /\ UNCHANGED <<mem, req, snap, fd, tmp, main, acked, running>>
    BY <1>0, <1>16 DEF LookUpKey, KeyDerived
  <2>2. Saving'
    BY <2>1 DEF CallerInv, Saving, FilePhases
  <2> QED
    BY <1>5, <2>1, <2>2
<1>6. ASSUME NEW w \in Workers, Serialize(w)
      PROVE  (Saving /\ Kept)' /\ [Ledger!Next]_(Ledger!vars)
  <2>1. /\ \A v \in Workers : v = w
        /\ snap'[w] = mem[StoreOf[w]] /\ pc[w] = "serialize" /\ pc'[w] = "open"
        /\ UNCHANGED <<mem, req, fd, tmp, main, acked, running>>
    BY <1>0, <1>6 DEF Serialize
  <2>2. Saving'
    BY <2>1 DEF CallerInv, Saving, FilePhases
  <2> QED
    BY <1>5, <2>1, <2>2
<1>7. ASSUME NEW w \in Workers, OpenTmp(w)
      PROVE  (Saving /\ Kept)' /\ [Ledger!Next]_(Ledger!vars)
  <2>1. /\ \A v \in Workers : v = w
        /\ tmp' = Empty /\ fd'[w] = "tmp" /\ pc[w] = "open" /\ pc'[w] = "write"
        /\ UNCHANGED <<mem, req, snap, main, acked, running>>
    BY <1>0, <1>7 DEF OpenTmp
  <2>2. Saving'
    BY <2>1 DEF CallerInv, Saving, FilePhases
  <2> QED
    BY <1>5, <2>1, <2>2
<1>8. ASSUME NEW w \in Workers, EndRequest(w), fd'[w] = "none", UNCHANGED mem
      PROVE  Saving'
  <2>1. \A v \in Workers : v = w
    BY <1>0
  <2>2. pc'[w] = "idle" /\ req'[w] = {}
    BY <1>0, <1>8 DEF EndRequest
  <2> QED
    BY <1>8, <2>1, <2>2 DEF Saving, FilePhases
<1>9. ASSUME NEW w \in Workers, WriteTmp(w)
      PROVE  (Saving /\ Kept)' /\ [Ledger!Next]_(Ledger!vars)
  <2>1. /\ pc[w] = "write" /\ fd[w] = "tmp" /\ tmp = Empty
        /\ snap[w] = mem[StoreOf[w]]
    BY <1>9 DEF WriteTmp, CallerInv, Saving, FilePhases
  <2>2. OpenFile(w) = Empty
    BY <2>1 DEF OpenFile
  <2>3. tmp' = Saved(key[w], mem[StoreOf[w]]) /\ main' = main
    BY <1>9, <2>1, <2>2 DEF WriteTmp, WriteOutcome, PutFile, Empty
  <2>4. fd'[w] = "none" /\ UNCHANGED <<mem, acked, running>>
    BY <1>0, <1>9 DEF WriteTmp
  <2>5. CASE w \in detached
    BY <1>5, <1>8, <1>9, <2>3, <2>4, <2>5 DEF WriteTmp
  <2>6. CASE w \notin detached
    <3>1. /\ \A v \in Workers : v = w
          /\ pc'[w] = "rename" /\ UNCHANGED <<req, key, snap>>
      BY <1>0, <1>9, <2>6 DEF WriteTmp
    <3>2. Saving'
      BY <2>1, <2>3, <2>4, <3>1 DEF CallerInv, Saving, FilePhases
    <3> QED
      BY <1>5, <2>3, <2>4, <3>2
  <2> QED
    BY <2>5, <2>6
<1>10. ASSUME NEW w \in Workers, RenameTmp(w)
       PROVE  (Saving /\ Kept)' /\ [Ledger!Next]_(Ledger!vars)
  <2>1. /\ pc[w] = "rename" /\ tmp = Saved(key[w], mem[StoreOf[w]]) /\ fd[w] = "none"
        /\ \A dep \in req[w] : req[w] = {dep} /\ dep \in DepositsIn(mem[StoreOf[w]])
    BY <1>10 DEF RenameTmp, CallerInv, Saving
  <2>2. tmp.kind = "data"
    BY <2>1 DEF Saved
  <2>3. /\ main' = tmp /\ fd' = [v \in Workers |-> RenamedTo[fd[v]]]
        /\ acked' \in {acked, acked \cup req[w]}
        /\ EndRequest(w) /\ UNCHANGED <<mem, running>>
    BY <1>10, <2>2 DEF RenameTmp, Publish
  <2>4. fd'[w] = "none"
    BY <2>1, <2>3 DEF RenamedTo
  <2>5. Saving'
    BY <1>8, <2>3, <2>4
  <2>6. /\ DepositsOnDisk' = DepositsIn(mem[StoreOf[w]])
        /\ \A s \in Stores : s = StoreOf[w]
        /\ running
    BY <1>0, <2>1, <2>3 DEF DepositsOnDisk, Saved
  <2>7. acked \subseteq DepositsIn(mem[StoreOf[w]])
    BY <1>0, <2>6 DEF CallerInv, Kept
  <2>8. Kept'
    BY <2>1, <2>2, <2>3, <2>6, <2>7 DEF Kept, MainNeverPartial
  <2>9. /\ DepositsInMemory = DepositsIn(mem[StoreOf[w]])
        /\ DepositsInMemory' = DepositsInMemory
    BY <1>0, <2>3, LedgerFacts
  <2>10. acked' = acked \/ \E dep \in DepositsInMemory : acked' = acked \cup {dep}
    <3>1. CASE req[w] = {}
      BY <2>3, <3>1
    <3>2. CASE req[w] # {}
      BY <2>1, <2>3, <2>9, <3>2
    <3> QED
      BY <3>1, <3>2
  <2>11. Ledger!Save
    BY <2>3, <2>6, <2>9, <2>10 DEF Ledger!Save
  <2> QED
    BY <2>5, <2>8, <2>11 DEF Ledger!Next
<1>11. ASSUME NEW w \in Workers, PersistFails(w)
       PROVE  (Saving /\ Kept)' /\ [Ledger!Next]_(Ledger!vars)
  <2>1. /\ fd'[w] = "none" /\ EndRequest(w) /\ UNCHANGED <<mem, acked, running>>
    BY <1>0, <1>11 DEF PersistFails
  <2>2. main' = main
    BY <1>11 DEF PersistFails, PutFile, CallerInv, Saving
  <2> QED
    BY <1>5, <1>8, <2>1, <2>2
<1>12. ASSUME NEW w \in DepositWorkers, Disconnect(w)
       PROVE  (Saving /\ Kept)' /\ [Ledger!Next]_(Ledger!vars)
  <2>1. w \in Workers /\ UNCHANGED <<mem, fd, tmp, main, acked, running>>
    BY <1>0, <1>12 DEF Disconnect
  <2>2. CASE pc[w] \in PersistPhases \ {"write"} /\ EndRequest(w)
    <3>1. fd'[w] = "none"
      BY <2>1, <2>2 DEF CallerInv, Saving
    <3> QED
      BY <1>5, <1>8, <2>1, <2>2, <3>1
  <2>3. CASE UNCHANGED <<pc, req, key, snap>>
    <3>1. Saving'
      BY <2>1, <2>3 DEF CallerInv, Saving
    <3> QED
      BY <1>5, <2>1, <3>1
  <2> QED
    BY <1>12, <2>2, <2>3 DEF Disconnect
<1>13. ASSUME Crash
       PROVE  (Saving /\ Kept)' /\ [Ledger!Next]_(Ledger!vars)
  <2>1. /\ running /\ running' = FALSE /\ acked' = acked
        /\ \A s \in Stores : mem'[s] = FreshData
        /\ \A w \in Workers : pc'[w] = "idle" /\ req'[w] = {} /\ fd'[w] = "none"
    BY <1>13 DEF Crash
  <2>2. main' = main
    BY <1>13 DEF Crash, PutFile, CallerInv, Saving
  <2>3. DepositsInMemory' = {}
    <3>1. DepositsIn(FreshData) = {}
      BY DEF DepositsIn, FreshData
    <3>2. PICK s : Stores = {s}
      BY <1>0 DEF OneInstance
    <3>3. DepositsInMemory' = DepositsIn(mem'[s]) /\ mem'[s] = FreshData
      BY <1>0, <2>1, <3>2, LedgerFacts
    <3> QED
      BY <3>1, <3>3
  <2>4. DepositsOnDisk' = DepositsOnDisk
    BY <2>2 DEF DepositsOnDisk
  <2>5. Ledger!Crash
    BY <2>1, <2>3, <2>4 DEF Ledger!Crash
  <2>6. Saving'
    BY <2>1 DEF Saving, FilePhases
  <2>7. Kept'
    BY <2>1, <2>2, <2>4 DEF CallerInv, Kept, MainNeverPartial
  <2> QED
    BY <2>5, <2>6, <2>7 DEF Ledger!Next
<1>14. ASSUME Restart
       PROVE  (Saving /\ Kept)' /\ [Ledger!Next]_(Ledger!vars)
  <2>1. /\ ~running /\ running' = TRUE
        /\ \A s \in Stores : mem'[s] = Loaded(main)
        /\ UNCHANGED <<pc, req, fd, tmp, main, acked>>
    BY <1>14 DEF Restart
  <2>2. \A w \in Workers : pc[w] = "idle"
    BY <1>0, <2>1
  <2>3. DepositsIn(Loaded(main)) = DepositsOnDisk /\ DepositsOnDisk' = DepositsOnDisk
    BY <2>1 DEF Loaded, DepositsOnDisk, DepositsIn, FreshData
  <2>4. DepositsInMemory' = DepositsOnDisk
    BY <1>0, <2>1, <2>3, LedgerFacts DEF OneInstance
  <2>5. Ledger!Recover
    BY <2>1, <2>3, <2>4 DEF Ledger!Recover
  <2>6. Kept'
    BY <2>1, <2>3 DEF CallerInv, Kept, MainNeverPartial
  <2>7. \A w \in Workers : req[w] = {}
    BY <2>2 DEF CallerInv, Saving
  <2>8. Saving'
    BY <2>1, <2>2, <2>7 DEF CallerInv, Saving, FilePhases
  <2> QED
    BY <2>5, <2>6, <2>8 DEF Ledger!Next
<1>15. CASE UNCHANGED vars
  <2>1. Saving'
    BY <1>15 DEF vars, CallerInv, Saving
  <2> QED
    BY <1>5, <1>15, <2>1 DEF vars
<1> QED
  BY <1>1, <1>3, <1>4, <1>6, <1>7, <1>9, <1>10, <1>11, <1>12, <1>13, <1>14, <1>15,
     <1>16
     DEF Next, PersistStep, RefuseDuplicate, RefuseCharge, StartFails

LEMMA CallerInvariant ==
    ASSUME OneCaller
    PROVE  Spec => []CallerInv
<1>1. Init => CallerInv
  BY IInvInit, GuardInit, CallerInit DEF CallerInv, GuardInv
<1>2. CallerInv /\ [Next]_vars => CallerInv'
  BY IInvNext, GuardNext, CallerNext DEF CallerInv, GuardInv
<1> QED
  BY <1>1, <1>2, PTL DEF Spec

\* One instance with one caller: whoever opens the file finds a whole store or
\* none, whatever fails, is cut off or dies in the middle of a save.
THEOREM FileIsWhole ==
    ASSUME OneCaller
    PROVE  Spec => []MainNeverPartial
<1>1. CallerInv => MainNeverPartial
  BY DEF CallerInv, Kept
<1> QED
  BY <1>1, CallerInvariant, PTL

\* A file that holds a confirmed deposit is never replaced by one without it.
THEOREM ConfirmedIsSaved ==
    ASSUME OneCaller
    PROVE  Spec => []AckedNotOverwritten
<1>1. CallerInv => AckedNotOverwritten
  BY DEF CallerInv, Kept, AckedNotOverwritten, DepositsOnDisk
<1> QED
  BY <1>1, CallerInvariant, PTL

\* Every step of the store is a grant, a save, a crash or a recovery of the
\* ledger, or changes nothing of it.
THEOREM StoreKeepsLedger ==
    ASSUME OneCaller
    PROVE  Spec => ImplementsLedger
<1>1. Init => Ledger!Init
  BY DEF Init, Ledger!Init, DepositsInMemory, DepositsOnDisk, DepositsIn, FreshData, Absent,
         OneCaller, OneInstance
<1>2. CallerInv /\ [Next]_vars => [Ledger!Next]_(Ledger!vars)
  BY CallerNext
<1> QED
  BY <1>1, <1>2, CallerInvariant, PTL DEF Spec, ImplementsLedger, Ledger!Spec

-----------------------------------------------------------------------------
(* What the ledger promises follows from its own steps, and the store with  *)
(* one caller promises the same.                                            *)

LedgerPromise == /\ Ledger!ConfirmedIsDurable
                 /\ Ledger!DurableIsGranted
                 /\ Ledger!GrantedOnce

\* The abstract ledger is what it is meant to be: a confirmed deposit is durable,
\* a durable one is counted whenever the program is up, and no transaction is
\* granted or saved twice.
THEOREM LedgerKeepsItsPromise == Ledger!Spec => []LedgerPromise
<1> USE DEF LedgerPromise, Ledger!ConfirmedIsDurable, Ledger!DurableIsGranted,
            Ledger!GrantedOnce
<1>1. Ledger!Init => LedgerPromise
  BY DEF Ledger!Init
<1>2. LedgerPromise /\ [Ledger!Next]_(Ledger!vars) => LedgerPromise'
  <2> SUFFICES ASSUME LedgerPromise, [Ledger!Next]_(Ledger!vars)
               PROVE  LedgerPromise'
    OBVIOUS
  <2>1. ASSUME NEW dep \in Deposit, Ledger!Grant(dep)
        PROVE  LedgerPromise'
    BY <2>1 DEF Ledger!Grant
  <2>2. CASE Ledger!Save
    BY <2>2 DEF Ledger!Save
  <2>3. CASE Ledger!Crash
    BY <2>3 DEF Ledger!Crash
  <2>4. CASE Ledger!Recover
    BY <2>4 DEF Ledger!Recover
  <2>5. CASE UNCHANGED Ledger!vars
    BY <2>5 DEF Ledger!vars
  <2> QED
    BY <2>1, <2>2, <2>3, <2>4, <2>5 DEF Ledger!Next
<1> QED
  BY <1>1, <1>2, PTL DEF Ledger!Spec

\* The store with one caller inherits the promise: it never confirms what it has
\* not saved, never runs without what it has saved, and never holds or saves two
\* deposits of one transaction, whatever fails or dies.
THEOREM StoreKeepsPromise ==
    ASSUME OneCaller
    PROVE  Spec => []LedgerPromise
BY StoreKeepsLedger, LedgerKeepsItsPromise, PTL DEF ImplementsLedger

-----------------------------------------------------------------------------
(* One instance with any number of callers, whose saves may fail and whose  *)
(* files are torn by each other, in a program that does not die: memory     *)
(* holds everything that is being confirmed, and only memory is published.  *)

NoCrashes == MaxFaults["crash"] = 0

\* What was confirmed or is about to be is in memory.
Remembered ==
    /\ running
    /\ \A w \in Workers : req[w] \subseteq DepositsIn(mem[StoreOf[w]])
    /\ \A s \in Stores : acked \subseteq DepositsIn(mem[s])

\* A step that publishes what memory holds, or leaves the file as it is.
Publishes ==
    main'.kind = "data" =>
        \/ main' = main /\ acked' = acked
        \/ \E s \in Stores : main'.data = mem[s] /\ mem'[s] = mem[s]

LEMMA RememberedNext ==
    ASSUME OneInstance, NoCrashes, GuardInv, Remembered, [Next]_vars
    PROVE  Remembered'
<1>0. /\ DepositWorkers \subseteq Workers /\ ChargeWorkers \subseteq Workers
      /\ mem \in [Stores -> GoodData] /\ req \in [Workers -> SUBSET Deposit]
      /\ \A w \in Workers : StoreOf[w] \in Stores /\ mem[StoreOf[w]] \in GoodData
      /\ \A s \in Stores, w \in Workers : StoreOf[w] = s
  BY ConstantsAssumption DEF OneInstance, Workers, GuardInv, IInv, Control, Copies
<1>1. ASSUME NEW w \in Workers, NEW d, NEW new,
             DepositsIn(d) = DepositsIn(mem[StoreOf[w]]) \cup new,
             mem' = [mem EXCEPT ![StoreOf[w]] = d],
             req' = [req EXCEPT ![w] = new] \/ req' = req,
             UNCHANGED <<acked, running>>
      PROVE  Remembered'
  <2>1. mem'[StoreOf[w]] = d /\ \A v \in Workers : StoreOf[v] = StoreOf[w]
    BY <1>0, <1>1
  <2>2. \A s \in Stores : mem'[s] = d /\ DepositsIn(mem[s]) \subseteq DepositsIn(d)
    BY <1>0, <1>1, <2>1
  <2>3. \A v \in Workers : req'[v] \subseteq DepositsIn(d)
    BY <1>0, <1>1, <2>2 DEF Remembered
  <2> QED
    BY <1>0, <1>1, <2>2, <2>3 DEF Remembered
<1>2. ASSUME NEW w \in DepositWorkers, NEW x \in Txs, NEW u \in Users,
             AddCredits(w, u, x)
      PROVE  Remembered'
  <2> DEFINE dep == [user |-> u, tx |-> x, credits |-> TxCredits[x]]
             d == WithDeposit(mem[StoreOf[w]], dep)
  <2>1. /\ mem' = [mem EXCEPT ![StoreOf[w]] = d] /\ req' = [req EXCEPT ![w] = {dep}]
        /\ UNCHANGED <<acked, running>> /\ dep \in Deposit
    BY <1>2, DepositFacts DEF AddCredits
  <2>2. DepositsIn(d) = DepositsIn(mem[StoreOf[w]]) \cup {dep}
    <3> HIDE DEF dep
    <3> QED BY <1>0, <2>1, UpdatedDeposits
  <2> HIDE DEF d, dep
  <2> QED
    BY <1>0, <1>1, <2>1, <2>2
<1>3. ASSUME NEW w \in ChargeWorkers, NEW u \in Users, NEW c \in ChargeAmounts,
             DeductCredits(w, u, c)
      PROVE  Remembered'
  <2> DEFINE d == WithCharge(mem[StoreOf[w]], u, c)
  <2>1. mem' = [mem EXCEPT ![StoreOf[w]] = d] /\ UNCHANGED <<req, acked, running>>
    BY <1>3 DEF DeductCredits
  <2>2. DepositsIn(d) = DepositsIn(mem[StoreOf[w]]) \cup {}
    BY <1>0, UpdatedDeposits
  <2> HIDE DEF d
  <2> QED
    BY <1>0, <1>1, <2>1, <2>2
<1>4. ASSUME NEW w \in ChargeWorkers, NEW u \in Users, ChargeUnknownUser(w, u)
      PROVE  Remembered'
  <2> DEFINE d == WithUsage(mem[StoreOf[w]], u, 0)
  <2>1. mem' = [mem EXCEPT ![StoreOf[w]] = d] /\ UNCHANGED <<req, acked, running>>
    BY <1>4 DEF ChargeUnknownUser
  <2>2. DepositsIn(d) = DepositsIn(mem[StoreOf[w]]) \cup {}
    BY <1>0, UpdatedDeposits
  <2> HIDE DEF d
  <2> QED
    BY <1>0, <1>1, <2>1, <2>2
<1>5. ASSUME UNCHANGED <<mem, running>>,
             \A w \in Workers : req'[w] \subseteq req[w],
             acked' = acked \/ \E w \in Workers : acked' = acked \cup req[w]
      PROVE  Remembered'
  BY <1>0, <1>5 DEF Remembered
<1>6. ASSUME NEW w \in Workers, EndRequest(w)
      PROVE  \A v \in Workers : req'[v] \subseteq req[v]
  BY <1>0, <1>6 DEF EndRequest
<1>7. ASSUME NEW w \in Workers, PersistStep(w) \/ PersistFails(w)
      PROVE  Remembered'
  <2>1. CASE LookUpKey(w) \/ KeyDerived(w) \/ Serialize(w) \/ OpenTmp(w)
    BY <1>5, <2>1 DEF LookUpKey, KeyDerived, Serialize, OpenTmp
  <2>2. CASE WriteTmp(w)
    BY <1>5, <1>6, <2>2 DEF WriteTmp
  <2>3. CASE RenameTmp(w)
    BY <1>5, <1>6, <2>3 DEF RenameTmp
  <2>4. CASE PersistFails(w)
    BY <1>5, <1>6, <2>4 DEF PersistFails
  <2> QED
    BY <1>7, <2>1, <2>2, <2>3, <2>4 DEF PersistStep
<1>8. ASSUME NEW w \in DepositWorkers, Disconnect(w)
      PROVE  Remembered'
  BY <1>0, <1>5, <1>6, <1>8 DEF Disconnect
<1>9. ~Crash /\ ~Restart /\ ~StartFails
  BY DEF Crash, Restart, StartFails, Remembered, Fault, NoCrashes,
         GuardInv, IInv, Control, FaultKinds
<1>10. CASE UNCHANGED vars
  BY <1>5, <1>10 DEF vars
<1> QED
  BY <1>2, <1>3, <1>4, <1>7, <1>8, <1>9, <1>10 DEF Next, RefuseDuplicate, RefuseCharge

LEMMA FilePublishes ==
    ASSUME NoHangUps, NoCrashes, GuardInv, FileInv, Remembered, [Next]_vars
    PROVE  Publishes
<1>0. /\ DepositWorkers \subseteq Workers /\ ChargeWorkers \subseteq Workers
      /\ \A w \in Workers : StoreOf[w] \in Stores
  BY ConstantsAssumption DEF Workers
<1>1. ASSUME UNCHANGED <<main, acked>>
      PROVE  Publishes
  BY <1>1 DEF Publishes
<1>2. ASSUME NEW w \in Workers, WriteTmp(w)
      PROVE  Publishes
  <2>1. snap[w] = mem[StoreOf[w]] /\ mem' = mem /\ acked' = acked
    BY <1>2 DEF WriteTmp, FileInv, GuardInv, SnapshotCurrent, FilePhases
  <2>2. PICK f \in WriteOutcome(OpenFile(w), Saved(key[w], snap[w])) : PutFile(w, f)
    BY <1>2 DEF WriteTmp
  <2>3. f.kind = "data" => f.data = mem[StoreOf[w]]
    BY <2>1 DEF WriteOutcome, Saved, Torn
  <2> QED
    BY <1>0, <2>1, <2>2, <2>3 DEF PutFile, Publishes
<1>3. ASSUME NEW w \in Workers, RenameTmp(w)
      PROVE  Publishes
  <2>1. /\ pc[w] = "rename" /\ mem' = mem
        /\ main' = tmp \/ (main' = main /\ acked' = acked)
    BY <1>3 DEF RenameTmp, Publish
  <2>2. tmp.kind = "data" => tmp.data = mem[StoreOf[w]]
    BY <2>1 DEF FileInv
  <2> QED
    BY <1>0, <2>1, <2>2 DEF Publishes
<1>4. ASSUME NEW w \in Workers, PersistFails(w)
      PROVE  Publishes
  <2>1. acked' = acked /\ main' \in {main, Torn}
    BY <1>4 DEF PersistFails, PutFile
  <2> QED
    BY <2>1 DEF Publishes, Torn
<1>5. ~Crash
  BY DEF Crash, Fault, NoCrashes, GuardInv, IInv, Control, FaultKinds
<1> QED
  BY <1>0, <1>1, <1>2, <1>3, <1>4, <1>5
     DEF Next, PersistStep, AddCredits, RefuseDuplicate, DeductCredits, RefuseCharge,
         ChargeUnknownUser, LookUpKey, KeyDerived, Serialize, OpenTmp, Disconnect, Restart, StartFails, vars

\* With one instance, any number of concurrent callers who wait for their answers
\* and any number of failed saves, a program that does not die keeps every confirmed
\* deposit in whatever whole file storage_path names: callers may publish or tear each
\* other's temporary file, but never an older memory.
THEOREM ConcurrentSavesKeepConfirmed ==
    ASSUME OneInstance, NoHangUps, NoCrashes
    PROVE  Spec => []AckedNotOverwritten
<1> DEFINE Inv == GuardInv /\ FileInv /\ Remembered /\ AckedNotOverwritten
<1>1. Init => Inv
  <2>1. Init => Remembered /\ AckedNotOverwritten
    BY DEF Init, Remembered, AckedNotOverwritten, Absent
  <2> QED
    BY <2>1, IInvInit, GuardInit, FileInit DEF GuardInv
<1>2. Inv /\ [Next]_vars => Inv'
  <2> SUFFICES ASSUME Inv, [Next]_vars
               PROVE  Inv'
    OBVIOUS
  <2>1. GuardInv' /\ FileInv' /\ Remembered' /\ Publishes
    BY IInvNext, GuardNext, FileNext, RememberedNext, FilePublishes DEF GuardInv
  <2>2. AckedNotOverwritten'
    BY <2>1 DEF Publishes, Remembered, AckedNotOverwritten
  <2> QED
    BY <2>1, <2>2
<1>3. Inv => AckedNotOverwritten
  OBVIOUS
<1> QED
  BY <1>1, <1>2, <1>3, PTL DEF Spec

=============================================================================
