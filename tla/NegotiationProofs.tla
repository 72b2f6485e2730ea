-------------------------- MODULE NegotiationProofs --------------------------
(***************************************************************************)
(* Type correctness, credible forgetting and the fairness of outcomes, for *)
(* any people, names, offers and number of negotiations.                   *)
(*                                                                         *)
(* The strengthening ties an open negotiation to what was said in it: as   *)
(* long as it waits there is no price, at most one of the two offers, and  *)
(* the offers in it are the ones the parties made.                         *)
(***************************************************************************)
EXTENDS NegotiationBargain, SequenceTheorems, TLAPS

Waiting(n, offers) ==
    /\ n.deal_price = {}
    /\ n.initiator_offer = {} \/ n.counterparty_offer = {}
    /\ PersonOf[n.initiator] # PersonOf[n.counterparty] =>
          offers = {<<PersonOf[n.initiator], a>> : a \in n.initiator_offer}
                       \cup {<<PersonOf[n.counterparty], b>> : b \in n.counterparty_offer}

Erased(n) == n.initiator_offer = {} /\ n.counterparty_offer = {} /\ n.deal_price = {}

Fair(n, offers) ==
    PersonOf[n.initiator] # PersonOf[n.counterparty] =>
        \E a, b \in Offers :
            /\ offers = {<<PersonOf[n.initiator], a>>, <<PersonOf[n.counterparty], b>>}
            /\ (n.status = "deal") <=> AtLeast(b, a)
            /\ \A price \in n.deal_price : a <= price /\ price <= b

Sound(n, offers) ==
    /\ n.status = "waiting" => Waiting(n, offers)
    /\ n.status \in {"no_deal", "cancelled"} => Erased(n)
    /\ n.status \in {"deal", "no_deal"} => Fair(n, offers)

IInv == TypeOK /\ \A id \in DOMAIN negotiations : Sound(negotiations[id], said[id])

-----------------------------------------------------------------------------
(* Lemmas about the operators. *)

LEMMA MatchesPerson ==
    ASSUME NEW s \in Senders, NEW p \in Identities, Matches(s, p)
    PROVE  PersonOf[s.source] = PersonOf[p]
BY NegotiationAssumption DEF Matches

LEMMA SourceType ==
    ASSUME NEW s \in Senders
    PROVE  s.source \in Identities /\ PersonOf[s.source] \in People
BY NegotiationAssumption DEF Sender

LEMMA MidpointBetween ==
    ASSUME NEW a \in Offers, NEW b \in Offers, AtLeast(b, a)
    PROVE  /\ Midpoint(a, b) \in Nat
           /\ a <= Midpoint(a, b) /\ Midpoint(a, b) <= b
<1>1. a \in Nat /\ b \in Nat /\ a <= b
  BY NegotiationAssumption DEF AtLeast, Offers
<1>2. NotANumber \notin {a, b}
  BY DEF AtLeast
<1>3. Midpoint(a, b) = (a + b) \div 2
  BY <1>2 DEF Midpoint
<1> QED BY <1>1, <1>3

LEMMA ForgottenType ==
    ASSUME NEW n \in NegotiationRecord, NEW status \in {"no_deal", "cancelled"},
           n.deal_price = {}
    PROVE  /\ Forgotten(n, status) \in NegotiationRecord
           /\ Erased(Forgotten(n, status))
           /\ Forgotten(n, status).status = status
           /\ Forgotten(n, status).initiator = n.initiator
           /\ Forgotten(n, status).counterparty = n.counterparty
BY DEF Forgotten, NegotiationRecord, Option, Statuses, Erased

\* An outcome is sound once both offers are known and were said.
LEMMA EvaluatedSound ==
    ASSUME NEW n \in NegotiationRecord, NEW offers,
           NEW a \in Offers, NEW b \in Offers,
           n.deal_price = {},
           PersonOf[n.initiator] # PersonOf[n.counterparty] =>
              offers = {<<PersonOf[n.initiator], a>>, <<PersonOf[n.counterparty], b>>}
    PROVE  /\ Evaluated(n, a, b) \in NegotiationRecord
           /\ Sound(Evaluated(n, a, b), offers)
<1>1. CASE AtLeast(b, a)
  <2> DEFINE d == Agreed(n, Midpoint(a, b))
  <2>1. Midpoint(a, b) \in Nat /\ a <= Midpoint(a, b) /\ Midpoint(a, b) <= b
    BY <1>1, MidpointBetween
  <2>2. /\ d.initiator = n.initiator /\ d.counterparty = n.counterparty
        /\ d.deal_price = {Midpoint(a, b)} /\ d.status = "deal"
    BY DEF Agreed
  <2>3. {Midpoint(a, b)} \in Option(Nat)
    BY <2>1 DEF Option
  <2>4. d \in NegotiationRecord
    BY <2>3 DEF Agreed, NegotiationRecord, Statuses
  <2>5. Evaluated(n, a, b) = d
    BY <1>1 DEF Evaluated
  <2> HIDE DEF d
  <2>6. Fair(d, offers)
    BY <1>1, <2>1, <2>2 DEF Fair
  <2> QED BY <2>2, <2>4, <2>5, <2>6 DEF Sound
<1>2. CASE ~AtLeast(b, a)
  <2> DEFINE d == Forgotten(n, "no_deal")
  <2>1. /\ d \in NegotiationRecord /\ Erased(d) /\ d.status = "no_deal"
        /\ d.initiator = n.initiator /\ d.counterparty = n.counterparty
    BY ForgottenType
  <2>2. Evaluated(n, a, b) = d
    BY <1>2 DEF Evaluated
  <2> HIDE DEF d
  <2>3. Fair(d, offers)
    BY <1>2, <2>1 DEF Fair, Erased
  <2> QED BY <2>1, <2>2, <2>3 DEF Sound
<1> QED BY <1>1, <1>2

\* A step that replaces one negotiation by a sound one preserves the invariant.
LEMMA UpdatePreserves ==
    ASSUME IInv, NEW id \in DOMAIN negotiations, NEW n \in NegotiationRecord,
           NEW offers \in SUBSET (People \X Offers),
           Updated(id, n),
           said' = [said EXCEPT ![id] = offers],
           Sound(n, offers)
    PROVE  IInv'
<1>1. /\ negotiations \in Seq(NegotiationRecord)
      /\ said \in [DOMAIN negotiations -> SUBSET (People \X Offers)]
  BY DEF IInv, TypeOK
<1>2. negotiations' = [negotiations EXCEPT ![id] = n]
  BY DEF Updated
<1>3. negotiations' \in Seq(NegotiationRecord) /\ DOMAIN negotiations' = DOMAIN negotiations
  BY <1>1, <1>2
<1>4. TypeOK'
  BY <1>1, <1>3 DEF TypeOK
<1>5. ASSUME NEW i \in DOMAIN negotiations
      PROVE  Sound(negotiations'[i], said'[i])
  <2>1. CASE i = id
    BY <2>1, <1>1, <1>2
  <2>2. CASE i # id
    <3>1. negotiations'[i] = negotiations[i] /\ said'[i] = said[i]
      BY <2>2, <1>1, <1>2
    <3> QED BY <3>1 DEF IInv
  <2> QED BY <2>1, <2>2
<1> QED BY <1>3, <1>4, <1>5 DEF IInv

-----------------------------------------------------------------------------
LEMMA NegotiatePreserves ==
    ASSUME IInv, NEW s \in Senders, NEW other \in Numbers, Negotiate(s, other)
    PROVE  IInv'
<1> DEFINE n == Opened(s.source, other)
<1>1. /\ negotiations \in Seq(NegotiationRecord)
      /\ said \in [DOMAIN negotiations -> SUBSET (People \X Offers)]
  BY DEF IInv, TypeOK
<1>2. n \in NegotiationRecord
  BY SourceType, NegotiationAssumption DEF Opened, NegotiationRecord, Option, Statuses
<1>3. /\ n.status = "waiting" /\ n.deal_price = {}
      /\ n.initiator_offer = {} /\ n.counterparty_offer = {}
  BY DEF Opened
<1>4. negotiations' = Append(negotiations, n)
  BY DEF Negotiate
<1> HIDE DEF n
<1>5. Sound(n, {})
  BY <1>3 DEF Sound, Waiting
<1>6. DOMAIN said = 1 .. Len(negotiations)
  BY <1>1
<1>7. said \in Seq(SUBSET (People \X Offers))
  BY <1>1, <1>6, LenProperties, SeqDef
<1>8. Len(said) = Len(negotiations)
  BY <1>1, <1>6, <1>7
<1>9. said' = Append(said, {})
  BY DEF Negotiate
<1>10. TypeOK'
  <2>1. /\ negotiations' \in Seq(NegotiationRecord)
        /\ DOMAIN negotiations' = 1 .. Len(negotiations) + 1
    BY <1>1, <1>2, <1>4
  <2>2. /\ said' \in Seq(SUBSET (People \X Offers))
        /\ DOMAIN said' = 1 .. Len(negotiations) + 1
    BY <1>7, <1>8, <1>9
  <2>4. said' \in [DOMAIN negotiations' -> SUBSET (People \X Offers)]
    BY <2>1, <2>2
  <2> QED BY <2>1, <2>4 DEF TypeOK
<1>11. ASSUME NEW i \in DOMAIN negotiations'
       PROVE  Sound(negotiations'[i], said'[i])
  <2>1. CASE i = Len(negotiations) + 1
    BY <2>1, <1>1, <1>2, <1>4, <1>5, <1>7, <1>8, <1>9
  <2>2. CASE i \in 1 .. Len(negotiations)
    <3>1. negotiations'[i] = negotiations[i] /\ said'[i] = said[i]
      BY <2>2, <1>1, <1>2, <1>4, <1>7, <1>8, <1>9
    <3> QED BY <2>2, <3>1, <1>1 DEF IInv
  <2>3. i \in 1 .. Len(negotiations) + 1
    BY <1>1, <1>2, <1>4
  <2> QED BY <2>1, <2>2, <2>3, <1>1
<1> QED BY <1>10, <1>11 DEF IInv
LEMMA FirstOfferPreserves ==
    ASSUME IInv, NEW s \in Senders, NEW id \in DOMAIN negotiations, NEW amount \in Offers,
           SubmitOffer(s, id, amount), FirstOffer(s, id, amount)
    PROVE  IInv'
<1> DEFINE n == negotiations[id]
           offers == said[id] \cup {<<PersonOf[s.source], amount>>}
<1>1. /\ n \in NegotiationRecord
      /\ said[id] \in SUBSET (People \X Offers)
  BY DEF IInv, TypeOK
<1>2. n.status = "waiting" /\ Waiting(n, said[id])
  BY DEF IInv, Sound, SubmitOffer
<1>3. PersonOf[s.source] \in People
  BY SourceType
<1>4. offers \in SUBSET (People \X Offers)
  BY <1>1, <1>3
<1>5. said' = [said EXCEPT ![id] = offers]
  BY DEF SubmitOffer
<1>7. {amount} \in Option(Offers)
  BY DEF Option
<1>8. n.initiator \in Identities /\ n.counterparty \in Identities
  BY <1>1 DEF NegotiationRecord
<1>9. CASE /\ Matches(s, n.initiator)
           /\ n.initiator_offer = {} /\ n.counterparty_offer = {}
           /\ Updated(id, [n EXCEPT !.initiator_offer = {amount}])
  <2> DEFINE d == [n EXCEPT !.initiator_offer = {amount}]
  <2>1. d \in NegotiationRecord
    BY <1>1, <1>7 DEF NegotiationRecord
  <2>2. /\ d.initiator = n.initiator /\ d.counterparty = n.counterparty
        /\ d.initiator_offer = {amount} /\ d.counterparty_offer = {}
        /\ d.deal_price = {} /\ d.status = "waiting"
    BY <1>1, <1>2, <1>9 DEF NegotiationRecord, Waiting
  <2>3. PersonOf[s.source] = PersonOf[n.initiator]
    BY <1>8, <1>9, MatchesPerson
  <2> HIDE DEF d
  <2>4. Sound(d, offers)
    BY <1>2, <1>9, <2>2, <2>3 DEF Sound, Waiting
  <2>5. Updated(id, d)
    BY <1>9 DEF d
  <2> HIDE DEF offers, n
  <2> QED BY <1>4, <1>5, <2>1, <2>4, <2>5, UpdatePreserves
<1>10. CASE /\ ~Matches(s, n.initiator)
            /\ Matches(s, n.counterparty)
            /\ n.counterparty_offer = {} /\ n.initiator_offer = {}
            /\ Updated(id, [n EXCEPT !.counterparty_offer = {amount}])
  <2> DEFINE d == [n EXCEPT !.counterparty_offer = {amount}]
  <2>1. d \in NegotiationRecord
    BY <1>1, <1>7 DEF NegotiationRecord
  <2>2. /\ d.initiator = n.initiator /\ d.counterparty = n.counterparty
        /\ d.counterparty_offer = {amount} /\ d.initiator_offer = {}
        /\ d.deal_price = {} /\ d.status = "waiting"
    BY <1>1, <1>2, <1>10 DEF NegotiationRecord, Waiting
  <2>3. PersonOf[s.source] = PersonOf[n.counterparty]
    BY <1>8, <1>10, MatchesPerson
  <2> HIDE DEF d
  <2>4. Sound(d, offers)
    BY <1>2, <1>10, <2>2, <2>3 DEF Sound, Waiting
  <2>5. Updated(id, d)
    BY <1>10 DEF d
  <2> HIDE DEF offers, n
  <2> QED BY <1>4, <1>5, <2>1, <2>4, <2>5, UpdatePreserves
<1> QED BY <1>9, <1>10 DEF FirstOffer

LEMMA SecondOfferPreserves ==
    ASSUME IInv, NEW s \in Senders, NEW id \in DOMAIN negotiations, NEW amount \in Offers,
           SubmitOffer(s, id, amount), SecondOffer(s, id, amount)
    PROVE  IInv'
<1> DEFINE n == negotiations[id]
           offers == said[id] \cup {<<PersonOf[s.source], amount>>}
<1>1. /\ n \in NegotiationRecord
      /\ said[id] \in SUBSET (People \X Offers)
  BY DEF IInv, TypeOK
<1>2. n.status = "waiting" /\ Waiting(n, said[id])
  BY DEF IInv, Sound, SubmitOffer
<1>3. PersonOf[s.source] \in People
  BY SourceType
<1>4. offers \in SUBSET (People \X Offers)
  BY <1>1, <1>3
<1>5. said' = [said EXCEPT ![id] = offers]
  BY DEF SubmitOffer
<1>7. {amount} \in Option(Offers)
  BY DEF Option
<1>8. n.initiator \in Identities /\ n.counterparty \in Identities
  BY <1>1 DEF NegotiationRecord
<1>9. ASSUME Matches(s, n.initiator), n.initiator_offer = {},
             NEW buyer \in n.counterparty_offer,
             Updated(id, Evaluated([n EXCEPT !.initiator_offer = {amount}], amount, buyer))
      PROVE  IInv'
  <2> DEFINE d == [n EXCEPT !.initiator_offer = {amount}]
  <2>1. d \in NegotiationRecord
    BY <1>1, <1>7 DEF NegotiationRecord
  <2>2. /\ d.initiator = n.initiator /\ d.counterparty = n.counterparty
        /\ d.deal_price = {}
    BY <1>1, <1>2 DEF NegotiationRecord, Waiting
  <2>3. PersonOf[s.source] = PersonOf[n.initiator]
    BY <1>8, <1>9, MatchesPerson
  <2>4. buyer \in Offers /\ n.counterparty_offer = {buyer}
    BY <1>1, <1>9 DEF NegotiationRecord, Option
  <2>5. PersonOf[n.initiator] # PersonOf[n.counterparty] =>
           offers = {<<PersonOf[n.initiator], amount>>, <<PersonOf[n.counterparty], buyer>>}
    BY <1>2, <1>9, <2>3, <2>4 DEF Waiting
  <2>6. Updated(id, Evaluated(d, amount, buyer))
    BY <1>9
  <2> HIDE DEF d, offers, n
  <2>7. /\ Evaluated(d, amount, buyer) \in NegotiationRecord
        /\ Sound(Evaluated(d, amount, buyer), offers)
    BY <2>1, <2>2, <2>4, <2>5, EvaluatedSound
  <2> QED BY <1>4, <1>5, <2>6, <2>7, UpdatePreserves
<1>10. ASSUME Matches(s, n.counterparty), n.counterparty_offer = {},
              NEW seller \in n.initiator_offer,
              Updated(id, Evaluated([n EXCEPT !.counterparty_offer = {amount}],
                                    seller, amount))
       PROVE  IInv'
  <2> DEFINE d == [n EXCEPT !.counterparty_offer = {amount}]
  <2>1. d \in NegotiationRecord
    BY <1>1, <1>7 DEF NegotiationRecord
  <2>2. /\ d.initiator = n.initiator /\ d.counterparty = n.counterparty
        /\ d.deal_price = {}
    BY <1>1, <1>2 DEF NegotiationRecord, Waiting
  <2>3. PersonOf[s.source] = PersonOf[n.counterparty]
    BY <1>8, <1>10, MatchesPerson
  <2>4. seller \in Offers /\ n.initiator_offer = {seller}
    BY <1>1, <1>10 DEF NegotiationRecord, Option
  <2>5. PersonOf[n.initiator] # PersonOf[n.counterparty] =>
           offers = {<<PersonOf[n.initiator], seller>>, <<PersonOf[n.counterparty], amount>>}
    BY <1>2, <1>10, <2>3, <2>4 DEF Waiting
  <2>6. Updated(id, Evaluated(d, seller, amount))
    BY <1>10
  <2> HIDE DEF d, offers, n
  <2>7. /\ Evaluated(d, seller, amount) \in NegotiationRecord
        /\ Sound(Evaluated(d, seller, amount), offers)
    BY <2>1, <2>2, <2>4, <2>5, EvaluatedSound
  <2> QED BY <1>4, <1>5, <2>6, <2>7, UpdatePreserves
<1> QED BY <1>9, <1>10 DEF SecondOffer

LEMMA WithdrawPreserves ==
    ASSUME IInv, NEW s \in Senders, NEW id \in DOMAIN negotiations, Withdraw(s, id)
    PROVE  IInv'
<1> DEFINE d == Forgotten(negotiations[id], "cancelled")
<1>1. /\ negotiations[id] \in NegotiationRecord
      /\ said \in [DOMAIN negotiations -> SUBSET (People \X Offers)]
  BY DEF IInv, TypeOK
<1>2. negotiations[id].deal_price = {}
  BY DEF IInv, Sound, Waiting, Withdraw, Pending
<1>3. d \in NegotiationRecord /\ Erased(d) /\ d.status = "cancelled"
  BY <1>1, <1>2, ForgottenType
<1>4. Updated(id, d) /\ said' = said
  BY DEF Withdraw
<1> HIDE DEF d
<1>5. Sound(d, said[id])
  BY <1>3 DEF Sound
<1>6. said' = [said EXCEPT ![id] = said[id]]
  BY <1>1, <1>4
<1>7. said[id] \in SUBSET (People \X Offers)
  BY <1>1
<1> QED BY <1>1, <1>3, <1>4, <1>5, <1>6, <1>7, UpdatePreserves

-----------------------------------------------------------------------------
LEMMA InitIInv == Init => IInv
BY DEF Init, IInv, TypeOK

LEMMA NextIInv == IInv /\ [Next]_vars => IInv'
<1> SUFFICES ASSUME IInv, [Next]_vars PROVE IInv'
  OBVIOUS
<1>1. CASE UNCHANGED vars
  BY <1>1 DEF vars, IInv, TypeOK
<1>2. ASSUME NEW s \in Senders, NEW other \in Numbers, Negotiate(s, other)
      PROVE  IInv'
  BY <1>2, NegotiatePreserves
<1>3. ASSUME NEW s \in Senders, NEW id \in DOMAIN negotiations, NEW amount \in Offers,
             SubmitOffer(s, id, amount)
      PROVE  IInv'
  BY <1>3, FirstOfferPreserves, SecondOfferPreserves DEF SubmitOffer
<1>4. ASSUME NEW s \in Senders, NEW id \in DOMAIN negotiations, Withdraw(s, id)
      PROVE  IInv'
  BY <1>4, WithdrawPreserves
<1> QED BY <1>1, <1>2, <1>3, <1>4 DEF Next

\* The strengthened invariant.
THEOREM NegotiationInvariant == Spec => []IInv
BY InitIInv, NextIInv, PTL DEF Spec

\* Negotiations and the record of what was said in them stay well formed; a
\* price is a number although an offer may be NaN.
THEOREM NegotiationTypeCorrect == Spec => []TypeOK
<1>1. IInv => TypeOK
  BY DEF IInv
<1> QED BY <1>1, NegotiationInvariant, PTL

\* After a failed or cancelled negotiation neither offer is in memory, however
\* it came to its end and whatever is tried afterwards.
THEOREM OffersForgotten == Spec => []CrediblyForgotten
<1>1. IInv => CrediblyForgotten
  BY DEF IInv, Sound, Erased, CrediblyForgotten
<1> QED BY <1>1, NegotiationInvariant, PTL

\* The outcome of a negotiation between two people is the one their own single
\* offers imply, whichever of their names their messages carried.
THEOREM OutcomesFair == Spec => []FairOutcome
<1>1. IInv => FairOutcome
  BY DEF IInv, Sound, Fair, FairOutcome, Seller, Buyer
<1> QED BY <1>1, NegotiationInvariant, PTL

-----------------------------------------------------------------------------
(* The sealed bargain itself.                                              *)

SealedRecord ==
    [seller : People, buyer : People, ask : SUBSET Offers, bid : SUBSET Offers,
     price : SUBSET Nat, state : {"open", "deal", "failed", "cancelled"}]

Statements == SUBSET (People \X Offers)

\* The bargains and what was spoken in them go together.
Sealed ==
    /\ Bargains \in Seq(SealedRecord)
    /\ said \in Seq(Statements)
    /\ Len(said) = Len(Bargains)

\* An end stays, and so does a valuation.
Keeps(i) ==
    /\ i \in DOMAIN Bargains'
    /\ Bargains[i].state # "open" => Bargains'[i] = Bargains[i] /\ said'[i] = said[i]
    /\ Bargains[i].ask # {} => Bargains'[i].ask \in {{}, Bargains[i].ask}
    /\ Bargains[i].bid # {} => Bargains'[i].bid \in {{}, Bargains[i].bid}

LEMMA SealedStart ==
    ASSUME Sealed, NEW p \in People, NEW q \in People, Bargain!Start(p, q)
    PROVE  Sealed' /\ \A i \in DOMAIN Bargains : Keeps(i)
<1> DEFINE b == Bargain!Fresh(p, q)
<1>1. b \in SealedRecord
  BY DEF Bargain!Fresh, SealedRecord
<1>2. Bargains' = Append(Bargains, b) /\ said' = Append(said, {})
  BY DEF Bargain!Start
<1> HIDE DEF b
<1>3. {} \in Statements
  BY DEF Statements
<1>4. /\ Bargains' \in Seq(SealedRecord) /\ Len(Bargains') = Len(Bargains) + 1
      /\ said' \in Seq(Statements) /\ Len(said') = Len(said) + 1
  BY <1>1, <1>2, <1>3 DEF Sealed
<1>5. Sealed'
  BY <1>4 DEF Sealed
<1>6. ASSUME NEW i \in DOMAIN Bargains
      PROVE  Keeps(i)
  <2>1. i \in 1 .. Len(Bargains) /\ i \in 1 .. Len(said)
    BY <1>6 DEF Sealed
  <2>2. i \in DOMAIN Bargains' /\ Bargains'[i] = Bargains[i] /\ said'[i] = said[i]
    BY <1>1, <1>2, <1>4, <2>1 DEF Sealed
  <2> QED BY <2>2 DEF Keeps
<1> QED BY <1>5, <1>6

\* A step of one bargain, after which it still is one, of the same parties.
LEMMA SealedUpdate ==
    ASSUME Sealed, NEW i \in DOMAIN Bargains, Bargain!Open(i),
           NEW ask \in SUBSET Offers, NEW bid \in SUBSET Offers,
           NEW price \in SUBSET Nat,
           NEW state \in {"open", "deal", "failed", "cancelled"},
           Bargain!Becomes(i, ask, bid, price, state),
           Bargains[i].ask # {} => ask \in {{}, Bargains[i].ask},
           Bargains[i].bid # {} => bid \in {{}, Bargains[i].bid},
           \/ said' = said
           \/ \E who \in People, x \in Offers : Bargain!Says(i, who, x)
    PROVE  Sealed' /\ \A j \in DOMAIN Bargains : Keeps(j)
<1> DEFINE b == [seller |-> Bargains[i].seller, buyer |-> Bargains[i].buyer,
                 ask |-> ask, bid |-> bid, price |-> price, state |-> state]
<1>1. Bargains[i] \in SealedRecord /\ i \in 1 .. Len(said)
  BY DEF Sealed
<1>2. b \in SealedRecord
  BY <1>1 DEF SealedRecord
<1>3. /\ Bargains' = [Bargains EXCEPT ![i] = b]
      /\ b.ask = ask /\ b.bid = bid
  BY DEF Bargain!Becomes
<1> HIDE DEF b
<1>4. PICK offers \in Statements : said' = [said EXCEPT ![i] = offers]
  <2>1. said[i] \in Statements
    BY <1>1 DEF Sealed
  <2>2. CASE said' = said
    <3>1. said' = [said EXCEPT ![i] = said[i]]
      BY <2>2 DEF Sealed
    <3> QED BY <2>1, <3>1
  <2>3. ASSUME NEW who \in People, NEW x \in Offers, Bargain!Says(i, who, x)
        PROVE  \E offers \in Statements : said' = [said EXCEPT ![i] = offers]
    <3>1. said[i] \cup {<<who, x>>} \in Statements
      BY <2>1 DEF Statements
    <3>2. said' = [said EXCEPT ![i] = said[i] \cup {<<who, x>>}]
      BY <2>3 DEF Bargain!Says
    <3> QED BY <3>1, <3>2
  <2> QED BY <2>2, <2>3
<1>5. /\ Bargains' \in Seq(SealedRecord) /\ Len(Bargains') = Len(Bargains)
      /\ DOMAIN Bargains' = DOMAIN Bargains
  BY <1>2, <1>3 DEF Sealed
<1>6. said' \in Seq(Statements) /\ Len(said') = Len(said)
  BY <1>4 DEF Sealed
<1>7. Sealed'
  BY <1>5, <1>6 DEF Sealed
<1>8. ASSUME NEW j \in DOMAIN Bargains
      PROVE  Keeps(j)
  <2>1. CASE j = i
    <3>1. Bargains'[j] = b
      BY <2>1, <1>3 DEF Sealed
    <3> QED BY <1>3, <1>5, <2>1, <3>1 DEF Keeps, Bargain!Open
  <2>2. CASE j # i
    <3>1. Bargains'[j] = Bargains[j] /\ said'[j] = said[j]
      BY <1>3, <1>4, <1>8, <2>2 DEF Sealed
    <3> QED BY <1>5, <3>1 DEF Keeps
  <2> QED BY <2>1, <2>2
<1> QED BY <1>7, <1>8

LEMMA SealedSettle ==
    ASSUME Sealed, NEW i \in DOMAIN Bargains, NEW ask \in Offers, NEW bid \in Offers,
           Bargain!Settle(i, ask, bid)
    PROVE  Sealed' /\ \A j \in DOMAIN Bargains : Keeps(j)
<1>1. Bargains[i].seller \in People /\ Bargains[i].buyer \in People
  <2>1. Bargains[i] \in SealedRecord
    BY DEF Sealed
  <2> QED BY <2>1 DEF SealedRecord
<1>2. /\ Bargain!Open(i)
      /\ Bargains[i].ask \in {{}, {ask}} /\ Bargains[i].bid \in {{}, {bid}}
      /\ \E who \in People, x \in Offers : Bargain!Says(i, who, x)
  BY <1>1 DEF Bargain!Settle
<1>3. ASSUME Bargain!Reaches(bid, ask), NEW p \in ask .. bid,
             Bargain!Becomes(i, {ask}, {bid}, {p}, "deal")
      PROVE  Sealed' /\ \A j \in DOMAIN Bargains : Keeps(j)
  <2>1. ask \in Nat /\ bid \in Nat
    BY <1>3 DEF Bargain!Reaches
  <2>2. p \in Nat
    BY <1>3, <2>1
  <2>3. {p} \in SUBSET Nat
    BY <2>2
  <2> QED BY <1>2, <1>3, <2>3, SealedUpdate
<1>4. CASE Bargain!Forgotten(i, "failed")
  BY <1>2, <1>4, SealedUpdate DEF Bargain!Forgotten
<1> QED BY <1>3, <1>4 DEF Bargain!Settle

LEMMA SealedNext ==
    ASSUME Sealed, Bargain!Next
    PROVE  Sealed' /\ \A i \in DOMAIN Bargains : Keeps(i)
<1>1. ASSUME NEW p \in People, NEW q \in People, Bargain!Start(p, q)
      PROVE  Sealed' /\ \A i \in DOMAIN Bargains : Keeps(i)
  BY <1>1, SealedStart
<1>2. ASSUME NEW i \in DOMAIN Bargains, NEW x \in Offers, Bargain!Speak(i, x)
      PROVE  Sealed' /\ \A j \in DOMAIN Bargains : Keeps(j)
  <2>1. Bargains[i].seller \in People /\ Bargains[i].buyer \in People
    <3>1. Bargains[i] \in SealedRecord
      BY DEF Sealed
    <3> QED BY <3>1 DEF SealedRecord
  <2>2. /\ Bargain!Open(i) /\ Bargains[i].ask = {} /\ Bargains[i].bid = {}
        /\ \E who \in People : Bargain!Says(i, who, x)
        /\ \/ Bargain!Becomes(i, {x}, {}, {}, "open")
           \/ Bargain!Becomes(i, {}, {x}, {}, "open")
    BY <1>2, <2>1 DEF Bargain!Speak
  <2> QED BY <2>2, SealedUpdate
<1>3. ASSUME NEW i \in DOMAIN Bargains, NEW ask \in Offers, NEW bid \in Offers,
             Bargain!Settle(i, ask, bid)
      PROVE  Sealed' /\ \A j \in DOMAIN Bargains : Keeps(j)
  BY <1>3, SealedSettle
<1>4. ASSUME NEW i \in DOMAIN Bargains, Bargain!CallOff(i)
      PROVE  Sealed' /\ \A j \in DOMAIN Bargains : Keeps(j)
  <2>1. Bargain!Open(i) /\ Bargain!Becomes(i, {}, {}, {}, "cancelled") /\ said' = said
    BY <1>4 DEF Bargain!CallOff, Bargain!Forgotten
  <2> QED BY <2>1, SealedUpdate
<1> QED BY <1>1, <1>2, <1>3, <1>4 DEF Bargain!Next

LEMMA SealedInvariant == Bargain!Spec => []Sealed
<1>1. Bargain!Init => Sealed
  BY DEF Bargain!Init, Sealed
<1>2. Sealed /\ [Bargain!Next]_(Bargain!vars) => Sealed'
  <2>1. ASSUME Sealed, UNCHANGED Bargain!vars
        PROVE  Sealed'
    BY <2>1 DEF Sealed, Bargain!vars
  <2> QED BY <2>1, SealedNext
<1> QED BY <1>1, <1>2, PTL DEF Bargain!Spec

\* A bargain that has ended keeps its end, its price and its parties, and is deaf
\* to whatever is said later; and until then nobody takes back or replaces what
\* they have said.
THEOREM BargainIsSealed == Bargain!Spec => Bargain!Final /\ Bargain!NoSecondThoughts
<1>1. Sealed /\ [Bargain!Next]_(Bargain!vars) =>
         [\A i \in DOMAIN Bargains :
             Bargains[i].state # "open" =>
                 /\ i \in DOMAIN Bargains'
                 /\ Bargains'[i] = Bargains[i] /\ said'[i] = said[i]]_(Bargain!vars)
  BY SealedNext DEF Keeps
<1>2. Sealed /\ [Bargain!Next]_(Bargain!vars) =>
         [\A i \in DOMAIN Bargains :
             /\ i \in DOMAIN Bargains'
             /\ Bargains[i].ask # {} => Bargains'[i].ask \in {{}, Bargains[i].ask}
             /\ Bargains[i].bid # {} =>
                    Bargains'[i].bid \in {{}, Bargains[i].bid}]_(Bargain!vars)
  BY SealedNext DEF Keeps
<1> QED
  BY <1>1, <1>2, SealedInvariant, PTL
     DEF Bargain!Spec, Bargain!Final, Bargain!NoSecondThoughts

-----------------------------------------------------------------------------
(* The refinement: every command is a step of the bargain between the      *)
(* people behind the names.                                                *)

LEMMA AtLeastIsReaches ==
    ASSUME NEW a \in Offers, NEW b \in Offers
    PROVE  AtLeast(b, a) <=> Bargain!Reaches(b, a)
<1>1. \A x \in Offers : x # NotANumber <=> x \in Nat
  BY NegotiationAssumption DEF Offers
<1> QED BY <1>1 DEF AtLeast, Bargain!Reaches

\* A bargain is its negotiation with the people for their identities.
LEMMA BargainFacts ==
    ASSUME IInv
    PROVE  /\ DOMAIN Bargains = DOMAIN negotiations
           /\ \A id \in DOMAIN negotiations :
                 /\ negotiations[id] \in NegotiationRecord
                 /\ Bargains[id] = BargainOf(negotiations[id])
                 /\ Bargains[id].state = "open" <=> negotiations[id].status = "waiting"
<1>1. negotiations \in Seq(NegotiationRecord)
  BY DEF IInv, TypeOK
<1>2. ASSUME NEW id \in DOMAIN negotiations
      PROVE  /\ negotiations[id] \in NegotiationRecord
             /\ Bargains[id] = BargainOf(negotiations[id])
  BY <1>1 DEF Bargains
<1>3. \A n \in NegotiationRecord : BargainOf(n).state = "open" <=> n.status = "waiting"
  BY DEF BargainOf, StateOf, NegotiationRecord, Statuses
<1> QED BY <1>2, <1>3 DEF Bargains

LEMMA UpdatedBecomes ==
    ASSUME IInv, NEW id \in DOMAIN negotiations, NEW n,
           n.initiator = negotiations[id].initiator,
           n.counterparty = negotiations[id].counterparty,
           Updated(id, n)
    PROVE  Bargain!Becomes(id, n.initiator_offer, n.counterparty_offer,
                           n.deal_price, StateOf[n.status])
<1>1. /\ negotiations' = [negotiations EXCEPT ![id] = n]
      /\ DOMAIN negotiations' = DOMAIN negotiations
  BY DEF Updated
<1>2. Bargains' = [i \in DOMAIN negotiations |-> BargainOf(negotiations'[i])]
  BY <1>1 DEF Bargains
<1>3. \A i \in DOMAIN negotiations :
         negotiations'[i] = IF i = id THEN n ELSE negotiations[i]
  BY <1>1
<1> DEFINE b == [seller |-> Bargains[id].seller, buyer |-> Bargains[id].buyer,
                 ask |-> n.initiator_offer, bid |-> n.counterparty_offer,
                 price |-> n.deal_price, state |-> StateOf[n.status]]
<1>4. BargainOf(n) = b
  BY DEF BargainOf, Bargains
<1> HIDE DEF b
<1>5. Bargains' = [Bargains EXCEPT ![id] = b]
  BY <1>2, <1>3, <1>4 DEF Bargains
<1> QED BY <1>5 DEF b, Bargain!Becomes

LEMMA NegotiateStarts ==
    ASSUME IInv, NEW s \in Senders, NEW other \in Numbers, Negotiate(s, other)
    PROVE  Bargain!Start(PersonOf[s.source], PersonOf[other])
<1> DEFINE n == Opened(s.source, other)
           b == Bargain!Fresh(PersonOf[s.source], PersonOf[other])
<1>1. BargainOf(n) = b
  BY DEF BargainOf, Opened, StateOf, Bargain!Fresh
<1>2. negotiations' = Append(negotiations, n) /\ said' = Append(said, {})
  BY DEF Negotiate
<1>3. negotiations \in Seq(NegotiationRecord)
  BY DEF IInv, TypeOK
<1>4. n \in NegotiationRecord
  BY SourceType, NegotiationAssumption DEF Opened, NegotiationRecord, Option, Statuses
<1> HIDE DEF n, b
<1> DEFINE len == Len(negotiations)
<1>5. /\ len \in Nat /\ DOMAIN negotiations = 1 .. len
      /\ DOMAIN negotiations' = 1 .. len + 1
      /\ negotiations'[len + 1] = n
      /\ \A i \in 1 .. len : negotiations'[i] = negotiations[i]
  BY <1>2, <1>3, <1>4
<1> HIDE DEF len
<1> DEFINE S == {BargainOf(negotiations[i]) : i \in 1 .. len} \cup {b}
<1>6. Bargains = [i \in 1 .. len |-> BargainOf(negotiations[i])]
  BY <1>5 DEF Bargains
<1>7. Bargains \in Seq(S) /\ Len(Bargains) = len /\ b \in S
  <2>1. Bargains \in [1 .. len -> S] /\ b \in S
    BY <1>6
  <2> HIDE DEF S
  <2> QED BY <1>5, <2>1, SeqDef, LenProperties
<1> HIDE DEF S
<1>8. /\ Append(Bargains, b) = [i \in 1 .. len + 1 |-> Append(Bargains, b)[i]]
      /\ Append(Bargains, b)[len + 1] = b
      /\ \A i \in 1 .. len : Append(Bargains, b)[i] = Bargains[i]
  <2> DEFINE app == Append(Bargains, b)
  <2>1. /\ app \in Seq(S) /\ Len(app) = len + 1 /\ app[len + 1] = b
        /\ \A i \in 1 .. len : app[i] = Bargains[i]
    BY <1>7, AppendProperties
  <2> HIDE DEF app
  <2>2. app = [i \in 1 .. len + 1 |-> app[i]]
    BY <2>1, LenProperties
  <2> QED BY <2>1, <2>2 DEF app
<1>9. Bargains' = [i \in 1 .. len + 1 |-> BargainOf(negotiations'[i])]
  BY <1>5 DEF Bargains
<1>10. ASSUME NEW i \in 1 .. len + 1
       PROVE  BargainOf(negotiations'[i]) = Append(Bargains, b)[i]
  <2>1. CASE i = len + 1
    BY <1>1, <1>5, <1>8, <2>1
  <2>2. CASE i # len + 1
    <3>1. i \in 1 .. len
      BY <1>5, <2>2
    <3> QED BY <1>5, <1>6, <1>8, <3>1
  <2> QED BY <2>1, <2>2
<1>11. Bargains' = Append(Bargains, b)
  BY <1>8, <1>9, <1>10
<1> QED BY <1>2, <1>11 DEF Bargain!Start, b

LEMMA FirstOfferSpeaks ==
    ASSUME IInv, NEW s \in Senders, NEW id \in DOMAIN negotiations, NEW amount \in Offers,
           SubmitOffer(s, id, amount), FirstOffer(s, id, amount)
    PROVE  Bargain!Speak(id, amount)
<1> DEFINE n == negotiations[id]
<1>1. n \in NegotiationRecord /\ Bargains[id] = BargainOf(n) /\ Bargain!Open(id)
  BY BargainFacts DEF SubmitOffer, Bargain!Open
<1>2. n.status = "waiting" /\ n.deal_price = {}
  BY DEF IInv, Sound, Waiting, SubmitOffer
<1>3. n.initiator \in Identities /\ n.counterparty \in Identities
  BY <1>1 DEF NegotiationRecord
<1>4. /\ Bargains[id].ask = n.initiator_offer /\ Bargains[id].bid = n.counterparty_offer
      /\ Bargains[id].seller = PersonOf[n.initiator]
      /\ Bargains[id].buyer = PersonOf[n.counterparty]
  BY <1>1 DEF BargainOf
<1>5. said' = [said EXCEPT ![id] = @ \cup {<<PersonOf[s.source], amount>>}]
  BY DEF SubmitOffer
<1>6. StateOf["waiting"] = "open"
  BY DEF StateOf
<1>7. CASE /\ Matches(s, n.initiator)
           /\ n.initiator_offer = {} /\ n.counterparty_offer = {}
           /\ Updated(id, [n EXCEPT !.initiator_offer = {amount}])
  <2> DEFINE d == [n EXCEPT !.initiator_offer = {amount}]
  <2>1. /\ d.initiator = n.initiator /\ d.counterparty = n.counterparty
        /\ d.initiator_offer = {amount} /\ d.counterparty_offer = {}
        /\ d.deal_price = {} /\ d.status = "waiting"
    BY <1>1, <1>2, <1>7 DEF NegotiationRecord
  <2>2. Bargain!Says(id, Bargains[id].seller, amount)
    BY <1>3, <1>4, <1>5, <1>7, MatchesPerson DEF Bargain!Says
  <2>3. Updated(id, d)
    BY <1>7
  <2> HIDE DEF d
  <2>4. Bargain!Becomes(id, {amount}, {}, {}, "open")
    BY <1>6, <2>1, <2>3, UpdatedBecomes
  <2> QED BY <1>1, <1>4, <1>7, <2>2, <2>4 DEF Bargain!Speak
<1>8. CASE /\ ~Matches(s, n.initiator)
           /\ Matches(s, n.counterparty)
           /\ n.counterparty_offer = {} /\ n.initiator_offer = {}
           /\ Updated(id, [n EXCEPT !.counterparty_offer = {amount}])
  <2> DEFINE d == [n EXCEPT !.counterparty_offer = {amount}]
  <2>1. /\ d.initiator = n.initiator /\ d.counterparty = n.counterparty
        /\ d.initiator_offer = {} /\ d.counterparty_offer = {amount}
        /\ d.deal_price = {} /\ d.status = "waiting"
    BY <1>1, <1>2, <1>8 DEF NegotiationRecord
  <2>2. Bargain!Says(id, Bargains[id].buyer, amount)
    BY <1>3, <1>4, <1>5, <1>8, MatchesPerson DEF Bargain!Says
  <2>3. Updated(id, d)
    BY <1>8
  <2> HIDE DEF d
  <2>4. Bargain!Becomes(id, {}, {amount}, {}, "open")
    BY <1>6, <2>1, <2>3, UpdatedBecomes
  <2> QED BY <1>1, <1>4, <1>8, <2>2, <2>4 DEF Bargain!Speak
<1> QED BY <1>7, <1>8 DEF FirstOffer

\* What an evaluation makes of a negotiation in which both offers are known.
LEMMA EvaluatedSettles ==
    ASSUME IInv, NEW id \in DOMAIN negotiations, NEW n \in NegotiationRecord,
           n.initiator = negotiations[id].initiator,
           n.counterparty = negotiations[id].counterparty,
           n.deal_price = {},
           NEW a \in Offers, NEW b \in Offers,
           n.initiator_offer = {a}, n.counterparty_offer = {b},
           Updated(id, Evaluated(n, a, b))
    PROVE  \/ /\ Bargain!Reaches(b, a)
              /\ \E p \in a .. b : Bargain!Becomes(id, {a}, {b}, {p}, "deal")
           \/ /\ ~Bargain!Reaches(b, a)
              /\ Bargain!Forgotten(id, "failed")
<1>1. CASE AtLeast(b, a)
  <2> DEFINE p == Midpoint(a, b)
             d == Agreed(n, p)
  <2>1. p \in Nat /\ a <= p /\ p <= b
    BY <1>1, MidpointBetween
  <2>2. a \in Nat /\ b \in Nat /\ Bargain!Reaches(b, a)
    BY <1>1, AtLeastIsReaches DEF Bargain!Reaches
  <2>3. Updated(id, d)
    BY <1>1 DEF Evaluated
  <2>4. /\ d.initiator = n.initiator /\ d.counterparty = n.counterparty
        /\ d.initiator_offer = {a} /\ d.counterparty_offer = {b}
        /\ d.deal_price = {p} /\ d.status = "deal"
    BY DEF Agreed
  <2> HIDE DEF d, p
  <2>5. Bargain!Becomes(id, d.initiator_offer, d.counterparty_offer,
                        d.deal_price, StateOf[d.status])
    BY <2>3, <2>4, UpdatedBecomes
  <2>6. Bargain!Becomes(id, {a}, {b}, {p}, "deal")
    BY <2>4, <2>5 DEF StateOf
  <2>7. p \in a .. b
    BY <2>1, <2>2
  <2> QED BY <2>2, <2>6, <2>7
<1>2. CASE ~AtLeast(b, a)
  <2> DEFINE d == Forgotten(n, "no_deal")
  <2>1. Updated(id, d)
    BY <1>2 DEF Evaluated
  <2>2. /\ d.initiator = n.initiator /\ d.counterparty = n.counterparty
        /\ d.initiator_offer = {} /\ d.counterparty_offer = {}
        /\ d.deal_price = {} /\ d.status = "no_deal"
    BY DEF Forgotten
  <2> HIDE DEF d
  <2>3. Bargain!Becomes(id, {}, {}, {}, StateOf["no_deal"])
    BY <2>1, <2>2, UpdatedBecomes
  <2> QED BY <1>2, <2>3, AtLeastIsReaches DEF StateOf, Bargain!Forgotten
<1> QED BY <1>1, <1>2

LEMMA SecondOfferSettles ==
    ASSUME IInv, NEW s \in Senders, NEW id \in DOMAIN negotiations, NEW amount \in Offers,
           SubmitOffer(s, id, amount), SecondOffer(s, id, amount)
    PROVE  \E ask, bid \in Offers : Bargain!Settle(id, ask, bid)
<1> DEFINE n == negotiations[id]
<1>1. n \in NegotiationRecord /\ Bargains[id] = BargainOf(n) /\ Bargain!Open(id)
  BY BargainFacts DEF SubmitOffer, Bargain!Open
<1>2. n.status = "waiting" /\ n.deal_price = {}
  BY DEF IInv, Sound, Waiting, SubmitOffer
<1>3. /\ n.initiator \in Identities /\ n.counterparty \in Identities
      /\ n.initiator_offer \in Option(Offers) /\ n.counterparty_offer \in Option(Offers)
  BY <1>1 DEF NegotiationRecord
<1>4. /\ Bargains[id].ask = n.initiator_offer /\ Bargains[id].bid = n.counterparty_offer
      /\ Bargains[id].seller = PersonOf[n.initiator]
      /\ Bargains[id].buyer = PersonOf[n.counterparty]
  BY <1>1 DEF BargainOf
<1>5. said' = [said EXCEPT ![id] = @ \cup {<<PersonOf[s.source], amount>>}]
  BY DEF SubmitOffer
<1>6. {amount} \in Option(Offers)
  BY DEF Option
<1>7. ASSUME Matches(s, n.initiator), n.initiator_offer = {},
             NEW buyer \in n.counterparty_offer,
             Updated(id, Evaluated([n EXCEPT !.initiator_offer = {amount}], amount, buyer))
      PROVE  Bargain!Settle(id, amount, buyer) /\ buyer \in Offers
  <2> DEFINE d == [n EXCEPT !.initiator_offer = {amount}]
  <2>1. buyer \in Offers /\ n.counterparty_offer = {buyer}
    BY <1>3, <1>7 DEF Option
  <2>2. d \in NegotiationRecord
    BY <1>1, <1>6 DEF NegotiationRecord
  <2>3. /\ d.initiator = n.initiator /\ d.counterparty = n.counterparty
        /\ d.initiator_offer = {amount} /\ d.counterparty_offer = {buyer}
        /\ d.deal_price = {}
    BY <1>1, <1>2, <2>1 DEF NegotiationRecord
  <2>4. Bargain!Says(id, Bargains[id].seller, amount)
    BY <1>3, <1>4, <1>5, <1>7, MatchesPerson DEF Bargain!Says
  <2>5. Updated(id, Evaluated(d, amount, buyer))
    BY <1>7
  <2> HIDE DEF d
  <2>6. \/ /\ Bargain!Reaches(buyer, amount)
           /\ \E p \in amount .. buyer :
                 Bargain!Becomes(id, {amount}, {buyer}, {p}, "deal")
        \/ /\ ~Bargain!Reaches(buyer, amount)
           /\ Bargain!Forgotten(id, "failed")
    BY <2>1, <2>2, <2>3, <2>5, EvaluatedSettles
  <2> QED BY <1>1, <1>4, <1>7, <2>1, <2>4, <2>6 DEF Bargain!Settle
<1>8. ASSUME Matches(s, n.counterparty), n.counterparty_offer = {},
             NEW seller \in n.initiator_offer,
             Updated(id, Evaluated([n EXCEPT !.counterparty_offer = {amount}],
                                   seller, amount))
      PROVE  Bargain!Settle(id, seller, amount) /\ seller \in Offers
  <2> DEFINE d == [n EXCEPT !.counterparty_offer = {amount}]
  <2>1. seller \in Offers /\ n.initiator_offer = {seller}
    BY <1>3, <1>8 DEF Option
  <2>2. d \in NegotiationRecord
    BY <1>1, <1>6 DEF NegotiationRecord
  <2>3. /\ d.initiator = n.initiator /\ d.counterparty = n.counterparty
        /\ d.initiator_offer = {seller} /\ d.counterparty_offer = {amount}
        /\ d.deal_price = {}
    BY <1>1, <1>2, <2>1 DEF NegotiationRecord
  <2>4. Bargain!Says(id, Bargains[id].buyer, amount)
    BY <1>3, <1>4, <1>5, <1>8, MatchesPerson DEF Bargain!Says
  <2>5. Updated(id, Evaluated(d, seller, amount))
    BY <1>8
  <2> HIDE DEF d
  <2>6. \/ /\ Bargain!Reaches(amount, seller)
           /\ \E p \in seller .. amount :
                 Bargain!Becomes(id, {seller}, {amount}, {p}, "deal")
        \/ /\ ~Bargain!Reaches(amount, seller)
           /\ Bargain!Forgotten(id, "failed")
    BY <2>1, <2>2, <2>3, <2>5, EvaluatedSettles
  <2> QED BY <1>1, <1>4, <1>8, <2>1, <2>4, <2>6 DEF Bargain!Settle
<1> QED BY <1>7, <1>8 DEF SecondOffer

LEMMA WithdrawCallsOff ==
    ASSUME IInv, NEW s \in Senders, NEW id \in DOMAIN negotiations, Withdraw(s, id)
    PROVE  Bargain!CallOff(id)
<1> DEFINE d == Forgotten(negotiations[id], "cancelled")
<1>1. negotiations[id].status = "waiting" /\ Updated(id, d) /\ said' = said
  BY DEF Withdraw, Pending
<1>2. negotiations[id].deal_price = {}
  BY <1>1 DEF IInv, Sound, Waiting
<1>3. /\ d.initiator = negotiations[id].initiator
      /\ d.counterparty = negotiations[id].counterparty
      /\ d.initiator_offer = {} /\ d.counterparty_offer = {}
      /\ d.deal_price = {} /\ d.status = "cancelled"
  BY <1>2 DEF Forgotten
<1> HIDE DEF d
<1>4. Bargain!Becomes(id, {}, {}, {}, StateOf["cancelled"])
  BY <1>1, <1>3, UpdatedBecomes
<1> QED BY <1>1, <1>4, BargainFacts DEF StateOf, Bargain!CallOff, Bargain!Forgotten, Bargain!Open

\* The commands implement the sealed bargain: !negotiate starts one, the first
\* !offer is the first party's word, the second settles it, !withdraw calls it off,
\* for the people behind whatever names the messages carry.
THEOREM NegotiationImplementsBargain == Spec => ImplementsBargain
<1>1. Init => Bargain!Init
  <2>1. ASSUME Init
        PROVE  Bargains = << >> /\ said = << >>
    BY <2>1 DEF Init, Bargains
  <2> QED BY <2>1 DEF Bargain!Init
<1>2. IInv /\ [Next]_vars => [Bargain!Next]_(Bargain!vars)
  <2> SUFFICES ASSUME IInv, [Next]_vars
               PROVE  [Bargain!Next]_(Bargain!vars)
    OBVIOUS
  <2>0. DOMAIN Bargains = DOMAIN negotiations
    BY BargainFacts
  <2>1. CASE UNCHANGED vars
    BY <2>1 DEF vars, Bargain!vars, Bargains
  <2>2. ASSUME NEW s \in Senders, NEW other \in Numbers, Negotiate(s, other)
        PROVE  Bargain!Next
    <3>1. PersonOf[s.source] \in People /\ PersonOf[other] \in People
      BY SourceType, NegotiationAssumption
    <3> QED BY <2>2, <3>1, NegotiateStarts DEF Bargain!Next
  <2>3. ASSUME NEW s \in Senders, NEW id \in DOMAIN negotiations, NEW amount \in Offers,
               SubmitOffer(s, id, amount)
        PROVE  Bargain!Next
    <3>1. CASE FirstOffer(s, id, amount)
      BY <2>0, <2>3, <3>1, FirstOfferSpeaks DEF Bargain!Next
    <3>2. CASE SecondOffer(s, id, amount)
      BY <2>0, <2>3, <3>2, SecondOfferSettles DEF Bargain!Next
    <3> QED BY <2>3, <3>1, <3>2 DEF SubmitOffer
  <2>4. ASSUME NEW s \in Senders, NEW id \in DOMAIN negotiations, Withdraw(s, id)
        PROVE  Bargain!Next
    BY <2>0, <2>4, WithdrawCallsOff DEF Bargain!Next
  <2> QED BY <2>1, <2>2, <2>3, <2>4 DEF Next
<1> QED
  BY <1>1, <1>2, NegotiationInvariant, PTL DEF Spec, ImplementsBargain, Bargain!Spec

\* So no late offer, withdrawal or message under another name changes a
\* negotiation that has ended, and nobody revises an offer.
THEOREM NegotiationsAreSealed == Spec => Bargain!Final /\ Bargain!NoSecondThoughts
BY NegotiationImplementsBargain, BargainIsSealed, PTL DEF ImplementsBargain

=============================================================================
