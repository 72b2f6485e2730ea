---------------------------- MODULE SealedBargain ----------------------------
(***************************************************************************)
(* What a sealed negotiation promises its two parties, without names of    *)
(* accounts, commands or midpoints: each of them speaks at most once and   *)
(* only for themselves; when both have spoken there is a price between     *)
(* their valuations, or both valuations are forgotten; until then a party  *)
(* may call it off, and then too everything is forgotten; and whatever has *)
(* ended stays as it ended.                                                *)
(***************************************************************************)
EXTENDS Integers, Sequences

CONSTANTS People,
          Bids            \* valuations; one that is no number meets no other

VARIABLES bargains,       \* a record for each bargain that was opened
          spoken          \* the valuations each person stated in each bargain

vars == <<bargains, spoken>>

Reaches(bid, ask) == bid \in Nat /\ ask \in Nat /\ ask <= bid

\* ask and bid: the valuation of the seller and of the buyer, if it is known.
Fresh(p, q) ==
    [seller |-> p, buyer |-> q, ask |-> {}, bid |-> {}, price |-> {}, state |-> "open"]

\* Bargain i continues between the same two people.
Becomes(i, ask, bid, price, state) ==
    bargains' = [bargains EXCEPT ![i] =
                   [seller |-> bargains[i].seller, buyer |-> bargains[i].buyer,
                    ask |-> ask, bid |-> bid, price |-> price, state |-> state]]

Says(i, who, x) == spoken' = [spoken EXCEPT ![i] = @ \cup {<<who, x>>}]

Forgotten(i, state) == Becomes(i, {}, {}, {}, state)

Open(i) == bargains[i].state = "open"

Init ==
    /\ bargains = << >>
    /\ spoken = << >>

Start(p, q) ==
    /\ bargains' = Append(bargains, Fresh(p, q))
    /\ spoken' = Append(spoken, {})

\* One of the two speaks first.
Speak(i, x) ==
    LET b == bargains[i]
    IN  /\ Open(i) /\ b.ask = {} /\ b.bid = {}
        /\ \/ Says(i, b.seller, x) /\ Becomes(i, {x}, {}, {}, "open")
           \/ Says(i, b.buyer, x)  /\ Becomes(i, {}, {x}, {}, "open")

\* The other answers, and the bargain is over.
Settle(i, ask, bid) ==
    LET b == bargains[i]
    IN  /\ Open(i)
        /\ \/ b.ask = {} /\ b.bid = {bid} /\ Says(i, b.seller, ask)
           \/ b.ask = {ask} /\ b.bid = {} /\ Says(i, b.buyer, bid)
        /\ \/ /\ Reaches(bid, ask)
              /\ \E p \in ask .. bid : Becomes(i, {ask}, {bid}, {p}, "deal")
           \/ /\ ~Reaches(bid, ask)
              /\ Forgotten(i, "failed")

CallOff(i) ==
    /\ Open(i)
    /\ Forgotten(i, "cancelled")
    /\ UNCHANGED spoken

Next ==
    \/ \E p, q \in People : Start(p, q)
    \/ \E i \in DOMAIN bargains :
          \/ \E x \in Bids : Speak(i, x)
          \/ \E ask, bid \in Bids : Settle(i, ask, bid)
          \/ CallOff(i)

Spec == Init /\ [][Next]_vars

-----------------------------------------------------------------------------
\* A bargain that has ended keeps its end, its price and its parties, and is
\* deaf to whatever is said later.
Final ==
    [][\A i \in DOMAIN bargains :
          bargains[i].state # "open" =>
              /\ i \in DOMAIN bargains'
              /\ bargains'[i] = bargains[i] /\ spoken'[i] = spoken[i]]_vars

\* A valuation is never replaced by another one of the same party.
NoSecondThoughts ==
    [][\A i \in DOMAIN bargains :
          /\ i \in DOMAIN bargains'
          /\ bargains[i].ask # {} => bargains'[i].ask \in {{}, bargains[i].ask}
          /\ bargains[i].bid # {} => bargains'[i].bid \in {{}, bargains[i].bid}]_vars
=============================================================================
