----------------------------- MODULE Negotiation -----------------------------
(***************************************************************************)
(* Sealed negotiations: NegotiationStore and the commands !negotiate,      *)
(* !offer and !withdraw of                                                 *)
(* crates/signal-bot/src/commands/conditional_recall.rs.  The message loop *)
(* runs one command at a time and none of them awaits anything but the     *)
(* store's locks, so a command is one step.  A command that is refused     *)
(* changes nothing, and !deals lists open negotiations only: neither is a  *)
(* step.                                                                   *)
(*                                                                         *)
(* Signal names the sender of a message by its source (an account UUID or  *)
(* a phone number) and, if the sender shares it, by a phone number as      *)
(* well; a negotiation remembers its parties by one identity each.         *)
(***************************************************************************)
EXTENDS Integers, Sequences

CONSTANTS People,
          Identities,      \* UUIDs and phone numbers
          Numbers,         \* the identities that are phone numbers
          PersonOf,        \* whose identity it is
          Senders,         \* how messages name their senders
          Amounts,         \* offers that are numbers, in units of half a cent
          NotANumber,      \* what "NaN" parses to
          MaxNegotiations  \* bound

Sender == [source : Identities, number : {{}} \cup {{n} : n \in Numbers}]

ASSUME NegotiationAssumption ==
    /\ Numbers \subseteq Identities
    /\ PersonOf \in [Identities -> People]
    /\ Senders \subseteq Sender
    /\ \A s \in Senders : \A n \in s.number : PersonOf[n] = PersonOf[s.source]
    /\ Amounts \subseteq Nat
    /\ NotANumber \notin Int
    /\ MaxNegotiations \in Nat

VARIABLES negotiations,  \* the negotiation with each id
          said           \* history: the offers accepted for each id, with the
                         \* person who made them

vars == <<negotiations, said>>

Offers == Amounts \cup {NotANumber}

\* Option<T>: the set of the value, if there is one.
Option(S) == {o \in SUBSET S : \A x, y \in o : x = y}

Statuses == {"waiting", "deal", "no_deal", "cancelled"}

NegotiationRecord ==
    [initiator : Identities, counterparty : Identities,
     initiator_offer : Option(Offers), counterparty_offer : Option(Offers),
     deal_price : Option(Nat), status : Statuses]

Init ==
    /\ negotiations = << >>
    /\ said = << >>

-----------------------------------------------------------------------------
Matches(s, participant) == participant = s.source \/ participant \in s.number

Opened(initiator, counterparty) ==
    [initiator |-> initiator, counterparty |-> counterparty,
     initiator_offer |-> {}, counterparty_offer |-> {},
     deal_price |-> {}, status |-> "waiting"]

\* !negotiate <number> <description>
Negotiate(s, other) ==
    /\ Len(negotiations) < MaxNegotiations
    /\ other \in Numbers
    /\ other # s.source
    /\ negotiations' = Append(negotiations, Opened(s.source, other))
    /\ said' = Append(said, {})

\* Mutant: no deal only if the buyer's offer is smaller.
AtLeast_UnlessLess(a, b) == ~(a # NotANumber /\ b # NotANumber /\ a < b)

\* Comparisons with NaN are false.
AtLeast(a, b) == a # NotANumber /\ b # NotANumber /\ a >= b

Midpoint(a, b) ==
    IF NotANumber \in {a, b} THEN NotANumber ELSE (a + b) \div 2

\* Mutant: only the buyer's offer is erased.
Forgotten_BuyerOnly(n, status) ==
    [n EXCEPT !.counterparty_offer = {}, !.status = status]

Forgotten(n, status) ==
    [initiator |-> n.initiator, counterparty |-> n.counterparty,
     initiator_offer |-> {}, counterparty_offer |-> {},
     deal_price |-> n.deal_price, status |-> status]

Agreed(n, price) ==
    [initiator |-> n.initiator, counterparty |-> n.counterparty,
     initiator_offer |-> n.initiator_offer,
     counterparty_offer |-> n.counterparty_offer,
     deal_price |-> {price}, status |-> "deal"]

\* The initiator sells, the counterparty buys.
Evaluated(n, seller, buyer) ==
    IF AtLeast(buyer, seller) THEN Agreed(n, Midpoint(seller, buyer))
                              ELSE Forgotten(n, "no_deal")

Updated(id, n) == negotiations' = [negotiations EXCEPT ![id] = n]

\* Mutant: a new offer of the same party replaces the old one.
FirstOffer_Replacing(s, id, amount) ==
    LET n == negotiations[id]
    IN  \/ /\ Matches(s, n.initiator)
           /\ n.counterparty_offer = {}
           /\ Updated(id, [n EXCEPT !.initiator_offer = {amount}])
        \/ /\ ~Matches(s, n.initiator)
           /\ Matches(s, n.counterparty)
           /\ n.initiator_offer = {}
           /\ Updated(id, [n EXCEPT !.counterparty_offer = {amount}])

\* The other party has not made an offer yet.
FirstOffer(s, id, amount) ==
    LET n == negotiations[id]
    IN  \/ /\ Matches(s, n.initiator)
           /\ n.initiator_offer = {} /\ n.counterparty_offer = {}
           /\ Updated(id, [n EXCEPT !.initiator_offer = {amount}])
        \/ /\ ~Matches(s, n.initiator)
           /\ Matches(s, n.counterparty)
           /\ n.counterparty_offer = {} /\ n.initiator_offer = {}
           /\ Updated(id, [n EXCEPT !.counterparty_offer = {amount}])

SecondOffer(s, id, amount) ==
    LET n == negotiations[id]
    IN  \/ /\ Matches(s, n.initiator)
           /\ n.initiator_offer = {}
           /\ \E buyer \in n.counterparty_offer :
                  Updated(id, Evaluated([n EXCEPT !.initiator_offer = {amount}],
                                        amount, buyer))
        \/ /\ ~Matches(s, n.initiator)
           /\ Matches(s, n.counterparty)
           /\ n.counterparty_offer = {}
           /\ \E seller \in n.initiator_offer :
                  Updated(id, Evaluated([n EXCEPT !.counterparty_offer = {amount}],
                                        seller, amount))

\* !offer <id> <amount>
SubmitOffer(s, id, amount) ==
    /\ negotiations[id].status = "waiting"
    /\ FirstOffer(s, id, amount) \/ SecondOffer(s, id, amount)
    /\ said' = [said EXCEPT ![id] = @ \cup {<<PersonOf[s.source], amount>>}]

\* The open negotiations of a sender: those that !deals lists.
Pending(s) ==
    {id \in DOMAIN negotiations :
        /\ negotiations[id].status = "waiting"
        /\ \/ Matches(s, negotiations[id].initiator)
           \/ Matches(s, negotiations[id].counterparty)}

\* Mutant: a negotiation that has ended can be withdrawn from.
Withdraw_AnyTime(s, id) ==
    /\ Matches(s, negotiations[id].initiator) \/ Matches(s, negotiations[id].counterparty)
    /\ Updated(id, Forgotten(negotiations[id], "cancelled"))
    /\ UNCHANGED said

\* !withdraw <id>
Withdraw(s, id) ==
    /\ id \in Pending(s)
    /\ Updated(id, Forgotten(negotiations[id], "cancelled"))
    /\ UNCHANGED said

Next ==
    \E s \in Senders :
        \/ \E other \in Numbers : Negotiate(s, other)
        \/ \E id \in DOMAIN negotiations :
              \/ \E amount \in Offers : SubmitOffer(s, id, amount)
              \/ Withdraw(s, id)

Spec == Init /\ [][Next]_vars

-----------------------------------------------------------------------------
TypeOK ==
    /\ negotiations \in Seq(NegotiationRecord)
    /\ said \in [DOMAIN negotiations -> SUBSET (People \X Offers)]

Seller(id) == PersonOf[negotiations[id].initiator]
Buyer(id)  == PersonOf[negotiations[id].counterparty]

\* "On no-deal, both valuations are truly deleted": once a negotiation has
\* failed or was cancelled, at whatever point, and for ever after, nothing of
\* either offer is left in it.
CrediblyForgotten ==
    \A id \in DOMAIN negotiations :
        negotiations[id].status \in {"no_deal", "cancelled"} =>
            /\ negotiations[id].initiator_offer = {}
            /\ negotiations[id].counterparty_offer = {}
            /\ negotiations[id].deal_price = {}

\* An outcome is the one that the parties' own offers imply, whatever names
\* their messages carried and in whichever order they came: each of the two
\* made exactly one offer, nobody else did, and there is a price, between the
\* offers, if and only if the buyer's reaches the seller's.  (A person known by
\* a UUID can open a negotiation with their own number; it has no meaning.)
FairOutcome ==
    \A id \in DOMAIN negotiations :
        /\ Seller(id) # Buyer(id)
        /\ negotiations[id].status \in {"deal", "no_deal"}
        => \E a, b \in Offers :
              /\ said[id] = {<<Seller(id), a>>, <<Buyer(id), b>>}
              /\ (negotiations[id].status = "deal") <=> AtLeast(b, a)
              /\ \A price \in negotiations[id].deal_price : a <= price /\ price <= b
=============================================================================
