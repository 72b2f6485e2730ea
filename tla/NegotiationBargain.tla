-------------------------- MODULE NegotiationBargain --------------------------
(***************************************************************************)
(* Negotiation, seen by the people behind the identities, is a             *)
(* SealedBargain.                                                          *)
(***************************************************************************)
EXTENDS Negotiation

\* What the parties call the status of a negotiation.
StateOf == [waiting |-> "open", deal |-> "deal", no_deal |-> "failed",
            cancelled |-> "cancelled"]

\* The initiator sells, the counterparty buys.
BargainOf(n) ==
    [seller |-> PersonOf[n.initiator], buyer |-> PersonOf[n.counterparty],
     ask |-> n.initiator_offer, bid |-> n.counterparty_offer,
     price |-> n.deal_price, state |-> StateOf[n.status]]

Bargains == [id \in DOMAIN negotiations |-> BargainOf(negotiations[id])]

Bargain == INSTANCE SealedBargain
              WITH People   <- People,
                   Bids     <- Offers,
                   bargains <- Bargains,
                   spoken   <- said

\* Every execution of the commands is one of the bargain: whatever names the
\* messages carry and in whatever order commands come, the store shows the two
\* parties nothing but one statement each, a fair end and a forgotten one.
ImplementsBargain == Bargain!Spec
=============================================================================
