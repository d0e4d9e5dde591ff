------------------------------ MODULE MCBilling ------------------------------
(***************************************************************************)
(* Values for TLC: a firm billed outside and one billed at Stripe, and the *)
(* rate cards, which share no state with invoicing: the price of a usage   *)
(* event is fixed when it is metered.  So nothing is lost when one moves   *)
(* only while the other is at its start.                                   *)
(***************************************************************************)
EXTENDS Billing, RateCards, TLC

CONSTANTS acme, bolt, h1, h2, none

MCMode == acme :> "external" @@ bolt :> "stripe"
MCFirmOf == <<acme, bolt, acme>>
MCAmount == <<2, 1, 1>>

(* Two events of one firm. *)
MCOneFirm == <<acme, acme>>
MCPair == <<1, 1>>

MCScopes == {<<acme, "sft">>, <<acme, "eval">>}

(* Both keep their types: in particular an invoice_id names a committed     *)
(* invoice, and a card has a number of its own.                             *)
MCTypeOK == TypeOK /\ RatesTypeOK

MCInit == Init /\ RatesInit

MCNext ==
    \/ RatesInit /\ platform = NoRequest /\ Next /\ UNCHANGED rateVars
    \/ Init /\ RatesNext /\ UNCHANGED vars

MCSpec == MCInit /\ [][MCNext]_<<vars, rateVars>> /\ Fairness
=============================================================================
