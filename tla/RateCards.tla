------------------------------ MODULE RateCards ------------------------------
(***************************************************************************)
(* The price of an approved record: POST /firms/{id}/rate-cards of         *)
(* factory/api/main.py puts a new card in the place of those it finds, and *)
(* billing/service.py looks the price up when it meters a record.  Each    *)
(* request is a READ COMMITTED transaction; a card that it deactivates is  *)
(* locked from the flush to the end.  Cards are numbered by created_at,    *)
(* which is taken at the INSERT from clocks that agree.  No handler writes *)
(* the platform's own card of a task type; there may be one.               *)
(***************************************************************************)
EXTENDS Integers, FiniteSetsExt

CONSTANTS
    Operators,      \* requests that can be served at once
    Scopes,         \* pairs of a firm and a task type
    Prices,         \* unit_price_cents that are asked for
    PlatformPrices, \* what the platform's cards may ask, for every task type
    DefaultPrice,   \* settings.default_rates_cents
    MaxCards,       \* bound: cards ever inserted
    NoRequest       \* no card, no request, nobody

Pricings ==
    [scope : Scopes, price : Prices, found : SUBSET (1 .. MaxCards), flushed : BOOLEAN]

ASSUME RateCardsAssumption ==
    /\ MaxCards \in Nat
    /\ Prices \cup PlatformPrices \cup {DefaultPrice} \subseteq Nat \ {0}
    /\ NoRequest \notin Operators \cup Nat /\ NoRequest \notin Pricings

VARIABLES
    platform,   \* the price on the platform's card, or NoRequest
    cards,      \* rows of rate_cards inserted and not rolled back, by number
    inserted,   \* how many were
    pricing,    \* the request each operator's handler serves
    crossed     \* two of these requests were under way at once

rateVars == <<platform, cards, inserted, pricing, crossed>>

(* owner: the transaction a row belongs to until it commits. *)
CardRows == [scope : Scopes, price : Prices, active : BOOLEAN, owner : Operators \cup {NoRequest}]

(* Every card has a number of its own, given once. *)
RatesTypeOK ==
    /\ platform \in PlatformPrices \cup {NoRequest}
    /\ inserted \in 0 .. MaxCards /\ DOMAIN cards \subseteq 1 .. inserted
    /\ \A c \in DOMAIN cards : cards[c] \in CardRows
    /\ pricing \in [Operators -> Pricings \cup {NoRequest}]
    /\ crossed \in BOOLEAN

RatesInit ==
    /\ platform \in PlatformPrices \cup {NoRequest}
    /\ cards = <<>>
    /\ inserted = 0
    /\ pricing = [o \in Operators |-> NoRequest]
    /\ crossed = FALSE

-----------------------------------------------------------------------------
Priced(s) == {c \in DOMAIN cards : cards[c].owner = NoRequest /\ cards[c].scope = s}
Current(s) == {c \in Priced(s) : cards[c].active}

(* resolve_unit_price_cents *)
UnitPrice(s) ==
    IF Current(s) # {} THEN cards[Max(Current(s))].price
    ELSE IF platform # NoRequest THEN platform
    ELSE DefaultPrice

(* create_rate_card: the SELECT. *)
FindCards(o, s, p) ==
    /\ pricing[o] = NoRequest
    /\ pricing' = [pricing EXCEPT ![o] =
           [scope |-> s, price |-> p, found |-> Current(s), flushed |-> FALSE]]
    /\ crossed' = (crossed \/ \E x \in Operators : pricing[x] # NoRequest)
    /\ UNCHANGED <<platform, cards, inserted>>

(* The flush: it waits for the cards it deactivates. *)
FlushCard(o) ==
    LET r == pricing[o]
    IN  /\ r # NoRequest /\ ~r.flushed
        /\ inserted < MaxCards
        /\ \A x \in Operators \ {o} :
               pricing[x] # NoRequest /\ pricing[x].flushed => pricing[x].found \cap r.found = {}
        /\ inserted' = inserted + 1
        /\ cards' = [c \in DOMAIN cards \cup {inserted + 1} |->
               IF c \in DOMAIN cards THEN cards[c]
               ELSE [scope |-> r.scope, price |-> r.price, active |-> TRUE, owner |-> o]]
        /\ pricing' = [pricing EXCEPT ![o].flushed = TRUE]
        /\ UNCHANGED <<platform, crossed>>

(* Faulty variant: whatever is active by then is deactivated. *)
Deactivated_Current(o) == Current(pricing[o].scope)

Deactivated(o) == pricing[o].found

CommitCard(o) ==
    /\ pricing[o] # NoRequest /\ pricing[o].flushed
    /\ cards' = [c \in DOMAIN cards |->
           IF c \in Deactivated(o) THEN [cards[c] EXCEPT !.active = FALSE]
           ELSE IF cards[c].owner = o THEN [cards[c] EXCEPT !.owner = NoRequest]
           ELSE cards[c]]
    /\ pricing' = [pricing EXCEPT ![o] = NoRequest]
    /\ UNCHANGED <<platform, inserted, crossed>>

AbandonCard(o) ==
    /\ pricing[o] # NoRequest
    /\ cards' = [c \in {d \in DOMAIN cards : cards[d].owner # o} |-> cards[c]]
    /\ pricing' = [pricing EXCEPT ![o] = NoRequest]
    /\ UNCHANGED <<platform, inserted, crossed>>

RatesNext ==
    \E o \in Operators :
        \/ \E s \in Scopes, p \in Prices : FindCards(o, s, p)
        \/ FlushCard(o) \/ CommitCard(o) \/ AbandonCard(o)

RatesSpec == RatesInit /\ [][RatesNext]_rateVars

-----------------------------------------------------------------------------
(* What must hold. *)

(***************************************************************************)
(* QM B1, api/main.py:201: the newest card of a firm's task type wins, and *)
(* only without one the platform's or the default price - also when        *)
(* requests overlap, wait for each other, fail, or commit in another order *)
(* than they inserted.  Apart from overlap it is the only active one.      *)
(***************************************************************************)
NewestCardWins ==
    \A s \in Scopes :
        /\ Priced(s) # {} => UnitPrice(s) = cards[Max(Priced(s))].price
        /\ Priced(s) = {} => UnitPrice(s) \in PlatformPrices \cup {DefaultPrice}
        /\ ~crossed => Cardinality(Current(s)) <= 1
=============================================================================
