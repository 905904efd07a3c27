---------------------------- MODULE PolymarketApi ----------------------------
(***************************************************************************)
(* How markets/polymarket/api.py reads lists page by page.  The lists are  *)
(* what the servers hold, newest first; a parameter that may be None is a  *)
(* set with at most one element.                                           *)
(***************************************************************************)
EXTENDS Integers, FiniteSets, Sequences, SequencesExt, Functions

CONSTANTS
    ListLimit,      \* TRADES_LIMIT, MARKETS_LIMIT
    ListCap,        \* the data API gives nothing beyond this offset
    Binary          \* POLYMARKET_TRUE_OUTCOME and POLYMARKET_FALSE_OUTCOME

ASSUME PolymarketApiAssumption ==
    ListLimit \in Nat \ {0} /\ ListCap \in Nat /\ Cardinality(Binary) = 2

\* The elements at some places of a list, in their order.
Selected(list, places) ==
    LET upTo[k \in 0..Len(list)] ==
            IF k = 0 THEN <<>>
            ELSE IF k \in places THEN Append(upTo[k - 1], list[k])
            ELSE upTo[k - 1]
    IN  upTo[Len(list)]

PageOf(list, offset) ==
    LET last == offset + ListLimit
    IN  SubSeq(list, offset + 1, IF last < Len(list) THEN last ELSE Len(list))

\* _fetch_trades_paginated: trades that are too old are dropped, and do not
\* end the loop; a page that is not full does, and so does the cap.
Recent(page, after) ==
    Selected(page, {k \in DOMAIN page :
                        \A time \in after : page[k].time >= time})

TradesPaginated(list, after) ==
    LET from[offset \in 0..Len(list)] ==
            LET page == PageOf(list, offset)
                next == offset + Len(page)
            IN  IF Len(page) < ListLimit \/ next >= ListCap
                THEN Recent(page, after)
                ELSE Recent(page, after) \o from[next]
    IN  from[0]

\* get_polymarkets_with_pagination keeps events with one market of the
\* outcomes Yes and No, and goes on until there are enough of them.
Kept(event) == Len(event.markets) = 1 /\ Range(event.outcomes) = Binary

MarketsPaginated(list, limit) ==
    LET from[at \in (0..Len(list)) \X (1..limit)] ==
            LET page == PageOf(list, at[1])
                next == at[1] + Len(page)
                added == Selected(page, {k \in DOMAIN page : Kept(page[k])})
                left == at[2] - Len(added)
            IN  IF left <= 0 \/ next = Len(list) THEN added
                ELSE added \o from[<<next, left>>]
        all == IF limit = 0 THEN <<>> ELSE from[<<0, limit>>]
    IN  SubSeq(all, 1, IF limit < Len(all) THEN limit ELSE Len(all))
=============================================================================
