----------------------------- MODULE OmenQueries -----------------------------
(***************************************************************************)
(* What agents read about Omen: the queries of the subgraphs               *)
(* (markets/omen/omen_subgraph_handler.py) and the records they return     *)
(* (markets/omen/data_models.py, from_data_model of markets/omen/omen.py). *)
(*                                                                         *)
(* An optional field or argument is a set: empty when it is None, the set  *)
(* of its value otherwise.  Times are numbers, answers are the indexes of  *)
(* outcomes or Invalid.                                                    *)
(***************************************************************************)
EXTENDS Integers, Sequences, FiniteSets

Invalid == 0
None == {}
Is(value) == {value}
Value(option) == CHOOSE v \in option : TRUE

\* Comparisons of a where-statement: no condition without an argument, and
\* an optional field that is null passes none of them.
Above(field, arg) == \A a \in arg : \E f \in field : f > a
Below(field, arg) == \A a \in arg : \E f \in field : f < a
OneOf(field, arg) == \A a \in arg : field \in a
Wanted(fact, arg) == \A a \in arg : fact = a

-----------------------------------------------------------------------------
\* OmenMarket: the validator takes negative amounts for withdrawn liquidity.
Zeros(amounts) == [i \in DOMAIN amounts |-> 0]
Broken(m) == \E i \in DOMAIN m.amounts : m.amounts[i] < 0
Parsed(m) ==
    IF Broken(m)
    THEN [m EXCEPT !.amounts = Zeros(@), !.liquidity = 0]
    ELSE m

CloseTime(m) == m.opening
IsOpen(m, now) == CloseTime(m) > now

HasValidAnswer(m) == m.answer # None /\ m.answer # Is(Invalid)
IsResolved(m) == m.finalized # None /\ m.resolution # None
ResolvedValidly(m) == IsResolved(m) /\ HasValidAnswer(m)

\* outcome_from_answer, get_resolution_enum: an invalid market has none.
ResolutionEnum(m) == IF ResolvedValidly(m) THEN m.answer ELSE None

\* Condition.index_sets
IndexSets(slots) == 1..slots

-----------------------------------------------------------------------------
\* get_omen_question_filters
QuestionWhere(m, q) ==
    /\ Below(Is(m.opening), q.openedBefore)
    /\ Above(Is(m.opening), q.openedAfter)
    /\ Below(m.finalized, q.finalizedBefore)
    /\ Above(m.finalized, q.finalizedAfter)
    /\ Wanted(m.answer # None, q.withAnswers)

\* _build_where_statements
Binary(m) == Len(m.amounts) = 2

Where(m, q) ==
    /\ ~q.categorical => Binary(m)
    /\ QuestionWhere(m, q)
    /\ OneOf(m.token, q.tokens)
    /\ OneOf(m.condition, q.conditions)
    /\ Above(Is(m.created), q.createdAfter)
    /\ Above(Is(m.liquidity), q.liquidityAbove)
    /\ Wanted(m.resolution # None, q.resolved)
    /\ q.resolved = Is(TRUE) => m.answer # Is(Invalid)

AllMarkets ==
    [categorical |-> TRUE, openedBefore |-> None, openedAfter |-> None,
     finalizedBefore |-> None, finalizedAfter |-> None, withAnswers |-> None,
     tokens |-> None, conditions |-> None, createdAfter |-> None,
     liquidityAbove |-> None, resolved |-> None]

\* get_omen_markets_simple
Simple(filter, now, categorical, safe) ==
    LET q == [AllMarkets EXCEPT !.categorical = categorical,
                                !.tokens = Is(safe)]
    IN  CASE filter = "open" -> [q EXCEPT !.openedAfter = Is(now),
                                          !.liquidityAbove = Is(0)]
          [] filter = "resolved" -> [q EXCEPT !.resolved = Is(TRUE)]
          [] OTHER -> q

-----------------------------------------------------------------------------
\* get_trades: optional arguments as above, from the trades of all markets.
TradeWhere(t, m, q) ==
    /\ Wanted(t.type, q.type)
    /\ \A s \in q.start : t.time >= s
    /\ \A e \in q.end : t.time <= e
    /\ q.finalized => m.finalized # None
    /\ Above(m.resolution, q.resolvedAfter)
    /\ Below(m.resolution, q.resolvedBefore)

\* get_bets: a bet is a purchase.
Bets == [type |-> Is("Buy"), start |-> None, end |-> None,
         finalized |-> FALSE, resolvedAfter |-> None, resolvedBefore |-> None]

Trades(trades, m, q) ==
    LET upTo[k \in 0..Len(trades)] ==
            IF k = 0 THEN <<>>
            ELSE IF TradeWhere(trades[k], m, q)
            THEN Append(upTo[k - 1], trades[k])
            ELSE upTo[k - 1]
    IN  upTo[Len(trades)]

\* get_resolved_bets_with_valid_answer
ResolvedBets(trades, m, q) ==
    IF ResolvedValidly(m)
    THEN Trades(trades, m, [q EXCEPT !.finalized = TRUE]) ELSE <<>>

\* A mutant that takes the tokens of a correct bet for its profit.
MutProfit(t, m) ==
    IF ~HasValidAnswer(m) THEN 0
    ELSE IF m.answer = Is(t.outcome) THEN t.tokens ELSE -t.amount

\* OmenBet.get_profit
Profit(t, m) ==
    IF ~HasValidAnswer(m) THEN 0
    ELSE IF m.answer = Is(t.outcome) THEN t.tokens - t.amount ELSE -t.amount

\* to_generic_resolved_bet
GenericResolvedBet(t, m) ==
    [amount |-> t.amount, outcome |-> t.outcome, created |-> t.time,
     market_outcome |-> m.answer, resolved |-> m.finalized,
     profit |-> Profit(t, m)]
=============================================================================
