----------------------------- MODULE MCStrategy -----------------------------
(***************************************************************************)
(* One market with two outcomes at a time, balanced or not, and one with   *)
(* three; every strategy, with and without taking profits.  The limit of   *)
(* one position lies below the liquidity, that of another above it.        *)
(***************************************************************************)
EXTENDS Strategy

SomePools ==
    {<<1000, 1000>>, <<1200, 400>>, <<1500, 40>>, <<300, 300, 400>>}

Strategy1(kind, max, impact) ==
    {[kind |-> kind, max |-> max, impact |-> impact, takeProfit |-> b] :
        b \in BOOLEAN}

AllStrategies ==
    UNION {Strategy1("MaxAccuracy", 100, 0), Strategy1("MaxAccuracy", 900, 0),
           Strategy1("MaxExpectedValue", 100, 0),
           Strategy1("SimpleKelly", 100, 0), Strategy1("FullKelly", 80, 4),
           Strategy1("KellyScaled", 80, 0),
           Strategy1("SimpleCategorical", 100, 0),
           Strategy1("FullCategorical", 60, 5), Strategy1("Default", 0, 0)}

SomeAnswers ==
    {[p |-> <<7, 3>>, confidence |-> 8], [p |-> <<4, 6>>, confidence |-> 10],
     [p |-> <<1, 6, 3>>, confidence |-> 8]}

=============================================================================
