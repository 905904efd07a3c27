------------------------------ MODULE Strategy ------------------------------
(***************************************************************************)
(* The betting strategies (deploy/betting_strategy.py) of an agent that    *)
(* comes back to one Omen market: each run reads its position, makes its   *)
(* strategy, calculates trades from an answer and the market, and places   *)
(* them one by one at the pool as it is by then.  Other traders move the   *)
(* pool between any two of these steps.                                    *)
(*                                                                         *)
(* The collateral is worth one USD.  Outcomes are their indexes.           *)
(***************************************************************************)
EXTENDS Pricing, Functions

CONSTANTS
    Pools,        \* pools of the market at first
    MarketFee,    \* of the market, in percent of a bet
    Liquidity,    \* get_liquidity: the supply of the market's shares
    Strategies,   \* [kind, max, impact, takeProfit]; impact 0 stands for None
    TinyBet,      \* get_tiny_bet_amount
    Predictions,  \* [p, confidence], both in tenths
    Joint,        \* sizes the optimiser of the joint Kelly bets may find
    OthersBet,    \* what another trader bets at once
    MaxRuns,      \* bound: runs of the agent
    MaxOthers     \* bound: bets of others

\* "Default" is what get_betting_strategy makes unless an agent overrides it:
\* "MaxAccuracy" with a maximum that is worked out anew in every run.
StrategyKinds ==
    {"Default", "MaxAccuracy", "MaxExpectedValue", "SimpleKelly", "FullKelly",
     "KellyScaled", "SimpleCategorical", "FullCategorical"}

ASSUME StrategyAssumption ==
    /\ Pools \subseteq Seq(Nat \ {0}) /\ \A p \in Pools : Len(p) >= 2
    /\ MarketFee \in 0..99
    /\ Strategies \subseteq
           [kind : StrategyKinds, max : Nat, impact : Nat, takeProfit : BOOLEAN]
    /\ Predictions \subseteq [p : Seq(0..10), confidence : 0..10]
    /\ Joint \subseteq Nat
    /\ {Liquidity, TinyBet, OthersBet, MaxRuns, MaxOthers} \subseteq Nat

VARIABLES
    balances,   \* outcome tokens of the market maker
    position,   \* outcome tokens of the agent
    strategy,   \* the strategy of the current run
    pc,         \* "idle", "held", "ready" or "trade"
    existing,   \* existing_position: what each outcome's tokens would sell for
    plan,       \* trades still to place: [type, outcome, amount]
    prediction, \* the answer they were calculated from
    runs, others,
    thisRun, lastRun   \* history of this run and of the one before it

strategyVars == <<balances, position, strategy, pc, existing, plan, prediction, runs,
                  others, thisRun, lastRun>>

\* Nobody else traded since a run's trades were calculated (undisturbed), or
\* since the run read its position (alone).
NoRun == [answer |-> <<>>, bought |-> 0, sold |-> 0, undisturbed |-> FALSE,
          alone |-> FALSE]
Indexes == DOMAIN balances

StrategyInit ==
    /\ balances \in Pools
    /\ position = [i \in DOMAIN balances |-> 0]
    /\ strategy \in Strategies
    /\ \* is_market_supported: what is made for binary markets has two outcomes
       strategy.kind \in {"SimpleKelly", "FullKelly", "KellyScaled"}
           => Len(balances) = 2
    /\ pc = "idle" /\ plan = <<>> /\ existing = position
    /\ prediction \in {a \in Predictions : Len(a.p) = Len(balances)}
    /\ runs = 0 /\ others = 0
    /\ thisRun = NoRun /\ lastRun = NoRun

-----------------------------------------------------------------------------
\* The position of get_position: the collateral its tokens would sell for.
SaleValue(i) == SellAmount(balances, i, position[i], MarketFee)

\* The market gives more tokens than the collateral it takes.
Profitable(i, amount) == Quote(balances, i, amount, MarketFee) > 10 * amount

\* cap_to_profitable_bet_amount: binary search in whole units.
Iterations == 10

\* A mutant that stops early, while the interval is still wide.
MutCapToProfitable(i, wanted) ==
    LET mid == Lesser(wanted, Liquidity) \div 2
    IN  IF Profitable(i, wanted) THEN wanted
        ELSE IF Profitable(i, mid) THEN mid ELSE 0

Narrowed(i, s) ==
    LET mid == (s.lower + s.upper) \div 2
    IN  IF s.upper - s.lower <= 1 THEN s
        ELSE IF Profitable(i, mid) THEN [s EXCEPT !.lower = mid, !.best = mid]
        ELSE [s EXCEPT !.upper = mid]

CapToProfitable(i, wanted) ==
    LET search[n \in 0..Iterations] ==
            IF n = 0
            THEN [lower |-> 0, upper |-> Lesser(wanted, Liquidity), best |-> 0]
            ELSE Narrowed(i, search[n - 1])
    IN  IF Profitable(i, wanted) THEN wanted ELSE search[Iterations].best

\* cap_to_profitable_position
\* A mutant that adds the whole wanted position to what is held.
MutCapPosition(i, wanted) == existing[i] + CapToProfitable(i, wanted)

CapPosition(i, wanted) ==
    IF wanted > existing[i]
    THEN existing[i] + CapToProfitable(i, wanted - existing[i]) ELSE wanted

\* get_total_amount_to_bet of the default strategy: a tiny bet on top of the
\* whole position as it is now.
\* A mutant that leaves out what is held already.
MutTotalAmountToBet == TinyBet

TotalAmountToBet == TinyBet + SumOf([i \in Indexes |-> SaleValue(i)])

-----------------------------------------------------------------------------
\* The target position [outcome, amount] of each strategy.
Target(i, amount) == [outcome |-> i, amount |-> amount]
First(S) == CHOOSE i \in S : \A j \in S : i <= j
MostLikely(a) == First({i \in DOMAIN a.p : \A j \in DOMAIN a.p : a.p[j] <= a.p[i]})
OtherDirection(i) == First(Indexes \ {i})

\* MaxExpectedValueBettingStrategy.calculate_direction
BestValue(a) ==
    LET priced == {i \in Indexes : Price(balances, i) > 0}
    IN  First({i \in priced : \A j \in priced :
                   a.p[j] * Price(balances, i) <= a.p[i] * Price(balances, j)})

\* get_kelly_bet
KellyBet(full, i, estimated, a) ==
    IF full
    THEN KellyFull(balances[i], balances[OtherDirection(i)], estimated, a.confidence,
                   strategy.max, MarketFee)
    ELSE KellySimple(Price(balances, i), estimated, a.confidence, strategy.max)

\* max_price_impact
Damped(i, size) ==
    IF strategy.impact = 0 \/ size = 0 THEN size
    ELSE Lesser(size, BetForImpact(balances, i, strategy.impact, size, MarketFee))

\* _BinaryKellyBettingStrategy.calculate_trades: the impact is that of the
\* favoured outcome, also when the bet goes against it.
KellyTarget(full, a) ==
    LET i == MostLikely(a)
        bet == KellyBet(full, i, a.p[i], a)
        size == Damped(i, bet.size)
        on == IF bet.forIt THEN i ELSE OtherDirection(i)
    IN  Target(on, IF size > 0 THEN CapToProfitable(on, size) ELSE 0)

\* MaxAccuracyWithKellyScaledBetsStrategy: Kelly for a perfect prediction.
ScaledTarget(a) ==
    LET i == MostLikely(a) IN Target(i, KellyBet(TRUE, i, 10, a).size)

\* _CategoricalKellyBettingStrategy: the largest positive bet, if there is.
LargestBet(bets) ==
    LET positive == {i \in DOMAIN bets : bets[i] > 0}
        i == First({j \in positive : \A k \in positive : bets[k] <= bets[j]})
    IN  IF positive = {} THEN {} ELSE {Target(i, Damped(i, bets[i]))}

SimpleBets(a) ==
    KellySimplified([i \in Indexes |-> Price(balances, i)], a.p, a.confidence,
                    strategy.max, MarketFee, FALSE, FALSE)

\* get_kelly_bets_categorical_full: no bets when the answer is the market's
\* opinion; otherwise what an optimiser finds, or, when it fails, the bets
\* of the simple version.  Its best point need not satisfy the constraints.
\* A mutant without the bounds of the optimiser.
MutJointBets(a) ==
    {[i \in Indexes |-> IF i = j THEN s ELSE 0] : j \in Indexes, s \in Joint}

JointBets(a) ==
    IF \A i \in Indexes : Distance(100 * a.p[i], Price(balances, i)) < 1
    THEN {[i \in Indexes |-> 0]}
    ELSE {SimpleBets(a)}
         \cup {[i \in Indexes |-> IF i = j THEN Lesser(s, strategy.max) ELSE 0]
                   : j \in Indexes, s \in Joint}

\* The targets calculate_trades may aim at; {} when it returns no trades.
Targets(a) ==
    CASE strategy.kind \in {"Default", "MaxAccuracy", "MaxExpectedValue"} ->
             LET i == IF strategy.kind = "MaxExpectedValue"
                      THEN BestValue(a) ELSE MostLikely(a)
             IN  {Target(i, CapPosition(i, strategy.max))}
      [] strategy.kind = "SimpleKelly" -> {KellyTarget(FALSE, a)}
      [] strategy.kind = "FullKelly" -> {KellyTarget(TRUE, a)}
      [] strategy.kind = "KellyScaled" -> {ScaledTarget(a)}
      [] strategy.kind = "SimpleCategorical" -> LargestBet(SimpleBets(a))
      [] strategy.kind = "FullCategorical" ->
             UNION {LargestBet(bets) : bets \in JointBets(a)}

-----------------------------------------------------------------------------
\* _build_rebalance_trades_from_positions: purchases first.
Aim(target, i) == IF i = target.outcome THEN target.amount ELSE 0

Adjustment(target, i) ==
    [type |-> IF Aim(target, i) < existing[i] THEN "sell" ELSE "buy",
     outcome |-> i, amount |-> Distance(Aim(target, i), existing[i])]

\* A purchase without a quote is skipped.
Wants(target, t) ==
    /\ t.amount # 0
    /\ \/ t.type = "buy" \/ strategy.takeProfit
       \/ Aim(target, t.outcome) = 0
    /\ t.type = "buy" => Quote(balances, t.outcome, t.amount, MarketFee) # 0

\* The trades of a type come after those of list.
Extended(list, target, type) ==
    LET upTo[k \in 0..Len(balances)] ==
            IF k = 0 THEN list
            ELSE LET t == Adjustment(target, k)
                 IN  IF t.type = type /\ Wants(target, t)
                     THEN Append(upTo[k - 1], t) ELSE upTo[k - 1]
    IN  upTo[Len(balances)]

\* A mutant that sells first.
MutRebalance(target) ==
    Extended(Extended(<<>>, target, "sell"), target, "buy")

Rebalance(target) == Extended(Extended(<<>>, target, "buy"), target, "sell")

\* assert_buy_trade_wont_be_guaranteed_loss raises for these.
Raises(list) ==
    \E t \in Range(list) : t.type = "buy" /\ ~Profitable(t.outcome, t.amount)

Purchases(list) ==
    SumOf([k \in DOMAIN list |->
               IF list[k].type = "buy" THEN list[k].amount ELSE 0])

-----------------------------------------------------------------------------
\* process_market: the position the trades will start from.
ReadPosition ==
    /\ pc = "idle" /\ runs < MaxRuns
    /\ existing' = [i \in Indexes |-> SaleValue(i)]
    /\ pc' = "held"
    /\ thisRun' = [NoRun EXCEPT !.alone = TRUE]
    /\ UNCHANGED <<balances, position, strategy, plan, prediction, runs, others,
                   lastRun>>

\* get_betting_strategy reads the position once more.
GetStrategy ==
    /\ pc = "held"
    /\ strategy' = IF strategy.kind = "Default"
                   THEN [strategy EXCEPT !.max = TotalAmountToBet] ELSE strategy
    /\ pc' = "ready"
    /\ UNCHANGED <<balances, position, existing, plan, prediction, runs, others,
                   thisRun, lastRun>>

\* calculate_trades for an answer; GuaranteedLossError ends the run.
Decide ==
    /\ pc = "ready"
    /\ runs' = runs + 1
    /\ \E a \in {b \in Predictions : Len(b.p) = Len(balances)} :
         /\ prediction' = a
         /\ \/ \E target \in Targets(a) :
                 plan' = IF Raises(Rebalance(target)) THEN <<>>
                           ELSE Rebalance(target)
            \/ Targets(a) = {} /\ plan' = <<>>
    /\ pc' = "trade"
    /\ thisRun' = [answer |-> prediction'.p, bought |-> 0, sold |-> 0,
                   undisturbed |-> TRUE, alone |-> thisRun.alone]
    /\ UNCHANGED <<balances, position, strategy, existing, others, lastRun>>

\* The next trade is of this type.
IsNext(type) == pc = "trade" /\ plan # <<>> /\ Head(plan).type = type

\* A bet asks the contract for its quote again before it is placed.
PlaceBuy ==
    /\ IsNext("buy")
    /\ LET t == Head(plan)
       IN  /\ position' = [position EXCEPT ![t.outcome] =
                           @ + SharesBought(balances, t.outcome, t.amount, MarketFee)]
           /\ balances' = PoolAfterBuy(balances, t.outcome, t.amount, MarketFee)
           /\ thisRun' = [thisRun EXCEPT !.bought = @ + t.amount]
    /\ plan' = Tail(plan)
    /\ UNCHANGED <<strategy, pc, existing, prediction, runs, others, lastRun>>

\* Everything that is held when it is worth no more than was to be sold.
PlaceSell ==
    /\ IsNext("sell")
    /\ LET t == Head(plan)
           amount == Lesser(t.amount, SaleValue(t.outcome))
           taken == SharesSold(balances, t.outcome, amount, MarketFee)
       IN  /\ position' = [position EXCEPT ![t.outcome] = @ - taken]
           /\ balances' = PoolAfterSell(balances, t.outcome, amount, MarketFee)
           /\ thisRun' = [thisRun EXCEPT !.sold = @ + amount]
    /\ plan' = Tail(plan)
    /\ UNCHANGED <<strategy, pc, existing, prediction, runs, others, lastRun>>

Finish ==
    /\ pc = "trade" /\ plan = <<>>
    /\ pc' = "idle"
    /\ lastRun' = thisRun
    /\ UNCHANGED <<balances, position, strategy, existing, plan, prediction, runs,
                   others, thisRun>>

\* Somebody else bets.
OtherBets ==
    /\ others < MaxOthers
    /\ others' = others + 1
    /\ \E i \in Indexes : balances' = PoolAfterBuy(balances, i, OthersBet, MarketFee)
    /\ thisRun' = [thisRun EXCEPT !.undisturbed = FALSE, !.alone = FALSE]
    /\ lastRun' = [lastRun EXCEPT !.undisturbed = FALSE, !.alone = FALSE]
    /\ UNCHANGED <<position, strategy, pc, existing, plan, prediction, runs>>

StrategyNext ==
    \/ ReadPosition \/ GetStrategy \/ Decide \/ PlaceBuy \/ PlaceSell \/ Finish
    \/ OtherBets

StrategySpec == StrategyInit /\ [][StrategyNext]_strategyVars

-----------------------------------------------------------------------------
(* What a run spends is covered by the maximum_possible_bet_amount of its  *)
(* strategy, whatever became of the position between the moment it was     *)
(* read and the moment the strategy was made from it.                      *)
MaxIsEnough ==
    pc = "trade" => thisRun.bought + Purchases(plan) <= strategy.max

(* On a pool that nobody else moved since the trades were calculated a     *)
(* purchase gets more tokens than it costs, so it can still win: the check *)
(* for a guaranteed loss is made on the snapshot, and a sale before the    *)
(* purchase would make it stale.                                           *)
NoGuaranteedLoss ==
    [][\A i \in Indexes :
          pc = "trade" /\ thisRun.undisturbed /\ position'[i] > position[i]
              => position'[i] - position[i] >= Head(plan).amount]_strategyVars

(* The bet on the likeliest outcome is as large as wanted, or no larger    *)
(* one (by 20 units, what rounding may hide) within the liquidity would be *)
(* profitable: the search stops neither early nor on the wrong side.       *)
CapIsBest ==
    [][strategy.kind \in {"Default", "MaxAccuracy"} /\ runs' # runs =>
          LET i == MostLikely(prediction')
              wanted == strategy.max - existing[i]
              bet == Purchases(plan')
          IN  wanted > 0 /\ bet # wanted =>
                  \A k \in 1..(Lesser(wanted, Liquidity) - bet) \div 20 :
                      ~Profitable(i, bet + 20 * k)]_strategyVars

SameAnswer == runs' # runs /\ lastRun.answer = prediction'.p

(* A run of the default strategy that gives the answer of the run before   *)
(* it, with nobody else trading since that one read the position, sells    *)
(* nothing and adds at most a tiny bet: a run undoes neither what its own  *)
(* purchase did to the price nor what it bought after a change of mind.    *)
NoChurn ==
    [][SameAnswer /\ strategy.kind = "Default" /\ lastRun.alone =>
           /\ \A t \in Range(plan') : t.type = "buy"
           /\ Purchases(plan') <= TinyBet]_strategyVars

=============================================================================
