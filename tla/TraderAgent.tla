---------------------------- MODULE TraderAgent ----------------------------
(***************************************************************************)
(* One trading agent, run after run: DeployableTraderAgent (deploy/agent.py)*)
(* with its default strategy (deploy/betting_strategy.py) on Omen markets  *)
(* (markets/omen/omen.py).  A run fetches the open markets and for each    *)
(* checks the balance, verifies, answers, reads its position, builds the   *)
(* rebalancing trades, executes them and stores what it placed.            *)
(*                                                                         *)
(* The agent sees the chain through two subgraphs that lag behind it, each *)
(* by its own amount: one of positions and one of bets.  Prices move,      *)
(* markets close and calls fail while it works.  An exception aborts the   *)
(* run; the next one starts with nothing but the chain.                    *)
(*                                                                         *)
(* Holdings are counted in outcome tokens, each worth 2 of the favoured    *)
(* outcome and 1 of any other; fees, rounding and redeemed winnings are    *)
(* left out.  Outcomes are their indexes; module Answers has what is made  *)
(* of their names.                                                         *)
(***************************************************************************)
EXTENDS Answers, SequencesExt

CONSTANTS
    Markets, Outcomes,
    Names,       \* the names of the outcomes of each market
    Subclasses,  \* the agents: sets of the answer methods they implement
    None,        \* no market, no outcome
    Tiny,        \* get_tiny_bet_amount, in USD
    Interval,    \* same_market_trade_interval
    BetOn,       \* bet_on_n_markets_per_run
    Funds,       \* trade balance at the start
    Holdings,    \* what the agent may hold at the start
    MaxTaken,    \* bound: attempts of one order that take effect
    MaxRuns, MaxTime, MaxDrifts   \* bounds

ASSUME AgentAssumption ==
    /\ \A m \in Markets : DOMAIN Names[m] = Outcomes
    /\ Subclasses \subseteq SUBSET Methods
    /\ IsFiniteSet(Outcomes) /\ None \notin Markets \cup Outcomes
    /\ {Tiny, Interval, BetOn, MaxTaken, MaxRuns, MaxTime} \subseteq Nat \ {0}
    /\ {Funds, MaxDrifts} \subseteq Nat
    /\ Holdings \subseteq [Markets -> [Outcomes -> Nat]]

VARIABLES
    methods,             \* the answer methods of the agent's class
    now, open, favoured, drifts,    \* the world
    pos, bal, betAt,     \* chain: tokens, balance, time of the last bet (0: no)
    idxPos, idxBet,      \* the subgraphs' versions of pos and betAt
    pc, run, todo, processed,
    market,              \* the market being processed
    direction,           \* the outcome to bet on
    existing,            \* values read by process_market
    trades,              \* trades still to execute
    selling,             \* what the sale at hand asks for
    placed,              \* placed_trades
    unstored,            \* trades whose call returned and that are not stored
    raisedIn,            \* history: the market a run with unstored trades failed at
    calm,                \* history: positions were up to date, prices kept
    sawBets              \* history: verify_market saw the latest bets

world == <<methods, open, favoured, drifts>>
chain == <<pos, bal, betAt>>
index == <<idxPos, idxBet>>
work == <<direction, existing, trades, selling, placed>>
history == <<unstored, raisedIn, calm, sawBets>>
vars == <<now, world, chain, index, pc, run, todo, processed, market, work,
          history>>

Amounts == [Outcomes -> Nat]
Zero == [o \in Outcomes |-> 0]
Trade == [type : {"buy", "sell"}, outcome : Outcomes, amount : Nat]
Sale == [unit : {"usd", "token"}, amount : Nat]
Nothing == [unit |-> "usd", amount |-> 0]
Places == {"idle", "next", "check", "verify", "answer", "position", "build",
           "recheck", "trade", "sell", "after"}

NoWork ==
    /\ direction' = None /\ existing' = Zero
    /\ trades' = <<>> /\ selling' = Nothing /\ placed' = <<>>

Init ==
    /\ methods \in Subclasses
    /\ now = 1 /\ open = Markets
    \* Bound: the same outcome is favoured everywhere at first.
    /\ \E o \in Outcomes : favoured = [m \in Markets |-> o]
    /\ drifts = 0
    /\ pos \in Holdings
    /\ bal = Funds /\ betAt = [m \in Markets |-> 0]
    /\ idxPos = pos /\ idxBet = betAt
    /\ pc = "idle" /\ run = 0 /\ todo = {} /\ processed = 0 /\ market = None
    /\ direction = None /\ existing = Zero
    /\ trades = <<>> /\ selling = Nothing /\ placed = <<>>
    /\ unstored = {}
    /\ raisedIn = [r \in 1..MaxRuns |-> None]
    /\ calm = FALSE /\ sawBets = FALSE

-----------------------------------------------------------------------------
Worth(o) == IF favoured[market] = o THEN 2 ELSE 1

\* get_position: positions of a market that is not traded are left out.
Held == IF market \in open THEN idxPos[market] ELSE Zero
Values == [o \in Outcomes |-> Held[o] * Worth(o)]

\* get_total_amount_to_bet, the default strategy's max_position_amount.
TotalAmountToBet == Tiny + SumFunction(Values)

Goto(place) == pc' = place

\* The end of a run.
EndRun ==
    /\ Goto("idle") /\ todo' = {} /\ processed' = 0 /\ market' = None
    /\ NoWork /\ calm' = FALSE /\ sawBets' = FALSE

\* get_markets: of Omen's markets only the question whether it asks for
\* categorical ones tells; without it the outcomes are to be Yes and No.
OmenBinary(m) == Names[m] = <<Name("yes", "capital"), Name("no", "capital")>>
Fetched ==
    {m \in open : AgentQuestionType(methods) = "categorical" \/ OmenBinary(m)}

StartRun ==
    /\ pc = "idle" /\ run < MaxRuns
    /\ run' = run + 1
    /\ todo' = Fetched
    /\ Goto("next")
    /\ UNCHANGED <<now, world, chain, index, processed, market, work, history>>

NextMarket ==
    /\ pc = "next" /\ processed # BetOn
    /\ \E m \in todo : market' = m /\ todo' = todo \ {m}
    /\ Goto("check")
    /\ NoWork /\ calm' = FALSE /\ sawBets' = FALSE
    /\ UNCHANGED <<now, world, chain, index, run, processed, unstored,
                   raisedIn>>

FinishRun ==
    /\ pc = "next" /\ (todo = {} \/ processed = BetOn)
    /\ EndRun
    /\ UNCHANGED <<now, world, chain, index, run, unstored, raisedIn>>

\* An exception: a call to the chain, a subgraph or the model failed.
Raise ==
    /\ raisedIn' = IF \E t \in unstored : t.run = run
                   THEN [raisedIn EXCEPT ![run] = market] ELSE raisedIn
    /\ EndRun

CallFails ==
    /\ pc \notin {"idle", "next", "recheck"}
    /\ Raise
    /\ UNCHANGED <<now, world, chain, index, run, unstored>>

\* Mutant: the balance is compared without its margin.
MutCheckBalance ==
    /\ pc = "check"
    /\ bal >= Tiny
    /\ calm' = (idxPos[market] = pos[market])
    /\ Goto("verify")
    /\ UNCHANGED <<now, world, chain, index, run, todo, processed, market,
                   direction, existing, trades, selling, placed, unstored,
                   raisedIn, sawBets>>

\* check_min_required_balance_to_trade; OutOfFundsError otherwise.
CheckBalance ==
    /\ pc = "check"
    /\ bal * 100 >= TotalAmountToBet * 101
    /\ calm' = (idxPos[market] = pos[market])
    /\ Goto("verify")
    /\ UNCHANGED <<now, world, chain, index, run, todo, processed, market,
                   direction, existing, trades, selling, placed, unstored,
                   raisedIn, sawBets>>

OutOfFunds ==
    /\ pc = "check" /\ bal * 100 < TotalAmountToBet * 101
    /\ Raise
    /\ UNCHANGED <<now, world, chain, index, run, unstored>>

\* Mutant: the interval is taken from the wrong end.
MutHaveBetSince == idxBet[market] # 0 /\ idxBet[market] > now

HaveBetSince == idxBet[market] # 0 /\ idxBet[market] >= now - Interval

\* verify_market; a question may be unpredictable.
Verify ==
    /\ pc = "verify"
    /\ sawBets' = (idxBet[market] = betAt[market])
    /\ \/ ~HaveBetSince /\ Goto("answer")
       \/ Goto("next")
    /\ UNCHANGED <<now, world, chain, index, run, todo, processed, market, work,
                   unstored, raisedIn, calm>>

\* The answer names the outcome the default strategy bets on.
Answer ==
    /\ pc = "answer"
    /\ \/ \E a \in BuildAnswer(Names[market], methods) :
              /\ Verified(a, Names[market])
              /\ direction' = Direction(a, Names[market])
              /\ Goto("position")
       \/ UNCHANGED direction /\ Goto("next")   \* no answer
    /\ UNCHANGED <<now, world, chain, index, run, todo, processed, market,
                   existing, trades, selling, placed, history>>

\* Outcomes the market does not have, or a method that is not implemented.
AnswerRejected ==
    /\ pc = "answer"
    /\ LET answers == BuildAnswer(Names[market], methods)
       IN  \/ answers = {}
           \/ \E a \in answers : ~Verified(a, Names[market])
    /\ Raise
    /\ UNCHANGED <<now, world, chain, index, run, unstored>>

\* A failure to read the position only skips the market.
ReadPosition ==
    /\ pc = "position"
    /\ \/ existing' = Values /\ Goto("build")
       \/ UNCHANGED existing /\ Goto("next")
    /\ UNCHANGED <<now, world, chain, index, run, todo, processed, market,
                   direction, trades, selling, placed, history>>

Target(amount) == [o \in Outcomes |-> IF o = direction THEN amount ELSE 0]

\* _build_rebalance_trades_from_positions: buys before sells.
Rebalance(target) ==
    LET buys  == {o \in Outcomes : target[o] > existing[o]}
        sells == {o \in Outcomes : target[o] < existing[o]}
        Buy(o)  == [type |-> "buy", outcome |-> o,
                    amount |-> target[o] - existing[o]]
        Sell(o) == [type |-> "sell", outcome |-> o,
                    amount |-> existing[o] - target[o]]
    IN  SetToSeq({Buy(o) : o \in buys}) \o SetToSeq({Sell(o) : o \in sells})

\* build_trades: the amount is read again; a purchase is capped to its
\* profitable part (here nothing or all of it).
BuildTrades ==
    /\ pc = "build"
    /\ LET have == existing[direction]
       IN  \E amount \in IF TotalAmountToBet > have
                         THEN {have, TotalAmountToBet}
                         ELSE {TotalAmountToBet} :
               trades' = Rebalance(Target(amount))
    /\ existing' = Zero
    /\ Goto("recheck")
    /\ UNCHANGED <<now, world, chain, index, run, todo, processed, market,
                   direction, selling, placed, history>>

\* execute_trades looks once whether the market can still be traded.
Recheck ==
    /\ pc = "recheck"
    /\ IF market \in open THEN UNCHANGED trades /\ Goto("trade")
                          ELSE trades' = <<>> /\ Goto("after")
    /\ UNCHANGED <<now, world, chain, index, run, todo, processed, market,
                   direction, existing, selling, placed, history>>

-----------------------------------------------------------------------------
\* The next trade is of this type.
NextIs(type) == pc \in {"trade", "sell"} /\ trades # <<>> /\ Head(trades).type = type

\* The chain executes an order for `tokens` of outcome o at a cost (or, of a
\* sale, for a price).
Execute(o, tokens, cost) ==
    /\ pos' = [pos EXCEPT ![market][o] = @ + tokens]
    /\ bal' = bal - cost
    /\ bal' >= 0 /\ pos'[market][o] >= 0

HereAndNow(t) == [run |-> run, market |-> market, trade |-> t]
PlacedHere == {HereAndNow(t) : t \in Range(placed)}

\* The call returned the hash of its transaction.
TradeReturns ==
    /\ placed' = Append(placed, Head(trades))
    /\ unstored' = unstored \cup {HereAndNow(Head(trades))}
    /\ trades' = Tail(trades)
    /\ selling' = Nothing
    /\ Goto(IF Len(trades) = 1 THEN "after" ELSE "trade")
    /\ UNCHANGED <<todo, processed, market, direction, existing,
                   raisedIn, calm, sawBets>>

TradeRaises == Raise /\ UNCHANGED unstored

\* buy_tokens.  Each of its attempts may take effect without an answer.
Buy ==
    /\ pc = "trade" /\ NextIs("buy")
    /\ market \in open
    /\ \E taken \in 0..MaxTaken :
        LET t == Head(trades)
        IN  /\ Execute(t.outcome, taken * (t.amount \div Worth(t.outcome)),
                       taken * t.amount)
            /\ betAt' = IF taken > 0 THEN [betAt EXCEPT ![market] = now]
                                     ELSE betAt
            /\ \/ taken > 0 /\ TradeReturns
               \/ TradeRaises
    /\ UNCHANGED <<now, world, index, run>>

\* The position is read once more; a reading with none of the outcome raises.
ReadForSale ==
    /\ pc = "trade" /\ NextIs("sell")
    /\ LET t == Head(trades)
       IN  /\ Held[t.outcome] > 0
           /\ selling' = IF Values[t.outcome] <= t.amount
                         THEN [unit |-> "token", amount |-> Held[t.outcome]]
                         ELSE [unit |-> "usd", amount |-> t.amount]
    /\ Goto("sell")
    /\ UNCHANGED <<now, world, chain, index, run, todo, processed, market,
                   direction, existing, trades, placed, history>>

TokensToSell(o) == IF selling.unit = "token" THEN selling.amount
                                             ELSE selling.amount \div Worth(o)

Sell ==
    /\ pc = "sell"
    /\ market \in open
    /\ \E taken \in 0..MaxTaken :
        LET o == Head(trades).outcome
            tokens == taken * TokensToSell(o)
        IN  /\ Execute(o, -tokens, -(tokens * Worth(o)))
            /\ \/ taken > 0 /\ TradeReturns
               \/ TradeRaises
    /\ UNCHANGED <<now, world, betAt, index, run>>

\* No trade was called for.
NoTrades ==
    /\ pc = "trade" /\ trades = <<>>
    /\ Goto("after")
    /\ UNCHANGED <<now, world, chain, index, run, todo, processed, market, work,
                   history>>

\* Mutant: the run that has processed enough markets stops before storing.
MutStore ==
    /\ pc = "after"
    /\ processed' = processed + 1
    /\ unstored' = IF processed' = BetOn THEN unstored ELSE unstored \ PlacedHere
    /\ Goto("next")
    /\ UNCHANGED <<now, world, chain, index, run, todo, market, work, raisedIn,
                   calm, sawBets>>

\* after_process_market: store_trades sends all of them in one prediction.
Store ==
    /\ pc = "after"
    /\ unstored' = unstored \ PlacedHere
    /\ processed' = processed + 1
    /\ Goto("next")
    /\ UNCHANGED <<now, world, chain, index, run, todo, market, work, raisedIn,
                   calm, sawBets>>

-----------------------------------------------------------------------------
Tick ==
    /\ now < MaxTime /\ now' = now + 1
    /\ UNCHANGED <<world, chain, index, pc, run, todo, processed, market, work,
                   history>>

IndexPositions ==
    /\ idxPos # pos /\ idxPos' = pos
    /\ UNCHANGED <<now, world, chain, idxBet, pc, run, todo, processed, market,
                   work, history>>

IndexBets ==
    /\ idxBet # betAt /\ idxBet' = betAt
    /\ UNCHANGED <<now, world, chain, idxPos, pc, run, todo, processed, market,
                   work, history>>

\* The closing time is reached, or the liquidity is removed.
Close(m) ==
    /\ m \in open /\ open' = open \ {m}
    /\ UNCHANGED <<methods, now, favoured, drifts, chain, index, pc, run, todo,
                   processed, market, work, history>>

\* Others trade and another outcome becomes the favoured one.
Drift(m) ==
    /\ drifts < MaxDrifts /\ drifts' = drifts + 1
    /\ \E o \in Outcomes \ {favoured[m]} : favoured' = [favoured EXCEPT ![m] = o]
    /\ calm' = (calm /\ m # market)
    /\ UNCHANGED <<methods, now, open, chain, index, pc, run, todo, processed,
                   market, work, unstored, raisedIn, sawBets>>

Environment ==
    \/ Tick \/ IndexPositions \/ IndexBets
    \/ \E m \in Markets : Close(m) \/ Drift(m)

\* A run in progress.
Agent ==
    \/ NextMarket \/ FinishRun \/ CallFails \/ CheckBalance \/ OutOfFunds
    \/ Verify \/ Answer \/ AnswerRejected \/ ReadPosition \/ BuildTrades \/ Recheck
    \/ Buy \/ ReadForSale \/ Sell \/ NoTrades \/ Store

Next == StartRun \/ Agent \/ Environment

Spec == Init /\ [][Next]_vars

-----------------------------------------------------------------------------
(***************************************************************************)
(* verify_market keeps the agent from betting on one market twice within   *)
(* the interval, across runs and after aborted ones, as long as it saw the *)
(* latest bets.                                                            *)
(***************************************************************************)
NoRebet ==
    [][\A m \in Markets :
          sawBets /\ (\E o \in Outcomes : pos'[m][o] > pos[m][o]) =>
              betAt[m] = 0 \/ now - betAt[m] > Interval]_vars

(***************************************************************************)
(* What the balance check made sure of covers the purchase, although the   *)
(* amount is computed anew and against a position read in between, unless  *)
(* the position was stale or its price moved meanwhile.                    *)
(***************************************************************************)
StakeCovered ==
    calm /\ pc = "trade" /\ NextIs("buy") => Head(trades).amount * 101 <= bal * 100

(***************************************************************************)
(* A trade whose call returned is stored, except for those of a market at  *)
(* which the run failed: no later market and no later run makes up for it. *)
(***************************************************************************)
AllStored ==
    \A t \in unstored :
        \/ raisedIn[t.run] = t.market
        \/ t.run = run /\ t.market = market /\ pc \in {"trade", "sell", "after"}

=============================================================================
