--------------------------------- MODULE Omen ---------------------------------
(***************************************************************************)
(* An account that creates, funds, trades on and redeems Omen markets      *)
(* (markets/omen/omen.py).  One call runs at a time and is a sequence of   *)
(* transactions; the wait for the receipt of one may end in an exception   *)
(* although the transaction took effect.                                   *)
(*                                                                         *)
(* The market maker, the conditional tokens and other traders are the      *)
(* environment, the subgraphs know what has happened.  An outcome is its   *)
(* index from 1; the position of outcome i has the index set 2^(i-1), and  *)
(* answer 0 is invalid.                                                    *)
(***************************************************************************)
EXTENDS Collateral, OmenQueries, Functions

CONSTANTS
    Token,       \* collateral of each market
    Slots,       \* number of its outcomes
    Opening,     \* when its question opens: then it closes
    Funds,       \* initial funds of a market the account created before, or 0
    OthersFunds, \* initial funds of a market somebody else created, or 0
    Answers,     \* the answers each market may get
    Fee,         \* of a market, in percent of a bet
    Stake,       \* what a call bets, sells for or adds, in USD
    Balances,    \* the wallet at first
    OtherBet,    \* what another trader bets at once
    Contested,   \* bound: markets others bet on
    MaxCalls,    \* bound: calls other than redemptions of everything
    MaxMoves,    \* bound: bets of others
    MaxFaults,   \* bound: exceptions that are not due to the contracts
    MaxTime      \* bound: time

Markets == DOMAIN Token
Outcomes(m) == 1..Slots[m]

ASSUME OmenAssumption ==
    /\ Token \in [Markets -> Tokens]
    /\ Slots \in [Markets -> {2, 3}]
    /\ {Opening, Funds, OthersFunds} \subseteq [Markets -> Nat]
    /\ \A m \in Markets : Answers[m] \subseteq Outcomes(m) \cup {Invalid}
    /\ Contested \subseteq Markets
    /\ Fee \in 0..99
    /\ Balances \in [Tokens \cup {"xdai"} -> Nat]
    /\ {Stake, OtherBet, MaxCalls, MaxMoves, MaxFaults, MaxTime} \subseteq Nat

VARIABLES
    now,
    pool,        \* tokens of each market maker, <<>> before it exists
    supply,      \* shares of its liquidity providers
    answer, finalized, resolution,  \* optional, as the subgraph has them
    held,        \* outcome tokens of the account
    shares,      \* its shares of liquidity
    earned,      \* fees it may withdraw
    wallet,      \* its xDai and its collateral
    trades,      \* its trades on each market
    paid,        \* what it redeemed from each market
    provided,    \* history: the markets it gave liquidity to or took it from
    call,        \* the call that is running
    calls, moves, faults

market == <<pool, supply>>
question == <<answer, finalized, resolution>>
account == <<held, shares, earned>>
books == <<trades, paid, provided>>
bounds == <<calls, moves>>
vars == <<now, market, question, account, wallet, books, call, bounds, faults>>

Idle == [op |-> "none", m |-> "none", i |-> 0, amount |-> 0, limit |-> 0,
         at |-> "idle", tries |-> 1, todo |-> {}, before |-> 0]

Init ==
    /\ now = 0
    /\ supply = [m \in Markets |-> Funds[m] + OthersFunds[m]]
    /\ pool = [m \in Markets |-> IF supply[m] = 0 THEN <<>>
                                 ELSE [i \in Outcomes(m) |-> supply[m]]]
    /\ answer = [m \in Markets |-> None]
    /\ finalized = [m \in Markets |-> None]
    /\ resolution = [m \in Markets |-> None]
    /\ held = [m \in Markets |-> [i \in Outcomes(m) |-> 0]]
    /\ shares = Funds
    /\ earned = [m \in Markets |-> 0]
    /\ wallet = Balances
    /\ trades = [m \in Markets |-> <<>>]
    /\ paid = [m \in Markets |-> 0]
    /\ provided = {m \in Markets : Funds[m] > 0}
    /\ call = Idle /\ calls = 0 /\ moves = 0 /\ faults = 0

Exists(m) == pool[m] # <<>>

-----------------------------------------------------------------------------
\* The market as the subgraph describes it, and the lists of get_markets.
Indexed(m) ==
    [opening |-> Opening[m], created |-> 0, amounts |-> pool[m],
     liquidity |-> supply[m], token |-> Token[m], condition |-> m,
     answer |-> answer[m], finalized |-> finalized[m],
     resolution |-> resolution[m]]

Safe == {t \in Tokens : ~Unwanted(t)}

GetMarkets(filter, categorical) ==
    {m \in Markets : Exists(m) /\
         Where(Parsed(Indexed(m)), Simple(filter, now, categorical, Safe))}

\* can_be_traded: of the close time and the supply in the contract.
CanBeTraded(m) ==
    /\ Exists(m)
    /\ IsOpen(Indexed(m), now) /\ supply[m] > 0

\* is_resolved of the market object
MarketResolved(m) == ResolutionEnum(Indexed(m)) # None

\* is_condition_resolved
ConditionResolved(m) == resolution[m] # None

\* get_conditional_tokens_balance_for_market: one balance for an index set.
Held(m, set) ==
    LET outcomes == {i \in Outcomes(m) : 2^(i - 1) = set}
    IN  IF outcomes = {} THEN 0 ELSE held[m][CHOOSE i \in outcomes : TRUE]

Balances1155(m) == [s \in IndexSets(Slots[m]) |-> Held(m, s)]

\* get_user_positions with a balance, each with an index set of its own
Positions == {p \in Markets \X {1, 2, 4} : Held(p[1], p[2]) > 0}
OutcomeOf(set) == CHOOSE i \in 1..3 : 2^(i - 1) = set

-----------------------------------------------------------------------------
\* Calls, their transactions and exceptions.
Begin(op, m, i, amount, at) ==
    /\ call = Idle /\ calls < MaxCalls
    /\ calls' = calls + 1
    /\ call' = [Idle EXCEPT !.op = op, !.m = m, !.i = i, !.amount = amount,
                            !.at = at, !.before = wallet[Token[m]]]

At(op, place) == call.op \in op /\ call.at = place
Go(place) == [call EXCEPT !.at = place]

\* Three attempts at a purchase.
Attempts == 3
Raised ==
    IF call.op = "buy" /\ call.tries < Attempts
    THEN [call EXCEPT !.tries = @ + 1, !.at = "quote"] ELSE Idle

Fault == faults < MaxFaults /\ faults' = faults + 1

\* The transaction took effect: its receipt arrives, or the wait ends.
Mined(next) ==
    \/ call' = next /\ UNCHANGED faults
    \/ call' = Raised /\ Fault

Reverts == call' = Raised /\ UNCHANGED faults

\* A request or a transaction fails before anything has changed.
Fails ==
    /\ call # Idle /\ call.at # "return"
    /\ call' = Raised /\ Fault
    /\ UNCHANGED <<now, market, question, account, wallet, books, bounds>>

Return ==
    /\ call.at = "return"
    /\ call' = Idle
    /\ UNCHANGED <<now, market, question, account, wallet, books, bounds,
                   faults>>

chain == <<now, question, bounds>>

-----------------------------------------------------------------------------
\* auto_deposit_collateral_token, of place_bet, fund and create.
Wanting == {"buy", "fund", "create"}
Deposited == IF call.op = "create" THEN "ask" ELSE "trade"
Requested == WithSurplus(call.amount)

EnoughCollateral ==
    /\ At(Wanting, "deposit") /\ Enough(wallet, Token[call.m], Requested)
    /\ call' = Go(Deposited)
    /\ UNCHANGED <<chain, market, account, wallet, books, faults>>

WrapShort ==
    /\ At(Wanting, "deposit") /\ ~Enough(wallet, Token[call.m], Requested)
    /\ Affordable(wallet, Token[call.m], Requested)
    /\ wallet' = Wrapped(wallet, Token[call.m], Requested)
    /\ Mined(Go(IF Kind(Token[call.m]) = "wrapper" THEN Deposited ELSE "swap"))
    /\ UNCHANGED <<chain, market, account, books>>

OutOfMoney ==
    /\ At(Wanting, "deposit") /\ ~Enough(wallet, Token[call.m], Requested)
    /\ ~Affordable(wallet, Token[call.m], Requested)
    /\ Reverts
    /\ UNCHANGED <<chain, market, account, wallet, books>>

SwapForCollateral ==
    /\ At(Wanting, "swap")
    /\ wallet' \in Deposits(wallet, Token[call.m], Requested)
    /\ Mined(Go(Deposited))
    /\ UNCHANGED <<chain, market, account, books>>

\* auto_withdraw_collateral_token, then the next position of a list.
Withdraw ==
    /\ call.at = "withdraw"
    /\ wallet' \in Withdrawals(wallet, Token[call.m], call.amount)
    /\ Mined(Go(IF call.op \in {"liquidate", "redeem_all"} THEN "next"
                ELSE "return"))
    /\ UNCHANGED <<chain, market, account, books>>

-----------------------------------------------------------------------------
\* place_bet
StartBet(m, i) ==
    /\ m \in GetMarkets("open", TRUE) /\ CanBeTraded(m)
    /\ Begin("buy", m, i, InToken(Token[m], Stake), "quote")
    /\ UNCHANGED <<now, market, question, account, wallet, books, moves,
                   faults>>

\* calcBuyAmount, with a small slippage allowed.
LeastShares(m, i, amount) ==
    LET expected == SharesBought(pool[m], i, amount, Fee)
    IN  expected - CeilDiv(expected, 100)

QuoteBet ==
    /\ At({"buy"}, "quote")
    /\ IF supply[call.m] = 0 THEN call' = Raised
       ELSE call' = [call EXCEPT !.at = "deposit",
                         !.limit = LeastShares(call.m, call.i, call.amount)]
    /\ UNCHANGED <<chain, market, account, wallet, books, faults>>

Bought == SharesBought(pool[call.m], call.i, call.amount, Fee)
BuyAccepted ==
    /\ wallet[Token[call.m]] >= call.amount
    /\ supply[call.m] > 0 /\ Bought >= call.limit

\* What a trade adds to the fees of the account.
FeeShare(m, fee) ==
    IF supply[m] = 0 THEN 0 ELSE (fee * shares[m]) \div supply[m]

Trade(type, m, i, amount, tokens) ==
    [type |-> type, outcome |-> i, amount |-> amount, tokens |-> tokens,
     time |-> now]

Buy ==
    /\ At({"buy"}, "trade") /\ BuyAccepted
    /\ LET m == call.m IN
       /\ pool' = [pool EXCEPT ![m] = PoolAfterBuy(@, call.i, call.amount, Fee)]
       /\ held' = [held EXCEPT ![m][call.i] = @ + Bought]
       /\ earned' = [earned EXCEPT ![m] =
              @ + FeeShare(m, call.amount - Invested(call.amount, Fee))]
       /\ wallet' = [wallet EXCEPT ![Token[m]] = @ - call.amount]
       /\ trades' = [trades EXCEPT ![m] =
              Append(@, Trade("Buy", m, call.i, call.amount, Bought))]
    /\ Mined(Idle)
    /\ UNCHANGED <<chain, supply, shares, paid, provided>>

BuyReverts ==
    /\ At({"buy"}, "trade") /\ ~BuyAccepted
    /\ Reverts
    /\ UNCHANGED <<chain, market, account, wallet, books>>

-----------------------------------------------------------------------------
\* omen_create_market_tx: the question, its condition and then the market.
StartCreate(m) ==
    /\ ~Exists(m) /\ IsOpen([opening |-> Opening[m]], now)
    /\ Begin("create", m, 0, InToken(Token[m], Stake), "deposit")
    /\ UNCHANGED <<now, market, question, account, wallet, books, moves,
                   faults>>

AskQuestion ==
    /\ At({"create"}, "ask")
    /\ Mined(Go("prepare"))
    /\ UNCHANGED <<chain, market, account, wallet, books>>

PrepareCondition ==
    /\ At({"create"}, "prepare")
    /\ Mined(Go("trade"))
    /\ UNCHANGED <<chain, market, account, wallet, books>>

\* create2FixedProductMarketMaker without a distribution hint
Create2(m, funds) ==
    /\ wallet[Token[m]] >= funds
    /\ pool' = [pool EXCEPT ![m] = [i \in Outcomes(m) |-> funds]]
    /\ supply' = [supply EXCEPT ![m] = funds]
    /\ shares' = [shares EXCEPT ![m] = funds]
    /\ wallet' = [wallet EXCEPT ![Token[m]] = @ - funds]

Create ==
    /\ At({"create"}, "trade")
    /\ Create2(call.m, call.amount)
    /\ provided' = provided \cup {call.m}
    /\ Mined(Idle)
    /\ UNCHANGED <<chain, held, earned, trades, paid>>

-----------------------------------------------------------------------------
\* omen_fund_market_tx.  Tokens that would move the price are sent back.
StartFund(m) ==
    /\ Exists(m)
    /\ Begin("fund", m, 0, InToken(Token[m], Stake), "deposit")
    /\ UNCHANGED <<now, market, question, account, wallet, books, moves,
                   faults>>

Largest(s) == CHOOSE x \in Range(s) : \A y \in Range(s) : y <= x
Smallest(s) == CHOOSE x \in Range(s) : \A y \in Range(s) : x <= y

\* addFunding of the market maker
Kept(m, amount) ==
    IF supply[m] = 0 THEN [i \in Outcomes(m) |-> amount]
    ELSE [i \in Outcomes(m) |-> (amount * pool[m][i]) \div Largest(pool[m])]
Minted(m, amount) ==
    IF supply[m] = 0 THEN amount
    ELSE (amount * supply[m]) \div Largest(pool[m])

Fund ==
    /\ At({"fund"}, "trade") /\ wallet[Token[call.m]] >= call.amount
    /\ LET m == call.m
           kept == Kept(m, call.amount)
           minted == Minted(m, call.amount)
       IN  /\ pool' = [pool EXCEPT ![m] =
                  [i \in Outcomes(m) |-> @[i] + kept[i]]]
           /\ held' = [held EXCEPT ![m] =
                  [i \in Outcomes(m) |-> @[i] + call.amount - kept[i]]]
           /\ supply' = [supply EXCEPT ![m] = @ + minted]
           /\ shares' = [shares EXCEPT ![m] = @ + minted]
           /\ wallet' = [wallet EXCEPT ![Token[m]] = @ - call.amount]
           /\ provided' = provided \cup {m}
    /\ Mined(Idle)
    /\ UNCHANGED <<chain, earned, trades, paid>>

\* A swap may have brought less than what is asked for.
PaymentReverts ==
    /\ At({"create", "fund"}, "trade")
    /\ wallet[Token[call.m]] < call.amount
    /\ Reverts
    /\ UNCHANGED <<chain, market, account, wallet, books>>

-----------------------------------------------------------------------------
\* get_sell_value_of_outcome_token: of the market maker's balances by index
\* set, so the third of three outcomes counts as 0.
PoolBalances(m) ==
    [s \in IndexSets(Slots[m]) |->
         LET outcomes == {i \in Outcomes(m) : 2^(i - 1) = s}
         IN  IF outcomes = {} THEN 0
             ELSE pool[m][CHOOSE i \in outcomes : TRUE]]

SellValue(m, i, tokens) == SellAmount(PoolBalances(m), i, tokens, Fee)

\* sell_tokens, of a value or of all tokens
StartSell(m, i) ==
    /\ CanBeTraded(m) /\ held[m][i] > 0
    /\ \E amount \in {InToken(Token[m], Stake), SellValue(m, i, held[m][i])} :
           Begin("sell", m, i, amount, "quote")
    /\ UNCHANGED <<now, market, question, account, wallet, books, moves,
                   faults>>

\* calcSellAmount: the market maker has what it has to give.
CanPay(m, i, amount) ==
    /\ supply[m] > 0
    /\ \A j \in Outcomes(m) \ {i} : Gross(amount, Fee) < pool[m][j]

\* with a small slippage allowed
MostShares(m, i, amount) ==
    LET expected == SharesSold(pool[m], i, amount, Fee)
    IN  expected + expected \div 100

QuoteSell ==
    /\ At({"sell", "liquidate"}, "quote")
    /\ IF ~CanPay(call.m, call.i, call.amount) THEN call' = Raised
       ELSE call' = [call EXCEPT !.at = "trade",
                         !.limit = MostShares(call.m, call.i, call.amount)]
    /\ UNCHANGED <<chain, market, account, wallet, books, faults>>

Sold == SharesSold(pool[call.m], call.i, call.amount, Fee)
SellAccepted ==
    /\ CanPay(call.m, call.i, call.amount)
    /\ Sold <= call.limit /\ Sold <= held[call.m][call.i]

Sell ==
    /\ At({"sell", "liquidate"}, "trade") /\ SellAccepted
    /\ LET m == call.m IN
       /\ pool' =
              [pool EXCEPT ![m] = PoolAfterSell(@, call.i, call.amount, Fee)]
       /\ held' = [held EXCEPT ![m][call.i] = @ - Sold]
       /\ earned' = [earned EXCEPT ![m] =
              @ + FeeShare(m, Gross(call.amount, Fee) - call.amount)]
       /\ wallet' = [wallet EXCEPT ![Token[m]] = @ + call.amount]
       /\ trades' = [trades EXCEPT ![m] =
              Append(@, Trade("Sell", m, call.i, call.amount, Sold))]
    /\ Mined(Go("withdraw"))
    /\ UNCHANGED <<chain, supply, shares, paid, provided>>

SellReverts ==
    /\ At({"sell", "liquidate"}, "trade") /\ ~SellAccepted
    /\ Reverts
    /\ UNCHANGED <<chain, market, account, wallet, books>>

-----------------------------------------------------------------------------
\* get_positions, of the markets that can be traded.  It raises at a position
\* whose index set is no outcome of its market.
Nameable == \A p \in Positions : p[2] \in IndexSets(Slots[p[1]])
LiquidPositions == {p \in Positions : CanBeTraded(p[1])}

\* liquidate_existing_positions: whatever market a position is of, its tokens
\* are sold through market m.
StartLiquidate(m, i) ==
    /\ Nameable /\ \E p \in LiquidPositions : p[2] # i
    /\ call = Idle /\ calls < MaxCalls
    /\ calls' = calls + 1
    /\ call' = [Idle EXCEPT !.op = "liquidate", !.m = m, !.at = "next",
           !.before = wallet[Token[m]],
           !.todo = {<<p[2], Held(p[1], p[2])>> :
                         p \in {r \in LiquidPositions : r[2] # i}}]
    /\ UNCHANGED <<now, market, question, account, wallet, books, moves,
                   faults>>

LiquidateNext ==
    /\ At({"liquidate"}, "next")
    /\ \E p \in call.todo :
           IF ~CanBeTraded(call.m) \/ p[1] \notin Outcomes(call.m)
           THEN call' = Raised
           ELSE call' = [call EXCEPT !.i = p[1], !.todo = @ \ {p},
                    !.amount = SellValue(call.m, p[1], p[2]), !.at = "quote",
                    !.before = wallet[Token[call.m]]]
    /\ UNCHANGED <<chain, market, account, wallet, books, faults>>

ListDone ==
    /\ call.at = "next" /\ call.todo = {}
    /\ call' = Idle
    /\ UNCHANGED <<chain, market, account, wallet, books, faults>>

-----------------------------------------------------------------------------
\* omen_remove_fund_market_tx: all shares, or some.  Without shares it
\* returns at once, whatever an earlier removal left.
RemoveNothing(m) ==
    /\ Exists(m) /\ shares[m] = 0
    /\ Begin("remove", m, 0, 0, "return")
    /\ UNCHANGED <<now, market, question, account, wallet, books, moves,
                   faults>>

StartRemove(m) ==
    /\ shares[m] > 0
    /\ \E some \in {shares[m], shares[m] \div 2} :
           /\ some > 0
           /\ call = Idle /\ calls < MaxCalls
           /\ calls' = calls + 1
           /\ call' = [Idle EXCEPT !.op = "remove", !.m = m, !.limit = some,
                           !.before = wallet[Token[m]], !.at = "remove"]
    /\ UNCHANGED <<now, market, question, account, wallet, books, moves,
                   faults>>

\* removeFunding pays out the fees too.
RemoveFunding ==
    /\ At({"remove"}, "remove")
    /\ LET m == call.m
           sent(i) == (pool[m][i] * call.limit) \div supply[m]
       IN  /\ pool' = [pool EXCEPT ![m] =
                  [i \in Outcomes(m) |-> @[i] - sent(i)]]
           /\ held' = [held EXCEPT ![m] =
                  [i \in Outcomes(m) |-> @[i] + sent(i)]]
           /\ supply' = [supply EXCEPT ![m] = @ - call.limit]
           /\ shares' = [shares EXCEPT ![m] = @ - call.limit]
           /\ wallet' = [wallet EXCEPT ![Token[m]] = @ + earned[m]]
           /\ earned' = [earned EXCEPT ![m] = 0]
           /\ provided' = provided \cup {m}
    /\ Mined(Go("merge"))
    /\ UNCHANGED <<chain, trades, paid>>

\* A mutant that merges as many sets as shares were removed, if it can.
MutMergeable(m) == Lesser(Smallest(Balances1155(m)), call.limit)

\* The smallest balance, tokens from bets included.
Mergeable(m) == Smallest(Balances1155(m))

\* mergePositions wants index sets that do not overlap.
Partition(m) == IndexSets(Slots[m]) = {2^(i - 1) : i \in Outcomes(m)}

Merge ==
    /\ At({"remove"}, "merge") /\ Partition(call.m)
    /\ LET m == call.m
           sets == Mergeable(m)
           balance == wallet[Token[m]] + sets
       IN  /\ held' = [held EXCEPT ![m] =
                  [i \in Outcomes(m) |-> @[i] - sets]]
           /\ wallet' = [wallet EXCEPT ![Token[m]] = balance]
           /\ Mined([Go("withdraw") EXCEPT !.amount = balance - call.before])
    /\ UNCHANGED <<chain, market, shares, earned, books>>

MergeReverts ==
    /\ At({"remove"}, "merge") /\ ~Partition(call.m)
    /\ Reverts
    /\ UNCHANGED <<chain, market, account, wallet, books>>

-----------------------------------------------------------------------------
\* omen_redeem_full_position_tx returns at once unless the market object is
\* resolved and the account has something by the market's index sets.
StartRedeemFull(m) ==
    /\ MarketResolved(m) /\ ConditionResolved(m)
    /\ SumOf(Balances1155(m)) > 0
    /\ Begin("redeem_full", m, 0, 0, "redeem")
    /\ UNCHANGED <<now, market, question, account, wallet, books, moves,
                   faults>>

\* redeem_positions: not without a position of the market with a balance,
\* market_redeemable_by.
RedeemableBy(m) == \E p \in Positions : p[1] = m
StartRedeemPositions(m) == RedeemableBy(m) /\ StartRedeemFull(m)

\* redeem_from_all_user_positions
StartRedeemAll ==
    /\ call = Idle /\ \E p \in Positions : ConditionResolved(p[1])
    /\ call' = [Idle EXCEPT !.op = "redeem_all", !.todo = Positions,
                            !.at = "next"]
    /\ UNCHANGED <<chain, market, account, wallet, books, faults>>

\* A mutant that asks the market, which has no resolution if it is invalid.
MutRedeemable(m) == MarketResolved(m)

\* Positions of a condition without a payout are skipped.
Redeemable(m) == ConditionResolved(m)

RedeemNext ==
    /\ At({"redeem_all"}, "next")
    /\ \E p \in call.todo :
           IF Redeemable(p[1])
           THEN call' = [call EXCEPT !.m = p[1], !.i = OutcomeOf(p[2]),
                             !.todo = @ \ {p}, !.at = "redeem",
                             !.before = wallet[Token[p[1]]]]
           ELSE call' = [call EXCEPT !.todo = @ \ {p}]
    /\ UNCHANGED <<chain, market, account, wallet, books, faults>>

\* redeemPositions: an invalid market pays all outcomes alike.
Pays(m, i) ==
    IF answer[m] = Is(Invalid) THEN held[m][i] \div Slots[m]
    ELSE IF answer[m] = Is(i) THEN held[m][i] ELSE 0

RedeemedOutcomes ==
    IF call.op = "redeem_all" THEN {call.i}
    ELSE {i \in Outcomes(call.m) : 2^(i - 1) \in IndexSets(Slots[call.m])}

Payout(m, outcomes) ==
    SumOf([i \in Outcomes(m) |-> IF i \in outcomes THEN Pays(m, i) ELSE 0])

\* A mutant that withdraws the tokens redeemed.
MutProceeds(m, outcomes) ==
    SumOf([i \in Outcomes(m) |-> IF i \in outcomes THEN held[m][i] ELSE 0])

\* The payout of the event is what is withdrawn.
Proceeds(m, outcomes) == Payout(m, outcomes)

Redeem ==
    /\ call.at = "redeem"
    /\ LET m == call.m
           payout == Payout(m, RedeemedOutcomes)
       IN  /\ held' = [held EXCEPT ![m] = [i \in Outcomes(m) |->
                  IF i \in RedeemedOutcomes THEN 0 ELSE @[i]]]
           /\ wallet' = [wallet EXCEPT ![Token[m]] = @ + payout]
           /\ paid' = [paid EXCEPT ![m] = @ + payout]
           /\ Mined([Go("withdraw") EXCEPT
                         !.amount = Proceeds(m, RedeemedOutcomes)])
    /\ UNCHANGED <<chain, market, shares, earned, trades, provided>>

-----------------------------------------------------------------------------
\* get_resolved_bets_made_since, of one market
ResolvedBetsMadeSince(m, start) ==
    LET bets == ResolvedBets(trades[m], Indexed(m),
                             [Bets EXCEPT !.start = Is(start)])
    IN  [k \in DOMAIN bets |-> GenericResolvedBet(bets[k], Indexed(m))]

-----------------------------------------------------------------------------
\* The environment.
Tick ==
    /\ now < MaxTime /\ now' = now + 1
    /\ UNCHANGED <<market, question, account, wallet, books, call, bounds,
                   faults>>

OtherBuys(m, i) ==
    /\ m \in Contested /\ CanBeTraded(m) /\ moves < MaxMoves
    /\ moves' = moves + 1
    /\ pool' = [pool EXCEPT ![m] = PoolAfterBuy(@, i, OtherBet, Fee)]
    /\ earned' = [earned EXCEPT ![m] =
           @ + FeeShare(m, OtherBet - Invested(OtherBet, Fee))]
    /\ UNCHANGED <<now, supply, question, held, shares, wallet, books, call,
                   calls, faults>>

Answer(m, a) ==
    /\ Exists(m) /\ ~IsOpen(Indexed(m), now) /\ answer[m] = None
    /\ answer' = [answer EXCEPT ![m] = Is(a)]
    /\ finalized' = [finalized EXCEPT ![m] = Is(now)]
    /\ UNCHANGED <<now, market, resolution, account, wallet, books, call,
                   bounds, faults>>

Resolve(m) ==
    /\ finalized[m] # None /\ resolution[m] = None
    /\ resolution' = [resolution EXCEPT ![m] = Is(now)]
    /\ UNCHANGED <<now, market, answer, finalized, account, wallet, books,
                   call, bounds, faults>>

-----------------------------------------------------------------------------
Step ==
    \/ EnoughCollateral \/ WrapShort \/ OutOfMoney \/ SwapForCollateral
    \/ Withdraw \/ QuoteBet \/ Buy \/ BuyReverts
    \/ AskQuestion \/ PrepareCondition \/ Create \/ Fund \/ PaymentReverts
    \/ QuoteSell \/ Sell \/ SellReverts \/ LiquidateNext \/ ListDone
    \/ RemoveFunding \/ Merge \/ MergeReverts \/ RedeemNext \/ Redeem
    \/ Return

Next ==
    \/ Step \/ Fails \/ StartRedeemAll \/ Tick
    \/ \E m \in Markets :
           \/ StartCreate(m) \/ StartFund(m) \/ StartRemove(m)
           \/ RemoveNothing(m) \/ StartRedeemPositions(m) \/ Resolve(m)
           \/ \E a \in Answers[m] : Answer(m, a)
           \/ \E i \in Outcomes(m) : StartBet(m, i) \/ StartSell(m, i)
                                  \/ StartLiquidate(m, i) \/ OtherBuys(m, i)

\* A call goes on, and the account redeems from time to time.
Spec == Init /\ [][Next]_vars /\ WF_vars(Step) /\ WF_vars(StartRedeemAll)

-----------------------------------------------------------------------------
\* What is deposited suffices for the payment that follows it, for the wrapper
\* and the vault, whatever the wallet held before and however the conversions
\* round; a swap that slips further than the surplus may leave too little.
DepositSuffices ==
    (At({"buy", "fund"}, "trade") \/ At({"create"}, "ask"))
    /\ Kind(Token[call.m]) # "erc20"
        => wallet[Token[call.m]] >= call.amount

\* A call that sold, redeemed or removed liquidity withdraws exactly what it
\* got: neither the payout stays in collateral nor does it take what was there
\* before.  A vault may keep one unit that rounding leaves.
WithdrawsWhatItGot ==
    call.at = "return" \/ (call.at = "next" /\ call.m # "none")
        => \/ Unwanted(Token[call.m]) \/ Kind(Token[call.m]) = "wrapper"
           \/ wallet[Token[call.m]] - call.before \in 0..1

\* When a removal of liquidity that found shares returns, no complete set is
\* left that could be turned into collateral at once, neither of its own nor
\* of an earlier removal that failed before it merged.  (One that finds no
\* shares left merges nothing.)
NoCompleteSetsLeft ==
    At({"remove"}, "return") /\ call.limit > 0
        => \E i \in Outcomes(call.m) : held[call.m][i] = 0

\* The profits of an account's resolved bets add up to what it was paid less
\* what it staked, once it has redeemed, if it only bet on the market.
ProfitIsPaid ==
    \A m \in Markets \ provided :
        LET bets == ResolvedBetsMadeSince(m, 0)
            profits == [k \in DOMAIN bets |-> bets[k].profit]
            stakes == [k \in DOMAIN bets |-> bets[k].amount]
        IN  /\ bets # <<>> /\ Len(bets) = Len(trades[m])
            /\ \A i \in Outcomes(m) : held[m][i] = 0
            => SumOf(profits) = paid[m] - SumOf(stakes)

\* Whatever the answer and however many outcomes, in the end nothing is left
\* in the positions of resolved markets.
AllRedeemed ==
    \A m \in Markets :
        <>[](resolution[m] # None => \A i \in Outcomes(m) : held[m][i] = 0)
=============================================================================
