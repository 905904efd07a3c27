----------------------------- MODULE Polymarket -----------------------------
(***************************************************************************)
(* One agent's account on Polymarket: bets and sales as fill-or-kill       *)
(* orders that are verified on chain, the allowance of the exchange, the   *)
(* positions and trades read back from the data API, and redemption.       *)
(*                                                                         *)
(* Money is counted in sixths of a USDC, so that prices, and the halves of *)
(* a split market, are whole numbers. Every market has the outcomes "Yes"  *)
(* and "No", as in what get_markets keeps. Fees are zero.                  *)
(***************************************************************************)
EXTENDS PolymarketApi

CONSTANTS
    Markets,        \* condition ids
    Events,         \* what the gamma API lists, in its order
    Limit,          \* markets an agent asks for
    Prices,         \* what a share may cost, below Unit
    Amounts,        \* what a bet may spend
    Sales,          \* what a sale may ask for
    LargeAmount,    \* large_amount_wei of __init_approvals
    MaxAttempts,    \* attempts of _verify_order_on_chain
    Wallets,        \* what the wallet may hold in the beginning,
    Capital,        \* and its total
    MinPol,         \* min_required_balance for gas
    Earlier,        \* trades of an earlier day
    Reports,        \* payout numerators that may be reported
    MaxOrders,      \* bound: bets and sales that are started
    MaxDays         \* bound: days that pass

Unit == 6
Tiny == Unit            \* POLYMARKET_TINY_BET_AMOUNT, 1 USDC
Outcomes == <<"Yes", "No">>
Other(o) == IF o = "Yes" THEN "No" ELSE "Yes"
NoOrder == [side |-> "none"]
NoCall == [kind |-> "none"]

Wallet == [usdc : Nat, wpol : Nat, pol : Nat]
Trade == [market : Markets, outcome : Range(Outcomes), side : {"BUY", "SELL"},
          size : Nat, price : 1..(Unit - 1), time : Int, run : Nat]

\* An event that is kept is one of the markets; earlier trades are purchases
\* of days before the first, by no run of these.
ASSUME PolymarketAssumption ==
    /\ IsFiniteSet(Markets) /\ Events \in Seq(Range(Events))
    /\ \A e \in Range(Events) : Kept(e) => Range(e.markets) \subseteq Markets
    /\ Prices \subseteq 1..(Unit - 1) /\ Amounts \cup Sales \subseteq Nat
    /\ \A a \in Amounts, p \in Prices : a % p = 0
    /\ Wallets \subseteq Wallet
    /\ \A w \in Wallets : w.usdc + w.wpol + w.pol = Capital
    /\ MaxAttempts \in Nat \ {0}
    /\ {Limit, LargeAmount, MinPol, Capital, MaxOrders, MaxDays} \subseteq Nat
    /\ Reports \subseteq {<<1, 0>>, <<0, 1>>, <<1, 1>>}
    /\ Earlier \in Seq(Trade)
    /\ \A i \in DOMAIN Earlier :
           Earlier[i].side = "BUY" /\ Earlier[i].time < 1 /\ Earlier[i].run = 0
    /\ \A i, j \in DOMAIN Earlier : i < j => Earlier[j].time <= Earlier[i].time

VARIABLES
    wallet,     \* USDC.e, WPOL and POL
    allowance,  \* what the exchange may still take from the wallet
    held,       \* outcome tokens of the wallet
    market,     \* per market "open", "dry" (little liquidity), "closed"
    payout,     \* per market the payout numerators, <<>> unresolved
    feed,       \* the trades of the account, newest first
    step, job,  \* where the agent is, and the orders it still has to place
    order,      \* the last order, and what became of it on chain
    late,       \* orders of calls that raised, undecided on chain
    missed,     \* runs whose order was still undecided when a later run asked
                \* whether it had a bet on that market
    tries,      \* attempts to verify it
    result,     \* of the last call: "hash", "raised" or "none" yet
    call,       \* the last liquidation, and what was held of the other
                \* outcome when it began
    day, started

chain == <<wallet, allowance, held, feed>>
world == <<market, payout, day>>
reported == <<late, missed>>
accountVars ==
    <<chain, world, step, job, order, reported, tries, result, call, started>>

-----------------------------------------------------------------------------
(* What is read from the APIs *)

\* PolymarketAgentMarket.can_be_traded
CanBeTraded(m) == market[m] = "open"

\* build_resolution_from_condition: the only numerator above zero.
Resolution(m) ==
    LET paid == {i \in DOMAIN payout[m] : payout[m][i] > 0}
    IN  IF payout[m] = <<>> THEN "none"
        ELSE IF Cardinality(paid) # 1 THEN "no outcome"
        ELSE Outcomes[CHOOSE i \in paid : TRUE]

\* from_data_model of one market of an event, and of all of them.
FromDataModel(event, m) ==
    {[id |-> c, event |-> event.slug, resolution |-> Resolution(c),
      tradable |-> CanBeTraded(c)] :
         c \in {x \in Range(event.markets) : x = m}}
FromDataModelAll(event) ==
    UNION {FromDataModel(event, m) : m \in Range(event.markets)}

\* get_gamma_event_by_condition_id, get_binary_market
EventByCondition(m) == CHOOSE e \in Range(Events) : m \in Range(e.markets)
GetBinaryMarket(m) == FromDataModel(EventByCondition(m), m)

\* get_markets with the open filter.
Closed == {m \in Markets : market[m] = "closed"}
OpenEvents ==
    Selected(Events, {k \in DOMAIN Events :
                          ~(Range(Events[k].markets) \subseteq Closed)})
Listed ==
    UNION {FromDataModelAll(e) :
               e \in Range(MarketsPaginated(OpenEvents, Limit))}

\* get_trades_for_market, get_user_trades
TradesOf(m) ==
    TradesPaginated(
        Selected(feed, {k \in DOMAIN feed : feed[k].market = m}), {})
UserTrades(after) == TradesPaginated(feed, after)

\* have_bet_on_market_since, with a window of the same day.
MutHaveBet(m) == \E t \in Range(TradesOf(m)) : t.time > day
HaveBet(m) == \E t \in Range(TradesOf(m)) : t.time >= day

\* The positions of get_user_positions, as sales of everything.
Sale(m, o) == [side |-> "SELL", market |-> m, outcome |-> o,
               amount |-> held[m][o]]
Positions ==
    {p \in {Sale(m, o) : m \in Markets, o \in Range(Outcomes)} : p.amount > 0}

\* get_position
Position(m) == {p \in Positions : p.market = m}

\* get_positions with liquid_only.
LiquidPositions == {p \in Positions : CanBeTraded(p.market)}

\* liquidate_existing_positions: the other outcomes of this market.
MutLiquidation(m, o) ==
    {[side |-> "SELL", market |-> m, outcome |-> p.outcome,
      amount |-> p.amount] : p \in {q \in LiquidPositions : q.outcome # o}}
Liquidation(m, o) ==
    {p \in LiquidPositions : p.market = m /\ p.outcome # o}

\* sell_all_user_positions skips what can be redeemed.
AllSales == {p \in Positions : payout[p.market] = <<>>}

\* redeem_winnings: every condition of a position, emptied ones included.
MutToRedeem ==
    {t.market : t \in {u \in Range(feed) :
                           Resolution(u.market) \in Range(Outcomes)}}
ToRedeem == {t.market : t \in {u \in Range(feed) : payout[u.market] # <<>>}}

\* PolymarketBet.get_profit of a trade once its market is resolved.
Cost(t) == t.size * t.price
MutProfit(t) ==
    IF t.outcome = Resolution(t.market) THEN t.size * Unit - Cost(t)
    ELSE -Cost(t)
Profit(t) ==
    LET sign == IF t.side = "BUY" THEN 1 ELSE -1
    IN  IF t.outcome = Resolution(t.market)
        THEN sign * t.size * (Unit - t.price)
        ELSE -sign * Cost(t)

\* get_resolved_bets_made_since: trades with a resolution.
GenericResolvedBet(t) ==
    [market |-> t.market, outcome |-> t.outcome, amount |-> Cost(t),
     created |-> t.time, market_outcome |-> Resolution(t.market),
     profit |-> Profit(t)]
ResolvedBets(after) ==
    LET trades == UserTrades(after)
        resolved == Selected(trades, {k \in DOMAIN trades :
                        Resolution(trades[k].market) \in Range(Outcomes)})
    IN  [i \in DOMAIN resolved |-> GenericResolvedBet(resolved[i])]

-----------------------------------------------------------------------------
(* What the exchange does *)

AccountInit ==
    /\ wallet \in Wallets
    /\ allowance = 0
    /\ held = [m \in Markets |-> [o \in Range(Outcomes) |->
                  SumFunction([i \in DOMAIN Earlier |->
                      IF Earlier[i].market = m /\ Earlier[i].outcome = o
                      THEN Earlier[i].size ELSE 0])]]
    /\ market = [m \in Markets |-> "open"]
    /\ payout = [m \in Markets |-> <<>>]
    /\ feed = Earlier
    /\ step = "idle" /\ job = <<>>
    /\ order = NoOrder /\ tries = 0
    /\ late = {} /\ missed = {}
    /\ result = "none"
    /\ call = NoCall
    /\ day = 1 /\ started = 0

InFlight == order.side # "none" /\ order.chain = "flight"

Affordable(x) ==
    IF x.side = "BUY" THEN x.amount <= wallet.usdc /\ x.amount <= allowance
    ELSE x.amount <= held[x.market][x.outcome]

\* The transaction of an order is mined, at some price.
Fill(x) ==
    /\ Affordable(x) /\ payout[x.market] = <<>>
    /\ \E p \in Prices :
         LET buy == x.side = "BUY"
             size == IF buy THEN x.amount \div p ELSE x.amount
         IN  /\ wallet' = [wallet EXCEPT !.usdc =
                               IF buy THEN @ - size * p ELSE @ + size * p]
             /\ allowance' = IF buy THEN allowance - size * p ELSE allowance
             /\ held' = [held EXCEPT ![x.market][x.outcome] =
                             IF buy THEN @ + size ELSE @ - size]
             /\ feed' = <<[market |-> x.market, outcome |-> x.outcome,
                           side |-> x.side, size |-> size, price |-> p,
                           time |-> day, run |-> x.run]>> \o feed

Mine ==
    /\ InFlight /\ Fill(order)
    /\ order' = IF step = "verify" THEN [order EXCEPT !.chain = "mined"]
                ELSE NoOrder
    /\ UNCHANGED <<world, step, job, reported, tries, result, call, started>>

\* Also that of an order whose call raised, any number of runs later.
MineLate ==
    /\ \E x \in late : Fill(x) /\ late' = late \ {x}
    /\ UNCHANGED <<world, step, job, order, missed, tries, result, call, started>>

\* The order is killed: its transaction fails or never reaches a block.
Kill ==
    /\ InFlight
    /\ \E c \in {"failed", "dropped"} :
         order' = IF step = "verify" THEN [order EXCEPT !.chain = c]
                  ELSE NoOrder
    /\ UNCHANGED <<chain, world, step, job, reported, tries, result, call, started>>

KillLate ==
    /\ \E x \in late : late' = late \ {x}
    /\ UNCHANGED <<chain, world, step, job, order, missed, tries, result, call,
                   started>>

Dry ==
    /\ \E m \in Markets : /\ market[m] = "open"
                         /\ market' = [market EXCEPT ![m] = "dry"]
    /\ UNCHANGED <<chain, payout, day, step, job, order, reported, tries, result,
                   call, started>>

Resolve ==
    /\ \E m \in Markets, n \in Reports :
         /\ payout[m] = <<>>
         /\ payout' = [payout EXCEPT ![m] = n]
         /\ market' = [market EXCEPT ![m] = "closed"]
    /\ UNCHANGED <<chain, day, step, job, order, reported, tries, result, call,
                   started>>

NextDay ==
    /\ day < MaxDays
    /\ day' = day + 1
    /\ UNCHANGED <<chain, market, payout, step, job, order, reported, tries,
                   result, call, started>>

-----------------------------------------------------------------------------
(* What the agent does *)

\* A run starts when the last one ended, whatever the chain has decided on
\* its orders by then. What this run cannot see yet, the history remembers.
Ready == step = "idle" /\ started < MaxOrders

Start(orders, at) ==
    /\ started' = started + 1
    /\ job' = orders /\ step' = at
    /\ result' = "none" /\ order' = NoOrder
    /\ UNCHANGED <<chain, world, late, tries>>

\* A bet on a market that is listed, tradable and not bet on today.
StartBet ==
    /\ Ready
    /\ \E a \in Listed, o \in Range(Outcomes), n \in Amounts :
         /\ a.tradable /\ ~HaveBet(a.id)
         /\ Start(<<[side |-> "BUY", market |-> a.id, outcome |-> o,
                     amount |-> n]>>, "gas")
         /\ missed' = missed \cup {x.run : x \in {y \in late : y.market = a.id}}
    /\ call' = NoCall

\* sell_tokens: an amount of USD at the price of the moment, or tokens.
StartSell ==
    /\ Ready
    /\ \E m \in Markets, n \in Sales, price \in Prices :
         \E a \in GetBinaryMarket(m) : \E p \in Position(a.id) :
            Start(<<[p EXCEPT !.amount = n \div price]>>, "post")
    /\ call' = NoCall /\ UNCHANGED missed

StartLiquidation ==
    /\ Ready
    /\ \E a \in Listed, o \in Range(Outcomes) :
         /\ Liquidation(a.id, o) # {}
         /\ Start(SetToSeq(Liquidation(a.id, o)), "post")
         /\ call' = [kind |-> "liquidate", market |-> a.id, outcome |-> o,
                     other |-> held[a.id][Other(o)]]
    /\ UNCHANGED missed

StartSellAll ==
    /\ Ready
    /\ AllSales # {}
    /\ Start(SetToSeq(AllSales), "post")
    /\ call' = NoCall /\ UNCHANGED missed

\* ensure_min_native_balance unwraps three times what is missing.
EnsureNative ==
    /\ step = "gas"
    /\ LET need == 3 * (MinPol - wallet.pol)
       IN  \/ /\ wallet.pol >= MinPol
              /\ step' = "deposit"
              /\ UNCHANGED <<wallet, job, result>>
           \/ /\ wallet.pol < MinPol /\ wallet.wpol >= need
              /\ wallet' = [wallet EXCEPT !.pol = @ + need, !.wpol = @ - need]
              /\ step' = "deposit"
              /\ UNCHANGED <<job, result>>
           \/ /\ wallet.pol < MinPol /\ wallet.wpol < need
              /\ step' = "idle" /\ job' = <<>> /\ result' = "raised"
              /\ UNCHANGED wallet
    /\ UNCHANGED <<allowance, held, feed, world, order, reported, tries, call,
                   started>>

\* auto_deposit_collateral_token: what is missing is swapped from WPOL,
\* of which as much as that needs is wrapped from POL.
Missing == Head(job).amount - wallet.usdc
Deposit ==
    /\ step = "deposit"
    /\ step' = "post"
    /\ \/ Missing <= 0 /\ UNCHANGED wallet
       \/ /\ Missing > 0 /\ Missing <= wallet.wpol + wallet.pol
          /\ LET left == wallet.wpol - Missing
             IN  wallet' = [usdc |-> wallet.usdc + Missing,
                            wpol |-> IF left > 0 THEN left ELSE 0,
                            pol |-> wallet.pol + IF left < 0 THEN left ELSE 0]
    /\ UNCHANGED <<allowance, held, feed, world, job, order, reported, tries,
                   result, call, started>>

\* __init_approvals raises the allowance when it is below a tiny bet.
Approved == IF allowance < Tiny THEN LargeAmount ELSE allowance

TooSmall == Head(job).side = "BUY" /\ Head(job).amount < Unit

Placed(ask, at) ==
    [side |-> ask.side, market |-> ask.market, outcome |-> ask.outcome,
     amount |-> ask.amount, run |-> started, chain |-> at]

\* _place_market_order; the exchange may refuse the order, answer without
\* a hash, or answer with one.
Post ==
    /\ step = "post" /\ job # <<>> /\ ~TooSmall
    /\ allowance' = Approved
    /\ job' = Tail(job)
    /\ \E answer \in {"refused", "no hash", "hash"} :
         /\ order' = Placed(Head(job), IF answer = "refused" THEN "none"
                                       ELSE "flight")
         /\ step' = IF answer = "hash" THEN "verify" ELSE "raise"
    /\ tries' = 0
    /\ result' = "none"
    /\ UNCHANGED <<wallet, held, feed, world, reported, call, started>>

\* One attempt of _verify_order_on_chain finds the receipt ...
Verified == order.chain = "mined"

Verify ==
    /\ step = "verify" /\ Verified
    /\ result' = "hash"
    /\ order' = NoOrder /\ tries' = 0
    /\ step' = IF job = <<>> THEN "idle" ELSE "post"
    /\ UNCHANGED <<chain, world, job, reported, call, started>>

VerifyFails ==
    /\ step = "verify" /\ order.chain = "failed" /\ ~Verified
    /\ step' = "raise"
    /\ UNCHANGED <<chain, world, job, order, reported, tries, result, call,
                   started>>

\* ... or does not, and waits.
NotFound ==
    /\ step = "verify" /\ order.chain \in {"flight", "dropped"}
    /\ tries' = tries + 1
    /\ step' = IF tries' = MaxAttempts THEN "raise" ELSE "verify"
    /\ UNCHANGED <<chain, world, job, order, reported, result, call, started>>

\* An exception ends the call, and the orders that were left. Every call
\* of an API or of the chain may raise, post_order after it was received.
\* An order the chain has not decided on is left to it.
Raise ==
    /\ \/ step = "raise"
       \/ step \in {"gas", "deposit", "post", "verify"}
    /\ step' = "idle" /\ job' = <<>> /\ result' = "raised"
    /\ order' = NoOrder
    /\ late' = IF InFlight THEN late \cup {order} ELSE late
    /\ tries' = 0 /\ call' = NoCall
    /\ UNCHANGED <<chain, world, missed, started>>

\* redeem_winnings: condition after condition, with the index sets 1 and 2.
StartRedeem ==
    /\ step = "idle" /\ ToRedeem # {}
    /\ job' = SetToSeq(ToRedeem) /\ step' = "redeem"
    /\ result' = "none" /\ order' = NoOrder /\ call' = NoCall
    /\ UNCHANGED <<chain, world, reported, tries, started>>

Payout(m) ==
    LET n == payout[m]
    IN  (Unit * (held[m]["Yes"] * n[1] + held[m]["No"] * n[2]))
            \div (n[1] + n[2])

RedeemNext ==
    /\ step = "redeem"
    /\ wallet' = [wallet EXCEPT !.usdc = @ + Payout(Head(job))]
    /\ held' = [held EXCEPT ![Head(job)] = [o \in Range(Outcomes) |-> 0]]
    /\ job' = Tail(job)
    /\ step' = IF job' = <<>> THEN "idle" ELSE "redeem"
    /\ UNCHANGED <<allowance, feed, world, order, reported, tries, result, call,
                   started>>

RedeemRaises ==
    /\ step = "redeem"
    /\ step' = "idle" /\ job' = <<>>
    /\ UNCHANGED <<chain, world, order, reported, tries, result, call, started>>

Exchange == Mine \/ MineLate \/ Kill \/ KillLate
World == Dry \/ Resolve \/ NextDay
Starts == StartBet \/ StartSell \/ StartLiquidation \/ StartSellAll
Call == EnsureNative \/ Deposit \/ Post \/ Verify \/ VerifyFails \/ NotFound

AccountNext ==
    \/ Exchange \/ World \/ Starts \/ Call \/ Raise
    \/ StartRedeem \/ RedeemNext \/ RedeemRaises

\* The agent goes on, redeems when it is idle again and again, and no
\* market's redemption raises for ever. The chain need not decide.
Fairness ==
    /\ WF_accountVars(Call) /\ WF_accountVars(Raise)
    /\ SF_accountVars(StartRedeem)
    /\ \A m \in Markets : SF_accountVars(RedeemNext /\ Head(job) = m)

AccountSpec == AccountInit /\ [][AccountNext]_accountVars /\ Fairness

-----------------------------------------------------------------------------
(* Two purchases of one market on one day come only of an order whose      *)
(* call raised, was thus reported as failed, and was still undecided when  *)
(* a later run asked have_bet_on_market_since. Whatever was mined by then  *)
(* is seen, also the order of a verification that gave up, and however     *)
(* many runs, sales and trades of other markets there were in between.     *)
OneBuyPerDay ==
    \A i, j \in DOMAIN feed :
        /\ feed[i].market = feed[j].market /\ feed[i].time = feed[j].time
        /\ feed[i].side = "BUY" /\ feed[j].side = "BUY"
        /\ {feed[i].run, feed[j].run} \cap missed = {}
        => i = j

(* What get_resolved_bets_made_since reports as profit of the resolved     *)
(* bets, sales included, is what the wallet gained by them, counting the   *)
(* winning tokens that are not redeemed yet.                               *)
Wealth == wallet.usdc + wallet.wpol + wallet.pol
Initial == Capital + SumFunction([i \in DOMAIN Earlier |->
                                      Earlier[i].size * Earlier[i].price])
Winnings(m) == IF Resolution(m) \in Range(Outcomes)
               THEN Unit * held[m][Resolution(m)] ELSE 0
ProfitIsPaid ==
    (\A t \in Range(feed) : Resolution(t.market) \in Range(Outcomes))
    => Wealth - Initial + SumFunction([m \in Markets |-> Winnings(m)])
        = SumFunction([i \in DOMAIN ResolvedBets({}) |->
                           ResolvedBets({})[i].profit])

(* A liquidation that returns has made one trade: it sold everything that  *)
(* was held of the other outcome of the market, and touched neither the    *)
(* outcome to be kept nor, whatever is held there, another market.         *)
Traded(run) ==
    {[side |-> t.side, market |-> t.market, outcome |-> t.outcome,
      amount |-> t.size] : t \in {u \in Range(feed) : u.run = run}}
Liquidated ==
    call.kind = "liquidate" /\ step = "idle" /\ result = "hash" =>
        Traded(started) =
            {[side |-> "SELL", market |-> call.market,
              outcome |-> Other(call.outcome),
              amount |-> call.other]}

(* What a resolved market pays is collected in the end, and that of a      *)
(* split one too, although an exception ends a redemption half way.        *)
AllRedeemed ==
    \A m \in Markets :
        (payout[m] # <<>> /\ Payout(m) > 0)
            ~> (payout[m] # <<>> /\ Payout(m) = 0)

=============================================================================
