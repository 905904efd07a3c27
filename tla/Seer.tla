--------------------------------- MODULE Seer ---------------------------------
(***************************************************************************)
(* An account that bets on and redeems Seer markets (markets/seer/seer.py).*)
(* One call runs at a time and is a sequence of transactions; the wait for *)
(* the receipt of one may end in an exception although the transaction     *)
(* took effect, and the process may be restarted.                          *)
(*                                                                         *)
(* The collateral of a market is sDai or, if the market is conditional, an *)
(* outcome token of its parent.  Each outcome token is a token of its own, *)
(* the last outcome is the invalid one.  Module CowSwap has the details of *)
(* a swap; here an order is filled, expires or is refused.  Order book,    *)
(* pools, oracle and another process with the same key are the             *)
(* environment.                                                            *)
(***************************************************************************)
EXTENDS Answers, Collateral, FiniteSets

CONSTANTS
    Parent,      \* <<market, outcome>> a market depends on, or <<>>
    Names,       \* the names of the outcomes of each market
    Template,    \* of its question on Realitio
    Class,       \* the answer methods of the agent's class
    Opening,     \* when its payout opens
    Payouts,     \* the payout numerators each market may get
    Created,     \* markets that exist at first
    Contested,   \* markets whose pools others use
    Wanted,      \* bound: outcomes of each market the agent bets on
    Odds,        \* outcome tokens for one of the collateral
    Stake,       \* of a bet, in USD
    Balances,    \* the wallet at first
    Since,       \* same_market_trade_interval
    Ttl,         \* of the cache of has_liquidity
    MaxCalls,    \* bound: calls other than redemptions
    MaxMoves,    \* bound: changes of liquidity and transfers by others
    MaxFaults,   \* bound: exceptions and restarts
    MaxTime      \* bound: time

Markets == DOMAIN Parent
Outcomes(m) == DOMAIN Names[m]

\* The tokens of a market's outcomes.
WrappedTokens(m) == {<<m, i>> : i \in Outcomes(m)}

\* A parent is not conditional itself.
ASSUME SeerAssumption ==
    /\ DOMAIN Names = Markets /\ Class \subseteq Methods
    /\ \A m \in Markets : Names[m] \in Seq(Range(Names[m]))
    /\ \A m \in Markets :
           \/ Parent[m] = <<>>
           \/ \E p \in Markets : Parent[m] \in WrappedTokens(p) /\ Parent[p] = <<>>
    /\ {Template, Opening} \subseteq [Markets -> Nat]
    /\ \A m \in Markets : \A n \in Payouts[m] :
           n \in [Outcomes(m) -> Nat] /\ \E i \in Outcomes(m) : n[i] > 0
    /\ \A m \in Markets : Wanted[m] \subseteq Outcomes(m)
    /\ Created \cup Contested \subseteq Markets
    /\ Odds \in Nat \ {0}
    /\ Balances \in [Tokens \cup {"xdai"} -> Nat]
    /\ {Stake, Since, Ttl, MaxCalls, MaxMoves, MaxFaults, MaxTime}
           \subseteq Nat

VARIABLES
    now,
    exists,      \* markets the factory has created
    pools,       \* of each market: "none", "thin" or "deep" for every outcome
    payout,      \* reported numerators, <<>> before
    held,        \* outcome tokens of the account
    allowance,   \* what the router may take of them
    wallet,
    orders,      \* what the account's CoW orders buy or sell, and when
    traded,      \* markets in the account's Seer transactions
    cache,       \* has_liquidity of each market: {} or one entry
    deepAt,      \* history: when each market was last liquid
    call,        \* the call that is running
    calls, moves, faults

account == <<held, allowance, wallet>>
records == <<orders, traded>>
memory == <<cache, deepAt>>
bounds == <<calls, moves>>
vars == <<now, exists, pools, payout, account, records, memory, call,
          bounds, faults>>

Zero(m) == [i \in Outcomes(m) |-> 0]
Idle == [op |-> "none", m |-> "none", i |-> 0, amount |-> 0, at |-> "idle",
         todo |-> {}, read |-> <<>>]

Init ==
    /\ now = 0
    /\ exists = Created
    /\ pools = [m \in Markets |-> IF m \in Contested THEN "deep" ELSE "none"]
    /\ payout = [m \in Markets |-> <<>>]
    /\ held = [m \in Markets |-> Zero(m)]
    /\ allowance = [m \in Markets |-> Zero(m)]
    /\ wallet = Balances
    /\ orders = {} /\ traded = {}
    /\ cache = [m \in Markets |-> {}]
    /\ deepAt = [m \in Markets |-> 0]
    /\ call = Idle /\ calls = 0 /\ moves = 0 /\ faults = 0

-----------------------------------------------------------------------------
Conditional(m) == Parent[m] # <<>>

\* get_market_by_wrapped_token: the market an outcome token belongs to.
MarketOfToken(token) == CHOOSE m \in Markets : token \in WrappedTokens(m)

\* The collateral the account has, and what it has after a trade that moves n
\* of the collateral of m and k tokens of its outcome i.
Collateral(m) == IF Conditional(m) THEN held[Parent[m][1]][Parent[m][2]]
                 ELSE wallet["sdai"]
WalletAfter(m, n) == IF Conditional(m) THEN wallet
                     ELSE [wallet EXCEPT !["sdai"] = @ + n]
HeldAfter(m, n, i, k) ==
    LET h == [held EXCEPT ![m][i] = @ + k]
    IN  IF Conditional(m) THEN [h EXCEPT ![Parent[m][1]][Parent[m][2]] = @ + n]
        ELSE h

\* get_amount_of_collateral_in_token, get_amount_of_token_in_collateral: a
\* quote of CoW or else of the pool, at the same price.
PoolQuote(amount, buy) == IF buy THEN amount * Odds ELSE amount \div Odds
TokensFor(collateral) == PoolQuote(collateral, TRUE)
CollateralFor(tokens) == PoolQuote(tokens, FALSE)

\* get_token_in_usd, get_usd_in_token: through sDai if the collateral is an
\* outcome token.
TokenInUsd(m, tokens) ==
    ToAssets("sdai", IF Conditional(m) THEN CollateralFor(tokens) ELSE tokens)
UsdInToken(m, usd) ==
    LET sdai == InToken("sdai", usd)
    IN  IF Conditional(m) THEN TokensFor(sdai) ELSE sdai

\* A mutant whose entries never expire.
MutFresh(m, t) == cache[m]

\* get_pool_by_token: the pool of each outcome token of a market, if any.
PoolByToken(m) == {pools[m]} \ {"none"}

\* has_liquidity: the answer is cached.
Fresh(m, t) == {e \in cache[m] : t < e.until}
Liquid(m) == "deep" \in PoolByToken(m)
HasLiquidity(m) ==
    IF Fresh(m, now) = {} THEN Liquid(m) ELSE \E e \in Fresh(m, now) : e.value
Remembered(m) ==
    IF Fresh(m, now) = {} THEN {[value |-> Liquid(m), until |-> now + Ttl]}
    ELSE cache[m]

\* can_be_traded
IsClosed(m) == Opening[m] <= now
CanBeTraded(m) == ~IsClosed(m) /\ HasLiquidity(m)

\* _build_where_statements, and those of the conditional filter.
HasAnswers(m) == payout[m] # <<>>
OpenMarkets == {m \in exists : ~IsClosed(m) /\ ~HasAnswers(m)}
ResolvedMarkets == {m \in exists : payout[m] # <<>>}
NotConditional(markets) == {m \in markets : ~Conditional(m)}

\* from_data_model_with_subgraph drops an open market without prices.
HasPrices(m) == PoolByToken(m) # {}
Offered == {m \in OpenMarkets : HasPrices(m)}

\* get_markets of an agent that answers conditional markets too.
Asked(m) == OfQuestionType(AgentQuestionType(Class), Template[m], Names[m])
Listed == {m \in Offered : Asked(m) /\ HasLiquidity(m)}

\* The answers to the market, by the outcomes they name as the most likely.
Favoured(m) ==
    {Direction(a, Names[m]) :
        a \in {b \in BuildAnswer(Names[m], Class) : Verified(b, Names[m])}}

\* have_bet_on_market_since: an order of a conditional market counts for its
\* parent too, whose token it sells or buys.
OrderTokens(n) == WrappedTokens(n) \cup {Parent[n]}
HaveBet(m) ==
    \E o \in orders :
        o.at >= now - Since /\ OrderTokens(o.market) \cap WrappedTokens(m) # {}

-----------------------------------------------------------------------------
Begin(op, m, i, amount, at) ==
    /\ call = Idle /\ calls < MaxCalls
    /\ calls' = calls + 1
    /\ call' = [Idle EXCEPT !.op = op, !.m = m, !.i = i, !.amount = amount,
                            !.at = at]

At(op, place) == call.op \in op /\ call.at = place
Go(place) == [call EXCEPT !.at = place]

Fault == faults < MaxFaults /\ faults' = faults + 1

\* redeem_winnings logs what is raised for a market and takes the next one.
Raised == IF call.op = "redeem" THEN Go("next") ELSE Idle

\* The transaction took effect: its receipt arrives, or the wait ends.
Mined(next) ==
    \/ call' = next /\ UNCHANGED faults
    \/ call' = Raised /\ Fault

Reverts == call' = Raised /\ UNCHANGED faults

\* A request or a transaction fails before anything has changed.
Fails ==
    /\ call # Idle /\ call' = Raised /\ Fault
    /\ UNCHANGED <<now, exists, pools, payout, account, records, memory,
                   bounds>>

\* The process is restarted: its call and its caches are gone.
Restart ==
    /\ call' = Idle /\ Fault
    /\ cache' = [m \in Markets |-> {}]
    /\ UNCHANGED <<now, exists, pools, payout, account, records, deepAt,
                   bounds>>

chain == <<now, exists, pools, payout, bounds>>

-----------------------------------------------------------------------------
\* An agent lists the markets and bets on one it has not bet on lately.
ListAndBet(m, i) ==
    /\ m \in Listed /\ ~HaveBet(m) /\ i \in Wanted[m] \cap Favoured(m)
    /\ Begin("buy", m, i, UsdInToken(m, Stake), "check")
    /\ cache' = [n \in Markets |->
           IF n \in Offered /\ Asked(n) THEN Remembered(n) ELSE cache[n]]
    /\ UNCHANGED <<now, exists, pools, payout, account, records, deepAt,
                   moves, faults>>

\* place_bet, some time later.  Without a close there is no look at pools.
Check ==
    /\ At({"buy"}, "check")
    /\ call' = IF CanBeTraded(call.m) THEN Go("deposit") ELSE Idle
    /\ cache' = [cache EXCEPT ![call.m] =
           IF IsClosed(call.m) THEN @ ELSE Remembered(call.m)]
    /\ UNCHANGED <<chain, account, records, deepAt, faults>>

\* A mutant that asks for what it splits without a surplus of its own.
MutRequested ==
    IF call.op = "buy" /\ Conditional(call.m) THEN call.amount
    ELSE WithSurplus(call.amount)

\* auto_deposit_collateral_token: sDai, of which mint_full_set splits what it
\* was asked for.
Sets == WithSurplus(call.amount)
Splits == call.op = "buy" /\ Conditional(call.m)
Requested == IF Splits THEN WithSurplus(Sets) ELSE Sets
EnoughSdai == Enough(wallet, "sdai", IF Splits THEN Sets ELSE Requested)
Deposited == IF Splits THEN "split"
             ELSE IF call.op = "create" THEN "create" ELSE "order"

NoDeposit ==
    /\ At({"buy", "create"}, "deposit") /\ EnoughSdai
    /\ call' = Go(Deposited)
    /\ UNCHANGED <<chain, account, records, memory, faults>>

WrapShort ==
    /\ At({"buy", "create"}, "deposit")
    /\ ~EnoughSdai /\ Affordable(wallet, "sdai", Requested)
    /\ wallet' = Wrapped(wallet, "sdai", Requested)
    /\ Mined(Go("vault"))
    /\ UNCHANGED <<chain, held, allowance, records, memory>>

OutOfMoney ==
    /\ At({"buy", "create"}, "deposit")
    /\ ~EnoughSdai /\ ~Affordable(wallet, "sdai", Requested)
    /\ Reverts
    /\ UNCHANGED <<chain, account, records, memory>>

DepositInVault ==
    /\ At({"buy", "create"}, "vault")
    /\ wallet' \in Deposits(wallet, "sdai", Requested)
    /\ Mined(Go(Deposited))
    /\ UNCHANGED <<chain, held, allowance, records, memory>>

\* split_position: collateral against a token of every outcome of a market.
SplitPosition(m, n) ==
    /\ wallet["sdai"] >= n
    /\ wallet' = [wallet EXCEPT !["sdai"] = @ - n]
    /\ held' = [held EXCEPT ![m] = [i \in Outcomes(m) |-> @[i] + n]]
    /\ traded' = traded \cup {m}

\* mint_full_set: of the market whose token is asked for, whatever is held.
SplitParent ==
    /\ At({"buy"}, "split")
    /\ SplitPosition(MarketOfToken(Parent[call.m]), Sets)
    /\ Mined(Go("order"))
    /\ UNCHANGED <<chain, allowance, orders, memory>>

-----------------------------------------------------------------------------
\* _swap_tokens_with_fallback of place_bet and sell_tokens
Swapping == {"buy", "sell"}
CanSell == IF call.op = "buy" THEN Collateral(call.m) >= call.amount
           ELSE held[call.m][call.i] >= call.amount

Swap ==
    /\ CanSell
    /\ LET m == call.m
           n == IF call.op = "buy" THEN -call.amount
                ELSE CollateralFor(call.amount)
           k == IF call.op = "buy" THEN TokensFor(call.amount)
                ELSE -call.amount
       IN  /\ wallet' = WalletAfter(m, n)
           /\ held' = HeldAfter(m, n, call.i, k)
           /\ traded' = traded \cup {m} \cup
                  (IF Conditional(m) THEN {MarketOfToken(Parent[m])} ELSE {})

Order == orders' = orders \cup {[market |-> call.m, at |-> now]}

\* The trade may not be found, which is raised.
OrderFilled ==
    /\ At(Swapping, "order")
    /\ Order /\ Swap
    /\ Mined(Idle)
    /\ UNCHANGED <<chain, allowance, memory>>

OrderExpires ==
    /\ At(Swapping, "order")
    /\ Order
    /\ call' = Go("fallback")
    /\ UNCHANGED <<chain, account, traded, memory, faults>>

\* Without liquidity there is no order; without the balance it is raised.
OrderRefused ==
    /\ At(Swapping, "order")
    /\ call' = IF CanSell THEN Go("fallback") ELSE Idle
    /\ UNCHANGED <<chain, account, records, memory, faults>>

Fallback ==
    /\ At(Swapping, "fallback")
    /\ call' = IF HasLiquidity(call.m) THEN Go("pool") ELSE Idle
    /\ cache' = [cache EXCEPT ![call.m] = Remembered(call.m)]
    /\ UNCHANGED <<chain, account, records, deepAt, faults>>

\* exact_input_single, at 95 % of a quote or better
SwapInPool ==
    /\ At(Swapping, "pool") /\ Liquid(call.m)
    /\ Swap
    /\ Mined(Idle)
    /\ UNCHANGED <<chain, allowance, orders, memory>>

PoolReverts ==
    /\ At(Swapping, "pool") /\ ~(Liquid(call.m) /\ CanSell)
    /\ Reverts
    /\ UNCHANGED <<chain, account, records, memory>>

\* execute_trades sells a value, or all tokens if they are worth no more: the
\* value is taken for a number of tokens.
SellValue(m, i) == CollateralFor(held[m][i])
Position(m) == {i \in Outcomes(m) : held[m][i] > 0}
Worthy(m, i) == TokenInUsd(m, SellValue(m, i)) > Stake

StartSell(m, i) ==
    /\ CanBeTraded(m) /\ i \in Position(m)
    /\ Begin("sell", m, i, IF Worthy(m, i) THEN UsdInToken(m, Stake)
                           ELSE held[m][i], "order")
    /\ cache' = [cache EXCEPT ![m] = Remembered(m)]
    /\ UNCHANGED <<now, exists, pools, payout, account, records, deepAt,
                   moves, faults>>

-----------------------------------------------------------------------------
\* seer_create_market_tx: the deposit is approved and not used.
StartCreate(m) ==
    /\ m \notin exists
    /\ Begin("create", m, 0, InToken("sdai", Stake), "deposit")
    /\ UNCHANGED <<now, exists, pools, payout, account, records, memory,
                   moves, faults>>

CreateCategoricalMarket(m) == exists' = exists \cup {m}

Create ==
    /\ At({"create"}, "create")
    /\ CreateCategoricalMarket(call.m)
    /\ Mined(Idle)
    /\ UNCHANGED <<now, pools, payout, account, records, memory, bounds>>

-----------------------------------------------------------------------------
\* redeem_winnings
Redeemable(m) ==
    /\ payout[m] # <<>>
    /\ \E i \in Outcomes(m) : payout[m][i] > 0 /\ held[m][i] > 0

\* get_seer_transactions: the tokens that came or went.
TradedTokens == UNION {WrappedTokens(m) : m \in traded}

\* _filter_markets_contained_in_trades
TradedOn(markets) ==
    {m \in markets : WrappedTokens(m) \cap TradedTokens # {}}

\* A mutant that redeems only what is resolved with a valid answer.
MutToRedeem ==
    {m \in TradedOn(NotConditional(ResolvedMarkets)) :
         Redeemable(m) /\ payout[m][Len(Names[m])] # 1}

\* Resolved markets the account traded on, but no conditional ones.
ToRedeem ==
    {m \in TradedOn(NotConditional(ResolvedMarkets)) : Redeemable(m)}

\* All balances are read before the first redemption.
StartRedeem ==
    /\ call = Idle /\ ToRedeem # {}
    /\ call' = [Idle EXCEPT !.op = "redeem", !.todo = ToRedeem, !.at = "next",
                   !.read = [m \in ToRedeem |-> held[m]]]
    /\ UNCHANGED <<chain, account, records, memory, faults>>

NextMarket ==
    /\ At({"redeem"}, "next")
    /\ \/ \E m \in call.todo :
              call' = [call EXCEPT !.m = m, !.todo = @ \ {m},
                                   !.at = "redeem"]
       \/ call.todo = {} /\ call' = Idle
    /\ UNCHANGED <<chain, account, records, memory, faults>>

\* handle_allowance, token by token
ToApprove(m) == {i \in Outcomes(m) : allowance[m][i] < call.read[m][i]}

Approve ==
    /\ At({"redeem"}, "redeem")
    /\ \E i \in ToApprove(call.m) :
           /\ \A j \in ToApprove(call.m) : i <= j
           /\ allowance' = [allowance EXCEPT ![call.m][i] =
                  call.read[call.m][i]]
    /\ Mined(call)
    /\ UNCHANGED <<chain, held, wallet, records, memory>>

\* Only correct outcomes may be redeemed.
Amounts(m) ==
    [i \in Outcomes(m) |-> IF payout[m][i] > 0 THEN call.read[m][i] ELSE 0]

RedeemAccepted(m) ==
    \A i \in Outcomes(m) :
        /\ Amounts(m)[i] <= held[m][i]
        /\ Amounts(m)[i] > 0 => payout[m][i] > 0

\* redeemToBase pays in xDai.
BasePaid(m) ==
    ToAssets("sdai", SumOf([i \in Outcomes(m) |->
        (Amounts(m)[i] * payout[m][i]) \div SumOf(payout[m])]))

RedeemToBase ==
    /\ At({"redeem"}, "redeem")
    /\ ToApprove(call.m) = {} /\ RedeemAccepted(call.m)
    /\ LET m == call.m
           less(b) == [i \in Outcomes(m) |-> b[i] - Amounts(m)[i]]
       IN  /\ held' = [held EXCEPT ![m] = less(@)]
           /\ allowance' = [allowance EXCEPT ![m] = less(@)]
           /\ wallet' = [wallet EXCEPT !["xdai"] = @ + BasePaid(m)]
    /\ Mined(Go("next"))
    /\ UNCHANGED <<chain, records, memory>>

RedeemReverts ==
    /\ At({"redeem"}, "redeem")
    /\ ToApprove(call.m) = {} /\ ~RedeemAccepted(call.m)
    /\ Reverts
    /\ UNCHANGED <<chain, account, records, memory>>

-----------------------------------------------------------------------------
\* The environment.  Entries that have expired and orders that are too old to
\* be asked for are forgotten.
Tick ==
    /\ now < MaxTime /\ now' = now + 1
    /\ deepAt' = [m \in Markets |-> IF Liquid(m) THEN now' ELSE deepAt[m]]
    /\ cache' = [m \in Markets |-> Fresh(m, now')]
    /\ orders' = {o \in orders : o.at >= now' - Since}
    /\ UNCHANGED <<exists, pools, payout, account, traded, call, bounds,
                   faults>>

Move == moves < MaxMoves /\ moves' = moves + 1

\* Liquidity providers leave or come back.
LiquidityMoves(m) ==
    /\ m \in Contested /\ Move
    /\ pools' = [pools EXCEPT ![m] = IF @ = "deep" THEN "thin" ELSE "deep"]
    /\ deepAt' = [deepAt EXCEPT ![m] = now]
    /\ UNCHANGED <<now, exists, payout, account, records, cache, call, calls,
                   faults>>

\* Another process with the key sells all tokens of an outcome; the calls
\* that act on balances read earlier are redemptions.
OtherSells(m, i) ==
    /\ call.op = "redeem" /\ held[m][i] > 0 /\ Move
    /\ wallet' = WalletAfter(m, CollateralFor(held[m][i]))
    /\ held' = HeldAfter(m, CollateralFor(held[m][i]), i, -held[m][i])
    /\ UNCHANGED <<now, exists, pools, payout, allowance, records, memory,
                   call, calls, faults>>

\* An answer and its report are one step: the market has closed before.
Report(m, numerators) ==
    /\ m \in Contested /\ IsClosed(m) /\ payout[m] = <<>>
    /\ payout' = [payout EXCEPT ![m] = numerators]
    /\ UNCHANGED <<now, exists, pools, account, records, memory,
                   call, bounds, faults>>

-----------------------------------------------------------------------------
Step ==
    \/ Check \/ NoDeposit \/ WrapShort \/ OutOfMoney \/ DepositInVault
    \/ SplitParent \/ OrderFilled \/ OrderExpires \/ OrderRefused \/ Fallback
    \/ SwapInPool \/ PoolReverts \/ Create
    \/ NextMarket \/ Approve \/ RedeemToBase \/ RedeemReverts

Next ==
    \/ Step \/ Fails \/ Restart \/ StartRedeem \/ Tick
    \/ \E m \in Markets :
           \/ StartCreate(m) \/ LiquidityMoves(m)
           \/ \E n \in Payouts[m] : Report(m, n)
           \/ \E i \in Outcomes(m) :
                  ListAndBet(m, i) \/ StartSell(m, i) \/ OtherSells(m, i)

\* A call goes on, and every run of an agent begins with redeem_winnings.
Spec == Init /\ [][Next]_vars /\ WF_vars(Step) /\ WF_vars(StartRedeem)

-----------------------------------------------------------------------------
\* What a bet deposits suffices to pay for it, also when the collateral has to
\* be split off a parent market whose own collateral was deposited first.
DepositSuffices ==
    At({"buy"}, "split") \/ (At({"buy"}, "order") /\ ~Conditional(call.m))
        => wallet["sdai"] >= IF Splits THEN Sets ELSE call.amount

\* A bet is begun, and a pool is used, only in a market that had enough
\* liquidity within the lifetime of a cache entry, however often the answer
\* was asked for, and renewed or not, in between.
LiquidLately ==
    [][\/ At({"buy"}, "check") /\ call'.at = "deposit"
       \/ At(Swapping, "fallback") /\ call'.at = "pool"
       => now - deepAt[call.m] <= Ttl]_vars

\* Whatever numerators are reported, and whatever exception, restart or other
\* process comes between the reading of balances and a redemption, in the end
\* the account holds no winning token of a market that is not conditional.
AllRedeemed ==
    \A m \in NotConditional(Markets) :
        <>[](payout[m] # <<>> =>
                 \A i \in Outcomes(m) : payout[m][i] > 0 => held[m][i] = 0)
=============================================================================
