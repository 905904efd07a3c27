------------------------------- MODULE Pricing -------------------------------
(***************************************************************************)
(* The arithmetic of a fixed product market maker as the agents use it:    *)
(* quotes and prices (markets/omen/omen.py, markets/agent_market.py,       *)
(* markets/omen/data_models.py, tools/utils.py), fees                      *)
(* (markets/market_fees.py) and the sizes of Kelly bets                    *)
(* (tools/betting_strategies/kelly_criterion.py).                          *)
(*                                                                         *)
(* Amounts are integers of a small unit, results rounded down where the    *)
(* code has floats.  A pool is the sequence of its outcome balances.       *)
(* Probabilities of an answer and its confidence are in tenths, fees in    *)
(* percent of the bet, prices in thousandths.                              *)
(***************************************************************************)
EXTENDS Integers, Sequences

CeilDiv(a, b) == -((-a) \div b)
ProductOf(s) ==
    LET p[k \in 0..Len(s)] == IF k = 0 THEN 1 ELSE s[k] * p[k - 1] IN p[Len(s)]
SumOf(s) ==
    LET t[k \in 0..Len(s)] == IF k = 0 THEN 0 ELSE s[k] + t[k - 1] IN t[Len(s)]
Lesser(a, b) == IF a < b THEN a ELSE b
Greater(a, b) == IF a < b THEN b ELSE a
Distance(a, b) == Greater(a - b, b - a)

\* The other balances: i's place is taken by a neutral 1.
Others(pool, i) == [pool EXCEPT ![i] = 1]
\* Every balance but i's moves by amount.
Shift(pool, i, amount, balance) ==
    [j \in DOMAIN pool |-> IF j = i THEN balance ELSE pool[j] + amount]

-----------------------------------------------------------------------------
\* MarketFees.  A price dependent fee is rate * (1 - price) of the bet.
TotalFee(fees, amount, price) ==
    fees.absolute
    + (fees.proportion * amount) \div 100
    + (fees.rate * amount * (1000 - price)) \div 100000

AfterFees(fees, amount, price) == amount - TotalFee(fees, amount, price)

\* The fees of an Omen market are in proportion to the bet.
Proportional(percent) == [absolute |-> 0, proportion |-> percent, rate |-> 0]

-----------------------------------------------------------------------------
\* compute_fpmm_probabilities, calculate_marginal_prices, current_p_yes.
Weight(pool, i) == ProductOf(Others(pool, i))

Price(pool, i) ==
    LET total == SumOf([j \in DOMAIN pool |-> Weight(pool, j)])
    IN  IF total = 0 THEN 0 ELSE (1000 * Weight(pool, i)) \div total

-----------------------------------------------------------------------------
\* calculate_buy_outcome_token, in tenths of the unit: the market's fee is a
\* proportion of the bet.  What the pool keeps is rounded up for every other
\* outcome, so that the quote is rounded down.
Quote(pool, i, amount, fee) ==
    LET added == amount * (100 - fee)   \* hundredths
        ending[k \in 0..Len(pool)] ==
            IF k = 0 THEN 10 * pool[i]
            ELSE IF k = i THEN ending[k - 1]
            ELSE CeilDiv(ending[k - 1] * pool[k] * 100, 100 * pool[k] + added)
    IN  IF amount = 0 THEN 0
        ELSE 10 * pool[i] + added \div 10 - ending[Len(pool)]

Invested(amount, fee) == AfterFees(Proportional(fee), amount, 0)

\* calcBuyAmount and buy of the market's contract.
EndingBalance(pool, i, invested) ==
    CeilDiv(ProductOf(pool), ProductOf(Others(Shift(pool, i, invested, 0), i)))

PoolAfterBuy(pool, i, amount, fee) ==
    LET added == Invested(amount, fee)
    IN  Shift(pool, i, added, EndingBalance(pool, i, added))

SharesBought(pool, i, amount, fee) ==
    LET added == Invested(amount, fee)
    IN  pool[i] + added - EndingBalance(pool, i, added)

\* calcSellAmount of the market's contract: the shares it takes for amount.
Gross(amount, fee) == CeilDiv(amount * 100, 100 - fee)

SharesSold(pool, i, amount, fee) ==
    LET out == Gross(amount, fee)
    IN  out + EndingBalance(pool, i, -out) - pool[i]

PoolAfterSell(pool, i, amount, fee) ==
    LET out == Gross(amount, fee)
    IN  Shift(pool, i, -out, EndingBalance(pool, i, -out))

\* calculate_sell_amount_in_collateral: the root Newton's method finds from
\* 0, as far as whole units are concerned.
Covers(pool, i, shares, fee, r) ==
    LET out == Gross(r, fee)
    IN  /\ \A j \in DOMAIN pool \ {i} : out < pool[j]
        /\ ProductOf(Shift(pool, i, -out, pool[i] + shares - out))
               >= ProductOf(pool)

SellAmount(pool, i, shares, fee) ==
    LET bounds == 0..(shares + 1)
        search[range \in bounds \X bounds] ==
            LET lo == range[1]
                hi == range[2]
                mid == (lo + hi) \div 2
            IN  IF hi - lo <= 1 THEN lo
                ELSE search[IF Covers(pool, i, shares, fee, mid)
                            THEN <<mid, hi>> ELSE <<lo, mid>>]
    IN  IF shares = 0 THEN 0 ELSE search[<<0, shares + 1>>]

-----------------------------------------------------------------------------
\* get_kelly_bet_simplified.  estimated and confidence are in tenths; the
\* bet is on the outcome itself when forIt, otherwise against it, at a price
\* of less than one whatever the rounding.
KellySimple(price, estimated, confidence, maxBet) ==
    LET forIt == 100 * estimated > price
        paid == IF forIt THEN price ELSE 1000 - Greater(1, price)
        chance == IF forIt THEN estimated ELSE 10 - estimated
        edge == (Distance(100 * chance, paid) * confidence) \div 10
        fraction == (edge * paid) \div (1000 - paid)
    IN  [forIt |-> forIt,
         size |-> Lesser((fraction * maxBet) \div 1000, maxBet)]

\* get_kelly_bet_full: a root of A s^2 + B s + C, the one that tends to
\* -C / B as the two balances become equal; negative for the other outcome.
\* The coefficients are divided by 4xy and then multiplied by 1000.
KellyFull(x, y, estimated, confidence, maxBet, fee) ==
    LET pc == estimated * confidence
        kept == 100 - fee
        A == ((((x * x - y * y) * 100) \div x) * kept) \div (40 * y)
        share == ((kept * maxBet * (200 * y - pc * (x + y))) \div 1000) \div x
        B == 1000 * x + (share * ((1000 * (x + y)) \div (4 * y))) \div 10
        C == 10 * maxBet * (100 * y - pc * (x + y))
        g(s) == A * s * s + B * s + C
        \* the root is above 0 when C < 0, otherwise below
        before(n) == IF C < 0 THEN g(n) <= 0 ELSE g(-n) >= 0
        beyond == {n \in 0..maxBet : ~before(n)}
    IN  [forIt |-> C < 0 \/ maxBet = 0,
         size |-> IF beyond = {} THEN maxBet
                  ELSE (CHOOSE n \in beyond : \A m \in beyond : n <= m) - 1]

\* get_kelly_bets_categorical_simplified: the signed bets on all outcomes.
\* Without several bets only the largest remains.
KellyFraction(price, estimated, confidence, fee, short) ==
    LET edge == ((100 * estimated - price) * confidence) \div 10
        size == (((Distance(edge, 0) * price) \div (1000 - price))
                    * (100 - fee)) \div 100
    IN  IF edge >= 0 THEN size ELSE IF short THEN -size ELSE 0

KellySimplified(prices, estimated, confidence, maxBet, fee, many, short) ==
    LET fraction == [j \in DOMAIN prices |->
            KellyFraction(prices[j], estimated[j], confidence, fee, short)]
        size(j) == Distance(fraction[j], 0)
        total == SumOf([j \in DOMAIN prices |-> size(j)])
        best == CHOOSE j \in DOMAIN prices :
                    /\ \A k \in DOMAIN prices : size(k) <= size(j)
                    /\ \A k \in 1..(j - 1) : size(k) < size(j)
        clip(b) == Greater(-maxBet, Lesser(b, maxBet))
    IN  [j \in DOMAIN prices |->
            IF many
            THEN IF total = 0 THEN 0 ELSE clip((fraction[j] * maxBet) \div total)
            ELSE IF j = best THEN clip((fraction[j] * maxBet) \div 1000) ELSE 0]

\* calculate_bet_amount_for_price_impact: the bet whose relative price
\* impact, in percent, is nearest to the wanted one.  Only bets up to limit
\* matter: the result is the lesser of it and the Kelly bet.
PriceImpact(pool, i, bet, fee) ==
    LET paid == (10 * 1000 * bet) \div Quote(pool, i, bet, fee)
    IN  (100 * (paid - Price(pool, i))) \div Price(pool, i)

BetForImpact(pool, i, impact, limit, fee) ==
    LET off(b) == Distance(PriceImpact(pool, i, b, fee), impact)
        bounds == 0..limit
        search[range \in bounds \X bounds] ==
            LET lo == range[1]
                hi == range[2]
                mid == (lo + hi) \div 2
            IN  IF hi - lo <= 1 THEN lo
                ELSE search[IF PriceImpact(pool, i, mid, fee) <= impact
                            THEN <<mid, hi>> ELSE <<lo, mid>>]
        low == search[<<1, limit>>]
        high == Lesser(low + 1, limit)
    IN  IF off(high) < off(low) THEN high ELSE low
=============================================================================
