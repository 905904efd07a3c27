----------------------------- MODULE Seer_proofs -----------------------------
(***************************************************************************)
(* Proofs about Seer, for any markets, payouts, balances and bounds.       *)
(***************************************************************************)
EXTENDS Seer, FiniteSetTheorems, SequenceTheorems, WellFoundedInduction, TLAPS

Entries == [value : BOOLEAN, until : Nat]
Balanced(f) ==
    DOMAIN f = Markets /\ \A m \in Markets : f[m] \in [Outcomes(m) -> Nat]

WorldOK ==
    /\ now \in Nat /\ exists \subseteq Markets
    /\ pools \in [Markets -> {"none", "thin", "deep"}]
    /\ DOMAIN payout = Markets
    /\ \A m \in Markets : payout[m] = <<>> \/ payout[m] \in Payouts[m]
    /\ calls \in Nat /\ moves \in Nat /\ faults \in Nat

AccountOK ==
    /\ Balanced(held) /\ Balanced(allowance)
    /\ wallet \in [Tokens \cup {"xdai"} -> Nat]
    /\ orders \subseteq [market : Markets, at : Nat]
    /\ traded \subseteq Markets

MemoryOK ==
    /\ cache \in [Markets -> SUBSET Entries]
    /\ deepAt \in [Markets -> Nat]

\* The market a call is about, what it deposits first and what it has read.
CallOK ==
    /\ DOMAIN call = {"op", "m", "i", "amount", "at", "todo", "read"}
    /\ call.op \in {"none", "buy", "sell", "create", "redeem"}
    /\ call.op \in {"buy", "sell", "create"} => call.m \in Markets /\ call.amount \in Nat
    /\ call.op \in {"buy", "sell"} => call.i \in Outcomes(call.m)
    /\ call.at = "split" => call.op = "buy" /\ Conditional(call.m)
    /\ call.at = "vault" => /\ call.op \in {"buy", "create"} /\ ~EnoughSdai
                            /\ wallet["wxdai"] >= Spend(wallet, "sdai", Requested)
    /\ call.op = "redeem" =>
           LET reading == call.todo \cup IF call.at = "redeem" THEN {call.m} ELSE {}
           IN  \A m \in reading : /\ m \in Markets /\ payout[m] # <<>>
                                  /\ call.read[m] \in [Outcomes(m) -> Nat]

TypeOK == WorldOK /\ AccountOK /\ MemoryOK /\ CallOK

\* An entry tells of a market that was liquid when it was made.
Lately ==
    \A m \in Markets :
        /\ deepAt[m] <= now
        /\ Liquid(m) => deepAt[m] = now
        /\ \A e \in cache[m] : e.value => e.until <= deepAt[m] + Ttl

IInv == TypeOK /\ Lately
-----------------------------------------------------------------------------
\* A set of naturals has a least element.
LEMMA LeastNatural ==
  ASSUME NEW T, T \subseteq Nat, T # {}
  PROVE  \E x \in T : \A y \in T : x <= y
<1> DEFINE R == {ss \in Nat \X Nat : ss[1] < ss[2]}
<1>1. IsWellFoundedOn(R, Nat)
  BY NatLessThanWellFounded, Zenon DEF OpToRel
<1>2. \E x \in T : \A y \in T : <<y, x>> \notin R
  BY <1>1, WFMin, Zenon
<1>3. \A x, y \in Nat : y < x => <<y, x>> \in R
  OBVIOUS
<1>4. PICK x \in T : \A y \in T : <<y, x>> \notin R
  BY <1>2
<1>5. \A y \in T : ~(y < x)
  BY <1>3, <1>4, Zenon
<1> QED
  BY <1>5

\* The recursion of SumOf.
Partial(s, t, k) == IF k = 0 THEN 0 ELSE s[k] + t[k - 1]
Sums(s, n, t) == t = [k \in 0..n |-> Partial(s, t, k)]

\* It has a solution: the partial sums up to any length.
LEMMA SumsExist ==
  ASSUME NEW s, NEW n \in Nat
  PROVE  \E t : Sums(s, n, t)
<1> DEFINE Right(t, j) == /\ t = [k \in 0..n |-> t[k]]
                          /\ \A k \in 0..n : k <= j => t[k] = Partial(s, t, k)
           Wrong == {j \in Nat : \A t : ~Right(t, j)}
<1> HIDE DEF Right
<1>1. 0 \notin Wrong
  <2> DEFINE t == [k \in 0..n |-> 0]
  <2>1. Right(t, 0)
    BY DEF Right, Partial
  <2> QED
    BY <2>1
<1>2. ASSUME NEW j \in Nat, j \notin Wrong PROVE j + 1 \notin Wrong
  <2>1. PICK t : Right(t, j)
    BY <1>2
  <2> DEFINE u == [k \in 0..n |-> IF k <= j THEN t[k] ELSE Partial(s, t, k)]
  <2>2. ASSUME NEW k \in 0..n, k <= j + 1 PROVE u[k] = Partial(s, u, k)
    <3>1. u[k] = Partial(s, t, k)
      BY <2>1, <2>2 DEF Right
    <3>2. k # 0 => k - 1 \in 0..n /\ k - 1 <= j
      BY <2>2
    <3>3. k # 0 => u[k - 1] = t[k - 1]
      BY <3>2
    <3> QED
      BY <3>1, <3>3 DEF Partial
  <2>3. Right(u, j + 1)
    BY <2>2 DEF Right
  <2> QED
    BY <2>3
<1>3. ASSUME Wrong # {} PROVE FALSE
  <2>0. Wrong \subseteq Nat
    OBVIOUS
  <2>1. PICK j \in Wrong : \A k \in Wrong : j <= k
    <3> HIDE DEF Wrong
    <3> QED
      BY <1>3, <2>0, LeastNatural
  <2>2. j - 1 \in Nat /\ j - 1 \notin Wrong
    BY <1>1, <2>1
  <2>3. j - 1 + 1 \notin Wrong
    BY <1>2, <2>2
  <2> QED
    BY <2>1, <2>3
<1>4. PICK t : Right(t, n)
  BY <1>3
<1>5. t = [k \in 0..n |-> Partial(s, t, k)]
  BY <1>4 DEF Right
<1> QED
  BY <1>5 DEF Sums

\* A sum of naturals is one, and at least each of them.
LEMMA SumIsNat ==
  ASSUME NEW n \in Nat, NEW s \in [1..n -> Nat]
  PROVE  SumOf(s) \in Nat /\ \A i \in 1..n : s[i] <= SumOf(s)
<1>1. Len(s) = n
  <2>1. s \in Seq(Nat)
    BY IsASeq
  <2> QED
    BY <2>1, LenProperties
<1> DEFINE t == CHOOSE u : Sums(s, n, u)
<1>2. SumOf(s) = t[n]
  BY <1>1, Zenon DEF SumOf, Sums, Partial
<1>3. Sums(s, n, t)
  BY SumsExist
<1> HIDE DEF t
<1>4. t[0] = 0 /\ \A k \in 1..n : t[k] = s[k] + t[k - 1]
  BY <1>3 DEF Sums, Partial
<1> DEFINE Good(k) == t[k] \in Nat /\ \A i \in 1..k : s[i] <= t[k]
           Wrong == {k \in 0..n : ~Good(k)}
<1>5. ASSUME Wrong # {} PROVE FALSE
  <2>0. Wrong \subseteq Nat
    OBVIOUS
  <2>1. PICK k \in Wrong : \A j \in Wrong : k <= j
    <3> HIDE DEF Wrong
    <3> QED
      BY <1>5, <2>0, LeastNatural
  <2>2. k \in 1..n
    BY <1>4, <2>1
  <2>3. Good(k - 1)
    BY <2>1, <2>2
  <2>4. t[k] = s[k] + t[k - 1] /\ s[k] \in Nat /\ t[k - 1] \in Nat
    BY <1>4, <2>2, <2>3
  <2>5. ASSUME NEW i \in 1..k PROVE s[i] <= t[k]
    <3>1. CASE i = k
      BY <2>4, <3>1
    <3>2. CASE i # k
      <4>1. i \in 1..(k - 1) /\ i \in 1..n
        BY <2>2, <3>2
      <4>2. s[i] <= t[k - 1] /\ s[i] \in Nat
        BY <2>3, <4>1
      <4> QED
        BY <2>4, <4>2
    <3> QED
      BY <3>1, <3>2
  <2> QED
    BY <2>1, <2>4, <2>5
<1>6. Good(n)
  BY <1>5
<1> QED
  BY <1>2, <1>6
-----------------------------------------------------------------------------
\* The outcomes of a market are numbered from 1, and a conditional market has
\* a parent.
LEMMA Constants ==
  /\ \A m \in Markets : \E n \in Nat : Outcomes(m) = 1..n
  /\ \A m \in Markets : Conditional(m) =>
         /\ Parent[m][1] \in Markets /\ Parent[m][2] \in Outcomes(Parent[m][1])
         /\ MarketOfToken(Parent[m]) \in Markets
  /\ \A m \in Markets : \A n \in Payouts[m] :
         n \in [Outcomes(m) -> Nat] /\ \E i \in Outcomes(m) : n[i] > 0
  /\ \A m \in Markets : Wanted[m] \subseteq Outcomes(m)
  /\ Created \subseteq Markets /\ Contested \subseteq Markets
  /\ Odds \in Nat \ {0} /\ Stake \in Nat /\ Ttl \in Nat /\ Since \in Nat
  /\ Worth["sdai"] \in Nat \ {0}
  /\ "sdai" \in Tokens /\ "wxdai" \in Tokens /\ "xdai" \notin Tokens
  /\ Balances \in [Tokens \cup {"xdai"} -> Nat]
<1>1. ASSUME NEW m \in Markets PROVE \E n \in Nat : Outcomes(m) = 1..n
  <2>1. Names[m] \in Seq(Range(Names[m]))
    BY SeerAssumption
  <2>2. Len(Names[m]) \in Nat /\ DOMAIN Names[m] = 1..Len(Names[m])
    BY <2>1, LenProperties
  <2> QED
    BY <2>2 DEF Outcomes
<1>2. ASSUME NEW m \in Markets, Conditional(m)
      PROVE  /\ Parent[m][1] \in Markets /\ Parent[m][2] \in Outcomes(Parent[m][1])
             /\ MarketOfToken(Parent[m]) \in Markets
  <2>1. PICK p \in Markets : Parent[m] \in WrappedTokens(p)
    BY <1>2, SeerAssumption DEF Conditional
  <2>2. PICK i \in Outcomes(p) : Parent[m] = <<p, i>>
    BY <2>1 DEF WrappedTokens
  <2>3. MarketOfToken(Parent[m]) \in Markets
    BY <2>1, Zenon DEF MarketOfToken
  <2> QED
    BY <2>2, <2>3
<1>3. /\ Odds \in Nat \ {0} /\ Stake \in Nat /\ Ttl \in Nat /\ Since \in Nat
      /\ Balances \in [Tokens \cup {"xdai"} -> Nat]
      /\ Created \subseteq Markets /\ Contested \subseteq Markets
  BY SeerAssumption
<1>4. /\ Worth["sdai"] \in Nat \ {0}
      /\ "sdai" \in Tokens /\ "wxdai" \in Tokens /\ "xdai" \notin Tokens
  BY CollateralAssumption
<1> QED
  BY <1>1, <1>2, <1>3, <1>4, SeerAssumption

\* Conversions of naturals are naturals.
LEMMA Conversions ==
  ASSUME NEW a \in Nat
  PROVE  /\ ToAssets("sdai", a) \in Nat /\ ToShares("sdai", a) \in Nat
         /\ InToken("sdai", a) \in Nat
         /\ WithSurplus(a) \in Nat /\ WithSurplus(a) >= a
         /\ TokensFor(a) \in Nat /\ CollateralFor(a) \in Nat
<1>1. \A x \in Nat : \A d \in Nat \ {0} : x \div d \in Nat
  OBVIOUS
<1>2. Worth["sdai"] \in Nat \ {0} /\ Odds \in Nat \ {0}
  BY Constants
<1>3. a * Worth["sdai"] \in Nat /\ a * Odds \in Nat /\ a * 100 \in Nat
  BY <1>2
<1>4. ToAssets("sdai", a) \in Nat /\ ToShares("sdai", a) \in Nat
  BY <1>1, <1>2, <1>3 DEF ToAssets, ToShares
<1>5. TokensFor(a) \in Nat /\ CollateralFor(a) \in Nat
  BY <1>1, <1>2, <1>3 DEF TokensFor, CollateralFor, PoolQuote
<1>6. WithSurplus(a) \in Nat /\ WithSurplus(a) >= a
  BY DEF WithSurplus
<1> QED
  BY <1>4, <1>5, <1>6 DEF InToken

\* More shares are worth no less.
LEMMA Monotone ==
  ASSUME NEW a \in Nat, NEW b \in Nat, a <= b
  PROVE  ToAssets("sdai", a) <= ToAssets("sdai", b)
<1>1. Worth["sdai"] \in Nat
  BY Constants
<1>2. a * Worth["sdai"] \in Nat /\ b * Worth["sdai"] \in Nat
  BY <1>1
<1>3. a * Worth["sdai"] <= b * Worth["sdai"]
  BY <1>1
<1>4. \A x, y \in Nat : x <= y => x \div 100 <= y \div 100
  OBVIOUS
<1> QED
  BY <1>2, <1>3, <1>4 DEF ToAssets

\* The wrapper and the vault.
LEMMA Converted ==
  ASSUME NEW w \in [Tokens \cup {"xdai"} -> Nat], NEW a \in Nat, w["sdai"] < a
  PROVE  /\ Spend(w, "sdai", a) \in Nat
         /\ Affordable(w, "sdai", a) =>
                LET v == Wrapped(w, "sdai", a)
                IN  /\ v \in [Tokens \cup {"xdai"} -> Nat]
                    /\ v["sdai"] = w["sdai"] /\ v["wxdai"] >= Spend(v, "sdai", a)
         /\ w["wxdai"] >= Spend(w, "sdai", a) =>
                \A v \in Deposits(w, "sdai", a) :
                    /\ v \in [Tokens \cup {"xdai"} -> Nat]
                    /\ v["sdai"] = w["sdai"] + ToShares("sdai", Spend(w, "sdai", a))
<1>1. "sdai" \in Tokens /\ "wxdai" \in Tokens /\ "xdai" \notin Tokens
  BY Constants
<1>2. Kind("sdai") = "vault"
  BY DEF Kind
<1>3. \A v : Spend(v, "sdai", a) = ToAssets("sdai", a) - ToAssets("sdai", v["sdai"])
  BY <1>2 DEF Spend, VaultSpend
<1>4. Spend(w, "sdai", a) \in Nat
  <2>1. w["sdai"] \in Nat /\ w["sdai"] <= a
    BY <1>1
  <2>2. ToAssets("sdai", a) \in Nat /\ ToAssets("sdai", w["sdai"]) \in Nat
    BY <2>1, Conversions
  <2> QED
    BY <1>3, <2>1, <2>2, Monotone
<1> DEFINE n == Spend(w, "sdai", a)
           s == Short(w, n)
<1>5. ASSUME Affordable(w, "sdai", a)
      PROVE  LET v == Wrapped(w, "sdai", a)
             IN  /\ v \in [Tokens \cup {"xdai"} -> Nat]
                 /\ v["sdai"] = w["sdai"] /\ v["wxdai"] >= Spend(v, "sdai", a)
  <2> DEFINE v == Wrapped(w, "sdai", a)
  <2>1. n \in Nat /\ s \in Nat /\ w["xdai"] >= s /\ w["wxdai"] + s >= n
    BY <1>1, <1>2, <1>4, <1>5 DEF Affordable, CanWrap, Short, Greater
  <2>2. v = [w EXCEPT !["xdai"] = @ - s, !["wxdai"] = @ + s]
    BY <1>2 DEF Wrapped, Wrap
  <2> HIDE DEF n, s, v
  <2>3. v["sdai"] = w["sdai"] /\ v["wxdai"] = w["wxdai"] + s
    BY <1>1, <2>2
  <2>4. v \in [Tokens \cup {"xdai"} -> Nat]
    BY <1>1, <2>1, <2>2
  <2>5. v["wxdai"] >= Spend(v, "sdai", a)
    <3>1. Spend(v, "sdai", a) = n
      BY <1>3, <2>3 DEF n
    <3> QED
      BY <2>1, <2>3, <3>1
  <2> QED
    BY <2>3, <2>4, <2>5 DEF v
<1>6. ASSUME w["wxdai"] >= n, NEW v \in Deposits(w, "sdai", a)
      PROVE  /\ v \in [Tokens \cup {"xdai"} -> Nat]
             /\ v["sdai"] = w["sdai"] + ToShares("sdai", n)
  <2>1. v = Convert(w, "sdai", n, ToShares("sdai", n))
    BY <1>2, <1>6 DEF Deposits
  <2>2. n \in Nat /\ ToShares("sdai", n) \in Nat
    BY <1>4, Conversions
  <2> HIDE DEF n
  <2> QED
    BY <1>1, <1>6, <2>1, <2>2 DEF Convert
<1> QED
  BY <1>4, <1>5, <1>6
-----------------------------------------------------------------------------
\* What a call asks for.
LEMMA Requests ==
  ASSUME TypeOK, call.op \in {"buy", "create"}
  PROVE  /\ call.m \in Markets /\ call.amount \in Nat
         /\ Sets \in Nat /\ Sets >= call.amount
         /\ Requested \in Nat /\ Requested >= Sets
         /\ EnoughSdai <=> wallet["sdai"] >= IF Splits THEN Sets ELSE Requested
         /\ ~EnoughSdai => wallet["sdai"] < Requested
<1>1. call.m \in Markets /\ call.amount \in Nat
  BY DEF TypeOK, CallOK
<1>2. Sets \in Nat /\ Sets >= call.amount
  BY <1>1, Conversions DEF Sets
<1>3. Requested \in Nat /\ Requested >= Sets
  BY <1>2, Conversions DEF Requested
<1>4. wallet["sdai"] \in Nat
  BY Constants DEF TypeOK, AccountOK
<1> QED
  BY <1>1, <1>2, <1>3, <1>4 DEF EnoughSdai, Enough, Splits

\* Collateral of a market, and tokens of an outcome, that come and go.
LEMMA Moved ==
  ASSUME TypeOK, NEW m \in Markets, NEW i \in Outcomes(m), NEW n \in Int, NEW k \in Int,
         \/ k \in Nat /\ Collateral(m) + n >= 0
         \/ n \in Nat /\ held[m][i] + k >= 0
  PROVE  /\ Balanced(HeldAfter(m, n, i, k))
         /\ WalletAfter(m, n) \in [Tokens \cup {"xdai"} -> Nat]
<1>1. /\ DOMAIN held = Markets /\ \A x \in Markets : held[x] \in [Outcomes(x) -> Nat]
      /\ wallet \in [Tokens \cup {"xdai"} -> Nat] /\ wallet["sdai"] \in Nat
  BY Constants DEF TypeOK, AccountOK, Balanced
<1> DEFINE h == [held EXCEPT ![m][i] = @ + k]
<1>2. CASE ~Conditional(m)
  <2>1. held[m][i] + k \in Nat /\ wallet["sdai"] + n \in Nat
    BY <1>1, <1>2 DEF Collateral
  <2>2. Balanced(h)
    BY <1>1, <2>1 DEF Balanced
  <2> QED
    BY <1>1, <1>2, <2>1, <2>2 DEF HeldAfter, WalletAfter
<1>3. CASE Conditional(m)
  <2> DEFINE p == Parent[m][1]
             j == Parent[m][2]
             g == [h EXCEPT ![p][j] = @ + n]
  <2>1. p \in Markets /\ j \in Outcomes(p)
    BY <1>3, Constants
  <2> HIDE DEF p, j
  <2>2. held[m][i] \in Nat /\ held[p][j] \in Nat /\ Collateral(m) = held[p][j]
    BY <1>1, <1>3, <2>1 DEF Collateral, p, j
  <2>3. DOMAIN h = Markets /\ \A x \in Markets : h[x] \in [Outcomes(x) -> Int]
    BY <1>1, <2>2
  <2>4. ASSUME NEW x \in Markets, NEW y \in Outcomes(x)
        PROVE  h[x][y] = IF x = m /\ y = i THEN held[m][i] + k ELSE held[x][y]
    BY <1>1
  <2> HIDE DEF h
  <2>5. DOMAIN g = Markets /\ \A x \in Markets : g[x] \in [Outcomes(x) -> Int]
    BY <2>1, <2>3
  <2>6. ASSUME NEW x \in Markets, NEW y \in Outcomes(x)
        PROVE  g[x][y] = IF x = p /\ y = j THEN h[p][j] + n ELSE h[x][y]
    BY <2>1, <2>3
  <2> HIDE DEF g
  <2>7. ASSUME NEW x \in Markets, NEW y \in Outcomes(x) PROVE g[x][y] \in Nat
    <3>1. held[x][y] \in Nat
      BY <1>1
    <3> QED
      BY <2>1, <2>2, <2>4, <2>6, <3>1
  <2>8. Balanced(g)
    <3>1. ASSUME NEW x \in Markets PROVE g[x] \in [Outcomes(x) -> Nat]
      BY <2>5, <2>7
    <3> QED
      BY <2>5, <3>1 DEF Balanced
  <2>9. HeldAfter(m, n, i, k) = g
    BY <1>3 DEF HeldAfter, g, h, p, j
  <2> QED
    BY <1>1, <1>3, <2>8, <2>9 DEF WalletAfter
<1> QED
  BY <1>2, <1>3

\* A trade moves tokens that are there.
LEMMA SwapKeeps ==
  ASSUME TypeOK, call.op \in Swapping, Swap
  PROVE  Balanced(held') /\ wallet' \in [Tokens \cup {"xdai"} -> Nat] /\ traded' \subseteq Markets
<1> DEFINE m == call.m
           n == IF call.op = "buy" THEN -call.amount ELSE CollateralFor(call.amount)
           k == IF call.op = "buy" THEN TokensFor(call.amount) ELSE -call.amount
<1>1. /\ m \in Markets /\ call.i \in Outcomes(m) /\ call.amount \in Nat
      /\ traded \subseteq Markets
  BY DEF TypeOK, CallOK, AccountOK, Swapping
<1>2. TokensFor(call.amount) \in Nat /\ CollateralFor(call.amount) \in Nat
  BY <1>1, Conversions
<1>3. held[m][call.i] \in Nat /\ Collateral(m) \in Nat
  <2>1. \A x \in Markets : held[x] \in [Outcomes(x) -> Nat]
    BY DEF TypeOK, AccountOK, Balanced
  <2>2. wallet["sdai"] \in Nat
    BY Constants DEF TypeOK, AccountOK
  <2>3. Conditional(m) => held[Parent[m][1]][Parent[m][2]] \in Nat
    BY <1>1, <2>1, Constants
  <2> QED
    BY <1>1, <2>1, <2>2, <2>3 DEF Collateral
<1>4. /\ n \in Int /\ k \in Int
      /\ \/ k \in Nat /\ Collateral(m) + n >= 0
         \/ n \in Nat /\ held[m][call.i] + k >= 0
  BY <1>1, <1>2, <1>3 DEF Swap, CanSell
<1>5. wallet' = WalletAfter(m, n) /\ held' = HeldAfter(m, n, call.i, k)
  BY DEF Swap
<1> HIDE DEF n, k
<1>6. Balanced(held') /\ wallet' \in [Tokens \cup {"xdai"} -> Nat]
  BY <1>1, <1>4, <1>5, Moved
<1>7. traded' \subseteq Markets
  BY <1>1, Constants DEF Swap
<1> QED
  BY <1>6, <1>7
-----------------------------------------------------------------------------
\* What happens to the world.
LEMMA WorldKept ==
  ASSUME TypeOK, Next
  PROVE  WorldOK' /\ \A m \in Markets : payout[m] # <<>> => payout'[m] = payout[m]
<1>1. WorldOK /\ (call.op = "create" => call.m \in Markets)
  BY DEF TypeOK, CallOK
<1>2. Fault => faults' \in Nat
  BY <1>1 DEF Fault, WorldOK
<1>3. ASSUME UNCHANGED <<now, exists, pools, payout>>, calls' \in {calls, calls + 1},
             moves' \in {moves, moves + 1}, faults' = faults \/ Fault
      PROVE  WorldOK' /\ payout' = payout
  BY <1>1, <1>2, <1>3 DEF WorldOK
<1>4. CASE Step /\ ~Create
  <2>1. UNCHANGED chain /\ (faults' = faults \/ Fault)
    BY <1>4 DEF Step, Check, NoDeposit, WrapShort, OutOfMoney, DepositInVault, SplitParent,
                OrderFilled, OrderExpires, OrderRefused, Fallback, SwapInPool, PoolReverts,
                NextMarket, Approve, RedeemToBase, RedeemReverts, Mined, Reverts
  <2> QED
    BY <1>3, <2>1 DEF chain, bounds
<1>5. CASE Create
  <2>1. /\ exists' = exists \cup {call.m} /\ call.m \in Markets
        /\ UNCHANGED <<now, pools, payout, bounds>> /\ (faults' = faults \/ Fault)
    BY <1>1, <1>5 DEF Create, CreateCategoricalMarket, At, Mined
  <2> QED
    BY <1>1, <1>2, <2>1 DEF WorldOK, bounds
<1>6. CASE Fails \/ Restart \/ StartRedeem
  BY <1>3, <1>6 DEF Fails, Restart, StartRedeem, chain, bounds
<1>7. CASE Tick
  BY <1>1, <1>7 DEF Tick, WorldOK, bounds
<1>8. ASSUME NEW m \in Markets, StartCreate(m) \/ \E i \in Outcomes(m) : ListAndBet(m, i)
                                                      \/ StartSell(m, i) \/ OtherSells(m, i)
      PROVE  WorldOK' /\ payout' = payout
  BY <1>3, <1>8 DEF StartCreate, ListAndBet, StartSell, OtherSells, Begin, Move
<1>9. ASSUME NEW m \in Markets, LiquidityMoves(m) PROVE WorldOK' /\ payout' = payout
  BY <1>1, <1>9 DEF LiquidityMoves, Move, WorldOK
<1>10. ASSUME NEW m \in Markets, NEW n \in Payouts[m], Report(m, n)
       PROVE  WorldOK' /\ \A x \in Markets : payout[x] # <<>> => payout'[x] = payout[x]
  BY <1>1, <1>10 DEF Report, WorldOK, bounds
<1> QED
  BY <1>4, <1>5, <1>6, <1>7, <1>8, <1>9, <1>10 DEF Next

\* What was paid out for a market's tokens.
LEMMA Paid ==
  ASSUME TypeOK, call.op = "redeem", call.at = "redeem"
  PROVE  /\ call.m \in Markets /\ payout[call.m] \in [Outcomes(call.m) -> Nat]
         /\ call.read[call.m] \in [Outcomes(call.m) -> Nat]
         /\ Amounts(call.m) \in [Outcomes(call.m) -> Nat]
         /\ BasePaid(call.m) \in Nat
<1> DEFINE m == call.m
           N == payout[m]
           A == Amounts(m)
<1>1. m \in Markets /\ payout[m] # <<>> /\ call.read[m] \in [Outcomes(m) -> Nat]
  BY DEF TypeOK, CallOK
<1>2. N \in Payouts[m]
  BY <1>1 DEF TypeOK, WorldOK
<1>3. N \in [Outcomes(m) -> Nat] /\ \E i \in Outcomes(m) : N[i] > 0
  BY <1>1, <1>2, Constants
<1> HIDE DEF m, N
<1>4. A \in [Outcomes(m) -> Nat]
  BY <1>1, <1>3 DEF Amounts, N
<1> HIDE DEF A
<1>5. PICK n \in Nat : Outcomes(m) = 1..n
  BY <1>1, Constants
<1>6. SumOf(N) \in Nat \ {0}
  <2>1. SumOf(N) \in Nat /\ \A i \in Outcomes(m) : N[i] <= SumOf(N)
    BY <1>3, <1>5, SumIsNat
  <2> QED
    BY <1>3, <2>1
<1> DEFINE S == [i \in Outcomes(m) |-> (A[i] * N[i]) \div SumOf(N)]
<1>7. ASSUME NEW i \in Outcomes(m) PROVE (A[i] * N[i]) \div SumOf(N) \in Nat
  <2>1. A[i] * N[i] \in Nat
    BY <1>3, <1>4
  <2>2. \A x \in Nat : \A d \in Nat \ {0} : x \div d \in Nat
    OBVIOUS
  <2> QED
    BY <1>6, <2>1, <2>2
<1>8. S \in [Outcomes(m) -> Nat]
  BY <1>7
<1> HIDE DEF S
<1>9. SumOf(S) \in Nat
  BY <1>5, <1>8, SumIsNat
<1>10. BasePaid(m) = ToAssets("sdai", SumOf(S))
  BY DEF BasePaid, S, A, N
<1> QED
  BY <1>1, <1>3, <1>4, <1>9, <1>10, Conversions DEF m, N, A
\* What a redemption leaves of the account.
LEMMA RedeemKeeps ==
  ASSUME TypeOK, RedeemToBase
  PROVE  AccountOK'
<1> DEFINE m == call.m
           A == Amounts(m)
           less(b) == [i \in Outcomes(m) |-> b[i] - A[i]]
<1>1. /\ m \in Markets /\ A \in [Outcomes(m) -> Nat] /\ BasePaid(m) \in Nat
      /\ call.read[m] \in [Outcomes(m) -> Nat]
  BY Paid DEF RedeemToBase, At
<1>2. /\ DOMAIN held = Markets /\ \A x \in Markets : held[x] \in [Outcomes(x) -> Nat]
      /\ DOMAIN allowance = Markets /\ \A x \in Markets : allowance[x] \in [Outcomes(x) -> Nat]
      /\ wallet \in [Tokens \cup {"xdai"} -> Nat]
  BY DEF TypeOK, AccountOK, Balanced
<1>3. ASSUME NEW i \in Outcomes(m) PROVE held[m][i] - A[i] \in Nat /\ allowance[m][i] - A[i] \in Nat
  <2>1. A[i] <= held[m][i]
    BY <1>3 DEF RedeemToBase, RedeemAccepted
  <2>2. ~(allowance[m][i] < call.read[m][i])
    BY <1>3 DEF RedeemToBase, ToApprove
  <2>3. A[i] = call.read[m][i] \/ A[i] = 0
    BY <1>3 DEF Amounts
  <2>4. A[i] \in Nat /\ held[m][i] \in Nat /\ allowance[m][i] \in Nat /\ call.read[m][i] \in Nat
    BY <1>1, <1>2
  <2> QED
    BY <2>1, <2>2, <2>3, <2>4
<1>4. /\ held' = [held EXCEPT ![m] = less(@)] /\ allowance' = [allowance EXCEPT ![m] = less(@)]
      /\ wallet' = [wallet EXCEPT !["xdai"] = @ + BasePaid(m)]
      /\ UNCHANGED records
  BY DEF RedeemToBase
<1> HIDE DEF m, A
<1>5. Balanced(held') /\ Balanced(allowance')
  BY <1>1, <1>2, <1>3, <1>4 DEF Balanced
<1>6. wallet' \in [Tokens \cup {"xdai"} -> Nat]
  <2>1. "xdai" \in Tokens \cup {"xdai"}
    OBVIOUS
  <2> HIDE DEF less
  <2>2. wallet["xdai"] + BasePaid(m) \in Nat
    BY <1>1, <1>2, <2>1
  <2> QED
    BY <1>2, <1>4, <2>2
<1> QED
  BY <1>4, <1>5, <1>6 DEF TypeOK, AccountOK, records

\* What happens to the account.
LEMMA AccountKept ==
  ASSUME TypeOK, Next
  PROVE  AccountOK'
<1>1. AccountOK
  BY DEF TypeOK
<1>2. ASSUME UNCHANGED <<account, records>> PROVE AccountOK'
  BY <1>1, <1>2 DEF AccountOK, Balanced, account, records
<1>3. ASSUME UNCHANGED <<held, allowance, records>>, wallet' \in [Tokens \cup {"xdai"} -> Nat]
      PROVE  AccountOK'
  BY <1>1, <1>3 DEF AccountOK, Balanced, records
<1>4. CASE WrapShort
  <2>1. call.op \in {"buy", "create"} /\ ~EnoughSdai /\ Affordable(wallet, "sdai", Requested)
    BY <1>4 DEF WrapShort, At
  <2>2. wallet["sdai"] < Requested /\ Requested \in Nat
    BY <2>1, Requests
  <2>3. Wrapped(wallet, "sdai", Requested) \in [Tokens \cup {"xdai"} -> Nat]
    BY <1>1, <2>1, <2>2, Converted DEF AccountOK
  <2> QED
    BY <1>3, <1>4, <2>3 DEF WrapShort
<1>5. CASE DepositInVault
  <2>1. call.op \in {"buy", "create"} /\ call.at = "vault"
    BY <1>5 DEF DepositInVault, At
  <2>2. ~EnoughSdai /\ wallet["wxdai"] >= Spend(wallet, "sdai", Requested)
    BY <2>1 DEF TypeOK, CallOK
  <2>3. wallet["sdai"] < Requested /\ Requested \in Nat
    BY <2>1, <2>2, Requests
  <2>4. wallet' \in [Tokens \cup {"xdai"} -> Nat]
    BY <1>1, <1>5, <2>2, <2>3, Converted DEF AccountOK, DepositInVault
  <2> QED
    BY <1>3, <1>5, <2>4 DEF DepositInVault
<1>6. CASE SplitParent
  <2> DEFINE p == MarketOfToken(Parent[call.m])
  <2>1. p \in Markets /\ Sets \in Nat
    <3>1. call.op = "buy" /\ Conditional(call.m)
      BY <1>6 DEF SplitParent, At, TypeOK, CallOK
    <3> QED
      BY <3>1, Requests, Constants
  <2>2. SplitPosition(p, Sets) /\ UNCHANGED <<allowance, orders>>
    BY <1>6 DEF SplitParent
  <2> HIDE DEF p
  <2>3. wallet' \in [Tokens \cup {"xdai"} -> Nat]
    BY <1>1, <2>1, <2>2, Constants DEF SplitPosition, AccountOK
  <2>4. Balanced(held')
    <3>1. held' = [held EXCEPT ![p] = [i \in Outcomes(p) |-> @[i] + Sets]]
      BY <2>2 DEF SplitPosition
    <3> QED
      BY <1>1, <2>1, <3>1 DEF AccountOK, Balanced
  <2>5. traded' \subseteq Markets
    BY <1>1, <2>1, <2>2 DEF SplitPosition, AccountOK
  <2> QED
    BY <1>1, <2>2, <2>3, <2>4, <2>5 DEF AccountOK, Balanced
<1>7. Order /\ call.op \in Swapping => orders' \subseteq [market : Markets, at : Nat]
  <2>1. call.op \in Swapping => call.m \in Markets
    BY DEF TypeOK, CallOK, Swapping
  <2>2. now \in Nat
    BY DEF TypeOK, WorldOK
  <2> QED
    BY <1>1, <2>1, <2>2 DEF Order, AccountOK
<1>8. CASE OrderFilled
  <2>1. call.op \in Swapping /\ Order /\ Swap /\ UNCHANGED allowance
    BY <1>8 DEF OrderFilled, At
  <2> QED
    BY <1>1, <1>7, <2>1, SwapKeeps DEF AccountOK, Balanced
<1>9. CASE OrderExpires
  <2>1. call.op \in Swapping /\ Order /\ UNCHANGED <<account, traded>>
    BY <1>9 DEF OrderExpires, At
  <2> QED
    BY <1>1, <1>7, <2>1 DEF AccountOK, Balanced, account
<1>10. CASE SwapInPool
  <2>1. call.op \in Swapping /\ Swap /\ UNCHANGED <<allowance, orders>>
    BY <1>10 DEF SwapInPool, At
  <2> QED
    BY <1>1, <2>1, SwapKeeps DEF AccountOK, Balanced
<1>11. CASE Approve
  <2> DEFINE m == call.m
  <2>1. PICK i \in ToApprove(m) : allowance' = [allowance EXCEPT ![m][i] = call.read[m][i]]
    BY <1>11 DEF Approve
  <2>2. m \in Markets /\ call.read[m] \in [Outcomes(m) -> Nat]
    BY <1>11, Paid DEF Approve, At
  <2>3. i \in Outcomes(m) /\ call.read[m][i] \in Nat
    BY <2>2 DEF ToApprove
  <2> HIDE DEF m
  <2>4. Balanced(allowance')
    BY <1>1, <2>1, <2>2, <2>3 DEF AccountOK, Balanced
  <2> QED
    BY <1>1, <1>11, <2>4 DEF Approve, AccountOK, Balanced, records
<1>12. CASE Step /\ ~WrapShort /\ ~DepositInVault /\ ~SplitParent /\ ~OrderFilled /\ ~OrderExpires
                 /\ ~SwapInPool /\ ~Approve /\ ~RedeemToBase
  <2>1. UNCHANGED <<account, records>>
    BY <1>12 DEF Step, Check, NoDeposit, OutOfMoney, OrderRefused, Fallback, PoolReverts,
                 Create, NextMarket, RedeemReverts
  <2> QED
    BY <1>2, <2>1
<1>13. CASE Fails \/ Restart \/ StartRedeem
  BY <1>2, <1>13 DEF Fails, Restart, StartRedeem
<1>14. CASE Tick
  BY <1>1, <1>14 DEF Tick, AccountOK, Balanced, account
<1>15. ASSUME NEW m \in Markets,
              \/ StartCreate(m) \/ LiquidityMoves(m)
              \/ \E n \in Payouts[m] : Report(m, n)
              \/ \E i \in Outcomes(m) : ListAndBet(m, i) \/ StartSell(m, i)
       PROVE  AccountOK'
  BY <1>2, <1>15 DEF StartCreate, LiquidityMoves, Report, ListAndBet, StartSell
<1>16. ASSUME NEW m \in Markets, NEW i \in Outcomes(m), OtherSells(m, i) PROVE AccountOK'
  <2> DEFINE n == CollateralFor(held[m][i])
  <2>1. held[m][i] \in Nat
    BY <1>1 DEF AccountOK, Balanced
  <2>2. n \in Nat /\ held[m][i] + -held[m][i] >= 0 /\ -held[m][i] \in Int /\ n \in Int
    <3>1. n \in Nat
      BY <2>1, Conversions, Zenon
    <3> HIDE DEF n
    <3>2. \A x \in Nat : x + -x >= 0 /\ -x \in Int /\ x \in Int
      OBVIOUS
    <3> QED
      BY <2>1, <3>1, <3>2, Zenon
  <2>3. /\ wallet' = WalletAfter(m, n) /\ held' = HeldAfter(m, n, i, -held[m][i])
        /\ UNCHANGED <<allowance, records>>
    BY <1>16 DEF OtherSells
  <2> HIDE DEF n
  <2>4. Balanced(held') /\ wallet' \in [Tokens \cup {"xdai"} -> Nat]
    BY <2>2, <2>3, Moved
  <2> QED
    BY <1>1, <2>3, <2>4 DEF AccountOK, Balanced, records
<1> QED
  BY <1>4, <1>5, <1>6, <1>8, <1>9, <1>10, <1>11, <1>12, <1>13, <1>14, <1>15, <1>16, RedeemKeeps
     DEF Next
-----------------------------------------------------------------------------
\* What an answer leaves in the cache.
LEMMA Renewed ==
  ASSUME TypeOK, Lately, NEW m \in Markets
  PROVE  /\ Remembered(m) \subseteq Entries
         /\ \A e \in Remembered(m) : e.value => e.until <= deepAt[m] + Ttl
<1>1. /\ cache[m] \subseteq Entries /\ now \in Nat /\ deepAt[m] \in Nat /\ Ttl \in Nat
  BY Constants DEF TypeOK, MemoryOK, WorldOK
<1>2. CASE Fresh(m, now) = {}
  <2>1. [value |-> Liquid(m), until |-> now + Ttl] \in Entries
    <3>1. Liquid(m) \in BOOLEAN
      BY DEF Liquid
    <3>2. now + Ttl \in Nat
      BY <1>1
    <3> QED
      BY <3>1, <3>2, Zenon DEF Entries
  <2>2. Remembered(m) = {[value |-> Liquid(m), until |-> now + Ttl]}
    BY <1>2 DEF Remembered
  <2>3. Liquid(m) => now + Ttl <= deepAt[m] + Ttl
    BY <1>1 DEF Lately
  <2> QED
    BY <2>1, <2>2, <2>3
<1>3. CASE Fresh(m, now) # {}
  BY <1>1, <1>3 DEF Remembered, Lately
<1> QED
  BY <1>2, <1>3

\* What happens to the cache, and to the history of the pools.
LEMMA MemoryKept ==
  ASSUME IInv, Next
  PROVE  MemoryOK' /\ Lately'
<1>1. /\ TypeOK /\ Lately
      /\ DOMAIN cache = Markets /\ \A m \in Markets : cache[m] \subseteq Entries
      /\ cache = [m \in Markets |-> cache[m]]
      /\ deepAt \in [Markets -> Nat] /\ now \in Nat /\ Ttl \in Nat
  BY Constants DEF IInv, TypeOK, MemoryOK, WorldOK
<1>2. ASSUME UNCHANGED <<now, pools, deepAt>>, DOMAIN cache' = Markets,
             cache' = [m \in Markets |-> cache'[m]],
             \A m \in Markets : cache'[m] \in {cache[m], Remembered(m), {}}
      PROVE  MemoryOK' /\ Lately'
  <2>1. ASSUME NEW m \in Markets
        PROVE  /\ cache'[m] \subseteq Entries
               /\ \A e \in cache'[m] : e.value => e.until <= deepAt[m] + Ttl
    <3>1. CASE cache'[m] = cache[m]
      BY <1>1, <3>1 DEF Lately
    <3>2. CASE cache'[m] = Remembered(m)
      BY <1>1, <3>2, Renewed
    <3>3. CASE cache'[m] = {}
      BY <3>3
    <3> QED
      BY <1>2, <3>1, <3>2, <3>3
  <2>2. MemoryOK'
    <3>1. \A m \in Markets : cache'[m] \in SUBSET Entries
      BY <2>1
    <3>2. cache' \in [Markets -> SUBSET Entries]
      BY <1>2, <3>1
    <3> QED
      BY <1>1, <1>2, <3>2 DEF MemoryOK
  <2>3. ASSUME NEW m \in Markets
        PROVE  deepAt[m] <= now /\ (Liquid(m)' => deepAt[m] = now)
    <3>1. deepAt[m] <= now /\ (Liquid(m) => deepAt[m] = now)
      BY <1>1 DEF Lately
    <3>2. Liquid(m)' <=> Liquid(m)
      BY <1>2 DEF Liquid, PoolByToken
    <3> QED
      BY <3>1, <3>2
  <2>4. Lately'
    BY <1>2, <2>1, <2>3 DEF Lately
  <2> QED
    BY <2>2, <2>4
<1>3. ASSUME UNCHANGED <<now, pools, memory>> PROVE MemoryOK' /\ Lately'
  <2>1. UNCHANGED <<cache, deepAt>>
    BY <1>3 DEF memory
  <2> QED
    BY <1>1, <1>2, <1>3, <2>1
<1>4. CASE Step /\ ~Check /\ ~Fallback
  <2>1. UNCHANGED <<now, pools, memory>>
    BY <1>4 DEF Step, NoDeposit, WrapShort, OutOfMoney, DepositInVault, SplitParent, chain,
                OrderFilled, OrderExpires, OrderRefused, SwapInPool, PoolReverts, Create,
                NextMarket, Approve, RedeemToBase, RedeemReverts
  <2> QED
    BY <1>3, <2>1
<1>5. CASE Check \/ Fallback
  <2>1. call.m \in Markets
    BY <1>1, <1>5 DEF Check, Fallback, At, Swapping, TypeOK, CallOK
  <2>2. /\ cache' \in {[cache EXCEPT ![call.m] = cache[call.m]],
                       [cache EXCEPT ![call.m] = Remembered(call.m)]}
        /\ UNCHANGED <<now, pools, deepAt>>
    BY <1>5 DEF Check, Fallback, chain
  <2>3. \A m \in Markets : cache'[m] \in {cache[m], Remembered(m), {}}
    BY <1>1, <2>1, <2>2
  <2>4. DOMAIN cache' = Markets /\ cache' = [m \in Markets |-> cache'[m]]
    BY <1>1, <2>1, <2>2
  <2> QED
    BY <1>2, <2>2, <2>3, <2>4
<1>6. CASE Fails \/ StartRedeem
  BY <1>3, <1>6 DEF Fails, StartRedeem, chain
<1>7. CASE Restart
  BY <1>2, <1>7 DEF Restart
<1>8. CASE Tick
  <2>1. /\ now' = now + 1 /\ UNCHANGED pools
        /\ deepAt' = [m \in Markets |-> IF Liquid(m) THEN now' ELSE deepAt[m]]
        /\ cache' = [m \in Markets |-> Fresh(m, now')]
    BY <1>8 DEF Tick
  <2>2. \A m \in Markets : Fresh(m, now') \subseteq cache[m]
    BY DEF Fresh
  <2>3. MemoryOK'
    BY <1>1, <2>1, <2>2 DEF MemoryOK
  <2>4. ASSUME NEW m \in Markets
        PROVE  /\ deepAt'[m] <= now' /\ (Liquid(m)' => deepAt'[m] = now')
               /\ \A e \in cache'[m] : e.value => e.until <= deepAt'[m] + Ttl
    <3>1. deepAt[m] \in Nat /\ deepAt[m] <= now
      BY <1>1 DEF Lately
    <3>2. Liquid(m)' <=> Liquid(m)
      BY <2>1 DEF Liquid, PoolByToken
    <3>3. deepAt'[m] = IF Liquid(m) THEN now' ELSE deepAt[m]
      BY <2>1
    <3>4. deepAt[m] <= deepAt'[m] /\ deepAt'[m] <= now' /\ deepAt'[m] \in Nat
      BY <1>1, <2>1, <3>1, <3>3
    <3>5. ASSUME NEW e \in cache'[m], e.value PROVE e.until <= deepAt'[m] + Ttl
      <4>1. e \in cache[m]
        BY <2>1, <2>2, <3>5
      <4>2. e.until \in Nat /\ e.until <= deepAt[m] + Ttl
        BY <1>1, <3>5, <4>1 DEF Lately, Entries
      <4> QED
        BY <1>1, <3>1, <3>4, <4>2
    <3> QED
      BY <3>2, <3>3, <3>4, <3>5
  <2> QED
    BY <2>3, <2>4 DEF Lately
<1>9. ASSUME NEW n \in Markets, LiquidityMoves(n) PROVE MemoryOK' /\ Lately'
  <2>1. UNCHANGED <<now, cache>> /\ deepAt' = [deepAt EXCEPT ![n] = now]
    BY <1>9 DEF LiquidityMoves
  <2>2. MemoryOK'
    BY <1>1, <2>1 DEF MemoryOK
  <2>3. ASSUME NEW m \in Markets
        PROVE  /\ deepAt'[m] <= now /\ (Liquid(m)' => deepAt'[m] = now)
               /\ \A e \in cache[m] : e.value => e.until <= deepAt'[m] + Ttl
    <3>1. deepAt[m] \in Nat /\ deepAt[m] <= now
      BY <1>1 DEF Lately
    <3>2. deepAt'[m] = IF m = n THEN now ELSE deepAt[m]
      BY <1>1, <2>1
    <3>3. Liquid(m)' => deepAt'[m] = now
      <4>1. CASE m = n
        BY <3>2, <4>1
      <4>2. CASE m # n
        <5>1. pools'[m] = pools[m]
          BY <1>1, <1>9, <4>2 DEF LiquidityMoves, TypeOK, WorldOK
        <5>2. Liquid(m)' <=> Liquid(m)
          BY <5>1 DEF Liquid, PoolByToken
        <5> QED
          BY <1>1, <3>2, <4>2, <5>2 DEF Lately
      <4> QED
        BY <4>1, <4>2
    <3>4. ASSUME NEW e \in cache[m], e.value PROVE e.until <= deepAt'[m] + Ttl
      <4>1. e.until \in Nat /\ e.until <= deepAt[m] + Ttl
        BY <1>1, <3>4 DEF Lately, Entries
      <4> QED
        BY <1>1, <3>1, <3>2, <4>1
    <3> QED
      BY <1>1, <3>1, <3>2, <3>3, <3>4
  <2> QED
    BY <2>1, <2>2, <2>3 DEF Lately
<1>10. ASSUME NEW m \in Markets, StartCreate(m) \/ (\E n \in Payouts[m] : Report(m, n))
                                   \/ \E i \in Outcomes(m) : OtherSells(m, i)
       PROVE  MemoryOK' /\ Lately'
  BY <1>3, <1>10 DEF StartCreate, Report, OtherSells
<1>11. ASSUME NEW m \in Markets, NEW i \in Outcomes(m), ListAndBet(m, i)
       PROVE  MemoryOK' /\ Lately'
  <2>1. /\ UNCHANGED <<now, pools, deepAt>>
        /\ cache' = [n \in Markets |->
                        IF n \in Offered /\ Asked(n) THEN Remembered(n) ELSE cache[n]]
    BY <1>11 DEF ListAndBet
  <2> QED
    BY <1>2, <2>1
<1>12. ASSUME NEW m \in Markets, NEW i \in Outcomes(m), StartSell(m, i)
       PROVE  MemoryOK' /\ Lately'
  <2>1. UNCHANGED <<now, pools, deepAt>> /\ cache' = [cache EXCEPT ![m] = Remembered(m)]
    BY <1>12 DEF StartSell
  <2>2. \A x \in Markets : cache'[x] \in {cache[x], Remembered(x), {}}
    BY <1>1, <2>1
  <2>3. DOMAIN cache' = Markets /\ cache' = [x \in Markets |-> cache'[x]]
    BY <1>1, <2>1
  <2> QED
    BY <1>2, <2>1, <2>2, <2>3
<1> QED
  BY <1>4, <1>5, <1>6, <1>7, <1>8, <1>9, <1>10, <1>11, <1>12 DEF Next
-----------------------------------------------------------------------------
\* A call that goes on is still the same call.
LEMMA Goes ==
  ASSUME CallOK, NEW place, call' = Go(place)
  PROVE  /\ DOMAIN call' = {"op", "m", "i", "amount", "at", "todo", "read"}
         /\ call'.op = call.op /\ call'.m = call.m /\ call'.i = call.i
         /\ call'.amount = call.amount /\ call'.todo = call.todo /\ call'.read = call.read
         /\ call'.at = place
  BY DEF CallOK, Go

LEMMA SameRequest ==
  ASSUME call'.op = call.op, call'.m = call.m, call'.amount = call.amount
  PROVE  /\ Sets' = Sets /\ Requested' = Requested /\ (Splits' <=> Splits)
         /\ wallet'["sdai"] = wallet["sdai"] => (EnoughSdai' <=> EnoughSdai)
<1>1. Splits' <=> Splits
  BY DEF Splits
<1>2. Sets' = Sets
  BY DEF Sets
<1>3. Requested' = Requested
  BY <1>1, <1>2 DEF Requested
<1> QED
  BY <1>1, <1>2, <1>3 DEF EnoughSdai, Enough

\* A call begins with no transaction behind it.
LEMMA Begins ==
  ASSUME NEW op \in {"buy", "sell", "create"}, NEW m \in Markets, NEW i, NEW amount \in Nat,
         NEW place \in {"check", "deposit", "order"}, op = "create" \/ i \in Outcomes(m),
         Begin(op, m, i, amount, place)
  PROVE  /\ CallOK' /\ call'.op = op /\ call'.m = m /\ call'.amount = amount
         /\ call'.at = place
<1>1. call' = [op |-> op, m |-> m, i |-> i, amount |-> amount, at |-> place, todo |-> {},
               read |-> <<>>]
  BY DEF Begin, Idle
<1> QED
  BY <1>1 DEF CallOK

\* What a call deals with is what it began with, or has read.
LEMMA CallKept ==
  ASSUME TypeOK, Next
  PROVE  CallOK'
<1>1. /\ CallOK /\ WorldOK /\ AccountOK
      /\ \A m \in Markets : payout[m] # <<>> => payout'[m] = payout[m]
  BY WorldKept DEF TypeOK
<1>2. ASSUME call' = Idle PROVE CallOK'
  BY <1>2 DEF CallOK, Idle
<1>3. ASSUME NEW place, place \notin {"split", "vault", "redeem"}, call' = Go(place)
      PROVE  CallOK'
  <2>1. /\ DOMAIN call' = {"op", "m", "i", "amount", "at", "todo", "read"}
        /\ call'.op = call.op /\ call'.m = call.m /\ call'.i = call.i
        /\ call'.amount = call.amount /\ call'.todo = call.todo /\ call'.read = call.read
        /\ call'.at = place
    BY <1>1, <1>3, Goes
  <2>2. call.op = "redeem" => \A m \in call.todo : /\ m \in Markets /\ payout'[m] # <<>>
                                                   /\ call.read[m] \in [Outcomes(m) -> Nat]
    BY <1>1 DEF CallOK
  <2> QED
    BY <1>1, <1>3, <2>1, <2>2 DEF CallOK
<1>4. ASSUME call' = Raised PROVE CallOK'
  BY <1>2, <1>3, <1>4 DEF Raised
<1>5. ASSUME call' = call, wallet' = wallet \/ call.at # "vault" PROVE CallOK'
  <2>1. call.at = "vault" => /\ EnoughSdai' <=> EnoughSdai
                             /\ Requested' = Requested
    BY <1>5, SameRequest
  <2>2. call.at = "vault" => /\ call.op \in {"buy", "create"} /\ ~EnoughSdai'
                             /\ wallet'["wxdai"] >= Spend(wallet', "sdai", Requested')
    BY <1>1, <1>5, <2>1 DEF CallOK
  <2>3. call.op = "redeem" =>
          \A m \in call.todo \cup (IF call.at = "redeem" THEN {call.m} ELSE {}) :
              /\ m \in Markets /\ payout'[m] # <<>> /\ call.read[m] \in [Outcomes(m) -> Nat]
    BY <1>1 DEF CallOK
  <2> QED
    BY <1>1, <1>5, <2>2, <2>3 DEF CallOK
<1>6. ASSUME call' = Go(Deposited), call.op \in {"buy", "create"} PROVE CallOK'
  <2>1. CASE Splits
    <3>1. Deposited = "split" /\ call.op = "buy" /\ Conditional(call.m)
      BY <2>1 DEF Deposited, Splits
    <3>2. /\ DOMAIN call' = {"op", "m", "i", "amount", "at", "todo", "read"}
          /\ call'.op = call.op /\ call'.m = call.m /\ call'.i = call.i
          /\ call'.amount = call.amount /\ call'.at = "split"
      BY <1>1, <1>6, <3>1, Goes
    <3> QED
      BY <1>1, <3>1, <3>2 DEF CallOK
  <2>2. CASE ~Splits
    BY <1>3, <1>6, <2>2 DEF Deposited
  <2> QED
    BY <2>1, <2>2
<1>7. CASE WrapShort
  <2>1. /\ call.op \in {"buy", "create"} /\ ~EnoughSdai /\ Affordable(wallet, "sdai", Requested)
        /\ wallet' = Wrapped(wallet, "sdai", Requested)
        /\ call' = Go("vault") \/ call' = Raised
    BY <1>7 DEF WrapShort, At, Mined
  <2>2. CASE call' = Go("vault")
    <3>1. wallet["sdai"] < Requested /\ Requested \in Nat
      BY <2>1, Requests
    <3>2. wallet'["sdai"] = wallet["sdai"] /\ wallet'["wxdai"] >= Spend(wallet', "sdai", Requested)
      BY <1>1, <2>1, <3>1, Converted DEF AccountOK
    <3>3. /\ DOMAIN call' = {"op", "m", "i", "amount", "at", "todo", "read"}
          /\ call'.op = call.op /\ call'.m = call.m /\ call'.i = call.i
          /\ call'.amount = call.amount /\ call'.at = "vault"
      BY <1>1, <2>2, Goes
    <3>4. Requested' = Requested /\ ~EnoughSdai'
      BY <2>1, <3>2, <3>3, SameRequest
    <3> QED
      BY <1>1, <2>1, <3>2, <3>3, <3>4 DEF CallOK
  <2> QED
    BY <1>4, <2>1, <2>2
<1>8. CASE NoDeposit \/ DepositInVault
  <2>1. call.op \in {"buy", "create"} /\ (call' = Go(Deposited) \/ call' = Raised)
    BY <1>8 DEF NoDeposit, DepositInVault, At, Mined
  <2> QED
    BY <1>4, <1>6, <2>1
<1>9. CASE NextMarket
  <2>1. call.op = "redeem"
    BY <1>9 DEF NextMarket, At
  <2>2. ASSUME NEW m \in call.todo, call' = [call EXCEPT !.m = m, !.todo = @ \ {m}, !.at = "redeem"]
        PROVE  CallOK'
    <3>1. /\ DOMAIN call' = {"op", "m", "i", "amount", "at", "todo", "read"}
          /\ call'.op = "redeem" /\ call'.m = m /\ call'.at = "redeem"
          /\ call'.todo = call.todo \ {m} /\ call'.read = call.read
      BY <1>1, <2>1, <2>2 DEF CallOK
    <3>2. \A x \in call.todo : /\ x \in Markets /\ payout'[x] # <<>>
                               /\ call.read[x] \in [Outcomes(x) -> Nat]
      BY <1>1, <2>1 DEF CallOK
    <3> QED
      BY <3>1, <3>2 DEF CallOK
  <2> QED
    BY <1>2, <1>9, <2>2 DEF NextMarket
<1>10. CASE Approve
  <2>1. call.at = "redeem" /\ (call' = call \/ call' = Raised)
    BY <1>10 DEF Approve, At, Mined
  <2> QED
    BY <1>4, <1>5, <2>1
<1>11. CASE Step /\ ~WrapShort /\ ~NoDeposit /\ ~DepositInVault /\ ~NextMarket /\ ~Approve
  <2>1. call' \in {Idle, Raised, Go("deposit"), Go("order"), Go("fallback"), Go("pool"),
                   Go("next")}
    BY <1>11 DEF Step, Check, OutOfMoney, SplitParent, OrderFilled, OrderExpires, OrderRefused,
                 Fallback, SwapInPool, PoolReverts, Create, RedeemToBase, RedeemReverts,
                 Mined, Reverts
  <2> QED
    BY <1>2, <1>3, <1>4, <2>1
<1>12. CASE Fails \/ Restart
  BY <1>2, <1>4, <1>12 DEF Fails, Restart
<1>13. CASE StartRedeem
  <2>1. /\ DOMAIN call' = {"op", "m", "i", "amount", "at", "todo", "read"}
        /\ call'.op = "redeem" /\ call'.at = "next"
        /\ call'.todo = ToRedeem /\ call'.read = [m \in ToRedeem |-> held[m]]
    BY <1>13 DEF StartRedeem, Idle
  <2>2. ASSUME NEW m \in ToRedeem
        PROVE  m \in Markets /\ payout'[m] # <<>> /\ held[m] \in [Outcomes(m) -> Nat]
    <3>1. m \in Markets /\ payout[m] # <<>>
      BY <1>1, <2>2 DEF ToRedeem, TradedOn, NotConditional, ResolvedMarkets, WorldOK
    <3> QED
      BY <1>1, <3>1 DEF AccountOK, Balanced
  <2> QED
    BY <2>1, <2>2 DEF CallOK
<1>14. CASE Tick
  BY <1>5, <1>14 DEF Tick, account
<1>15. ASSUME NEW m \in Markets, LiquidityMoves(m) \/ \E n \in Payouts[m] : Report(m, n)
       PROVE  CallOK'
  BY <1>5, <1>15 DEF LiquidityMoves, Report, account
<1>16. Stake \in Nat /\ InToken("sdai", Stake) \in Nat /\ \A m \in Markets : UsdInToken(m, Stake) \in Nat
  <2>1. Stake \in Nat
    BY Constants
  <2>2. InToken("sdai", Stake) \in Nat
    BY <2>1, Conversions
  <2>3. TokensFor(InToken("sdai", Stake)) \in Nat
    BY <2>2, Conversions
  <2> QED
    BY <2>1, <2>2, <2>3 DEF UsdInToken
<1>17. ASSUME NEW m \in Markets, StartCreate(m) PROVE CallOK'
  <2>1. Begin("create", m, 0, InToken("sdai", Stake), "deposit")
    BY <1>17 DEF StartCreate
  <2> QED
    BY <1>16, <2>1, Begins
<1>18. ASSUME NEW m \in Markets, NEW i \in Outcomes(m), ListAndBet(m, i) PROVE CallOK'
  <2>1. Begin("buy", m, i, UsdInToken(m, Stake), "check")
    BY <1>18 DEF ListAndBet
  <2> QED
    BY <1>16, <2>1, Begins
<1>19. ASSUME NEW m \in Markets, NEW i \in Outcomes(m), StartSell(m, i) PROVE CallOK'
  <2> DEFINE amount == IF Worthy(m, i) THEN UsdInToken(m, Stake) ELSE held[m][i]
  <2>1. Begin("sell", m, i, amount, "order")
    BY <1>19 DEF StartSell
  <2>2. amount \in Nat
    BY <1>1, <1>16 DEF AccountOK, Balanced
  <2> HIDE DEF amount
  <2> QED
    BY <2>1, <2>2, Begins
<1>20. ASSUME NEW m \in Markets, NEW i \in Outcomes(m), OtherSells(m, i) PROVE CallOK'
  BY <1>1, <1>5, <1>20 DEF OtherSells, CallOK
<1> QED
  BY <1>7, <1>8, <1>9, <1>10, <1>11, <1>12, <1>13, <1>14, <1>15, <1>17, <1>18, <1>19, <1>20
     DEF Next
-----------------------------------------------------------------------------
\* An account that has done nothing.
LEMMA Initially == Init => IInv
<1> SUFFICES ASSUME Init PROVE IInv
  OBVIOUS
<1>1. WorldOK
  BY Constants DEF Init, WorldOK
<1>2. AccountOK
  <2>1. Balanced(held) /\ Balanced(allowance)
    BY DEF Init, Balanced, Zero
  <2> QED
    BY <2>1, Constants DEF Init, AccountOK
<1>3. MemoryOK
  BY DEF Init, MemoryOK
<1>4. CallOK
  BY DEF Init, Idle, CallOK
<1>5. Lately
  BY Constants DEF Init, Lately
<1> QED
  BY <1>1, <1>2, <1>3, <1>4, <1>5 DEF IInv, TypeOK

\* Every step keeps the invariant.
LEMMA Inductive == IInv /\ [Next]_vars => IInv'
<1>1. ASSUME IInv, Next PROVE IInv'
  BY <1>1, WorldKept, AccountKept, MemoryKept, CallKept, Zenon DEF IInv, TypeOK
<1>2. ASSUME IInv, UNCHANGED vars PROVE IInv'
  <2>1. UNCHANGED <<now, exists, pools, payout, held, allowance, wallet, orders, traded, cache,
                    deepAt, call, calls, moves, faults>>
    BY <1>2 DEF vars, account, records, memory, bounds
  <2>2. WorldOK' /\ AccountOK' /\ MemoryOK'
    BY <1>2, <2>1 DEF IInv, TypeOK, WorldOK, AccountOK, Balanced, MemoryOK
  <2>3. CallOK'
    <3>1. (EnoughSdai' <=> EnoughSdai) /\ Requested' = Requested
      BY <2>1, SameRequest
    <3> QED
      BY <1>2, <2>1, <3>1 DEF IInv, TypeOK, CallOK
  <2>4. Lately'
    BY <1>2, <2>1 DEF IInv, Lately, Liquid, PoolByToken
  <2> QED
    BY <2>2, <2>3, <2>4 DEF IInv, TypeOK
<1> QED
  BY <1>1, <1>2

LEMMA Invariance == Spec => []IInv
  BY Initially, Inductive, PTL DEF Spec

(***************************************************************************)
(* The account is well typed: whatever fails between two transactions and  *)
(* whatever another process sells, no balance, holding or allowance is     *)
(* negative, nothing is split, wrapped or redeemed that is not there, and  *)
(* a redemption deals with reported markets whose balances it has read.    *)
(***************************************************************************)
THEOREM TypeCorrect == Spec => []TypeOK
<1>1. IInv => TypeOK
  BY DEF IInv
<1> QED
  BY <1>1, Invariance, PTL

\* has_liquidity tells of pools that were liquid within a cache lifetime.
LEMMA LiquidWhenAnswered ==
  ASSUME IInv, NEW m \in Markets, HasLiquidity(m)
  PROVE  now - deepAt[m] <= Ttl
<1>1. /\ deepAt[m] \in Nat /\ now \in Nat /\ Ttl \in Nat /\ cache[m] \subseteq Entries
      /\ Liquid(m) => deepAt[m] = now
      /\ \A e \in cache[m] : e.value => e.until <= deepAt[m] + Ttl
  BY Constants DEF IInv, TypeOK, WorldOK, MemoryOK, Lately
<1>2. CASE Fresh(m, now) = {}
  BY <1>1, <1>2 DEF HasLiquidity
<1>3. CASE Fresh(m, now) # {}
  <2>1. PICK e \in Fresh(m, now) : e.value
    BY <1>3 DEF HasLiquidity
  <2>2. e \in cache[m] /\ now < e.until
    BY <2>1 DEF Fresh
  <2>3. e.until \in Nat
    BY <1>1, <2>2 DEF Entries
  <2> QED
    BY <1>1, <2>1, <2>2, <2>3
<1> QED
  BY <1>2, <1>3

(***************************************************************************)
(* A bet is begun, and a pool is used, only in a market that had enough    *)
(* liquidity within the lifetime of a cache entry: answers that are asked  *)
(* for again and again are not renewed by being asked for.                 *)
(***************************************************************************)
THEOREM BegunWhenLiquid == Spec => LiquidLately
<1>1. IInv /\ [Next]_vars =>
          [\/ At({"buy"}, "check") /\ call'.at = "deposit"
           \/ At(Swapping, "fallback") /\ call'.at = "pool"
           => now - deepAt[call.m] <= Ttl]_vars
  <2> SUFFICES ASSUME IInv, [Next]_vars,
                      \/ At({"buy"}, "check") /\ call'.at = "deposit"
                      \/ At(Swapping, "fallback") /\ call'.at = "pool"
               PROVE  now - deepAt[call.m] <= Ttl
    OBVIOUS
  <2>1. call.op \in {"buy", "sell"} /\ call.at \in {"check", "fallback"} /\ call'.at # call.at
    BY DEF At, Swapping
  <2>2. call.m \in Markets
    BY <2>1 DEF IInv, TypeOK, CallOK
  <2>3. call # Idle /\ call' # call /\ call'.at \in {"deposit", "pool"}
    BY <2>1 DEF Idle
  <2>4. call' # Idle /\ call' # Raised
    BY <2>1, <2>3 DEF Raised, Idle
  <2>5. ~UNCHANGED vars /\ ~Fails /\ ~Restart /\ ~StartRedeem /\ ~Tick
    BY <2>3, <2>4 DEF vars, Fails, Restart, StartRedeem, Tick
  <2>6. ASSUME NEW m \in Markets
        PROVE  /\ ~StartCreate(m) /\ ~LiquidityMoves(m) /\ \A n \in Payouts[m] : ~Report(m, n)
               /\ \A i \in Outcomes(m) : ~ListAndBet(m, i) /\ ~StartSell(m, i) /\ ~OtherSells(m, i)
    BY <2>3 DEF StartCreate, LiquidityMoves, Report, ListAndBet, StartSell, OtherSells, Begin
  <2>7. Step
    BY <2>5, <2>6 DEF Next
  <2>8. Check \/ Fallback
    BY <2>1, <2>7 DEF Step, NoDeposit, WrapShort, OutOfMoney, DepositInVault, SplitParent,
                      OrderFilled, OrderExpires, OrderRefused, SwapInPool, PoolReverts, Create,
                      NextMarket, Approve, RedeemToBase, RedeemReverts, At
  <2>9. HasLiquidity(call.m)
    BY <2>4, <2>8 DEF Check, Fallback, CanBeTraded
  <2> QED
    BY <2>2, <2>9, LiquidWhenAnswered
<1> QED
  BY <1>1, Invariance, PTL DEF Spec, LiquidLately
-----------------------------------------------------------------------------
\* Amounts are in the smallest unit of a token, and a share of sDai never is
\* worth less than what was paid for the first one.
Realistic == Worth["sdai"] >= 100 /\ InToken("sdai", Stake) >= 100

\* A bet asks for enough to have a surplus, and has what it goes on with.
Funded == (call.op = "buy" => call.amount >= 100) /\ DepositSuffices

\* Conversions there and back lose at most one share.
LEMMA ThereAndBack ==
  ASSUME NEW W \in Nat, W >= 100, NEW r \in Nat, NEW w \in Nat, w < r
  PROVE  w + ((((r * W) \div 100) - ((w * W) \div 100)) * 100) \div W >= r - 1
<1> DEFINE a == (r * W) \div 100
           b == (w * W) \div 100
           q == ((a - b) * 100) \div W
<1>1. r * W \in Nat /\ w * W \in Nat
  OBVIOUS
<1>2. \A x \in Nat : x \div 100 \in Nat /\ 100 * (x \div 100) <= x /\ x < 100 * (x \div 100) + 100
  OBVIOUS
<1>3. a \in Nat /\ b \in Nat /\ r * W < 100 * a + 100 /\ 100 * b <= w * W
  BY <1>1, <1>2
<1> HIDE DEF a, b
<1>4. \A x \in Int : x \div W \in Int /\ x < W * (x \div W) + W
  OBVIOUS
<1>5. q \in Int /\ (a - b) * 100 < W * q + W
  BY <1>3, <1>4
<1> HIDE DEF q
<1>6. r * W - w * W < W * q + W + W
  BY <1>1, <1>3, <1>5
<1>7. W * (q + 2 - (r - w)) > 0
  BY <1>5, <1>6
<1>8. q + 2 - (r - w) > 0
  BY <1>5, <1>7
<1>9. w + q >= r - 1
  BY <1>5, <1>8
<1> QED
  BY <1>9 DEF q, a, b

\* A deposit that was needed brings what the call goes on with.
LEMMA DepositBrings ==
  ASSUME Realistic, TypeOK, call.amount >= 100, call.op = "buy", DepositInVault
  PROVE  wallet'["sdai"] >= IF Splits THEN Sets ELSE call.amount
<1> DEFINE R == Requested
           W == Worth["sdai"]
           w == wallet["sdai"]
<1>1. /\ call.amount \in Nat /\ Sets \in Nat /\ Sets >= call.amount /\ R \in Nat
      /\ ~EnoughSdai => w < R
  BY Requests
<1>2. w \in Nat /\ W \in Nat /\ wallet \in [Tokens \cup {"xdai"} -> Nat]
  BY Constants DEF TypeOK, AccountOK
<1>3. ~EnoughSdai /\ wallet["wxdai"] >= Spend(wallet, "sdai", R)
  BY DEF DepositInVault, At, TypeOK, CallOK
<1>4. wallet' \in Deposits(wallet, "sdai", R)
  BY DEF DepositInVault
<1> HIDE DEF R
<1>5. wallet'["sdai"] = w + ToShares("sdai", Spend(wallet, "sdai", R))
  BY <1>1, <1>2, <1>3, <1>4, Converted
<1>6. ToShares("sdai", Spend(wallet, "sdai", R))
          = ((((R * W) \div 100) - ((w * W) \div 100)) * 100) \div W
  BY DEF ToShares, Spend, VaultSpend, ToAssets, Kind
<1>7. W >= 100
  BY DEF Realistic
<1> HIDE DEF W, w
<1>8. wallet'["sdai"] >= R - 1
  <2>1. w < R
    BY <1>1, <1>3
  <2>2. w + ((((R * W) \div 100) - ((w * W) \div 100)) * 100) \div W >= R - 1
    BY <1>1, <1>2, <1>7, <2>1, ThereAndBack
  <2> QED
    BY <1>5, <1>6, <2>2, Zenon
<1>9. \A x \in Nat : x >= 100 => WithSurplus(x) >= x + 1
  BY DEF WithSurplus
<1>10. R >= 1 + IF Splits THEN Sets ELSE call.amount
  <2>1. Sets >= call.amount + 1
    BY <1>1, <1>9 DEF Sets
  <2>2. WithSurplus(Sets) >= Sets + 1
    BY <1>1, <1>9
  <2>3. CASE Splits
    <3>1. R = WithSurplus(Sets)
      BY <2>3 DEF R, Requested
    <3> QED
      BY <1>1, <2>2, <2>3, <3>1
  <2>4. CASE ~Splits
    <3>1. R = Sets
      BY <2>4 DEF R, Requested
    <3> QED
      BY <1>1, <2>1, <2>4, <3>1
  <2> QED
    BY <2>3, <2>4
<1> DEFINE needed == IF Splits THEN Sets ELSE call.amount
<1>11. needed \in Nat
  BY <1>1
<1>12. wallet'["sdai"] \in Int
  <2>1. wallet' \in [Tokens \cup {"xdai"} -> Nat]
    BY <1>1, <1>2, <1>3, <1>4, Converted DEF w
  <2> QED
    BY <2>1, Constants
<1> HIDE DEF needed
<1>13. R >= 1 + needed
  BY <1>10 DEF needed
<1>14. wallet'["sdai"] >= needed
  BY <1>1, <1>8, <1>11, <1>12, <1>13
<1> QED
  BY <1>14 DEF needed

\* A bet is worth at least a hundred units.
LEMMA StakeSuffices ==
  ASSUME Realistic, NEW m \in Markets
  PROVE  UsdInToken(m, Stake) \in Nat /\ UsdInToken(m, Stake) >= 100
<1> DEFINE s == InToken("sdai", Stake)
<1>1. s \in Nat /\ s >= 100 /\ Odds \in Nat \ {0}
  BY Conversions, Constants DEF Realistic
<1> HIDE DEF s
<1>2. s * Odds \in Nat /\ s * Odds >= s
  BY <1>1
<1>3. TokensFor(s) = s * Odds
  BY DEF TokensFor, PoolQuote
<1> QED
  BY <1>1, <1>2, <1>3 DEF UsdInToken, s

LEMMA FundedKept ==
  ASSUME Realistic, TypeOK, Funded, [Next]_vars
  PROVE  Funded'
<1>1. CallOK /\ (call.op \in {"buy", "create"} => call.m \in Markets /\ call.amount \in Nat)
  BY DEF TypeOK, CallOK
<1>2. ASSUME call'.op # "buy" PROVE Funded'
  BY <1>2 DEF Funded, DepositSuffices, At
<1>3. call' = Idle => Funded'
  BY <1>2 DEF Idle
<1>4. ASSUME call' = call, wallet' = wallet \/ call.op # "buy" PROVE Funded'
  <2>1. Sets' = Sets /\ (Splits' <=> Splits)
    BY <1>4, SameRequest
  <2> QED
    BY <1>2, <1>4, <2>1 DEF Funded, DepositSuffices, At
<1>5. ASSUME NEW place, call' = Go(place), place \notin {"split", "order"} PROVE Funded'
  <2>1. call'.op = call.op /\ call'.amount = call.amount /\ call'.at = place
    BY <1>1, <1>5, Goes
  <2> QED
    BY <1>5, <2>1 DEF Funded, DepositSuffices, At
<1>6. call' = Raised => Funded'
  BY <1>3, <1>5 DEF Raised
<1>7. ASSUME call' = Go(Deposited), call.op = "buy",
             wallet'["sdai"] >= IF Splits THEN Sets ELSE call.amount
      PROVE  Funded'
  <2>1. /\ call'.op = call.op /\ call'.m = call.m /\ call'.amount = call.amount
        /\ call'.at = Deposited
    BY <1>1, <1>7, Goes
  <2>2. Sets' = Sets /\ (Splits' <=> Splits)
    BY <2>1, SameRequest
  <2>3. call.amount >= 100
    BY <1>7 DEF Funded
  <2>4. DepositSuffices'
    BY <1>7, <2>1, <2>2 DEF DepositSuffices
  <2> QED
    BY <2>1, <2>3, <2>4 DEF Funded
<1>8. CASE NoDeposit
  <2>1. call.op \in {"buy", "create"} /\ EnoughSdai /\ wallet' = wallet /\ call' = Go(Deposited)
    BY <1>8 DEF NoDeposit, At, account
  <2>2. CASE call.op = "buy"
    <3>1. /\ wallet["sdai"] >= IF Splits THEN Sets ELSE Requested
          /\ Sets \in Nat /\ Sets >= call.amount /\ Requested \in Nat /\ Requested >= Sets
      BY <2>1, Requests
    <3>2. wallet["sdai"] \in Nat
      BY Constants DEF TypeOK, AccountOK
    <3>3. wallet'["sdai"] >= IF Splits THEN Sets ELSE call.amount
      BY <1>1, <2>1, <2>2, <3>1, <3>2
    <3> QED
      BY <1>7, <2>1, <2>2, <3>3
  <2>3. CASE call.op # "buy"
    <3>1. call'.op = call.op
      BY <1>1, <2>1, Goes
    <3> QED
      BY <1>2, <2>3, <3>1
  <2> QED
    BY <2>2, <2>3
<1>9. CASE DepositInVault
  <2>1. call' = Go(Deposited) \/ call' = Raised
    BY <1>9 DEF DepositInVault, Mined
  <2>2. CASE call.op = "buy"
    <3>1. wallet'["sdai"] >= IF Splits THEN Sets ELSE call.amount
      BY <1>9, <2>2, DepositBrings DEF Funded
    <3> QED
      BY <1>6, <1>7, <2>1, <2>2, <3>1
  <2>3. CASE call.op # "buy"
    <3>1. call' = Go(Deposited) => call'.op = call.op
      BY <1>1, Goes
    <3> QED
      BY <1>2, <1>6, <2>1, <2>3, <3>1
  <2> QED
    BY <2>2, <2>3
<1>10. CASE SplitParent
  <2>1. call.at = "split" /\ (call' = Go("order") \/ call' = Raised)
    BY <1>10 DEF SplitParent, At, Mined
  <2>2. call.op = "buy" /\ Conditional(call.m)
    BY <1>1, <2>1 DEF CallOK
  <2>3. CASE call' = Go("order")
    <3>1. /\ call'.op = call.op /\ call'.m = call.m /\ call'.amount = call.amount
          /\ call'.at = "order"
      BY <1>1, <2>3, Goes
    <3>2. Funded => call.amount >= 100
      BY <2>2 DEF Funded
    <3> QED
      BY <2>2, <3>1, <3>2 DEF Funded, DepositSuffices, At
  <2> QED
    BY <1>6, <2>1, <2>3
<1>11. CASE NextMarket
  <2>1. ASSUME NEW m \in call.todo, call' = [call EXCEPT !.m = m, !.todo = @ \ {m}, !.at = "redeem"]
        PROVE  Funded'
    <3>1. call'.op = "redeem"
      BY <1>1, <1>11, <2>1 DEF NextMarket, At, CallOK
    <3> QED
      BY <1>2, <3>1
  <2> QED
    BY <1>3, <1>11, <2>1 DEF NextMarket
<1>12. CASE Approve
  BY <1>4, <1>6, <1>12 DEF Approve, At, Mined
<1>13. CASE Step /\ ~NoDeposit /\ ~DepositInVault /\ ~SplitParent /\ ~NextMarket /\ ~Approve
  <2>1. call' \in {Idle, Raised, Go("deposit"), Go("vault"), Go("fallback"), Go("pool"), Go("next")}
    BY <1>13 DEF Step, Check, WrapShort, OutOfMoney, OrderFilled, OrderExpires, OrderRefused,
                 Fallback, SwapInPool, PoolReverts, Create, RedeemToBase, RedeemReverts,
                 Mined, Reverts
  <2> QED
    BY <1>3, <1>5, <1>6, <2>1
<1>14. CASE Fails \/ Restart \/ StartRedeem
  <2>1. StartRedeem => call'.op = "redeem"
    BY DEF StartRedeem, Idle
  <2> QED
    BY <1>2, <1>3, <1>6, <1>14, <2>1 DEF Fails, Restart
<1>15. CASE Tick \/ UNCHANGED vars
  BY <1>4, <1>15 DEF Tick, vars, account
<1>16. ASSUME NEW m \in Markets, LiquidityMoves(m) \/ (\E n \in Payouts[m] : Report(m, n))
                                   \/ \E i \in Outcomes(m) : OtherSells(m, i)
       PROVE  Funded'
  BY <1>4, <1>16 DEF LiquidityMoves, Report, OtherSells, account
<1>17. ASSUME NEW m \in Markets, StartCreate(m) \/ \E i \in Outcomes(m) : StartSell(m, i)
       PROVE  Funded'
  BY <1>2, <1>17 DEF StartCreate, StartSell, Begin, Idle
<1>18. ASSUME NEW m \in Markets, NEW i \in Outcomes(m), ListAndBet(m, i) PROVE Funded'
  <2>1. Begin("buy", m, i, UsdInToken(m, Stake), "check")
    BY <1>18 DEF ListAndBet
  <2>2. call'.op = "buy" /\ call'.amount = UsdInToken(m, Stake) /\ call'.at = "check"
    BY <2>1, StakeSuffices, Begins
  <2> QED
    BY <2>2, StakeSuffices DEF Funded, DepositSuffices, At
<1> QED
  BY <1>8, <1>9, <1>10, <1>11, <1>12, <1>13, <1>14, <1>15, <1>16, <1>17, <1>18 DEF Next

(***************************************************************************)
(* What a bet deposits suffices to pay for it, also when the collateral    *)
(* has to be split off a parent market: conversions to assets and back     *)
(* lose less than the surplus that is asked for, once for a bet and a      *)
(* second time for a split, and nothing else spends it before.             *)
(***************************************************************************)
THEOREM DepositCovers ==
  ASSUME Realistic
  PROVE  Spec => []DepositSuffices
<1>1. Init => Funded
  BY DEF Init, Idle, Funded, DepositSuffices, At
<1>2. IInv /\ Funded /\ [Next]_vars => Funded'
  BY FundedKept DEF IInv
<1>3. Funded => DepositSuffices
  BY DEF Funded
<1> QED
  BY <1>1, <1>2, <1>3, Invariance, PTL DEF Spec

=============================================================================
