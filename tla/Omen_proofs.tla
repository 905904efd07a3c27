----------------------------- MODULE Omen_proofs -----------------------------
(***************************************************************************)
(* Proofs about Omen, for any markets, tokens, prices, funds and bounds.   *)
(* The last part is about Strategy, for any pools, fee, strategies and     *)
(* answers: what its runs spend on such a market, and what they get.       *)
(***************************************************************************)
EXTENDS Omen, Strategy, FiniteSetTheorems, SequenceTheorems, WellFoundedInduction, TLAPS

Sets == {1, 2, 4}

\* A market maker that can be traded with has something of every outcome.
MakersOK ==
    /\ DOMAIN pool = Markets /\ supply \in [Markets -> Nat]
    /\ \A m \in Markets :
           /\ pool[m] = <<>> => supply[m] = 0
           /\ pool[m] # <<>> => pool[m] \in [Outcomes(m) -> Nat]
           /\ supply[m] > 0 => \A i \in Outcomes(m) : pool[m][i] > 0

QuestionsOK ==
    /\ DOMAIN answer = Markets
    /\ \A m \in Markets : answer[m] \subseteq Answers[m]
    /\ finalized \in [Markets -> SUBSET Nat]
    /\ resolution \in [Markets -> SUBSET Nat]

AccountOK ==
    /\ DOMAIN held = Markets
    /\ \A m \in Markets : held[m] \in [Outcomes(m) -> Nat]
    /\ shares \in [Markets -> Nat] /\ earned \in [Markets -> Nat]
    /\ \A m \in Markets : shares[m] <= supply[m]
    /\ wallet \in [Tokens \cup {"xdai"} -> Nat]

BooksOK ==
    /\ DOMAIN trades = Markets /\ paid \in [Markets -> Nat]
    /\ provided \subseteq Markets

CountersOK ==
    /\ now \in Nat /\ calls \in Nat /\ moves \in Nat /\ faults \in Nat

\* The calls that get to each place.
Places ==
    [quote |-> {"buy", "sell", "liquidate"}, deposit |-> Wanting,
     swap |-> Wanting, ask |-> {"create"}, prepare |-> {"create"},
     trade |-> {"buy", "fund", "create", "sell", "liquidate"},
     next |-> {"liquidate", "redeem_all"}, remove |-> {"remove"},
     merge |-> {"remove"}, redeem |-> {"redeem_full", "redeem_all"},
     withdraw |-> {"sell", "liquidate", "remove", "redeem_full", "redeem_all"},
     return |-> {"sell", "remove", "redeem_full"}]

\* What is wanting goes into the vault or to CoW once it is wrapped.
SwapOK ==
    call.at = "swap" =>
        /\ Kind(Token[call.m]) # "wrapper"
        /\ ~Enough(wallet, Token[call.m], Requested)
        /\ wallet["wxdai"] >= Spend(wallet, Token[call.m], Requested)

ListOK ==
    /\ call.op = "liquidate" => call.todo \subseteq Sets \X Nat
    /\ call.op = "redeem_all" => call.todo \subseteq Markets \X Sets

RunOK ==
    /\ DOMAIN call = {"op", "m", "i", "amount", "limit", "at", "tries", "todo", "before"}
    /\ call.at \in DOMAIN Places /\ call.op \in Places[call.at]
    /\ \/ call.m \in Markets
       \/ call.op = "redeem_all" /\ call.m = "none" /\ call.at = "next"
    /\ call.op \in {"buy", "sell"} \/ At({"liquidate"}, "quote")
                                  \/ At({"liquidate"}, "trade")
           => call.i \in Outcomes(call.m)
    /\ call.amount \in Nat /\ call.before \in Nat
    /\ call.op = "fund" => pool[call.m] # <<>>
    /\ call.at = "remove" => call.limit \in 1..shares[call.m]
    /\ SwapOK /\ ListOK

CallOK == call = Idle \/ RunOK

WorldOK == MakersOK /\ QuestionsOK /\ AccountOK /\ BooksOK
TypeOK == WorldOK /\ CountersOK /\ CallOK

\* What the wallet holds of the collateral, against what it held before.
Balance == wallet[Token[call.m]]
BalanceKept ==
    /\ \/ At({"sell", "liquidate"}, "quote") \/ At({"sell", "liquidate"}, "trade")
       \/ call.at \in {"remove", "redeem"}
       => Balance = call.before
    /\ call.at = "merge" => Balance >= call.before
    /\ call.at = "withdraw" => Balance = call.before + call.amount

\* Sets that were merged stay merged until the call returns.
SetsMerged ==
    At({"remove"}, "withdraw") \/ (At({"remove"}, "return") /\ call.limit > 0)
        => \E i \in Outcomes(call.m) : held[call.m][i] = 0

Going == CallOK /\ BalanceKept /\ SetsMerged
IInv == WorldOK /\ CountersOK /\ Going
-----------------------------------------------------------------------------
\* A set of naturals has a least element.
LEMMA LeastNatural ==
  ASSUME NEW T, T \subseteq Nat, T # {}
  PROVE  \E x \in T : \A y \in T : x <= y
<1> DEFINE R == {ss \in Nat \X Nat : ss[1] < ss[2]}
<1>1. IsWellFoundedOn(R, Nat)
  BY NatLessThanWellFounded, Zenon DEF OpToRel
<1>2. \E x \in T : \A y \in T : <<y, x>> \notin R
  BY <1>1, WFMin, Zenon
<1>3. \A x, y \in Nat : y < x => <<y, x>> \in R
  OBVIOUS
<1>4. PICK x \in T : \A y \in T : <<y, x>> \notin R
  BY <1>2
<1>5. \A y \in T : ~(y < x)
  BY <1>3, <1>4, Zenon
<1> QED
  BY <1>5

\* The recursions of SumOf, of ProductOf and of Trades.
Sums(s, n, t) == t = [k \in 0..n |-> IF k = 0 THEN 0 ELSE s[k] + t[k - 1]]
Products(s, n, t) == t = [k \in 0..n |-> IF k = 0 THEN 1 ELSE s[k] * t[k - 1]]
Picks(s, places, n, t) ==
    t = [k \in 0..n |-> IF k = 0 THEN <<>>
                         ELSE IF k \in places THEN Append(t[k - 1], s[k])
                         ELSE t[k - 1]]
Partial(kind, places, s, t, k) ==
    CASE kind = "sum" -> IF k = 0 THEN 0 ELSE s[k] + t[k - 1]
      [] kind = "product" -> IF k = 0 THEN 1 ELSE s[k] * t[k - 1]
      [] OTHER -> IF k = 0 THEN <<>>
                  ELSE IF k \in places THEN Append(t[k - 1], s[k])
                  ELSE t[k - 1]

\* They have solutions: the partial results up to any length.
LEMMA PartialsExist ==
  ASSUME NEW kind \in {"sum", "product", "picks"}, NEW places \in SUBSET Nat,
         NEW s, NEW n \in Nat
  PROVE  \E t : t = [k \in 0..n |-> Partial(kind, places, s, t, k)]
<1> DEFINE Right(t, j) == /\ t = [k \in 0..n |-> t[k]]
                          /\ \A k \in 0..n : k <= j => t[k] = Partial(kind, places, s, t, k)
           Wrong == {j \in Nat : \A t : ~Right(t, j)}
<1> HIDE DEF Right
<1>1. 0 \notin Wrong
  <2> DEFINE t == [k \in 0..n |-> CASE kind = "sum" -> 0 [] kind = "product" -> 1
                                      [] OTHER -> <<>>]
  <2>1. Right(t, 0)
    BY DEF Right, Partial
  <2> QED
    BY <2>1
<1>2. ASSUME NEW j \in Nat, j \notin Wrong PROVE j + 1 \notin Wrong
  <2>1. PICK t : Right(t, j)
    BY <1>2
  <2> DEFINE u == [k \in 0..n |-> IF k <= j THEN t[k] ELSE Partial(kind, places, s, t, k)]
  <2>2. ASSUME NEW k \in 0..n, k <= j + 1 PROVE u[k] = Partial(kind, places, s, u, k)
    <3>1. u[k] = Partial(kind, places, s, t, k)
      BY <2>1, <2>2 DEF Right
    <3>2. k # 0 => k - 1 \in 0..n /\ k - 1 <= j
      BY <2>2
    <3>3. k # 0 => u[k - 1] = t[k - 1]
      BY <3>2
    <3> QED
      BY <3>1, <3>3 DEF Partial
  <2>3. Right(u, j + 1)
    BY <2>2 DEF Right
  <2> QED
    BY <2>3
<1>3. ASSUME Wrong # {} PROVE FALSE
  <2>0. Wrong \subseteq Nat
    OBVIOUS
  <2>1. PICK j \in Wrong : \A k \in Wrong : j <= k
    <3> HIDE DEF Wrong
    <3> QED
      BY <1>3, <2>0, LeastNatural
  <2>2. j - 1 \in Nat /\ j - 1 \notin Wrong
    BY <1>1, <2>1
  <2>3. j - 1 + 1 \notin Wrong
    BY <1>2, <2>2
  <2> QED
    BY <2>1, <2>3
<1>4. PICK t : Right(t, n)
  BY <1>3
<1>5. t = [k \in 0..n |-> Partial(kind, places, s, t, k)]
  BY <1>4 DEF Right
<1> QED
  BY <1>5

\* The length of a list given as a function.
LEMMA LengthOf ==
  ASSUME NEW S, NEW n \in Nat, NEW s \in [1..n -> S]
  PROVE  Len(s) = n /\ DOMAIN s = 1..n
<1>1. s \in Seq(S)
  BY IsASeq
<1> QED
  BY <1>1, LenProperties

\* A sum of naturals is one.
LEMMA SumIsNat ==
  ASSUME NEW n \in Nat, NEW s \in [1..n -> Nat]
  PROVE  SumOf(s) \in Nat
<1>1. Len(s) = n
  BY LengthOf
<1> DEFINE t == CHOOSE u : Sums(s, n, u)
<1>2. SumOf(s) = t[n]
  BY <1>1, Zenon DEF SumOf, Sums
<1>3. Sums(s, n, t)
  <2>1. \E u : u = [k \in 0..n |-> Partial("sum", {}, s, u, k)]
    <3>1. {} \in SUBSET Nat
      OBVIOUS
    <3> QED
      BY <3>1, PartialsExist
  <2>2. \E u : Sums(s, n, u)
    BY <2>1 DEF Sums, Partial
  <2> QED
    BY <2>2
<1> HIDE DEF t
<1>4. t[0] = 0 /\ \A k \in 1..n : t[k] = s[k] + t[k - 1]
  BY <1>3 DEF Sums
<1> DEFINE Wrong == {k \in 0..n : t[k] \notin Nat}
<1>5. ASSUME Wrong # {} PROVE FALSE
  <2>0. Wrong \subseteq Nat
    OBVIOUS
  <2>1. PICK k \in Wrong : \A j \in Wrong : k <= j
    <3> HIDE DEF Wrong
    <3> QED
      BY <1>5, <2>0, LeastNatural
  <2>2. k \in 1..n
    BY <1>4, <2>1
  <2>3. t[k - 1] \in Nat
    BY <2>1, <2>2
  <2> QED
    BY <1>4, <2>1, <2>2, <2>3
<1> QED
  BY <1>2, <1>5

\* The partial products of naturals.
LEMMA ProductSteps ==
  ASSUME NEW n \in Nat, NEW s \in [1..n -> Nat]
  PROVE  \E t \in [0..n -> Nat] :
             /\ ProductOf(s) = t[n]
             /\ t[0] = 1 /\ \A k \in 1..n : t[k] = s[k] * t[k - 1]
<1>1. Len(s) = n
  BY LengthOf
<1> DEFINE t == CHOOSE u : Products(s, n, u)
<1>2. ProductOf(s) = t[n]
  BY <1>1, Zenon DEF ProductOf, Products
<1>3. Products(s, n, t)
  <2>1. \E u : u = [k \in 0..n |-> Partial("product", {}, s, u, k)]
    <3>1. {} \in SUBSET Nat
      OBVIOUS
    <3> QED
      BY <3>1, PartialsExist
  <2>2. \E u : Products(s, n, u)
    BY <2>1 DEF Products, Partial
  <2> QED
    BY <2>2
<1> HIDE DEF t
<1>4. t[0] = 1 /\ \A k \in 1..n : t[k] = s[k] * t[k - 1]
  BY <1>3 DEF Products
<1> DEFINE Wrong == {k \in 0..n : t[k] \notin Nat}
<1>5. ASSUME Wrong # {} PROVE FALSE
  <2>0. Wrong \subseteq Nat
    OBVIOUS
  <2>1. PICK k \in Wrong : \A j \in Wrong : k <= j
    <3> HIDE DEF Wrong
    <3> QED
      BY <1>5, <2>0, LeastNatural
  <2>2. k \in 1..n
    BY <1>4, <2>1
  <2>3. t[k - 1] \in Nat
    BY <2>1, <2>2
  <2> QED
    BY <1>4, <2>1, <2>2, <2>3
<1>6. t \in [0..n -> Nat]
  BY <1>3, <1>5 DEF Products
<1> QED
  BY <1>2, <1>4, <1>6

\* A product of positive numbers is positive.
LEMMA ProductIsPositive ==
  ASSUME NEW n \in Nat, NEW s \in [1..n -> Nat]
  PROVE  /\ ProductOf(s) \in Nat
         /\ (\A j \in 1..n : s[j] > 0) => ProductOf(s) > 0
<1>1. PICK t \in [0..n -> Nat] : /\ ProductOf(s) = t[n]
                                 /\ t[0] = 1 /\ \A k \in 1..n : t[k] = s[k] * t[k - 1]
  BY ProductSteps
<1>2. ASSUME \A j \in 1..n : s[j] > 0 PROVE t[n] > 0
  <2> DEFINE Wrong == {k \in 0..n : ~(t[k] > 0)}
  <2>1. ASSUME Wrong # {} PROVE FALSE
    <3>0. Wrong \subseteq Nat
      OBVIOUS
    <3>1. PICK k \in Wrong : \A j \in Wrong : k <= j
      <4> HIDE DEF Wrong
      <4> QED
        BY <2>1, <3>0, LeastNatural
    <3>2. k \in 1..n
      BY <1>1, <3>1
    <3>3. t[k - 1] > 0 /\ t[k - 1] \in Nat
      BY <3>1, <3>2
    <3>4. t[k] = s[k] * t[k - 1] /\ s[k] \in Nat /\ s[k] > 0
      BY <1>1, <1>2, <3>2
    <3>5. \A x, y \in Nat : x > 0 /\ y > 0 => x * y > 0
      OBVIOUS
    <3>6. t[k] > 0
      BY <3>3, <3>4, <3>5
    <3> QED
      BY <3>1, <3>6
  <2> QED
    BY <2>1
<1> QED
  BY <1>1, <1>2

\* A factor taken out of a product whose other factors grow.
LEMMA FactorOut ==
  ASSUME NEW n \in Nat, NEW s \in [1..n -> Nat], NEW u \in [1..n -> Nat],
         NEW i \in 1..n, u[i] = 1, \A j \in 1..n : j # i => s[j] <= u[j]
  PROVE  ProductOf(s) <= s[i] * ProductOf(u)
<1>1. PICK t \in [0..n -> Nat] : /\ ProductOf(s) = t[n]
                                 /\ t[0] = 1 /\ \A k \in 1..n : t[k] = s[k] * t[k - 1]
  BY ProductSteps
<1>2. PICK v \in [0..n -> Nat] : /\ ProductOf(u) = v[n]
                                 /\ v[0] = 1 /\ \A k \in 1..n : v[k] = u[k] * v[k - 1]
  BY ProductSteps
<1> DEFINE Good(k) == /\ k < i => t[k] <= v[k]
                      /\ k >= i => t[k] <= s[i] * v[k]
           Wrong == {k \in 0..n : ~Good(k)}
<1>3. ASSUME Wrong # {} PROVE FALSE
  <2>0. Wrong \subseteq Nat
    OBVIOUS
  <2>1. PICK k \in Wrong : \A j \in Wrong : k <= j
    <3> HIDE DEF Wrong
    <3> QED
      BY <1>3, <2>0, LeastNatural
  <2>2. k \in 1..n
    BY <1>1, <1>2, <2>1
  <2>3. Good(k - 1)
    <3>1. k - 1 \in 0..n /\ ~(k <= k - 1)
      BY <2>2
    <3> HIDE DEF Good
    <3> QED
      BY <2>1, <3>1
  <2>4. /\ t[k] = s[k] * t[k - 1] /\ v[k] = u[k] * v[k - 1]
        /\ s[k] \in Nat /\ u[k] \in Nat /\ s[i] \in Nat
        /\ t[k - 1] \in Nat /\ v[k - 1] \in Nat
    <3>1. t[k] = s[k] * t[k - 1] /\ v[k] = u[k] * v[k - 1]
      BY <1>1, <1>2, <2>2, Zenon
    <3>2. s[k] \in Nat /\ u[k] \in Nat /\ s[i] \in Nat
      BY <2>2, Zenon
    <3>3. k - 1 \in 0..n
      BY <2>2
    <3>4. t[k - 1] \in Nat /\ v[k - 1] \in Nat
      BY <1>1, <1>2, <3>3, Zenon
    <3> QED
      BY <3>1, <3>2, <3>4, Zenon
  <2>5. \A a, b, c, d \in Nat : a <= b /\ c <= d => a * c <= b * d
    <3>1. ASSUME NEW a \in Nat, NEW b \in Nat, NEW c \in Nat, NEW d \in Nat,
                 a <= b, c <= d
          PROVE  a * c <= b * d
      <4>1. a * c <= b * c
        BY <3>1
      <4>2. b * c <= b * d
        BY <3>1
      <4>3. \A x, y, z \in Int : x <= y /\ y <= z => x <= z
        OBVIOUS
      <4>4. a * c \in Int /\ b * c \in Int /\ b * d \in Int
        OBVIOUS
      <4> QED
        BY <4>1, <4>2, <4>3, <4>4, Zenon
    <3> QED
      BY <3>1
  <2>6. CASE k < i
    <3>1. t[k - 1] <= v[k - 1] /\ s[k] <= u[k]
      BY <2>2, <2>3, <2>6
    <3>2. t[k] <= v[k]
      BY <2>4, <2>5, <3>1
    <3> QED
      BY <2>1, <2>6, <3>2
  <2>7. CASE k = i
    <3>1. t[k - 1] <= v[k - 1] /\ u[k] = 1
      BY <2>2, <2>3, <2>7
    <3>2. v[k] = v[k - 1] /\ t[k] = s[i] * t[k - 1]
      BY <2>4, <2>7, <3>1
    <3>3. s[i] * t[k - 1] <= s[i] * v[k - 1]
      <4>1. s[i] <= s[i]
        BY <2>4
      <4> QED
        BY <2>4, <2>5, <3>1, <4>1, Zenon
    <3>4. t[k] <= s[i] * v[k]
      BY <3>2, <3>3
    <3> QED
      BY <2>1, <2>7, <3>4
  <2>8. CASE k > i
    <3>1. t[k - 1] <= s[i] * v[k - 1] /\ s[k] <= u[k]
      BY <2>2, <2>3, <2>8
    <3>2. s[i] * v[k - 1] \in Nat
      <4>1. \A x, y \in Nat : x * y \in Nat
        OBVIOUS
      <4> QED
        BY <2>4, <4>1
    <3>3. t[k] <= u[k] * (s[i] * v[k - 1])
      BY <2>4, <2>5, <3>1, <3>2
    <3>4. u[k] * (s[i] * v[k - 1]) = s[i] * (u[k] * v[k - 1])
      <4>1. \A x, y, z \in Nat : x * (y * z) = y * (x * z)
        OBVIOUS
      <4> QED
        BY <2>4, <4>1
    <3> QED
      BY <2>1, <2>4, <2>8, <3>3, <3>4
  <2> QED
    BY <2>2, <2>6, <2>7, <2>8
<1>4. Good(n)
  <2>1. n \in 0..n
    OBVIOUS
  <2> HIDE DEF Good
  <2> QED
    BY <1>3, <2>1
<1> QED
  BY <1>1, <1>2, <1>4

-----------------------------------------------------------------------------
\* The bisection of SellAmount has a solution, which stays where it began.
Ranges(n) == (0..n) \X (0..n)
Middle(x) == (x[1] + x[2]) \div 2
Half(C, x) == IF Middle(x) \in C THEN <<Middle(x), x[2]>> ELSE <<x[1], Middle(x)>>
Halves(C, f, x) == IF x[2] - x[1] <= 1 THEN x[1] ELSE f[Half(C, x)]

LEMMA HalfIsSmaller ==
  ASSUME NEW C, NEW n \in Nat, NEW x \in Ranges(n), ~(x[2] - x[1] <= 1)
  PROVE  Half(C, x) \in Ranges(n) /\ Half(C, x)[2] - Half(C, x)[1] <= x[2] - x[1] - 1
<1>1. x = <<x[1], x[2]>> /\ x[1] \in 0..n /\ x[2] \in 0..n
  BY DEF Ranges
<1>2. /\ Middle(x) \in 0..n
      /\ x[2] - Middle(x) <= x[2] - x[1] - 1 /\ Middle(x) - x[1] <= x[2] - x[1] - 1
  BY <1>1 DEF Middle
<1>3. Half(C, x) = <<Middle(x), x[2]>> \/ Half(C, x) = <<x[1], Middle(x)>>
  BY DEF Half
<1> HIDE DEF Half, Middle
<1> QED
  BY <1>1, <1>2, <1>3 DEF Ranges

LEMMA BisectionExists ==
  ASSUME NEW C, NEW n \in Nat
  PROVE  \E f : f = [x \in Ranges(n) |-> Halves(C, f, x)]
<1> DEFINE Right(f, d) ==
               /\ f = [x \in Ranges(n) |-> f[x]]
               /\ \A x \in Ranges(n) : x[2] - x[1] <= d => f[x] = Halves(C, f, x)
           Wrong == {d \in Nat : \A f : ~Right(f, d)}
<1>0. \A x \in Ranges(n) : x[1] \in 0..n /\ x[2] \in 0..n
  BY DEF Ranges
<1>1. 0 \notin Wrong
  <2> DEFINE f == [x \in Ranges(n) |-> x[1]]
  <2>1. \A x \in Ranges(n) : f[x] = x[1]
    OBVIOUS
  <2>2. f = [x \in Ranges(n) |-> f[x]]
    OBVIOUS
  <2> HIDE DEF f
  <2>3. Right(f, 0)
    BY <1>0, <2>1, <2>2 DEF Halves
  <2> QED
    BY <2>3
<1>2. ASSUME NEW d \in Nat, d \notin Wrong PROVE d + 1 \notin Wrong
  <2>1. PICK f : Right(f, d)
    BY <1>2
  <2> DEFINE g == [x \in Ranges(n) |-> IF x[2] - x[1] <= d THEN f[x] ELSE Halves(C, f, x)]
  <2>2. g = [x \in Ranges(n) |-> g[x]]
    OBVIOUS
  <2>3. \A x \in Ranges(n) : x[2] - x[1] <= d => g[x] = f[x]
    OBVIOUS
  <2>4. \A x \in Ranges(n) : g[x] = Halves(C, f, x)
    BY <2>1
  <2> HIDE DEF g
  <2>5. ASSUME NEW x \in Ranges(n), x[2] - x[1] <= d + 1
        PROVE  g[x] = Halves(C, g, x)
    <3>1. CASE x[2] - x[1] <= 1
      BY <2>4, <3>1 DEF Halves
    <3>2. CASE ~(x[2] - x[1] <= 1)
      <4>1. Half(C, x) \in Ranges(n) /\ Half(C, x)[2] - Half(C, x)[1] <= x[2] - x[1] - 1
        BY <3>2, HalfIsSmaller
      <4>2. Half(C, x)[2] - Half(C, x)[1] <= d
        BY <1>0, <2>5, <4>1
      <4>3. g[Half(C, x)] = f[Half(C, x)]
        BY <2>3, <4>1, <4>2
      <4> QED
        BY <2>4, <4>3 DEF Halves
    <3> QED
      BY <3>1, <3>2
  <2>6. Right(g, d + 1)
    BY <2>2, <2>5
  <2> QED
    BY <2>6
<1>3. ASSUME Wrong # {} PROVE FALSE
  <2>0. Wrong \subseteq Nat
    OBVIOUS
  <2>1. PICK d \in Wrong : \A k \in Wrong : d <= k
    <3> HIDE DEF Wrong
    <3> QED
      BY <1>3, <2>0, LeastNatural
  <2> HIDE DEF Right
  <2>2. d - 1 \in Nat /\ d - 1 \notin Wrong
    <3> HIDE DEF Wrong
    <3> QED
      BY <1>1, <2>0, <2>1
  <2>3. d - 1 + 1 \notin Wrong
    BY <1>2, <2>2
  <2> QED
    BY <2>1, <2>3
<1>4. PICK f : Right(f, n)
  <2> HIDE DEF Right
  <2> QED
    BY <1>3
<1>5. \A x \in Ranges(n) : f[x] = Halves(C, f, x)
  BY <1>0, <1>4
<1>6. f = [x \in Ranges(n) |-> f[x]]
  BY <1>4
<1>7. f = [x \in Ranges(n) |-> Halves(C, f, x)]
  BY <1>5, <1>6
<1> QED
  BY <1>7

LEMMA BisectionStays ==
  ASSUME NEW C, NEW n \in Nat, NEW f, f = [x \in Ranges(n) |-> Halves(C, f, x)]
  PROVE  \A x \in Ranges(n) : f[x] \in 0..n
<1> DEFINE Good(d) == \A x \in Ranges(n) : x[2] - x[1] <= d => f[x] \in 0..n
           Wrong == {d \in Nat : ~Good(d)}
<1>0. \A x \in Ranges(n) : x[1] \in 0..n /\ x[2] \in 0..n
  BY DEF Ranges
<1>1. \A x \in Ranges(n) : f[x] = Halves(C, f, x)
  OBVIOUS
<1>2. ASSUME Wrong # {} PROVE FALSE
  <2>0. Wrong \subseteq Nat
    OBVIOUS
  <2>1. PICK d \in Wrong : \A k \in Wrong : d <= k
    <3> HIDE DEF Wrong
    <3> QED
      BY <1>2, <2>0, LeastNatural
  <2>2. ASSUME NEW x \in Ranges(n), x[2] - x[1] <= d
        PROVE  f[x] \in 0..n
    <3>1. CASE x[2] - x[1] <= 1
      BY <1>0, <1>1, <3>1 DEF Halves
    <3>2. CASE ~(x[2] - x[1] <= 1)
      <4>1. Half(C, x) \in Ranges(n) /\ Half(C, x)[2] - Half(C, x)[1] <= x[2] - x[1] - 1
        BY <3>2, HalfIsSmaller
      <4>2. d - 1 \in Nat /\ ~(d <= d - 1) /\ Half(C, x)[2] - Half(C, x)[1] <= d - 1
        BY <1>0, <2>1, <2>2, <3>2, <4>1
      <4>3. Good(d - 1)
        <5> HIDE DEF Good
        <5> QED
          BY <2>1, <4>2
      <4>4. f[Half(C, x)] \in 0..n
        BY <4>1, <4>2, <4>3
      <4> QED
        BY <1>1, <3>2, <4>4 DEF Halves
    <3> QED
      BY <3>1, <3>2
  <2>3. Good(d)
    BY <2>2
  <2> QED
    BY <2>1, <2>3
<1>3. Good(n)
  <2>1. n \in Nat
    OBVIOUS
  <2> HIDE DEF Good
  <2> QED
    BY <1>2, <2>1
<1>4. \A x \in Ranges(n) : x[2] - x[1] <= n
  BY <1>0
<1> QED
  BY <1>3, <1>4

\* What a sale of shares asks for is a natural number.
LEMMA SellAmountIsNat ==
  ASSUME NEW p, NEW i, NEW s \in Nat, NEW fee
  PROVE  SellAmount(p, i, s, fee) \in Nat
<1> DEFINE Search(f) == f = [x \in (0..(s + 1)) \X (0..(s + 1)) |->
               IF x[2] - x[1] <= 1 THEN x[1]
               ELSE f[IF Covers(p, i, s, fee, (x[1] + x[2]) \div 2)
                      THEN <<(x[1] + x[2]) \div 2, x[2]>>
                      ELSE <<x[1], (x[1] + x[2]) \div 2>>]]
           C == {r \in 0..(s + 1) : Covers(p, i, s, fee, r)}
<1>0. s + 1 \in Nat
  OBVIOUS
<1>1. ASSUME NEW f PROVE Search(f) <=> f = [x \in Ranges(s + 1) |-> Halves(C, f, x)]
  <2>1. ASSUME NEW x \in Ranges(s + 1)
        PROVE  Halves(C, f, x) =
               IF x[2] - x[1] <= 1 THEN x[1]
               ELSE f[IF Covers(p, i, s, fee, (x[1] + x[2]) \div 2)
                      THEN <<(x[1] + x[2]) \div 2, x[2]>>
                      ELSE <<x[1], (x[1] + x[2]) \div 2>>]
    <3>1. CASE x[2] - x[1] <= 1
      BY <3>1 DEF Halves
    <3>2. CASE ~(x[2] - x[1] <= 1)
      <4>1. Middle(x) \in 0..(s + 1)
        BY <3>2 DEF Ranges, Middle
      <4>2. Middle(x) \in C <=> Covers(p, i, s, fee, Middle(x))
        BY <4>1
      <4> HIDE DEF C
      <4> QED
        BY <3>2, <4>2, Zenon DEF Halves, Half, Middle
    <3> QED
      BY <3>1, <3>2
  <2> HIDE DEF C
  <2> QED
    BY <2>1 DEF Ranges
<1>2. \E f : Search(f)
  <2> HIDE DEF C, Search
  <2>1. \E f : f = [x \in Ranges(s + 1) |-> Halves(C, f, x)]
    BY <1>0, BisectionExists
  <2> QED
    BY <1>1, <2>1, Zenon
<1> DEFINE f == CHOOSE g : Search(g)
<1>3. Search(f)
  <2> HIDE DEF Search
  <2> QED
    BY <1>2
<1>4. SellAmount(p, i, s, fee) = IF s = 0 THEN 0 ELSE f[<<0, s + 1>>]
  BY Zenon DEF SellAmount
<1> HIDE DEF f
<1>5. f = [x \in Ranges(s + 1) |-> Halves(C, f, x)]
  <2> HIDE DEF C, Search
  <2> QED
    BY <1>1, <1>3, Zenon
<1> HIDE DEF C, Search
<1>7. \A x \in Ranges(s + 1) : f[x] \in 0..(s + 1)
  BY <1>0, <1>5, BisectionStays
<1>8. <<0, s + 1>> \in Ranges(s + 1)
  BY DEF Ranges
<1>9. f[<<0, s + 1>>] \in Nat
  BY <1>7, <1>8
<1> QED
  BY <1>4, <1>9

-----------------------------------------------------------------------------
\* Quotients rounded down and up.
LEMMA Quotients ==
  ASSUME NEW a \in Nat, NEW b \in Nat \ {0}
  PROVE  /\ a \div b \in Nat /\ b * (a \div b) <= a /\ a < b * (a \div b) + b
         /\ CeilDiv(a, b) \in Nat /\ b * CeilDiv(a, b) >= a
         /\ b * CeilDiv(a, b) < a + b
<1>1. a \div b \in Nat /\ b * (a \div b) <= a /\ a < b * (a \div b) + b
  OBVIOUS
<1> DEFINE q == (-a) \div b
<1>2. q \in Int /\ b * q <= -a /\ -a < b * q + b
  OBVIOUS
<1>3. b * (-q) = -(b * q)
  BY <1>2
<1> HIDE DEF q
<1>4. b * (-q) >= a /\ b * (-q) < a + b
  BY <1>2, <1>3
<1>5. -q \in Nat
  <2>1. q <= 0
    <3>1. b * q <= 0
      BY <1>2
    <3>2. q > 0 => b * q > 0
      BY <1>2
    <3> QED
      BY <1>2, <3>1, <3>2
  <2> QED
    BY <1>2, <2>1
<1>6. CeilDiv(a, b) = -q
  BY DEF CeilDiv, q
<1> QED
  BY <1>1, <1>4, <1>5, <1>6

\* A quotient that is rounded up is no more than a bound, and above zero.
LEMMA RoundedUp ==
  ASSUME NEW a \in Nat, NEW b \in Nat \ {0}, NEW c \in Nat
  PROVE  /\ a <= c * b => CeilDiv(a, b) <= c
         /\ a > 0 => CeilDiv(a, b) > 0
         /\ c * b <= a => c <= CeilDiv(a, b)
<1> DEFINE q == CeilDiv(a, b)
<1>1. q \in Nat /\ b * q >= a /\ b * q < a + b
  BY Quotients
<1> HIDE DEF q
<1>2. ASSUME a <= c * b PROVE q <= c
  <2>1. b * q < c * b + b
    BY <1>1, <1>2
  <2>2. b * (c + 1 - q) > 0
    BY <1>1, <2>1
  <2>3. c + 1 - q > 0
    BY <1>1, <2>2
  <2> QED
    BY <1>1, <2>3
<1>3. ASSUME a > 0 PROVE q > 0
  BY <1>1, <1>3
<1>4. ASSUME c * b <= a PROVE c <= q
  <2>1. c * b <= b * q
    BY <1>1, <1>4
  <2>2. b * (q - c) >= 0
    BY <1>1, <2>1
  <2>3. q - c >= 0
    BY <1>1, <2>2
  <2> QED
    BY <1>1, <2>3
<1> QED
  BY <1>2, <1>3, <1>4 DEF q

\* A part of something is no more than that.
LEMMA PartOf ==
  ASSUME NEW a \in Nat, NEW b \in Nat, NEW c \in Nat \ {0}, b <= c
  PROVE  /\ (a * b) \div c \in 0..a
         /\ a > 0 /\ b < c => (a * b) \div c < a
<1> DEFINE q == (a * b) \div c
<1>1. a * b \in Nat
  OBVIOUS
<1>2. q \in Nat /\ c * q <= a * b
  BY <1>1, Quotients
<1> HIDE DEF q
<1>3. a * b <= a * c
  OBVIOUS
<1>4. c * (a - q) >= 0
  BY <1>1, <1>2, <1>3
<1>5. a - q >= 0
  BY <1>2, <1>4
<1>6. ASSUME a > 0, b < c PROVE q < a
  <2>1. a * b < a * c
    BY <1>6
  <2>2. c * (a - q) > 0
    BY <1>1, <1>2, <2>1
  <2> QED
    BY <1>2, <2>2
<1> QED
  BY <1>2, <1>5, <1>6 DEF q

\* Fees leave at most the amount of a purchase, and add to that of a sale.
LEMMA Fees ==
  ASSUME NEW a \in Nat, NEW fee \in 0..99
  PROVE  /\ Invested(a, fee) \in 0..a
         /\ Gross(a, fee) \in Nat /\ Gross(a, fee) >= a
<1>1. Invested(a, fee) \in 0..a
  <2>1. (fee * a) \div 100 \in 0..a
    BY PartOf
  <2>2. (0 * a * (1000 - 0)) \div 100000 = 0
    OBVIOUS
  <2>3. Invested(a, fee) = a - (0 + (fee * a) \div 100 + (0 * a * (1000 - 0)) \div 100000)
    BY DEF Invested, AfterFees, TotalFee, Proportional
  <2> QED
    BY <2>1, <2>2, <2>3
<1>2. Gross(a, fee) \in Nat /\ Gross(a, fee) >= a
  <2>1. a * 100 \in Nat /\ 100 - fee \in Nat \ {0} /\ a * (100 - fee) <= a * 100
    OBVIOUS
  <2>2. Gross(a, fee) = CeilDiv(a * 100, 100 - fee)
    BY DEF Gross
  <2>3. CeilDiv(a * 100, 100 - fee) \in Nat
    BY <2>1, Quotients
  <2>4. a <= CeilDiv(a * 100, 100 - fee)
    BY <2>1, RoundedUp
  <2> QED
    BY <2>2, <2>3, <2>4
<1> QED
  BY <1>1, <1>2

\* Pools of tokens, some of every outcome.
Filled(n) == {p \in [1..n -> Nat] : \A j \in 1..n : p[j] > 0}

\* What is left of an outcome when amount is added to the others.
LEMMA Ending ==
  ASSUME NEW n \in Nat, NEW p \in Filled(n), NEW i \in 1..n, NEW x \in Int,
         \A j \in 1..n : j # i => p[j] + x > 0
  PROVE  /\ EndingBalance(p, i, x) \in Nat \ {0}
         /\ x >= 0 => EndingBalance(p, i, x) <= p[i]
         /\ \A y \in Nat \ {0} : Shift(p, i, x, y) \in Filled(n)
<1> DEFINE u == [j \in 1..n |-> IF j = i THEN 1 ELSE p[j] + x]
<1>1. p \in [1..n -> Nat] /\ DOMAIN p = 1..n /\ \A j \in 1..n : p[j] \in Nat /\ p[j] > 0
  BY DEF Filled
<1>2. u \in [1..n -> Nat] /\ u[i] = 1 /\ \A j \in 1..n : u[j] > 0
  BY <1>1
<1>3. Others(Shift(p, i, x, 0), i) = u
  <2>1. Shift(p, i, x, 0) = [j \in 1..n |-> IF j = i THEN 0 ELSE p[j] + x]
    BY <1>1, Zenon DEF Shift
  <2> QED
    BY <2>1 DEF Others
<1>4. \A j \in 1..n : x >= 0 /\ j # i => p[j] <= u[j]
  BY <1>1
<1> HIDE DEF u
<1>5. ProductOf(p) \in Nat /\ ProductOf(p) > 0
  BY <1>1, ProductIsPositive
<1>6. ProductOf(u) \in Nat /\ ProductOf(u) > 0
  BY <1>2, ProductIsPositive
<1>7. EndingBalance(p, i, x) = CeilDiv(ProductOf(p), ProductOf(u))
  BY <1>3, Zenon DEF EndingBalance
<1>8. CeilDiv(ProductOf(p), ProductOf(u)) \in Nat \ {0}
  <2>1. ProductOf(u) \in Nat \ {0}
    BY <1>6
  <2>2. CeilDiv(ProductOf(p), ProductOf(u)) \in Nat
    BY <1>5, <2>1, Quotients
  <2>3. CeilDiv(ProductOf(p), ProductOf(u)) > 0
    BY <1>5, <2>1, RoundedUp
  <2> QED
    BY <2>2, <2>3
<1>9. ASSUME x >= 0 PROVE CeilDiv(ProductOf(p), ProductOf(u)) <= p[i]
  <2>1. ProductOf(p) <= p[i] * ProductOf(u)
    BY <1>1, <1>2, <1>4, <1>9, FactorOut
  <2>2. ProductOf(u) \in Nat \ {0} /\ p[i] \in Nat
    BY <1>1, <1>6
  <2> QED
    BY <1>5, <2>1, <2>2, RoundedUp
<1>10. ASSUME NEW y \in Nat \ {0} PROVE Shift(p, i, x, y) \in Filled(n)
  BY <1>1 DEF Shift, Filled
<1> QED
  BY <1>7, <1>8, <1>9, <1>10

\* A purchase: the pool remains filled and the buyer gets something.
LEMMA Purchase ==
  ASSUME NEW n \in Nat, NEW p \in Filled(n), NEW i \in 1..n, NEW a \in Nat,
         NEW fee \in 0..99
  PROVE  /\ PoolAfterBuy(p, i, a, fee) \in Filled(n)
         /\ SharesBought(p, i, a, fee) \in Nat
<1> DEFINE x == Invested(a, fee)
<1>1. x \in Nat
  <2>1. x \in 0..a
    BY Fees
  <2> HIDE DEF x
  <2> QED
    BY <2>1
<1>2. \A j \in 1..n : p[j] \in Nat /\ p[j] > 0
  BY DEF Filled
<1> HIDE DEF x
<1>3. \A j \in 1..n : j # i => p[j] + x > 0
  BY <1>1, <1>2
<1>4. /\ EndingBalance(p, i, x) \in Nat \ {0} /\ EndingBalance(p, i, x) <= p[i]
      /\ \A y \in Nat \ {0} : Shift(p, i, x, y) \in Filled(n)
  BY <1>1, <1>3, Ending
<1>5. PoolAfterBuy(p, i, a, fee) \in Filled(n)
  BY <1>4 DEF PoolAfterBuy, x
<1>6. SharesBought(p, i, a, fee) = p[i] + x - EndingBalance(p, i, x)
  BY DEF SharesBought, x
<1> QED
  BY <1>1, <1>2, <1>4, <1>5, <1>6

\* A sale of which the other balances can pay.
LEMMA Sale ==
  ASSUME NEW n \in Nat, NEW p \in Filled(n), NEW i \in 1..n, NEW a \in Nat,
         NEW fee \in 0..99, \A j \in 1..n \ {i} : Gross(a, fee) < p[j]
  PROVE  /\ PoolAfterSell(p, i, a, fee) \in Filled(n)
         /\ SharesSold(p, i, a, fee) \in Int
<1> DEFINE x == Gross(a, fee)
<1>1. x \in Nat
  BY Fees
<1>2. \A j \in 1..n : p[j] \in Nat /\ p[j] > 0
  BY DEF Filled
<1>3. \A j \in 1..n \ {i} : x < p[j]
  OBVIOUS
<1> HIDE DEF x
<1>4. \A j \in 1..n : j # i => p[j] + (-x) > 0
  BY <1>1, <1>2, <1>3
<1>5. -x \in Int
  BY <1>1
<1>6. /\ EndingBalance(p, i, -x) \in Nat \ {0}
      /\ \A y \in Nat \ {0} : Shift(p, i, -x, y) \in Filled(n)
  BY <1>4, <1>5, Ending
<1>7. PoolAfterSell(p, i, a, fee) \in Filled(n)
  BY <1>6, Zenon DEF PoolAfterSell, x
<1>8. SharesSold(p, i, a, fee) = x + EndingBalance(p, i, -x) - p[i]
  BY Zenon DEF SharesSold, x
<1> QED
  BY <1>1, <1>2, <1>6, <1>7, <1>8

-----------------------------------------------------------------------------
Wallets == [Tokens \cup {"xdai"} -> Nat]

LEMMA Constants ==
  /\ \A m \in Markets : Token[m] \in Tokens /\ Slots[m] \in {2, 3}
                        /\ Funds[m] \in Nat /\ OthersFunds[m] \in Nat
  /\ \A t \in Tokens : Worth[t] \in Nat \ {0} /\ Slippage[t] \in 0..99
  /\ "wxdai" \in Tokens /\ "xdai" \notin Tokens
  /\ Fee \in 0..99 /\ Stake \in Nat /\ OtherBet \in Nat
  /\ Balances \in Wallets /\ DOMAIN Funds = Markets
<1>1. /\ Token \in [Markets -> Tokens] /\ Slots \in [Markets -> {2, 3}]
      /\ Funds \in [Markets -> Nat] /\ OthersFunds \in [Markets -> Nat]
      /\ Fee \in 0..99 /\ Stake \in Nat /\ OtherBet \in Nat
      /\ Balances \in [Tokens \cup {"xdai"} -> Nat]
  BY OmenAssumption
<1>2. /\ \A t \in Tokens : Worth[t] \in Nat \ {0} /\ Slippage[t] \in 0..99
      /\ "wxdai" \in Tokens /\ "xdai" \notin Tokens
  BY CollateralAssumption
<1> QED
  BY <1>1, <1>2 DEF Wallets

LEMMA Conversions ==
  ASSUME NEW t \in Tokens, NEW a \in Nat
  PROVE  /\ ToAssets(t, a) \in Nat /\ ToShares(t, a) \in Nat /\ InToken(t, a) \in Nat
         /\ SellFor(t, a) \in Nat /\ Burned(t, a) \in Nat
         /\ WithSurplus(a) \in Nat /\ WithSurplus(a) >= a
         /\ \A got \in Results(t, a) : got \in Nat
<1>1. Worth[t] \in Nat \ {0} /\ Slippage[t] \in 0..99
  BY Constants
<1>2. a * Worth[t] \in Nat /\ a * 100 \in Nat
  BY <1>1
<1>3. /\ (a * Worth[t]) \div 100 \in Nat /\ (a * 100) \div Worth[t] \in Nat
      /\ CeilDiv(a * Worth[t], 100) \in Nat /\ CeilDiv(a * 100, Worth[t]) \in Nat
  <2>1. \A x \in Nat : \A d \in Nat \ {0} : x \div d \in Nat /\ CeilDiv(x, d) \in Nat
    BY Quotients
  <2>2. 100 \in Nat \ {0}
    OBVIOUS
  <2> QED
    BY <1>1, <1>2, <2>1, <2>2, Zenon
<1>4. /\ ToAssets(t, a) \in Nat /\ ToShares(t, a) \in Nat /\ InToken(t, a) \in Nat
      /\ SellFor(t, a) \in Nat /\ Burned(t, a) \in Nat
  BY <1>3 DEF ToAssets, ToShares, InToken, SellFor, Burned
<1>5. WithSurplus(a) \in Nat /\ WithSurplus(a) >= a
  BY DEF WithSurplus
<1>6. (a * Slippage[t]) \div 100 \in 0..a
  <2>1. Slippage[t] \in Nat /\ Slippage[t] <= 100 /\ 100 \in Nat \ {0}
    BY <1>1
  <2> QED
    BY <2>1, PartOf
<1>7. Least(t, a) \in Nat
  BY <1>6 DEF Least
<1> QED
  BY <1>4, <1>5, <1>7 DEF Results

\* More shares are worth no less.
LEMMA Monotone ==
  ASSUME NEW t \in Tokens, NEW a \in Nat, NEW b \in Nat, a <= b
  PROVE  ToAssets(t, a) <= ToAssets(t, b)
<1>1. Worth[t] \in Nat
  BY Constants
<1>2. a * Worth[t] \in Nat /\ b * Worth[t] \in Nat
  BY <1>1
<1>3. a * Worth[t] <= b * Worth[t]
  BY <1>1
<1>4. \A x, y \in Nat : x <= y => x \div 100 <= y \div 100
  OBVIOUS
<1> QED
  BY <1>2, <1>3, <1>4 DEF ToAssets

LEMMA Spending ==
  ASSUME NEW w \in Wallets, NEW t \in Tokens, NEW a \in Nat, w[t] < a
  PROVE  Spend(w, t, a) \in Nat
<1>1. w[t] \in Nat /\ w[t] <= a /\ a - w[t] \in Nat
  BY DEF Wallets
<1>2. VaultSpend(w, t, a) \in Nat
  <2>1. ToAssets(t, a) \in Nat /\ ToAssets(t, w[t]) \in Nat
    BY <1>1, Conversions
  <2>2. ToAssets(t, w[t]) <= ToAssets(t, a)
    BY <1>1, Monotone
  <2> QED
    BY <2>1, <2>2 DEF VaultSpend
<1>3. SwapSpend(w, t, a) \in Nat
  BY <1>1, Conversions DEF SwapSpend
<1> QED
  BY <1>2, <1>3 DEF Spend

\* What is wrapped suffices, and leaves the other tokens alone.
LEMMA Wrapping ==
  ASSUME NEW w \in Wallets, NEW n \in Nat, CanWrap(w, n)
  PROVE  /\ Wrap(w, n) \in Wallets
         /\ Wrap(w, n)["wxdai"] >= n
         /\ \A t \in Tokens : t # "wxdai" => Wrap(w, n)[t] = w[t]
<1> DEFINE s == Short(w, n)
<1>1. "wxdai" \in Tokens /\ "xdai" \notin Tokens
  BY Constants
<1>2. w["wxdai"] \in Nat /\ w["xdai"] \in Nat
  BY <1>1 DEF Wallets
<1>3. s \in Nat /\ w["xdai"] >= s /\ w["wxdai"] + s >= n
  BY <1>2 DEF CanWrap, Short, Greater
<1>4. Wrap(w, n) = [w EXCEPT !["xdai"] = @ - s, !["wxdai"] = @ + s]
  BY DEF Wrap
<1> HIDE DEF s
<1>5. Wrap(w, n)["wxdai"] = w["wxdai"] + s
  BY <1>1, <1>4 DEF Wallets
<1>6. Wrap(w, n) \in Wallets
  BY <1>1, <1>2, <1>3, <1>4 DEF Wallets
<1>7. ASSUME NEW t \in Tokens, t # "wxdai" PROVE Wrap(w, n)[t] = w[t]
  BY <1>1, <1>4, <1>7 DEF Wallets
<1> QED
  BY <1>3, <1>5, <1>6, <1>7

\* Tokens other than the wrapper.
LEMMA Kinds ==
  ASSUME NEW t \in Tokens
  PROVE  /\ Kind(t) \in {"wrapper", "vault", "erc20"}
         /\ Kind(t) # "wrapper" <=> t # "wxdai"
         /\ Kind(t) = "vault" => t = "sdai"
BY DEF Kind

\* A conversion of wxDai, into a token or back.
LEMMA Converting ==
  ASSUME NEW w \in Wallets, NEW t \in Tokens, t # "wxdai",
         NEW spent \in Int, NEW got \in Int, w["wxdai"] >= spent, w[t] + got >= 0
  PROVE  /\ Convert(w, t, spent, got) \in Wallets
         /\ Convert(w, t, spent, got)[t] = w[t] + got
<1>1. "wxdai" \in Tokens /\ w["wxdai"] \in Nat /\ w[t] \in Nat
  BY Constants DEF Wallets
<1>2. Convert(w, t, spent, got) = [w EXCEPT !["wxdai"] = @ - spent, ![t] = @ + got]
  BY DEF Convert
<1>3. w["wxdai"] - spent \in Nat /\ w[t] + got \in Nat
  BY <1>1
<1>4. Convert(w, t, spent, got)[t] = w[t] + got
  BY <1>1, <1>2 DEF Wallets
<1>5. Convert(w, t, spent, got) \in Wallets
  BY <1>1, <1>2, <1>3 DEF Wallets
<1> QED
  BY <1>4, <1>5

LEMMA Depositing ==
  ASSUME NEW w \in Wallets, NEW t \in Tokens, t # "wxdai", NEW a \in Nat, w[t] < a,
         w["wxdai"] >= Spend(w, t, a), NEW v \in Deposits(w, t, a)
  PROVE  /\ v \in Wallets
         /\ Kind(t) = "vault" => v[t] = w[t] + ToShares(t, Spend(w, t, a))
<1> DEFINE n == Spend(w, t, a)
<1>1. n \in Nat
  BY Spending
<1>2. PICK got \in IF Kind(t) = "vault" THEN {ToShares(t, n)} ELSE Results(t, ToShares(t, n)) :
          v = Convert(w, t, n, got)
  BY Zenon DEF Deposits
<1>3. w["wxdai"] >= n /\ w[t] \in Nat
  BY DEF Wallets
<1> HIDE DEF n
<1>4. ToShares(t, n) \in Nat
  BY <1>1, Conversions
<1>5. got \in Nat
  BY <1>2, <1>4, Conversions
<1>6. Convert(w, t, n, got) \in Wallets /\ Convert(w, t, n, got)[t] = w[t] + got
  BY <1>1, <1>3, <1>5, Converting
<1>7. Kind(t) = "vault" => got = ToShares(t, n)
  BY <1>2
<1> QED
  BY <1>2, <1>6, <1>7 DEF n

\* What a withdrawal from the vault burns.
LEMMA Burning ==
  ASSUME NEW t \in Tokens, NEW a \in Nat
  PROVE  /\ Burned(t, ToAssets(t, a)) \in 0..a
         /\ Worth[t] >= 50 => a - Burned(t, ToAssets(t, a)) \in 0..1
<1> DEFINE W == Worth[t]
           b == (a * W) \div 100
           q == CeilDiv(b * 100, W)
<1>1. W \in Nat \ {0}
  BY Constants
<1> HIDE DEF W
<1>2. a * W \in Nat
  BY <1>1
<1>3. b \in Nat /\ 100 * b <= a * W /\ a * W < 100 * b + 100
  <2>1. 100 \in Nat \ {0}
    OBVIOUS
  <2> QED
    BY <1>2, <2>1, Quotients
<1> HIDE DEF b
<1>4. b * 100 \in Nat /\ b * 100 <= a * W
  BY <1>2, <1>3
<1>5. q \in Nat /\ q <= a /\ W * q >= b * 100
  <2>1. q \in Nat /\ W * q >= b * 100
    BY <1>1, <1>4, Quotients
  <2>2. q <= a
    BY <1>1, <1>4, RoundedUp
  <2> QED
    BY <2>1, <2>2
<1> HIDE DEF q
<1>6. ASSUME W >= 50 PROVE a - q <= 1
  <2>1. W * q > a * W - 100
    BY <1>1, <1>2, <1>3, <1>5
  <2>2. W * (a - q) < 100
    BY <1>1, <1>5, <2>1
  <2>3. a - q >= 2 => W * (a - q) >= 100
    <3>1. a - q >= 2 => W * (a - q) >= W * 2
      BY <1>1, <1>5
    <3> QED
      BY <1>1, <1>5, <1>6, <3>1
  <2>4. ~(a - q >= 2)
    BY <1>1, <1>5, <2>2, <2>3
  <2> QED
    BY <1>5, <2>4
<1>7. Burned(t, ToAssets(t, a)) = q
  BY DEF Burned, ToAssets, q, b, W
<1>8. q \in 0..a /\ (W >= 50 => a - q \in 0..1)
  BY <1>5, <1>6
<1> QED
  BY <1>7, <1>8 DEF W

\* A withdrawal takes at most the amount, and from a token that is exchanged
\* on CoW all of it.
LEMMA Withdrawing ==
  ASSUME NEW w \in Wallets, NEW t \in Tokens, NEW a \in Nat, w[t] >= a,
         NEW v \in Withdrawals(w, t, a)
  PROVE  /\ v \in Wallets
         /\ \/ Unwanted(t) \/ Kind(t) = "wrapper"
            \/ Worth["sdai"] < 50
            \/ v[t] - (w[t] - a) \in 0..1
<1>1. w[t] \in Nat /\ w["wxdai"] \in Nat
  BY Constants DEF Wallets
<1>2. CASE a = 0 \/ Unwanted(t) \/ Kind(t) = "wrapper"
  <2>1. v = w
    BY <1>2 DEF Withdrawals
  <2> QED
    BY <1>1, <1>2, <2>1
<1>3. CASE ~(a = 0 \/ Unwanted(t) \/ Kind(t) = "wrapper") /\ Kind(t) = "vault"
  <2> DEFINE s == ToAssets(t, a)
             q == Burned(t, s)
  <2>1. v = Convert(w, t, -s, -q)
    BY <1>3 DEF Withdrawals
  <2>2. s \in Nat /\ q \in 0..a /\ (Worth[t] >= 50 => a - q \in 0..1)
    BY Conversions, Burning
  <2>3. t = "sdai" /\ t # "wxdai"
    BY <1>3, Kinds
  <2> HIDE DEF s, q
  <2>4. -s \in Int /\ -q \in Int /\ w["wxdai"] >= -s /\ w[t] + (-q) >= 0
    BY <1>1, <2>2
  <2>5. v \in Wallets /\ v[t] = w[t] + (-q)
    BY <2>1, <2>3, <2>4, Converting
  <2>6. Worth[t] \in Nat
    BY Constants
  <2> QED
    BY <1>1, <2>2, <2>3, <2>5, <2>6
<1>4. CASE ~(a = 0 \/ Unwanted(t) \/ Kind(t) = "wrapper") /\ Kind(t) # "vault"
  <2>1. PICK got \in Results(t, ToAssets(t, a)) : v = Convert(w, t, -got, -a)
    BY <1>4, Zenon DEF Withdrawals
  <2>2. got \in Nat
    BY <2>1, Conversions
  <2>3. t # "wxdai"
    BY <1>4, Kinds
  <2>4. -got \in Int /\ -a \in Int /\ w["wxdai"] >= -got /\ w[t] + (-a) >= 0
    BY <1>1, <2>2
  <2>5. v \in Wallets /\ v[t] = w[t] + (-a)
    BY <2>1, <2>3, <2>4, Converting
  <2> QED
    BY <1>1, <2>5
<1> QED
  BY <1>2, <1>3, <1>4

-----------------------------------------------------------------------------
LEMMA InitOK == Init => IInv
<1> SUFFICES ASSUME Init PROVE IInv
  OBVIOUS
<1>1. \A m \in Markets : Token[m] \in Tokens /\ Slots[m] \in {2, 3}
                         /\ Funds[m] \in Nat /\ OthersFunds[m] \in Nat
  BY Constants
<1>2. MakersOK
  <2>1. DOMAIN pool = Markets /\ supply \in [Markets -> Nat]
    BY <1>1 DEF Init
  <2>2. ASSUME NEW m \in Markets
        PROVE  /\ pool[m] = <<>> => supply[m] = 0
               /\ pool[m] # <<>> => pool[m] \in [Outcomes(m) -> Nat]
               /\ supply[m] > 0 => \A i \in Outcomes(m) : pool[m][i] > 0
    <3>1. pool[m] = IF supply[m] = 0 THEN <<>> ELSE [i \in Outcomes(m) |-> supply[m]]
      BY DEF Init
    <3>2. supply[m] \in Nat
      BY <2>1
    <3>3. 1 \in Outcomes(m)
      BY <1>1 DEF Outcomes
    <3>4. [i \in Outcomes(m) |-> supply[m]] # <<>>
      <4>1. DOMAIN [i \in Outcomes(m) |-> supply[m]] # {}
        BY <3>3
      <4>2. DOMAIN <<>> = {}
        OBVIOUS
      <4> QED
        BY <4>1, <4>2
    <3> QED
      BY <3>1, <3>2, <3>4
  <2> QED
    BY <2>1, <2>2 DEF MakersOK
<1>3. AccountOK
  <2>1. shares \in [Markets -> Nat] /\ \A m \in Markets : shares[m] <= supply[m]
    BY <1>1, Constants, OmenAssumption DEF Init
  <2>2. wallet \in [Tokens \cup {"xdai"} -> Nat]
    BY OmenAssumption DEF Init
  <2> QED
    BY <2>1, <2>2 DEF Init, AccountOK
<1>4. QuestionsOK
  BY DEF Init, QuestionsOK, None
<1>5. BooksOK /\ CountersOK
  BY DEF Init, BooksOK, CountersOK
<1>6. CallOK /\ BalanceKept /\ SetsMerged
  BY DEF Init, CallOK, Idle, BalanceKept, SetsMerged, At
<1> QED
  BY <1>2, <1>3, <1>4, <1>5, <1>6 DEF IInv, WorldOK, Going

\* Nothing but the call changes.
LEMMA WorldUnchanged ==
  ASSUME WorldOK, UNCHANGED <<market, question, account, wallet, books>>
  PROVE  WorldOK'
BY DEF WorldOK, MakersOK, QuestionsOK, AccountOK, BooksOK, market, question, account, books

\* A call that is over, and one that raised: a purchase may be tried again.
LEMMA IdleGoes ==
  ASSUME call' = Idle
  PROVE  Going'
BY DEF Going, CallOK, Idle, BalanceKept, SetsMerged, At

LEMMA RaisedGoes ==
  ASSUME RunOK, call' = Raised
  PROVE  Going'
<1>1. CASE call' = Idle
  BY <1>1, IdleGoes
<1>2. CASE call.op = "buy" /\ call' = [call EXCEPT !.tries = @ + 1, !.at = "quote"]
  <2>1. /\ DOMAIN call' = DOMAIN call
        /\ call'.op = "buy" /\ call'.at = "quote" /\ call'.m = call.m /\ call'.i = call.i
        /\ call'.amount = call.amount /\ call'.before = call.before
    BY <1>2 DEF RunOK
  <2>2. "quote" \in DOMAIN Places /\ "buy" \in Places["quote"]
    BY DEF Places
  <2>3. call.m \in Markets /\ call.i \in Outcomes(call.m)
        /\ call.amount \in Nat /\ call.before \in Nat
    BY <1>2 DEF RunOK
  <2>4. RunOK'
    BY <2>1, <2>2, <2>3 DEF RunOK, SwapOK, ListOK, At
  <2>5. BalanceKept' /\ SetsMerged'
    BY <2>1 DEF BalanceKept, SetsMerged, At
  <2> QED
    BY <2>4, <2>5 DEF Going, CallOK
<1> QED
  BY <1>1, <1>2 DEF Raised

\* The call goes on as it was.
LEMMA CallUnchanged ==
  ASSUME Going, UNCHANGED <<call, wallet, held, shares>>,
         \A m \in Markets : pool[m] # <<>> => pool'[m] # <<>>
  PROVE  Going'
<1>1. ASSUME RunOK PROVE RunOK'
  <2>1. SwapOK' /\ ListOK'
    BY <1>1 DEF RunOK, SwapOK, ListOK, Requested
  <2>2. call.op = "fund" => pool'[call.m] # <<>>
    <3>1. call.op = "fund" => call.m \in Markets
      BY <1>1 DEF RunOK
    <3>2. call.op = "fund" => pool[call.m] # <<>>
      BY <1>1 DEF RunOK
    <3> QED
      BY <3>1, <3>2
  <2> QED
    BY <1>1, <2>1, <2>2 DEF RunOK, At
<1>2. BalanceKept' /\ SetsMerged'
  BY DEF Going, BalanceKept, SetsMerged, At, Balance
<1> QED
  BY <1>1, <1>2 DEF Going, CallOK

\* A step of a running call, and what it leaves to be shown.
LEMMA Running ==
  ASSUME Going, call.at # "idle"
  PROVE  RunOK /\ call # Idle
BY DEF Going, CallOK, Idle

LEMMA MinedCounts ==
  ASSUME CountersOK, NEW next, Mined(next), UNCHANGED chain
  PROVE  CountersOK' /\ (call' = next \/ call' = Raised)
BY DEF CountersOK, Mined, Fault, chain, bounds

\* A market maker with a new balance and supply.
LEMMA MakersStep ==
  ASSUME MakersOK, NEW m \in Markets, NEW p \in [Outcomes(m) -> Nat], NEW s \in Nat,
         s > 0 => \A i \in Outcomes(m) : p[i] > 0,
         pool' = [pool EXCEPT ![m] = p], supply' = [supply EXCEPT ![m] = s]
  PROVE  /\ MakersOK'
         /\ \A x \in Markets : pool[x] # <<>> => pool'[x] # <<>>
<1>1. p # <<>>
  <2>1. 1 \in Outcomes(m)
    BY Constants DEF Outcomes
  <2>2. DOMAIN p # {} /\ DOMAIN <<>> = {}
    BY <2>1
  <2> QED
    BY <2>2
<1>2. DOMAIN pool' = Markets /\ supply' \in [Markets -> Nat]
  BY DEF MakersOK
<1>3. /\ \A x \in Markets \ {m} : pool'[x] = pool[x] /\ supply'[x] = supply[x]
      /\ pool'[m] = p /\ supply'[m] = s
  BY DEF MakersOK
<1>4. ASSUME NEW x \in Markets
      PROVE  /\ pool'[x] = <<>> => supply'[x] = 0
             /\ pool'[x] # <<>> => pool'[x] \in [Outcomes(x) -> Nat]
             /\ supply'[x] > 0 => \A i \in Outcomes(x) : pool'[x][i] > 0
  <2>1. CASE x = m
    BY <1>1, <1>3, <2>1
  <2>2. CASE x # m
    BY <1>3, <2>2 DEF MakersOK
  <2> QED
    BY <2>1, <2>2
<1>5. MakersOK'
  BY <1>2, <1>4 DEF MakersOK
<1>6. \A x \in Markets : pool[x] # <<>> => pool'[x] # <<>>
  BY <1>1, <1>3
<1> QED
  BY <1>5, <1>6

\* What the account holds of a market, its shares and its fees.
LEMMA AccountStep ==
  ASSUME AccountOK, NEW m \in Markets, NEW h \in [Outcomes(m) -> Nat],
         NEW s \in Nat, NEW e \in Nat,
         held' = held \/ held' = [held EXCEPT ![m] = h],
         shares' = [shares EXCEPT ![m] = s],
         earned' = [earned EXCEPT ![m] = e],
         s <= supply'[m], \A x \in Markets \ {m} : supply'[x] = supply[x],
         wallet' \in Wallets
  PROVE  AccountOK'
<1>1. DOMAIN held' = Markets /\ shares' \in [Markets -> Nat] /\ earned' \in [Markets -> Nat]
  BY DEF AccountOK
<1>2. \A x \in Markets : held'[x] \in [Outcomes(x) -> Nat]
  BY DEF AccountOK
<1>3. \A x \in Markets : shares'[x] <= supply'[x]
  BY DEF AccountOK
<1> QED
  BY <1>1, <1>2, <1>3 DEF AccountOK, Wallets

\* A call that goes on at another place.
LEMMA Goes ==
  ASSUME RunOK, NEW place, call' = Go(place)
  PROVE  /\ DOMAIN call' = DOMAIN call /\ call'.at = place
         /\ call'.op = call.op /\ call'.m = call.m /\ call'.i = call.i
         /\ call'.amount = call.amount /\ call'.limit = call.limit
         /\ call'.before = call.before /\ call'.todo = call.todo
BY DEF RunOK, Go

\* It remains well-formed, with a limit or with another amount.
SameCall(place) ==
    /\ DOMAIN call' = DOMAIN call /\ call'.at = place
    /\ call'.op = call.op /\ call'.m = call.m /\ call'.i = call.i
    /\ call'.before = call.before /\ call'.todo = call.todo

LEMMA CallGoesOn ==
  ASSUME RunOK, NEW place \in DOMAIN Places, call.op \in Places[place],
         place \notin {"swap", "remove", "quote"}, call.m \in Markets,
         call.op = "liquidate" /\ place = "trade" => call.i \in Outcomes(call.m),
         SameCall(place), call'.amount \in Nat,
         \A x \in Markets : pool[x] # <<>> => pool'[x] # <<>>
  PROVE  RunOK'
<1>1. /\ DOMAIN call' = DOMAIN call /\ call'.at = place
      /\ call'.op = call.op /\ call'.m = call.m /\ call'.i = call.i
      /\ call'.before = call.before /\ call'.todo = call.todo
  BY DEF SameCall
<1>2. SwapOK' /\ ListOK'
  BY <1>1 DEF RunOK, SwapOK, ListOK
<1>3. call.op = "fund" => pool'[call.m] # <<>>
  BY DEF RunOK
<1>4. call.op \in {"buy", "sell"} => call.i \in Outcomes(call.m)
  BY DEF RunOK
<1>5. call.before \in Nat
  BY DEF RunOK
<1>6. DOMAIN call = {"op", "m", "i", "amount", "limit", "at", "tries", "todo", "before"}
  BY DEF RunOK
<1> QED
  BY <1>1, <1>2, <1>3, <1>4, <1>5, <1>6 DEF RunOK, At

LEMMA GoesOn ==
  ASSUME RunOK, NEW place \in DOMAIN Places, call.op \in Places[place],
         place \notin {"swap", "remove", "quote"}, call.m \in Markets,
         call.op = "liquidate" /\ place = "trade" => call.i \in Outcomes(call.m),
         call' = Go(place),
         \A x \in Markets : pool[x] # <<>> => pool'[x] # <<>>
  PROVE  RunOK'
<1>1. SameCall(place) /\ call'.amount = call.amount
  BY Goes DEF SameCall
<1>2. call'.amount \in Nat
  BY <1>1 DEF RunOK
<1> QED
  BY <1>1, <1>2, CallGoesOn

\* A payment that goes on.
LEMMA WantingGoes ==
  ASSUME RunOK, NEW place \in {"trade", "ask", "prepare"}, call.op \in Wanting,
         call.op \in Places[place], call' = Go(place),
         \A x \in Markets : pool[x] # <<>> => pool'[x] # <<>>
  PROVE  Going'
<1>1. call.m \in Markets
  BY DEF RunOK, Wanting
<1>2. RunOK'
  <2>1. place \in DOMAIN Places
    BY DEF Places
  <2>2. call.op # "liquidate"
    BY DEF Wanting
  <2> QED
    BY <1>1, <2>1, <2>2, GoesOn
<1>3. call'.op \in Wanting /\ call'.at = place
  BY Goes
<1>4. BalanceKept' /\ SetsMerged'
  BY <1>3 DEF BalanceKept, SetsMerged, At, Wanting
<1> QED
  BY <1>2, <1>4 DEF Going, CallOK

LEMMA DepositedPlace ==
  ASSUME call.op \in Wanting
  PROVE  Deposited \in {"trade", "ask", "prepare"} /\ call.op \in Places[Deposited]
BY DEF Wanting, Deposited, Places

\* Only the wallet changes.
LEMMA WalletMoves ==
  ASSUME WorldOK, UNCHANGED <<market, question, account, books>>, wallet' \in Wallets
  PROVE  WorldOK' /\ \A x \in Markets : pool[x] # <<>> => pool'[x] # <<>>
<1>1. MakersOK' /\ QuestionsOK' /\ BooksOK'
  BY DEF WorldOK, MakersOK, QuestionsOK, BooksOK, market, question, books
<1>2. AccountOK'
  BY DEF WorldOK, AccountOK, account, market, Wallets
<1> QED
  BY <1>1, <1>2 DEF WorldOK, market

LEMMA EnoughStep ==
  ASSUME IInv, EnoughCollateral
  PROVE  IInv'
<1>1. RunOK
  BY Running DEF IInv, EnoughCollateral, At
<1>2. call.op \in Wanting
  BY DEF EnoughCollateral, At
<1>3. WorldOK'
  <2>1. UNCHANGED <<market, question, account, wallet, books>>
    BY DEF EnoughCollateral, chain
  <2> QED
    BY <2>1, WorldUnchanged DEF IInv
<1>4. CountersOK'
  BY DEF IInv, EnoughCollateral, CountersOK, chain, bounds
<1>5. Going'
  <2>1. call' = Go(Deposited) /\ pool' = pool
    BY DEF EnoughCollateral, market
  <2> QED
    BY <1>1, <1>2, <2>1, DepositedPlace, WantingGoes
<1> QED
  BY <1>3, <1>4, <1>5 DEF IInv

\* The xDai that is wrapped for a payment is enough for it.
Needed(w) ==
    IF Kind(Token[call.m]) = "wrapper" THEN Requested
    ELSE Spend(w, Token[call.m], Requested)

LEMMA WrapBrings ==
  ASSUME IInv, WrapShort
  PROVE  /\ wallet' \in Wallets /\ wallet'["wxdai"] >= Needed(wallet)
         /\ \A x \in Tokens : x # "wxdai" => wallet'[x] = wallet[x]
<1> DEFINE t == Token[call.m]
<1>1. RunOK /\ call.op \in Wanting /\ wallet \in Wallets
  BY Running DEF IInv, WrapShort, At, WorldOK, AccountOK, Wallets
<1>2. call.m \in Markets /\ t \in Tokens /\ call.amount \in Nat
  BY <1>1, Constants DEF RunOK, Wanting
<1>3. /\ ~Enough(wallet, t, Requested) /\ Affordable(wallet, t, Requested)
      /\ wallet' = Wrapped(wallet, t, Requested)
      /\ Mined(Go(IF Kind(t) = "wrapper" THEN Deposited ELSE "swap"))
      /\ UNCHANGED <<chain, market, account, books>>
  BY DEF WrapShort
<1> DEFINE r == Requested
           n == Needed(wallet)
<1>4. r \in Nat
  BY <1>2, Conversions DEF Requested
<1>5. wallet[t] \in Nat /\ wallet[t] < r
  <2>1. wallet[t] \in Nat
    BY <1>1, <1>2 DEF Wallets
  <2> HIDE DEF t, r
  <2>2. ~(wallet[t] >= r)
    BY <1>3 DEF Enough, r
  <2> QED
    BY <1>4, <2>1, <2>2
<1>6. n \in Nat
  <2>1. Spend(wallet, t, r) \in Nat
    BY <1>1, <1>2, <1>4, <1>5, Spending
  <2> QED
    BY <1>4, <2>1 DEF Needed
<1>7. CanWrap(wallet, n) /\ wallet' = Wrap(wallet, n)
  BY <1>3, Zenon DEF Affordable, Wrapped, Needed
<1> HIDE DEF n
<1> QED
  BY <1>1, <1>6, <1>7, Wrapping DEF n

\* A payment to which the wallet's xDai is wrapped.
LEMMA WrapStep ==
  ASSUME IInv, WrapShort
  PROVE  IInv'
<1> DEFINE t == Token[call.m]
           r == Requested
<1>1. RunOK /\ call.op \in Wanting
  BY Running DEF IInv, WrapShort, At
<1>2. call.m \in Markets /\ t \in Tokens
  BY <1>1, Constants DEF RunOK, Wanting
<1>3. /\ ~Enough(wallet, t, r)
      /\ Mined(Go(IF Kind(t) = "wrapper" THEN Deposited ELSE "swap"))
      /\ UNCHANGED <<chain, market, account, books>>
  BY DEF WrapShort
<1>4. /\ wallet' \in Wallets /\ wallet'["wxdai"] >= Needed(wallet)
      /\ \A x \in Tokens : x # "wxdai" => wallet'[x] = wallet[x]
  BY WrapBrings
<1>5. WorldOK' /\ \A x \in Markets : pool[x] # <<>> => pool'[x] # <<>>
  <2>1. UNCHANGED <<question, market, account, books>>
    BY <1>3 DEF chain
  <2> QED
    BY <1>4, <2>1, WalletMoves DEF IInv
<1>6. CountersOK' /\ (call' = Go(IF Kind(t) = "wrapper" THEN Deposited ELSE "swap") \/ call' = Raised)
  BY <1>3, MinedCounts DEF IInv
<1>7. CASE call' = Raised
  BY <1>1, <1>5, <1>6, <1>7, RaisedGoes DEF IInv
<1>8. CASE call' = Go(Deposited) /\ Kind(t) = "wrapper"
  <2>1. Going'
    BY <1>1, <1>5, <1>8, DepositedPlace, WantingGoes
  <2> QED
    BY <1>5, <1>6, <2>1 DEF IInv
<1>9. CASE call' = Go("swap") /\ Kind(t) # "wrapper"
  <2>1. /\ DOMAIN call' = DOMAIN call /\ call'.at = "swap"
        /\ call'.op = call.op /\ call'.m = call.m /\ call'.i = call.i
        /\ call'.amount = call.amount /\ call'.before = call.before
        /\ call'.todo = call.todo
    BY <1>1, <1>9, Goes
  <2>2. t # "wxdai" /\ wallet'[t] = wallet[t]
    BY <1>2, <1>4, <1>9, Kinds
  <2>3. Needed(wallet) = Spend(wallet, t, r)
    BY <1>9 DEF Needed
  <2>4. Spend(wallet', t, r) = Spend(wallet, t, r)
    BY <2>2 DEF Spend, VaultSpend, SwapSpend
  <2>5. Token[call'.m] = t /\ Requested' = r
    BY <2>1 DEF Requested
  <2>6. SwapOK'
    <3>1. ~Enough(wallet', t, r) /\ wallet'["wxdai"] >= Spend(wallet', t, r)
      BY <1>3, <1>4, <2>2, <2>3, <2>4 DEF Enough
    <3> HIDE DEF t, r
    <3> QED
      BY <1>9, <2>5, <3>1 DEF SwapOK
  <2>7. ListOK'
    BY <1>1, <2>1 DEF RunOK, ListOK
  <2>8. "swap" \in DOMAIN Places /\ call.op \in Places["swap"]
    BY <1>1 DEF Places
  <2>9. call.op = "fund" => pool'[call.m] # <<>>
    BY <1>1, <1>2, <1>5 DEF RunOK
  <2>10. RunOK'
    <3>1. call.op \in {"buy", "sell"} => call.i \in Outcomes(call.m)
      BY <1>1 DEF RunOK
    <3>2. call.amount \in Nat /\ call.before \in Nat
      BY <1>1 DEF RunOK
    <3>3. DOMAIN call = {"op", "m", "i", "amount", "limit", "at", "tries", "todo", "before"}
      BY <1>1 DEF RunOK
    <3> QED
      BY <1>2, <2>1, <2>6, <2>7, <2>8, <2>9, <3>1, <3>2, <3>3 DEF RunOK, At
  <2>11. BalanceKept' /\ SetsMerged'
    BY <1>1, <2>1 DEF BalanceKept, SetsMerged, At
  <2> QED
    BY <1>5, <1>6, <2>10, <2>11 DEF IInv, Going, CallOK
<1> QED
  BY <1>6, <1>7, <1>8, <1>9

\* The call goes on in an unchanged world.
LEMMA Still ==
  ASSUME IInv, UNCHANGED <<chain, market, account, wallet, books>>, faults' \in Nat
  PROVE  /\ WorldOK' /\ CountersOK'
         /\ UNCHANGED <<pool, supply, held, shares, wallet>>
<1>1. UNCHANGED <<market, question, account, wallet, books>>
  BY DEF chain
<1>2. WorldOK'
  BY <1>1, WorldUnchanged DEF IInv
<1>3. CountersOK'
  BY DEF IInv, CountersOK, chain, bounds
<1> QED
  BY <1>2, <1>3 DEF market, account

\* It is in a place, or it raised.
LEMMA Faults ==
  ASSUME CountersOK, NEW next, Mined(next)
  PROVE  faults' \in Nat /\ (call' = next \/ call' = Raised)
BY DEF CountersOK, Mined, Fault

LEMMA RevertsStep ==
  ASSUME IInv, call' = Raised, UNCHANGED <<chain, market, account, wallet, books>>,
         faults' \in Nat, call # Idle
  PROVE  IInv'
<1>1. RunOK
  BY DEF IInv, Going, CallOK
<1> QED
  BY <1>1, Still, RaisedGoes DEF IInv

LEMMA AllReverts ==
  ASSUME IInv, OutOfMoney \/ BuyReverts \/ PaymentReverts \/ SellReverts \/ MergeReverts
  PROVE  IInv'
<1>1. call' = Raised /\ faults' = faults
  BY DEF OutOfMoney, BuyReverts, PaymentReverts, SellReverts, MergeReverts, Reverts
<1>2. UNCHANGED <<chain, market, account, wallet, books>>
  BY DEF OutOfMoney, BuyReverts, PaymentReverts, SellReverts, MergeReverts
<1>3. call # Idle
  BY DEF OutOfMoney, BuyReverts, PaymentReverts, SellReverts, MergeReverts, At, Idle
<1>4. faults' \in Nat
  BY <1>1 DEF IInv, CountersOK
<1> QED
  BY <1>1, <1>2, <1>3, <1>4, RevertsStep

LEMMA FailsStep ==
  ASSUME IInv, Fails
  PROVE  IInv'
<1>1. UNCHANGED <<chain, market, account, wallet, books>>
  BY DEF Fails, chain
<1>2. faults' \in Nat
  BY DEF Fails, Fault, IInv, CountersOK
<1> QED
  BY <1>1, <1>2, RevertsStep DEF Fails

\* A call ends, or begins, in an unchanged world.
LEMMA Ends ==
  ASSUME IInv, Return \/ ListDone
  PROVE  IInv'
<1>1. UNCHANGED <<chain, market, account, wallet, books>> /\ faults' = faults
  BY DEF Return, ListDone, chain
<1>2. call' = Idle
  BY DEF Return, ListDone
<1>3. faults' \in Nat
  BY <1>1 DEF IInv, CountersOK
<1> QED
  BY <1>1, <1>2, <1>3, Still, IdleGoes DEF IInv

\* The question and the condition of a market that is created.
LEMMA PrepareStep ==
  ASSUME IInv, AskQuestion \/ PrepareCondition
  PROVE  IInv'
<1>1. RunOK /\ call.op = "create"
  BY Running DEF IInv, AskQuestion, PrepareCondition, At
<1>2. UNCHANGED <<chain, market, account, wallet, books>>
  BY DEF AskQuestion, PrepareCondition
<1>3. PICK place \in {"prepare", "trade"} : Mined(Go(place))
  BY Zenon DEF AskQuestion, PrepareCondition
<1>4. faults' \in Nat /\ (call' = Go(place) \/ call' = Raised)
  BY <1>3, Faults DEF IInv
<1>5. WorldOK' /\ CountersOK' /\ pool' = pool
  BY <1>2, <1>4, Still
<1>6. call.op \in Wanting /\ call.op \in Places[place]
  BY <1>1 DEF Wanting, Places
<1>7. Going'
  BY <1>1, <1>4, <1>5, <1>6, WantingGoes, RaisedGoes
<1> QED
  BY <1>5, <1>7 DEF IInv

\* What a conversion brings.
LEMMA SwapBrings ==
  ASSUME IInv, SwapForCollateral
  PROVE  LET t == Token[call.m]
         IN  /\ wallet' \in Wallets /\ wallet[t] \in Nat /\ wallet[t] < Requested
             /\ Kind(t) = "vault" =>
                    wallet'[t] = wallet[t] + ToShares(t, Spend(wallet, t, Requested))
<1> DEFINE t == Token[call.m]
<1>1. RunOK /\ call.op \in Wanting /\ wallet \in Wallets
  BY Running DEF IInv, SwapForCollateral, At, WorldOK, AccountOK, Wallets
<1>2. call.m \in Markets /\ t \in Tokens /\ call.amount \in Nat
  BY <1>1, Constants DEF RunOK, Wanting
<1>3. /\ Kind(t) # "wrapper" /\ ~Enough(wallet, t, Requested)
      /\ wallet["wxdai"] >= Spend(wallet, t, Requested)
  BY <1>1 DEF SwapForCollateral, At, RunOK, SwapOK
<1>4. wallet' \in Deposits(wallet, t, Requested)
  BY DEF SwapForCollateral
<1> DEFINE r == Requested
<1>5. r \in Nat
  BY <1>2, Conversions DEF Requested
<1>6. wallet[t] \in Nat /\ wallet[t] < r
  <2>1. wallet[t] \in Nat
    BY <1>1, <1>2 DEF Wallets
  <2> HIDE DEF t, r
  <2>2. ~(wallet[t] >= r)
    BY <1>3 DEF Enough, r
  <2> QED
    BY <1>5, <2>1, <2>2
<1>7. t # "wxdai"
  BY <1>2, <1>3, Kinds
<1>8. /\ wallet' \in Wallets
      /\ Kind(t) = "vault" => wallet'[t] = wallet[t] + ToShares(t, Spend(wallet, t, r))
  <2> HIDE DEF t
  <2>1. wallet["wxdai"] >= Spend(wallet, t, r) /\ wallet' \in Deposits(wallet, t, r)
    BY <1>3, <1>4
  <2> HIDE DEF r
  <2> QED
    BY <1>1, <1>2, <1>5, <1>6, <1>7, <2>1, Depositing
<1> QED
  BY <1>6, <1>8

\* The deposit of a conversion.
LEMMA SwapStep ==
  ASSUME IInv, SwapForCollateral
  PROVE  IInv'
<1>1. RunOK /\ call.op \in Wanting
  BY Running DEF IInv, SwapForCollateral, At
<1>2. Mined(Go(Deposited)) /\ UNCHANGED <<chain, market, account, books>>
  BY DEF SwapForCollateral
<1>3. WorldOK' /\ \A x \in Markets : pool[x] # <<>> => pool'[x] # <<>>
  <2>1. UNCHANGED <<question, market, account, books>>
    BY <1>2 DEF chain
  <2> QED
    BY <2>1, SwapBrings, WalletMoves DEF IInv
<1>4. CountersOK' /\ (call' = Go(Deposited) \/ call' = Raised)
  BY <1>2, MinedCounts DEF IInv
<1>5. Going'
  BY <1>1, <1>3, <1>4, DepositedPlace, WantingGoes, RaisedGoes
<1> QED
  BY <1>3, <1>4, <1>5 DEF IInv

\* What was withdrawn leaves the call in its list or at its end.
LEMMA WithdrawStep ==
  ASSUME IInv, Withdraw
  PROVE  IInv'
<1> DEFINE t == Token[call.m]
           place == IF call.op \in {"liquidate", "redeem_all"} THEN "next" ELSE "return"
<1>1. /\ call.at = "withdraw" /\ wallet' \in Withdrawals(wallet, t, call.amount)
      /\ Mined(Go(place)) /\ UNCHANGED <<chain, market, account, books>>
  BY DEF Withdraw
<1>2. RunOK /\ wallet \in Wallets
  BY <1>1, Running DEF IInv, WorldOK, AccountOK, Wallets
<1>3. call.m \in Markets /\ t \in Tokens /\ call.amount \in Nat /\ call.before \in Nat
  BY <1>1, <1>2, Constants DEF RunOK
<1>4. wallet[t] >= call.amount
  <2>1. wallet[t] = call.before + call.amount
    BY <1>1 DEF IInv, Going, BalanceKept, Balance
  <2> QED
    BY <1>3, <2>1
<1>5. wallet' \in Wallets
  <2> HIDE DEF t
  <2> QED
    BY <1>1, <1>2, <1>3, <1>4, Withdrawing
<1>6. WorldOK' /\ \A x \in Markets : pool[x] # <<>> => pool'[x] # <<>>
  <2>1. UNCHANGED <<question, market, account, books>>
    BY <1>1 DEF chain
  <2> QED
    BY <1>5, <2>1, WalletMoves DEF IInv
<1>7. CountersOK' /\ (call' = Go(place) \/ call' = Raised)
  BY <1>1, MinedCounts DEF IInv
<1>8. CASE call' = Go(place)
  <2>1. /\ call'.at = place /\ call'.op = call.op /\ call'.m = call.m
    BY <1>2, <1>8, Goes
  <2>2. place \in DOMAIN Places /\ call.op \in Places[place]
    BY <1>1, <1>2 DEF RunOK, Places
  <2>3. RunOK'
    BY <1>2, <1>3, <1>6, <1>8, <2>2, GoesOn
  <2>4. held' = held
    BY <1>1 DEF account
  <2>5. SetsMerged
    BY DEF IInv, Going
  <2>6. BalanceKept' /\ SetsMerged'
    BY <1>1, <2>1, <2>4, <2>5 DEF BalanceKept, SetsMerged, At
  <2> QED
    BY <1>6, <1>7, <2>3, <2>6 DEF IInv, Going, CallOK
<1>9. CASE call' = Raised
  BY <1>2, <1>6, <1>7, <1>9, RaisedGoes DEF IInv
<1> QED
  BY <1>7, <1>8, <1>9

\* A market maker that can be traded with is filled.
LEMMA PoolIsFilled ==
  ASSUME WorldOK, NEW m \in Markets, supply[m] > 0
  PROVE  /\ pool[m] \in Filled(Slots[m]) /\ supply[m] \in Nat \ {0}
         /\ Slots[m] \in Nat /\ Outcomes(m) = 1..Slots[m]
<1>1. pool[m] # <<>> /\ supply[m] \in Nat
  BY DEF WorldOK, MakersOK
<1>2. pool[m] \in [Outcomes(m) -> Nat] /\ \A i \in Outcomes(m) : pool[m][i] > 0
  BY <1>1 DEF WorldOK, MakersOK
<1>3. Slots[m] \in Nat
  BY Constants
<1> QED
  BY <1>1, <1>2, <1>3 DEF Outcomes, Filled

LEMMA QuoteBetStep ==
  ASSUME IInv, QuoteBet
  PROVE  IInv'
<1>1. RunOK /\ call.op = "buy" /\ call.m \in Markets
  BY Running DEF IInv, QuoteBet, At, RunOK
<1>2. UNCHANGED <<chain, market, account, wallet, books>> /\ faults' \in Nat
  BY DEF QuoteBet, IInv, CountersOK
<1>3. WorldOK' /\ CountersOK' /\ pool' = pool
  BY <1>2, Still
<1>4. CASE call' = Raised
  BY <1>1, <1>3, <1>4, RaisedGoes DEF IInv
<1>5. CASE call' = [call EXCEPT !.at = "deposit",
                        !.limit = LeastShares(call.m, call.i, call.amount)]
  <2>1. SameCall("deposit") /\ call'.amount = call.amount
    BY <1>1, <1>5 DEF SameCall, RunOK
  <2>2. "deposit" \in DOMAIN Places /\ call.op \in Places["deposit"]
    BY <1>1 DEF Places, Wanting
  <2>3. call'.amount \in Nat
    BY <1>1, <2>1 DEF RunOK
  <2>4. RunOK'
    BY <1>1, <1>3, <2>1, <2>2, <2>3, CallGoesOn
  <2>5. BalanceKept' /\ SetsMerged'
    BY <1>1, <2>1 DEF SameCall, BalanceKept, SetsMerged, At
  <2> QED
    BY <1>3, <2>4, <2>5 DEF IInv, Going, CallOK
<1> QED
  BY <1>4, <1>5 DEF QuoteBet

\* The share of a fee is one of the naturals.
LEMMA FeeShareIsNat ==
  ASSUME WorldOK, NEW m \in Markets, NEW fee \in Nat
  PROVE  FeeShare(m, fee) \in Nat
<1>1. supply[m] \in Nat /\ shares[m] \in Nat
  BY DEF WorldOK, MakersOK, AccountOK
<1>2. fee * shares[m] \in Nat
  BY <1>1
<1>3. supply[m] # 0 => (fee * shares[m]) \div supply[m] \in Nat
  BY <1>1, <1>2, Quotients
<1> QED
  BY <1>3 DEF FeeShare

\* A token of the wallet, with another balance.
LEMMA WalletStep ==
  ASSUME AccountOK, NEW m \in Markets, NEW n \in Nat,
         wallet' = [wallet EXCEPT ![Token[m]] = n]
  PROVE  wallet' \in Wallets /\ wallet'[Token[m]] = n
<1>1. Token[m] \in Tokens
  BY Constants
<1> QED
  BY <1>1 DEF AccountOK, Wallets

\* The purchase.
LEMMA BuyStep ==
  ASSUME IInv, Buy
  PROVE  IInv'
<1> DEFINE m == call.m
           a == call.amount
           n == Slots[m]
           t == Token[m]
           fee == a - Invested(a, Fee)
           h == [held[m] EXCEPT ![call.i] = @ + Bought]
<1>1. RunOK /\ call.op = "buy" /\ m \in Markets /\ a \in Nat /\ call.i \in Outcomes(m)
  BY Running DEF IInv, Buy, At, RunOK
<1>2. WorldOK /\ MakersOK /\ AccountOK /\ CountersOK /\ BooksOK
  BY DEF IInv, WorldOK
<1>3. wallet[t] >= a /\ supply[m] > 0 /\ wallet[t] \in Nat
  <2>1. t \in Tokens
    BY <1>1, Constants
  <2>2. wallet[t] \in Nat
    BY <1>2, <2>1 DEF AccountOK
  <2> QED
    BY <2>2 DEF Buy, BuyAccepted
<1>4. pool[m] \in Filled(n) /\ n \in Nat /\ call.i \in 1..n
  BY <1>1, <1>2, <1>3, PoolIsFilled
<1>5. PoolAfterBuy(pool[m], call.i, a, Fee) \in Filled(n) /\ Bought \in Nat
  BY <1>1, <1>4, Constants, Purchase DEF Bought
<1>6. fee \in Nat /\ FeeShare(m, fee) \in Nat
  <2>1. Invested(a, Fee) \in 0..a
    BY <1>1, Constants, Fees
  <2>2. fee \in Nat
    BY <1>1, <2>1
  <2> QED
    BY <1>1, <1>2, <2>2, FeeShareIsNat
<1>7. /\ pool' = [pool EXCEPT ![m] = PoolAfterBuy(pool[m], call.i, a, Fee)]
      /\ held' = [held EXCEPT ![m] = h]
      /\ earned' = [earned EXCEPT ![m] = earned[m] + FeeShare(m, fee)]
      /\ wallet' = [wallet EXCEPT ![t] = wallet[t] - a]
      /\ DOMAIN trades' = DOMAIN trades
      /\ Mined(Idle) /\ UNCHANGED <<chain, supply, shares, paid, provided>>
  BY DEF Buy
<1>8. MakersOK' /\ \A x \in Markets : pool[x] # <<>> => pool'[x] # <<>>
  <2>1. PoolAfterBuy(pool[m], call.i, a, Fee) \in [Outcomes(m) -> Nat]
    BY <1>1, <1>5 DEF Outcomes, Filled
  <2>2. \A i \in Outcomes(m) : PoolAfterBuy(pool[m], call.i, a, Fee)[i] > 0
    BY <1>5 DEF Outcomes, Filled
  <2>3. supply' = [supply EXCEPT ![m] = supply[m]] /\ supply[m] \in Nat
    BY <1>1, <1>2, <1>7 DEF MakersOK
  <2> QED
    BY <1>1, <1>2, <1>7, <2>1, <2>2, <2>3, MakersStep
<1>9. wallet' \in Wallets
  <2>1. wallet[t] - a \in Nat
    BY <1>1, <1>3
  <2> HIDE DEF a
  <2> QED
    BY <1>1, <1>2, <1>7, <2>1, WalletStep
<1>10. AccountOK'
  <2>1. h \in [Outcomes(m) -> Nat]
    BY <1>1, <1>2, <1>5 DEF AccountOK
  <2>2. shares' = [shares EXCEPT ![m] = shares[m]] /\ shares[m] \in Nat
    BY <1>1, <1>2, <1>7 DEF AccountOK
  <2>3. shares[m] <= supply'[m] /\ supply' = supply
    BY <1>1, <1>2, <1>7 DEF AccountOK
  <2>4. earned[m] + FeeShare(m, fee) \in Nat
    BY <1>1, <1>2, <1>6 DEF AccountOK
  <2> HIDE DEF h, fee
  <2> QED
    BY <1>1, <1>2, <1>7, <1>9, <2>1, <2>2, <2>3, <2>4, AccountStep
<1>11. QuestionsOK' /\ BooksOK'
  BY <1>7 DEF IInv, WorldOK, QuestionsOK, BooksOK, chain, question
<1>12. CountersOK' /\ (call' = Idle \/ call' = Raised)
  BY <1>2, <1>7, MinedCounts
<1> QED
  BY <1>1, <1>8, <1>10, <1>11, <1>12, IdleGoes, RaisedGoes DEF IInv, WorldOK

LEMMA CreateStep ==
  ASSUME IInv, Create
  PROVE  IInv'
<1> DEFINE m == call.m
           a == call.amount
           t == Token[m]
           p == [i \in Outcomes(m) |-> a]
<1>1. RunOK /\ call.op = "create" /\ m \in Markets /\ a \in Nat
  BY Running DEF IInv, Create, At, RunOK
<1>2. WorldOK /\ MakersOK /\ AccountOK /\ CountersOK /\ BooksOK
  BY DEF IInv, WorldOK
<1>3. /\ wallet[t] >= a
      /\ pool' = [pool EXCEPT ![m] = p] /\ supply' = [supply EXCEPT ![m] = a]
      /\ shares' = [shares EXCEPT ![m] = a]
      /\ wallet' = [wallet EXCEPT ![t] = wallet[t] - a]
      /\ provided' = provided \cup {m}
      /\ Mined(Idle) /\ UNCHANGED <<chain, held, earned, trades, paid>>
  BY DEF Create, Create2
<1>4. wallet[t] \in Nat
  BY <1>1, <1>2, Constants DEF AccountOK
<1>5. MakersOK'
  BY <1>1, <1>2, <1>3, MakersStep
<1>6. wallet' \in Wallets
  <2>1. wallet[t] - a \in Nat
    BY <1>1, <1>3, <1>4
  <2> HIDE DEF a
  <2> QED
    BY <1>1, <1>2, <1>3, <2>1, WalletStep
<1>7. AccountOK'
  <2>1. held' = held /\ held[m] \in [Outcomes(m) -> Nat]
    BY <1>1, <1>2, <1>3 DEF AccountOK
  <2>2. earned' = [earned EXCEPT ![m] = earned[m]] /\ earned[m] \in Nat
    BY <1>1, <1>2, <1>3 DEF AccountOK
  <2>3. a <= supply'[m] /\ \A x \in Markets \ {m} : supply'[x] = supply[x]
    BY <1>1, <1>2, <1>3 DEF MakersOK
  <2> QED
    BY <1>1, <1>2, <1>3, <1>6, <2>1, <2>2, <2>3, AccountStep
<1>8. QuestionsOK' /\ BooksOK'
  BY <1>1, <1>3 DEF IInv, WorldOK, QuestionsOK, BooksOK, chain, question
<1>9. CountersOK' /\ (call' = Idle \/ call' = Raised)
  BY <1>2, <1>3, MinedCounts
<1> QED
  BY <1>1, <1>5, <1>7, <1>8, <1>9, IdleGoes, RaisedGoes DEF IInv, WorldOK

\* The largest balance of a market maker.
LEMMA LargestIs ==
  ASSUME NEW n \in {2, 3}, NEW s \in [1..n -> Nat]
  PROVE  /\ Largest(s) \in Nat /\ \A i \in 1..n : s[i] <= Largest(s)
<1> DEFINE top(x) == x \in Range(s) /\ \A y \in Range(s) : y <= x
<1>1. Range(s) = {s[i] : i \in 1..n}
  BY DEF Range
<1>2. \E x : top(x)
  <2>1. CASE n = 2
    <3>1. s[1] \in Nat /\ s[2] \in Nat /\ Range(s) = {s[1], s[2]}
      BY <1>1, <2>1
    <3> QED
      BY <3>1
  <2>2. CASE n = 3
    <3>1. s[1] \in Nat /\ s[2] \in Nat /\ s[3] \in Nat /\ Range(s) = {s[1], s[2], s[3]}
      BY <1>1, <2>2
    <3>2. ASSUME NEW x \in Nat, NEW y \in Nat, NEW z \in Nat
          PROVE  \E w \in {x, y, z} : x <= w /\ y <= w /\ z <= w
      <4>1. CASE x <= y
        BY <4>1
      <4>2. CASE ~(x <= y)
        BY <4>2
      <4> QED
        BY <4>1, <4>2
    <3>3. PICK w \in {s[1], s[2], s[3]} : s[1] <= w /\ s[2] <= w /\ s[3] <= w
      BY <3>1, <3>2
    <3>4. top(w)
      BY <3>1, <3>3
    <3> QED
      BY <3>4
  <2> QED
    BY <2>1, <2>2
<1>3. Largest(s) = CHOOSE x : top(x)
  BY Zenon DEF Largest
<1>4. top(Largest(s))
  BY <1>2, <1>3, Zenon
<1> QED
  BY <1>1, <1>4

\* What the market maker keeps of what is added, and the shares it mints.
LEMMA Adding ==
  ASSUME WorldOK, NEW m \in Markets, NEW a \in Nat, pool[m] # <<>>
  PROVE  /\ Kept(m, a) \in [Outcomes(m) -> 0..a]
         /\ Minted(m, a) \in Nat
         /\ supply[m] = 0 => Minted(m, a) = a /\ \A i \in Outcomes(m) : Kept(m, a)[i] = a
<1>1. /\ pool[m] \in [Outcomes(m) -> Nat] /\ supply[m] \in Nat
      /\ Slots[m] \in {2, 3} /\ Outcomes(m) = 1..Slots[m]
  BY Constants DEF WorldOK, MakersOK, Outcomes
<1>2. CASE supply[m] = 0
  <2>1. Kept(m, a) = [i \in Outcomes(m) |-> a] /\ Minted(m, a) = a
    BY <1>2 DEF Kept, Minted
  <2>2. a \in 0..a
    OBVIOUS
  <2> QED
    BY <2>1, <2>2
<1>3. CASE supply[m] # 0
  <2> DEFINE L == Largest(pool[m])
  <2>1. L \in Nat /\ \A i \in Outcomes(m) : pool[m][i] <= L
    BY <1>1, LargestIs
  <2>2. L \in Nat \ {0}
    <3>1. 1 \in Outcomes(m) /\ pool[m][1] > 0 /\ pool[m][1] \in Nat
      BY <1>1, <1>3 DEF WorldOK, MakersOK
    <3> QED
      BY <2>1, <3>1
  <2>3. /\ Kept(m, a) = [i \in Outcomes(m) |-> (a * pool[m][i]) \div L]
        /\ Minted(m, a) = (a * supply[m]) \div L
    BY <1>3 DEF Kept, Minted
  <2> HIDE DEF L
  <2>4. \A i \in Outcomes(m) : (a * pool[m][i]) \div L \in 0..a
    BY <1>1, <2>1, <2>2, PartOf
  <2>5. (a * supply[m]) \div L \in Nat
    <3>1. a * supply[m] \in Nat
      BY <1>1
    <3> QED
      BY <2>2, <3>1, Quotients
  <2> QED
    BY <1>3, <2>3, <2>4, <2>5
<1> QED
  BY <1>2, <1>3

LEMMA FundStep ==
  ASSUME IInv, Fund
  PROVE  IInv'
<1> DEFINE m == call.m
           a == call.amount
           t == Token[m]
           kept == Kept(m, a)
           minted == Minted(m, a)
           p == [i \in Outcomes(m) |-> pool[m][i] + kept[i]]
           h == [i \in Outcomes(m) |-> held[m][i] + a - kept[i]]
<1>1. RunOK /\ call.op = "fund" /\ m \in Markets /\ a \in Nat /\ pool[m] # <<>>
  BY Running DEF IInv, Fund, At, RunOK
<1>2. WorldOK /\ MakersOK /\ AccountOK /\ CountersOK /\ BooksOK
  BY DEF IInv, WorldOK
<1>3. /\ wallet[t] >= a
      /\ pool' = [pool EXCEPT ![m] = p] /\ held' = [held EXCEPT ![m] = h]
      /\ supply' = [supply EXCEPT ![m] = supply[m] + minted]
      /\ shares' = [shares EXCEPT ![m] = shares[m] + minted]
      /\ wallet' = [wallet EXCEPT ![t] = wallet[t] - a]
      /\ provided' = provided \cup {m}
      /\ Mined(Idle) /\ UNCHANGED <<chain, earned, trades, paid>>
  <2>1. /\ pool' = [pool EXCEPT ![m] = [i \in Outcomes(m) |-> @[i] + kept[i]]]
        /\ held' = [held EXCEPT ![m] = [i \in Outcomes(m) |-> @[i] + a - kept[i]]]
    BY Zenon DEF Fund
  <2> QED
    BY <2>1 DEF Fund
<1>4. wallet[t] \in Nat
  BY <1>1, <1>2, Constants DEF AccountOK
<1>5. /\ kept \in [Outcomes(m) -> 0..a] /\ minted \in Nat
      /\ supply[m] = 0 => minted = a /\ \A i \in Outcomes(m) : kept[i] = a
  BY <1>1, <1>2, Adding
<1>6. /\ pool[m] \in [Outcomes(m) -> Nat] /\ supply[m] \in Nat /\ shares[m] \in Nat
      /\ supply[m] > 0 => \A i \in Outcomes(m) : pool[m][i] > 0
      /\ shares[m] <= supply[m] /\ held[m] \in [Outcomes(m) -> Nat]
  BY <1>1, <1>2 DEF MakersOK, AccountOK
<1> HIDE DEF kept, minted
<1>7. MakersOK' /\ \A x \in Markets : pool[x] # <<>> => pool'[x] # <<>>
  <2>1. p \in [Outcomes(m) -> Nat]
    BY <1>5, <1>6
  <2>2. supply[m] + minted > 0 => \A i \in Outcomes(m) : p[i] > 0
    <3>1. \A i \in Outcomes(m) : kept[i] \in Nat /\ pool[m][i] \in Nat /\ p[i] = pool[m][i] + kept[i]
      BY <1>5, <1>6
    <3> HIDE DEF p
    <3> QED
      BY <1>5, <1>6, <3>1
  <2>3. supply[m] + minted \in Nat
    BY <1>5, <1>6
  <2> HIDE DEF p
  <2> QED
    BY <1>1, <1>2, <1>3, <2>1, <2>2, <2>3, MakersStep
<1>8. wallet' \in Wallets
  <2>1. wallet[t] - a \in Nat
    BY <1>1, <1>3, <1>4
  <2> HIDE DEF a
  <2> QED
    BY <1>1, <1>2, <1>3, <2>1, WalletStep
<1>9. AccountOK'
  <2>1. h \in [Outcomes(m) -> Nat]
    <3>1. \A i \in Outcomes(m) : kept[i] \in 0..a /\ held[m][i] \in Nat
      BY <1>5, <1>6
    <3>2. \A i \in Outcomes(m) : held[m][i] + a - kept[i] \in Nat
      BY <1>1, <3>1
    <3> QED
      BY <3>2
  <2>2. earned' = [earned EXCEPT ![m] = earned[m]] /\ earned[m] \in Nat
    BY <1>1, <1>2, <1>3 DEF AccountOK
  <2>3. /\ supply'[m] = supply[m] + minted
        /\ \A x \in Markets \ {m} : supply'[x] = supply[x]
    BY <1>1, <1>2, <1>3 DEF MakersOK
  <2>4. shares[m] + minted \in Nat /\ shares[m] + minted <= supply'[m]
    BY <1>5, <1>6, <2>3
  <2> HIDE DEF h
  <2> QED
    BY <1>1, <1>2, <1>3, <1>8, <2>1, <2>2, <2>3, <2>4, AccountStep
<1>10. QuestionsOK' /\ BooksOK'
  BY <1>1, <1>3 DEF IInv, WorldOK, QuestionsOK, BooksOK, chain, question
<1>11. CountersOK' /\ (call' = Idle \/ call' = Raised)
  BY <1>2, <1>3, MinedCounts
<1> QED
  BY <1>1, <1>7, <1>9, <1>10, <1>11, IdleGoes, RaisedGoes DEF IInv, WorldOK

\* A sale on its way.
LEMMA SellerIs ==
  ASSUME RunOK, At({"sell", "liquidate"}, "quote") \/ At({"sell", "liquidate"}, "trade")
  PROVE  /\ call.m \in Markets /\ call.i \in Outcomes(call.m) /\ call.amount \in Nat
         /\ call.op \in {"sell", "liquidate"}
BY DEF RunOK, At

LEMMA QuoteSellStep ==
  ASSUME IInv, QuoteSell
  PROVE  IInv'
<1>1. RunOK /\ At({"sell", "liquidate"}, "quote")
  BY Running DEF IInv, QuoteSell, At
<1>2. /\ call.m \in Markets /\ call.i \in Outcomes(call.m) /\ call.amount \in Nat
      /\ call.op \in {"sell", "liquidate"}
  BY <1>1, SellerIs
<1>3. UNCHANGED <<chain, market, account, wallet, books>> /\ faults' \in Nat
  BY DEF QuoteSell, IInv, CountersOK
<1>4. WorldOK' /\ CountersOK' /\ pool' = pool /\ wallet' = wallet
  BY <1>3, Still
<1>5. CASE call' = Raised
  BY <1>1, <1>4, <1>5, RaisedGoes DEF IInv
<1>6. CASE call' = [call EXCEPT !.at = "trade",
                        !.limit = MostShares(call.m, call.i, call.amount)]
  <2>1. SameCall("trade") /\ call'.amount = call.amount
    BY <1>1, <1>6 DEF SameCall, RunOK
  <2>2. "trade" \in DOMAIN Places /\ call.op \in Places["trade"]
    BY <1>2 DEF Places
  <2>3. call'.amount \in Nat
    BY <1>2, <2>1
  <2>4. RunOK'
    BY <1>1, <1>2, <1>4, <2>1, <2>2, <2>3, CallGoesOn
  <2>5. Balance = call.before
    BY <1>1 DEF IInv, Going, BalanceKept
  <2>6. BalanceKept' /\ SetsMerged'
    BY <1>2, <1>4, <2>1, <2>5 DEF SameCall, Balance, BalanceKept, SetsMerged, At
  <2> QED
    BY <1>4, <2>4, <2>6 DEF IInv, Going, CallOK
<1> QED
  BY <1>5, <1>6 DEF QuoteSell

\* The call has got what it withdraws.
LEMMA WithdrawNext ==
  ASSUME RunOK, SameCall("withdraw"), call.m \in Markets,
         call.op \in Places["withdraw"], call'.amount \in Nat,
         wallet'[Token[call.m]] = call.before + call'.amount,
         call.op = "remove" => \E i \in Outcomes(call.m) : held'[call.m][i] = 0,
         \A x \in Markets : pool[x] # <<>> => pool'[x] # <<>>
  PROVE  Going'
<1>1. RunOK'
  <2>1. "withdraw" \in DOMAIN Places
    BY DEF Places
  <2> QED
    BY <2>1, CallGoesOn
<1>2. /\ call'.at = "withdraw" /\ call'.m = call.m /\ call'.op = call.op
      /\ call'.before = call.before
  BY DEF SameCall
<1>3. BalanceKept'
  BY <1>2 DEF BalanceKept, Balance, At
<1>4. SetsMerged'
  BY <1>2 DEF SetsMerged, At
<1> QED
  BY <1>1, <1>3, <1>4 DEF Going, CallOK

LEMMA SellStep ==
  ASSUME IInv, Sell
  PROVE  IInv'
<1> DEFINE m == call.m
           a == call.amount
           n == Slots[m]
           t == Token[m]
           fee == Gross(a, Fee) - a
           h == [held[m] EXCEPT ![call.i] = @ - Sold]
<1>1. RunOK /\ At({"sell", "liquidate"}, "trade")
  BY Running DEF IInv, Sell, At
<1>2. m \in Markets /\ call.i \in Outcomes(m) /\ a \in Nat /\ call.op \in {"sell", "liquidate"}
  BY <1>1, SellerIs
<1>3. WorldOK /\ MakersOK /\ AccountOK /\ CountersOK /\ BooksOK
  BY DEF IInv, WorldOK
<1>4. wallet[t] \in Nat /\ wallet[t] = call.before
  <2>1. wallet[t] \in Nat
    BY <1>2, <1>3, Constants DEF AccountOK
  <2>2. Balance = call.before
    BY <1>1 DEF IInv, Going, BalanceKept
  <2> QED
    BY <2>1, <2>2 DEF Balance
<1>5. /\ supply[m] > 0 /\ \A j \in Outcomes(m) \ {call.i} : Gross(a, Fee) < pool[m][j]
      /\ Sold <= held[m][call.i]
  BY DEF Sell, SellAccepted, CanPay
<1>6. pool[m] \in Filled(n) /\ n \in Nat /\ call.i \in 1..n /\ Outcomes(m) = 1..n
  BY <1>2, <1>3, <1>5, PoolIsFilled
<1>7. PoolAfterSell(pool[m], call.i, a, Fee) \in Filled(n) /\ Sold \in Int
  <2>1. Fee \in 0..99
    BY Constants
  <2>2. \A j \in 1..n \ {call.i} : Gross(a, Fee) < pool[m][j]
    BY <1>5, <1>6
  <2> QED
    BY <1>2, <1>6, <2>1, <2>2, Sale DEF Sold
<1>8. fee \in Nat /\ FeeShare(m, fee) \in Nat
  <2>1. Gross(a, Fee) \in Nat /\ Gross(a, Fee) >= a
    BY <1>2, Constants, Fees
  <2>2. fee \in Nat
    BY <1>2, <2>1
  <2> QED
    BY <1>2, <1>3, <2>2, FeeShareIsNat
<1>9. /\ pool' = [pool EXCEPT ![m] = PoolAfterSell(pool[m], call.i, a, Fee)]
      /\ held' = [held EXCEPT ![m] = h]
      /\ earned' = [earned EXCEPT ![m] = earned[m] + FeeShare(m, fee)]
      /\ wallet' = [wallet EXCEPT ![t] = wallet[t] + a]
      /\ DOMAIN trades' = DOMAIN trades
      /\ Mined(Go("withdraw")) /\ UNCHANGED <<chain, supply, shares, paid, provided>>
  BY DEF Sell
<1>10. MakersOK' /\ \A x \in Markets : pool[x] # <<>> => pool'[x] # <<>>
  <2>1. PoolAfterSell(pool[m], call.i, a, Fee) \in [Outcomes(m) -> Nat]
    BY <1>6, <1>7 DEF Filled
  <2>2. \A i \in Outcomes(m) : PoolAfterSell(pool[m], call.i, a, Fee)[i] > 0
    BY <1>6, <1>7 DEF Filled
  <2>3. supply' = [supply EXCEPT ![m] = supply[m]] /\ supply[m] \in Nat
    BY <1>2, <1>3, <1>9 DEF MakersOK
  <2> QED
    BY <1>2, <1>3, <1>9, <2>1, <2>2, <2>3, MakersStep
<1>11. wallet' \in Wallets /\ wallet'[t] = wallet[t] + a
  <2>1. wallet[t] + a \in Nat
    BY <1>2, <1>4
  <2> HIDE DEF a
  <2> QED
    BY <1>2, <1>3, <1>9, <2>1, WalletStep
<1>12. AccountOK'
  <2>1. h \in [Outcomes(m) -> Nat]
    <3>1. held[m] \in [Outcomes(m) -> Nat] /\ held[m][call.i] - Sold \in Nat
      BY <1>2, <1>3, <1>5, <1>7 DEF AccountOK
    <3> QED
      BY <1>2, <3>1
  <2>2. shares' = [shares EXCEPT ![m] = shares[m]] /\ shares[m] \in Nat
    BY <1>2, <1>3, <1>9 DEF AccountOK
  <2>3. shares[m] <= supply'[m] /\ supply' = supply
    BY <1>2, <1>3, <1>9 DEF AccountOK
  <2>4. earned[m] + FeeShare(m, fee) \in Nat
    BY <1>2, <1>3, <1>8 DEF AccountOK
  <2> HIDE DEF h, fee
  <2> QED
    BY <1>2, <1>3, <1>9, <1>11, <2>1, <2>2, <2>3, <2>4, AccountStep
<1>13. QuestionsOK' /\ BooksOK'
  BY <1>9 DEF IInv, WorldOK, QuestionsOK, BooksOK, chain, question
<1>14. CountersOK' /\ (call' = Go("withdraw") \/ call' = Raised)
  BY <1>3, <1>9, MinedCounts
<1>15. CASE call' = Go("withdraw")
  <2>1. SameCall("withdraw") /\ call'.amount = a
    BY <1>1, <1>15, Goes DEF SameCall
  <2>2. call.op \in Places["withdraw"] /\ call.op # "remove"
    BY <1>2 DEF Places
  <2>3. Going'
    BY <1>1, <1>2, <1>4, <1>10, <1>11, <2>1, <2>2, WithdrawNext
  <2> QED
    BY <1>10, <1>12, <1>13, <1>14, <2>3 DEF IInv, WorldOK
<1>16. CASE call' = Raised
  BY <1>1, <1>10, <1>12, <1>13, <1>14, <1>16, RaisedGoes DEF IInv, WorldOK
<1> QED
  BY <1>14, <1>15, <1>16

\* The removal of liquidity.
LEMMA RemoveStep ==
  ASSUME IInv, RemoveFunding
  PROVE  IInv'
<1> DEFINE m == call.m
           t == Token[m]
           k == call.limit
           sent(i) == (pool[m][i] * k) \div supply[m]
           p == [i \in Outcomes(m) |-> pool[m][i] - sent(i)]
           h == [i \in Outcomes(m) |-> held[m][i] + sent(i)]
<1>1. RunOK /\ call.at = "remove" /\ call.op = "remove" /\ m \in Markets
  BY Running DEF IInv, RemoveFunding, At, RunOK
<1>2. WorldOK /\ MakersOK /\ AccountOK /\ CountersOK /\ BooksOK
  BY DEF IInv, WorldOK
<1>3. /\ pool' = [pool EXCEPT ![m] = p] /\ held' = [held EXCEPT ![m] = h]
      /\ supply' = [supply EXCEPT ![m] = supply[m] - k]
      /\ shares' = [shares EXCEPT ![m] = shares[m] - k]
      /\ wallet' = [wallet EXCEPT ![t] = wallet[t] + earned[m]]
      /\ earned' = [earned EXCEPT ![m] = 0]
      /\ provided' = provided \cup {m}
      /\ Mined(Go("merge")) /\ UNCHANGED <<chain, trades, paid>>
  <2>1. /\ pool' = [pool EXCEPT ![m] = [i \in Outcomes(m) |-> @[i] - sent(i)]]
        /\ held' = [held EXCEPT ![m] = [i \in Outcomes(m) |-> @[i] + sent(i)]]
    BY Zenon DEF RemoveFunding
  <2> QED
    BY <2>1 DEF RemoveFunding
<1>4. wallet[t] \in Nat /\ wallet[t] = call.before /\ earned[m] \in Nat
  <2>1. wallet[t] \in Nat /\ earned[m] \in Nat
    BY <1>1, <1>2, Constants DEF AccountOK
  <2>2. Balance = call.before
    BY <1>1 DEF IInv, Going, BalanceKept
  <2> QED
    BY <2>1, <2>2 DEF Balance
<1>5. k \in 1..shares[m] /\ shares[m] \in Nat /\ supply[m] \in Nat /\ shares[m] <= supply[m]
  BY <1>1, <1>2 DEF RunOK, AccountOK, MakersOK
<1>6. k \in Nat /\ k <= supply[m] /\ supply[m] \in Nat \ {0}
  BY <1>5
<1>7. \A i \in Outcomes(m) : pool[m][i] \in Nat /\ pool[m][i] > 0 /\ held[m][i] \in Nat
  <2>1. supply[m] > 0
    BY <1>6
  <2>2. pool[m] \in Filled(Slots[m]) /\ Outcomes(m) = 1..Slots[m]
    BY <1>1, <1>2, <2>1, PoolIsFilled
  <2>3. held[m] \in [Outcomes(m) -> Nat]
    BY <1>1, <1>2 DEF AccountOK
  <2> QED
    BY <2>2, <2>3 DEF Filled
<1>8. \A i \in Outcomes(m) : /\ sent(i) \in 0..pool[m][i]
                             /\ k < supply[m] => sent(i) < pool[m][i]
  <2> HIDE DEF m
  <2> QED
    BY <1>6, <1>7, PartOf
<1> HIDE DEF sent
<1>9. MakersOK' /\ \A x \in Markets : pool[x] # <<>> => pool'[x] # <<>>
  <2>1. p \in [Outcomes(m) -> Nat]
    BY <1>7, <1>8
  <2>2. supply[m] - k > 0 => \A i \in Outcomes(m) : p[i] > 0
    BY <1>6, <1>7, <1>8
  <2>3. supply[m] - k \in Nat
    BY <1>6
  <2> HIDE DEF p
  <2> QED
    BY <1>1, <1>2, <1>3, <2>1, <2>2, <2>3, MakersStep
<1>10. wallet' \in Wallets /\ wallet'[t] = wallet[t] + earned[m]
  <2>1. wallet[t] + earned[m] \in Nat
    BY <1>4
  <2> QED
    BY <1>1, <1>2, <1>3, <2>1, WalletStep
<1>11. AccountOK'
  <2>1. h \in [Outcomes(m) -> Nat]
    BY <1>7, <1>8
  <2>2. /\ supply'[m] = supply[m] - k
        /\ \A x \in Markets \ {m} : supply'[x] = supply[x]
    BY <1>1, <1>2, <1>3 DEF MakersOK
  <2>3. shares[m] - k \in Nat /\ shares[m] - k <= supply'[m] /\ 0 \in Nat
    BY <1>5, <1>6, <2>2
  <2> HIDE DEF h
  <2> QED
    BY <1>1, <1>2, <1>3, <1>10, <2>1, <2>2, <2>3, AccountStep
<1>12. QuestionsOK' /\ BooksOK'
  BY <1>1, <1>3 DEF IInv, WorldOK, QuestionsOK, BooksOK, chain, question
<1>13. CountersOK' /\ (call' = Go("merge") \/ call' = Raised)
  BY <1>2, <1>3, MinedCounts
<1>14. CASE call' = Go("merge")
  <2>1. SameCall("merge") /\ call'.amount = call.amount
    BY <1>1, <1>14, Goes DEF SameCall
  <2>2. "merge" \in DOMAIN Places /\ call.op \in Places["merge"] /\ call'.amount \in Nat
    BY <1>1, <2>1 DEF Places, RunOK
  <2>3. RunOK'
    BY <1>1, <1>9, <2>1, <2>2, CallGoesOn
  <2>4. wallet'[t] >= call.before
    BY <1>4, <1>10
  <2>5. BalanceKept' /\ SetsMerged'
    BY <2>1, <2>4 DEF SameCall, BalanceKept, Balance, SetsMerged, At
  <2> QED
    BY <1>9, <1>11, <1>12, <1>13, <2>3, <2>5 DEF IInv, WorldOK, Going, CallOK
<1>15. CASE call' = Raised
  BY <1>1, <1>9, <1>11, <1>12, <1>13, <1>15, RaisedGoes DEF IInv, WorldOK
<1> QED
  BY <1>13, <1>14, <1>15

\* The index sets of the positions of the first three outcomes.
LEMMA Powers == 2^(1 - 1) = 1 /\ 2^(2 - 1) = 2 /\ 2^(3 - 1) = 4
<1>1. 2^0 = 1 /\ 2^1 = 2 /\ 2^2 = 4
  OBVIOUS
<1>2. 1 - 1 = 0 /\ 2 - 1 = 1 /\ 3 - 1 = 2
  OBVIOUS
<1> QED
  BY <1>1, <1>2, Zenon

\* Only the index sets of a binary market partition its outcomes.
LEMMA PartitionIsBinary ==
  ASSUME NEW m \in Markets, Partition(m)
  PROVE  Slots[m] = 2
<1>1. CASE Slots[m] = 3
  <2>1. IndexSets(3) = {2^(i - 1) : i \in 1..3}
    BY <1>1 DEF Partition, Outcomes
  <2>2. 3 \in IndexSets(3)
    BY DEF IndexSets
  <2>3. PICK i \in 1..3 : 3 = 2^(i - 1)
    BY <2>1, <2>2
  <2>4. i = 1 \/ i = 2 \/ i = 3
    BY <2>3
  <2>5. 3 \in {1, 2, 4}
    BY <2>3, <2>4, Powers, Zenon
  <2> QED
    BY <2>5
<1> QED
  BY <1>1, Constants

\* What the account holds by an index set.
LEMMA HeldBySet ==
  ASSUME NEW m \in Markets, Slots[m] = 2
  PROVE  Held(m, 1) = held[m][1] /\ Held(m, 2) = held[m][2]
<1>1. Outcomes(m) = {1, 2}
  BY DEF Outcomes
<1>2. ASSUME NEW set \in {1, 2} PROVE {i \in Outcomes(m) : 2^(i - 1) = set} = {set}
  <2>1. \A i \in {1, 2} : 2^(i - 1) = i
    BY Powers, Zenon
  <2> QED
    BY <1>1, <2>1, Zenon
<1>3. ASSUME NEW set \in {1, 2} PROVE Held(m, set) = held[m][set]
  <2>1. (CHOOSE i \in {set} : TRUE) = set
    OBVIOUS
  <2>2. {set} # {}
    OBVIOUS
  <2> QED
    BY <1>2, <2>1, <2>2, Zenon DEF Held
<1> QED
  BY <1>3

\* The sets that are merged: none is left.
LEMMA Merging ==
  ASSUME WorldOK, NEW m \in Markets, Partition(m)
  PROVE  /\ Mergeable(m) \in Nat /\ \A i \in Outcomes(m) : Mergeable(m) <= held[m][i]
         /\ \E i \in Outcomes(m) : Mergeable(m) = held[m][i]
<1>1. Slots[m] = 2 /\ Outcomes(m) = {1, 2}
  BY PartitionIsBinary DEF Outcomes
<1>2. held[m][1] \in Nat /\ held[m][2] \in Nat
  BY <1>1 DEF WorldOK, AccountOK
<1> DEFINE b == Balances1155(m)
           least(x) == x \in Range(b) /\ \A y \in Range(b) : x <= y
<1>3. Range(b) = {held[m][1], held[m][2]}
  <2>1. IndexSets(Slots[m]) = {1, 2}
    BY <1>1 DEF IndexSets
  <2>2. b = [s \in {1, 2} |-> Held(m, s)]
    BY <2>1 DEF Balances1155
  <2>3. DOMAIN b = {1, 2} /\ b[1] = held[m][1] /\ b[2] = held[m][2]
    BY <1>1, <2>2, HeldBySet
  <2> HIDE DEF b
  <2> QED
    BY <2>3 DEF Range
<1> HIDE DEF b
<1>4. \E x : least(x)
  <2>1. CASE held[m][1] <= held[m][2]
    BY <1>2, <1>3, <2>1
  <2>2. CASE held[m][2] <= held[m][1]
    BY <1>2, <1>3, <2>2
  <2> QED
    BY <1>2, <2>1, <2>2
<1>5. Mergeable(m) = CHOOSE x : least(x)
  BY Zenon DEF Mergeable, Smallest, b
<1>6. least(Mergeable(m))
  BY <1>4, <1>5, Zenon
<1> QED
  BY <1>1, <1>2, <1>3, <1>6

LEMMA MergeStep ==
  ASSUME IInv, Merge
  PROVE  IInv'
<1> DEFINE m == call.m
           t == Token[m]
           sets == Mergeable(m)
           balance == wallet[t] + sets
           h == [i \in Outcomes(m) |-> held[m][i] - sets]
<1>1. RunOK /\ call.at = "merge" /\ call.op = "remove" /\ m \in Markets /\ call.before \in Nat
  BY Running DEF IInv, Merge, At, RunOK
<1>2. WorldOK /\ MakersOK /\ AccountOK /\ CountersOK
  BY DEF IInv, WorldOK
<1>3. /\ held' = [held EXCEPT ![m] = h]
      /\ wallet' = [wallet EXCEPT ![t] = balance]
      /\ Mined([Go("withdraw") EXCEPT !.amount = balance - call.before])
      /\ UNCHANGED <<chain, market, shares, earned, books>>
  <2>1. held' = [held EXCEPT ![m] = [i \in Outcomes(m) |-> @[i] - sets]]
    BY Zenon DEF Merge
  <2> QED
    BY <2>1 DEF Merge
<1>4. /\ sets \in Nat /\ \A i \in Outcomes(m) : sets <= held[m][i]
      /\ \E i \in Outcomes(m) : sets = held[m][i]
  BY <1>1, <1>2, Merging DEF Merge
<1>5. wallet[t] \in Nat /\ wallet[t] >= call.before
  <2>1. wallet[t] \in Nat
    BY <1>1, <1>2, Constants DEF AccountOK
  <2>2. Balance >= call.before
    BY <1>1 DEF IInv, Going, BalanceKept
  <2> QED
    BY <2>1, <2>2 DEF Balance
<1> HIDE DEF sets
<1>6. \A i \in Outcomes(m) : held[m][i] \in Nat
  BY <1>1, <1>2 DEF AccountOK
<1>7. wallet' \in Wallets /\ wallet'[t] = balance
  <2>1. balance \in Nat
    BY <1>4, <1>5
  <2> HIDE DEF balance
  <2> QED
    BY <1>1, <1>2, <1>3, <2>1, WalletStep
<1>8. MakersOK' /\ \A x \in Markets : pool[x] # <<>> => pool'[x] # <<>>
  BY <1>2, <1>3 DEF MakersOK, market
<1>9. AccountOK' /\ \E i \in Outcomes(m) : held'[m][i] = 0
  <2>1. h \in [Outcomes(m) -> Nat] /\ \E i \in Outcomes(m) : h[i] = 0
    BY <1>4, <1>6
  <2>2. shares' = [shares EXCEPT ![m] = shares[m]] /\ shares[m] \in Nat
    BY <1>1, <1>2, <1>3 DEF AccountOK
  <2>3. earned' = [earned EXCEPT ![m] = earned[m]] /\ earned[m] \in Nat
    BY <1>1, <1>2, <1>3 DEF AccountOK
  <2>4. shares[m] <= supply'[m] /\ supply' = supply
    BY <1>1, <1>2, <1>3 DEF AccountOK, market
  <2>5. held'[m] = h
    BY <1>1, <1>2, <1>3 DEF AccountOK
  <2> HIDE DEF h
  <2>6. AccountOK'
    BY <1>1, <1>2, <1>3, <1>7, <2>1, <2>2, <2>3, <2>4, AccountStep
  <2> QED
    BY <2>1, <2>5, <2>6
<1>10. QuestionsOK' /\ BooksOK'
  BY <1>3 DEF IInv, WorldOK, QuestionsOK, BooksOK, chain, question, books
<1>11. CountersOK' /\ (call' = [Go("withdraw") EXCEPT !.amount = balance - call.before] \/ call' = Raised)
  BY <1>2, <1>3, MinedCounts
<1>12. CASE call' = [Go("withdraw") EXCEPT !.amount = balance - call.before]
  <2>1. SameCall("withdraw") /\ call'.amount = balance - call.before
    BY <1>1, <1>12 DEF SameCall, Go, RunOK
  <2>2. call.op \in Places["withdraw"]
    BY <1>1 DEF Places
  <2>3. call'.amount \in Nat /\ wallet'[t] = call.before + call'.amount
    BY <1>1, <1>4, <1>5, <1>7, <2>1
  <2>4. Going'
    BY <1>1, <1>8, <1>9, <2>1, <2>2, <2>3, WithdrawNext
  <2> QED
    BY <1>8, <1>9, <1>10, <1>11, <2>4 DEF IInv, WorldOK
<1>13. CASE call' = Raised
  BY <1>1, <1>8, <1>9, <1>10, <1>11, <1>13, RaisedGoes DEF IInv, WorldOK
<1> QED
  BY <1>11, <1>12, <1>13

\* What a redemption pays.
LEMMA PayoutIsNat ==
  ASSUME WorldOK, NEW m \in Markets, NEW outcomes
  PROVE  Payout(m, outcomes) \in Nat
<1>1. Slots[m] \in Nat \ {0} /\ Outcomes(m) = 1..Slots[m]
  BY Constants DEF Outcomes
<1>2. ASSUME NEW i \in Outcomes(m) PROVE Pays(m, i) \in Nat
  <2>1. held[m][i] \in Nat
    BY DEF WorldOK, AccountOK
  <2>2. held[m][i] \div Slots[m] \in Nat
    BY <1>1, <2>1, Quotients
  <2> QED
    BY <2>1, <2>2 DEF Pays
<1> DEFINE s == [i \in Outcomes(m) |-> IF i \in outcomes THEN Pays(m, i) ELSE 0]
<1>3. s \in [1..Slots[m] -> Nat]
  BY <1>1, <1>2
<1> HIDE DEF s
<1>4. SumOf(s) \in Nat
  BY <1>1, <1>3, SumIsNat
<1> QED
  BY <1>4 DEF Payout, s

LEMMA RedeemStep ==
  ASSUME IInv, Redeem
  PROVE  IInv'
<1> DEFINE m == call.m
           t == Token[m]
           payout == Payout(m, RedeemedOutcomes)
           h == [i \in Outcomes(m) |-> IF i \in RedeemedOutcomes THEN 0 ELSE held[m][i]]
<1>1. /\ RunOK /\ call.at = "redeem" /\ call.op \in {"redeem_full", "redeem_all"}
      /\ m \in Markets /\ call.before \in Nat
  BY Running DEF IInv, Redeem, RunOK, Places
<1>2. WorldOK /\ MakersOK /\ AccountOK /\ CountersOK /\ BooksOK
  BY DEF IInv, WorldOK
<1>3. /\ held' = [held EXCEPT ![m] = h]
      /\ wallet' = [wallet EXCEPT ![t] = wallet[t] + payout]
      /\ paid' = [paid EXCEPT ![m] = paid[m] + payout]
      /\ Mined([Go("withdraw") EXCEPT !.amount = payout])
      /\ UNCHANGED <<chain, market, shares, earned, trades, provided>>
  <2>1. /\ held' = [held EXCEPT ![m] = [i \in Outcomes(m) |->
                        IF i \in RedeemedOutcomes THEN 0 ELSE @[i]]]
        /\ Mined([Go("withdraw") EXCEPT !.amount = Proceeds(m, RedeemedOutcomes)])
    BY Zenon DEF Redeem
  <2> QED
    BY <2>1 DEF Redeem, Proceeds
<1>4. payout \in Nat
  BY <1>1, <1>2, PayoutIsNat
<1>5. wallet[t] \in Nat /\ wallet[t] = call.before
  <2>1. wallet[t] \in Nat
    BY <1>1, <1>2, Constants DEF AccountOK
  <2>2. Balance = call.before
    BY <1>1 DEF IInv, Going, BalanceKept
  <2> QED
    BY <2>1, <2>2 DEF Balance
<1> HIDE DEF payout
<1>6. \A i \in Outcomes(m) : held[m][i] \in Nat
  BY <1>1, <1>2 DEF AccountOK
<1>7. wallet' \in Wallets /\ wallet'[t] = wallet[t] + payout
  <2>1. wallet[t] + payout \in Nat
    BY <1>4, <1>5
  <2> QED
    BY <1>1, <1>2, <1>3, <2>1, WalletStep
<1>8. MakersOK' /\ \A x \in Markets : pool[x] # <<>> => pool'[x] # <<>>
  BY <1>2, <1>3 DEF MakersOK, market
<1>9. AccountOK'
  <2>1. h \in [Outcomes(m) -> Nat]
    BY <1>6
  <2>2. shares' = [shares EXCEPT ![m] = shares[m]] /\ shares[m] \in Nat
    BY <1>1, <1>2, <1>3 DEF AccountOK
  <2>3. earned' = [earned EXCEPT ![m] = earned[m]] /\ earned[m] \in Nat
    BY <1>1, <1>2, <1>3 DEF AccountOK
  <2>4. shares[m] <= supply'[m] /\ supply' = supply
    BY <1>1, <1>2, <1>3 DEF AccountOK, market
  <2> HIDE DEF h
  <2> QED
    BY <1>1, <1>2, <1>3, <1>7, <2>1, <2>2, <2>3, <2>4, AccountStep
<1>10. QuestionsOK' /\ BooksOK'
  <2>1. QuestionsOK'
    BY <1>3 DEF IInv, WorldOK, QuestionsOK, chain, question
  <2>2. paid[m] + payout \in Nat
    BY <1>1, <1>2, <1>4 DEF BooksOK
  <2>3. BooksOK'
    BY <1>1, <1>2, <1>3, <2>2 DEF BooksOK
  <2> QED
    BY <2>1, <2>3
<1>11. CountersOK' /\ (call' = [Go("withdraw") EXCEPT !.amount = payout] \/ call' = Raised)
  BY <1>2, <1>3, MinedCounts
<1>12. CASE call' = [Go("withdraw") EXCEPT !.amount = payout]
  <2>1. SameCall("withdraw") /\ call'.amount = payout
    BY <1>1, <1>12 DEF SameCall, Go, RunOK
  <2>2. call.op \in Places["withdraw"] /\ call.op # "remove"
    BY <1>1 DEF Places
  <2>3. call'.amount \in Nat /\ wallet'[t] = call.before + call'.amount
    BY <1>1, <1>4, <1>5, <1>7, <2>1
  <2>4. Going'
    BY <1>1, <1>8, <2>1, <2>2, <2>3, WithdrawNext
  <2> QED
    BY <1>8, <1>9, <1>10, <1>11, <2>4 DEF IInv, WorldOK
<1>13. CASE call' = Raised
  BY <1>1, <1>8, <1>9, <1>10, <1>11, <1>13, RaisedGoes DEF IInv, WorldOK
<1> QED
  BY <1>11, <1>12, <1>13

\* The collateral of a market in the wallet.
LEMMA WalletHas ==
  ASSUME WorldOK, NEW m \in Markets
  PROVE  wallet[Token[m]] \in Nat
BY Constants DEF WorldOK, AccountOK

\* The next position of a list.
LEMMA LiquidateNextStep ==
  ASSUME IInv, LiquidateNext
  PROVE  IInv'
<1>1. RunOK /\ call.op = "liquidate" /\ call.at = "next"
  BY Running DEF IInv, LiquidateNext, At
<1>2. call.m \in Markets /\ call.todo \subseteq Sets \X Nat
  BY <1>1 DEF RunOK, ListOK
<1>3. UNCHANGED <<chain, market, account, wallet, books>> /\ faults' \in Nat
  BY DEF LiquidateNext, IInv, CountersOK
<1>4. WorldOK' /\ CountersOK' /\ pool' = pool /\ wallet' = wallet
  BY <1>3, Still
<1>5. CASE call' = Raised
  BY <1>1, <1>4, <1>5, RaisedGoes DEF IInv
<1>6. ASSUME NEW p \in call.todo, p[1] \in Outcomes(call.m),
             call' = [call EXCEPT !.i = p[1], !.todo = @ \ {p},
                          !.amount = SellValue(call.m, p[1], p[2]), !.at = "quote",
                          !.before = wallet[Token[call.m]]]
      PROVE  IInv'
  <2>1. /\ DOMAIN call' = DOMAIN call /\ call'.at = "quote" /\ call'.op = "liquidate"
        /\ call'.m = call.m /\ call'.i = p[1] /\ call'.todo = call.todo \ {p}
        /\ call'.amount = SellValue(call.m, p[1], p[2])
        /\ call'.before = wallet[Token[call.m]]
    BY <1>1, <1>6 DEF RunOK
  <2>2. call'.amount \in Nat
    <3>1. p[2] \in Nat
      BY <1>2, <1>6
    <3> QED
      BY <2>1, <3>1, SellAmountIsNat DEF SellValue
  <2>3. call'.before \in Nat
    BY <1>2, <2>1, WalletHas DEF IInv
  <2>4. "quote" \in DOMAIN Places /\ "liquidate" \in Places["quote"]
    BY DEF Places
  <2>5. SwapOK' /\ ListOK'
    BY <1>2, <2>1 DEF SwapOK, ListOK
  <2>6. DOMAIN call = {"op", "m", "i", "amount", "limit", "at", "tries", "todo", "before"}
    BY <1>1 DEF RunOK
  <2>7. RunOK'
    BY <1>2, <1>6, <2>1, <2>2, <2>3, <2>4, <2>5, <2>6 DEF RunOK, At
  <2>8. BalanceKept' /\ SetsMerged'
    BY <1>4, <2>1 DEF BalanceKept, Balance, SetsMerged, At
  <2> QED
    BY <1>4, <2>7, <2>8 DEF IInv, Going, CallOK
<1> QED
  BY <1>5, <1>6 DEF LiquidateNext

LEMMA RedeemNextStep ==
  ASSUME IInv, RedeemNext
  PROVE  IInv'
<1>1. RunOK /\ call.op = "redeem_all" /\ call.at = "next"
  BY Running DEF IInv, RedeemNext, At
<1>2. call.todo \subseteq Markets \X Sets /\ call.amount \in Nat /\ call.before \in Nat
  BY <1>1 DEF RunOK, ListOK
<1>3. UNCHANGED <<chain, market, account, wallet, books>> /\ faults' \in Nat
  BY DEF RedeemNext, IInv, CountersOK
<1>4. WorldOK' /\ CountersOK' /\ pool' = pool /\ wallet' = wallet
  BY <1>3, Still
<1>5. DOMAIN call = {"op", "m", "i", "amount", "limit", "at", "tries", "todo", "before"}
  BY <1>1 DEF RunOK
<1>6. /\ "redeem" \in DOMAIN Places /\ "next" \in DOMAIN Places
      /\ "redeem_all" \in Places["redeem"] /\ "redeem_all" \in Places["next"]
  BY DEF Places
<1>7. ASSUME NEW p \in call.todo,
             call' = [call EXCEPT !.m = p[1], !.i = OutcomeOf(p[2]),
                          !.todo = @ \ {p}, !.at = "redeem",
                          !.before = wallet[Token[p[1]]]]
      PROVE  IInv'
  <2>1. /\ DOMAIN call' = DOMAIN call /\ call'.at = "redeem" /\ call'.op = "redeem_all"
        /\ call'.m = p[1] /\ call'.todo = call.todo \ {p}
        /\ call'.amount = call.amount /\ call'.before = wallet[Token[p[1]]]
    BY <1>1, <1>5, <1>7
  <2>2. p[1] \in Markets
    BY <1>2, <1>7
  <2>3. call'.before \in Nat
    BY <2>1, <2>2, WalletHas DEF IInv
  <2>4. SwapOK' /\ ListOK'
    BY <1>2, <2>1 DEF SwapOK, ListOK
  <2>5. RunOK'
    BY <1>2, <1>5, <1>6, <2>1, <2>2, <2>3, <2>4 DEF RunOK, At
  <2>6. BalanceKept' /\ SetsMerged'
    BY <1>4, <2>1 DEF BalanceKept, Balance, SetsMerged, At
  <2> QED
    BY <1>4, <2>5, <2>6 DEF IInv, Going, CallOK
<1>8. ASSUME NEW p \in call.todo, call' = [call EXCEPT !.todo = @ \ {p}]
      PROVE  IInv'
  <2>1. /\ DOMAIN call' = DOMAIN call /\ call'.at = "next" /\ call'.op = "redeem_all"
        /\ call'.m = call.m /\ call'.todo = call.todo \ {p}
        /\ call'.amount = call.amount /\ call'.before = call.before
    BY <1>1, <1>5, <1>8
  <2>2. SwapOK' /\ ListOK'
    BY <1>2, <2>1 DEF SwapOK, ListOK
  <2>3. call.m \in Markets \/ call.m = "none"
    BY <1>1 DEF RunOK
  <2>4. RunOK'
    BY <1>2, <1>5, <1>6, <2>1, <2>2, <2>3 DEF RunOK, At
  <2>5. BalanceKept' /\ SetsMerged'
    BY <2>1 DEF BalanceKept, SetsMerged, At
  <2> QED
    BY <1>4, <2>4, <2>5 DEF IInv, Going, CallOK
<1> QED
  BY <1>7, <1>8 DEF RedeemNext

-----------------------------------------------------------------------------
\* A call begins in an unchanged world.
LEMMA World ==
  ASSUME IInv, UNCHANGED <<now, market, question, account, wallet, books, moves, faults>>,
         calls' \in Nat
  PROVE  /\ WorldOK' /\ CountersOK'
         /\ UNCHANGED <<pool, supply, held, shares, wallet>>
<1>1. UNCHANGED <<market, question, account, wallet, books>>
  OBVIOUS
<1>2. WorldOK'
  BY <1>1, WorldUnchanged DEF IInv
<1>3. CountersOK'
  BY DEF IInv, CountersOK
<1> QED
  BY <1>2, <1>3 DEF market, account

LEMMA BeginStep ==
  ASSUME IInv, NEW op, NEW m \in Markets, NEW i, NEW amount \in Nat,
         NEW at \in {"quote", "deposit", "redeem"}, Begin(op, m, i, amount, at),
         op \in {"buy", "sell", "fund", "create", "redeem_full"}, op \in Places[at],
         op \in {"buy", "sell"} => i \in Outcomes(m),
         op = "fund" => pool[m] # <<>>,
         UNCHANGED <<now, market, question, account, wallet, books, moves, faults>>
  PROVE  IInv'
<1>1. calls' \in Nat
  BY DEF Begin, IInv, CountersOK
<1>2. WorldOK' /\ CountersOK' /\ pool' = pool /\ wallet' = wallet
  BY <1>1, World
<1>3. /\ DOMAIN call' = {"op", "m", "i", "amount", "limit", "at", "tries", "todo", "before"}
      /\ call'.op = op /\ call'.m = m /\ call'.i = i /\ call'.amount = amount
      /\ call'.at = at /\ call'.before = wallet[Token[m]]
  BY DEF Begin, Idle
<1>4. call'.before \in Nat
  BY <1>3, WalletHas DEF IInv
<1>5. at \in DOMAIN Places
  BY DEF Places
<1>6. SwapOK' /\ ListOK'
  BY <1>3 DEF SwapOK, ListOK
<1>7. RunOK'
  BY <1>2, <1>3, <1>4, <1>5, <1>6 DEF RunOK, At
<1>8. BalanceKept' /\ SetsMerged'
  BY <1>2, <1>3 DEF BalanceKept, Balance, SetsMerged, At
<1> QED
  BY <1>2, <1>7, <1>8 DEF IInv, Going, CallOK

LEMMA StakeIsNat ==
  ASSUME NEW m \in Markets
  PROVE  InToken(Token[m], Stake) \in Nat
BY Constants, Conversions

\* What the account holds by any index set.
LEMMA HeldIsNat ==
  ASSUME WorldOK, NEW m \in Markets, NEW set
  PROVE  Held(m, set) \in Nat
<1> DEFINE outcomes == {i \in Outcomes(m) : 2^(i - 1) = set}
<1>1. outcomes \subseteq Outcomes(m)
  OBVIOUS
<1>2. Held(m, set) = IF outcomes = {} THEN 0 ELSE held[m][CHOOSE i \in outcomes : TRUE]
  BY Zenon DEF Held
<1> HIDE DEF outcomes
<1>3. held[m] \in [Outcomes(m) -> Nat]
  BY DEF WorldOK, AccountOK
<1>4. CASE outcomes = {}
  BY <1>2, <1>4
<1>5. CASE outcomes # {}
  <2>1. (CHOOSE i \in outcomes : TRUE) \in outcomes
    BY <1>5
  <2>2. (CHOOSE i \in outcomes : TRUE) \in Outcomes(m)
    BY <1>1, <2>1
  <2> QED
    BY <1>2, <1>3, <1>5, <2>2
<1> QED
  BY <1>4, <1>5

LEMMA Starts ==
  ASSUME IInv, NEW m \in Markets,
         \/ StartCreate(m) \/ StartFund(m) \/ StartRedeemPositions(m)
         \/ \E i \in Outcomes(m) : StartBet(m, i) \/ StartSell(m, i)
  PROVE  IInv'
<1>1. CASE StartCreate(m)
  <2>1. /\ Begin("create", m, 0, InToken(Token[m], Stake), "deposit")
        /\ UNCHANGED <<now, market, question, account, wallet, books, moves, faults>>
    BY <1>1 DEF StartCreate
  <2>2. "create" \in Places["deposit"]
    BY DEF Places, Wanting
  <2> QED
    BY <2>1, <2>2, StakeIsNat, BeginStep
<1>2. CASE StartFund(m)
  <2>1. /\ Begin("fund", m, 0, InToken(Token[m], Stake), "deposit")
        /\ UNCHANGED <<now, market, question, account, wallet, books, moves, faults>>
        /\ pool[m] # <<>>
    BY <1>2 DEF StartFund, Exists
  <2>2. "fund" \in Places["deposit"]
    BY DEF Places, Wanting
  <2> QED
    BY <2>1, <2>2, StakeIsNat, BeginStep
<1>3. CASE StartRedeemPositions(m)
  <2>1. /\ Begin("redeem_full", m, 0, 0, "redeem")
        /\ UNCHANGED <<now, market, question, account, wallet, books, moves, faults>>
    BY <1>3 DEF StartRedeemPositions, StartRedeemFull
  <2>2. "redeem_full" \in Places["redeem"] /\ 0 \in Nat
    BY DEF Places
  <2> QED
    BY <2>1, <2>2, BeginStep
<1>4. ASSUME NEW i \in Outcomes(m), StartBet(m, i) PROVE IInv'
  <2>1. /\ Begin("buy", m, i, InToken(Token[m], Stake), "quote")
        /\ UNCHANGED <<now, market, question, account, wallet, books, moves, faults>>
    BY <1>4 DEF StartBet
  <2>2. "buy" \in Places["quote"]
    BY DEF Places
  <2> QED
    BY <2>1, <2>2, StakeIsNat, BeginStep
<1>5. ASSUME NEW i \in Outcomes(m), StartSell(m, i) PROVE IInv'
  <2>1. PICK amount \in {InToken(Token[m], Stake), SellValue(m, i, held[m][i])} :
            Begin("sell", m, i, amount, "quote")
    BY <1>5 DEF StartSell
  <2>2. UNCHANGED <<now, market, question, account, wallet, books, moves, faults>>
    BY <1>5 DEF StartSell
  <2>3. "sell" \in Places["quote"]
    BY DEF Places
  <2>4. amount \in Nat
    <3>1. held[m][i] \in Nat
      BY <1>5 DEF IInv, WorldOK, AccountOK
    <3>2. SellValue(m, i, held[m][i]) \in Nat
      BY <3>1, SellAmountIsNat DEF SellValue
    <3> QED
      BY <2>1, <3>2, StakeIsNat
  <2> QED
    BY <2>1, <2>2, <2>3, <2>4, BeginStep
<1> QED
  BY <1>1, <1>2, <1>3, <1>4, <1>5

\* The calls that go through a list, and the removal of liquidity.
LEMMA StartLiquidateStep ==
  ASSUME IInv, NEW m \in Markets, NEW i \in Outcomes(m), StartLiquidate(m, i)
  PROVE  IInv'
<1>1. /\ calls' = calls + 1
      /\ UNCHANGED <<now, market, question, account, wallet, books, moves, faults>>
  BY DEF StartLiquidate
<1>2. calls' \in Nat
  BY <1>1 DEF IInv, CountersOK
<1>3. WorldOK' /\ CountersOK' /\ wallet' = wallet
  BY <1>1, <1>2, World
<1> DEFINE todo == {<<p[2], Held(p[1], p[2])>> : p \in {r \in LiquidPositions : r[2] # i}}
<1>4. /\ DOMAIN call' = {"op", "m", "i", "amount", "limit", "at", "tries", "todo", "before"}
      /\ call'.op = "liquidate" /\ call'.m = m /\ call'.amount = 0
      /\ call'.at = "next" /\ call'.before = wallet[Token[m]]
      /\ call'.todo = todo
  BY DEF StartLiquidate, Idle
<1>5. todo \subseteq Sets \X Nat
  <2>1. ASSUME NEW p \in LiquidPositions PROVE <<p[2], Held(p[1], p[2])>> \in Sets \X Nat
    <3>1. p \in Markets \X {1, 2, 4}
      BY <2>1 DEF LiquidPositions, Positions
    <3>2. p[1] \in Markets /\ p[2] \in Sets
      BY <3>1 DEF Sets
    <3>3. Held(p[1], p[2]) \in Nat
      BY <3>2, HeldIsNat DEF IInv
    <3> QED
      BY <3>2, <3>3
  <2> QED
    BY <2>1
<1> HIDE DEF todo
<1>6. call'.before \in Nat
  BY <1>4, WalletHas DEF IInv
<1>7. "next" \in DOMAIN Places /\ "liquidate" \in Places["next"]
  BY DEF Places
<1>8. SwapOK' /\ ListOK'
  BY <1>4, <1>5 DEF SwapOK, ListOK
<1>9. RunOK'
  BY <1>4, <1>6, <1>7, <1>8 DEF RunOK, At
<1>10. BalanceKept' /\ SetsMerged'
  BY <1>4 DEF BalanceKept, SetsMerged, At
<1> QED
  BY <1>3, <1>9, <1>10 DEF IInv, Going, CallOK

LEMMA StartRedeemAllStep ==
  ASSUME IInv, StartRedeemAll
  PROVE  IInv'
<1>1. UNCHANGED <<chain, market, account, wallet, books>> /\ faults' \in Nat
  BY DEF StartRedeemAll, IInv, CountersOK
<1>2. WorldOK' /\ CountersOK'
  BY <1>1, Still
<1>3. /\ DOMAIN call' = {"op", "m", "i", "amount", "limit", "at", "tries", "todo", "before"}
      /\ call'.op = "redeem_all" /\ call'.m = "none" /\ call'.amount = 0
      /\ call'.at = "next" /\ call'.before = 0 /\ call'.todo = Positions
  BY DEF StartRedeemAll, Idle
<1>4. Positions \subseteq Markets \X Sets
  BY DEF Positions, Sets
<1>5. "next" \in DOMAIN Places /\ "redeem_all" \in Places["next"]
  BY DEF Places
<1>6. SwapOK' /\ ListOK'
  BY <1>3, <1>4 DEF SwapOK, ListOK
<1>7. RunOK'
  BY <1>3, <1>5, <1>6 DEF RunOK, At
<1>8. BalanceKept' /\ SetsMerged'
  BY <1>3 DEF BalanceKept, SetsMerged, At
<1> QED
  BY <1>2, <1>7, <1>8 DEF IInv, Going, CallOK

LEMMA StartRemoveStep ==
  ASSUME IInv, NEW m \in Markets, StartRemove(m)
  PROVE  IInv'
<1>1. PICK some \in {shares[m], shares[m] \div 2} :
          /\ some > 0 /\ calls' = calls + 1
          /\ call' = [Idle EXCEPT !.op = "remove", !.m = m, !.limit = some,
                          !.before = wallet[Token[m]], !.at = "remove"]
  BY DEF StartRemove
<1>2. UNCHANGED <<now, market, question, account, wallet, books, moves, faults>>
  BY DEF StartRemove
<1>3. calls' \in Nat
  BY <1>1 DEF IInv, CountersOK
<1>4. WorldOK' /\ CountersOK' /\ wallet' = wallet /\ shares' = shares
  BY <1>2, <1>3, World
<1>5. some \in 1..shares[m]
  <2>1. shares[m] \in Nat
    BY DEF IInv, WorldOK, AccountOK
  <2> QED
    BY <1>1, <2>1
<1>6. /\ DOMAIN call' = {"op", "m", "i", "amount", "limit", "at", "tries", "todo", "before"}
      /\ call'.op = "remove" /\ call'.m = m /\ call'.amount = 0 /\ call'.limit = some
      /\ call'.at = "remove" /\ call'.before = wallet[Token[m]]
  BY <1>1 DEF Idle
<1>7. call'.before \in Nat
  BY <1>6, WalletHas DEF IInv
<1>8. "remove" \in DOMAIN Places /\ "remove" \in Places["remove"]
  BY DEF Places
<1>9. SwapOK' /\ ListOK'
  BY <1>6 DEF SwapOK, ListOK
<1>10. RunOK'
  BY <1>4, <1>5, <1>6, <1>7, <1>8, <1>9 DEF RunOK, At
<1>11. BalanceKept' /\ SetsMerged'
  BY <1>4, <1>6 DEF BalanceKept, Balance, SetsMerged, At
<1> QED
  BY <1>4, <1>10, <1>11 DEF IInv, Going, CallOK

LEMMA RemoveNothingStep ==
  ASSUME IInv, NEW m \in Markets, RemoveNothing(m)
  PROVE  IInv'
<1>1. /\ calls' = calls + 1
      /\ call' = [Idle EXCEPT !.op = "remove", !.m = m, !.i = 0, !.amount = 0,
                              !.at = "return", !.before = wallet[Token[m]]]
  BY DEF RemoveNothing, Begin
<1>2. UNCHANGED <<now, market, question, account, wallet, books, moves, faults>>
  BY DEF RemoveNothing
<1>3. calls' \in Nat
  BY <1>1 DEF IInv, CountersOK
<1>4. WorldOK' /\ CountersOK'
  BY <1>2, <1>3, World
<1>5. /\ DOMAIN call' = {"op", "m", "i", "amount", "limit", "at", "tries", "todo", "before"}
      /\ call'.op = "remove" /\ call'.m = m /\ call'.amount = 0 /\ call'.limit = 0
      /\ call'.at = "return" /\ call'.before = wallet[Token[m]]
  BY <1>1 DEF Idle
<1>6. call'.before \in Nat
  BY <1>5, WalletHas DEF IInv
<1>7. "return" \in DOMAIN Places /\ "remove" \in Places["return"]
  BY DEF Places
<1>8. SwapOK' /\ ListOK'
  BY <1>5 DEF SwapOK, ListOK
<1>9. RunOK'
  BY <1>5, <1>6, <1>7, <1>8 DEF RunOK, At
<1>10. BalanceKept' /\ SetsMerged'
  BY <1>5 DEF BalanceKept, SetsMerged, At
<1> QED
  BY <1>4, <1>9, <1>10 DEF IInv, Going, CallOK

-----------------------------------------------------------------------------
\* The environment.
LEMMA TickStep ==
  ASSUME IInv, Tick \/ UNCHANGED vars
  PROVE  IInv'
<1>1. UNCHANGED <<market, question, account, wallet, books>> /\ UNCHANGED call
  BY DEF Tick, vars
<1>2. WorldOK'
  BY <1>1, WorldUnchanged DEF IInv
<1>3. CountersOK'
  BY DEF IInv, CountersOK, Tick, vars, bounds
<1>4. pool' = pool /\ UNCHANGED <<call, wallet, held, shares>>
  BY <1>1 DEF market, account
<1>5. Going'
  BY <1>4, CallUnchanged DEF IInv
<1> QED
  BY <1>2, <1>3, <1>5 DEF IInv

LEMMA OtherBuysStep ==
  ASSUME IInv, NEW m \in Markets, NEW i \in Outcomes(m), OtherBuys(m, i)
  PROVE  IInv'
<1> DEFINE n == Slots[m]
           fee == OtherBet - Invested(OtherBet, Fee)
           p == PoolAfterBuy(pool[m], i, OtherBet, Fee)
<1>1. WorldOK /\ MakersOK /\ AccountOK /\ CountersOK
  BY DEF IInv, WorldOK
<1>2. /\ supply[m] > 0 /\ moves' = moves + 1
      /\ pool' = [pool EXCEPT ![m] = p]
      /\ earned' = [earned EXCEPT ![m] = earned[m] + FeeShare(m, fee)]
      /\ UNCHANGED <<now, supply, question, held, shares, wallet, books, call, calls, faults>>
  BY DEF OtherBuys, CanBeTraded
<1>3. pool[m] \in Filled(n) /\ n \in Nat /\ i \in 1..n /\ Outcomes(m) = 1..n
  BY <1>1, <1>2, PoolIsFilled
<1>4. p \in Filled(n)
  BY <1>3, Constants, Purchase
<1>5. fee \in Nat /\ FeeShare(m, fee) \in Nat
  <2>1. Invested(OtherBet, Fee) \in 0..OtherBet /\ OtherBet \in Nat
    BY Constants, Fees
  <2>2. fee \in Nat
    BY <2>1
  <2> QED
    BY <1>1, <2>2, FeeShareIsNat
<1> HIDE DEF p, fee
<1>6. MakersOK' /\ \A x \in Markets : pool[x] # <<>> => pool'[x] # <<>>
  <2>1. p \in [Outcomes(m) -> Nat] /\ \A j \in Outcomes(m) : p[j] > 0
    BY <1>3, <1>4 DEF Filled
  <2>2. supply' = [supply EXCEPT ![m] = supply[m]] /\ supply[m] \in Nat
    BY <1>1, <1>2 DEF MakersOK
  <2> QED
    BY <1>1, <1>2, <2>1, <2>2, MakersStep
<1>7. AccountOK'
  <2>1. shares' = [shares EXCEPT ![m] = shares[m]] /\ shares[m] \in Nat
    BY <1>1, <1>2 DEF AccountOK
  <2>2. shares[m] <= supply'[m] /\ supply' = supply
    BY <1>1, <1>2 DEF AccountOK
  <2>3. earned[m] + FeeShare(m, fee) \in Nat
    BY <1>1, <1>5 DEF AccountOK
  <2>4. held[m] \in [Outcomes(m) -> Nat] /\ wallet' \in Wallets
    BY <1>1, <1>2 DEF AccountOK, Wallets
  <2> QED
    BY <1>1, <1>2, <2>1, <2>2, <2>3, <2>4, AccountStep
<1>8. QuestionsOK' /\ BooksOK' /\ CountersOK'
  BY <1>2 DEF IInv, WorldOK, QuestionsOK, BooksOK, CountersOK, question, books
<1>9. Going'
  BY <1>2, <1>6, CallUnchanged DEF IInv
<1> QED
  BY <1>6, <1>7, <1>8, <1>9 DEF IInv, WorldOK

LEMMA AnswerStep ==
  ASSUME IInv, NEW m \in Markets, Resolve(m) \/ \E a \in Answers[m] : Answer(m, a)
  PROVE  IInv'
<1>1. UNCHANGED <<now, market, account, wallet, books, call, bounds, faults>>
  BY DEF Resolve, Answer
<1>2. MakersOK' /\ AccountOK' /\ BooksOK' /\ CountersOK'
  BY <1>1 DEF IInv, WorldOK, MakersOK, AccountOK, BooksOK, CountersOK, market, account,
              books, bounds
<1>3. QuestionsOK /\ now \in Nat
  BY DEF IInv, WorldOK, CountersOK
<1>4. ASSUME Resolve(m) PROVE QuestionsOK'
  BY <1>3, <1>4 DEF Resolve, QuestionsOK, Is
<1>5. ASSUME NEW a \in Answers[m], Answer(m, a) PROVE QuestionsOK'
  BY <1>3, <1>5 DEF Answer, QuestionsOK, Is
<1>6. pool' = pool /\ UNCHANGED <<call, wallet, held, shares>>
  BY <1>1 DEF market, account
<1>7. Going'
  BY <1>6, CallUnchanged DEF IInv
<1> QED
  BY <1>2, <1>4, <1>5, <1>7 DEF IInv, WorldOK

\* Every step keeps the invariant.
LEMMA NextKeeps ==
  ASSUME IInv, [Next]_vars
  PROVE  IInv'
<1>1. CASE Step
  BY <1>1, EnoughStep, WrapStep, AllReverts, SwapStep, WithdrawStep, QuoteBetStep, BuyStep,
     PrepareStep, CreateStep, FundStep, QuoteSellStep, SellStep, LiquidateNextStep, Ends,
     RemoveStep, MergeStep, RedeemNextStep, RedeemStep DEF Step
<1>2. CASE Fails \/ StartRedeemAll \/ Tick \/ UNCHANGED vars
  BY <1>2, FailsStep, StartRedeemAllStep, TickStep
<1>3. ASSUME NEW m \in Markets, StartCreate(m) \/ StartFund(m) \/ StartRedeemPositions(m)
      PROVE  IInv'
  BY <1>3, Starts
<1>4. ASSUME NEW m \in Markets, StartRemove(m) \/ RemoveNothing(m) PROVE IInv'
  BY <1>4, StartRemoveStep, RemoveNothingStep
<1>5. ASSUME NEW m \in Markets, Resolve(m) \/ \E a \in Answers[m] : Answer(m, a)
      PROVE  IInv'
  BY <1>5, AnswerStep
<1>6. ASSUME NEW m \in Markets, NEW i \in Outcomes(m), StartBet(m, i) \/ StartSell(m, i)
      PROVE  IInv'
  BY <1>6, Starts
<1>7. ASSUME NEW m \in Markets, NEW i \in Outcomes(m), StartLiquidate(m, i) \/ OtherBuys(m, i)
      PROVE  IInv'
  BY <1>7, StartLiquidateStep, OtherBuysStep
<1> QED
  BY <1>1, <1>2, <1>3, <1>4, <1>5, <1>6, <1>7 DEF Next

LEMMA Invariance == Spec => []IInv
<1>1. Init => IInv
  BY InitOK
<1>2. IInv /\ [Next]_vars => IInv'
  BY NextKeeps
<1> QED
  BY <1>1, <1>2, PTL DEF Spec

-----------------------------------------------------------------------------
(***************************************************************************)
(* Every variable keeps its type, and every call that runs is one the code *)
(* can be in: its operation at a place it gets to, with an outcome of its  *)
(* market where it bets or sells, shares it has where it removes           *)
(* liquidity, and the wxDai it needs where it converts.  No balance of the *)
(* wallet or of a market maker becomes negative.                           *)
(***************************************************************************)
THEOREM TypeCorrect == Spec => []TypeOK
<1>1. IInv => TypeOK
  BY DEF IInv, TypeOK, Going
<1> QED
  BY <1>1, Invariance, PTL

(***************************************************************************)
(* When a removal of liquidity that found shares returns, no complete set  *)
(* of outcome tokens is left: the merge takes the smallest of all          *)
(* balances, those the account got from bets or kept from a removal that   *)
(* failed half-way included, and only partitions are merged.               *)
(***************************************************************************)
THEOREM SetsAreMerged == Spec => []NoCompleteSetsLeft
<1>1. IInv => NoCompleteSetsLeft
  BY DEF IInv, Going, SetsMerged, NoCompleteSetsLeft
<1> QED
  BY <1>1, Invariance, PTL

-----------------------------------------------------------------------------
\* A call that is neither at its end nor in a list.
LEMMA Elsewhere ==
  ASSUME call'.at \notin {"return", "next"}
  PROVE  WithdrawsWhatItGot'
BY DEF WithdrawsWhatItGot

LEMMA RaisedElsewhere ==
  ASSUME RunOK, call' = Raised
  PROVE  WithdrawsWhatItGot'
<1>1. call'.at \in {"idle", "quote"}
  BY DEF Raised, Idle, RunOK
<1> QED
  BY <1>1, Elsewhere

\* The balance and what it is compared with remain.
LEMMA SameProceeds ==
  ASSUME WithdrawsWhatItGot, call'.at = call.at, call'.m = call.m,
         call'.before = call.before, wallet' = wallet
  PROVE  WithdrawsWhatItGot'
BY DEF WithdrawsWhatItGot

LEMMA WithdrawsTheDifference ==
  ASSUME Worth["sdai"] >= 50, IInv, Withdraw
  PROVE  WithdrawsWhatItGot'
<1> DEFINE t == Token[call.m]
           place == IF call.op \in {"liquidate", "redeem_all"} THEN "next" ELSE "return"
<1>1. /\ call.at = "withdraw" /\ wallet' \in Withdrawals(wallet, t, call.amount)
      /\ Mined(Go(place))
  BY DEF Withdraw
<1>2. RunOK /\ wallet \in Wallets
  BY <1>1, Running DEF IInv, WorldOK, AccountOK, Wallets
<1>3. call.m \in Markets /\ t \in Tokens /\ call.amount \in Nat /\ call.before \in Nat
  BY <1>1, <1>2, Constants DEF RunOK
<1>4. wallet[t] = call.before + call.amount
  BY <1>1 DEF IInv, Going, BalanceKept, Balance
<1>5. \/ Unwanted(t) \/ Kind(t) = "wrapper" \/ Worth["sdai"] < 50
      \/ wallet'[t] - (wallet[t] - call.amount) \in 0..1
  <2>1. wallet[t] >= call.amount
    BY <1>3, <1>4
  <2> HIDE DEF t
  <2> QED
    BY <1>1, <1>2, <1>3, <2>1, Withdrawing
<1>6. "sdai" \in Tokens /\ Worth["sdai"] \in Nat
  BY CollateralAssumption
<1>7. Unwanted(t) \/ Kind(t) = "wrapper" \/ wallet'[t] - call.before \in 0..1
  <2>1. ~(Worth["sdai"] < 50)
    BY <1>6
  <2>2. wallet[t] - call.amount = call.before
    BY <1>3, <1>4
  <2> QED
    BY <1>5, <2>1, <2>2
<1>8. CASE call' = Go(place)
  <2>1. call'.m = call.m /\ call'.before = call.before
    BY <1>2, <1>8, Goes
  <2> QED
    BY <1>7, <2>1 DEF WithdrawsWhatItGot
<1>9. CASE call' = Raised
  BY <1>2, <1>9, RaisedElsewhere
<1> QED
  BY <1>1, <1>8, <1>9 DEF Mined

\* The steps after which a call is neither at its end nor in a list.
LEMMA ProceedsLater ==
  ASSUME IInv, Step, ~Withdraw, ~LiquidateNext, ~RedeemNext
  PROVE  WithdrawsWhatItGot'
<1>1. call.at # "idle" => RunOK
  BY Running DEF IInv
<1>2. ASSUME NEW place \in {"ask", "trade", "swap", "prepare", "withdraw", "merge"},
             RunOK, call' = Go(place) \/ call' = Raised
      PROVE  WithdrawsWhatItGot'
  <2>1. call' = Go(place) => call'.at = place
    BY <1>2, Goes
  <2> QED
    BY <1>2, <2>1, Elsewhere, RaisedElsewhere
<1>3. call' = Idle => WithdrawsWhatItGot'
  BY Elsewhere DEF Idle
<1>4. Deposited \in {"ask", "trade"}
  BY DEF Deposited
<1>5. CASE EnoughCollateral \/ WrapShort \/ SwapForCollateral
  <2>1. call.at # "idle"
    BY <1>5 DEF EnoughCollateral, WrapShort, SwapForCollateral, At
  <2>2. \E place \in {"ask", "trade", "swap"} : call' = Go(place) \/ call' = Raised
    BY <1>4, <1>5 DEF EnoughCollateral, WrapShort, SwapForCollateral, Mined
  <2> QED
    BY <1>1, <1>2, <2>1, <2>2
<1>6. CASE OutOfMoney \/ BuyReverts \/ PaymentReverts \/ SellReverts \/ MergeReverts
  <2>1. call.at # "idle" /\ call' = Raised
    BY <1>6 DEF OutOfMoney, BuyReverts, PaymentReverts, SellReverts, MergeReverts, At, Reverts
  <2> QED
    BY <1>1, <2>1, RaisedElsewhere
<1>7. CASE QuoteBet
  <2>1. RunOK /\ DOMAIN call = {"op", "m", "i", "amount", "limit", "at", "tries", "todo", "before"}
    BY <1>1, <1>7 DEF QuoteBet, At, RunOK
  <2>2. call' = Raised \/ call'.at = "deposit"
    BY <1>7, <2>1 DEF QuoteBet
  <2> QED
    BY <2>1, <2>2, Elsewhere, RaisedElsewhere
<1>8. CASE QuoteSell
  <2>1. RunOK /\ DOMAIN call = {"op", "m", "i", "amount", "limit", "at", "tries", "todo", "before"}
    BY <1>1, <1>8 DEF QuoteSell, At, RunOK
  <2>2. call' = Raised \/ call'.at = "trade"
    BY <1>8, <2>1 DEF QuoteSell
  <2> QED
    BY <2>1, <2>2, Elsewhere, RaisedElsewhere
<1>9. CASE Buy \/ Create \/ Fund
  <2>1. call.at # "idle" /\ (call' = Idle \/ call' = Raised)
    BY <1>9, Zenon DEF Buy, Create, Fund, At, Mined
  <2> QED
    BY <1>1, <1>3, <2>1, RaisedElsewhere
<1>10. CASE AskQuestion \/ PrepareCondition
  <2>1. call.at # "idle"
    BY <1>10 DEF AskQuestion, PrepareCondition, At
  <2>2. \E place \in {"prepare", "trade"} : call' = Go(place) \/ call' = Raised
    BY <1>10 DEF AskQuestion, PrepareCondition, Mined
  <2> QED
    BY <1>1, <1>2, <2>1, <2>2
<1>11. CASE Sell
  <2>1. call.at # "idle" /\ (call' = Go("withdraw") \/ call' = Raised)
    BY <1>11 DEF Sell, At, Mined
  <2> QED
    BY <1>1, <1>2, <2>1
<1>12. CASE RemoveFunding
  <2>1. call.at # "idle" /\ (call' = Go("merge") \/ call' = Raised)
    BY <1>12 DEF RemoveFunding, At, Mined
  <2> QED
    BY <1>1, <1>2, <2>1
<1>13. CASE Merge \/ Redeem
  <2>1. PICK n : call' = [Go("withdraw") EXCEPT !.amount = n] \/ call' = Raised
    BY <1>13 DEF Merge, Redeem, Mined
  <2>2. RunOK /\ DOMAIN call = {"op", "m", "i", "amount", "limit", "at", "tries", "todo", "before"}
    BY <1>1, <1>13 DEF Merge, Redeem, At, RunOK
  <2>3. call' = Raised \/ call'.at = "withdraw"
    BY <2>1, <2>2 DEF Go
  <2> QED
    BY <2>2, <2>3, Elsewhere, RaisedElsewhere
<1>14. CASE Return \/ ListDone
  <2>1. call' = Idle
    BY <1>14 DEF Return, ListDone
  <2> QED
    BY <1>3, <2>1
<1> QED
  BY <1>5, <1>6, <1>7, <1>8, <1>9, <1>10, <1>11, <1>12, <1>13, <1>14 DEF Step

LEMMA ProceedsKept ==
  ASSUME Worth["sdai"] >= 50, IInv, WithdrawsWhatItGot, [Next]_vars
  PROVE  WithdrawsWhatItGot'
<1>1. CASE Step /\ ~Withdraw /\ ~LiquidateNext /\ ~RedeemNext
  BY <1>1, ProceedsLater
<1>2. CASE Withdraw
  BY <1>2, WithdrawsTheDifference
<1>3. CASE LiquidateNext \/ RedeemNext
  <2>1. RunOK /\ DOMAIN call = {"op", "m", "i", "amount", "limit", "at", "tries", "todo", "before"}
    BY <1>3, Running DEF LiquidateNext, RedeemNext, At, RunOK, IInv
  <2>2. wallet' = wallet
    BY <1>3 DEF LiquidateNext, RedeemNext
  <2>3. \/ call' = Raised \/ call'.at \in {"quote", "redeem"}
        \/ call'.at = call.at /\ call'.m = call.m /\ call'.before = call.before
    BY <1>3, <2>1 DEF LiquidateNext, RedeemNext
  <2> QED
    BY <2>1, <2>2, <2>3, Elsewhere, RaisedElsewhere, SameProceeds
<1>4. CASE Fails
  <2>1. RunOK /\ call' = Raised
    BY <1>4 DEF Fails, IInv, Going, CallOK
  <2> QED
    BY <2>1, RaisedElsewhere
<1>5. CASE StartRedeemAll
  <2>1. call'.at = "next" /\ call'.m = "none"
    BY <1>5 DEF StartRedeemAll, Idle
  <2> QED
    BY <2>1 DEF WithdrawsWhatItGot
<1>6. CASE Tick \/ UNCHANGED vars
  <2>1. call' = call /\ wallet' = wallet
    BY <1>6 DEF Tick, vars
  <2> QED
    BY <2>1, SameProceeds
<1>7. ASSUME NEW m \in Markets,
             \/ StartCreate(m) \/ StartFund(m) \/ StartRedeemPositions(m) \/ StartRemove(m)
             \/ \E i \in Outcomes(m) : StartBet(m, i) \/ StartSell(m, i)
      PROVE  WithdrawsWhatItGot'
  <2>1. call'.at \in {"deposit", "redeem", "remove", "quote"}
    BY <1>7 DEF StartCreate, StartFund, StartRedeemPositions, StartRedeemFull, StartRemove,
                StartBet, StartSell, Begin, Idle
  <2> QED
    BY <2>1, Elsewhere
<1>8. ASSUME NEW m \in Markets,
             RemoveNothing(m) \/ \E i \in Outcomes(m) : StartLiquidate(m, i)
      PROVE  WithdrawsWhatItGot'
  <2>1. call'.m = m /\ call'.before = wallet[Token[m]] /\ wallet' = wallet
    BY <1>8 DEF RemoveNothing, StartLiquidate, Begin, Idle
  <2>2. wallet[Token[m]] \in Nat
    BY WalletHas DEF IInv
  <2> QED
    BY <2>1, <2>2 DEF WithdrawsWhatItGot
<1>9. ASSUME NEW m \in Markets,
             \/ Resolve(m) \/ \E a \in Answers[m] : Answer(m, a)
             \/ \E i \in Outcomes(m) : OtherBuys(m, i)
      PROVE  WithdrawsWhatItGot'
  <2>1. call' = call /\ wallet' = wallet
    BY <1>9 DEF Resolve, Answer, OtherBuys
  <2> QED
    BY <2>1, SameProceeds
<1> QED
  BY <1>1, <1>2, <1>3, <1>4, <1>5, <1>6, <1>7, <1>8, <1>9 DEF Next

(***************************************************************************)
(* What a sale, a redemption or a removal of liquidity brings is what is   *)
(* withdrawn, neither more nor less: collateral that the wallet had before *)
(* stays, and at most one unit is left to the rounding of the vault, as    *)
(* long as a share of sDai is not worth less than half an xDai.            *)
(***************************************************************************)
THEOREM WithdrawnIsWhatItGot ==
  ASSUME Worth["sdai"] >= 50
  PROVE  Spec => []WithdrawsWhatItGot
<1>1. Init => WithdrawsWhatItGot
  BY DEF Init, Idle, WithdrawsWhatItGot
<1>2. IInv /\ WithdrawsWhatItGot /\ [Next]_vars => WithdrawsWhatItGot'
  BY ProceedsKept
<1> QED
  BY <1>1, <1>2, Invariance, PTL DEF Spec

-----------------------------------------------------------------------------
\* Amounts are in the smallest unit of a token, and a share of sDai never is
\* worth less than what was paid for the first one.
Realistic ==
    /\ Worth["sdai"] >= 100
    /\ \A m \in Markets :
           Kind(Token[m]) = "vault" => InToken(Token[m], Stake) >= 100

\* A payment from the vault is of enough to have a surplus.
Funded ==
    /\ call.op \in Wanting /\ Kind(Token[call.m]) = "vault" => call.amount >= 100
    /\ DepositSuffices

\* Conversions there and back lose at most one share.
LEMMA ThereAndBack ==
  ASSUME NEW W \in Nat, W >= 100, NEW r \in Nat, NEW w \in Nat, w < r
  PROVE  w + ((((r * W) \div 100) - ((w * W) \div 100)) * 100) \div W >= r - 1
<1> DEFINE a == (r * W) \div 100
           b == (w * W) \div 100
           q == ((a - b) * 100) \div W
<1>1. r * W \in Nat /\ w * W \in Nat
  OBVIOUS
<1>2. \A x \in Nat : x \div 100 \in Nat /\ 100 * (x \div 100) <= x /\ x < 100 * (x \div 100) + 100
  OBVIOUS
<1>3. a \in Nat /\ b \in Nat /\ r * W < 100 * a + 100 /\ 100 * b <= w * W
  BY <1>1, <1>2
<1> HIDE DEF a, b
<1>4. \A x \in Int : x \div W \in Int /\ x < W * (x \div W) + W
  OBVIOUS
<1>5. q \in Int /\ (a - b) * 100 < W * q + W
  BY <1>3, <1>4
<1> HIDE DEF q
<1>6. r * W - w * W < W * q + W + W
  BY <1>1, <1>3, <1>5
<1>7. W * (q + 2 - (r - w)) > 0
  BY <1>5, <1>6
<1>8. q + 2 - (r - w) > 0
  BY <1>5, <1>7
<1>9. w + q >= r - 1
  BY <1>5, <1>8
<1> QED
  BY <1>9 DEF q, a, b

\* What a payment asks for.
LEMMA Asked ==
  ASSUME RunOK, call.op \in Wanting
  PROVE  /\ call.m \in Markets /\ Token[call.m] \in Tokens /\ call.amount \in Nat
         /\ Requested \in Nat /\ Requested >= call.amount
         /\ call.amount >= 100 => Requested >= call.amount + 1
<1>1. call.m \in Markets /\ Token[call.m] \in Tokens /\ call.amount \in Nat
  BY Constants DEF RunOK, Wanting
<1>2. Requested \in Nat /\ Requested >= call.amount
  BY <1>1, Conversions DEF Requested
<1>3. call.amount >= 100 => Requested >= call.amount + 1
  BY <1>1 DEF Requested, WithSurplus
<1> QED
  BY <1>1, <1>2, <1>3

\* A deposit in the vault brings what the call goes on with.
LEMMA VaultBrings ==
  ASSUME Realistic, IInv, SwapForCollateral, call.amount >= 100,
         Kind(Token[call.m]) = "vault"
  PROVE  wallet'[Token[call.m]] >= call.amount
<1> DEFINE t == Token[call.m]
           W == Worth[t]
           r == Requested
           w == wallet[t]
<1>1. RunOK /\ call.op \in Wanting
  BY Running DEF IInv, SwapForCollateral, At
<1>2. t \in Tokens /\ call.amount \in Nat /\ r \in Nat /\ r >= call.amount + 1
  BY <1>1, Asked
<1>3. t = "sdai"
  BY <1>2, Kinds
<1>4. W \in Nat /\ W >= 100
  BY <1>2, <1>3, Constants DEF Realistic
<1>5. /\ w \in Nat /\ w < r /\ wallet' \in Wallets
      /\ wallet'[t] = w + ToShares(t, Spend(wallet, t, r))
  BY SwapBrings
<1>6. wallet'[t] \in Nat
  BY <1>2, <1>5 DEF Wallets
<1>7. ToShares(t, Spend(wallet, t, r)) = ((((r * W) \div 100) - ((w * W) \div 100)) * 100) \div W
  BY DEF ToShares, Spend, VaultSpend, ToAssets
<1> HIDE DEF W, w, r, t
<1>8. w + ((((r * W) \div 100) - ((w * W) \div 100)) * 100) \div W >= r - 1
  BY <1>2, <1>4, <1>5, ThereAndBack
<1>9. wallet'[t] >= r - 1
  BY <1>5, <1>7, <1>8, Zenon
<1>10. wallet'[t] >= call.amount
  BY <1>2, <1>6, <1>9
<1> QED
  BY <1>10 DEF t

\* What keeps a payment funded.
LEMMA NotPaying ==
  ASSUME call'.op \notin Wanting
  PROVE  Funded'
<1>1. ~(At({"buy", "fund"}, "trade") \/ At({"create"}, "ask"))'
  BY DEF At, Wanting
<1> QED
  BY <1>1 DEF Funded, DepositSuffices

LEMMA IdleIsFunded == call' = Idle => Funded'
<1>1. call' = Idle => call'.op \notin Wanting
  BY DEF Idle, Wanting
<1> QED
  BY <1>1, NotPaying

LEMMA StillFunded ==
  ASSUME Funded, call' = call, wallet' = wallet
  PROVE  Funded'
BY DEF Funded, DepositSuffices, At

\* It is not yet at its payment.
LEMMA NotYet ==
  ASSUME Funded, call'.op = call.op, call'.m = call.m, call'.amount = call.amount,
         \/ call'.at \in {"quote", "deposit", "swap", "prepare"}
         \/ call'.op = "create" /\ call'.at = "trade"
  PROVE  Funded'
BY DEF Funded, DepositSuffices, At

LEMMA RaisedIsFunded ==
  ASSUME RunOK, Funded, call' = Raised
  PROVE  Funded'
<1>1. CASE call' = Idle
  BY <1>1, IdleIsFunded
<1>2. CASE call' = [call EXCEPT !.tries = @ + 1, !.at = "quote"]
  <2>1. call'.op = call.op /\ call'.m = call.m /\ call'.amount = call.amount /\ call'.at = "quote"
    BY <1>2 DEF RunOK
  <2> QED
    BY <2>1, NotYet
<1> QED
  BY <1>1, <1>2 DEF Raised

\* It has what it pays.
LEMMA Suffices ==
  ASSUME RunOK, Funded, call' = Go(Deposited),
         Kind(Token[call.m]) # "erc20" => wallet'[Token[call.m]] >= call.amount
  PROVE  Funded'
<1>1. call'.op = call.op /\ call'.m = call.m /\ call'.amount = call.amount
  BY Goes
<1> QED
  BY <1>1 DEF Funded, DepositSuffices

LEMMA DepositFunds ==
  ASSUME Realistic, IInv, Funded,
         EnoughCollateral \/ WrapShort \/ SwapForCollateral
  PROVE  Funded'
<1> DEFINE t == Token[call.m]
<1>1. RunOK /\ call.op \in Wanting
  BY Running DEF IInv, EnoughCollateral, WrapShort, SwapForCollateral, At
<1>2. /\ t \in Tokens /\ call.amount \in Nat /\ Requested \in Nat /\ Requested >= call.amount
      /\ call.m \in Markets
  BY <1>1, Asked
<1>3. wallet \in Wallets /\ wallet[t] \in Nat
  BY <1>2, WalletHas DEF IInv, WorldOK, AccountOK, Wallets
<1>4. call' = Raised => Funded'
  BY <1>1, RaisedIsFunded
<1>5. CASE EnoughCollateral
  <2>1. wallet[t] >= Requested /\ call' = Go(Deposited) /\ wallet' = wallet
    BY <1>5 DEF EnoughCollateral, Enough
  <2>2. wallet'[t] >= call.amount
    BY <1>2, <1>3, <2>1
  <2> QED
    BY <1>1, <2>1, <2>2, Suffices
<1>6. CASE WrapShort
  <2>1. wallet' \in Wallets /\ wallet'["wxdai"] >= Needed(wallet)
    BY <1>6, WrapBrings
  <2>2. call' = Go(IF Kind(t) = "wrapper" THEN Deposited ELSE "swap") \/ call' = Raised
    BY <1>6 DEF WrapShort, Mined
  <2>3. CASE call' = Go(Deposited) /\ Kind(t) = "wrapper"
    <3>1. t = "wxdai" /\ wallet'[t] >= Requested
      BY <1>2, <2>1, <2>3, Kinds DEF Needed
    <3>2. wallet'[t] \in Nat
      BY <1>2, <2>1 DEF Wallets
    <3>3. wallet'[t] >= call.amount
      BY <1>2, <3>1, <3>2
    <3> QED
      BY <1>1, <2>3, <3>3, Suffices
  <2>4. CASE call' = Go("swap")
    <3>1. call'.op = call.op /\ call'.m = call.m /\ call'.amount = call.amount /\ call'.at = "swap"
      BY <1>1, <2>4, Goes
    <3> QED
      BY <3>1, NotYet
  <2> QED
    BY <1>4, <2>2, <2>3, <2>4
<1>7. CASE SwapForCollateral
  <2>1. call' = Go(Deposited) \/ call' = Raised
    BY <1>7 DEF SwapForCollateral, Mined
  <2>2. Kind(t) # "wrapper"
    BY <1>1, <1>7 DEF SwapForCollateral, At, RunOK, SwapOK
  <2>3. Kind(t) = "vault" => wallet'[t] >= call.amount
    BY <1>1, <1>7, VaultBrings DEF Funded
  <2>4. Kind(t) # "erc20" => wallet'[t] >= call.amount
    BY <1>2, <2>2, <2>3, Kinds
  <2> QED
    BY <1>1, <1>4, <2>1, <2>4, Suffices
<1> QED
  BY <1>5, <1>6, <1>7

LEMMA FundedKept ==
  ASSUME Realistic, IInv, Funded, [Next]_vars
  PROVE  Funded'
<1>1. call.at # "idle" => RunOK
  BY Running DEF IInv
<1>2. DOMAIN Idle = {"op", "m", "i", "amount", "limit", "at", "tries", "todo", "before"}
  BY DEF Idle
<1>3. RunOK => DOMAIN call = DOMAIN Idle
  BY <1>2 DEF RunOK
<1>4. CASE EnoughCollateral \/ WrapShort \/ SwapForCollateral
  BY <1>4, DepositFunds
<1>5. CASE OutOfMoney \/ BuyReverts \/ PaymentReverts \/ SellReverts \/ MergeReverts
  <2>1. call.at # "idle" /\ call' = Raised
    BY <1>5 DEF OutOfMoney, BuyReverts, PaymentReverts, SellReverts, MergeReverts, At, Reverts
  <2> QED
    BY <1>1, <2>1, RaisedIsFunded
<1>6. CASE QuoteBet
  <2>1. RunOK
    BY <1>1, <1>6 DEF QuoteBet, At
  <2>2. \/ call' = Raised
        \/ call' = [call EXCEPT !.at = "deposit",
                        !.limit = LeastShares(call.m, call.i, call.amount)]
    BY <1>6 DEF QuoteBet
  <2>3. \/ call' = Raised
        \/ /\ call'.op = call.op /\ call'.m = call.m /\ call'.amount = call.amount
           /\ call'.at = "deposit"
    BY <1>2, <1>3, <2>1, <2>2
  <2> QED
    BY <2>1, <2>3, NotYet, RaisedIsFunded
<1>7. CASE AskQuestion \/ PrepareCondition
  <2>1. RunOK /\ call.op = "create"
    BY <1>1, <1>7 DEF AskQuestion, PrepareCondition, At
  <2>2. PICK place \in {"prepare", "trade"} : call' = Go(place) \/ call' = Raised
    BY <1>7 DEF AskQuestion, PrepareCondition, Mined
  <2>3. CASE call' = Go(place)
    <3>1. call'.op = call.op /\ call'.m = call.m /\ call'.amount = call.amount /\ call'.at = place
      BY <2>1, <2>3, Goes
    <3> QED
      BY <2>1, <3>1, NotYet
  <2> QED
    BY <2>1, <2>2, <2>3, RaisedIsFunded
<1>8. CASE Buy \/ Create \/ Fund
  <2>1. call.at # "idle" /\ (call' = Idle \/ call' = Raised)
    BY <1>8, Zenon DEF Buy, Create, Fund, At, Mined
  <2> QED
    BY <1>1, <2>1, IdleIsFunded, RaisedIsFunded
<1>9. CASE Withdraw \/ QuoteSell \/ Sell \/ LiquidateNext \/ RemoveFunding \/ Merge
           \/ RedeemNext \/ Redeem
  <2>1. RunOK /\ call.op \notin Wanting
    <3>1. CASE Withdraw \/ Redeem
      <4>1. call.at \in {"withdraw", "redeem"}
        BY <3>1 DEF Withdraw, Redeem
      <4>2. RunOK
        BY <1>1, <4>1
      <4> QED
        BY <4>1, <4>2 DEF RunOK, Places, Wanting
    <3>2. CASE QuoteSell \/ Sell \/ LiquidateNext \/ RemoveFunding \/ Merge \/ RedeemNext
      <4>1. call.at # "idle" /\ call.op \in {"sell", "liquidate", "remove", "redeem_all"}
        BY <3>2 DEF QuoteSell, Sell, LiquidateNext, RemoveFunding, Merge, RedeemNext, At
      <4> QED
        BY <1>1, <4>1 DEF Wanting
    <3> QED
      BY <1>9, <3>1, <3>2
  <2>2. call' = Raised \/ call'.op = call.op
    BY <1>2, <1>3, <1>9, <2>1 DEF Withdraw, QuoteSell, Sell, LiquidateNext, RemoveFunding,
                      Merge, RedeemNext, Redeem, Mined, Go
  <2> QED
    BY <2>1, <2>2, NotPaying, RaisedIsFunded
<1>10. CASE Return \/ ListDone
  <2>1. call' = Idle
    BY <1>10 DEF Return, ListDone
  <2> QED
    BY <2>1, IdleIsFunded
<1>11. CASE Fails
  <2>1. RunOK /\ call' = Raised
    BY <1>11 DEF Fails, IInv, Going, CallOK
  <2> QED
    BY <2>1, RaisedIsFunded
<1>12. CASE StartRedeemAll
  <2>1. call'.op \notin Wanting
    BY <1>12 DEF StartRedeemAll, Idle, Wanting
  <2> QED
    BY <2>1, NotPaying
<1>13. CASE Tick \/ UNCHANGED vars
  <2>1. call' = call /\ wallet' = wallet
    BY <1>13 DEF Tick, vars
  <2> QED
    BY <2>1, StillFunded
<1>14. ASSUME NEW m \in Markets,
              \/ StartRedeemPositions(m) \/ StartRemove(m) \/ RemoveNothing(m)
              \/ \E i \in Outcomes(m) : StartSell(m, i) \/ StartLiquidate(m, i)
       PROVE  Funded'
  <2>1. call'.op \in {"redeem_full", "remove", "sell", "liquidate"}
    BY <1>14 DEF StartRedeemPositions, StartRedeemFull, StartRemove, RemoveNothing,
                 StartSell, StartLiquidate, Begin, Idle
  <2> QED
    BY <2>1, NotPaying DEF Wanting
<1>15. ASSUME NEW m \in Markets,
              StartCreate(m) \/ StartFund(m) \/ \E i \in Outcomes(m) : StartBet(m, i)
       PROVE  Funded'
  <2>1. /\ call'.m = m /\ call'.amount = InToken(Token[m], Stake)
        /\ call'.at \in {"quote", "deposit"}
    BY <1>15 DEF StartCreate, StartFund, StartBet, Begin, Idle
  <2>2. Kind(Token[m]) = "vault" => call'.amount >= 100
    BY <2>1 DEF Realistic
  <2> QED
    BY <2>1, <2>2 DEF Funded, DepositSuffices, At
<1>16. ASSUME NEW m \in Markets,
              \/ Resolve(m) \/ \E a \in Answers[m] : Answer(m, a)
              \/ \E i \in Outcomes(m) : OtherBuys(m, i)
       PROVE  Funded'
  <2>1. call' = call /\ wallet' = wallet
    BY <1>16 DEF Resolve, Answer, OtherBuys
  <2> QED
    BY <2>1, StillFunded
<1> QED
  BY <1>4, <1>5, <1>6, <1>7, <1>8, <1>9, <1>10, <1>11, <1>12, <1>13, <1>14, <1>15, <1>16
     DEF Next, Step

(***************************************************************************)
(* What is deposited for a bet, for liquidity or for a market that is      *)
(* created suffices for the payment that follows, whatever the wallet held *)
(* before and however the conversions of the vault round: the surplus of   *)
(* one percent covers the share they may lose once an amount is of a       *)
(* hundred units.                                                          *)
(***************************************************************************)
THEOREM DepositCovers ==
  ASSUME Realistic
  PROVE  Spec => []DepositSuffices
<1>1. Init => Funded
  BY DEF Init, Idle, Funded, DepositSuffices, At, Wanting
<1>2. IInv /\ Funded /\ [Next]_vars => Funded'
  BY FundedKept
<1>3. Funded => DepositSuffices
  BY DEF Funded
<1> QED
  BY <1>1, <1>2, <1>3, Invariance, PTL DEF Spec

-----------------------------------------------------------------------------
\* What holds of 0, and of each number if of the one before, holds up to n.
LEMMA UpTo ==
  ASSUME NEW n \in Nat, NEW G, 0 \in G, \A k \in 1..n : k - 1 \in G => k \in G
  PROVE  \A k \in 0..n : k \in G
<1> DEFINE Wrong == {k \in 0..n : k \notin G}
<1>1. ASSUME Wrong # {} PROVE FALSE
  <2>0. Wrong \subseteq Nat
    OBVIOUS
  <2>1. PICK k \in Wrong : \A j \in Wrong : k <= j
    <3> HIDE DEF Wrong
    <3> QED
      BY <1>1, <2>0, LeastNatural
  <2>2. k \in 1..n /\ k - 1 \in 0..n /\ ~(k <= k - 1)
    BY <2>1
  <2>3. k - 1 \in G
    BY <2>1, <2>2
  <2> QED
    BY <2>1, <2>2, <2>3
<1> QED
  BY <1>1

\* The partial sums of integers.
LEMMA SumSteps ==
  ASSUME NEW n \in Nat, NEW s \in [1..n -> Int]
  PROVE  \E t \in [0..n -> Int] :
             /\ SumOf(s) = t[n]
             /\ t[0] = 0 /\ \A k \in 1..n : t[k] = s[k] + t[k - 1]
<1>1. Len(s) = n
  BY LengthOf
<1> DEFINE t == CHOOSE u : Sums(s, n, u)
<1>2. SumOf(s) = t[n]
  BY <1>1, Zenon DEF SumOf, Sums
<1>3. Sums(s, n, t)
  <2>1. \E u : u = [k \in 0..n |-> Partial("sum", {}, s, u, k)]
    <3>1. {} \in SUBSET Nat
      OBVIOUS
    <3> QED
      BY <3>1, PartialsExist
  <2>2. \E u : Sums(s, n, u)
    BY <2>1 DEF Sums, Partial
  <2> QED
    BY <2>2
<1> HIDE DEF t
<1>4. t[0] = 0 /\ \A k \in 1..n : t[k] = s[k] + t[k - 1]
  BY <1>3 DEF Sums
<1> DEFINE G == {k \in 0..n : t[k] \in Int}
<1>5. 0 \in G
  BY <1>4
<1>6. \A k \in 1..n : k - 1 \in G => k \in G
  BY <1>4
<1>7. \A k \in 0..n : k \in G
  <2> HIDE DEF G
  <2> QED
    BY <1>5, <1>6, UpTo
<1>8. t \in [0..n -> Int]
  BY <1>3, <1>7 DEF Sums
<1> QED
  BY <1>2, <1>4, <1>8

\* A sum of differences is the difference of the sums.
LEMMA SumDiffers ==
  ASSUME NEW n \in Nat, NEW f \in [1..n -> Int], NEW g \in [1..n -> Int],
         NEW h \in [1..n -> Int], \A k \in 1..n : f[k] = g[k] - h[k]
  PROVE  SumOf(f) = SumOf(g) - SumOf(h) /\ SumOf(g) \in Int /\ SumOf(h) \in Int
<1>1. PICK t \in [0..n -> Int] : /\ SumOf(f) = t[n]
                                 /\ t[0] = 0 /\ \A k \in 1..n : t[k] = f[k] + t[k - 1]
  BY SumSteps
<1>2. PICK u \in [0..n -> Int] : /\ SumOf(g) = u[n]
                                 /\ u[0] = 0 /\ \A k \in 1..n : u[k] = g[k] + u[k - 1]
  BY SumSteps
<1>3. PICK v \in [0..n -> Int] : /\ SumOf(h) = v[n]
                                 /\ v[0] = 0 /\ \A k \in 1..n : v[k] = h[k] + v[k - 1]
  BY SumSteps
<1> DEFINE G == {k \in 0..n : t[k] = u[k] - v[k]}
<1>4. 0 \in G
  BY <1>1, <1>2, <1>3
<1>5. ASSUME NEW k \in 1..n, k - 1 \in G PROVE k \in G
  <2>1. k \in 0..n /\ k - 1 \in 0..n /\ t[k - 1] = u[k - 1] - v[k - 1]
    BY <1>5
  <2>2. /\ t[k] = f[k] + t[k - 1] /\ u[k] = g[k] + u[k - 1] /\ v[k] = h[k] + v[k - 1]
        /\ f[k] = g[k] - h[k]
    BY <1>1, <1>2, <1>3
  <2>3. /\ g[k] \in Int /\ h[k] \in Int /\ u[k - 1] \in Int /\ v[k - 1] \in Int
    BY <2>1
  <2>4. t[k] = u[k] - v[k]
    BY <2>1, <2>2, <2>3
  <2> QED
    BY <2>1, <2>4
<1>6. n \in G
  <2>1. n \in 0..n
    OBVIOUS
  <2> HIDE DEF G
  <2> QED
    BY <1>4, <1>5, <2>1, UpTo
<1>7. n \in 0..n
  OBVIOUS
<1> QED
  BY <1>1, <1>2, <1>3, <1>6, <1>7

\* A sum with one more term.
LEMMA SumAppends ==
  ASSUME NEW n \in Nat, NEW f \in [1..(n + 1) -> Int], NEW g \in [1..n -> Int],
         \A k \in 1..n : f[k] = g[k]
  PROVE  SumOf(f) = f[n + 1] + SumOf(g) /\ SumOf(g) \in Int
<1>0. n + 1 \in Nat /\ n + 1 \in 1..(n + 1) /\ n \in 0..n /\ (n + 1) - 1 = n
  OBVIOUS
<1>1. PICK t \in [0..(n + 1) -> Int] :
          /\ SumOf(f) = t[n + 1]
          /\ t[0] = 0 /\ \A k \in 1..(n + 1) : t[k] = f[k] + t[k - 1]
  BY <1>0, SumSteps
<1>2. PICK u \in [0..n -> Int] : /\ SumOf(g) = u[n]
                                 /\ u[0] = 0 /\ \A k \in 1..n : u[k] = g[k] + u[k - 1]
  BY SumSteps
<1> DEFINE G == {k \in 0..n : t[k] = u[k]}
<1>3. 0 \in G
  BY <1>1, <1>2
<1>4. ASSUME NEW k \in 1..n, k - 1 \in G PROVE k \in G
  <2>1. k \in 0..n /\ k \in 1..(n + 1) /\ t[k - 1] = u[k - 1]
    BY <1>4
  <2> QED
    BY <1>1, <1>2, <2>1
<1>5. n \in G
  <2> HIDE DEF G
  <2> QED
    BY <1>0, <1>3, <1>4, UpTo
<1>6. t[n] = u[n] /\ t[n + 1] = f[n + 1] + t[n]
  BY <1>0, <1>1, <1>5
<1> QED
  BY <1>0, <1>1, <1>2, <1>6

\* A sum all of whose terms but one are 0.
LEMMA SumOfOne ==
  ASSUME NEW n \in Nat, NEW s \in [1..n -> Int], NEW i \in 1..n,
         \A k \in 1..n : k # i => s[k] = 0
  PROVE  SumOf(s) = s[i]
<1>1. PICK t \in [0..n -> Int] : /\ SumOf(s) = t[n]
                                 /\ t[0] = 0 /\ \A k \in 1..n : t[k] = s[k] + t[k - 1]
  BY SumSteps
<1> DEFINE G == {k \in 0..n : t[k] = IF k < i THEN 0 ELSE s[i]}
<1>2. 0 \in G
  BY <1>1
<1>3. ASSUME NEW k \in 1..n, k - 1 \in G PROVE k \in G
  <2>1. k \in 0..n /\ t[k - 1] = IF k - 1 < i THEN 0 ELSE s[i]
    BY <1>3
  <2>2. t[k] = s[k] + t[k - 1]
    BY <1>1
  <2>3. s[i] \in Int
    OBVIOUS
  <2>4. CASE k = i
    BY <2>1, <2>2, <2>3, <2>4
  <2>5. CASE k # i
    BY <2>1, <2>2, <2>3, <2>5
  <2> QED
    BY <2>4, <2>5
<1>4. n \in G
  <2>1. n \in 0..n
    OBVIOUS
  <2> HIDE DEF G
  <2> QED
    BY <1>2, <1>3, <2>1, UpTo
<1> QED
  BY <1>1, <1>4

\* What Trades returns: everything, if it leaves nothing out.
LEMMA TradesAll ==
  ASSUME NEW S, NEW s \in Seq(S), NEW m, NEW q
  PROVE  /\ Trades(s, m, q) \in Seq(S)
         /\ Len(Trades(s, m, q)) = Len(s)
                => /\ Trades(s, m, q) = s
                   /\ \A k \in DOMAIN s : TradeWhere(s[k], m, q)
<1> DEFINE n == Len(s)
           places == {k \in 1..n : TradeWhere(s[k], m, q)}
           Is3(f) == f = [k \in 0..n |->
                             IF k = 0 THEN <<>>
                             ELSE IF TradeWhere(s[k], m, q) THEN Append(f[k - 1], s[k])
                             ELSE f[k - 1]]
<1>0. n \in Nat /\ DOMAIN s = 1..n /\ \A k \in 1..n : s[k] \in S
  BY LenProperties, ElementOfSeq
<1>1. ASSUME NEW f PROVE Is3(f) <=> Picks(s, places, n, f)
  <2>1. ASSUME NEW k \in 0..n, k # 0 PROVE k \in places <=> TradeWhere(s[k], m, q)
    BY <1>0, <2>1
  <2> HIDE DEF places
  <2> QED
    BY <2>1 DEF Picks
<1>2. \E f : Is3(f)
  <2>1. \E f : f = [k \in 0..n |-> Partial("picks", places, s, f, k)]
    <3>1. places \in SUBSET Nat
      BY <1>0
    <3> HIDE DEF n, places
    <3> QED
      BY <1>0, <3>1, PartialsExist
  <2>2. \E f : Picks(s, places, n, f)
    <3> HIDE DEF n, places
    <3> QED
      BY <2>1 DEF Picks, Partial
  <2> HIDE DEF Is3, places, n
  <2> QED
    BY <1>1, <2>2
<1> DEFINE f == CHOOSE g : Is3(g)
<1>3. Trades(s, m, q) = f[n]
  BY Zenon DEF Trades
<1>4. Is3(f)
  <2> HIDE DEF Is3
  <2> QED
    BY <1>2
<1> HIDE DEF f
<1>5. /\ f[0] = <<>>
      /\ \A k \in 1..n : f[k] = IF TradeWhere(s[k], m, q) THEN Append(f[k - 1], s[k])
                                ELSE f[k - 1]
  <2> DEFINE W(k) == TradeWhere(s[k], m, q)
  <2>1. f = [k \in 0..n |-> IF k = 0 THEN <<>>
                            ELSE IF W(k) THEN Append(f[k - 1], s[k])
                            ELSE f[k - 1]]
    BY <1>4
  <2> HIDE DEF W, n
  <2>2. f[0] = <<>>
    BY <1>0, <2>1
  <2>3. ASSUME NEW k \in 1..n
        PROVE  f[k] = IF W(k) THEN Append(f[k - 1], s[k]) ELSE f[k - 1]
    <3>1. k \in 0..n /\ k # 0
      BY <1>0
    <3>2. f[k] = [j \in 0..n |-> IF j = 0 THEN <<>>
                                 ELSE IF W(j) THEN Append(f[j - 1], s[j])
                                 ELSE f[j - 1]][k]
      BY <2>1, Zenon
    <3> QED
      BY <3>1, <3>2, Zenon
  <2> QED
    BY <2>2, <2>3 DEF W
<1> HIDE DEF Is3, places
<1> DEFINE G == {k \in 0..n :
                   /\ f[k] \in Seq(S) /\ Len(f[k]) <= k
                   /\ Len(f[k]) = k => \A j \in 1..k : /\ f[k][j] = s[j]
                                                      /\ TradeWhere(s[j], m, q)}
<1>6. 0 \in G
  <2>1. f[0] \in Seq(S) /\ Len(f[0]) = 0
    BY <1>5, EmptySeq
  <2> QED
    BY <1>0, <2>1
<1>7. ASSUME NEW k \in 1..n, k - 1 \in G PROVE k \in G
  <2> DEFINE t == f[k - 1]
  <2>1. /\ k \in 0..n /\ k - 1 \in 0..n
        /\ t \in Seq(S) /\ Len(t) <= k - 1
        /\ Len(t) = k - 1 => \A j \in 1..(k - 1) : t[j] = s[j] /\ TradeWhere(s[j], m, q)
    BY <1>0, <1>7
  <2>2. Len(t) \in Nat
    BY <2>1, LenProperties
  <2>3. CASE ~TradeWhere(s[k], m, q)
    <3>1. f[k] = t
      BY <1>5, <2>3
    <3> HIDE DEF t
    <3>2. Len(f[k]) <= k /\ Len(f[k]) # k
      BY <1>0, <2>1, <2>2, <3>1
    <3> QED
      BY <2>1, <3>1, <3>2
  <2>4. CASE TradeWhere(s[k], m, q)
    <3>1. f[k] = Append(t, s[k]) /\ s[k] \in S
      BY <1>0, <1>5, <2>4
    <3> HIDE DEF t
    <3>2. /\ f[k] \in Seq(S) /\ Len(f[k]) = Len(t) + 1
          /\ \A j \in 1..Len(t) : f[k][j] = t[j]
          /\ f[k][Len(t) + 1] = s[k]
      BY <2>1, <3>1, AppendProperties
    <3>3. Len(f[k]) <= k
      BY <1>0, <2>1, <2>2, <3>2
    <3>4. ASSUME Len(f[k]) = k, NEW j \in 1..k
          PROVE  f[k][j] = s[j] /\ TradeWhere(s[j], m, q)
      <4>1. Len(t) = k - 1
        BY <2>2, <3>2, <3>4
      <4>2. CASE j = k
        BY <2>4, <3>2, <4>1, <4>2
      <4>3. CASE j # k
        <5>1. j \in 1..(k - 1)
          BY <4>3
        <5> QED
          BY <2>1, <3>2, <4>1, <5>1
      <4> QED
        BY <4>2, <4>3
    <3> QED
      BY <2>1, <3>2, <3>3, <3>4
  <2> QED
    BY <2>3, <2>4
<1>8. n \in G
  <2>1. n \in 0..n
    BY <1>0
  <2> HIDE DEF G, n
  <2> QED
    BY <1>0, <1>6, <1>7, <2>1, UpTo
<1>9. f[n] \in Seq(S)
  BY <1>8
<1>10. ASSUME Len(f[n]) = n
       PROVE  f[n] = s /\ \A j \in 1..n : TradeWhere(s[j], m, q)
  <2>1. \A j \in 1..n : f[n][j] = s[j] /\ TradeWhere(s[j], m, q)
    BY <1>8, <1>10
  <2>2. DOMAIN f[n] = 1..n
    BY <1>9, <1>10, LenProperties
  <2>3. f[n] = [j \in 1..n |-> f[n][j]] /\ s = [j \in 1..n |-> s[j]]
    BY <1>0, <1>9, <2>2, LenProperties
  <2> HIDE DEF n
  <2> QED
    BY <2>1, <2>3
<1> QED
  BY <1>0, <1>3, <1>9, <1>10

-----------------------------------------------------------------------------
\* The trades of the account, and what they bought of an outcome.
Traded == [type : {"Buy", "Sell"}, outcome : Nat, amount : Nat, tokens : Int, time : Nat]
OnlyBuys(list) == \A k \in DOMAIN list : list[k].type = "Buy"
TokensOf(list, i) ==
    [k \in DOMAIN list |-> IF list[k].outcome = i THEN list[k].tokens ELSE 0]
Stakes(list) == [k \in DOMAIN list |-> list[k].amount]

\* What was bought on a market is held, or was paid for once the market is
\* resolved, if it is of the right outcome.
Accounted(m) ==
    /\ resolution[m] = None => paid[m] = 0
    /\ \A i \in Outcomes(m) :
           resolution[m] = None \/ answer[m] = Is(i)
           => paid[m] + held[m][i] = SumOf(TokensOf(trades[m], i))

\* A market is resolved when it has been answered, and has one answer.
AnsweredOnce ==
    \A m \in Markets :
        /\ finalized[m] # None \/ resolution[m] # None => answer[m] # None
        /\ answer[m] # None => \E a \in Outcomes(m) \cup {Invalid} : answer[m] = Is(a)

\* Sets are merged after liquidity was removed, and only what is resolved is
\* redeemed.
CallSettled ==
    /\ call.at = "merge" => call.m \in provided
    /\ call.at = "redeem" => resolution[call.m] # None

TradesOK == \A m \in Markets : trades[m] \in Seq(Traded)
AllAccounted == \A m \in Markets \ provided : OnlyBuys(trades[m]) => Accounted(m)
PaidInv == TradesOK /\ AnsweredOnce /\ CallSettled /\ AllAccounted

LEMMA InitPaid == Init => PaidInv
<1> SUFFICES ASSUME Init PROVE PaidInv
  OBVIOUS
<1>1. TradesOK
  BY EmptySeq DEF Init, TradesOK
<1>2. AnsweredOnce /\ CallSettled
  BY DEF Init, AnsweredOnce, CallSettled, Idle, None
<1>3. ASSUME NEW m \in Markets PROVE Accounted(m)
  <2>1. ASSUME NEW i PROVE SumOf(TokensOf(trades[m], i)) = 0
    <3>1. trades[m] = <<>> /\ DOMAIN <<>> = {} /\ Len(<<>>) = 0
      BY DEF Init
    <3> DEFINE s == TokensOf(trades[m], i)
    <3>2. s \in [1..0 -> Int]
      BY <3>1 DEF TokensOf
    <3> HIDE DEF s
    <3>3. PICK t \in [0..0 -> Int] : SumOf(s) = t[0] /\ t[0] = 0
      BY <3>2, SumSteps
    <3> QED
      BY <3>3 DEF s
  <2>2. paid[m] = 0 /\ \A i \in Outcomes(m) : held[m][i] = 0
    BY DEF Init
  <2> QED
    BY <2>1, <2>2 DEF Accounted
<1> QED
  BY <1>1, <1>2, <1>3 DEF PaidInv, AllAccounted

\* Markets whose tokens, trades and payments stay as they are.
SameMarket(m) ==
    /\ held'[m] = held[m] /\ trades'[m] = trades[m] /\ paid'[m] = paid[m]
    /\ m \in provided => m \in provided'

SameQuestions == UNCHANGED <<answer, finalized, resolution>>

LEMMA OneMarketMoves ==
  ASSUME PaidInv, SameQuestions, NEW m \in Markets,
         \A x \in Markets \ {m} : SameMarket(x),
         trades'[m] \in Seq(Traded),
         m \in provided' \/ (OnlyBuys(trades[m])' => Accounted(m)'),
         CallSettled'
  PROVE  PaidInv'
<1>1. TradesOK'
  BY DEF PaidInv, TradesOK, SameMarket
<1>2. AnsweredOnce'
  BY DEF PaidInv, AnsweredOnce, SameQuestions
<1>3. ASSUME NEW x \in Markets, x # m, x \notin provided', OnlyBuys(trades[x])'
      PROVE  Accounted(x)'
  <2>1. /\ held'[x] = held[x] /\ trades'[x] = trades[x] /\ paid'[x] = paid[x]
        /\ x \notin provided
    BY <1>3 DEF SameMarket
  <2>2. OnlyBuys(trades[x])
    BY <1>3, <2>1 DEF OnlyBuys
  <2>3. Accounted(x)
    BY <2>1, <2>2 DEF PaidInv, AllAccounted
  <2>4. answer' = answer /\ resolution' = resolution
    BY DEF SameQuestions
  <2> QED
    BY <2>1, <2>3, <2>4 DEF Accounted
<1>4. AllAccounted'
  BY <1>3 DEF AllAccounted
<1> QED
  BY <1>1, <1>2, <1>4 DEF PaidInv

LEMMA NoMarketMoves ==
  ASSUME PaidInv, SameQuestions, UNCHANGED <<held, trades, paid>>,
         provided \subseteq provided', CallSettled'
  PROVE  PaidInv'
<1>1. \A x \in Markets : SameMarket(x)
  BY DEF SameMarket
<1>2. TradesOK' /\ AnsweredOnce'
  BY DEF PaidInv, TradesOK, AnsweredOnce, SameQuestions
<1>3. AllAccounted'
  <2>1. ASSUME NEW x \in Markets, x \notin provided', OnlyBuys(trades[x])'
        PROVE  Accounted(x)'
    <3>1. OnlyBuys(trades[x]) /\ x \notin provided
      BY <2>1 DEF OnlyBuys
    <3>2. Accounted(x)
      BY <3>1 DEF PaidInv, AllAccounted
    <3> QED
      BY <3>2 DEF Accounted, SameQuestions
  <2> QED
    BY <2>1 DEF AllAccounted
<1> QED
  BY <1>2, <1>3 DEF PaidInv

\* One more trade: a purchase of tokens that are now held, or a sale.
LEMMA TradeAdds ==
  ASSUME NEW list \in Seq(Traded), NEW t \in Traded, NEW i
  PROVE  /\ Append(list, t) \in Seq(Traded)
         /\ SumOf(TokensOf(Append(list, t), i))
                = SumOf(TokensOf(list, i)) + (IF t.outcome = i THEN t.tokens ELSE 0)
         /\ SumOf(TokensOf(list, i)) \in Int
         /\ OnlyBuys(Append(list, t)) => OnlyBuys(list) /\ t.type = "Buy"
<1> DEFINE n == Len(list)
           long == Append(list, t)
           f == TokensOf(long, i)
           g == TokensOf(list, i)
<1>1. /\ n \in Nat /\ DOMAIN list = 1..n /\ \A k \in 1..n : list[k] \in Traded
  BY LenProperties, ElementOfSeq
<1>2. /\ long \in Seq(Traded) /\ Len(long) = n + 1
      /\ \A k \in 1..n : long[k] = list[k]
      /\ long[n + 1] = t
  BY AppendProperties
<1>3. DOMAIN long = 1..(n + 1) /\ \A k \in 1..(n + 1) : long[k] \in Traded
  BY <1>1, <1>2, LenProperties, ElementOfSeq
<1> HIDE DEF long, n
<1>4. f \in [1..(n + 1) -> Int]
  BY <1>3 DEF TokensOf, Traded
<1>5. g \in [1..n -> Int]
  BY <1>1 DEF TokensOf, Traded
<1>6. n + 1 \in 1..(n + 1) /\ \A k \in 1..n : k \in 1..(n + 1)
  BY <1>1
<1>7. \A k \in 1..n : f[k] = g[k]
  BY <1>1, <1>2, <1>3, <1>6 DEF TokensOf
<1>8. f[n + 1] = IF t.outcome = i THEN t.tokens ELSE 0
  BY <1>2, <1>3, <1>6 DEF TokensOf
<1> HIDE DEF f, g
<1>9. SumOf(f) = f[n + 1] + SumOf(g) /\ SumOf(g) \in Int
  BY <1>1, <1>4, <1>5, <1>7, SumAppends
<1>10. f[n + 1] \in Int
  BY <1>4, <1>6
<1>11. OnlyBuys(long) => OnlyBuys(list) /\ t.type = "Buy"
  BY <1>1, <1>2, <1>3, <1>6 DEF OnlyBuys
<1>12. SumOf(f) = SumOf(g) + f[n + 1]
  BY <1>9, <1>10
<1> QED
  BY <1>2, <1>8, <1>9, <1>11, <1>12 DEF long, f, g

\* What a purchase gets, and what a sale gives.
LEMMA BoughtIsNat ==
  ASSUME IInv, Buy
  PROVE  /\ call.m \in Markets /\ call.i \in Outcomes(call.m) /\ call.amount \in Nat
         /\ Bought \in Nat
<1>1. RunOK /\ call.op = "buy"
  BY Running DEF IInv, Buy, At
<1>2. call.m \in Markets /\ call.amount \in Nat /\ call.i \in Outcomes(call.m)
  BY <1>1 DEF RunOK
<1>3. supply[call.m] > 0 /\ WorldOK
  BY DEF IInv, Buy, BuyAccepted
<1>4. pool[call.m] \in Filled(Slots[call.m]) /\ Slots[call.m] \in Nat
      /\ call.i \in 1..Slots[call.m]
  BY <1>2, <1>3, PoolIsFilled DEF Outcomes
<1>5. Bought \in Nat
  BY <1>2, <1>4, Constants, Purchase DEF Bought
<1> QED
  BY <1>2, <1>5

LEMMA SoldIsInt ==
  ASSUME IInv, Sell
  PROVE  /\ call.m \in Markets /\ call.i \in Outcomes(call.m) /\ call.amount \in Nat
         /\ Sold \in Int
<1>1. RunOK /\ At({"sell", "liquidate"}, "trade")
  BY Running DEF IInv, Sell, At
<1>2. call.m \in Markets /\ call.i \in Outcomes(call.m) /\ call.amount \in Nat
  BY <1>1, SellerIs
<1>3. /\ supply[call.m] > 0 /\ WorldOK
      /\ \A j \in Outcomes(call.m) \ {call.i} : Gross(call.amount, Fee) < pool[call.m][j]
  BY DEF IInv, Sell, SellAccepted, CanPay
<1>4. pool[call.m] \in Filled(Slots[call.m]) /\ Slots[call.m] \in Nat
      /\ call.i \in 1..Slots[call.m]
  BY <1>2, <1>3, PoolIsFilled DEF Outcomes
<1>5. Sold \in Int
  <2>1. Fee \in 0..99
    BY Constants
  <2>2. \A j \in 1..Slots[call.m] \ {call.i} : Gross(call.amount, Fee) < pool[call.m][j]
    BY <1>3 DEF Outcomes
  <2> QED
    BY <1>2, <1>4, <2>1, <2>2, Sale DEF Sold
<1> QED
  BY <1>2, <1>5

\* A call that ended, or that raised, is nowhere in particular.
LEMMA EndedIsSettled ==
  ASSUME call' = Idle \/ call' = Raised, RunOK
  PROVE  CallSettled'
<1>1. call'.at # "merge" /\ call'.at # "redeem"
  <2>1. Idle.at = "idle"
    BY DEF Idle
  <2>2. CASE call' = [call EXCEPT !.tries = @ + 1, !.at = "quote"]
    <3>1. call'.at = "quote"
      BY <2>2 DEF RunOK
    <3> QED
      BY <3>1
  <2>3. CASE call' = Idle
    BY <2>1, <2>3
  <2> QED
    BY <2>2, <2>3 DEF Raised
<1> QED
  BY <1>1 DEF CallSettled

LEMMA ElsewhereSettled ==
  ASSUME call'.at \notin {"merge", "redeem"}
  PROVE  CallSettled'
BY DEF CallSettled

LEMMA BuyPaid ==
  ASSUME IInv, PaidInv, Buy
  PROVE  PaidInv'
<1>0. PICK m \in Markets : m = call.m
  BY BoughtIsNat
<1> DEFINE t == Trade("Buy", m, call.i, call.amount, Bought)
<1>1. m \in Markets /\ call.i \in Outcomes(m) /\ call.amount \in Nat /\ Bought \in Nat
  BY <1>0, BoughtIsNat
<1>2. RunOK /\ now \in Nat /\ AccountOK /\ BooksOK
  BY Running DEF IInv, Buy, At, CountersOK, WorldOK
<1>3. /\ held' = [held EXCEPT ![m][call.i] = @ + Bought]
      /\ trades' = [trades EXCEPT ![m] = Append(@, t)]
      /\ Mined(Idle) /\ UNCHANGED <<chain, paid, provided>>
  BY <1>0 DEF Buy
<1>4. t \in Traded /\ t.outcome = call.i /\ t.tokens = Bought /\ call.i \in Nat
  <2>1. call.i \in Nat
    BY <1>1, Constants DEF Outcomes
  <2> QED
    BY <1>1, <1>2, <2>1 DEF Trade, Traded
<1> HIDE DEF t
<1>5. \A x \in Markets \ {m} : SameMarket(x)
  BY <1>1, <1>2, <1>3 DEF SameMarket, AccountOK, BooksOK
<1>6. trades[m] \in Seq(Traded) /\ trades'[m] = Append(trades[m], t)
  BY <1>1, <1>2, <1>3 DEF PaidInv, TradesOK, BooksOK
<1>7. SameQuestions /\ CallSettled'
  <2>1. call' = Idle \/ call' = Raised
    BY <1>3 DEF Mined
  <2> QED
    BY <1>2, <1>3, <2>1, EndedIsSettled DEF SameQuestions, chain, question
<1>8. ASSUME m \notin provided', OnlyBuys(trades[m])' PROVE Accounted(m)'
  <2>1. OnlyBuys(trades[m]) /\ m \notin provided
    <3>1. OnlyBuys(Append(trades[m], t))
      BY <1>6, <1>8 DEF OnlyBuys
    <3>2. OnlyBuys(trades[m])
      BY <1>4, <1>6, <3>1, TradeAdds
    <3>3. provided' = provided
      BY <1>3
    <3> QED
      BY <1>8, <3>2, <3>3
  <2>2. Accounted(m)
    BY <1>1, <2>1 DEF PaidInv, AllAccounted
  <2>3. paid'[m] = paid[m] /\ answer' = answer /\ resolution' = resolution
    BY <1>3, <1>7 DEF SameQuestions
  <2>4. ASSUME NEW i \in Outcomes(m)
        PROVE  held'[m][i] = held[m][i] + (IF call.i = i THEN Bought ELSE 0)
    BY <1>1, <1>2, <1>3 DEF AccountOK
  <2>5. ASSUME NEW i \in Outcomes(m),
               paid[m] + held[m][i] = SumOf(TokensOf(trades[m], i))
        PROVE  paid'[m] + held'[m][i] = SumOf(TokensOf(trades'[m], i))
    <3>1. SumOf(TokensOf(trades'[m], i))
              = SumOf(TokensOf(trades[m], i)) + (IF call.i = i THEN Bought ELSE 0)
      <4>1. SumOf(TokensOf(Append(trades[m], t), i))
                = SumOf(TokensOf(trades[m], i)) + (IF t.outcome = i THEN t.tokens ELSE 0)
        BY <1>4, <1>6, TradeAdds
      <4> QED
        BY <1>4, <1>6, <4>1
    <3>2. paid[m] \in Nat /\ held[m][i] \in Nat
      BY <1>1, <1>2 DEF BooksOK, AccountOK
    <3> QED
      BY <1>1, <2>3, <2>4, <2>5, <3>1, <3>2
  <2>6. resolution[m]' = None => paid[m]' = 0
    BY <2>2, <2>3 DEF Accounted
  <2>7. ASSUME NEW i \in Outcomes(m), resolution'[m] = None \/ answer'[m] = Is(i)
        PROVE  paid'[m] + held'[m][i] = SumOf(TokensOf(trades'[m], i))
    BY <2>2, <2>3, <2>5, <2>7 DEF Accounted
  <2> QED
    BY <2>6, <2>7 DEF Accounted
<1>9. trades'[m] \in Seq(Traded)
  BY <1>4, <1>6, TradeAdds
<1> QED
  BY <1>1, <1>5, <1>7, <1>8, <1>9, OneMarketMoves

LEMMA SellPaid ==
  ASSUME IInv, PaidInv, Sell
  PROVE  PaidInv'
<1>0. PICK m \in Markets : m = call.m
  BY SoldIsInt
<1> DEFINE t == Trade("Sell", m, call.i, call.amount, Sold)
<1>1. m \in Markets /\ call.i \in Outcomes(m) /\ call.amount \in Nat /\ Sold \in Int
  BY <1>0, SoldIsInt
<1>2. RunOK /\ now \in Nat /\ AccountOK /\ BooksOK
  BY Running DEF IInv, Sell, At, CountersOK, WorldOK
<1>3. /\ held' = [held EXCEPT ![m][call.i] = @ - Sold]
      /\ trades' = [trades EXCEPT ![m] = Append(@, t)]
      /\ Mined(Go("withdraw")) /\ UNCHANGED <<chain, paid, provided>>
  BY <1>0 DEF Sell
<1>4. t \in Traded /\ t.type = "Sell"
  <2>1. call.i \in Nat
    BY <1>1, Constants DEF Outcomes
  <2> QED
    BY <1>1, <1>2, <2>1 DEF Trade, Traded
<1> HIDE DEF t
<1>5. \A x \in Markets \ {m} : SameMarket(x)
  BY <1>1, <1>2, <1>3 DEF SameMarket, AccountOK, BooksOK
<1>6. trades[m] \in Seq(Traded) /\ trades'[m] = Append(trades[m], t)
  BY <1>1, <1>2, <1>3 DEF PaidInv, TradesOK, BooksOK
<1>7. SameQuestions /\ CallSettled'
  <2>1. call' = Go("withdraw") \/ call' = Raised
    BY <1>3 DEF Mined
  <2>2. SameQuestions
    BY <1>3 DEF SameQuestions, chain, question
  <2>3. CASE call' = Raised
    BY <1>2, <2>2, <2>3, EndedIsSettled
  <2>4. CASE call' = Go("withdraw")
    <3>1. call'.at = "withdraw"
      BY <1>2, <2>4, Goes
    <3> QED
      BY <2>2, <3>1, ElsewhereSettled
  <2> QED
    BY <2>1, <2>3, <2>4
<1>8. ~OnlyBuys(trades[m])'
  <2>1. ~OnlyBuys(Append(trades[m], t))
    BY <1>4, <1>6, TradeAdds
  <2> QED
    BY <1>6, <2>1 DEF OnlyBuys
<1>9. trades'[m] \in Seq(Traded)
  BY <1>4, <1>6, TradeAdds
<1> QED
  BY <1>1, <1>5, <1>7, <1>8, <1>9, OneMarketMoves

\* Liquidity that is given or taken, and sets that are merged.
LEMMA LiquidityPaid ==
  ASSUME IInv, PaidInv, Fund \/ RemoveFunding \/ Merge
  PROVE  PaidInv'
<1>1. RunOK /\ AccountOK /\ BooksOK
  BY Running DEF IInv, Fund, RemoveFunding, Merge, At, WorldOK
<1>2. PICK m \in Markets : m = call.m
  BY <1>1 DEF RunOK, Fund, RemoveFunding, Merge, At
<1>3. /\ \A x \in Markets \ {m} : held'[x] = held[x]
      /\ trades' = trades /\ paid' = paid /\ m \in provided' /\ provided \subseteq provided'
  <2>1. CASE Fund
    BY <1>1, <1>2, <2>1 DEF Fund, AccountOK
  <2>2. CASE RemoveFunding
    BY <1>1, <1>2, <2>2 DEF RemoveFunding, AccountOK
  <2>3. CASE Merge
    <3>1. m \in provided
      BY <1>2, <2>3 DEF Merge, At, PaidInv, CallSettled
    <3> QED
      BY <1>1, <1>2, <2>3, <3>1 DEF Merge, AccountOK, books
  <2> QED
    BY <2>1, <2>2, <2>3
<1>4. SameQuestions
  BY DEF Fund, RemoveFunding, Merge, SameQuestions, chain, question
<1>5. CallSettled'
  <2>1. CASE call' = Idle \/ call' = Raised
    BY <1>1, <2>1, EndedIsSettled
  <2>2. CASE RemoveFunding /\ call' = Go("merge")
    <3>1. call'.at = "merge" /\ call'.m = m
      BY <1>1, <1>2, <2>2, Goes
    <3> QED
      BY <1>3, <3>1 DEF CallSettled
  <2>3. CASE Merge /\ call'.at = "withdraw"
    BY <2>3, ElsewhereSettled
  <2>4. Merge => call' = Raised \/ call'.at = "withdraw"
    <3>1. \A x : [Go("withdraw") EXCEPT !.amount = x].at = "withdraw"
      BY <1>1 DEF Go, RunOK
    <3> QED
      BY <3>1 DEF Merge, Mined
  <2> QED
    BY <2>1, <2>2, <2>3, <2>4 DEF Fund, RemoveFunding, Mined
<1>6. trades'[m] \in Seq(Traded)
  BY <1>2, <1>3 DEF PaidInv, TradesOK
<1>7. \A x \in Markets \ {m} : SameMarket(x)
  BY <1>3 DEF SameMarket
<1> QED
  BY <1>2, <1>3, <1>4, <1>5, <1>6, <1>7, OneMarketMoves

\* A redemption pays the tokens of the right outcome, one each.
LEMMA PaysTheRight ==
  ASSUME WorldOK, NEW m \in Markets, NEW i \in Outcomes(m), answer[m] = Is(i), NEW R
  PROVE  Payout(m, R) = IF i \in R THEN held[m][i] ELSE 0
<1>1. Slots[m] \in Nat \ {0} /\ Outcomes(m) = 1..Slots[m]
  BY Constants DEF Outcomes
<1>2. \A j \in Outcomes(m) : held[m][j] \in Nat
  BY DEF WorldOK, AccountOK
<1>3. ASSUME NEW j \in Outcomes(m)
      PROVE  Pays(m, j) = IF j = i THEN held[m][j] ELSE 0
  BY <1>1 DEF Pays, Is, Invalid
<1> DEFINE s == [j \in Outcomes(m) |-> IF j \in R THEN Pays(m, j) ELSE 0]
<1>4. s \in [1..Slots[m] -> Int]
  BY <1>1, <1>2, <1>3
<1>5. /\ \A j \in 1..Slots[m] : j # i => s[j] = 0
      /\ s[i] = IF i \in R THEN held[m][i] ELSE 0
  BY <1>1, <1>3
<1> HIDE DEF s
<1>6. SumOf(s) = s[i]
  BY <1>1, <1>4, <1>5, SumOfOne
<1> QED
  BY <1>5, <1>6 DEF Payout, s

LEMMA RedeemPaid ==
  ASSUME IInv, PaidInv, Redeem
  PROVE  PaidInv'
<1> DEFINE R == RedeemedOutcomes
<1>1. RunOK /\ WorldOK /\ AccountOK /\ BooksOK
  BY Running DEF IInv, Redeem, WorldOK
<1>2. PICK m \in Markets : m = call.m /\ resolution[m] # None
  BY <1>1 DEF RunOK, Redeem, PaidInv, CallSettled
<1>3. /\ held' = [held EXCEPT ![m] = [i \in Outcomes(m) |-> IF i \in R THEN 0 ELSE @[i]]]
      /\ paid' = [paid EXCEPT ![m] = @ + Payout(m, R)]
      /\ trades' = trades /\ provided' = provided /\ UNCHANGED chain
  BY <1>2 DEF Redeem
<1>4. SameQuestions
  BY <1>3 DEF SameQuestions, chain, question
<1>5. CallSettled'
  <2>1. \A x : [Go("withdraw") EXCEPT !.amount = x].at = "withdraw"
    BY <1>1 DEF Go, RunOK
  <2>2. call' = Raised \/ call'.at = "withdraw"
    BY <2>1 DEF Redeem, Mined
  <2> QED
    BY <1>1, <2>2, EndedIsSettled, ElsewhereSettled
<1> HIDE DEF R
<1>6. \A x \in Markets \ {m} : SameMarket(x)
  BY <1>1, <1>2, <1>3 DEF SameMarket, AccountOK, BooksOK
<1>7. ASSUME m \notin provided', OnlyBuys(trades[m])' PROVE Accounted(m)'
  <2>1. OnlyBuys(trades[m]) /\ m \notin provided
    BY <1>3, <1>7
  <2>2. Accounted(m)
    BY <1>2, <2>1 DEF PaidInv, AllAccounted
  <2>3. answer' = answer /\ resolution' = resolution /\ trades'[m] = trades[m]
    BY <1>3, <1>4 DEF SameQuestions
  <2>4. ASSUME NEW i \in Outcomes(m), answer[m] = Is(i)
        PROVE  paid'[m] + held'[m][i] = SumOf(TokensOf(trades'[m], i))
    <3>1. paid[m] + held[m][i] = SumOf(TokensOf(trades[m], i))
      BY <2>2, <2>4 DEF Accounted
    <3>2. Payout(m, R) = IF i \in R THEN held[m][i] ELSE 0
      BY <1>1, <1>2, <2>4, PaysTheRight
    <3>3. paid[m] \in Nat /\ held[m][i] \in Nat
      BY <1>1, <1>2, <2>4 DEF AccountOK, BooksOK
    <3>4. /\ paid'[m] = paid[m] + Payout(m, R)
          /\ held'[m][i] = IF i \in R THEN 0 ELSE held[m][i]
      BY <1>1, <1>2, <1>3, <2>4 DEF AccountOK, BooksOK
    <3> QED
      BY <2>3, <3>1, <3>2, <3>3, <3>4
  <2> QED
    BY <1>2, <2>3, <2>4 DEF Accounted
<1>8. trades'[m] \in Seq(Traded)
  BY <1>2, <1>3 DEF PaidInv, TradesOK
<1> QED
  BY <1>2, <1>4, <1>5, <1>6, <1>7, <1>8, OneMarketMoves

\* A question is answered, and a condition resolved.
LEMMA AnswerPaid ==
  ASSUME IInv, PaidInv, NEW m \in Markets,
         Resolve(m) \/ \E a \in Answers[m] : Answer(m, a)
  PROVE  PaidInv'
<1>1. /\ UNCHANGED <<held, trades, paid, provided, call>>
      /\ DOMAIN answer = Markets
      /\ finalized \in [Markets -> SUBSET Nat] /\ resolution \in [Markets -> SUBSET Nat]
  BY DEF Resolve, Answer, account, books, IInv, WorldOK, QuestionsOK
<1>2. TradesOK'
  BY <1>1 DEF PaidInv, TradesOK
<1>3. CASE Resolve(m)
  <2>1. /\ finalized[m] # None /\ answer' = answer /\ finalized' = finalized
        /\ \A x \in Markets : x # m => resolution'[x] = resolution[x]
        /\ resolution'[m] # None /\ resolution[m] = None
    BY <1>1, <1>3 DEF Resolve, Is, None
  <2>2. AnsweredOnce'
    BY <2>1 DEF PaidInv, AnsweredOnce
  <2>3. CallSettled'
    BY <1>1, <2>1 DEF PaidInv, CallSettled, IInv, Going, CallOK, RunOK, Idle
  <2>4. ASSUME NEW x \in Markets, Accounted(x) PROVE Accounted(x)'
    BY <1>1, <2>1, <2>4 DEF Accounted
  <2>5. AllAccounted'
    BY <1>1, <2>4 DEF PaidInv, AllAccounted, OnlyBuys
  <2> QED
    BY <1>2, <2>2, <2>3, <2>5 DEF PaidInv
<1>4. ASSUME NEW a \in Answers[m], Answer(m, a) PROVE PaidInv'
  <2>1. /\ answer[m] = None /\ resolution' = resolution
        /\ \A x \in Markets : x # m => answer'[x] = answer[x] /\ finalized'[x] = finalized[x]
        /\ answer'[m] = Is(a) /\ a \in Outcomes(m) \cup {Invalid}
    BY <1>1, <1>4, OmenAssumption DEF Answer
  <2>2. answer'[m] # None
    BY <2>1 DEF Is, None
  <2>3. AnsweredOnce'
    BY <2>1, <2>2 DEF PaidInv, AnsweredOnce
  <2>4. CallSettled'
    BY <1>1, <2>1 DEF PaidInv, CallSettled
  <2>5. resolution[m] = None
    BY <2>1 DEF PaidInv, AnsweredOnce
  <2>6. ASSUME NEW x \in Markets, Accounted(x) PROVE Accounted(x)'
    BY <1>1, <2>1, <2>5, <2>6 DEF Accounted
  <2>7. AllAccounted'
    BY <1>1, <2>6 DEF PaidInv, AllAccounted, OnlyBuys
  <2> QED
    BY <1>2, <2>3, <2>4, <2>7 DEF PaidInv
<1> QED
  BY <1>3, <1>4

\* Steps of a call that move nothing on the market.
LEMMA CallPaid ==
  ASSUME IInv, PaidInv, Step, ~Buy, ~Sell, ~Fund, ~RemoveFunding, ~Merge, ~Redeem
  PROVE  PaidInv'
<1>1. RunOK /\ call # Idle
  <2>1. call.at # "idle"
    BY DEF Step, EnoughCollateral, WrapShort, OutOfMoney, SwapForCollateral, Withdraw,
           QuoteBet, BuyReverts, AskQuestion, PrepareCondition, Create, PaymentReverts,
           QuoteSell, SellReverts, LiquidateNext, ListDone, MergeReverts, RedeemNext,
           Return, At
  <2> QED
    BY <2>1, Running DEF IInv
<1>2. /\ SameQuestions /\ UNCHANGED <<held, trades, paid>> /\ provided \subseteq provided'
  BY DEF Step, EnoughCollateral, WrapShort, OutOfMoney, SwapForCollateral, Withdraw,
         QuoteBet, BuyReverts, AskQuestion, PrepareCondition, Create, PaymentReverts,
         QuoteSell, SellReverts, LiquidateNext, ListDone, MergeReverts, RedeemNext,
         Return, SameQuestions, chain, question, account, books
<1>3. CASE ~RedeemNext
  <2>1. \/ call' = Idle \/ call' = Raised
        \/ \E place \in {"ask", "prepare", "trade", "swap", "deposit", "next", "return",
                         "quote"} : call'.at = place
    <3>1. \A place : Go(place).at = place
      BY <1>1 DEF Go, RunOK
    <3>2. \A place, x : [call EXCEPT !.at = place, !.limit = x].at = place
      BY <1>1 DEF RunOK
    <3>3. \A x, y, z, u : [call EXCEPT !.i = x, !.todo = y, !.amount = z, !.at = "quote",
                                       !.before = u].at = "quote"
      BY <1>1 DEF RunOK
    <3>4. CASE EnoughCollateral \/ WrapShort \/ OutOfMoney \/ SwapForCollateral \/ Withdraw
      BY <3>1, <3>4 DEF EnoughCollateral, WrapShort, OutOfMoney, SwapForCollateral, Withdraw,
                        Mined, Reverts, Deposited
    <3>5. CASE QuoteBet \/ QuoteSell
      <4>1. ASSUME NEW place, NEW x,
                   call' = [call EXCEPT !.at = place, !.limit = x],
                   place \in {"deposit", "trade"}
            PROVE  call'.at \in {"deposit", "trade"}
        BY <3>2, <4>1
      <4>2. QuoteBet => call' = Raised \/ call'.at \in {"deposit", "trade"}
        BY <4>1 DEF QuoteBet
      <4>3. QuoteSell => call' = Raised \/ call'.at \in {"deposit", "trade"}
        BY <4>1 DEF QuoteSell
      <4> QED
        BY <3>5, <4>2, <4>3
    <3>6. CASE \/ BuyReverts \/ AskQuestion \/ PrepareCondition \/ Create \/ PaymentReverts
               \/ SellReverts \/ ListDone \/ MergeReverts \/ Return
      BY <3>1, <3>6 DEF BuyReverts, AskQuestion, PrepareCondition, Create, PaymentReverts,
                        SellReverts, ListDone, MergeReverts, Return, Mined, Reverts
    <3>7. CASE LiquidateNext
      <4>1. PICK p \in call.todo :
                \/ call' = Raised
                \/ call' = [call EXCEPT !.i = p[1], !.todo = @ \ {p},
                               !.amount = SellValue(call.m, p[1], p[2]), !.at = "quote",
                               !.before = wallet[Token[call.m]]]
        BY <3>7 DEF LiquidateNext
      <4>2. CASE call' # Raised
        <5>1. call'.at = "quote"
          BY <1>1, <4>1, <4>2 DEF RunOK
        <5> QED
          BY <5>1
      <4> QED
        BY <4>2
    <3> QED
      BY <1>3, <3>4, <3>5, <3>6, <3>7 DEF Step
  <2>2. CallSettled'
    BY <1>1, <2>1, EndedIsSettled, ElsewhereSettled
  <2> QED
    BY <1>2, <2>2, NoMarketMoves
<1>4. CASE RedeemNext
  <2>1. PICK p \in call.todo :
            IF Redeemable(p[1])
            THEN call' = [call EXCEPT !.m = p[1], !.i = OutcomeOf(p[2]),
                              !.todo = @ \ {p}, !.at = "redeem",
                              !.before = wallet[Token[p[1]]]]
            ELSE call' = [call EXCEPT !.todo = @ \ {p}]
    BY <1>4 DEF RedeemNext
  <2>2. CASE Redeemable(p[1])
    <3>1. call'.m = p[1] /\ call'.at = "redeem"
      BY <1>1, <2>1, <2>2 DEF RunOK
    <3>2. resolution'[call'.m] # None
      BY <1>2, <2>2, <3>1 DEF Redeemable, ConditionResolved, SameQuestions
    <3>3. CallSettled'
      BY <3>1, <3>2 DEF CallSettled
    <3> QED
      BY <1>2, <3>3, NoMarketMoves
  <2>3. CASE ~Redeemable(p[1])
    <3>1. call'.at = "next"
      BY <1>1, <1>4, <2>1, <2>3 DEF RunOK, RedeemNext, At
    <3> QED
      BY <1>2, <3>1, ElsewhereSettled, NoMarketMoves
  <2> QED
    BY <2>2, <2>3
<1> QED
  BY <1>3, <1>4

LEMMA StartsPaid ==
  ASSUME IInv, PaidInv, NEW m \in Markets,
         \/ StartCreate(m) \/ StartFund(m) \/ StartRemove(m) \/ RemoveNothing(m)
         \/ StartRedeemPositions(m)
         \/ \E i \in Outcomes(m) : StartBet(m, i) \/ StartSell(m, i) \/ StartLiquidate(m, i)
  PROVE  PaidInv'
<1>1. /\ SameQuestions /\ UNCHANGED <<held, trades, paid>> /\ provided \subseteq provided'
  BY DEF StartCreate, StartFund, StartRemove, RemoveNothing, StartRedeemPositions,
         StartRedeemFull, StartBet, StartSell, StartLiquidate, SameQuestions, question,
         account, books
<1>2. CASE StartRedeemPositions(m)
  <2>1. call'.m = m /\ resolution[m] # None /\ call'.at = "redeem"
    BY <1>2 DEF StartRedeemPositions, StartRedeemFull, Begin, ConditionResolved, Idle
  <2>2. CallSettled'
    BY <1>1, <2>1 DEF CallSettled, SameQuestions
  <2> QED
    BY <1>1, <2>2, NoMarketMoves
<1>3. CASE ~StartRedeemPositions(m)
  <2>1. call'.at \in {"deposit", "remove", "return", "quote", "next"}
    BY <1>3 DEF StartCreate, StartFund, StartRemove, RemoveNothing, StartBet, StartSell,
                StartLiquidate, Begin, Idle
  <2> QED
    BY <1>1, <2>1, ElsewhereSettled, NoMarketMoves
<1> QED
  BY <1>2, <1>3

LEMMA OthersPaid ==
  ASSUME IInv, PaidInv,
         \/ Fails \/ StartRedeemAll \/ Tick \/ UNCHANGED vars
         \/ \E m \in Markets : \E i \in Outcomes(m) : OtherBuys(m, i)
  PROVE  PaidInv'
<1>1. /\ SameQuestions /\ UNCHANGED <<held, trades, paid, provided>>
  BY DEF Fails, StartRedeemAll, Tick, vars, OtherBuys, SameQuestions, question, account,
         books, chain
<1>2. CallSettled'
  <2>1. CASE Fails
    <3>1. RunOK /\ call' = Raised
      BY <2>1 DEF Fails, IInv, Going, CallOK
    <3> QED
      BY <3>1, EndedIsSettled
  <2>2. CASE StartRedeemAll
    <3>1. call'.at = "next"
      BY <2>2 DEF StartRedeemAll, Idle
    <3> QED
      BY <3>1, ElsewhereSettled
  <2>3. CASE ~Fails /\ ~StartRedeemAll
    <3>1. call' = call
      BY <2>3 DEF Tick, vars, OtherBuys
    <3> QED
      BY <1>1, <3>1 DEF PaidInv, CallSettled, SameQuestions
  <2> QED
    BY <2>1, <2>2, <2>3
<1> QED
  BY <1>1, <1>2, NoMarketMoves

LEMMA PaidKept ==
  ASSUME IInv, PaidInv, [Next]_vars
  PROVE  PaidInv'
<1>1. CASE Step
  BY <1>1, BuyPaid, SellPaid, LiquidityPaid, RedeemPaid, CallPaid
<1>2. CASE Fails \/ StartRedeemAll \/ Tick \/ UNCHANGED vars
  BY <1>2, OthersPaid
<1>3. ASSUME NEW m \in Markets,
             \/ StartCreate(m) \/ StartFund(m) \/ StartRemove(m) \/ RemoveNothing(m)
             \/ StartRedeemPositions(m)
             \/ \E i \in Outcomes(m) : StartBet(m, i) \/ StartSell(m, i) \/ StartLiquidate(m, i)
      PROVE  PaidInv'
  BY <1>3, StartsPaid
<1>4. ASSUME NEW m \in Markets, Resolve(m) \/ \E a \in Answers[m] : Answer(m, a)
      PROVE  PaidInv'
  BY <1>4, AnswerPaid
<1>5. ASSUME NEW m \in Markets, NEW i \in Outcomes(m), OtherBuys(m, i) PROVE PaidInv'
  BY <1>5, OthersPaid
<1> QED
  BY <1>1, <1>2, <1>3, <1>4, <1>5 DEF Next

\* The profits of purchases are what was bought of the right outcome less
\* what was staked.
LEMMA ProfitsAdd ==
  ASSUME NEW list \in Seq(Traded), OnlyBuys(list), NEW x, NEW a, HasValidAnswer(x),
         x.answer = Is(a), NEW f,
         f = [k \in DOMAIN list |-> Profit(list[k], x)]
  PROVE  /\ SumOf(f) = SumOf(TokensOf(list, a)) - SumOf(Stakes(list))
         /\ SumOf(TokensOf(list, a)) \in Int /\ SumOf(Stakes(list)) \in Int
<1> DEFINE n == Len(list)
           g == TokensOf(list, a)
           h == Stakes(list)
<1>1. n \in Nat /\ DOMAIN list = 1..n /\ \A k \in 1..n : list[k] \in Traded
  BY LenProperties, ElementOfSeq
<1> HIDE DEF n
<1>2. g \in [1..n -> Int] /\ h \in [1..n -> Int]
  BY <1>1 DEF TokensOf, Stakes, Traded
<1>3. ASSUME NEW k \in 1..n PROVE f[k] \in Int /\ f[k] = g[k] - h[k]
  <2>1. /\ list[k].tokens \in Int /\ list[k].amount \in Nat
        /\ h[k] = list[k].amount
        /\ g[k] = IF list[k].outcome = a THEN list[k].tokens ELSE 0
        /\ f[k] = Profit(list[k], x)
    BY <1>1 DEF TokensOf, Stakes, Traded
  <2>2. x.answer = Is(list[k].outcome) <=> list[k].outcome = a
    BY DEF Is
  <2>3. Profit(list[k], x) = IF list[k].outcome = a
                             THEN list[k].tokens - list[k].amount ELSE -list[k].amount
    BY <2>2 DEF Profit
  <2> QED
    BY <2>1, <2>3
<1>4. f \in [1..n -> Int]
  BY <1>1, <1>3
<1> HIDE DEF g, h
<1>5. SumOf(f) = SumOf(g) - SumOf(h) /\ SumOf(g) \in Int /\ SumOf(h) \in Int
  BY <1>1, <1>2, <1>3, <1>4, SumDiffers
<1> QED
  BY <1>5 DEF g, h

\* So they are what was paid.
LEMMA PaidIsProfit ==
  ASSUME IInv, PaidInv
  PROVE  ProfitIsPaid
<1> SUFFICES ASSUME NEW m \in Markets, m \notin provided,
                    ResolvedBetsMadeSince(m, 0) # <<>>,
                    Len(ResolvedBetsMadeSince(m, 0)) = Len(trades[m]),
                    \A i \in Outcomes(m) : held[m][i] = 0
             PROVE  LET bets == ResolvedBetsMadeSince(m, 0)
                        profits == [k \in DOMAIN bets |-> bets[k].profit]
                        stakes == [k \in DOMAIN bets |-> bets[k].amount]
                    IN  SumOf(profits) = paid[m] - SumOf(stakes)
  BY Zenon DEF ProfitIsPaid
<1> DEFINE list == trades[m]
           x == Indexed(m)
           q == [Bets EXCEPT !.start = Is(0)]
           all == [q EXCEPT !.finalized = TRUE]
           found == ResolvedBets(list, x, q)
           bets == ResolvedBetsMadeSince(m, 0)
<1>1. list \in Seq(Traded)
  BY DEF PaidInv, TradesOK
<1>2. bets = [k \in DOMAIN found |-> GenericResolvedBet(found[k], x)]
  BY DEF ResolvedBetsMadeSince
<1>3. found = IF ResolvedValidly(x) THEN Trades(list, x, all) ELSE <<>>
  BY DEF ResolvedBets
<1>4. Trades(list, x, all) \in Seq(Traded)
  BY <1>1, TradesAll
<1> HIDE DEF list, x, all, q, found, bets
<1>5. found \in Seq(Traded)
  BY <1>3, <1>4, EmptySeq
<1>6. Len(found) \in Nat /\ DOMAIN found = 1..Len(found)
  BY <1>5, LenProperties
<1>7. Len(bets) = Len(found)
  <2> DEFINE V == {GenericResolvedBet(found[k], x) : k \in 1..Len(found)}
  <2>1. bets \in [1..Len(found) -> V]
    BY <1>2, <1>6
  <2> HIDE DEF V
  <2> QED
    BY <1>6, <2>1, LengthOf
<1>8. ResolvedValidly(x)
  <2> SUFFICES ASSUME ~ResolvedValidly(x) PROVE FALSE
    OBVIOUS
  <2>1. found = <<>> /\ Len(found) = 0
    BY <1>3, <1>5, EmptySeq
  <2>2. bets \in [1..0 -> {0}]
    BY <1>2, <1>6, <2>1
  <2>3. bets \in Seq({0}) /\ Len(bets) = 0
    <3>1. bets \in Seq({0})
      BY <2>2, IsASeq
    <3> QED
      BY <1>7, <2>1, <3>1
  <2>4. bets = <<>>
    BY <2>3, EmptySeq
  <2> QED
    BY <2>4 DEF bets
<1>9. Len(found) = Len(list)
  BY <1>7 DEF bets, list
<1>10. found = list /\ \A k \in DOMAIN list : TradeWhere(list[k], x, all)
  BY <1>1, <1>3, <1>8, <1>9, TradesAll
<1>11. OnlyBuys(list)
  <2>1. ASSUME NEW t, TradeWhere(t, x, all) PROVE t.type = "Buy"
    <3>1. all.type = {"Buy"}
      BY DEF all, q, Bets, Is
    <3> QED
      BY <2>1, <3>1 DEF TradeWhere, Wanted
  <2> QED
    BY <1>10, <2>1 DEF OnlyBuys
<1>12. /\ x.answer = answer[m] /\ x.resolution = resolution[m]
  BY DEF x, Indexed
<1>13. HasValidAnswer(x) /\ resolution[m] # None
  BY <1>8, <1>12 DEF ResolvedValidly, IsResolved
<1>14. PICK a \in Outcomes(m) : answer[m] = Is(a)
  <2>1. answer[m] # None /\ answer[m] # Is(Invalid)
    BY <1>12, <1>13 DEF HasValidAnswer
  <2> QED
    BY <2>1 DEF PaidInv, AnsweredOnce
<1>15. paid[m] = SumOf(TokensOf(list, a))
  <2>1. Accounted(m)
    BY <1>11 DEF PaidInv, AllAccounted, list
  <2>2. paid[m] + held[m][a] = SumOf(TokensOf(list, a)) /\ held[m][a] = 0
    BY <1>14, <2>1 DEF Accounted, list
  <2>3. paid[m] \in Nat
    BY DEF IInv, WorldOK, BooksOK
  <2> QED
    BY <2>2, <2>3
<1> DEFINE profits == [k \in DOMAIN bets |-> bets[k].profit]
           stakes == [k \in DOMAIN bets |-> bets[k].amount]
<1>16. DOMAIN bets = DOMAIN list /\ \A k \in DOMAIN list : bets[k] = GenericResolvedBet(list[k], x)
  BY <1>2, <1>10
<1>17. profits = [k \in DOMAIN list |-> Profit(list[k], x)]
  BY <1>16 DEF GenericResolvedBet
<1>18. stakes = Stakes(list)
  BY <1>16 DEF GenericResolvedBet, Stakes
<1>19. SumOf(profits) = SumOf(TokensOf(list, a)) - SumOf(Stakes(list))
  <2> HIDE DEF profits
  <2> QED
    BY <1>1, <1>11, <1>12, <1>13, <1>14, <1>17, ProfitsAdd
<1>20. SumOf(profits) = paid[m] - SumOf(stakes)
  BY <1>15, <1>18, <1>19
<1> QED
  BY <1>20, Zenon DEF bets

(***************************************************************************)
(* The profits that get_resolved_bets_made_since reports of a market add   *)
(* up to what redemptions paid less what was staked, once nothing is held  *)
(* any more: for every right answer, however many bets there were, also    *)
(* those that reached the contract only after the market was resolved.     *)
(***************************************************************************)
THEOREM ReportedProfitIsPaid == Spec => []ProfitIsPaid
<1>1. Init => PaidInv
  BY InitPaid
<1>2. IInv /\ PaidInv /\ [Next]_vars => PaidInv'
  BY PaidKept
<1>3. IInv /\ PaidInv => ProfitIsPaid
  BY PaidIsProfit
<1> QED
  BY <1>1, <1>2, <1>3, Invariance, PTL DEF Spec

-----------------------------------------------------------------------------
Iterates(f, n, V, b, F) ==
    f \in [0..n -> V] /\ f[0] = b /\ \A k \in 1..n : f[k] = F[k][f[k - 1]]

\* A recursion over the numbers up to n, each value made of the one before,
\* has a solution.
LEMMA Iterated ==
  ASSUME NEW n \in Nat, NEW V, NEW b \in V, NEW F \in [1..n -> [V -> V]]
  PROVE  \E f : Iterates(f, n, V, b, F)
<1> DEFINE Right(f, j) == /\ f \in [0..n -> V] /\ f[0] = b
                          /\ \A k \in 1..n : k <= j => f[k] = F[k][f[k - 1]]
           G == {j \in 0..n : \E f : Right(f, j)}
<1>1. 0 \in G
  <2> DEFINE f == [k \in 0..n |-> b]
  <2>1. Right(f, 0)
    OBVIOUS
  <2> QED
    BY <2>1
<1>2. ASSUME NEW j \in 1..n, j - 1 \in G PROVE j \in G
  <2>1. PICK f : Right(f, j - 1)
    BY <1>2
  <2> DEFINE g == [k \in 0..n |-> IF k = j THEN F[j][f[j - 1]] ELSE f[k]]
  <2>2. f[j - 1] \in V /\ F[j] \in [V -> V]
    BY <2>1
  <2>3. F[j][f[j - 1]] \in V
    BY <2>2
  <2>4. g \in [0..n -> V] /\ g[0] = b /\ g[j] = F[j][f[j - 1]]
        /\ \A k \in 0..n : k # j => g[k] = f[k]
    BY <2>1, <2>3
  <2> HIDE DEF g
  <2>5. ASSUME NEW k \in 1..n, k <= j PROVE g[k] = F[k][g[k - 1]]
    <3>1. k - 1 \in 0..n /\ k - 1 # j /\ k \in 0..n
      BY <2>5
    <3>2. g[k - 1] = f[k - 1]
      BY <2>4, <3>1
    <3>3. CASE k = j
      BY <2>4, <3>2, <3>3
    <3>4. CASE k # j
      <4>1. k <= j - 1
        BY <2>5, <3>4
      <4>2. f[k] = F[k][f[k - 1]]
        BY <2>1, <4>1
      <4> QED
        BY <2>4, <3>1, <3>2, <3>4, <4>2
    <3> QED
      BY <3>3, <3>4
  <2>6. Right(g, j)
    BY <2>4, <2>5
  <2> HIDE DEF Right
  <2> QED
    BY <2>6
<1>3. n \in G
  <2>1. \A k \in 0..n : k \in G
    <3> HIDE DEF G
    <3> QED
      BY <1>1, <1>2, UpTo
  <2> QED
    BY <2>1
<1> QED
  BY <1>3 DEF Iterates

\* The partial products of integers, and a factor taken out of one.
LEMMA Factors ==
  ASSUME NEW n \in Nat, NEW s \in [1..n -> Int]
  PROVE  \E t \in [0..n -> Int] :
             /\ ProductOf(s) = t[n]
             /\ t[0] = 1 /\ \A k \in 1..n : t[k] = s[k] * t[k - 1]
<1>1. Len(s) = n
  BY LengthOf
<1> DEFINE t == CHOOSE u : Products(s, n, u)
<1>2. ProductOf(s) = t[n]
  BY <1>1, Zenon DEF ProductOf, Products
<1>3. Products(s, n, t)
  <2>1. \E u : u = [k \in 0..n |-> Partial("product", {}, s, u, k)]
    <3>1. {} \in SUBSET Nat
      OBVIOUS
    <3> QED
      BY <3>1, PartialsExist
  <2>2. \E u : Products(s, n, u)
    BY <2>1 DEF Products, Partial
  <2> QED
    BY <2>2
<1> HIDE DEF t
<1>4. t[0] = 1 /\ \A k \in 1..n : t[k] = s[k] * t[k - 1]
  BY <1>3 DEF Products
<1> DEFINE G == {k \in 0..n : t[k] \in Int}
<1>5. 0 \in G
  BY <1>4
<1>6. \A k \in 1..n : k - 1 \in G => k \in G
  <2>1. \A x, y \in Int : x * y \in Int
    OBVIOUS
  <2> QED
    BY <1>4, <2>1
<1>7. \A k \in 0..n : k \in G
  <2> HIDE DEF G
  <2> QED
    BY <1>5, <1>6, UpTo
<1>8. t \in [0..n -> Int]
  BY <1>3, <1>7 DEF Products
<1> QED
  BY <1>2, <1>4, <1>8

LEMMA TakenOut ==
  ASSUME NEW n \in Nat, NEW s \in [1..n -> Int], NEW u \in [1..n -> Int],
         NEW i \in 1..n, u[i] = 1, \A j \in 1..n : j # i => s[j] = u[j]
  PROVE  ProductOf(s) = s[i] * ProductOf(u)
<1>1. PICK t \in [0..n -> Int] : /\ ProductOf(s) = t[n]
                                 /\ t[0] = 1 /\ \A k \in 1..n : t[k] = s[k] * t[k - 1]
  BY Factors
<1>2. PICK v \in [0..n -> Int] : /\ ProductOf(u) = v[n]
                                 /\ v[0] = 1 /\ \A k \in 1..n : v[k] = u[k] * v[k - 1]
  BY Factors
<1> DEFINE G == {k \in 0..n : t[k] = IF k < i THEN v[k] ELSE s[i] * v[k]}
<1>3. 0 \in G
  BY <1>1, <1>2
<1>4. ASSUME NEW k \in 1..n, k - 1 \in G PROVE k \in G
  <2>1. /\ t[k] = s[k] * t[k - 1] /\ v[k] = u[k] * v[k - 1]
        /\ s[k] \in Int /\ u[k] \in Int /\ s[i] \in Int /\ v[k - 1] \in Int
        /\ k \in 0..n
    <3>1. t[k] = s[k] * t[k - 1] /\ v[k] = u[k] * v[k - 1]
      BY <1>1, <1>2, Zenon
    <3>2. s[k] \in Int /\ u[k] \in Int /\ s[i] \in Int
      OBVIOUS
    <3>3. k - 1 \in 0..n /\ k \in 0..n
      OBVIOUS
    <3>4. v[k - 1] \in Int
      BY <1>2, <3>3, Zenon
    <3> QED
      BY <3>1, <3>2, <3>3, <3>4
  <2>2. t[k - 1] = IF k - 1 < i THEN v[k - 1] ELSE s[i] * v[k - 1]
    BY <1>4
  <2>3. CASE k < i
    <3>1. k - 1 < i /\ s[k] = u[k]
      BY <2>3
    <3> QED
      BY <2>1, <2>2, <2>3, <3>1
  <2>4. CASE k = i
    <3>1. k - 1 < i /\ ~(k < i)
      BY <2>4
    <3>2. v[k] = v[k - 1] /\ t[k] = s[i] * v[k - 1]
      BY <2>1, <2>2, <2>4, <3>1
    <3> QED
      BY <2>1, <3>1, <3>2
  <2>5. CASE k > i
    <3>1. ~(k - 1 < i) /\ ~(k < i) /\ s[k] = u[k]
      BY <2>5
    <3>2. t[k] = u[k] * (s[i] * v[k - 1])
      BY <2>1, <2>2, <3>1
    <3>3. \A x, y, z \in Int : x * (y * z) = y * (x * z)
      OBVIOUS
    <3>4. t[k] = s[i] * v[k]
      BY <2>1, <3>2, <3>3
    <3> QED
      BY <2>1, <3>1, <3>4
  <2> QED
    BY <2>3, <2>4, <2>5
<1>5. n \in G
  <2>1. \A k \in 0..n : k \in G
    <3> HIDE DEF G
    <3> QED
      BY <1>3, <1>4, UpTo
  <2> QED
    BY <2>1
<1>6. ~(n < i)
  OBVIOUS
<1> QED
  BY <1>1, <1>2, <1>5, <1>6

\* Positive numbers, at least two of them, add up to more than each.
LEMMA SumExceeds ==
  ASSUME NEW n \in Nat, n >= 2, NEW s \in [1..n -> Int], \A k \in 1..n : s[k] > 0,
         NEW i \in 1..n
  PROVE  SumOf(s) \in Nat /\ s[i] < SumOf(s)
<1>1. PICK t \in [0..n -> Int] : /\ SumOf(s) = t[n]
                                 /\ t[0] = 0 /\ \A k \in 1..n : t[k] = s[k] + t[k - 1]
  BY SumSteps
<1> DEFINE G == {k \in 0..n : t[k] >= k /\ (k >= i => t[k] >= s[i] + k - 1)}
<1>2. 0 \in G
  BY <1>1
<1>3. ASSUME NEW k \in 1..n, k - 1 \in G PROVE k \in G
  <2>1. /\ k \in 0..n /\ t[k] = s[k] + t[k - 1]
        /\ s[k] \in Int /\ s[k] >= 1 /\ t[k - 1] \in Int
        /\ t[k - 1] >= k - 1 /\ (k - 1 >= i => t[k - 1] >= s[i] + (k - 1) - 1)
        /\ s[i] \in Int
    <3>1. k - 1 \in 0..n /\ k \in 0..n
      OBVIOUS
    <3>2. t[k] = s[k] + t[k - 1] /\ t[k - 1] \in Int
      BY <1>1, <3>1, Zenon
    <3>3. s[k] \in Int /\ s[k] >= 1 /\ s[i] \in Int
      OBVIOUS
    <3>4. t[k - 1] >= k - 1 /\ (k - 1 >= i => t[k - 1] >= s[i] + (k - 1) - 1)
      BY <1>3, Zenon
    <3> QED
      BY <3>1, <3>2, <3>3, <3>4
  <2>2. CASE k = i
    BY <2>1, <2>2
  <2>3. CASE k # i
    <3>1. k >= i => k - 1 >= i
      BY <2>3
    <3> QED
      BY <2>1, <3>1
  <2> QED
    BY <2>2, <2>3
<1>4. n \in G
  <2>1. \A k \in 0..n : k \in G
    <3> HIDE DEF G
    <3> QED
      BY <1>2, <1>3, UpTo
  <2> QED
    BY <2>1
<1>5. s[i] \in Int /\ t[n] \in Int
  BY <1>1
<1>6. t[n] >= n /\ (n >= i => t[n] >= s[i] + n - 1) /\ i <= n
  BY <1>4
<1>7. t[n] \in Nat /\ s[i] < t[n]
  <2> HIDE DEF G
  <2> QED
    BY <1>5, <1>6
<1> QED
  BY <1>1, <1>7, Zenon

\* A part of a whole, in thousandths.
LEMMA Thousandths ==
  ASSUME NEW a \in Nat, NEW b \in Nat, a < b
  PROVE  (1000 * a) \div b \in 0..999 /\ b # 0
<1> DEFINE c == 1000 * a
           q == c \div b
<1>1. c \in Nat /\ b \in Nat \ {0}
  OBVIOUS
<1>2. c <= 1000 * b - 1000
  OBVIOUS
<1> HIDE DEF c
<1>3. q \in Nat /\ b * q <= c
  BY <1>1, Quotients
<1> HIDE DEF q
<1>4. b * q < 1000 * b
  BY <1>1, <1>2, <1>3
<1>5. q < 1000
  <2>1. ASSUME q >= 1000 PROVE FALSE
    <3>1. b * q >= b * 1000
      BY <1>1, <1>3, <2>1
    <3> QED
      BY <1>1, <1>3, <1>4, <3>1
  <2> QED
    BY <1>3, <2>1
<1> QED
  BY <1>1, <1>3, <1>5 DEF q, c

\* Prices lie below one.
LEMMA PriceBelowOne ==
  ASSUME NEW n \in Nat, n >= 2, NEW p \in Filled(n), NEW i \in 1..n
  PROVE  Price(p, i) \in 0..999
<1> DEFINE w == [j \in DOMAIN p |-> Weight(p, j)]
<1>1. DOMAIN p = 1..n /\ \A j \in 1..n : p[j] \in Nat /\ p[j] > 0
  BY DEF Filled
<1>2. ASSUME NEW j \in 1..n PROVE w[j] \in Nat /\ w[j] > 0
  <2> DEFINE u == Others(p, j)
  <2>1. u \in [1..n -> Nat] /\ \A k \in 1..n : u[k] > 0
    BY <1>1 DEF Others, Filled
  <2> HIDE DEF u
  <2>2. ProductOf(u) \in Nat /\ ProductOf(u) > 0
    BY <2>1, ProductIsPositive
  <2>3. w[j] = ProductOf(u)
    BY <1>1 DEF Weight, u
  <2> QED
    BY <2>2, <2>3
<1>3. w \in [1..n -> Int]
  <2>1. w = [j \in 1..n |-> w[j]]
    BY <1>1
  <2> HIDE DEF w
  <2> QED
    BY <1>2, <2>1
<1>4. w[i] = Weight(p, i)
  BY <1>1
<1>5. Price(p, i) = IF SumOf(w) = 0 THEN 0 ELSE (1000 * w[i]) \div SumOf(w)
  BY <1>4 DEF Price
<1> HIDE DEF w
<1>6. SumOf(w) \in Nat /\ w[i] < SumOf(w) /\ w[i] \in Nat
  BY <1>2, <1>3, SumExceeds
<1>7. (1000 * w[i]) \div SumOf(w) \in 0..999 /\ SumOf(w) # 0
  <2>1. PICK a, b : a = w[i] /\ b = SumOf(w)
    OBVIOUS
  <2>2. a \in Nat /\ b \in Nat /\ a < b
    BY <1>6, <2>1
  <2>3. (1000 * a) \div b \in 0..999 /\ b # 0
    BY <2>2, Thousandths
  <2> QED
    BY <2>1, <2>3
<1> QED
  BY <1>5, <1>7

\* The bisection finds where it began or a number of the set.
LEMMA BisectionFinds ==
  ASSUME NEW C, NEW n \in Nat, NEW f, f = [x \in Ranges(n) |-> Halves(C, f, x)]
  PROVE  \A x \in Ranges(n) : f[x] = x[1] \/ f[x] \in C
<1> DEFINE Good(x) == f[x] = x[1] \/ f[x] \in C
           G == {d \in 0..n : \A x \in Ranges(n) : x[2] - x[1] <= d => Good(x)}
<1>0. \A x \in Ranges(n) : x[1] \in 0..n /\ x[2] \in 0..n
  BY DEF Ranges
<1>1. \A x \in Ranges(n) : f[x] = Halves(C, f, x)
  OBVIOUS
<1>2. ASSUME NEW x \in Ranges(n), x[2] - x[1] <= 1 PROVE Good(x)
  BY <1>1, <1>2 DEF Halves
<1>3. 0 \in G
  BY <1>0, <1>2
<1>4. ASSUME NEW d \in 1..n, d - 1 \in G PROVE d \in G
  <2>1. ASSUME NEW x \in Ranges(n), x[2] - x[1] <= d PROVE Good(x)
    <3>1. CASE x[2] - x[1] <= 1
      BY <1>2, <3>1
    <3>2. CASE ~(x[2] - x[1] <= 1)
      <4>1. Half(C, x) \in Ranges(n) /\ Half(C, x)[2] - Half(C, x)[1] <= x[2] - x[1] - 1
        BY <3>2, HalfIsSmaller
      <4>2. Half(C, x)[2] - Half(C, x)[1] <= d - 1
        BY <1>0, <2>1, <4>1
      <4>3. Good(Half(C, x))
        BY <1>4, <4>1, <4>2
      <4>4. f[x] = f[Half(C, x)]
        BY <1>1, <3>2 DEF Halves
      <4>5. Half(C, x)[1] = x[1] \/ Half(C, x)[1] \in C
        BY DEF Half
      <4> HIDE DEF G
      <4> QED
        BY <4>3, <4>4, <4>5
    <3> QED
      BY <3>1, <3>2
  <2>2. d \in 0..n
    OBVIOUS
  <2> HIDE DEF Good
  <2> QED
    BY <2>1, <2>2
<1>5. n \in G
  <2>1. \A k \in 0..n : k \in G
    <3> HIDE DEF G
    <3> QED
      BY <1>3, <1>4, UpTo
  <2> QED
    BY <2>1
<1>6. \A x \in Ranges(n) : x[2] - x[1] <= n
  BY <1>0
<1> QED
  BY <1>5, <1>6

\* What a sale of shares asks for is covered by them, or nothing.
LEMMA SellAmountCovered ==
  ASSUME NEW p, NEW i, NEW s \in Nat, NEW fee
  PROVE  LET r == SellAmount(p, i, s, fee)
         IN  r \in Nat /\ (r = 0 \/ Covers(p, i, s, fee, r))
<1> DEFINE Search(f) == f = [x \in (0..(s + 1)) \X (0..(s + 1)) |->
               IF x[2] - x[1] <= 1 THEN x[1]
               ELSE f[IF Covers(p, i, s, fee, (x[1] + x[2]) \div 2)
                      THEN <<(x[1] + x[2]) \div 2, x[2]>>
                      ELSE <<x[1], (x[1] + x[2]) \div 2>>]]
           C == {r \in 0..(s + 1) : Covers(p, i, s, fee, r)}
<1>0. s + 1 \in Nat
  OBVIOUS
<1>1. ASSUME NEW f PROVE Search(f) <=> f = [x \in Ranges(s + 1) |-> Halves(C, f, x)]
  <2>1. ASSUME NEW x \in Ranges(s + 1)
        PROVE  Halves(C, f, x) =
               IF x[2] - x[1] <= 1 THEN x[1]
               ELSE f[IF Covers(p, i, s, fee, (x[1] + x[2]) \div 2)
                      THEN <<(x[1] + x[2]) \div 2, x[2]>>
                      ELSE <<x[1], (x[1] + x[2]) \div 2>>]
    <3>1. CASE x[2] - x[1] <= 1
      BY <3>1 DEF Halves
    <3>2. CASE ~(x[2] - x[1] <= 1)
      <4>1. Middle(x) \in 0..(s + 1)
        BY <3>2 DEF Ranges, Middle
      <4>2. Middle(x) \in C <=> Covers(p, i, s, fee, Middle(x))
        BY <4>1
      <4> HIDE DEF C
      <4> QED
        BY <3>2, <4>2, Zenon DEF Halves, Half, Middle
    <3> QED
      BY <3>1, <3>2
  <2> HIDE DEF C
  <2> QED
    BY <2>1 DEF Ranges
<1>2. \E f : Search(f)
  <2> HIDE DEF C, Search
  <2>1. \E f : f = [x \in Ranges(s + 1) |-> Halves(C, f, x)]
    BY <1>0, BisectionExists
  <2> QED
    BY <1>1, <2>1, Zenon
<1> DEFINE f == CHOOSE g : Search(g)
<1>3. Search(f)
  <2> HIDE DEF Search
  <2> QED
    BY <1>2
<1>4. SellAmount(p, i, s, fee) = IF s = 0 THEN 0 ELSE f[<<0, s + 1>>]
  BY Zenon DEF SellAmount
<1> HIDE DEF f
<1>5. f = [x \in Ranges(s + 1) |-> Halves(C, f, x)]
  <2> HIDE DEF C, Search
  <2> QED
    BY <1>1, <1>3, Zenon
<1>6. <<0, s + 1>> \in Ranges(s + 1)
  BY DEF Ranges
<1>7. f[<<0, s + 1>>] \in 0..(s + 1) /\ (f[<<0, s + 1>>] = 0 \/ f[<<0, s + 1>>] \in C)
  <2> HIDE DEF C, Search
  <2>1. \A x \in Ranges(s + 1) : f[x] \in 0..(s + 1)
    BY <1>0, <1>5, BisectionStays
  <2>2. \A x \in Ranges(s + 1) : f[x] = x[1] \/ f[x] \in C
    BY <1>0, <1>5, BisectionFinds
  <2> QED
    BY <1>6, <2>1, <2>2
<1> HIDE DEF Search
<1> QED
  BY <1>4, <1>7

\* Whatever is asked for up to that, the pool can pay it, for these shares.
Payable(n, p, i, s, fee, a) ==
    LET out == Gross(a, fee)
        rest == [j \in 1..n |-> IF j = i THEN 1 ELSE p[j] - out]
    IN  /\ \A j \in 1..n : j # i => out < p[j]
        /\ ProductOf(p) <= (p[i] + s - out) * ProductOf(rest)

LEMMA SellAmountPayable ==
  ASSUME NEW n \in Nat, NEW p \in Filled(n), NEW i \in 1..n, NEW s \in Nat,
         NEW fee \in 0..99, NEW a \in Nat, a = 0 \/ Covers(p, i, s, fee, a)
  PROVE  Payable(n, p, i, s, fee, a)
<1> DEFINE out == Gross(a, fee)
           u == [j \in 1..n |-> IF j = i THEN 1 ELSE p[j] - out]
<1>1. p \in [1..n -> Nat] /\ DOMAIN p = 1..n /\ \A j \in 1..n : p[j] \in Nat /\ p[j] > 0
  BY DEF Filled
<1>2. out \in Nat
  BY Fees
<1>3. u \in [1..n -> Int] /\ u[i] = 1 /\ \A j \in 1..n : j # i => u[j] = p[j] - out
  <2> HIDE DEF out
  <2> QED
    BY <1>1, <1>2
<1>4. CASE Covers(p, i, s, fee, a)
  <2> DEFINE y == p[i] + s - out
             z == Shift(p, i, -out, y)
  <2>1. /\ \A j \in 1..n : j # i => out < p[j]
        /\ ProductOf(z) >= ProductOf(p)
    BY <1>1, <1>4 DEF Covers
  <2> HIDE DEF out
  <2>2. y \in Int /\ -out \in Int
    BY <1>1, <1>2
  <2> HIDE DEF y
  <2>3. z = [j \in 1..n |-> IF j = i THEN y ELSE p[j] + (-out)]
    BY <1>1, Zenon DEF Shift
  <2> HIDE DEF z, u
  <2>4. z \in [1..n -> Int] /\ z[i] = y /\ \A j \in 1..n : j # i => z[j] = u[j]
    BY <1>1, <1>2, <1>3, <2>2, <2>3
  <2>5. ProductOf(z) = z[i] * ProductOf(u)
    BY <1>3, <2>4, TakenOut
  <2>6. ProductOf(p) <= y * ProductOf(u)
    BY <2>1, <2>4, <2>5
  <2> QED
    BY <2>1, <2>6 DEF Payable, out, u, y
<1>5. CASE a = 0
  <2>1. out = 0
    <3>1. 100 - fee \in Nat \ {0} /\ 0 \in Nat /\ a * 100 = 0 /\ 0 <= 0 * (100 - fee)
      BY <1>5
    <3>2. CeilDiv(0, 100 - fee) <= 0
      BY <3>1, RoundedUp
    <3>3. out = CeilDiv(0, 100 - fee)
      BY <3>1 DEF Gross
    <3> HIDE DEF out
    <3> QED
      BY <1>2, <3>2, <3>3
  <2> HIDE DEF out
  <2>2. /\ u \in [1..n -> Nat] /\ \A j \in 1..n : u[j] > 0
        /\ \A j \in 1..n : j # i => p[j] <= u[j]
    BY <1>1, <2>1
  <2> HIDE DEF u
  <2>3. ProductOf(p) <= p[i] * ProductOf(u)
    BY <1>1, <1>3, <2>2, FactorOut
  <2>4. ProductOf(u) \in Nat /\ ProductOf(p) \in Nat
    BY <1>1, <2>2, ProductIsPositive
  <2>5. p[i] * ProductOf(u) <= (p[i] + s - out) * ProductOf(u)
    <3>1. p[i] + s - out = p[i] + s /\ p[i] \in Nat
      BY <1>1, <2>1
    <3>2. \A x, y, z \in Nat : x * z <= (x + y) * z
      OBVIOUS
    <3> QED
      BY <2>4, <3>1, <3>2
  <2>6. ProductOf(p) <= (p[i] + s - out) * ProductOf(u)
    <3>1. p[i] * ProductOf(u) \in Int /\ (p[i] + s - out) * ProductOf(u) \in Int
      <4>1. p[i] \in Int /\ p[i] + s - out \in Int /\ ProductOf(u) \in Int
        BY <1>1, <1>2, <2>4
      <4>2. \A x, y \in Int : x * y \in Int
        OBVIOUS
      <4> QED
        BY <4>1, <4>2
    <3>2. \A x, y, z \in Int : x <= y /\ y <= z => x <= z
      OBVIOUS
    <3> QED
      BY <2>3, <2>4, <2>5, <3>1, <3>2
  <2>7. \A j \in 1..n : j # i => out < p[j]
    BY <1>1, <2>1
  <2> QED
    BY <2>6, <2>7 DEF Payable, out, u
<1> QED
  BY <1>4, <1>5

LEMMA SmallerPayable ==
  ASSUME NEW n \in Nat, NEW p \in Filled(n), NEW i \in 1..n, NEW s \in Nat,
         NEW fee \in 0..99, NEW r \in Nat, NEW a \in Nat, a <= r,
         Payable(n, p, i, s, fee, r)
  PROVE  Payable(n, p, i, s, fee, a)
<1> DEFINE more == Gross(r, fee)
           less == Gross(a, fee)
           u == [j \in 1..n |-> IF j = i THEN 1 ELSE p[j] - more]
           v == [j \in 1..n |-> IF j = i THEN 1 ELSE p[j] - less]
           P == ProductOf(p)
           U == ProductOf(u)
           V == ProductOf(v)
<1>1. p \in [1..n -> Nat] /\ DOMAIN p = 1..n /\ \A j \in 1..n : p[j] \in Nat /\ p[j] > 0
  BY DEF Filled
<1>2. more \in Nat /\ less \in Nat /\ less <= more
  <2> DEFINE b == 100 - fee
             c == CeilDiv(r * 100, b)
  <2>1. b \in Nat \ {0} /\ r * 100 \in Nat /\ a * 100 \in Nat /\ a * 100 <= r * 100
    OBVIOUS
  <2>2. more = c /\ less = CeilDiv(a * 100, b)
    BY DEF Gross
  <2>3. c \in Nat /\ b * c >= r * 100
    <3> HIDE DEF b
    <3> QED
      BY <2>1, Quotients
  <2> HIDE DEF more, less, b, c
  <2>4. a * 100 <= c * b
    BY <2>1, <2>3
  <2>5. CeilDiv(a * 100, b) <= c /\ CeilDiv(a * 100, b) \in Nat
    BY <2>1, <2>3, <2>4, RoundedUp, Quotients
  <2> QED
    BY <2>2, <2>3, <2>5
<1>3. /\ \A j \in 1..n : j # i => more < p[j]
      /\ P <= (p[i] + s - more) * U
  BY DEF Payable
<1> HIDE DEF more, less
<1>4. /\ u \in [1..n -> Nat] /\ u[i] = 1 /\ \A j \in 1..n : u[j] > 0
      /\ v \in [1..n -> Nat] /\ v[i] = 1
      /\ \A j \in 1..n : j # i => u[j] <= v[j]
      /\ \A j \in 1..n : j # i => less < p[j]
  <2>1. \A j \in 1..n : j # i => /\ p[j] - more \in Nat /\ p[j] - more > 0
                                /\ p[j] - less \in Nat /\ less < p[j]
                                /\ p[j] - more <= p[j] - less
    BY <1>1, <1>2, <1>3
  <2> QED
    BY <2>1
<1> HIDE DEF u, v
<1>5. U \in Nat /\ U > 0 /\ V \in Nat /\ P \in Nat /\ P > 0
  BY <1>1, <1>4, ProductIsPositive
<1>6. U <= V
  <2>1. U <= u[i] * V
    BY <1>4, FactorOut
  <2>2. u[i] * V = V
    BY <1>4, <1>5
  <2> QED
    BY <2>1, <2>2
<1> DEFINE x == p[i] + s - more
           y == p[i] + s - less
<1>7. x \in Int /\ y \in Int /\ x <= y
  BY <1>1, <1>2
<1> HIDE DEF P, U, V, x, y
<1>8. P <= x * U
  BY <1>3 DEF x
<1>9. x > 0
  <2>1. x * U > 0
    BY <1>5, <1>7, <1>8
  <2> QED
    BY <1>5, <1>7, <2>1
<1>10. P <= y * V
  <2>1. x * U <= x * V /\ x * V <= y * V
    BY <1>5, <1>6, <1>7, <1>9
  <2>2. x * U \in Int /\ x * V \in Int /\ y * V \in Int
    BY <1>5, <1>7
  <2>3. \A c, d, e, f \in Int : c <= d /\ d <= e /\ e <= f => c <= f
    OBVIOUS
  <2> QED
    BY <1>5, <1>8, <2>1, <2>2, <2>3
<1> QED
  BY <1>4, <1>10 DEF Payable, P, V, y, v, less

\* So a sale takes no more than the shares.
LEMMA SaleFits ==
  ASSUME NEW n \in Nat, NEW p \in Filled(n), NEW i \in 1..n, NEW s \in Nat,
         NEW fee \in 0..99, NEW a \in Nat, a <= SellAmount(p, i, s, fee)
  PROVE  /\ \A j \in 1..n \ {i} : Gross(a, fee) < p[j]
         /\ SharesSold(p, i, a, fee) <= s
<1> DEFINE r == SellAmount(p, i, s, fee)
<1>1. r \in Nat /\ (r = 0 \/ Covers(p, i, s, fee, r))
  BY SellAmountCovered
<1> HIDE DEF r
<1>2. a <= r
  BY DEF r
<1>3. Payable(n, p, i, s, fee, r)
  BY <1>1, SellAmountPayable
<1>4. Payable(n, p, i, s, fee, a)
  BY <1>1, <1>2, <1>3, SmallerPayable
<1> DEFINE out == Gross(a, fee)
           u == [j \in 1..n |-> IF j = i THEN 1 ELSE p[j] - out]
           c == p[i] + s - out
<1>5. p \in [1..n -> Nat] /\ DOMAIN p = 1..n /\ \A j \in 1..n : p[j] \in Nat /\ p[j] > 0
  BY DEF Filled
<1>6. out \in Nat
  BY Fees
<1>7. /\ \A j \in 1..n : j # i => out < p[j]
      /\ ProductOf(p) <= c * ProductOf(u)
  BY <1>4 DEF Payable
<1> HIDE DEF out
<1>8. u \in [1..n -> Nat] /\ \A j \in 1..n : u[j] > 0
  BY <1>5, <1>6, <1>7
<1>9. Others(Shift(p, i, -out, 0), i) = u
  <2>1. Shift(p, i, -out, 0) = [j \in 1..n |-> IF j = i THEN 0 ELSE p[j] + (-out)]
    BY <1>5, Zenon DEF Shift
  <2>2. \A j \in 1..n : p[j] + (-out) = p[j] - out
    BY <1>5, <1>6
  <2> QED
    BY <2>1, <2>2 DEF Others
<1> HIDE DEF u
<1>10. EndingBalance(p, i, -out) = CeilDiv(ProductOf(p), ProductOf(u))
  BY <1>9, Zenon DEF EndingBalance
<1>11. /\ ProductOf(u) \in Nat \ {0} /\ ProductOf(p) \in Nat /\ ProductOf(p) > 0
       /\ c \in Int
  <2>1. /\ ProductOf(u) \in Nat /\ ProductOf(u) > 0
        /\ ProductOf(p) \in Nat /\ ProductOf(p) > 0
    BY <1>5, <1>8, ProductIsPositive
  <2> QED
    BY <1>5, <1>6, <2>1
<1> HIDE DEF c
<1>12. c > 0
  BY <1>7, <1>11
<1>13. CeilDiv(ProductOf(p), ProductOf(u)) <= c
  BY <1>7, <1>11, <1>12, RoundedUp
<1>14. CeilDiv(ProductOf(p), ProductOf(u)) \in Nat
  BY <1>11, Quotients
<1>15. SharesSold(p, i, a, fee) = out + CeilDiv(ProductOf(p), ProductOf(u)) - p[i]
  BY <1>10, Zenon DEF SharesSold, out
<1>16. SharesSold(p, i, a, fee) <= s
  BY <1>5, <1>6, <1>13, <1>14, <1>15 DEF c
<1> QED
  BY <1>7, <1>16 DEF out

-----------------------------------------------------------------------------
\* The sizes of Kelly bets are within the limit.
LEMMA WholeQuotient ==
  ASSUME NEW a \in Int, NEW b \in Nat \ {0}
  PROVE  a \div b \in Int
OBVIOUS

LEMMA NaturalQuotient ==
  ASSUME NEW a \in Nat, NEW b \in Nat \ {0}
  PROVE  a \div b \in Nat
OBVIOUS

LEMMA DistanceIsNatural ==
  ASSUME NEW a \in Int, NEW b \in Int
  PROVE  Distance(a, b) \in Nat
BY DEF Distance, Greater

LEMMA MinusZero ==
  -0 = 0
<1>1. \A a \in Int : -a \in Int /\ (-a) + a = 0
  OBVIOUS
<1>2. \A a \in Int : a + 0 = 0 => a = 0
  OBVIOUS
<1>3. 0 \in Int
  OBVIOUS
<1>4. -0 \in Int /\ (-0) + 0 = 0
  BY <1>1, <1>3, Zenon
<1> QED
  BY <1>2, <1>4, Zenon

LEMMA KellySimpleFits ==
  ASSUME NEW price \in 0..999, NEW est \in 0..10, NEW conf \in 0..10, NEW max \in Nat
  PROVE  KellySimple(price, est, conf, max).size \in 0..max
<1> DEFINE forIt == 100 * est > price
           cost == IF forIt THEN price ELSE 1000 - Greater(1, price)
           chance == IF forIt THEN est ELSE 10 - est
           edge == (Distance(100 * chance, cost) * conf) \div 10
           fraction == (edge * cost) \div (1000 - cost)
<1>1. cost \in 0..999 /\ chance \in 0..10
  BY DEF Greater
<1>2. KellySimple(price, est, conf, max).size = Lesser((fraction * max) \div 1000, max)
  BY DEF KellySimple
<1> HIDE DEF cost, chance, forIt
<1>3. Distance(100 * chance, cost) \in Nat
  <2>1. 100 * chance \in Int /\ cost \in Int
    BY <1>1
  <2> QED
    BY <2>1, DistanceIsNatural
<1>4. edge \in Nat
  <2>1. Distance(100 * chance, cost) * conf \in Nat
    BY <1>3
  <2> QED
    BY <2>1, NaturalQuotient
<1> HIDE DEF edge
<1>5. fraction \in Nat
  <2>1. edge * cost \in Nat /\ 1000 - cost \in Nat \ {0}
    <3>1. \A a, b \in Nat : a * b \in Nat
      OBVIOUS
    <3>2. cost \in Nat /\ 1000 - cost \in Nat \ {0}
      BY <1>1
    <3>3. edge * cost \in Nat
      BY <1>4, <3>1, <3>2
    <3> QED
      BY <3>2, <3>3
  <2> QED
    BY <2>1, NaturalQuotient
<1> HIDE DEF fraction
<1>6. (fraction * max) \div 1000 \in Nat
  <2>1. fraction * max \in Nat
    BY <1>5
  <2> QED
    BY <2>1, NaturalQuotient
<1> QED
  BY <1>2, <1>6 DEF Lesser

LEMMA KellyFullFits ==
  ASSUME NEW x \in Nat \ {0}, NEW y \in Nat \ {0}, NEW est \in 0..10, NEW conf \in 0..10,
         NEW max \in Nat, NEW fee \in 0..99
  PROVE  KellyFull(x, y, est, conf, max, fee).size \in 0..max
<1> DEFINE certain == est * conf
           kept == 100 - fee
           A == ((((x * x - y * y) * 100) \div x) * kept) \div (40 * y)
           share == ((kept * max * (200 * y - certain * (x + y))) \div 1000) \div x
           B == 1000 * x + (share * ((1000 * (x + y)) \div (4 * y))) \div 10
           C == 10 * max * (100 * y - certain * (x + y))
           g(s) == A * s * s + B * s + C
           before(n) == IF C < 0 THEN g(n) <= 0 ELSE g(-n) >= 0
           beyond == {n \in 0..max : ~before(n)}
<1>1. KellyFull(x, y, est, conf, max, fee).size =
          IF beyond = {} THEN max
          ELSE (CHOOSE n \in beyond : \A m \in beyond : n <= m) - 1
  BY DEF KellyFull
<1>2. \A a, b \in Int : a * b \in Int /\ a + b \in Int /\ a - b \in Int
  OBVIOUS
<1>3. certain \in Int /\ kept \in Int /\ 40 * y \in Nat \ {0} /\ 4 * y \in Nat \ {0}
  BY <1>2
<1> HIDE DEF certain, kept
<1>4. A \in Int
  <2>1. (x * x - y * y) * 100 \in Int
    BY <1>2
  <2>2. ((x * x - y * y) * 100) \div x \in Int
    BY <2>1, WholeQuotient
  <2>3. (((x * x - y * y) * 100) \div x) * kept \in Int
    BY <1>2, <1>3, <2>2
  <2> QED
    BY <1>3, <2>3, WholeQuotient
<1>5. share \in Int
  <2>1. certain * (x + y) \in Int
    BY <1>2, <1>3
  <2>2. 200 * y - certain * (x + y) \in Int
    BY <1>2, <2>1
  <2>3. kept * max \in Int
    BY <1>2, <1>3
  <2>4. kept * max * (200 * y - certain * (x + y)) \in Int
    BY <1>2, <2>2, <2>3
  <2>5. (kept * max * (200 * y - certain * (x + y))) \div 1000 \in Int
    BY <2>4, WholeQuotient
  <2> QED
    BY <2>5, WholeQuotient
<1> HIDE DEF share
<1>6. B \in Int
  <2>1. 1000 * (x + y) \in Int
    BY <1>2
  <2>2. (1000 * (x + y)) \div (4 * y) \in Int
    BY <1>3, <2>1, WholeQuotient
  <2>3. share * ((1000 * (x + y)) \div (4 * y)) \in Int
    BY <1>2, <1>5, <2>2
  <2>4. (share * ((1000 * (x + y)) \div (4 * y))) \div 10 \in Int
    BY <2>3, WholeQuotient
  <2> QED
    BY <1>2, <2>4
<1>7. C \in Int
  <2>1. certain * (x + y) \in Int
    BY <1>2, <1>3
  <2>2. 100 * y - certain * (x + y) \in Int
    BY <1>2, <2>1
  <2> QED
    BY <1>2, <2>2
<1> HIDE DEF A, B, C
<1>8. before(0)
  <2>1. A * 0 * 0 = 0 /\ B * 0 = 0 /\ -0 = 0
    <3>1. A * 0 = 0 /\ B * 0 = 0 /\ 0 * 0 = 0
      BY <1>4, <1>6
    <3>2. A * 0 * 0 = 0
      BY <3>1, Zenon
    <3> QED
      BY <3>1, <3>2, MinusZero, Zenon
  <2>2. g(0) = C
    BY <1>7, <2>1
  <2> HIDE DEF g
  <2> QED
    BY <1>7, <2>1, <2>2
<1>9. 0 \notin beyond /\ beyond \subseteq 0..max
  BY <1>8
<1> HIDE DEF beyond
<1>10. CASE beyond = {}
  BY <1>1, <1>10
<1>11. CASE beyond # {}
  <2> DEFINE k == CHOOSE n \in beyond : \A m \in beyond : n <= m
  <2>1. \E n \in beyond : \A m \in beyond : n <= m
    <3>1. beyond \subseteq Nat
      BY <1>9
    <3> QED
      BY <1>11, <3>1, LeastNatural
  <2>2. k \in beyond
    BY <2>1
  <2>3. KellyFull(x, y, est, conf, max, fee).size = k - 1
    BY <1>1, <1>11
  <2> HIDE DEF k
  <2>4. k \in 1..max
    BY <1>9, <2>2
  <2> QED
    BY <2>3, <2>4
<1> QED
  BY <1>10, <1>11

LEMMA KellyFractionFits ==
  ASSUME NEW price \in Nat, price < 1000, NEW est \in 0..10, NEW conf \in 0..10,
         NEW fee \in 0..99
  PROVE  KellyFraction(price, est, conf, fee, FALSE) \in Int
<1> DEFINE edge == ((100 * est - price) * conf) \div 10
           size == (((Distance(edge, 0) * price) \div (1000 - price))
                        * (100 - fee)) \div 100
<1>1. KellyFraction(price, est, conf, fee, FALSE) = IF edge >= 0 THEN size ELSE 0
  BY DEF KellyFraction
<1>2. edge \in Int
  <2>1. (100 * est - price) * conf \in Int
    BY <1>1
  <2> QED
    BY <2>1, WholeQuotient
<1>3. Distance(edge, 0) \in Nat
  <2> HIDE DEF edge
  <2> QED
    BY <1>2 DEF Distance, Greater
<1>4. (Distance(edge, 0) * price) \div (1000 - price) \in Int
  <2>1. Distance(edge, 0) * price \in Int /\ 1000 - price \in Nat \ {0}
    BY <1>1, <1>3
  <2> QED
    BY <2>1, WholeQuotient
<1>5. size \in Int
  <2>1. ((Distance(edge, 0) * price) \div (1000 - price)) * (100 - fee) \in Int
    BY <1>4
  <2> QED
    BY <2>1, WholeQuotient
<1> HIDE DEF edge, size
<1>6. 0 \in Int
  OBVIOUS
<1> QED
  BY <1>1, <1>5, <1>6, Zenon

LEMMA KellySimplifiedFits ==
  ASSUME NEW n \in Nat, NEW prices \in [1..n -> Nat], NEW est,
         \A j \in 1..n : prices[j] < 1000,
         \A j \in 1..n : est[j] \in 0..10,
         NEW conf \in 0..10, NEW max \in Nat, NEW fee \in 0..99
  PROVE  LET bets == KellySimplified(prices, est, conf, max, fee, FALSE, FALSE)
         IN  bets \in [1..n -> Int] /\ \A j \in 1..n : bets[j] <= max
<1> DEFINE frac(j) == KellyFraction(prices[j], est[j], conf, fee, FALSE)
           clip(b) == Greater(-max, Lesser(b, max))
           bets == KellySimplified(prices, est, conf, max, fee, FALSE, FALSE)
<1>1. ASSUME NEW j \in 1..n PROVE frac(j) \in Int
  <2>1. prices[j] \in Nat /\ prices[j] < 1000 /\ est[j] \in 0..10
    OBVIOUS
  <2>2. PICK a, b : a = prices[j] /\ b = est[j]
    OBVIOUS
  <2>3. a \in Nat /\ a < 1000 /\ b \in 0..10
    BY <2>1, <2>2, Zenon
  <2>4. KellyFraction(a, b, conf, fee, FALSE) \in Int
    BY <2>3, KellyFractionFits
  <2> QED
    BY <2>2, <2>4, Zenon
<1>2. ASSUME NEW b \in Int PROVE clip(b) \in Int /\ clip(b) <= max
  BY DEF Greater, Lesser
<1>3. PICK best : bets = [j \in 1..n |->
                              IF j = best THEN clip((frac(j) * max) \div 1000) ELSE 0]
  <2> DEFINE F == [j \in DOMAIN prices |-> frac(j)]
             s(j) == Distance(F[j], 0)
             b == CHOOSE j \in DOMAIN prices :
                      /\ \A k \in DOMAIN prices : s(k) <= s(j)
                      /\ \A k \in 1..(j - 1) : s(k) < s(j)
  <2>1. bets = [j \in DOMAIN prices |-> IF j = b THEN clip((F[j] * max) \div 1000) ELSE 0]
    BY DEF KellySimplified
  <2>2. \A j \in 1..n : F[j] = frac(j)
    OBVIOUS
  <2> HIDE DEF F, b, bets, clip, frac
  <2>3. bets = [j \in 1..n |-> IF j = b THEN clip((frac(j) * max) \div 1000) ELSE 0]
    BY <2>1, <2>2
  <2> QED
    BY <2>3
<1> HIDE DEF bets
<1>4. ASSUME NEW j \in 1..n PROVE bets[j] \in Int /\ bets[j] <= max
  <2>1. (frac(j) * max) \div 1000 \in Int
    <3> HIDE DEF frac
    <3>1. frac(j) * max \in Int
      BY <1>1
    <3> QED
      BY <3>1, WholeQuotient
  <2>2. clip((frac(j) * max) \div 1000) \in Int /\ clip((frac(j) * max) \div 1000) <= max
    <3> HIDE DEF frac, clip
    <3> QED
      BY <1>2, <2>1
  <2> HIDE DEF frac, clip
  <2> QED
    BY <1>3, <2>2
<1>5. bets \in [1..n -> Int]
  <2> HIDE DEF frac, clip
  <2>1. bets = [j \in 1..n |-> bets[j]]
    BY <1>3
  <2> QED
    BY <1>4, <2>1
<1> QED
  BY <1>4, <1>5 DEF bets

\* The bet with the wanted impact is among those up to the limit.
LEMMA BetForImpactFits ==
  ASSUME NEW p, NEW i, NEW impact, NEW limit \in Nat \ {0}, NEW fee
  PROVE  BetForImpact(p, i, impact, limit, fee) \in 0..limit
<1> DEFINE Low(b) == PriceImpact(p, i, b, fee) <= impact
           Search(f) == f = [x \in (0..limit) \X (0..limit) |->
               IF x[2] - x[1] <= 1 THEN x[1]
               ELSE f[IF Low((x[1] + x[2]) \div 2)
                      THEN <<(x[1] + x[2]) \div 2, x[2]>>
                      ELSE <<x[1], (x[1] + x[2]) \div 2>>]]
           C == {b \in 0..limit : Low(b)}
           off(b) == Distance(PriceImpact(p, i, b, fee), impact)
<1>1. ASSUME NEW f PROVE Search(f) <=> f = [x \in Ranges(limit) |-> Halves(C, f, x)]
  <2> HIDE DEF Low
  <2>1. ASSUME NEW x \in Ranges(limit)
        PROVE  Halves(C, f, x) =
               IF x[2] - x[1] <= 1 THEN x[1]
               ELSE f[IF Low((x[1] + x[2]) \div 2)
                      THEN <<(x[1] + x[2]) \div 2, x[2]>>
                      ELSE <<x[1], (x[1] + x[2]) \div 2>>]
    <3>1. CASE x[2] - x[1] <= 1
      BY <3>1 DEF Halves
    <3>2. CASE ~(x[2] - x[1] <= 1)
      <4>1. Middle(x) \in 0..limit
        BY <3>2 DEF Ranges, Middle
      <4>2. Middle(x) \in C <=> Low(Middle(x))
        BY <4>1
      <4> HIDE DEF C
      <4> QED
        BY <3>2, <4>2, Zenon DEF Halves, Half, Middle
    <3> QED
      BY <3>1, <3>2
  <2> HIDE DEF C
  <2> QED
    BY <2>1 DEF Ranges
<1>2. \E f : Search(f)
  <2> HIDE DEF C, Search
  <2>1. \E f : f = [x \in Ranges(limit) |-> Halves(C, f, x)]
    BY BisectionExists
  <2> QED
    BY <1>1, <2>1, Zenon
<1> DEFINE f == CHOOSE g : Search(g)
           low == f[<<1, limit>>]
           high == Lesser(low + 1, limit)
<1>3. Search(f)
  <2> HIDE DEF Search
  <2> QED
    BY <1>2
<1>4. BetForImpact(p, i, impact, limit, fee) = IF off(high) < off(low) THEN high ELSE low
  BY Zenon DEF BetForImpact
<1> HIDE DEF f, off
<1>5. f = [x \in Ranges(limit) |-> Halves(C, f, x)]
  <2> HIDE DEF C, Search
  <2> QED
    BY <1>1, <1>3, Zenon
<1>6. <<1, limit>> \in Ranges(limit)
  BY DEF Ranges
<1>7. low \in 0..limit
  <2> HIDE DEF C, Search
  <2>1. \A x \in Ranges(limit) : f[x] \in 0..limit
    BY <1>5, BisectionStays
  <2> QED
    BY <1>6, <2>1
<1> HIDE DEF low
<1>8. high \in 0..limit
  BY <1>7 DEF Lesser
<1> HIDE DEF high
<1> QED
  BY <1>4, <1>7, <1>8

-----------------------------------------------------------------------------
\* The search for a profitable bet stays within what is wanted.
LEMMA CapFits ==
  ASSUME NEW i, NEW wanted \in Nat
  PROVE  CapToProfitable(i, wanted) \in 0..wanted
<1> DEFINE W == 0..wanted
           V == [lower : W, upper : W, best : W]
           b == [lower |-> 0, upper |-> Lesser(wanted, Liquidity), best |-> 0]
           Right(g) == g = [n \in 0..Iterations |->
                                IF n = 0 THEN b ELSE Narrowed(i, g[n - 1])]
<1>0. Iterations \in Nat
  BY DEF Iterations
<1>1. b \in V
  <2>1. Lesser(wanted, Liquidity) \in 0..wanted
    <3>1. Liquidity \in Nat
      BY StrategyAssumption, Zenon
    <3> QED
      BY <3>1 DEF Lesser
  <2>2. 0 \in W /\ Lesser(wanted, Liquidity) \in W
    BY <2>1
  <2> HIDE DEF W
  <2> QED
    BY <2>2
<1>2. ASSUME NEW s \in V PROVE Narrowed(i, s) \in V
  <2> DEFINE mid == (s.lower + s.upper) \div 2
  <2>1. s.lower \in W /\ s.upper \in W /\ s.best \in W
    OBVIOUS
  <2>2. CASE s.upper - s.lower <= 1
    BY <2>2 DEF Narrowed
  <2>3. CASE ~(s.upper - s.lower <= 1)
    <3>1. mid \in W
      BY <2>1, <2>3
    <3> HIDE DEF mid, W
    <3>2. [s EXCEPT !.lower = mid, !.best = mid] \in V
      BY <3>1
    <3>3. [s EXCEPT !.upper = mid] \in V
      BY <3>1
    <3> QED
      BY <2>3, <3>2, <3>3, Zenon DEF Narrowed, mid
  <2> QED
    BY <2>2, <2>3
<1> HIDE DEF V, b
<1>3. \E g : Right(g)
  <2> DEFINE F == [k \in 1..Iterations |-> [s \in V |-> Narrowed(i, s)]]
  <2>1. F \in [1..Iterations -> [V -> V]]
    BY <1>2
  <2> HIDE DEF F
  <2>2. PICK f : Iterates(f, Iterations, V, b, F)
    BY <1>0, <1>1, <2>1, Iterated, Zenon
  <2>3. ASSUME NEW n \in 0..Iterations
        PROVE  f[n] = IF n = 0 THEN b ELSE Narrowed(i, f[n - 1])
    <3>1. CASE n = 0
      BY <2>2, <3>1 DEF Iterates
    <3>2. CASE n # 0
      <4>1. n \in 1..Iterations /\ n - 1 \in 0..Iterations
        BY <1>0, <3>2
      <4>2. f[n] = F[n][f[n - 1]] /\ f[n - 1] \in V
        BY <2>2, <4>1, Zenon DEF Iterates
      <4>3. F[n][f[n - 1]] = Narrowed(i, f[n - 1])
        BY <4>1, <4>2, Zenon DEF F
      <4> QED
        BY <3>2, <4>2, <4>3, Zenon
    <3> QED
      BY <3>1, <3>2
  <2>4. f = [n \in 0..Iterations |-> f[n]]
    BY <2>2, Zenon DEF Iterates
  <2>5. Right(f)
    BY <2>3, <2>4
  <2> HIDE DEF Right
  <2> QED
    BY <2>5
<1> DEFINE g == CHOOSE h : Right(h)
<1>4. Right(g)
  <2> HIDE DEF Right
  <2> QED
    BY <1>3
<1>5. CapToProfitable(i, wanted) = IF Profitable(i, wanted) THEN wanted
                                   ELSE g[Iterations].best
  BY Zenon DEF CapToProfitable, b
<1> HIDE DEF g
<1>6. \A n \in 0..Iterations : g[n] = IF n = 0 THEN b ELSE Narrowed(i, g[n - 1])
  BY <1>4, Zenon
<1> HIDE DEF Right
<1> DEFINE G == {n \in 0..Iterations : g[n] \in V}
<1>7. 0 \in G
  BY <1>0, <1>1, <1>6
<1>8. ASSUME NEW k \in 1..Iterations, k - 1 \in G PROVE k \in G
  <2>1. k \in 0..Iterations /\ k # 0
    BY <1>0
  <2>2. g[k] = Narrowed(i, g[k - 1])
    BY <1>6, <2>1, Zenon
  <2> QED
    BY <1>2, <1>8, <2>1, <2>2
<1>9. g[Iterations] \in V
  <2>1. \A k \in 0..Iterations : k \in G
    <3> HIDE DEF G
    <3> QED
      BY <1>0, <1>7, <1>8, UpTo
  <2> QED
    BY <1>0, <2>1
<1>10. g[Iterations].best \in 0..wanted
  BY <1>9 DEF V
<1> QED
  BY <1>5, <1>10

LEMMA DampedFits ==
  ASSUME NEW i, NEW size \in Nat
  PROVE  Damped(i, size) \in 0..size
<1>1. CASE strategy.impact = 0 \/ size = 0
  BY <1>1 DEF Damped
<1>2. CASE ~(strategy.impact = 0 \/ size = 0)
  <2> DEFINE b == BetForImpact(balances, i, strategy.impact, size, MarketFee)
  <2>1. b \in 0..size
    BY <1>2, BetForImpactFits
  <2>2. Damped(i, size) = Lesser(size, b)
    BY <1>2 DEF Damped
  <2> HIDE DEF b
  <2> QED
    BY <2>1, <2>2 DEF Lesser
<1> QED
  BY <1>1, <1>2

-----------------------------------------------------------------------------
\* What the strategies choose from is there.
LEMMA FirstOf ==
  ASSUME NEW S, S \subseteq Nat, S # {}
  PROVE  First(S) \in S
<1>1. \E x \in S : \A y \in S : x <= y
  BY LeastNatural
<1> QED
  BY <1>1 DEF First

LEMMA Greatest ==
  ASSUME NEW S, S # {}, NEW v, NEW max \in Nat, \A j \in S : v[j] \in Int /\ v[j] <= max
  PROVE  \E j \in S : \A k \in S : v[k] <= v[j]
<1> DEFINE T == {max - v[j] : j \in S}
<1>1. T \subseteq Nat /\ T # {}
  OBVIOUS
<1>2. PICK x \in T : \A y \in T : x <= y
  <2> HIDE DEF T
  <2> QED
    BY <1>1, LeastNatural
<1>3. PICK j \in S : x = max - v[j]
  OBVIOUS
<1>4. ASSUME NEW k \in S PROVE v[k] <= v[j]
  <2>1. max - v[j] <= max - v[k]
    BY <1>2, <1>3
  <2> QED
    BY <2>1
<1> QED
  BY <1>4

MarketOK ==
    /\ Len(balances) \in Nat /\ Len(balances) >= 2
    /\ balances \in Filled(Len(balances))
    /\ strategy \in [kind : StrategyKinds, max : Nat, impact : Nat,
                      takeProfit : BOOLEAN]

LEMMA OutcomesAre ==
  ASSUME MarketOK
  PROVE  /\ Indexes = 1..Len(balances)
         /\ \A i \in Indexes : balances[i] \in Nat \ {0}
BY DEF MarketOK, Indexes, Filled

LEMMA StrategyIs ==
  ASSUME MarketOK
  PROVE  strategy.max \in Nat /\ MarketFee \in 0..99 /\ strategy.kind \in StrategyKinds
BY StrategyAssumption DEF MarketOK

LEMMA AnswerIs ==
  ASSUME MarketOK, NEW a \in Predictions, Len(a.p) = Len(balances)
  PROVE  /\ a.confidence \in 0..10 /\ DOMAIN a.p = Indexes
         /\ \A j \in Indexes : a.p[j] \in 0..10
<1>1. a.p \in Seq(0..10) /\ a.confidence \in 0..10
  BY StrategyAssumption
<1>2. DOMAIN a.p = 1..Len(a.p) /\ \A j \in 1..Len(a.p) : a.p[j] \in 0..10
  BY <1>1, LenProperties, ElementOfSeq
<1> QED
  BY <1>1, <1>2, OutcomesAre, Zenon

LEMMA MostLikelyIs ==
  ASSUME MarketOK, NEW a \in Predictions, Len(a.p) = Len(balances)
  PROVE  MostLikely(a) \in Indexes
<1>1. Indexes \subseteq Nat /\ 1 \in Indexes
  BY OutcomesAre DEF MarketOK
<1>2. DOMAIN a.p = Indexes /\ \A j \in Indexes : a.p[j] \in Int /\ a.p[j] <= 10
  <2>1. \A x \in 0..10 : x \in Int /\ x <= 10
    OBVIOUS
  <2> QED
    BY <2>1, AnswerIs, Zenon
<1> DEFINE S == {i \in Indexes : \A j \in Indexes : a.p[j] <= a.p[i]}
<1>3. S # {}
  <2>1. PICK p : p = a.p
    OBVIOUS
  <2>2. PICK I : I = Indexes
    OBVIOUS
  <2>3. 10 \in Nat /\ I # {} /\ \A j \in I : p[j] \in Int /\ p[j] <= 10
    BY <1>1, <1>2, <2>1, <2>2, Zenon
  <2>4. \E j \in I : \A k \in I : p[k] <= p[j]
    BY <2>3, Greatest
  <2> QED
    BY <2>1, <2>2, <2>4, Zenon
<1>4. MostLikely(a) = First(S)
  BY <1>2, Zenon DEF MostLikely
<1>5. First(S) \in S
  <2>1. S \subseteq Nat
    BY <1>1
  <2> HIDE DEF S
  <2> QED
    BY <1>3, <2>1, FirstOf
<1> QED
  BY <1>4, <1>5

LEMMA OtherDirectionIs ==
  ASSUME MarketOK, NEW i \in Indexes
  PROVE  OtherDirection(i) \in Indexes
<1>1. 1 \in Indexes /\ 2 \in Indexes /\ Indexes \subseteq Nat
  BY OutcomesAre DEF MarketOK
<1>2. Indexes \ {i} # {} /\ Indexes \ {i} \subseteq Nat
  BY <1>1
<1>3. First(Indexes \ {i}) \in Indexes \ {i}
  BY <1>2, FirstOf
<1> QED
  BY <1>3 DEF OtherDirection

-----------------------------------------------------------------------------
\* No strategy aims at more than its maximum.
HoldingsOK == position \in [Indexes -> Nat] /\ existing \in [Indexes -> Nat]

Answered(a) == a \in Predictions /\ Len(a.p) = Len(balances)

Fits(t) == t.outcome \in Indexes => t.amount \in 0..strategy.max

BetsFit(b) ==
    /\ DOMAIN b = Indexes
    /\ \A j \in Indexes : b[j] \in Int /\ b[j] <= strategy.max

LEMMA KellyBetFits ==
  ASSUME MarketOK, NEW a, Answered(a), NEW i \in Indexes, NEW est \in 0..10,
         NEW full \in BOOLEAN
  PROVE  KellyBet(full, i, est, a).size \in 0..strategy.max
<1>1. /\ strategy.max \in Nat /\ MarketFee \in 0..99 /\ a.confidence \in 0..10
      /\ balances[i] \in Nat \ {0} /\ balances[OtherDirection(i)] \in Nat \ {0}
      /\ Price(balances, i) \in 0..999
  <2>1. strategy.max \in Nat /\ MarketFee \in 0..99
    BY StrategyIs
  <2>2. a.confidence \in 0..10
    BY AnswerIs DEF Answered
  <2>3. balances[i] \in Nat \ {0} /\ balances[OtherDirection(i)] \in Nat \ {0}
    BY OutcomesAre, OtherDirectionIs
  <2>4. Price(balances, i) \in 0..999
    <3>1. PICK n : n = Len(balances)
      OBVIOUS
    <3>2. n \in Nat /\ n >= 2 /\ balances \in Filled(n) /\ i \in 1..n
      BY <3>1, OutcomesAre DEF MarketOK
    <3> QED
      BY <3>2, PriceBelowOne
  <2> QED
    BY <2>1, <2>2, <2>3, <2>4
<1>2. CASE full
  <2> DEFINE x == balances[i]
             y == balances[OtherDirection(i)]
             c == a.confidence
             m == strategy.max
  <2>1. KellyBet(full, i, est, a) = KellyFull(x, y, est, c, m, MarketFee)
    BY <1>2, Zenon DEF KellyBet
  <2>2. /\ x \in Nat \ {0} /\ y \in Nat \ {0} /\ c \in 0..10 /\ m \in Nat
        /\ MarketFee \in 0..99
    BY <1>1
  <2> HIDE DEF x, y, c, m
  <2>3. KellyFull(x, y, est, c, m, MarketFee).size \in 0..m
    BY <2>2, KellyFullFits
  <2> QED
    BY <2>1, <2>3, Zenon DEF m
<1>3. CASE ~full
  <2> DEFINE x == Price(balances, i)
             c == a.confidence
             m == strategy.max
  <2>1. KellyBet(full, i, est, a) = KellySimple(x, est, c, m)
    BY <1>3, Zenon DEF KellyBet
  <2>2. x \in 0..999 /\ c \in 0..10 /\ m \in Nat
    BY <1>1
  <2> HIDE DEF x, c, m
  <2>3. KellySimple(x, est, c, m).size \in 0..m
    BY <2>2, KellySimpleFits
  <2> QED
    BY <2>1, <2>3, Zenon DEF m
<1> QED
  BY <1>2, <1>3

LEMMA KellyTargetFits ==
  ASSUME MarketOK, NEW a, Answered(a), NEW full \in BOOLEAN
  PROVE  Fits(KellyTarget(full, a))
<1> DEFINE i == MostLikely(a)
           bet == KellyBet(full, i, a.p[i], a)
           size == Damped(i, bet.size)
           on == IF bet.forIt THEN i ELSE OtherDirection(i)
           amount == IF size > 0 THEN CapToProfitable(on, size) ELSE 0
<1>1. i \in Indexes /\ a.p[i] \in 0..10
  BY MostLikelyIs, AnswerIs DEF Answered
<1>2. KellyTarget(full, a) = Target(on, amount)
  BY Zenon DEF KellyTarget
<1> HIDE DEF i
<1>3. bet.size \in 0..strategy.max
  <2>1. PICK e : e = a.p[i]
    OBVIOUS
  <2>2. KellyBet(full, i, e, a).size \in 0..strategy.max
    BY <1>1, <2>1, KellyBetFits
  <2> QED
    BY <2>1, <2>2, Zenon
<1>4. strategy.max \in Nat
  BY StrategyIs
<1> HIDE DEF bet, on
<1>5. size \in 0..strategy.max
  <2>1. bet.size \in Nat
    BY <1>3, <1>4
  <2>2. size \in 0..bet.size
    BY <2>1, DampedFits
  <2> HIDE DEF size
  <2> QED
    BY <1>3, <1>4, <2>2
<1> HIDE DEF size
<1>6. amount \in 0..strategy.max
  <2>1. CASE size > 0
    <3>1. CapToProfitable(on, size) \in 0..size
      BY <1>4, <1>5, CapFits
    <3> QED
      BY <1>4, <1>5, <2>1, <3>1
  <2>2. CASE ~(size > 0)
    BY <1>4, <2>2
  <2> QED
    BY <2>1, <2>2
<1> HIDE DEF amount
<1> QED
  BY <1>2, <1>6 DEF Fits, Target

LEMMA ScaledTargetFits ==
  ASSUME MarketOK, NEW a, Answered(a)
  PROVE  Fits(ScaledTarget(a))
<1> DEFINE i == MostLikely(a)
<1>1. i \in Indexes
  BY MostLikelyIs DEF Answered
<1>2. KellyBet(TRUE, i, 10, a).size \in 0..strategy.max
  <2> HIDE DEF i
  <2>1. 10 \in 0..10 /\ TRUE \in BOOLEAN
    OBVIOUS
  <2> QED
    BY <1>1, <2>1, KellyBetFits, Zenon
<1> QED
  BY <1>2 DEF ScaledTarget, Fits, Target

LEMMA LargestBetFits ==
  ASSUME MarketOK, NEW b, BetsFit(b)
  PROVE  \A t \in LargestBet(b) : Fits(t)
<1> DEFINE positive == {i \in DOMAIN b : b[i] > 0}
           best == {j \in positive : \A k \in positive : b[k] <= b[j]}
           i == First(best)
<1>1. LargestBet(b) = IF positive = {} THEN {} ELSE {Target(i, Damped(i, b[i]))}
  BY Zenon DEF LargestBet
<1>2. CASE positive = {}
  BY <1>1, <1>2
<1>3. CASE positive # {}
  <2>1. positive \subseteq Indexes /\ Indexes \subseteq Nat /\ strategy.max \in Nat
    <3>1. Indexes \subseteq Nat
      BY OutcomesAre DEF MarketOK
    <3> QED
      BY <3>1, StrategyIs DEF BetsFit
  <2>2. \A j \in positive : b[j] \in Int /\ b[j] > 0 /\ b[j] <= strategy.max
    BY DEF BetsFit
  <2> HIDE DEF positive
  <2>3. \E j \in positive : \A k \in positive : b[k] <= b[j]
    <3>1. PICK m : m = strategy.max
      OBVIOUS
    <3>2. m \in Nat /\ \A j \in positive : b[j] \in Int /\ b[j] <= m
      BY <2>1, <2>2, <3>1
    <3> QED
      BY <1>3, <3>2, Greatest
  <2>4. best \subseteq Nat /\ best # {}
    BY <2>1, <2>3
  <2>5. i \in best
    <3> HIDE DEF best
    <3> QED
      BY <2>4, FirstOf
  <2> HIDE DEF i
  <2>6. b[i] \in Nat /\ b[i] <= strategy.max
    <3>1. i \in positive
      BY <2>5
    <3>2. b[i] \in Int /\ b[i] > 0 /\ b[i] <= strategy.max
      BY <2>2, <3>1, Zenon
    <3> QED
      BY <3>2
  <2>7. Damped(i, b[i]) \in 0..strategy.max
    <3>1. PICK m, s : m = strategy.max /\ s = b[i]
      OBVIOUS
    <3>2. m \in Nat /\ s \in Nat /\ s <= m
      BY <2>1, <2>6, <3>1
    <3>3. Damped(i, s) \in 0..s
      BY <3>2, DampedFits
    <3>4. Damped(i, s) \in 0..m
      BY <3>2, <3>3
    <3> QED
      BY <3>1, <3>4, Zenon
  <2> QED
    BY <1>1, <1>3, <2>7 DEF Fits, Target
<1> QED
  BY <1>2, <1>3

LEMMA SimpleBetsFit ==
  ASSUME MarketOK, NEW a, Answered(a)
  PROVE  BetsFit(SimpleBets(a))
<1>1. PICK n, m, c, e : /\ n = Len(balances) /\ m = strategy.max
                        /\ c = a.confidence /\ e = a.p
  OBVIOUS
<1>2. n \in Nat /\ n >= 2 /\ balances \in Filled(n) /\ Indexes = 1..n
  BY <1>1, OutcomesAre DEF MarketOK
<1>3. m \in Nat /\ c \in 0..10 /\ MarketFee \in 0..99
  BY <1>1, StrategyIs, AnswerIs DEF Answered
<1>4. \A j \in 1..n : e[j] \in 0..10
  BY <1>1, <1>2, AnswerIs, Zenon DEF Answered
<1> DEFINE prices == [i \in 1..n |-> Price(balances, i)]
<1>5. \A i \in 1..n : Price(balances, i) \in Nat /\ Price(balances, i) < 1000
  <2>1. ASSUME NEW i \in 1..n
        PROVE  Price(balances, i) \in Nat /\ Price(balances, i) < 1000
    <3>1. n \in Nat /\ n >= 2 /\ balances \in Filled(n)
      BY <1>2
    <3>2. Price(balances, i) \in 0..999
      BY <3>1, PriceBelowOne
    <3> QED
      BY <3>2
  <2> QED
    BY <2>1
<1>6. prices \in [1..n -> Nat] /\ \A j \in 1..n : prices[j] < 1000
  BY <1>5
<1> DEFINE bets == KellySimplified(prices, e, c, m, MarketFee, FALSE, FALSE)
<1>7. SimpleBets(a) = bets
  BY <1>1, <1>2, Zenon DEF SimpleBets
<1> HIDE DEF prices
<1>8. bets \in [1..n -> Int] /\ \A j \in 1..n : bets[j] <= m
  BY <1>2, <1>3, <1>4, <1>6, KellySimplifiedFits
<1> HIDE DEF bets
<1>9. DOMAIN bets = 1..n /\ \A j \in 1..n : bets[j] \in Int /\ bets[j] <= m
  BY <1>8
<1> QED
  BY <1>1, <1>2, <1>7, <1>9, Zenon DEF BetsFit

LEMMA JointBetsFit ==
  ASSUME MarketOK, NEW a, Answered(a), NEW b \in JointBets(a)
  PROVE  BetsFit(b)
<1>1. strategy.max \in Nat /\ Joint \subseteq Nat
  BY StrategyIs, StrategyAssumption, Zenon
<1>2. CASE b = SimpleBets(a)
  BY <1>2, SimpleBetsFit
<1>3. CASE b = [i \in Indexes |-> 0]
  BY <1>1, <1>3 DEF BetsFit
<1>4. CASE \E j \in Indexes, s \in Joint :
             b = [i \in Indexes |-> IF i = j THEN Lesser(s, strategy.max) ELSE 0]
  <2>1. PICK j \in Indexes, s \in Joint :
             b = [i \in Indexes |-> IF i = j THEN Lesser(s, strategy.max) ELSE 0]
    BY <1>4
  <2>2. Lesser(s, strategy.max) \in Int /\ Lesser(s, strategy.max) <= strategy.max
    BY <1>1 DEF Lesser
  <2>3. ASSUME NEW k \in Indexes PROVE b[k] \in Int /\ b[k] <= strategy.max
    <3>1. b[k] = IF k = j THEN Lesser(s, strategy.max) ELSE 0
      BY <2>1, Zenon
    <3> QED
      BY <1>1, <2>2, <3>1
  <2> QED
    BY <2>1, <2>3, Zenon DEF BetsFit
<1>5. \/ b = SimpleBets(a) \/ b = [i \in Indexes |-> 0]
      \/ \E j \in Indexes, s \in Joint :
             b = [i \in Indexes |-> IF i = j THEN Lesser(s, strategy.max) ELSE 0]
  <2> DEFINE same == \A i \in Indexes : Distance(100 * a.p[i], Price(balances, i)) < 1
             some == {[i \in Indexes |-> IF i = j THEN Lesser(s, strategy.max) ELSE 0]
                          : j \in Indexes, s \in Joint}
  <2>1. CASE same
    BY <2>1 DEF JointBets
  <2>2. CASE ~same
    <3>1. b \in {SimpleBets(a)} \cup some
      BY <2>2 DEF JointBets
    <3>2. b = SimpleBets(a) \/ b \in some
      BY <3>1
    <3>3. b \in some => \E j \in Indexes, s \in Joint :
               b = [i \in Indexes |-> IF i = j THEN Lesser(s, strategy.max) ELSE 0]
      OBVIOUS
    <3> HIDE DEF some
    <3> QED
      BY <3>2, <3>3
  <2> HIDE DEF same, some
  <2> QED
    BY <2>1, <2>2
<1> QED
  BY <1>2, <1>3, <1>4, <1>5

LEMMA SaleValueIsNat ==
  ASSUME HoldingsOK, NEW i \in Indexes
  PROVE  SaleValue(i) \in Nat
<1>1. position[i] \in Nat
  BY DEF HoldingsOK
<1> QED
  BY <1>1, SellAmountIsNat DEF SaleValue

LEMMA CapPositionFits ==
  ASSUME HoldingsOK, NEW i \in Indexes, NEW wanted \in Nat
  PROVE  CapPosition(i, wanted) \in 0..wanted
<1>1. existing[i] \in Nat
  BY DEF HoldingsOK
<1>2. CASE wanted > existing[i]
  <2>1. PICK s : s = existing[i]
    OBVIOUS
  <2>2. wanted - s \in Nat
    BY <1>1, <1>2, <2>1
  <2>3. CapToProfitable(i, wanted - s) \in 0..(wanted - s)
    BY <2>2, CapFits
  <2>4. CapPosition(i, wanted) = s + CapToProfitable(i, wanted - s)
    BY <1>2, <2>1, Zenon DEF CapPosition
  <2> QED
    BY <1>1, <2>1, <2>2, <2>3, <2>4
<1>3. CASE ~(wanted > existing[i])
  BY <1>3 DEF CapPosition
<1> QED
  BY <1>2, <1>3

LEMMA TargetsFit ==
  ASSUME MarketOK, HoldingsOK, NEW a, Answered(a), NEW t \in Targets(a)
  PROVE  Fits(t)
<1>1. strategy.max \in Nat /\ strategy.kind \in StrategyKinds
  BY StrategyIs
<1>2. CASE strategy.kind \in {"Default", "MaxAccuracy", "MaxExpectedValue"}
  <2>1. PICK i : t = Target(i, CapPosition(i, strategy.max))
    BY <1>2 DEF Targets
  <2>2. ASSUME i \in Indexes PROVE CapPosition(i, strategy.max) \in 0..strategy.max
    BY <1>1, <2>2, CapPositionFits
  <2> QED
    BY <2>1, <2>2 DEF Fits, Target
<1>3. CASE strategy.kind = "SimpleKelly"
  <2>1. t = KellyTarget(FALSE, a)
    BY <1>3 DEF Targets
  <2> QED
    BY <2>1, KellyTargetFits
<1>4. CASE strategy.kind = "FullKelly"
  <2>1. t = KellyTarget(TRUE, a)
    BY <1>4 DEF Targets
  <2> QED
    BY <2>1, KellyTargetFits
<1>5. CASE strategy.kind = "KellyScaled"
  <2>1. t = ScaledTarget(a)
    BY <1>5 DEF Targets
  <2> QED
    BY <2>1, ScaledTargetFits
<1>6. CASE strategy.kind = "SimpleCategorical"
  <2>1. t \in LargestBet(SimpleBets(a))
    BY <1>6 DEF Targets
  <2> QED
    BY <2>1, SimpleBetsFit, LargestBetFits
<1>7. CASE strategy.kind = "FullCategorical"
  <2>1. PICK b \in JointBets(a) : t \in LargestBet(b)
    BY <1>7 DEF Targets
  <2> QED
    BY <2>1, JointBetsFit, LargestBetFits
<1> QED
  BY <1>1, <1>2, <1>3, <1>4, <1>5, <1>6, <1>7 DEF StrategyKinds

-----------------------------------------------------------------------------
\* What a list of trades costs.
Planned(n) == [type : {"buy", "sell"}, outcome : 1..n, amount : Nat]
Cost(t) == IF t.type = "buy" THEN t.amount ELSE 0
Costs(list) == [k \in DOMAIN list |-> Cost(list[k])]

LEMMA PurchasesIs ==
  ASSUME NEW n \in Nat, NEW list \in Seq(Planned(n))
  PROVE  /\ Purchases(list) = SumOf(Costs(list)) /\ Purchases(list) \in Nat
         /\ Costs(list) \in [1..Len(list) -> Nat] /\ Len(list) \in Nat
<1>1. Len(list) \in Nat /\ DOMAIN list = 1..Len(list)
  BY LenProperties
<1>2. ASSUME NEW k \in 1..Len(list) PROVE Cost(list[k]) \in Nat
  <2>1. list[k] \in Planned(n)
    BY <1>2, ElementOfSeq
  <2> QED
    BY <2>1 DEF Planned, Cost
<1>3. Costs(list) \in [1..Len(list) -> Nat]
  BY <1>1, <1>2 DEF Costs
<1>4. Purchases(list) = SumOf(Costs(list))
  BY Zenon DEF Purchases, Costs, Cost
<1>5. SumOf(Costs(list)) \in Nat
  BY <1>1, <1>3, SumIsNat
<1> QED
  BY <1>1, <1>3, <1>4, <1>5

LEMMA PurchasesAppends ==
  ASSUME NEW n \in Nat, NEW list \in Seq(Planned(n)), NEW t \in Planned(n)
  PROVE  /\ Append(list, t) \in Seq(Planned(n))
         /\ Purchases(Append(list, t)) = Cost(t) + Purchases(list)
<1> DEFINE long == Append(list, t)
           m == Len(list)
           f == Costs(long)
           g == Costs(list)
<1>1. /\ long \in Seq(Planned(n)) /\ Len(long) = m + 1
      /\ \A k \in 1..m : long[k] = list[k]
      /\ long[m + 1] = t
  BY AppendProperties
<1>2. m \in Nat /\ DOMAIN list = 1..m /\ DOMAIN long = 1..(m + 1)
  <2> HIDE DEF long
  <2> QED
    BY <1>1, LenProperties
<1>3. /\ f \in [1..(m + 1) -> Nat] /\ Purchases(long) = SumOf(f)
      /\ g \in [1..m -> Nat] /\ Purchases(list) = SumOf(g)
  <2> HIDE DEF long
  <2> QED
    BY <1>1, PurchasesIs
<1>4. \A k \in 1..m : f[k] = g[k]
  BY <1>1, <1>2 DEF Costs
<1>5. f[m + 1] = Cost(t)
  BY <1>1, <1>2 DEF Costs
<1> HIDE DEF long, m, f, g
<1>6. f \in [1..(m + 1) -> Int] /\ g \in [1..m -> Int]
  BY <1>3
<1>7. SumOf(f) = f[m + 1] + SumOf(g)
  BY <1>2, <1>4, <1>6, SumAppends
<1> QED
  BY <1>1, <1>3, <1>5, <1>7, Zenon DEF long

LEMMA SumPrepends ==
  ASSUME NEW n \in Nat, NEW f \in [1..(n + 1) -> Int], NEW g \in [1..n -> Int],
         \A k \in 1..n : g[k] = f[k + 1]
  PROVE  SumOf(f) = f[1] + SumOf(g)
<1>0. n + 1 \in Nat /\ 1 \in 1..(n + 1)
  OBVIOUS
<1>1. PICK t \in [0..(n + 1) -> Int] :
          /\ SumOf(f) = t[n + 1]
          /\ t[0] = 0 /\ \A k \in 1..(n + 1) : t[k] = f[k] + t[k - 1]
  BY <1>0, SumSteps
<1>2. PICK u \in [0..n -> Int] : /\ SumOf(g) = u[n]
                                 /\ u[0] = 0 /\ \A k \in 1..n : u[k] = g[k] + u[k - 1]
  BY SumSteps
<1> DEFINE G == {k \in 0..n : t[k + 1] = f[1] + u[k]}
<1>3. 0 \in G
  <2>1. t[1] = f[1] + t[1 - 1]
    BY <1>0, <1>1, Zenon
  <2>2. 1 - 1 = 0 /\ 0 + 1 = 1
    OBVIOUS
  <2> QED
    BY <1>1, <1>2, <2>1, <2>2
<1>4. ASSUME NEW k \in 1..n, k - 1 \in G PROVE k \in G
  <2>1. /\ k + 1 \in 1..(n + 1) /\ (k + 1) - 1 = k /\ (k - 1) + 1 = k
        /\ k \in 0..n /\ k - 1 \in 0..n
    OBVIOUS
  <2>2. t[k + 1] = f[k + 1] + t[k]
    BY <1>1, <2>1, Zenon
  <2>3. t[k] = f[1] + u[k - 1]
    BY <1>4, <2>1, Zenon
  <2>4. u[k] = f[k + 1] + u[k - 1]
    BY <1>2, Zenon
  <2>5. f[k + 1] \in Int /\ f[1] \in Int /\ u[k - 1] \in Int
    BY <1>0, <1>2, <2>1, Zenon
  <2>6. t[k + 1] = f[1] + u[k]
    BY <2>2, <2>3, <2>4, <2>5
  <2> QED
    BY <2>1, <2>6
<1>5. n \in G
  <2>1. \A k \in 0..n : k \in G
    <3> HIDE DEF G
    <3> QED
      BY <1>3, <1>4, UpTo
  <2> QED
    BY <2>1
<1> QED
  BY <1>1, <1>2, <1>5

LEMMA PurchasesTail ==
  ASSUME NEW n \in Nat, NEW list \in Seq(Planned(n)), list # <<>>
  PROVE  /\ Head(list) \in Planned(n) /\ Tail(list) \in Seq(Planned(n))
         /\ Purchases(list) = Cost(Head(list)) + Purchases(Tail(list))
<1> DEFINE rest == Tail(list)
           m == Len(rest)
           f == Costs(list)
           g == Costs(rest)
<1>1. /\ Head(list) \in Planned(n) /\ rest \in Seq(Planned(n)) /\ Head(list) = list[1]
      /\ Len(list) \in Nat /\ Len(list) # 0
      /\ Len(rest) = Len(list) - 1 /\ \A k \in 1..Len(rest) : rest[k] = list[k + 1]
  BY HeadTailProperties, LenProperties, EmptySeq
<1>2. m \in Nat /\ Len(list) = m + 1 /\ DOMAIN list = 1..(m + 1) /\ DOMAIN rest = 1..m
  <2>1. DOMAIN list = 1..Len(list)
    BY LenProperties
  <2> HIDE DEF rest
  <2>2. Len(rest) \in Nat /\ DOMAIN rest = 1..Len(rest)
    BY <1>1, LenProperties
  <2>3. Len(list) = Len(rest) + 1
    BY <1>1, <2>2
  <2> QED
    BY <2>1, <2>2, <2>3
<1>3. /\ f \in [1..(m + 1) -> Nat] /\ Purchases(list) = SumOf(f)
      /\ g \in [1..m -> Nat] /\ Purchases(rest) = SumOf(g)
  <2> HIDE DEF rest
  <2>1. f \in [1..Len(list) -> Nat] /\ Purchases(list) = SumOf(f)
    BY PurchasesIs
  <2>2. g \in [1..m -> Nat] /\ Purchases(rest) = SumOf(g)
    BY <1>1, PurchasesIs
  <2> QED
    BY <1>2, <2>1, <2>2, Zenon
<1>4. \A k \in 1..m : g[k] = f[k + 1]
  <2>1. ASSUME NEW k \in 1..m PROVE g[k] = f[k + 1]
    <3>1. k + 1 \in 1..(m + 1)
      BY <1>2
    <3>2. f[k + 1] = Cost(list[k + 1])
      BY <1>2, <3>1, Zenon DEF Costs
    <3>3. g[k] = Cost(rest[k])
      BY <1>2, Zenon DEF Costs
    <3> QED
      BY <1>1, <3>2, <3>3, Zenon
  <2> QED
    BY <2>1
<1>5. f[1] = Cost(Head(list))
  <2>1. 1 \in 1..(m + 1)
    BY <1>2
  <2>2. f[1] = Cost(list[1])
    BY <1>2, <2>1, Zenon DEF Costs
  <2> QED
    BY <1>1, <2>2, Zenon
<1> HIDE DEF rest, m, f, g
<1>6. f \in [1..(m + 1) -> Int] /\ g \in [1..m -> Int]
  BY <1>3
<1>7. SumOf(f) = f[1] + SumOf(g)
  BY <1>2, <1>4, <1>6, SumPrepends
<1> QED
  BY <1>1, <1>3, <1>5, <1>7, Zenon DEF rest

LEMMA NothingPurchased ==
  ASSUME NEW n \in Nat
  PROVE  <<>> \in Seq(Planned(n)) /\ Purchases(<<>>) = 0
<1>1. <<>> \in Seq(Planned(n)) /\ Len(<<>>) = 0
  BY EmptySeq
<1>2. Costs(<<>>) \in [1..0 -> Nat] /\ Purchases(<<>>) = SumOf(Costs(<<>>))
  <2>1. PICK e : e = <<>>
    OBVIOUS
  <2>2. e \in Seq(Planned(n)) /\ Len(e) = 0
    BY <1>1, <2>1
  <2>3. Costs(e) \in [1..Len(e) -> Nat] /\ Purchases(e) = SumOf(Costs(e))
    BY <2>2, PurchasesIs
  <2> QED
    BY <2>1, <2>2, <2>3, Zenon
<1>3. PICK s : s = Costs(<<>>)
  OBVIOUS
<1>4. 0 \in Nat /\ s \in [1..0 -> Int]
  BY <1>2, <1>3
<1>5. PICK t \in [0..0 -> Int] : /\ SumOf(s) = t[0]
                                 /\ t[0] = 0 /\ \A k \in 1..0 : t[k] = s[k] + t[k - 1]
  BY <1>4, SumSteps
<1> QED
  BY <1>1, <1>2, <1>3, <1>5, Zenon

-----------------------------------------------------------------------------
\* Rebalancing buys at the target only, and no more than it asks for.
LEMMA AdjustmentIs ==
  ASSUME MarketOK, HoldingsOK, NEW target, Fits(target), NEW k \in Indexes
  PROVE  LET t == Adjustment(target, k)
         IN  /\ t \in Planned(Len(balances)) /\ t.outcome = k
             /\ t.type = "buy" /\ Wants(target, t)
                    => k = target.outcome /\ t.amount <= strategy.max
<1> DEFINE t == Adjustment(target, k)
           w == Aim(target, k)
           s == existing[k]
<1>1. strategy.max \in Nat /\ Indexes = 1..Len(balances)
  BY StrategyIs, OutcomesAre
<1>2. s \in Nat
  BY DEF HoldingsOK
<1>3. w \in 0..strategy.max
  BY <1>1 DEF Aim, Fits
<1>4. k # target.outcome => w = 0
  BY DEF Aim
<1>5. /\ t.type = IF w < s THEN "sell" ELSE "buy"
      /\ t.outcome = k /\ t.amount = Distance(w, s)
      /\ t = [type |-> t.type, outcome |-> t.outcome, amount |-> t.amount]
  BY DEF Adjustment
<1> HIDE DEF t, w, s
<1>6. Distance(w, s) \in Nat
  <2>1. w \in Int /\ s \in Int
    BY <1>1, <1>2, <1>3
  <2> QED
    BY <2>1, DistanceIsNatural
<1>7. t \in Planned(Len(balances))
  BY <1>1, <1>5, <1>6 DEF Planned
<1>8. ASSUME t.type = "buy", Wants(target, t)
      PROVE  k = target.outcome /\ t.amount <= strategy.max
  <2>1. ~(w < s) /\ t.amount # 0
    BY <1>5, <1>8 DEF Wants
  <2>2. Distance(w, s) = w - s
    BY <1>1, <1>2, <1>3, <2>1 DEF Distance, Greater
  <2>3. w # 0
    BY <1>1, <1>2, <1>3, <1>5, <2>1, <2>2
  <2> QED
    BY <1>1, <1>2, <1>3, <1>4, <1>5, <2>2, <2>3
<1> QED
  BY <1>5, <1>7, <1>8 DEF t

\* The list after the trade for outcome k was looked at.
Looked(target, type, k, l) ==
    IF /\ Adjustment(target, k).type = type
       /\ Wants(target, Adjustment(target, k))
    THEN Append(l, Adjustment(target, k)) ELSE l

\* What holds of the list outcome by outcome holds of the whole.
LEMMA ExtendedStays ==
  ASSUME MarketOK, HoldingsOK, NEW target, Fits(target), NEW type,
         NEW n, n = Len(balances), NEW list \in Seq(Planned(n)),
         NEW G, list \in G[0],
         \A k \in 1..n : \A l \in Seq(Planned(n)) :
             l \in G[k - 1] => Looked(target, type, k, l) \in G[k]
  PROVE  Extended(list, target, type) \in Seq(Planned(n)) /\ Extended(list, target, type) \in G[n]
<1> DEFINE V == Seq(Planned(n))
           Grown(k, l) == Looked(target, type, k, l)
           Right(g) == g = [k \in 0..n |-> IF k = 0 THEN list ELSE Grown(k, g[k - 1])]
<1>0. n \in Nat /\ Indexes = 1..n
  BY OutcomesAre DEF MarketOK
<1>1. list \in V
  OBVIOUS
<1>2. ASSUME NEW k \in 1..n, NEW l \in V PROVE Grown(k, l) \in V
  <2>1. Adjustment(target, k) \in Planned(n)
    BY <1>0, AdjustmentIs, Zenon
  <2>2. Append(l, Adjustment(target, k)) \in V
    BY <1>0, <2>1, PurchasesAppends, Zenon
  <2> QED
    BY <2>2, Zenon DEF Looked
<1>3. \E g : Right(g)
  <2> DEFINE F == [k \in 1..n |-> [l \in V |-> Grown(k, l)]]
  <2> HIDE DEF V, Grown
  <2>1. F \in [1..n -> [V -> V]]
    BY <1>2
  <2> HIDE DEF F
  <2>2. PICK f : Iterates(f, n, V, list, F)
    BY <1>0, <1>1, <2>1, Iterated, Zenon
  <2>3. ASSUME NEW k \in 0..n
        PROVE  f[k] = IF k = 0 THEN list ELSE Grown(k, f[k - 1])
    <3>1. CASE k = 0
      BY <2>2, <3>1 DEF Iterates
    <3>2. CASE k # 0
      <4>1. k \in 1..n /\ k - 1 \in 0..n
        BY <1>0, <3>2
      <4>2. f[k] = F[k][f[k - 1]] /\ f[k - 1] \in V
        BY <2>2, <4>1, Zenon DEF Iterates
      <4>3. F[k][f[k - 1]] = Grown(k, f[k - 1])
        BY <4>1, <4>2, Zenon DEF F
      <4> QED
        BY <3>2, <4>2, <4>3, Zenon
    <3> QED
      BY <3>1, <3>2
  <2>4. f = [k \in 0..n |-> f[k]]
    BY <2>2, Zenon DEF Iterates
  <2>5. Right(f)
    BY <2>3, <2>4
  <2> HIDE DEF Right
  <2> QED
    BY <2>5
<1> DEFINE g == CHOOSE h : Right(h)
<1>4. Right(g)
  <2> HIDE DEF Right
  <2> QED
    BY <1>3
<1>5. Extended(list, target, type) = g[n]
  BY Zenon DEF Extended, Looked
<1> HIDE DEF g
<1>6. \A k \in 0..n : g[k] = IF k = 0 THEN list ELSE Grown(k, g[k - 1])
  <2> HIDE DEF Grown
  <2> QED
    BY <1>4, Zenon
<1> HIDE DEF Right
<1> DEFINE J == {k \in 0..n : g[k] \in V /\ g[k] \in G[k]}
<1>7. 0 \in J
  <2>1. g[0] = list /\ 0 \in 0..n
    BY <1>0, <1>6
  <2> QED
    BY <1>1, <2>1
<1>8. ASSUME NEW k \in 1..n, k - 1 \in J PROVE k \in J
  <2>1. k \in 0..n /\ k # 0
    BY <1>0
  <2>2. g[k] = Grown(k, g[k - 1])
    <3> HIDE DEF Grown
    <3> QED
      BY <1>6, <2>1, Zenon
  <2>3. g[k - 1] \in V /\ g[k - 1] \in G[k - 1]
    BY <1>8
  <2>4. g[k] \in V
    <3> HIDE DEF V, Grown
    <3> QED
      BY <1>2, <2>2, <2>3, Zenon
  <2>5. g[k] \in G[k]
    BY <2>2, <2>3, Zenon
  <2> QED
    BY <2>1, <2>4, <2>5
<1>9. n \in J
  <2>1. \A k \in 0..n : k \in J
    <3> HIDE DEF J
    <3> QED
      BY <1>0, <1>7, <1>8, UpTo
  <2> QED
    BY <1>0, <2>1
<1> QED
  BY <1>5, <1>9, Zenon

LEMMA ExtendedFits ==
  ASSUME MarketOK, HoldingsOK, NEW target, Fits(target), NEW type \in {"buy", "sell"},
         NEW list \in Seq(Planned(Len(balances)))
  PROVE  /\ Extended(list, target, type) \in Seq(Planned(Len(balances)))
         /\ Purchases(Extended(list, target, type))
                <= Purchases(list) + IF type = "buy" THEN strategy.max ELSE 0
<1>1. PICK n : n = Len(balances)
  OBVIOUS
<1> DEFINE V == Seq(Planned(n))
           Bound(k) == IF type = "buy" /\ target.outcome \in 1..k
                       THEN strategy.max ELSE 0
           G == [k \in 0..n |-> {l \in V : Purchases(l) <= Purchases(list) + Bound(k)}]
<1>2. n \in Nat /\ strategy.max \in Nat /\ Indexes = 1..n /\ list \in V
  BY <1>1, StrategyIs, OutcomesAre DEF MarketOK
<1>3. \A l \in V : Purchases(l) \in Nat
  BY <1>2, PurchasesIs, Zenon
<1>4. \A k \in 0..n : G[k] = {l \in V : Purchases(l) <= Purchases(list) + Bound(k)}
  <2> HIDE DEF Bound, V
  <2> QED
    OBVIOUS
<1> HIDE DEF G, V
<1>5. list \in G[0]
  <2>1. Bound(0) = 0 /\ 0 \in 0..n
    BY <1>2
  <2> HIDE DEF Bound
  <2>2. Purchases(list) <= Purchases(list) + Bound(0)
    BY <1>2, <1>3, <2>1
  <2> QED
    BY <1>2, <1>4, <2>1, <2>2, Zenon
<1>6. ASSUME NEW k \in 1..n, NEW l \in V, l \in G[k - 1]
      PROVE  Looked(target, type, k, l) \in G[k]
  <2> DEFINE t == Adjustment(target, k)
  <2>1. k \in 0..n /\ k - 1 \in 0..n
    BY <1>2
  <2>2. Purchases(l) <= Purchases(list) + Bound(k - 1)
    <3> HIDE DEF Bound
    <3> QED
      BY <1>4, <1>6, <2>1, Zenon
  <2>3. /\ t \in Planned(n)
        /\ t.type = "buy" /\ Wants(target, t)
               => k = target.outcome /\ t.amount <= strategy.max
    BY <1>1, <1>2, AdjustmentIs, Zenon
  <2>4. /\ Purchases(l) \in Nat /\ Purchases(list) \in Nat
        /\ Bound(k) \in Nat /\ Bound(k - 1) \in Nat
    BY <1>2, <1>3
  <2>5. Bound(k - 1) <= Bound(k)
    <3>1. target.outcome \in 1..(k - 1) => target.outcome \in 1..k
      OBVIOUS
    <3> QED
      BY <1>2, <3>1
  <2> HIDE DEF t
  <2>6. CASE ~(t.type = type /\ Wants(target, t))
    <3>1. Looked(target, type, k, l) = l
      BY <2>6, Zenon DEF Looked, t
    <3> HIDE DEF Bound
    <3>2. Purchases(l) <= Purchases(list) + Bound(k)
      BY <2>2, <2>4, <2>5
    <3> QED
      BY <1>4, <2>1, <3>1, <3>2, Zenon
  <2>7. CASE t.type = type /\ Wants(target, t)
    <3>1. Looked(target, type, k, l) = Append(l, t)
      BY <2>7, Zenon DEF Looked, t
    <3>2. Append(l, t) \in V /\ Purchases(Append(l, t)) = Cost(t) + Purchases(l)
      BY <1>2, <2>3, PurchasesAppends, Zenon DEF V
    <3>3. Purchases(Append(l, t)) <= Purchases(list) + Bound(k)
      <4>1. CASE type = "sell"
        <5>1. Cost(t) = 0
          BY <2>7, <4>1 DEF Cost
        <5> HIDE DEF Bound
        <5> QED
          BY <2>2, <2>4, <2>5, <3>2, <5>1
      <4>2. CASE type = "buy"
        <5>1. Cost(t) = t.amount /\ t.amount \in Nat
          BY <2>3, <2>7, <4>2 DEF Cost, Planned
        <5>2. k = target.outcome /\ t.amount <= strategy.max
          BY <2>3, <2>7, <4>2, Zenon
        <5>3. Bound(k - 1) = 0 /\ Bound(k) = strategy.max
          <6>1. k \notin 1..(k - 1) /\ k \in 1..k
            OBVIOUS
          <6> QED
            BY <4>2, <5>2, <6>1, Zenon
        <5> HIDE DEF Bound
        <5> QED
          BY <1>2, <2>2, <2>4, <3>2, <5>1, <5>2, <5>3
      <4> QED
        BY <4>1, <4>2
    <3> HIDE DEF Bound
    <3> QED
      BY <1>4, <2>1, <3>1, <3>2, <3>3, Zenon
  <2> QED
    BY <2>6, <2>7
<1>7. Extended(list, target, type) \in V /\ Extended(list, target, type) \in G[n]
  BY <1>1, <1>2, <1>5, <1>6, ExtendedStays, Zenon DEF V
<1>8. Purchases(Extended(list, target, type)) <= Purchases(list) + Bound(n)
  <2>1. n \in 0..n
    BY <1>2
  <2> HIDE DEF Bound
  <2> QED
    BY <1>4, <1>7, <2>1, Zenon
<1>9. PICK b, c : c = Bound(n) /\ b = IF type = "buy" THEN strategy.max ELSE 0
  OBVIOUS
<1>10. b \in Nat /\ c \in Nat /\ c <= b
  BY <1>2, <1>9
<1> HIDE DEF Bound
<1>11. Purchases(Extended(list, target, type)) <= Purchases(list) + b
  <2>1. Purchases(Extended(list, target, type)) \in Nat /\ Purchases(list) \in Nat
    BY <1>2, <1>3, <1>7, Zenon
  <2> QED
    BY <1>8, <1>9, <1>10, <2>1
<1> QED
  BY <1>1, <1>7, <1>9, <1>11, Zenon DEF V

LEMMA RebalanceFits ==
  ASSUME MarketOK, HoldingsOK, NEW target, Fits(target)
  PROVE  /\ Rebalance(target) \in Seq(Planned(Len(balances)))
         /\ Purchases(Rebalance(target)) <= strategy.max
<1> DEFINE S == Seq(Planned(Len(balances)))
           first == Extended(<<>>, target, "buy")
           all == Extended(first, target, "sell")
<1>1. strategy.max \in Nat /\ Len(balances) \in Nat
  BY StrategyIs DEF MarketOK
<1>2. <<>> \in S /\ Purchases(<<>>) = 0
  BY <1>1, NothingPurchased
<1>3. first \in S /\ Purchases(first) <= 0 + strategy.max
  BY <1>2, ExtendedFits
<1> HIDE DEF first
<1>4. all \in S /\ Purchases(all) <= Purchases(first) + 0
  BY <1>3, ExtendedFits
<1>5. Purchases(first) \in Nat /\ Purchases(all) \in Nat
  BY <1>1, <1>3, <1>4, PurchasesIs
<1>6. Rebalance(target) = all
  BY Zenon DEF Rebalance, first
<1> HIDE DEF all
<1> QED
  BY <1>1, <1>3, <1>4, <1>5, <1>6

-----------------------------------------------------------------------------
\* What the agent has spent in a run and still plans to spend stays within
\* the maximum, as long as it holds what it sells.
SpendingInv ==
    /\ MarketOK /\ HoldingsOK
    /\ plan \in Seq(Planned(Len(balances)))
    /\ "bought" \in DOMAIN thisRun /\ thisRun.bought \in Nat
    /\ MaxIsEnough

LEMMA FilledAre ==
  ASSUME NEW n \in Nat, NEW p \in Filled(n)
  PROVE  Len(p) = n /\ DOMAIN p = 1..n
<1>1. p \in [1..n -> Nat]
  BY DEF Filled
<1> QED
  BY <1>1, LengthOf

LEMMA MarketMoves ==
  ASSUME MarketOK, balances' \in Filled(Len(balances)), strategy' = strategy,
         position' \in [Indexes -> Nat], existing' \in [Indexes -> Nat]
  PROVE  MarketOK' /\ HoldingsOK' /\ Len(balances') = Len(balances)
<1>1. PICK n : n = Len(balances)
  OBVIOUS
<1>2. n \in Nat /\ n >= 2 /\ Indexes = 1..n /\ balances' \in Filled(n)
  BY <1>1, OutcomesAre DEF MarketOK
<1>3. Len(balances') = n /\ DOMAIN balances' = 1..n
  BY <1>2, FilledAre
<1>4. Indexes' = Indexes
  BY <1>2, <1>3 DEF Indexes
<1> QED
  BY <1>1, <1>2, <1>3, <1>4 DEF MarketOK, HoldingsOK

LEMMA SpendingStarts == StrategyInit => SpendingInv
<1> SUFFICES ASSUME StrategyInit PROVE SpendingInv
  OBVIOUS
<1>1. /\ balances \in Seq(Nat \ {0}) /\ Len(balances) >= 2
      /\ strategy \in [kind : StrategyKinds, max : Nat, impact : Nat,
                        takeProfit : BOOLEAN]
  BY StrategyAssumption DEF StrategyInit
<1>2. /\ Len(balances) \in Nat /\ DOMAIN balances = 1..Len(balances)
      /\ balances \in [1..Len(balances) -> Nat \ {0}]
  BY <1>1, LenProperties
<1>3. MarketOK
  <2>1. \A i \in 1..Len(balances) : balances[i] \in Nat /\ balances[i] > 0
    BY <1>2
  <2>2. balances \in [1..Len(balances) -> Nat]
    BY <1>2, <2>1
  <2> QED
    BY <1>1, <1>2, <2>1, <2>2 DEF MarketOK, Filled
<1>4. HoldingsOK
  BY DEF StrategyInit, HoldingsOK, Indexes
<1>5. plan = <<>> /\ thisRun = NoRun
  BY DEF StrategyInit
<1>6. plan \in Seq(Planned(Len(balances))) /\ Purchases(plan) = 0
  BY <1>2, <1>5, NothingPurchased
<1>7. "bought" \in DOMAIN thisRun /\ thisRun.bought = 0
  BY <1>5 DEF NoRun
<1>8. MaxIsEnough
  BY DEF StrategyInit, MaxIsEnough
<1> QED
  BY <1>3, <1>4, <1>6, <1>7, <1>8 DEF SpendingInv

\* What the position is worth is a number, and so is the default maximum.
LEMMA ReadPositionFits ==
  ASSUME SpendingInv, ReadPosition
  PROVE  SpendingInv'
<1>1. MarketOK /\ HoldingsOK /\ plan \in Seq(Planned(Len(balances)))
  BY DEF SpendingInv
<1>2. UNCHANGED <<balances, position, strategy, plan>> /\ pc' = "held"
  BY DEF ReadPosition
<1>3. existing' = [i \in Indexes |-> SaleValue(i)]
  BY DEF ReadPosition
<1>4. \A i \in Indexes : SaleValue(i) \in Nat
  BY <1>1, SaleValueIsNat
<1>5. existing' \in [Indexes -> Nat]
  BY <1>3, <1>4
<1>6. MarketOK' /\ HoldingsOK'
  BY <1>1, <1>2, <1>5 DEF MarketOK, HoldingsOK, Indexes
<1>7. "bought" \in DOMAIN thisRun' /\ thisRun'.bought \in Nat
  BY DEF ReadPosition, NoRun
<1> QED
  BY <1>1, <1>2, <1>6, <1>7 DEF SpendingInv, MaxIsEnough

LEMMA TotalIsNat ==
  ASSUME MarketOK, HoldingsOK
  PROVE  TotalAmountToBet \in Nat
<1>1. PICK n, s : n = Len(balances) /\ s = [i \in Indexes |-> SaleValue(i)]
  OBVIOUS
<1>2. n \in Nat /\ Indexes = 1..n
  BY <1>1, OutcomesAre DEF MarketOK
<1>3. s \in [1..n -> Nat]
  BY <1>1, <1>2, SaleValueIsNat
<1>4. SumOf(s) \in Nat
  BY <1>2, <1>3, SumIsNat
<1>5. TinyBet \in Nat
  BY StrategyAssumption, Zenon
<1> QED
  BY <1>1, <1>4, <1>5 DEF TotalAmountToBet

LEMMA GetStrategyFits ==
  ASSUME SpendingInv, GetStrategy
  PROVE  SpendingInv'
<1>1. /\ MarketOK /\ HoldingsOK /\ plan \in Seq(Planned(Len(balances)))
      /\ "bought" \in DOMAIN thisRun /\ thisRun.bought \in Nat
  BY DEF SpendingInv
<1>2. /\ UNCHANGED <<balances, position, existing, plan, thisRun>> /\ pc' = "ready"
      /\ strategy' = IF strategy.kind = "Default"
                     THEN [strategy EXCEPT !.max = TotalAmountToBet] ELSE strategy
  BY DEF GetStrategy
<1>3. TotalAmountToBet \in Nat
  BY <1>1, TotalIsNat
<1>4. strategy' \in [kind : StrategyKinds, max : Nat, impact : Nat,
                     takeProfit : BOOLEAN]
  BY <1>1, <1>2, <1>3 DEF MarketOK
<1>5. MarketOK' /\ HoldingsOK'
  BY <1>1, <1>2, <1>4 DEF MarketOK, HoldingsOK, Indexes
<1> QED
  BY <1>1, <1>2, <1>5 DEF SpendingInv, MaxIsEnough

LEMMA DecideFits ==
  ASSUME SpendingInv, Decide
  PROVE  SpendingInv'
<1>1. MarketOK /\ HoldingsOK /\ Len(balances) \in Nat
  BY DEF SpendingInv, MarketOK
<1>2. UNCHANGED <<balances, position, existing, strategy>>
  BY DEF Decide
<1>3. MarketOK' /\ HoldingsOK'
  BY <1>1, <1>2 DEF MarketOK, HoldingsOK, Indexes
<1>4. "bought" \in DOMAIN thisRun' /\ thisRun'.bought = 0
  BY DEF Decide
<1>5. strategy.max \in Nat
  BY <1>1, StrategyIs
<1>6. <<>> \in Seq(Planned(Len(balances))) /\ Purchases(<<>>) = 0
  BY <1>1, NothingPurchased
<1>7. plan' \in Seq(Planned(Len(balances))) /\ Purchases(plan') <= strategy.max
  <2>1. PICK a \in Predictions :
            /\ Len(a.p) = Len(balances)
            /\ \/ \E target \in Targets(a) :
                      plan' = IF Raises(Rebalance(target)) THEN <<>> ELSE Rebalance(target)
               \/ plan' = <<>>
    BY DEF Decide
  <2>2. Answered(a)
    BY <2>1 DEF Answered
  <2>3. CASE plan' = <<>>
    BY <1>5, <1>6, <2>3
  <2>4. ASSUME NEW target \in Targets(a), plan' = Rebalance(target)
        PROVE  plan' \in Seq(Planned(Len(balances))) /\ Purchases(plan') <= strategy.max
    <3>1. Fits(target)
      BY <1>1, <2>2, TargetsFit
    <3> QED
      BY <1>1, <2>4, <3>1, RebalanceFits
  <2> QED
    BY <2>1, <2>3, <2>4
<1>8. MaxIsEnough'
  <2>1. Purchases(plan') \in Nat
    BY <1>1, <1>7, PurchasesIs
  <2>2. 0 + Purchases(plan') <= strategy.max
    BY <1>5, <1>7, <2>1
  <2>3. Purchases(plan)' = Purchases(plan')
    BY Zenon DEF Purchases
  <2> QED
    BY <1>2, <1>4, <2>2, <2>3 DEF MaxIsEnough
<1> QED
  BY <1>2, <1>3, <1>4, <1>7, <1>8 DEF SpendingInv

\* A trade costs what the plan says.
LEMMA TradeFits ==
  ASSUME SpendingInv, pc = "trade", UNCHANGED <<pc, strategy, existing>>,
         plan # <<>>, plan' = Tail(plan),
         balances' \in Filled(Len(balances)), position' \in [Indexes -> Nat],
         "bought" \in DOMAIN thisRun',
         thisRun'.bought = thisRun.bought + Cost(Head(plan))
  PROVE  SpendingInv'
<1>1. PICK n : n = Len(balances)
  OBVIOUS
<1>2. MarketOK /\ n \in Nat /\ plan \in Seq(Planned(n)) /\ thisRun.bought \in Nat
  BY <1>1 DEF SpendingInv, MarketOK
<1>3. MarketOK' /\ HoldingsOK' /\ Len(balances') = n
  <2>1. existing' \in [Indexes -> Nat]
    BY DEF SpendingInv, HoldingsOK
  <2> QED
    BY <1>1, <1>2, <2>1, MarketMoves
<1>4. /\ Head(plan) \in Planned(n) /\ plan' \in Seq(Planned(n))
      /\ Purchases(plan) = Cost(Head(plan)) + Purchases(plan')
  BY <1>2, PurchasesTail
<1>5. Cost(Head(plan)) \in Nat
  BY <1>4 DEF Cost, Planned
<1>6. Purchases(plan') \in Nat
  BY <1>2, <1>4, PurchasesIs
<1>7. thisRun.bought + Purchases(plan) <= strategy.max /\ strategy.max \in Nat
  BY <1>2, StrategyIs DEF SpendingInv, MaxIsEnough
<1>8. thisRun'.bought \in Nat /\ thisRun'.bought + Purchases(plan') <= strategy.max
  BY <1>2, <1>4, <1>5, <1>6, <1>7
<1>9. Purchases(plan)' = Purchases(plan')
  BY Zenon DEF Purchases
<1>10. MaxIsEnough'
  BY <1>8, <1>9 DEF MaxIsEnough
<1> QED
  BY <1>3, <1>4, <1>8, <1>10 DEF SpendingInv

\* The next trade is one of the market's outcomes.
LEMMA NextTrade ==
  ASSUME SpendingInv, NEW type, IsNext(type)
  PROVE  /\ MarketOK /\ HoldingsOK /\ plan # <<>>
         /\ Head(plan).type = type /\ Head(plan).outcome \in Indexes
         /\ Head(plan).amount \in Nat /\ position[Head(plan).outcome] \in Nat
         /\ Len(balances) \in Nat /\ balances \in Filled(Len(balances))
         /\ Indexes = 1..Len(balances) /\ MarketFee \in 0..99
<1>1. MarketOK /\ HoldingsOK /\ plan # <<>> /\ Head(plan).type = type
  BY DEF SpendingInv, IsNext
<1>2. /\ Len(balances) \in Nat /\ balances \in Filled(Len(balances))
      /\ Indexes = 1..Len(balances)
  BY <1>1, OutcomesAre DEF MarketOK
<1>3. Head(plan) \in Planned(Len(balances))
  BY <1>1, <1>2, PurchasesTail DEF SpendingInv
<1>4. Head(plan).outcome \in Indexes /\ Head(plan).amount \in Nat
  BY <1>2, <1>3 DEF Planned
<1>5. position[Head(plan).outcome] \in Nat
  BY <1>1, <1>4 DEF HoldingsOK
<1> QED
  BY <1>1, <1>2, <1>4, <1>5, StrategyIs

LEMMA PlaceBuyFits ==
  ASSUME SpendingInv, PlaceBuy
  PROVE  SpendingInv'
<1>1. PICK n, i, a : n = Len(balances) /\ i = Head(plan).outcome /\ a = Head(plan).amount
  OBVIOUS
<1>2. /\ MarketOK /\ HoldingsOK /\ plan # <<>> /\ Head(plan).type = "buy"
      /\ i \in Indexes /\ a \in Nat /\ position[i] \in Nat
      /\ n \in Nat /\ balances \in Filled(n) /\ Indexes = 1..n /\ MarketFee \in 0..99
  BY <1>1, NextTrade, Zenon DEF PlaceBuy
<1> DEFINE bought == SharesBought(balances, i, a, MarketFee)
<1>3. /\ balances' = PoolAfterBuy(balances, i, a, MarketFee)
      /\ position' = [position EXCEPT ![i] = @ + bought]
      /\ thisRun' = [thisRun EXCEPT !.bought = @ + a]
      /\ plan' = Tail(plan) /\ UNCHANGED <<pc, strategy, existing>> /\ pc = "trade"
  BY <1>1, Zenon DEF PlaceBuy, IsNext
<1>4. PoolAfterBuy(balances, i, a, MarketFee) \in Filled(n) /\ bought \in Nat
  BY <1>2, Purchase
<1> HIDE DEF bought
<1>5. position' \in [Indexes -> Nat]
  BY <1>2, <1>3, <1>4 DEF HoldingsOK
<1>6. "bought" \in DOMAIN thisRun' /\ thisRun'.bought = thisRun.bought + Cost(Head(plan))
  <2>1. "bought" \in DOMAIN thisRun
    BY DEF SpendingInv
  <2>2. Cost(Head(plan)) = a
    BY <1>1, <1>2, Zenon DEF Cost
  <2> QED
    BY <1>3, <2>1, <2>2
<1> QED
  BY <1>1, <1>2, <1>3, <1>4, <1>5, <1>6, TradeFits, Zenon

LEMMA PlaceSellFits ==
  ASSUME SpendingInv, PlaceSell
  PROVE  SpendingInv'
<1>1. PICK n, i, s : n = Len(balances) /\ i = Head(plan).outcome /\ s = position[i]
  OBVIOUS
<1>2. /\ MarketOK /\ HoldingsOK /\ plan # <<>> /\ Head(plan).type = "sell"
      /\ i \in Indexes /\ Head(plan).amount \in Nat /\ s \in Nat
      /\ n \in Nat /\ balances \in Filled(n) /\ Indexes = 1..n /\ MarketFee \in 0..99
  BY <1>1, NextTrade, Zenon DEF PlaceSell
<1>3. PICK a : a = Lesser(Head(plan).amount, SaleValue(i))
  OBVIOUS
<1> DEFINE taken == SharesSold(balances, i, a, MarketFee)
<1>4. /\ balances' = PoolAfterSell(balances, i, a, MarketFee)
      /\ position' = [position EXCEPT ![i] = @ - taken]
      /\ thisRun' = [thisRun EXCEPT !.sold = @ + a]
      /\ plan' = Tail(plan) /\ UNCHANGED <<pc, strategy, existing>> /\ pc = "trade"
  BY <1>1, <1>3, Zenon DEF PlaceSell, IsNext
<1>5. SaleValue(i) = SellAmount(balances, i, s, MarketFee) /\ SaleValue(i) \in Nat
  BY <1>1, <1>2, SaleValueIsNat DEF SaleValue
<1>6. a \in Nat /\ a <= SaleValue(i)
  BY <1>2, <1>3, <1>5 DEF Lesser
<1>7. (\A j \in 1..n \ {i} : Gross(a, MarketFee) < balances[j]) /\ taken <= s
  <2>1. a <= SellAmount(balances, i, s, MarketFee) /\ i \in 1..n
    BY <1>2, <1>5, <1>6
  <2> QED
    BY <1>2, <1>6, <2>1, SaleFits
<1>8. PoolAfterSell(balances, i, a, MarketFee) \in Filled(n) /\ taken \in Int
  BY <1>2, <1>6, <1>7, Sale
<1> HIDE DEF taken
<1>9. position' \in [Indexes -> Nat]
  <2>1. s - taken \in Nat
    BY <1>2, <1>7, <1>8
  <2> QED
    BY <1>1, <1>2, <1>4, <2>1 DEF HoldingsOK
<1>10. "bought" \in DOMAIN thisRun' /\ thisRun'.bought = thisRun.bought + Cost(Head(plan))
  <2>1. "bought" \in DOMAIN thisRun /\ thisRun.bought \in Nat
    BY DEF SpendingInv
  <2>2. Cost(Head(plan)) = 0
    BY <1>2 DEF Cost
  <2>3. "bought" \in DOMAIN thisRun' /\ thisRun'.bought = thisRun.bought
    BY <1>4, <2>1
  <2> QED
    BY <2>1, <2>2, <2>3
<1> QED
  BY <1>1, <1>2, <1>4, <1>8, <1>9, <1>10, TradeFits, Zenon

LEMMA FinishFits ==
  ASSUME SpendingInv, pc' \in {pc, "idle"},
         UNCHANGED <<balances, position, existing, strategy, plan, thisRun>>
  PROVE  SpendingInv'
BY DEF SpendingInv, MarketOK, HoldingsOK, Indexes, MaxIsEnough, Purchases

LEMMA OtherBetsFit ==
  ASSUME SpendingInv, OtherBets
  PROVE  SpendingInv'
<1>1. PICK n : n = Len(balances)
  OBVIOUS
<1>2. /\ MarketOK /\ HoldingsOK /\ n \in Nat /\ balances \in Filled(n) /\ Indexes = 1..n
      /\ MarketFee \in 0..99 /\ OthersBet \in Nat
  <2>1. MarketOK /\ HoldingsOK
    BY DEF SpendingInv
  <2>2. OthersBet \in Nat
    BY StrategyAssumption, Zenon
  <2> QED
    BY <1>1, <2>1, <2>2, OutcomesAre, StrategyIs DEF MarketOK
<1>3. PICK i \in Indexes : balances' = PoolAfterBuy(balances, i, OthersBet, MarketFee)
  BY DEF OtherBets
<1>4. balances' \in Filled(n)
  BY <1>2, <1>3, Purchase
<1>5. /\ UNCHANGED <<position, existing, strategy, plan, pc>>
      /\ thisRun' = [thisRun EXCEPT !.undisturbed = FALSE, !.alone = FALSE]
  BY DEF OtherBets
<1>6. MarketOK' /\ HoldingsOK' /\ Len(balances') = n
  <2>1. position' \in [Indexes -> Nat] /\ existing' \in [Indexes -> Nat]
    BY <1>2, <1>5 DEF HoldingsOK
  <2> QED
    BY <1>1, <1>2, <1>4, <1>5, <2>1, MarketMoves
<1>7. "bought" \in DOMAIN thisRun' /\ thisRun'.bought = thisRun.bought
  BY <1>5 DEF SpendingInv
<1>8. MaxIsEnough'
  BY <1>5, <1>7 DEF SpendingInv, MaxIsEnough, Purchases
<1> QED
  BY <1>1, <1>5, <1>6, <1>7, <1>8 DEF SpendingInv

LEMMA SpendingKept == SpendingInv /\ [StrategyNext]_strategyVars => SpendingInv'
<1> SUFFICES ASSUME SpendingInv, [StrategyNext]_strategyVars PROVE SpendingInv'
  OBVIOUS
<1>1. CASE Decide
  BY <1>1, DecideFits
<1>2. CASE PlaceBuy
  BY <1>2, PlaceBuyFits
<1>3. CASE PlaceSell
  BY <1>3, PlaceSellFits
<1>4. CASE Finish
  BY <1>4, FinishFits DEF Finish
<1>5. CASE OtherBets
  BY <1>5, OtherBetsFit
<1>6. CASE UNCHANGED strategyVars
  BY <1>6, FinishFits DEF strategyVars
<1>7. CASE ReadPosition
  BY <1>7, ReadPositionFits
<1>8. CASE GetStrategy
  BY <1>8, GetStrategyFits
<1> QED
  BY <1>1, <1>2, <1>3, <1>4, <1>5, <1>6, <1>7, <1>8 DEF StrategyNext

(* What a run of any strategy spends stays within the maximum that the     *)
(* strategy states, for any pools, fee and answers, whatever others did to *)
(* the pool while the run read its position and made its strategy, and     *)
(* whatever the optimiser of the joint Kelly bets returns.                 *)
THEOREM SpendsNoMore == StrategySpec => []MaxIsEnough
<1>1. SpendingInv => MaxIsEnough
  BY DEF SpendingInv
<1> QED
  BY <1>1, SpendingStarts, SpendingKept, PTL DEF StrategySpec

-----------------------------------------------------------------------------
\* One step of a quote, against the factors the contract multiplies.
LEMMA QuoteStep ==
  ASSUME NEW x \in Nat, NEW y \in Nat, NEW p \in Nat, NEW added \in Nat,
         NEW inv \in Nat, NEW v \in Nat, NEW t \in Nat, NEW c \in Nat,
         y * (100 * p + added) >= x * p * 100, added <= 100 * inv, x * v >= c * t
  PROVE  y * ((p + inv) * v) >= c * (p * t)
<1>0. PICK b, u : b = 100 * p + added /\ u = p + inv
  OBVIOUS
<1>a. b \in Nat /\ u \in Nat /\ b <= 100 * u /\ y * b >= x * p * 100
  BY <1>0
<1>1. y * b <= y * (100 * u)
  BY <1>a
<1>2. y * (100 * u) = 100 * (y * u) /\ x * p * 100 = 100 * (x * p)
  BY <1>a
<1>3. y * b \in Nat /\ y * u \in Nat /\ x * p \in Nat
  BY <1>a
<1>4. x * p <= y * u
  BY <1>a, <1>1, <1>2, <1>3
<1>5. \A i, j, k \in Nat : i <= j => i * k <= j * k
  OBVIOUS
<1>6. (x * p) * v <= (y * u) * v
  BY <1>3, <1>4, <1>5
<1>7. (c * t) * p <= (x * v) * p
  <2>1. c * t \in Nat /\ x * v \in Nat
    OBVIOUS
  <2> QED
    BY <1>5, <2>1
<1>8. \A i, j, k \in Nat : (i * j) * k = (i * k) * j /\ (i * j) * k = i * (j * k)
                           /\ (i * j) * k = i * (k * j)
  OBVIOUS
<1>9. (x * v) * p = (x * p) * v /\ (c * t) * p = c * (p * t) /\ (y * u) * v = y * (u * v)
  BY <1>a, <1>8
<1>10. (x * p) * v \in Nat /\ c * (p * t) \in Nat /\ y * (u * v) \in Nat
  BY <1>a
<1> QED
  BY <1>0, <1>6, <1>7, <1>9, <1>10

\* What is added to the pool is at least what the quote takes for it.
LEMMA InvestedCovers ==
  ASSUME NEW a \in Nat, NEW fee \in 0..99
  PROVE  /\ Invested(a, fee) \in Nat /\ a * (100 - fee) \in Nat
         /\ a * (100 - fee) <= 100 * Invested(a, fee)
         /\ (a * (100 - fee)) \div 10 \in Nat
         /\ (a * (100 - fee)) \div 10 <= 10 * Invested(a, fee)
<1> DEFINE q == (fee * a) \div 100
           x == a * (100 - fee)
<1>1. fee * a \in Nat /\ x \in Nat /\ x = 100 * a - fee * a
  OBVIOUS
<1>2. q \in Nat /\ 100 * q <= fee * a
  <2>1. PICK m : m = fee * a
    OBVIOUS
  <2>2. m \in Nat /\ 100 \in Nat \ {0}
    BY <1>1, <2>1
  <2>3. m \div 100 \in Nat /\ 100 * (m \div 100) <= m
    BY <2>2, Quotients
  <2> QED
    BY <2>1, <2>3
<1>3. Invested(a, fee) = a - q
  <2>1. (0 * a * (1000 - 0)) \div 100000 = 0
    OBVIOUS
  <2>2. Invested(a, fee) = a - (0 + (fee * a) \div 100 + (0 * a * (1000 - 0)) \div 100000)
    BY DEF Invested, AfterFees, TotalFee, Proportional
  <2> HIDE DEF x
  <2> QED
    BY <1>2, <2>1, <2>2
<1>4. Invested(a, fee) \in Nat
  <2>1. Invested(a, fee) \in 0..a
    BY Fees
  <2> QED
    BY <2>1
<1> HIDE DEF q, x
<1>5. x <= 100 * Invested(a, fee)
  <2>1. PICK f : f = fee * a
    OBVIOUS
  <2> QED
    BY <1>1, <1>2, <1>3, <2>1
<1>6. x \div 10 \in Nat /\ 10 * (x \div 10) <= x
  BY <1>1, Quotients
<1> QED
  BY <1>1, <1>4, <1>5, <1>6 DEF x

\* The values of a quote's recursion.
QuoteEnding(p, i, added, n, e) ==
    /\ e \in [0..n -> Nat] /\ e[0] = 10 * p[i]
    /\ \A k \in 1..n :
         IF k = i THEN e[k] = e[k - 1]
         ELSE e[k] * (100 * p[k] + added) >= e[k - 1] * p[k] * 100
QuoteIs(p, i, a, fee, n, e) ==
    /\ QuoteEnding(p, i, a * (100 - fee), n, e)
    /\ Quote(p, i, a, fee) = 10 * p[i] + (a * (100 - fee)) \div 10 - e[n]

LEMMA QuoteEnds ==
  ASSUME NEW n \in Nat, NEW p \in Filled(n), NEW i \in 1..n, NEW fee \in 0..99,
         NEW a \in Nat \ {0}
  PROVE  \E e : QuoteIs(p, i, a, fee, n, e)
<1> DEFINE x == a * (100 - fee)
           After(k, y) == IF k = i THEN y
                          ELSE CeilDiv(y * p[k] * 100, 100 * p[k] + x)
           Right(g) == g = [k \in 0..n |->
                               IF k = 0 THEN 10 * p[i] ELSE After(k, g[k - 1])]
           g == CHOOSE h : Right(h)
<1>0. Len(p) = n /\ DOMAIN p = 1..n
  BY FilledAre
<1>1. \A k \in 1..n : p[k] \in Nat /\ p[k] > 0
  BY DEF Filled
<1>2. x \in Nat /\ a # 0
  BY InvestedCovers
<1>3. Quote(p, i, a, fee) = 10 * p[i] + x \div 10 - g[n]
  BY <1>0, <1>2, Zenon DEF Quote
<1> HIDE DEF x, g
<1>4. ASSUME NEW k \in 1..n, k # i, NEW y \in Nat
      PROVE  After(k, y) \in Nat /\ After(k, y) * (100 * p[k] + x) >= y * p[k] * 100
  <2>1. PICK c, d : c = y * p[k] * 100 /\ d = 100 * p[k] + x
    OBVIOUS
  <2>2. c \in Nat /\ d \in Nat \ {0}
    BY <1>1, <1>2, <2>1
  <2>3. CeilDiv(c, d) \in Nat /\ d * CeilDiv(c, d) >= c
    BY <2>2, Quotients
  <2>4. CeilDiv(c, d) * d >= c
    <3>1. PICK q : q = CeilDiv(c, d)
      OBVIOUS
    <3> QED
      BY <2>2, <2>3, <3>1
  <2> QED
    BY <1>4, <2>1, <2>3, <2>4
<1>5. ASSUME NEW k \in 1..n, NEW y \in Nat PROVE After(k, y) \in Nat
  <2>1. CASE k = i
    BY <2>1
  <2>2. CASE k # i
    <3> HIDE DEF After
    <3> QED
      BY <1>4, <2>2
  <2> QED
    BY <2>1, <2>2
<1>6. 10 * p[i] \in Nat
  BY <1>1
<1>7. \E h : Right(h)
  <2> DEFINE F == [k \in 1..n |-> [y \in Nat |-> After(k, y)]]
  <2> HIDE DEF After
  <2>1. F \in [1..n -> [Nat -> Nat]]
    BY <1>5
  <2> HIDE DEF F
  <2>2. PICK f : Iterates(f, n, Nat, 10 * p[i], F)
    BY <1>6, <2>1, Iterated, Zenon
  <2>3. ASSUME NEW k \in 0..n
        PROVE  f[k] = IF k = 0 THEN 10 * p[i] ELSE After(k, f[k - 1])
    <3>1. CASE k = 0
      BY <2>2, <3>1 DEF Iterates
    <3>2. CASE k # 0
      <4>1. k \in 1..n /\ k - 1 \in 0..n
        BY <3>2
      <4>2. f[k] = F[k][f[k - 1]] /\ f[k - 1] \in Nat
        BY <2>2, <4>1, Zenon DEF Iterates
      <4>3. F[k][f[k - 1]] = After(k, f[k - 1])
        BY <4>1, <4>2, Zenon DEF F
      <4> QED
        BY <3>2, <4>2, <4>3, Zenon
    <3> QED
      BY <3>1, <3>2
  <2>4. f = [k \in 0..n |-> f[k]]
    BY <2>2, Zenon DEF Iterates
  <2>5. Right(f)
    BY <2>3, <2>4
  <2> HIDE DEF Right
  <2> QED
    BY <2>5
<1>8. Right(g)
  <2> HIDE DEF Right
  <2> QED
    BY <1>7 DEF g
<1>9. \A k \in 0..n : g[k] = IF k = 0 THEN 10 * p[i] ELSE After(k, g[k - 1])
  <2> HIDE DEF After
  <2> QED
    BY <1>8, Zenon
<1>10. g = [k \in 0..n |-> g[k]]
  <2> HIDE DEF After
  <2> QED
    BY <1>8
<1> HIDE DEF Right
<1>11. g[0] = 10 * p[i]
  <2>1. 0 \in 0..n
    OBVIOUS
  <2> QED
    BY <1>9, <2>1, Zenon
<1>12. \A k \in 1..n : g[k] = After(k, g[k - 1])
  <2> HIDE DEF After
  <2>1. \A k \in 1..n : k \in 0..n /\ k # 0
    OBVIOUS
  <2> QED
    BY <1>9, <2>1, Zenon
<1> DEFINE J == {k \in 0..n : g[k] \in Nat}
<1>13. 0 \in J
  BY <1>6, <1>11
<1>14. \A k \in 1..n : k - 1 \in J => k \in J
  <2> HIDE DEF After
  <2>1. \A k \in 1..n : k \in 0..n
    OBVIOUS
  <2> QED
    BY <1>5, <1>12, <2>1, Zenon
<1>15. \A k \in 0..n : g[k] \in Nat
  <2>1. \A k \in 0..n : k \in J
    <3> HIDE DEF J
    <3> QED
      BY <1>13, <1>14, UpTo
  <2> QED
    BY <2>1
<1>16. g \in [0..n -> Nat]
  BY <1>10, <1>15
<1>17. ASSUME NEW k \in 1..n
       PROVE  IF k = i THEN g[k] = g[k - 1]
              ELSE g[k] * (100 * p[k] + x) >= g[k - 1] * p[k] * 100
  <2>1. k - 1 \in 0..n
    OBVIOUS
  <2>2. g[k] = After(k, g[k - 1]) /\ g[k - 1] \in Nat
    BY <1>12, <1>15, <2>1, Zenon
  <2>3. CASE k = i
    BY <2>2, <2>3
  <2>4. CASE k # i
    <3> HIDE DEF After
    <3>1. After(k, g[k - 1]) * (100 * p[k] + x) >= g[k - 1] * p[k] * 100
      BY <1>4, <2>2, <2>4
    <3> QED
      BY <2>2, <2>4, <3>1
  <2> QED
    BY <2>3, <2>4
<1>18. QuoteEnding(p, i, x, n, g)
  BY <1>11, <1>16, <1>17, Zenon DEF QuoteEnding
<1> QED
  <2>1. QuoteIs(p, i, a, fee, n, g)
    BY <1>3, <1>18, Zenon DEF x, QuoteIs
  <2> QED
    BY <2>1

\* Each factor of the contract's product keeps the quote above the contract.
LEMMA EndingAbove ==
  ASSUME NEW n \in Nat, NEW p \in Filled(n), NEW i \in 1..n, NEW x \in Nat,
         NEW inv \in Nat, x <= 100 * inv, NEW e, QuoteEnding(p, i, x, n, e),
         NEW s \in [1..n -> Nat], NEW u \in [1..n -> Nat], s[i] = 1, u[i] = 1,
         \A k \in 1..n : k # i => s[k] = p[k] /\ u[k] = p[k] + inv
  PROVE  e[n] * ProductOf(u) >= e[0] * ProductOf(s)
<1>1. PICK t \in [0..n -> Nat] : /\ ProductOf(s) = t[n]
                                 /\ t[0] = 1 /\ \A k \in 1..n : t[k] = s[k] * t[k - 1]
  BY ProductSteps
<1>2. PICK v \in [0..n -> Nat] : /\ ProductOf(u) = v[n]
                                 /\ v[0] = 1 /\ \A k \in 1..n : v[k] = u[k] * v[k - 1]
  BY ProductSteps
<1>3. e \in [0..n -> Nat]
  BY DEF QuoteEnding
<1> DEFINE G == {k \in 0..n : e[k] * v[k] >= e[0] * t[k]}
<1>4. 0 \in G
  <2>1. e[0] \in Nat
    BY <1>3
  <2> QED
    BY <1>1, <1>2, <2>1
<1>5. ASSUME NEW k \in 1..n, k - 1 \in G PROVE k \in G
  <2>1. k \in 0..n /\ k - 1 \in 0..n /\ 0 \in 0..n
    OBVIOUS
  <2>2. PICK ek, ej, vj, tj, c : ek = e[k] /\ ej = e[k - 1] /\ vj = v[k - 1] /\ tj = t[k - 1]
                                 /\ c = e[0]
    OBVIOUS
  <2>3. ek \in Nat /\ ej \in Nat /\ vj \in Nat /\ tj \in Nat /\ c \in Nat
    BY <1>1, <1>2, <1>3, <2>1, <2>2, Zenon
  <2>4. ej * vj >= c * tj
    BY <1>5, <2>2
  <2>5. v[k] = u[k] * vj /\ t[k] = s[k] * tj
    BY <1>1, <1>2, <2>2, Zenon
  <2>6. CASE k = i
    <3>1. v[k] = vj /\ t[k] = tj
      BY <2>3, <2>5, <2>6
    <3>2. ek = ej
      BY <2>2, <2>6, Zenon DEF QuoteEnding
    <3> QED
      BY <2>1, <2>2, <2>4, <3>1, <3>2
  <2>7. CASE k # i
    <3>1. PICK pk : pk = p[k]
      OBVIOUS
    <3>2. pk \in Nat
      BY <3>1 DEF Filled
    <3>3. ek * (100 * pk + x) >= ej * pk * 100
      BY <2>2, <2>7, <3>1, Zenon DEF QuoteEnding
    <3>5. ek * ((pk + inv) * vj) >= c * (pk * tj)
      BY <2>3, <2>4, <3>2, <3>3, QuoteStep
    <3>6. v[k] = (pk + inv) * vj /\ t[k] = pk * tj
      BY <2>5, <2>7, <3>1, Zenon
    <3>7. e[k] * v[k] >= e[0] * t[k]
      BY <2>2, <3>5, <3>6, Zenon
    <3> QED
      BY <2>1, <3>7
  <2> QED
    BY <2>6, <2>7
<1>6. n \in G
  <2>1. \A k \in 0..n : k \in G
    <3> HIDE DEF G
    <3> QED
      BY <1>4, <1>5, UpTo
  <2> QED
    BY <2>1
<1> QED
  BY <1>1, <1>2, <1>6

\* A bet whose quote exceeds it is given at least its amount by the contract.
LEMMA QuoteIsCovered ==
  ASSUME NEW n \in Nat, NEW p \in Filled(n), NEW i \in 1..n, NEW fee \in 0..99,
         NEW a \in Nat, Quote(p, i, a, fee) > 10 * a
  PROVE  SharesBought(p, i, a, fee) >= a
<1>1. a \in Nat \ {0}
  <2>1. ASSUME a = 0 PROVE FALSE
    <3>1. Quote(p, i, a, fee) = 0
      BY <2>1, Zenon DEF Quote
    <3> QED
      BY <2>1, <3>1
  <2> QED
    BY <2>1
<1>2. PICK x, inv, y : /\ x = a * (100 - fee) /\ inv = Invested(a, fee)
                       /\ y = x \div 10
  OBVIOUS
<1>3. x \in Nat /\ inv \in Nat /\ x <= 100 * inv /\ y \in Nat /\ y <= 10 * inv
  BY <1>2, InvestedCovers
<1>4. PICK e : /\ QuoteEnding(p, i, x, n, e)
               /\ Quote(p, i, a, fee) = 10 * p[i] + y - e[n]
  <2>1. PICK e : QuoteIs(p, i, a, fee, n, e)
    BY <1>1, QuoteEnds, Zenon
  <2> QED
    BY <1>2, <2>1, Zenon DEF QuoteIs
<1>5. p \in [1..n -> Nat] /\ DOMAIN p = 1..n /\ \A j \in 1..n : p[j] \in Nat /\ p[j] > 0
  BY DEF Filled
<1>6. e[n] \in Nat /\ e[0] = 10 * p[i]
  BY <1>4 DEF QuoteEnding
<1> DEFINE s == [j \in 1..n |-> IF j = i THEN 1 ELSE p[j]]
           u == [j \in 1..n |-> IF j = i THEN 1 ELSE p[j] + inv]
<1>7. /\ s \in [1..n -> Nat] /\ s[i] = 1
      /\ u \in [1..n -> Nat] /\ u[i] = 1 /\ \A j \in 1..n : u[j] > 0
      /\ \A j \in 1..n : j # i => s[j] = p[j] /\ u[j] = p[j] + inv
  BY <1>3, <1>5
<1>8. Others(Shift(p, i, inv, 0), i) = u
  <2>1. Shift(p, i, inv, 0) = [j \in 1..n |-> IF j = i THEN 0 ELSE p[j] + inv]
    BY <1>5, Zenon DEF Shift
  <2> QED
    BY <2>1 DEF Others
<1> HIDE DEF s, u
<1>9. PICK P, S, V : P = ProductOf(p) /\ S = ProductOf(s) /\ V = ProductOf(u)
  OBVIOUS
<1>10. P \in Nat /\ S \in Nat /\ V \in Nat \ {0}
  <2>1. ProductOf(p) \in Nat
    BY <1>5, ProductIsPositive
  <2>2. ProductOf(s) \in Nat
    BY <1>7, ProductIsPositive
  <2>3. ProductOf(u) \in Nat /\ ProductOf(u) > 0
    BY <1>7, ProductIsPositive
  <2> QED
    BY <1>9, <2>1, <2>2, <2>3
<1>11. P = p[i] * S
  <2>1. p \in [1..n -> Int] /\ s \in [1..n -> Int]
    BY <1>5, <1>7
  <2>2. \A j \in 1..n : j # i => p[j] = s[j]
    BY <1>7
  <2> QED
    BY <1>7, <1>9, <2>1, <2>2, TakenOut
<1>12. e[n] * V >= e[0] * S
  <2>1. e[n] * ProductOf(u) >= e[0] * ProductOf(s)
    BY <1>3, <1>4, <1>7, EndingAbove, Zenon
  <2> QED
    BY <1>9, <2>1
<1>13. PICK c, d, pi : pi = p[i] /\ d = e[n] /\ c = pi + inv - a
  OBVIOUS
<1>14. pi \in Nat /\ d \in Nat
  BY <1>5, <1>6, <1>13
<1>15. d < 10 * c
  <2>1. 10 * pi + y - d > 10 * a
    BY <1>4, <1>13
  <2> QED
    BY <1>3, <1>13, <1>14, <2>1
<1>16. c \in Nat
  BY <1>3, <1>13, <1>14, <1>15
<1>17. P <= c * V
  <2>1. d * V >= 10 * pi * S
    BY <1>6, <1>12, <1>13
  <2>2. 10 * pi * S = 10 * P
    BY <1>10, <1>11, <1>13, <1>14
  <2>3. d * V <= (10 * c) * V
    BY <1>10, <1>14, <1>15, <1>16
  <2>4. (10 * c) * V = 10 * (c * V)
    BY <1>10, <1>16
  <2>5. c * V \in Nat
    BY <1>10, <1>16
  <2>6. d * V \in Nat
    BY <1>10, <1>14
  <2> QED
    BY <1>10, <2>1, <2>2, <2>3, <2>4, <2>5, <2>6
<1>18. CeilDiv(P, V) <= c
  BY <1>10, <1>16, <1>17, RoundedUp
<1>19. EndingBalance(p, i, inv) = CeilDiv(P, V)
  BY <1>8, <1>9, Zenon DEF EndingBalance
<1>20. SharesBought(p, i, a, fee) = pi + inv - CeilDiv(P, V)
  BY <1>2, <1>13, <1>19, Zenon DEF SharesBought
<1>21. CeilDiv(P, V) \in Nat
  BY <1>10, Quotients
<1> QED
  BY <1>3, <1>13, <1>14, <1>18, <1>20, <1>21

\* A sale takes shares.
LEMMA SaleTakes ==
  ASSUME NEW n \in Nat, NEW p \in Filled(n), NEW i \in 1..n, NEW a \in Nat,
         NEW fee \in 0..99, \A j \in 1..n \ {i} : Gross(a, fee) < p[j]
  PROVE  SharesSold(p, i, a, fee) \in Nat
<1>1. PICK x : x = Gross(a, fee)
  OBVIOUS
<1>2. x \in Nat
  BY <1>1, Fees
<1>3. p \in [1..n -> Nat] /\ DOMAIN p = 1..n /\ \A j \in 1..n : p[j] \in Nat /\ p[j] > 0
  BY DEF Filled
<1>4. \A j \in 1..n : j # i => x < p[j]
  BY <1>1
<1> DEFINE s == [j \in 1..n |-> IF j = i THEN 1 ELSE p[j]]
           u == [j \in 1..n |-> IF j = i THEN 1 ELSE p[j] + (-x)]
<1>5. /\ s \in [1..n -> Nat] /\ s[i] = 1
      /\ u \in [1..n -> Nat] /\ u[i] = 1 /\ \A j \in 1..n : u[j] > 0
      /\ \A j \in 1..n : j # i => p[j] = s[j]
      /\ \A j \in 1..n : u[j] <= s[j]
  BY <1>2, <1>3, <1>4
<1>6. Others(Shift(p, i, -x, 0), i) = u
  <2>1. Shift(p, i, -x, 0) = [j \in 1..n |-> IF j = i THEN 0 ELSE p[j] + (-x)]
    BY <1>3, Zenon DEF Shift
  <2> QED
    BY <2>1 DEF Others
<1> HIDE DEF s, u
<1>7. PICK P, S, V, pi : P = ProductOf(p) /\ S = ProductOf(s) /\ V = ProductOf(u) /\ pi = p[i]
  OBVIOUS
<1>8. P \in Nat /\ S \in Nat /\ V \in Nat \ {0} /\ pi \in Nat
  <2>1. ProductOf(p) \in Nat
    BY <1>3, ProductIsPositive
  <2>2. ProductOf(s) \in Nat
    BY <1>5, ProductIsPositive
  <2>3. ProductOf(u) \in Nat /\ ProductOf(u) > 0
    BY <1>5, ProductIsPositive
  <2>4. pi \in Nat
    BY <1>3, <1>7
  <2> QED
    BY <1>7, <2>1, <2>2, <2>3, <2>4
<1>9. P = pi * S
  <2>1. p \in [1..n -> Int] /\ s \in [1..n -> Int]
    BY <1>3, <1>5
  <2> QED
    BY <1>5, <1>7, <2>1, TakenOut
<1>10. V <= S
  <2>1. V <= u[i] * S
    <3>1. \A j \in 1..n : j # i => u[j] <= s[j]
      BY <1>5
    <3> QED
      BY <1>5, <1>7, <3>1, FactorOut
  <2> QED
    BY <1>5, <1>8, <2>1
<1>11. pi * V <= P
  BY <1>8, <1>9, <1>10
<1>12. pi <= CeilDiv(P, V) /\ CeilDiv(P, V) \in Nat
  BY <1>8, <1>11, RoundedUp, Quotients
<1>13. EndingBalance(p, i, -x) = CeilDiv(P, V)
  BY <1>6, <1>7, Zenon DEF EndingBalance
<1>14. SharesSold(p, i, a, fee) = x + CeilDiv(P, V) - pi
  BY <1>1, <1>7, <1>13, Zenon DEF SharesSold
<1> QED
  BY <1>2, <1>8, <1>12, <1>14

-----------------------------------------------------------------------------
\* Whatever follows the first trade is a sale.
BuyFirst(list) == \A k \in 2..Len(list) : list[k].type = "sell"

LEMMA AppendIs ==
  ASSUME NEW n \in Nat, NEW list \in Seq(Planned(n)), NEW t \in Planned(n)
  PROVE  /\ Append(list, t) \in Seq(Planned(n)) /\ Len(list) \in Nat
         /\ Len(Append(list, t)) = Len(list) + 1
         /\ Append(list, t)[Len(list) + 1] = t
         /\ \A k \in 1..Len(list) : Append(list, t)[k] = list[k]
BY AppendProperties, LenProperties

LEMMA BuysStay ==
  ASSUME MarketOK, HoldingsOK, NEW target, Fits(target), NEW n, n = Len(balances)
  PROVE  /\ Extended(<<>>, target, "buy") \in Seq(Planned(n))
         /\ Len(Extended(<<>>, target, "buy")) <= 1
<1> DEFINE V == Seq(Planned(n))
           Bound(k) == IF target.outcome \in 1..k THEN 1 ELSE 0
           G == [k \in 0..n |-> {l \in V : Len(l) <= Bound(k)}]
<1>1. n \in Nat /\ Indexes = 1..n /\ <<>> \in V
  BY OutcomesAre, EmptySeq DEF MarketOK
<1>2. \A k \in 0..n : G[k] = {l \in V : Len(l) <= Bound(k)}
  <2> HIDE DEF Bound, V
  <2> QED
    OBVIOUS
<1> HIDE DEF G, V
<1>3. <<>> \in G[0]
  <2>1. Len(<<>>) = 0 /\ Bound(0) = 0 /\ 0 \in 0..n
    BY <1>1
  <2>2. Len(<<>>) <= Bound(0)
    BY <2>1
  <2> HIDE DEF Bound
  <2> QED
    BY <1>1, <1>2, <2>1, <2>2, Zenon
<1>4. ASSUME NEW k \in 1..n, NEW l \in V, l \in G[k - 1]
      PROVE  Looked(target, "buy", k, l) \in G[k]
  <2> DEFINE t == Adjustment(target, k)
  <2>1. k \in 0..n /\ k - 1 \in 0..n
    BY <1>1
  <2>2. Len(l) <= Bound(k - 1) /\ Len(l) \in Nat
    <3>1. Len(l) <= Bound(k - 1)
      <4> HIDE DEF Bound
      <4> QED
        BY <1>2, <1>4, <2>1, Zenon
    <3> QED
      BY <3>1, LenProperties DEF V
  <2>3. t \in Planned(n) /\ (t.type = "buy" /\ Wants(target, t) => k = target.outcome)
    BY <1>1, AdjustmentIs, Zenon
  <2>4. Bound(k - 1) \in Nat /\ Bound(k) \in Nat /\ Bound(k - 1) <= Bound(k)
    <3>1. target.outcome \in 1..(k - 1) => target.outcome \in 1..k
      OBVIOUS
    <3> QED
      BY <3>1
  <2> HIDE DEF t
  <2>5. CASE ~(t.type = "buy" /\ Wants(target, t))
    <3>1. Looked(target, "buy", k, l) = l
      BY <2>5, Zenon DEF Looked, t
    <3> HIDE DEF Bound
    <3>2. Len(l) <= Bound(k)
      BY <2>2, <2>4
    <3> QED
      BY <1>2, <2>1, <3>1, <3>2, Zenon
  <2>6. CASE t.type = "buy" /\ Wants(target, t)
    <3>1. Looked(target, "buy", k, l) = Append(l, t)
      BY <2>6, Zenon DEF Looked, t
    <3>2. Append(l, t) \in V /\ Len(Append(l, t)) = Len(l) + 1
      BY <1>1, <2>3, AppendIs DEF V
    <3>3. Bound(k - 1) = 0 /\ Bound(k) = 1
      <4>1. k \notin 1..(k - 1) /\ k \in 1..k
        OBVIOUS
      <4> QED
        BY <2>3, <2>6, <4>1, Zenon
    <3> HIDE DEF Bound
    <3>4. Len(Append(l, t)) <= Bound(k)
      BY <2>2, <3>2, <3>3
    <3> QED
      BY <1>2, <2>1, <3>1, <3>2, <3>4, Zenon
  <2> QED
    BY <2>5, <2>6
<1>5. Extended(<<>>, target, "buy") \in V /\ Extended(<<>>, target, "buy") \in G[n]
  BY <1>1, <1>3, <1>4, ExtendedStays, Zenon DEF V
<1>6. Len(Extended(<<>>, target, "buy")) <= Bound(n)
  <2>1. n \in 0..n
    BY <1>1
  <2> HIDE DEF Bound
  <2> QED
    BY <1>2, <1>5, <2>1, Zenon
<1>7. Len(Extended(<<>>, target, "buy")) \in Nat
  BY <1>5, LenProperties DEF V
<1>8. Len(Extended(<<>>, target, "buy")) <= 1
  BY <1>6, <1>7
<1> QED
  BY <1>5, <1>8, Zenon DEF V

LEMMA SalesStay ==
  ASSUME MarketOK, HoldingsOK, NEW target, Fits(target), NEW n, n = Len(balances),
         NEW list \in Seq(Planned(n)), Len(list) <= 1
  PROVE  BuyFirst(Extended(list, target, "sell"))
<1> DEFINE V == Seq(Planned(n))
           W == {l \in V : BuyFirst(l)}
           G == [k \in 0..n |-> W]
<1>1. n \in Nat /\ Indexes = 1..n
  BY OutcomesAre DEF MarketOK
<1>2. \A k \in 0..n : G[k] = W
  <2> HIDE DEF W
  <2> QED
    OBVIOUS
<1> HIDE DEF G
<1>3. list \in W
  <2>1. Len(list) \in Nat
    BY LenProperties
  <2>2. 2..Len(list) = {}
    BY <2>1
  <2> QED
    BY <2>2, Zenon DEF BuyFirst
<1> HIDE DEF V
<1>4. ASSUME NEW k \in 1..n, NEW l \in V, l \in G[k - 1]
      PROVE  Looked(target, "sell", k, l) \in G[k]
  <2> DEFINE t == Adjustment(target, k)
  <2>1. k \in 0..n /\ k - 1 \in 0..n
    BY <1>1
  <2>2. BuyFirst(l)
    BY <1>2, <1>4, <2>1, Zenon
  <2>3. t \in Planned(n)
    BY <1>1, AdjustmentIs, Zenon
  <2> HIDE DEF t
  <2>4. CASE ~(t.type = "sell" /\ Wants(target, t))
    <3>1. Looked(target, "sell", k, l) = l
      BY <2>4, Zenon DEF Looked, t
    <3> QED
      BY <1>2, <2>1, <2>2, <3>1, Zenon
  <2>5. CASE t.type = "sell" /\ Wants(target, t)
    <3>1. Looked(target, "sell", k, l) = Append(l, t)
      BY <2>5, Zenon DEF Looked, t
    <3>2. /\ Append(l, t) \in V /\ Len(l) \in Nat /\ Len(Append(l, t)) = Len(l) + 1
          /\ Append(l, t)[Len(l) + 1] = t
          /\ \A j \in 1..Len(l) : Append(l, t)[j] = l[j]
      BY <1>1, <2>3, AppendIs DEF V
    <3>3. ASSUME NEW j \in 2..Len(Append(l, t)) PROVE Append(l, t)[j].type = "sell"
      <4>1. CASE j = Len(l) + 1
        BY <2>5, <3>2, <4>1, Zenon
      <4>2. CASE j # Len(l) + 1
        <5>1. j \in 2..Len(l) /\ j \in 1..Len(l)
          BY <3>2, <4>2
        <5> QED
          BY <2>2, <3>2, <5>1, Zenon DEF BuyFirst
      <4> QED
        BY <4>1, <4>2
    <3>4. BuyFirst(Append(l, t))
      BY <3>3, Zenon DEF BuyFirst
    <3> QED
      BY <1>2, <2>1, <3>1, <3>2, <3>4, Zenon
  <2> QED
    BY <2>4, <2>5
<1>5. Extended(list, target, "sell") \in G[n]
  <2>1. 0 \in 0..n
    BY <1>1
  <2>2. list \in G[0]
    BY <1>2, <1>3, <2>1, Zenon
  <2> QED
    BY <1>4, <2>2, ExtendedStays, Zenon DEF V
<1>6. Extended(list, target, "sell") \in W
  <2>1. n \in 0..n
    BY <1>1
  <2> QED
    BY <1>2, <1>5, <2>1, Zenon
<1> QED
  BY <1>6

LEMMA PurchaseFirst ==
  ASSUME MarketOK, HoldingsOK, NEW target, Fits(target)
  PROVE  BuyFirst(Rebalance(target))
<1> DEFINE first == Extended(<<>>, target, "buy")
<1>1. PICK n : n = Len(balances)
  OBVIOUS
<1>2. first \in Seq(Planned(n)) /\ Len(first) <= 1
  BY <1>1, BuysStay, Zenon
<1>3. Rebalance(target) = Extended(first, target, "sell")
  BY Zenon DEF Rebalance
<1> HIDE DEF first
<1> QED
  BY <1>1, <1>2, <1>3, SalesStay, Zenon

LEMMA TailOf ==
  ASSUME NEW n \in Nat, NEW list \in Seq(Planned(n)), list # <<>>
  PROVE  /\ Head(list) = list[1] /\ Len(list) \in Nat /\ Len(list) >= 1
         /\ DOMAIN list = 1..Len(list)
         /\ Len(Tail(list)) = Len(list) - 1
         /\ \A k \in 1..Len(Tail(list)) : Tail(list)[k] = list[k + 1]
BY HeadTailProperties, LenProperties

-----------------------------------------------------------------------------
\* On a pool nobody else moved, the purchase that comes next is still the
\* profitable one of the snapshot: it is the first trade.
BuysWell ==
    thisRun.undisturbed /\ plan # <<>> /\ Head(plan).type = "buy"
        => Profitable(Head(plan).outcome, Head(plan).amount)

LossInv ==
    /\ SpendingInv /\ BuyFirst(plan)
    /\ "undisturbed" \in DOMAIN thisRun
    /\ BuysWell

LEMMA NothingBought ==
  BuyFirst(<<>>)
<1>1. 2..Len(<<>>) = {}
  BY EmptySeq
<1> QED
  BY <1>1, Zenon DEF BuyFirst

LEMMA LossStarts == StrategyInit => LossInv
<1> SUFFICES ASSUME StrategyInit PROVE LossInv
  OBVIOUS
<1>1. plan = <<>> /\ thisRun = NoRun
  BY DEF StrategyInit
<1>2. "undisturbed" \in DOMAIN thisRun
  BY <1>1 DEF NoRun
<1> QED
  BY <1>1, <1>2, SpendingStarts, NothingBought, Zenon DEF LossInv, BuysWell

LEMMA DecideLoss ==
  ASSUME LossInv, Decide
  PROVE  LossInv'
<1>1. SpendingInv /\ MarketOK /\ HoldingsOK
  BY DEF LossInv, SpendingInv
<1>2. UNCHANGED balances
  BY DEF Decide
<1>3. SpendingInv'
  BY <1>1, DecideFits
<1>4. "undisturbed" \in DOMAIN thisRun'
  BY DEF Decide
<1>5. PICK a \in Predictions :
          /\ Len(a.p) = Len(balances)
          /\ \/ \E target \in Targets(a) :
                    plan' = IF Raises(Rebalance(target)) THEN <<>> ELSE Rebalance(target)
             \/ plan' = <<>>
  BY DEF Decide
<1>6. CASE plan' = <<>>
  <2>1. BuyFirst(plan')
    BY <1>6, NothingBought
  <2>2. BuysWell'
    BY <1>6 DEF BuysWell
  <2> QED
    BY <1>3, <1>4, <2>1, <2>2 DEF LossInv, BuyFirst
<1>7. ASSUME NEW target \in Targets(a), plan' = Rebalance(target),
             ~Raises(Rebalance(target))
      PROVE  LossInv'
  <2>1. Fits(target)
    BY <1>1, <1>5, TargetsFit DEF Answered
  <2>2. BuyFirst(plan')
    BY <1>1, <1>7, <2>1, PurchaseFirst
  <2>3. PICK n, l : n = Len(balances) /\ l = plan'
    OBVIOUS
  <2>4. n \in Nat /\ l \in Seq(Planned(n))
    <3>1. plan' \in Seq(Planned(Len(balances)))
      BY <1>1, <1>7, <2>1, RebalanceFits
    <3> QED
      BY <1>1, <2>3, <3>1 DEF MarketOK
  <2>5. ASSUME l # <<>>, Head(l).type = "buy"
        PROVE  Profitable(Head(l).outcome, Head(l).amount)
    <3>1. Head(l) = l[1] /\ 1 \in DOMAIN l
      BY <2>4, <2>5, TailOf
    <3>2. Head(l) \in Range(l)
      BY <3>1 DEF Range
    <3> QED
      BY <1>7, <2>3, <2>5, <3>2 DEF Raises
  <2>6. \A i, b : Profitable(i, b)' = Profitable(i, b)
    BY <1>2 DEF Profitable
  <2>7. BuysWell'
    BY <2>3, <2>5, <1>2 DEF BuysWell, Profitable
  <2> QED
    BY <1>3, <1>4, <2>2, <2>7 DEF LossInv, BuyFirst
<1> QED
  BY <1>5, <1>6, <1>7

\* After a trade only sales are left.
LEMMA TradeLoss ==
  ASSUME LossInv, SpendingInv', plan # <<>>, plan' = Tail(plan),
         "undisturbed" \in DOMAIN thisRun'
  PROVE  LossInv'
<1>1. PICK n, l : n = Len(balances) /\ l = plan
  OBVIOUS
<1>2. n \in Nat /\ l \in Seq(Planned(n)) /\ BuyFirst(l) /\ l # <<>>
  BY <1>1 DEF LossInv, SpendingInv, MarketOK
<1>3. PICK r : r = Tail(l)
  OBVIOUS
<1>4. /\ Len(l) \in Nat /\ Len(l) >= 1 /\ Len(r) = Len(l) - 1
      /\ \A k \in 1..Len(r) : r[k] = l[k + 1]
  BY <1>2, <1>3, TailOf
<1>5. \A k \in 1..Len(r) : r[k].type = "sell"
  <2>1. \A k \in 1..Len(r) : k + 1 \in 2..Len(l)
    BY <1>4
  <2> QED
    BY <1>2, <1>4, <2>1, Zenon DEF BuyFirst
<1>6. BuyFirst(r)
  <2>1. \A k \in 2..Len(r) : k \in 1..Len(r)
    BY <1>4
  <2> QED
    BY <1>5, <2>1, Zenon DEF BuyFirst
<1>7. r # <<>> => Head(r).type = "sell"
  <2> SUFFICES ASSUME r # <<>> PROVE Head(r).type = "sell"
    OBVIOUS
  <2>1. r \in Seq(Planned(n))
    BY <1>2, <1>3, PurchasesTail
  <2>2. Head(r) = r[1] /\ 1 \in 1..Len(r)
    BY <1>2, <2>1, TailOf
  <2> QED
    BY <1>5, <2>2, Zenon
<1>8. plan' = r
  BY <1>1, <1>3
<1>9. BuysWell'
  BY <1>7, <1>8 DEF BuysWell
<1> QED
  BY <1>6, <1>8, <1>9 DEF LossInv, BuyFirst

LEMMA LossKept == LossInv /\ [StrategyNext]_strategyVars => LossInv'
<1> SUFFICES ASSUME LossInv, [StrategyNext]_strategyVars PROVE LossInv'
  OBVIOUS
<1>1. SpendingInv /\ SpendingInv' /\ "undisturbed" \in DOMAIN thisRun
  BY SpendingKept DEF LossInv
<1>2. CASE Decide
  BY <1>2, DecideLoss
<1>3. CASE PlaceBuy
  <2>1. plan # <<>> /\ plan' = Tail(plan)
    BY <1>3 DEF PlaceBuy, IsNext
  <2>2. "undisturbed" \in DOMAIN thisRun'
    BY <1>1, <1>3 DEF PlaceBuy
  <2> QED
    BY <1>1, <2>1, <2>2, TradeLoss
<1>4. CASE PlaceSell
  <2>1. plan # <<>> /\ plan' = Tail(plan)
    BY <1>4 DEF PlaceSell, IsNext
  <2>2. "undisturbed" \in DOMAIN thisRun'
    BY <1>1, <1>4 DEF PlaceSell
  <2> QED
    BY <1>1, <2>1, <2>2, TradeLoss
<1>5. CASE UNCHANGED <<balances, plan, thisRun>>
  BY <1>1, <1>5 DEF LossInv, BuyFirst, BuysWell, Profitable
<1>6. CASE Finish
  BY <1>5, <1>6 DEF Finish
<1>7. CASE OtherBets
  <2>1. /\ plan' = plan
        /\ thisRun' = [thisRun EXCEPT !.undisturbed = FALSE, !.alone = FALSE]
    BY <1>7 DEF OtherBets
  <2>2. "undisturbed" \in DOMAIN thisRun' /\ thisRun'.undisturbed = FALSE
    BY <1>1, <2>1
  <2>3. BuysWell'
    BY <2>2 DEF BuysWell
  <2> QED
    BY <1>1, <2>1, <2>2, <2>3 DEF LossInv, BuyFirst
<1>8. CASE UNCHANGED strategyVars
  BY <1>5, <1>8 DEF strategyVars
<1>9. CASE GetStrategy
  BY <1>5, <1>9 DEF GetStrategy
<1>10. CASE ReadPosition
  <2>1. plan' = plan /\ thisRun' = [NoRun EXCEPT !.alone = TRUE]
    BY <1>10 DEF ReadPosition
  <2>2. "undisturbed" \in DOMAIN thisRun' /\ thisRun'.undisturbed = FALSE
    BY <2>1 DEF NoRun
  <2>3. BuysWell'
    BY <2>2 DEF BuysWell
  <2> QED
    BY <1>1, <2>1, <2>2, <2>3 DEF LossInv, BuyFirst
<1> QED
  BY <1>2, <1>3, <1>4, <1>6, <1>7, <1>8, <1>9, <1>10 DEF StrategyNext

\* The step of which NoGuaranteedLoss speaks.
WinsEnough ==
    \A i \in Indexes :
        pc = "trade" /\ thisRun.undisturbed /\ position'[i] > position[i]
            => position'[i] - position[i] >= Head(plan).amount

LEMMA BuyWins ==
  ASSUME LossInv, PlaceBuy
  PROVE  WinsEnough
<1>1. PICK n, i, a : n = Len(balances) /\ i = Head(plan).outcome /\ a = Head(plan).amount
  OBVIOUS
<1>2. /\ MarketOK /\ HoldingsOK /\ plan # <<>> /\ Head(plan).type = "buy"
      /\ i \in Indexes /\ a \in Nat /\ position[i] \in Nat
      /\ n \in Nat /\ balances \in Filled(n) /\ Indexes = 1..n /\ MarketFee \in 0..99
  BY <1>1, NextTrade, Zenon DEF PlaceBuy, LossInv
<1>3. PICK b : b = SharesBought(balances, i, a, MarketFee)
  OBVIOUS
<1>4. position' = [position EXCEPT ![i] = @ + b]
  BY <1>1, <1>3, Zenon DEF PlaceBuy
<1>5. b \in Nat
  BY <1>2, <1>3, Purchase
<1>6. position \in [Indexes -> Nat]
  BY <1>2 DEF HoldingsOK
<1>7. ASSUME thisRun.undisturbed PROVE b >= a
  <2>1. Profitable(i, a)
    BY <1>1, <1>2, <1>7 DEF LossInv, BuysWell
  <2>2. Quote(balances, i, a, MarketFee) > 10 * a
    BY <2>1 DEF Profitable
  <2> QED
    BY <1>2, <1>3, <2>2, QuoteIsCovered
<1>8. ASSUME NEW j \in Indexes, thisRun.undisturbed, position'[j] > position[j]
      PROVE  position'[j] - position[j] >= a
  <2>1. CASE j = i
    <3>1. position'[j] = position[j] + b /\ position[j] \in Nat
      BY <1>4, <1>6, <2>1
    <3> QED
      BY <1>2, <1>5, <1>7, <1>8, <3>1
  <2>2. CASE j # i
    <3>1. position'[j] = position[j] /\ position[j] \in Nat
      BY <1>4, <1>6, <2>2
    <3> QED
      BY <1>8, <3>1
  <2> QED
    BY <2>1, <2>2
<1> QED
  BY <1>1, <1>8 DEF WinsEnough

\* A sale adds to no position.
LEMMA SellTakes ==
  ASSUME LossInv, PlaceSell
  PROVE  WinsEnough
<1>1. PICK n, i, s : n = Len(balances) /\ i = Head(plan).outcome /\ s = position[i]
  OBVIOUS
<1>2. /\ MarketOK /\ HoldingsOK /\ plan # <<>>
      /\ i \in Indexes /\ Head(plan).amount \in Nat /\ s \in Nat
      /\ n \in Nat /\ balances \in Filled(n) /\ Indexes = 1..n /\ MarketFee \in 0..99
  BY <1>1, NextTrade, Zenon DEF PlaceSell, LossInv
<1>3. PICK a, b : /\ a = Lesser(Head(plan).amount, SaleValue(i))
                  /\ b = SharesSold(balances, i, a, MarketFee)
  OBVIOUS
<1>4. position' = [position EXCEPT ![i] = @ - b]
  BY <1>1, <1>3, Zenon DEF PlaceSell
<1>5. SaleValue(i) = SellAmount(balances, i, s, MarketFee) /\ SaleValue(i) \in Nat
  BY <1>1, <1>2, SaleValueIsNat DEF SaleValue
<1>6. a \in Nat /\ a <= SellAmount(balances, i, s, MarketFee) /\ i \in 1..n
  BY <1>2, <1>3, <1>5 DEF Lesser
<1>7. \A j \in 1..n \ {i} : Gross(a, MarketFee) < balances[j]
  BY <1>2, <1>6, SaleFits
<1>8. b \in Nat
  BY <1>2, <1>3, <1>6, <1>7, SaleTakes
<1>9. position \in [Indexes -> Nat]
  BY <1>2 DEF HoldingsOK
<1>10. ASSUME NEW j \in Indexes PROVE ~(position'[j] > position[j])
  <2>1. CASE j = i
    <3>1. position'[j] = position[j] - b /\ position[j] \in Nat
      BY <1>4, <1>9, <2>1
    <3> QED
      BY <1>8, <3>1
  <2>2. CASE j # i
    <3>1. position'[j] = position[j] /\ position[j] \in Nat
      BY <1>4, <1>9, <2>2
    <3> QED
      BY <3>1
  <2> QED
    BY <2>1, <2>2
<1> QED
  BY <1>10 DEF WinsEnough

LEMMA WinsAlways == LossInv /\ [StrategyNext]_strategyVars => [WinsEnough]_strategyVars
<1> SUFFICES ASSUME LossInv, [StrategyNext]_strategyVars PROVE WinsEnough
  OBVIOUS
<1>1. CASE PlaceBuy
  BY <1>1, BuyWins
<1>2. CASE PlaceSell
  BY <1>2, SellTakes
<1>3. CASE position' = position
  <2>1. ASSUME NEW i \in Indexes PROVE ~(position'[i] > position[i])
    <3>1. position[i] \in Nat
      BY DEF LossInv, SpendingInv, HoldingsOK
    <3> QED
      BY <1>3, <3>1
  <2> QED
    BY <2>1 DEF WinsEnough
<1>4. CASE \/ ReadPosition \/ GetStrategy \/ Decide \/ Finish \/ OtherBets
           \/ UNCHANGED strategyVars
  BY <1>3, <1>4 DEF ReadPosition, GetStrategy, Decide, Finish, OtherBets, strategyVars
<1> QED
  BY <1>1, <1>2, <1>4 DEF StrategyNext

(* A purchase on a pool that nobody else moved since the trades were       *)
(* calculated gets at least as many tokens as it costs, for any pools, fee *)
(* and answers: the check for a guaranteed loss, made on the snapshot with *)
(* the agent's own formula, holds for the contract that is asked later.    *)
THEOREM NoSureLoss == StrategySpec => NoGuaranteedLoss
<1>1. NoGuaranteedLoss <=> [][WinsEnough]_strategyVars
  BY Zenon DEF NoGuaranteedLoss, WinsEnough
<1> QED
  BY <1>1, LossStarts, LossKept, WinsAlways, PTL DEF StrategySpec
=============================================================================
