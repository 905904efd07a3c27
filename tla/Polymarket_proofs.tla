-------------------------- MODULE Polymarket_proofs --------------------------
(***************************************************************************)
(* Proofs about the two agents of markets/polymarket: about CopyTrader,    *)
(* for any page size, offset cap, look-back and second, and any numbers of *)
(* trades, crashes and exceptions; and about Polymarket, for any markets,  *)
(* events, amounts, page size and earlier trades, and any numbers of       *)
(* orders and days.                                                        *)
(***************************************************************************)
EXTENDS Polymarket, CopyTrader, FiniteSetTheorems, SequenceTheorems,
        WellFoundedInduction, TLAPS

\* A set of naturals has a least element.
LEMMA LeastNatural ==
  ASSUME NEW T, T \subseteq Nat, T # {}
  PROVE  \E x \in T : \A y \in T : x <= y
<1> DEFINE R == {ss \in Nat \X Nat : ss[1] < ss[2]}
<1>1. IsWellFoundedOn(R, Nat)
  BY NatLessThanWellFounded, Zenon DEF OpToRel
<1>2. \E x \in T : \A y \in T : <<y, x>> \notin R
  BY <1>1, WFMin, Zenon
<1>3. \A x, y \in Nat : y < x => <<y, x>> \in R
  OBVIOUS
<1>4. PICK x \in T : \A y \in T : <<y, x>> \notin R
  BY <1>2
<1>5. \A y \in T : ~(y < x)
  BY <1>3, <1>4, Zenon
<1> QED
  BY <1>5

-----------------------------------------------------------------------------
(* Copy trading *)

StateFiles == [kind : {"absent", "torn", "written"}, replicated : SUBSET Trades,
           lastPoll : Nat \cup {None}]

TypeOK ==
    /\ hasFile \in BOOLEAN /\ now \in Nat
    /\ stamp \in Seq(Nat) /\ Len(stamp) <= MaxTrades
    /\ listed \subseteq Trades
    /\ pc \in {"idle", "fetch", "replicate", "save", "down", "broken"}
    /\ replicated \subseteq Trades /\ lastPoll \in Nat \cup {None}
    /\ since \in Nat /\ offset \in Nat
    /\ fetched \in Seq(listed) /\ queue \in Seq(listed)
    /\ file \in StateFiles
    /\ placed \in [1..MaxTrades -> Nat]
    /\ crashes \in Nat /\ raises \in Nat
    /\ considered \subseteq Trades /\ unsure \subseteq Trades

Up == pc \notin {"down", "broken"}

\* What is remembered of the trades that were replicated.
Memory == IF Up THEN replicated ELSE file.replicated

\* Only trades of the feed are replicated, and the file knows no more than
\* the process; a trade replicated is remembered.
Remembered ==
    /\ \A i \in 1..MaxTrades : placed[i] > 0 => i \in listed
    /\ \A i \in replicated \cup file.replicated : placed[i] > 0
    /\ Up => file.replicated \subseteq replicated
    /\ \A i \in (1..MaxTrades) \ unsure :
           placed[i] <= 1 /\ (placed[i] = 1 => i \in Memory)

\* A trade is fetched twice only when the feed moved, and one is queued that
\* was not replicated.
FetchedOnce ==
    \A j, k \in 1..Len(fetched) :
        fetched[j] = fetched[k] => j = k \/ fetched[k] \in unsure

QueuedOnce ==
    /\ queue # <<>> => pc = "replicate"
    /\ \A j, k \in 1..Len(queue) :
           queue[j] = queue[k] => j = k \/ queue[k] \in unsure
    /\ \A k \in 1..Len(queue) : queue[k] \notin replicated \/ queue[k] \in unsure
    /\ \A k \in 1..Len(queue) : queue[k] \notin file.replicated

Once == Remembered /\ FetchedOnce /\ QueuedOnce

\* What was considered, up to the last poll.
Known ==
    /\ replicated \cup file.replicated \subseteq considered
    /\ KnownPoll # None =>
           \A i \in listed \ excused : stamp[i] < KnownPoll => i \in considered

\* The process knows of the file's last poll, which is past.
Polls ==
    /\ \A t \in {lastPoll, file.lastPoll} : t # None => t <= now
    /\ Up /\ file.lastPoll # None => lastPoll # None /\ file.lastPoll <= lastPoll
    /\ ~Up => lastPoll = None

\* The interval being polled starts where the last one ended.
Interval ==
    pc \in {"fetch", "replicate"} =>
        /\ lastPoll # None => since = lastPoll
        /\ lastPoll = None => \A i \in listed \ excused : stamp[i] >= since

\* The place of a trade in the feed, from 0.
Rank(i) == Cardinality({j \in listed : j > i})

\* What the pages fetched so far missed is older than their end, and what
\* the poll will not consider is excused.
Covered ==
    /\ BeyondCap(listed) \subseteq excused
    /\ pc = "fetch" =>
           \A i \in listed \ excused :
               Rank(i) < offset /\ stamp[i] >= since => i \in ToSet(fetched)
    /\ pc = "replicate" =>
           \A i \in listed \ excused :
               stamp[i] >= since => i \in considered \cup ToSet(queue)

Found == Known /\ Polls /\ Interval /\ Covered

IInv == TypeOK /\ Once /\ Found

\* f lists S in the order R, a set of pairs.
Lists(f, S, R) ==
    /\ f \in [1..Cardinality(S) -> S]
    /\ \A j, k \in 1..Cardinality(S) : j < k => <<f[j], f[k]>> \in R

\* A finite set can be listed in an order in which each of its subsets has a
\* first element.
LEMMA Listable ==
  ASSUME NEW S, IsFiniteSet(S), NEW R,
         \A T \in SUBSET S : T # {} => \E x \in T : \A y \in T \ {x} : <<x, y>> \in R
  PROVE  \E f : Lists(f, S, R)
<1> DEFINE Wrong == {n \in Nat : \E T \in SUBSET S :
                         Cardinality(T) = n /\ \A f : ~Lists(f, T, R)}
<1>1. ASSUME Wrong # {} PROVE FALSE
  <2>1. PICK n \in Wrong : \A m \in Wrong : n <= m
    BY <1>1, LeastNatural
  <2>2. PICK T \in SUBSET S : Cardinality(T) = n /\ \A f : ~Lists(f, T, R)
    BY <2>1
  <2>3. IsFiniteSet(T)
    BY FS_Subset
  <2>4. n # 0
    <3>1. ASSUME n = 0 PROVE FALSE
      <4>1. T = {} /\ Cardinality(T) = 0
        BY <2>2, <2>3, <3>1, FS_EmptySet
      <4>2. Lists([k \in 1..0 |-> k], T, R)
        BY <4>1 DEF Lists
      <4> QED
        BY <2>2, <4>2
    <3> QED
      BY <3>1
  <2>5. T # {}
    BY <2>2, <2>4, FS_EmptySet
  <2>6. PICK x \in T : \A y \in T \ {x} : <<x, y>> \in R
    BY <2>5
  <2>7. T \ {x} \in SUBSET S /\ Cardinality(T \ {x}) = n - 1 /\ n - 1 \in Nat
    BY <2>2, <2>3, <2>4, FS_RemoveElement
  <2>8. PICK f : Lists(f, T \ {x}, R)
    BY <2>1, <2>7
  <2> DEFINE g == [k \in 1..n |-> IF k = 1 THEN x ELSE f[k - 1]]
  <2>9. f \in [1..(n - 1) -> T \ {x}] /\ \A j, k \in 1..(n - 1) : j < k => <<f[j], f[k]>> \in R
    BY <2>7, <2>8 DEF Lists
  <2>10. g \in [1..n -> T]
    BY <2>9
  <2>11. ASSUME NEW j \in 1..n, NEW k \in 1..n, j < k PROVE <<g[j], g[k]>> \in R
    <3>1. k - 1 \in 1..(n - 1) /\ g[k] = f[k - 1]
      BY <2>11
    <3>2. CASE j = 1
      BY <2>6, <2>9, <3>1, <3>2
    <3>3. CASE j # 1
      <4>1. j - 1 \in 1..(n - 1) /\ j - 1 < k - 1 /\ g[j] = f[j - 1]
        BY <2>11, <3>3
      <4>2. <<f[j - 1], f[k - 1]>> \in R
        BY <2>9, <3>1, <4>1
      <4> QED
        BY <3>1, <4>1, <4>2
    <3> QED
      BY <3>2, <3>3
  <2>12. Lists(g, T, R)
    BY <2>2, <2>10, <2>11 DEF Lists
  <2> QED
    BY <2>2, <2>12
<1>2. Cardinality(S) \in Nat
  BY FS_CardinalityType
<1> QED
  BY <1>1, <1>2

\* A listing without repetition lists everything.
LEMMA ListsAll ==
  ASSUME NEW S, IsFiniteSet(S), NEW f \in [1..Cardinality(S) -> S],
         \A j, k \in 1..Cardinality(S) : j < k => f[j] # f[k]
  PROVE  /\ Cardinality(S) \in Nat
         /\ \A j, k \in 1..Cardinality(S) : f[j] = f[k] => j = k
         /\ \A s \in S : \E k \in 1..Cardinality(S) : f[k] = s
<1>1. Cardinality(S) \in Nat
  BY FS_CardinalityType
<1>2. \A j, k \in 1..Cardinality(S) : f[j] = f[k] => j = k
  BY <1>1
<1>3. f \in Injection(1..Cardinality(S), S)
  BY <1>2 DEF Injection, IsInjective
<1>4. IsFiniteSet(1..Cardinality(S)) /\ Cardinality(1..Cardinality(S)) = Cardinality(S)
  BY <1>1, FS_Interval
<1>5. f \in Surjection(1..Cardinality(S), S)
  BY <1>3, <1>4, FS_Injection
<1> QED
  BY <1>1, <1>2, <1>5 DEF Surjection

-----------------------------------------------------------------------------
\* The trades are the first numbers, and finitely many.
LEMMA TradesFinite ==
  ASSUME TypeOK
  PROVE  /\ Trades = 1..Len(stamp) /\ Len(stamp) \in 0..MaxTrades
         /\ Trades \subseteq 1..MaxTrades /\ listed \subseteq 1..MaxTrades
         /\ IsFiniteSet(listed) /\ Cardinality(listed) \in Nat
         /\ \A i \in Trades : stamp[i] \in Nat
<1>1. Trades = 1..Len(stamp) /\ Len(stamp) \in 0..MaxTrades /\ \A i \in Trades : stamp[i] \in Nat
  <2>1. stamp \in Seq(Nat) /\ Len(stamp) <= MaxTrades
    BY DEF TypeOK
  <2>2. Len(stamp) \in Nat /\ DOMAIN stamp = 1..Len(stamp)
    BY <2>1, LenProperties
  <2>3. \A i \in 1..Len(stamp) : stamp[i] \in Nat
    BY <2>1, ElementOfSeq
  <2> QED
    BY <2>1, <2>2, <2>3, CopyAssumption DEF Trades
<1>2. listed \subseteq 1..Len(stamp)
  BY <1>1 DEF TypeOK
<1>3. IsFiniteSet(1..Len(stamp))
  BY <1>1, FS_Interval
<1>4. IsFiniteSet(listed)
  BY <1>2, <1>3, FS_Subset
<1> QED
  BY <1>1, <1>2, <1>4, FS_CardinalityType, CopyAssumption

\* The feed serves every listed trade once, newest first: each is at the place
\* of its rank.
LEMMA FeedListed ==
  ASSUME TypeOK
  PROVE  /\ Feed \in Seq(listed) /\ Len(Feed) = Cardinality(listed)
         /\ Len(Feed) \in Nat
         /\ \A j, k \in 1..Len(Feed) : Feed[j] = Feed[k] => j = k
         /\ \A i \in listed : /\ Rank(i) \in 0..(Len(Feed) - 1)
                              /\ Feed[Rank(i) + 1] = i
<1> DEFINE n == Cardinality(listed)
           R == {ss \in Nat \X Nat : ss[1] > ss[2]}
<1>1. IsFiniteSet(listed) /\ n \in Nat /\ listed \subseteq 1..MaxTrades /\ MaxTrades \in Nat
  BY TradesFinite, CopyAssumption
<1>2. ASSUME NEW T \in SUBSET listed, T # {}
      PROVE  \E x \in T : \A y \in T \ {x} : <<x, y>> \in R
  <2> DEFINE U == {MaxTrades - y : y \in T}
  <2>1. U \subseteq Nat /\ U # {}
    <3>1. \A y \in T : MaxTrades - y \in Nat
      BY <1>1
    <3> QED
      BY <1>2, <3>1
  <2>2. PICK u \in U : \A v \in U : u <= v
    BY <2>1, LeastNatural
  <2>3. PICK x \in T : u = MaxTrades - x
    BY <2>2
  <2>4. ASSUME NEW y \in T \ {x} PROVE x > y /\ x \in Nat /\ y \in Nat
    <3>1. MaxTrades - x <= MaxTrades - y
      BY <2>2, <2>3
    <3> QED
      BY <1>1, <3>1
  <2> QED
    BY <2>4
<1>3. PICK f : Lists(f, listed, R)
  BY <1>1, <1>2, Listable
<1>4. Feed \in [1..n -> listed] /\ \A j, k \in 1..n : j < k => Feed[j] > Feed[k]
  <2>1. f \in [1..n -> listed] /\ \A j, k \in DOMAIN f : j < k => f[j] > f[k]
    BY <1>3 DEF Lists
  <2> QED
    BY <2>1, Zenon DEF Feed, Sorted
<1> HIDE DEF R
<1>5. Feed \in Seq(listed) /\ Len(Feed) = n
  BY <1>1, <1>4
<1>6. \A j, k \in 1..n : j < k => Feed[j] # Feed[k]
  <2>1. \A j \in 1..n : Feed[j] \in Nat
    <3>1. \A j \in 1..n : Feed[j] \in listed
      BY <1>4
    <3>2. \A i \in listed : i \in Nat
      BY <1>1
    <3> QED
      BY <3>1, <3>2
  <2>2. \A a, b \in Nat : a > b => a # b
    OBVIOUS
  <2> QED
    BY <1>4, <2>1, <2>2
<1>7. /\ \A j, k \in 1..n : Feed[j] = Feed[k] => j = k
      /\ \A i \in listed : \E k \in 1..n : Feed[k] = i
  BY <1>1, <1>4, <1>6, ListsAll
<1>8. ASSUME NEW i \in listed
      PROVE  Rank(i) \in 0..(n - 1) /\ Feed[Rank(i) + 1] = i
  <2>1. PICK k \in 1..n : Feed[k] = i
    BY <1>7
  <2> DEFINE newer == {j \in listed : j > i}
             g == [m \in 1..(k - 1) |-> Feed[m]]
  <2>2. \A m \in 1..(k - 1) : m \in 1..n /\ Feed[m] > i
    BY <1>1, <1>4, <2>1
  <2>3. g \in Injection(1..(k - 1), newer)
    BY <1>4, <1>7, <2>2 DEF Injection, IsInjective
  <2>4. ASSUME NEW j \in newer PROVE \E m \in 1..(k - 1) : g[m] = j
    <3>1. PICK m \in 1..n : Feed[m] = j
      BY <1>7
    <3>2. j > i /\ i \in Nat /\ j \in Nat
      BY <1>1
    <3>3. ~(k < m) /\ k # m
      BY <1>4, <2>1, <3>1, <3>2
    <3> QED
      BY <3>1, <3>3
  <2>5. g \in Bijection(1..(k - 1), newer)
    BY <2>3, <2>4 DEF Bijection, Surjection, Injection
  <2>6. IsFiniteSet(1..(k - 1)) /\ Cardinality(1..(k - 1)) = k - 1
    BY FS_Interval
  <2>7. Cardinality(newer) = k - 1
    BY <2>5, <2>6, FS_Bijection DEF ExistsBijection
  <2> QED
    BY <1>1, <2>1, <2>7 DEF Rank
<1> QED
  BY <1>1, <1>5, <1>7, <1>8

\* s holds the items of seq at some positions, each once.
Selects(s, seq, P) ==
    \E f \in [1..Len(s) -> P] :
        /\ \A k \in 1..Len(s) : s[k] = seq[f[k]]
        /\ \A j, k \in 1..Len(s) : f[j] = f[k] => j = k
        /\ \A p \in P : \E k \in 1..Len(s) : f[k] = p

\* What an order of the positions selects.
LEMMA OrderSelects ==
  ASSUME NEW S, NEW seq \in Seq(S), NEW P, P \subseteq 1..Len(seq),
         NEW f \in [1..Cardinality(P) -> P], NEW R, Lists(f, P, R),
         \A p \in P : <<p, p>> \notin R,
         NEW s, s = [k \in DOMAIN f |-> seq[f[k]]]
  PROVE  s \in Seq(S) /\ Selects(s, seq, P)
<1>1. IsFiniteSet(P) /\ Cardinality(P) \in Nat
  <2>1. Len(seq) \in Nat
    BY LenProperties
  <2>2. IsFiniteSet(1..Len(seq))
    BY <2>1, FS_Interval
  <2> QED
    BY <2>2, FS_Subset, FS_CardinalityType
<1>2. \A j, k \in 1..Cardinality(P) : j < k => f[j] # f[k]
  BY DEF Lists
<1>3. /\ \A j, k \in 1..Cardinality(P) : f[j] = f[k] => j = k
      /\ \A p \in P : \E k \in 1..Cardinality(P) : f[k] = p
  BY <1>1, <1>2, ListsAll
<1>4. \A i \in 1..Len(seq) : seq[i] \in S
  BY ElementOfSeq
<1>5. s \in [1..Cardinality(P) -> S]
  BY <1>4
<1>6. s \in Seq(S) /\ Len(s) = Cardinality(P)
  BY <1>1, <1>5
<1>7. \A k \in 1..Cardinality(P) : s[k] = seq[f[k]]
  OBVIOUS
<1> QED
  BY <1>3, <1>6, <1>7 DEF Selects

\* The trades of a page that are new enough.
LEMMA NewEnoughSelects ==
  ASSUME TypeOK, NEW page \in Seq(listed)
  PROVE  /\ NewEnough(page) \in Seq(listed)
         /\ Selects(NewEnough(page), page,
                    {k \in 1..Len(page) : stamp[page[k]] >= since})
<1> DEFINE P == {k \in DOMAIN page : stamp[page[k]] >= since}
           R == {ss \in Nat \X Nat : ss[1] < ss[2]}
<1>1. DOMAIN page = 1..Len(page) /\ Len(page) \in Nat /\ P \subseteq 1..Len(page)
  BY LenProperties
<1>2. IsFiniteSet(P)
  <2> HIDE DEF P
  <2>1. IsFiniteSet(1..Len(page))
    BY <1>1, FS_Interval
  <2> QED
    BY <1>1, <2>1, FS_Subset
<1>3. ASSUME NEW T \in SUBSET P, T # {}
      PROVE  \E x \in T : \A y \in T \ {x} : <<x, y>> \in R
  <2>1. T \subseteq Nat
    BY <1>1
  <2>2. PICK x \in T : \A y \in T : x <= y
    BY <1>3, <2>1, LeastNatural
  <2>3. \A y \in T \ {x} : x \in Nat /\ y \in Nat /\ x < y
    BY <2>1, <2>2
  <2> QED
    BY <2>3
<1> DEFINE ranks == Sorted(P, LAMBDA a, b : a < b)
<1> HIDE DEF P
<1>4. PICK f : Lists(f, P, R)
  BY <1>2, <1>3, Listable
<1>5. /\ ranks \in [1..Cardinality(P) -> P]
      /\ \A j, k \in DOMAIN ranks : j < k => ranks[j] < ranks[k]
  <2>1. f \in [1..Cardinality(P) -> P] /\ \A j, k \in DOMAIN f : j < k => f[j] < f[k]
    BY <1>4 DEF Lists
  <2> QED
    BY <2>1, Zenon DEF Sorted
<1>6. Lists(ranks, P, R)
  <2>1. \A x, y \in P : x < y => <<x, y>> \in R
    BY <1>1
  <2> HIDE DEF R, ranks
  <2> QED
    BY <1>5, <2>1 DEF Lists
<1>7. \A p \in P : <<p, p>> \notin R
  BY <1>1
<1>8. NewEnough(page) = [k \in DOMAIN ranks |-> page[ranks[k]]]
  BY Zenon DEF NewEnough, Items, P
<1> HIDE DEF R, ranks
<1>9. NewEnough(page) \in Seq(listed) /\ Selects(NewEnough(page), page, P)
  BY <1>1, <1>5, <1>6, <1>7, <1>8, OrderSelects
<1> QED
  BY <1>1, <1>9 DEF P

\* The trades fetched that are not known to be replicated.
LEMMA QueueSelects ==
  ASSUME TypeOK, NEW trades \in Seq(listed)
  PROVE  /\ QueueOf(trades) \in Seq(listed)
         /\ Selects(QueueOf(trades), trades,
                    {k \in 1..Len(trades) : trades[k] \notin replicated})
<1> DEFINE P == {k \in DOMAIN trades : trades[k] \notin replicated}
           R == {ss \in Nat \X Nat : Before(trades, ss[1], ss[2])}
<1>1. DOMAIN trades = 1..Len(trades) /\ Len(trades) \in Nat /\ P \subseteq 1..Len(trades)
  BY LenProperties
<1>2. IsFiniteSet(P)
  <2> HIDE DEF P
  <2>1. IsFiniteSet(1..Len(trades))
    BY <1>1, FS_Interval
  <2> QED
    BY <1>1, <2>1, FS_Subset
<1>3. \A k \in P : k \in Nat /\ stamp[trades[k]] \in Nat
  <2>1. \A k \in 1..Len(trades) : trades[k] \in listed
    BY ElementOfSeq
  <2>2. \A i \in listed : stamp[i] \in Nat
    BY TradesFinite DEF TypeOK
  <2> QED
    BY <1>1, <2>1, <2>2
<1>4. ASSUME NEW T \in SUBSET P, T # {}
      PROVE  \E x \in T : \A y \in T \ {x} : <<x, y>> \in R
  <2> DEFINE stamps == {stamp[trades[k]] : k \in T}
  <2>1. stamps \subseteq Nat /\ stamps # {}
    BY <1>3, <1>4
  <2>2. PICK first \in stamps : \A u \in stamps : first <= u
    BY <2>1, LeastNatural
  <2> DEFINE U == {k \in T : stamp[trades[k]] = first}
  <2>3. U \subseteq Nat /\ U # {}
    BY <1>3, <2>2
  <2>4. PICK x \in U : \A y \in U : x <= y
    BY <2>3, LeastNatural
  <2>5. ASSUME NEW y \in T \ {x} PROVE Before(trades, x, y) /\ x \in Nat /\ y \in Nat
    <3>1. first <= stamp[trades[y]] /\ stamp[trades[x]] = first
      BY <2>2, <2>4
    <3>2. y \in U => x <= y
      BY <2>4
    <3>3. x \in Nat /\ y \in Nat /\ first \in Nat /\ stamp[trades[y]] \in Nat /\ x # y
      BY <1>3, <2>1, <2>4
    <3> QED
      BY <3>1, <3>2, <3>3 DEF Before
  <2> QED
    BY <2>4, <2>5
<1> DEFINE ranks == Sorted(P, LAMBDA a, b : Before(trades, a, b))
<1> HIDE DEF P
<1>5. PICK f : Lists(f, P, R)
  BY <1>2, <1>4, Listable
<1>6. /\ ranks \in [1..Cardinality(P) -> P]
      /\ \A j, k \in DOMAIN ranks : j < k => Before(trades, ranks[j], ranks[k])
  <2>1. /\ f \in [1..Cardinality(P) -> P]
        /\ \A j, k \in DOMAIN f : j < k => Before(trades, f[j], f[k])
    BY <1>5 DEF Lists
  <2> QED
    BY <2>1, Zenon DEF Sorted
<1>7. Lists(ranks, P, R)
  BY <1>3, <1>6 DEF Lists
<1>8. \A p \in P : <<p, p>> \notin R
  BY <1>3 DEF Before
<1>9. QueueOf(trades) = [k \in DOMAIN ranks |-> trades[ranks[k]]]
  BY Zenon DEF QueueOf, Items, P
<1> HIDE DEF R, ranks
<1>10. QueueOf(trades) \in Seq(listed) /\ Selects(QueueOf(trades), trades, P)
  BY <1>1, <1>6, <1>7, <1>8, <1>9, OrderSelects
<1> QED
  BY <1>1, <1>10 DEF P

\* A page serves the trades whose places it covers, each once, and it is short
\* only at the end of the feed.
LEMMA PageServes ==
  ASSUME TypeOK
  PROVE  /\ Page \in Seq(listed) /\ Len(Page) \in 0..PageSize
         /\ Len(Page) < PageSize => offset + Len(Page) >= Cardinality(listed)
         /\ \A j, k \in 1..Len(Page) : Page[j] = Page[k] => j = k
         /\ \A i \in listed : Rank(i) >= offset /\ Rank(i) < offset + Len(Page) =>
                \E k \in 1..Len(Page) : Page[k] = i
<1> DEFINE last == IF offset + PageSize < Len(Feed) THEN offset + PageSize ELSE Len(Feed)
<1>1. /\ Feed \in Seq(listed) /\ Len(Feed) \in Nat /\ Len(Feed) = Cardinality(listed)
      /\ \A j, k \in 1..Len(Feed) : Feed[j] = Feed[k] => j = k
      /\ \A i \in listed : Rank(i) \in 0..(Len(Feed) - 1) /\ Feed[Rank(i) + 1] = i
  BY FeedListed
<1>2. /\ offset \in Nat /\ PageSize \in Nat \ {0} /\ last \in Nat /\ last <= Len(Feed)
      /\ last <= offset + PageSize
      /\ last < offset + PageSize => last = Len(Feed)
  BY <1>1, CopyAssumption DEF TypeOK
<1>3. \A i \in 1..Len(Feed) : Feed[i] \in listed
  BY <1>1, ElementOfSeq
<1>4. Page = SubSeq(Feed, offset + 1, last)
  BY DEF Page
<1> HIDE DEF last
<1>5. \A i \in (offset + 1)..last : Feed[i] \in listed
  BY <1>1, <1>2, <1>3
<1>6. /\ Page \in Seq(listed)
      /\ Len(Page) = IF offset + 1 <= last THEN last - (offset + 1) + 1 ELSE 0
      /\ \A i \in 1..(last - (offset + 1) + 1) : Page[i] = Feed[offset + 1 + i - 1]
  <2>1. offset + 1 \in Int /\ last \in Int
    BY <1>2
  <2> QED
    BY <1>4, <1>5, <2>1, SubSeqProperties
<1>7. /\ Len(Page) \in 0..PageSize
      /\ Len(Page) < PageSize => offset + Len(Page) >= Len(Feed)
  BY <1>1, <1>2, <1>6
<1>8. \A k \in 1..Len(Page) : Page[k] = Feed[offset + k] /\ offset + k \in 1..Len(Feed)
  BY <1>1, <1>2, <1>6
<1>9. \A j, k \in 1..Len(Page) : Page[j] = Page[k] => j = k
  <2>1. ASSUME NEW j \in 1..Len(Page), NEW k \in 1..Len(Page), Page[j] = Page[k]
        PROVE  j = k
    <3>1. offset + j = offset + k
      BY <1>1, <1>8, <2>1
    <3> QED
      BY <1>2, <3>1
  <2> QED
    BY <2>1
<1>10. ASSUME NEW i \in listed, Rank(i) >= offset, Rank(i) < offset + Len(Page)
       PROVE  \E k \in 1..Len(Page) : Page[k] = i
  <2>1. Rank(i) \in Nat /\ Feed[Rank(i) + 1] = i
    BY <1>1
  <2>2. Rank(i) - offset + 1 \in 1..Len(Page)
    BY <1>2, <1>7, <1>10, <2>1
  <2>3. Page[Rank(i) - offset + 1] = Feed[Rank(i) + 1]
    <3>1. offset + (Rank(i) - offset + 1) = Rank(i) + 1
      BY <1>2, <2>1
    <3> QED
      BY <1>8, <2>2, <3>1
  <2> QED
    BY <2>1, <2>2, <2>3
<1> QED
  BY <1>1, <1>6, <1>7, <1>9, <1>10

\* What a page adds to the trades fetched: those of it that are new enough,
\* once; one that was there already becomes unsure.
LEMMA PageAdds ==
  ASSUME TypeOK, FetchedOnce, FetchPage
  PROVE  /\ fetched' \in Seq(listed)
         /\ \A j, k \in 1..Len(fetched') :
                fetched'[j] = fetched'[k] => j = k \/ fetched'[k] \in unsure'
         /\ \A i \in listed :
                \/ i \in ToSet(fetched)
                \/ /\ stamp[i] >= since
                   /\ Rank(i) >= offset /\ Rank(i) < offset + Len(Page)
                => i \in ToSet(fetched')
<1> DEFINE new == NewEnough(Page)
           P == {k \in 1..Len(Page) : stamp[Page[k]] >= since}
<1>1. /\ fetched \in Seq(listed) /\ fetched' = fetched \o new
      /\ unsure' = unsure \cup (ToSet(fetched) \cap ToSet(Page))
  BY DEF TypeOK, FetchPage
<1>2. /\ Page \in Seq(listed)
      /\ \A j, k \in 1..Len(Page) : Page[j] = Page[k] => j = k
      /\ \A i \in listed : Rank(i) >= offset /\ Rank(i) < offset + Len(Page) =>
             \E k \in 1..Len(Page) : Page[k] = i
  BY PageServes
<1>3. new \in Seq(listed) /\ Selects(new, Page, P)
  BY <1>2, NewEnoughSelects
<1>4. PICK f \in [1..Len(new) -> P] :
          /\ \A k \in 1..Len(new) : new[k] = Page[f[k]]
          /\ \A j, k \in 1..Len(new) : f[j] = f[k] => j = k
          /\ \A p \in P : \E k \in 1..Len(new) : f[k] = p
  BY <1>3, Zenon DEF Selects
<1> HIDE DEF new
<1>5. Len(fetched) \in Nat /\ Len(new) \in Nat
  BY <1>1, <1>3, LenProperties
<1>6. /\ fetched' \in Seq(listed) /\ Len(fetched') = Len(fetched) + Len(new)
      /\ \A k \in 1..(Len(fetched) + Len(new)) :
             fetched'[k] = IF k <= Len(fetched) THEN fetched[k] ELSE new[k - Len(fetched)]
  BY <1>1, <1>3, ConcatProperties
<1>7. /\ ToSet(fetched) = {fetched[k] : k \in 1..Len(fetched)}
      /\ ToSet(Page) = {Page[k] : k \in 1..Len(Page)}
      /\ ToSet(fetched') = {fetched'[k] : k \in 1..Len(fetched')}
  BY <1>1, <1>2, <1>6, LenProperties DEF ToSet
<1>8. \A j, k \in 1..Len(new) : new[j] = new[k] => j = k
  BY <1>2, <1>4
<1>9. \A k \in 1..Len(new) : new[k] \in ToSet(Page)
  BY <1>4, <1>7
<1> HIDE DEF P
<1>10. ASSUME NEW j \in 1..Len(fetched'), NEW k \in 1..Len(fetched'),
              fetched'[j] = fetched'[k], j # k
       PROVE  fetched'[k] \in unsure'
  <2>1. CASE j <= Len(fetched) /\ k <= Len(fetched)
    <3>1. j \in 1..Len(fetched) /\ k \in 1..Len(fetched)
      BY <1>5, <2>1
    <3>2. fetched[j] = fetched[k] /\ fetched'[k] = fetched[k]
      BY <1>6, <1>10, <2>1
    <3>3. fetched[k] \in unsure
      BY <1>10, <3>1, <3>2 DEF FetchedOnce
    <3> QED
      BY <1>1, <3>2, <3>3
  <2>2. CASE j <= Len(fetched) /\ ~(k <= Len(fetched))
    <3>1. j \in 1..Len(fetched) /\ k - Len(fetched) \in 1..Len(new)
      BY <1>5, <1>6, <2>2
    <3>2. fetched'[k] = fetched[j] /\ fetched'[k] = new[k - Len(fetched)]
      BY <1>6, <1>10, <2>2
    <3>3. fetched[j] \in ToSet(fetched) /\ new[k - Len(fetched)] \in ToSet(Page)
      BY <1>7, <1>9, <3>1
    <3> QED
      BY <1>1, <3>2, <3>3
  <2>3. CASE ~(j <= Len(fetched)) /\ k <= Len(fetched)
    <3>1. k \in 1..Len(fetched) /\ j - Len(fetched) \in 1..Len(new)
      BY <1>5, <1>6, <2>3
    <3>2. fetched'[k] = fetched[k] /\ fetched'[k] = new[j - Len(fetched)]
      BY <1>6, <1>10, <2>3
    <3>3. fetched[k] \in ToSet(fetched) /\ new[j - Len(fetched)] \in ToSet(Page)
      BY <1>7, <1>9, <3>1
    <3> QED
      BY <1>1, <3>2, <3>3
  <2>4. CASE ~(j <= Len(fetched)) /\ ~(k <= Len(fetched))
    <3>1. j - Len(fetched) \in 1..Len(new) /\ k - Len(fetched) \in 1..Len(new)
      BY <1>5, <1>6, <2>4
    <3>2. new[j - Len(fetched)] = new[k - Len(fetched)]
      BY <1>6, <1>10, <2>4
    <3>3. j - Len(fetched) = k - Len(fetched)
      BY <1>8, <3>1, <3>2
    <3> QED
      BY <1>5, <1>6, <1>10, <3>3
  <2> QED
    BY <2>1, <2>2, <2>3, <2>4
<1>11. ASSUME NEW i \in ToSet(fetched) PROVE i \in ToSet(fetched')
  <2>1. PICK k \in 1..Len(fetched) : i = fetched[k]
    BY <1>7
  <2>2. k \in 1..Len(fetched') /\ fetched'[k] = fetched[k]
    BY <1>5, <1>6
  <2> QED
    BY <1>7, <2>1, <2>2
<1>12. ASSUME NEW i \in listed, stamp[i] >= since,
              Rank(i) >= offset, Rank(i) < offset + Len(Page)
       PROVE  i \in ToSet(fetched')
  <2>1. PICK p \in 1..Len(Page) : Page[p] = i
    BY <1>2, <1>12
  <2>2. p \in P
    BY <1>12, <2>1 DEF P
  <2>3. PICK k \in 1..Len(new) : f[k] = p
    BY <1>4, <2>2
  <2>4. new[k] = i
    BY <1>4, <2>1, <2>3
  <2>5. /\ Len(fetched) + k \in 1..Len(fetched') /\ ~(Len(fetched) + k <= Len(fetched))
        /\ Len(fetched) + k - Len(fetched) = k
    BY <1>5, <1>6
  <2>6. fetched'[Len(fetched) + k] = new[k]
    BY <1>6, <2>5
  <2> QED
    BY <1>7, <2>4, <2>5, <2>6
<1> QED
  BY <1>6, <1>10, <1>11, <1>12

\* The queue holds what was fetched and is not known to be replicated.
LEMMA QueueHolds ==
  ASSUME TypeOK, NEW trades \in Seq(listed)
  PROVE  LET q == QueueOf(trades)
         IN  /\ q \in Seq(listed)
             /\ \A k \in 1..Len(q) : q[k] \notin replicated
             /\ \A j, k \in 1..Len(q) : q[j] = q[k] /\ j # k =>
                    \E a, b \in 1..Len(trades) :
                        a # b /\ trades[a] = q[k] /\ trades[b] = q[k]
             /\ ToSet(trades) \subseteq ToSet(q) \cup replicated
<1> DEFINE q == QueueOf(trades)
           P == {k \in 1..Len(trades) : trades[k] \notin replicated}
<1>1. q \in Seq(listed) /\ Selects(q, trades, P)
  BY QueueSelects
<1>2. PICK f \in [1..Len(q) -> P] :
          /\ \A k \in 1..Len(q) : q[k] = trades[f[k]]
          /\ \A j, k \in 1..Len(q) : f[j] = f[k] => j = k
          /\ \A p \in P : \E k \in 1..Len(q) : f[k] = p
  BY <1>1, Zenon DEF Selects
<1> HIDE DEF q
<1>3. \A k \in 1..Len(q) : f[k] \in 1..Len(trades) /\ trades[f[k]] \notin replicated
  BY <1>2
<1>4. ToSet(trades) = {trades[k] : k \in 1..Len(trades)} /\ ToSet(q) = {q[k] : k \in 1..Len(q)}
  BY <1>1, LenProperties DEF ToSet
<1>5. \A k \in 1..Len(trades) : trades[k] \in replicated \/ k \in P
  OBVIOUS
<1>6. ToSet(trades) \subseteq ToSet(q) \cup replicated
  BY <1>2, <1>4, <1>5
<1> QED
  BY <1>1, <1>2, <1>3, <1>6 DEF q

-----------------------------------------------------------------------------
\* The start.
LEMMA Initially == Init => IInv
<1> SUFFICES ASSUME Init PROVE IInv
  OBVIOUS
<1>1. stamp \in Seq(Nat) /\ fetched \in Seq(listed) /\ queue \in Seq(listed)
  BY EmptySeq DEF Init
<1>2. Len(<<>>) = 0
  OBVIOUS
<1>3. placed \in [1..MaxTrades -> Nat] /\ \A i \in 1..MaxTrades : placed[i] = 0
  BY DEF Init
<1>4. TypeOK
  BY <1>1, <1>2, <1>3, CopyAssumption DEF Init, TypeOK, StateFiles, Empty, Trades
<1>5. Once
  BY <1>2, <1>3 DEF Init, Once, Remembered, FetchedOnce, QueuedOnce, Memory, Up, Empty
<1>6. BeyondCap(listed) = {}
  BY DEF Init, BeyondCap
<1>7. Found
  BY <1>6 DEF Init, Found, Known, KnownPoll, Polls, Interval, Covered, Up, Empty
<1> QED
  BY <1>4, <1>5, <1>7 DEF IInv

\* What the target and the API do: at most one more trade is listed, and the
\* trader does nothing.
LEMMA TargetMoves ==
  ASSUME TypeOK, Make \/ ListLate
  PROVE  /\ stamp' \in Seq(Nat) /\ Len(stamp') <= MaxTrades
         /\ Trades \subseteq Trades' /\ \A i \in Trades : stamp'[i] = stamp[i]
         /\ UNCHANGED <<hasFile, now, pc, state, poll, queue, file, placed, bounds,
                        considered, unsure>>
         /\ \/ UNCHANGED <<listed, excused>>
            \/ \E i \in Trades' \ listed :
                   /\ listed' = listed \cup {i}
                   /\ BeyondCap(listed') \subseteq excused'
                   /\ excused \subseteq excused'
                   /\ Running \/ (KnownPoll # None /\ stamp'[i] < KnownPoll)
                      => i \in excused'
<1>1. /\ stamp \in Seq(Nat) /\ Len(stamp) \in Nat /\ Trades = 1..Len(stamp)
      /\ Len(stamp) <= MaxTrades /\ MaxTrades \in Nat /\ listed \subseteq Trades
  BY TradesFinite, LenProperties, CopyAssumption DEF TypeOK
<1>2. ASSUME NEW i, List(i, stamp')
      PROVE  /\ UNCHANGED <<hasFile, now, pc, state, poll, queue, file, placed, bounds,
                            considered, unsure>>
             /\ listed' = listed \cup {i}
             /\ BeyondCap(listed') \subseteq excused' /\ excused \subseteq excused'
             /\ Running \/ (KnownPoll # None /\ stamp'[i] < KnownPoll) => i \in excused'
  BY <1>2 DEF List
<1>3. CASE Make
  <2> DEFINE made == now - (now % Second)
  <2>1. made \in Nat
    <3>1. now \in Nat /\ Second \in Nat \ {0}
      BY CopyAssumption DEF TypeOK
    <3>2. now % Second \in 0..now
      BY <3>1
    <3> QED
      BY <3>1, <3>2
  <2>2. stamp' = Append(stamp, made) /\ Len(stamp) < MaxTrades
    BY <1>3 DEF Make
  <2> HIDE DEF made
  <2>3. /\ stamp' \in Seq(Nat) /\ Len(stamp') = Len(stamp) + 1
        /\ \A i \in 1..Len(stamp) : stamp'[i] = stamp[i]
    BY <1>1, <2>1, <2>2, AppendProperties
  <2>4. Trades' = 1..(Len(stamp) + 1)
    BY <2>3, LenProperties DEF Trades
  <2>5. Len(stamp') \in Trades' \ listed
    BY <1>1, <2>3, <2>4
  <2>6. \/ List(Len(stamp'), stamp')
        \/ UNCHANGED <<hasFile, now, listed, pc, state, poll, queue, file, placed,
                       bounds, considered, excused, unsure>>
    BY <1>3 DEF Make
  <2>7. Len(stamp') <= MaxTrades /\ Trades \subseteq Trades'
    BY <1>1, <2>2, <2>3, <2>4
  <2> QED
    BY <1>1, <1>2, <2>3, <2>5, <2>6, <2>7
<1>4. CASE ListLate
  <2>1. PICK i \in Trades \ listed : List(i, stamp)
    BY <1>4 DEF ListLate
  <2>2. stamp' = stamp /\ Trades' = Trades
    BY <1>4 DEF ListLate, Trades
  <2> QED
    BY <1>1, <1>2, <2>1, <2>2
<1> QED
  BY <1>3, <1>4

\* The queue without its first trade.
LEMMA QueueTail ==
  ASSUME TypeOK, queue # <<>>
  PROVE  /\ Head(queue) \in listed /\ Tail(queue) \in Seq(listed)
         /\ Head(queue) = queue[1] /\ Len(queue) \in Nat \ {0}
         /\ Len(Tail(queue)) = Len(queue) - 1
         /\ \A k \in 1..Len(Tail(queue)) : Tail(queue)[k] = queue[k + 1]
         /\ ToSet(queue) \subseteq {Head(queue)} \cup ToSet(Tail(queue))
<1>1. /\ queue \in Seq(listed) /\ Len(queue) \in Nat \ {0}
      /\ DOMAIN queue = 1..Len(queue)
  BY EmptySeq, LenProperties DEF TypeOK
<1>2. /\ Head(queue) \in listed /\ Tail(queue) \in Seq(listed)
      /\ Head(queue) = queue[1]
      /\ Len(Tail(queue)) = Len(queue) - 1
      /\ \A k \in 1..Len(Tail(queue)) : Tail(queue)[k] = queue[k + 1]
  BY <1>1, HeadTailProperties
<1>3. DOMAIN Tail(queue) = 1..(Len(queue) - 1)
  BY <1>2, LenProperties
<1>4. ASSUME NEW k \in 1..Len(queue)
      PROVE  queue[k] \in {Head(queue)} \cup ToSet(Tail(queue))
  <2>1. CASE k = 1
    BY <1>2, <2>1
  <2>2. CASE k # 1
    <3>1. k - 1 \in DOMAIN Tail(queue) /\ k - 1 \in 1..Len(Tail(queue)) /\ k - 1 + 1 = k
      BY <1>1, <1>2, <1>3, <2>2
    <3>2. Tail(queue)[k - 1] = queue[k]
      BY <1>2, <3>1
    <3> QED
      BY <3>1, <3>2 DEF ToSet
  <2> QED
    BY <2>1, <2>2
<1>5. ToSet(queue) = {queue[k] : k \in 1..Len(queue)}
  BY <1>1 DEF ToSet
<1> QED
  BY <1>1, <1>2, <1>4, <1>5

-----------------------------------------------------------------------------
\* Types.
LEMMA TypeKept ==
  ASSUME TypeOK, [Next]_vars
  PROVE  TypeOK'
<1> USE DEF env, state, poll, bounds
<1>1. CASE Make \/ ListLate
  <2>1. /\ stamp' \in Seq(Nat) /\ Len(stamp') <= MaxTrades /\ Trades \subseteq Trades'
        /\ UNCHANGED <<hasFile, now, pc, state, poll, queue, file, placed, bounds,
                       considered, unsure>>
        /\ listed \subseteq listed' /\ listed' \subseteq Trades'
    BY <1>1, TargetMoves DEF TypeOK
  <2>2. fetched' \in Seq(listed') /\ queue' \in Seq(listed')
    BY <2>1, SeqMonotonic DEF TypeOK
  <2>3. file' \in StateFiles'
    BY <2>1 DEF TypeOK, StateFiles
  <2> QED
    BY <2>1, <2>2, <2>3 DEF TypeOK
<1>2. CASE Tick
  BY <1>2 DEF Tick, TypeOK, StateFiles, Trades
<1>3. CASE StartPoll
  <2>1. since' \in Nat
    BY <1>3, CopyAssumption DEF StartPoll, TypeOK, LookBack
  <2>2. fetched' \in Seq(listed')
    BY <1>3, EmptySeq DEF StartPoll
  <2> QED
    BY <1>3, <2>1, <2>2 DEF StartPoll, TypeOK, StateFiles, Trades
<1>4. CASE FetchPage
  <2>1. Page \in Seq(listed) /\ Len(Page) \in Nat
    BY PageServes, CopyAssumption
  <2>2. fetched' \in Seq(listed)
    <3>1. fetched \in Seq(listed) /\ NewEnough(Page) \in Seq(listed)
      BY <2>1, NewEnoughSelects DEF TypeOK
    <3> QED
      BY <1>4, <3>1, ConcatProperties DEF FetchPage
  <2>3. QueueOf(fetched') \in Seq(listed)
    BY <2>2, QueueHolds
  <2>4. ToSet(fetched) \subseteq listed
    <3>1. fetched \in Seq(listed)
      BY DEF TypeOK
    <3>2. \A k \in DOMAIN fetched : fetched[k] \in listed
      BY <3>1, LenProperties, ElementOfSeq
    <3> QED
      BY <3>2 DEF ToSet
  <2>5. /\ offset' = offset + Len(Page)
        /\ unsure' = unsure \cup (ToSet(fetched) \cap ToSet(Page))
        /\ queue' = QueueOf(fetched') \/ queue' = queue
        /\ pc' \in {"fetch", "replicate"}
        /\ UNCHANGED <<hasFile, stamp, listed, now, replicated, lastPoll, since, file,
                       placed, crashes, raises, considered>>
    BY <1>4 DEF FetchPage
  <2>6. offset' \in Nat /\ queue' \in Seq(listed) /\ unsure' \subseteq Trades
    BY <2>1, <2>3, <2>4, <2>5 DEF TypeOK
  <2> QED
    BY <2>2, <2>5, <2>6 DEF TypeOK, StateFiles, Trades
<1>5. CASE Replicate \/ Skip \/ SkipExecuted
  <2>1. queue # <<>> /\ pc = "replicate"
    BY <1>5 DEF Replicate, Skip, SkipExecuted
  <2>2. /\ Head(queue) \in listed /\ Head(queue) \in Trades
        /\ Head(queue) \in 1..MaxTrades /\ Tail(queue) \in Seq(listed)
    BY <2>1, QueueTail, TradesFinite DEF TypeOK
  <2>3. /\ UNCHANGED <<hasFile, stamp, listed, now, pc, lastPoll, since, offset, fetched,
                       file, crashes, raises>>
        /\ queue' = Tail(queue) /\ considered' = considered \cup {Head(queue)}
        /\ placed' = placed \/ placed' = [placed EXCEPT ![Head(queue)] = @ + 1]
        /\ replicated' \subseteq replicated \cup {Head(queue)}
        /\ unsure' \subseteq unsure \cup {Head(queue)}
    BY <1>5 DEF Replicate, Skip, SkipExecuted, Considered, Execute
  <2>4. placed' \in [1..MaxTrades -> Nat]
    BY <2>2, <2>3 DEF TypeOK
  <2> QED
    BY <2>2, <2>3, <2>4 DEF TypeOK, StateFiles, Trades
<1>6. CASE Refetch
  <2>1. fetched' \in Seq(listed')
    BY <1>6, EmptySeq DEF Refetch
  <2> QED
    BY <1>6, <2>1 DEF Refetch, TypeOK, StateFiles, Trades
<1>7. CASE PollRaises
  <2>1. queue' \in Seq(listed')
    BY <1>7, EmptySeq DEF PollRaises
  <2> QED
    BY <1>7, <2>1 DEF PollRaises, TypeOK, StateFiles, Trades
<1>8. CASE Finish \/ Save \/ SaveRaises \/ Restart
  <2>1. CASE Finish
    BY <2>1 DEF Finish, TypeOK, StateFiles, Empty, Trades
  <2>2. CASE Save
    BY <2>2 DEF Save, TypeOK, StateFiles, Trades
  <2>3. CASE SaveRaises
    BY <2>3 DEF SaveRaises, TypeOK, StateFiles, Trades
  <2>4. CASE Restart
    BY <2>4 DEF Restart, TypeOK, StateFiles, Trades
  <2> QED
    BY <1>8, <2>1, <2>2, <2>3, <2>4
<1>9. CASE Crash
  <2>1. fetched' \in Seq(listed') /\ queue' \in Seq(listed')
    BY <1>9, EmptySeq DEF Crash
  <2> QED
    BY <1>9, <2>1 DEF Crash, TypeOK, StateFiles, Trades
<1>10. CASE UNCHANGED vars
  BY <1>10 DEF vars, TypeOK, StateFiles, Trades
<1> QED
  BY <1>1, <1>2, <1>3, <1>4, <1>5, <1>6, <1>7, <1>8, <1>9, <1>10 DEF Next, Trader

-----------------------------------------------------------------------------
\* No trade is replicated twice.
LEMMA OnceKept ==
  ASSUME TypeOK, Once, [Next]_vars
  PROVE  Once'
<1> USE DEF env, state, poll, bounds
<1>1. CASE Make \/ ListLate
  <2>1. /\ listed \subseteq listed'
        /\ UNCHANGED <<pc, replicated, fetched, queue, file, placed, unsure>>
    BY <1>1, TargetMoves
  <2> QED
    BY <2>1 DEF Once, Remembered, FetchedOnce, QueuedOnce, Memory, Up
<1>2. CASE Tick \/ UNCHANGED vars
  BY <1>2 DEF Tick, vars, Once, Remembered, FetchedOnce, QueuedOnce, Memory, Up
<1>3. CASE StartPoll \/ Refetch
  <2>1. /\ UNCHANGED <<listed, replicated, queue, file, placed, unsure>>
        /\ fetched' = <<>> /\ pc' = "fetch" /\ pc \in {"idle", "fetch"}
    BY <1>3 DEF StartPoll, Refetch
  <2>2. Len(fetched') = 0
    BY <2>1
  <2> QED
    BY <2>1, <2>2 DEF Once, Remembered, FetchedOnce, QueuedOnce, Memory, Up
<1>4. CASE FetchPage
  <2>1. /\ UNCHANGED <<listed, replicated, file, placed>> /\ unsure \subseteq unsure'
        /\ pc = "fetch" /\ pc' \in {"fetch", "replicate"}
        /\ \/ queue' = QueueOf(fetched') /\ pc' = "replicate"
           \/ UNCHANGED queue
    BY <1>4 DEF FetchPage
  <2>2. /\ fetched' \in Seq(listed)
        /\ \A j, k \in 1..Len(fetched') :
               fetched'[j] = fetched'[k] => j = k \/ fetched'[k] \in unsure'
    BY <1>4, PageAdds DEF Once
  <2>3. Remembered' /\ FetchedOnce'
    BY <2>1, <2>2 DEF Once, Remembered, FetchedOnce, Memory, Up
  <2>4. CASE queue' = QueueOf(fetched') /\ pc' = "replicate"
    <3>1. /\ \A k \in 1..Len(queue') : queue'[k] \notin replicated
          /\ \A j, k \in 1..Len(queue') : queue'[j] = queue'[k] /\ j # k =>
                 \E a, b \in 1..Len(fetched') :
                     a # b /\ fetched'[a] = queue'[k] /\ fetched'[b] = queue'[k]
      BY <2>2, <2>4, QueueHolds
    <3>2. ASSUME NEW j \in 1..Len(queue'), NEW k \in 1..Len(queue'),
                 queue'[j] = queue'[k], j # k
          PROVE  queue'[k] \in unsure'
      <4>1. PICK a \in 1..Len(fetched'), b \in 1..Len(fetched') :
                a # b /\ fetched'[a] = queue'[k] /\ fetched'[b] = queue'[k]
        BY <3>1, <3>2
      <4>2. fetched'[b] \in unsure'
        BY <2>2, <4>1
      <4> QED
        BY <4>1, <4>2
    <3>3. file'.replicated \subseteq replicated
      BY <2>1 DEF Once, Remembered, Up
    <3> QED
      BY <2>1, <2>3, <2>4, <3>1, <3>2, <3>3 DEF Once, QueuedOnce
  <2>5. CASE UNCHANGED queue
    BY <2>1, <2>3, <2>5 DEF Once, QueuedOnce
  <2> QED
    BY <2>1, <2>4, <2>5
<1>5. CASE Replicate \/ Skip \/ SkipExecuted
  <2> DEFINE h == Head(queue)
  <2>1. queue # <<>> /\ pc = "replicate"
    BY <1>5 DEF Replicate, Skip, SkipExecuted
  <2>2. /\ h \in listed /\ h \in 1..MaxTrades
        /\ h = queue[1] /\ Len(queue) \in Nat \ {0}
        /\ Len(Tail(queue)) = Len(queue) - 1
        /\ \A k \in 1..Len(Tail(queue)) : Tail(queue)[k] = queue[k + 1]
    BY <2>1, QueueTail, TradesFinite
  <2> HIDE DEF h
  <2>3. /\ UNCHANGED <<listed, pc, fetched, file>> /\ queue' = Tail(queue)
        /\ \/ replicated' = replicated \cup {h} /\ unsure' = unsure
              /\ placed' = [placed EXCEPT ![h] = @ + 1]
           \/ replicated' = replicated /\ unsure' = unsure /\ placed' = placed
           \/ replicated' = replicated /\ unsure' = unsure \cup {h}
              /\ placed' = [placed EXCEPT ![h] = @ + 1]
    BY <1>5 DEF Replicate, Skip, SkipExecuted, Execute, h
  <2>4. h \in unsure \/ h \notin replicated
    BY <2>2 DEF Once, QueuedOnce
  <2>5. \A i \in 1..MaxTrades : placed[i] \in Nat
    BY DEF TypeOK
  <2>6. h \in unsure \/ placed[h] = 0
    <3>1. h \notin unsure => placed[h] <= 1 /\ placed[h] # 1
      BY <2>1, <2>2, <2>4 DEF Once, Remembered, Memory, Up
    <3> QED
      BY <2>2, <2>5, <3>1
  <2>7. /\ placed'[h] = placed[h] \/ placed'[h] = placed[h] + 1
        /\ \A i \in 1..MaxTrades : i # h => placed'[i] = placed[i]
        /\ h \in replicated' \ replicated => placed'[h] = placed[h] + 1
        /\ placed'[h] = placed[h] + 1 => h \in replicated' \cup unsure'
        /\ replicated \subseteq replicated' /\ replicated' \subseteq replicated \cup {h}
        /\ unsure \subseteq unsure'
    <3> DEFINE placedMore == [placed EXCEPT ![h] = @ + 1]
    <3>1. /\ placed \in [1..MaxTrades -> Nat] /\ placedMore[h] = placed[h] + 1
          /\ \A i \in 1..MaxTrades : i # h => placedMore[i] = placed[i]
      BY <2>2 DEF TypeOK
    <3>2. placed[h] # placed[h] + 1
      BY <2>2, <2>5
    <3> HIDE DEF placedMore
    <3>3. placed' = placed \/ placed' = placedMore
      BY <2>3 DEF placedMore
    <3>4. /\ h \in replicated' \ replicated => placed' = placedMore
          /\ placed' = placed \/ h \in replicated' \cup unsure'
          /\ replicated \subseteq replicated' /\ replicated' \subseteq replicated \cup {h}
          /\ unsure \subseteq unsure'
      BY <2>3 DEF placedMore
    <3> QED
      BY <3>1, <3>2, <3>3, <3>4
  <2>8. Remembered'
    <3>1. \A i \in 1..MaxTrades : placed'[i] > 0 => i \in listed'
      BY <2>2, <2>3, <2>7 DEF Once, Remembered
    <3>2. \A i \in replicated' \cup file'.replicated : placed'[i] > 0
      <4>1. \A i \in replicated \cup file.replicated : placed[i] > 0 /\ i \in 1..MaxTrades
        BY TradesFinite DEF Once, Remembered, TypeOK, StateFiles
      <4>2. \A i \in replicated' \cup file'.replicated :
                i \in replicated \cup file.replicated \/ (i = h /\ placed'[h] = placed[h] + 1)
        BY <2>3, <2>7
      <4>3. \A i \in replicated \cup file.replicated : placed'[i] > 0
        BY <2>5, <2>7, <4>1
      <4> QED
        BY <2>2, <2>5, <4>2, <4>3
    <3>3. file'.replicated \subseteq replicated'
      BY <2>1, <2>3, <2>7 DEF Once, Remembered, Up
    <3>4. ASSUME NEW i \in (1..MaxTrades) \ unsure'
          PROVE  placed'[i] <= 1 /\ (placed'[i] = 1 => i \in replicated')
      <4>1. i \notin unsure /\ placed[i] <= 1 /\ (placed[i] = 1 => i \in replicated)
        BY <2>1, <2>7, <3>4 DEF Once, Remembered, Memory, Up
      <4>2. CASE i = h
        <5>1. placed[h] = 0
          BY <2>6, <4>1, <4>2
        <5> QED
          BY <2>7, <3>4, <4>2, <5>1
      <4>3. CASE i # h
        BY <2>7, <4>1, <4>3
      <4> QED
        BY <4>2, <4>3
    <3> QED
      BY <2>1, <2>3, <3>1, <3>2, <3>3, <3>4 DEF Remembered, Memory, Up
  <2>9. QueuedOnce'
    <3>1. ASSUME NEW k \in 1..Len(Tail(queue))
          PROVE  /\ Tail(queue)[k] = queue[k + 1] /\ k + 1 \in 1..Len(queue)
                 /\ 1 \in 1..Len(queue) /\ k + 1 # 1
      BY <2>2
    <3>2. \A j, k \in 1..Len(Tail(queue)) :
              Tail(queue)[j] = Tail(queue)[k] => j = k \/ Tail(queue)[k] \in unsure'
      BY <2>7, <3>1 DEF Once, QueuedOnce
    <3>3. ASSUME NEW k \in 1..Len(Tail(queue))
          PROVE  Tail(queue)[k] \notin replicated' \/ Tail(queue)[k] \in unsure'
      <4>1. queue[k + 1] \notin replicated \/ queue[k + 1] \in unsure
        BY <3>1 DEF Once, QueuedOnce
      <4>2. queue[k + 1] = h => queue[k + 1] \in unsure
        BY <2>2, <3>1 DEF Once, QueuedOnce
      <4> QED
        BY <2>7, <3>1, <4>1, <4>2
    <3>4. \A k \in 1..Len(Tail(queue)) : Tail(queue)[k] \notin file'.replicated
      BY <2>3, <3>1 DEF Once, QueuedOnce
    <3> QED
      BY <2>1, <2>3, <3>2, <3>3, <3>4 DEF QueuedOnce
  <2> QED
    BY <2>3, <2>7, <2>8, <2>9 DEF Once, FetchedOnce
<1>6. CASE PollRaises \/ Finish \/ Save \/ SaveRaises
  <2>1. /\ UNCHANGED <<listed, replicated, fetched, placed, unsure>>
        /\ Up /\ Up' /\ pc' # "fetch"
        /\ \/ UNCHANGED file
           \/ file'.replicated = {}
           \/ file'.replicated = replicated
        /\ queue' = <<>>
    BY <1>6 DEF PollRaises, Finish, Save, SaveRaises, Up, Empty, Once, QueuedOnce
  <2>2. Len(queue') = 0
    BY <2>1
  <2>3. Remembered'
    BY <2>1 DEF Once, Remembered, Memory
  <2> QED
    BY <2>1, <2>2, <2>3 DEF Once, FetchedOnce, QueuedOnce
<1>7. CASE Crash
  <2>1. /\ Up /\ ~Up' /\ UNCHANGED <<listed, file, placed>>
        /\ replicated' = {} /\ fetched' = <<>> /\ queue' = <<>>
        /\ unsure' = unsure \cup {i \in listed : placed[i] > 0 /\ i \notin file.replicated}
    BY <1>7 DEF Crash, Up
  <2>2. Len(queue') = 0 /\ Len(fetched') = 0
    BY <2>1
  <2>3. ASSUME NEW i \in (1..MaxTrades) \ unsure'
        PROVE  placed[i] <= 1 /\ (placed[i] = 1 => i \in file.replicated)
    BY <2>1, <2>3 DEF Once, Remembered
  <2>4. Remembered'
    BY <2>1, <2>3 DEF Once, Remembered, Memory
  <2> QED
    BY <2>1, <2>2, <2>4 DEF Once, FetchedOnce, QueuedOnce
<1>8. CASE Restart
  <2>1. /\ pc = "down" /\ UNCHANGED <<listed, fetched, queue, file, placed, unsure>>
        /\ \/ pc' = "broken" /\ replicated' = replicated
           \/ pc' = "idle" /\ replicated' = file.replicated
    BY <1>8 DEF Restart
  <2>2. queue = <<>> /\ Len(<<>>) = 0
    BY <2>1 DEF Once, QueuedOnce
  <2> QED
    BY <2>1, <2>2 DEF Once, Remembered, FetchedOnce, QueuedOnce, Memory, Up
<1> QED
  BY <1>1, <1>2, <1>3, <1>4, <1>5, <1>6, <1>7, <1>8 DEF Next, Trader

-----------------------------------------------------------------------------
\* Found after a step that lists nothing and leaves what is excused alone.
LEMMA FoundStays ==
  ASSUME UNCHANGED <<stamp, listed, excused>>, Found,
         considered \subseteq considered',
         replicated' \cup file'.replicated \subseteq considered',
         KnownPoll' \in {KnownPoll, None}, Polls',
         pc' \notin {"fetch", "replicate"}
  PROVE  Found'
<1>1. Known'
  BY DEF Found, Known
<1>2. BeyondCap(listed') = BeyondCap(listed)
  BY DEF BeyondCap
<1>3. Interval' /\ Covered'
  BY <1>2 DEF Found, Interval, Covered
<1> QED
  BY <1>1, <1>3 DEF Found

\* Every poll finds what it should.
LEMMA FoundKept ==
  ASSUME TypeOK, Once, Found, [Next]_vars
  PROVE  Found'
<1> USE CopyAssumption DEF env, state, poll, bounds
<1>1. CASE Make \/ ListLate
  <2>1. /\ \A i \in listed : stamp'[i] = stamp[i]
        /\ UNCHANGED <<now, pc, replicated, lastPoll, since, offset, fetched, queue, file,
                       considered>>
        /\ \/ UNCHANGED <<listed, excused>>
           \/ \E i \in Trades' \ listed :
                  /\ listed' = listed \cup {i}
                  /\ BeyondCap(listed') \subseteq excused'
                  /\ excused \subseteq excused'
                  /\ Running \/ (KnownPoll # None /\ stamp'[i] < KnownPoll)
                     => i \in excused'
    BY <1>1, TargetMoves DEF TypeOK
  <2>2. KnownPoll' = KnownPoll
    BY <2>1 DEF KnownPoll
  <2>3. ASSUME NEW i \in listed' \ excused', Running \/ (KnownPoll # None /\ stamp'[i] < KnownPoll)
        PROVE  i \in listed \ excused /\ stamp'[i] = stamp[i]
    BY <2>1, <2>3
  <2>4. Known' /\ Polls'
    BY <2>1, <2>2, <2>3 DEF Found, Known, Polls, Up
  <2>5. pc \in {"fetch", "replicate"} => Running
    BY DEF Running
  <2>6. Interval'
    BY <2>1, <2>3, <2>5 DEF Found, Interval
  <2>7. BeyondCap(listed') \subseteq excused'
    BY <2>1 DEF Found, Covered, BeyondCap
  <2>8. ASSUME NEW i \in listed PROVE Rank(i) \in Nat /\ Rank(i)' \in Nat /\ Rank(i) <= Rank(i)'
    <3>1. {j \in listed : j > i} \subseteq {j \in listed' : j > i}
      BY <2>1
    <3>2. IsFiniteSet({j \in listed' : j > i})
      <4>1. IsFiniteSet(listed)
        BY TradesFinite
      <4>2. IsFiniteSet(listed')
        BY <2>1, <4>1, FS_AddElement
      <4> QED
        BY <4>2, FS_Subset
    <3> QED
      BY <3>1, <3>2, FS_Subset, FS_CardinalityType DEF Rank
  <2>9. ASSUME pc = "fetch", NEW i \in listed' \ excused',
               Cardinality({j \in listed' : j > i}) < offset, stamp'[i] >= since
        PROVE  i \in ToSet(fetched)
    <3>1. i \in listed \ excused /\ stamp'[i] = stamp[i]
      BY <2>3, <2>5, <2>9
    <3>2. Rank(i)' < offset
      BY <2>9 DEF Rank
    <3>3. Rank(i) < offset
      BY <2>8, <3>1, <3>2 DEF TypeOK
    <3> QED
      BY <2>9, <3>1, <3>3 DEF Found, Covered
  <2>10. ASSUME pc = "replicate", NEW i \in listed' \ excused', stamp'[i] >= since
         PROVE  i \in considered \cup ToSet(queue)
    BY <2>3, <2>5, <2>10 DEF Found, Covered
  <2>11. Covered'
    BY <2>1, <2>7, <2>9, <2>10 DEF Covered, Rank
  <2> QED
    BY <2>4, <2>6, <2>11 DEF Found
<1>2. CASE Tick \/ UNCHANGED vars
  <2>1. /\ UNCHANGED <<stamp, listed, pc, replicated, lastPoll, since, offset, fetched,
                       queue, file, considered, excused>>
        /\ now' \in {now, now + 1}
    BY <1>2 DEF Tick, vars
  <2>2. Polls'
    <3>1. \A t \in {lastPoll, file.lastPoll} : t # None => t \in Nat /\ t <= now
      BY DEF Found, Polls, TypeOK, StateFiles
    <3>2. \A t \in {lastPoll, file.lastPoll} : t # None => t <= now'
      BY <2>1, <3>1 DEF TypeOK
    <3> QED
      BY <2>1, <3>2 DEF Found, Polls, Up
  <2> QED
    BY <2>1, <2>2 DEF Found, Known, KnownPoll, Interval, Covered, BeyondCap, Rank
<1>3. CASE StartPoll
  <2>1. /\ UNCHANGED <<stamp, listed, now, replicated, lastPoll, file, considered>>
        /\ pc = "idle" /\ pc' = "fetch" /\ offset' = 0
        /\ since' = IF lastPoll = None THEN LookBack ELSE lastPoll
        /\ excused' = excused \cup
               IF lastPoll = None THEN {i \in Trades : stamp[i] < LookBack} ELSE {}
    BY <1>3 DEF StartPoll
  <2>2. Known' /\ Polls'
    BY <2>1 DEF Found, Known, Polls, KnownPoll, Up
  <2>3. LookBack \in Nat /\ \A i \in listed : i \in Trades /\ stamp[i] \in Nat
    BY TradesFinite DEF LookBack, TypeOK
  <2>4. Interval'
    BY <2>1, <2>3 DEF Interval
  <2>5. \A i \in listed : Rank(i) \in Nat
    BY FeedListed
  <2>6. Covered'
    BY <2>1, <2>5 DEF Found, Covered, BeyondCap, Rank
  <2> QED
    BY <2>2, <2>4, <2>6 DEF Found
<1>4. CASE FetchPage
  <2>1. /\ UNCHANGED <<stamp, listed, now, replicated, lastPoll, since, file, considered,
                       excused>>
        /\ pc = "fetch" /\ offset' = offset + Len(Page)
        /\ \/ /\ Len(Page) < PageSize \/ offset' >= OffsetCap
              /\ queue' = QueueOf(fetched') /\ pc' = "replicate"
           \/ pc' = "fetch"
    BY <1>4 DEF FetchPage
  <2>2. Known' /\ Polls' /\ Interval'
    BY <2>1 DEF Found, Known, Polls, Interval, KnownPoll, Up
  <2>3. Len(Page) \in Nat /\ (Len(Page) < PageSize => offset + Len(Page) >= Cardinality(listed))
    BY PageServes
  <2>4. \A i \in listed : Rank(i) \in 0..(Cardinality(listed) - 1)
    BY FeedListed
  <2>5. ASSUME NEW i \in listed \ excused, Rank(i) < offset', stamp[i] >= since
        PROVE  i \in ToSet(fetched')
    <3>1. CASE Rank(i) < offset
      <4>1. i \in ToSet(fetched)
        BY <2>1, <2>5, <3>1 DEF Found, Covered
      <4> QED
        BY <1>4, <4>1, PageAdds DEF Once
    <3>2. CASE ~(Rank(i) < offset)
      <4>1. Rank(i) >= offset /\ Rank(i) < offset + Len(Page)
        BY <2>1, <2>4, <2>5, <3>2 DEF TypeOK
      <4> QED
        BY <1>4, <2>5, <4>1, PageAdds DEF Once
    <3> QED
      BY <3>1, <3>2
  <2>6. ASSUME pc' = "replicate", NEW i \in listed \ excused, stamp[i] >= since
        PROVE  i \in considered \cup ToSet(queue')
    <3>1. queue' = QueueOf(fetched') /\ (Len(Page) < PageSize \/ offset' >= OffsetCap)
      BY <2>1, <2>6
    <3>2. Rank(i) < offset'
      <4>1. CASE Len(Page) < PageSize
        <5>1. Rank(i) \in 0..(Cardinality(listed) - 1) /\ Cardinality(listed) \in Nat
          BY <2>4, TradesFinite
        <5>2. offset' \in Nat /\ offset' >= Cardinality(listed)
          BY <2>1, <2>3, <4>1 DEF TypeOK
        <5> QED
          BY <5>1, <5>2
      <4>2. CASE offset' >= OffsetCap
        <5>1. i \notin BeyondCap(listed)
          BY DEF Found, Covered
        <5>2. ~(Rank(i) >= OffsetCap)
          BY <5>1 DEF BeyondCap, Rank
        <5> QED
          BY <2>1, <2>3, <2>4, <4>2, <5>2 DEF TypeOK
      <4> QED
        BY <3>1, <4>1, <4>2
    <3>3. i \in ToSet(fetched')
      BY <2>5, <2>6, <3>2
    <3>4. fetched' \in Seq(listed)
      BY <1>4, PageAdds DEF Once
    <3>5. ToSet(fetched') \subseteq ToSet(queue') \cup replicated
      BY <3>1, <3>4, QueueHolds
    <3> QED
      BY <3>3, <3>5 DEF Found, Known
  <2>7. Covered'
    <3>1. BeyondCap(listed') \subseteq excused'
      BY <2>1 DEF Found, Covered, BeyondCap
    <3>2. \A i \in listed : Rank(i)' = Rank(i)
      BY <2>1 DEF Rank
    <3> QED
      BY <2>1, <2>5, <2>6, <3>1, <3>2 DEF Covered
  <2> QED
    BY <2>2, <2>7 DEF Found
<1>5. CASE Replicate \/ Skip \/ SkipExecuted
  <2> DEFINE h == Head(queue)
  <2>1. /\ UNCHANGED <<stamp, listed, now, pc, lastPoll, since, file, excused>>
        /\ queue # <<>> /\ pc = "replicate" /\ queue' = Tail(queue)
        /\ considered' = considered \cup {h}
        /\ replicated' \subseteq replicated \cup {h}
    BY <1>5 DEF Replicate, Skip, SkipExecuted, Considered
  <2>2. ToSet(queue) \subseteq {h} \cup ToSet(Tail(queue))
    BY <2>1, QueueTail
  <2> HIDE DEF h
  <2>3. Known' /\ Polls' /\ Interval'
    BY <2>1 DEF Found, Known, Polls, Interval, KnownPoll, Up
  <2>4. Covered'
    BY <2>1, <2>2 DEF Found, Covered, BeyondCap
  <2> QED
    BY <2>3, <2>4 DEF Found
<1>6. CASE Refetch
  <2>1. /\ UNCHANGED <<stamp, listed, now, pc, replicated, lastPoll, since, file,
                       considered, excused>>
        /\ offset' = 0 /\ pc = "fetch"
    BY <1>6 DEF Refetch
  <2>2. Known' /\ Polls' /\ Interval'
    BY <2>1 DEF Found, Known, Polls, Interval, KnownPoll, Up
  <2>3. \A i \in listed : Rank(i) \in Nat
    BY FeedListed
  <2>4. Covered'
    BY <2>1, <2>3 DEF Found, Covered, BeyondCap, Rank
  <2> QED
    BY <2>2, <2>4 DEF Found
<1>7. CASE PollRaises \/ SaveRaises
  <2>1. /\ UNCHANGED <<stamp, listed, now, replicated, lastPoll, file, considered, excused>>
        /\ pc \in {"fetch", "replicate", "save"} /\ pc' = "idle"
    BY <1>7 DEF PollRaises, SaveRaises
  <2>2. Polls' /\ KnownPoll' = KnownPoll
    BY <2>1 DEF Found, Polls, KnownPoll, Up
  <2> QED
    BY <2>1, <2>2, FoundStays DEF Found, Known
<1>8. CASE Finish
  <2>1. /\ UNCHANGED <<stamp, listed, now, replicated, considered, excused>>
        /\ pc = "replicate" /\ queue = <<>> /\ pc' \in {"save", "idle"}
        /\ lastPoll' = now
        /\ file' = Empty("torn") \/ UNCHANGED file
    BY <1>8 DEF Finish
  <2>2. ToSet(queue) = {}
    BY <2>1 DEF ToSet
  <2>3. ASSUME NEW i \in listed \ excused PROVE i \in considered
    <3>1. CASE stamp[i] >= since
      BY <2>1, <2>2, <3>1 DEF Found, Covered
    <3>2. CASE ~(stamp[i] >= since)
      <4>1. stamp[i] \in Nat /\ since \in Nat
        BY TradesFinite DEF TypeOK
      <4>2. lastPoll # None /\ since = lastPoll
        BY <2>1, <3>2 DEF Found, Interval
      <4>3. KnownPoll = lastPoll /\ stamp[i] < lastPoll
        BY <2>1, <3>2, <4>1, <4>2 DEF KnownPoll
      <4> QED
        BY <4>2, <4>3 DEF Found, Known
    <3> QED
      BY <3>1, <3>2
  <2>4. /\ replicated' \cup file'.replicated \subseteq considered'
        /\ file'.lastPoll \in {file.lastPoll, None}
    BY <2>1 DEF Found, Known, Empty
  <2>5. Known'
    BY <2>1, <2>3, <2>4 DEF Known
  <2>6. Polls'
    BY <2>1, <2>4 DEF Found, Polls, Up, TypeOK, StateFiles
  <2>7. Interval' /\ Covered'
    BY <2>1 DEF Found, Interval, Covered, BeyondCap
  <2> QED
    BY <2>5, <2>6, <2>7 DEF Found
<1>9. CASE Save
  <2>1. /\ UNCHANGED <<stamp, listed, now, replicated, lastPoll, considered, excused>>
        /\ pc = "save" /\ pc' = "idle"
        /\ file'.replicated = replicated /\ file'.lastPoll = lastPoll
    BY <1>9 DEF Save
  <2>2. Polls' /\ KnownPoll' = KnownPoll
    BY <2>1 DEF Found, Polls, KnownPoll, Up, TypeOK
  <2> QED
    BY <2>1, <2>2, FoundStays DEF Found, Known
<1>10. CASE Crash
  <2>1. /\ UNCHANGED <<stamp, listed, now, file, considered, excused>>
        /\ Up /\ pc # "down" /\ pc' = "down" /\ replicated' = {} /\ lastPoll' = None
    BY <1>10 DEF Crash, Up
  <2>2. Polls' /\ KnownPoll' = file.lastPoll /\ KnownPoll = lastPoll
    BY <2>1 DEF Found, Polls, KnownPoll, Up
  <2>3. file.lastPoll # None => /\ lastPoll # None /\ file.lastPoll <= lastPoll
                                /\ lastPoll \in Nat /\ file.lastPoll \in Nat
    BY <2>1 DEF Found, Polls, TypeOK, StateFiles
  <2>4. ASSUME NEW i \in listed \ excused, file.lastPoll # None, stamp[i] < file.lastPoll
        PROVE  i \in considered
    <3>1. stamp[i] \in Nat
      BY TradesFinite DEF TypeOK
    <3>2. stamp[i] < lastPoll
      BY <2>3, <2>4, <3>1
    <3> QED
      BY <2>2, <2>3, <2>4, <3>2 DEF Found, Known
  <2>5. Known'
    BY <2>1, <2>2, <2>4 DEF Found, Known
  <2>6. Interval' /\ Covered'
    BY <2>1 DEF Found, Interval, Covered, BeyondCap
  <2> QED
    BY <2>2, <2>5, <2>6 DEF Found
<1>11. CASE Restart
  <2>1. /\ UNCHANGED <<stamp, listed, now, file, considered, excused>>
        /\ pc = "down"
        /\ \/ pc' = "broken" /\ UNCHANGED <<replicated, lastPoll>>
           \/ pc' = "idle" /\ replicated' = file.replicated /\ lastPoll' = file.lastPoll
    BY <1>11 DEF Restart
  <2>2. file.lastPoll # None => file.lastPoll \in Nat
    BY DEF TypeOK, StateFiles
  <2>3. Polls'
    BY <2>1, <2>2 DEF Found, Polls, Up
  <2>4. KnownPoll' \in {KnownPoll, None}
    BY <2>1 DEF Found, Polls, KnownPoll, Up
  <2> QED
    BY <2>1, <2>3, <2>4, FoundStays DEF Found, Known
<1> QED
  BY <1>1, <1>2, <1>3, <1>4, <1>5, <1>6, <1>7, <1>8, <1>9, <1>10, <1>11
     DEF Next, Trader

-----------------------------------------------------------------------------
\* Every step keeps the invariant.
LEMMA Inductive == IInv /\ [Next]_vars => IInv'
  BY TypeKept, OnceKept, FoundKept, Zenon DEF IInv

\* Hence IInv always holds.
LEMMA Invariance == Spec => []IInv
  BY Initially, Inductive, PTL DEF Spec

(***************************************************************************)
(* The trader's state, its file and what the API serves are well typed,    *)
(* however often it crashes and raises.                                    *)
(***************************************************************************)
THEOREM TypeCorrect == Spec => []TypeOK
<1>1. IInv => TypeOK
  BY DEF IInv
<1> QED
  BY <1>1, Invariance, PTL

(***************************************************************************)
(* A trade whose order did not raise after it was executed, which no crash *)
(* made the process forget and no page served twice, is replicated once    *)
(* (replicate_trade, get_new_trades_since).                                *)
(***************************************************************************)
THEOREM NoDuplicates == Spec => []ReplicatedOnce
<1>1. IInv => ReplicatedOnce
  BY TradesFinite DEF IInv, Once, Remembered, ReplicatedOnce
<1> QED
  BY <1>1, Invariance, PTL

(***************************************************************************)
(* The poll intervals, with the pages of a feed that moves under them,     *)
(* leave no trade out but the excused ones (run_once,                      *)
(* _fetch_trades_paginated).                                               *)
(***************************************************************************)
THEOREM NoTradeMissed == Spec => []NoneMissed
<1>1. IInv => NoneMissed
  BY DEF IInv, Found, Known, KnownPoll, NoneMissed
<1> QED
  BY <1>1, Invariance, PTL

(***************************************************************************)
(* What the file says was replicated was, and no process replicates it     *)
(* again while the file says so (CopyTraderState.save and load), whatever  *)
(* the feed serves and whichever process runs.                             *)
(***************************************************************************)
THEOREM FileIsFinal == Spec => SavedIsFinal
<1> USE DEF env, state, poll, bounds
<1>1. IInv /\ [Next]_vars =>
          [\A i \in file.replicated :
              placed[i] > 0 /\ placed'[i] = placed[i]]_vars
  <2> SUFFICES ASSUME IInv, [Next]_vars, NEW i \in file.replicated
               PROVE  placed[i] > 0 /\ placed'[i] = placed[i]
    OBVIOUS
  <2>1. placed[i] > 0 /\ i \in 1..MaxTrades /\ placed[i] \in Nat
    BY TradesFinite DEF IInv, Once, Remembered, TypeOK, StateFiles
  <2>2. ASSUME placed'[i] # placed[i] PROVE FALSE
    <3>1. placed' # placed
      BY <2>1, <2>2
    <3>2. Replicate \/ SkipExecuted
      BY <3>1, TargetMoves
         DEF IInv, Next, Trader, Tick, StartPoll, FetchPage, Skip, Refetch, PollRaises,
             Finish, Save, SaveRaises, Crash, Restart, vars
    <3>3. /\ pc = "replicate" /\ queue # <<>>
          /\ placed' = [placed EXCEPT ![Head(queue)] = @ + 1]
      BY <3>2 DEF Replicate, SkipExecuted, Execute
    <3>4. i = Head(queue)
      BY <2>1, <2>2, <3>3 DEF IInv, TypeOK
    <3>5. Head(queue) = queue[1] /\ 1 \in 1..Len(queue)
      BY <3>3, QueueTail DEF IInv
    <3>6. queue[1] \notin file.replicated
      BY <3>5 DEF IInv, Once, QueuedOnce
    <3> QED
      BY <3>4, <3>5, <3>6
  <2> QED
    BY <2>1, <2>2
<1> QED
  BY <1>1, Invariance, PTL DEF Spec, SavedIsFinal

-----------------------------------------------------------------------------
\* A recursion that goes from x to next[x], whose size is less, until it stops.
Descends(D, Stop, next, size, n) ==
    /\ size \in [D -> 0..n]
    /\ \A x \in D \ Stop : next[x] \in D /\ size[next[x]] < size[x]

\* What holds where it stops, and at x if at next[x], holds everywhere.
LEMMA Descent ==
  ASSUME NEW D, NEW Stop, NEW next, NEW size, NEW n \in Nat,
         Descends(D, Stop, next, size, n), NEW G,
         \A x \in D : (x \in Stop \/ next[x] \in G) => x \in G
  PROVE  D \subseteq G
<1> DEFINE Wrong == {size[x] : x \in D \ G}
<1>1. \A x \in D : size[x] \in 0..n
  BY DEF Descends
<1>2. Wrong \subseteq Nat
  BY <1>1
<1>3. ASSUME Wrong # {} PROVE FALSE
  <2>1. PICK k \in Wrong : \A j \in Wrong : k <= j
    <3> HIDE DEF Wrong
    <3> QED
      BY <1>2, <1>3, LeastNatural
  <2>2. PICK x \in D \ G : k = size[x]
    BY <2>1
  <2>3. x \in D \ Stop /\ next[x] \in D \ G
    BY <2>2 DEF Descends
  <2>4. size[next[x]] \in Wrong /\ size[next[x]] < k
    BY <2>2, <2>3 DEF Descends
  <2>5. k <= size[next[x]] /\ k \in Nat /\ size[next[x]] \in Nat
    BY <1>1, <1>2, <2>1, <2>3, <2>4
  <2> QED
    BY <2>4, <2>5
<1> QED
  BY <1>3

\* Such a recursion has a solution: base[x] where it stops, and F[x] of the
\* value at next[x] elsewhere.
Solves(f, D, Stop, next, base, F) ==
    \A x \in D : f[x] = IF x \in Stop THEN base[x] ELSE F[x][f[next[x]]]

\* And a function defined by such a recursion exists.
LEMMA Recursion ==
  ASSUME NEW D, NEW Stop, NEW next, NEW size, NEW n \in Nat,
         Descends(D, Stop, next, size, n),
         NEW V, V # {}, NEW base \in [D -> V], NEW F \in [D -> [V -> V]]
  PROVE  \E f \in [D -> V] : Solves(f, D, Stop, next, base, F)
<1> DEFINE At(f, x) == f[x] = IF x \in Stop THEN base[x] ELSE F[x][f[next[x]]]
           Right(f, k) == f \in [D -> V] /\ \A x \in D : size[x] <= k => At(f, x)
           Wrong == {k \in Nat : \A f : ~Right(f, k)}
<1>1. \A x \in D : size[x] \in 0..n
  BY DEF Descends
<1>2. \A x \in D \ Stop : next[x] \in D /\ size[next[x]] < size[x]
  BY DEF Descends
<1>3. \A x \in D : base[x] \in V /\ \A v \in V : F[x][v] \in V
  OBVIOUS
<1>4. 0 \notin Wrong
  <2>1. \A x \in D : size[x] <= 0 => x \in Stop
    <3>1. ASSUME NEW x \in D, size[x] <= 0, x \notin Stop PROVE FALSE
      BY <1>1, <1>2, <3>1
    <3> QED
      BY <3>1
  <2>2. \A x \in D : size[x] <= 0 => At(base, x)
    BY <2>1
  <2>3. Right(base, 0)
    BY <2>2
  <2> QED
    BY <2>3
<1>5. ASSUME NEW k \in Nat, k \notin Wrong PROVE k + 1 \notin Wrong
  <2>1. PICK f : Right(f, k)
    BY <1>5
  <2>2. f \in [D -> V]
    BY <2>1
  <2> DEFINE v(x) == IF x \in Stop THEN base[x] ELSE F[x][f[next[x]]]
             g == [x \in D |-> IF size[x] <= k THEN f[x] ELSE v(x)]
  <2>3. \A x \in D : v(x) \in V
    <3>1. \A x \in D \ Stop : f[next[x]] \in V
      BY <1>2, <2>2
    <3> QED
      BY <1>3, <3>1
  <2>4. \A x \in D : size[x] <= k => g[x] = f[x]
    OBVIOUS
  <2>5. g \in [D -> V]
    <3> HIDE DEF v
    <3> QED
      BY <2>2, <2>3
  <2>6. \A x \in D : g[x] = v(x)
    <3>1. \A x \in D : size[x] <= k => f[x] = v(x)
      BY <2>1
    <3> HIDE DEF v
    <3> QED
      BY <3>1
  <2> HIDE DEF g
  <2>7. ASSUME NEW x \in D, size[x] <= k + 1 PROVE At(g, x)
    <3>1. CASE x \in Stop
      BY <2>6, <3>1
    <3>2. CASE x \notin Stop
      <4>1. next[x] \in D /\ size[next[x]] <= k
        BY <1>1, <1>2, <2>7, <3>2
      <4>2. g[next[x]] = f[next[x]]
        BY <2>4, <4>1
      <4> QED
        BY <2>6, <3>2, <4>2
    <3> QED
      BY <3>1, <3>2
  <2>8. Right(g, k + 1)
    BY <2>5, <2>7
  <2> QED
    BY <2>8
<1> HIDE DEF Right
<1>6. ASSUME Wrong # {} PROVE FALSE
  <2>0. Wrong \subseteq Nat
    OBVIOUS
  <2>1. PICK k \in Wrong : \A j \in Wrong : k <= j
    <3> HIDE DEF Wrong
    <3> QED
      BY <1>6, <2>0, LeastNatural
  <2>2. k - 1 \in Nat /\ k - 1 \notin Wrong
    <3> HIDE DEF Wrong
    <3> QED
      BY <1>4, <2>0, <2>1
  <2>3. k - 1 + 1 \notin Wrong
    BY <1>5, <2>2
  <2> QED
    BY <2>1, <2>3
<1>7. PICK f : Right(f, n)
  BY <1>6
<1>8. f \in [D -> V] /\ \A x \in D : At(f, x)
  BY <1>1, <1>7 DEF Right
<1> QED
  BY <1>8 DEF Solves

-----------------------------------------------------------------------------
(* The lists that are read *)

\* The recursion of Selected, and what it holds of the first k elements.
Keeps(f, list, places) ==
    f = [k \in 0..Len(list) |->
            IF k = 0 THEN <<>>
            ELSE IF k \in places THEN Append(f[k - 1], list[k])
            ELSE f[k - 1]]
Chosen(s, list, places, k) ==
    /\ Range(s) = {list[i] : i \in places \cap (1..k)}
    /\ s = <<>> <=> places \cap (1..k) = {}
    /\ s # <<>> => \E i \in places \cap (1..k) :
                       /\ s[1] = list[i]
                       /\ \A j \in places \cap (1..k) : i <= j
    /\ 1..k \subseteq places => s = SubSeq(list, 1, k)

LEMMA SelectedUnfolds ==
  ASSUME NEW list, NEW places
  PROVE  Selected(list, places) =
             (CHOOSE f : Keeps(f, list, places))[Len(list)]
BY Zenon DEF Selected, Keeps

LEMMA SelectionExists ==
  ASSUME NEW S, NEW list \in Seq(S), NEW places
  PROVE  \E f \in [0..Len(list) -> Seq(S)] : Keeps(f, list, places)
<1> DEFINE n == Len(list)
           D == 0..n
           next == [k \in D |-> IF k = 0 THEN 0 ELSE k - 1]
           size == [k \in D |-> k]
           base == [k \in D |-> <<>>]
           F == [k \in D |-> [s \in Seq(S) |->
                    IF k # 0 /\ k \in places THEN Append(s, list[k]) ELSE s]]
<1>1. n \in Nat /\ \A k \in 1..n : list[k] \in S
  BY LenProperties, ElementOfSeq
<1>2. Descends(D, {0}, next, size, n)
  BY <1>1 DEF Descends
<1>3. base \in [D -> Seq(S)] /\ Seq(S) # {}
  BY EmptySeq
<1>4. F \in [D -> [Seq(S) -> Seq(S)]]
  <2>1. ASSUME NEW k \in D, NEW s \in Seq(S), k # 0 PROVE Append(s, list[k]) \in Seq(S)
    <3>1. list[k] \in S
      BY <1>1, <2>1
    <3> QED
      BY <3>1, AppendProperties
  <2> HIDE DEF D
  <2> QED
    BY <2>1
<1>5. PICK f \in [D -> Seq(S)] : Solves(f, D, {0}, next, base, F)
  <2> HIDE DEF D, next, size, base, F, n
  <2> QED
    BY <1>1, <1>2, <1>3, <1>4, Recursion
<1>6. ASSUME NEW k \in D
      PROVE  f[k] = IF k = 0 THEN <<>>
                    ELSE IF k \in places THEN Append(f[k - 1], list[k])
                    ELSE f[k - 1]
  <2>1. CASE k = 0
    BY <1>5, <2>1 DEF Solves
  <2>2. CASE k # 0
    <3>1. next[k] = k - 1 /\ k - 1 \in D
      BY <1>1, <2>2
    <3>2. f[k - 1] \in Seq(S)
      BY <1>5, <3>1
    <3>3. f[k] = F[k][f[next[k]]]
      BY <1>5, <2>2 DEF Solves
    <3>4. F[k][f[k - 1]] = IF k # 0 /\ k \in places
                           THEN Append(f[k - 1], list[k]) ELSE f[k - 1]
      BY <3>2
    <3> QED
      BY <2>2, <3>1, <3>3, <3>4
  <2> QED
    BY <2>1, <2>2
<1>7. f = [k \in D |-> f[k]]
  BY <1>5
<1> HIDE DEF D
<1>8. f = [k \in D |-> IF k = 0 THEN <<>>
                    ELSE IF k \in places THEN Append(f[k - 1], list[k])
                    ELSE f[k - 1]]
  BY <1>6, <1>7
<1> USE DEF D
<1> QED
  BY <1>5, <1>8 DEF Keeps

\* Any solution is a sequence of the list's elements.
LEMMA SelectionTyped ==
  ASSUME NEW S, NEW list \in Seq(S), NEW places, NEW f, Keeps(f, list, places)
  PROVE  \A k \in 0..Len(list) : f[k] \in Seq(S)
<1> DEFINE D == 0..Len(list)
           next == [k \in D |-> IF k = 0 THEN 0 ELSE k - 1]
           size == [k \in D |-> k]
           G == {k \in D : f[k] \in Seq(S)}
<1>1. Len(list) \in Nat /\ \A k \in 1..Len(list) : list[k] \in S
  BY LenProperties, ElementOfSeq
<1>2. Descends(D, {0}, next, size, Len(list))
  BY <1>1 DEF Descends
<1>3. ASSUME NEW k \in D, k = 0 \/ next[k] \in G PROVE k \in G
  <2>1. CASE k = 0
    BY <2>1, EmptySeq DEF Keeps
  <2>2. CASE k # 0
    <3>1. f[k - 1] \in Seq(S) /\ list[k] \in S
      BY <1>1, <1>3, <2>2
    <3>2. Append(f[k - 1], list[k]) \in Seq(S)
      BY <3>1, AppendProperties
    <3>3. f[k] = IF k \in places THEN Append(f[k - 1], list[k]) ELSE f[k - 1]
      BY <2>2 DEF Keeps
    <3> QED
      BY <3>1, <3>2, <3>3
  <2> QED
    BY <2>1, <2>2
<1>4. D \subseteq G
  <2> HIDE DEF D, next, size, G
  <2> QED
    BY <1>1, <1>2, <1>3, Descent
<1> QED
  BY <1>4

\* One more element is kept, or is not.
LEMMA AppendChosen ==
  ASSUME NEW S, NEW list \in Seq(S), NEW places, NEW k \in 1..Len(list),
         NEW s \in Seq(S), Chosen(s, list, places, k - 1)
  PROVE  Chosen(IF k \in places THEN Append(s, list[k]) ELSE s, list, places, k)
<1>1. Len(list) \in Nat /\ list[k] \in S
  BY LenProperties, ElementOfSeq
<1>2. 1..k = (1..(k - 1)) \cup {k} /\ k \notin 1..(k - 1)
  BY <1>1
<1>3. CASE k \notin places
  <2>1. places \cap (1..k) = places \cap (1..(k - 1))
    BY <1>2, <1>3
  <2>2. ~(1..k \subseteq places)
    BY <1>2, <1>3
  <2> QED
    BY <1>3, <2>1, <2>2, Zenon DEF Chosen
<1>4. CASE k \in places
  <2> DEFINE t == Append(s, list[k])
             P == places \cap (1..(k - 1))
  <2>1. places \cap (1..k) = P \cup {k}
    BY <1>2, <1>4
  <2>2. /\ t \in Seq(S) /\ t # <<>> /\ Len(t) = Len(s) + 1
        /\ \A i \in 1..Len(s) : t[i] = s[i]
        /\ t[Len(s) + 1] = list[k]
    BY <1>1, AppendProperties
  <2>3. /\ Len(s) \in Nat /\ DOMAIN s = 1..Len(s)
        /\ DOMAIN t = 1..(Len(s) + 1)
    BY <2>2, LenProperties
  <2> HIDE DEF t
  <2>4. Range(t) = Range(s) \cup {list[k]}
    <3>1. DOMAIN t = DOMAIN s \cup {Len(s) + 1}
      BY <2>3
    <3>2. \A i \in DOMAIN s : t[i] = s[i]
      BY <2>2, <2>3
    <3> QED
      BY <2>2, <3>1, <3>2 DEF Range
  <2>5. Range(t) = {list[i] : i \in P \cup {k}}
    BY <2>4 DEF Chosen
  <2>6. \E i \in P \cup {k} : t[1] = list[i] /\ \A j \in P \cup {k} : i <= j
    <3>1. CASE s = <<>>
      <4>1. P = {}
        BY <3>1 DEF Chosen
      <4>2. t[1] = list[k]
        BY <2>2, <3>1
      <4> QED
        BY <4>1, <4>2
    <3>2. CASE s # <<>>
      <4>1. PICK i \in P : s[1] = list[i] /\ \A j \in P : i <= j
        BY <3>2 DEF Chosen
      <4>2. Len(s) # 0
        BY <3>2, EmptySeq
      <4>3. t[1] = s[1]
        BY <2>2, <2>3, <4>2
      <4>4. i <= k
        BY <1>1, <4>1
      <4> QED
        BY <4>1, <4>3, <4>4
    <3> QED
      BY <3>1, <3>2
  <2>7. 1..k \subseteq places => t = SubSeq(list, 1, k)
    <3> SUFFICES ASSUME 1..k \subseteq places PROVE t = SubSeq(list, 1, k)
      OBVIOUS
    <3>1. s = SubSeq(list, 1, k - 1)
      BY <1>2 DEF Chosen
    <3>2. SubSeq(list, 1, k) = s \o <<list[k]>>
      <4>1. 1 \in 1..Len(list) /\ k \in 1..Len(list)
        BY <1>1
      <4> QED
        BY <3>1, <4>1, SubSeqRecursiveSecond
    <3>3. t = s \o <<list[k]>>
      BY <1>1, AppendIsConcat DEF t
    <3> QED
      BY <3>2, <3>3
  <2>8. Chosen(t, list, places, k)
    BY <2>1, <2>2, <2>5, <2>6, <2>7 DEF Chosen
  <2> QED
    BY <1>4, <2>8 DEF t
<1> QED
  BY <1>3, <1>4

\* What Selected is made of, and that its first element is the first chosen.
LEMMA SelectedHolds ==
  ASSUME NEW S, NEW list \in Seq(S), NEW places
  PROVE  /\ Selected(list, places) \in Seq(S)
         /\ Chosen(Selected(list, places), list, places, Len(list))
<1> DEFINE D == 0..Len(list)
           next == [k \in D |-> IF k = 0 THEN 0 ELSE k - 1]
           size == [k \in D |-> k]
<1>0. Len(list) \in Nat
  BY LenProperties
<1>1. PICK f : Keeps(f, list, places) /\ Selected(list, places) = f[Len(list)]
  <2>1. Keeps(CHOOSE f : Keeps(f, list, places), list, places)
    BY SelectionExists
  <2> QED
    BY <2>1, SelectedUnfolds
<1>2. \A k \in D : f[k] \in Seq(S)
  BY <1>1, SelectionTyped
<1> DEFINE G == {k \in D : Chosen(f[k], list, places, k)}
<1>3. Descends(D, {0}, next, size, Len(list))
  BY <1>0 DEF Descends
<1>4. ASSUME NEW k \in D, k = 0 \/ next[k] \in G PROVE k \in G
  <2>1. CASE k = 0
    <3>1. f[k] = <<>> /\ 1..k = {}
      BY <1>0, <1>1, <2>1 DEF Keeps
    <3>2. Range(f[k]) = {}
      BY <3>1 DEF Range
    <3>3. SubSeq(list, 1, k) = <<>>
      BY <2>1, SubSeqEmpty
    <3>4. Chosen(f[k], list, places, k)
      BY <3>1, <3>2, <3>3 DEF Chosen
    <3> QED
      BY <3>4
  <2>2. CASE k # 0
    <3>1. k \in 1..Len(list) /\ k - 1 \in D /\ Chosen(f[k - 1], list, places, k - 1)
      BY <1>0, <1>4, <2>2
    <3>2. f[k] = IF k \in places THEN Append(f[k - 1], list[k]) ELSE f[k - 1]
      BY <1>1, <2>2 DEF Keeps
    <3>3. f[k - 1] \in Seq(S)
      BY <1>2, <3>1
    <3>4. Chosen(f[k], list, places, k)
      BY <3>1, <3>2, <3>3, AppendChosen
    <3> QED
      BY <3>4
  <2> QED
    BY <2>1, <2>2
<1>5. D \subseteq G
  <2> HIDE DEF D, next, size, G
  <2> QED
    BY <1>0, <1>3, <1>4, Descent
<1> QED
  BY <1>0, <1>1, <1>2, <1>5

\* All of a list, and the range of a selection.
LEMMA SelectedAll ==
  ASSUME NEW S, NEW list \in Seq(S), NEW places, DOMAIN list \subseteq places
  PROVE  Selected(list, places) = list
<1>1. DOMAIN list = 1..Len(list) /\ SubSeq(list, 1, Len(list)) = list
  BY LenProperties, SubSeqFull
<1> QED
  BY <1>1, SelectedHolds DEF Chosen

\* Those elements are kept that are at the places given.
LEMMA SelectedRange ==
  ASSUME NEW S, NEW list \in Seq(S), NEW places
  PROVE  /\ Selected(list, places) \in Seq(S)
         /\ Range(Selected(list, places)) =
                {list[i] : i \in places \cap (DOMAIN list)}
<1>1. DOMAIN list = 1..Len(list)
  BY LenProperties
<1> QED
  BY <1>1, SelectedHolds DEF Chosen

\* A page is a part of the list, and full unless the list ends in it.
LEMMA PageHolds ==
  ASSUME NEW S, NEW list \in Seq(S), NEW o \in 0..Len(list)
  PROVE  LET page == PageOf(list, o)
             n == Len(list)
         IN  /\ page \in Seq(S)
             /\ Len(page) = IF o + ListLimit < n THEN ListLimit ELSE n - o
             /\ o + Len(page) \in o..n
             /\ page = SubSeq(list, o + 1, o + Len(page))
             /\ \A i \in 1..Len(page) : page[i] = list[o + i]
<1> DEFINE n == Len(list)
           end == IF o + ListLimit < n THEN o + ListLimit ELSE n
<1>1. ListLimit \in Nat \ {0} /\ n \in Nat /\ o \in Int
  BY PolymarketApiAssumption, LenProperties
<1>2. end \in Int /\ o <= end /\ end <= n /\ o + 1 \in Int
  BY <1>1
<1>3. PageOf(list, o) = SubSeq(list, o + 1, end)
  BY DEF PageOf
<1>4. \A i \in (o + 1)..end : list[i] \in S
  <2>1. ASSUME NEW i \in (o + 1)..end PROVE i \in 1..Len(list)
    BY <1>1, <1>2
  <2> QED
    BY <2>1, ElementOfSeq
<1> HIDE DEF end
<1>5. /\ PageOf(list, o) \in Seq(S)
      /\ Len(PageOf(list, o)) = IF o + 1 <= end THEN end - (o + 1) + 1 ELSE 0
      /\ \A i \in 1..(end - (o + 1) + 1) : PageOf(list, o)[i] = list[(o + 1) + i - 1]
  BY <1>2, <1>3, <1>4, SubSeqProperties
<1>6. Len(PageOf(list, o)) = end - o /\ o + Len(PageOf(list, o)) = end
  <2>1. Len(PageOf(list, o)) = IF o + 1 <= end THEN end - (o + 1) + 1 ELSE 0
    BY <1>5
  <2> HIDE DEF PageOf
  <2>2. o \in Int /\ end \in Int /\ o <= end
    BY <1>1, <1>2
  <2>3. Len(PageOf(list, o)) = end - o
    BY <2>1, <2>2
  <2> QED
    BY <2>2, <2>3
<1>7. \A i \in 1..Len(PageOf(list, o)) : PageOf(list, o)[i] = list[o + i]
  <2>1. ASSUME NEW i \in 1..Len(PageOf(list, o)) PROVE PageOf(list, o)[i] = list[o + i]
    <3>1. i \in 1..(end - (o + 1) + 1) /\ (o + 1) + i - 1 = o + i
      BY <1>1, <1>2, <1>6
    <3> QED
      BY <1>5, <3>1
  <2> QED
    BY <2>1
<1>8. Len(PageOf(list, o)) = IF o + ListLimit < n THEN ListLimit ELSE n - o
  BY <1>1, <1>6 DEF end
<1>9. o + Len(PageOf(list, o)) \in o..n
  BY <1>1, <1>2, <1>6
<1>10. PageOf(list, o) = SubSeq(list, o + 1, o + Len(PageOf(list, o)))
  BY <1>3, <1>6
<1> QED
  BY <1>5, <1>7, <1>8, <1>9, <1>10

\* Without a time to start from, a page loses nothing.
LEMMA RecentAll ==
  ASSUME NEW S, NEW page \in Seq(S)
  PROVE  Recent(page, {}) = page
BY SelectedAll DEF Recent

\* The recursion of TradesPaginated without a time to start from, and where
\* it ends.
LastPage(list, o) ==
    LET page == PageOf(list, o)
    IN  Len(page) < ListLimit \/ o + Len(page) >= ListCap
Pages(f, list) ==
    f = [o \in 0..Len(list) |->
            LET page == PageOf(list, o)
                next == o + Len(page)
            IN  IF Len(page) < ListLimit \/ next >= ListCap
                THEN Recent(page, {})
                ELSE Recent(page, {}) \o f[next]]

LEMMA TradesUnfold ==
  ASSUME NEW list
  PROVE  TradesPaginated(list, {}) = (CHOOSE f : Pages(f, list))[0]
BY Zenon DEF TradesPaginated, Pages

\* Every page that is not the last one is followed by one that starts later.
LEMMA PagesDescend ==
  ASSUME NEW S, NEW list \in Seq(S)
  PROVE  LET D == 0..Len(list)
         IN  Descends(D, {o \in D : LastPage(list, o)},
                      [o \in D |-> o + Len(PageOf(list, o))],
                      [o \in D |-> Len(list) - o], Len(list))
<1> DEFINE D == 0..Len(list)
           Stop == {o \in D : LastPage(list, o)}
           next == [o \in D |-> o + Len(PageOf(list, o))]
           size == [o \in D |-> Len(list) - o]
<1>1. Len(list) \in Nat /\ ListLimit \in Nat \ {0}
  BY LenProperties, PolymarketApiAssumption
<1>2. size \in [D -> 0..Len(list)]
  BY <1>1
<1>3. ASSUME NEW o \in D \ Stop
      PROVE  next[o] \in D /\ size[next[o]] < size[o]
  <2>1. next[o] \in o..Len(list) /\ Len(PageOf(list, o)) = next[o] - o
    BY <1>1, PageHolds
  <2>2. ~(Len(PageOf(list, o)) < ListLimit)
    BY DEF LastPage
  <2>3. next[o] > o /\ next[o] \in D
    BY <1>1, <2>1, <2>2
  <2>4. size[next[o]] = Len(list) - next[o] /\ size[o] = Len(list) - o
    BY <2>3
  <2> HIDE DEF next, size
  <2> QED
    BY <1>1, <2>3, <2>4
<1> QED
  BY <1>2, <1>3 DEF Descends

LEMMA PagesExist ==
  ASSUME NEW S, NEW list \in Seq(S)
  PROVE  \E f \in [0..Len(list) -> Seq(S)] : Pages(f, list)
<1> DEFINE D == 0..Len(list)
           Stop == {o \in D : LastPage(list, o)}
           next == [o \in D |-> o + Len(PageOf(list, o))]
           size == [o \in D |-> Len(list) - o]
           base == [o \in D |-> PageOf(list, o)]
           F == [o \in D |-> [s \in Seq(S) |-> PageOf(list, o) \o s]]
<1>1. Descends(D, Stop, next, size, Len(list)) /\ Len(list) \in Nat
  BY PagesDescend, LenProperties
<1>2. \A o \in D : PageOf(list, o) \in Seq(S)
  BY PageHolds
<1>3. \A o \in D : Recent(PageOf(list, o), {}) = PageOf(list, o)
  BY <1>2, RecentAll
<1>4. base \in [D -> Seq(S)] /\ Seq(S) # {}
  BY <1>2, EmptySeq
<1>5. F \in [D -> [Seq(S) -> Seq(S)]]
  <2>1. ASSUME NEW o \in D, NEW s \in Seq(S) PROVE PageOf(list, o) \o s \in Seq(S)
    BY <1>2, ConcatProperties
  <2> HIDE DEF D
  <2> QED
    BY <2>1
<1>6. PICK f \in [D -> Seq(S)] : Solves(f, D, Stop, next, base, F)
  <2> HIDE DEF D, Stop, next, size, base, F
  <2> QED
    BY <1>1, <1>4, <1>5, Recursion
<1>7. ASSUME NEW o \in D
      PROVE  f[o] = IF LastPage(list, o) THEN Recent(PageOf(list, o), {})
                    ELSE Recent(PageOf(list, o), {}) \o f[o + Len(PageOf(list, o))]
  <2>1. f[o] = IF o \in Stop THEN base[o] ELSE F[o][f[next[o]]]
    BY <1>6 DEF Solves
  <2>2. CASE LastPage(list, o)
    BY <1>3, <2>1, <2>2
  <2>3. CASE ~LastPage(list, o)
    <3>1. next[o] \in D
      BY <1>1, <2>3 DEF Descends
    <3>2. f[next[o]] \in Seq(S)
      BY <1>6, <3>1
    <3>3. F[o][f[next[o]]] = PageOf(list, o) \o f[next[o]]
      BY <3>2
    <3> QED
      BY <1>3, <2>1, <2>3, <3>3
  <2> QED
    BY <2>2, <2>3
<1>8. f = [o \in D |-> f[o]]
  BY <1>6
<1>9. f = [o \in D |-> IF LastPage(list, o) THEN Recent(PageOf(list, o), {})
                    ELSE Recent(PageOf(list, o), {}) \o f[o + Len(PageOf(list, o))]]
  <2> HIDE DEF D
  <2> QED
    BY <1>7, <1>8
<1>10. Pages(f, list)
  BY <1>9, Zenon DEF Pages, LastPage
<1> QED
  BY <1>6, <1>10

\* Reading all trades begins with the newest, and yields the list itself
\* when no page beyond the cap is needed.
LEMMA TradesRead ==
  ASSUME NEW S, NEW list \in Seq(S)
  PROVE  /\ list # <<>> => \E t \in Range(TradesPaginated(list, {})) : t = list[1]
         /\ Len(list) <= ListCap => TradesPaginated(list, {}) = list
<1> DEFINE D == 0..Len(list)
           Stop == {o \in D : LastPage(list, o)}
           next == [o \in D |-> o + Len(PageOf(list, o))]
           size == [o \in D |-> Len(list) - o]
<1>0. Len(list) \in Nat /\ ListLimit \in Nat \ {0} /\ ListCap \in Nat
  BY LenProperties, PolymarketApiAssumption
<1>1. PICK f : Pages(f, list) /\ TradesPaginated(list, {}) = f[0]
  <2>1. Pages(CHOOSE f : Pages(f, list), list)
    BY PagesExist
  <2> QED
    BY <2>1, TradesUnfold
<1>2. \A o \in D : /\ PageOf(list, o) \in Seq(S)
                   /\ Recent(PageOf(list, o), {}) = PageOf(list, o)
  BY PageHolds, RecentAll
<1>3. \A o \in D : f[o] = IF LastPage(list, o) THEN PageOf(list, o)
                          ELSE PageOf(list, o) \o f[o + Len(PageOf(list, o))]
  BY <1>1, <1>2, Zenon DEF Pages, LastPage
<1>4. Descends(D, Stop, next, size, Len(list))
  BY PagesDescend
<1> DEFINE T == {o \in D : f[o] \in Seq(S)}
<1>5. D \subseteq T
  <2>1. ASSUME NEW o \in D, o \in Stop \/ next[o] \in T PROVE o \in T
    <3>1. CASE LastPage(list, o)
      BY <1>2, <1>3, <3>1
    <3>2. CASE ~LastPage(list, o)
      <4>1. f[next[o]] \in Seq(S)
        BY <2>1, <3>2
      <4>2. PageOf(list, o) \o f[next[o]] \in Seq(S)
        BY <1>2, <4>1, ConcatProperties
      <4> QED
        BY <1>3, <3>2, <4>2
    <3> QED
      BY <3>1, <3>2
  <2> HIDE DEF D, Stop, next, size, T
  <2> QED
    BY <1>0, <1>4, <2>1, Descent
<1>6. ASSUME list # <<>> PROVE \E t \in Range(f[0]) : t = list[1]
  <2> DEFINE page == PageOf(list, 0)
  <2>1. Len(list) # 0 /\ 0 \in D
    BY <1>0, <1>6, EmptySeq
  <2>2. page \in Seq(S) /\ Len(page) \in Nat \ {0} /\ page[1] = list[1]
    <3>1. /\ page \in Seq(S)
          /\ Len(page) = IF 0 + ListLimit < Len(list) THEN ListLimit ELSE Len(list) - 0
          /\ \A i \in 1..Len(page) : page[i] = list[0 + i]
      BY <2>1, PageHolds
    <3>2. Len(page) \in Nat \ {0}
      BY <1>0, <2>1, <3>1
    <3>3. 1 \in 1..Len(page)
      BY <3>2
    <3>4. page[1] = list[0 + 1]
      BY <3>1, <3>3
    <3> QED
      BY <3>1, <3>2, <3>4
  <2> HIDE DEF page
  <2>3. f[0] \in Seq(S) /\ Len(f[0]) \in Nat \ {0} /\ f[0][1] = page[1]
    <3>1. CASE LastPage(list, 0)
      BY <1>3, <2>1, <2>2, <3>1 DEF page
    <3>2. CASE ~LastPage(list, 0)
      <4> DEFINE rest == f[0 + Len(page)]
      <4>1. f[0] = page \o rest
        BY <1>3, <2>1, <3>2 DEF page
      <4>2. rest \in Seq(S)
        <5>1. next[0] \in D /\ next[0] = 0 + Len(page)
          BY <1>4, <2>1, <3>2 DEF Descends, page
        <5>2. f[next[0]] \in Seq(S)
          BY <1>5, <5>1
        <5> QED
          BY <5>1, <5>2
      <4> HIDE DEF rest
      <4>3. /\ f[0] \in Seq(S) /\ Len(f[0]) = Len(page) + Len(rest)
            /\ \A i \in 1..(Len(page) + Len(rest)) :
                   f[0][i] = IF i <= Len(page) THEN page[i] ELSE rest[i - Len(page)]
        BY <2>2, <4>1, <4>2, ConcatProperties
      <4>4. Len(rest) \in Nat
        BY <4>2, LenProperties
      <4>5. 1 \in 1..(Len(page) + Len(rest)) /\ 1 <= Len(page)
        BY <2>2, <4>4
      <4>6. f[0][1] = page[1]
        BY <4>3, <4>5
      <4> QED
        BY <2>2, <4>3, <4>4, <4>6
    <3> QED
      BY <3>1, <3>2
  <2>4. DOMAIN f[0] = 1..Len(f[0])
    BY <2>3, LenProperties
  <2>5. 1 \in DOMAIN f[0]
    BY <2>3, <2>4
  <2>6. f[0][1] \in Range(f[0])
    BY <2>5 DEF Range
  <2> QED
    BY <2>2, <2>3, <2>6
<1>7. ASSUME Len(list) <= ListCap PROVE f[0] = list
  <2> DEFINE G == {o \in D : f[o] = SubSeq(list, o + 1, Len(list))}
  <2>1. ASSUME NEW o \in D, o \in Stop \/ next[o] \in G PROVE o \in G
    <3> DEFINE page == PageOf(list, o)
    <3>1. /\ Len(page) = IF o + ListLimit < Len(list) THEN ListLimit ELSE Len(list) - o
          /\ o + Len(page) \in o..Len(list)
          /\ page = SubSeq(list, o + 1, o + Len(page))
      BY PageHolds
    <3>2. CASE LastPage(list, o)
      <4>1. o + Len(page) = Len(list)
        <5>1. Len(page) < ListLimit \/ o + Len(page) >= ListCap
          BY <3>2 DEF LastPage
        <5> HIDE DEF page
        <5> QED
          BY <1>0, <1>7, <3>1, <5>1
      <4> QED
        BY <1>3, <3>1, <3>2, <4>1
    <3>3. CASE ~LastPage(list, o)
      <4>1. f[o] = page \o f[o + Len(page)]
        BY <1>3, <3>3
      <4>2. f[o + Len(page)] = SubSeq(list, o + Len(page) + 1, Len(list))
        BY <2>1, <3>3
      <4>3. SubSeq(list, o + 1, o + Len(page)) \o SubSeq(list, o + Len(page) + 1, Len(list))
              = SubSeq(list, o + 1, Len(list))
        <5> HIDE DEF page
        <5>1. /\ o + 1 \in 1..(Len(list) + 1)
              /\ o + Len(page) \in ((o + 1) - 1)..Len(list)
              /\ Len(list) \in (o + Len(page))..Len(list)
          BY <1>0, <3>1
        <5> QED
          BY <5>1, ConcatAdjacentSubSeq
      <4> QED
        BY <3>1, <4>1, <4>2, <4>3
    <3> QED
      BY <3>2, <3>3
  <2>2. D \subseteq G
    <3> HIDE DEF D, Stop, next, size, G
    <3> QED
      BY <1>0, <1>4, <2>1, Descent
  <2>3. f[0] = SubSeq(list, 0 + 1, Len(list))
    <3>1. 0 \in D
      BY <1>0
    <3> QED
      BY <2>2, <3>1
  <2> QED
    BY <2>3, SubSeqFull
<1> QED
  BY <1>1, <1>6, <1>7

\* The recursion of MarketsPaginated: what a page adds, and where it ends.
Added(list, o) ==
    Selected(PageOf(list, o), {k \in DOMAIN PageOf(list, o) :
                                   Kept(PageOf(list, o)[k])})
After(list, at) == at[1] + Len(PageOf(list, at[1]))
Left(list, at) == at[2] - Len(Added(list, at[1]))
Enough(list, at) == Left(list, at) <= 0 \/ After(list, at) = Len(list)
Listing(f, list, limit) ==
    f = [at \in (0..Len(list)) \X (1..limit) |->
            IF Enough(list, at) THEN Added(list, at[1])
            ELSE Added(list, at[1]) \o f[<<After(list, at), Left(list, at)>>]]

LEMMA MarketsUnfold ==
  ASSUME NEW list, NEW limit
  PROVE  LET all == IF limit = 0 THEN <<>>
                    ELSE (CHOOSE f : Listing(f, list, limit))[<<0, limit>>]
         IN  MarketsPaginated(list, limit) =
                 SubSeq(all, 1, IF limit < Len(all) THEN limit ELSE Len(all))
BY Zenon DEF MarketsPaginated, Listing, Enough, Added, After, Left

\* A page adds events that are kept, and no others.
LEMMA AddedKept ==
  ASSUME NEW S, NEW list \in Seq(S), NEW o \in 0..Len(list)
  PROVE  Added(list, o) \in Seq({e \in S : Kept(e)})
<1> DEFINE page == PageOf(list, o)
           K == {e \in S : Kept(e)}
           P == {k \in DOMAIN page : Kept(page[k])}
<1>1. page \in Seq(S)
  BY PageHolds
<1>2. \A k \in DOMAIN page : page[k] \in S
  BY <1>1, LenProperties, ElementOfSeq
<1> HIDE DEF page
<1>3. /\ Selected(page, P) \in Seq(S)
      /\ Range(Selected(page, P)) = {page[i] : i \in P \cap (DOMAIN page)}
  BY <1>1, SelectedRange
<1>4. Range(Selected(page, P)) \subseteq K
  BY <1>2, <1>3
<1>5. Selected(page, P) \in Seq(Range(Selected(page, P)))
  BY <1>3, SeqOfRange
<1>6. Selected(page, P) \in Seq(K)
  <2> HIDE DEF K, P
  <2> QED
    BY <1>4, <1>5, SeqMonotonic
<1> QED
  BY <1>6 DEF Added, page

\* Every list that goes on reads further.
LEMMA MarketsDescend ==
  ASSUME NEW S, NEW list \in Seq(S), NEW limit \in Nat
  PROVE  LET D == (0..Len(list)) \X (1..limit)
         IN  Descends(D, {at \in D : Enough(list, at)},
                 [at \in D |-> <<After(list, at), Left(list, at)>>],
                 [at \in D |-> Len(list) - at[1]], Len(list))
<1> DEFINE D == (0..Len(list)) \X (1..limit)
           Stop == {at \in D : Enough(list, at)}
           next == [at \in D |-> <<After(list, at), Left(list, at)>>]
           size == [at \in D |-> Len(list) - at[1]]
<1>1. Len(list) \in Nat /\ ListLimit \in Nat \ {0}
  BY LenProperties, PolymarketApiAssumption
<1>2. \A at \in D : /\ at[1] \in 0..Len(list) /\ at[2] \in 1..limit
                    /\ Len(Added(list, at[1])) \in Nat
  <2>1. \A o \in 0..Len(list) : Len(Added(list, o)) \in Nat
    BY AddedKept, LenProperties
  <2> QED
    BY <2>1
<1>3. size \in [D -> 0..Len(list)]
  BY <1>1, <1>2
<1>4. ASSUME NEW at \in D \ Stop PROVE next[at] \in D /\ size[next[at]] < size[at]
  <2> DEFINE o == at[1]
             len == Len(PageOf(list, o))
  <2>1. /\ o \in 0..Len(list) /\ at[2] \in 1..limit
        /\ Len(Added(list, o)) \in Nat
    BY <1>2
  <2>2. /\ len = IF o + ListLimit < Len(list) THEN ListLimit ELSE Len(list) - o
        /\ o + len \in o..Len(list)
    BY <2>1, PageHolds
  <2>3. After(list, at) = o + len
    BY DEF After
  <2>4. Left(list, at) = at[2] - Len(Added(list, o))
    BY DEF Left
  <2>5. ~(Left(list, at) <= 0) /\ After(list, at) # Len(list)
    BY DEF Enough
  <2> HIDE DEF o, len
  <2>6. Left(list, at) \in 1..limit
    BY <2>1, <2>4, <2>5
  <2>7. After(list, at) \in 0..Len(list) /\ After(list, at) > o
    BY <1>1, <2>1, <2>2, <2>3, <2>5
  <2>8. next[at] = <<After(list, at), Left(list, at)>> /\ next[at] \in D
    BY <2>6, <2>7
  <2>9. size[next[at]] = Len(list) - After(list, at) /\ size[at] = Len(list) - o
    BY <2>8 DEF o
  <2> HIDE DEF size, next
  <2> QED
    BY <1>1, <2>1, <2>7, <2>8, <2>9
<1> QED
  BY <1>3, <1>4 DEF Descends

LEMMA ListingExists ==
  ASSUME NEW S, NEW list \in Seq(S), NEW limit \in Nat
  PROVE  \E f \in [(0..Len(list)) \X (1..limit) -> Seq({e \in S : Kept(e)})] :
             Listing(f, list, limit)
<1> DEFINE D == (0..Len(list)) \X (1..limit)
           K == Seq({e \in S : Kept(e)})
           Stop == {at \in D : Enough(list, at)}
           next == [at \in D |-> <<After(list, at), Left(list, at)>>]
           size == [at \in D |-> Len(list) - at[1]]
           base == [at \in D |-> Added(list, at[1])]
           F == [at \in D |-> [s \in K |-> Added(list, at[1]) \o s]]
<1>1. Len(list) \in Nat /\ ListLimit \in Nat \ {0}
  BY LenProperties, PolymarketApiAssumption
<1>2. \A o \in 0..Len(list) : Added(list, o) \in K /\ Len(Added(list, o)) \in Nat
  BY AddedKept, LenProperties
<1>3. \A at \in D : /\ at[1] \in 0..Len(list) /\ at[2] \in 1..limit
                    /\ Added(list, at[1]) \in K
                    /\ Len(Added(list, at[1])) \in Nat
  BY <1>2
<1>4. Descends(D, Stop, next, size, Len(list))
  BY MarketsDescend
<1>5. base \in [D -> K] /\ K # {}
  <2>1. K # {}
    BY EmptySeq
  <2> HIDE DEF D, K
  <2> QED
    BY <1>3, <2>1
<1>6. F \in [D -> [K -> K]]
  <2>1. ASSUME NEW at \in D, NEW s \in K PROVE Added(list, at[1]) \o s \in K
    <3>1. Added(list, at[1]) \in K
      BY <1>3
    <3> QED
      BY <3>1, ConcatProperties
  <2> HIDE DEF D, K
  <2> QED
    BY <2>1
<1>7. PICK f \in [D -> K] : Solves(f, D, Stop, next, base, F)
  <2> HIDE DEF D, K, Stop, next, size, base, F
  <2> QED
    BY <1>1, <1>4, <1>5, <1>6, Recursion
<1>8. ASSUME NEW at \in D
      PROVE  f[at] = IF Enough(list, at) THEN Added(list, at[1])
                     ELSE Added(list, at[1]) \o f[<<After(list, at), Left(list, at)>>]
  <2> HIDE DEF D, K
  <2>1. f[at] = IF at \in Stop THEN base[at] ELSE F[at][f[next[at]]]
    BY <1>7 DEF Solves
  <2>2. CASE Enough(list, at)
    BY <2>1, <2>2
  <2>3. CASE ~Enough(list, at)
    <3>1. next[at] \in D
      BY <1>4, <2>3 DEF Descends
    <3>2. f[next[at]] \in K
      BY <1>7, <3>1
    <3>3. F[at][f[next[at]]] = Added(list, at[1]) \o f[next[at]]
      BY <3>2
    <3> QED
      BY <2>1, <2>3, <3>3
  <2> QED
    BY <2>2, <2>3
<1>9. f = [at \in D |-> f[at]]
  BY <1>7
<1>10. f = [at \in D |->
               IF Enough(list, at) THEN Added(list, at[1])
               ELSE Added(list, at[1]) \o f[<<After(list, at), Left(list, at)>>]]
  <2> HIDE DEF D
  <2> QED
    BY <1>8, <1>9
<1> QED
  BY <1>7, <1>10, Zenon DEF Listing

\* All that get_polymarkets_with_pagination gives is kept.
LEMMA MarketsKept ==
  ASSUME NEW S, NEW list \in Seq(S), NEW limit \in Nat
  PROVE  Range(MarketsPaginated(list, limit)) \subseteq {e \in S : Kept(e)}
<1> DEFINE K == {e \in S : Kept(e)}
           D == (0..Len(list)) \X (1..limit)
           Stop == {at \in D : Enough(list, at)}
           g == CHOOSE f : Listing(f, list, limit)
           all == IF limit = 0 THEN <<>> ELSE g[<<0, limit>>]
           n == IF limit < Len(all) THEN limit ELSE Len(all)
<1>1. PICK f \in [D -> Seq(K)] : Listing(f, list, limit)
  BY ListingExists
<1>2. Listing(g, list, limit)
  BY <1>1
<1>3. all \in Seq(K)
  <2>1. CASE limit = 0
    BY <2>1, EmptySeq
  <2>2. CASE limit # 0
    <3> DEFINE G == {at \in D : g[at] \in Seq(K)}
               next == [at \in D |-> <<After(list, at), Left(list, at)>>]
               size == [at \in D |-> Len(list) - at[1]]
    <3>1. \A at \in D : /\ at[1] \in 0..Len(list) /\ Added(list, at[1]) \in Seq(K)
                        /\ Len(Added(list, at[1])) \in Nat
      <4>1. \A o \in 0..Len(list) : Added(list, o) \in Seq(K)
        BY AddedKept
      <4>2. \A s \in Seq(K) : Len(s) \in Nat
        BY LenProperties
      <4> HIDE DEF K
      <4> QED
        BY <4>1, <4>2
    <3>2. \A at \in D : g[at] =
               IF Enough(list, at) THEN Added(list, at[1])
               ELSE Added(list, at[1]) \o g[<<After(list, at), Left(list, at)>>]
      <4> HIDE DEF g
      <4> QED
        BY <1>2, Zenon DEF Listing
    <3>3. Len(list) \in Nat /\ Descends(D, Stop, next, size, Len(list))
      BY LenProperties, MarketsDescend
    <3>4. ASSUME NEW at \in D, at \in Stop \/ next[at] \in G PROVE at \in G
      <4> HIDE DEF K, D, g
      <4>1. CASE Enough(list, at)
        BY <3>1, <3>2, <4>1
      <4>2. CASE ~Enough(list, at)
        <5>1. g[next[at]] \in Seq(K)
          BY <3>4, <4>2
        <5>2. Added(list, at[1]) \o g[next[at]] \in Seq(K)
          BY <3>1, <5>1, ConcatProperties
        <5> QED
          BY <3>2, <4>2, <5>2
      <4> QED
        BY <4>1, <4>2
    <3>5. D \subseteq G
      <4> HIDE DEF D, K, Stop, next, size, G
      <4> QED
        BY <3>3, <3>4, Descent
    <3>6. <<0, limit>> \in D
      BY <2>2, <3>3
    <3> HIDE DEF g
    <3> QED
      BY <2>2, <3>5, <3>6
  <2> QED
    BY <2>1, <2>2
<1>4. MarketsPaginated(list, limit) = SubSeq(all, 1, n)
  BY MarketsUnfold, Zenon
<1> HIDE DEF K, all
<1>5. Len(all) \in Nat /\ n \in 0..Len(all)
  BY <1>3, LenProperties
<1>6. \A i \in 1..n : all[i] \in K
  <2>1. \A i \in 1..n : i \in 1..Len(all)
    BY <1>5
  <2> HIDE DEF n
  <2> QED
    BY <1>3, <2>1, ElementOfSeq
<1>7. SubSeq(all, 1, n) \in Seq(K)
  <2> HIDE DEF n
  <2> QED
    BY <1>5, <1>6, SubSeqProperties
<1>8. Range(SubSeq(all, 1, n)) \subseteq K
  BY <1>7, RangeOfSeq
<1> QED
  BY <1>4, <1>8 DEF K

-----------------------------------------------------------------------------
(* Sums *)

\* The order in which SumFunction takes elements away, and its recursion.
Pick(s) == CHOOSE x \in s : TRUE
Sums(f, g) ==
    g = [s \in SUBSET (DOMAIN f) |->
            IF s = {} THEN 0 ELSE f[Pick(s)] + g[s \ {Pick(s)}]]

LEMMA SumUnfolds ==
  ASSUME NEW f
  PROVE  SumFunction(f) = (CHOOSE g : Sums(f, g))[DOMAIN f]
BY Zenon DEF SumFunction, SumFunctionOnSet, FoldFunctionOnSet, MapThenFoldSet,
             Sums, Pick

\* What taking one element away leaves.
LEMMA Smaller ==
  ASSUME NEW S, IsFiniteSet(S), NEW s \in SUBSET S
  PROVE  /\ Cardinality(s) \in 0..Cardinality(S)
         /\ Cardinality(s) = 0 => s = {}
         /\ s # {} => Pick(s) \in s
         /\ \A x \in s : /\ s \ {x} \in SUBSET S
                         /\ Cardinality(s \ {x}) = Cardinality(s) - 1
<1>1. /\ IsFiniteSet(s) /\ Cardinality(s) <= Cardinality(S)
      /\ Cardinality(S) \in Nat /\ Cardinality(s) \in Nat
  BY FS_Subset, FS_CardinalityType
<1>2. s # {} => Pick(s) \in s
  BY DEF Pick
<1>3. Cardinality(s) \in 0..Cardinality(S)
  BY <1>1
<1>4. \A x \in s : Cardinality(s \ {x}) = Cardinality(s) - 1
  BY <1>1, FS_RemoveElement
<1> QED
  BY <1>1, <1>2, <1>3, <1>4, FS_EmptySet

\* A sum takes one element after the other until none is left.
LEMMA SumsDescend ==
  ASSUME NEW S, IsFiniteSet(S)
  PROVE  Descends(SUBSET S, {{}},
                  [s \in SUBSET S |-> IF s = {} THEN {} ELSE s \ {Pick(s)}],
                  [s \in SUBSET S |-> Cardinality(s)], Cardinality(S))
<1> DEFINE D == SUBSET S
           next == [s \in D |-> IF s = {} THEN {} ELSE s \ {Pick(s)}]
           size == [s \in D |-> Cardinality(s)]
<1>1. size \in [D -> 0..Cardinality(S)]
  <2>1. \A s \in D : Cardinality(s) \in 0..Cardinality(S)
    BY Smaller
  <2> HIDE DEF D
  <2> QED
    BY <2>1
<1>2. ASSUME NEW s \in D \ {{}} PROVE next[s] \in D /\ size[next[s]] < size[s]
  <2>1. /\ s \ {Pick(s)} \in D
        /\ Cardinality(s \ {Pick(s)}) = Cardinality(s) - 1
        /\ Cardinality(s) \in 0..Cardinality(S) /\ Cardinality(S) \in Nat
    BY Smaller, FS_CardinalityType
  <2>2. next[s] = s \ {Pick(s)}
    OBVIOUS
  <2>3. size[next[s]] = Cardinality(s) - 1 /\ size[s] = Cardinality(s)
    BY <2>1, <2>2
  <2> QED
    BY <2>1, <2>2, <2>3
<1> QED
  BY <1>1, <1>2 DEF Descends

LEMMA SumsExist ==
  ASSUME NEW S, IsFiniteSet(S), NEW f \in [S -> Int]
  PROVE  \E g \in [SUBSET S -> Int] : Sums(f, g)
<1> DEFINE D == SUBSET S
           next == [s \in D |-> IF s = {} THEN {} ELSE s \ {Pick(s)}]
           size == [s \in D |-> Cardinality(s)]
           base == [s \in D |-> 0]
           F == [s \in D |-> [v \in Int |-> IF s = {} THEN 0 ELSE f[Pick(s)] + v]]
<1>1. Descends(D, {{}}, next, size, Cardinality(S)) /\ Cardinality(S) \in Nat
  BY SumsDescend, FS_CardinalityType
<1>2. \A s \in D : s # {} => Pick(s) \in S /\ f[Pick(s)] \in Int
  BY Smaller
<1>3. F \in [D -> [Int -> Int]]
  <2>1. \A s \in D, v \in Int : (IF s = {} THEN 0 ELSE f[Pick(s)] + v) \in Int
    BY <1>2
  <2> HIDE DEF D
  <2> QED
    BY <2>1
<1>4. base \in [D -> Int] /\ Int # {}
  OBVIOUS
<1>5. PICK g \in [D -> Int] : Solves(g, D, {{}}, next, base, F)
  <2> HIDE DEF D, next, size, base, F
  <2> QED
    BY <1>1, <1>3, <1>4, Recursion
<1>6. ASSUME NEW s \in D
      PROVE  g[s] = IF s = {} THEN 0 ELSE f[Pick(s)] + g[s \ {Pick(s)}]
  <2>1. g[s] = IF s \in {{}} THEN base[s] ELSE F[s][g[next[s]]]
    BY <1>5 DEF Solves
  <2>2. CASE s = {}
    BY <2>1, <2>2
  <2>3. CASE s # {}
    <3>1. next[s] \in D /\ next[s] = s \ {Pick(s)}
      BY <2>3
    <3>2. g[next[s]] \in Int
      BY <1>5, <3>1
    <3>3. F[s][g[next[s]]] = f[Pick(s)] + g[next[s]]
      BY <2>3, <3>2
    <3> QED
      BY <2>1, <2>3, <3>1, <3>3
  <2> QED
    BY <2>2, <2>3
<1>7. g = [s \in D |-> g[s]]
  BY <1>5
<1>8. g = [s \in D |-> IF s = {} THEN 0 ELSE f[Pick(s)] + g[s \ {Pick(s)}]]
  <2> HIDE DEF D
  <2> QED
    BY <1>6, <1>7
<1>9. DOMAIN f = S
  OBVIOUS
<1> QED
  BY <1>5, <1>8, <1>9 DEF Sums

\* The sum does not depend on the order in which elements are taken.
Adds(f, g, S) ==
    /\ g[{}] = 0
    /\ \A s \in SUBSET S : g[s] \in Int /\ \A x \in s : g[s] = f[x] + g[s \ {x}]

\* So a sum is what its recursion computes.
LEMMA SumTaken ==
  ASSUME NEW S, IsFiniteSet(S), NEW f \in [S -> Int]
  PROVE  \E g : Adds(f, g, S) /\ SumFunction(f) = g[S]
<1> DEFINE D == SUBSET S
           next == [s \in D |-> IF s = {} THEN {} ELSE s \ {Pick(s)}]
           size == [s \in D |-> Cardinality(s)]
<1>0. DOMAIN f = S /\ \A x \in S : f[x] \in Int
  OBVIOUS
<1>1. PICK g : Sums(f, g) /\ SumFunction(f) = g[S]
  <2>1. Sums(f, CHOOSE g : Sums(f, g))
    BY SumsExist
  <2> QED
    BY <1>0, <2>1, SumUnfolds
<1>2. Descends(D, {{}}, next, size, Cardinality(S)) /\ Cardinality(S) \in Nat
  BY SumsDescend, FS_CardinalityType
<1>3. \A s \in D : g[s] = IF s = {} THEN 0 ELSE f[Pick(s)] + g[s \ {Pick(s)}]
  <2> HIDE DEF D
  <2> QED
    BY <1>0, <1>1, Zenon DEF Sums, D
<1>8. g[{}] = 0
  <2>1. {} \in D
    OBVIOUS
  <2> HIDE DEF D
  <2> QED
    BY <1>3, <2>1
<1> DEFINE T == {s \in D : g[s] \in Int}
<1>4. D \subseteq T
  <2>1. ASSUME NEW s \in D, s \in {{}} \/ next[s] \in T PROVE s \in T
    <3>1. CASE s = {}
      BY <1>8, <3>1
    <3>2. CASE s # {}
      <4>1. Pick(s) \in S /\ g[s \ {Pick(s)}] \in Int
        BY <2>1, <3>2, Smaller
      <4>2. f[Pick(s)] \in Int
        BY <1>0, <4>1
      <4>3. g[s] = f[Pick(s)] + g[s \ {Pick(s)}]
        BY <1>3, <3>2
      <4>4. g[s] \in Int
        BY <4>1, <4>2, <4>3
      <4> QED
        BY <4>4
    <3> QED
      BY <3>1, <3>2
  <2> HIDE DEF D, next, size, T
  <2> QED
    BY <1>2, <2>1, Descent
<1> DEFINE Taken(s) == \A x \in s : g[s] = f[x] + g[s \ {x}]
           G == {s \in D : \A t \in D : Cardinality(t) <= Cardinality(s) => Taken(t)}
<1>5. \A s \in D : Cardinality(s) \in Nat
  <2>1. \A s \in D : Cardinality(s) \in 0..Cardinality(S)
    BY Smaller
  <2> QED
    BY <1>2, <2>1
<1>6. D \subseteq G
  <2>1. ASSUME NEW s \in D, s \in {{}} \/ next[s] \in G,
               NEW t \in D, Cardinality(t) <= Cardinality(s), NEW x \in t
        PROVE  g[t] = f[x] + g[t \ {x}]
    <3> DEFINE c == Pick(t)
    <3>1. s # {}
      <4>1. t # {} /\ Cardinality(t) # 0 /\ Cardinality(t) \in Nat
        BY <1>5, Smaller
      <4>2. Cardinality({}) = 0 /\ Cardinality(s) \in Nat
        BY <1>5, FS_EmptySet
      <4>3. Cardinality(s) # 0
        BY <2>1, <4>1, <4>2
      <4> QED
        BY <4>2, <4>3, Zenon
    <3>2. \A u \in D : Cardinality(u) <= Cardinality(s) - 1 => Taken(u)
      <4>1. next[s] = s \ {Pick(s)} /\ next[s] \in G
        BY <2>1, <3>1
      <4>2. Cardinality(s \ {Pick(s)}) = Cardinality(s) - 1
        BY <3>1, Smaller
      <4> QED
        BY <4>1, <4>2
    <3>3. /\ c \in t /\ t \ {c} \in D /\ t \ {x} \in D
          /\ Cardinality(t \ {c}) = Cardinality(t) - 1
          /\ Cardinality(t \ {x}) = Cardinality(t) - 1
      BY Smaller
    <3> HIDE DEF c
    <3>4. Taken(t \ {c}) /\ Taken(t \ {x})
      <4>1. Cardinality(t) - 1 <= Cardinality(s) - 1
        BY <1>5, <2>1
      <4> QED
        BY <3>2, <3>3, <4>1
    <3>5. g[t] = f[c] + g[t \ {c}]
      BY <1>3, <2>1 DEF c
    <3>6. CASE x = c
      BY <3>5, <3>6
    <3>7. CASE x # c
      <4> DEFINE u == t \ {c, x}
      <4>1. (t \ {c}) \ {x} = u /\ (t \ {x}) \ {c} = u /\ u \in D
        OBVIOUS
      <4>2. x \in t \ {c} /\ c \in t \ {x}
        BY <2>1, <3>3, <3>7
      <4>3. g[t \ {c}] = f[x] + g[u] /\ g[t \ {x}] = f[c] + g[u]
        <5> HIDE DEF u
        <5> QED
          BY <3>4, <4>1, <4>2
      <4>4. f[x] \in Int /\ f[c] \in Int /\ g[u] \in Int
        BY <1>0, <1>4, <2>1, <3>3, <4>1
      <4> HIDE DEF u
      <4> QED
        BY <3>5, <4>3, <4>4
    <3> QED
      BY <3>6, <3>7
  <2>2. \A s \in D : (s \in {{}} \/ next[s] \in G) => s \in G
    BY <2>1
  <2> HIDE DEF D, next, size, G
  <2> QED
    BY <1>2, <2>2, Descent
<1>7. \A s \in D : Taken(s)
  <2>1. \A s \in D : Cardinality(s) <= Cardinality(s)
    BY <1>5
  <2> HIDE DEF Taken
  <2> QED
    BY <1>6, <2>1
<1> QED
  BY <1>1, <1>4, <1>7, <1>8 DEF Adds

\* A sum of integers is one, and is linear.
LEMMA SumIsInt ==
  ASSUME NEW S, IsFiniteSet(S), NEW f \in [S -> Int]
  PROVE  SumFunction(f) \in Int
<1>1. PICK g : Adds(f, g, S) /\ SumFunction(f) = g[S]
  BY SumTaken
<1>2. S \in SUBSET S
  OBVIOUS
<1>3. g[S] \in Int
  BY <1>1, <1>2, Zenon DEF Adds
<1> QED
  BY <1>1, <1>3

\* Sums of naturals, of combinations and of zeros.
LEMMA SumOfNats ==
  ASSUME NEW S, IsFiniteSet(S), NEW f \in [S -> Nat]
  PROVE  SumFunction(f) \in Nat
<1> DEFINE D == SUBSET S
           next == [s \in D |-> IF s = {} THEN {} ELSE s \ {Pick(s)}]
           size == [s \in D |-> Cardinality(s)]
<1>0. \A x \in S : f[x] \in Nat
  OBVIOUS
<1>1. PICK g : Adds(f, g, S) /\ SumFunction(f) = g[S]
  <2>1. f \in [S -> Int]
    OBVIOUS
  <2> QED
    BY <2>1, SumTaken
<1>2. Descends(D, {{}}, next, size, Cardinality(S)) /\ Cardinality(S) \in Nat
  BY SumsDescend, FS_CardinalityType
<1> DEFINE G == {s \in D : g[s] \in Nat}
<1>3. ASSUME NEW s \in D, s \in {{}} \/ next[s] \in G PROVE s \in G
  <2>1. CASE s = {}
    BY <1>1, <2>1 DEF Adds
  <2>2. CASE s # {}
    <3>1. Pick(s) \in s /\ Pick(s) \in S /\ g[s \ {Pick(s)}] \in Nat
      BY <1>3, <2>2, Smaller
    <3>2. g[s] = f[Pick(s)] + g[s \ {Pick(s)}]
      BY <1>1, <3>1 DEF Adds
    <3>3. g[s] \in Nat
      BY <1>0, <3>1, <3>2
    <3> QED
      BY <3>3
  <2> QED
    BY <2>1, <2>2
<1>4. D \subseteq G
  <2> HIDE DEF D, next, size, G
  <2> QED
    BY <1>2, <1>3, Descent
<1> QED
  BY <1>1, <1>4

LEMMA SumLinear ==
  ASSUME NEW S, IsFiniteSet(S), NEW a \in Int,
         NEW e \in [S -> Int], NEW f \in [S -> Int], NEW h \in [S -> Int],
         \A x \in S : h[x] = e[x] + a * f[x]
  PROVE  SumFunction(h) = SumFunction(e) + a * SumFunction(f)
<1> DEFINE D == SUBSET S
           next == [s \in D |-> IF s = {} THEN {} ELSE s \ {Pick(s)}]
           size == [s \in D |-> Cardinality(s)]
<1>0. \A x \in S : e[x] \in Int /\ f[x] \in Int /\ h[x] \in Int
  OBVIOUS
<1>1. PICK ge : Adds(e, ge, S) /\ SumFunction(e) = ge[S]
  BY SumTaken
<1>2. PICK gf : Adds(f, gf, S) /\ SumFunction(f) = gf[S]
  BY SumTaken
<1>3. PICK gh : Adds(h, gh, S) /\ SumFunction(h) = gh[S]
  BY SumTaken
<1>4. Descends(D, {{}}, next, size, Cardinality(S)) /\ Cardinality(S) \in Nat
  BY SumsDescend, FS_CardinalityType
<1> DEFINE G == {s \in D : gh[s] = ge[s] + a * gf[s]}
<1>5. ASSUME NEW s \in D, s \in {{}} \/ next[s] \in G PROVE s \in G
  <2>1. CASE s = {}
    <3>1. ge[{}] = 0 /\ gf[{}] = 0 /\ gh[{}] = 0
      BY <1>1, <1>2, <1>3 DEF Adds
    <3> QED
      BY <2>1, <3>1
  <2>2. CASE s # {}
    <3> DEFINE c == Pick(s)
               r == s \ {c}
    <3>1. c \in s /\ c \in S /\ r \in D
      BY <2>2, Smaller
    <3>2. gh[r] = ge[r] + a * gf[r]
      <4>1. next[s] = r /\ next[s] \in G
        BY <1>5, <2>2
      <4> HIDE DEF next, r
      <4> QED
        BY <4>1
    <3>3. /\ ge[s] = e[c] + ge[r] /\ gf[s] = f[c] + gf[r]
          /\ gh[s] = h[c] + gh[r]
          /\ ge[r] \in Int /\ gf[r] \in Int
      BY <1>1, <1>2, <1>3, <3>1 DEF Adds
    <3>4. e[c] \in Int /\ f[c] \in Int /\ h[c] = e[c] + a * f[c]
      BY <1>0, <3>1
    <3> HIDE DEF c, r
    <3>5. a * (f[c] + gf[r]) = a * f[c] + a * gf[r]
      BY <3>3, <3>4
    <3>6. a * f[c] \in Int /\ a * gf[r] \in Int
      BY <3>3, <3>4
    <3>7. gh[s] = ge[s] + a * gf[s]
      BY <3>2, <3>3, <3>4, <3>5, <3>6
    <3> QED
      BY <3>7
  <2> QED
    BY <2>1, <2>2
<1>6. D \subseteq G
  <2> HIDE DEF D, next, size, G
  <2> QED
    BY <1>4, <1>5, Descent
<1> QED
  BY <1>1, <1>2, <1>3, <1>6

LEMMA SumZero ==
  ASSUME NEW S, IsFiniteSet(S), NEW f \in [S -> Int], \A x \in S : f[x] = 0
  PROVE  SumFunction(f) = 0
<1>1. \A x \in S : f[x] = f[x] + 1 * f[x]
  OBVIOUS
<1>2. SumFunction(f) = SumFunction(f) + 1 * SumFunction(f)
  BY <1>1, SumLinear
<1> QED
  BY <1>2, SumIsInt

\* A sum one term of which changes.
LEMMA SumChanges ==
  ASSUME NEW S, IsFiniteSet(S), NEW f \in [S -> Int], NEW h \in [S -> Int],
         NEW c \in S, \A x \in S \ {c} : h[x] = f[x]
  PROVE  SumFunction(h) = SumFunction(f) - f[c] + h[c]
<1> DEFINE T == S \ {c}
           D == SUBSET T
           next == [s \in D |-> IF s = {} THEN {} ELSE s \ {Pick(s)}]
           size == [s \in D |-> Cardinality(s)]
<1>1. PICK gf : Adds(f, gf, S) /\ SumFunction(f) = gf[S]
  BY SumTaken
<1>2. PICK gh : Adds(h, gh, S) /\ SumFunction(h) = gh[S]
  BY SumTaken
<1>3. IsFiniteSet(T)
  BY FS_Subset
<1>4. Descends(D, {{}}, next, size, Cardinality(T)) /\ Cardinality(T) \in Nat
  <2> HIDE DEF T
  <2> QED
    BY <1>3, SumsDescend, FS_CardinalityType
<1> DEFINE G == {s \in D : gh[s] = gf[s]}
<1>5. ASSUME NEW s \in D, s \in {{}} \/ next[s] \in G PROVE s \in G
  <2>1. CASE s = {}
    BY <1>1, <1>2, <2>1 DEF Adds
  <2>2. CASE s # {}
    <3> DEFINE x == Pick(s)
               r == s \ {x}
    <3>1. x \in s /\ x \in T /\ r \in SUBSET S /\ s \in SUBSET S
      BY <1>3, <2>2, Smaller
    <3>2. gh[r] = gf[r]
      BY <1>5, <2>2
    <3>3. gf[s] = f[x] + gf[r] /\ gh[s] = h[x] + gh[r] /\ h[x] = f[x]
      BY <1>1, <1>2, <3>1 DEF Adds
    <3> QED
      BY <3>2, <3>3
  <2> QED
    BY <2>1, <2>2
<1>6. D \subseteq G
  <2> HIDE DEF D, next, size, G
  <2> QED
    BY <1>4, <1>5, Descent
<1>7. gh[T] = gf[T]
  BY <1>6
<1>8. gf[S] = f[c] + gf[T] /\ gh[S] = h[c] + gh[T] /\ gf[T] \in Int /\ gh[T] \in Int
  BY <1>1, <1>2 DEF Adds
<1>9. f[c] \in Int /\ h[c] \in Int
  OBVIOUS
<1> QED
  BY <1>1, <1>2, <1>7, <1>8, <1>9

\* The sum of a list to whose front a term is put.
LEMMA SumPrepends ==
  ASSUME NEW n \in Nat, NEW f \in [1..n -> Int], NEW h \in [1..(n + 1) -> Int],
         \A i \in 1..n : h[i + 1] = f[i]
  PROVE  SumFunction(h) = h[1] + SumFunction(f)
<1> DEFINE D == 0..n
           next == [k \in D |-> IF k = 0 THEN 0 ELSE k - 1]
           size == [k \in D |-> k]
<1>0. IsFiniteSet(1..n) /\ IsFiniteSet(1..(n + 1))
  BY FS_Interval
<1>1. PICK gf : Adds(f, gf, 1..n) /\ SumFunction(f) = gf[1..n]
  BY <1>0, SumTaken
<1>2. PICK gh : Adds(h, gh, 1..(n + 1)) /\ SumFunction(h) = gh[1..(n + 1)]
  BY <1>0, SumTaken
<1>3. Descends(D, {0}, next, size, n)
  BY DEF Descends
<1>4. \A i \in 1..(n + 1) : h[i] \in Int
  OBVIOUS
<1> DEFINE G == {k \in D : gh[1..(k + 1)] = h[1] + gf[1..k]}
<1>5. ASSUME NEW k \in D, k = 0 \/ next[k] \in G PROVE k \in G
  <2>1. 1..(k + 1) \in SUBSET (1..(n + 1)) /\ 1..k \in SUBSET (1..n)
    <3>1. k \in Nat /\ k <= n
      OBVIOUS
    <3>2. 1..(k + 1) \subseteq 1..(n + 1) /\ 1..k \subseteq 1..n
      BY <3>1
    <3> QED
      BY <3>2
  <2>2. k + 1 \in 1..(k + 1) /\ (1..(k + 1)) \ {k + 1} = 1..k
    OBVIOUS
  <2>3. gh[1..(k + 1)] = h[k + 1] + gh[1..k]
    <3>1. gh[1..(k + 1)] = h[k + 1] + gh[(1..(k + 1)) \ {k + 1}]
      BY <1>2, <2>1, <2>2 DEF Adds
    <3> QED
      BY <2>2, <3>1
  <2>4. gf[1..k] \in Int /\ h[1] \in Int /\ h[k + 1] \in Int
    BY <1>1, <1>4, <2>1 DEF Adds
  <2>5. CASE k = 0
    <3>1. 1..k = {}
      BY <2>5
    <3>2. gh[{}] = 0 /\ gf[{}] = 0
      BY <1>1, <1>2 DEF Adds
    <3>3. gh[1..k] = 0 /\ gf[1..k] = 0
      BY <3>1, <3>2, Zenon
    <3>4. k + 1 = 1
      BY <2>5
    <3>5. h[k + 1] = h[1]
      BY <3>4, Zenon
    <3>6. gh[1..(k + 1)] = h[1] + gf[1..k]
      BY <2>3, <2>4, <3>3, <3>5
    <3> QED
      BY <3>6
  <2>6. CASE k # 0
    <3>1. k \in 1..k /\ (1..k) \ {k} = 1..(k - 1) /\ k \in 1..n
      <4>1. k \in Nat /\ k >= 1 /\ k <= n
        BY <2>6
      <4>2. (1..k) \ {k} = 1..(k - 1)
        <5>1. k \in Int /\ k - 1 \in Int
          BY <4>1
        <5>2. ASSUME NEW x \in 1..k, x # k PROVE x \in 1..(k - 1)
          BY <5>1, <5>2
        <5>3. ASSUME NEW x \in 1..(k - 1) PROVE x \in 1..k /\ x # k
          BY <5>1
        <5> QED
          BY <5>2, <5>3, Zenon
      <4>3. k \in 1..k /\ k \in 1..n
        BY <4>1
      <4> QED
        BY <4>2, <4>3
    <3>2. gf[1..k] = f[k] + gf[1..(k - 1)]
      <4>1. gf[1..k] = f[k] + gf[(1..k) \ {k}]
        BY <1>1, <2>1, <3>1 DEF Adds
      <4> QED
        BY <3>1, <4>1
    <3>3. gh[1..k] = h[1] + gf[1..(k - 1)]
      <4>1. next[k] = k - 1 /\ next[k] \in G /\ k - 1 + 1 = k
        BY <1>5, <2>6
      <4> QED
        BY <4>1
    <3>4. h[k + 1] = f[k] /\ f[k] \in Int
      BY <3>1
    <3>5. gf[1..(k - 1)] \in Int
      <4>1. 1..(k - 1) \in SUBSET (1..n)
        BY <3>1
      <4> QED
        BY <1>1, <4>1 DEF Adds
    <3> QED
      BY <2>3, <2>4, <3>2, <3>3, <3>4, <3>5
  <2> QED
    BY <2>5, <2>6
<1>6. D \subseteq G
  <2> HIDE DEF D, next, size, G
  <2> QED
    BY <1>3, <1>5, Descent
<1>7. gh[1..(n + 1)] = h[1] + gf[1..n]
  <2>1. n \in D
    OBVIOUS
  <2> QED
    BY <1>6, <2>1
<1> QED
  BY <1>1, <1>2, <1>7

\* SetToSeq lists a finite set.
LEMMA SetListed ==
  ASSUME NEW S, IsFiniteSet(S)
  PROVE  /\ SetToSeq(S) \in Seq(S)
         /\ Len(SetToSeq(S)) = Cardinality(S) /\ Cardinality(S) \in Nat
<1>1. Cardinality(S) \in Nat /\ ExistsBijection(1..Cardinality(S), S)
  BY FS_CardinalityType
<1>2. PICK f \in [1..Cardinality(S) -> S] :
          \A i, j \in 1..Cardinality(S) : f[i] = f[j] => i = j
  BY <1>1 DEF ExistsBijection, Bijection, Injection, IsInjective
<1>3. SetToSeq(S) \in [1..Cardinality(S) -> S]
  <2>1. IsInjective(f)
    BY <1>2 DEF IsInjective
  <2> QED
    BY <2>1 DEF SetToSeq
<1>4. SetToSeq(S) \in Seq(S) /\ DOMAIN SetToSeq(S) = 1..Cardinality(S)
  BY <1>1, <1>3, SeqDef
<1> QED
  BY <1>1, <1>4, LenProperties

-----------------------------------------------------------------------------
(* The account *)

Sides == {"BUY", "SELL"}
Ask == [side : Sides, market : Markets, outcome : Range(Outcomes),
        amount : Nat]
Order == [side : Sides, market : Markets, outcome : Range(Outcomes),
          amount : Nat, run : Nat,
          chain : {"none", "flight", "mined", "failed", "dropped"}]
Holdings == [Markets -> [Range(Outcomes) -> Nat]]
Calls == [kind : {"liquidate"}, market : Markets, outcome : Range(Outcomes),
          other : Nat]
Payouts == {<<>>, <<1, 0>>, <<0, 1>>, <<1, 1>>}

JobOK ==
    /\ step = "idle" => job = <<>>
    /\ step \in {"gas", "deposit", "redeem"} => job # <<>>
    /\ step # "redeem" => job \in Seq(Ask)
    /\ step = "redeem" => job \in Seq({m \in Markets : payout[m] # <<>>})

AccountTypeOK ==
    /\ wallet \in Wallet /\ allowance \in Nat /\ held \in Holdings
    /\ market \in [Markets -> {"open", "dry", "closed"}]
    /\ payout \in [Markets -> Payouts]
    /\ feed \in Seq(Trade)
    /\ step \in {"idle", "gas", "deposit", "post", "verify", "raise",
                 "redeem"}
    /\ JobOK
    /\ order \in {NoOrder} \cup Order
    /\ late \subseteq Order /\ missed \subseteq Nat
    /\ tries \in Nat /\ result \in {"none", "hash", "raised"}
    /\ call \in {NoCall} \cup Calls
    /\ day \in Nat \ {0} /\ started \in Nat

\* What a trade changed in the account's tokens, what a share is worth once
\* its market is resolved, and what the trade gains by that.
Signed(t) == IF t.side = "BUY" THEN t.size ELSE -t.size
Rate(paid, m, o) ==
    IF paid[m] = <<1, 1>> THEN 3
    ELSE IF paid[m] = (IF o = "Yes" THEN <<1, 0>> ELSE <<0, 1>>) THEN Unit
    ELSE 0
Gain(paid, t) == Signed(t) * (Rate(paid, t.market, t.outcome) - t.price)
Gains(paid, trades) == [i \in DOMAIN trades |-> Gain(paid, trades[i])]
Worth(paid, tokens, m) ==
    tokens[m]["Yes"] * Rate(paid, m, "Yes")
        + tokens[m]["No"] * Rate(paid, m, "No")
Worths(paid, tokens) == [m \in Markets |-> Worth(paid, tokens, m)]

\* What is held was traded, until it is redeemed; and the account is worth
\* what it had and what its trades gained.
Moves(trades, m, o) ==
    [i \in DOMAIN trades |->
        IF trades[i].market = m /\ trades[i].outcome = o
        THEN Signed(trades[i]) ELSE 0]
HeldIsTraded ==
    \A m \in Markets, o \in Range(Outcomes) :
        \/ held[m][o] = SumFunction(Moves(feed, m, o))
        \/ payout[m] # <<>> /\ held[m][o] = 0
Balanced ==
    Wealth + SumFunction(Worths(payout, held))
        = Initial + SumFunction(Gains(payout, feed))

\* Every market has two outcomes, each the other of the other.
LEMMA TwoOutcomes ==
  /\ Range(Outcomes) = {"Yes", "No"}
  /\ \A o \in Range(Outcomes) : /\ Other(o) \in Range(Outcomes)
                                /\ \A q \in Range(Outcomes) : q # o <=> q = Other(o)
<1>1. Range(Outcomes) = {"Yes", "No"}
  <2>1. DOMAIN Outcomes = {1, 2} /\ Outcomes[1] = "Yes" /\ Outcomes[2] = "No"
    BY DEF Outcomes
  <2> QED
    BY <2>1 DEF Range
<1> QED
  BY <1>1 DEF Other

LEMMA EventsListed ==
  /\ Events \in Seq(Range(Events)) /\ Limit \in Nat
  /\ \A e \in Range(Events) : Kept(e) => Range(e.markets) \subseteq Markets
BY PolymarketAssumption

\* What is listed, and found by its condition, are the agent's markets.
LEMMA ListedMarkets == \A a \in Listed : a.id \in Markets
<1>1. OpenEvents \in Seq(Range(Events))
  BY EventsListed, SelectedRange DEF OpenEvents
<1>2. Range(MarketsPaginated(OpenEvents, Limit)) \subseteq {e \in Range(Events) : Kept(e)}
  BY <1>1, EventsListed, MarketsKept
<1>3. ASSUME NEW e \in Range(Events), Kept(e), NEW a \in FromDataModelAll(e)
      PROVE  a.id \in Markets
  <2>1. PICK m \in Range(e.markets) : a \in FromDataModel(e, m)
    BY <1>3 DEF FromDataModelAll
  <2>2. a.id \in Range(e.markets)
    BY <2>1 DEF FromDataModel
  <2> QED
    BY <1>3, <2>2, EventsListed
<1>4. ASSUME NEW a \in Listed PROVE a.id \in Markets
  <2>1. PICK e \in Range(MarketsPaginated(OpenEvents, Limit)) : a \in FromDataModelAll(e)
    BY <1>4 DEF Listed
  <2> QED
    BY <1>2, <1>3, <2>1
<1> QED
  BY <1>4

LEMMA BinaryMarket == \A m : \A a \in GetBinaryMarket(m) : a.id = m
BY DEF GetBinaryMarket, FromDataModel

\* Positions are asks to sell, and finitely many.
LEMMA SalesAsk ==
  ASSUME held \in Holdings
  PROVE  \A m \in Markets, o \in Range(Outcomes) : Sale(m, o) \in Ask
BY DEF Sale, Ask, Sides, Holdings

LEMMA PositionsAsk ==
  ASSUME held \in Holdings
  PROVE  /\ Positions \subseteq Ask /\ IsFiniteSet(Positions)
         /\ \A p \in Positions : p.side = "SELL"
<1> DEFINE yes == {Sale(m, "Yes") : m \in Markets}
           no == {Sale(m, "No") : m \in Markets}
           f == [m \in Markets |-> Sale(m, "Yes")]
           g == [m \in Markets |-> Sale(m, "No")]
<1>1. f \in Surjection(Markets, yes) /\ g \in Surjection(Markets, no)
  <2> HIDE DEF Sale
  <2> QED
    BY DEF Surjection
<1>2. IsFiniteSet(yes) /\ IsFiniteSet(no)
  <2> HIDE DEF f, g, yes, no
  <2> QED
    BY <1>1, FS_Surjection, PolymarketAssumption
<1>3. IsFiniteSet(yes \cup no)
  <2> HIDE DEF yes, no
  <2> QED
    BY <1>2, FS_Union
<1>4. \A p \in Positions : \E m \in Markets, o \in Range(Outcomes) : p = Sale(m, o)
  BY DEF Positions
<1>5. Positions \subseteq yes \cup no
  BY <1>4, TwoOutcomes
<1>6. IsFiniteSet(Positions)
  <2> HIDE DEF yes, no
  <2> QED
    BY <1>3, <1>5, FS_Subset
<1>7. Positions \subseteq Ask
  BY <1>4, SalesAsk
<1>8. \A p \in Positions : p.side = "SELL"
  BY <1>4 DEF Sale
<1> QED
  BY <1>6, <1>7, <1>8

\* A liquidation is one sale, of the other outcome.
LEMMA OneSale ==
  ASSUME held \in Holdings, NEW m \in Markets, NEW o \in Range(Outcomes),
         Liquidation(m, o) # {}
  PROVE  SetToSeq(Liquidation(m, o)) = <<Sale(m, Other(o))>>
<1>1. ASSUME NEW p \in Liquidation(m, o) PROVE p = Sale(m, Other(o))
  <2>1. PICK n \in Markets, q \in Range(Outcomes) : p = Sale(n, q)
    BY <1>1 DEF Liquidation, LiquidPositions, Positions
  <2>2. n = m /\ q # o
    BY <1>1, <2>1 DEF Liquidation, Sale
  <2> QED
    BY <2>1, <2>2, TwoOutcomes
<1>2. Liquidation(m, o) = {Sale(m, Other(o))}
  BY <1>1
<1> DEFINE x == Sale(m, Other(o))
           s == SetToSeq({x})
<1>3. IsFiniteSet({x}) /\ Cardinality({x}) = 1
  BY FS_Singleton
<1>4. s \in Seq({x}) /\ Len(s) = 1
  <2> HIDE DEF x
  <2> QED
    BY <1>3, SetListed
<1>5. s = <<x>>
  <2> HIDE DEF x, s
  <2>1. s[1] = x
    BY <1>4, ElementOfSeq
  <2>2. <<x>> \in Seq({x}) /\ Len(<<x>>) = 1 /\ <<x>>[1] = x
    OBVIOUS
  <2> QED
    BY <1>4, <2>1, <2>2, SeqEqual
<1> QED
  BY <1>2, <1>5

\* Every order of a run that sells everything, and every market redeemed.
LEMMA SalesListed ==
  ASSUME held \in Holdings
  PROVE  /\ SetToSeq(AllSales) \in Seq(Ask)
         /\ \A i \in DOMAIN SetToSeq(AllSales) : SetToSeq(AllSales)[i].side = "SELL"
<1>1. AllSales \subseteq Positions
  BY DEF AllSales
<1>2. IsFiniteSet(AllSales) /\ AllSales \subseteq Ask /\ \A p \in AllSales : p.side = "SELL"
  BY <1>1, PositionsAsk, FS_Subset
<1>3. SetToSeq(AllSales) \in Seq(AllSales)
  BY <1>2, SetListed
<1>4. SetToSeq(AllSales) \in Seq(Ask)
  BY <1>2, <1>3, SeqMonotonic
<1>5. \A i \in DOMAIN SetToSeq(AllSales) : SetToSeq(AllSales)[i] \in AllSales
  BY <1>3, LenProperties, ElementOfSeq
<1> QED
  BY <1>2, <1>4, <1>5

\* What is to be redeemed is resolved, and can be listed.
LEMMA RedeemListed ==
  ASSUME feed \in Seq(Trade), ToRedeem # {}
  PROVE  /\ SetToSeq(ToRedeem) \in Seq({m \in Markets : payout[m] # <<>>})
         /\ SetToSeq(ToRedeem) # <<>>
<1> DEFINE R == {m \in Markets : payout[m] # <<>>}
<1>1. Range(feed) \subseteq Trade
  BY RangeOfSeq
<1>2. ToRedeem \subseteq R
  BY <1>1 DEF ToRedeem, Trade
<1>3. IsFiniteSet(ToRedeem)
  <2>1. ToRedeem \subseteq Markets
    BY <1>2
  <2> QED
    BY <2>1, FS_Subset, PolymarketAssumption
<1>4. SetToSeq(ToRedeem) \in Seq(ToRedeem) /\ Len(SetToSeq(ToRedeem)) # 0
  BY <1>3, SetListed, FS_EmptySet
<1>5. SetToSeq(ToRedeem) \in Seq(R)
  <2> HIDE DEF R
  <2> QED
    BY <1>2, <1>4, SeqMonotonic
<1> QED
  BY <1>4, <1>5

-----------------------------------------------------------------------------
(* Types *)

\* What the constants are.
LEMMA Numbers ==
  /\ Prices \subseteq 1..(Unit - 1) /\ Amounts \subseteq Nat /\ Sales \subseteq Nat
  /\ LargeAmount \in Nat /\ MinPol \in Nat /\ Capital \in Nat
  /\ Wallets \subseteq Wallet /\ Earlier \in Seq(Trade)
  /\ \A p \in Prices : p \in Nat /\ p > 0
<1>1. /\ Prices \subseteq 1..(Unit - 1) /\ Amounts \cup Sales \subseteq Nat
      /\ {Limit, LargeAmount, MinPol, Capital, MaxOrders, MaxDays} \subseteq Nat
      /\ Wallets \subseteq Wallet /\ Earlier \in Seq(Trade)
  BY PolymarketAssumption
<1>2. \A p \in Prices : p \in Nat /\ p > 0
  <2>1. ASSUME NEW p \in 1..(Unit - 1) PROVE p \in Nat /\ p > 0
    BY DEF Unit
  <2> QED
    BY <1>1, <2>1
<1> QED
  BY <1>1, <1>2

\* A quotient is a natural, and its multiple does not exceed the dividend.
LEMMA Division ==
  ASSUME NEW a \in Nat, NEW b \in Nat, b > 0
  PROVE  a \div b \in Nat /\ (a \div b) * b <= a /\ (a \div b) * b \in Nat
<1>1. a = b * (a \div b) + (a % b) /\ a % b \in Nat /\ a \div b \in Int
  OBVIOUS
<1>2. a \div b \in Nat
  OBVIOUS
<1>3. b * (a \div b) = (a \div b) * b
  BY <1>2
<1>4. (a \div b) * b \in Nat
  BY <1>2
<1> QED
  BY <1>1, <1>2, <1>3, <1>4

\* The account begins well typed.
LEMMA AccountInitTyped == AccountInit => AccountTypeOK
<1> SUFFICES ASSUME AccountInit PROVE AccountTypeOK
  OBVIOUS
<1>1. Len(Earlier) \in Nat /\ DOMAIN Earlier = 1..Len(Earlier)
      /\ \A i \in DOMAIN Earlier : Earlier[i] \in Trade
  BY Numbers, LenProperties, ElementOfSeq
<1>2. IsFiniteSet(DOMAIN Earlier)
  BY <1>1, FS_Interval
<1>3. held \in Holdings
  <2> DEFINE f(m, o) == [i \in DOMAIN Earlier |->
                           IF Earlier[i].market = m /\ Earlier[i].outcome = o
                           THEN Earlier[i].size ELSE 0]
  <2>1. ASSUME NEW m \in Markets, NEW o \in Range(Outcomes)
        PROVE  SumFunction(f(m, o)) \in Nat
    <3>1. \A i \in DOMAIN Earlier : Earlier[i].size \in Nat
      BY <1>1 DEF Trade
    <3>2. f(m, o) \in [DOMAIN Earlier -> Nat]
      BY <3>1
    <3> HIDE DEF f
    <3> QED
      BY <1>2, <3>2, SumOfNats
  <2>2. held = [m \in Markets |-> [o \in Range(Outcomes) |-> SumFunction(f(m, o))]]
    BY DEF AccountInit
  <2> HIDE DEF f
  <2> QED
    BY <2>1, <2>2 DEF Holdings
<1>4. job \in Seq(Ask) /\ JobOK
  BY EmptySeq DEF AccountInit, JobOK
<1> QED
  BY <1>3, <1>4, Numbers DEF AccountInit, AccountTypeOK, Payouts

\* No payout is the empty one.
LEMMA Unsplit == <<1, 0>> # <<>> /\ <<0, 1>> # <<>> /\ <<1, 1>> # <<>>
<1>1. Len(<<1, 0>>) = 2 /\ Len(<<0, 1>>) = 2 /\ Len(<<1, 1>>) = 2 /\ Len(<<>>) = 0
  OBVIOUS
<1> QED
  BY <1>1

\* What the exchange does.
LEMMA FillTyped ==
  ASSUME AccountTypeOK, NEW x \in Order, Fill(x)
  PROVE  wallet' \in Wallet /\ allowance' \in Nat /\ held' \in Holdings
         /\ feed' \in Seq(Trade)
<1> USE DEF AccountTypeOK
<1>2. PICK p \in Prices :
        LET buy == x.side = "BUY"
            size == IF buy THEN x.amount \div p ELSE x.amount
        IN  /\ wallet' = [wallet EXCEPT !.usdc =
                              IF buy THEN @ - size * p ELSE @ + size * p]
            /\ allowance' = IF buy THEN allowance - size * p ELSE allowance
            /\ held' = [held EXCEPT ![x.market][x.outcome] =
                            IF buy THEN @ + size ELSE @ - size]
            /\ feed' = <<[market |-> x.market, outcome |-> x.outcome,
                          side |-> x.side, size |-> size, price |-> p,
                          time |-> day, run |-> x.run]>> \o feed
  BY DEF Fill
<1> DEFINE m == x.market
           o == x.outcome
           buy == x.side = "BUY"
           size == IF buy THEN x.amount \div p ELSE x.amount
           t == [market |-> m, outcome |-> o, side |-> x.side,
                 size |-> size, price |-> p, time |-> day, run |-> x.run]
<1>3. /\ m \in Markets /\ o \in Range(Outcomes) /\ x.side \in Sides
      /\ x.amount \in Nat /\ x.run \in Nat
  BY DEF Order
<1>4. p \in 1..(Unit - 1) /\ p \in Nat /\ p > 0
  BY Numbers
<1>5. size \in Nat /\ size * p \in Nat /\ (buy => size * p <= x.amount)
  <2>1. CASE buy
    <3>1. size = x.amount \div p
      BY <2>1
    <3>2. /\ x.amount \div p \in Nat /\ (x.amount \div p) * p \in Nat
          /\ (x.amount \div p) * p <= x.amount
      BY <1>3, <1>4, Division
    <3> HIDE DEF size
    <3> QED
      BY <3>1, <3>2
  <2>2. CASE ~buy
    <3>1. size = x.amount
      BY <2>2
    <3> HIDE DEF size
    <3> QED
      BY <1>3, <1>4, <2>2, <3>1
  <2> QED
    BY <2>1, <2>2
<1>6. held[m][o] \in Nat /\ wallet.usdc \in Nat
  BY <1>3 DEF Holdings, Wallet
<1>7. /\ buy => x.amount <= wallet.usdc /\ x.amount <= allowance
      /\ ~buy => x.amount <= held[m][o]
  BY DEF Fill, Affordable
<1> HIDE DEF size
<1>8. wallet' \in Wallet
  <2>1. wallet' = [wallet EXCEPT !.usdc = wallet'.usdc] /\ wallet'.usdc \in Nat
    <3>1. wallet'.usdc = IF buy THEN wallet.usdc - size * p ELSE wallet.usdc + size * p
      BY <1>2 DEF Wallet, size
    <3>2. wallet'.usdc \in Nat
      <4>1. CASE buy
        <5>1. size * p <= wallet.usdc
          BY <1>3, <1>5, <1>6, <1>7, <4>1
        <5> QED
          BY <1>5, <1>6, <3>1, <4>1, <5>1
      <4>2. CASE ~buy
        BY <1>5, <1>6, <3>1, <4>2
      <4> QED
        BY <4>1, <4>2
    <3>3. wallet' = [wallet EXCEPT !.usdc = wallet'.usdc]
      BY <1>2 DEF Wallet
    <3> QED
      BY <3>2, <3>3
  <2> QED
    BY <2>1 DEF Wallet
<1>9. allowance' \in Nat
  <2>1. CASE buy
    <3>1. allowance' = allowance - size * p
      BY <1>2, <2>1 DEF size
    <3>2. size * p <= allowance
      BY <1>3, <1>5, <1>7, <2>1
    <3> QED
      BY <1>5, <3>1, <3>2
  <2>2. CASE ~buy
    BY <1>2, <2>2
  <2> QED
    BY <2>1, <2>2
<1>10. held' \in Holdings
  <2> DEFINE new == IF buy THEN held[m][o] + size ELSE held[m][o] - size
  <2>1. new \in Nat
    <3>1. CASE buy
      BY <1>5, <1>6, <3>1
    <3>2. CASE ~buy
      <4>1. size = x.amount
        BY <3>2 DEF size
      <4> QED
        BY <1>3, <1>6, <1>7, <3>2, <4>1
    <3> QED
      BY <3>1, <3>2
  <2>2. held' = [held EXCEPT ![m] = [held[m] EXCEPT ![o] = new]]
    BY <1>2 DEF size
  <2> HIDE DEF new
  <2> QED
    BY <1>3, <2>1, <2>2 DEF Holdings
<1>11. feed' \in Seq(Trade)
  <2>1. t \in Trade
    BY <1>3, <1>4, <1>5 DEF Trade, Sides
  <2>2. feed' = <<t>> \o feed
    BY <1>2 DEF size
  <2>3. <<t>> \in Seq(Trade)
    <3> HIDE DEF t
    <3> QED
      BY <2>1
  <2> QED
    BY <2>2, <2>3, ConcatProperties
<1> QED
  BY <1>8, <1>9, <1>10, <1>11

\* So do the two actions that mine an order.
LEMMA Mines ==
  ASSUME AccountTypeOK, Mine \/ MineLate
  PROVE  /\ \E x \in Order : Fill(x)
         /\ UNCHANGED <<market, payout, day, step, job, missed, tries, result, call,
                        started>>
<1>1. CASE Mine
  <2>1. order \in Order
    BY <1>1 DEF Mine, InFlight, NoOrder, AccountTypeOK
  <2> QED
    BY <1>1, <2>1 DEF Mine, world, reported
<1>2. CASE MineLate
  BY <1>2 DEF MineLate, world, AccountTypeOK
<1> QED
  BY <1>1, <1>2

LEMMA MineTyped == AccountTypeOK /\ (Mine \/ MineLate) => AccountTypeOK'
<1> SUFFICES ASSUME AccountTypeOK, Mine \/ MineLate PROVE AccountTypeOK'
  OBVIOUS
<1> USE DEF AccountTypeOK
<1>1. /\ wallet' \in Wallet /\ allowance' \in Nat /\ held' \in Holdings
      /\ feed' \in Seq(Trade)
      /\ UNCHANGED <<market, payout, day, step, job, missed, tries, result, call,
                     started>>
  BY Mines, FillTyped
<1>2. order' \in {NoOrder} \cup Order /\ late' \subseteq Order
  <2>1. CASE Mine
    <3>1. order \in Order
      BY <2>1 DEF Mine, InFlight, NoOrder
    <3> QED
      BY <2>1, <3>1 DEF Mine, Order, reported
  <2>2. CASE MineLate
    BY <2>2 DEF MineLate
  <2> QED
    BY <2>1, <2>2
<1>3. JobOK'
  BY <1>1 DEF JobOK
<1> QED
  BY <1>1, <1>2, <1>3

\* A killed order, resolutions and the passing of days.
LEMMA WorldTyped == AccountTypeOK /\ (Kill \/ KillLate \/ World) => AccountTypeOK'
<1> SUFFICES ASSUME AccountTypeOK, Kill \/ KillLate \/ World PROVE AccountTypeOK'
  OBVIOUS
<1> USE DEF AccountTypeOK
<1>1. CASE Kill
  <2>1. order \in Order
    BY <1>1 DEF Kill, InFlight, NoOrder
  <2>2. order' \in {NoOrder} \cup Order
    BY <1>1, <2>1 DEF Kill, Order
  <2>3. UNCHANGED <<wallet, allowance, held, feed, market, payout, day, step, job,
                    late, missed, tries, result, call, started>>
    BY <1>1 DEF Kill, chain, world, reported
  <2> QED
    BY <2>2, <2>3 DEF JobOK
<1>2. CASE Dry
  <2>1. market' \in [Markets -> {"open", "dry", "closed"}]
    BY <1>2 DEF Dry
  <2>2. UNCHANGED <<wallet, allowance, held, feed, payout, day, step, job, order, late, missed,
                    tries, result, call, started>>
    BY <1>2 DEF Dry, chain, reported
  <2> QED
    BY <2>1, <2>2 DEF JobOK
<1>3. CASE Resolve
  <2>1. PICK m \in Markets, n \in {<<1, 0>>, <<0, 1>>, <<1, 1>>} :
           /\ payout[m] = <<>>
           /\ payout' = [payout EXCEPT ![m] = n]
           /\ market' = [market EXCEPT ![m] = "closed"]
    BY <1>3, PolymarketAssumption DEF Resolve
  <2>2. market' \in [Markets -> {"open", "dry", "closed"}]
    BY <2>1
  <2>3. payout' \in [Markets -> Payouts]
    BY <2>1 DEF Payouts
  <2>4. UNCHANGED <<wallet, allowance, held, feed, day, step, job, order, late, missed,
                    tries, result, call, started>>
    BY <1>3 DEF Resolve, chain, reported
  <2>5. n # <<>>
    BY Unsplit
  <2>6. {k \in Markets : payout[k] # <<>>} \subseteq {k \in Markets : payout'[k] # <<>>}
    BY <2>1, <2>5
  <2>7. JobOK'
    <3>1. step = "redeem" => job \in Seq({k \in Markets : payout'[k] # <<>>})
      BY <2>6, SeqMonotonic DEF JobOK
    <3> QED
      BY <2>4, <3>1 DEF JobOK
  <2> QED
    BY <2>2, <2>3, <2>4, <2>7
<1>4. CASE NextDay
  <2>1. UNCHANGED <<wallet, allowance, held, feed, market, payout, step, job, order, late, missed,
                    tries, result, call, started>> /\ day' \in Nat \ {0}
    BY <1>4 DEF NextDay, chain, reported
  <2> QED
    BY <2>1 DEF JobOK
<1>5. CASE KillLate
  <2>1. UNCHANGED <<wallet, allowance, held, feed, market, payout, day, step, job,
                    order, missed, tries, result, call, started>>
    BY <1>5 DEF KillLate, chain, world
  <2>2. late' \subseteq Order
    BY <1>5 DEF KillLate
  <2> QED
    BY <2>1, <2>2 DEF JobOK
<1> QED
  BY <1>1, <1>2, <1>3, <1>4, <1>5 DEF World

LEMMA Successor == \A n \in Nat : n + 1 \in Nat
OBVIOUS

\* How a run starts.
LEMMA StartTyped ==
  ASSUME AccountTypeOK, NEW orders \in Seq(Ask),
         NEW at \in {"gas", "post"}, at = "gas" => orders # <<>>,
         Start(orders, at), call' \in {NoCall} \cup Calls, missed' \subseteq Nat
  PROVE  AccountTypeOK'
<1> USE DEF AccountTypeOK
<1>1. UNCHANGED <<wallet, allowance, held, feed, market, payout, day, late, tries>>
  BY DEF Start, chain, world
<1>2. /\ job' = orders /\ step' = at /\ result' = "none" /\ order' = NoOrder
  BY Zenon DEF Start
<1>3. started' \in Nat
  <2>1. started' = started + 1
    BY DEF Start
  <2>2. started \in Nat
    BY Zenon DEF AccountTypeOK
  <2> QED
    BY <2>1, <2>2, Successor, Zenon
<1>4. JobOK'
  BY <1>2 DEF JobOK
<1> QED
  BY <1>1, <1>2, <1>3, <1>4

\* What each kind of call asks for when it starts.
LEMMA BetStarts ==
  ASSUME AccountTypeOK, StartBet
  PROVE  \E m \in Markets, x \in Ask :
            /\ x.side = "BUY" /\ x.market = m /\ ~HaveBet(m)
            /\ Start(<<x>>, "gas")
            /\ missed' = missed \cup {y.run : y \in {z \in late : z.market = m}}
            /\ call' = NoCall
<1>1. PICK a \in Listed, o \in Range(Outcomes), n \in Amounts :
          /\ ~HaveBet(a.id)
          /\ Start(<<[side |-> "BUY", market |-> a.id, outcome |-> o,
                      amount |-> n]>>, "gas")
          /\ missed' = missed \cup {y.run : y \in {z \in late : z.market = a.id}}
  BY DEF StartBet
<1> DEFINE x == [side |-> "BUY", market |-> a.id, outcome |-> o, amount |-> n]
<1>2. a.id \in Markets /\ n \in Nat
  BY ListedMarkets, Numbers
<1>3. x \in Ask /\ x.side = "BUY" /\ x.market = a.id
  BY <1>2 DEF Ask, Sides
<1>4. call' = NoCall
  BY DEF StartBet
<1> QED
  BY <1>1, <1>2, <1>3, <1>4

LEMMA SalesStart ==
  ASSUME AccountTypeOK, StartSell \/ StartSellAll
  PROVE  \E orders \in Seq(Ask) :
            /\ \A i \in DOMAIN orders : orders[i].side = "SELL"
            /\ Start(orders, "post") /\ call' = NoCall /\ missed' = missed
<1>0. held \in Holdings
  BY DEF AccountTypeOK
<1>1. CASE StartSell
  <2>1. PICK m \in Markets, n \in Sales, price \in Prices :
            \E a \in GetBinaryMarket(m) : \E p \in Position(a.id) :
                Start(<<[p EXCEPT !.amount = n \div price]>>, "post")
    BY <1>1 DEF StartSell
  <2>2. PICK a \in GetBinaryMarket(m) : \E p \in Position(a.id) :
                Start(<<[p EXCEPT !.amount = n \div price]>>, "post")
    BY <2>1
  <2>3. PICK p \in Position(a.id) :
                Start(<<[p EXCEPT !.amount = n \div price]>>, "post")
    BY <2>2
  <2>4. p \in Ask /\ p.side = "SELL"
    BY <1>0, PositionsAsk DEF Position
  <2>5. n \div price \in Nat
    BY Numbers, Division
  <2> DEFINE x == [p EXCEPT !.amount = n \div price]
  <2>6. x \in Ask /\ x.side = "SELL"
    BY <2>4, <2>5 DEF Ask
  <2>7. <<x>> \in Seq(Ask) /\ \A i \in DOMAIN <<x>> : <<x>>[i].side = "SELL"
    <3> HIDE DEF x
    <3> QED
      BY <2>6
  <2>8. call' = NoCall /\ missed' = missed
    BY <1>1 DEF StartSell
  <2> QED
    BY <2>3, <2>7, <2>8
<1>2. CASE StartSellAll
  BY <1>0, <1>2, SalesListed DEF StartSellAll
<1> QED
  BY <1>1, <1>2

LEMMA LiquidationStarts ==
  ASSUME AccountTypeOK, StartLiquidation
  PROVE  \E m \in Markets, o \in Range(Outcomes) :
            /\ Sale(m, Other(o)) \in Ask
            /\ Start(<<Sale(m, Other(o))>>, "post") /\ missed' = missed
            /\ call' = [kind |-> "liquidate", market |-> m, outcome |-> o,
                        other |-> held[m][Other(o)]]
            /\ call' \in Calls
<1>0. held \in Holdings
  BY DEF AccountTypeOK
<1>1. PICK a \in Listed, o \in Range(Outcomes) :
          /\ Liquidation(a.id, o) # {}
          /\ Start(SetToSeq(Liquidation(a.id, o)), "post")
          /\ call' = [kind |-> "liquidate", market |-> a.id, outcome |-> o,
                      other |-> held[a.id][Other(o)]]
  BY DEF StartLiquidation
<1>2. missed' = missed
  BY DEF StartLiquidation
<1>3. PICK m \in Markets : m = a.id
  BY ListedMarkets
<1>4. SetToSeq(Liquidation(m, o)) = <<Sale(m, Other(o))>>
  BY <1>0, <1>1, <1>3, OneSale
<1>5. Sale(m, Other(o)) \in Ask
  BY <1>0, SalesAsk, TwoOutcomes
<1>6. held[m][Other(o)] \in Nat
  BY <1>0, TwoOutcomes DEF Holdings
<1>7. call' \in Calls
  BY <1>1, <1>3, <1>6 DEF Calls
<1> QED
  BY <1>1, <1>2, <1>3, <1>4, <1>5, <1>7

\* Every call that starts is well typed, whatever is read from the APIs.
LEMMA StartsTyped == AccountTypeOK /\ Starts => AccountTypeOK'
<1> SUFFICES ASSUME AccountTypeOK, Starts PROVE AccountTypeOK'
  OBVIOUS
<1>0. missed \subseteq Nat /\ late \subseteq Order
  BY DEF AccountTypeOK
<1>1. CASE StartBet
  <2>1. PICK m \in Markets, x \in Ask :
            /\ Start(<<x>>, "gas") /\ call' = NoCall
            /\ missed' = missed \cup {y.run : y \in {z \in late : z.market = m}}
    BY <1>1, BetStarts
  <2>2. missed' \subseteq Nat
    BY <1>0, <2>1 DEF Order
  <2>3. <<x>> \in Seq(Ask) /\ <<x>> # <<>>
    OBVIOUS
  <2> QED
    BY <2>1, <2>2, <2>3, StartTyped
<1>2. CASE StartSell \/ StartSellAll
  BY <1>0, <1>2, SalesStart, StartTyped
<1>3. CASE StartLiquidation
  <2>1. PICK x \in Ask : Start(<<x>>, "post") /\ missed' = missed /\ call' \in Calls
    BY <1>3, LiquidationStarts
  <2>2. <<x>> \in Seq(Ask)
    OBVIOUS
  <2> QED
    BY <1>0, <2>1, <2>2, StartTyped
<1> QED
  BY <1>1, <1>2, <1>3 DEF Starts


\* The steps of a call that leave the tokens alone.
LEMMA FundsTyped == AccountTypeOK /\ (EnsureNative \/ Deposit) => AccountTypeOK'
<1> SUFFICES ASSUME AccountTypeOK, EnsureNative \/ Deposit PROVE AccountTypeOK'
  OBVIOUS
<1> USE DEF AccountTypeOK
<1>0. /\ wallet.usdc \in Nat /\ wallet.wpol \in Nat /\ wallet.pol \in Nat
      /\ MinPol \in Nat
  BY Numbers DEF Wallet
<1>1. CASE EnsureNative
  <2>1. UNCHANGED <<allowance, held, feed, market, payout, day, order, late, missed, tries, call,
                    started>>
    BY <1>1 DEF EnsureNative, world, reported
  <2>2. step = "gas"
    BY <1>1 DEF EnsureNative
  <2> DEFINE need == 3 * (MinPol - wallet.pol)
  <2>3. \/ /\ step' = "deposit" /\ UNCHANGED <<wallet, job, result>>
        \/ /\ wallet.pol < MinPol /\ wallet.wpol >= need
           /\ wallet' = [wallet EXCEPT !.pol = @ + need, !.wpol = @ - need]
           /\ step' = "deposit" /\ UNCHANGED <<job, result>>
        \/ /\ step' = "idle" /\ job' = <<>> /\ result' = "raised"
           /\ UNCHANGED wallet
    BY <1>1 DEF EnsureNative
  <2>4. wallet' \in Wallet
    <3>1. CASE UNCHANGED wallet
      BY <3>1
    <3>2. CASE /\ wallet.pol < MinPol /\ wallet.wpol >= need
               /\ wallet' = [wallet EXCEPT !.pol = @ + need, !.wpol = @ - need]
      <4>1. need \in Nat /\ wallet.pol + need \in Nat /\ wallet.wpol - need \in Nat
        <5>1. wallet.pol < MinPol /\ need <= wallet.wpol
          BY <1>0, <3>2
        <5>2. need \in Nat
          BY <1>0, <5>1
        <5> HIDE DEF need
        <5> QED
          BY <1>0, <5>1, <5>2
      <4>2. wallet' = [usdc |-> wallet.usdc, wpol |-> wallet.wpol - need,
                       pol |-> wallet.pol + need]
        BY <3>2 DEF Wallet
      <4> HIDE DEF need
      <4> QED
        BY <1>0, <4>1, <4>2 DEF Wallet
    <3> QED
      BY <2>3, <3>1, <3>2
  <2>5. JobOK'
    BY <2>2, <2>3, EmptySeq DEF JobOK
  <2>6. step' \in {"idle", "deposit"} /\ result' \in {"none", "hash", "raised"}
    BY <2>3
  <2> QED
    BY <2>1, <2>4, <2>5, <2>6
<1>2. CASE Deposit
  <2>1. UNCHANGED <<allowance, held, feed, market, payout, day, job, order, late, missed, tries,
                    result, call, started>>
    BY <1>2 DEF Deposit, world, reported
  <2>2. step = "deposit" /\ step' = "post"
    BY <1>2 DEF Deposit
  <2>3. Missing \in Int
    <3>1. job \in Seq(Ask) /\ job # <<>>
      BY <2>2 DEF JobOK
    <3>2. Head(job) \in Ask
      BY <3>1, HeadTailProperties
    <3>3. Head(job).amount \in Nat
      BY <3>2 DEF Ask
    <3> QED
      BY <1>0, <3>3 DEF Missing
  <2> DEFINE left == wallet.wpol - Missing
             swapped == [usdc |-> wallet.usdc + Missing,
                         wpol |-> IF left > 0 THEN left ELSE 0,
                         pol |-> wallet.pol + IF left < 0 THEN left ELSE 0]
  <2>4. \/ UNCHANGED wallet
        \/ Missing > 0 /\ Missing <= wallet.wpol + wallet.pol /\ wallet' = swapped
    BY <1>2, Zenon DEF Deposit
  <2>5. wallet' \in Wallet
    <3>1. CASE UNCHANGED wallet
      BY <3>1
    <3>2. CASE Missing > 0 /\ Missing <= wallet.wpol + wallet.pol /\ wallet' = swapped
      <4>1. /\ wallet.usdc + Missing \in Nat
            /\ (IF left > 0 THEN left ELSE 0) \in Nat
            /\ (wallet.pol + IF left < 0 THEN left ELSE 0) \in Nat
        <5> HIDE DEF Missing
        <5> QED
          BY <1>0, <2>3, <3>2
      <4> HIDE DEF left
      <4> QED
        BY <3>2, <4>1 DEF Wallet
    <3> QED
      BY <2>4, <3>1, <3>2
  <2>6. JobOK'
    BY <2>1, <2>2 DEF JobOK
  <2> QED
    BY <2>1, <2>2, <2>5, <2>6
<1> QED
  BY <1>1, <1>2

\* An order is placed.
LEMMA PostTyped == AccountTypeOK /\ Post => AccountTypeOK'
<1> SUFFICES ASSUME AccountTypeOK, Post PROVE AccountTypeOK'
  OBVIOUS
<1> USE DEF AccountTypeOK
<1>1. UNCHANGED <<wallet, held, feed, market, payout, day, late, missed, call, started>>
  BY DEF Post, world, reported
<1>2. /\ step = "post" /\ job # <<>> /\ allowance' = Approved /\ job' = Tail(job)
      /\ tries' = 0 /\ result' = "none"
  BY DEF Post
<1>3. job \in Seq(Ask)
  BY <1>2 DEF JobOK
<1>4. Head(job) \in Ask /\ Tail(job) \in Seq(Ask)
  BY <1>2, <1>3, HeadTailProperties
<1>5. allowance' \in Nat
  BY <1>2, Numbers DEF Approved
<1>6. PICK answer \in {"refused", "no hash", "hash"} :
         /\ order' = Placed(Head(job), IF answer = "refused" THEN "none" ELSE "flight")
         /\ step' = IF answer = "hash" THEN "verify" ELSE "raise"
  BY DEF Post
<1>7. order' \in Order
  BY <1>4, <1>6 DEF Placed, Order, Ask
<1>8. JobOK' /\ step' \in {"verify", "raise"}
  BY <1>2, <1>4, <1>6 DEF JobOK
<1> QED
  BY <1>1, <1>2, <1>5, <1>7, <1>8

\* It is verified, or the call raises.
LEMMA VerifyTyped ==
  AccountTypeOK /\ (Verify \/ VerifyFails \/ NotFound \/ Raise) => AccountTypeOK'
<1> SUFFICES ASSUME AccountTypeOK, Verify \/ VerifyFails \/ NotFound \/ Raise
             PROVE  AccountTypeOK'
  OBVIOUS
<1> USE DEF AccountTypeOK
<1>1. CASE Verify
  <2>1. UNCHANGED <<wallet, allowance, held, feed, market, payout, day, job, late, missed, call,
                    started>>
    BY <1>1 DEF Verify, chain, world, reported
  <2>2. step = "verify" /\ tries' = 0 /\ result' = "hash" /\ order' = NoOrder
        /\ step' = IF job = <<>> THEN "idle" ELSE "post"
    BY <1>1 DEF Verify
  <2> QED
    BY <2>1, <2>2 DEF JobOK
<1>2. CASE VerifyFails
  <2>1. UNCHANGED <<wallet, allowance, held, feed, market, payout, day, job, order, late, missed, tries,
                    result, call, started>>
    BY <1>2 DEF VerifyFails, chain, world, reported
  <2>2. step = "verify" /\ step' = "raise"
    BY <1>2 DEF VerifyFails
  <2> QED
    BY <2>1, <2>2 DEF JobOK
<1>3. CASE NotFound
  <2>1. UNCHANGED <<wallet, allowance, held, feed, market, payout, day, job, order, late, missed,
                    result, call, started>>
    BY <1>3 DEF NotFound, chain, world, reported
  <2>2. step = "verify" /\ tries' \in Nat /\ step' \in {"raise", "verify"}
    BY <1>3 DEF NotFound
  <2> QED
    BY <2>1, <2>2 DEF JobOK
<1>4. CASE Raise
  <2>1. UNCHANGED <<wallet, allowance, held, feed, market, payout, day, missed, started>>
    BY <1>4 DEF Raise, chain, world, reported
  <2>2. /\ step' = "idle" /\ job' = <<>> /\ result' = "raised" /\ tries' = 0
        /\ call' = NoCall /\ order' = NoOrder
    BY <1>4 DEF Raise
  <2>3. JobOK'
    BY <2>2, EmptySeq DEF JobOK
  <2>4. late' \subseteq Order
    BY <1>4 DEF Raise, InFlight, NoOrder
  <2> QED
    BY <2>1, <2>2, <2>3, <2>4
<1> QED
  BY <1>1, <1>2, <1>3, <1>4

\* A payout is a natural, and worth what was held.
LEMMA PayoutIsWorth ==
  ASSUME AccountTypeOK, NEW m \in Markets, payout[m] # <<>>
  PROVE  /\ Payout(m) \in Nat /\ Payout(m) = Worth(payout, held, m)
         /\ held[m]["Yes"] \in Nat /\ held[m]["No"] \in Nat
<1> DEFINE a == held[m]["Yes"]
           b == held[m]["No"]
<1>1. a \in Nat /\ b \in Nat
  <2>1. held[m] \in [Range(Outcomes) -> Nat]
    BY DEF AccountTypeOK, Holdings
  <2> QED
    BY <2>1, TwoOutcomes
<1> HIDE DEF a, b
<1>2. payout[m] \in {<<1, 0>>, <<0, 1>>, <<1, 1>>}
  BY DEF AccountTypeOK, Payouts
<1>3. /\ (6 * (a * 1 + b * 0)) \div (1 + 0) = 6 * a
      /\ (6 * (a * 0 + b * 1)) \div (0 + 1) = 6 * b
      /\ (6 * (a * 1 + b * 1)) \div (1 + 1) = 3 * a + 3 * b
  <2>1. /\ 6 * (a * 1 + b * 0) = 6 * a /\ 6 * (a * 0 + b * 1) = 6 * b
        /\ 6 * (a * 1 + b * 1) = 2 * (3 * a + 3 * b)
    BY <1>1
  <2>2. \A x \in Nat : x \div 1 = x /\ (2 * x) \div 2 = x
    OBVIOUS
  <2>3. /\ 6 * a \in Nat /\ 6 * b \in Nat /\ 3 * a + 3 * b \in Nat
        /\ 1 + 0 = 1 /\ 0 + 1 = 1 /\ 1 + 1 = 2
    BY <1>1
  <2> QED
    BY <2>1, <2>2, <2>3
<1>4. /\ <<1, 0>>[1] = 1 /\ <<1, 0>>[2] = 0 /\ <<0, 1>>[1] = 0 /\ <<0, 1>>[2] = 1
      /\ <<1, 1>>[1] = 1 /\ <<1, 1>>[2] = 1
  OBVIOUS
<1>5. Payout(m) = (6 * (a * payout[m][1] + b * payout[m][2]))
                    \div (payout[m][1] + payout[m][2])
  BY DEF Payout, Unit, a, b
<1>6. Worth(payout, held, m) = a * Rate(payout, m, "Yes") + b * Rate(payout, m, "No")
  BY DEF Worth, a, b
<1>7. <<1, 0>> # <<1, 1>> /\ <<0, 1>> # <<1, 1>> /\ <<1, 0>> # <<0, 1>>
  BY <1>4
<1>8. CASE payout[m] = <<1, 0>>
  <2>1. Rate(payout, m, "Yes") = 6 /\ Rate(payout, m, "No") = 0
    BY <1>7, <1>8 DEF Rate, Unit
  <2>2. Payout(m) = 6 * a
    BY <1>3, <1>4, <1>5, <1>8
  <2> QED
    BY <1>1, <1>6, <2>1, <2>2 DEF a, b
<1>9. CASE payout[m] = <<0, 1>>
  <2>1. Rate(payout, m, "Yes") = 0 /\ Rate(payout, m, "No") = 6
    BY <1>7, <1>9 DEF Rate, Unit
  <2>2. Payout(m) = 6 * b
    BY <1>3, <1>4, <1>5, <1>9
  <2> QED
    BY <1>1, <1>6, <2>1, <2>2 DEF a, b
<1>10. CASE payout[m] = <<1, 1>>
  <2>1. Rate(payout, m, "Yes") = 3 /\ Rate(payout, m, "No") = 3
    BY <1>10 DEF Rate
  <2>2. Payout(m) = 3 * a + 3 * b
    BY <1>3, <1>4, <1>5, <1>10
  <2> QED
    BY <1>1, <1>6, <2>1, <2>2 DEF a, b
<1> QED
  BY <1>2, <1>8, <1>9, <1>10

\* Redemptions.
LEMMA RedeemTyped ==
  AccountTypeOK /\ (StartRedeem \/ RedeemNext \/ RedeemRaises) => AccountTypeOK'
<1> SUFFICES ASSUME AccountTypeOK, StartRedeem \/ RedeemNext \/ RedeemRaises
             PROVE  AccountTypeOK'
  OBVIOUS
<1> USE DEF AccountTypeOK
<1>1. CASE StartRedeem
  <2>1. UNCHANGED <<wallet, allowance, held, feed, market, payout, day, late, missed, tries, started>>
    BY <1>1 DEF StartRedeem, chain, world, reported
  <2>2. /\ ToRedeem # {} /\ job' = SetToSeq(ToRedeem) /\ step' = "redeem"
        /\ result' = "none" /\ order' = NoOrder /\ call' = NoCall
    BY <1>1 DEF StartRedeem
  <2>3. JobOK'
    BY <2>1, <2>2, RedeemListed DEF JobOK
  <2> QED
    BY <2>1, <2>2, <2>3
<1>2. CASE RedeemNext
  <2> DEFINE m == Head(job)
             R == {k \in Markets : payout[k] # <<>>}
  <2>1. UNCHANGED <<allowance, feed, market, payout, day, order, late, missed, tries, result, call,
                    started>>
    BY <1>2 DEF RedeemNext, world, reported
  <2>2. /\ step = "redeem" /\ wallet' = [wallet EXCEPT !.usdc = @ + Payout(m)]
        /\ held' = [held EXCEPT ![m] = [o \in Range(Outcomes) |-> 0]]
        /\ job' = Tail(job) /\ step' = IF job' = <<>> THEN "idle" ELSE "redeem"
    BY <1>2 DEF RedeemNext
  <2>3. job \in Seq(R) /\ job # <<>>
    BY <2>2 DEF JobOK
  <2>4. m \in R /\ Tail(job) \in Seq(R)
    <3> HIDE DEF R
    <3> QED
      BY <2>3, HeadTailProperties
  <2>5. Payout(m) \in Nat
    BY <2>4, PayoutIsWorth
  <2> HIDE DEF m
  <2>6. wallet' \in Wallet
    <3>1. wallet.usdc + Payout(m) \in Nat
      BY <2>5 DEF Wallet
    <3> QED
      BY <2>2, <3>1 DEF Wallet
  <2>7. held' \in Holdings
    BY <2>2 DEF Holdings
  <2>8. JobOK'
    BY <2>1, <2>2, <2>4, EmptySeq DEF JobOK
  <2> QED
    BY <2>1, <2>2, <2>6, <2>7, <2>8
<1>3. CASE RedeemRaises
  <2>1. UNCHANGED <<wallet, allowance, held, feed, market, payout, day, order, late, missed, tries,
                    result, call, started>>
    BY <1>3 DEF RedeemRaises, chain, world, reported
  <2>2. step' = "idle" /\ job' = <<>>
    BY <1>3 DEF RedeemRaises
  <2> QED
    BY <2>1, <2>2, EmptySeq DEF JobOK
<1> QED
  BY <1>1, <1>2, <1>3

\* Hence every step keeps the types.
LEMMA AccountTyped == AccountTypeOK /\ [AccountNext]_accountVars => AccountTypeOK'
<1>1. AccountTypeOK /\ UNCHANGED accountVars => AccountTypeOK'
  BY DEF AccountTypeOK, JobOK, accountVars, chain, world, reported
<1> QED
  BY <1>1, MineTyped, WorldTyped, StartsTyped, FundsTyped, PostTyped, VerifyTyped,
     RedeemTyped DEF AccountNext, Exchange, World, Call
-----------------------------------------------------------------------------
(* One purchase a day *)

\* What a filled order changes.
LEMMA Filled ==
  ASSUME AccountTypeOK, NEW x \in Order, Fill(x)
  PROVE  /\ payout[x.market] = <<>>
         /\ \E t \in Trade :
                /\ t.market = x.market /\ t.outcome = x.outcome
                /\ t.side = x.side /\ t.time = day /\ t.run = x.run
                /\ t.side = "SELL" => t.size = x.amount
                /\ Len(feed') = Len(feed) + 1 /\ feed' \in Seq(Trade)
                /\ feed'[1] = t /\ \A i \in 1..Len(feed) : feed'[i + 1] = feed[i]
                /\ wallet' = [wallet EXCEPT !.usdc = @ - Signed(t) * t.price]
                /\ held' = [held EXCEPT ![t.market][t.outcome] = @ + Signed(t)]
<1> USE DEF AccountTypeOK
<1>1. payout[x.market] = <<>>
  BY DEF Fill
<1>2. PICK p \in Prices :
        LET buy == x.side = "BUY"
            size == IF buy THEN x.amount \div p ELSE x.amount
        IN  /\ wallet' = [wallet EXCEPT !.usdc =
                              IF buy THEN @ - size * p ELSE @ + size * p]
            /\ allowance' = IF buy THEN allowance - size * p ELSE allowance
            /\ held' = [held EXCEPT ![x.market][x.outcome] =
                            IF buy THEN @ + size ELSE @ - size]
            /\ feed' = <<[market |-> x.market, outcome |-> x.outcome,
                          side |-> x.side, size |-> size, price |-> p,
                          time |-> day, run |-> x.run]>> \o feed
  BY DEF Fill
<1> DEFINE m == x.market
           o == x.outcome
           buy == x.side = "BUY"
           size == IF buy THEN x.amount \div p ELSE x.amount
           t == [market |-> m, outcome |-> o, side |-> x.side,
                 size |-> size, price |-> p, time |-> day, run |-> x.run]
<1>3. /\ m \in Markets /\ o \in Range(Outcomes) /\ x.side \in Sides
      /\ x.amount \in Nat /\ x.run \in Nat
  BY DEF Order
<1>4. p \in 1..(Unit - 1) /\ p \in Nat /\ p > 0
  BY Numbers
<1>5. size \in Nat
  BY <1>3, <1>4, Division
<1>6. t \in Trade
  BY <1>3, <1>4, <1>5 DEF Trade, Sides
<1>7. feed' = <<t>> \o feed
  BY <1>2
<1>8. /\ t.market = m /\ t.outcome = o /\ t.side = x.side /\ t.size = size
      /\ t.price = p /\ t.time = day /\ t.run = x.run
  OBVIOUS
<1>9. /\ held[m][o] \in Nat /\ wallet.usdc \in Nat /\ size * p \in Nat
  BY <1>3, <1>4, <1>5 DEF Holdings, Wallet
<1>10. wallet' = [wallet EXCEPT !.usdc = @ - Signed(t) * t.price]
  <2>1. CASE buy
    <3>1. Signed(t) = size
      BY <1>8, <2>1 DEF Signed
    <3>2. wallet' = [wallet EXCEPT !.usdc = @ - size * p]
      BY <1>2, <2>1
    <3> HIDE DEF size, t
    <3> QED
      BY <1>8, <3>1, <3>2
  <2>2. CASE ~buy
    <3>1. Signed(t) = -size
      BY <1>8, <2>2 DEF Signed
    <3>2. wallet' = [wallet EXCEPT !.usdc = @ + size * p]
      BY <1>2, <2>2
    <3>3. wallet.usdc - (-size) * p = wallet.usdc + size * p
      <4> HIDE DEF size
      <4> QED
        BY <1>4, <1>5, <1>9
    <3> HIDE DEF size, t
    <3> QED
      BY <1>8, <3>1, <3>2, <3>3
  <2> QED
    BY <2>1, <2>2
<1>11. held' = [held EXCEPT ![t.market][t.outcome] = @ + Signed(t)]
  <2>1. CASE buy
    <3>1. Signed(t) = size
      BY <1>8, <2>1 DEF Signed
    <3>2. held' = [held EXCEPT ![m][o] = @ + size]
      BY <1>2, <2>1
    <3> HIDE DEF size, t
    <3> QED
      BY <1>8, <3>1, <3>2
  <2>2. CASE ~buy
    <3>1. Signed(t) = -size
      BY <1>8, <2>2 DEF Signed
    <3>2. held' = [held EXCEPT ![m][o] = @ - size]
      BY <1>2, <2>2
    <3>3. held[m][o] - size = held[m][o] + (-size)
      <4> HIDE DEF size
      <4> QED
        BY <1>5, <1>9
    <3>4. held' = [held EXCEPT ![m] = [held[m] EXCEPT ![o] = held[m][o] - size]]
      BY <3>2
    <3> HIDE DEF size, t
    <3>5. held' = [held EXCEPT ![m] = [held[m] EXCEPT ![o] = held[m][o] + (-size)]]
      BY <3>3, <3>4
    <3> QED
      BY <1>8, <3>1, <3>5
  <2> QED
    BY <2>1, <2>2
<1> HIDE DEF t
<1>12. /\ feed' \in Seq(Trade) /\ Len(feed') = Len(feed) + 1
       /\ feed'[1] = t /\ \A i \in 1..Len(feed) : feed'[i + 1] = feed[i]
  <2>1. <<t>> \in Seq(Trade) /\ Len(<<t>>) = 1 /\ <<t>>[1] = t
    BY <1>6
  <2>2. Len(feed) \in Nat /\ feed \in Seq(Trade)
    BY LenProperties
  <2>3. /\ feed' \in Seq(Trade) /\ Len(feed') = 1 + Len(feed)
        /\ \A i \in 1..(1 + Len(feed)) :
               feed'[i] = IF i <= 1 THEN <<t>>[i] ELSE feed[i - 1]
    BY <1>7, <2>1, <2>2, ConcatProperties
  <2>4. \A i \in 1..Len(feed) : i + 1 \in 1..(1 + Len(feed)) /\ ~(i + 1 <= 1) /\ i + 1 - 1 = i
    BY <2>2
  <2>5. 1 \in 1..(1 + Len(feed))
    BY <2>2
  <2> QED
    BY <2>1, <2>2, <2>3, <2>4, <2>5
<1>13. t.side = "SELL" => t.size = x.amount
  BY <1>8
<1> QED
  BY <1>1, <1>6, <1>8, <1>10, <1>11, <1>12, <1>13

\* The feed is in the order of time.
NewestFirst ==
    /\ \A i \in DOMAIN feed : feed[i].time <= day
    /\ \A i, j \in DOMAIN feed : i < j => feed[j].time <= feed[i].time

\* Nothing was bought in a market today, and nothing is on its way, except
\* by runs whose order was undecided when a later one asked.
Fresh(trades, today, gone, m) ==
    \A i \in DOMAIN trades :
        trades[i].market = m /\ trades[i].side = "BUY"
        => trades[i].time < today \/ trades[i].run \in gone
Clear(trades, today, gone, rest, m) ==
    /\ Fresh(trades, today, gone, m)
    /\ \A y \in rest : y.market = m /\ y.side = "BUY" => y.run \in gone

\* An order to buy is placed, is in flight and is left to the chain only
\* where the market was clear, and but for missed runs it stays so.
BuysAreFresh ==
    /\ step # "redeem" =>
           \A i \in DOMAIN job :
               job[i].side = "BUY" =>
                   /\ Len(job) = 1 /\ order = NoOrder
                   /\ Clear(feed, day, missed, late, job[i].market)
    /\ InFlight /\ order.side = "BUY" =>
           Clear(feed, day, missed, late, order.market)
    /\ \A x \in late :
           x.side = "BUY" => \/ x.run \in missed
                             \/ Clear(feed, day, missed, late \ {x}, x.market)

\* A market counts as bet on today whenever anything was bought in it today.
LEMMA NotBetIsFresh ==
  ASSUME AccountTypeOK, NewestFirst, NEW m, ~HaveBet(m)
  PROVE  \A gone : Fresh(feed, day, gone, m)
<1> DEFINE places == {k \in DOMAIN feed : feed[k].market = m}
           list == Selected(feed, places)
<1>1. feed \in Seq(Trade) /\ DOMAIN feed = 1..Len(feed) /\ Len(feed) \in Nat /\ day \in Nat
  BY LenProperties DEF AccountTypeOK
<1>2. \A i \in DOMAIN feed : feed[i].time \in Int
  <2>1. \A i \in DOMAIN feed : feed[i] \in Trade
    BY <1>1, ElementOfSeq
  <2> QED
    BY <2>1 DEF Trade
<1>3. ASSUME NEW i \in DOMAIN feed, feed[i].market = m PROVE feed[i].time < day
  <2>1. i \in places \cap (1..Len(feed))
    BY <1>1, <1>3
  <2> HIDE DEF places
  <2>2. list \in Seq(Trade) /\ Chosen(list, feed, places, Len(feed))
    BY <1>1, SelectedHolds
  <2>3. list # <<>>
    BY <2>1, <2>2 DEF Chosen
  <2>4. PICK j \in places \cap (1..Len(feed)) :
            list[1] = feed[j] /\ \A k \in places \cap (1..Len(feed)) : j <= k
    BY <2>2, <2>3 DEF Chosen
  <2>5. feed[i].time <= feed[j].time
    <3>1. i \in 1..Len(feed) /\ j \in 1..Len(feed) /\ j <= i
      BY <2>1, <2>4
    <3>2. CASE j = i
      BY <1>2, <3>2
    <3>3. CASE j # i
      <4>1. j < i
        BY <1>1, <3>1, <3>3
      <4> QED
        BY <1>1, <3>1, <4>1 DEF NewestFirst
    <3> QED
      BY <3>2, <3>3
  <2> HIDE DEF list
  <2>6. PICK t \in Range(TradesPaginated(list, {})) : t = list[1]
    BY <2>2, <2>3, TradesRead
  <2>7. t \in Range(TradesOf(m))
    BY <2>6 DEF TradesOf, list, places
  <2>8. ~(t.time >= day)
    BY <2>7 DEF HaveBet
  <2>9. feed[j].time \in Int /\ feed[i].time \in Int /\ t = feed[j]
    BY <1>1, <1>2, <2>4, <2>6
  <2> QED
    BY <1>1, <2>5, <2>8, <2>9
<1> QED
  BY <1>3 DEF Fresh

BuyInv == AccountTypeOK /\ NewestFirst /\ BuysAreFresh

\* What is clear stays clear while the feed stays.
LEMMA SameClear ==
  ASSUME AccountTypeOK, feed' = feed, day' \in {day, day + 1}, missed \subseteq missed'
  PROVE  \A m, S, T : T \subseteq S /\ Clear(feed, day, missed, S, m)
                      => Clear(feed', day', missed', T, m)
<1>1. \A i \in DOMAIN feed : feed[i].time \in Int
  <2>1. \A i \in DOMAIN feed : feed[i] \in Trade
    BY LenProperties, ElementOfSeq DEF AccountTypeOK
  <2> QED
    BY <2>1 DEF Trade
<1>2. day \in Nat
  BY DEF AccountTypeOK
<1>3. \A i \in DOMAIN feed : feed[i].time < day => feed[i].time < day'
  BY <1>1, <1>2
<1>4. \A m : Fresh(feed, day, missed, m) => Fresh(feed', day', missed', m)
  BY <1>3 DEF Fresh
<1> QED
  BY <1>4 DEF Clear

LEMMA SameFeed ==
  ASSUME AccountTypeOK, feed' = feed, day' \in {day, day + 1}, missed \subseteq missed'
  PROVE  /\ NewestFirst => NewestFirst'
         /\ OneBuyPerDay => OneBuyPerDay'
<1>1. NewestFirst => NewestFirst'
  <2>1. \A i \in DOMAIN feed : feed[i].time \in Int
    <3>1. \A i \in DOMAIN feed : feed[i] \in Trade
      BY LenProperties, ElementOfSeq DEF AccountTypeOK
    <3> QED
      BY <3>1 DEF Trade
  <2>2. day \in Nat
    BY DEF AccountTypeOK
  <2>3. \A i \in DOMAIN feed : feed[i].time <= day => feed[i].time <= day'
    BY <2>1, <2>2
  <2> QED
    BY <2>3 DEF NewestFirst
<1>2. OneBuyPerDay => OneBuyPerDay'
  BY DEF OneBuyPerDay
<1> QED
  BY <1>1, <1>2

\* Orders the chain has still to decide on stay excused.
LEMMA SameLate ==
  ASSUME BuyInv, feed' = feed, day' \in {day, day + 1}, missed \subseteq missed',
         late' \subseteq late
  PROVE  \A x \in late' :
            x.side = "BUY" => \/ x.run \in missed'
                              \/ Clear(feed', day', missed', late' \ {x}, x.market)
<1> SUFFICES ASSUME NEW x \in late', x.side = "BUY", x.run \notin missed'
             PROVE  Clear(feed', day', missed', late' \ {x}, x.market)
  OBVIOUS
<1>1. x \in late /\ x.run \notin missed
  OBVIOUS
<1>2. Clear(feed, day, missed, late \ {x}, x.market)
  BY <1>1 DEF BuyInv, BuysAreFresh
<1>3. late' \ {x} \subseteq late \ {x}
  OBVIOUS
<1> QED
  BY <1>2, <1>3, SameClear, Zenon DEF BuyInv

\* Where the order stays or is dropped, and the job stays or is dropped.
LEMMA SameOrders ==
  ASSUME BuyInv, feed' = feed, day' \in {day, day + 1}, missed' = missed,
         late' \subseteq late, order' \in {order, NoOrder},
         step' # "redeem" => job' = <<>> \/ (step # "redeem" /\ job' = job)
  PROVE  BuysAreFresh'
<1>1. ASSUME NEW i \in DOMAIN job', step' # "redeem", job'[i].side = "BUY"
      PROVE  /\ Len(job') = 1 /\ order' = NoOrder
             /\ Clear(feed', day', missed', late', job'[i].market)
  <2>1. job' # <<>>
    <3>1. DOMAIN <<>> = {}
      OBVIOUS
    <3> QED
      BY <1>1, <3>1
  <2>2. step # "redeem" /\ job' = job
    BY <1>1, <2>1
  <2>3. Len(job) = 1 /\ order = NoOrder /\ Clear(feed, day, missed, late, job[i].market)
    BY <1>1, <2>2 DEF BuyInv, BuysAreFresh
  <2>4. Clear(feed', day', missed', late', job[i].market)
    BY <2>3, SameClear, Zenon DEF BuyInv
  <2> QED
    BY <2>2, <2>3, <2>4
<1>2. InFlight' /\ order'.side = "BUY" =>
          Clear(feed', day', missed', late', order'.market)
  <2>1. CASE order' = NoOrder
    BY <2>1 DEF InFlight, NoOrder
  <2>2. CASE order' = order
    <3>1. InFlight /\ order.side = "BUY" => Clear(feed, day, missed, late, order.market)
      BY DEF BuyInv, BuysAreFresh
    <3>2. InFlight /\ order.side = "BUY" => Clear(feed', day', missed', late', order.market)
      BY <3>1, SameClear, Zenon DEF BuyInv
    <3> QED
      BY <2>2, <3>2 DEF InFlight
  <2> QED
    BY <2>1, <2>2
<1>3. \A x \in late' :
          x.side = "BUY" => \/ x.run \in missed'
                            \/ Clear(feed', day', missed', late' \ {x}, x.market)
  BY SameLate
<1> QED
  BY <1>1, <1>2, <1>3 DEF BuysAreFresh

\* What the two actions that mine an order do to the feed.
LEMMA Mined ==
  ASSUME BuyInv, Mine \/ MineLate
  PROVE  \E x \in Order, t \in Trade :
            /\ \/ Mine /\ x = order /\ late' = late /\ ~InFlight'
               \/ MineLate /\ x \in late /\ late' = late \ {x} /\ order' = order
            /\ t.market = x.market /\ t.side = x.side /\ t.run = x.run /\ t.time = day
            /\ t.outcome = x.outcome /\ (t.side = "SELL" => t.size = x.amount)
            /\ Range(feed') = {t} \cup Range(feed)
            /\ \A k \in DOMAIN feed' :
                  \/ k = 1 /\ feed'[k] = t
                  \/ k # 1 /\ k - 1 \in DOMAIN feed /\ feed'[k] = feed[k - 1]
            /\ UNCHANGED <<day, step, job, missed>>
<1>1. PICK x \in Order :
          /\ Fill(x)
          /\ \/ Mine /\ x = order /\ late' = late /\ ~InFlight'
             \/ MineLate /\ x \in late /\ late' = late \ {x} /\ order' = order
  <2>1. CASE Mine
    <3>1. order \in Order /\ order.chain = "flight"
      BY <2>1 DEF Mine, InFlight, NoOrder, BuyInv, AccountTypeOK
    <3>2. ~InFlight'
      BY <2>1, <3>1 DEF Mine, InFlight, NoOrder, Order
    <3> QED
      BY <2>1, <3>1, <3>2 DEF Mine, reported
  <2>2. CASE MineLate
    BY <2>2 DEF MineLate, BuyInv, AccountTypeOK
  <2> QED
    BY <2>1, <2>2
<1>2. PICK t \in Trade :
          /\ t.market = x.market /\ t.side = x.side /\ t.time = day /\ t.run = x.run
          /\ t.outcome = x.outcome /\ (t.side = "SELL" => t.size = x.amount)
          /\ Len(feed') = Len(feed) + 1 /\ feed' \in Seq(Trade)
          /\ feed'[1] = t /\ \A i \in 1..Len(feed) : feed'[i + 1] = feed[i]
  BY <1>1, Filled DEF BuyInv
<1>3. /\ DOMAIN feed = 1..Len(feed) /\ Len(feed) \in Nat
      /\ DOMAIN feed' = 1..(Len(feed) + 1)
  BY <1>2, LenProperties DEF BuyInv, AccountTypeOK
<1>4. ASSUME NEW i \in DOMAIN feed', i # 1
      PROVE  i - 1 \in DOMAIN feed /\ feed'[i] = feed[i - 1]
  <2>1. i \in Int /\ i - 1 \in 1..Len(feed) /\ (i - 1) + 1 = i
    BY <1>3, <1>4
  <2>2. feed'[(i - 1) + 1] = feed[i - 1]
    BY <1>2, <2>1
  <2> QED
    BY <1>3, <2>1, <2>2
<1>5. \A k \in DOMAIN feed' :
          \/ k = 1 /\ feed'[k] = t
          \/ k # 1 /\ k - 1 \in DOMAIN feed /\ feed'[k] = feed[k - 1]
  BY <1>2, <1>4
<1>6. UNCHANGED <<day, step, job, missed>>
  BY <1>1, Mines DEF BuyInv
<1>7. Range(feed') = {t} \cup Range(feed)
  <2>1. Range(feed') \subseteq {t} \cup Range(feed)
    BY <1>5 DEF Range
  <2>2. 1 \in DOMAIN feed' /\ t \in Range(feed')
    <3>1. 1 \in DOMAIN feed'
      BY <1>3
    <3> QED
      BY <1>2, <3>1 DEF Range
  <2>3. ASSUME NEW i \in DOMAIN feed PROVE feed[i] \in Range(feed')
    <3>1. i + 1 \in DOMAIN feed' /\ feed'[i + 1] = feed[i]
      BY <1>2, <1>3
    <3> QED
      BY <3>1, Zenon DEF Range
  <2> QED
    BY <2>1, <2>2, <2>3 DEF Range
<1> QED
  BY <1>1, <1>2, <1>5, <1>6, <1>7

\* A market stays clear of a trade that is no purchase of it, or excused.
LEMMA MineClear ==
  ASSUME UNCHANGED <<day, missed>>, NEW t,
         \A k \in DOMAIN feed' :
             \/ k = 1 /\ feed'[k] = t
             \/ k # 1 /\ k - 1 \in DOMAIN feed /\ feed'[k] = feed[k - 1]
  PROVE  \A m, S, T :
            /\ Clear(feed, day, missed, S, m) /\ T \subseteq S
            /\ t.market = m /\ t.side = "BUY" => t.run \in missed
            => Clear(feed', day', missed', T, m)
<1> SUFFICES ASSUME NEW m, NEW S, NEW T, Clear(feed, day, missed, S, m), T \subseteq S,
                    t.market = m /\ t.side = "BUY" => t.run \in missed
             PROVE  Clear(feed', day', missed', T, m)
  OBVIOUS
<1>1. ASSUME NEW k \in DOMAIN feed', feed'[k].market = m, feed'[k].side = "BUY"
      PROVE  feed'[k].time < day \/ feed'[k].run \in missed
  BY <1>1 DEF Clear, Fresh
<1> QED
  BY <1>1 DEF Clear, Fresh

\* A purchase that is mined is the first of its market today, but for
\* those that were missed.
LEMMA MineBuys ==
  BuyInv /\ (Mine \/ MineLate)
    => NewestFirst' /\ BuysAreFresh' /\ (OneBuyPerDay => OneBuyPerDay')
<1> SUFFICES ASSUME BuyInv, Mine \/ MineLate
             PROVE  NewestFirst' /\ BuysAreFresh' /\ (OneBuyPerDay => OneBuyPerDay')
  OBVIOUS
<1>1. PICK x \in Order, t \in Trade :
            /\ \/ Mine /\ x = order /\ late' = late /\ ~InFlight'
               \/ MineLate /\ x \in late /\ late' = late \ {x} /\ order' = order
            /\ t.market = x.market /\ t.side = x.side /\ t.run = x.run /\ t.time = day
            /\ \A k \in DOMAIN feed' :
                  \/ k = 1 /\ feed'[k] = t
                  \/ k # 1 /\ k - 1 \in DOMAIN feed /\ feed'[k] = feed[k - 1]
            /\ UNCHANGED <<day, step, job, missed>>
  BY Mined
<1>2. /\ feed \in Seq(Trade) /\ DOMAIN feed \subseteq Int /\ day \in Nat
      /\ \A i \in DOMAIN feed : feed[i].time \in Int
  <2>1. feed \in Seq(Trade) /\ DOMAIN feed \subseteq Int /\ day \in Nat
    BY LenProperties DEF BuyInv, AccountTypeOK
  <2>2. \A i \in DOMAIN feed : feed[i] \in Trade
    BY <2>1, LenProperties, ElementOfSeq
  <2> QED
    BY <2>1, <2>2 DEF Trade
<1>3. DOMAIN feed' \subseteq Int
  <2>1. feed' \in Seq(Trade)
    BY MineTyped DEF BuyInv, AccountTypeOK
  <2> QED
    BY <2>1, LenProperties
<1>4. Mine => order \in Order /\ InFlight /\ order # NoOrder
  BY DEF Mine, InFlight, NoOrder, BuyInv, AccountTypeOK
<1>5. NewestFirst'
  <2>1. \A i \in DOMAIN feed' : feed'[i].time <= day
    BY <1>1, <1>2 DEF BuyInv, NewestFirst
  <2>2. ASSUME NEW i \in DOMAIN feed', NEW j \in DOMAIN feed', i < j
        PROVE  feed'[j].time <= feed'[i].time
    <3>0. i \in Int /\ j \in Int
      BY <1>3
    <3>1. CASE j = 1
      <4>1. i - 1 \in DOMAIN feed
        BY <1>1, <2>2, <3>0, <3>1
      <4>2. i - 1 \in 1..Len(feed) /\ Len(feed) \in Nat
        BY <1>2, <4>1, LenProperties
      <4> QED
        BY <2>2, <3>0, <3>1, <4>2
    <3>2. CASE j # 1
      <4>1. j - 1 \in DOMAIN feed /\ feed'[j] = feed[j - 1]
        BY <1>1, <3>2
      <4>2. CASE i = 1
        <5>1. feed'[i] = t
          BY <1>1, <4>2
        <5>2. feed[j - 1].time <= day
          BY <4>1 DEF BuyInv, NewestFirst
        <5> QED
          BY <1>1, <4>1, <5>1, <5>2
      <4>3. CASE i # 1
        <5>1. i - 1 \in DOMAIN feed /\ feed'[i] = feed[i - 1] /\ i - 1 < j - 1
          BY <1>1, <2>2, <3>0, <4>3
        <5> QED
          BY <4>1, <5>1 DEF BuyInv, NewestFirst
      <4> QED
        BY <4>2, <4>3
    <3> QED
      BY <3>1, <3>2
  <2> QED
    BY <1>1, <2>1, <2>2 DEF NewestFirst
<1>6. \A m, S, T :
            /\ Clear(feed, day, missed, S, m) /\ T \subseteq S
            /\ t.market = m /\ t.side = "BUY" => t.run \in missed
            => Clear(feed', day', missed', T, m)
  BY <1>1, MineClear, Zenon
<1>7. t.side = "BUY" /\ t.run \notin missed =>
          Clear(feed, day, missed, late', t.market)
  <2>1. ASSUME Mine, t.side = "BUY" PROVE Clear(feed, day, missed, late', t.market)
    <3>1. x = order /\ late' = late
      BY <1>1, <2>1 DEF Mine, reported
    <3>2. x.side = "BUY" /\ t.market = x.market
      BY <1>1, <2>1
    <3>3. Clear(feed, day, missed, late, x.market)
      BY <1>4, <2>1, <3>1, <3>2 DEF BuyInv, BuysAreFresh
    <3> QED
      BY <3>1, <3>2, <3>3
  <2>2. ASSUME x \in late, late' = late \ {x}, t.side = "BUY", t.run \notin missed
        PROVE  Clear(feed, day, missed, late', t.market)
    BY <1>1, <2>2 DEF BuyInv, BuysAreFresh
  <2> QED
    BY <1>1, <2>1, <2>2
<1>8. BuysAreFresh'
  <2>1. ASSUME NEW i \in DOMAIN job', step' # "redeem", job'[i].side = "BUY"
        PROVE  /\ Len(job') = 1 /\ order' = NoOrder
               /\ Clear(feed', day', missed', late', job'[i].market)
    <3>1. Len(job) = 1 /\ order = NoOrder /\ Clear(feed, day, missed, late, job[i].market)
      BY <1>1, <2>1 DEF BuyInv, BuysAreFresh
    <3>2. x \in late /\ late' \subseteq late /\ order' = order
      BY <1>1, <1>4, <3>1
    <3>3. t.market = job[i].market /\ t.side = "BUY" => t.run \in missed
      BY <1>1, <3>1, <3>2 DEF Clear
    <3>4. Clear(feed', day', missed', late', job[i].market)
      BY <1>6, <3>1, <3>2, <3>3, Zenon
    <3> QED
      BY <1>1, <3>1, <3>2, <3>4
  <2>2. ASSUME InFlight', order'.side = "BUY"
        PROVE  Clear(feed', day', missed', late', order'.market)
    <3>1. x \in late /\ late' \subseteq late /\ order' = order
      BY <1>1, <2>2
    <3>2. Clear(feed, day, missed, late, order.market)
      BY <2>2, <3>1 DEF BuyInv, BuysAreFresh, InFlight
    <3>3. t.market = order.market /\ t.side = "BUY" => t.run \in missed
      BY <1>1, <3>1, <3>2 DEF Clear
    <3>4. Clear(feed', day', missed', late', order.market)
      BY <1>6, <3>1, <3>2, <3>3, Zenon
    <3> QED
      BY <3>1, <3>4
  <2>3. ASSUME NEW y \in late', y.side = "BUY", y.run \notin missed'
        PROVE  Clear(feed', day', missed', late' \ {y}, y.market)
    <3>1. y \in late /\ late' \subseteq late /\ y.run \notin missed
      BY <1>1, <2>3
    <3>2. Clear(feed, day, missed, late \ {y}, y.market)
      BY <2>3, <3>1 DEF BuyInv, BuysAreFresh
    <3>3. t.market = y.market /\ t.side = "BUY" => t.run \in missed
      BY <1>7, <2>3, <3>1 DEF Clear
    <3>4. late' \ {y} \subseteq late \ {y}
      BY <3>1
    <3> QED
      BY <1>6, <3>2, <3>3, <3>4, Zenon
  <2> QED
    BY <2>1, <2>2, <2>3 DEF BuysAreFresh
<1>9. ASSUME OneBuyPerDay PROVE OneBuyPerDay'
  <2>1. ASSUME NEW i \in DOMAIN feed', NEW j \in DOMAIN feed',
               feed'[i].market = feed'[j].market, feed'[i].time = feed'[j].time,
               feed'[i].side = "BUY", feed'[j].side = "BUY",
               feed'[i].run \notin missed, feed'[j].run \notin missed
        PROVE  i = j
    <3>0. i \in Int /\ j \in Int
      BY <1>3
    <3>1. ASSUME NEW k \in DOMAIN feed, t.side = "BUY", t.run \notin missed,
                 feed[k].market = t.market, feed[k].side = "BUY",
                 feed[k].run \notin missed
          PROVE  feed[k].time # t.time
      <4>1. Fresh(feed, day, missed, t.market)
        BY <1>7, <3>1 DEF Clear
      <4>2. feed[k].time < day
        BY <3>1, <4>1 DEF Fresh
      <4> QED
        BY <1>1, <1>2, <4>2
    <3>2. CASE i = 1 /\ j # 1
      BY <1>1, <2>1, <3>1, <3>2
    <3>3. CASE i # 1 /\ j = 1
      BY <1>1, <2>1, <3>1, <3>3
    <3>4. CASE i # 1 /\ j # 1
      <4>1. /\ i - 1 \in DOMAIN feed /\ feed'[i] = feed[i - 1]
            /\ j - 1 \in DOMAIN feed /\ feed'[j] = feed[j - 1]
        BY <1>1, <3>4
      <4>2. {feed[i - 1].run, feed[j - 1].run} \cap missed = {}
        BY <2>1, <4>1
      <4>3. i - 1 = j - 1
        BY <1>9, <2>1, <4>1, <4>2 DEF OneBuyPerDay
      <4> QED
        BY <3>0, <4>3
    <3> QED
      BY <3>2, <3>3, <3>4
  <2>2. missed' = missed
    BY <1>1
  <2> QED
    BY <2>1, <2>2 DEF OneBuyPerDay
<1> QED
  BY <1>5, <1>8, <1>9

\* Where a run starts, with sales only or one purchase in a clear market.
LEMMA StartBuys ==
  ASSUME BuyInv, NEW orders, NEW at, Start(orders, at), missed \subseteq missed',
         \A i \in DOMAIN orders :
             orders[i].side = "BUY" =>
                 Len(orders) = 1 /\ Clear(feed, day, missed', late, orders[i].market)
  PROVE  UNCHANGED <<feed, day>> /\ BuysAreFresh'
<1>1. UNCHANGED <<feed, day, late>> /\ order' = NoOrder /\ job' = orders
  BY DEF Start, chain, world
<1>2. ~InFlight'
  BY <1>1 DEF InFlight, NoOrder
<1>3. \A i \in DOMAIN job' :
          job'[i].side = "BUY" => /\ Len(job') = 1 /\ order' = NoOrder
                                  /\ Clear(feed', day', missed', late', job'[i].market)
  BY <1>1
<1>4. \A x \in late' :
          x.side = "BUY" => \/ x.run \in missed'
                            \/ Clear(feed', day', missed', late' \ {x}, x.market)
  BY <1>1, SameLate
<1> QED
  BY <1>1, <1>2, <1>3, <1>4 DEF BuysAreFresh

\* A bet is placed only when the market is not bet on today.
LEMMA StartsBuys ==
  BuyInv /\ Starts
    => UNCHANGED <<feed, day>> /\ missed \subseteq missed' /\ BuysAreFresh'
<1> SUFFICES ASSUME BuyInv, Starts
             PROVE  UNCHANGED <<feed, day>> /\ missed \subseteq missed' /\ BuysAreFresh'
  OBVIOUS
<1>0. AccountTypeOK /\ NewestFirst
  BY DEF BuyInv
<1>1. CASE StartBet
  <2>1. PICK m \in Markets, x \in Ask :
            /\ x.side = "BUY" /\ x.market = m /\ ~HaveBet(m)
            /\ Start(<<x>>, "gas")
            /\ missed' = missed \cup {y.run : y \in {z \in late : z.market = m}}
    BY <1>0, <1>1, BetStarts
  <2>2. Clear(feed, day, missed', late, m)
    BY <1>0, <2>1, NotBetIsFresh DEF Clear
  <2>3. DOMAIN <<x>> = {1} /\ <<x>>[1] = x /\ Len(<<x>>) = 1
    OBVIOUS
  <2>4. \A i \in DOMAIN <<x>> :
            <<x>>[i].side = "BUY" =>
                Len(<<x>>) = 1 /\ Clear(feed, day, missed', late, <<x>>[i].market)
    BY <2>1, <2>2, <2>3
  <2>5. missed \subseteq missed'
    BY <2>1
  <2> QED
    BY <2>1, <2>4, <2>5, StartBuys
<1>2. CASE StartSell \/ StartSellAll
  <2>1. PICK orders \in Seq(Ask) :
            /\ \A i \in DOMAIN orders : orders[i].side = "SELL"
            /\ Start(orders, "post") /\ missed' = missed
    BY <1>0, <1>2, SalesStart
  <2>2. \A i \in DOMAIN orders : orders[i].side # "BUY"
    BY <2>1
  <2> QED
    BY <2>1, <2>2, StartBuys
<1>3. CASE StartLiquidation
  <2>1. PICK m \in Markets, o \in Range(Outcomes) :
            Start(<<Sale(m, Other(o))>>, "post") /\ missed' = missed
    BY <1>0, <1>3, LiquidationStarts
  <2> DEFINE x == Sale(m, Other(o))
  <2>2. x.side # "BUY"
    BY DEF Sale
  <2>3. \A i \in DOMAIN <<x>> : <<x>>[i].side # "BUY"
    <3> HIDE DEF x
    <3> QED
      BY <2>2
  <2> QED
    BY <2>1, <2>3, StartBuys
<1> QED
  BY <1>1, <1>2, <1>3 DEF Starts

\* The order that is sent is the one that was started.
LEMMA PostBuys == BuyInv /\ Post => UNCHANGED <<feed, day, missed>> /\ BuysAreFresh'
<1> SUFFICES ASSUME BuyInv, Post PROVE UNCHANGED <<feed, day, missed>> /\ BuysAreFresh'
  OBVIOUS
<1>1. /\ UNCHANGED <<feed, day, late, missed>>
      /\ step = "post" /\ job # <<>> /\ job' = Tail(job)
      /\ step' \in {"verify", "raise"}
      /\ \E at \in {"none", "flight"} : order' = Placed(Head(job), at)
  BY DEF Post, world, reported
<1>2. job \in Seq(Ask)
  BY <1>1 DEF BuyInv, AccountTypeOK, JobOK
<1>3. /\ Len(job) \in Nat \ {0} /\ DOMAIN job = 1..Len(job)
      /\ Tail(job) \in Seq(Ask) /\ Len(Tail(job)) = Len(job) - 1
      /\ \A i \in 1..Len(Tail(job)) : Tail(job)[i] = job[i + 1]
      /\ Head(job) = job[1]
  BY <1>1, <1>2, HeadTailProperties, LenProperties, EmptySeq
<1>4. DOMAIN job' = 1..(Len(job) - 1)
  BY <1>1, <1>3, LenProperties
<1>5. \A i \in DOMAIN job :
          job[i].side = "BUY" =>
              Len(job) = 1 /\ Clear(feed, day, missed, late, job[i].market)
  BY <1>1 DEF BuyInv, BuysAreFresh
<1>6. \A i \in DOMAIN job' : job'[i].side # "BUY"
  <2>1. ASSUME NEW i \in DOMAIN job', job'[i].side = "BUY" PROVE FALSE
    <3>1. i \in 1..(Len(job) - 1) /\ i + 1 \in DOMAIN job /\ job'[i] = job[i + 1]
      BY <1>1, <1>3, <1>4
    <3>2. Len(job) = 1
      BY <1>5, <2>1, <3>1
    <3> QED
      BY <3>1, <3>2
  <2> QED
    BY <2>1
<1>7. InFlight' /\ order'.side = "BUY" =>
          Clear(feed', day', missed', late', order'.market)
  <2>1. order'.side = Head(job).side /\ order'.market = Head(job).market
    BY <1>1 DEF Placed
  <2>2. Head(job).side = "BUY" => Clear(feed, day, missed, late, Head(job).market)
    BY <1>3, <1>5
  <2> QED
    BY <1>1, <2>1, <2>2
<1>8. \A x \in late' :
          x.side = "BUY" => \/ x.run \in missed'
                            \/ Clear(feed', day', missed', late' \ {x}, x.market)
  BY <1>1, SameLate
<1> QED
  BY <1>1, <1>6, <1>7, <1>8 DEF BuysAreFresh

\* An order that is killed leaves nothing to be mined.
LEMMA KillBuys == BuyInv /\ Kill => UNCHANGED <<feed, day, missed>> /\ BuysAreFresh'
<1> SUFFICES ASSUME BuyInv, Kill PROVE UNCHANGED <<feed, day, missed>> /\ BuysAreFresh'
  OBVIOUS
<1>1. UNCHANGED <<feed, day, step, job, late, missed>>
  BY DEF Kill, chain, world, reported
<1>2. order \in Order /\ InFlight
  BY DEF BuyInv, AccountTypeOK, Kill, InFlight, NoOrder
<1>3. order # NoOrder
  BY <1>2 DEF InFlight, NoOrder
<1>4. step # "redeem" => \A i \in DOMAIN job : job[i].side # "BUY"
  BY <1>3 DEF BuyInv, BuysAreFresh
<1>5. ~InFlight'
  BY <1>2 DEF Kill, InFlight, NoOrder, Order
<1>6. \A x \in late' :
          x.side = "BUY" => \/ x.run \in missed'
                            \/ Clear(feed', day', missed', late' \ {x}, x.market)
  BY <1>1, SameLate
<1> QED
  BY <1>1, <1>4, <1>5, <1>6 DEF BuysAreFresh

\* An order that is given up goes on where it was clear.
LEMMA RaiseBuys == BuyInv /\ Raise => UNCHANGED <<feed, day, missed>> /\ BuysAreFresh'
<1> SUFFICES ASSUME BuyInv, Raise PROVE UNCHANGED <<feed, day, missed>> /\ BuysAreFresh'
  OBVIOUS
<1>1. /\ UNCHANGED <<feed, day, missed>> /\ job' = <<>> /\ order' = NoOrder
      /\ late' = IF InFlight THEN late \cup {order} ELSE late
  BY DEF Raise, chain, world
<1>2. ~InFlight' /\ DOMAIN job' = {}
  BY <1>1 DEF InFlight, NoOrder
<1>3. ASSUME NEW x \in late', x.side = "BUY", x.run \notin missed
      PROVE  Clear(feed, day, missed, late' \ {x}, x.market)
  <2>1. CASE x \in late
    <3>1. Clear(feed, day, missed, late \ {x}, x.market)
      BY <1>3, <2>1 DEF BuyInv, BuysAreFresh
    <3>2. ASSUME InFlight, order.market = x.market, order.side = "BUY", order # x
          PROVE  order.run \in missed
      <4>1. Clear(feed, day, missed, late, order.market)
        BY <3>2 DEF BuyInv, BuysAreFresh
      <4>2. x.run \in missed
        BY <1>3, <2>1, <3>2, <4>1 DEF Clear
      <4> QED
        BY <1>3, <4>2
    <3> QED
      BY <1>1, <3>1, <3>2 DEF Clear
  <2>2. CASE x \notin late
    <3>1. InFlight /\ x = order /\ late' \ {x} \subseteq late
      BY <1>1, <1>3, <2>2
    <3>2. Clear(feed, day, missed, late, x.market)
      BY <1>3, <3>1 DEF BuyInv, BuysAreFresh
    <3> QED
      BY <3>1, <3>2 DEF Clear
  <2> QED
    BY <2>1, <2>2
<1> QED
  BY <1>1, <1>2, <1>3 DEF BuysAreFresh

\* Hence every step keeps purchases fresh.
LEMMA BuysKept ==
  BuyInv /\ [AccountNext]_accountVars
    => NewestFirst' /\ BuysAreFresh' /\ (OneBuyPerDay => OneBuyPerDay')
<1> SUFFICES ASSUME BuyInv, [AccountNext]_accountVars
             PROVE  NewestFirst' /\ BuysAreFresh' /\ (OneBuyPerDay => OneBuyPerDay')
  OBVIOUS
<1>0. NewestFirst /\ AccountTypeOK
  BY DEF BuyInv
<1>1. CASE Mine \/ MineLate
  BY <1>1, MineBuys
<1>2. CASE Kill
  BY <1>0, <1>2, KillBuys, SameFeed
<1>3. CASE KillLate \/ World
  <2>1. /\ feed' = feed /\ day' \in {day, day + 1} /\ late' \subseteq late
        /\ UNCHANGED <<step, job, order, missed>>
    BY <1>3 DEF KillLate, World, Dry, Resolve, NextDay, chain, world, reported
  <2> QED
    BY <1>0, <2>1, SameFeed, SameOrders
<1>4. CASE Starts
  BY <1>0, <1>4, StartsBuys, SameFeed
<1>5. CASE EnsureNative
  <2>1. /\ UNCHANGED <<feed, day, order, late, missed>> /\ step = "gas"
        /\ job' = job \/ job' = <<>>
    BY <1>5 DEF EnsureNative, world, reported
  <2> QED
    BY <1>0, <2>1, SameFeed, SameOrders
<1>6. CASE Deposit
  <2>1. UNCHANGED <<feed, day, order, job, late, missed>> /\ step = "deposit"
    BY <1>6 DEF Deposit, world, reported
  <2> QED
    BY <1>0, <2>1, SameFeed, SameOrders
<1>7. CASE Post
  BY <1>0, <1>7, PostBuys, SameFeed
<1>8. CASE Verify \/ VerifyFails \/ NotFound
  <2>1. /\ UNCHANGED <<feed, day, job, late, missed>> /\ step = "verify"
        /\ order' \in {order, NoOrder}
    BY <1>8 DEF Verify, VerifyFails, NotFound, chain, world, reported
  <2> QED
    BY <1>0, <2>1, SameFeed, SameOrders
<1>9. CASE Raise
  BY <1>0, <1>9, RaiseBuys, SameFeed
<1>10. CASE StartRedeem
  <2>1. UNCHANGED <<feed, day, late, missed>> /\ order' = NoOrder /\ step' = "redeem"
    BY <1>10 DEF StartRedeem, chain, world, reported
  <2> QED
    BY <1>0, <2>1, SameFeed, SameOrders
<1>11. CASE RedeemNext
  <2>1. /\ UNCHANGED <<feed, day, order, late, missed>>
        /\ step' = IF job' = <<>> THEN "idle" ELSE "redeem"
    BY <1>11 DEF RedeemNext, world, reported
  <2> QED
    BY <1>0, <2>1, SameFeed, SameOrders
<1>12. CASE RedeemRaises
  <2>1. UNCHANGED <<feed, day, order, late, missed>> /\ job' = <<>>
    BY <1>12 DEF RedeemRaises, chain, world, reported
  <2> QED
    BY <1>0, <2>1, SameFeed, SameOrders
<1>13. CASE UNCHANGED accountVars
  <2>1. UNCHANGED <<feed, day, step, job, order, late, missed>>
    BY <1>13 DEF accountVars, chain, world, reported
  <2> QED
    BY <1>0, <2>1, SameFeed, SameOrders
<1> QED
  BY <1>1, <1>2, <1>3, <1>4, <1>5, <1>6, <1>7, <1>8, <1>9, <1>10, <1>11, <1>12, <1>13
  DEF AccountNext, Exchange, Call

\* The trades of earlier days kept to one purchase of a market a day.
EarlierOnce ==
    \A i, j \in DOMAIN Earlier :
        Earlier[i].market = Earlier[j].market /\ Earlier[i].time = Earlier[j].time
        => i = j

\* And so they are in the beginning.
LEMMA InitBuys ==
  /\ AccountInit => NewestFirst /\ BuysAreFresh
  /\ AccountInit /\ EarlierOnce => OneBuyPerDay
<1> SUFFICES ASSUME AccountInit
             PROVE  /\ NewestFirst /\ BuysAreFresh
                    /\ EarlierOnce => OneBuyPerDay
  OBVIOUS
<1>1. feed = Earlier /\ day = 1 /\ job = <<>> /\ order = NoOrder /\ late = {}
  BY DEF AccountInit
<1>2. /\ \A i \in DOMAIN Earlier : Earlier[i].time < 1
      /\ \A i, j \in DOMAIN Earlier : i < j => Earlier[j].time <= Earlier[i].time
  BY PolymarketAssumption
<1>3. \A i \in DOMAIN Earlier : Earlier[i].time \in Int
  <2>1. \A i \in DOMAIN Earlier : Earlier[i] \in Trade
    BY Numbers, LenProperties, ElementOfSeq
  <2> QED
    BY <2>1 DEF Trade
<1>4. NewestFirst
  BY <1>1, <1>2, <1>3 DEF NewestFirst
<1>5. BuysAreFresh
  <2>1. ~InFlight
    BY <1>1 DEF InFlight, NoOrder
  <2>2. DOMAIN job = {}
    BY <1>1
  <2> QED
    BY <1>1, <2>1, <2>2 DEF BuysAreFresh
<1> QED
  BY <1>1, <1>4, <1>5 DEF EarlierOnce, OneBuyPerDay

-----------------------------------------------------------------------------
(* Liquidation *)

\* No trade and no order is of a run to come.
Runs ==
    /\ \A t \in Range(feed) : t.run <= started
    /\ \A x \in late : x.run <= started
    /\ order # NoOrder => order.run <= started

\* What a liquidation asks for, and what it has traded when it returns.
Asked == [side |-> "SELL", market |-> call.market,
          outcome |-> Other(call.outcome), amount |-> call.other]
Untraded == \A t \in Range(feed) : t.run # started
Liquidating ==
    call.kind = "liquidate" =>
        /\ step \in {"post", "verify", "raise", "idle"}
        /\ \A x \in late : x.run # started
        /\ step = "post" => job = <<Asked>> /\ Untraded /\ ~InFlight
        /\ step = "verify" =>
               /\ job = <<>> /\ order \in Order
               /\ order = Placed(Asked, order.chain)
               /\ IF order.chain = "mined" THEN Traded(started) = {Asked}
                  ELSE Untraded
        /\ step = "idle" => Traded(started) = {Asked} /\ ~InFlight

RunInv == BuyInv /\ Runs

\* Runs are counted up.
LEMMA RunNumbers ==
  ASSUME AccountTypeOK
  PROVE  /\ started \in Nat /\ \A t \in Range(feed) : t \in Trade /\ t.run \in Nat
         /\ \A x \in late : x.run \in Nat
<1>1. \A t \in Range(feed) : t \in Trade
  BY RangeOfSeq DEF AccountTypeOK
<1> QED
  BY <1>1 DEF AccountTypeOK, Trade, Order

LEMMA RunsKept == RunInv /\ [AccountNext]_accountVars => Runs'
<1> SUFFICES ASSUME RunInv, [AccountNext]_accountVars PROVE Runs'
  OBVIOUS
<1>0. AccountTypeOK /\ BuyInv /\ Runs
  BY DEF RunInv, BuyInv
<1>1. CASE Mine \/ MineLate
  <2>1. PICK x \in Order, t \in Trade :
            /\ \/ Mine /\ x = order /\ late' = late /\ ~InFlight'
               \/ MineLate /\ x \in late /\ late' = late \ {x} /\ order' = order
            /\ t.run = x.run /\ Range(feed') = {t} \cup Range(feed)
    BY <1>0, <1>1, Mined
  <2>2. started' = started
    BY <1>0, <1>1, Mines
  <2>3. x.run <= started
    <3>1. Mine /\ x = order => order # NoOrder
      BY DEF Mine, InFlight, NoOrder
    <3> QED
      BY <1>0, <2>1, <3>1 DEF Runs
  <2>4. order' # NoOrder => order'.run <= started
    <3>1. CASE Mine
      <4>1. order \in Order /\ order # NoOrder
        BY <1>0, <3>1 DEF Mine, InFlight, NoOrder, AccountTypeOK
      <4>2. order' # NoOrder => order' = [order EXCEPT !.chain = "mined"]
        BY <3>1 DEF Mine
      <4>3. order' # NoOrder => order'.run = order.run
        BY <4>1, <4>2 DEF Order
      <4> QED
        BY <1>0, <4>1, <4>3 DEF Runs
    <3>2. CASE MineLate
      BY <1>0, <3>2 DEF Runs, MineLate
    <3> QED
      BY <1>1, <3>1, <3>2
  <2>5. \A y \in late' : y.run <= started
    BY <1>0, <2>1 DEF Runs
  <2>6. \A u \in Range(feed') : u.run <= started
    BY <1>0, <2>1, <2>3 DEF Runs
  <2> QED
    BY <2>2, <2>4, <2>5, <2>6 DEF Runs
<1>2. CASE Kill
  <2>1. order \in Order /\ order # NoOrder
    BY <1>0, <1>2 DEF Kill, InFlight, NoOrder, AccountTypeOK
  <2>2. PICK c \in {"failed", "dropped"} :
            order' = [order EXCEPT !.chain = c] \/ order' = NoOrder
    BY <1>2 DEF Kill
  <2>3. order' # NoOrder => order'.run = order.run
    BY <2>1, <2>2 DEF Order
  <2>4. UNCHANGED <<feed, late, started>>
    BY <1>2 DEF Kill, chain, reported
  <2> QED
    BY <1>0, <2>1, <2>3, <2>4 DEF Runs
<1>3. CASE Starts
  <2>1. /\ UNCHANGED <<feed, late>> /\ order' = NoOrder /\ started' = started + 1
    BY <1>3 DEF Starts, StartBet, StartSell, StartLiquidation, StartSellAll, Start, chain
  <2>2. \A r \in Nat : r <= started => r <= started + 1
    BY <1>0, RunNumbers
  <2> QED
    BY <1>0, <2>1, <2>2, RunNumbers DEF Runs
<1>4. CASE Post
  <2>1. /\ UNCHANGED <<feed, late, started>>
        /\ \E at : order' = Placed(Head(job), at)
    BY <1>4 DEF Post, reported
  <2>2. order'.run = started
    BY <2>1 DEF Placed
  <2>3. started <= started
    BY <1>0, RunNumbers
  <2> QED
    BY <1>0, <2>1, <2>2, <2>3 DEF Runs
<1>5. CASE Raise
  <2>1. /\ UNCHANGED <<feed, started>> /\ order' = NoOrder
        /\ late' = IF InFlight THEN late \cup {order} ELSE late
    BY <1>5 DEF Raise, chain
  <2>2. InFlight => order # NoOrder
    BY DEF InFlight, NoOrder
  <2> QED
    BY <1>0, <2>1, <2>2 DEF Runs
<1>6. ASSUME UNCHANGED <<feed, started>>, late' \subseteq late, order' \in {order, NoOrder}
      PROVE  Runs'
  BY <1>0, <1>6 DEF Runs
<1>7. CASE KillLate \/ World \/ UNCHANGED accountVars
  <2>1. UNCHANGED <<feed, started, order>> /\ late' \subseteq late
    BY <1>7 DEF KillLate, World, Dry, Resolve, NextDay, chain, reported, accountVars
  <2> QED
    BY <1>6, <2>1
<1>8. CASE EnsureNative \/ Deposit \/ RedeemNext
  <2>1. UNCHANGED <<feed, started, order, late>>
    BY <1>8 DEF EnsureNative, Deposit, RedeemNext, reported
  <2> QED
    BY <1>6, <2>1
<1>9. CASE Verify \/ VerifyFails \/ NotFound \/ StartRedeem \/ RedeemRaises
  <2>1. UNCHANGED <<feed, started, late>> /\ order' \in {order, NoOrder}
    BY <1>9 DEF Verify, VerifyFails, NotFound, StartRedeem, RedeemRaises, chain, reported
  <2> QED
    BY <1>6, <2>1
<1> QED
  BY <1>1, <1>2, <1>3, <1>4, <1>5, <1>7, <1>8, <1>9 DEF AccountNext, Exchange, Call

\* A call that is no liquidation, or one whose step asks for nothing.
LEMMA NoLiquidation ==
  ASSUME call'.kind # "liquidate"
  PROVE  Liquidating'
BY DEF Liquidating

\* A liquidation goes on unless one of its variables changes.
LEMMA SameLiquidation ==
  ASSUME Liquidating, UNCHANGED <<call, feed, order, job, step, started>>,
         late' \subseteq late
  PROVE  Liquidating'
BY DEF Liquidating, Asked, Untraded, Traded, InFlight, Placed

\* What a liquidation that runs has recorded.
LEMMA LiquidationCall ==
  ASSUME AccountTypeOK, call.kind = "liquidate"
  PROVE  /\ call \in Calls /\ Asked \in Ask /\ Asked.side = "SELL"
         /\ Asked.market = call.market /\ Asked.outcome = Other(call.outcome)
         /\ Asked.amount = call.other
<1>1. call \in Calls
  BY DEF AccountTypeOK, NoCall
<1>2. call.market \in Markets /\ call.outcome \in Range(Outcomes) /\ call.other \in Nat
  BY <1>1 DEF Calls
<1>3. Other(call.outcome) \in Range(Outcomes)
  BY <1>2, TwoOutcomes
<1>4. Asked \in Ask
  BY <1>2, <1>3 DEF Asked, Ask, Sides
<1> QED
  BY <1>1, <1>4 DEF Asked

\* Its order is mined: the other outcome is sold, and nothing else. Also
\* orders of earlier calls may be.
LEMMA MineLiquidates == RunInv /\ Liquidating /\ (Mine \/ MineLate) => Liquidating'
<1> SUFFICES ASSUME RunInv, Liquidating, Mine \/ MineLate, call.kind = "liquidate"
             PROVE  Liquidating'
  BY NoLiquidation DEF Mine, MineLate
<1>0. AccountTypeOK /\ BuyInv
  BY DEF RunInv, BuyInv
<1>1. UNCHANGED <<call, step, job, started>>
  BY <1>0, Mines
<1>2. PICK x \in Order, t \in Trade :
            /\ \/ Mine /\ x = order /\ late' = late /\ ~InFlight'
               \/ MineLate /\ x \in late /\ late' = late \ {x} /\ order' = order
            /\ t.market = x.market /\ t.side = x.side /\ t.run = x.run
            /\ t.outcome = x.outcome /\ (t.side = "SELL" => t.size = x.amount)
            /\ Range(feed') = {t} \cup Range(feed)
  BY <1>0, Mined
<1>3. CASE MineLate /\ x \in late /\ late' = late \ {x} /\ order' = order
  <2>1. t.run # started
    BY <1>2, <1>3 DEF Liquidating
  <2>2. {u \in Range(feed') : u.run = started} = {u \in Range(feed) : u.run = started}
    BY <1>2, <2>1
  <2>3. Traded(started)' = Traded(started) /\ (Untraded => Untraded')
    BY <1>1, <1>2, <2>1, <2>2 DEF Traded, Untraded
  <2>4. Asked' = Asked /\ InFlight' = InFlight
        /\ \A at : Placed(Asked, at)' = Placed(Asked, at)
    BY <1>1, <1>3 DEF Asked, InFlight, Placed
  <2> HIDE DEF InFlight, Asked, Placed, Traded, Untraded
  <2> QED
    BY <1>1, <1>3, <2>3, <2>4 DEF Liquidating
<1>4. CASE Mine /\ x = order /\ late' = late /\ ~InFlight'
  <2>1. order \in Order /\ order.chain = "flight" /\ InFlight
    BY <1>2, <1>4 DEF Mine, InFlight
  <2>2. step \in {"verify", "raise"}
    BY <2>1 DEF Liquidating
  <2>3. CASE step = "raise"
    BY <1>1, <1>4, <2>3 DEF Liquidating
  <2>4. CASE step = "verify"
    <3>1. job = <<>> /\ order = Placed(Asked, order.chain) /\ Untraded
      BY <2>1, <2>4 DEF Liquidating
    <3>2. order' = [order EXCEPT !.chain = "mined"]
      BY <1>4, <2>4 DEF Mine
    <3>3. order' = Placed(Asked, "mined") /\ order'.chain = "mined" /\ order' \in Order
      BY <2>1, <3>1, <3>2 DEF Placed, Order
    <3>4. /\ t.market = Asked.market /\ t.outcome = Asked.outcome /\ t.side = "SELL"
          /\ t.size = Asked.amount /\ t.run = started
      BY <1>2, <1>4, <3>1, <1>0, LiquidationCall DEF Placed
    <3>5. {u \in Range(feed') : u.run = started} = {t}
      BY <1>2, <3>1, <3>4 DEF Untraded
    <3>6. Traded(started)' = {[side |-> t.side, market |-> t.market,
                               outcome |-> t.outcome, amount |-> t.size]}
      BY <1>1, <3>5 DEF Traded
    <3>7. Traded(started)' = {Asked}
      BY <3>4, <3>6 DEF Asked
    <3>8. Asked' = Asked /\ \A at : Placed(Asked, at)' = Placed(Asked, at)
      BY <1>1 DEF Asked, Placed
    <3>9. \A y \in late' : y.run # started
      BY <1>4 DEF Liquidating
    <3> HIDE DEF Asked, Placed, Traded
    <3> QED
      BY <1>1, <2>4, <3>1, <3>3, <3>7, <3>8, <3>9 DEF Liquidating
  <2> QED
    BY <2>2, <2>3, <2>4
<1> QED
  BY <1>2, <1>3, <1>4

\* Its order is killed.
LEMMA KillLiquidates == AccountTypeOK /\ Liquidating /\ Kill => Liquidating'
<1> SUFFICES ASSUME AccountTypeOK, Liquidating, Kill, call.kind = "liquidate"
             PROVE  Liquidating'
  BY NoLiquidation DEF Kill
<1>1. order \in Order /\ order.chain = "flight" /\ InFlight
  BY DEF Kill, InFlight, AccountTypeOK, NoOrder
<1>2. UNCHANGED <<call, step, job, feed, late, started>>
  BY DEF Kill, chain, reported
<1>3. step \in {"verify", "raise"}
  BY <1>1 DEF Liquidating
<1>4. CASE step = "raise"
  BY <1>2, <1>4 DEF Liquidating
<1>5. CASE step = "verify"
  <2>1. job = <<>> /\ order = Placed(Asked, order.chain) /\ Untraded
    BY <1>1, <1>5 DEF Liquidating
  <2>2. PICK c \in {"failed", "dropped"} : order' = [order EXCEPT !.chain = c]
    BY <1>5 DEF Kill
  <2>3. /\ order' = Placed(Asked, order'.chain) /\ order'.chain # "mined"
        /\ order' \in Order
    BY <1>1, <2>1, <2>2 DEF Placed, Order
  <2>4. /\ Asked' = Asked /\ Placed(Asked, order.chain)' = Placed(Asked, order'.chain)
        /\ Untraded'
    BY <1>2, <2>1 DEF Asked, Placed, Untraded
  <2>5. \A y \in late' : y.run # started
    BY <1>2 DEF Liquidating
  <2> HIDE DEF Asked, Placed, Untraded
  <2> QED
    BY <1>2, <1>5, <2>1, <2>3, <2>4, <2>5 DEF Liquidating
<1> QED
  BY <1>3, <1>4, <1>5

\* It starts with the one order it needs.
LEMMA StartLiquidates == RunInv /\ Starts => Liquidating'
<1> SUFFICES ASSUME RunInv, Starts PROVE Liquidating'
  OBVIOUS
<1>0. AccountTypeOK /\ Runs
  BY DEF RunInv, BuyInv
<1>1. CASE StartLiquidation
  <2>1. PICK m \in Markets, o \in Range(Outcomes) :
            /\ Start(<<Sale(m, Other(o))>>, "post")
            /\ call' = [kind |-> "liquidate", market |-> m, outcome |-> o,
                        other |-> held[m][Other(o)]]
    BY <1>0, <1>1, LiquidationStarts
  <2>2. /\ job' = <<Sale(m, Other(o))>> /\ step' = "post" /\ order' = NoOrder
        /\ feed' = feed /\ late' = late /\ started' = started + 1
    BY <2>1, Zenon DEF Start, chain
  <2>3. /\ call'.market = m /\ call'.outcome = o /\ call'.other = held[m][Other(o)]
    BY <2>1
  <2>4. Asked' = Sale(m, Other(o))
    BY <2>3 DEF Asked, Sale
  <2>5. ~InFlight'
    BY <2>2 DEF InFlight, NoOrder
  <2>6. \A r \in Nat : r <= started => r # started + 1
    BY <1>0, RunNumbers
  <2>7. Untraded' /\ \A x \in late' : x.run # started'
    BY <1>0, <2>2, <2>6, RunNumbers DEF Runs, Untraded
  <2> HIDE DEF InFlight, Asked, Untraded
  <2> QED
    BY <2>2, <2>4, <2>5, <2>7 DEF Liquidating
<1>2. CASE StartBet \/ StartSell \/ StartSellAll
  <2>1. call' = NoCall
    BY <1>2 DEF StartBet, StartSell, StartSellAll
  <2>2. call'.kind # "liquidate"
    BY <2>1 DEF NoCall
  <2> QED
    BY <2>2, NoLiquidation
<1> QED
  BY <1>1, <1>2 DEF Starts

\* It sends its order, or fails to.
LEMMA PostLiquidates == AccountTypeOK /\ Liquidating /\ Post => Liquidating'
<1> SUFFICES ASSUME AccountTypeOK, Liquidating, Post, call.kind = "liquidate"
             PROVE  Liquidating'
  BY NoLiquidation DEF Post
<1>1. UNCHANGED <<call, feed, late, started>> /\ step = "post" /\ job' = Tail(job)
  BY DEF Post, reported
<1>2. job = <<Asked>> /\ Untraded
  BY <1>1 DEF Liquidating
<1>3. Head(job) = Asked /\ job' = <<>>
  BY <1>1, <1>2
<1>4. PICK answer \in {"refused", "no hash", "hash"} :
         /\ order' = Placed(Asked, IF answer = "refused" THEN "none" ELSE "flight")
         /\ step' = IF answer = "hash" THEN "verify" ELSE "raise"
  BY <1>3 DEF Post
<1>5. /\ order'.chain = IF answer = "refused" THEN "none" ELSE "flight"
      /\ order' = Placed(Asked, order'.chain)
  BY <1>4 DEF Placed
<1>6. order' \in Order
  <2>1. Asked.side = "SELL"
    BY DEF Asked
  <2>2. \A c : Placed(Asked, c).side = Asked.side
    BY DEF Placed
  <2> HIDE DEF Asked, Placed
  <2>3. order'.side = "SELL"
    BY <1>4, <2>1, <2>2
  <2>4. NoOrder.side = "none"
    BY DEF NoOrder
  <2>5. order' \in {NoOrder} \cup Order
    BY PostTyped DEF AccountTypeOK
  <2> QED
    BY <2>3, <2>4, <2>5
<1>7. step' \in {"verify", "raise"} /\ order'.chain # "mined"
  BY <1>4, <1>5
<1>8. /\ Asked' = Asked /\ Placed(Asked, order.chain)' = Placed(Asked, order'.chain)
      /\ Untraded'
  BY <1>1, <1>2 DEF Asked, Placed, Untraded
<1>9. \A y \in late' : y.run # started
  BY <1>1 DEF Liquidating
<1> HIDE DEF Asked, Placed, Untraded
<1> QED
  BY <1>1, <1>3, <1>5, <1>6, <1>7, <1>8, <1>9 DEF Liquidating

\* It returns only when its order is verified.
LEMMA VerifyLiquidates ==
  AccountTypeOK /\ Liquidating /\ (Verify \/ VerifyFails \/ NotFound) => Liquidating'
<1> SUFFICES ASSUME AccountTypeOK, Liquidating, Verify \/ VerifyFails \/ NotFound,
                    call.kind = "liquidate"
             PROVE  Liquidating'
  BY NoLiquidation DEF Verify, VerifyFails, NotFound
<1>1. UNCHANGED <<call, feed, late, started, job>> /\ step = "verify"
  BY DEF Verify, VerifyFails, NotFound, chain, reported
<1>2. CASE Verify
  <2>1. job = <<>> /\ Traded(started) = {Asked} /\ \A x \in late : x.run # started
    BY <1>1, <1>2 DEF Verify, Verified, Liquidating
  <2>2. step' = "idle" /\ ~InFlight'
    BY <1>1, <1>2, <2>1 DEF Verify, InFlight, NoOrder
  <2>3. Traded(started)' = Traded(started) /\ Asked' = Asked
    BY <1>1 DEF Traded, Asked
  <2> HIDE DEF InFlight, Traded, Asked
  <2> QED
    BY <1>1, <2>1, <2>2, <2>3 DEF Liquidating
<1>3. CASE VerifyFails \/ NotFound
  <2>1. step' \in {"verify", "raise"} /\ order' = order
    BY <1>3 DEF VerifyFails, NotFound
  <2>2. /\ Traded(started)' = Traded(started) /\ Asked' = Asked /\ Untraded' = Untraded
        /\ Placed(Asked, order.chain)' = Placed(Asked, order.chain)
    BY <1>1, <2>1 DEF Traded, Asked, Untraded, Placed
  <2> HIDE DEF InFlight, Traded, Asked, Untraded, Placed
  <2> QED
    BY <1>1, <2>1, <2>2 DEF Liquidating
<1> QED
  BY <1>2, <1>3

\* Hence every step keeps what a liquidation owes.
LEMMA LiquidationKept ==
  RunInv /\ Liquidating /\ [AccountNext]_accountVars => Liquidating'
<1> SUFFICES ASSUME RunInv, Liquidating, [AccountNext]_accountVars
             PROVE  Liquidating'
  OBVIOUS
<1>0. AccountTypeOK
  BY DEF RunInv, BuyInv
<1>1. CASE KillLate \/ World \/ UNCHANGED accountVars
  <2>1. UNCHANGED <<call, feed, order, job, step, started>> /\ late' \subseteq late
    BY <1>1 DEF KillLate, World, Dry, Resolve, NextDay, chain, reported, accountVars
  <2> QED
    BY <2>1, SameLiquidation
<1>2. CASE EnsureNative \/ Deposit \/ RedeemNext \/ RedeemRaises
  <2>1. step \in {"gas", "deposit", "redeem"} /\ call' = call
    BY <1>2 DEF EnsureNative, Deposit, RedeemNext, RedeemRaises
  <2>2. call.kind # "liquidate"
    BY <2>1 DEF Liquidating
  <2> QED
    BY <2>1, <2>2, NoLiquidation
<1>3. CASE Raise \/ StartRedeem
  <2>1. call' = NoCall
    BY <1>3 DEF Raise, StartRedeem
  <2>2. call'.kind # "liquidate"
    BY <2>1 DEF NoCall
  <2> QED
    BY <2>2, NoLiquidation
<1> QED
  BY <1>0, <1>1, <1>2, <1>3, MineLiquidates, KillLiquidates, StartLiquidates,
     PostLiquidates, VerifyLiquidates DEF AccountNext, Exchange, Call

-----------------------------------------------------------------------------
(* Profit *)

\* The types of what is summed.
LEMMA RateIsNat == \A paid, m, o : Rate(paid, m, o) \in Nat
BY DEF Rate, Unit

\* Before a market is resolved nothing is paid.
LEMMA NoRate ==
  ASSUME NEW paid, NEW m, paid[m] = <<>>
  PROVE  \A o : Rate(paid, m, o) = 0
BY Unsplit DEF Rate

\* The numbers of a trade, of a feed and of what is held.
LEMMA TradeNumbers ==
  ASSUME NEW t \in Trade
  PROVE  /\ t.size \in Nat /\ t.price \in Nat /\ Signed(t) \in Int
         /\ \A paid : Gain(paid, t) \in Int
<1>1. t.size \in Nat /\ t.price \in Nat
  BY DEF Trade, Unit
<1>2. Signed(t) \in Int
  BY <1>1 DEF Signed
<1>3. ASSUME NEW paid PROVE Gain(paid, t) \in Int
  <2>1. Rate(paid, t.market, t.outcome) \in Nat
    BY RateIsNat
  <2> HIDE DEF Rate, Signed
  <2> QED
    BY <1>1, <1>2, <2>1 DEF Gain
<1> QED
  BY <1>1, <1>2, <1>3

LEMMA FeedSums ==
  ASSUME NEW trades \in Seq(Trade)
  PROVE  /\ DOMAIN trades = 1..Len(trades) /\ Len(trades) \in Nat
         /\ IsFiniteSet(DOMAIN trades)
         /\ \A i \in DOMAIN trades : trades[i] \in Trade
         /\ \A m, o : Moves(trades, m, o) \in [DOMAIN trades -> Int]
         /\ \A paid : Gains(paid, trades) \in [DOMAIN trades -> Int]
<1>1. DOMAIN trades = 1..Len(trades) /\ Len(trades) \in Nat
  BY LenProperties
<1>2. IsFiniteSet(DOMAIN trades)
  BY <1>1, FS_Interval
<1>3. \A i \in DOMAIN trades : trades[i] \in Trade
  BY <1>1, ElementOfSeq
<1>4. \A m, o : Moves(trades, m, o) \in [DOMAIN trades -> Int]
  BY <1>3, TradeNumbers DEF Moves
<1>5. \A paid : Gains(paid, trades) \in [DOMAIN trades -> Int]
  BY <1>3, TradeNumbers DEF Gains
<1> QED
  BY <1>1, <1>2, <1>3, <1>4, <1>5

LEMMA WorthsTyped ==
  ASSUME NEW tokens \in Holdings, NEW paid
  PROVE  /\ Worths(paid, tokens) \in [Markets -> Int]
         /\ \A m \in Markets : /\ tokens[m]["Yes"] \in Nat /\ tokens[m]["No"] \in Nat
                               /\ Worth(paid, tokens, m) \in Int
                               /\ paid[m] = <<>> => Worth(paid, tokens, m) = 0
<1>1. \A m \in Markets : tokens[m]["Yes"] \in Nat /\ tokens[m]["No"] \in Nat
  <2>1. \A m \in Markets : tokens[m] \in [Range(Outcomes) -> Nat]
    BY DEF Holdings
  <2> QED
    BY <2>1, TwoOutcomes
<1>2. ASSUME NEW m \in Markets
      PROVE  /\ Worth(paid, tokens, m) \in Int
             /\ paid[m] = <<>> => Worth(paid, tokens, m) = 0
  <2>1. Rate(paid, m, "Yes") \in Nat /\ Rate(paid, m, "No") \in Nat
    BY RateIsNat
  <2>2. paid[m] = <<>> => Rate(paid, m, "Yes") = 0 /\ Rate(paid, m, "No") = 0
    BY NoRate
  <2> HIDE DEF Rate
  <2> QED
    BY <1>1, <2>1, <2>2 DEF Worth
<1>3. Worths(paid, tokens) \in [Markets -> Int]
  BY <1>2 DEF Worths
<1> QED
  BY <1>1, <1>2, <1>3

\* What prepending a trade does to a sum over the feed.
LEMMA MinedSums ==
  ASSUME NEW trades \in Seq(Trade), NEW more \in Seq(Trade),
         Len(more) = Len(trades) + 1,
         \A i \in 1..Len(trades) : more[i + 1] = trades[i]
  PROVE  /\ \A m, o : SumFunction(Moves(more, m, o)) =
                (IF more[1].market = m /\ more[1].outcome = o
                 THEN Signed(more[1]) ELSE 0) + SumFunction(Moves(trades, m, o))
         /\ \A paid : SumFunction(Gains(paid, more)) =
                Gain(paid, more[1]) + SumFunction(Gains(paid, trades))
<1> DEFINE n == Len(trades)
<1>1. /\ n \in Nat /\ DOMAIN trades = 1..n /\ DOMAIN more = 1..(n + 1)
      /\ 1 \in DOMAIN more
  BY FeedSums
<1> HIDE DEF n
<1>2. \A i \in 1..n : i + 1 \in DOMAIN more /\ i \in DOMAIN trades /\ more[i + 1] = trades[i]
  BY <1>1 DEF n
<1>3. ASSUME NEW m, NEW o
      PROVE  SumFunction(Moves(more, m, o)) =
                (IF more[1].market = m /\ more[1].outcome = o
                 THEN Signed(more[1]) ELSE 0) + SumFunction(Moves(trades, m, o))
  <2> DEFINE f == Moves(trades, m, o)
             h == Moves(more, m, o)
  <2>1. f \in [1..n -> Int] /\ h \in [1..(n + 1) -> Int]
    BY <1>1, FeedSums
  <2>2. \A i \in 1..n : h[i + 1] = f[i]
    BY <1>2 DEF Moves
  <2>3. h[1] = IF more[1].market = m /\ more[1].outcome = o THEN Signed(more[1]) ELSE 0
    BY <1>1 DEF Moves
  <2> HIDE DEF f, h
  <2>4. SumFunction(h) = h[1] + SumFunction(f)
    BY <1>1, <2>1, <2>2, SumPrepends
  <2> QED
    BY <2>3, <2>4 DEF f, h
<1>4. ASSUME NEW paid
      PROVE  SumFunction(Gains(paid, more)) =
                Gain(paid, more[1]) + SumFunction(Gains(paid, trades))
  <2> DEFINE f == Gains(paid, trades)
             h == Gains(paid, more)
  <2>1. f \in [1..n -> Int] /\ h \in [1..(n + 1) -> Int]
    BY <1>1, FeedSums
  <2>2. \A i \in 1..n : h[i + 1] = f[i]
    BY <1>2 DEF Gains
  <2>3. h[1] = Gain(paid, more[1])
    BY <1>1 DEF Gains
  <2> HIDE DEF f, h
  <2>4. SumFunction(h) = h[1] + SumFunction(f)
    BY <1>1, <2>1, <2>2, SumPrepends
  <2> QED
    BY <2>3, <2>4 DEF f, h
<1> QED
  BY <1>3, <1>4

\* Before anything happens.
LEMMA InitialIsInt ==
  LET C == [i \in DOMAIN Earlier |-> Earlier[i].size * Earlier[i].price]
  IN  /\ C \in [DOMAIN Earlier -> Int] /\ SumFunction(C) \in Int
      /\ Initial = Capital + SumFunction(C) /\ Initial \in Int
<1> DEFINE C == [i \in DOMAIN Earlier |-> Earlier[i].size * Earlier[i].price]
<1>1. \A i \in DOMAIN Earlier : Earlier[i].size \in Nat /\ Earlier[i].price \in Nat
  BY Numbers, FeedSums, TradeNumbers
<1>2. C \in [DOMAIN Earlier -> Int]
  BY <1>1
<1>3. IsFiniteSet(DOMAIN Earlier)
  BY Numbers, FeedSums
<1>4. Initial = Capital + SumFunction(C)
  BY DEF Initial
<1> HIDE DEF C
<1>5. SumFunction(C) \in Int
  BY <1>2, <1>3, SumIsInt
<1>6. Initial \in Int
  BY <1>4, <1>5, Numbers
<1> QED
  BY <1>2, <1>4, <1>5, <1>6 DEF C

\* The account begins balanced: what is held was bought before.
LEMMA InitBalanced == AccountInit => HeldIsTraded /\ Balanced
<1> SUFFICES ASSUME AccountInit PROVE HeldIsTraded /\ Balanced
  OBVIOUS
<1>1. /\ feed = Earlier /\ payout = [m \in Markets |-> <<>>] /\ wallet \in Wallets
      /\ held = [m \in Markets |-> [o \in Range(Outcomes) |->
                  SumFunction([i \in DOMAIN Earlier |->
                      IF Earlier[i].market = m /\ Earlier[i].outcome = o
                      THEN Earlier[i].size ELSE 0])]]
  BY DEF AccountInit
<1>2. \A i \in DOMAIN Earlier : Earlier[i] \in Trade /\ Earlier[i].side = "BUY"
  BY Numbers, FeedSums, PolymarketAssumption
<1>3. \A i \in DOMAIN Earlier : Signed(Earlier[i]) = Earlier[i].size
  BY <1>2 DEF Signed
<1>4. HeldIsTraded
  <2>1. ASSUME NEW m \in Markets, NEW o \in Range(Outcomes)
        PROVE  held[m][o] = SumFunction(Moves(feed, m, o))
    <3>1. Moves(feed, m, o) = [i \in DOMAIN Earlier |->
                      IF Earlier[i].market = m /\ Earlier[i].outcome = o
                      THEN Earlier[i].size ELSE 0]
      BY <1>1, <1>3 DEF Moves
    <3> QED
      BY <1>1, <3>1
  <2> QED
    BY <2>1 DEF HeldIsTraded
<1>5. Balanced
  <2> DEFINE C == [i \in DOMAIN Earlier |-> Earlier[i].size * Earlier[i].price]
             G == Gains(payout, feed)
             W == Worths(payout, held)
             Z == [i \in DOMAIN Earlier |-> 0]
  <2>1. SumFunction(W) = 0
    <3>1. held \in Holdings
      BY AccountInitTyped DEF AccountTypeOK
    <3>2. W \in [Markets -> Int] /\ \A m \in Markets : W[m] = 0
      BY <1>1, <3>1, WorthsTyped DEF Worths
    <3> HIDE DEF W
    <3> QED
      BY <3>2, SumZero, PolymarketAssumption
  <2>2. G \in [DOMAIN Earlier -> Int] /\ IsFiniteSet(DOMAIN Earlier)
    BY <1>1, Numbers, FeedSums
  <2>3. \A i \in DOMAIN Earlier : Z[i] = C[i] + 1 * G[i]
    <3>1. ASSUME NEW i \in DOMAIN Earlier PROVE G[i] = -C[i] /\ C[i] \in Int
      <4>1. Earlier[i].market \in Markets /\ Earlier[i].size \in Nat /\ Earlier[i].price \in Nat
        BY <1>2, TradeNumbers DEF Trade
      <4>2. Rate(payout, Earlier[i].market, Earlier[i].outcome) = 0
        BY <1>1, <4>1, NoRate
      <4>3. G[i] = Earlier[i].size * (0 - Earlier[i].price)
        BY <1>1, <1>3, <4>2 DEF Gains, Gain
      <4>4. C[i] = Earlier[i].size * Earlier[i].price
        OBVIOUS
      <4> QED
        BY <4>1, <4>3, <4>4
    <3>2. \A i \in DOMAIN Earlier : Z[i] = 0
      OBVIOUS
    <3> HIDE DEF Z, C, G
    <3> QED
      BY <3>1, <3>2
  <2>4. /\ C \in [DOMAIN Earlier -> Int] /\ SumFunction(C) \in Int
        /\ Initial = Capital + SumFunction(C)
    BY InitialIsInt
  <2>5. Z \in [DOMAIN Earlier -> Int] /\ \A i \in DOMAIN Earlier : Z[i] = 0
    OBVIOUS
  <2>6. Wealth = Capital
    BY <1>1, PolymarketAssumption DEF Wealth
  <2> HIDE DEF C, G, W, Z
  <2>7. SumFunction(Z) = SumFunction(C) + 1 * SumFunction(G)
    <3> DEFINE S == DOMAIN Earlier
    <3>1. /\ IsFiniteSet(S) /\ C \in [S -> Int] /\ G \in [S -> Int] /\ Z \in [S -> Int]
          /\ 1 \in Int /\ \A i \in S : Z[i] = C[i] + 1 * G[i]
      BY <2>2, <2>3, <2>4, <2>5
    <3> HIDE DEF S
    <3> QED
      BY <3>1, SumLinear
  <2>8. SumFunction(Z) = 0 /\ SumFunction(G) \in Int
    BY <2>2, <2>5, SumZero, SumIsInt
  <2>9. Wealth + SumFunction(W) = Initial + SumFunction(G)
    BY <2>1, <2>4, <2>6, <2>7, <2>8, Numbers
  <2> QED
    BY <2>9 DEF Balanced, G, W
<1> QED
  BY <1>4, <1>5

-----------------------------------------------------------------------------
\* Steps that touch neither what is held nor what was traded.
LEMMA SameBalance ==
  ASSUME HeldIsTraded, Balanced, UNCHANGED <<held, payout, feed>>, Wealth' = Wealth
  PROVE  HeldIsTraded' /\ Balanced'
<1>1. HeldIsTraded'
  BY DEF HeldIsTraded
<1>2. Balanced'
  <2> HIDE DEF Wealth
  <2> QED
    BY DEF Balanced
<1> QED
  BY <1>1, <1>2

\* All sums are integers.
LEMMA SumsTyped ==
  ASSUME AccountTypeOK
  PROVE  /\ wallet \in Wallet /\ Wealth \in Int /\ Initial \in Int
         /\ \A m, o : SumFunction(Moves(feed, m, o)) \in Int
         /\ SumFunction(Gains(payout, feed)) \in Int
         /\ SumFunction(Worths(payout, held)) \in Int
<1>1. wallet \in Wallet /\ Wealth \in Int
  BY DEF AccountTypeOK, Wealth, Wallet
<1>2. Initial \in Int
  BY InitialIsInt
<1>3. feed \in Seq(Trade) /\ held \in Holdings
  BY DEF AccountTypeOK
<1>4. \A m, o : SumFunction(Moves(feed, m, o)) \in Int
  BY <1>3, FeedSums, SumIsInt
<1>5. SumFunction(Gains(payout, feed)) \in Int
  BY <1>3, FeedSums, SumIsInt
<1>6. SumFunction(Worths(payout, held)) \in Int
  BY <1>3, WorthsTyped, SumIsInt, PolymarketAssumption
<1> QED
  BY <1>1, <1>2, <1>4, <1>5, <1>6

\* A trade: what it costs now is what it gains less, or it is paid at once.
LEMMA MineBalances ==
  AccountTypeOK /\ HeldIsTraded /\ Balanced /\ (Mine \/ MineLate) => HeldIsTraded' /\ Balanced'
<1> SUFFICES ASSUME AccountTypeOK, HeldIsTraded, Balanced, Mine \/ MineLate
             PROVE  HeldIsTraded' /\ Balanced'
  OBVIOUS
<1>0. PICK x \in Order : Fill(x)
  BY Mines
<1>1. PICK t \in Trade :
        /\ t.market = x.market /\ t.outcome = x.outcome
        /\ Len(feed') = Len(feed) + 1 /\ feed' \in Seq(Trade)
        /\ feed'[1] = t /\ \A i \in 1..Len(feed) : feed'[i + 1] = feed[i]
        /\ wallet' = [wallet EXCEPT !.usdc = @ - Signed(t) * t.price]
        /\ held' = [held EXCEPT ![t.market][t.outcome] = @ + Signed(t)]
  BY <1>0, Filled
<1>2. payout[t.market] = <<>> /\ payout' = payout
  BY <1>0, <1>1, Filled, Mines
<1>3. /\ feed \in Seq(Trade) /\ held \in Holdings /\ held' \in Holdings
      /\ t.market \in Markets /\ t.outcome \in Range(Outcomes)
  BY MineTyped DEF AccountTypeOK, Trade
<1>4. Signed(t) \in Int /\ t.price \in Nat /\ t.price \in Int
  BY TradeNumbers
<1>5. /\ \A m, o : SumFunction(Moves(feed', m, o)) =
                (IF t.market = m /\ t.outcome = o THEN Signed(t) ELSE 0)
                    + SumFunction(Moves(feed, m, o))
      /\ \A paid : SumFunction(Gains(paid, feed')) =
                Gain(paid, t) + SumFunction(Gains(paid, feed))
  <2>1. feed' \in Seq(Trade) /\ Len(feed') = Len(feed) + 1
    BY <1>1
  <2>2. \A i \in 1..Len(feed) : feed'[i + 1] = feed[i]
    BY <1>1
  <2>3. /\ \A m, o : SumFunction(Moves(feed', m, o)) =
                  (IF feed'[1].market = m /\ feed'[1].outcome = o
                   THEN Signed(feed'[1]) ELSE 0) + SumFunction(Moves(feed, m, o))
        /\ \A paid : SumFunction(Gains(paid, feed')) =
                  Gain(paid, feed'[1]) + SumFunction(Gains(paid, feed))
    BY <1>3, <2>1, <2>2, MinedSums, Zenon
  <2>4. feed'[1] = t
    BY <1>1
  <2> HIDE DEF Moves, Signed, Gains, Gain
  <2> QED
    BY <2>3, <2>4, Zenon
<1>6. HeldIsTraded'
  <2>1. ASSUME NEW m \in Markets, NEW o \in Range(Outcomes)
        PROVE  \/ held'[m][o] = SumFunction(Moves(feed', m, o))
               \/ payout'[m] # <<>> /\ held'[m][o] = 0
    <3>1. /\ SumFunction(Moves(feed, m, o)) \in Int
          /\ \/ held[m][o] = SumFunction(Moves(feed, m, o))
             \/ payout[m] # <<>> /\ held[m][o] = 0
      BY SumsTyped DEF HeldIsTraded
    <3>2. CASE m = t.market /\ o = t.outcome
      <4>1. held'[m][o] = held[m][o] + Signed(t)
        BY <1>1, <1>3, <3>2 DEF Holdings
      <4> HIDE DEF Moves, Signed
      <4> QED
        BY <1>2, <1>4, <1>5, <3>1, <3>2, <4>1
    <3>3. CASE ~(m = t.market /\ o = t.outcome)
      <4>1. held'[m][o] = held[m][o]
        BY <1>1, <1>3, <3>3 DEF Holdings
      <4>2. SumFunction(Moves(feed', m, o)) = 0 + SumFunction(Moves(feed, m, o))
        BY <1>5, <3>3
      <4> HIDE DEF Moves
      <4> QED
        BY <1>2, <3>1, <4>1, <4>2
    <3> QED
      BY <3>2, <3>3
  <2> QED
    BY <2>1 DEF HeldIsTraded
<1>7. Worths(payout, held') = Worths(payout, held)
  <2>1. ASSUME NEW m \in Markets PROVE Worth(payout, held', m) = Worth(payout, held, m)
    <3>1. CASE m = t.market
      BY <1>2, <1>3, <3>1, WorthsTyped
    <3>2. CASE m # t.market
      <4>1. held'[m] = held[m]
        BY <1>1, <1>3, <3>2 DEF Holdings
      <4> QED
        BY <4>1 DEF Worth
    <3> QED
      BY <3>1, <3>2
  <2> QED
    BY <2>1 DEF Worths
<1>8. Gain(payout, t) = Signed(t) * (0 - t.price)
  BY <1>2, NoRate DEF Gain
<1>9. Wealth' = Wealth - Signed(t) * t.price
  <2> HIDE DEF Signed
  <2>1. Signed(t) * t.price \in Int
    BY <1>4
  <2>2. wallet \in [usdc : Nat, wpol : Nat, pol : Nat]
    BY DEF AccountTypeOK, Wallet
  <2>3. wallet'.usdc = wallet.usdc - Signed(t) * t.price
        /\ wallet'.wpol = wallet.wpol /\ wallet'.pol = wallet.pol
    BY <1>1, <2>2
  <2> QED
    BY <2>1, <2>2, <2>3 DEF Wealth
<1>10. Signed(t) * (0 - t.price) = 0 - Signed(t) * t.price /\ Signed(t) * t.price \in Int
  <2> HIDE DEF Signed
  <2> QED
    BY <1>4
<1>11. Balanced'
  <2> DEFINE w == SumFunction(Worths(payout, held))
             g == SumFunction(Gains(payout, feed))
             c == Signed(t) * t.price
  <2>1. SumFunction(Gains(payout', feed')) = (0 - c) + g
    BY <1>2, <1>5, <1>8, <1>10
  <2>2. SumFunction(Worths(payout', held')) = w
    BY <1>2, <1>7
  <2>3. Wealth + w = Initial + g
    BY DEF Balanced
  <2>4. Wealth \in Int /\ w \in Int /\ g \in Int /\ Initial \in Int
    BY SumsTyped
  <2>5. Wealth' = Wealth - c /\ c \in Int
    BY <1>9, <1>10
  <2> HIDE DEF w, g, c, Wealth, Initial
  <2>6. Wealth' + w = Initial + ((0 - c) + g)
    BY <2>3, <2>4, <2>5
  <2> QED
    BY <2>1, <2>2, <2>6 DEF Balanced
<1> QED
  BY <1>6, <1>11

-----------------------------------------------------------------------------
\* Distributivity, for products of two unknowns.
LEMMA Spread == \A a, b, c \in Int : a * (b - c) = a * b - a * c
OBVIOUS

\* What a resolution makes of one trade.
LEMMA GainResolved ==
  ASSUME NEW t \in Trade, NEW m \in Markets, payout \in [Markets -> Payouts],
         payout[m] = <<>>, NEW n \in Payouts, payout' = [payout EXCEPT ![m] = n]
  PROVE  Gain(payout', t) =
            (Gain(payout, t)
                + Rate(payout', m, "Yes")
                    * (IF t.market = m /\ t.outcome = "Yes" THEN Signed(t) ELSE 0))
                + Rate(payout', m, "No")
                    * (IF t.market = m /\ t.outcome = "No" THEN Signed(t) ELSE 0)
<1>1. /\ Signed(t) \in Int /\ t.price \in Int /\ Gain(payout, t) \in Int
      /\ t.market \in Markets /\ t.outcome \in {"Yes", "No"}
  BY TradeNumbers, TwoOutcomes DEF Trade
<1>2. Rate(payout', m, "Yes") \in Int /\ Rate(payout', m, "No") \in Int
  BY RateIsNat
<1>3. CASE t.market # m
  <2>1. payout'[t.market] = payout[t.market]
    BY <1>1, <1>3
  <2>2. Gain(payout', t) = Gain(payout, t)
    BY <2>1 DEF Gain, Rate
  <2> HIDE DEF Gain, Rate, Signed
  <2> QED
    BY <1>1, <1>2, <1>3, <2>2
<1>4. CASE t.market = m
  <2>1. Gain(payout, t) = Signed(t) * (0 - t.price)
    BY <1>4, NoRate DEF Gain
  <2>2. Gain(payout', t) = Signed(t) * (Rate(payout', m, t.outcome) - t.price)
    BY <1>4 DEF Gain
  <2>3. Rate(payout', m, t.outcome) \in Int
    BY <1>1, <1>2
  <2> HIDE DEF Gain, Rate, Signed
  <2>4. Gain(payout', t) = Signed(t) * Rate(payout', m, t.outcome) - Signed(t) * t.price
    BY <1>1, <2>2, <2>3, Spread
  <2>5. Gain(payout, t) = Signed(t) * 0 - Signed(t) * t.price
    BY <1>1, <2>1, Spread
  <2>6. Signed(t) * Rate(payout', m, t.outcome) \in Int /\ Signed(t) * t.price \in Int
        /\ Signed(t) * Rate(payout', m, t.outcome) = Rate(payout', m, t.outcome) * Signed(t)
        /\ Signed(t) * 0 = 0
    BY <1>1, <2>3
  <2>7. CASE t.outcome = "Yes"
    <3>1. Rate(payout', m, "No") * 0 = 0
      BY <1>2
    <3> QED
      BY <1>1, <1>4, <2>4, <2>5, <2>6, <2>7, <3>1
  <2>8. CASE t.outcome = "No"
    <3>1. Rate(payout', m, "Yes") * 0 = 0
      BY <1>2
    <3> QED
      BY <1>1, <1>4, <2>4, <2>5, <2>6, <2>8, <3>1
  <2> QED
    BY <1>1, <2>7, <2>8
<1> QED
  BY <1>3, <1>4

\* A resolution: what the tokens held become worth is what trades gain.
LEMMA ResolveBalances ==
  AccountTypeOK /\ HeldIsTraded /\ Balanced /\ Resolve => HeldIsTraded' /\ Balanced'
<1> SUFFICES ASSUME AccountTypeOK, HeldIsTraded, Balanced, Resolve
             PROVE  HeldIsTraded' /\ Balanced'
  OBVIOUS
<1>1. PICK m \in Markets, n \in {<<1, 0>>, <<0, 1>>, <<1, 1>>} :
        payout[m] = <<>> /\ payout' = [payout EXCEPT ![m] = n]
  BY PolymarketAssumption DEF Resolve
<1>2. /\ feed \in Seq(Trade) /\ held \in Holdings /\ payout \in [Markets -> Payouts]
      /\ n \in Payouts /\ n # <<>>
  BY Unsplit DEF AccountTypeOK, Payouts
<1>3. wallet' = wallet /\ held' = held /\ feed' = feed
  BY DEF Resolve, chain
<1>4. Wealth' = Wealth
  BY <1>3 DEF Wealth
<1>5. payout'[m] = n /\ \A x \in Markets \ {m} : payout'[x] = payout[x]
  BY <1>1, <1>2
<1>6. HeldIsTraded'
  <2>1. ASSUME NEW x \in Markets, NEW o \in Range(Outcomes)
        PROVE  \/ held[x][o] = SumFunction(Moves(feed, x, o))
               \/ payout'[x] # <<>> /\ held[x][o] = 0
    BY <1>1, <1>2, <1>5 DEF HeldIsTraded
  <2> QED
    BY <1>3, <2>1 DEF HeldIsTraded
<1> DEFINE y == Rate(payout', m, "Yes")
           z == Rate(payout', m, "No")
           MY == Moves(feed, m, "Yes")
           MN == Moves(feed, m, "No")
           G == Gains(payout, feed)
           H == Gains(payout', feed)
           I == [i \in DOMAIN feed |-> G[i] + y * MY[i]]
           V == Worths(payout, held)
           W == Worths(payout', held)
<1>7. y \in Nat /\ z \in Nat /\ y \in Int /\ z \in Int
  BY RateIsNat
<1>8. SumFunction(MY) = held[m]["Yes"] /\ SumFunction(MN) = held[m]["No"]
  BY <1>1, TwoOutcomes DEF HeldIsTraded
<1>9. SumFunction(W) = SumFunction(V) + (held[m]["Yes"] * y + held[m]["No"] * z)
  <2>1. V \in [Markets -> Int] /\ W \in [Markets -> Int] /\ V[m] = 0
    BY <1>1, <1>2, WorthsTyped DEF Worths
  <2>2. \A x \in Markets \ {m} : W[x] = V[x]
    BY <1>5 DEF Worths, Worth, Rate
  <2>3. W[m] = held[m]["Yes"] * y + held[m]["No"] * z
    BY DEF Worths, Worth
  <2> HIDE DEF V, W, y, z
  <2>0. IsFiniteSet(Markets)
    BY PolymarketAssumption
  <2>4. SumFunction(W) = SumFunction(V) - V[m] + W[m]
    BY <2>0, <2>1, <2>2, SumChanges
  <2>5. SumFunction(V) \in Int /\ W[m] \in Int
    BY <2>1, SumIsInt, PolymarketAssumption
  <2> QED
    BY <2>1, <2>3, <2>4, <2>5
<1>10. SumFunction(H) = (SumFunction(G) + y * SumFunction(MY)) + z * SumFunction(MN)
  <2> DEFINE S == DOMAIN feed
  <2>1. /\ IsFiniteSet(S) /\ MY \in [S -> Int] /\ MN \in [S -> Int] /\ G \in [S -> Int]
        /\ H \in [S -> Int]
    BY <1>2, FeedSums
  <2>2. I \in [S -> Int] /\ \A i \in S : I[i] = G[i] + y * MY[i]
    <3> HIDE DEF MY, G, y
    <3> QED
      BY <1>7, <2>1
  <2>3. ASSUME NEW i \in S PROVE H[i] = I[i] + z * MN[i]
    <3>1. feed[i] \in Trade
      BY <1>2, FeedSums
    <3>2. H[i] = Gain(payout', feed[i]) /\ G[i] = Gain(payout, feed[i])
      BY DEF Gains
    <3>3. /\ MY[i] = IF feed[i].market = m /\ feed[i].outcome = "Yes"
                     THEN Signed(feed[i]) ELSE 0
          /\ MN[i] = IF feed[i].market = m /\ feed[i].outcome = "No"
                     THEN Signed(feed[i]) ELSE 0
      BY DEF Moves
    <3>4. Gain(payout', feed[i]) =
            (Gain(payout, feed[i])
                + y * (IF feed[i].market = m /\ feed[i].outcome = "Yes"
                       THEN Signed(feed[i]) ELSE 0))
                + z * (IF feed[i].market = m /\ feed[i].outcome = "No"
                       THEN Signed(feed[i]) ELSE 0)
      BY <1>1, <1>2, <3>1, GainResolved
    <3>5. I[i] = G[i] + y * MY[i]
      OBVIOUS
    <3> HIDE DEF MY, MN, G, H, I, y, z, S
    <3> QED
      BY <3>2, <3>3, <3>4, <3>5
  <2> HIDE DEF MY, MN, G, H, I, y, z, S
  <2>4. SumFunction(I) = SumFunction(G) + y * SumFunction(MY)
    BY <1>7, <2>1, <2>2, SumLinear
  <2>5. SumFunction(H) = SumFunction(I) + z * SumFunction(MN)
    BY <1>7, <2>1, <2>2, <2>3, SumLinear
  <2> QED
    BY <2>4, <2>5
<1>11. Balanced'
  <2>1. /\ Wealth \in Int /\ Initial \in Int /\ SumFunction(G) \in Int
        /\ SumFunction(V) \in Int /\ Wealth + SumFunction(V) = Initial + SumFunction(G)
    BY SumsTyped DEF Balanced
  <2>2. held[m]["Yes"] \in Nat /\ held[m]["No"] \in Nat
    BY <1>2, WorthsTyped
  <2> HIDE DEF MY, MN, G, H, I, y, z, V, W, Wealth, Initial
  <2>3. /\ held[m]["Yes"] * y = y * held[m]["Yes"] /\ held[m]["Yes"] * y \in Int
        /\ held[m]["No"] * z = z * held[m]["No"] /\ held[m]["No"] * z \in Int
    BY <1>7, <2>2
  <2>4. Wealth + SumFunction(W) = Initial + SumFunction(H)
    BY <1>8, <1>9, <1>10, <2>1, <2>3
  <2> QED
    BY <1>3, <1>4, <2>4 DEF Balanced, W, H
<1> QED
  BY <1>6, <1>11

\* A redemption pays what the tokens are worth, and takes them.
LEMMA RedeemBalances ==
  AccountTypeOK /\ HeldIsTraded /\ Balanced /\ RedeemNext => HeldIsTraded' /\ Balanced'
<1> SUFFICES ASSUME AccountTypeOK, HeldIsTraded, Balanced, RedeemNext
             PROVE  HeldIsTraded' /\ Balanced'
  OBVIOUS
<1> DEFINE h == Head(job)
           V == Worths(payout, held)
           W == Worths(payout, held')
<1>1. /\ held \in Holdings /\ held' \in Holdings /\ wallet \in Wallet
      /\ h \in Markets /\ payout[h] # <<>>
  <2>1. step = "redeem" /\ job # <<>> /\ job \in Seq({m \in Markets : payout[m] # <<>>})
    BY DEF RedeemNext, AccountTypeOK, JobOK
  <2>2. h \in {m \in Markets : payout[m] # <<>>}
    BY <2>1, HeadTailProperties
  <2> QED
    BY <2>2, RedeemTyped DEF AccountTypeOK
<1>2. /\ wallet' = [wallet EXCEPT !.usdc = @ + Payout(h)]
      /\ held' = [held EXCEPT ![h] = [o \in Range(Outcomes) |-> 0]]
      /\ payout' = payout /\ feed' = feed
  BY DEF RedeemNext, world
<1>3. Payout(h) \in Nat /\ Payout(h) = Worth(payout, held, h)
  BY <1>1, PayoutIsWorth
<1> HIDE DEF h
<1>4. \A o \in Range(Outcomes) : held'[h][o] = 0
  BY <1>1, <1>2 DEF Holdings
<1>5. \A m \in Markets \ {h} : held'[m] = held[m]
  BY <1>1, <1>2 DEF Holdings
<1>6. HeldIsTraded'
  <2>1. ASSUME NEW m \in Markets, NEW o \in Range(Outcomes)
        PROVE  \/ held'[m][o] = SumFunction(Moves(feed, m, o))
               \/ payout[m] # <<>> /\ held'[m][o] = 0
    BY <1>1, <1>4, <1>5 DEF HeldIsTraded
  <2> QED
    BY <1>2, <2>1 DEF HeldIsTraded
<1>7. Wealth' = Wealth + Payout(h)
  <2> HIDE DEF Payout
  <2>1. /\ wallet'.usdc = wallet.usdc + Payout(h)
        /\ wallet'.wpol = wallet.wpol /\ wallet'.pol = wallet.pol
    BY <1>1, <1>2 DEF Wallet
  <2>2. wallet.usdc \in Nat /\ wallet.wpol \in Nat /\ wallet.pol \in Nat
    BY <1>1 DEF Wallet
  <2> QED
    BY <1>3, <2>1, <2>2 DEF Wealth
<1>8. SumFunction(W) = SumFunction(V) - Payout(h)
  <2>1. V \in [Markets -> Int] /\ W \in [Markets -> Int]
    BY <1>1, WorthsTyped
  <2>2. \A x \in Markets \ {h} : W[x] = V[x]
    BY <1>5 DEF Worths, Worth
  <2>3. W[h] = 0
    <3>1. Rate(payout, h, "Yes") \in Nat /\ Rate(payout, h, "No") \in Nat
      BY RateIsNat
    <3>2. held'[h]["Yes"] = 0 /\ held'[h]["No"] = 0
      BY <1>4, TwoOutcomes
    <3>3. W[h] = held'[h]["Yes"] * Rate(payout, h, "Yes")
                    + held'[h]["No"] * Rate(payout, h, "No")
      BY <1>1 DEF Worths, Worth
    <3> HIDE DEF Rate, W
    <3> QED
      BY <3>1, <3>2, <3>3
  <2>4. V[h] = Payout(h)
    BY <1>1, <1>3 DEF Worths
  <2> HIDE DEF V, W, Payout
  <2>0. IsFiniteSet(Markets) /\ h \in Markets
    BY <1>1, PolymarketAssumption
  <2>5. SumFunction(W) = SumFunction(V) - V[h] + W[h]
    BY <2>0, <2>1, <2>2, SumChanges
  <2>6. SumFunction(V) \in Int
    BY <2>1, SumIsInt, PolymarketAssumption
  <2> QED
    BY <1>3, <2>3, <2>4, <2>5, <2>6
<1>9. Balanced'
  <2>1. /\ Wealth \in Int /\ Initial \in Int /\ SumFunction(Gains(payout, feed)) \in Int
        /\ SumFunction(V) \in Int
        /\ Wealth + SumFunction(V) = Initial + SumFunction(Gains(payout, feed))
    BY SumsTyped DEF Balanced
  <2> HIDE DEF Wealth, Initial, Payout, V, W
  <2>2. Wealth' + SumFunction(W) = Initial + SumFunction(Gains(payout, feed))
    BY <1>3, <1>7, <1>8, <2>1
  <2> QED
    BY <1>2, <2>2 DEF Balanced, W
<1> QED
  BY <1>6, <1>9

\* Unwrapping and swapping keep the total.
LEMMA FundsBalance ==
  AccountTypeOK /\ HeldIsTraded /\ Balanced /\ (EnsureNative \/ Deposit)
    => HeldIsTraded' /\ Balanced'
<1> SUFFICES ASSUME AccountTypeOK, HeldIsTraded, Balanced, EnsureNative \/ Deposit
             PROVE  HeldIsTraded' /\ Balanced'
  OBVIOUS
<1>1. UNCHANGED <<held, payout, feed>>
  BY DEF EnsureNative, Deposit, world
<1>2. wallet \in Wallet /\ MinPol \in Nat
  BY Numbers DEF AccountTypeOK
<1>3. CASE EnsureNative
  <2>1. wallet' = wallet => Wealth' = Wealth
    BY DEF Wealth
  <2>2. ASSUME wallet' = [wallet EXCEPT !.pol = @ + 3 * (MinPol - wallet.pol),
                                        !.wpol = @ - 3 * (MinPol - wallet.pol)]
        PROVE  Wealth' = Wealth
    BY <1>2, <2>2 DEF Wealth, Wallet
  <2>3. Wealth' = Wealth
    BY <1>3, <2>1, <2>2 DEF EnsureNative
  <2> QED
    BY <1>1, <2>3, SameBalance
<1>4. CASE Deposit
  <2>1. wallet' = wallet => Wealth' = Wealth
    BY DEF Wealth
  <2>2. ASSUME Missing > 0 /\ wallet' # wallet PROVE Wealth' = Wealth
    <3>1. Missing \in Int
      <4>1. job # <<>> /\ job \in Seq(Ask)
        BY <1>4 DEF AccountTypeOK, JobOK, Deposit
      <4>2. Head(job) \in Ask
        BY <4>1, HeadTailProperties
      <4> QED
        BY <1>2, <4>2 DEF Missing, Ask, Wallet
    <3>2. wallet' = [usdc |-> wallet.usdc + Missing,
                     wpol |-> IF wallet.wpol - Missing > 0 THEN wallet.wpol - Missing ELSE 0,
                     pol |-> wallet.pol
                        + IF wallet.wpol - Missing < 0 THEN wallet.wpol - Missing ELSE 0]
      BY <1>4, <2>2 DEF Deposit
    <3> HIDE DEF Missing
    <3> QED
      BY <1>2, <3>1, <3>2 DEF Wealth, Wallet
  <2>3. Wealth' = Wealth
    BY <1>4, <2>1, <2>2 DEF Deposit
  <2> QED
    BY <1>1, <2>3, SameBalance
<1> QED
  BY <1>3, <1>4

\* Hence every step keeps the account balanced.
LEMMA BalanceKept ==
  AccountTypeOK /\ HeldIsTraded /\ Balanced /\ [AccountNext]_accountVars
    => HeldIsTraded' /\ Balanced'
<1> SUFFICES ASSUME AccountTypeOK, HeldIsTraded, Balanced, [AccountNext]_accountVars
             PROVE  HeldIsTraded' /\ Balanced'
  OBVIOUS
<1>1. CASE Mine \/ MineLate
  BY <1>1, MineBalances
<1>2. CASE Resolve
  BY <1>2, ResolveBalances
<1>3. CASE RedeemNext
  BY <1>3, RedeemBalances
<1>4. CASE EnsureNative \/ Deposit
  BY <1>4, FundsBalance
<1>5. CASE UNCHANGED <<wallet, held, payout, feed>>
  <2>1. Wealth' = Wealth
    BY <1>5 DEF Wealth
  <2> QED
    BY <1>5, <2>1, SameBalance
<1>6. CASE Kill \/ KillLate \/ Dry \/ NextDay
  BY <1>5, <1>6 DEF Kill, KillLate, Dry, NextDay, chain, world
<1>7. CASE Starts
  BY <1>5, <1>7 DEF Starts, StartBet, StartSell, StartLiquidation, StartSellAll,
                    Start, chain, world
<1>8. CASE Post \/ Verify \/ VerifyFails \/ NotFound
  BY <1>5, <1>8 DEF Post, Verify, VerifyFails, NotFound, chain, world
<1>9. CASE Raise \/ StartRedeem \/ RedeemRaises
  BY <1>5, <1>9 DEF Raise, StartRedeem, RedeemRaises, chain, world
<1>10. CASE UNCHANGED accountVars
  BY <1>5, <1>10 DEF accountVars, chain, world
<1> QED
  BY <1>1, <1>2, <1>3, <1>4, <1>6, <1>7, <1>8, <1>9, <1>10
  DEF AccountNext, Exchange, World, Call

-----------------------------------------------------------------------------
AccountInv ==
    /\ AccountTypeOK /\ NewestFirst /\ BuysAreFresh /\ Runs /\ Liquidating
    /\ HeldIsTraded /\ Balanced

\* The inductive invariant holds at first.
LEMMA InvInit == AccountInit => AccountInv
<1> SUFFICES ASSUME AccountInit PROVE AccountInv
  OBVIOUS
<1>1. call = NoCall
  BY DEF AccountInit
<1>2. Liquidating
  BY <1>1 DEF Liquidating, NoCall
<1>3. Runs
  <2>1. feed = Earlier /\ late = {} /\ order = NoOrder /\ started = 0
    BY DEF AccountInit
  <2>2. \A t \in Range(Earlier) : t.run = 0
    BY PolymarketAssumption DEF Range
  <2> QED
    BY <2>1, <2>2 DEF Runs
<1> QED
  BY <1>2, <1>3, AccountInitTyped, InitBuys, InitBalanced DEF AccountInv

\* And every step keeps it.
LEMMA InvKept ==
  AccountInv /\ [AccountNext]_accountVars => AccountInv' /\ (OneBuyPerDay => OneBuyPerDay')
<1> SUFFICES ASSUME AccountInv, [AccountNext]_accountVars
             PROVE  AccountInv' /\ (OneBuyPerDay => OneBuyPerDay')
  OBVIOUS
<1>1. AccountTypeOK'
  BY AccountTyped DEF AccountInv
<1>2. NewestFirst' /\ BuysAreFresh' /\ (OneBuyPerDay => OneBuyPerDay')
  BY BuysKept DEF AccountInv, BuyInv
<1>3. Liquidating'
  BY LiquidationKept DEF AccountInv, RunInv, BuyInv
<1>5. Runs'
  BY RunsKept DEF AccountInv, RunInv, BuyInv
<1>4. HeldIsTraded' /\ Balanced'
  BY BalanceKept DEF AccountInv
<1> QED
  BY <1>1, <1>2, <1>3, <1>4, <1>5 DEF AccountInv

\* What the code takes for the resolution.
LEMMA ResolutionIs ==
  ASSUME NEW m, payout[m] \in Payouts
  PROVE  /\ payout[m] = <<>> => Resolution(m) \notin Range(Outcomes)
         /\ payout[m] = <<1, 1>> => Resolution(m) \notin Range(Outcomes)
         /\ payout[m] = <<1, 0>> => Resolution(m) = "Yes"
         /\ payout[m] = <<0, 1>> => Resolution(m) = "No"
<1> DEFINE paid == {i \in DOMAIN payout[m] : payout[m][i] > 0}
<1>1. CASE payout[m] = <<>>
  <2>1. Resolution(m) = "none"
    BY <1>1 DEF Resolution
  <2> QED
    BY <1>1, <2>1, TwoOutcomes, Unsplit
<1>2. CASE payout[m] = <<1, 1>>
  <2>1. paid = {1} \cup {2}
    BY <1>2
  <2>2. Cardinality(paid) # 1
    <3> DEFINE one == {1}
    <3>1. IsFiniteSet(one) /\ Cardinality(one) = 1 /\ 2 \notin one
      <4>1. \A x : IsFiniteSet({x}) /\ Cardinality({x}) = 1
        BY FS_Singleton
      <4>2. 2 \notin one
        OBVIOUS
      <4> QED
        BY <4>1, <4>2
    <3>2. paid = one \cup {2}
      BY <2>1
    <3> HIDE DEF one, paid
    <3>3. Cardinality(one \cup {2}) = Cardinality(one) + 1
      BY <3>1, FS_AddElement, Zenon
    <3>4. Cardinality(one \cup {2}) # 1
      BY <3>1, <3>3
    <3> QED
      BY <3>2, <3>4
  <2>3. Resolution(m) = "no outcome"
    BY <1>2, <2>2, Unsplit DEF Resolution
  <2>4. <<1, 1>> # <<1, 0>> /\ <<1, 1>> # <<0, 1>>
    OBVIOUS
  <2> QED
    BY <1>2, <2>3, <2>4, TwoOutcomes, Unsplit
<1>3. CASE payout[m] = <<1, 0>>
  <2>1. paid = {1}
    BY <1>3
  <2>2. Cardinality(paid) = 1 /\ (CHOOSE i \in paid : TRUE) = 1
    BY <2>1, FS_Singleton
  <2>3. Resolution(m) = Outcomes[1]
    BY <1>3, <2>2, Unsplit DEF Resolution
  <2>4. <<1, 0>> # <<1, 1>> /\ <<1, 0>> # <<0, 1>>
    OBVIOUS
  <2> QED
    BY <1>3, <2>3, <2>4, Unsplit DEF Outcomes
<1>4. CASE payout[m] = <<0, 1>>
  <2>1. paid = {2}
    BY <1>4
  <2>2. Cardinality(paid) = 1 /\ (CHOOSE i \in paid : TRUE) = 2
    BY <2>1, FS_Singleton
  <2>3. Resolution(m) = Outcomes[2]
    BY <1>4, <2>2, Unsplit DEF Resolution
  <2>4. <<0, 1>> # <<1, 1>> /\ <<0, 1>> # <<1, 0>>
    OBVIOUS
  <2> QED
    BY <1>4, <2>3, <2>4, Unsplit DEF Outcomes
<1> QED
  BY <1>1, <1>2, <1>3, <1>4 DEF Payouts

\* The profit the code reports of a trade is what the trade gains.
LEMMA ProfitIsGain ==
  ASSUME NEW t \in Trade, payout \in [Markets -> Payouts],
         Resolution(t.market) \in Range(Outcomes)
  PROVE  Profit(t) = Gain(payout, t)
<1>1. /\ t.market \in Markets /\ t.outcome \in {"Yes", "No"} /\ t.side \in {"BUY", "SELL"}
      /\ t.size \in Int /\ t.price \in Int
  BY TradeNumbers, TwoOutcomes DEF Trade
<1>2. \/ payout[t.market] = <<1, 0>> /\ Resolution(t.market) = "Yes"
      \/ payout[t.market] = <<0, 1>> /\ Resolution(t.market) = "No"
  BY <1>1, ResolutionIs DEF Payouts
<1>3. <<1, 0>> # <<1, 1>> /\ <<0, 1>> # <<1, 1>> /\ <<1, 0>> # <<0, 1>>
  OBVIOUS
<1>4. Rate(payout, t.market, t.outcome) =
        IF t.outcome = Resolution(t.market) THEN Unit ELSE 0
  BY <1>1, <1>2, <1>3 DEF Rate
<1>5. Gain(payout, t) =
        Signed(t) * ((IF t.outcome = Resolution(t.market) THEN Unit ELSE 0) - t.price)
  BY <1>4 DEF Gain
<1> HIDE DEF Resolution
<1>6. CASE t.outcome = Resolution(t.market)
  <2>1. CASE t.side = "BUY"
    BY <1>1, <1>5, <1>6, <2>1 DEF Profit, Signed, Unit
  <2>2. CASE t.side = "SELL"
    BY <1>1, <1>5, <1>6, <2>2 DEF Profit, Signed, Unit
  <2> QED
    BY <1>1, <2>1, <2>2
<1>7. CASE t.outcome # Resolution(t.market)
  <2>1. t.size * t.price \in Int
    BY <1>1
  <2>2. t.size * (0 - t.price) = -(t.size * t.price)
        /\ (-t.size) * (0 - t.price) = t.size * t.price
    BY <1>1
  <2>3. CASE t.side = "BUY"
    BY <1>1, <1>5, <1>7, <2>1, <2>2, <2>3 DEF Profit, Signed, Cost
  <2>4. CASE t.side = "SELL"
    BY <1>1, <1>5, <1>7, <2>1, <2>2, <2>4 DEF Profit, Signed, Cost
  <2> QED
    BY <1>1, <2>3, <2>4
<1> QED
  BY <1>6, <1>7

AllResolved == \A t \in Range(feed) : Resolution(t.market) \in Range(Outcomes)

\* What is reported of all trades, when the servers show them all.
LEMMA AllReported ==
  ASSUME AccountTypeOK, Len(feed) <= ListCap, AllResolved
  PROVE  [i \in DOMAIN ResolvedBets({}) |-> ResolvedBets({})[i].profit]
             = Gains(payout, feed)
<1>1. feed \in Seq(Trade) /\ payout \in [Markets -> Payouts]
  BY DEF AccountTypeOK
<1>2. UserTrades({}) = feed
  BY <1>1, TradesRead DEF UserTrades
<1>3. \A i \in DOMAIN feed :
        feed[i] \in Trade /\ Resolution(feed[i].market) \in Range(Outcomes)
  BY <1>1, FeedSums DEF AllResolved, Range
<1> DEFINE places == {k \in DOMAIN UserTrades({}) :
                         Resolution(UserTrades({})[k].market) \in Range(Outcomes)}
<1>4. DOMAIN feed \subseteq places
  BY <1>2, <1>3
<1>5. Selected(UserTrades({}), places) = feed
  BY <1>1, <1>2, <1>4, SelectedAll
<1>6. ResolvedBets({}) = [i \in DOMAIN feed |-> GenericResolvedBet(feed[i])]
  BY <1>5 DEF ResolvedBets
<1>7. \A i \in DOMAIN feed : GenericResolvedBet(feed[i]).profit = Gain(payout, feed[i])
  <2>1. ASSUME NEW i \in DOMAIN feed PROVE Profit(feed[i]) = Gain(payout, feed[i])
    BY <1>1, <1>3, ProfitIsGain
  <2> QED
    BY <2>1 DEF GenericResolvedBet
<1> QED
  BY <1>6, <1>7 DEF Gains

\* And what the winning tokens are worth is all that tokens are worth.
LEMMA WinningsAreWorth ==
  ASSUME AccountTypeOK, HeldIsTraded, AllResolved
  PROVE  [m \in Markets |-> Winnings(m)] = Worths(payout, held)
<1>1. feed \in Seq(Trade) /\ payout \in [Markets -> Payouts] /\ held \in Holdings
  BY DEF AccountTypeOK
<1>2. ASSUME NEW m \in Markets PROVE Winnings(m) = Worth(payout, held, m)
  <2>1. held[m]["Yes"] \in Nat /\ held[m]["No"] \in Nat
    BY <1>1, WorthsTyped
  <2>2. <<1, 0>> # <<1, 1>> /\ <<0, 1>> # <<1, 1>> /\ <<1, 0>> # <<0, 1>>
    OBVIOUS
  <2>3. CASE payout[m] = <<>>
    BY <1>1, <2>3, ResolutionIs, WorthsTyped DEF Winnings
  <2>4. CASE payout[m] = <<1, 1>>
    <3>1. Resolution(m) \notin Range(Outcomes)
      BY <1>1, <2>4, ResolutionIs
    <3>2. \A i \in DOMAIN feed : feed[i].market # m
      BY <1>1, <3>1, FeedSums DEF AllResolved, Range
    <3>3. ASSUME NEW o \in Range(Outcomes) PROVE held[m][o] = 0
      <4>1. \A i \in DOMAIN feed : Moves(feed, m, o)[i] = 0
        BY <3>2 DEF Moves
      <4>2. Moves(feed, m, o) \in [DOMAIN feed -> Int] /\ IsFiniteSet(DOMAIN feed)
        BY <1>1, FeedSums
      <4> HIDE DEF Moves
      <4>3. SumFunction(Moves(feed, m, o)) = 0
        BY <4>1, <4>2, SumZero
      <4> QED
        BY <4>3 DEF HeldIsTraded
    <3>4. held[m]["Yes"] = 0 /\ held[m]["No"] = 0
      BY <3>3, TwoOutcomes
    <3> QED
      BY <2>4, <3>1, <3>4 DEF Winnings, Worth, Rate
  <2>5. CASE payout[m] = <<1, 0>>
    <3>1. Winnings(m) = Unit * held[m]["Yes"]
      BY <1>1, <2>5, ResolutionIs, TwoOutcomes DEF Winnings
    <3>2. Rate(payout, m, "Yes") = Unit /\ Rate(payout, m, "No") = 0
      BY <2>2, <2>5 DEF Rate
    <3> QED
      BY <2>1, <3>1, <3>2 DEF Worth, Unit
  <2>6. CASE payout[m] = <<0, 1>>
    <3>1. Winnings(m) = Unit * held[m]["No"]
      BY <1>1, <2>6, ResolutionIs, TwoOutcomes DEF Winnings
    <3>2. Rate(payout, m, "No") = Unit /\ Rate(payout, m, "Yes") = 0
      BY <2>2, <2>6 DEF Rate
    <3> QED
      BY <2>1, <3>1, <3>2 DEF Worth, Unit
  <2> QED
    BY <1>1, <2>3, <2>4, <2>5, <2>6 DEF Payouts
<1> QED
  BY <1>2 DEF Worths

\* The reported profit is what the balance says.
LEMMA ProfitFollows == AccountInv /\ Len(feed) <= ListCap => ProfitIsPaid
<1> SUFFICES ASSUME AccountInv, Len(feed) <= ListCap, AllResolved
             PROVE  Wealth - Initial + SumFunction([m \in Markets |-> Winnings(m)])
                    = SumFunction([i \in DOMAIN ResolvedBets({}) |->
                                       ResolvedBets({})[i].profit])
  BY DEF ProfitIsPaid, AllResolved
<1> DEFINE w == SumFunction(Worths(payout, held))
           g == SumFunction(Gains(payout, feed))
<1>1. /\ Wealth \in Int /\ Initial \in Int /\ w \in Int /\ g \in Int
      /\ Wealth + w = Initial + g
  BY SumsTyped DEF AccountInv, Balanced
<1>2. SumFunction([m \in Markets |-> Winnings(m)]) = w
  BY WinningsAreWorth DEF AccountInv
<1>3. SumFunction([i \in DOMAIN ResolvedBets({}) |-> ResolvedBets({})[i].profit])
        = g
  BY AllReported DEF AccountInv
<1> HIDE DEF w, g, Wealth, Initial
<1>4. Wealth - Initial + w = g
  BY <1>1
<1> QED
  BY <1>2, <1>3, <1>4

\* And a liquidation that returns has sold.
LEMMA LiquidatedFollows == Liquidating => Liquidated
BY DEF Liquidating, Liquidated, Asked
-----------------------------------------------------------------------------
(* Theorems *)

\* The inductive invariant always holds.
LEMMA AlwaysAccountInv == AccountSpec => []AccountInv
<1>1. AccountInv /\ [AccountNext]_accountVars => AccountInv'
  BY InvKept
<1> QED
  BY <1>1, InvInit, PTL DEF AccountSpec

(***************************************************************************)
(* No balance, allowance or holding is ever negative, jobs and orders name *)
(* markets of the agent and outcomes they have, and what is redeemed is    *)
(* resolved, for all that the APIs list and the exchange answers.          *)
(***************************************************************************)
THEOREM AccountTypeCorrect == AccountSpec => []AccountTypeOK
<1>1. AccountInv => AccountTypeOK
  BY DEF AccountInv
<1> QED
  BY <1>1, AlwaysAccountInv, PTL

(***************************************************************************)
(* No market is bought twice on one day, if none was before, unless one of *)
(* the two runs was reported as failed while the chain had not decided on  *)
(* its order, and was still undecided when a later run asked for bets of   *)
(* that market. The newest trade of a market is on the first page of       *)
(* have_bet_on_market_since, so all that was mined by then is seen, for    *)
(* any number of runs, of orders that are late, and of days they take.     *)
(***************************************************************************)
THEOREM MarketsBoughtOnce ==
  ASSUME EarlierOnce
  PROVE  AccountSpec => []OneBuyPerDay
<1>1. AccountInit => OneBuyPerDay
  BY InitBuys
<1>2. AccountInv /\ OneBuyPerDay /\ [AccountNext]_accountVars => OneBuyPerDay'
  BY InvKept
<1> QED
  BY <1>1, <1>2, AlwaysAccountInv, PTL DEF AccountSpec

(***************************************************************************)
(* A liquidation that returns has sold what was held of the other outcome  *)
(* of its market when it began, and has traded nothing else, although it   *)
(* is one of several calls that place and verify orders, and orders of     *)
(* calls that raised are mined meanwhile.                                  *)
(***************************************************************************)
THEOREM LiquidationSells == AccountSpec => []Liquidated
<1>1. AccountInv => Liquidated
  BY LiquidatedFollows DEF AccountInv
<1> QED
  BY <1>1, AlwaysAccountInv, PTL

(***************************************************************************)
(* What get_resolved_bets_made_since reports as profit is what the wallet  *)
(* gained, with the winning tokens not redeemed yet, as long as the data   *)
(* API shows all trades: it gives none beyond ListCap.                     *)
(***************************************************************************)
THEOREM ReportedProfitIsPaid ==
  AccountSpec => [](Len(feed) <= ListCap => ProfitIsPaid)
<1>1. AccountInv => (Len(feed) <= ListCap => ProfitIsPaid)
  BY ProfitFollows
<1> QED
  BY <1>1, AlwaysAccountInv, PTL

=============================================================================
