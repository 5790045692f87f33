------------------------ MODULE CommitmentLayersProofs ------------------------
(***************************************************************************)
(* The two stacks of CommitmentLayers agree, for every height, every cut   *)
(* into packages, segments, cached and out-of-memory layers, every number  *)
(* of friendly layers and every set of queries: no assertion of a layer    *)
(* fails, the verifier reads each message as what it was sent as, and it   *)
(* accepts the data committed to and no other.                             *)
(*                                                                         *)
(* The argument: level k of the commitment is what k hashings make of the  *)
(* rows.  The queries of a level follow from the rows alone, and so does   *)
(* what a layer has to ask for: ask[j], a list of elements, each once and  *)
(* none of them queried; what is passed in is the list of their values.    *)
(* So the queries alone also determine the names of all messages, level    *)
(* after level (Start, NameAt).  The prover's layers, and then its tree,   *)
(* write them in that order (Sending, Climbing), and the verifier's layers *)
(* read them so, with a right hash just where the elements are right       *)
(* (Verifying).                                                            *)
(***************************************************************************)
EXTENDS CommitmentLayers, FiniteSetTheorems, SequenceTheorems, WellFoundedInduction, TLAPS

Innermost == Len(layers)
Height == config.height

\* Levels.
DepthAt(k) == Height + 1 - k
Level(l) == Height + 1 - l.depth
Per(k) == IF k = 0 THEN config.per_package ELSE 2
Width(k) == IF k = 0 THEN Pow2[Height] * config.per_package ELSE Pow2[DepthAt(k)]
QueriesAt(k) == IF k = 0 THEN rows ELSE {(i \div config.per_package) \div Pow2[k - 1] : i \in rows}
LayerAt(k) == VerifierLayers(config)[k + 1]
RequiredAt(k) == ElementsRequiredToComputeHashes(LayerAt(k), QueriesAt(k))

\* The prover's stack.
InnerLayer(l) ==
  /\ l.depth \in config.log_segments + 1 .. Height
  /\ l \in {Caching(l.depth), Packaging(l.depth, 2, Friendly(config, l.depth))}

Stacked ==
  /\ config \in Configurations /\ BuilderAsserts(config)
  /\ layers = [j \in 1 .. Innermost |-> layers[j]] /\ Innermost >= Height - config.log_segments + 2
  /\ layers[1] = Rows(config) /\ layers[Innermost] = Merkle(config.log_segments, config.friendly > 0)
  /\ \A j \in 2 .. Innermost - 1 : InnerLayer(layers[j])
  /\ \A j \in 1 .. Innermost - 1 :
       layers[j + 1].depth = layers[j].depth - (IF layers[j].kind = "packaging" THEN 1 ELSE 0)

\* What a layer holds of the segments that were added.
SegmentOf(l, i) == i \div Pow2[l.depth - config.log_segments]
Filled ==
  /\ added \subseteq Segments
  /\ phase # "add" => added = Segments
  /\ stored = [j \in 1 .. Innermost |-> stored[j]]
  /\ \A j \in 1 .. Innermost : layers[j].kind # "packaging" =>
       /\ stored[j] = [i \in 0 .. Pow2[layers[j].depth] - 1 |-> stored[j][i]]
       /\ \A i \in 0 .. Pow2[layers[j].depth] - 1 :
            SegmentOf(layers[j], i) \in added => stored[j][i] = Node(layers[j], i)

Chosen ==
  phase \notin {"add", "query"} =>
    /\ rows \subseteq 0 .. Width(0) - 1 /\ rows # {}
    /\ integrity \subseteq Cells(rows)

\* Queries on their way in.
Started(j) ==
  /\ queries_[j] = QueriesAt(Level(layers[j]))
  /\ layers[j].kind = "packaging" => missing[j] = RequiredAt(Level(layers[j]))

Starting ==
  /\ phase = "start" => /\ at \in 1 .. Innermost /\ passed = QueriesAt(Level(layers[at]))
                        /\ \A j \in 1 .. at - 1 : Started(j)
  /\ phase \in {"return", "decommit", "tree"} => \A j \in 1 .. Innermost : Started(j)

\* What layers ask of those around them.
Asked(j, list) ==
  /\ list \in Seq(0 .. NumElements(layers[j]) - 1) /\ ~HasDuplicates(list)
  /\ SetOf(list) \cap QueriesAt(Level(layers[j])) = {}

Asks(ask, from) ==
  /\ ask \in [1 .. Innermost -> Seq(Nat)] /\ ask[Innermost] = <<>>
  /\ \A j \in from .. Innermost - 1 :
       IF layers[j].kind = "packaging"
       THEN LET inner == GetElementsInPackages(layers[j], ask[j + 1])
            IN n_missing_inner[j] = Len(inner) /\ ask[j] = missing[j] \o inner
       ELSE missing[j] = ask[j + 1] /\ ask[j] = <<>>
  /\ \A j \in from .. Innermost : Asked(j, ask[j])

RightList(j, list) == [k \in DOMAIN list |-> Node(layers[j], list[k])]

Asking ==
  /\ phase = "return" =>
       at \in 0 .. Innermost - 1 /\ \E ask : Asks(ask, at + 1) /\ passed = ask[at + 1]
  /\ phase = "decommit" =>
       at \in 1 .. Innermost /\ \E ask : Asks(ask, 1) /\ passed = RightList(at, ask[at])

Walking ==
  /\ phase = "verify" => at \in 1 .. Height + 2
  /\ queries_ = [j \in 1 .. Innermost |-> queries_[j]]
  /\ missing = [j \in 1 .. Innermost |-> missing[j]]
  /\ n_missing_inner = [j \in 1 .. Innermost |-> n_missing_inner[j]]

LayersInv ==
  TypeOK /\ phase # "aborted" /\ Stacked /\ Filled /\ Chosen /\ Starting /\ Asking /\ Walking

-----------------------------------------------------------------------------
\* Induction on the naturals.

\* A non-empty set of numbers has a least one.
LEMMA LeastElement ==
  ASSUME NEW T \in SUBSET Nat, T # {}
  PROVE  \E m \in T : \A n \in T : m <= n
<1> DEFINE R == OpToRel(<, Nat)
<1>1. IsWellFoundedOn(R, Nat)
  BY NatLessThanWellFounded
<1>2. \A x, y \in Nat : <<y, x>> \in R <=> y < x
  BY DEF OpToRel
<1> HIDE DEF R
<1>3. PICK x \in T : \A y \in T : ~ (<<y, x>> \in R)
  BY <1>1, WFMin, Zenon
<1>4. ASSUME NEW y \in T PROVE x <= y
  <2>1. x \in Nat /\ y \in Nat /\ <<y, x>> \notin R
    BY <1>3
  <2>2. ~ (y < x)
    BY <1>2, <2>1
  <2>3. QED
    BY <2>1, <2>2
<1>5. QED
  BY <1>4

\* A set that has 0 and the successor of each of its numbers has every number.
LEMMA SetInduction ==
  ASSUME NEW T, 0 \in T, \A n \in Nat : n \in T => n + 1 \in T
  PROVE  \A n \in Nat : n \in T
<1> DEFINE U == Nat \ T
<1>1. SUFFICES ASSUME U # {} PROVE FALSE
  OBVIOUS
<1>2. PICK m \in U : \A n \in U : m <= n
  <2> HIDE DEF U
  <2>1. U \in SUBSET Nat
    BY DEF U
  <2>2. QED
    BY <1>1, <2>1, LeastElement, Zenon
<1>3. m # 0 /\ m \in Nat
  OBVIOUS
<1>4. m - 1 \in Nat /\ m - 1 \notin U
  BY <1>2, <1>3
<1>5. QED
  BY <1>3, <1>4

\* Powers of two.  (The definition by recursion is a choice of a function that
\* satisfies its equation: there is one, the union of its finite parts.)
LEMMA Pow2Defined ==
  Pow2 = [n \in Nat |-> IF n = 0 THEN 1 ELSE 2 * Pow2[n - 1]]
<1> DEFINE Part(n, f) == f \in [0 .. n -> Nat] /\ f[0] = 1 /\ \A i \in 1 .. n : f[i] = 2 * f[i - 1]
           g == [n \in Nat |-> (CHOOSE f : Part(n, f))[n]]
<1>1. \A n \in Nat : \E f : Part(n, f)
  <2> DEFINE T == {n \in Nat : \E f : Part(n, f)}
  <2>1. 0 \in T
    <3>1. Part(0, [i \in 0 .. 0 |-> 1])
      OBVIOUS
    <3>2. QED
      BY <3>1
  <2>2. ASSUME NEW n \in Nat, n \in T PROVE n + 1 \in T
    <3>1. PICK f : Part(n, f)
      BY <2>2
    <3> DEFINE h == [i \in 0 .. n + 1 |-> IF i = n + 1 THEN 2 * f[n] ELSE f[i]]
    <3>2. \A i \in 0 .. n : f[i] \in Nat
      BY <3>1
    <3>3. h \in [0 .. n + 1 -> Nat]
      BY <3>2
    <3>4. h[0] = 1
      BY <3>1
    <3>5. ASSUME NEW i \in 1 .. n + 1 PROVE h[i] = 2 * h[i - 1]
      <4>1. CASE i = n + 1
        BY <4>1
      <4>2. CASE i \in 1 .. n
        BY <3>1, <4>2
      <4>3. QED
        BY <4>1, <4>2
    <3>6. Part(n + 1, h)
      BY <3>3, <3>4, <3>5
    <3> HIDE DEF h, Part
    <3>7. n + 1 \in Nat /\ \E f1 : Part(n + 1, f1)
      BY <3>6
    <3>8. QED
      BY <3>7
  <2>3. \A n \in Nat : n \in T
    <3> HIDE DEF T
    <3>1. QED
      BY <2>1, <2>2, SetInduction
  <2>4. QED
    BY <2>3
<1>2. ASSUME NEW m \in Nat, NEW n \in Nat, NEW f, NEW h, Part(m, f), Part(n, h)
      PROVE  \A i \in Nat : i <= m /\ i <= n => f[i] = h[i]
  <2> DEFINE T == {i \in Nat : i <= m /\ i <= n => f[i] = h[i]}
  <2>1. 0 \in T
    BY <1>2
  <2>2. ASSUME NEW i \in Nat, i \in T PROVE i + 1 \in T
    <3>1. SUFFICES ASSUME i + 1 <= m, i + 1 <= n PROVE f[i + 1] = h[i + 1]
      OBVIOUS
    <3>2. f[i] = h[i]
      BY <2>2, <3>1
    <3>3. i + 1 \in 1 .. m /\ i + 1 \in 1 .. n /\ (i + 1) - 1 = i
      BY <3>1
    <3>4. QED
      BY <1>2, <3>2, <3>3
  <2>3. \A i \in Nat : i \in T
    <3> HIDE DEF T
    <3>1. QED
      BY <2>1, <2>2, SetInduction
  <2>4. QED
    BY <2>3
<1>3. ASSUME NEW n \in Nat PROVE g[n] = IF n = 0 THEN 1 ELSE 2 * g[n - 1]
  <2> DEFINE F(k) == CHOOSE f : Part(k, f)
  <2>1. \A k \in Nat : Part(k, F(k))
    <3> HIDE DEF Part
    <3>1. QED
      BY <1>1
  <2>2. \A k \in Nat : g[k] = F(k)[k]
    OBVIOUS
  <2> HIDE DEF g, F
  <2>3. CASE n = 0
    BY <2>1, <2>2, <2>3
  <2>4. CASE n # 0
    <3>1. n - 1 \in Nat /\ n \in 1 .. n /\ n - 1 <= n - 1 /\ n - 1 <= n
      BY <2>4
    <3>2. F(n)[n] = 2 * F(n)[n - 1]
      BY <2>1, <3>1
    <3>3. F(n)[n - 1] = F(n - 1)[n - 1]
      <4> HIDE DEF Part
      <4>1. Part(n, F(n)) /\ Part(n - 1, F(n - 1))
        BY <2>1, <3>1
      <4>2. QED
        BY <1>2, <3>1, <4>1
    <3>4. QED
      BY <2>2, <2>4, <3>1, <3>2, <3>3
  <2>5. QED
    BY <2>3, <2>4
<1>4. g = [n \in Nat |-> IF n = 0 THEN 1 ELSE 2 * g[n - 1]]
  <2> DEFINE h == [n \in Nat |-> IF n = 0 THEN 1 ELSE 2 * g[n - 1]]
  <2>1. DOMAIN g = Nat /\ DOMAIN h = Nat /\ g = [n \in Nat |-> g[n]]
    OBVIOUS
  <2>2. \A n \in Nat : g[n] = h[n]
    <3>1. \A n \in Nat : h[n] = IF n = 0 THEN 1 ELSE 2 * g[n - 1]
      OBVIOUS
    <3> HIDE DEF g, h
    <3>2. QED
      BY <1>3, <3>1
  <2>3. h = [n \in Nat |-> h[n]]
    OBVIOUS
  <2> HIDE DEF g, h
  <2>4. g = h
    BY <2>1, <2>2, <2>3
  <2>5. QED
    BY <2>4 DEF h
<1> HIDE DEF g
<1>5. QED
  BY <1>4 DEF Pow2

\* The powers of two: Pow2 unfolded, which is defined recursively over Nat.
LEMMA Pow2Values ==
  /\ Pow2[0] = 1 /\ Pow2[1] = 2
  /\ \A n \in Nat : Pow2[n] \in Nat /\ Pow2[n] >= 1 /\ Pow2[n + 1] = 2 * Pow2[n]
<1>1. \A n \in Nat : Pow2[n] = IF n = 0 THEN 1 ELSE 2 * Pow2[n - 1]
  <2> DEFINE P == Pow2
  <2>1. P = [n \in Nat |-> IF n = 0 THEN 1 ELSE 2 * P[n - 1]]
    BY Pow2Defined
  <2> HIDE DEF P
  <2>2. \A n \in Nat : P[n] = IF n = 0 THEN 1 ELSE 2 * P[n - 1]
    BY <2>1
  <2>3. QED
    BY <2>2 DEF P
<1>2. Pow2[0] = 1
  BY <1>1
<1>3. \A n \in Nat : Pow2[n + 1] = 2 * Pow2[n]
  <2> SUFFICES ASSUME NEW n \in Nat PROVE Pow2[n + 1] = 2 * Pow2[n]
    OBVIOUS
  <2>1. n + 1 \in Nat /\ n + 1 # 0 /\ (n + 1) - 1 = n
    OBVIOUS
  <2>2. QED
    BY <1>1, <2>1
<1> DEFINE T == {n \in Nat : Pow2[n] \in Nat /\ Pow2[n] >= 1}
<1>4. \A n \in Nat : n \in T
  <2>1. 0 \in T
    BY <1>2
  <2>2. ASSUME NEW n \in Nat, n \in T PROVE n + 1 \in T
    BY <1>3, <2>2
  <2> HIDE DEF T
  <2>3. QED
    BY <2>1, <2>2, SetInduction
<1>5. Pow2[1] = 2
  <2>1. Pow2[0 + 1] = 2 * Pow2[0]
    BY <1>3
  <2>2. QED
    BY <1>2, <2>1
<1>6. QED
  BY <1>2, <1>3, <1>4, <1>5

\* They grow, and double at the least.
LEMMA Pow2Grows ==
  ASSUME NEW a \in Nat, NEW b \in Nat, a <= b
  PROVE  Pow2[a] <= Pow2[b] /\ (a < b => 2 * Pow2[a] <= Pow2[b])
<1> DEFINE T == {n \in Nat : \A c \in Nat :
                 c <= n => Pow2[c] <= Pow2[n] /\ (c < n => 2 * Pow2[c] <= Pow2[n])}
<1>1. 0 \in T
  BY Pow2Values
<1>2. ASSUME NEW n \in Nat, n \in T PROVE n + 1 \in T
  <2>1. SUFFICES ASSUME NEW c \in Nat, c <= n + 1
                 PROVE  Pow2[c] <= Pow2[n + 1] /\ (c < n + 1 => 2 * Pow2[c] <= Pow2[n + 1])
    BY <1>2
  <2>2. Pow2[n + 1] = 2 * Pow2[n] /\ Pow2[n] \in Nat /\ Pow2[c] \in Nat
    BY Pow2Values
  <2>3. CASE c = n + 1
    BY <2>2, <2>3
  <2>4. CASE c <= n
    <3>1. Pow2[c] <= Pow2[n]
      BY <1>2, <2>4
    <3>2. QED
      BY <2>2, <2>4, <3>1
  <2>5. QED
    BY <2>1, <2>3, <2>4
<1>3. \A n \in Nat : n \in T
  <2> HIDE DEF T
  <2>1. QED
    BY <1>1, <1>2, SetInduction
<1>4. QED
  BY <1>3

\* The product of two powers of two.
LEMMA Pow2Adds ==
  ASSUME NEW a \in Nat, NEW b \in Nat
  PROVE  Pow2[a + b] = Pow2[a] * Pow2[b]
<1> DEFINE T == {c \in Nat : Pow2[a + c] = Pow2[a] * Pow2[c]}
<1>1. 0 \in T
  <2>1. a + 0 = a /\ Pow2[0] = 1 /\ Pow2[a] \in Nat
    BY Pow2Values
  <2>2. QED
    BY <2>1
<1>2. ASSUME NEW c \in Nat, c \in T PROVE c + 1 \in T
  <2>1. a + c \in Nat /\ a + (c + 1) = (a + c) + 1
    OBVIOUS
  <2>2. /\ Pow2[(a + c) + 1] = 2 * Pow2[a + c] /\ Pow2[c + 1] = 2 * Pow2[c]
        /\ Pow2[a] \in Nat /\ Pow2[c] \in Nat
    BY <2>1, Pow2Values
  <2>3. Pow2[a + c] = Pow2[a] * Pow2[c]
    BY <1>2
  <2>4. \A x, y \in Nat : 2 * (x * y) = x * (2 * y)
    OBVIOUS
  <2>5. Pow2[a + (c + 1)] = Pow2[a] * Pow2[c + 1]
    BY <2>1, <2>2, <2>3, <2>4
  <2>6. QED
    BY <2>5
<1>3. \A c \in Nat : c \in T
  <2> HIDE DEF T
  <2>1. QED
    BY <1>1, <1>2, SetInduction
<1>4. QED
  BY <1>3

\* Row and column: the quotient and the remainder of a position.
LEMMA QuotientAndRemainder ==
  ASSUME NEW a \in Nat, NEW p \in Nat, p >= 1, NEW c \in 0 .. p - 1
  PROVE  (a * p + c) \div p = a /\ (a * p + c) % p = c
<1> DEFINE n == a * p + c
           q == n \div p
<1>1. n \in Nat /\ a * p \in Nat
  OBVIOUS
<1>2. q \in Nat /\ q * p <= n /\ n < q * p + p /\ n = q * p + (n % p)
  <2>1. \A x \in Nat : /\ x \div p \in Nat /\ (x \div p) * p <= x /\ x < (x \div p) * p + p
                       /\ x % p \in Int
    OBVIOUS
  <2>2. \A x \in Nat : x % p = x - p * (x \div p)
    OBVIOUS
  <2>3. \A x \in Nat : p * x = x * p /\ x * p \in Nat
    OBVIOUS
  <2> HIDE DEF n
  <2>4. q \in Nat /\ q * p <= n /\ n < q * p + p /\ n % p \in Int
    BY <1>1, <2>1
  <2>5. n % p = n - p * q /\ p * q = q * p /\ q * p \in Nat
    BY <1>1, <2>2, <2>3, <2>4
  <2> HIDE DEF q
  <2>6. n = q * p + (n % p)
    BY <1>1, <2>4, <2>5
  <2>7. QED
    BY <2>4, <2>6
<1>3. \A x, y \in Nat : x < y => x * p + p <= y * p
  OBVIOUS
<1>4. \A x \in Nat : x * p \in Nat
  OBVIOUS
<1> HIDE DEF q
<1>5. ~ (q < a)
  <2>1. q < a => q * p + p <= a * p
    BY <1>2, <1>3
  <2>2. QED
    BY <1>1, <1>2, <1>4, <2>1
<1>6. ~ (a < q)
  <2>1. a < q => a * p + p <= q * p
    BY <1>2, <1>3
  <2>2. QED
    BY <1>1, <1>2, <1>4, <2>1
<1>7. q = a
  BY <1>2, <1>5, <1>6
<1>8. n % p = c
  <2>1. n = a * p + (n % p) /\ n = a * p + c
    BY <1>2, <1>7
  <2>2. n % p \in Int
    BY <1>1
  <2>3. QED
    BY <1>1, <2>1, <2>2
<1>9. QED
  BY <1>7, <1>8 DEF q

\* A quotient is known by the multiples around a number.
LEMMA QuotientUnique ==
  ASSUME NEW v \in Nat, NEW q \in Nat, NEW c \in Nat, c >= 1, q * c <= v, v < q * c + c
  PROVE  v \div c = q
<1>1. q * c \in Nat
  OBVIOUS
<1>2. v - q * c \in 0 .. c - 1 /\ v = q * c + (v - q * c)
  BY <1>1
<1>3. QED
  BY <1>2, QuotientAndRemainder

\* A number from its quotient and remainder.
LEMMA QuotientBounds ==
  ASSUME NEW v \in Nat, NEW c \in Nat, c >= 1
  PROVE  /\ v \div c \in Nat /\ (v \div c) * c <= v /\ v < (v \div c) * c + c
         /\ v % c \in 0 .. c - 1 /\ v = (v \div c) * c + (v % c)
<1>1. v \div c \in Nat /\ (v \div c) * c <= v /\ v < (v \div c) * c + c
  OBVIOUS
<1>2. v % c \in 0 .. c - 1
  OBVIOUS
<1>3. v % c = v - c * (v \div c)
  OBVIOUS
<1>4. \A x \in Nat : c * x = x * c /\ x * c \in Nat
  OBVIOUS
<1>5. QED
  BY <1>1, <1>2, <1>3, <1>4

\* The definition of a function by recursion on an interval has a solution.
LEMMA IntervalRecursion ==
  ASSUME NEW N \in Nat, NEW S, NEW base \in S, NEW F \in [(1 .. N) \X S -> S]
  PROVE  \E f \in [0 .. N -> S] :
           f[0] = base /\ \A n \in 1 .. N : f[n] = F[<<n, f[n - 1]>>]
<1> DEFINE Part(m, f) == f \in [0 .. m -> S] /\ f[0] = base
                           /\ \A n \in 1 .. m : f[n] = F[<<n, f[n - 1]>>]
           T == {m \in Nat : m <= N => \E f : Part(m, f)}
<1>1. 0 \in T
  <2>1. Part(0, [n \in 0 .. 0 |-> base])
    OBVIOUS
  <2> HIDE DEF Part
  <2>2. QED
    BY <2>1
<1>2. ASSUME NEW m \in Nat, m \in T PROVE m + 1 \in T
  <2> SUFFICES ASSUME m + 1 <= N PROVE \E f : Part(m + 1, f)
    OBVIOUS
  <2>1. PICK f : Part(m, f)
    BY <1>2
  <2> DEFINE h == [n \in 0 .. m + 1 |-> IF n = m + 1 THEN F[<<m + 1, f[m]>>] ELSE f[n]]
  <2>2. \A n \in 0 .. m : f[n] \in S
    BY <2>1
  <2>3. m \in 0 .. m /\ m + 1 \in 1 .. N
    OBVIOUS
  <2>4. F[<<m + 1, f[m]>>] \in S
    BY <2>2, <2>3
  <2>5. h \in [0 .. m + 1 -> S]
    BY <2>2, <2>4
  <2>6. h[0] = base
    BY <2>1
  <2>7. ASSUME NEW n \in 1 .. m + 1 PROVE h[n] = F[<<n, h[n - 1]>>]
    <3>1. CASE n = m + 1
      <4>1. h[n] = F[<<m + 1, f[m]>>] /\ n - 1 = m /\ h[n - 1] = f[m]
        BY <3>1
      <4> HIDE DEF h
      <4>2. QED
        BY <3>1, <4>1
    <3>2. CASE n \in 1 .. m
      BY <2>1, <3>2
    <3>3. QED
      BY <3>1, <3>2
  <2>8. Part(m + 1, h)
    BY <2>5, <2>6, <2>7
  <2> HIDE DEF Part, h
  <2>9. QED
    BY <2>8
<1>3. \A m \in Nat : m \in T
  <2> HIDE DEF T
  <2>1. QED
    BY <1>1, <1>2, SetInduction
<1>4. PICK f : Part(N, f)
  <2> HIDE DEF Part
  <2>1. QED
    BY <1>3
<1>5. QED
  BY <1>4

-----------------------------------------------------------------------------
\* Powers of two, compared and divided.

\* Halving k times, and once more.
LEMMA Halves ==
  ASSUME NEW n \in Nat, NEW k \in Nat
  PROVE  /\ n \div Pow2[0] = n /\ n \div Pow2[k] \in Nat
         /\ (n \div Pow2[k]) \div 2 = n \div Pow2[k + 1]
         /\ (n \div Pow2[k]) * Pow2[k] <= n /\ n < (n \div Pow2[k]) * Pow2[k] + Pow2[k]
<1>1. Pow2[0] = 1 /\ Pow2[k] \in Nat /\ Pow2[k] >= 1 /\ Pow2[k + 1] = 2 * Pow2[k]
  BY Pow2Values
<1>2. ASSUME NEW p \in Nat, p >= 1
      PROVE  /\ n \div p \in Nat /\ (n \div p) * p <= n /\ n < (n \div p) * p + p
             /\ (n \div p) \div 2 = n \div (2 * p)
  BY <1>2
<1>3. n \div 1 = n
  OBVIOUS
<1>4. QED
  BY <1>1, <1>2, <1>3

\* A quotient of a quotient.
-----------------------------------------------------------------------------
\* A set in increasing order: the k-th element is the one with k - 1 below it.

\* The members of a set of numbers under x.
Below(S, x) == {y \in S : y < x}

\* Every position of an ascending list of a set's members is that of one of them.
LEMMA EveryRank ==
  ASSUME NEW b \in Nat, NEW S \in SUBSET (0 .. b - 1)
  PROVE  /\ IsFiniteSet(S) /\ Cardinality(S) \in Nat
         /\ \A k \in 1 .. Cardinality(S) : \E x \in S : Cardinality(Below(S, x)) = k - 1
<1>1. \A c \in Nat : \A R \in SUBSET (0 .. c - 1) : IsFiniteSet(R) /\ Cardinality(R) \in Nat
  <2> SUFFICES ASSUME NEW c \in Nat, NEW R \in SUBSET (0 .. c - 1)
               PROVE  IsFiniteSet(R) /\ Cardinality(R) \in Nat
    OBVIOUS
  <2>1. 0 \in Int /\ c - 1 \in Int
    OBVIOUS
  <2>2. IsFiniteSet(0 .. c - 1)
    BY <2>1, FS_Interval
  <2>3. IsFiniteSet(R)
    BY <2>2, FS_Subset
  <2>4. QED
    BY <2>3, FS_CardinalityType
<1> DEFINE Ranked(R) == \A k \in 1 .. Cardinality(R) :
                          \E x \in R : Cardinality(Below(R, x)) = k - 1
           U == {c \in Nat : \A R \in SUBSET (0 .. c - 1) : Ranked(R)}
<1>2. 0 \in U
  <2>1. ASSUME NEW R \in SUBSET (0 .. 0 - 1) PROVE Ranked(R)
    <3>1. R = {}
      OBVIOUS
    <3>2. Cardinality(R) = 0
      BY <3>1, FS_EmptySet
    <3>3. QED
      BY <3>2
  <2> HIDE DEF Ranked
  <2>2. QED
    BY <2>1
<1>3. ASSUME NEW c \in Nat, c \in U PROVE c + 1 \in U
  <2>1. ASSUME NEW R \in SUBSET (0 .. (c + 1) - 1) PROVE Ranked(R)
    <3> DEFINE Q == R \ {c}
    <3>1. Q \in SUBSET (0 .. c - 1) /\ R \in SUBSET (0 .. (c + 1) - 1) /\ c + 1 \in Nat
      OBVIOUS
    <3>2. Ranked(Q)
      <4> HIDE DEF Ranked, Q
      <4>1. QED
        BY <1>3, <3>1
    <3>3. /\ IsFiniteSet(Q) /\ Cardinality(Q) \in Nat
          /\ IsFiniteSet(R) /\ Cardinality(R) \in Nat
      BY <1>1, <3>1
    <3>4. CASE c \notin R
      <4>1. Q = R
        BY <3>4
      <4> HIDE DEF Ranked, Q
      <4>2. QED
        BY <3>2, <4>1
    <3>5. CASE c \in R
      <4>1. Cardinality(Q) = Cardinality(R) - 1
        BY <3>3, <3>5, FS_RemoveElement
      <4>2. \A x \in Q : x < c /\ x \in Nat /\ x \in R
        BY <3>1
      <4>3. Below(R, c) = Q
        <5>1. \A x \in R : x < c <=> x # c
          BY <3>1
        <5>2. QED
          BY <5>1 DEF Below
      <4>4. \A x \in Q : Below(R, x) = Below(Q, x)
        BY <3>1 DEF Below
      <4> HIDE DEF Q
      <4>5. ASSUME NEW k \in 1 .. Cardinality(R)
            PROVE  \E x \in R : Cardinality(Below(R, x)) = k - 1
        <5>1. CASE k = Cardinality(R)
          BY <3>5, <4>1, <4>3, <5>1
        <5>2. CASE k # Cardinality(R)
          <6>1. k \in 1 .. Cardinality(Q)
            BY <3>3, <4>1, <5>2
          <6>2. PICK x \in Q : Cardinality(Below(Q, x)) = k - 1
            BY <3>2, <6>1
          <6>3. QED
            BY <4>2, <4>4, <6>2
        <5>3. QED
          BY <5>1, <5>2
      <4>6. QED
        BY <4>5
    <3>6. QED
      BY <3>4, <3>5
  <2> HIDE DEF Ranked
  <2>2. QED
    BY <2>1
<1>4. \A c \in Nat : c \in U
  <2> HIDE DEF U
  <2>1. QED
    BY <1>2, <1>3, SetInduction
<1>5. QED
  BY <1>1, <1>4

\* The larger of two members has the later position.
LEMMA RankGrows ==
  ASSUME NEW b \in Nat, NEW S \in SUBSET (0 .. b - 1), NEW x \in S, NEW y \in S, x < y
  PROVE  Cardinality(Below(S, x)) < Cardinality(Below(S, y))
<1>1. /\ Below(S, x) \in SUBSET (0 .. b - 1) /\ Below(S, y) \in SUBSET (0 .. b - 1)
      /\ x \notin Below(S, x) /\ Below(S, x) \cup {x} \in SUBSET Below(S, y)
  <2>1. ~ (x < x) /\ \A z \in S : z < x => z < y
    OBVIOUS
  <2>2. Below(S, x) \subseteq S /\ Below(S, y) \subseteq S
    BY DEF Below
  <2>3. x \notin Below(S, x) /\ \A z : z \in Below(S, x) \cup {x} => z \in Below(S, y)
    BY <2>1 DEF Below
  <2>4. QED
    BY <2>2, <2>3
<1>2. /\ IsFiniteSet(Below(S, x)) /\ Cardinality(Below(S, x)) \in Nat
      /\ IsFiniteSet(Below(S, y)) /\ Cardinality(Below(S, y)) \in Nat
  BY <1>1, EveryRank
<1>3. Cardinality(Below(S, x) \cup {x}) = Cardinality(Below(S, x)) + 1
  BY <1>1, <1>2, FS_AddElement
<1>4. Cardinality(Below(S, x) \cup {x}) <= Cardinality(Below(S, y))
  BY <1>1, <1>2, FS_Subset
<1>5. QED
  BY <1>2, <1>3, <1>4

\* InOrder lists each element once, in increasing order.
LEMMA InOrderLists ==
  ASSUME NEW b \in Nat, NEW S \in SUBSET (0 .. b - 1)
  PROVE  /\ InOrder(S) \in Seq(S) /\ Len(InOrder(S)) = Cardinality(S) /\ SetOf(InOrder(S)) = S
         /\ \A i, j \in 1 .. Len(InOrder(S)) : i < j => InOrder(S)[i] < InOrder(S)[j]
<1> DEFINE l == Cardinality(S)
           f == InOrder(S)
           Rank(x) == Cardinality(Below(S, x))
<1>1. IsFiniteSet(S) /\ l \in Nat /\ \A k \in 1 .. l : \E x \in S : Rank(x) = k - 1
  BY EveryRank
<1>2. f = [k \in 1 .. l |-> CHOOSE x \in S : Rank(x) = k - 1]
  BY DEF InOrder, Below
<1>3. \A x, y \in S : x < y => Rank(x) < Rank(y)
  BY RankGrows
<1>4. \A x \in S : Rank(x) \in Nat /\ Rank(x) + 1 <= l /\ x \in Nat
  <2> SUFFICES ASSUME NEW x \in S PROVE Rank(x) \in Nat /\ Rank(x) + 1 <= l /\ x \in Nat
    OBVIOUS
  <2>1. /\ Below(S, x) \in SUBSET (0 .. b - 1) /\ Below(S, x) \in SUBSET (S \ {x})
        /\ x \in Nat
    <3>1. x \in Nat /\ ~ (x < x)
      OBVIOUS
    <3>2. \A z : z \in Below(S, x) => z \in S \ {x}
      BY <3>1 DEF Below
    <3>3. QED
      BY <3>1, <3>2
  <2>2. Rank(x) \in Nat
    BY <2>1, EveryRank
  <2>3. IsFiniteSet(S \ {x}) /\ Cardinality(S \ {x}) = l - 1
    BY <1>1, FS_RemoveElement
  <2>4. Rank(x) <= l - 1
    BY <2>1, <2>3, FS_Subset
  <2>5. QED
    BY <1>1, <2>1, <2>2, <2>4
<1> HIDE DEF l, f, Rank
<1>5. \A k \in 1 .. l : f[k] \in S /\ Rank(f[k]) = k - 1
  BY <1>1, <1>2
<1>6. f \in [1 .. l -> S]
  BY <1>2, <1>5
<1>7. f \in Seq(S) /\ Len(f) = l /\ DOMAIN f = 1 .. l
  BY <1>1, <1>6
<1>8. ASSUME NEW i \in 1 .. l, NEW j \in 1 .. l, i < j PROVE f[i] < f[j]
  <2>1. f[i] \in S /\ f[j] \in S /\ Rank(f[i]) = i - 1 /\ Rank(f[j]) = j - 1
    BY <1>5
  <2>2. f[i] # f[j]
    <3>1. i - 1 # j - 1
      BY <1>1, <1>8
    <3>2. QED
      BY <2>1, <3>1
  <2>3. ~ (f[j] < f[i])
    <3>1. ASSUME f[j] < f[i] PROVE FALSE
      <4>1. Rank(f[j]) < Rank(f[i])
        BY <1>3, <2>1, <3>1, Zenon
      <4>2. j - 1 < i - 1
        BY <2>1, <4>1
      <4>3. QED
        BY <1>1, <1>8, <4>2
    <3>2. QED
      BY <3>1
  <2>4. f[i] \in Nat /\ f[j] \in Nat
    BY <1>4, <2>1
  <2>5. QED
    BY <2>2, <2>3, <2>4
<1>9. ASSUME NEW x \in S PROVE x \in SetOf(f)
  <2>1. Rank(x) + 1 \in 1 .. l
    BY <1>1, <1>4
  <2>2. f[Rank(x) + 1] \in S /\ Rank(f[Rank(x) + 1]) = Rank(x)
    BY <1>4, <1>5, <2>1
  <2>3. f[Rank(x) + 1] = x
    <3> DEFINE y == f[Rank(x) + 1]
    <3>1. y \in S /\ Rank(y) = Rank(x) /\ Rank(x) \in Nat /\ x \in Nat /\ y \in Nat
      BY <1>4, <2>2
    <3> HIDE DEF y
    <3>2. ~ (x < y) /\ ~ (y < x)
      <4>1. ~ (Rank(x) < Rank(x))
        BY <3>1
      <4>2. x < y => Rank(x) < Rank(y)
        BY <1>3, <3>1, Zenon
      <4>3. y < x => Rank(y) < Rank(x)
        BY <1>3, <3>1, Zenon
      <4>4. QED
        BY <3>1, <4>1, <4>2, <4>3
    <3>3. x = y
      BY <3>1, <3>2
    <3>4. QED
      BY <3>3 DEF y
  <2>4. QED
    BY <1>7, <2>1, <2>3 DEF SetOf
<1>10. SetOf(f) = S
  BY <1>5, <1>7, <1>9 DEF SetOf
<1>11. QED
  BY <1>7, <1>8, <1>10 DEF f, l

\* What is appended follows what was there.
LEMMA Appended ==
  ASSUME NEW S, NEW s \in Seq(S), NEW t \in Seq(S)
  PROVE  /\ s \o t \in Seq(S) /\ Len(s \o t) = Len(s) + Len(t)
         /\ \A i \in 1 .. Len(s) : (s \o t)[i] = s[i]
         /\ \A j \in 1 .. Len(t) : (s \o t)[Len(s) + j] = t[j]
<1>1. /\ s \o t \in Seq(S) /\ Len(s \o t) = Len(s) + Len(t)
      /\ Len(s) \in Nat /\ Len(t) \in Nat
  OBVIOUS
<1>2. \A i \in 1 .. Len(s) + Len(t) : (s \o t)[i] = IF i <= Len(s) THEN s[i] ELSE t[i - Len(s)]
  OBVIOUS
<1>3. \A i \in 1 .. Len(s) : i \in 1 .. Len(s) + Len(t) /\ i <= Len(s)
  BY <1>1
<1>4. \A j \in 1 .. Len(t) : /\ Len(s) + j \in 1 .. Len(s) + Len(t) /\ ~ (Len(s) + j <= Len(s))
                             /\ (Len(s) + j) - Len(s) = j
  BY <1>1
<1>5. QED
  BY <1>1, <1>2, <1>3, <1>4

-----------------------------------------------------------------------------
\* Lists of elements and packages.

\* A list without duplicates is no longer than what its entries are taken from.
LEMMA LengthBound ==
  ASSUME NEW b \in Nat, NEW s \in Seq(0 .. b - 1), ~HasDuplicates(s)
  PROVE  Len(s) <= b
<1>1. s \in [1 .. Len(s) -> 0 .. b - 1] /\ Len(s) \in Nat
  OBVIOUS
<1>2. \A i, j \in 1 .. Len(s) : s[i] = s[j] => i = j
  BY <1>1 DEF HasDuplicates
<1>3. s \in Injection(1 .. Len(s), 0 .. b - 1)
  BY <1>1, <1>2 DEF Injection, IsInjective
<1>4. IsFiniteSet(0 .. b - 1) /\ Cardinality(0 .. b - 1) = b
  <2>1. 0 \in Int /\ b - 1 \in Int
    OBVIOUS
  <2>2. IsFiniteSet(0 .. b - 1) /\ Cardinality(0 .. b - 1) = IF 0 > b - 1 THEN 0 ELSE (b - 1) - 0 + 1
    BY <2>1, FS_Interval
  <2>3. QED
    BY <2>2
<1>5. Cardinality(1 .. Len(s)) = Len(s)
  <2>1. 1 \in Int /\ Len(s) \in Int
    BY <1>1
  <2>2. Cardinality(1 .. Len(s)) = IF 1 > Len(s) THEN 0 ELSE Len(s) - 1 + 1
    BY <2>1, FS_Interval
  <2>3. QED
    BY <1>1, <2>2
<1>6. Cardinality(1 .. Len(s)) <= Cardinality(0 .. b - 1)
  BY <1>3, <1>4, FS_Injection
<1>7. QED
  BY <1>4, <1>5, <1>6

\* A sorted list has no duplicates.
LEMMA SortedHasNone ==
  ASSUME NEW b \in Nat, NEW S \in SUBSET (0 .. b - 1)
  PROVE  /\ InOrder(S) \in Seq(0 .. b - 1) /\ ~HasDuplicates(InOrder(S)) /\ SetOf(InOrder(S)) = S
         /\ DOMAIN InOrder(S) = 1 .. Len(InOrder(S)) /\ Len(InOrder(S)) = Cardinality(S)
<1> DEFINE f == InOrder(S)
<1>1. /\ f \in Seq(S) /\ SetOf(f) = S /\ Len(f) = Cardinality(S)
      /\ \A i, j \in 1 .. Len(f) : i < j => f[i] < f[j]
  BY InOrderLists
<1> HIDE DEF f
<1>2. f \in Seq(0 .. b - 1) /\ DOMAIN f = 1 .. Len(f) /\ Len(f) \in Nat
  <2>1. f \in [1 .. Len(f) -> S] /\ Len(f) \in Nat
    BY <1>1
  <2>2. \A i \in 1 .. Len(f) : f[i] \in 0 .. b - 1
    BY <2>1
  <2>3. f \in [1 .. Len(f) -> 0 .. b - 1]
    BY <2>1, <2>2
  <2>4. QED
    BY <2>1, <2>3
<1>3. \A i \in 1 .. Len(f) : f[i] \in 0 .. b - 1
  BY <1>2
<1>4. \A i, j \in 1 .. Len(f) : i # j => f[i] # f[j]
  <2> SUFFICES ASSUME NEW i \in 1 .. Len(f), NEW j \in 1 .. Len(f), i # j PROVE f[i] # f[j]
    OBVIOUS
  <2>1. i < j \/ j < i
    OBVIOUS
  <2>2. (i < j => f[i] < f[j]) /\ (j < i => f[j] < f[i]) /\ f[i] \in Int /\ f[j] \in Int
    BY <1>1, <1>3
  <2>3. QED
    BY <2>1, <2>2
<1>5. QED
  BY <1>1, <1>2, <1>4 DEF HasDuplicates, f

\* The package of an element, and the elements of a package.
LEMMA PackageArithmetic ==
  ASSUME NEW per \in Nat \ {0}, NEW w \in Nat
  PROVE  /\ \A i \in 0 .. w * per - 1 : i \div per \in 0 .. w - 1 /\ i % per \in 0 .. per - 1
                                         /\ i = (i \div per) * per + (i % per)
         /\ \A p \in Nat : \A r \in 0 .. per - 1 : /\ (p * per + r) \div per = p /\ (p * per + r) % per = r
                                                   /\ p * per + r \in Nat
         /\ \A p \in 0 .. w - 1 : \A r \in 0 .. per - 1 : p * per + r \in 0 .. w * per - 1
<1>1. \A x, y \in Nat : x < y => x * per + per <= y * per
  OBVIOUS
<1>2. \A x \in Nat : x * per \in Nat
  OBVIOUS
<1>3. ASSUME NEW i \in 0 .. w * per - 1
      PROVE i \div per \in 0 .. w - 1 /\ i % per \in 0 .. per - 1 /\ i = (i \div per) * per + (i % per)
  <2>1. i \in Nat /\ per >= 1 /\ i < w * per
    BY <1>2
  <2> DEFINE q == i \div per
  <2>2. q \in Nat /\ q * per <= i /\ i < q * per + per /\ i % per \in 0 .. per - 1 /\ i = q * per + (i % per)
    BY <2>1, QuotientBounds
  <2> HIDE DEF q
  <2>3. q < w
    <3>1. CASE q >= w
      <4>1. w * per <= q * per
        <5>1. q = w \/ w < q
          BY <2>2, <3>1
        <5>2. w < q => w * per + per <= q * per
          BY <2>2, <1>1
        <5>3. QED
          BY <5>1, <5>2, <1>2, <2>2
      <4>2. w * per \in Nat /\ q * per \in Nat
        BY <1>2, <2>2
      <4>3. QED
        BY <4>1, <4>2, <2>1, <2>2
    <3>2. QED
      BY <3>1, <2>2
  <2>4. QED
    BY <2>2, <2>3 DEF q
<1>4. ASSUME NEW p \in Nat, NEW r \in 0 .. per - 1
      PROVE (p * per + r) \div per = p /\ (p * per + r) % per = r /\ p * per + r \in Nat
  BY <1>2, QuotientAndRemainder
<1>5. ASSUME NEW p \in 0 .. w - 1, NEW r \in 0 .. per - 1 PROVE p * per + r \in 0 .. w * per - 1
  <2>1. p * per + per <= w * per
    BY <1>1
  <2>2. p * per \in Nat /\ w * per \in Nat
    BY <1>2
  <2>3. QED
    BY <2>1, <2>2
<1>6. QED
  BY <1>3, <1>4, <1>5

\* A package's elements are those whose quotient it is.
LEMMA ElementsOfPackage ==
  ASSUME NEW l, l.per \in Nat \ {0}, NEW p \in Nat
  PROVE  SetOf(PackageElements(l, p)) = {i \in Nat : PackageOf(l, i) = p}
<1> DEFINE per == l.per
<1>1. PackageElements(l, p) = [j \in 1 .. per |-> p * per + j - 1]
  BY DEF PackageElements
<1>2. SetOf(PackageElements(l, p)) = {p * per + j - 1 : j \in 1 .. per}
  BY <1>1 DEF SetOf
<1>3. per \in Nat \ {0}
  OBVIOUS
<1> HIDE DEF per
<1>4. ASSUME NEW j \in 1 .. per PROVE p * per + j - 1 \in Nat /\ (p * per + j - 1) \div per = p
  <2>1. j - 1 \in 0 .. per - 1 /\ p * per \in Nat
    BY <1>3
  <2>2. p * per + (j - 1) = p * per + j - 1
    BY <2>1, <1>3
  <2>3. QED
    BY <1>3, <2>1, <2>2, PackageArithmetic
<1>5. ASSUME NEW i \in Nat, i \div per = p PROVE \E j \in 1 .. per : i = p * per + j - 1
  <2>1. i % per \in 0 .. per - 1 /\ i = p * per + (i % per) /\ p * per \in Nat
    <3>1. per \in Nat /\ per >= 1
      BY <1>3
    <3>2. i % per \in 0 .. per - 1 /\ i = (i \div per) * per + (i % per)
      BY <3>1, QuotientBounds
    <3>3. p * per \in Nat
      BY <3>1
    <3>4. QED
      BY <1>5, <3>2, <3>3
  <2>2. (i % per) + 1 \in 1 .. per /\ i = p * per + ((i % per) + 1) - 1
    BY <2>1, <1>3
  <2>3. QED
    BY <2>2
<1>6. QED
  BY <1>2, <1>4, <1>5 DEF PackageOf, per

\* What a layer misses: what is in the packages of its queries and is not queried.
Missed(l, b, Q) == {i \in 0 .. b - 1 : PackageOf(l, i) \in PackageQueries(l, Q)} \ Q

\* What is required are the other elements of the packages, in order.
LEMMA RequiredElements ==
  ASSUME NEW l, l.per \in Nat \ {0}, NEW w \in Nat, NEW b, b = w * l.per, NEW Q \in SUBSET (0 .. b - 1)
  PROVE  LET required == ElementsRequiredToComputeHashes(l, Q)
         IN
         /\ required = InOrder(Missed(l, b, Q)) /\ SetOf(required) = Missed(l, b, Q)
         /\ required \in Seq(0 .. b - 1) /\ ~HasDuplicates(required)
         /\ DOMAIN required = 1 .. Len(required)
         /\ PackageQueries(l, Q) \subseteq 0 .. w - 1
<1> DEFINE per == l.per
           P == PackageQueries(l, Q)
           missed == {i \in 0 .. b - 1 : PackageOf(l, i) \in P} \ Q
           required == ElementsRequiredToComputeHashes(l, Q)
<1>1. P \subseteq 0 .. w - 1
  <2>1. per \in Nat \ {0}
    OBVIOUS
  <2>2. \A i \in 0 .. b - 1 : i \div per \in 0 .. w - 1
    <3>1. b = w * per
      OBVIOUS
    <3>2. QED
      BY <2>1, <3>1, PackageArithmetic
  <2>3. P = {i \div per : i \in Q}
    BY DEF PackageQueries, PackageOf
  <2> HIDE DEF P, per
  <2>4. QED
    BY <2>2, <2>3 DEF per
<1>2. UNION {SetOf(PackageElements(l, p)) : p \in P} = {i \in 0 .. b - 1 : PackageOf(l, i) \in P}
  <2>1. \A p \in P : p \in 0 .. w - 1 /\ p \in Nat
    BY <1>1
  <2> HIDE DEF P
  <2>2. \A p \in P : SetOf(PackageElements(l, p)) = {i \in Nat : PackageOf(l, i) = p}
    BY <2>1, ElementsOfPackage
  <2>3. ASSUME NEW i \in Nat, i \div per \in 0 .. w - 1 PROVE i \in 0 .. b - 1
    <3> DEFINE q == i \div per
               r == i % per
    <3>1. i = q * per + r /\ r \in 0 .. per - 1 /\ q \in 0 .. w - 1
      <4>1. per \in Nat /\ per >= 1
        OBVIOUS
      <4> HIDE DEF per
      <4>2. QED
        BY <2>3, <4>1, QuotientBounds
    <3> HIDE DEF q, r
    <3>2. q * per + r \in 0 .. b - 1
      <4>1. b = w * per
        OBVIOUS
      <4>2. QED
        BY <3>1, <4>1, PackageArithmetic
    <3>3. QED
      BY <3>1, <3>2
  <2>4. \A p \in P : {i \in Nat : PackageOf(l, i) = p} = {i \in 0 .. b - 1 : PackageOf(l, i) = p}
    BY <2>1, <2>3 DEF PackageOf
  <2> HIDE DEF per
  <2>5. QED
    BY <2>2, <2>4
<1>3. required = InOrder(missed)
  <2> DEFINE U == UNION {SetOf(PackageElements(l, p)) : p \in P}
             V == {i \in 0 .. b - 1 : PackageOf(l, i) \in P}
  <2>1. required = InOrder(U \ Q)
    <3>1. required = InOrder((UNION {SetOf(PackageElements(l, p)) : p \in P}) \ Q)
      BY DEF ElementsRequiredToComputeHashes, PackageQueries
    <3> HIDE DEF required, P
    <3>2. QED
      BY <3>1
  <2>2. U = V /\ missed = V \ Q
    BY <1>2
  <2> HIDE DEF U, V, required, missed
  <2>3. QED
    BY <2>1, <2>2
<1>4. missed \in SUBSET (0 .. b - 1) /\ b \in Nat
  OBVIOUS
<1> HIDE DEF missed, required
<1>5. SetOf(required) = missed /\ required \in Seq(0 .. b - 1) /\ ~HasDuplicates(required)
      /\ DOMAIN required = 1 .. Len(required)
  BY <1>3, <1>4, SortedHasNone
<1>6. QED
  BY <1>1, <1>3, <1>5 DEF missed, required, Missed

\* The elements of the packages that are asked for, each once.
LEMMA ElementsInPackages ==
  ASSUME NEW l, l.per \in Nat \ {0}, NEW w \in Nat, NEW A \in Seq(0 .. w - 1)
  PROVE  LET G == GetElementsInPackages(l, A) IN
         /\ G \in Seq(0 .. w * l.per - 1) /\ Len(G) = Len(A) * l.per /\ DOMAIN G = 1 .. Len(A) * l.per
         /\ \A j \in 1 .. Len(A) : \A r \in 1 .. l.per :
              /\ (j - 1) * l.per + r \in 1 .. Len(A) * l.per
              /\ G[(j - 1) * l.per + r] = A[j] * l.per + r - 1
         /\ \A k \in 1 .. Len(A) * l.per : PackageOf(l, G[k]) = A[((k - 1) \div l.per) + 1]
         /\ \A x \in SetOf(G) : PackageOf(l, x) \in SetOf(A)
         /\ ~HasDuplicates(A) => ~HasDuplicates(G)
<1> DEFINE per == l.per
           n == Len(A)
           G == GetElementsInPackages(l, A)
<1>1. per \in Nat \ {0} /\ n \in Nat /\ n * per \in Nat
  OBVIOUS
<1>2. G = [k \in 1 .. n * per |-> PackageElements(l, A[((k - 1) \div per) + 1])[((k - 1) % per) + 1]]
  BY DEF GetElementsInPackages
<1>3. \A p : \A r \in 1 .. per : PackageElements(l, p)[r] = p * per + r - 1
  BY DEF PackageElements
<1>4. \A j \in 1 .. n : A[j] \in 0 .. w - 1
  OBVIOUS
<1> HIDE DEF G, per, n
<1>5. ASSUME NEW k \in 1 .. n * per
      PROVE  LET j == ((k - 1) \div per) + 1
                 r == (k - 1) % per IN
             /\ j \in 1 .. n /\ r \in 0 .. per - 1 /\ k - 1 = (j - 1) * per + r
             /\ G[k] = A[j] * per + r /\ G[k] \in 0 .. w * per - 1 /\ G[k] \div per = A[j] /\ G[k] % per = r
  <2> DEFINE j == ((k - 1) \div per) + 1
             r == (k - 1) % per
  <2>1. k - 1 \in 0 .. n * per - 1
    BY <1>1
  <2>2. (k - 1) \div per \in 0 .. n - 1 /\ r \in 0 .. per - 1 /\ k - 1 = ((k - 1) \div per) * per + r
    BY <1>1, <2>1, PackageArithmetic
  <2>3. j \in 1 .. n /\ j - 1 = (k - 1) \div per
    BY <1>1, <2>2
  <2>4. G[k] = PackageElements(l, A[j])[r + 1]
    BY <1>2
  <2> HIDE DEF j, r
  <2>5. r + 1 \in 1 .. per /\ A[j] \in 0 .. w - 1 /\ A[j] \in Nat
    BY <1>1, <1>4, <2>2, <2>3
  <2>6. G[k] = A[j] * per + (r + 1) - 1
    BY <1>3, <2>4, <2>5
  <2>7. A[j] * per \in Nat /\ r \in Nat
    BY <1>1, <2>2, <2>5
  <2>8. G[k] = A[j] * per + r
    BY <2>6, <2>7
  <2>9. (A[j] * per + r) \div per = A[j] /\ (A[j] * per + r) % per = r /\ A[j] * per + r \in 0 .. w * per - 1
    BY <1>1, <2>2, <2>5, PackageArithmetic
  <2>10. QED
    BY <2>2, <2>3, <2>8, <2>9 DEF j, r
<1>6. G \in Seq(0 .. w * per - 1) /\ Len(G) = n * per /\ DOMAIN G = 1 .. n * per
  <2>1. \A k \in 1 .. n * per : G[k] \in 0 .. w * per - 1
    BY <1>5
  <2>2. G = [k \in 1 .. n * per |-> G[k]]
    BY <1>2
  <2>3. G \in [1 .. n * per -> 0 .. w * per - 1]
    BY <2>1, <2>2
  <2>4. QED
    BY <1>1, <2>3
<1>7. ASSUME NEW j \in 1 .. n, NEW r \in 1 .. per
      PROVE  (j - 1) * per + r \in 1 .. n * per /\ G[(j - 1) * per + r] = A[j] * per + r - 1
  <2>1. j - 1 \in 0 .. n - 1 /\ r - 1 \in 0 .. per - 1 /\ j - 1 \in Nat
    BY <1>1
  <2>2. (j - 1) * per + (r - 1) \in 0 .. n * per - 1 /\ ((j - 1) * per + (r - 1)) \div per = j - 1
        /\ ((j - 1) * per + (r - 1)) % per = r - 1
    BY <1>1, <2>1, PackageArithmetic
  <2> DEFINE k == (j - 1) * per + r
  <2>3. (j - 1) * per \in Nat
    BY <1>1, <2>1
  <2>4. k - 1 = (j - 1) * per + (r - 1) /\ k \in 1 .. n * per
    BY <1>1, <2>2, <2>3
  <2>5. (k - 1) \div per = j - 1 /\ (k - 1) % per = r - 1
    BY <2>2, <2>4
  <2> HIDE DEF k
  <2>6. G[k] = A[((k - 1) \div per) + 1] * per + ((k - 1) % per)
    BY <1>5, <2>4
  <2>7. ((k - 1) \div per) + 1 = j
    BY <2>5
  <2>8. G[k] = A[j] * per + (r - 1)
    BY <2>5, <2>6, <2>7
  <2>9. A[j] * per \in Nat
    BY <1>1, <1>4
  <2>10. A[j] * per + (r - 1) = A[j] * per + r - 1
    BY <2>9
  <2>11. QED
    BY <2>4, <2>8, <2>10 DEF k
<1>8. \A k \in 1 .. n * per : G[k] \div per = A[((k - 1) \div per) + 1]
  BY <1>5
<1>9. ASSUME NEW x \in SetOf(G) PROVE x \div per \in SetOf(A)
  <2>1. PICK k \in 1 .. n * per : x = G[k]
    BY <1>6 DEF SetOf
  <2>2. ((k - 1) \div per) + 1 \in 1 .. n /\ DOMAIN A = 1 .. n
    BY <1>5 DEF n
  <2>3. QED
    BY <1>8, <2>1, <2>2 DEF SetOf
<1>10. ASSUME ~HasDuplicates(A), NEW k \in 1 .. n * per, NEW m \in 1 .. n * per, G[k] = G[m] PROVE k = m
  <2> DEFINE j == ((k - 1) \div per) + 1
             i == ((m - 1) \div per) + 1
             r == (k - 1) % per
             s == (m - 1) % per
  <2>1. j \in 1 .. n /\ r \in 0 .. per - 1 /\ k - 1 = (j - 1) * per + r /\ G[k] \div per = A[j] /\ G[k] % per = r
    BY <1>5
  <2>2. i \in 1 .. n /\ s \in 0 .. per - 1 /\ m - 1 = (i - 1) * per + s /\ G[m] \div per = A[i] /\ G[m] % per = s
    BY <1>5
  <2> HIDE DEF j, i, r, s
  <2>3. A[i] = A[j] /\ r = s
    BY <1>10, <2>1, <2>2
  <2>4. i = j
    <3>1. DOMAIN A = 1 .. n
      BY DEF n
    <3>2. QED
      BY <1>10, <2>1, <2>2, <2>3, <3>1 DEF HasDuplicates
  <2>5. k - 1 = m - 1
    BY <2>1, <2>2, <2>3, <2>4
  <2>6. QED
    BY <2>5, <1>1
<1>11. ~HasDuplicates(A) => ~HasDuplicates(G)
  BY <1>6, <1>10 DEF HasDuplicates
<1>12. QED
  BY <1>6, <1>7, <1>8, <1>9, <1>11 DEF PackageOf, per, n, G

-----------------------------------------------------------------------------
\* Levels and layers.

\* The numbers of a configuration.
LEMMA ConfigTypes ==
  ASSUME config \in Configurations
  PROVE  /\ Height \in Nat /\ config.height = Height /\ config.log_segments \in 0 .. Height
         /\ config.per_package \in Nat \ {0} /\ config.columns \in Nat \ {0}
         /\ config.out_of_memory \in Nat /\ config.friendly \in Nat
<1>1. config \in Config /\ config.log_segments <= config.height
  BY ConfigurationsAssumption
<1>2. QED
  BY <1>1 DEF Config, Height

\* A level is Per times as wide as the next.
LEMMA Widths ==
  ASSUME config \in Configurations
  PROVE  /\ \A k \in 0 .. Height + 1 : Width(k) \in Nat \ {0} /\ Per(k) \in Nat \ {0} /\ DepthAt(k) \in 0 .. Height + 1
         /\ \A k \in 0 .. Height : Width(k) = Width(k + 1) * Per(k)
         /\ Width(Height + 1) = 1
<1>1. Height \in Nat /\ config.per_package \in Nat \ {0}
  BY ConfigTypes
<1>2. ASSUME NEW k \in 0 .. Height + 1
      PROVE Width(k) \in Nat \ {0} /\ Per(k) \in Nat \ {0} /\ DepthAt(k) \in 0 .. Height + 1
  <2>1. DepthAt(k) \in 0 .. Height + 1 /\ Per(k) \in Nat \ {0}
    BY <1>1 DEF DepthAt, Per
  <2>2. Pow2[Height] \in Nat \ {0} /\ Pow2[DepthAt(k)] \in Nat \ {0}
    BY <1>1, <2>1, Pow2Values
  <2>3. Pow2[Height] * config.per_package \in Nat \ {0}
    BY <1>1, <2>2
  <2>4. QED
    BY <2>1, <2>2, <2>3 DEF Width
<1>3. ASSUME NEW k \in 0 .. Height PROVE Width(k) = Width(k + 1) * Per(k)
  <2>1. CASE k = 0
    <3>1. DepthAt(0 + 1) = Height /\ 0 + 1 # 0
      BY <1>1 DEF DepthAt
    <3>2. Width(0 + 1) = Pow2[Height] /\ Width(0) = Pow2[Height] * config.per_package /\ Per(0) = config.per_package
      BY <3>1 DEF Width, Per
    <3>3. QED
      BY <2>1, <3>2
  <2>2. CASE k # 0
    <3>1. DepthAt(k + 1) \in Nat /\ DepthAt(k) = DepthAt(k + 1) + 1 /\ k + 1 # 0
      BY <1>1 DEF DepthAt
    <3>2. Width(k) = Pow2[DepthAt(k + 1) + 1] /\ Width(k + 1) = Pow2[DepthAt(k + 1)] /\ Per(k) = 2
      BY <2>2, <3>1 DEF Width, Per
    <3>3. QED
      BY <3>1, <3>2, Pow2Values
  <2>3. QED
    BY <2>1, <2>2
<1>4. Width(Height + 1) = 1
  <2>1. DepthAt(Height + 1) = 0 /\ Height + 1 # 0
    BY <1>1 DEF DepthAt
  <2>2. QED
    BY <2>1, Pow2Values DEF Width
<1>5. QED
  BY <1>2, <1>3, <1>4

\* The queries of the next level are those of the packages.
LEMMA LevelQueries ==
  ASSUME config \in Configurations, rows \subseteq 0 .. Width(0) - 1, rows # {}
  PROVE  /\ \A k \in 0 .. Height + 1 : QueriesAt(k) \subseteq 0 .. Width(k) - 1 /\ QueriesAt(k) # {}
         /\ \A k \in 0 .. Height : QueriesAt(k + 1) = {i \div Per(k) : i \in QueriesAt(k)}
         /\ QueriesAt(0) = rows
<1>1. Height \in Nat /\ config.per_package \in Nat \ {0}
  BY ConfigTypes
<1>2. \A i \in rows : i \in Nat
  <2>1. 0 \in 0 .. Height + 1
    BY <1>1
  <2>2. Width(0) \in Nat
    BY <2>1, Widths
  <2>3. QED
    BY <2>2
<1>3. \A i \in rows : i \div config.per_package \in Nat
  <2>1. ASSUME NEW i \in rows PROVE i \div config.per_package \in Nat
    <3>1. i \in Nat /\ config.per_package \in Nat /\ config.per_package >= 1
      BY <1>1, <1>2
    <3>2. QED
      BY <3>1, QuotientBounds
  <2>2. QED
    BY <2>1
<1>4. QueriesAt(0) = rows
  BY DEF QueriesAt
<1>5. ASSUME NEW k \in 0 .. Height PROVE QueriesAt(k + 1) = {i \div Per(k) : i \in QueriesAt(k)}
  <2>1. CASE k = 0
    <3>1. QueriesAt(0 + 1) = {(i \div config.per_package) \div Pow2[0] : i \in rows}
      BY DEF QueriesAt
    <3>2. \A i \in rows : (i \div config.per_package) \div Pow2[0] = i \div config.per_package
      BY <1>3, Halves
    <3>3. QueriesAt(0 + 1) = {i \div config.per_package : i \in rows}
      BY <3>1, <3>2
    <3>4. Per(0) = config.per_package
      BY DEF Per
    <3>5. QED
      BY <2>1, <3>3, <3>4, <1>4
  <2>2. CASE k # 0
    <3>1. k \in Nat /\ k + 1 # 0 /\ (k + 1) - 1 = k /\ k - 1 \in Nat /\ (k - 1) + 1 = k
      BY <2>2
    <3>2. /\ QueriesAt(k + 1) = {(i \div config.per_package) \div Pow2[k] : i \in rows}
          /\ QueriesAt(k) = {(i \div config.per_package) \div Pow2[k - 1] : i \in rows}
          /\ Per(k) = 2
      BY <2>2, <3>1 DEF QueriesAt, Per
    <3>3. \A n \in Nat : (n \div Pow2[k - 1]) \div 2 = n \div Pow2[(k - 1) + 1]
      BY <3>1, Halves
    <3>4. \A i \in rows : ((i \div config.per_package) \div Pow2[k - 1]) \div 2 = (i \div config.per_package) \div Pow2[k]
      BY <1>3, <3>1, <3>3
    <3>5. QED
      BY <3>2, <3>4
  <2>3. QED
    BY <2>1, <2>2
<1> DEFINE T == {k \in Nat : k <= Height + 1 => QueriesAt(k) \subseteq 0 .. Width(k) - 1 /\ QueriesAt(k) # {}}
<1>6. 0 \in T
  BY <1>4
<1>7. ASSUME NEW k \in Nat, k \in T PROVE k + 1 \in T
  <2>1. SUFFICES ASSUME k + 1 <= Height + 1
                 PROVE  QueriesAt(k + 1) \subseteq 0 .. Width(k + 1) - 1 /\ QueriesAt(k + 1) # {}
    OBVIOUS
  <2>2. k \in 0 .. Height /\ k <= Height + 1 /\ k \in 0 .. Height + 1 /\ k + 1 \in 0 .. Height + 1
    BY <1>1, <2>1
  <2>3. QueriesAt(k) \subseteq 0 .. Width(k) - 1 /\ QueriesAt(k) # {}
    BY <1>7, <2>2
  <2>4. Width(k) = Width(k + 1) * Per(k) /\ Width(k + 1) \in Nat /\ Per(k) \in Nat \ {0}
    BY <2>2, Widths
  <2>5. \A i \in 0 .. Width(k) - 1 : i \div Per(k) \in 0 .. Width(k + 1) - 1
    BY <2>4, PackageArithmetic
  <2>6. QED
    BY <1>5, <2>2, <2>3, <2>5
<1>8. \A k \in Nat : k \in T
  <2> HIDE DEF T
  <2>1. QED
    BY <1>6, <1>7, SetInduction
<1>9. \A k \in 0 .. Height + 1 : k \in Nat /\ k <= Height + 1
  BY <1>1
<1>10. QED
  BY <1>4, <1>5, <1>8, <1>9

\* The verifier's layers.
LEMMA VerifiersLayers ==
  ASSUME config \in Configurations
  PROVE  /\ DOMAIN VerifierLayers(config) = 1 .. Height + 2
         /\ LayerAt(0) = Rows(config)
         /\ \A k \in 1 .. Height : LayerAt(k) = Packaging(DepthAt(k), 2, Friendly(config, DepthAt(k)))
         /\ LayerAt(Height + 1).kind = "merkle" /\ LayerAt(Height + 1).per = 1 /\ LayerAt(Height + 1).depth = 0
<1> DEFINE n_friendly == IF config.height < config.friendly THEN config.height ELSE config.friendly
           first == <<Rows(config)>>
           middle == [j \in 1 .. config.height |-> Packaging(config.height - j + 1, 2, config.height - j < n_friendly)]
           last == <<Merkle(0, n_friendly > 0)>>
<1>1. Height \in Nat /\ config.height = Height /\ config.friendly \in Nat
  BY ConfigTypes
<1>2. VerifierLayers(config) = (first \o middle) \o last
  BY DEF VerifierLayers
<1> DEFINE S == {Rows(config)} \cup {Packaging(config.height - j + 1, 2, config.height - j < n_friendly) : j \in 1 .. config.height}
                  \cup {Merkle(0, n_friendly > 0)}
<1>3. first \in Seq(S) /\ last \in Seq(S) /\ middle \in Seq(S) /\ Len(middle) = Height /\ Len(first) = 1 /\ Len(last) = 1
      /\ first[1] = Rows(config) /\ last[1] = Merkle(0, n_friendly > 0)
  <2>1. middle \in [1 .. Height -> S]
    BY <1>1
  <2>2. middle \in Seq(S) /\ Len(middle) = Height
    BY <1>1, <2>1
  <2>3. Rows(config) \in S /\ Merkle(0, n_friendly > 0) \in S
    OBVIOUS
  <2> HIDE DEF S, middle
  <2>4. QED
    BY <2>2, <2>3
<1> HIDE DEF S, first, last
<1>4. /\ first \o middle \in Seq(S) /\ Len(first \o middle) = 1 + Height
      /\ (first \o middle)[1] = Rows(config)
      /\ \A j \in 1 .. Height : (first \o middle)[1 + j] = middle[j]
  <2> HIDE DEF middle
  <2>1. 1 \in 1 .. Len(first) /\ Height \in Nat
    BY <1>1, <1>3
  <2>2. /\ first \o middle \in Seq(S) /\ Len(first \o middle) = Len(first) + Len(middle)
        /\ \A j \in 1 .. Len(first) : (first \o middle)[j] = first[j]
        /\ \A j \in 1 .. Len(middle) : (first \o middle)[Len(first) + j] = middle[j]
    <3>1. first \in Seq(S) /\ middle \in Seq(S)
      BY <1>3
    <3>2. QED
      BY <3>1, Appended
  <2>3. QED
    BY <1>3, <2>1, <2>2
<1>5. /\ (first \o middle) \o last \in Seq(S) /\ Len((first \o middle) \o last) = (1 + Height) + 1
      /\ \A j \in 1 .. 1 + Height : ((first \o middle) \o last)[j] = (first \o middle)[j]
      /\ ((first \o middle) \o last)[(1 + Height) + 1] = Merkle(0, n_friendly > 0)
  <2> DEFINE s == first \o middle
  <2> HIDE DEF middle
  <2>1. s \in Seq(S) /\ Len(s) = 1 + Height
    BY <1>4
  <2> HIDE DEF s
  <2>2. /\ s \o last \in Seq(S) /\ Len(s \o last) = Len(s) + Len(last)
        /\ \A j \in 1 .. Len(s) : (s \o last)[j] = s[j]
        /\ \A j \in 1 .. Len(last) : (s \o last)[Len(s) + j] = last[j]
    <3>1. s \in Seq(S) /\ last \in Seq(S)
      BY <1>3, <2>1
    <3>2. QED
      BY <3>1, Appended
  <2>3. 1 \in 1 .. Len(last)
    BY <1>3
  <2>4. QED
    BY <1>3, <2>1, <2>2, <2>3 DEF s
<1>6. LayerAt(0) = Rows(config)
  <2>1. 1 \in 1 .. 1 + Height /\ 0 + 1 = 1
    BY <1>1
  <2>2. QED
    BY <1>2, <1>4, <1>5, <2>1 DEF LayerAt
<1>7. ASSUME NEW k \in 1 .. Height PROVE LayerAt(k) = Packaging(DepthAt(k), 2, Friendly(config, DepthAt(k)))
  <2>1. k + 1 \in 1 .. 1 + Height /\ k + 1 = 1 + k
    BY <1>1
  <2>2. LayerAt(k) = middle[k]
    <3> HIDE DEF middle
    <3>1. QED
      BY <1>2, <1>4, <1>5, <2>1 DEF LayerAt
  <2>3. middle[k] = Packaging(Height - k + 1, 2, Height - k < n_friendly)
    BY <1>1
  <2>4. Height - k + 1 = DepthAt(k) /\ (Height - k < n_friendly <=> DepthAt(k) <= config.friendly)
    BY <1>1 DEF DepthAt
  <2>5. (Height - k < n_friendly) = Friendly(config, DepthAt(k))
    BY <1>1, <2>4 DEF Friendly
  <2> HIDE DEF middle, n_friendly
  <2>6. QED
    BY <2>2, <2>3, <2>4, <2>5
<1>8. LayerAt(Height + 1) = Merkle(0, n_friendly > 0)
  <2>1. (Height + 1) + 1 = (1 + Height) + 1
    BY <1>1
  <2>2. QED
    BY <1>2, <1>5, <2>1 DEF LayerAt
<1>9. DOMAIN VerifierLayers(config) = 1 .. Height + 2
  <2>1. (1 + Height) + 1 = Height + 2
    BY <1>1
  <2> HIDE DEF middle
  <2>2. QED
    BY <1>2, <1>5, <2>1
<1>10. QED
  BY <1>6, <1>7, <1>8, <1>9 DEF Merkle

\* The layers of the stack.
LEMMA StackFacts ==
  ASSUME Stacked
  PROVE  /\ Innermost \in Nat /\ Innermost >= 2 /\ Innermost >= Height - config.log_segments + 2
         /\ DOMAIN layers = 1 .. Innermost
         /\ \A j \in 1 .. Innermost :
              /\ layers[j].depth \in config.log_segments .. Height + 1
              /\ Level(layers[j]) \in 0 .. Height + 1 /\ DepthAt(Level(layers[j])) = layers[j].depth
              /\ NumElements(layers[j]) = Width(Level(layers[j]))
              /\ layers[j].kind \in {"packaging", "caching", "merkle"}
              /\ layers[j].kind = "merkle" <=> j = Innermost
              /\ layers[j].depth = Height + 1 <=> j = 1
              /\ layers[j].kind = "packaging" =>
                   /\ layers[j].per = Per(Level(layers[j])) /\ Level(layers[j]) \in 0 .. Height
                   /\ layers[j].depth \in config.log_segments + 1 .. Height + 1
                   /\ layers[j].depth <= Height => layers[j].top = Friendly(config, layers[j].depth)
         /\ Level(layers[1]) = 0 /\ layers[1].kind = "packaging"
         /\ \A j \in 1 .. Innermost - 1 :
              Level(layers[j + 1]) = Level(layers[j]) + (IF layers[j].kind = "packaging" THEN 1 ELSE 0)
<1>1. /\ Height \in Nat /\ config.height = Height /\ config.log_segments \in 0 .. Height
      /\ config.per_package \in Nat \ {0}
  BY ConfigTypes DEF Stacked
<1>2. Innermost \in Nat /\ Innermost >= 2 /\ Innermost >= Height - config.log_segments + 2 /\ DOMAIN layers = 1 .. Innermost
  <2>1. layers = [j \in 1 .. Innermost |-> layers[j]] /\ Innermost >= Height - config.log_segments + 2
    BY DEF Stacked
  <2>2. DOMAIN layers = 1 .. Innermost
    BY <2>1
  <2>3. Innermost \in Nat
    BY <2>1 DEF Innermost
  <2>4. QED
    BY <1>1, <2>1, <2>2, <2>3
<1>3. layers[1] = Rows(config) /\ layers[Innermost] = Merkle(config.log_segments, config.friendly > 0)
  BY DEF Stacked
<1>4. \A j \in 2 .. Innermost - 1 : InnerLayer(layers[j])
  BY DEF Stacked
<1>5. \A j \in 1 .. Innermost - 1 :
        layers[j + 1].depth = layers[j].depth - (IF layers[j].kind = "packaging" THEN 1 ELSE 0)
  BY DEF Stacked
<1>6. layers[1].depth = Height + 1 /\ layers[1].kind = "packaging" /\ layers[1].per = config.per_package
  BY <1>1, <1>3 DEF Rows, Packaging
<1>7. layers[Innermost].depth = config.log_segments /\ layers[Innermost].kind = "merkle"
  BY <1>3 DEF Merkle
<1>8. ASSUME NEW j \in 2 .. Innermost - 1
      PROVE  /\ layers[j].depth \in config.log_segments + 1 .. Height
             /\ \/ layers[j].kind = "caching"
                \/ layers[j].kind = "packaging" /\ layers[j].per = 2 /\ layers[j].top = Friendly(config, layers[j].depth)
  BY <1>4 DEF InnerLayer, Caching, Packaging
<1>9. \A j \in 1 .. Innermost : j = 1 \/ j = Innermost \/ j \in 2 .. Innermost - 1
  BY <1>2
<1>10. \A j \in 1 .. Innermost : layers[j].depth \in config.log_segments .. Height + 1
  BY <1>1, <1>6, <1>7, <1>8, <1>9
<1>11. ASSUME NEW j \in 1 .. Innermost
       PROVE  /\ Level(layers[j]) \in 0 .. Height + 1 /\ DepthAt(Level(layers[j])) = layers[j].depth
              /\ layers[j].depth = Height + 1 <=> Level(layers[j]) = 0
  BY <1>1, <1>10 DEF Level, DepthAt
<1>12. ASSUME NEW j \in 1 .. Innermost
       PROVE  NumElements(layers[j]) = Width(Level(layers[j]))
  <2>1. layers[j].depth > config.height <=> Level(layers[j]) = 0
    BY <1>1, <1>10, <1>11
  <2>2. QED
    BY <1>1, <1>11, <2>1 DEF NumElements, Width
<1>13. ASSUME NEW j \in 1 .. Innermost
       PROVE  /\ layers[j].kind \in {"packaging", "caching", "merkle"}
              /\ layers[j].kind = "merkle" <=> j = Innermost
              /\ layers[j].depth = Height + 1 <=> j = 1
  <2>1. CASE j = 1
    BY <1>1, <1>2, <1>6, <2>1
  <2>2. CASE j = Innermost
    BY <1>1, <1>2, <1>7, <2>2
  <2>3. CASE j \in 2 .. Innermost - 1
    <3>1. layers[j].depth \in config.log_segments + 1 .. Height /\ layers[j].kind \in {"packaging", "caching"}
      BY <1>8, <2>3
    <3>2. layers[j].depth # Height + 1 /\ j # 1 /\ j # Innermost /\ layers[j].kind # "merkle"
      BY <1>1, <1>2, <2>3, <3>1
    <3>3. QED
      BY <3>1, <3>2
  <2>4. QED
    BY <1>9, <2>1, <2>2, <2>3
<1>14. ASSUME NEW j \in 1 .. Innermost, layers[j].kind = "packaging"
       PROVE  /\ layers[j].per = Per(Level(layers[j])) /\ Level(layers[j]) \in 0 .. Height
              /\ layers[j].depth \in config.log_segments + 1 .. Height + 1
              /\ layers[j].depth <= Height => layers[j].top = Friendly(config, layers[j].depth)
  <2>1. CASE j = 1
    BY <1>1, <1>6, <2>1 DEF Level, Per
  <2>2. CASE j \in 2 .. Innermost - 1
    <3>1. layers[j].depth \in config.log_segments + 1 .. Height /\ layers[j].per = 2 /\ layers[j].top = Friendly(config, layers[j].depth)
      BY <1>8, <1>14, <2>2
    <3>2. Level(layers[j]) \in 1 .. Height
      BY <1>1, <3>1 DEF Level
    <3>3. QED
      BY <1>1, <3>1, <3>2 DEF Per
  <2>3. QED
    BY <1>9, <1>13, <1>14, <2>1, <2>2
<1>15. Level(layers[1]) = 0
  BY <1>1, <1>6 DEF Level
<1>16. ASSUME NEW j \in 1 .. Innermost - 1
       PROVE  Level(layers[j + 1]) = Level(layers[j]) + (IF layers[j].kind = "packaging" THEN 1 ELSE 0)
  <2>1. j \in 1 .. Innermost /\ layers[j + 1].depth = layers[j].depth - (IF layers[j].kind = "packaging" THEN 1 ELSE 0)
    BY <1>2, <1>5
  <2>2. layers[j].depth \in Nat
    BY <1>1, <1>10, <2>1
  <2>3. QED
    BY <1>1, <2>1, <2>2 DEF Level
<1>17. QED
  BY <1>2, <1>6, <1>10, <1>11, <1>12, <1>13, <1>14, <1>15, <1>16

-----------------------------------------------------------------------------
\* Hashes and requests of the layers.

\* A layer of a level misses what the verifier's layer of the level does.
LEMMA RequiredOfLevel ==
  ASSUME config \in Configurations, rows \subseteq 0 .. Width(0) - 1, rows # {},
         NEW k \in 0 .. Height, NEW l, l.per = Per(k)
  PROVE  /\ ElementsRequiredToComputeHashes(l, QueriesAt(k)) = RequiredAt(k)
         /\ PackageQueries(l, QueriesAt(k)) = QueriesAt(k + 1)
         /\ RequiredAt(k) = InOrder({i \in 0 .. Width(k) - 1 : i \div Per(k) \in QueriesAt(k + 1)} \ QueriesAt(k))
         /\ SetOf(RequiredAt(k)) = {i \in 0 .. Width(k) - 1 : i \div Per(k) \in QueriesAt(k + 1)} \ QueriesAt(k)
         /\ RequiredAt(k) \in Seq(0 .. Width(k) - 1) /\ ~HasDuplicates(RequiredAt(k))
         /\ DOMAIN RequiredAt(k) = 1 .. Len(RequiredAt(k))
<1>1. /\ Height \in Nat /\ k \in 0 .. Height + 1 /\ k + 1 \in 0 .. Height + 1
  BY ConfigTypes
<1>2. Per(k) \in Nat \ {0} /\ Width(k + 1) \in Nat /\ Width(k) = Width(k + 1) * Per(k)
  BY <1>1, Widths
<1>3. QueriesAt(k) \in SUBSET (0 .. Width(k) - 1) /\ QueriesAt(k + 1) = {i \div Per(k) : i \in QueriesAt(k)}
  BY <1>1, LevelQueries
<1>4. LayerAt(k).per = Per(k)
  <2>1. CASE k = 0
    BY <2>1, VerifiersLayers DEF Rows, Packaging, Per
  <2>2. CASE k # 0
    <3>1. k \in 1 .. Height
      BY <2>2
    <3>2. QED
      BY <2>2, <3>1, VerifiersLayers DEF Packaging, Per
  <2>3. QED
    BY <2>1, <2>2
<1>5. ASSUME NEW m, m.per = Per(k)
      PROVE  /\ PackageQueries(m, QueriesAt(k)) = QueriesAt(k + 1)
             /\ LET required == ElementsRequiredToComputeHashes(m, QueriesAt(k))
                    missed == {i \in 0 .. Width(k) - 1 : i \div Per(k) \in QueriesAt(k + 1)} \ QueriesAt(k) IN
                /\ required = InOrder(missed) /\ SetOf(required) = missed
                /\ required \in Seq(0 .. Width(k) - 1) /\ ~HasDuplicates(required)
                /\ DOMAIN required = 1 .. Len(required)
  <2> DEFINE required == ElementsRequiredToComputeHashes(m, QueriesAt(k))
             missed == {i \in 0 .. Width(k + 1) * m.per - 1 : PackageOf(m, i) \in PackageQueries(m, QueriesAt(k))} \ QueriesAt(k)
  <2>1. PackageQueries(m, QueriesAt(k)) = QueriesAt(k + 1)
    BY <1>3, <1>5 DEF PackageQueries, PackageOf
  <2>2. missed = {i \in 0 .. Width(k) - 1 : i \div Per(k) \in QueriesAt(k + 1)} \ QueriesAt(k)
    BY <1>2, <1>5, <2>1 DEF PackageOf
  <2>3. m.per \in Nat \ {0} /\ QueriesAt(k) \in SUBSET (0 .. Width(k + 1) * m.per - 1) /\ Width(k + 1) * m.per = Width(k)
    BY <1>2, <1>3, <1>5
  <2>4. /\ required = InOrder(missed) /\ SetOf(required) = missed
        /\ required \in Seq(0 .. Width(k + 1) * m.per - 1) /\ ~HasDuplicates(required)
        /\ DOMAIN required = 1 .. Len(required)
    <3> DEFINE Q == QueriesAt(k)
               w == Width(k + 1)
               b == w * m.per
    <3>1. w \in Nat /\ m.per \in Nat \ {0} /\ Q \in SUBSET (0 .. b - 1) /\ b = w * m.per
      BY <1>2, <2>3
    <3> HIDE DEF Q, w, b
    <3>2. LET rq == ElementsRequiredToComputeHashes(m, Q)
          IN
          /\ rq = InOrder(Missed(m, b, Q)) /\ SetOf(rq) = Missed(m, b, Q)
          /\ rq \in Seq(0 .. b - 1) /\ ~HasDuplicates(rq)
          /\ DOMAIN rq = 1 .. Len(rq)
      BY ONLY <3>1, RequiredElements
    <3>3. QED
      BY <3>2 DEF Q, w, b, Missed
  <2> HIDE DEF required, missed
  <2>5. QED
    BY <2>1, <2>2, <2>3, <2>4 DEF required
<1>6. /\ RequiredAt(k) = InOrder({i \in 0 .. Width(k) - 1 : i \div Per(k) \in QueriesAt(k + 1)} \ QueriesAt(k))
      /\ SetOf(RequiredAt(k)) = {i \in 0 .. Width(k) - 1 : i \div Per(k) \in QueriesAt(k + 1)} \ QueriesAt(k)
      /\ RequiredAt(k) \in Seq(0 .. Width(k) - 1) /\ ~HasDuplicates(RequiredAt(k))
      /\ DOMAIN RequiredAt(k) = 1 .. Len(RequiredAt(k))
  BY <1>4, <1>5 DEF RequiredAt
<1>7. /\ PackageQueries(l, QueriesAt(k)) = QueriesAt(k + 1)
      /\ ElementsRequiredToComputeHashes(l, QueriesAt(k)) =
           InOrder({i \in 0 .. Width(k) - 1 : i \div Per(k) \in QueriesAt(k + 1)} \ QueriesAt(k))
  BY <1>5
<1>8. QED
  BY <1>6, <1>7

\* Of the kind that a layer should have.
RightKind(l) ==
  l.kind = "packaging" /\ l.depth <= config.height => l.top = Friendly(config, l.depth)

\* The hash of a package's elements is right.
LEMMA RightHash ==
  ASSUME NEW l, l.per \in Nat \ {0}, RightKind(l), NEW p \in Nat, NEW elements,
         elements = [r \in 1 .. l.per |-> Node(l, p * l.per + r - 1)]
  PROVE  HashPackage(l, p, elements) = <<l.depth - 1, p>>
<1>1. PackageElements(l, p) = [r \in 1 .. l.per |-> p * l.per + r - 1]
  BY DEF PackageElements
<1>2. [r \in 1 .. l.per |-> Node(l, PackageElements(l, p)[r])] = elements
  BY <1>1
<1>3. QED
  BY <1>2 DEF HashPackage, RightKind

\* The bytes of whole packages.
PackagesOf(l, n, A, data) ==
  /\ \A j \in 1 .. n : A[j] \in Nat
  /\ Len(data) = n * l.per
  /\ \A j \in 1 .. n : \A r \in 1 .. l.per : data[(j - 1) * l.per + r] = Node(l, A[j] * l.per + r - 1)

\* Whole packages of right values are hashed to right values.
LEMMA RightHashes ==
  ASSUME NEW l, l.per \in Nat \ {0}, l.depth \in Nat, RightKind(l),
         NEW n \in Nat, NEW A, NEW data, PackagesOf(l, n, A, data)
  PROVE  PackAndHash(l, data) = [j \in 1 .. n |-> <<l.depth - 1, A[j]>>]
<1> DEFINE per == l.per
           elements(j) == [r \in 1 .. per |-> data[(j - 1) * per + r]]
<1>1. per \in Nat \ {0} /\ per \in Nat /\ per >= 1 /\ 1 \in 1 .. per
  OBVIOUS
<1>a. /\ \A j \in 1 .. n : A[j] \in Nat
      /\ Len(data) = n * per
      /\ \A j \in 1 .. n : \A r \in 1 .. per : data[(j - 1) * per + r] = Node(l, A[j] * per + r - 1)
  BY DEF PackagesOf
<1>2. Len(data) \div per = n
  <2>1. n * per = n * per + 0 /\ n * per \in Nat /\ 0 \in 0 .. per - 1
    BY <1>1
  <2>2. (n * per + 0) \div per = n
    BY <1>1, <2>1, QuotientAndRemainder
  <2>3. QED
    BY <1>a, <2>1, <2>2
<1>3. PackAndHash(l, data) =
        [j \in 1 .. n |-> IF elements(j)[1] = Wrong THEN Wrong
                          ELSE HashPackage(l, PackageOf(l, elements(j)[1][2]), elements(j))]
  BY <1>2 DEF PackAndHash
<1>4. ASSUME NEW j \in 1 .. n
      PROVE  /\ elements(j)[1] # Wrong
             /\ HashPackage(l, PackageOf(l, elements(j)[1][2]), elements(j)) = <<l.depth - 1, A[j]>>
  <2>1. elements(j) = [r \in 1 .. per |-> Node(l, A[j] * per + r - 1)] /\ A[j] \in Nat
    BY <1>a
  <2>2. elements(j)[1] = Node(l, A[j] * per + 1 - 1) /\ A[j] * per + 1 - 1 = A[j] * per + 0 /\ A[j] * per + 0 \in Nat
    <3>1. elements(j)[1] = Node(l, A[j] * per + 1 - 1)
      BY <1>1, <2>1
    <3>2. per \in Nat /\ A[j] \in Nat
      BY <1>1, <2>1
    <3> HIDE DEF elements, per
    <3>3. A[j] * per \in Nat
      BY <3>2
    <3>4. QED
      BY <3>1, <3>3
  <2> HIDE DEF elements
  <2>3. elements(j)[1] = <<l.depth, A[j] * per + 0>>
    BY <2>2 DEF Node
  <2>4. <<l.depth, A[j] * per + 0>> \in Nat \X Nat
    BY <2>2
  <2>5. elements(j)[1] # Wrong
    BY <2>3, <2>4, ConfigurationsAssumption
  <2>6. (A[j] * per + 0) \div per = A[j]
    <3>1. 0 \in 0 .. per - 1 /\ A[j] \in Nat /\ per \in Nat /\ per >= 1
      BY <1>1, <2>1
    <3> HIDE DEF per
    <3>2. QED
      BY <3>1, QuotientAndRemainder
  <2>7. PackageOf(l, elements(j)[1][2]) = A[j]
    BY <2>3, <2>6 DEF PackageOf
  <2>8. HashPackage(l, A[j], elements(j)) = <<l.depth - 1, A[j]>>
    BY <2>1, RightHash
  <2>9. QED
    BY <2>5, <2>7, <2>8
<1> HIDE DEF elements
<1>5. QED
  BY <1>3, <1>4

\* The kind of hash of a layer of the stack.
LEMMA StackKinds ==
  ASSUME Stacked, NEW j \in 1 .. Innermost
  PROVE  /\ RightKind(layers[j]) /\ layers[j].depth \in Nat
         /\ layers[j].kind = "packaging" => layers[j].per \in Nat \ {0}
<1>1. config \in Configurations /\ config.height = Height /\ Height \in Nat /\ config.log_segments \in Nat
  BY ConfigTypes DEF Stacked
<1>2. /\ layers[j].depth \in config.log_segments .. Height + 1
      /\ layers[j].kind = "packaging" =>
           /\ layers[j].per = Per(Level(layers[j])) /\ Level(layers[j]) \in 0 .. Height
           /\ layers[j].depth <= Height => layers[j].top = Friendly(config, layers[j].depth)
  BY StackFacts
<1>3. \A k \in 0 .. Height : Per(k) \in Nat \ {0}
  <2>1. \A k \in 0 .. Height : k \in 0 .. Height + 1
    BY <1>1
  <2>2. QED
    BY <1>1, <2>1, Widths
<1>4. QED
  BY <1>1, <1>2, <1>3 DEF RightKind

-----------------------------------------------------------------------------
\* The stack that is built.

\* The layers that the loop adds for one level.
LEMMA SegmentLayers ==
  ASSUME config \in Configurations, BuilderAsserts(config), NEW n \in 0 .. Height - config.log_segments - 1
  PROVE  LET s == InSegment(config, n)
             depth == config.log_segments + n + 1 IN
         /\ s = <<Packaging(depth, 2, Friendly(config, depth))>>
              \/ s = <<Caching(depth)>> \o <<Packaging(depth, 2, Friendly(config, depth))>>
<1> DEFINE depth == config.log_segments + n + 1
<1>1. /\ Height \in Nat /\ config.height = Height /\ config.log_segments \in 0 .. Height
      /\ config.friendly \in Nat
  BY ConfigTypes
<1>2. (n < FriendlyInSegment(config)) <=> depth <= config.friendly
  <2>1. CASE config.friendly = 0
    BY <1>1, <2>1 DEF FriendlyInSegment
  <2>2. CASE config.friendly # 0 /\ config.friendly >= config.height
    BY <1>1, <2>2 DEF FriendlyInSegment
  <2>3. CASE config.friendly # 0 /\ ~ (config.friendly >= config.height)
    <3>1. FriendlyInSegment(config) = config.friendly - config.log_segments
      BY <2>3 DEF FriendlyInSegment
    <3>2. QED
      BY <1>1, <3>1
  <2>4. QED
    BY <2>1, <2>2, <2>3
<1>3. (n < FriendlyInSegment(config)) = Friendly(config, depth)
  <2>1. FriendlyInSegment(config) \in Int
    BY <1>1 DEF FriendlyInSegment
  <2>2. (n < FriendlyInSegment(config)) \in BOOLEAN /\ Friendly(config, depth) \in BOOLEAN
    BY <1>1, <2>1 DEF Friendly
  <2>3. QED
    BY <1>2, <2>2 DEF Friendly
<1>4. InSegment(config, n) =
        IF Cached(config, n) THEN <<Caching(depth)>> \o <<Packaging(depth, 2, n < FriendlyInSegment(config))>>
        ELSE <<Packaging(depth, 2, n < FriendlyInSegment(config))>>
  BY DEF InSegment
<1> HIDE DEF depth
<1>5. InSegment(config, n) =
        IF Cached(config, n) THEN <<Caching(depth)>> \o <<Packaging(depth, 2, Friendly(config, depth))>>
        ELSE <<Packaging(depth, 2, Friendly(config, depth))>>
  BY <1>3, <1>4
<1>6. QED
  BY <1>5 DEF depth

\* A stack of the layers from a depth to the tree.
StackFrom(s, depth) ==
  /\ s = [j \in 1 .. Len(s) |-> s[j]] /\ Len(s) \in Nat /\ Len(s) >= depth - config.log_segments + 1
  /\ s[1].depth = depth
  /\ s[Len(s)] = Merkle(config.log_segments, config.friendly > 0)
  /\ \A j \in 1 .. Len(s) - 1 :
       InnerLayer(s[j]) /\ s[j + 1].depth = s[j].depth - (IF s[j].kind = "packaging" THEN 1 ELSE 0)

LayerRecord == [kind : {"packaging", "caching", "merkle"}, depth : Nat, per : Nat, top : BOOLEAN]

\* One layer more.
LEMMA LayerAround ==
  ASSUME NEW l \in LayerRecord, NEW s \in Seq(LayerRecord), NEW depth \in Nat, config.log_segments \in Nat,
         depth >= config.log_segments, StackFrom(s, depth), InnerLayer(l),
         l.depth = depth + (IF l.kind = "packaging" THEN 1 ELSE 0)
  PROVE  StackFrom(<<l>> \o s, l.depth) /\ <<l>> \o s \in Seq(LayerRecord)
<1> DEFINE t == <<l>> \o s
<1>1. /\ t \in Seq(LayerRecord) /\ Len(t) = 1 + Len(s) /\ t[1] = l
      /\ \A j \in 1 .. Len(s) : t[1 + j] = s[j]
  <2> DEFINE u == <<l>>
  <2>1. u \in Seq(LayerRecord) /\ Len(u) = 1 /\ u[1] = l
    OBVIOUS
  <2> HIDE DEF u
  <2>2. /\ u \o s \in Seq(LayerRecord) /\ Len(u \o s) = Len(u) + Len(s)
        /\ \A j \in 1 .. Len(u) : (u \o s)[j] = u[j]
        /\ \A j \in 1 .. Len(s) : (u \o s)[Len(u) + j] = s[j]
    <3>1. u \in Seq(LayerRecord) /\ s \in Seq(LayerRecord)
      BY <2>1
    <3>2. QED
      BY ONLY <3>1, Appended
  <2>3. 1 \in 1 .. Len(u)
    BY <2>1
  <2>4. QED
    BY <2>1, <2>2, <2>3 DEF u
<1>2. /\ Len(s) \in Nat /\ Len(s) >= depth - config.log_segments + 1
      /\ s[1].depth = depth /\ s[Len(s)] = Merkle(config.log_segments, config.friendly > 0)
      /\ \A j \in 1 .. Len(s) - 1 :
           InnerLayer(s[j]) /\ s[j + 1].depth = s[j].depth - (IF s[j].kind = "packaging" THEN 1 ELSE 0)
  BY DEF StackFrom
<1> HIDE DEF t
<1>3. t = [j \in 1 .. Len(t) |-> t[j]] /\ Len(t) \in Nat /\ Len(t) >= l.depth - config.log_segments + 1
  <2>1. t = [j \in 1 .. Len(t) |-> t[j]] /\ Len(t) \in Nat
    BY <1>1
  <2>2. QED
    BY <1>1, <1>2, <2>1
<1>4. t[Len(t)] = s[Len(s)]
  <2>1. Len(s) \in 1 .. Len(s) /\ Len(t) = 1 + Len(s)
    BY <1>1, <1>2
  <2>2. QED
    BY <1>1, <2>1
<1>5. ASSUME NEW j \in 1 .. Len(t) - 1
      PROVE  InnerLayer(t[j]) /\ t[j + 1].depth = t[j].depth - (IF t[j].kind = "packaging" THEN 1 ELSE 0)
  <2>1. CASE j = 1
    <3>1. 1 \in 1 .. Len(s)
      BY <1>2
    <3>2. t[1] = l /\ t[1 + 1] = s[1]
      BY <1>1, <3>1
    <3>3. l.depth - (IF l.kind = "packaging" THEN 1 ELSE 0) = depth
      OBVIOUS
    <3>4. QED
      BY <1>2, <2>1, <3>2, <3>3
  <2>2. CASE j # 1
    <3>1. j - 1 \in 1 .. Len(s) - 1 /\ j - 1 \in 1 .. Len(s) /\ (j - 1) + 1 \in 1 .. Len(s)
      <4>1. Len(s) \in Nat /\ Len(t) = 1 + Len(s)
        BY <1>1, <1>2
      <4> DEFINE m == Len(s)
      <4>2. m \in Nat /\ j \in 1 .. (1 + m) - 1 /\ j # 1
        BY <2>2, <4>1
      <4> HIDE DEF m
      <4>3. j - 1 \in 1 .. m - 1 /\ j - 1 \in 1 .. m /\ (j - 1) + 1 \in 1 .. m
        BY <4>2
      <4>4. QED
        BY <4>3 DEF m
    <3>2. 1 + (j - 1) = j /\ 1 + ((j - 1) + 1) = j + 1
      BY <1>1, <1>2
    <3>3. t[j] = s[j - 1] /\ t[j + 1] = s[(j - 1) + 1]
      <4>1. t[1 + (j - 1)] = s[j - 1] /\ t[1 + ((j - 1) + 1)] = s[(j - 1) + 1]
        BY <1>1, <3>1
      <4>2. QED
        BY <3>2, <4>1
    <3>4. QED
      BY <1>2, <3>1, <3>3
  <2>3. QED
    BY <2>1, <2>2
<1>6. QED
  BY <1>1, <1>2, <1>3, <1>4, <1>5 DEF StackFrom, t

\* The stack that the builder makes.
LEMMA BuiltStack ==
  ASSUME config \in Configurations, BuilderAsserts(config), layers = ProverLayers(config)
  PROVE  Stacked
<1> DEFINE N == Height - config.log_segments
           base == <<Merkle(config.log_segments, config.friendly > 0)>>
           Around == CHOOSE f : f = [n \in 0 .. N |-> IF n = 0 THEN base ELSE InSegment(config, n - 1) \o f[n - 1]]
           S == Seq(LayerRecord)
           F == [x \in (1 .. N) \X S |-> InSegment(config, x[1] - 1) \o x[2]]
<1>1. /\ Height \in Nat /\ config.height = Height /\ config.log_segments \in 0 .. Height
      /\ config.friendly \in Nat /\ N \in Nat /\ config.per_package \in Nat \ {0}
  BY ConfigTypes
<1>2. layers = <<Rows(config)>> \o Around[N]
  BY <1>1 DEF ProverLayers
<1>3. base \in S /\ StackFrom(base, config.log_segments)
  <2>1. Merkle(config.log_segments, config.friendly > 0) \in LayerRecord
    BY <1>1 DEF Merkle, LayerRecord
  <2>2. base \in S /\ Len(base) = 1 /\ base[1] = Merkle(config.log_segments, config.friendly > 0)
    BY <2>1
  <2>3. base = [j \in 1 .. Len(base) |-> base[j]]
    BY <2>2
  <2> HIDE DEF base
  <2>4. base[1].depth = config.log_segments
    BY <2>2 DEF Merkle
  <2>5. Len(base) >= config.log_segments - config.log_segments + 1 /\ ~ \E j \in 1 .. Len(base) - 1 : TRUE
    BY <1>1, <2>2
  <2>6. QED
    BY <2>2, <2>3, <2>4, <2>5 DEF StackFrom
<1>4. ASSUME NEW n \in 1 .. N, NEW s \in S
      PROVE  /\ InSegment(config, n - 1) \o s \in S
             /\ StackFrom(s, config.log_segments + n - 1) => StackFrom(InSegment(config, n - 1) \o s, config.log_segments + n)
  <2> DEFINE depth == config.log_segments + n
             l == Packaging(depth, 2, Friendly(config, depth))
             c == Caching(depth)
             seg == InSegment(config, n - 1)
  <2>1. n - 1 \in 0 .. Height - config.log_segments - 1 /\ config.log_segments + (n - 1) + 1 = depth
        /\ depth \in config.log_segments + 1 .. Height /\ depth \in Nat /\ depth - 1 \in Nat
    <3> DEFINE a == config.log_segments
               h == Height
    <3>1. a \in Nat /\ h \in Nat /\ a <= h /\ n \in 1 .. h - a
      BY <1>1
    <3> HIDE DEF a, h
    <3>2. /\ n - 1 \in 0 .. h - a - 1 /\ a + (n - 1) + 1 = a + n
          /\ a + n \in a + 1 .. h /\ a + n \in Nat /\ a + n - 1 \in Nat
      BY ONLY <3>1
    <3>3. QED
      BY <3>2 DEF a, h
  <2>2. seg = <<l>> \/ seg = <<c>> \o <<l>>
    BY <2>1, SegmentLayers
  <2>3. l \in LayerRecord /\ c \in LayerRecord /\ l.kind = "packaging" /\ c.kind = "caching" /\ l.depth = depth /\ c.depth = depth
    BY <1>1, <2>1 DEF Packaging, Caching, LayerRecord, Friendly
  <2>4. InnerLayer(l) /\ InnerLayer(c)
    BY <2>1, <2>3 DEF InnerLayer
  <2> HIDE DEF l, c, seg, depth
  <2>5. <<l>> \o s \in S /\ <<c>> \o (<<l>> \o s) \in S
    BY <2>3
  <2>6. (<<c>> \o <<l>>) \o s = <<c>> \o (<<l>> \o s)
    BY <2>3
  <2>7. ASSUME StackFrom(s, depth - 1)
        PROVE  StackFrom(<<l>> \o s, depth) /\ StackFrom(<<c>> \o (<<l>> \o s), depth)
    <3>1. config.log_segments \in Nat /\ depth - 1 >= config.log_segments /\ depth >= config.log_segments
          /\ l.depth = (depth - 1) + (IF l.kind = "packaging" THEN 1 ELSE 0)
          /\ c.depth = depth + (IF c.kind = "packaging" THEN 1 ELSE 0)
      BY <1>1, <2>1, <2>3
    <3>2. StackFrom(<<l>> \o s, l.depth)
      BY <2>1, <2>3, <2>4, <2>7, <3>1, LayerAround
    <3> DEFINE t == <<l>> \o s
    <3>3. t \in Seq(LayerRecord) /\ StackFrom(t, depth)
      BY <2>3, <2>5, <3>2
    <3> HIDE DEF t
    <3>4. StackFrom(<<c>> \o t, c.depth)
      BY <2>1, <2>3, <2>4, <3>1, <3>3, LayerAround
    <3>5. QED
      BY <2>3, <3>2, <3>4 DEF t
  <2>8. config.log_segments + n - 1 = depth - 1
    BY <1>1 DEF depth
  <2>9. QED
    BY <2>2, <2>5, <2>6, <2>7, <2>8 DEF seg, depth
<1>5. /\ DOMAIN Around = 0 .. N /\ Around[0] = base
      /\ \A n \in 1 .. N : Around[n] = InSegment(config, n - 1) \o Around[n - 1]
  <2>1. F \in [(1 .. N) \X S -> S] /\ \A n \in 1 .. N : \A s \in S : F[<<n, s>>] = InSegment(config, n - 1) \o s
    BY <1>4
  <2> HIDE DEF F, base, N, S
  <2>2. PICK f \in [0 .. N -> S] : f[0] = base /\ \A n \in 1 .. N : f[n] = F[<<n, f[n - 1]>>]
    <3>1. N \in Nat /\ base \in S /\ F \in [(1 .. N) \X S -> S]
      BY <1>1, <1>3, <2>1
    <3> DEFINE Solved(R, first, G) ==
          \E f \in [0 .. N -> R] : f[0] = first /\ \A n \in 1 .. N : f[n] = G[<<n, f[n - 1]>>]
    <3>2. \A R : \A first \in R : \A G \in [(1 .. N) \X R -> R] : Solved(R, first, G)
      BY <3>1, IntervalRecursion
    <3> HIDE DEF Solved
    <3>3. Solved(S, base, F)
      BY ONLY <3>1, <3>2
    <3>4. QED
      BY <3>3 DEF Solved
  <2>3. f = [n \in 0 .. N |-> IF n = 0 THEN base ELSE InSegment(config, n - 1) \o f[n - 1]]
    <3>1. \A n \in 0 .. N : f[n] = IF n = 0 THEN base ELSE InSegment(config, n - 1) \o f[n - 1]
      <4>1. ASSUME NEW n \in 1 .. N PROVE f[n] = InSegment(config, n - 1) \o f[n - 1]
        <5>1. n - 1 \in 0 .. N
          BY <1>1
        <5>2. f[n - 1] \in S
          BY <5>1
        <5>3. QED
          BY <2>1, <2>2, <5>2
      <4>2. \A n \in 0 .. N : n = 0 \/ n \in 1 .. N
        BY <1>1
      <4>3. \A n \in 1 .. N : n # 0
        BY <1>1
      <4>4. QED
        BY <2>2, <4>1, <4>2, <4>3
    <3>2. f = [n \in 0 .. N |-> f[n]]
      OBVIOUS
    <3>3. QED
      BY <3>1, <3>2
  <2>4. Around = [n \in 0 .. N |-> IF n = 0 THEN base ELSE InSegment(config, n - 1) \o Around[n - 1]]
    BY <2>3
  <2> HIDE DEF Around
  <2>5. 0 \in 0 .. N /\ \A n \in 1 .. N : n \in 0 .. N /\ n # 0
    BY <1>1
  <2>6. QED
    BY <2>4, <2>5
<1> HIDE DEF Around, base, F, S
<1> DEFINE T == {n \in Nat : n <= N => Around[n] \in S /\ StackFrom(Around[n], config.log_segments + n)}
<1>6. 0 \in T
  <2>1. config.log_segments + 0 = config.log_segments
    BY <1>1
  <2>2. QED
    BY <1>3, <1>5, <2>1
<1>7. ASSUME NEW n \in Nat, n \in T PROVE n + 1 \in T
  <2>1. SUFFICES ASSUME n + 1 <= N PROVE Around[n + 1] \in S /\ StackFrom(Around[n + 1], config.log_segments + (n + 1))
    OBVIOUS
  <2>2. n + 1 \in 1 .. N /\ (n + 1) - 1 = n /\ n <= N /\ config.log_segments + (n + 1) - 1 = config.log_segments + n
    BY <1>1, <2>1
  <2>3. Around[n] \in S /\ StackFrom(Around[n], config.log_segments + n)
    BY <1>7, <2>2
  <2>4. Around[n + 1] = InSegment(config, (n + 1) - 1) \o Around[(n + 1) - 1]
    BY <1>5, <2>2
  <2> HIDE DEF N
  <2>5. QED
    BY <1>4, <2>2, <2>3, <2>4
<1>8. \A n \in Nat : n \in T
  <2> HIDE DEF T
  <2>1. QED
    BY <1>6, <1>7, SetInduction
<1> DEFINE s == Around[N]
<1>9. s \in Seq(LayerRecord) /\ StackFrom(s, Height)
  <2>1. N <= N /\ config.log_segments + N = Height
    BY <1>1
  <2>2. QED
    BY <1>1, <1>8, <2>1 DEF S
<1> HIDE DEF s, T
<1>10. /\ Len(layers) = 1 + Len(s) /\ layers \in Seq(LayerRecord) /\ layers[1] = Rows(config)
       /\ \A j \in 1 .. Len(s) : layers[1 + j] = s[j]
  <2> DEFINE u == <<Rows(config)>>
  <2>1. u \in Seq(LayerRecord) /\ Len(u) = 1 /\ u[1] = Rows(config)
    BY <1>1 DEF Rows, Packaging, LayerRecord
  <2>2. layers = u \o s
    BY <1>2 DEF s
  <2> HIDE DEF u
  <2>3. /\ u \o s \in Seq(LayerRecord) /\ Len(u \o s) = Len(u) + Len(s)
        /\ \A j \in 1 .. Len(u) : (u \o s)[j] = u[j]
        /\ \A j \in 1 .. Len(s) : (u \o s)[Len(u) + j] = s[j]
    BY <1>9, <2>1, Appended
  <2>4. 1 \in 1 .. Len(u)
    BY <2>1
  <2>5. QED
    BY <2>1, <2>2, <2>3, <2>4
<1>11. /\ Len(s) \in Nat /\ Len(s) >= Height - config.log_segments + 1
       /\ s[1].depth = Height /\ s[Len(s)] = Merkle(config.log_segments, config.friendly > 0)
       /\ \A j \in 1 .. Len(s) - 1 :
            InnerLayer(s[j]) /\ s[j + 1].depth = s[j].depth - (IF s[j].kind = "packaging" THEN 1 ELSE 0)
  BY <1>9 DEF StackFrom
<1>12. layers = [j \in 1 .. Innermost |-> layers[j]] /\ Innermost >= Height - config.log_segments + 2
  <2>1. layers = [j \in 1 .. Len(layers) |-> layers[j]]
    BY <1>10
  <2>2. QED
    BY <1>1, <1>10, <1>11, <2>1 DEF Innermost
<1>13. layers[Innermost] = Merkle(config.log_segments, config.friendly > 0)
  <2>1. Len(s) \in 1 .. Len(s)
    BY <1>1, <1>11
  <2>2. QED
    BY <1>10, <1>11, <2>1 DEF Innermost
<1>14. ASSUME NEW j \in 2 .. Innermost - 1
       PROVE  InnerLayer(layers[j]) /\ layers[j + 1].depth = layers[j].depth - (IF layers[j].kind = "packaging" THEN 1 ELSE 0)
  <2>1. j - 1 \in 1 .. Len(s) - 1 /\ j - 1 \in 1 .. Len(s) /\ (j - 1) + 1 \in 1 .. Len(s)
        /\ 1 + (j - 1) = j /\ 1 + ((j - 1) + 1) = j + 1
    BY <1>10, <1>11 DEF Innermost
  <2>2. layers[1 + (j - 1)] = s[j - 1] /\ layers[1 + ((j - 1) + 1)] = s[(j - 1) + 1]
    BY <1>10, <2>1
  <2>3. QED
    BY <1>11, <2>1, <2>2
<1>15. layers[1 + 1].depth = layers[1].depth - (IF layers[1].kind = "packaging" THEN 1 ELSE 0)
  <2>1. 1 \in 1 .. Len(s)
    BY <1>1, <1>11
  <2>2. layers[1 + 1].depth = Height
    BY <1>10, <1>11, <2>1
  <2>3. layers[1].depth = Height + 1 /\ layers[1].kind = "packaging"
    BY <1>1, <1>10 DEF Rows, Packaging
  <2>4. QED
    BY <1>1, <2>2, <2>3
<1>16. \A j \in 1 .. Innermost - 1 : j = 1 \/ j \in 2 .. Innermost - 1
  BY <1>10, <1>11 DEF Innermost
<1>17. QED
  BY <1>10, <1>12, <1>13, <1>14, <1>15, <1>16 DEF Stacked

-----------------------------------------------------------------------------
\* What no step of the layers changes.

\* What depends on the stack alone.
LEMMA SameStack ==
  ASSUME UNCHANGED <<config, layers>>
  PROVE  /\ Innermost' = Innermost /\ Height' = Height /\ Stacked' = Stacked /\ Segments' = Segments
         /\ \A k : Width(k)' = Width(k) /\ Per(k)' = Per(k) /\ DepthAt(k)' = DepthAt(k)
         /\ \A l : NumElements(l)' = NumElements(l) /\ Level(l)' = Level(l)
<1>1. config' = config /\ layers' = layers
  OBVIOUS
<1>2. Innermost' = Innermost /\ Height' = Height
  BY <1>1 DEF Innermost, Height
<1>3. Stacked' = Stacked
  BY <1>1, <1>2 DEF Stacked, InnerLayer, Friendly
<1>4. Segments' = Segments
  BY <1>1 DEF Segments
<1>5. \A k : Width(k)' = Width(k) /\ Per(k)' = Per(k) /\ DepthAt(k)' = DepthAt(k)
  BY <1>1, <1>2 DEF Width, Per, DepthAt
<1>6. \A l : NumElements(l)' = NumElements(l) /\ Level(l)' = Level(l)
  BY <1>1, <1>2 DEF NumElements, Level
<1>7. QED
  BY <1>2, <1>3, <1>4, <1>5, <1>6

\* What depends on the stack and the rows alone.
LEMMA SameQueries ==
  ASSUME UNCHANGED <<config, layers, rows>>
  PROVE  \A k : QueriesAt(k)' = QueriesAt(k) /\ RequiredAt(k)' = RequiredAt(k) /\ LayerAt(k)' = LayerAt(k)
<1>1. config' = config /\ rows' = rows
  OBVIOUS
<1>2. \A k : QueriesAt(k)' = QueriesAt(k)
  BY <1>1 DEF QueriesAt
<1>3. \A k : LayerAt(k)' = LayerAt(k)
  BY <1>1 DEF LayerAt
<1>4. \A k : RequiredAt(k)' = RequiredAt(k)
  BY <1>2, <1>3 DEF RequiredAt
<1>5. QED
  BY <1>2, <1>3, <1>4

\* Types stand while what the layers keep does.
LEMMA TypesStand ==
  ASSUME TypeOK, Stacked, UNCHANGED <<config, layers, queries_, missing, n_missing_inner>>,
         phase' \in Phases, at' \in 0 .. Innermost + config.log_segments + 1,
         tampered' \in BOOLEAN, verdict' \in {"none", "accept", "reject"}
  PROVE  TypeOK'
<1>1. /\ config' = config /\ layers' = layers /\ queries_' = queries_ /\ missing' = missing
      /\ n_missing_inner' = n_missing_inner /\ \A l : NumElements(l)' = NumElements(l)
  BY SameStack
<1>2. QED
  BY <1>1 DEF TypeOK, Innermost

\* The steps on the data that is sent change nothing in the layers.
LEMMA LaterStep ==
  ASSUME LayersInv, UNCHANGED <<config, layers, stored, added, rows, integrity, queries_, missing, n_missing_inner>>,
         phase \notin {"add", "query", "start"}, phase' \in {"tree", "sent", "verify", "done"},
         phase' = "tree" => phase \in {"decommit", "tree"},
         at' = at \/ at' \in 1 .. Height + 2, phase' = "verify" => at' \in 1 .. Height + 2,
         tampered' \in BOOLEAN, verdict' \in {"none", "accept", "reject"}
  PROVE  LayersInv'
<1> USE DEF LayersInv
<1>1. /\ Innermost' = Innermost /\ Height' = Height /\ Stacked' /\ Segments' = Segments
      /\ \A k : Width(k)' = Width(k)
      /\ \A l : NumElements(l)' = NumElements(l) /\ Level(l)' = Level(l)
  BY SameStack
<1>2. \A k : QueriesAt(k)' = QueriesAt(k) /\ RequiredAt(k)' = RequiredAt(k)
  BY SameQueries
<1>3. TypeOK'
  <2>1. /\ Innermost \in Nat /\ Innermost >= Height - config.log_segments + 2
        /\ Height \in Nat /\ config.log_segments \in 0 .. Height
    BY StackFacts, ConfigTypes DEF Stacked
  <2>2. at \in 0 .. Innermost + config.log_segments + 1
    BY DEF TypeOK, Innermost
  <2>3. at' \in 0 .. Innermost + config.log_segments + 1
    BY <2>1, <2>2
  <2>4. phase' \in Phases
    BY DEF Phases
  <2>5. QED
    BY <2>3, <2>4, TypesStand
<1>4. Filled'
  BY <1>1 DEF Filled, SegmentOf
<1>5. Chosen'
  BY <1>1 DEF Chosen, Cells, Cell
<1>6. Starting'
  BY <1>1, <1>2 DEF Starting, Started
<1>7. Asking' /\ Walking'
  BY <1>1 DEF Asking, Walking
<1>8. QED
  BY <1>1, <1>3, <1>4, <1>5, <1>6, <1>7

\* The invariant of the layers holds at the start.
LEMMA InitLayers ==
  ASSUME Init
  PROVE  LayersInv
<1>1. config \in Configurations /\ BuilderAsserts(config) /\ layers = ProverLayers(config)
  BY DEF Init
<1>2. Stacked
  BY <1>1, BuiltStack
<1>3. DOMAIN layers = 1 .. Innermost /\ Innermost \in Nat
  BY <1>2, StackFacts
<1>4. Filled
  <2>1. stored = [j \in 1 .. Innermost |->
           IF layers[j].kind = "packaging" THEN <<>>
           ELSE [i \in 0 .. Pow2[layers[j].depth] - 1 |-> Wrong]]
    BY <1>3 DEF Init
  <2>2. added = {} /\ phase = "add"
    BY DEF Init
  <2>3. QED
    BY <2>1, <2>2 DEF Filled
<1>5. Chosen /\ Starting /\ Asking
  BY DEF Init, Chosen, Starting, Asking
<1>6. /\ queries_ = [j \in 1 .. Innermost |-> {}] /\ missing = [j \in 1 .. Innermost |-> <<>>]
      /\ n_missing_inner = [j \in 1 .. Innermost |-> 0] /\ phase = "add"
  BY <1>3 DEF Init
<1>7. Walking
  BY <1>6 DEF Walking
<1>8. TypeOK
  <2>1. config.log_segments \in Nat /\ Height \in Nat
    BY <1>1, ConfigTypes
  <2>2. at = 0 /\ at \in 0 .. Len(layers) + config.log_segments + 1
    BY <1>3, <2>1 DEF Init, Innermost
  <2>3. ASSUME NEW j \in DOMAIN layers
        PROVE  /\ queries_[j] \subseteq 0 .. NumElements(layers[j]) - 1
               /\ \A k \in DOMAIN missing[j] : missing[j][k] \in 0 .. NumElements(layers[j]) - 1
               /\ n_missing_inner[j] \in 0 .. NumElements(layers[j])
    <3>1. NumElements(layers[j]) \in Nat
      <4>1. j \in 1 .. Innermost
        BY <1>3
      <4>2. NumElements(layers[j]) = Width(Level(layers[j])) /\ Level(layers[j]) \in 0 .. Height + 1
        BY <1>2, <4>1, StackFacts
      <4>3. QED
        BY <1>1, <4>2, Widths
    <3>2. queries_[j] = {} /\ missing[j] = <<>> /\ n_missing_inner[j] = 0
      BY <1>3, <1>6
    <3>3. QED
      BY <3>1, <3>2
  <2>4. QED
    BY <1>1, <2>2, <2>3 DEF Init, TypeOK, Phases
<1>9. QED
  BY <1>2, <1>4, <1>5, <1>6, <1>7, <1>8 DEF LayersInv

\* It holds where nothing changes.
LEMMA StutterLayers ==
  ASSUME LayersInv, UNCHANGED vars
  PROVE  LayersInv'
<1> USE DEF vars, prover, verifier, LayersInv
<1>1. /\ Innermost' = Innermost /\ Height' = Height /\ Stacked' /\ Segments' = Segments
      /\ \A k : Width(k)' = Width(k)
      /\ \A l : NumElements(l)' = NumElements(l) /\ Level(l)' = Level(l)
  BY SameStack
<1>2. \A k : QueriesAt(k)' = QueriesAt(k) /\ RequiredAt(k)' = RequiredAt(k)
  BY SameQueries
<1>3. TypeOK'
  BY <1>1 DEF TypeOK
<1>4. Filled'
  BY <1>1 DEF Filled, SegmentOf
<1>5. Chosen'
  BY <1>1 DEF Chosen, Cells, Cell
<1>6. Starting'
  BY <1>1, <1>2 DEF Starting, Started
<1>7. Walking'
  BY <1>1 DEF Walking
<1>8. Asking'
  <2>1. \A ask, from : Asks(ask, from)' = Asks(ask, from)
    BY <1>1, <1>2 DEF Asks, Asked
  <2>2. \A j, list : RightList(j, list)' = RightList(j, list)
    BY DEF RightList
  <2>3. QED
    BY <1>1, <2>1, <2>2 DEF Asking
<1>9. QED
  BY <1>1, <1>3, <1>4, <1>5, <1>6, <1>7, <1>8

-----------------------------------------------------------------------------
\* The segments.

\* Elements of a layer in a segment.
SegWidth(j) ==
  IF j = 1 THEN Pow2[Height - config.log_segments] * config.per_package
  ELSE Pow2[layers[j].depth - config.log_segments]
SegmentAt(segment, j) == [i \in 1 .. SegWidth(j) |-> Node(layers[j], segment * SegWidth(j) + i - 1)]

\* A layer's elements are divided among the segments.
LEMMA SegWidths ==
  ASSUME Stacked
  PROVE  /\ \A j \in 1 .. Innermost : SegWidth(j) \in Nat \ {0}
         /\ NumElements(layers[1]) \div Pow2[config.log_segments] = SegWidth(1)
         /\ \A j \in 1 .. Innermost - 1 :
              SegWidth(j) = IF layers[j].kind = "packaging" THEN SegWidth(j + 1) * layers[j].per ELSE SegWidth(j + 1)
<1>1. /\ Height \in Nat /\ config.height = Height /\ config.log_segments \in 0 .. Height /\ config.log_segments \in Nat
      /\ config.per_package \in Nat \ {0} /\ Height - config.log_segments \in Nat
  BY ConfigTypes DEF Stacked
<1>2. /\ Innermost \in Nat /\ Innermost >= 2
      /\ \A j \in 1 .. Innermost : layers[j].depth \in config.log_segments .. Height + 1
      /\ \A j \in 1 .. Innermost : layers[j].depth = Height + 1 <=> j = 1
  BY StackFacts
<1>3. ASSUME NEW j \in 1 .. Innermost PROVE SegWidth(j) \in Nat \ {0}
  <2>1. Pow2[Height - config.log_segments] \in Nat \ {0}
    BY <1>1, Pow2Values
  <2>2. layers[j].depth - config.log_segments \in Nat
    BY <1>1, <1>2
  <2>3. Pow2[layers[j].depth - config.log_segments] \in Nat \ {0}
    BY <2>2, Pow2Values
  <2>4. Pow2[Height - config.log_segments] * config.per_package \in Nat \ {0}
    BY <1>1, <2>1
  <2>5. QED
    BY <2>3, <2>4 DEF SegWidth
<1>4. NumElements(layers[1]) \div Pow2[config.log_segments] = SegWidth(1)
  <2> DEFINE a == Pow2[config.log_segments]
             b == Pow2[Height - config.log_segments]
             c == config.per_package
  <2>1. a \in Nat /\ a >= 1 /\ b \in Nat /\ c \in Nat
    BY <1>1, Pow2Values
  <2>2. Pow2[Height] = a * b
    <3>1. config.log_segments + (Height - config.log_segments) = Height
      BY <1>1
    <3>2. QED
      <4> DEFINE x == config.log_segments
                 y == Height - config.log_segments
      <4>1. x \in Nat /\ y \in Nat /\ x + y = Height
        BY <1>1, <3>1
      <4> HIDE DEF x, y
      <4>2. Pow2[x + y] = Pow2[x] * Pow2[y]
        BY <4>1, Pow2Adds
      <4>3. QED
        BY <4>1, <4>2 DEF x, y
  <2>3. NumElements(layers[1]) = Pow2[Height] * c
    <3>1. 1 \in 1 .. Innermost /\ layers[1].depth = Height + 1
      BY <1>2
    <3>2. layers[1].depth > config.height
      BY <1>1, <3>1
    <3>3. QED
      BY <1>1, <3>2 DEF NumElements
  <2>4. SegWidth(1) = b * c
    BY DEF SegWidth
  <2> HIDE DEF a, b, c
  <2>5. (a * b) * c = (b * c) * a + 0 /\ 0 \in 0 .. a - 1 /\ b * c \in Nat
    BY <2>1
  <2>6. ((b * c) * a + 0) \div a = b * c
    BY <2>1, <2>5, QuotientAndRemainder
  <2>7. QED
    BY <2>2, <2>3, <2>4, <2>5, <2>6 DEF a
<1>5. ASSUME NEW j \in 1 .. Innermost - 1
      PROVE  SegWidth(j) = IF layers[j].kind = "packaging" THEN SegWidth(j + 1) * layers[j].per ELSE SegWidth(j + 1)
  <2>1. j \in 1 .. Innermost /\ j + 1 \in 1 .. Innermost /\ j + 1 # 1
    BY <1>2
  <2>2. SegWidth(j + 1) = Pow2[layers[j + 1].depth - config.log_segments]
    BY <2>1 DEF SegWidth
  <2>3. layers[j + 1].depth = layers[j].depth - (IF layers[j].kind = "packaging" THEN 1 ELSE 0)
    BY DEF Stacked
  <2>4. CASE j = 1
    <3>1. layers[1].kind = "packaging" /\ layers[1].per = config.per_package /\ layers[1].depth = Height + 1
      BY <1>1 DEF Stacked, Rows, Packaging
    <3>2. layers[j + 1].depth = Height
      BY <1>1, <2>3, <2>4, <3>1
    <3>3. SegWidth(j) = Pow2[Height - config.log_segments] * config.per_package
      BY <2>4 DEF SegWidth
    <3>4. QED
      BY <2>2, <2>4, <3>1, <3>2, <3>3
  <2>5. CASE j # 1
    <3>1. SegWidth(j) = Pow2[layers[j].depth - config.log_segments]
      BY <2>5 DEF SegWidth
    <3>2. CASE layers[j].kind # "packaging"
      <4>1. layers[j + 1].depth = layers[j].depth
        BY <1>1, <1>2, <2>1, <2>3, <3>2
      <4>2. QED
        BY <2>2, <3>1, <3>2, <4>1
    <3>3. CASE layers[j].kind = "packaging"
      <4>1. layers[j].per = 2
        <5>1. j \in 2 .. Innermost - 1
          BY <2>5, <1>2
        <5>2. QED
          <6>1. InnerLayer(layers[j])
            BY <5>1 DEF Stacked
          <6>2. layers[j] = Caching(layers[j].depth) \/ layers[j] = Packaging(layers[j].depth, 2, Friendly(config, layers[j].depth))
            BY <6>1 DEF InnerLayer
          <6>3. QED
            BY <3>3, <6>2 DEF Caching, Packaging
      <4> DEFINE d == layers[j + 1].depth - config.log_segments
      <4>2. d \in Nat /\ layers[j].depth - config.log_segments = d + 1
        BY <1>1, <1>2, <2>1, <2>3, <3>3
      <4> HIDE DEF d
      <4>3. Pow2[d + 1] = 2 * Pow2[d] /\ Pow2[d] \in Nat
        BY <4>2, Pow2Values
      <4>4. SegWidth(j + 1) = Pow2[d] /\ SegWidth(j) = Pow2[d + 1]
        BY <2>2, <3>1, <4>2 DEF d
      <4>5. QED
        BY <3>3, <4>1, <4>3, <4>4
    <3>4. QED
      BY <3>2, <3>3
  <2>6. QED
    BY <2>4, <2>5
<1>6. QED
  BY <1>3, <1>4, <1>5

\* What the layers make of a segment, one after the other.
LEMMA SegmentFlow ==
  ASSUME Stacked, NEW segment \in Segments, NEW flow,
         flow = CHOOSE f : f = [j \in DOMAIN layers |->
           IF j = 1 THEN [i \in 1 .. SegWidth(1) |-> Node(layers[1], segment * SegWidth(1) + i - 1)]
           ELSE IF layers[j - 1].kind = "packaging" THEN PackAndHash(layers[j - 1], f[j - 1])
           ELSE f[j - 1]]
  PROVE  \A j \in 1 .. Innermost : flow[j] = SegmentAt(segment, j)
<1> DEFINE E(f) == [j \in DOMAIN layers |->
           IF j = 1 THEN [i \in 1 .. SegWidth(1) |-> Node(layers[1], segment * SegWidth(1) + i - 1)]
           ELSE IF layers[j - 1].kind = "packaging" THEN PackAndHash(layers[j - 1], f[j - 1])
           ELSE f[j - 1]]
           g == [j \in 1 .. Innermost |-> SegmentAt(segment, j)]
<1>1. DOMAIN layers = 1 .. Innermost /\ Innermost \in Nat /\ Innermost >= 2
  BY StackFacts
<1>2. segment \in Nat
  <2>1. config.log_segments \in Nat
    BY ConfigTypes DEF Stacked
  <2>2. Pow2[config.log_segments] \in Nat
    BY <2>1, Pow2Values
  <2>3. QED
    BY <2>2 DEF Segments
<1>3. ASSUME NEW j \in 1 .. Innermost - 1
      PROVE  SegmentAt(segment, j + 1) =
               IF layers[j].kind = "packaging" THEN PackAndHash(layers[j], SegmentAt(segment, j))
               ELSE SegmentAt(segment, j)
  <2> DEFINE l == layers[j]
             n == SegWidth(j + 1)
             w == SegWidth(j)
  <2>1. j \in 1 .. Innermost /\ j + 1 \in 1 .. Innermost
    BY <1>1
  <2>2. n \in Nat \ {0} /\ w \in Nat \ {0} /\ w = IF l.kind = "packaging" THEN n * l.per ELSE n
    BY <2>1, SegWidths
  <2>3. layers[j + 1].depth = l.depth - (IF l.kind = "packaging" THEN 1 ELSE 0) /\ l.depth \in Nat
    BY <2>1, StackKinds DEF Stacked
  <2>4. CASE l.kind # "packaging"
    BY <2>2, <2>3, <2>4 DEF SegmentAt, Node
  <2>5. CASE l.kind = "packaging"
    <3> DEFINE A == [i \in 1 .. n |-> segment * n + i - 1]
               data == SegmentAt(segment, j)
               per == l.per
    <3>1. per \in Nat \ {0} /\ RightKind(l) /\ l.depth \in Nat /\ w = n * per
      BY <2>1, <2>2, <2>5, StackKinds
    <3>2. data = [i \in 1 .. w |-> Node(l, segment * w + i - 1)]
      BY DEF SegmentAt
    <3> HIDE DEF w, n, l, data
    <3>3. Len(data) = n * per
      BY <2>2, <3>1, <3>2
    <3>4. ASSUME NEW i \in 1 .. n
          PROVE  /\ A[i] \in Nat
                 /\ \A r \in 1 .. per : data[(i - 1) * per + r] = Node(l, A[i] * per + r - 1)
      <4>1. A[i] = segment * n + (i - 1) /\ segment * n \in Nat /\ i - 1 \in Nat
        BY <1>2, <2>2
      <4>2. A[i] \in Nat
        BY <4>1
      <4>3. ASSUME NEW r \in 1 .. per PROVE data[(i - 1) * per + r] = Node(l, A[i] * per + r - 1)
        <5>1. i - 1 \in 0 .. n - 1 /\ r - 1 \in 0 .. per - 1
          BY <2>2, <3>1
        <5>2. (i - 1) * per + (r - 1) \in 0 .. n * per - 1
          BY <2>2, <3>1, <5>1, PackageArithmetic
        <5> DEFINE c == (i - 1) * per
        <5>3. c \in Nat
          BY <3>1, <5>1
        <5>4. (i - 1) * per + r \in 1 .. w
          <6>1. c + (r - 1) \in 0 .. w - 1 /\ w \in Nat
            BY <2>2, <3>1, <5>2
          <6> HIDE DEF c
          <6>2. c + r \in 1 .. w
            BY <3>1, <5>3, <6>1
          <6>3. QED
            BY <6>2 DEF c
        <5>5. segment * w + ((i - 1) * per + r) - 1 = A[i] * per + r - 1
          <6>1. \A x, y, z, t \in Nat : \A u, v \in Nat : u = y * z /\ v = x * y + t => x * u + t * z = v * z
            OBVIOUS
          <6>2. segment * w + (i - 1) * per = A[i] * per
            <7> DEFINE v == A[i]
                       t == i - 1
            <7>1. segment \in Nat /\ n \in Nat /\ per \in Nat /\ t \in Nat /\ w \in Nat /\ v \in Nat
                  /\ w = n * per /\ v = segment * n + t
              BY <1>2, <2>2, <3>1, <4>1, <4>2
            <7> HIDE DEF v, t, per
            <7>2. segment * w + t * per = v * per
              BY <6>1, <7>1
            <7>3. QED
              BY <7>2 DEF v, t
          <6>3. segment * w \in Nat /\ A[i] * per = segment * w + c
            <7>1. segment * w \in Nat
              BY <1>2, <2>2
            <7>2. QED
              BY <6>2, <7>1
          <6> HIDE DEF c
          <6>4. segment * w + (c + r) - 1 = A[i] * per + r - 1
            BY <3>1, <5>3, <6>3
          <6>5. QED
            BY <6>4 DEF c
        <5>6. data[(i - 1) * per + r] = Node(l, segment * w + ((i - 1) * per + r) - 1)
          BY <3>2, <5>4
        <5> HIDE DEF A, per
        <5>7. QED
          BY <5>5, <5>6
      <4>4. QED
        BY <4>2, <4>3
    <3>5. PackAndHash(l, data) = [i \in 1 .. n |-> <<l.depth - 1, A[i]>>]
      <4>1. n \in Nat /\ \A i \in 1 .. n : A[i] \in Nat
        BY <2>2, <3>4
      <4>2. \A i \in 1 .. n : \A r \in 1 .. l.per : data[(i - 1) * l.per + r] = Node(l, A[i] * l.per + r - 1)
        BY <3>4
      <4>3. l.per \in Nat \ {0} /\ Len(data) = n * l.per
        BY <3>1, <3>3
      <4> HIDE DEF A
      <4>4. RightKind(l) /\ l.depth \in Nat /\ l.per \in Nat \ {0} /\ n \in Nat
        BY <3>1, <4>1
      <4>5. PackagesOf(l, n, A, data)
        BY <4>1, <4>2, <4>3 DEF PackagesOf
      <4>6. PackAndHash(l, data) = [i \in 1 .. n |-> <<l.depth - 1, A[i]>>]
        BY ONLY <4>4, <4>5, RightHashes
      <4>7. QED
        BY <4>6
    <3>6. [i \in 1 .. n |-> <<l.depth - 1, A[i]>>] = SegmentAt(segment, j + 1)
      <4>1. SegmentAt(segment, j + 1) = [i \in 1 .. n |-> Node(layers[j + 1], segment * n + i - 1)]
        BY DEF SegmentAt, n
      <4>2. layers[j + 1].depth = l.depth - 1
        BY <2>3, <2>5 DEF l
      <4>3. QED
        BY <4>1, <4>2 DEF Node
    <3>7. QED
      BY <2>5, <3>5, <3>6 DEF l, data
  <2>6. QED
    BY <2>4, <2>5
<1>4. g = E(g)
  <2>1. \A j \in 1 .. Innermost : g[j] = E(g)[j]
    <3> SUFFICES ASSUME NEW j \in 1 .. Innermost PROVE g[j] = E(g)[j]
      OBVIOUS
    <3>1. CASE j = 1
      BY <1>1, <3>1 DEF SegmentAt
    <3>2. CASE j # 1
      <4>1. j - 1 \in 1 .. Innermost - 1 /\ j - 1 \in 1 .. Innermost /\ (j - 1) + 1 = j
        BY <1>1, <3>2
      <4>2. SegmentAt(segment, (j - 1) + 1) =
               IF layers[j - 1].kind = "packaging" THEN PackAndHash(layers[j - 1], SegmentAt(segment, j - 1))
               ELSE SegmentAt(segment, j - 1)
        BY <1>3, <4>1
      <4>3. g[j - 1] = SegmentAt(segment, j - 1) /\ g[j] = SegmentAt(segment, j)
        BY <4>1
      <4> HIDE DEF g
      <4>4. E(g)[j] = IF layers[j - 1].kind = "packaging" THEN PackAndHash(layers[j - 1], g[j - 1]) ELSE g[j - 1]
        BY <1>1, <3>2
      <4> HIDE DEF E
      <4>5. QED
        BY <4>1, <4>2, <4>3, <4>4
    <3>3. QED
      BY <3>1, <3>2
  <2>2. g = [j \in 1 .. Innermost |-> g[j]] /\ E(g) = [j \in 1 .. Innermost |-> E(g)[j]]
    BY <1>1
  <2> HIDE DEF g, E
  <2>3. QED
    BY <2>1, <2>2
<1>5. flow = E(flow)
  <2>1. flow = CHOOSE f : f = E(f)
    OBVIOUS
  <2> HIDE DEF g, E
  <2>2. QED
    BY <1>4, <2>1
<1> DEFINE T == {j \in Nat : j \in 1 .. Innermost => flow[j] = SegmentAt(segment, j)}
<1>6. 0 \in T
  OBVIOUS
<1>7. ASSUME NEW j \in Nat, j \in T PROVE j + 1 \in T
  <2>1. SUFFICES ASSUME j + 1 \in 1 .. Innermost PROVE flow[j + 1] = SegmentAt(segment, j + 1)
    OBVIOUS
  <2>2. flow[j + 1] = E(flow)[j + 1]
    <3> HIDE DEF E
    <3>1. QED
      BY <1>5
  <2>3. CASE j = 0
    <3>1. E(flow)[j + 1] = [i \in 1 .. SegWidth(1) |-> Node(layers[1], segment * SegWidth(1) + i - 1)]
      BY <1>1, <2>1, <2>3
    <3>2. QED
      BY <2>2, <2>3, <3>1 DEF SegmentAt
  <2>4. CASE j # 0
    <3>1. j \in 1 .. Innermost - 1 /\ j \in 1 .. Innermost /\ (j + 1) - 1 = j /\ j + 1 # 1
      BY <1>1, <2>1, <2>4
    <3>2. E(flow)[j + 1] = IF layers[j].kind = "packaging" THEN PackAndHash(layers[j], flow[j]) ELSE flow[j]
      BY <1>1, <2>1, <3>1
    <3>3. flow[j] = SegmentAt(segment, j)
      BY <1>7, <3>1
    <3> HIDE DEF E
    <3>4. QED
      BY <1>3, <2>2, <3>1, <3>2, <3>3
  <2>5. QED
    BY <2>3, <2>4
<1>8. \A j \in Nat : j \in T
  <2> HIDE DEF T
  <2>1. QED
    BY <1>6, <1>7, SetInduction
<1>9. QED
  BY <1>8

\* A segment fills its part of what caching layers and the tree hold.
LEMMA AddSegmentStep ==
  ASSUME LayersInv, NEW segment \in Segments, AddSegment(segment)
  PROVE  LayersInv'
<1> USE DEF LayersInv
<1>1. /\ UNCHANGED <<config, layers, rows, integrity, queries_, missing, n_missing_inner, phase, at, passed,
                     tampered, verdict>>
      /\ phase = "add" /\ segment \notin added /\ added' = added \cup {segment}
  BY DEF AddSegment, verifier
<1>2. /\ Innermost' = Innermost /\ Height' = Height /\ Stacked' /\ Segments' = Segments
      /\ \A k : Width(k)' = Width(k)
      /\ \A l : NumElements(l)' = NumElements(l) /\ Level(l)' = Level(l)
  BY <1>1, SameStack
<1>3. TypeOK' /\ Chosen' /\ Starting' /\ Walking' /\ Asking'
  BY <1>1, <1>2 DEF TypeOK, Chosen, Starting, Walking, Asking
<1>4. \E flow : /\ \A j \in 1 .. Innermost : flow[j] = SegmentAt(segment, j)
                /\ stored' = [j \in DOMAIN layers |->
                     LET offset == SegmentOffset(segment, Len(flow[j])) IN
                     [i \in DOMAIN stored[j] |->
                        IF i \in offset .. offset + Len(flow[j]) - 1
                        THEN flow[j][i - offset + 1] ELSE stored[j][i]]]
  <2> DEFINE flow == CHOOSE f : f = [j \in DOMAIN layers |->
           IF j = 1 THEN [i \in 1 .. SegWidth(1) |-> Node(layers[1], segment * SegWidth(1) + i - 1)]
           ELSE IF layers[j - 1].kind = "packaging" THEN PackAndHash(layers[j - 1], f[j - 1])
           ELSE f[j - 1]]
  <2> DEFINE length == NumElements(layers[1]) \div Pow2[config.log_segments]
             flow0 == CHOOSE f : f = [j \in DOMAIN layers |->
           IF j = 1 THEN [i \in 1 .. length |-> Node(layers[1], segment * length + i - 1)]
           ELSE IF layers[j - 1].kind = "packaging" THEN PackAndHash(layers[j - 1], f[j - 1])
           ELSE f[j - 1]]
  <2>1. length = SegWidth(1)
    BY SegWidths
  <2>a. stored' = [j \in DOMAIN layers |->
                     LET offset == SegmentOffset(segment, Len(flow0[j])) IN
                     [i \in DOMAIN stored[j] |->
                        IF i \in offset .. offset + Len(flow0[j]) - 1
                        THEN flow0[j][i - offset + 1] ELSE stored[j][i]]]
    BY DEF AddSegment
  <2>b. flow0 = flow
    <3> HIDE DEF length
    <3>1. QED
      BY <2>1
  <2> HIDE DEF flow0, length
  <2>2. stored' = [j \in DOMAIN layers |->
                     LET offset == SegmentOffset(segment, Len(flow[j])) IN
                     [i \in DOMAIN stored[j] |->
                        IF i \in offset .. offset + Len(flow[j]) - 1
                        THEN flow[j][i - offset + 1] ELSE stored[j][i]]]
    <3> HIDE DEF flow
    <3>1. QED
      BY <2>a, <2>b
  <2> DEFINE f == flow
  <2>3. \A j \in 1 .. Innermost : f[j] = SegmentAt(segment, j)
    BY SegmentFlow
  <2> HIDE DEF flow
  <2>4. QED
    BY <2>2, <2>3
<1>5. Filled'
  <2>1. PICK flow : /\ \A j \in 1 .. Innermost : flow[j] = SegmentAt(segment, j)
                /\ stored' = [j \in DOMAIN layers |->
                     LET offset == SegmentOffset(segment, Len(flow[j])) IN
                     [i \in DOMAIN stored[j] |->
                        IF i \in offset .. offset + Len(flow[j]) - 1
                        THEN flow[j][i - offset + 1] ELSE stored[j][i]]]
    BY <1>4
  <2>2. DOMAIN layers = 1 .. Innermost /\ Innermost \in Nat /\ Innermost >= 2
    BY StackFacts
  <2>3. segment \in Nat /\ Height \in Nat /\ config.log_segments \in 0 .. Height /\ config.log_segments \in Nat
    <3>1. config.log_segments \in Nat /\ Height \in Nat /\ config.log_segments \in 0 .. Height
      BY ConfigTypes DEF Stacked
    <3>2. Pow2[config.log_segments] \in Nat
      BY <3>1, Pow2Values
    <3>3. QED
      BY <3>1, <3>2 DEF Segments
  <2>4. stored' = [j \in 1 .. Innermost |-> stored'[j]]
    BY <2>1, <2>2
  <2>5. ASSUME NEW j \in 1 .. Innermost, layers[j].kind # "packaging"
        PROVE  /\ stored'[j] = [i \in 0 .. Pow2[layers[j].depth] - 1 |-> stored'[j][i]]
               /\ \A i \in 0 .. Pow2[layers[j].depth] - 1 :
                    SegmentOf(layers[j], i) \in added' => stored'[j][i] = Node(layers[j], i)
    <3> DEFINE w == SegWidth(j)
    <3>1. w \in Nat \ {0} /\ w = Pow2[layers[j].depth - config.log_segments]
      <4>1. j # 1
        BY <2>5, StackFacts
      <4>2. QED
        BY <4>1, SegWidths DEF SegWidth
    <3>2. flow[j] = [i \in 1 .. w |-> Node(layers[j], segment * w + i - 1)]
      BY <2>1 DEF SegmentAt
    <3> HIDE DEF w
    <3>3. Len(flow[j]) = w
      BY <3>1, <3>2
    <3>4. DOMAIN stored[j] = 0 .. Pow2[layers[j].depth] - 1
      <4>1. stored[j] = [i \in 0 .. Pow2[layers[j].depth] - 1 |-> stored[j][i]]
        BY <2>5 DEF Filled
      <4>2. QED
        BY <4>1
    <3>5. stored'[j] = [i \in 0 .. Pow2[layers[j].depth] - 1 |->
              IF i \in segment * w .. segment * w + w - 1 THEN flow[j][i - segment * w + 1] ELSE stored[j][i]]
      BY <2>1, <2>2, <3>3, <3>4 DEF SegmentOffset
    <3>6. ASSUME NEW i \in 0 .. Pow2[layers[j].depth] - 1, SegmentOf(layers[j], i) \in added'
          PROVE  stored'[j][i] = Node(layers[j], i)
      <4>1. SegmentOf(layers[j], i) = i \div w
        BY <3>1 DEF SegmentOf
      <4>2. i \in Nat /\ segment * w \in Nat
        <5>1. layers[j].depth \in Nat
          BY StackKinds
        <5>2. Pow2[layers[j].depth] \in Nat
          BY <5>1, Pow2Values
        <5>3. QED
          BY <2>3, <3>1, <5>2
      <4>3. i \in segment * w .. segment * w + w - 1 <=> i \div w = segment
        <5>1. w \in Nat /\ w >= 1
          BY <3>1
        <5>2. (i \div w) * w <= i /\ i < (i \div w) * w + w
          BY <4>2, <5>1, QuotientBounds
        <5>3. segment * w <= i /\ i < segment * w + w => i \div w = segment
          BY <2>3, <4>2, <5>1, QuotientUnique
        <5>4. i \div w = segment => segment * w <= i /\ i < segment * w + w
          BY <5>2
        <5> DEFINE a == segment * w
                   q == i \div w
        <5>5. a \in Nat /\ (a <= i /\ i < a + w <=> q = segment)
          BY <4>2, <5>3, <5>4
        <5> HIDE DEF a, q
        <5>6. i \in a .. a + w - 1 <=> q = segment
          BY <4>2, <5>1, <5>5
        <5>7. QED
          BY <5>6 DEF a, q
      <4>4. CASE i \div w = segment
        <5> DEFINE a == segment * w
        <5>1. a \in Nat /\ i \in a .. a + w - 1
          BY <4>2, <4>3, <4>4
        <5> HIDE DEF a
        <5>2. i - a + 1 \in 1 .. w /\ a + (i - a + 1) - 1 = i
          BY <3>1, <4>2, <5>1
        <5>3. flow[j][i - a + 1] = Node(layers[j], a + (i - a + 1) - 1)
          BY <3>2, <5>2 DEF a
        <5>4. stored'[j][i] = flow[j][i - a + 1]
          BY <3>5, <5>1 DEF a
        <5>5. QED
          BY <5>2, <5>3, <5>4
      <4>5. CASE i \div w # segment
        <5>1. SegmentOf(layers[j], i) \in added
          BY <1>1, <3>6, <4>1, <4>5
        <5>2. stored[j][i] = Node(layers[j], i)
          BY <2>5, <5>1 DEF Filled
        <5>3. stored'[j][i] = stored[j][i]
          BY <3>5, <4>3, <4>5
        <5>4. QED
          BY <5>2, <5>3
      <4>6. QED
        BY <4>4, <4>5
    <3>7. QED
      BY <3>5, <3>6
  <2>6. added' \subseteq Segments
    BY <1>1 DEF Filled
  <2>7. QED
    BY <1>1, <1>2, <2>4, <2>5, <2>6 DEF Filled, SegmentOf
<1>6. QED
  BY <1>2, <1>1, <1>3, <1>5

\* All segments are added.
LEMMA CommitStep ==
  ASSUME LayersInv, Commit
  PROVE  LayersInv'
<1> USE DEF LayersInv
<1>1. /\ UNCHANGED <<config, layers, stored, added, rows, integrity, queries_, missing, n_missing_inner, at, passed,
                     tampered, verdict>>
      /\ phase = "add" /\ phase' = "query" /\ added = Segments
  BY DEF Commit, verifier, prover
<1>2. /\ Innermost' = Innermost /\ Height' = Height /\ Stacked' /\ Segments' = Segments
      /\ \A k : Width(k)' = Width(k)
      /\ \A l : NumElements(l)' = NumElements(l) /\ Level(l)' = Level(l)
  BY <1>1, SameStack
<1>3. TypeOK'
  BY <1>1, <1>2 DEF TypeOK, Phases
<1>4. Chosen' /\ Starting' /\ Walking' /\ Asking'
  BY <1>1, <1>2 DEF Chosen, Starting, Walking, Asking
<1>5. Filled'
  BY <1>1, <1>2 DEF Filled, SegmentOf
<1>6. QED
  BY <1>1, <1>2, <1>3, <1>4, <1>5

-----------------------------------------------------------------------------
\* Queries go in.

\* The table chooses rows and integrity queries.
LEMMA TableStartStep ==
  ASSUME LayersInv, TableStartDecommitment
  PROVE  LayersInv'
<1> USE DEF LayersInv
<1>1. /\ UNCHANGED <<config, layers, stored, added, queries_, missing, n_missing_inner, tampered, verdict>>
      /\ phase = "query" /\ phase' = "start" /\ at' = 1
  BY DEF TableStartDecommitment, verifier
<1>2. /\ Innermost' = Innermost /\ Height' = Height /\ Stacked' /\ Segments' = Segments
      /\ \A k : Width(k)' = Width(k)
      /\ \A l : NumElements(l)' = NumElements(l) /\ Level(l)' = Level(l)
  BY <1>1, SameStack
<1>3. /\ Innermost \in Nat /\ Innermost >= 2 /\ Level(layers[1]) = 0 /\ NumElements(layers[1]) = Width(0)
  <2>1. Innermost \in Nat /\ Innermost >= 2 /\ Level(layers[1]) = 0
    BY StackFacts
  <2>2. 1 \in 1 .. Innermost
    BY <2>1
  <2>3. NumElements(layers[1]) = Width(Level(layers[1]))
    BY <2>2, StackFacts
  <2>4. QED
    BY <2>1, <2>3
<1>4. /\ rows' \subseteq 0 .. Width(0) - 1 /\ rows' # {} /\ integrity' \subseteq Cells(rows') /\ passed' = rows'
  <2>1. PICK S \in (SUBSET (0 .. NumElements(layers[1]) - 1)) \ {{}} :
          \E I \in SUBSET Cells(S) : rows' = S /\ integrity' = I /\ passed' = S
    BY DEF TableStartDecommitment
  <2>2. QED
    BY <1>3, <2>1
<1>5. TypeOK'
  <2>1. config.log_segments \in Nat
    BY ConfigTypes DEF Stacked
  <2>2. at' \in 0 .. Innermost + config.log_segments + 1
    BY <1>1, <1>3, <2>1
  <2>3. phase' \in Phases /\ tampered' \in BOOLEAN /\ verdict' \in {"none", "accept", "reject"}
    BY <1>1 DEF Phases, TypeOK
  <2>4. QED
    BY <1>1, <2>2, <2>3, TypesStand
<1>6. Filled'
  BY <1>1, <1>2 DEF Filled, SegmentOf
<1>7. Chosen'
  <2>1. Cells(rows') = Cells(rows)'
    BY <1>1 DEF Cells, Cell
  <2>2. QED
    BY <1>2, <1>4, <2>1 DEF Chosen
<1>8. Starting'
  <2>1. layers' = layers /\ QueriesAt(0)' = rows'
    BY <1>1 DEF QueriesAt
  <2>2. QueriesAt(Level(layers[1]))' = rows'
    <3>1. Level(layers[1])' = 0
      BY <1>2, <1>3, <2>1
    <3>2. QED
      BY <3>1 DEF QueriesAt
  <2>3. (QueriesAt(Level(layers[at])))' = rows'
    BY <1>1, <2>2
  <2>4. at' \in 1 .. Innermost' /\ ~ \E j \in 1 .. at' - 1 : TRUE
    BY <1>1, <1>2, <1>3
  <2>5. QED
    BY <1>1, <1>4, <2>3, <2>4 DEF Starting
<1>9. Asking' /\ Walking'
  BY <1>1, <1>2 DEF Asking, Walking
<1>10. QED
  BY <1>1, <1>2, <1>5, <1>6, <1>7, <1>8, <1>9

\* The queries of the layers of the stack.
LEMMA StackQueries ==
  ASSUME Stacked, Chosen, phase \notin {"add", "query"}
  PROVE  /\ config \in Configurations /\ rows \subseteq 0 .. Width(0) - 1 /\ rows # {}
         /\ \A j \in 1 .. Innermost :
              /\ QueriesAt(Level(layers[j])) \subseteq 0 .. NumElements(layers[j]) - 1
              /\ NumElements(layers[j]) \in Nat \ {0}
              /\ layers[j].kind = "packaging" =>
                   LET k == Level(layers[j]) IN
                   /\ j \in 1 .. Innermost - 1 /\ k \in 0 .. Height /\ k + 1 = Level(layers[j + 1])
                   /\ layers[j].per = Per(k) /\ layers[j].per \in Nat \ {0}
                   /\ NumElements(layers[j]) = Width(k) /\ NumElements(layers[j + 1]) = Width(k + 1)
                   /\ Width(k) = Width(k + 1) * layers[j].per
                   /\ ElementsRequiredToComputeHashes(layers[j], QueriesAt(k)) = RequiredAt(k)
                   /\ PackageQueries(layers[j], QueriesAt(k)) = QueriesAt(k + 1)
                   /\ SetOf(RequiredAt(k)) = {i \in 0 .. Width(k) - 1 : i \div Per(k) \in QueriesAt(k + 1)} \ QueriesAt(k)
                   /\ RequiredAt(k) \in Seq(0 .. Width(k) - 1) /\ ~HasDuplicates(RequiredAt(k))
<1>1. config \in Configurations /\ rows \subseteq 0 .. Width(0) - 1 /\ rows # {}
  BY DEF Stacked, Chosen
<1>2. Height \in Nat
  BY <1>1, ConfigTypes
<1>3. ASSUME NEW j \in 1 .. Innermost
      PROVE  /\ QueriesAt(Level(layers[j])) \subseteq 0 .. NumElements(layers[j]) - 1
             /\ NumElements(layers[j]) \in Nat \ {0}
  <2>1. Level(layers[j]) \in 0 .. Height + 1 /\ NumElements(layers[j]) = Width(Level(layers[j]))
    BY StackFacts
  <2>2. QueriesAt(Level(layers[j])) \subseteq 0 .. Width(Level(layers[j])) - 1
    BY <1>1, <2>1, LevelQueries
  <2>3. Width(Level(layers[j])) \in Nat \ {0}
    BY <1>1, <2>1, Widths
  <2>4. QED
    BY <2>1, <2>2, <2>3
<1>4. ASSUME NEW j \in 1 .. Innermost, layers[j].kind = "packaging"
      PROVE  LET k == Level(layers[j]) IN
                   /\ j \in 1 .. Innermost - 1 /\ k \in 0 .. Height /\ k + 1 = Level(layers[j + 1])
                   /\ layers[j].per = Per(k) /\ layers[j].per \in Nat \ {0}
                   /\ NumElements(layers[j]) = Width(k) /\ NumElements(layers[j + 1]) = Width(k + 1)
                   /\ Width(k) = Width(k + 1) * layers[j].per
                   /\ ElementsRequiredToComputeHashes(layers[j], QueriesAt(k)) = RequiredAt(k)
                   /\ PackageQueries(layers[j], QueriesAt(k)) = QueriesAt(k + 1)
                   /\ SetOf(RequiredAt(k)) = {i \in 0 .. Width(k) - 1 : i \div Per(k) \in QueriesAt(k + 1)} \ QueriesAt(k)
                   /\ RequiredAt(k) \in Seq(0 .. Width(k) - 1) /\ ~HasDuplicates(RequiredAt(k))
  <2> DEFINE k == Level(layers[j])
             l == layers[j]
  <2>1. k \in 0 .. Height /\ l.per = Per(k) /\ NumElements(layers[j]) = Width(k)
    BY <1>4, StackFacts
  <2>2. j \in 1 .. Innermost - 1
    <3>1. layers[j].kind = "merkle" <=> j = Innermost
      BY StackFacts
    <3>2. Innermost \in Nat
      BY StackFacts
    <3>3. QED
      BY <1>4, <3>1, <3>2
  <2>3. Level(layers[j + 1]) = k + 1
    BY <1>4, <2>2, StackFacts
  <2>4. NumElements(layers[j + 1]) = Width(k + 1)
    <3>1. j + 1 \in 1 .. Innermost
      <4>1. Innermost \in Nat
        BY StackFacts
      <4>2. QED
        BY <2>2, <4>1
    <3>2. NumElements(layers[j + 1]) = Width(Level(layers[j + 1]))
      BY <3>1, StackFacts
    <3>3. QED
      BY <2>3, <3>2
  <2> HIDE DEF k, l
  <2>5. Per(k) \in Nat \ {0} /\ Width(k) = Width(k + 1) * Per(k)
    <3>1. k \in 0 .. Height + 1
      BY <1>2, <2>1
    <3>2. QED
      BY <1>1, <2>1, <3>1, Widths
  <2>6. /\ ElementsRequiredToComputeHashes(l, QueriesAt(k)) = RequiredAt(k)
        /\ PackageQueries(l, QueriesAt(k)) = QueriesAt(k + 1)
        /\ SetOf(RequiredAt(k)) = {i \in 0 .. Width(k) - 1 : i \div Per(k) \in QueriesAt(k + 1)} \ QueriesAt(k)
        /\ RequiredAt(k) \in Seq(0 .. Width(k) - 1) /\ ~HasDuplicates(RequiredAt(k))
    BY <1>1, <2>1, RequiredOfLevel
  <2>7. QED
    BY <2>1, <2>2, <2>3, <2>4, <2>5, <2>6 DEF k, l
<1>5. QED
  BY <1>1, <1>3, <1>4

\* A layer passes the images of its queries on.
LEMMA StartDecommitmentStep ==
  ASSUME LayersInv, StartDecommitment
  PROVE  LayersInv'
<1> USE DEF LayersInv
<1> DEFINE l == layers[at]
           k == Level(l)
<1>1. /\ UNCHANGED <<config, layers, stored, added, rows, integrity, n_missing_inner, tampered, verdict>>
      /\ phase = "start"
      /\ queries_' = [queries_ EXCEPT ![at] = passed]
      /\ missing' = [missing EXCEPT ![at] =
           IF l.kind = "packaging" THEN ElementsRequiredToComputeHashes(l, passed) ELSE <<>>]
      /\ passed' = IF l.kind = "packaging" THEN PackageQueries(l, passed)
                   ELSE IF l.kind = "caching" THEN passed ELSE <<>>
      /\ IF l.kind = "merkle" THEN phase' = "return" /\ at' = at - 1
         ELSE at' = at + 1 /\ phase' = phase
  BY DEF StartDecommitment, verifier
<1>2. /\ Innermost' = Innermost /\ Height' = Height /\ Stacked' /\ Segments' = Segments
      /\ \A m : Width(m)' = Width(m)
      /\ \A m : NumElements(m)' = NumElements(m) /\ Level(m)' = Level(m)
  BY <1>1, SameStack
<1>3. \A m : QueriesAt(m)' = QueriesAt(m) /\ RequiredAt(m)' = RequiredAt(m)
  BY <1>1, SameQueries
<1>4. at \in 1 .. Innermost /\ passed = QueriesAt(k) /\ \A j \in 1 .. at - 1 : Started(j)
  BY <1>1 DEF Starting
<1>5. /\ Innermost \in Nat /\ Innermost >= 2
      /\ l.kind \in {"packaging", "caching", "merkle"}
      /\ l.kind = "merkle" <=> at = Innermost
      /\ l.kind # "merkle" => Level(layers[at + 1]) = k + (IF l.kind = "packaging" THEN 1 ELSE 0)
  <2>1. Innermost \in Nat /\ Innermost >= 2 /\ l.kind \in {"packaging", "caching", "merkle"} /\ (l.kind = "merkle" <=> at = Innermost)
    BY <1>4, StackFacts
  <2>2. l.kind # "merkle" => at \in 1 .. Innermost - 1
    BY <1>4, <2>1
  <2>3. QED
    BY <2>1, <2>2, StackFacts
<1>6. /\ QueriesAt(k) \subseteq 0 .. NumElements(l) - 1
      /\ l.kind = "packaging" =>
           /\ ElementsRequiredToComputeHashes(l, QueriesAt(k)) = RequiredAt(k)
           /\ PackageQueries(l, QueriesAt(k)) = QueriesAt(k + 1)
           /\ RequiredAt(k) \in Seq(0 .. NumElements(l) - 1)
  BY <1>1, <1>4, StackQueries
<1>7. /\ missing'[at] = (IF l.kind = "packaging" THEN RequiredAt(k) ELSE <<>>) /\ queries_'[at] = QueriesAt(k)
      /\ \A j \in 1 .. Innermost : j # at => missing'[j] = missing[j] /\ queries_'[j] = queries_[j]
      /\ missing' = [j \in 1 .. Innermost |-> missing'[j]] /\ queries_' = [j \in 1 .. Innermost |-> queries_'[j]]
  <2>1. missing = [j \in 1 .. Innermost |-> missing[j]] /\ queries_ = [j \in 1 .. Innermost |-> queries_[j]]
    BY DEF Walking
  <2> HIDE DEF l, k
  <2>2. /\ missing' = [missing EXCEPT ![at] = IF l.kind = "packaging" THEN RequiredAt(k) ELSE <<>>]
        /\ queries_' = [queries_ EXCEPT ![at] = QueriesAt(k)]
    BY <1>1, <1>4, <1>6
  <2>3. QED
    BY <1>4, <2>1, <2>2
<1>8. Filled' /\ Chosen' /\ Walking'
  <2>1. phase' \in {"start", "return"}
    BY <1>1, <1>5
  <2>2. Filled' /\ Chosen'
    BY <1>1, <1>2, <2>1 DEF Filled, SegmentOf, Chosen, Cells, Cell
  <2>3. Walking'
    BY <1>1, <1>2, <1>7, <2>1 DEF Walking
  <2>4. QED
    BY <2>2, <2>3
<1>9. TypeOK'
  <2>1. config.log_segments \in Nat
    BY ConfigTypes DEF Stacked
  <2>2. at' \in 0 .. Innermost + config.log_segments + 1 /\ phase' \in Phases
    <3>1. at' \in 0 .. Innermost
      <4> HIDE DEF l, k
      <4>1. CASE l.kind = "merkle"
        BY <1>1, <1>4, <1>5, <4>1
      <4>2. CASE l.kind # "merkle"
        BY <1>1, <1>4, <1>5, <4>2
      <4>3. QED
        BY <4>1, <4>2
    <3>2. QED
      BY <1>1, <1>5, <2>1, <3>1 DEF Phases
  <2>3. ASSUME NEW j \in 1 .. Innermost
        PROVE  /\ queries_'[j] \subseteq 0 .. NumElements(layers[j]) - 1
               /\ \A m \in DOMAIN missing'[j] : missing'[j][m] \in 0 .. NumElements(layers[j]) - 1
               /\ n_missing_inner[j] \in 0 .. NumElements(layers[j])
    <3>1. DOMAIN layers = 1 .. Innermost
      BY StackFacts
    <3>2. n_missing_inner[j] \in 0 .. NumElements(layers[j])
      BY <3>1 DEF TypeOK
    <3>3. CASE j # at
      BY <1>7, <3>1, <3>2, <3>3 DEF TypeOK
    <3>4. CASE j = at
      <4>1. \A m \in DOMAIN missing'[at] : missing'[at][m] \in 0 .. NumElements(l) - 1
        <5>0. \A S, s : s \in Seq(S) => \A m \in DOMAIN s : s[m] \in S
          OBVIOUS
        <5>1. CASE l.kind = "packaging"
          <6>1. missing'[at] \in Seq(0 .. NumElements(l) - 1)
            BY <1>6, <1>7, <5>1
          <6>2. QED
            BY <5>0, <6>1
        <5>2. CASE l.kind # "packaging"
          <6>1. missing'[at] = <<>>
            BY <1>7, <5>2
          <6>2. missing'[at] \in Seq(0 .. NumElements(l) - 1)
            BY <6>1
          <6>3. QED
            BY <5>0, <6>2
        <5>3. QED
          BY <5>1, <5>2
      <4>2. queries_'[at] \subseteq 0 .. NumElements(l) - 1
        BY <1>6, <1>7
      <4>3. QED
        BY <3>2, <3>4, <4>1, <4>2
    <3>5. QED
      BY <3>3, <3>4
  <2>4. DOMAIN layers' = 1 .. Innermost /\ config' \in Configurations
    BY <1>1, StackFacts DEF TypeOK
  <2>5. QED
    BY <1>1, <1>2, <2>2, <2>3, <2>4 DEF TypeOK, Innermost
<1>10. \A j \in 1 .. at : Started(j)'
  <2>1. ASSUME NEW j \in 1 .. at - 1 PROVE Started(j)'
    <3>1. Started(j) /\ j # at /\ j \in 1 .. Innermost
      BY <1>4, <1>5
    <3>2. QED
      BY <1>1, <1>2, <1>3, <1>7, <3>1 DEF Started
  <2>2. Started(at)
        <=> /\ queries_[at] = QueriesAt(Level(layers[at]))
            /\ layers[at].kind = "packaging" => missing[at] = RequiredAt(Level(layers[at]))
    BY DEF Started
  <2>3. ASSUME NEW j, j = at PROVE Started(j)'
    <3>1. queries_'[j] = QueriesAt(k) /\ (l.kind = "packaging" => missing'[j] = RequiredAt(k))
      BY <1>7, <2>3
    <3>2. layers'[j] = l
      BY <1>1, <2>3
    <3>3. Level(layers[j])' = k
      BY <1>2, <3>2
    <3>4. QueriesAt(Level(layers[j]))' = QueriesAt(k) /\ RequiredAt(Level(layers[j]))' = RequiredAt(k)
      <4>1. \A m : m = Level(layers[j])' => QueriesAt(Level(layers[j]))' = QueriesAt(m)' /\ RequiredAt(Level(layers[j]))' = RequiredAt(m)'
        OBVIOUS
      <4>2. QED
        BY <1>3, <3>3
    <3>5. QED
      BY <3>1, <3>2, <3>4 DEF Started
  <2>4. \A j \in 1 .. at : j \in 1 .. at - 1 \/ j = at
    BY <1>4
  <2>5. QED
    BY <2>1, <2>3, <2>4
<1>11. CASE l.kind = "merkle"
  <2>1. phase' = "return" /\ at' = Innermost - 1 /\ at = Innermost /\ passed' = <<>>
    BY <1>1, <1>5, <1>11
  <2>2. Starting'
    BY <1>2, <1>10, <2>1 DEF Starting
  <2>3. Asking'
    <3>1. PICK ask : ask \in [1 .. Innermost -> Seq(Nat)] /\ ask[Innermost] = <<>>
      <4>1. [j \in 1 .. Innermost |-> <<>>] \in [1 .. Innermost -> Seq(Nat)] /\ [j \in 1 .. Innermost |-> <<>>][Innermost] = <<>>
        BY <1>5
      <4>2. QED
        BY <4>1
    <3>2. at' \in 0 .. Innermost - 1 /\ at' + 1 = Innermost
      BY <1>5, <2>1
    <3>3. Asked(Innermost, <<>>)'
      BY DEF Asked, HasDuplicates, SetOf
    <3>4. Asks(ask, at + 1)'
      <4>1. Asks(ask, Innermost)'
        <5>1. ~ \E j \in Innermost .. Innermost - 1 : TRUE
          BY <1>5
        <5>2. \A j \in Innermost .. Innermost : j = Innermost
          BY <1>5
        <5>3. \A j \in Innermost' .. Innermost' : Asked(j, ask[j])'
          BY <1>2, <3>1, <3>3, <5>2
        <5>4. QED
          BY <1>2, <3>1, <5>1, <5>3 DEF Asks
      <4>2. QED
        BY <1>2, <3>2, <4>1
    <3>5. passed' = ask[at' + 1]
      BY <2>1, <3>1, <3>2
    <3>6. QED
      BY <1>2, <2>1, <3>2, <3>4, <3>5 DEF Asking
  <2>4. QED
    BY <1>1, <1>2, <1>8, <1>9, <2>1, <2>2, <2>3
<1>12. CASE l.kind # "merkle"
  <2>1. phase' = "start" /\ at' = at + 1 /\ at \in 1 .. Innermost - 1
    BY <1>1, <1>4, <1>5, <1>12
  <2>2. Starting'
    <3>1. passed' = QueriesAt(Level(layers[at + 1]))
      <4>1. CASE l.kind = "packaging"
        <5>1. passed' = QueriesAt(k + 1) /\ Level(layers[at + 1]) = k + 1
          BY <1>1, <1>4, <1>5, <1>6, <4>1
        <5>2. QED
          BY <5>1
      <4>2. CASE l.kind = "caching"
        <5>1. passed' = QueriesAt(k) /\ Level(layers[at + 1]) = k + 0
          BY <1>1, <1>4, <1>5, <4>2
        <5>2. k \in Nat
          <6>1. k \in 0 .. Height + 1 /\ Height \in Nat
            BY <1>4, StackFacts, ConfigTypes DEF Stacked
          <6>2. QED
            BY <6>1
        <5> HIDE DEF k, l
        <5>3. k + 0 = k
          BY <5>2
        <5>4. QED
          BY <5>1, <5>3
      <4>3. QED
        BY <1>5, <1>12, <4>1, <4>2
    <3>2. QueriesAt(Level(layers[at]))' = QueriesAt(Level(layers[at + 1]))
      <4>1. Level(layers[at])' = Level(layers[at + 1])
        BY <1>1, <1>2, <2>1
      <4>2. QED
        BY <1>3, <4>1
    <3>3. at' \in 1 .. Innermost /\ \A j \in 1 .. at' - 1 : Started(j)'
      BY <1>4, <1>5, <1>10, <2>1
    <3>4. QED
      BY <1>2, <2>1, <3>1, <3>2, <3>3 DEF Starting
  <2>3. Asking'
    BY <2>1 DEF Asking
  <2>4. QED
    BY <1>1, <1>2, <1>8, <1>9, <2>1, <2>2, <2>3
<1>13. QED
  BY <1>11, <1>12

-----------------------------------------------------------------------------
\* Requests come out.

\* Two lists without a common element.
LEMMA JoinedLists ==
  ASSUME NEW S, NEW s \in Seq(S), NEW t \in Seq(S), ~HasDuplicates(s), ~HasDuplicates(t),
         SetOf(s) \cap SetOf(t) = {}
  PROVE  s \o t \in Seq(S) /\ ~HasDuplicates(s \o t) /\ SetOf(s \o t) = SetOf(s) \cup SetOf(t)
<1> DEFINE u == s \o t
           m == Len(s)
           n == Len(t)
<1>1. /\ m \in Nat /\ n \in Nat /\ u \in Seq(S) /\ Len(u) = m + n
      /\ DOMAIN s = 1 .. m /\ DOMAIN t = 1 .. n /\ DOMAIN u = 1 .. m + n
  OBVIOUS
<1>2. /\ \A i \in 1 .. m : u[i] = s[i]
      /\ \A j \in 1 .. n : u[m + j] = t[j]
  BY Appended
<1> HIDE DEF u, m, n
<1>3. \A k \in 1 .. m + n : k \in 1 .. m \/ (k - m \in 1 .. n /\ m + (k - m) = k)
  BY <1>1
<1>4. \A k \in 1 .. m + n : (k \in 1 .. m /\ u[k] = s[k]) \/ (k - m \in 1 .. n /\ u[k] = t[k - m])
  <2> SUFFICES ASSUME NEW k \in 1 .. m + n, k \notin 1 .. m PROVE k - m \in 1 .. n /\ u[k] = t[k - m]
    BY <1>2
  <2>1. k - m \in 1 .. n /\ m + (k - m) = k
    BY <1>3
  <2>2. u[m + (k - m)] = t[k - m]
    BY <1>2, <2>1
  <2>3. QED
    BY <2>1, <2>2
<1>5. SetOf(u) \subseteq SetOf(s) \cup SetOf(t)
  BY <1>1, <1>4 DEF SetOf
<1>6. SetOf(s) \subseteq SetOf(u)
  <2>1. \A i \in 1 .. m : i \in 1 .. m + n
    BY <1>1
  <2>2. QED
    BY <1>1, <1>2, <2>1 DEF SetOf
<1>7. SetOf(t) \subseteq SetOf(u)
  <2>1. \A j \in 1 .. n : m + j \in 1 .. m + n
    BY <1>1
  <2>2. QED
    BY <1>1, <1>2, <2>1 DEF SetOf
<1>8. ASSUME NEW i \in 1 .. m + n, NEW j \in 1 .. m + n, u[i] = u[j] PROVE i = j
  <2>1. \A x \in 1 .. m : s[x] \in SetOf(s)
    BY <1>1 DEF SetOf
  <2>2. \A x \in 1 .. n : t[x] \in SetOf(t)
    BY <1>1 DEF SetOf
  <2>3. \A x, y \in 1 .. m : s[x] = s[y] => x = y
    BY <1>1 DEF HasDuplicates
  <2>4. \A x, y \in 1 .. n : t[x] = t[y] => x = y
    BY <1>1 DEF HasDuplicates
  <2>5. CASE i \in 1 .. m /\ j \in 1 .. m
    BY <1>2, <1>8, <2>3, <2>5
  <2>6. CASE i \in 1 .. m /\ j \notin 1 .. m
    <3>1. u[j] = t[j - m] /\ j - m \in 1 .. n /\ u[i] = s[i]
      BY <1>2, <1>4, <2>6
    <3>2. QED
      BY <1>8, <2>1, <2>2, <2>6, <3>1
  <2>7. CASE i \notin 1 .. m /\ j \in 1 .. m
    <3>1. u[i] = t[i - m] /\ i - m \in 1 .. n /\ u[j] = s[j]
      BY <1>2, <1>4, <2>7
    <3>2. QED
      BY <1>8, <2>1, <2>2, <2>7, <3>1
  <2>8. CASE i \notin 1 .. m /\ j \notin 1 .. m
    <3>1. u[i] = t[i - m] /\ i - m \in 1 .. n /\ u[j] = t[j - m] /\ j - m \in 1 .. n
      BY <1>4, <2>8
    <3>2. i - m = j - m
      BY <1>8, <2>4, <3>1
    <3>3. QED
      BY <1>1, <3>2
  <2>9. QED
    BY <2>5, <2>6, <2>7, <2>8
<1>9. ~HasDuplicates(u)
  BY <1>1, <1>8 DEF HasDuplicates
<1>10. QED
  BY <1>1, <1>5, <1>6, <1>7, <1>9 DEF u

\* A list of bounded numbers is one of numbers.
LEMMA Widened ==
  ASSUME NEW b \in Nat, NEW s \in Seq(0 .. b - 1)
  PROVE  s \in Seq(Nat)
<1>1. s \in [1 .. Len(s) -> 0 .. b - 1] /\ Len(s) \in Nat
  OBVIOUS
<1>2. s \in [1 .. Len(s) -> Nat]
  BY <1>1
<1>3. QED
  BY <1>1, <1>2

\* What a packaging layer asks for is not queried, and is asked for once.
LEMMA PackagingAsks ==
  ASSUME Stacked, Chosen, phase \notin {"add", "query"},
         NEW j \in 1 .. Innermost, layers[j].kind = "packaging",
         NEW asked, Asked(j + 1, asked)
  PROVE  LET inner == GetElementsInPackages(layers[j], asked) IN
         /\ Asked(j, RequiredAt(Level(layers[j])) \o inner)
         /\ Len(inner) \in 0 .. NumElements(layers[j])
<1> DEFINE l == layers[j]
           k == Level(l)
           inner == GetElementsInPackages(l, asked)
           own == RequiredAt(k)
           Q == QueriesAt(k)
           P == QueriesAt(k + 1)
           w == Width(k + 1)
           b == Width(k)
<1>1. /\ l.per = Per(k) /\ l.per \in Nat \ {0} /\ k + 1 = Level(layers[j + 1])
      /\ NumElements(l) = b /\ NumElements(layers[j + 1]) = w /\ b = w * l.per
      /\ SetOf(own) = {i \in 0 .. b - 1 : i \div Per(k) \in P} \ Q
      /\ own \in Seq(0 .. b - 1) /\ ~HasDuplicates(own)
      /\ PackageQueries(l, Q) = P
  BY StackQueries
<1>2. Q \subseteq 0 .. b - 1 /\ b \in Nat \ {0}
  BY <1>1, StackQueries
<1>3. asked \in Seq(0 .. w - 1) /\ ~HasDuplicates(asked) /\ SetOf(asked) \cap P = {}
  BY <1>1 DEF Asked
<1>4. w \in Nat
  <2>1. config \in Configurations /\ k + 1 \in 0 .. Height + 1
    <3>1. k \in 0 .. Height /\ config \in Configurations /\ Height \in Nat
      BY StackQueries, ConfigTypes DEF Stacked
    <3>2. QED
      BY <3>1
  <2>2. QED
    BY <2>1, Widths
<1>5. /\ inner \in Seq(0 .. w * l.per - 1) /\ ~HasDuplicates(inner)
      /\ \A x \in SetOf(inner) : PackageOf(l, x) \in SetOf(asked)
  <2> HIDE DEF l, w
  <2>1. QED
    BY <1>1, <1>3, <1>4, ElementsInPackages
<1>6. inner \in Seq(0 .. b - 1) /\ \A x \in SetOf(inner) : x \div l.per \notin P
  BY <1>1, <1>3, <1>5 DEF PackageOf
<1>7. SetOf(own) \cap SetOf(inner) = {}
  <2> HIDE DEF own, inner, P, Q, b, l, k
  <2>1. QED
    BY <1>1, <1>6
<1>8. SetOf(inner) \cap Q = {}
  <2>1. \A x \in Q : x \div l.per \in P
    BY <1>1 DEF PackageQueries, PackageOf
  <2> HIDE DEF own, inner, P, Q, b, l, k
  <2>2. QED
    BY <1>6, <2>1
<1>9. SetOf(own) \cap Q = {}
  <2> HIDE DEF own, inner, P, Q, b, l, k
  <2>1. QED
    BY <1>1
<1>10. own \o inner \in Seq(0 .. b - 1) /\ ~HasDuplicates(own \o inner) /\ SetOf(own \o inner) = SetOf(own) \cup SetOf(inner)
  <2>1. own \in Seq(0 .. b - 1) /\ inner \in Seq(0 .. b - 1) /\ ~HasDuplicates(own) /\ ~HasDuplicates(inner)
    BY <1>1, <1>5, <1>6
  <2> HIDE DEF own, inner, P, Q, b, l, k
  <2>2. QED
    BY ONLY <2>1, <1>7, JoinedLists
<1>11. Len(inner) \in 0 .. b
  <2>1. Len(inner) <= b
    <3> HIDE DEF inner, b
    <3>1. QED
      BY <1>2, <1>5, <1>6, LengthBound
  <2>2. Len(inner) \in Nat
    BY <1>6
  <2> HIDE DEF inner, b
  <2>3. QED
    BY <1>2, <2>1, <2>2
<1>12. Asked(j, own \o inner)
  <2>1. SetOf(own \o inner) \cap Q = {}
    <3> HIDE DEF own, inner, P, Q, b, l, k
    <3>1. QED
      BY <1>8, <1>9, <1>10
  <2>2. QED
    BY <1>1, <1>10, <2>1 DEF Asked
<1>13. QED
  BY <1>1, <1>11, <1>12

\* A layer returns what it asks for.
LEMMA ReturnRequestsStep ==
  ASSUME LayersInv, ReturnRequests
  PROVE  LayersInv'
<1> USE DEF LayersInv
<1> DEFINE l == layers[at]
           inner == GetElementsInPackages(l, passed)
<1>1. /\ UNCHANGED <<config, layers, stored, added, rows, integrity, queries_, phase, tampered, verdict>>
      /\ phase = "return" /\ at > 0 /\ at' = at - 1
      /\ IF l.kind = "packaging"
         THEN /\ n_missing_inner' = [n_missing_inner EXCEPT ![at] = Len(inner)]
              /\ passed' = missing[at] \o inner
              /\ missing' = missing
         ELSE /\ missing' = [missing EXCEPT ![at] = passed]
              /\ passed' = <<>>
              /\ n_missing_inner' = n_missing_inner
  BY DEF ReturnRequests, verifier, MissingThenInner, CachingAsks
<1>2. /\ Innermost' = Innermost /\ Height' = Height /\ Stacked' /\ Segments' = Segments
      /\ \A m : Width(m)' = Width(m)
      /\ \A m : NumElements(m)' = NumElements(m) /\ Level(m)' = Level(m)
  BY <1>1, SameStack
<1>3. \A m : QueriesAt(m)' = QueriesAt(m) /\ RequiredAt(m)' = RequiredAt(m)
  BY <1>1, SameQueries
<1>4. at \in 0 .. Innermost - 1 /\ \E ask : Asks(ask, at + 1) /\ passed = ask[at + 1]
  BY <1>1 DEF Asking
<1>5. PICK ask : Asks(ask, at + 1) /\ passed = ask[at + 1]
  BY <1>4
<1>6. /\ Innermost \in Nat /\ Innermost >= 2 /\ at \in 1 .. Innermost - 1 /\ at \in 1 .. Innermost /\ at + 1 \in 1 .. Innermost
      /\ DOMAIN layers = 1 .. Innermost /\ l.kind \in {"packaging", "caching", "merkle"}
      /\ l.kind # "merkle"
      /\ Level(layers[at + 1]) = Level(l) + (IF l.kind = "packaging" THEN 1 ELSE 0)
  <2>1. Innermost \in Nat /\ Innermost >= 2 /\ DOMAIN layers = 1 .. Innermost
    BY StackFacts
  <2>2. at \in 1 .. Innermost - 1 /\ at \in 1 .. Innermost /\ at + 1 \in 1 .. Innermost
    BY <1>1, <1>4, <2>1
  <2>3. l.kind \in {"packaging", "caching", "merkle"} /\ (l.kind = "merkle" <=> at = Innermost)
    BY <2>2, StackFacts
  <2>4. Level(layers[at + 1]) = Level(l) + (IF l.kind = "packaging" THEN 1 ELSE 0)
    BY <2>2, StackFacts
  <2>5. at # Innermost
    BY <2>1, <2>2
  <2>6. QED
    BY <2>1, <2>2, <2>3, <2>4, <2>5
<1>7. Asked(at + 1, passed)
  <2>1. \A j \in at + 1 .. Innermost : Asked(j, ask[j])
    BY <1>5 DEF Asks
  <2>2. at + 1 \in at + 1 .. Innermost
    BY <1>6
  <2>3. QED
    BY <1>5, <2>1, <2>2
<1>8. Started(at)
  BY <1>1, <1>6 DEF Starting
<1>9. /\ n_missing_inner = [j \in 1 .. Innermost |-> n_missing_inner[j]] /\ missing = [j \in 1 .. Innermost |-> missing[j]]
  BY DEF Walking
<1>10. l.kind = "packaging" =>
         /\ missing[at] = RequiredAt(Level(l)) /\ missing' = missing /\ passed' = missing[at] \o inner
         /\ n_missing_inner'[at] = Len(inner) /\ Len(inner) \in 0 .. NumElements(l)
         /\ Asked(at, passed')
  <2> SUFFICES ASSUME l.kind = "packaging"
               PROVE  /\ missing[at] = RequiredAt(Level(l)) /\ missing' = missing /\ passed' = missing[at] \o inner
                      /\ n_missing_inner'[at] = Len(inner) /\ Len(inner) \in 0 .. NumElements(l)
                      /\ Asked(at, passed')
    OBVIOUS
  <2>1. missing[at] = RequiredAt(Level(l))
    BY <1>8 DEF Started
  <2>2. Asked(at, RequiredAt(Level(l)) \o inner) /\ Len(inner) \in 0 .. NumElements(l)
    BY <1>1, <1>6, <1>7, PackagingAsks
  <2>3. n_missing_inner'[at] = Len(inner)
    <3> HIDE DEF inner
    <3>1. n_missing_inner' = [n_missing_inner EXCEPT ![at] = Len(inner)]
      BY <1>1
    <3>2. QED
      BY <1>6, <1>9, <3>1
  <2>4. QED
    BY <1>1, <2>1, <2>2, <2>3
<1>11. l.kind # "packaging" =>
         /\ missing'[at] = passed /\ passed' = <<>> /\ n_missing_inner' = n_missing_inner
         /\ Asked(at, <<>>) /\ passed \in Seq(0 .. NumElements(l) - 1)
  <2> SUFFICES ASSUME l.kind # "packaging"
               PROVE  /\ missing'[at] = passed /\ passed' = <<>> /\ n_missing_inner' = n_missing_inner
                      /\ Asked(at, <<>>) /\ passed \in Seq(0 .. NumElements(l) - 1)
    OBVIOUS
  <2>1. Asked(at, <<>>)
    BY DEF Asked, HasDuplicates, SetOf
  <2>2. NumElements(layers[at + 1]) = NumElements(l)
    <3>1. Level(l) \in 0 .. Height + 1 /\ Height \in Nat /\ NumElements(l) = Width(Level(l))
          /\ NumElements(layers[at + 1]) = Width(Level(layers[at + 1]))
      BY <1>6, StackFacts, ConfigTypes DEF Stacked
    <3>2. Level(layers[at + 1]) = Level(l)
      BY <1>6, <3>1
    <3>3. QED
      BY <3>1, <3>2
  <2>3. passed \in Seq(0 .. NumElements(l) - 1)
    BY <1>7, <2>2 DEF Asked
  <2>4. QED
    BY <1>1, <1>6, <1>9, <2>1, <2>3
<1>12. \A j \in 1 .. Innermost : j # at => missing'[j] = missing[j] /\ n_missing_inner'[j] = n_missing_inner[j]
  <2> HIDE DEF inner
  <2>1. QED
    BY <1>1, <1>6, <1>9
<1>13. Filled' /\ Chosen'
  BY <1>1, <1>2 DEF Filled, SegmentOf, Chosen, Cells, Cell
<1>14. Walking'
  <2>1. /\ n_missing_inner' = [j \in 1 .. Innermost |-> n_missing_inner'[j]] /\ missing' = [j \in 1 .. Innermost |-> missing'[j]]
    <3> HIDE DEF inner
    <3>1. QED
      BY <1>1, <1>6, <1>9
  <2>2. QED
    BY <1>1, <1>2, <2>1 DEF Walking
<1>15. Starting'
  <2>1. ASSUME NEW j \in 1 .. Innermost PROVE Started(j)'
    <3>1. Started(j)
      BY <1>1 DEF Starting
    <3>2. layers[j].kind = "packaging" => missing'[j] = missing[j]
      BY <1>10, <1>12
    <3>3. QED
      BY <1>1, <1>2, <1>3, <3>1, <3>2 DEF Started
  <2>2. QED
    BY <1>1, <1>2, <2>1 DEF Starting
<1>16. TypeOK'
  <2>1. at' \in 0 .. Innermost + config.log_segments + 1
    <3>1. config.log_segments \in Nat
      BY ConfigTypes DEF Stacked
    <3>2. QED
      BY <1>1, <1>6, <3>1
  <2>2. ASSUME NEW j \in 1 .. Innermost
        PROVE  /\ \A m \in DOMAIN missing'[j] : missing'[j][m] \in 0 .. NumElements(layers[j]) - 1
               /\ n_missing_inner'[j] \in 0 .. NumElements(layers[j])
    <3>0. \A S, s : s \in Seq(S) => \A m \in DOMAIN s : s[m] \in S
      OBVIOUS
    <3>1. /\ \A m \in DOMAIN missing[j] : missing[j][m] \in 0 .. NumElements(layers[j]) - 1
          /\ n_missing_inner[j] \in 0 .. NumElements(layers[j])
      BY <1>6 DEF TypeOK
    <3>2. CASE j # at
      BY <1>12, <3>1, <3>2
    <3>3. CASE j = at /\ l.kind = "packaging"
      BY <1>10, <3>1, <3>3
    <3>4. CASE j = at /\ l.kind # "packaging"
      BY <1>11, <3>0, <3>1, <3>4
    <3>5. QED
      BY <3>2, <3>3, <3>4
  <2>3. QED
    BY <1>1, <1>2, <1>6, <2>1, <2>2 DEF TypeOK, Innermost
<1>17. Asking'
  <2>1. /\ ask \in [1 .. Innermost -> Seq(Nat)] /\ ask[Innermost] = <<>>
        /\ \A j \in at + 1 .. Innermost - 1 :
             IF layers[j].kind = "packaging"
             THEN /\ n_missing_inner[j] = Len(GetElementsInPackages(layers[j], ask[j + 1]))
                  /\ ask[j] = missing[j] \o GetElementsInPackages(layers[j], ask[j + 1])
             ELSE missing[j] = ask[j + 1] /\ ask[j] = <<>>
        /\ \A j \in at + 1 .. Innermost : Asked(j, ask[j])
    BY <1>5 DEF Asks
  <2>2. Asked(at, passed')
    BY <1>1, <1>10, <1>11
  <2>3. passed' \in Seq(Nat)
    <3>1. passed' \in Seq(0 .. NumElements(l) - 1) /\ NumElements(l) \in Nat
      BY <1>1, <1>6, <2>2, StackQueries DEF Asked
    <3>2. QED
      BY ONLY <3>1, Widened
  <2>4. PICK ask2 : /\ ask2 \in [1 .. Innermost -> Seq(Nat)]
                    /\ ask2[at] = passed' /\ \A j \in 1 .. Innermost : j # at => ask2[j] = ask[j]
    <3> DEFINE f == [ask EXCEPT ![at] = passed']
    <3>1. /\ f \in [1 .. Innermost -> Seq(Nat)]
          /\ f[at] = passed' /\ \A j \in 1 .. Innermost : j # at => f[j] = ask[j]
      BY <1>6, <2>1, <2>3
    <3> HIDE DEF f
    <3>2. QED
      BY <3>1
  <2>5. ask2[Innermost] = <<>>
    BY <1>6, <2>1, <2>4
  <2>6. ASSUME NEW j \in at .. Innermost - 1
        PROVE IF layers[j].kind = "packaging"
             THEN /\ n_missing_inner'[j] = Len(GetElementsInPackages(layers[j], ask2[j + 1]))
                  /\ ask2[j] = missing'[j] \o GetElementsInPackages(layers[j], ask2[j + 1])
             ELSE missing'[j] = ask2[j + 1] /\ ask2[j] = <<>>
    <3>1. CASE j = at
      <4>1. ask2[j + 1] = passed
        BY <1>5, <1>6, <2>4, <3>1
      <4>2. CASE l.kind = "packaging"
        BY <1>10, <2>4, <3>1, <4>1, <4>2
      <4>3. CASE l.kind # "packaging"
        BY <1>11, <2>4, <3>1, <4>1, <4>3
      <4>4. QED
        BY <4>2, <4>3
    <3>2. CASE j # at
      <4>1. j \in at + 1 .. Innermost - 1 /\ j \in 1 .. Innermost /\ j + 1 \in 1 .. Innermost /\ j + 1 # at
        BY <1>6, <3>2
      <4>2. ask2[j + 1] = ask[j + 1] /\ ask2[j] = ask[j] /\ missing'[j] = missing[j] /\ n_missing_inner'[j] = n_missing_inner[j]
        BY <1>12, <2>4, <3>2, <4>1
      <4>3. QED
        BY <2>1, <4>1, <4>2
    <3>3. QED
      BY <3>1, <3>2
  <2>7. ASSUME NEW j \in at .. Innermost PROVE Asked(j, ask2[j])
    <3>1. CASE j = at
      BY <2>2, <2>4, <3>1
    <3>2. CASE j # at
      <4>1. j \in at + 1 .. Innermost /\ j \in 1 .. Innermost
        BY <1>6, <3>2
      <4>2. QED
        BY <2>1, <2>4, <3>2, <4>1
    <3>3. QED
      BY <3>1, <3>2
  <2>8. Asks(ask2, at + 1)'
    <3>1. (at + 1)' = at
      BY <1>1, <1>6
    <3>2. \A j \in at .. Innermost : Asked(j, ask2[j])'
      BY <1>1, <1>2, <1>3, <2>7 DEF Asked
    <3>3. QED
      BY <1>1, <1>2, <2>4, <2>5, <2>6, <3>1, <3>2 DEF Asks
  <2>9. at' \in 0 .. Innermost' - 1 /\ passed' = ask2[at' + 1]
    <3>1. at' + 1 = at
      BY <1>1, <1>6
    <3>2. QED
      BY <1>1, <1>2, <1>6, <2>4, <3>1
  <2>10. QED
    BY <1>1, <2>8, <2>9 DEF Asking
<1>18. QED
  BY <1>1, <1>2, <1>13, <1>14, <1>15, <1>16, <1>17

-----------------------------------------------------------------------------
\* Data goes in.

\* A layer that hands on the right values to the next one.
LEMMA DecommitStep ==
  ASSUME LayersInv, UNCHANGED <<prover, tampered, verdict>>,
         phase \in {"return", "decommit"}, phase' = "decommit", at' \in 1 .. Innermost,
         NEW ask, Asks(ask, 1), passed' = RightList(at', ask[at'])
  PROVE  LayersInv'
<1> USE DEF LayersInv
<1>1. UNCHANGED <<config, layers, stored, added, rows, integrity, queries_, missing, n_missing_inner, tampered, verdict>>
  BY DEF prover
<1>2. /\ Innermost' = Innermost /\ Height' = Height /\ Stacked' /\ Segments' = Segments
      /\ \A m : Width(m)' = Width(m)
      /\ \A m : NumElements(m)' = NumElements(m) /\ Level(m)' = Level(m)
  BY <1>1, SameStack
<1>3. \A m : QueriesAt(m)' = QueriesAt(m) /\ RequiredAt(m)' = RequiredAt(m)
  BY <1>1, SameQueries
<1>4. Filled' /\ Chosen' /\ Walking'
  BY <1>1, <1>2 DEF Filled, SegmentOf, Chosen, Cells, Cell, Walking
<1>5. Starting'
  BY <1>1, <1>2, <1>3 DEF Starting, Started
<1>6. TypeOK'
  <2>1. Innermost \in Nat /\ config.log_segments \in Nat
    <3>1. Innermost \in Nat
      BY StackFacts
    <3>2. config.log_segments \in Nat
      BY ConfigTypes DEF Stacked
    <3>3. QED
      BY <3>1, <3>2
  <2>2. at' \in 0 .. Innermost + config.log_segments + 1 /\ phase' \in Phases
    BY <2>1 DEF Phases
  <2>3. tampered' \in BOOLEAN /\ verdict' \in {"none", "accept", "reject"}
    BY <1>1 DEF TypeOK
  <2>4. QED
    BY <1>1, <2>2, <2>3, TypesStand
<1>7. Asking'
  <2>1. Asks(ask, 1)'
    BY <1>1, <1>2, <1>3 DEF Asks, Asked
  <2>2. passed' = RightList(at, ask[at])'
    BY <1>1 DEF RightList
  <2>3. QED
    BY <1>2, <2>1, <2>2 DEF Asking
<1>8. QED
  BY <1>1, <1>2, <1>4, <1>5, <1>6, <1>7

\* The caller evaluates the rows asked for.
LEMMA TableDecommitStep ==
  ASSUME LayersInv, TableDecommit
  PROVE  LayersInv' /\ ~HasDuplicates(passed)
<1>1. phase = "return" /\ at = 0
  BY DEF TableDecommit
<1>2. PICK ask : Asks(ask, 0 + 1) /\ passed = ask[0 + 1]
  BY <1>1 DEF LayersInv, Asking
<1>3. Asks(ask, 1) /\ passed = ask[1]
  BY <1>2
<1>4. Innermost \in Nat /\ Innermost >= 2
  BY StackFacts DEF LayersInv
<1>5. ~HasDuplicates(passed)
  <2>1. \A j \in 1 .. Innermost : Asked(j, ask[j])
    BY <1>3 DEF Asks
  <2>2. 1 \in 1 .. Innermost
    BY <1>4
  <2>3. Asked(1, ask[1])
    BY <2>1, <2>2
  <2>4. QED
    BY <1>3, <2>3 DEF Asked
<1>6. /\ passed' = [k \in DOMAIN passed |-> Node(layers[1], passed[k])]
      /\ phase' = "decommit" /\ at' = 1 /\ UNCHANGED <<prover, tampered, verdict>>
  BY <1>5 DEF TableDecommit, verifier
<1>7. passed' = RightList(at', ask[at'])
  BY <1>3, <1>6 DEF RightList
<1>8. at' \in 1 .. Innermost
  BY <1>4, <1>6
<1>9. LayersInv'
  BY <1>1, <1>3, <1>6, <1>7, <1>8, DecommitStep
<1>10. QED
  BY <1>5, <1>9

\* What the layer sends of the data, and what it hands on.
LEMMA PackagingHands ==
  ASSUME LayersInv, phase = "decommit", layers[at].kind = "packaging",
         NEW ask, Asks(ask, 1), passed = RightList(at, ask[at])
  PROVE  LET l == layers[at]
             m == Len(missing[at]) IN
         /\ at \in 1 .. Innermost - 1 /\ at + 1 \in 1 .. Innermost
         /\ missing[at] = RequiredAt(Level(l)) /\ m \in Nat
         /\ Len(passed) = m + n_missing_inner[at]
         /\ \A k \in 1 .. m : passed[k] = Node(l, missing[at][k])
         /\ PackAndHash(l, SubSeq(passed, m + 1, Len(passed))) = RightList(at + 1, ask[at + 1])
<1> USE DEF LayersInv
<1> DEFINE l == layers[at]
           k == Level(l)
           own == RequiredAt(k)
           asked == ask[at + 1]
           inner == GetElementsInPackages(l, asked)
           m == Len(own)
           n == Len(asked)
           w == Width(k + 1)
           data == SubSeq(passed, m + 1, Len(passed))
<1>1. at \in 1 .. Innermost
  BY DEF Asking
<1>2. /\ l.per = Per(k) /\ l.per \in Nat \ {0} /\ k + 1 = Level(layers[at + 1])
      /\ NumElements(l) = Width(k) /\ NumElements(layers[at + 1]) = w /\ Width(k) = w * l.per
      /\ own \in Seq(0 .. Width(k) - 1) /\ at \in 1 .. Innermost - 1
  BY <1>1, StackQueries
<1>3. at + 1 \in 1 .. Innermost /\ Innermost \in Nat
  <2>1. Innermost \in Nat
    BY StackFacts
  <2>2. QED
    BY <1>2, <2>1
<1>4. missing[at] = own
  <2>1. Started(at)
    BY <1>1 DEF Starting
  <2>2. QED
    BY <2>1 DEF Started
<1>5. n_missing_inner[at] = Len(inner) /\ ask[at] = own \o inner
  <2>1. \A j \in 1 .. Innermost - 1 :
       IF layers[j].kind = "packaging"
       THEN LET inn == GetElementsInPackages(layers[j], ask[j + 1])
            IN n_missing_inner[j] = Len(inn) /\ ask[j] = missing[j] \o inn
       ELSE missing[j] = ask[j + 1] /\ ask[j] = <<>>
    BY DEF Asks
  <2>2. QED
    BY <1>2, <1>4, <2>1
<1>6. asked \in Seq(0 .. w - 1)
  <2>1. \A j \in 1 .. Innermost : Asked(j, ask[j])
    BY DEF Asks
  <2>2. Asked(at + 1, asked)
    BY <1>3, <2>1
  <2>3. QED
    BY <1>2, <2>2 DEF Asked
<1>7. w \in Nat
  <2>1. config \in Configurations /\ k + 1 \in 0 .. Height + 1
    <3>1. Level(layers[at + 1]) \in 0 .. Height + 1
      BY <1>3, StackFacts
    <3>2. QED
      BY <1>2, <3>1 DEF Stacked
  <2>2. QED
    BY <2>1, Widths
<1>8. /\ inner \in Seq(0 .. w * l.per - 1) /\ Len(inner) = n * l.per
      /\ \A j \in 1 .. n : \A r \in 1 .. l.per :
              /\ (j - 1) * l.per + r \in 1 .. n * l.per
              /\ inner[(j - 1) * l.per + r] = asked[j] * l.per + r - 1
  <2> HIDE DEF l, w, asked
  <2>1. QED
    BY <1>2, <1>6, <1>7, ElementsInPackages
<1> HIDE DEF own, inner, asked
<1>9. inner \in Seq(0 .. Width(k) - 1) /\ own \in Seq(0 .. Width(k) - 1)
  BY <1>2, <1>8
<1>10. /\ Len(ask[at]) = m + Len(inner) /\ DOMAIN ask[at] = 1 .. m + Len(inner)
       /\ \A i \in 1 .. m : ask[at][i] = own[i]
       /\ \A i \in 1 .. Len(inner) : ask[at][m + i] = inner[i]
       /\ m \in Nat /\ Len(inner) \in Nat
  <2> DEFINE b == Width(k)
             a == own \o inner
  <2> HIDE DEF b, k
  <2>0. own \in Seq(0 .. b - 1) /\ inner \in Seq(0 .. b - 1)
    BY <1>9 DEF b
  <2>1. /\ a \in Seq(0 .. b - 1) /\ Len(a) = Len(own) + Len(inner)
        /\ \A i \in 1 .. Len(own) : a[i] = own[i]
        /\ \A i \in 1 .. Len(inner) : a[Len(own) + i] = inner[i]
    BY ONLY <2>0, Appended
  <2> HIDE DEF a
  <2>2. DOMAIN a = 1 .. Len(a) /\ Len(own) \in Nat /\ Len(inner) \in Nat
    BY <2>0, <2>1
  <2>3. ask[at] = a
    BY <1>5 DEF a
  <2>4. QED
    BY <2>1, <2>2, <2>3
<1>11. /\ passed = [i \in 1 .. m + Len(inner) |-> Node(l, ask[at][i])] /\ Len(passed) = m + Len(inner)
  <2>1. passed = [i \in 1 .. m + Len(inner) |-> Node(l, ask[at][i])]
    BY <1>10 DEF RightList
  <2>2. m + Len(inner) \in Nat
    BY <1>10
  <2>3. QED
    BY <2>1, <2>2
<1>12. \A i \in 1 .. m : passed[i] = Node(l, own[i])
  <2>1. \A i \in 1 .. m : i \in 1 .. m + Len(inner)
    BY <1>10
  <2>2. QED
    BY <1>10, <1>11, <2>1
<1>13. /\ data = [i \in 1 .. Len(inner) |-> Node(l, inner[i])] /\ Len(data) = Len(inner)
  <2> DEFINE p == Len(inner)
  <2>1. m \in Nat /\ p \in Nat /\ Len(passed) = m + p
    BY <1>10, <1>11
  <2>2. /\ \E E : data \in Seq(E) /\ Len(data) = p
        /\ \A i \in 1 .. p : data[i] = passed[m + i]
    <3> DEFINE a == m + 1
               b == m + p
               E == {passed[i] : i \in a .. b}
    <3>1. /\ a \in Int /\ b \in Int /\ data = SubSeq(passed, a, b)
          /\ (IF a <= b THEN b - a + 1 ELSE 0) = p /\ b - a + 1 = p
      BY <2>1
    <3>2. \A i \in a .. b : passed[i] \in E
      OBVIOUS
    <3> HIDE DEF a, b, E, m, p, data
    <3>3. /\ SubSeq(passed, a, b) \in Seq(E)
          /\ Len(SubSeq(passed, a, b)) = IF a <= b THEN b - a + 1 ELSE 0
          /\ \A i \in 1 .. b - a + 1 : SubSeq(passed, a, b)[i] = passed[a + i - 1]
      BY ONLY <3>1, <3>2, SubSeqProperties
    <3>4. /\ data \in Seq(E) /\ Len(data) = p
          /\ \A i \in 1 .. p : data[i] = passed[a + i - 1]
      BY <3>1, <3>3
    <3>5. \A i \in 1 .. p : a + i - 1 = m + i
      BY <2>1 DEF a
    <3>6. \A i \in 1 .. p : data[i] = passed[m + i]
      BY <3>4, <3>5
    <3>7. QED
      BY <3>4, <3>6
  <2> HIDE DEF m, p, data
  <2>3. \A i \in 1 .. p : m + i \in 1 .. m + p
    BY <2>1
  <2>4. data = [i \in 1 .. p |-> passed[m + i]]
    BY <2>2, <2>3
  <2>5. \A i \in 1 .. p : passed[m + i] = Node(l, inner[i])
    BY <1>10, <1>11, <2>3 DEF p
  <2>6. data = [i \in 1 .. p |-> Node(l, inner[i])]
    BY <2>4, <2>5
  <2>7. Len(data) = p
    BY <2>1, <2>6
  <2>8. QED
    BY <2>6, <2>7 DEF p
<1>14. PackagesOf(l, n, asked, data)
  <2> HIDE DEF data, l
  <2>1. Len(data) = n * l.per
    BY <1>8, <1>13
  <2>2. ASSUME NEW j \in 1 .. n PROVE asked[j] \in Nat
    BY <1>6, <1>7
  <2>3. ASSUME NEW j \in 1 .. n, NEW r \in 1 .. l.per
        PROVE  data[(j - 1) * l.per + r] = Node(l, asked[j] * l.per + r - 1)
    <3> DEFINE i == (j - 1) * l.per + r
    <3>1. i \in 1 .. n * l.per /\ inner[i] = asked[j] * l.per + r - 1
      BY <1>8
    <3> HIDE DEF i
    <3>2. data[i] = Node(l, inner[i])
      BY <1>8, <1>13, <3>1
    <3>3. QED
      BY <3>1, <3>2 DEF i
  <2>4. QED
    BY <2>1, <2>2, <2>3 DEF PackagesOf
<1>15. PackAndHash(l, data) = [j \in 1 .. n |-> <<l.depth - 1, asked[j]>>]
  <2>1. RightKind(l) /\ l.depth \in Nat /\ l.per \in Nat \ {0} /\ n \in Nat
    BY <1>1, <1>2, <1>6, StackKinds
  <2> HIDE DEF data, l, n
  <2>2. QED
    BY ONLY <2>1, <1>14, RightHashes
<1>16. [j \in 1 .. n |-> <<l.depth - 1, asked[j]>>] = RightList(at + 1, asked)
  <2>1. layers[at + 1].depth = l.depth - 1
    BY <1>2 DEF Stacked
  <2>2. DOMAIN asked = 1 .. n
    BY <1>6
  <2>3. QED
    BY <2>1, <2>2 DEF RightList, Node
<1>17. /\ m = Len(missing[at]) /\ m \in Nat /\ Len(passed) = m + n_missing_inner[at]
       /\ \A i \in 1 .. m : passed[i] = Node(l, missing[at][i])
       /\ PackAndHash(l, data) = RightList(at + 1, ask[at + 1])
  <2> HIDE DEF data, l
  <2>1. m = Len(missing[at]) /\ m \in Nat /\ \A i \in 1 .. m : passed[i] = Node(l, missing[at][i])
    BY <1>4, <1>10, <1>12
  <2>2. Len(passed) = m + n_missing_inner[at]
    BY <1>5, <1>11
  <2>3. PackAndHash(l, data) = RightList(at + 1, ask[at + 1])
    BY <1>15, <1>16 DEF asked
  <2>4. QED
    BY <2>1, <2>2, <2>3
<1> HIDE DEF m
<1>18. PackAndHash(l, SubSeq(passed, Len(missing[at]) + 1, Len(passed))) = RightList(at + 1, ask[at + 1])
  BY <1>17
<1>19. QED
  BY <1>2, <1>3, <1>4, <1>17, <1>18 DEF own

\* A packaging layer sends its own elements and hashes the rest.
LEMMA PackagingDecommitStep ==
  ASSUME LayersInv, PackagingDecommit
  PROVE  LayersInv'
<1> DEFINE l == layers[at]
           m == Len(missing[at])
<1>1. phase = "decommit" /\ l.kind = "packaging"
  BY DEF PackagingDecommit
<1>2. PICK ask : Asks(ask, 1) /\ passed = RightList(at, ask[at])
  BY <1>1 DEF LayersInv, Asking
<1>3. /\ at + 1 \in 1 .. Innermost
      /\ Len(passed) = m + n_missing_inner[at]
      /\ PackAndHash(l, SubSeq(passed, m + 1, Len(passed))) = RightList(at + 1, ask[at + 1])
  BY <1>1, <1>2, PackagingHands
<1>4. /\ passed' = PackAndHash(l, SubSeq(passed, m + 1, Len(passed)))
      /\ at' = at + 1 /\ phase' = phase /\ UNCHANGED <<prover, tampered, verdict>>
  BY <1>3 DEF PackagingDecommit, verifier
<1>5. passed' = RightList(at', ask[at'])
  BY <1>3, <1>4
<1>6. QED
  BY <1>1, <1>2, <1>3, <1>4, <1>5, DecommitStep

\* A caching layer hands on what it holds.
LEMMA CachingDecommitStep ==
  ASSUME LayersInv, CachingDecommit
  PROVE  LayersInv'
<1> USE DEF LayersInv
<1> DEFINE l == layers[at]
<1>1. phase = "decommit" /\ l.kind = "caching"
  BY DEF CachingDecommit
<1>2. PICK ask : Asks(ask, 1) /\ passed = RightList(at, ask[at])
  BY <1>1 DEF Asking
<1>3. /\ Innermost \in Nat /\ at \in 1 .. Innermost /\ at \in 1 .. Innermost - 1 /\ at + 1 \in 1 .. Innermost
      /\ layers[at + 1].depth = l.depth /\ l.depth \in config.log_segments .. Height
      /\ config.height = Height /\ Height \in Nat /\ config.log_segments \in Nat
  <2>1. Innermost \in Nat /\ at \in 1 .. Innermost
    BY <1>1, StackFacts DEF Asking
  <2>2. (l.kind = "merkle" <=> at = Innermost) /\ (l.depth = Height + 1 <=> at = 1) /\ layers[1].kind = "packaging"
        /\ l.depth \in config.log_segments .. Height + 1
    BY <2>1, StackFacts
  <2>3. at \in 1 .. Innermost - 1 /\ at + 1 \in 1 .. Innermost
    BY <1>1, <2>1, <2>2
  <2>4. config.height = Height /\ Height \in Nat /\ config.log_segments \in Nat
    BY ConfigTypes DEF Stacked
  <2>5. layers[at + 1].depth = l.depth - 0
    BY <1>1, <2>3 DEF Stacked
  <2> HIDE DEF l
  <2>6. l.depth # Height + 1
    BY <1>1, <2>2 DEF l
  <2>7. l.depth \in config.log_segments .. Height
    BY <2>2, <2>4, <2>6
  <2>8. l.depth - 0 = l.depth
    BY <2>4, <2>7
  <2>9. QED
    BY <2>1, <2>3, <2>4, <2>5, <2>7, <2>8
<1>4. missing[at] = ask[at + 1] /\ ask[at] = <<>> /\ Asked(at + 1, ask[at + 1])
  <2>1. \A j \in 1 .. Innermost - 1 :
       IF layers[j].kind = "packaging"
       THEN LET inn == GetElementsInPackages(layers[j], ask[j + 1])
            IN n_missing_inner[j] = Len(inn) /\ ask[j] = missing[j] \o inn
       ELSE missing[j] = ask[j + 1] /\ ask[j] = <<>>
    BY <1>2 DEF Asks
  <2>2. \A j \in 1 .. Innermost : Asked(j, ask[j])
    BY <1>2 DEF Asks
  <2>3. l.kind # "packaging"
    BY <1>1
  <2>4. QED
    BY <1>3, <2>1, <2>2, <2>3
<1>5. passed = <<>>
  <2>1. DOMAIN <<>> = 1 .. 0 /\ [k \in 1 .. 0 |-> Node(l, <<>>[k])] = <<>>
    OBVIOUS
  <2>2. passed = [k \in DOMAIN <<>> |-> Node(l, <<>>[k])]
    BY <1>2, <1>4 DEF RightList
  <2>3. QED
    BY <2>1, <2>2
<1>6. /\ passed' = [k \in DOMAIN missing[at] |-> stored[at][missing[at][k]]]
      /\ at' = at + 1 /\ phase' = phase /\ UNCHANGED <<prover, tampered, verdict>>
  BY <1>5 DEF CachingDecommit, verifier
<1>7. \A i \in 0 .. Pow2[l.depth] - 1 : stored[at][i] = Node(l, i)
  <2>1. /\ added = Segments
        /\ \A i \in 0 .. Pow2[l.depth] - 1 : SegmentOf(l, i) \in added => stored[at][i] = Node(l, i)
    BY <1>1, <1>3 DEF Filled
  <2>2. ASSUME NEW i \in 0 .. Pow2[l.depth] - 1 PROVE SegmentOf(l, i) \in Segments
    <3> DEFINE s == config.log_segments
               d == l.depth - s
               w == Pow2[d]
               v == Pow2[s]
    <3>1. s \in Nat /\ d \in Nat /\ s + d = l.depth
      BY <1>3
    <3>2. w \in Nat \ {0} /\ v \in Nat \ {0} /\ w \in Nat /\ v \in Nat
      BY <3>1, Pow2Values
    <3>3. Pow2[l.depth] = v * w
      <4> HIDE DEF s, d
      <4>1. Pow2[s + d] = Pow2[s] * Pow2[d]
        BY <3>1, Pow2Adds
      <4>2. QED
        BY <3>1, <4>1
    <3>4. SegmentOf(l, i) = i \div w /\ Segments = 0 .. v - 1
      BY DEF SegmentOf, Segments
    <3> HIDE DEF w, v, l
    <3>5. i \div w \in 0 .. v - 1
      BY <3>2, <3>3, PackageArithmetic
    <3>6. QED
      BY <3>4, <3>5
  <2>3. QED
    BY <2>1, <2>2
<1>8. ask[at + 1] \in Seq(0 .. Pow2[l.depth] - 1)
  <2>1. NumElements(layers[at + 1]) = Pow2[l.depth]
    BY <1>3 DEF NumElements
  <2>2. QED
    BY <1>4, <2>1 DEF Asked
<1>9. passed' = RightList(at', ask[at'])
  <2> DEFINE a == ask[at + 1]
             b == Pow2[l.depth]
  <2>1. \A k \in DOMAIN a : a[k] \in 0 .. b - 1
    <3>1. a \in Seq(0 .. b - 1)
      BY <1>8
    <3>2. \A S, s : s \in Seq(S) => \A k \in DOMAIN s : s[k] \in S
      OBVIOUS
    <3> HIDE DEF a, b
    <3>3. QED
      BY <3>1, <3>2
  <2>2. passed' = [k \in DOMAIN a |-> stored[at][a[k]]]
    BY <1>4, <1>6
  <2>3. RightList(at + 1, a) = [k \in DOMAIN a |-> Node(l, a[k])]
    BY <1>3 DEF RightList, Node
  <2>4. \A k \in DOMAIN a : stored[at][a[k]] = Node(l, a[k])
    BY <1>7, <2>1
  <2> HIDE DEF a, b, l
  <2>5. passed' = RightList(at + 1, a)
    BY <2>2, <2>3, <2>4
  <2>6. QED
    BY <1>6, <2>5 DEF a
<1>10. at' \in 1 .. Innermost
  BY <1>3, <1>6
<1>11. QED
  BY <1>1, <1>2, <1>6, <1>9, <1>10, DecommitStep

\* The tree gets no data, and queues its queries.
LEMMA MerkleDecommitStep ==
  ASSUME LayersInv, MerkleDecommit
  PROVE  /\ LayersInv' /\ at = Innermost
         /\ queue' = InOrder({q + Pow2[layers[at].depth] : q \in queries_[at]})
         /\ phase' = "tree" /\ UNCHANGED <<proof, rows, integrity>>
<1> USE DEF LayersInv
<1> DEFINE l == layers[at]
<1>1. phase = "decommit" /\ l.kind = "merkle"
  BY DEF MerkleDecommit
<1>2. PICK ask : Asks(ask, 1) /\ passed = RightList(at, ask[at])
  BY <1>1 DEF Asking
<1>3. at = Innermost
  <2>1. at \in 1 .. Innermost
    BY <1>1 DEF Asking
  <2>2. QED
    BY <1>1, <2>1, StackFacts
<1>4. passed = <<>>
  <2>1. ask[at] = <<>>
    BY <1>2, <1>3 DEF Asks
  <2>2. DOMAIN <<>> = 1 .. 0 /\ [k \in 1 .. 0 |-> Node(l, <<>>[k])] = <<>>
    OBVIOUS
  <2>3. passed = [k \in DOMAIN <<>> |-> Node(l, <<>>[k])]
    BY <1>2, <2>1 DEF RightList
  <2>4. QED
    BY <2>2, <2>3
<1>5. /\ UNCHANGED <<config, layers, stored, added, rows, integrity, queries_, missing, n_missing_inner, at, proof,
                     tampered, verdict>>
      /\ queue' = InOrder({q + Pow2[l.depth] : q \in queries_[at]}) /\ phase' = "tree"
  BY <1>4 DEF MerkleDecommit, verifier
<1>6. LayersInv'
  <2>1. tampered' \in BOOLEAN /\ verdict' \in {"none", "accept", "reject"}
    BY <1>5 DEF TypeOK
  <2>2. QED
    BY <1>1, <1>5, <2>1, LaterStep
<1>7. QED
  BY <1>3, <1>5, <1>6

-----------------------------------------------------------------------------
\* The tree, and the verifier.

\* The tree's loop changes no layer.
LEMMA TreeStep ==
  ASSUME LayersInv, TreeNode \/ TreeReturn
  PROVE  LayersInv'
<1>1. /\ UNCHANGED <<config, layers, stored, added, rows, integrity, queries_, missing, n_missing_inner, at,
                     tampered, verdict>>
      /\ phase = "tree" /\ phase' \in {"tree", "sent"}
  <2>1. CASE TreeNode
    BY <2>1 DEF TreeNode, verifier
  <2>2. CASE TreeReturn
    BY <2>2 DEF TreeReturn, verifier, prover
  <2>3. QED
    BY <2>1, <2>2
<1>2. tampered' \in BOOLEAN /\ verdict' \in {"none", "accept", "reject"}
  BY <1>1 DEF TypeOK, LayersInv
<1>3. QED
  BY <1>1, <1>2, LaterStep

\* Nor does the verifier.
LEMMA VerifierStep ==
  ASSUME LayersInv, TableVerify \/ VerifyIntegrity \/ VerifyRoot
  PROVE  LayersInv'
<1> USE DEF LayersInv
<1>1. config \in Configurations /\ Height \in Nat
  BY ConfigTypes DEF Stacked
<1>2. CASE TableVerify
  <2>1. /\ UNCHANGED <<config, layers, stored, added, rows, integrity, queries_, missing, n_missing_inner, verdict>>
        /\ phase = "sent" /\ phase' = "verify" /\ at' = 1 /\ tampered' \in BOOLEAN
    BY <1>2 DEF TableVerify, prover
  <2>2. at' \in 1 .. Height + 2 /\ verdict' \in {"none", "accept", "reject"}
    BY <1>1, <2>1 DEF TypeOK
  <2>3. QED
    BY <2>1, <2>2, LaterStep
<1>3. CASE VerifyIntegrity
  <2>1. /\ UNCHANGED <<config, layers, stored, added, rows, integrity, queries_, missing, n_missing_inner, tampered>>
        /\ phase = "verify" /\ VerifierLayers(config)[at].kind = "packaging"
        /\ \/ phase' = "done" /\ verdict' = "reject" /\ at' = at
           \/ at' = at + 1 /\ phase' = phase /\ verdict' = verdict
    BY <1>3 DEF VerifyIntegrity, prover
  <2>2. at \in 1 .. Height + 1
    <3>1. at \in 1 .. Height + 2
      BY <2>1 DEF Walking
    <3>2. at # Height + 2
      <4>1. ASSUME at = Height + 2 PROVE FALSE
        <5>1. LayerAt(Height + 1).kind = "merkle"
          BY <1>1, VerifiersLayers
        <5>2. (Height + 1) + 1 = at
          BY <1>1, <4>1
        <5>3. LayerAt(Height + 1) = VerifierLayers(config)[at]
          BY <5>2 DEF LayerAt
        <5>4. QED
          BY <2>1, <5>1, <5>3
      <4>2. QED
        BY <4>1
    <3>3. QED
      BY <1>1, <3>1, <3>2
  <2>3. /\ tampered' \in BOOLEAN /\ verdict' \in {"none", "accept", "reject"}
    BY <2>1 DEF TypeOK
  <2>4. CASE phase' = "done" /\ verdict' = "reject" /\ at' = at
    BY <2>1, <2>3, <2>4, LaterStep
  <2>5. CASE at' = at + 1 /\ phase' = phase /\ verdict' = verdict
    <3>1. at' \in 1 .. Height + 2
      BY <1>1, <2>2, <2>5
    <3>2. QED
      BY <2>1, <2>3, <2>5, <3>1, LaterStep
  <2>6. QED
    BY <2>1, <2>4, <2>5
<1>4. CASE VerifyRoot
  <2>1. /\ UNCHANGED <<config, layers, stored, added, rows, integrity, queries_, missing, n_missing_inner, tampered, at>>
        /\ phase = "verify" /\ phase' = "done" /\ verdict' \in {"accept", "reject"}
    BY <1>4 DEF VerifyRoot, prover
  <2>2. tampered' \in BOOLEAN
    BY <2>1 DEF TypeOK
  <2>3. QED
    BY <2>1, <2>2, LaterStep
<1>5. QED
  BY <1>2, <1>3, <1>4

\* Every step keeps the invariant of the layers.
LEMMA LayersStep ==
  ASSUME LayersInv, [Next]_vars
  PROVE  LayersInv'
<1>1. CASE \E segment \in Segments : AddSegment(segment)
  BY <1>1, AddSegmentStep
<1>2. CASE Commit
  BY <1>2, CommitStep
<1>3. CASE TableStartDecommitment
  BY <1>3, TableStartStep
<1>4. CASE StartDecommitment
  BY <1>4, StartDecommitmentStep
<1>5. CASE ReturnRequests
  BY <1>5, ReturnRequestsStep
<1>6. CASE TableDecommit
  BY <1>6, TableDecommitStep
<1>7. CASE PackagingDecommit
  BY <1>7, PackagingDecommitStep
<1>8. CASE CachingDecommit
  BY <1>8, CachingDecommitStep
<1>9. CASE MerkleDecommit
  BY <1>9, MerkleDecommitStep
<1>10. CASE TreeNode \/ TreeReturn
  BY <1>10, TreeStep
<1>11. CASE TableVerify \/ VerifyIntegrity \/ VerifyRoot
  BY <1>11, VerifierStep
<1>12. CASE Finished \/ UNCHANGED vars
  BY <1>12, StutterLayers DEF Finished
<1>13. QED
  BY <1>1, <1>2, <1>3, <1>4, <1>5, <1>6, <1>7, <1>8, <1>9, <1>10, <1>11, <1>12 DEF Next

\* The invariant of the layers: the stack, what it holds, the queries of each layer, and
\* what it has asked for.
THEOREM LayersInvTheorem == Spec => []LayersInv
<1>1. Init => LayersInv
  BY InitLayers
<1>2. LayersInv /\ [Next]_vars => LayersInv'
  BY LayersStep
<1>3. QED
  BY <1>1, <1>2, PTL DEF Spec

\* No assertion of a layer fails, and none is asked for an element twice or for one that
\* it has the value of.
THEOREM NoAssertionFailsTheorem == Spec => []NoAssertionFails
<1>1. LayersInv => NoAssertionFails
  <2> SUFFICES ASSUME LayersInv PROVE NoAssertionFails
    OBVIOUS
  <2> USE DEF LayersInv
  <2>1. ASSUME phase = "return"
        PROVE  ~HasDuplicates(passed) /\ (at < Len(layers) => SetOf(passed) \cap queries_[at + 1] = {})
    <3>1. at \in 0 .. Innermost - 1
      BY <2>1 DEF Asking
    <3>2. PICK ask : Asks(ask, at + 1) /\ passed = ask[at + 1]
      BY <2>1 DEF Asking
    <3>3. at + 1 \in 1 .. Innermost /\ at + 1 \in at + 1 .. Innermost
      <4>1. Innermost \in Nat
        BY StackFacts
      <4>2. QED
        BY <3>1, <4>1
    <3>4. Asked(at + 1, passed)
      <4>1. \A j \in at + 1 .. Innermost : Asked(j, ask[j])
        BY <3>2 DEF Asks
      <4>2. QED
        BY <3>2, <3>3, <4>1
    <3>5. queries_[at + 1] = QueriesAt(Level(layers[at + 1]))
      BY <2>1, <3>3 DEF Starting, Started
    <3>6. QED
      BY <3>4, <3>5 DEF Asked
  <2>2. QED
    BY <2>1 DEF NoAssertionFails
<1>2. QED
  BY <1>1, LayersInvTheorem, PTL

-----------------------------------------------------------------------------
\* What is sent, and what is read.  Level k's messages are those from
\* Start[k] + 1 to Start[k + 1]; their names follow from the queries alone.
CellNames == Transmitted(CellsByRow(rows))
Start[k \in 0 .. Height + 1] ==
  IF k = 0 THEN Len(CellNames) ELSE Start[k - 1] + Len(RequiredAt(k - 1))
Count == Start[Height + 1]
LevelOf(i) == CHOOSE k \in 0 .. Height : Start[k] < i /\ i <= Start[k + 1]
NameAt(i) ==
  IF i <= Start[0] THEN CellNames[i]
  ELSE Element(DepthAt(LevelOf(i)), RequiredAt(LevelOf(i))[i - Start[LevelOf(i)]])
RightOf(name) == IF name[1] = Height + 2 THEN <<Height + 1, name[2]>> ELSE <<name[1], name[2]>>
Written(n) == [i \in 1 .. n |-> Sent(NameAt(i), RightOf(NameAt(i)))]
Root == Height + 1
TreeLevel == Root - config.log_segments

Sending == phase = "decommit" => proof = Written(Start[Level(layers[at])])

\* The tree's queue at the elements of a level of 2 * half from the even e on: the
\* first c nodes are those of the level, the others are parents of earlier ones.
From(S, e) == {x \in S : x >= e}
Before(S, e) == {x \in S : x < e}
Parents(S) == {x \div 2 : x \in S}
Listed(q, i, j, S) ==
  /\ {q[n] : n \in i .. j} = S
  /\ \A m, n \in i .. j : m < n => q[m] < q[n]
Walk(q, c, half, Q, e) ==
  /\ q \in Seq(Nat) /\ c \in 0 .. Len(q)
  /\ Listed(q, 1, c, {x + 2 * half : x \in From(Q, e)})
  /\ Listed(q, c + 1, Len(q), {p + half : p \in Parents(Before(Q, e))})

\* m of the elements that the level requires are before e.
Passed(list, m, e) ==
  /\ m \in 0 .. Len(list)
  /\ \A j \in 1 .. Len(list) : j <= m <=> list[j] < e

ClimbingAt(q, sent, k, e, c, m) ==
  /\ c >= 1 /\ Walk(q, c, Pow2[DepthAt(k) - 1], QueriesAt(k), e)
  /\ Passed(RequiredAt(k), m, e)
  /\ sent = Written(Start[k] + m)
Climbs(q, sent) ==
  \/ \E k \in TreeLevel .. Height : \E e \in 0 .. Width(k) :
       e % 2 = 0 /\ \E c \in 0 .. Len(q), m \in 0 .. Len(RequiredAt(k)) : ClimbingAt(q, sent, k, e, c, m)
  \/ q = <<1>> /\ sent = Written(Count)
Climbing == phase = "tree" => Climbs(queue, proof)

\* The verifier at a level.
Reading(k) ==
  /\ reads = [i \in 1 .. Start[k] |-> NameAt(i)]
  /\ DOMAIN known = QueriesAt(k)
  /\ \A i \in QueriesAt(k) : known[i] \in {<<DepthAt(k), i>>, Wrong}
  /\ proof = [i \in 1 .. Count |-> proof[i]]
  /\ \A i \in 1 .. Count :
       proof[i] \in {Sent(NameAt(i), RightOf(NameAt(i))), Sent(NameAt(i), Wrong)}
  /\ tampered <=> \/ \E i \in QueriesAt(k) : known[i] = Wrong
                  \/ \E i \in Start[k] + 1 .. Count : proof[i].value = Wrong
Verifying ==
  /\ phase = "sent" => proof = Written(Count)
  /\ phase = "verify" => Reading(at - 1)
Judged ==
  /\ phase # "done" => verdict = "none"
  /\ phase = "done" => AcceptsOnlyTheData

DataInv == LayersInv /\ Sending /\ Climbing /\ Verifying /\ Judged

-----------------------------------------------------------------------------
\* Names of messages.

\* The cells that are sent are cells of the rows.
LEMMA CellsOfRows ==
  ASSUME config \in Configurations, rows \subseteq 0 .. Width(0) - 1
  PROVE  /\ Len(CellNames) \in Nat /\ CellNames = [j \in 1 .. Len(CellNames) |-> CellNames[j]]
         /\ \A j \in 1 .. Len(CellNames) : CellNames[j] \in Cells(rows)
<1> DEFINE b == Width(0)
           order == InOrder(rows)
           w == Len(order)
           columns == config.columns
           n == w * columns
           cells == CellsByRow(rows)
           K == {k \in DOMAIN cells : cells[k] \notin integrity}
           kept == InOrder(K)
<1>1. b \in Nat /\ columns \in Nat \ {0} /\ rows \in SUBSET (0 .. b - 1)
  BY ConfigTypes, Widths
<1>2. order \in Seq(rows) /\ w \in Nat /\ \A i \in 1 .. w : order[i] \in rows
  <2> HIDE DEF b
  <2>1. order \in Seq(rows)
    BY <1>1, InOrderLists
  <2> HIDE DEF order
  <2>2. QED
    BY <2>1
<1>3. n \in Nat
  BY <1>1, <1>2
<1>4. /\ DOMAIN cells = 1 .. n
      /\ \A k \in 1 .. n : cells[k] = Cell(order[((k - 1) \div columns) + 1], (k - 1) % columns)
  BY DEF CellsByRow
<1>5. ASSUME NEW k \in 1 .. n PROVE cells[k] \in Cells(rows)
  <2> HIDE DEF cells, order, w, columns
  <2>1. k - 1 \in 0 .. n - 1
    BY <1>3
  <2>2. (k - 1) \div columns \in 0 .. w - 1 /\ (k - 1) % columns \in 0 .. columns - 1
    BY <1>1, <1>2, <2>1, PackageArithmetic
  <2>3. ((k - 1) \div columns) + 1 \in 1 .. w
    BY <1>2, <2>2
  <2> DEFINE row == order[((k - 1) \div columns) + 1]
             column == (k - 1) % columns
  <2>4. cells[k] = Cell(row, column) /\ row \in rows /\ column \in 0 .. config.columns - 1
    BY <1>2, <1>4, <2>2, <2>3 DEF columns
  <2> HIDE DEF row, column
  <2>5. QED
    BY <2>4 DEF Cells
<1>6. kept \in Seq(K) /\ CellNames = [j \in DOMAIN kept |-> cells[kept[j]]]
  <2>1. K \in SUBSET (0 .. (n + 1) - 1) /\ n + 1 \in Nat
    BY <1>3, <1>4
  <2>2. kept \in Seq(K)
    <3> HIDE DEF K
    <3>1. QED
      BY <2>1, InOrderLists
  <2>3. QED
    BY <2>2 DEF CellNames, Transmitted
<1> HIDE DEF kept, cells
<1>7. Len(kept) \in Nat /\ DOMAIN kept = 1 .. Len(kept) /\ \A j \in 1 .. Len(kept) : kept[j] \in K
  BY <1>6
<1>8. \A j \in 1 .. Len(kept) : cells[kept[j]] \in Cells(rows)
  BY <1>4, <1>5, <1>7
<1>9. CellNames = [j \in 1 .. Len(kept) |-> cells[kept[j]]] /\ Len(CellNames) = Len(kept)
  BY <1>6, <1>7
<1>10. QED
  BY <1>7, <1>8, <1>9

Queried == config \in Configurations /\ rows \subseteq 0 .. Width(0) - 1 /\ rows # {}

\* What a level of the verifier requires.
LEMMA RequiredList ==
  ASSUME Queried, NEW k \in 0 .. Height
  PROVE  /\ Len(RequiredAt(k)) \in Nat /\ DOMAIN RequiredAt(k) = 1 .. Len(RequiredAt(k))
         /\ RequiredAt(k) \in Seq(0 .. Width(k) - 1)
         /\ \A i, j \in 1 .. Len(RequiredAt(k)) : i < j => RequiredAt(k)[i] < RequiredAt(k)[j]
         /\ SetOf(RequiredAt(k)) = {i \in 0 .. Width(k) - 1 : i \div Per(k) \in QueriesAt(k + 1)} \ QueriesAt(k)
<1> DEFINE R == RequiredAt(k)
           b == Width(k)
           S == {i \in 0 .. b - 1 : i \div Per(k) \in QueriesAt(k + 1)} \ QueriesAt(k)
<1>1. b \in Nat /\ S \in SUBSET (0 .. b - 1)
  <2>1. k \in 0 .. Height + 1
    BY ConfigTypes DEF Queried
  <2>2. b \in Nat
    BY <2>1, Widths DEF Queried
  <2> HIDE DEF b
  <2>3. QED
    BY <2>2
<1>2. R = InOrder(S) /\ SetOf(R) = S /\ R \in Seq(0 .. b - 1) /\ DOMAIN R = 1 .. Len(R)
  <2> DEFINE l == [per |-> Per(k)]
  <2>1. l.per = Per(k)
    OBVIOUS
  <2> HIDE DEF l
  <2>2. QED
    BY <2>1, RequiredOfLevel DEF Queried
<1> HIDE DEF R, b, S
<1>3. \A i, j \in 1 .. Len(R) : i < j => R[i] < R[j]
  BY <1>1, <1>2, InOrderLists
<1>4. Len(R) \in Nat
  BY <1>2
<1>5. QED
  BY <1>2, <1>3, <1>4 DEF R, b, S

\* How many messages precede a level.
LEMMA StartValues ==
  ASSUME Queried
  PROVE  /\ Start[0] = Len(CellNames)
         /\ \A k \in 0 .. Height : Start[k + 1] = Start[k] + Len(RequiredAt(k))
         /\ \A k \in 0 .. Height + 1 : Start[k] \in Nat
<1> DEFINE N == Height + 1
           base == Len(CellNames)
           More(k) == Len(RequiredAt(k))
           F == [x \in (1 .. N) \X Nat |-> x[2] + More(x[1] - 1)]
<1>1. Height \in Nat /\ N \in Nat /\ base \in Nat
  BY ConfigTypes, CellsOfRows DEF Queried
<1>2. \A k \in 0 .. Height : More(k) \in Nat
  BY RequiredList
<1>3. Start = CHOOSE f : f = [k \in 0 .. N |-> IF k = 0 THEN base ELSE f[k - 1] + More(k - 1)]
  BY DEF Start
<1>4. \A n \in 1 .. N : n - 1 \in 0 .. Height /\ n - 1 \in 0 .. N /\ n \in 0 .. N /\ n # 0
  BY <1>1
<1> HIDE DEF N, base, More
<1>5. F \in [(1 .. N) \X Nat -> Nat] /\ \A n \in 1 .. N : \A s \in Nat : F[<<n, s>>] = s + More(n - 1)
  <2>1. \A n \in 1 .. N : \A s \in Nat : s + More(n - 1) \in Nat
    BY <1>2, <1>4
  <2>2. QED
    BY <2>1
<1> HIDE DEF F
<1>6. PICK f \in [0 .. N -> Nat] : f[0] = base /\ \A n \in 1 .. N : f[n] = F[<<n, f[n - 1]>>]
  <2> DEFINE Solved(R, first, G) ==
        \E f \in [0 .. N -> R] : f[0] = first /\ \A n \in 1 .. N : f[n] = G[<<n, f[n - 1]>>]
  <2>1. \A R : \A first \in R : \A G \in [(1 .. N) \X R -> R] : Solved(R, first, G)
    BY <1>1, IntervalRecursion
  <2> HIDE DEF Solved
  <2>2. Solved(Nat, base, F)
    BY ONLY <1>1, <1>5, <2>1
  <2>3. QED
    BY <2>2 DEF Solved
<1>7. \A n \in 1 .. N : f[n] = f[n - 1] + More(n - 1)
  BY <1>4, <1>5, <1>6
<1>8. f = [k \in 0 .. N |-> IF k = 0 THEN base ELSE f[k - 1] + More(k - 1)]
  <2>1. \A n \in 0 .. N : n = 0 \/ n \in 1 .. N
    BY <1>1
  <2>2. \A n \in 0 .. N : f[n] = IF n = 0 THEN base ELSE f[n - 1] + More(n - 1)
    BY <1>4, <1>6, <1>7, <2>1
  <2>3. f = [n \in 0 .. N |-> f[n]]
    OBVIOUS
  <2>4. QED
    BY <2>2, <2>3
<1>9. Start = [k \in 0 .. N |-> IF k = 0 THEN base ELSE Start[k - 1] + More(k - 1)]
  BY <1>3, <1>8
<1>10. 0 \in 0 .. N
  BY <1>1
<1>11. Start[0] = base /\ \A n \in 1 .. N : Start[n] = Start[n - 1] + More(n - 1)
  BY <1>4, <1>9, <1>10
<1>12. \A k \in 0 .. Height : k + 1 \in 1 .. N /\ (k + 1) - 1 = k
  BY <1>1 DEF N
<1>13. \A k \in 0 .. Height : Start[k + 1] = Start[k] + More(k)
  BY <1>11, <1>12
<1> DEFINE T == {n \in Nat : n <= N => Start[n] \in Nat}
<1>14. 0 \in T
  BY <1>1, <1>11
<1>15. ASSUME NEW n \in Nat, n \in T PROVE n + 1 \in T
  <2>1. SUFFICES ASSUME n + 1 <= N PROVE Start[n + 1] \in Nat
    OBVIOUS
  <2>2. n \in 0 .. Height /\ n <= N
    BY <1>1, <2>1 DEF N
  <2>3. Start[n] \in Nat
    BY <1>15, <2>2
  <2>4. QED
    BY <1>2, <1>13, <2>2, <2>3
<1>16. \A n \in Nat : n \in T
  <2> HIDE DEF T
  <2>1. QED
    BY <1>14, <1>15, SetInduction
<1>17. \A k \in 0 .. Height + 1 : Start[k] \in Nat
  <2>1. \A k \in 0 .. Height + 1 : k \in Nat /\ k <= N
    BY <1>1 DEF N
  <2>2. QED
    BY <1>16, <2>1
<1>18. QED
  BY <1>11, <1>13, <1>17 DEF base, More

\* Levels follow one another.
LEMMA StartGrows ==
  ASSUME Queried, NEW a \in 0 .. Height + 1, NEW b \in 0 .. Height + 1, a <= b
  PROVE  Start[a] <= Start[b]
<1>1. Height \in Nat
  BY ConfigTypes DEF Queried
<1> DEFINE T == {n \in Nat : a <= n /\ n <= Height + 1 => Start[a] <= Start[n]}
<1>2. 0 \in T
  <2>1. a <= 0 => a = 0
    OBVIOUS
  <2>2. Start[a] \in Nat
    BY StartValues
  <2>3. QED
    BY <2>1, <2>2
<1>3. ASSUME NEW n \in Nat, n \in T PROVE n + 1 \in T
  <2>1. SUFFICES ASSUME a <= n + 1, n + 1 <= Height + 1 PROVE Start[a] <= Start[n + 1]
    OBVIOUS
  <2>2. n \in 0 .. Height /\ n \in 0 .. Height + 1 /\ n + 1 \in 0 .. Height + 1
    BY <1>1, <2>1
  <2>3. Start[a] \in Nat /\ Start[n] \in Nat /\ Start[n + 1] = Start[n] + Len(RequiredAt(n)) /\ Len(RequiredAt(n)) \in Nat
    BY <2>2, StartValues, RequiredList
  <2>4. CASE a = n + 1
    BY <2>3, <2>4
  <2>5. CASE a <= n
    <3>1. Start[a] <= Start[n]
      BY <1>3, <2>2, <2>5
    <3>2. QED
      BY <2>3, <3>1
  <2>6. QED
    BY <2>1, <2>4, <2>5
<1>4. \A n \in Nat : n \in T
  <2> HIDE DEF T
  <2>1. QED
    BY <1>2, <1>3, SetInduction
<1>5. b \in Nat /\ b <= Height + 1
  BY <1>1
<1>6. QED
  BY <1>4, <1>5

\* The names of the messages of a level, and where they are about.
LEMMA NamesOfLevel ==
  ASSUME Queried
  PROVE  /\ \A i \in 1 .. Start[0] : NameAt(i) = CellNames[i] /\ NameAt(i) \in Cells(rows)
                                    /\ RightOf(NameAt(i)) = <<Height + 1, NameAt(i)[2]>> /\ NameAt(i)[2] \in rows
         /\ \A k \in 0 .. Height : \A j \in 1 .. Len(RequiredAt(k)) :
              /\ NameAt(Start[k] + j) = Element(DepthAt(k), RequiredAt(k)[j])
              /\ RightOf(NameAt(Start[k] + j)) = <<DepthAt(k), RequiredAt(k)[j]>>
<1>1. Height \in Nat /\ config.height = Height
  BY ConfigTypes DEF Queried
<1>2. Start[0] = Len(CellNames) /\ Start[0] \in Nat
  BY <1>1, StartValues
<1>3. ASSUME NEW i \in 1 .. Start[0]
      PROVE  /\ NameAt(i) = CellNames[i] /\ NameAt(i) \in Cells(rows)
             /\ RightOf(NameAt(i)) = <<Height + 1, NameAt(i)[2]>> /\ NameAt(i)[2] \in rows
  <2>1. NameAt(i) = CellNames[i]
    BY <1>2 DEF NameAt
  <2>2. CellNames[i] \in Cells(rows)
    BY <1>2, CellsOfRows DEF Queried
  <2>3. PICK row \in rows, column \in 0 .. config.columns - 1 : NameAt(i) = Cell(row, column)
    BY <2>1, <2>2 DEF Cells
  <2>4. NameAt(i)[1] = Height + 2 /\ NameAt(i)[2] = row
    BY <1>1, <2>3 DEF Cell
  <2> HIDE DEF NameAt
  <2>5. QED
    BY <2>1, <2>2, <2>4 DEF RightOf
<1>4. ASSUME NEW k \in 0 .. Height, NEW j \in 1 .. Len(RequiredAt(k))
      PROVE  /\ NameAt(Start[k] + j) = Element(DepthAt(k), RequiredAt(k)[j])
             /\ RightOf(NameAt(Start[k] + j)) = <<DepthAt(k), RequiredAt(k)[j]>>
  <2> DEFINE i == Start[k] + j
  <2>1. /\ Start[k] \in Nat /\ j \in Nat /\ j >= 1 /\ Start[k + 1] = Start[k] + Len(RequiredAt(k)) /\ Len(RequiredAt(k)) \in Nat
        /\ k \in 0 .. Height + 1 /\ 0 \in 0 .. Height + 1 /\ j <= Len(RequiredAt(k))
    BY <1>1, StartValues, RequiredList
  <2>2. Start[0] <= Start[k]
    BY <2>1, StartGrows
  <2>3. Start[k] < i /\ i <= Start[k + 1] /\ ~(i <= Start[0])
    BY <1>2, <2>1, <2>2
  <2>4. ASSUME NEW h \in 0 .. Height, Start[h] < i, i <= Start[h + 1] PROVE h = k
    <3>1. /\ h + 1 \in 0 .. Height + 1 /\ k + 1 \in 0 .. Height + 1 /\ h \in 0 .. Height + 1
          /\ Start[h] \in Nat /\ Start[h + 1] \in Nat /\ Start[k + 1] \in Nat
      BY <1>1, StartValues
    <3>2. ~(h + 1 <= k)
      <4>1. ASSUME h + 1 <= k PROVE FALSE
        <5>1. Start[h + 1] <= Start[k]
          BY <2>1, <3>1, <4>1, StartGrows
        <5>2. QED
          BY <2>1, <2>3, <2>4, <3>1, <5>1
      <4>2. QED
        BY <4>1
    <3>3. ~(k + 1 <= h)
      <4>1. ASSUME k + 1 <= h PROVE FALSE
        <5>1. Start[k + 1] <= Start[h]
          BY <2>1, <3>1, <4>1, StartGrows
        <5>2. QED
          BY <2>1, <2>3, <2>4, <3>1, <5>1
      <4>2. QED
        BY <4>1
    <3>4. QED
      BY <1>1, <3>2, <3>3
  <2> HIDE DEF i
  <2>5. LevelOf(i) = k
    <3>1. LevelOf(i) \in 0 .. Height /\ Start[LevelOf(i)] < i /\ i <= Start[LevelOf(i) + 1]
      BY <2>3 DEF LevelOf
    <3>2. QED
      BY <2>4, <3>1
  <2>6. NameAt(i) = Element(DepthAt(k), RequiredAt(k)[i - Start[k]])
    BY <2>3, <2>5 DEF NameAt
  <2>7. i - Start[k] = j
    BY <2>1 DEF i
  <2>8. NameAt(i) = Element(DepthAt(k), RequiredAt(k)[j])
    BY <2>6, <2>7
  <2>9. NameAt(i)[1] = DepthAt(k) /\ NameAt(i)[2] = RequiredAt(k)[j] /\ DepthAt(k) # Height + 2
    BY <1>1, <2>8 DEF Element, DepthAt
  <2>10. RightOf(NameAt(i)) = <<DepthAt(k), RequiredAt(k)[j]>>
    BY <2>9 DEF RightOf
  <2>11. QED
    BY <2>8, <2>10 DEF i
<1>5. \A k \in 0 .. Height : \A j \in 1 .. Len(RequiredAt(k)) :
              /\ NameAt(Start[k] + j) = Element(DepthAt(k), RequiredAt(k)[j])
              /\ RightOf(NameAt(Start[k] + j)) = <<DepthAt(k), RequiredAt(k)[j]>>
  BY ONLY <1>4
<1>6. \A i \in 1 .. Start[0] : NameAt(i) = CellNames[i] /\ NameAt(i) \in Cells(rows)
                              /\ RightOf(NameAt(i)) = <<Height + 1, NameAt(i)[2]>> /\ NameAt(i)[2] \in rows
  BY ONLY <1>3
<1>7. QED
  BY <1>5, <1>6

-----------------------------------------------------------------------------
\* The tree's queue.

\* A number is twice its half, or one more.
LEMMA Evens ==
  ASSUME NEW x \in Nat
  PROVE  /\ x \div 2 \in Nat /\ (x % 2 = 0 \/ x % 2 = 1)
         /\ x % 2 = 0 => x = 2 * (x \div 2)
         /\ x % 2 = 1 => x = 2 * (x \div 2) + 1
  OBVIOUS

\* Elements after one another are taken off the queue together with their parent.
LEMMA WalkStep ==
  ASSUME NEW half \in Nat \ {0}, NEW Q \in SUBSET (0 .. 2 * half - 1), NEW e \in Nat, NEW f \in Nat, e <= f,
         NEW p \in Nat, NEW q, NEW c, Walk(q, c, half, Q, e),
         NEW drop \in 1 .. c, NEW t \in Seq(Nat), Len(t) = Len(q) - drop + 1,
         \A i \in 1 .. Len(q) - drop : t[i] = q[i + drop],
         t[Len(q) - drop + 1] = p + half,
         \A z \in Q : e <= z /\ z < f => z \div 2 = p,
         \A z \in Q : z < e => z \div 2 < p,
         \A i \in 1 .. drop : q[i] - 2 * half \in Q /\ e <= q[i] - 2 * half /\ q[i] - 2 * half < f,
         \A i \in drop + 1 .. c : q[i] >= f + 2 * half
  PROVE  Walk(t, c - drop, half, Q, f)
<1> DEFINE L == Len(q)
           d == 2 * half
<1>1. /\ q \in Seq(Nat) /\ L \in Nat /\ c \in 0 .. L /\ c \in Nat /\ drop \in Nat /\ drop >= 1 /\ drop <= c
      /\ Len(t) = L - drop + 1 /\ Len(t) \in Nat /\ d \in Nat /\ half \in Nat
      /\ \A i \in 1 .. L : q[i] \in Nat
  <2>1. q \in Seq(Nat) /\ c \in 0 .. L
    BY DEF Walk
  <2>2. L \in Nat /\ \A i \in 1 .. L : q[i] \in Nat
    BY ONLY <2>1
  <2> HIDE DEF L
  <2>3. c \in Nat /\ drop \in Nat /\ drop >= 1 /\ drop <= c /\ L - drop + 1 \in Nat
    BY <2>1, <2>2
  <2>4. QED
    BY <2>1, <2>2, <2>3 DEF L
<1>2. /\ {q[n] : n \in 1 .. c} = {x + d : x \in From(Q, e)}
      /\ \A m, n \in 1 .. c : m < n => q[m] < q[n]
      /\ {q[n] : n \in c + 1 .. L} = {x + half : x \in Parents(Before(Q, e))}
      /\ \A m, n \in c + 1 .. L : m < n => q[m] < q[n]
  BY DEF Walk, Listed
<1>3. \A z \in Q : z \in Nat
  OBVIOUS
<1>4. \A n \in 1 .. c - drop : n \in 1 .. L - drop /\ n + drop \in drop + 1 .. c /\ n + drop \in 1 .. c /\ t[n] = q[n + drop]
  <2>1. \A n \in 1 .. c - drop : n \in 1 .. L - drop /\ n + drop \in drop + 1 .. c /\ n + drop \in 1 .. c
    <3> HIDE DEF L
    <3>1. QED
      BY <1>1
  <2>2. QED
    BY <2>1
<1>5. \A n \in drop + 1 .. c : n - drop \in 1 .. c - drop /\ n \in 1 .. c /\ t[n - drop] = q[n]
  <2>1. \A n \in drop + 1 .. c : n - drop \in 1 .. c - drop /\ (n - drop) + drop = n /\ n \in 1 .. c
    BY <1>1
  <2>2. QED
    BY <1>4, <2>1
<1>6. {t[n] : n \in 1 .. c - drop} = {x + d : x \in From(Q, f)}
  <2>1. ASSUME NEW n \in 1 .. c - drop PROVE \E x \in From(Q, f) : t[n] = x + d
    <3>1. t[n] = q[n + drop] /\ q[n + drop] >= f + d /\ n + drop \in 1 .. c
      BY <1>4
    <3>2. PICK x \in From(Q, e) : q[n + drop] = x + d
      BY <1>2, <3>1
    <3>3. x \in Q /\ x \in Nat
      BY <1>3, <3>2 DEF From
    <3>4. x >= f
      BY <1>1, <3>1, <3>2, <3>3
    <3>5. QED
      BY <3>1, <3>2, <3>3, <3>4 DEF From
  <2>2. ASSUME NEW x \in From(Q, f) PROVE \E n \in 1 .. c - drop : t[n] = x + d
    <3>1. x \in Q /\ x \in Nat /\ x >= f
      BY <1>3 DEF From
    <3>2. x \in From(Q, e)
      BY <3>1 DEF From
    <3>3. PICK n \in 1 .. c : q[n] = x + d
      <4>1. {q[n] : n \in 1 .. c} = {y + d : y \in From(Q, e)}
        BY <1>2
      <4>2. x + d \in {y + d : y \in From(Q, e)}
        BY <3>2
      <4>3. x + d \in {q[n] : n \in 1 .. c}
        BY ONLY <4>1, <4>2
      <4>4. QED
        BY ONLY <4>3
    <3>4. n \in drop + 1 .. c
      <4>1. ASSUME n \in 1 .. drop PROVE FALSE
        <5>1. q[n] - d < f
          BY <4>1
        <5>2. QED
          BY <1>1, <3>1, <3>3, <5>1
      <4>2. QED
        BY <1>1, <4>1
    <3>5. QED
      BY <1>5, <3>3, <3>4
  <2>3. QED
    BY <2>1, <2>2
<1>7. \A m, n \in 1 .. c - drop : m < n => t[m] < t[n]
  <2>1. \A m, n \in 1 .. c - drop : m < n => m + drop < n + drop
    BY <1>1
  <2>2. QED
    BY <1>2, <1>4, <2>1
<1> DEFINE last == L - drop + 1
<1>8. /\ last \in Nat /\ c - drop + 1 \in Nat /\ Len(t) = last /\ last \in c - drop + 1 .. last
      /\ \A n \in c - drop + 1 .. last : n = last \/ (n \in 1 .. L - drop /\ n + drop \in c + 1 .. L)
      /\ \A n \in c + 1 .. L : n - drop \in 1 .. L - drop /\ n - drop \in c - drop + 1 .. last /\ (n - drop) + drop = n
  <2>1. /\ last \in Nat /\ c - drop + 1 \in Nat /\ last \in c - drop + 1 .. last
        /\ \A n \in c - drop + 1 .. last : n = last \/ (n \in 1 .. L - drop /\ n + drop \in c + 1 .. L)
        /\ \A n \in c + 1 .. L : n - drop \in 1 .. L - drop /\ n - drop \in c - drop + 1 .. last /\ (n - drop) + drop = n
    <3> HIDE DEF L
    <3>1. L \in Nat /\ c \in Nat /\ drop \in Nat /\ drop >= 1 /\ drop <= c /\ c <= L
      BY <1>1
    <3>2. last \in Nat /\ c - drop + 1 \in Nat /\ last \in c - drop + 1 .. last
      BY ONLY <3>1
    <3>3. \A n \in c - drop + 1 .. last : n = last \/ (n \in 1 .. L - drop /\ n + drop \in c + 1 .. L)
      BY ONLY <3>1
    <3>4. \A n \in c + 1 .. L : n - drop \in 1 .. L - drop /\ n - drop \in c - drop + 1 .. last /\ (n - drop) + drop = n
      BY ONLY <3>1
    <3>5. QED
      BY <3>2, <3>3, <3>4
  <2>2. QED
    BY <1>1, <2>1
<1>9. \A n \in c - drop + 1 .. last :
        n = last \/ (n + drop \in c + 1 .. L /\ t[n] = q[n + drop])
  BY <1>8
<1>10. Before(Q, f) = Before(Q, e) \cup {z \in Q : e <= z /\ z < f}
  <2>1. \A z \in Q : z < f <=> z < e \/ (e <= z /\ z < f)
    BY <1>3
  <2>2. QED
    BY <2>1 DEF Before
<1>11. \E z \in Q : e <= z /\ z < f
  <2>1. 1 \in 1 .. drop
    BY <1>1
  <2>2. QED
    BY <2>1
<1>12. Parents(Before(Q, f)) = Parents(Before(Q, e)) \cup {p}
  <2>1. Parents({z \in Q : e <= z /\ z < f}) = {p}
    BY <1>11 DEF Parents
  <2>2. \A A, B : Parents(A \cup B) = Parents(A) \cup Parents(B)
    BY DEF Parents
  <2>3. QED
    BY <1>10, <2>1, <2>2
<1>13. t[last] = p + half
  OBVIOUS
<1>14. {t[n] : n \in c - drop + 1 .. last} = {x + half : x \in Parents(Before(Q, f))}
  <2>1. ASSUME NEW n \in c - drop + 1 .. last PROVE \E x \in Parents(Before(Q, f)) : t[n] = x + half
    <3>1. CASE n = last
      BY <1>12, <1>13, <3>1
    <3>2. CASE n # last
      <4>1. n + drop \in c + 1 .. L /\ t[n] = q[n + drop]
        BY <1>9, <3>2
      <4>2. PICK x \in Parents(Before(Q, e)) : q[n + drop] = x + half
        BY <1>2, <4>1
      <4>3. QED
        BY <1>12, <4>1, <4>2
    <3>3. QED
      BY <3>1, <3>2
  <2>2. ASSUME NEW x \in Parents(Before(Q, f)) PROVE \E n \in c - drop + 1 .. last : t[n] = x + half
    <3>1. CASE x = p
      BY <1>8, <1>13, <3>1
    <3>2. CASE x # p
      <4>1. x \in Parents(Before(Q, e))
        BY <1>12, <3>2
      <4>2. PICK n \in c + 1 .. L : q[n] = x + half
        BY <1>2, <4>1
      <4>3. n - drop \in c - drop + 1 .. last /\ n - drop \in 1 .. L - drop /\ (n - drop) + drop = n
        BY <1>8
      <4>4. t[n - drop] = q[n]
        BY <4>3
      <4>5. QED
        BY <4>2, <4>3, <4>4
    <3>3. QED
      BY <3>1, <3>2
  <2>3. QED
    BY <2>1, <2>2
<1>15. \A m, n \in c - drop + 1 .. last : m < n => t[m] < t[n]
  <2> SUFFICES ASSUME NEW m \in c - drop + 1 .. last, NEW n \in c - drop + 1 .. last, m < n PROVE t[m] < t[n]
    OBVIOUS
  <2>1. m # last /\ m \in Nat /\ n \in Nat
    BY <1>8
  <2>2. m + drop \in c + 1 .. L /\ t[m] = q[m + drop]
    BY <1>9, <2>1
  <2>3. CASE n = last
    <3>1. PICK x \in Parents(Before(Q, e)) : q[m + drop] = x + half
      BY <1>2, <2>2
    <3>2. PICK z \in Before(Q, e) : x = z \div 2
      BY <3>1 DEF Parents
    <3>3. z \in Q /\ z < e
      BY <3>2 DEF Before
    <3>4. x < p /\ x \in Nat
      <4>1. z \div 2 \in Nat
        BY <1>3, <3>3, Evens
      <4>2. z \div 2 < p
        BY <3>3
      <4>3. QED
        BY <3>2, <4>1, <4>2
    <3>5. QED
      BY <1>1, <1>13, <2>2, <2>3, <3>1, <3>4
  <2>4. CASE n # last
    <3>1. n + drop \in c + 1 .. L /\ t[n] = q[n + drop]
      BY <1>9, <2>4
    <3>2. m + drop < n + drop
      BY <1>1, <2>1
    <3>3. QED
      BY <1>2, <2>2, <3>1, <3>2
  <2>5. QED
    BY <2>3, <2>4
<1>16. c - drop \in 0 .. Len(t)
  BY <1>1
<1>17. Listed(t, 1, c - drop, {x + d : x \in From(Q, f)})
  BY <1>6, <1>7 DEF Listed
<1>18. Listed(t, c - drop + 1, Len(t), {x + half : x \in Parents(Before(Q, f))})
  <2> HIDE DEF last
  <2>1. QED
    BY <1>8, <1>14, <1>15 DEF Listed
<1>19. QED
  BY <1>16, <1>17, <1>18 DEF Walk

\* The sibling of an element.
Mate(x) == IF x % 2 = 0 THEN x + 1 ELSE x - 1

\* The other element of a pair.
LEMMA Mates ==
  ASSUME NEW x \in Nat
  PROVE  /\ Mate(x) \in Nat /\ Mate(x) \div 2 = x \div 2 /\ Mate(x) # x
         /\ \A z \in Nat : z \div 2 = x \div 2 => z = x \/ z = Mate(x)
         /\ \A z \in Nat : 2 * (x \div 2) <= z /\ z < 2 * (x \div 2) + 2 <=> z \div 2 = x \div 2
<1> DEFINE p == x \div 2
<1>1. p \in Nat /\ ((x = 2 * p /\ x % 2 = 0) \/ (x = 2 * p + 1 /\ x % 2 = 1))
  BY ONLY x \in Nat, Evens
<1>2. \A z \in Nat : z \div 2 \in Nat /\ (z = 2 * (z \div 2) \/ z = 2 * (z \div 2) + 1)
  BY Evens
<1>3. (2 * p) \div 2 = p /\ (2 * p + 1) \div 2 = p
  BY <1>1
<1> HIDE DEF p
<1>4. Mate(x) = IF x = 2 * p THEN 2 * p + 1 ELSE 2 * p
  BY <1>1 DEF Mate
<1>5. \A z \in Nat : z \div 2 = p <=> z = 2 * p \/ z = 2 * p + 1
  BY <1>1, <1>2, <1>3
<1>6. QED
  BY <1>1, <1>3, <1>4, <1>5 DEF p

\* One turn: the head of the queue is the next element of the level; the one after it
\* is its sibling exactly if that is queried or known too.
LEMMA WalkTurn ==
  ASSUME NEW half \in Nat \ {0}, NEW Q \in SUBSET (0 .. 2 * half - 1), NEW e \in Nat, e % 2 = 0,
         NEW q, NEW c, c >= 1, Walk(q, c, half, Q, e)
  PROVE  LET n == Head(q)
             x == n - 2 * half
             s == IF n % 2 = 0 THEN n + 1 ELSE n - 1
             rest == Append(Tail(q), n \div 2)
             f == 2 * (x \div 2) + 2
         IN
         /\ x \in Q /\ x >= e /\ (\A z \in Q : z >= e => z >= x)
         /\ n \in Nat /\ n >= 2 * half /\ s = Mate(x) + 2 * half
         /\ Head(rest) = s <=> Mate(x) \in Q
         /\ Mate(x) \in Q => c >= 2 /\ Walk(Tail(rest), c - 2, half, Q, f)
         /\ Mate(x) \notin Q => Walk(rest, c - 1, half, Q, f)
<1> DEFINE d == 2 * half
           L == Len(q)
           n == Head(q)
           x == n - d
           p == x \div 2
           y == Mate(x)
           f == 2 * p + 2
           s == IF n % 2 = 0 THEN n + 1 ELSE n - 1
           rest == Append(Tail(q), n \div 2)
<1>1. q \in Seq(Nat) /\ c \in 0 .. L /\ d \in Nat /\ half \in Nat /\ half >= 1
  BY DEF Walk
<1>2. L \in Nat /\ c \in 1 .. L /\ c \in Nat /\ L >= 1 /\ \A i \in 1 .. L : q[i] \in Nat
  <2>1. L \in Nat /\ \A i \in 1 .. L : q[i] \in Nat
    BY ONLY <1>1
  <2> HIDE DEF L
  <2>2. QED
    BY <1>1, <2>1
<1>3. /\ {q[i] : i \in 1 .. c} = {z + d : z \in From(Q, e)}
      /\ \A i, j \in 1 .. c : i < j => q[i] < q[j]
      /\ {q[i] : i \in c + 1 .. L} = {z + half : z \in Parents(Before(Q, e))}
  BY DEF Walk, Listed
<1>4. n = q[1] /\ n \in Nat
  <2>1. q # <<>>
    BY <1>2
  <2>2. n = q[1]
    BY ONLY <1>1, <2>1
  <2>3. QED
    BY <1>2, <2>2
<1>5. \A i \in 1 .. c : q[i] - d \in Q /\ q[i] - d >= e /\ q[i] \in Nat
  <2> SUFFICES ASSUME NEW i \in 1 .. c PROVE q[i] - d \in Q /\ q[i] - d >= e /\ q[i] \in Nat
    OBVIOUS
  <2>1. PICK z \in From(Q, e) : q[i] = z + d
    BY <1>3
  <2>2. z \in Q /\ z >= e /\ z \in Nat
    BY <2>1 DEF From
  <2>3. q[i] - d = z /\ q[i] \in Nat
    BY <1>1, <2>1, <2>2
  <2>4. QED
    BY <2>2, <2>3
<1>6. x \in Q /\ x >= e /\ x \in Nat /\ x \in 0 .. d - 1
  <2>1. 1 \in 1 .. c
    BY <1>2
  <2>2. QED
    BY <1>4, <1>5, <2>1
<1>7. ASSUME NEW z \in Q, z >= e PROVE \E i \in 1 .. c : q[i] = z + d /\ z >= x
  <2>1. z \in From(Q, e) /\ z \in Nat
    BY <1>7 DEF From
  <2>2. PICK i \in 1 .. c : q[i] = z + d
    BY <1>3, <2>1
  <2>3. i = 1 \/ 1 < i
    BY <1>2
  <2>4. 1 \in 1 .. c
    BY <1>2
  <2>5. q[i] = q[1] \/ q[1] < q[i]
    BY <1>3, <2>3, <2>4
  <2>6. z >= x
    BY <1>1, <1>4, <2>1, <2>2, <2>5
  <2>7. QED
    BY <2>2, <2>6
<1> HIDE DEF L
<1>8. /\ p \in Nat /\ f \in Nat /\ ((x % 2 = 0 /\ x = 2 * p) \/ (x % 2 = 1 /\ x = 2 * p + 1))
      /\ n % 2 = x % 2 /\ n \div 2 = p + half /\ n = x + d
  <2>1. n = x + d /\ n = x + 2 * half
    BY <1>1, <1>4
  <2> HIDE DEF n
  <2>2. p \in Nat /\ ((x % 2 = 0 /\ x = 2 * p) \/ (x % 2 = 1 /\ x = 2 * p + 1))
    <3> HIDE DEF x
    <3>1. x \in Nat
      BY <1>6
    <3>2. QED
      BY ONLY <3>1, Evens
  <2>3. \A v, h \in Nat : (v + 2 * h) % 2 = v % 2 /\ (v + 2 * h) \div 2 = (v \div 2) + h
    OBVIOUS
  <2> HIDE DEF x
  <2>4. n % 2 = x % 2 /\ n \div 2 = p + half
    BY <1>1, <1>6, <2>1, <2>3
  <2>5. QED
    BY <2>1, <2>2, <2>4
<1>9. s = y + d
  <2> HIDE DEF n, x
  <2>1. n % 2 = x % 2 /\ n = x + d /\ x \in Nat /\ n \in Nat /\ d \in Nat
    BY <1>1, <1>4, <1>6, <1>8
  <2>2. QED
    BY ONLY <2>1 DEF Mate
<1>10. /\ e <= f /\ e <= 2 * p
       /\ \A z \in Q : e <= z /\ z < f <=> z \in {x, y}
       /\ \A z \in Q : e <= z /\ z < f => z \div 2 = p
       /\ \A z \in Q : z < e => z \div 2 < p
       /\ y \in Nat /\ y # x /\ y \in 2 * p .. 2 * p + 1
  <2>1. e = 2 * (e \div 2) /\ e \div 2 \in Nat
    BY Evens
  <2>2. e <= 2 * p
    BY <1>6, <1>8, <2>1
  <2>3. /\ y \in Nat /\ y \div 2 = p /\ y # x
        /\ \A z \in Nat : z \div 2 = p => z = x \/ z = y
        /\ \A z \in Nat : 2 * p <= z /\ z < f <=> z \div 2 = p
    BY <1>6, Mates
  <2>0. p \in Nat /\ f = 2 * p + 2 /\ x \in Nat /\ 2 * p <= x /\ x \div 2 = p
    BY <1>6, <1>8
  <2> HIDE DEF x, y, p, f
  <2>4. 2 * p <= y /\ y < f
    BY <2>3
  <2>5. \A z \in Nat : z \in {x, y} <=> z \div 2 = p
    BY <2>0, <2>3
  <2>6. ASSUME NEW z \in Q, e <= z, z < f PROVE z \div 2 = p
    <3>1. z \in Nat /\ z >= x
      BY <1>7, <2>6
    <3>2. 2 * p <= z
      BY <2>0, <3>1
    <3>3. QED
      BY <2>3, <2>6, <3>1, <3>2
  <2>7. ASSUME NEW z \in Q, z \in {x, y} PROVE e <= z /\ z < f
    <3>1. z \in Nat /\ z \div 2 = p
      BY <2>5, <2>7
    <3>2. 2 * p <= z /\ z < f
      BY <2>3, <3>1
    <3>3. QED
      BY <2>0, <2>2, <3>1, <3>2
  <2>8. ASSUME NEW z \in Q, z < e PROVE z \div 2 < p
    <3>1. z \in Nat /\ z < 2 * p
      BY <2>0, <2>2, <2>8
    <3>2. z \div 2 \in Nat /\ 2 * (z \div 2) <= z
      BY <3>1, Evens
    <3>3. QED
      BY <2>0, <3>1, <3>2
  <2>9. e <= f /\ y \in 2 * p .. 2 * p + 1
    BY <2>0, <2>2, <2>3, <2>4
  <2>10. \A z \in Q : e <= z /\ z < f <=> z \in {x, y}
    BY <2>5, <2>6, <2>7
  <2>11. QED
    BY <2>2, <2>3, <2>6, <2>8, <2>9, <2>10
<1>11. /\ rest \in Seq(Nat) /\ Len(rest) = L
       /\ \A i \in 1 .. L - 1 : rest[i] = q[i + 1]
       /\ rest[L] = p + half
  <2> DEFINE u == Tail(q)
             v == n \div 2
  <2>1. u \in Seq(Nat) /\ Len(u) = L - 1 /\ \A i \in 1 .. L - 1 : u[i] = q[i + 1]
    <3>1. q # <<>>
      BY <1>2 DEF L
    <3>2. u \in Seq(Nat) /\ Len(u) = Len(q) - 1 /\ \A i \in 1 .. Len(q) - 1 : u[i] = q[i + 1]
      BY ONLY <1>1, <3>1
    <3>3. QED
      BY <3>2 DEF L
  <2>2. v = p + half /\ v \in Nat
    <3> HIDE DEF p, n
    <3>1. QED
      BY <1>1, <1>8
  <2> HIDE DEF u, v
  <2>3. Append(u, v) \in Seq(Nat) /\ Len(Append(u, v)) = Len(u) + 1
        /\ \A i \in 1 .. Len(u) : Append(u, v)[i] = u[i]
        /\ Append(u, v)[Len(u) + 1] = v
    BY <2>1, <2>2
  <2>4. Len(u) + 1 = L
    BY <1>2, <2>1
  <2>5. QED
    BY <2>1, <2>2, <2>3, <2>4 DEF u, v
<1> HIDE DEF n, p, y, s
<1>12. Head(rest) = rest[1]
  <2> HIDE DEF rest
  <2>1. rest # <<>>
    BY <1>2, <1>11
  <2>2. QED
    BY ONLY <1>11, <2>1
<1> HIDE DEF rest, x, f
<1>13. ASSUME y \in Q
       PROVE  c >= 2 /\ rest[1] = s /\ Walk(Tail(rest), c - 2, half, Q, f)
  <2>1. y \in {x, y} /\ e <= y
    BY <1>10, <1>13
  <2>2. PICK i \in 1 .. c : q[i] = y + d /\ y >= x
    BY <1>7, <1>13, <2>1
  <2>3. y = x + 1 /\ f = x + 2
    BY <1>6, <1>8, <1>10, <2>2 DEF f
  <2>4. i # 1 /\ 2 \in 1 .. c /\ 1 \in 1 .. c /\ c >= 2 /\ L >= 2
    <3>1. i # 1
      <4>1. ASSUME i = 1 PROVE FALSE
        <5>1. q[1] = y + d /\ q[1] = x + d
          BY <1>4, <1>8, <2>2, <4>1
        <5>2. QED
          BY <1>1, <1>6, <2>3, <5>1
      <4>2. QED
        BY <4>1
    <3>2. QED
      BY <1>2, <3>1
  <2>5. q[2] = y + d
    <3>1. i = 2 \/ 2 < i
      BY <1>2, <2>4
    <3>2. q[2] = q[i] \/ q[2] < q[i]
      BY <1>3, <2>4, <3>1
    <3>3. q[1] < q[2] /\ q[2] \in Nat /\ q[1] = x + d
      <4>1. q[1] = x + d
        BY <1>4, <1>8
      <4>2. q[1] < q[2]
        BY <1>3, <2>4
      <4>3. QED
        BY <1>5, <2>4, <4>1, <4>2
    <3>4. QED
      BY <1>1, <1>6, <2>2, <2>3, <3>2, <3>3
  <2>6. rest[1] = s
    <3>1. 1 \in 1 .. L - 1 /\ 1 + 1 = 2
      BY <1>2, <2>4
    <3>2. QED
      BY <1>9, <1>11, <2>5, <3>1
  <2> DEFINE t == Tail(rest)
  <2>7. t \in Seq(Nat) /\ Len(t) = L - 1 /\ \A j \in 1 .. L - 1 : t[j] = rest[j + 1]
    <3>1. rest # <<>> /\ rest \in Seq(Nat) /\ Len(rest) = L
      BY <1>2, <1>11
    <3>2. t \in Seq(Nat) /\ Len(t) = Len(rest) - 1 /\ \A j \in 1 .. Len(rest) - 1 : t[j] = rest[j + 1]
      BY ONLY <3>1
    <3>3. QED
      BY <3>1, <3>2
  <2> HIDE DEF t
  <2>8. /\ Len(t) = L - 2 + 1 /\ t[L - 2 + 1] = p + half
        /\ \A j \in 1 .. L - 2 : t[j] = q[j + 2]
    <3>1. L - 2 + 1 = L - 1 /\ L - 1 \in 1 .. L - 1 /\ (L - 1) + 1 = L
      BY <1>2, <2>4
    <3>2. \A j \in 1 .. L - 2 : j \in 1 .. L - 1 /\ j + 1 \in 1 .. L - 1 /\ (j + 1) + 1 = j + 2
      BY <1>2
    <3>3. QED
      BY <1>11, <2>7, <3>1, <3>2
  <2>9. \A j \in 1 .. 2 : q[j] - d \in Q /\ e <= q[j] - d /\ q[j] - d < f
    <3>1. q[1] - d = x /\ q[2] - d = y
      BY <1>1, <1>4, <1>6, <1>8, <1>10, <2>5
    <3>2. x \in Q /\ e <= x /\ x < f /\ y < f
      BY <1>6, <2>3
    <3>3. \A j \in 1 .. 2 : j = 1 \/ j = 2
      OBVIOUS
    <3>4. QED
      BY <1>13, <2>1, <3>1, <3>2, <3>3
  <2>10. \A j \in 2 + 1 .. c : q[j] >= f + d
    <3> SUFFICES ASSUME NEW j \in 2 + 1 .. c PROVE q[j] >= f + d
      OBVIOUS
    <3>1. j \in 1 .. c /\ 2 < j
      BY <1>2
    <3>2. q[2] < q[j] /\ q[j] \in Nat
      BY <1>3, <1>5, <2>4, <3>1
    <3>3. QED
      BY <1>1, <1>6, <2>3, <2>5, <3>2
  <2>11. Walk(t, c - 2, half, Q, f)
    <3>1. 2 \in 1 .. c /\ f \in Nat /\ p \in Nat /\ e <= f
      BY <1>8, <1>10, <2>4
    <3>2. /\ Len(t) = Len(q) - 2 + 1 /\ t[Len(q) - 2 + 1] = p + half
          /\ \A j \in 1 .. Len(q) - 2 : t[j] = q[j + 2]
      BY <2>8 DEF L
    <3>3. QED
      BY <1>10, <2>7, <2>9, <2>10, <3>1, <3>2, WalkStep
  <2>12. QED
    BY <2>4, <2>6, <2>11 DEF t
<1>14. ASSUME y \notin Q
       PROVE  rest[1] # s /\ Walk(rest, c - 1, half, Q, f)
  <2>1. rest[1] # s
    <3>1. CASE c >= 2
      <4>1. 1 \in 1 .. L - 1 /\ 1 + 1 = 2 /\ 2 \in 1 .. c
        BY <1>2, <3>1
      <4>2. rest[1] = q[2] /\ q[2] - d \in Q /\ q[2] \in Nat
        BY <1>5, <1>11, <4>1
      <4>3. s - d = y
        BY <1>1, <1>9, <1>10
      <4>4. QED
        BY <1>14, <4>2, <4>3
    <3>2. CASE c = 1
      <4>1. rest[1] < d
        <5>1. CASE L = 1
          <6>1. x < d /\ 2 * p <= x
            BY <1>6, <1>8
          <6>2. p < half
            BY <1>1, <1>6, <1>8, <6>1 DEF d
          <6>3. rest[1] = p + half
            BY <1>11, <5>1
          <6>4. QED
            BY <1>1, <1>8, <6>2, <6>3 DEF d
        <5>2. CASE L >= 2
          <6>1. 1 \in 1 .. L - 1 /\ 1 + 1 = 2 /\ 2 \in c + 1 .. L
            BY <1>2, <3>2, <5>2
          <6>2. rest[1] = q[2]
            BY <1>11, <6>1
          <6>3. PICK u \in Parents(Before(Q, e)) : q[2] = u + half
            BY <1>3, <6>1
          <6>4. PICK z \in Q : u = z \div 2
            BY <6>3 DEF Parents, Before
          <6>5. z \in Nat /\ z < 2 * half
            BY <1>1, <6>4
          <6>6. u \in Nat /\ 2 * u <= z
            BY <6>4, <6>5, Evens
          <6>7. QED
            BY <1>1, <6>2, <6>3, <6>5, <6>6 DEF d
        <5>3. QED
          BY <1>2, <5>1, <5>2
      <4>2. s >= d
        BY <1>1, <1>9, <1>10
      <4>3. s \in Nat /\ rest[1] \in Nat
        <5>1. s \in Nat
          BY <1>1, <1>9, <1>10
        <5>2. rest[1] \in Nat
          BY <1>2, <1>11
        <5>3. QED
          BY <5>1, <5>2
      <4>4. QED
        BY <1>1, <4>1, <4>2, <4>3
    <3>3. QED
      BY <1>2, <3>1, <3>2
  <2>2. /\ Len(rest) = Len(q) - 1 + 1 /\ rest[Len(q) - 1 + 1] = p + half
        /\ \A j \in 1 .. Len(q) - 1 : rest[j] = q[j + 1]
    <3>1. L - 1 + 1 = L
      BY <1>2
    <3>2. QED
      BY <1>11, <3>1 DEF L
  <2>3. \A j \in 1 .. 1 : q[j] - d \in Q /\ e <= q[j] - d /\ q[j] - d < f
    <3>1. q[1] - d = x
      BY <1>1, <1>4, <1>6, <1>8
    <3>2. x < f
      BY <1>6, <1>8 DEF f
    <3>3. QED
      BY <1>6, <3>1, <3>2
  <2>4. \A j \in 1 + 1 .. c : q[j] >= f + d
    <3> SUFFICES ASSUME NEW j \in 1 + 1 .. c PROVE q[j] >= f + d
      OBVIOUS
    <3>1. j \in 1 .. c /\ 1 < j /\ 1 \in 1 .. c
      BY <1>2
    <3>2. q[1] < q[j] /\ q[j] - d \in Q /\ e <= q[j] - d /\ q[j] \in Nat
      BY <1>3, <1>5, <3>1
    <3>3. q[j] - d # x /\ q[j] - d # y
      <4>1. q[1] = x + d
        BY <1>4, <1>8
      <4>2. QED
        BY <1>1, <1>6, <1>14, <3>2, <4>1
    <3>4. ~(q[j] - d < f)
      BY <1>10, <3>2, <3>3
    <3>5. QED
      BY <1>1, <1>8, <3>2, <3>4
  <2>5. 1 \in 1 .. c /\ f \in Nat /\ p \in Nat /\ e <= f
    BY <1>2, <1>8, <1>10
  <2>6. Walk(rest, c - 1, half, Q, f)
    BY <1>10, <1>11, <2>2, <2>3, <2>4, <2>5, WalkStep
  <2>7. QED
    BY <2>1, <2>6
<1>15. /\ x \in Q /\ x >= e /\ (\A z \in Q : z >= e => z >= x)
       /\ n \in Nat /\ n >= d /\ s = y + d
       /\ Head(rest) = s <=> y \in Q
  <2>1. n >= d
    BY <1>1, <1>6, <1>8
  <2>2. QED
    BY <1>4, <1>6, <1>7, <1>9, <1>12, <1>13, <1>14, <2>1
<1>16. QED
  BY <1>13, <1>14, <1>15 DEF n, x, s, rest, f, p, y

-----------------------------------------------------------------------------
\* What a level of 2 * half elements requires of the queries Q.
Requires(R, half, Q) ==
  /\ R \in Seq(0 .. 2 * half - 1)
  /\ \A i, j \in 1 .. Len(R) : i < j => R[i] < R[j]
  /\ SetOf(R) = {i \in 0 .. 2 * half - 1 : i \div 2 \in Parents(Q)} \ Q

\* Each is the sibling of a query, on the same side of an even number.
LEMMA RequiredMates ==
  ASSUME NEW half \in Nat \ {0}, NEW Q \in SUBSET (0 .. 2 * half - 1), NEW R, Requires(R, half, Q)
  PROVE  /\ Len(R) \in Nat /\ \A j \in 1 .. Len(R) : R[j] \in Nat /\ R[j] \notin Q /\ \E z \in Q : R[j] \div 2 = z \div 2
         /\ \A x \in Q : Mate(x) \notin Q => \E j \in 1 .. Len(R) : R[j] = Mate(x)
<1> DEFINE d == 2 * half
<1>1. R \in Seq(0 .. d - 1) /\ SetOf(R) = {i \in 0 .. d - 1 : i \div 2 \in Parents(Q)} \ Q /\ d \in Nat
  BY DEF Requires
<1>2. Len(R) \in Nat /\ DOMAIN R = 1 .. Len(R) /\ \A j \in 1 .. Len(R) : R[j] \in 0 .. d - 1
  <2>1. R \in Seq(0 .. d - 1)
    BY <1>1
  <2> DEFINE T == 0 .. d - 1
  <2>2. R \in Seq(T)
    BY <2>1
  <2> HIDE DEF T
  <2>3. Len(R) \in Nat /\ DOMAIN R = 1 .. Len(R) /\ \A j \in 1 .. Len(R) : R[j] \in T
    BY ONLY <2>2
  <2>4. QED
    BY <2>3 DEF T
<1>3. SetOf(R) = {R[j] : j \in 1 .. Len(R)}
  BY <1>2 DEF SetOf
<1>4. ASSUME NEW j \in 1 .. Len(R)
      PROVE  R[j] \in Nat /\ R[j] \notin Q /\ \E z \in Q : R[j] \div 2 = z \div 2
  <2>1. R[j] \in SetOf(R)
    BY <1>3
  <2>2. R[j] \notin Q /\ R[j] \div 2 \in Parents(Q) /\ R[j] \in Nat
    BY <1>1, <2>1
  <2>3. QED
    BY <2>2 DEF Parents
<1>5. ASSUME NEW x \in Q, Mate(x) \notin Q PROVE \E j \in 1 .. Len(R) : R[j] = Mate(x)
  <2>1. x \in 0 .. d - 1 /\ x \in Nat
    OBVIOUS
  <2>2. Mate(x) \in Nat /\ Mate(x) \div 2 = x \div 2
    BY <2>1, Mates
  <2>3. x \div 2 \in Nat /\ 2 * (x \div 2) <= x
    BY <2>1, Evens
  <2>4. Mate(x) < 2 * (x \div 2) + 2
    BY <2>1, <2>2, Mates
  <2>5. x \div 2 < half
    BY <2>1, <2>3
  <2>6. Mate(x) \in 0 .. d - 1
    BY <2>2, <2>3, <2>4, <2>5
  <2>7. Mate(x) \div 2 \in Parents(Q)
    BY <2>2 DEF Parents
  <2>8. Mate(x) \in SetOf(R)
    BY <1>1, <1>5, <2>6, <2>7
  <2>9. QED
    BY <1>3, <2>8
<1>6. QED
  BY <1>2, <1>4, <1>5

\* Numbers with the same half are on the same side of an even number.
LEMMA SameSide ==
  ASSUME NEW x \in Nat, NEW y \in Nat, NEW e \in Nat, e % 2 = 0, x \div 2 = y \div 2
  PROVE  x < e <=> y < e
<1>1. e = 2 * (e \div 2) /\ e \div 2 \in Nat
  BY Evens
<1>2. \A z \in Nat : z \div 2 \in Nat /\ (z = 2 * (z \div 2) \/ z = 2 * (z \div 2) + 1)
  BY Evens
<1>3. x \div 2 \in Nat /\ (x = 2 * (x \div 2) \/ x = 2 * (x \div 2) + 1) /\ (y = 2 * (x \div 2) \/ y = 2 * (x \div 2) + 1)
  BY <1>2
<1>4. QED
  BY <1>1, <1>3

\* One turn: the sibling of the next element is passed if it is required.
LEMMA PassedTurn ==
  ASSUME NEW half \in Nat \ {0}, NEW Q \in SUBSET (0 .. 2 * half - 1), NEW R, Requires(R, half, Q),
         NEW e \in Nat, e % 2 = 0, NEW x \in Q, x >= e, \A z \in Q : z >= e => z >= x,
         NEW m, Passed(R, m, e)
  PROVE  LET f == 2 * (x \div 2) + 2 IN
         /\ f \in Nat /\ f % 2 = 0 /\ f <= 2 * half
         /\ Mate(x) \in Q => Passed(R, m, f)
         /\ Mate(x) \notin Q => m + 1 \in 1 .. Len(R) /\ R[m + 1] = Mate(x) /\ Passed(R, m + 1, f)
<1> DEFINE p == x \div 2
           f == 2 * p + 2
           y == Mate(x)
<1>1. /\ Len(R) \in Nat /\ \A j \in 1 .. Len(R) : R[j] \in Nat /\ R[j] \notin Q /\ \E z \in Q : R[j] \div 2 = z \div 2
      /\ y \notin Q => \E j \in 1 .. Len(R) : R[j] = y
  <2>1. /\ Len(R) \in Nat /\ \A j \in 1 .. Len(R) : R[j] \in Nat /\ R[j] \notin Q /\ \E z \in Q : R[j] \div 2 = z \div 2
        /\ \A z \in Q : Mate(z) \notin Q => \E j \in 1 .. Len(R) : R[j] = Mate(z)
    BY RequiredMates, Zenon
  <2>2. QED
    BY ONLY x \in Q, <2>1
<1>2. \A i, j \in 1 .. Len(R) : i < j => R[i] < R[j]
  BY DEF Requires
<1>3. m \in 0 .. Len(R) /\ m \in Nat /\ \A j \in 1 .. Len(R) : j <= m <=> R[j] < e
  BY <1>1 DEF Passed
<1>4. x \in Nat /\ x < 2 * half
  OBVIOUS
<1>5. p \in Nat /\ 2 * p <= x /\ (x = 2 * p \/ x = 2 * p + 1)
  BY <1>4, Evens
<1>6. /\ y \in Nat /\ y \div 2 = p /\ y # x
      /\ \A z \in Nat : z \div 2 = p => z = x \/ z = y
      /\ \A z \in Nat : 2 * p <= z /\ z < f <=> z \div 2 = p
  BY <1>4, Mates
<1>7. f \in Nat /\ f % 2 = 0 /\ f <= 2 * half
  <2> HIDE DEF p
  <2>1. p < half
    BY <1>4, <1>5
  <2>2. QED
    BY <1>5, <2>1
<1>8. e <= 2 * p
  <2>1. e = 2 * (e \div 2) /\ e \div 2 \in Nat
    BY Evens
  <2>2. QED
    BY <1>4, <1>5, <2>1
<1>9. e <= f /\ e <= y /\ y < f
  <2>1. 2 * p <= y /\ y < f
    BY <1>6
  <2> HIDE DEF y, p
  <2>2. QED
    BY <1>5, <1>6, <1>8, <2>1
<1>14. e \in Nat /\ f \in Nat /\ y \in Nat
  BY <1>6, <1>7
<1> HIDE DEF p, y
<1>10. ASSUME NEW j \in 1 .. Len(R), R[j] < f, ~(R[j] < e) PROVE R[j] = y
  <2>1. R[j] \in Nat /\ R[j] \notin Q
    BY <1>1
  <2>2. PICK z \in Q : R[j] \div 2 = z \div 2
    BY <1>1
  <2>3. z \in Nat
    OBVIOUS
  <2>4. z >= e
    BY <1>10, <2>1, <2>2, <2>3, SameSide
  <2>5. z >= x
    BY <2>4
  <2>6. R[j] \div 2 \in Nat /\ 2 * (R[j] \div 2) <= R[j]
    BY <2>1, Evens
  <2>7. z \div 2 >= p
    BY <1>4, <2>3, <2>5 DEF p
  <2>8. 2 * p <= R[j]
    BY <1>5, <2>1, <2>2, <2>6, <2>7
  <2>9. R[j] \div 2 = p
    BY <1>6, <1>10, <2>1, <2>8
  <2>10. QED
    BY <1>6, <2>1, <2>9
<1> HIDE DEF f
<1>11. ASSUME y \in Q PROVE Passed(R, m, f)
  <2>1. ASSUME NEW j \in 1 .. Len(R) PROVE j <= m <=> R[j] < f
    <3>1. R[j] \in Nat /\ R[j] \notin Q
      BY <1>1
    <3>2. R[j] < e => R[j] < f
      BY <1>7, <1>9, <3>1
    <3>3. R[j] < f => R[j] < e
      BY <1>10, <1>11, <3>1
    <3>4. QED
      BY <1>3, <3>2, <3>3
  <2>2. QED
    BY <1>3, <2>1 DEF Passed
<1>12. ASSUME y \notin Q PROVE m + 1 \in 1 .. Len(R) /\ R[m + 1] = y /\ Passed(R, m + 1, f)
  <2>1. PICK i \in 1 .. Len(R) : R[i] = y
    BY <1>1, <1>12
  <2>2. ~(i <= m)
    <3>1. ASSUME i <= m PROVE FALSE
      <4>1. y < e
        BY <1>3, <2>1, <3>1
      <4>2. QED
        BY ONLY <1>9, <1>14, <4>1
    <3>2. QED
      BY <3>1
  <2>3. m + 1 \in 1 .. Len(R) /\ m + 1 <= i
    BY <1>1, <1>3, <2>2
  <2>4. R[m + 1] = y
    <3>1. m + 1 = i \/ m + 1 < i
      BY <2>3
    <3>2. R[m + 1] \in Nat
      BY <1>1, <2>3
    <3>3. R[m + 1] <= y
      <4>1. R[m + 1] = R[i] \/ R[m + 1] < R[i]
        BY <1>2, <2>3, <3>1
      <4>2. QED
        BY ONLY <1>14, <2>1, <3>2, <4>1
    <3>4. ~(R[m + 1] < e)
      BY <1>3, <2>3
    <3>5. R[m + 1] < f
      BY ONLY <1>9, <1>14, <3>2, <3>3
    <3>6. QED
      BY <1>10, <2>3, <3>4, <3>5
  <2>5. ASSUME NEW j \in 1 .. Len(R) PROVE j <= m + 1 <=> R[j] < f
    <3>1. R[j] \in Nat
      BY <1>1
    <3>2. CASE j <= m
      BY <1>3, <1>7, <1>9, <3>1, <3>2
    <3>3. CASE j = m + 1
      BY <1>9, <2>4, <3>3
    <3>4. CASE j > m + 1
      <4>1. R[m + 1] < R[j]
        BY <1>2, <2>3, <3>4
      <4>2. R[j] # y
        BY <1>6, <2>4, <3>1, <4>1
      <4>3. ~(R[j] < e)
        BY <1>3, <3>4
      <4>4. ~(R[j] < f)
        BY <1>10, <4>2, <4>3
      <4>5. QED
        BY <1>3, <3>4, <4>4
    <3>5. QED
      BY <1>3, <3>2, <3>3, <3>4
  <2>6. m + 1 \in 0 .. Len(R)
    BY <2>3
  <2>7. QED
    BY <2>3, <2>4, <2>5, <2>6 DEF Passed
<1>13. QED
  BY <1>7, <1>11, <1>12 DEF f, p, y

\* When a level has no more elements, all that it requires is passed.
LEMMA AllPassed ==
  ASSUME NEW half \in Nat \ {0}, NEW Q \in SUBSET (0 .. 2 * half - 1), NEW R, Requires(R, half, Q),
         NEW e \in Nat, e % 2 = 0, From(Q, e) = {}, NEW m, Passed(R, m, e)
  PROVE  m = Len(R)
<1>1. Len(R) \in Nat /\ \A j \in 1 .. Len(R) : R[j] \in Nat /\ \E z \in Q : R[j] \div 2 = z \div 2
  <2>1. /\ Len(R) \in Nat /\ \A j \in 1 .. Len(R) : R[j] \in Nat /\ R[j] \notin Q /\ \E z \in Q : R[j] \div 2 = z \div 2
        /\ \A x \in Q : Mate(x) \notin Q => \E j \in 1 .. Len(R) : R[j] = Mate(x)
    BY RequiredMates, Zenon
  <2>2. QED
    BY ONLY <2>1
<1>2. m \in 0 .. Len(R) /\ \A j \in 1 .. Len(R) : j <= m <=> R[j] < e
  BY DEF Passed
<1>3. SUFFICES ASSUME m < Len(R) PROVE FALSE
  BY <1>1, <1>2
<1> DEFINE j == Len(R)
<1>4. j \in 1 .. Len(R) /\ ~(j <= m)
  BY <1>1, <1>2, <1>3
<1>5. PICK z \in Q : R[j] \div 2 = z \div 2
  BY <1>1, <1>4
<1>6. z \in Nat /\ z < e
  BY DEF From
<1>7. R[j] \in Nat
  BY <1>1, <1>4
<1>8. R[j] < e
  BY <1>5, <1>6, <1>7, SameSide
<1>9. QED
  BY <1>2, <1>4, <1>8

\* The parents that are left are the elements of the next level.
LEMMA WalkUp ==
  ASSUME NEW half \in Nat \ {0}, NEW Q \in SUBSET (0 .. 2 * half - 1), Q # {},
         NEW e \in Nat, NEW q, Walk(q, 0, half, Q, e)
  PROVE  /\ From(Q, e) = {} /\ Len(q) \in Nat /\ Len(q) >= 1
         /\ \A h \in Nat : half = 2 * h => Walk(q, Len(q), h, Parents(Q), 0)
         /\ half = 1 => q = <<1>>
<1> DEFINE L == Len(q)
<1>1. /\ q \in Seq(Nat)
      /\ {q[n] : n \in 1 .. 0} = {x + 2 * half : x \in From(Q, e)}
      /\ {q[n] : n \in 0 + 1 .. L} = {p + half : p \in Parents(Before(Q, e))}
      /\ \A m, n \in 0 + 1 .. L : m < n => q[m] < q[n]
  BY DEF Walk, Listed
<1>2. L \in Nat /\ q = [i \in 1 .. L |-> q[i]] /\ \A i \in 1 .. L : q[i] \in Nat
  BY ONLY <1>1
<1>3. From(Q, e) = {}
  <2>1. {q[n] : n \in 1 .. 0} = {}
    OBVIOUS
  <2>2. QED
    BY <1>1, <2>1
<1>4. Before(Q, e) = Q
  <2>1. \A x \in Q : ~(x >= e) /\ x \in Nat
    BY <1>3 DEF From
  <2>2. \A x \in Q : x < e
    BY <2>1
  <2>3. QED
    BY <2>2 DEF Before
<1> HIDE DEF L
<1>5. {q[n] : n \in 1 .. L} = {p + half : p \in Parents(Q)} /\ \A m, n \in 1 .. L : m < n => q[m] < q[n]
  <2>1. 0 + 1 = 1
    OBVIOUS
  <2>2. QED
    BY ONLY <1>1, <1>4, <2>1
<1>6. L >= 1
  <2>1. PICK x \in Q : TRUE
    OBVIOUS
  <2>2. x \div 2 \in Parents(Q)
    BY DEF Parents
  <2>3. \E n \in 1 .. L : q[n] = (x \div 2) + half
    BY <1>5, <2>2
  <2>4. QED
    BY <1>2, <2>3
<1>7. ASSUME NEW h \in Nat, half = 2 * h PROVE Walk(q, L, h, Parents(Q), 0)
  <2>1. \A p \in Parents(Q) : p \in Nat
    <3>1. \A x \in Q : x \div 2 \in Nat
      BY Evens
    <3>2. QED
      BY <3>1 DEF Parents
  <2>2. From(Parents(Q), 0) = Parents(Q) /\ Before(Parents(Q), 0) = {}
    BY <2>1 DEF From, Before
  <2>3. Listed(q, 1, L, {p + 2 * h : p \in From(Parents(Q), 0)})
    BY <1>5, <1>7, <2>2 DEF Listed
  <2>4. L + 1 .. L = {}
    BY <1>2
  <2>5. Listed(q, L + 1, L, {p + h : p \in Parents(Before(Parents(Q), 0))})
    BY <2>2, <2>4 DEF Listed, Parents
  <2>6. L \in 0 .. L
    BY <1>2
  <2>7. QED
    BY <1>1, <2>3, <2>5, <2>6 DEF Walk, L
<1>8. ASSUME half = 1 PROVE q = <<1>>
  <2>1. Parents(Q) = {0}
    <3>1. \A x \in Q : x \div 2 = 0
      BY <1>8
    <3>2. QED
      BY <3>1 DEF Parents
  <2>2. \A n \in 1 .. L : q[n] = 1
    BY <1>5, <1>8, <2>1
  <2>3. L = 1
    <3>1. ASSUME L >= 2 PROVE FALSE
      <4>1. 1 \in 1 .. L /\ 2 \in 1 .. L
        BY <1>2, <3>1
      <4>2. q[1] < q[2]
        BY <1>5, <4>1
      <4>3. QED
        BY <2>2, <4>1, <4>2
    <3>2. QED
      BY <1>2, <1>6, <3>1
  <2>4. QED
    BY <1>2, <2>2, <2>3
<1>9. QED
  BY <1>2, <1>3, <1>6, <1>7, <1>8 DEF L

\* The queue of GenerateDecommitment starts at the first element of a level.
LEMMA WalkStart ==
  ASSUME NEW half \in Nat \ {0}, NEW Q \in SUBSET (0 .. 2 * half - 1), Q # {}
  PROVE  LET q == InOrder({x + 2 * half : x \in Q}) IN
         Walk(q, Len(q), half, Q, 0) /\ Len(q) \in Nat /\ Len(q) >= 1
<1> DEFINE d == 2 * half
           S == {x + d : x \in Q}
           b == 2 * d
           q == InOrder(S)
           L == Len(q)
<1>1. b \in Nat /\ S \in SUBSET (0 .. b - 1) /\ S \in SUBSET Nat
  OBVIOUS
<1>2. q \in Seq(S) /\ SetOf(q) = S /\ \A i, j \in 1 .. L : i < j => q[i] < q[j]
  <2> HIDE DEF S, b
  <2>1. QED
    BY <1>1, InOrderLists
<1> HIDE DEF q
<1>3. q \in Seq(Nat) /\ L \in Nat /\ DOMAIN q = 1 .. L
  <2>1. q \in Seq(S) /\ S \in SUBSET Nat
    BY <1>1, <1>2
  <2> HIDE DEF S
  <2>2. DOMAIN q = 1 .. Len(q) /\ Len(q) \in Nat /\ \A i \in 1 .. Len(q) : q[i] \in S
    BY ONLY <2>1
  <2>3. q \in Seq(Nat)
    <3>1. \A i \in 1 .. Len(q) : q[i] \in Nat
      BY ONLY <2>1, <2>2
    <3>2. q = [i \in 1 .. Len(q) |-> q[i]]
      BY ONLY <2>1
    <3>3. QED
      BY ONLY <2>2, <3>1, <3>2
  <2>4. QED
    BY <2>2, <2>3
<1>4. {q[n] : n \in 1 .. L} = S
  BY <1>2, <1>3 DEF SetOf
<1>5. From(Q, 0) = Q /\ Before(Q, 0) = {}
  <2>1. \A x \in Q : x >= 0 /\ ~(x < 0)
    OBVIOUS
  <2>2. QED
    BY <2>1 DEF From, Before
<1> HIDE DEF L
<1>6. Listed(q, 1, L, {x + 2 * half : x \in From(Q, 0)})
  BY <1>2, <1>4, <1>5 DEF Listed
<1>7. L + 1 .. L = {} /\ L \in 0 .. L
  BY <1>3
<1>8. Listed(q, L + 1, L, {p + half : p \in Parents(Before(Q, 0))})
  BY <1>5, <1>7 DEF Listed, Parents
<1>9. L >= 1
  <2>1. PICK x \in Q : TRUE
    OBVIOUS
  <2>2. \E n \in 1 .. L : q[n] = x + d
    BY <1>4
  <2>3. QED
    BY <1>3, <2>2
<1>10. QED
  BY <1>3, <1>6, <1>7, <1>8, <1>9 DEF Walk, q, L

-----------------------------------------------------------------------------
\* What is written follows from the queries.
LEMMA SameNames ==
  ASSUME UNCHANGED <<config, layers, rows, integrity>>
  PROVE  /\ Start' = Start /\ Count' = Count /\ CellNames' = CellNames /\ Root' = Root /\ TreeLevel' = TreeLevel
         /\ \A i : NameAt(i)' = NameAt(i)
         /\ \A name : RightOf(name)' = RightOf(name)
         /\ \A n : Written(n)' = Written(n)
<1>1. config' = config /\ rows' = rows /\ integrity' = integrity
  OBVIOUS
<1>2. Height' = Height /\ \A k : DepthAt(k)' = DepthAt(k)
  BY SameStack
<1>3. \A k : QueriesAt(k)' = QueriesAt(k) /\ RequiredAt(k)' = RequiredAt(k)
  BY SameQueries
<1>4. CellNames' = CellNames
  BY <1>1 DEF CellNames, Transmitted, CellsByRow, Cell
<1>5. Start' = Start
  BY <1>2, <1>3, <1>4 DEF Start
<1>6. Count' = Count /\ Root' = Root /\ TreeLevel' = TreeLevel
  BY <1>1, <1>2, <1>5 DEF Count, Root, TreeLevel
<1>7. \A i : LevelOf(i)' = LevelOf(i)
  BY <1>2, <1>5 DEF LevelOf
<1>8. \A i : NameAt(i)' = NameAt(i)
  BY <1>2, <1>3, <1>4, <1>5, <1>7 DEF NameAt, Element
<1>9. \A name : RightOf(name)' = RightOf(name)
  BY <1>2 DEF RightOf
<1>10. \A n : Written(n)' = Written(n)
  BY <1>8, <1>9 DEF Written
<1>11. QED
  BY <1>4, <1>5, <1>6, <1>8, <1>9, <1>10

\* The messages of a level after those before it.
LEMMA WrittenMore ==
  ASSUME Queried, NEW k \in 0 .. Height, NEW m \in Nat, NEW n \in Nat, m + n <= Len(RequiredAt(k)),
         NEW s, s = [j \in 1 .. n |-> Sent(Element(DepthAt(k), RequiredAt(k)[m + j]), <<DepthAt(k), RequiredAt(k)[m + j]>>)]
  PROVE  Written(Start[k] + m) \o s = Written(Start[k] + m + n)
<1> DEFINE a == Start[k] + m
           w == Written(a)
           v == Written(a + n)
           E == {w[i] : i \in 1 .. a} \cup {s[j] : j \in 1 .. n}
<1>1. Start[k] \in Nat /\ Len(RequiredAt(k)) \in Nat /\ a \in Nat /\ a + n \in Nat
  <2>1. k \in 0 .. Height + 1
    BY ConfigTypes DEF Queried
  <2>2. QED
    BY <2>1, StartValues, RequiredList
<1>2. w = [i \in 1 .. a |-> Sent(NameAt(i), RightOf(NameAt(i)))] /\ v = [i \in 1 .. a + n |-> Sent(NameAt(i), RightOf(NameAt(i)))]
  BY DEF Written
<1>3. \A j \in 1 .. n : s[j] = Sent(NameAt(a + j), RightOf(NameAt(a + j)))
  <2> SUFFICES ASSUME NEW j \in 1 .. n PROVE s[j] = Sent(NameAt(a + j), RightOf(NameAt(a + j)))
    OBVIOUS
  <2> DEFINE i == m + j
  <2>1. i \in 1 .. Len(RequiredAt(k)) /\ a + j = Start[k] + i
    BY <1>1
  <2> HIDE DEF i
  <2>2. /\ NameAt(Start[k] + i) = Element(DepthAt(k), RequiredAt(k)[i])
        /\ RightOf(NameAt(Start[k] + i)) = <<DepthAt(k), RequiredAt(k)[i]>>
    BY <2>1, NamesOfLevel
  <2>3. s[j] = Sent(Element(DepthAt(k), RequiredAt(k)[i]), <<DepthAt(k), RequiredAt(k)[i]>>)
    BY DEF i
  <2>4. QED
    BY ONLY <2>1, <2>2, <2>3
<1> HIDE DEF w, v, a
<1>4. w \in Seq(E) /\ s \in Seq(E) /\ Len(w) = a /\ Len(s) = n
  <2>1. \A i \in 1 .. a : w[i] \in E
    OBVIOUS
  <2>2. \A j \in 1 .. n : s[j] \in E
    OBVIOUS
  <2> HIDE DEF E
  <2>3. w = [i \in 1 .. a |-> w[i]] /\ s = [j \in 1 .. n |-> s[j]]
    BY <1>2
  <2>4. w \in Seq(E) /\ Len(w) = a
    <3>1. a \in Nat
      BY <1>1
    <3>2. QED
      BY ONLY <2>1, <2>3, <3>1
  <2>5. n \in Nat
    OBVIOUS
  <2>6. s \in Seq(E) /\ Len(s) = n
    BY ONLY <2>2, <2>3, <2>5
  <2>7. QED
    BY <2>4, <2>6
<1> HIDE DEF E
<1>5. /\ w \o s \in Seq(E) /\ Len(w \o s) = a + n
      /\ \A i \in 1 .. a : (w \o s)[i] = w[i]
      /\ \A j \in 1 .. n : (w \o s)[a + j] = s[j]
  <2>0. w \in Seq(E) /\ s \in Seq(E)
    BY <1>4
  <2>1. /\ w \o s \in Seq(E) /\ Len(w \o s) = Len(w) + Len(s)
        /\ \A i \in 1 .. Len(w) : (w \o s)[i] = w[i]
        /\ \A j \in 1 .. Len(s) : (w \o s)[Len(w) + j] = s[j]
    BY ONLY <2>0, Appended
  <2>2. QED
    BY <1>4, <2>1
<1>6. \A i \in 1 .. a + n : (w \o s)[i] = v[i]
  <2> SUFFICES ASSUME NEW i \in 1 .. a + n PROVE (w \o s)[i] = v[i]
    OBVIOUS
  <2>1. CASE i \in 1 .. a
    BY <1>2, <1>5, <2>1
  <2>2. CASE i \notin 1 .. a
    <3>1. i - a \in 1 .. n /\ a + (i - a) = i
      BY <1>1, <2>2
    <3>2. (w \o s)[i] = s[i - a] /\ s[i - a] = Sent(NameAt(i), RightOf(NameAt(i)))
      BY <1>3, <1>5, <3>1
    <3>3. QED
      BY <1>2, <3>2
  <2>3. QED
    BY <2>1, <2>2
<1>7. w \o s = [i \in 1 .. a + n |-> (w \o s)[i]]
  <2> DEFINE u == w \o s
  <2> HIDE DEF u
  <2>1. u \in Seq(E) /\ Len(u) = a + n
    BY <1>5 DEF u
  <2>2. u = [i \in 1 .. a + n |-> u[i]]
    BY ONLY <2>1
  <2>3. QED
    BY <2>2 DEF u
<1>8. v = [i \in 1 .. a + n |-> v[i]]
  BY ONLY <1>2
<1>9. w \o s = v
  BY ONLY <1>6, <1>7, <1>8
<1>10. QED
  BY <1>9 DEF w, v, a

\* A whole level after those before it.
LEMMA WrittenLevel ==
  ASSUME Queried, NEW k \in 0 .. Height, NEW s,
         s = [j \in 1 .. Len(RequiredAt(k)) |-> Sent(Element(DepthAt(k), RequiredAt(k)[j]), <<DepthAt(k), RequiredAt(k)[j]>>)]
  PROVE  Written(Start[k]) \o s = Written(Start[k + 1])
<1> DEFINE n == Len(RequiredAt(k))
<1>1. n \in Nat /\ Start[k] \in Nat /\ Start[k + 1] = Start[k] + n
  <2>1. k \in 0 .. Height + 1
    BY ConfigTypes DEF Queried
  <2>2. QED
    BY <2>1, StartValues, RequiredList
<1>2. s = [j \in 1 .. n |-> Sent(Element(DepthAt(k), RequiredAt(k)[0 + j]), <<DepthAt(k), RequiredAt(k)[0 + j]>>)]
  <2>1. \A j \in 1 .. n : 0 + j = j
    OBVIOUS
  <2>2. QED
    BY <2>1
<1> HIDE DEF n
<1>3. 0 + n <= Len(RequiredAt(k)) /\ 0 \in Nat
  BY <1>1 DEF n
<1>4. Written(Start[k] + 0) \o s = Written(Start[k] + 0 + n)
  BY <1>1, <1>2, <1>3, WrittenMore
<1>5. Start[k] + 0 = Start[k] /\ Start[k] + 0 + n = Start[k + 1]
  BY <1>1
<1>6. QED
  BY <1>4, <1>5

-----------------------------------------------------------------------------
\* What the prover's layers send.

\* After the query phase there are rows.
LEMMA QueriedPhases ==
  ASSUME LayersInv, phase \notin {"add", "query"}
  PROVE  Queried
  BY DEF LayersInv, Stacked, Chosen, Queried

\* The table sends the cells.
LEMMA TableSends ==
  ASSUME LayersInv, TableDecommit
  PROVE  Sending'
<1>1. ~HasDuplicates(passed) /\ LayersInv'
  BY TableDecommitStep
<1> DEFINE cells == Transmitted(CellsByRow(rows))
<1>2. /\ phase = "return" /\ UNCHANGED <<config, layers, rows, integrity>> /\ at' = 1
      /\ proof' = [k \in DOMAIN cells |-> Sent(cells[k], Node(layers[1], cells[k][2]))]
  BY <1>1 DEF TableDecommit, prover
<1>3. Queried
  BY <1>2, QueriedPhases
<1>4. layers[1].depth = Height + 1 /\ Level(layers[1]) = 0
  <2>1. layers[1] = Rows(config) /\ Level(layers[1]) = 0
    BY StackFacts DEF LayersInv, Stacked
  <2>2. QED
    BY <2>1 DEF Rows, Packaging, Height
<1>5. Start[0] = Len(CellNames) /\ Len(CellNames) \in Nat /\ CellNames = [j \in 1 .. Len(CellNames) |-> CellNames[j]]
  BY <1>3, StartValues, CellsOfRows DEF Queried
<1>6. cells = CellNames
  BY DEF CellNames
<1> HIDE DEF cells
<1>7. proof' = [k \in 1 .. Start[0] |-> Sent(CellNames[k], <<Height + 1, CellNames[k][2]>>)]
  BY <1>2, <1>4, <1>5, <1>6 DEF Node
<1>8. \A k \in 1 .. Start[0] : CellNames[k] = NameAt(k) /\ RightOf(NameAt(k)) = <<Height + 1, NameAt(k)[2]>>
  BY <1>3, NamesOfLevel
<1>9. proof' = Written(Start[0])
  BY <1>7, <1>8 DEF Written
<1>10. Start' = Start /\ \A n : Written(n)' = Written(n)
  BY <1>2, SameNames
<1>11. Level(layers[at])' = 0
  <2>1. \A l : Level(l)' = Level(l)
    BY <1>2, SameStack
  <2>2. QED
    BY <1>2, <1>4, <2>1
<1>12. QED
  BY <1>9, <1>10, <1>11 DEF Sending

\* A packaging layer sends a level.
LEMMA PackagingSends ==
  ASSUME LayersInv, Sending, PackagingDecommit
  PROVE  Sending'
<1> DEFINE l == layers[at]
           k == Level(l)
           m == Len(missing[at])
           s == [j \in 1 .. m |-> Sent(Element(l.depth, missing[at][j]), passed[j])]
<1>1. phase = "decommit" /\ l.kind = "packaging"
  BY DEF PackagingDecommit
<1>2. PICK ask : Asks(ask, 1) /\ passed = RightList(at, ask[at])
  BY <1>1 DEF LayersInv, Asking
<1>3. /\ at \in 1 .. Innermost - 1 /\ at + 1 \in 1 .. Innermost
      /\ missing[at] = RequiredAt(k) /\ m \in Nat
      /\ Len(passed) = m + n_missing_inner[at]
      /\ \A j \in 1 .. m : passed[j] = Node(l, missing[at][j])
  BY <1>1, <1>2, PackagingHands
<1>4. proof' = proof \o s /\ at' = at + 1 /\ UNCHANGED <<config, layers, rows, integrity>>
  BY <1>3 DEF PackagingDecommit, prover
<1>5. /\ k \in 0 .. Height /\ DepthAt(k) = l.depth /\ Level(layers[at + 1]) = k + 1
  <2>1. Stacked /\ at \in 1 .. Innermost
    BY <1>1 DEF LayersInv, Asking
  <2>2. QED
    BY <1>1, <1>3, <2>1, StackFacts
<1>6. Queried /\ proof = Written(Start[k])
  BY <1>1, QueriedPhases DEF Sending
<1>7. s = [j \in 1 .. Len(RequiredAt(k)) |-> Sent(Element(DepthAt(k), RequiredAt(k)[j]), <<DepthAt(k), RequiredAt(k)[j]>>)]
  BY <1>3, <1>5 DEF Node
<1> HIDE DEF s, k, l
<1>8. proof' = Written(Start[k + 1])
  BY <1>4, <1>5, <1>6, <1>7, WrittenLevel
<1>9. Start' = Start /\ \A n : Written(n)' = Written(n)
  BY <1>4, SameNames
<1>10. Level(layers[at])' = k + 1
  <2>1. \A x : Level(x)' = Level(x)
    BY <1>4, SameStack
  <2>2. QED
    BY <1>4, <1>5, <2>1
<1>11. QED
  BY <1>8, <1>9, <1>10 DEF Sending

\* A caching layer sends nothing.
LEMMA CachingSends ==
  ASSUME LayersInv, Sending, CachingDecommit
  PROVE  Sending'
<1>1. /\ phase = "decommit" /\ layers[at].kind = "caching" /\ LayersInv'
  BY CachingDecommitStep DEF CachingDecommit
<1>2. phase' # "aborted"
  BY <1>1 DEF LayersInv
<1>3. proof' = proof /\ at' = at + 1 /\ UNCHANGED <<config, layers, rows, integrity>>
  BY <1>2 DEF CachingDecommit, prover, Abort
<1>4. Level(layers[at + 1]) = Level(layers[at])
  <2>1. Stacked /\ at \in 1 .. Innermost
    BY <1>1 DEF LayersInv, Asking
  <2>2. /\ layers[at].kind = "merkle" <=> at = Innermost
        /\ Level(layers[at]) \in 0 .. Height + 1 /\ Innermost \in Nat
    BY <2>1, StackFacts
  <2>3. at \in 1 .. Innermost - 1
    BY <1>1, <2>1, <2>2
  <2>4. Level(layers[at + 1]) = Level(layers[at]) + 0
    BY <1>1, <2>1, <2>3, StackFacts
  <2>5. QED
    BY <2>2, <2>4
<1>5. Start' = Start /\ \A n : Written(n)' = Written(n)
  BY <1>3, SameNames
<1>6. Level(layers[at])' = Level(layers[at])
  <2>1. \A x : Level(x)' = Level(x)
    BY <1>3, SameStack
  <2>2. QED
    BY <1>3, <1>4, <2>1
<1>7. proof = Written(Start[Level(layers[at])])
  BY <1>1 DEF Sending
<1>8. QED
  BY <1>3, <1>5, <1>6, <1>7 DEF Sending

-----------------------------------------------------------------------------
\* The tree.

\* A level of the tree has twice the elements of the next.
LEMMA LevelHalves ==
  ASSUME Queried, NEW k \in 1 .. Height
  PROVE  LET half == Pow2[DepthAt(k) - 1] IN
         /\ half \in Nat \ {0} /\ Width(k) = 2 * half /\ Pow2[DepthAt(k)] = 2 * half
         /\ DepthAt(k) \in 1 .. Height /\ k + 1 \in 1 .. Height + 1 /\ DepthAt(k) - 1 = DepthAt(k + 1)
         /\ QueriesAt(k) \in SUBSET (0 .. 2 * half - 1) /\ QueriesAt(k) # {}
         /\ QueriesAt(k + 1) = Parents(QueriesAt(k))
         /\ Requires(RequiredAt(k), half, QueriesAt(k))
         /\ k + 1 \in 1 .. Height => half = 2 * Pow2[DepthAt(k + 1) - 1]
         /\ k = Height => half = 1
<1> DEFINE d == DepthAt(k)
           half == Pow2[d - 1]
           Q == QueriesAt(k)
           R == RequiredAt(k)
<1>1. Height \in Nat /\ k \in Nat /\ k \in 0 .. Height /\ k \in 0 .. Height + 1
  BY ConfigTypes DEF Queried
<1>2. /\ d = Height + 1 - k /\ d \in 1 .. Height /\ d - 1 \in Nat /\ (d - 1) + 1 = d /\ d - 1 = DepthAt(k + 1)
      /\ k + 1 \in 1 .. Height + 1
  BY <1>1 DEF DepthAt
<1> HIDE DEF d
<1>3. half \in Nat \ {0} /\ Pow2[d] = 2 * half
  <2>1. half \in Nat /\ half >= 1 /\ Pow2[(d - 1) + 1] = 2 * half
    BY <1>2, Pow2Values
  <2> HIDE DEF half
  <2>2. QED
    BY <1>2, <2>1
<1>4. Width(k) = Pow2[d] /\ Per(k) = 2
  BY <1>1 DEF Width, Per, d
<1> HIDE DEF half
<1>5. Width(k) = 2 * half
  BY <1>3, <1>4
<1>6. Q \subseteq 0 .. Width(k) - 1 /\ Q # {} /\ QueriesAt(k + 1) = {i \div Per(k) : i \in Q}
  BY <1>1, LevelQueries DEF Queried
<1>7. QueriesAt(k + 1) = Parents(Q)
  BY <1>4, <1>6 DEF Parents
<1>8. Requires(R, half, Q)
  <2>1. /\ R \in Seq(0 .. Width(k) - 1)
        /\ \A i, j \in 1 .. Len(R) : i < j => R[i] < R[j]
        /\ SetOf(R) = {i \in 0 .. Width(k) - 1 : i \div Per(k) \in QueriesAt(k + 1)} \ Q
    BY <1>1, RequiredList
  <2> HIDE DEF Q, R
  <2>2. QED
    BY <1>4, <1>5, <1>7, <2>1 DEF Requires
<1>9. ASSUME k + 1 \in 1 .. Height PROVE half = 2 * Pow2[DepthAt(k + 1) - 1]
  <2>1. DepthAt(k + 1) - 1 \in Nat /\ (DepthAt(k + 1) - 1) + 1 = d - 1
    BY <1>1, <1>2, <1>9
  <2>2. Pow2[(DepthAt(k + 1) - 1) + 1] = 2 * Pow2[DepthAt(k + 1) - 1]
    BY <2>1, Pow2Values
  <2>3. QED
    BY <2>1, <2>2 DEF half
<1>10. ASSUME k = Height PROVE half = 1
  <2>1. d - 1 = 0
    BY <1>1, <1>2, <1>10
  <2>2. QED
    BY <2>1, Pow2Values DEF half
<1>11. QED
  BY <1>2, <1>3, <1>5, <1>6, <1>7, <1>8, <1>9, <1>10 DEF d, half, Q, R

\* The levels of the tree.
LEMMA TreeLevels ==
  ASSUME Queried
  PROVE  /\ Height \in Nat /\ TreeLevel \in 1 .. Height + 1 /\ DepthAt(TreeLevel) = config.log_segments
         /\ TreeLevel = Height + 1 - config.log_segments
         /\ \A k \in TreeLevel .. Height : k \in 1 .. Height /\ DepthAt(k) \in 1 .. config.log_segments
<1>1. Height \in Nat /\ config.log_segments \in 0 .. Height
  BY ConfigTypes DEF Queried
<1>2. QED
  BY <1>1 DEF TreeLevel, Root, DepthAt

\* The node of an element, in the order of the tree.
LEMMA NodeDepth ==
  ASSUME config \in Configurations, NEW d \in 0 .. Height, NEW i \in 0 .. Pow2[d] - 1
  PROVE  Depth(i + Pow2[d]) = d
<1> DEFINE n == i + Pow2[d]
<1>1. Height \in Nat /\ config.height = Height /\ d \in Nat
  BY ConfigTypes
<1>2. Pow2[d] \in Nat /\ Pow2[d + 1] = 2 * Pow2[d] /\ n \in Nat
  <2>1. Pow2[d] \in Nat /\ Pow2[d + 1] = 2 * Pow2[d]
    BY <1>1, Pow2Values
  <2>2. QED
    BY <2>1
<1>3. Pow2[d] <= n /\ n < Pow2[d + 1]
  BY <1>2
<1> HIDE DEF n
<1>4. ASSUME NEW e \in 0 .. Height, Pow2[e] <= n, n < Pow2[e + 1] PROVE e = d
  <2>1. e \in Nat /\ Pow2[e] \in Nat /\ Pow2[e + 1] = 2 * Pow2[e]
    BY <1>1, Pow2Values
  <2>2. ~(e < d)
    <3>1. ASSUME e < d PROVE FALSE
      <4>1. 2 * Pow2[e] <= Pow2[d]
        BY <1>1, <2>1, <3>1, Pow2Grows
      <4>2. QED
        BY <1>2, <1>3, <1>4, <2>1, <4>1
    <3>2. QED
      BY <3>1
  <2>3. ~(d < e)
    <3>1. ASSUME d < e PROVE FALSE
      <4>1. 2 * Pow2[d] <= Pow2[e]
        BY <1>1, <2>1, <3>1, Pow2Grows
      <4>2. QED
        BY <1>2, <1>3, <1>4, <2>1, <4>1
    <3>2. QED
      BY <3>1
  <2>4. QED
    BY <1>1, <2>1, <2>2, <2>3
<1>5. Depth(n) \in 0 .. Height /\ Pow2[Depth(n)] <= n /\ n < Pow2[Depth(n) + 1]
  BY <1>1, <1>3 DEF Depth
<1>6. QED
  BY <1>4, <1>5 DEF n

\* Once all segments are added, the nodes of the tree have their right values.
LEMMA TreeRight ==
  ASSUME LayersInv, phase # "add", NEW d \in 0 .. config.log_segments, NEW i \in 0 .. Pow2[d] - 1
  PROVE  Depth(i + Pow2[d]) = d /\ TreeValue(i + Pow2[d]) = <<d, i>>
<1> USE DEF LayersInv
<1> DEFINE s == config.log_segments
           l == layers[Innermost]
<1>1. /\ config \in Configurations /\ BuilderAsserts(config) /\ s \in 0 .. Height /\ Height \in Nat /\ config.height = Height
      /\ config.friendly \in Nat /\ s \in Nat
  BY ConfigTypes DEF Stacked
<1>2. d \in 0 .. Height /\ d \in Nat /\ Pow2[d] \in Nat
  <2>1. d \in 0 .. Height /\ d \in Nat
    BY <1>1
  <2>2. QED
    BY <2>1, Pow2Values
<1>3. Depth(i + Pow2[d]) = d
  BY <1>1, <1>2, NodeDepth
<1>4. l.depth = s /\ l.kind = "merkle" /\ l.top = (config.friendly > 0) /\ Innermost \in 1 .. Innermost
  <2>1. Innermost \in Nat /\ Innermost >= 2
    BY StackFacts
  <2>2. l = Merkle(s, config.friendly > 0)
    BY DEF Stacked
  <2>3. QED
    BY <2>1, <2>2 DEF Merkle
<1>5. \A depth \in 1 .. s : Friendly(config, depth) = l.top
  <2> SUFFICES ASSUME NEW depth \in 1 .. s PROVE depth <= config.friendly <=> config.friendly > 0
    BY <1>4 DEF Friendly
  <2>1. CASE config.friendly = 0
    BY <1>1, <2>1
  <2>2. CASE config.friendly > 0
    <3>1. config.friendly >= s
      BY <1>1, <2>2 DEF BuilderAsserts
    <3>2. QED
      BY <1>1, <2>2, <3>1
  <2>3. QED
    BY <1>1, <2>1, <2>2
<1>6. \A j \in DOMAIN stored[Innermost] : stored[Innermost][j] = Node(l, j)
  <2>1. /\ added = Segments
        /\ stored[Innermost] = [j \in 0 .. Pow2[s] - 1 |-> stored[Innermost][j]]
        /\ \A j \in 0 .. Pow2[s] - 1 : SegmentOf(l, j) \in added => stored[Innermost][j] = Node(l, j)
    BY <1>4 DEF Filled
  <2>2. Pow2[s] \in Nat /\ s - s = 0 /\ Pow2[0] = 1
    BY <1>1, Pow2Values
  <2>3. \A j \in 0 .. Pow2[s] - 1 : SegmentOf(l, j) = j
    <3>1. \A j \in 0 .. Pow2[s] - 1 : j \div 1 = j
      BY <2>2
    <3>2. QED
      BY <1>4, <2>2, <3>1 DEF SegmentOf
  <2>4. Segments = 0 .. Pow2[s] - 1
    BY DEF Segments
  <2>5. DOMAIN stored[Innermost] = 0 .. Pow2[s] - 1
    BY <2>1
  <2> HIDE DEF l
  <2>6. QED
    BY <2>1, <2>3, <2>4, <2>5
<1>7. TreeValue(i + Pow2[d]) = <<Depth(i + Pow2[d]), (i + Pow2[d]) - Pow2[Depth(i + Pow2[d])]>>
  BY <1>5, <1>6 DEF TreeValue, Innermost
<1>8. (i + Pow2[d]) - Pow2[d] = i
  BY <1>2
<1>9. QED
  BY <1>3, <1>7, <1>8

-----------------------------------------------------------------------------
\* The tree's messages.

\* After a turn, the queue is at an element of the level, at the first of the next one,
\* or at the root.
LEMMA TreeNext ==
  ASSUME Queried, NEW k \in TreeLevel .. Height, NEW f \in 0 .. Width(k), f % 2 = 0, NEW q, NEW c, NEW m,
         Walk(q, c, Pow2[DepthAt(k) - 1], QueriesAt(k), f), Passed(RequiredAt(k), m, f),
         NEW sent, sent = Written(Start[k] + m)
  PROVE  Climbs(q, sent)
<1> DEFINE half == Pow2[DepthAt(k) - 1]
           Q == QueriesAt(k)
           R == RequiredAt(k)
<1>1. Height \in Nat /\ k \in 1 .. Height /\ TreeLevel \in 1 .. Height + 1 /\ k >= TreeLevel /\ k <= Height /\ k \in 0 .. Height
  <2>1. Height \in Nat /\ TreeLevel \in 1 .. Height + 1 /\ k \in 1 .. Height
    BY TreeLevels
  <2>2. QED
    BY <2>1
<1>2. /\ half \in Nat \ {0} /\ Width(k) = 2 * half /\ k + 1 \in 1 .. Height + 1 /\ DepthAt(k) - 1 = DepthAt(k + 1)
      /\ Q \in SUBSET (0 .. 2 * half - 1) /\ Q # {} /\ QueriesAt(k + 1) = Parents(Q) /\ Requires(R, half, Q)
      /\ k + 1 \in 1 .. Height => half = 2 * Pow2[DepthAt(k + 1) - 1]
      /\ k = Height => half = 1
  BY <1>1, LevelHalves
<1>3. f \in Nat /\ c \in 0 .. Len(q) /\ m \in 0 .. Len(R) /\ Len(q) \in Nat
  <2>1. q \in Seq(Nat) /\ c \in 0 .. Len(q)
    BY DEF Walk
  <2>2. Len(q) \in Nat
    BY ONLY <2>1
  <2>3. f \in Nat
    BY <1>2
  <2>4. QED
    BY <2>1, <2>2, <2>3 DEF Passed
<1>4. CASE c >= 1
  <2>1. ClimbingAt(q, sent, k, f, c, m)
    BY <1>4 DEF ClimbingAt
  <2>2. QED
    BY <1>3, <2>1 DEF Climbs
<1>5. CASE c = 0
  <2>1. Walk(q, 0, half, Q, f) /\ Passed(R, m, f)
    BY <1>5
  <2> HIDE DEF half, Q, R
  <2>2. /\ From(Q, f) = {} /\ Len(q) >= 1
        /\ \A h \in Nat : half = 2 * h => Walk(q, Len(q), h, Parents(Q), 0)
        /\ half = 1 => q = <<1>>
    BY <1>2, <1>3, <2>1, WalkUp
  <2>3. m = Len(R)
    BY <1>2, <1>3, <2>1, <2>2, AllPassed
  <2>4. sent = Written(Start[k + 1])
    <3>1. Start[k + 1] = Start[k] + Len(RequiredAt(k))
      BY <1>1, StartValues
    <3>2. QED
      BY <2>3, <3>1 DEF R
  <2>5. CASE k = Height
    <3>1. sent = Written(Count) /\ q = <<1>>
      BY <1>2, <2>2, <2>4, <2>5 DEF Count
    <3>2. QED
      BY <3>1 DEF Climbs
  <2>6. CASE k # Height
    <3> DEFINE j == k + 1
               h == Pow2[DepthAt(j) - 1]
    <3>1. j \in 1 .. Height /\ j \in 0 .. Height /\ j \in TreeLevel .. Height
      BY <1>1, <2>6
    <3>2. half = 2 * h /\ h \in Nat /\ Width(j) \in Nat
      <4>1. half = 2 * h
        BY <1>2, <3>1
      <4>2. h \in Nat \ {0} /\ Width(j) = 2 * h
        BY <3>1, LevelHalves
      <4> HIDE DEF h, j
      <4>3. QED
        BY <4>1, <4>2
    <3>3. Walk(q, Len(q), h, QueriesAt(j), 0)
      <4> HIDE DEF h
      <4>1. Walk(q, Len(q), h, Parents(Q), 0)
        BY <2>2, <3>2
      <4>2. QED
        BY <1>2, <4>1
    <3>4. /\ Len(RequiredAt(j)) \in Nat /\ Start[j] \in Nat
          /\ \A i \in 1 .. Len(RequiredAt(j)) : RequiredAt(j)[i] \in Nat
      <4>1. j \in 0 .. Height + 1
        BY <1>1, <3>1
      <4>2. Start[j] \in Nat
        BY <4>1, StartValues
      <4>3. h \in Nat \ {0} /\ QueriesAt(j) \in SUBSET (0 .. 2 * h - 1) /\ Requires(RequiredAt(j), h, QueriesAt(j))
        BY <3>1, LevelHalves
      <4> HIDE DEF h, j
      <4>4. /\ Len(RequiredAt(j)) \in Nat /\ \A i \in 1 .. Len(RequiredAt(j)) :
                 RequiredAt(j)[i] \in Nat /\ RequiredAt(j)[i] \notin QueriesAt(j)
                   /\ \E z \in QueriesAt(j) : RequiredAt(j)[i] \div 2 = z \div 2
            /\ \A x \in QueriesAt(j) : Mate(x) \notin QueriesAt(j) => \E i \in 1 .. Len(RequiredAt(j)) : RequiredAt(j)[i] = Mate(x)
        BY <4>3, RequiredMates, Zenon
      <4>5. QED
        BY <4>2, <4>4
    <3> HIDE DEF j, h
    <3>5. Passed(RequiredAt(j), 0, 0)
      BY <3>4 DEF Passed
    <3>6. sent = Written(Start[j] + 0)
      <4>1. Start[j] + 0 = Start[j]
        BY <3>4
      <4>2. QED
        BY <2>4, <4>1 DEF j
    <3>7. ClimbingAt(q, sent, j, 0, Len(q), 0)
      BY <2>2, <3>3, <3>5, <3>6 DEF ClimbingAt, h
    <3>8. 0 \in 0 .. Width(j) /\ 0 % 2 = 0 /\ Len(q) \in 0 .. Len(q) /\ 0 \in 0 .. Len(RequiredAt(j))
      BY <1>3, <3>2, <3>4
    <3>9. QED
      BY <3>1, <3>7, <3>8 DEF Climbs
  <2>7. QED
    BY <2>5, <2>6
<1>6. QED
  BY <1>3, <1>4, <1>5

-----------------------------------------------------------------------------
\* The steps of the tree.

\* The walk depends on the queue and what was sent alone.
LEMMA SameClimb ==
  ASSUME UNCHANGED <<config, layers, rows, integrity>>
  PROVE  \A q, sent : Climbs(q, sent)' = Climbs(q, sent)
<1>1. Height' = Height /\ TreeLevel' = TreeLevel /\ Count' = Count /\ Start' = Start
  BY SameNames, SameStack
<1>2. /\ \A n : Written(n)' = Written(n)
      /\ \A k : Width(k)' = Width(k) /\ DepthAt(k)' = DepthAt(k)
      /\ \A k : QueriesAt(k)' = QueriesAt(k) /\ RequiredAt(k)' = RequiredAt(k)
  BY SameNames, SameStack, SameQueries
<1>3. \A q, sent, k, e, c, m : ClimbingAt(q, sent, k, e, c, m)' = ClimbingAt(q, sent, k, e, c, m)
  BY <1>1, <1>2 DEF ClimbingAt
<1>4. QED
  BY <1>1, <1>2, <1>3 DEF Climbs

\* The queue is that of the tree's leaves.
LEMMA TreeStarts ==
  ASSUME LayersInv, Sending, MerkleDecommit
  PROVE  Climbing'
<1> DEFINE l == layers[at]
           k == TreeLevel
           Q == QueriesAt(k)
           s == config.log_segments
<1>1. /\ phase = "decommit" /\ l.kind = "merkle" /\ at = Innermost
      /\ queue' = InOrder({q + Pow2[l.depth] : q \in queries_[at]}) /\ proof' = proof
  BY MerkleDecommitStep DEF MerkleDecommit
<1>2. UNCHANGED <<config, layers, rows, integrity>>
  <2>1. LayersInv' /\ phase' = "tree"
    BY MerkleDecommitStep
  <2>2. QED
    BY <2>1 DEF MerkleDecommit, Abort
<1>3. Queried
  BY <1>1, QueriedPhases
<1>4. Height \in Nat /\ k \in 1 .. Height + 1 /\ DepthAt(k) = s /\ k = Height + 1 - s
  BY <1>3, TreeLevels
<1>5. l.depth = s /\ Level(l) = k /\ queries_[at] = Q
  <2>1. l.depth = s
    BY <1>1 DEF LayersInv, Stacked, Merkle
  <2>2. Level(l) = k
    BY <1>4, <2>1 DEF Level
  <2>3. Innermost \in 1 .. Innermost
    <3>1. Innermost \in Nat /\ Innermost >= 2
      BY StackFacts DEF LayersInv
    <3>2. QED
      BY <3>1
  <2>4. Started(at)
    BY <1>1, <2>3 DEF LayersInv, Starting
  <2>5. QED
    BY <2>1, <2>2, <2>4 DEF Started
<1>6. queue' = InOrder({x + Pow2[s] : x \in Q})
  BY <1>1, <1>5
<1>7. proof' = Written(Start[k])
  BY <1>1, <1>5 DEF Sending
<1> DEFINE q == InOrder({x + Pow2[s] : x \in Q})
<1> HIDE DEF k
<1>8. Climbs(q, Written(Start[k]))
  <2>1. CASE k \in 1 .. Height
    <3> DEFINE half == Pow2[DepthAt(k) - 1]
    <3>1. /\ half \in Nat \ {0} /\ Pow2[DepthAt(k)] = 2 * half /\ Width(k) = 2 * half
          /\ Q \in SUBSET (0 .. 2 * half - 1) /\ Q # {} /\ Requires(RequiredAt(k), half, Q)
      BY <1>3, <2>1, LevelHalves
    <3> HIDE DEF half, Q, q
    <3>2. q = InOrder({x + 2 * half : x \in Q})
      BY <1>4, <3>1 DEF q
    <3>3. Walk(q, Len(q), half, Q, 0)
      BY <3>1, <3>2, WalkStart
    <3>4. /\ Len(RequiredAt(k)) \in Nat /\ \A i \in 1 .. Len(RequiredAt(k)) :
               RequiredAt(k)[i] \in Nat /\ RequiredAt(k)[i] \notin Q
                 /\ \E z \in Q : RequiredAt(k)[i] \div 2 = z \div 2
          /\ \A x \in Q : Mate(x) \notin Q => \E i \in 1 .. Len(RequiredAt(k)) : RequiredAt(k)[i] = Mate(x)
      BY <3>1, RequiredMates, Zenon
    <3>5. Passed(RequiredAt(k), 0, 0)
      BY <3>4 DEF Passed
    <3>6. Start[k] = Start[k] + 0
      <4>1. k \in 0 .. Height + 1
        BY <1>4
      <4>2. Start[k] \in Nat
        BY <1>3, <4>1, StartValues
      <4>3. QED
        BY <4>2
    <3>7. k \in TreeLevel .. Height /\ 0 \in 0 .. Width(k) /\ 0 % 2 = 0
      <4>1. Width(k) \in Nat
        BY <3>1
      <4>2. QED
        BY <1>4, <2>1, <4>1 DEF k
    <3>8. Written(Start[k]) = Written(Start[k] + 0)
      BY <3>6
    <3>9. Walk(q, Len(q), Pow2[DepthAt(k) - 1], QueriesAt(k), 0)
      BY <3>3 DEF half, Q
    <3>10. QED
      BY <1>3, <3>5, <3>7, <3>8, <3>9, TreeNext
  <2>2. CASE k = Height + 1
    <3>1. s = 0
      BY <1>4, <2>2 DEF DepthAt
    <3>2. Pow2[s] = 1
      BY <3>1, Pow2Values
    <3>3. Q = {0}
      <4>1. k \in 0 .. Height + 1 /\ config \in Configurations
        BY <1>3, <1>4 DEF Queried
      <4>2. Q \subseteq 0 .. Width(k) - 1 /\ Q # {} /\ Width(k) = 1
        BY <1>3, <2>2, <4>1, LevelQueries, Widths DEF Queried
      <4> HIDE DEF Q
      <4>3. 0 .. Width(k) - 1 = {0}
        BY <4>2
      <4>4. QED
        BY ONLY <4>2, <4>3
    <3>4. {x + Pow2[s] : x \in Q} = {1}
      BY <3>2, <3>3
    <3>5. InOrder({1}) = <<1>>
      <4> DEFINE t == InOrder({1})
      <4>1. {1} \in SUBSET (0 .. 2 - 1) /\ 2 \in Nat
        OBVIOUS
      <4>2. t \in Seq({1}) /\ Len(t) = Cardinality({1})
        BY <4>1, InOrderLists
      <4>3. Cardinality({1}) = 1
        BY FS_Singleton
      <4> HIDE DEF t
      <4>4. Len(t) = 1 /\ t \in Seq({1})
        BY <4>2, <4>3
      <4>5. t = <<1>>
        BY ONLY <4>4
      <4>6. QED
        BY <4>5 DEF t
    <3>6. q = <<1>>
      BY <3>4, <3>5
    <3>7. QED
      BY <2>2, <3>6 DEF Climbs, Count
  <2>3. QED
    BY <1>4, <2>1, <2>2
<1>9. Climbs(queue', proof')
  BY <1>6, <1>7, <1>8
<1>10. QED
  BY <1>2, <1>9, SameClimb DEF Climbing

\* One turn of GenerateDecommitment.
LEMMA TreeTurn ==
  ASSUME LayersInv, Climbing, TreeNode
  PROVE  Climbing'
<1> DEFINE n == Head(queue)
           sibling == IF n % 2 = 0 THEN n + 1 ELSE n - 1
           rest == Append(Tail(queue), n \div 2)
           depth == Depth(n)
           name == Element(depth, sibling - Pow2[depth])
<1>1. /\ phase = "tree" /\ n # 1 /\ UNCHANGED <<config, layers, rows, integrity>>
      /\ \/ Head(rest) = sibling /\ queue' = Tail(rest) /\ proof' = proof
         \/ Head(rest) # sibling /\ queue' = rest /\ proof' = Append(proof, Sent(name, TreeValue(sibling)))
  BY DEF TreeNode, SiblingQueued
<1>2. Queried
  BY <1>1, QueriedPhases
<1>3. ~(queue = <<1>>)
  <2>1. Head(<<1>>) = 1
    OBVIOUS
  <2>2. Head(queue) # 1
    BY <1>1
  <2>3. QED
    BY ONLY <2>1, <2>2
<1>a. PICK k \in TreeLevel .. Height :
        \E e \in 0 .. Width(k) : e % 2 = 0 /\ \E c \in 0 .. Len(queue), m \in 0 .. Len(RequiredAt(k)) : ClimbingAt(queue, proof, k, e, c, m)
  BY <1>1, <1>3 DEF Climbing, Climbs
<1>4. PICK e \in 0 .. Width(k), c \in 0 .. Len(queue), m \in 0 .. Len(RequiredAt(k)) :
        e % 2 = 0 /\ ClimbingAt(queue, proof, k, e, c, m)
  BY <1>a
<1> DEFINE d == DepthAt(k)
           half == Pow2[d - 1]
           Q == QueriesAt(k)
           R == RequiredAt(k)
           x == n - 2 * half
           f == 2 * (x \div 2) + 2
<1>5. /\ half \in Nat \ {0} /\ Width(k) = 2 * half /\ Pow2[d] = 2 * half
      /\ Q \in SUBSET (0 .. 2 * half - 1) /\ Q # {} /\ Requires(R, half, Q)
      /\ d \in 1 .. config.log_segments /\ k \in 1 .. Height
  <2>1. k \in 1 .. Height /\ d \in 1 .. config.log_segments
    BY <1>2, TreeLevels
  <2>2. QED
    BY <1>2, <2>1, LevelHalves
<1>6. /\ c >= 1 /\ Walk(queue, c, half, Q, e) /\ Passed(R, m, e) /\ proof = Written(Start[k] + m)
  BY <1>4 DEF ClimbingAt
<1>7. e \in Nat /\ e % 2 = 0
  <2>1. Width(k) \in Nat
    BY <1>5
  <2>2. QED
    BY <1>4, <2>1
<1> HIDE DEF half, Q, R, d
<1>8. /\ x \in Q /\ x >= e /\ (\A z \in Q : z >= e => z >= x)
      /\ n \in Nat /\ n >= 2 * half /\ sibling = Mate(x) + 2 * half
      /\ Head(rest) = sibling <=> Mate(x) \in Q
      /\ Mate(x) \in Q => c >= 2 /\ Walk(Tail(rest), c - 2, half, Q, f)
      /\ Mate(x) \notin Q => Walk(rest, c - 1, half, Q, f)
  BY <1>5, <1>6, <1>7, WalkTurn
<1> HIDE DEF n, sibling, rest, x, name
<1>9. /\ f \in Nat /\ f % 2 = 0 /\ f <= 2 * half
      /\ Mate(x) \in Q => Passed(R, m, f)
      /\ Mate(x) \notin Q => m + 1 \in 1 .. Len(R) /\ R[m + 1] = Mate(x) /\ Passed(R, m + 1, f)
  BY <1>5, <1>6, <1>7, <1>8, PassedTurn
<1> HIDE DEF f
<1>10. f \in 0 .. Width(k)
  BY <1>5, <1>9
<1>11. ASSUME Mate(x) \in Q PROVE Climbs(queue', proof')
  <2>1. queue' = Tail(rest) /\ proof' = proof
    BY <1>1, <1>8, <1>11
  <2>2. Climbs(Tail(rest), proof)
    <3>1. /\ Walk(Tail(rest), c - 2, Pow2[DepthAt(k) - 1], QueriesAt(k), f)
          /\ Passed(RequiredAt(k), m, f) /\ proof = Written(Start[k] + m)
      BY <1>6, <1>8, <1>9, <1>11 DEF half, Q, R, d
    <3>2. QED
      BY <1>2, <1>9, <1>10, <3>1, TreeNext
  <2>3. QED
    BY <2>1, <2>2
<1>12. ASSUME Mate(x) \notin Q PROVE Climbs(queue', proof')
  <2> DEFINE y == Mate(x)
  <2>1. queue' = rest /\ proof' = Append(proof, Sent(name, TreeValue(sibling)))
    BY <1>1, <1>8, <1>12
  <2>2. /\ x \in 0 .. Pow2[d] - 1 /\ x \in Nat /\ n = x + Pow2[d] /\ sibling = y + Pow2[d] /\ y \in 0 .. Pow2[d] - 1
    <3>1. x \in 0 .. 2 * half - 1 /\ n = x + 2 * half
      BY <1>5, <1>8 DEF x
    <3>2. R[m + 1] \in 0 .. 2 * half - 1
      <4> DEFINE T == 0 .. 2 * half - 1
      <4>1. R \in Seq(T) /\ m + 1 \in 1 .. Len(R)
        BY <1>5, <1>9, <1>12 DEF Requires
      <4> HIDE DEF T
      <4>2. R[m + 1] \in T
        BY ONLY <4>1
      <4>3. QED
        BY <4>2 DEF T
    <3>3. y \in 0 .. 2 * half - 1
      BY <1>9, <1>12, <3>2
    <3>4. x \in Nat
      BY <1>5, <3>1
    <3> HIDE DEF y
    <3>5. QED
      BY <1>5, <1>8, <3>1, <3>3, <3>4 DEF y
  <2>3. depth = d
    <3>1. d \in 0 .. config.log_segments
      BY <1>5
    <3>2. Depth(x + Pow2[d]) = d
      BY <1>1, <2>2, <3>1, TreeRight
    <3>3. QED
      BY <2>2, <3>2
  <2>4. TreeValue(sibling) = <<d, y>>
    <3>1. d \in 0 .. config.log_segments
      BY <1>5
    <3>2. TreeValue(y + Pow2[d]) = <<d, y>>
      BY <1>1, <2>2, <3>1, TreeRight
    <3>3. QED
      BY <2>2, <3>2
  <2>5. name = Element(d, y)
    <3>1. Pow2[d] \in Nat
      BY <1>5
    <3>2. sibling - Pow2[d] = y
      BY <2>2, <3>1
    <3>3. QED
      BY <2>3, <3>2 DEF name
  <2> DEFINE s == <<Sent(Element(d, y), <<d, y>>)>>
  <2>7. Start[k] \in Nat /\ m \in Nat
    <3>1. k \in 0 .. Height + 1
      <4>1. Height \in Nat
        BY <1>2, TreeLevels
      <4>2. QED
        BY <1>5, <4>1
    <3>2. QED
      BY <1>2, <1>9, <1>12, <3>1, StartValues
  <2>6. proof' = Written(Start[k] + m) \o s
    <3>1. proof' = Append(Written(Start[k] + m), Sent(Element(d, y), <<d, y>>))
      BY <1>6, <2>1, <2>4, <2>5
    <3>2. ASSUME NEW a \in Nat, NEW v PROVE Append(Written(a), v) = Written(a) \o <<v>>
      <4> DEFINE w == Written(a)
                 E == {w[i] : i \in 1 .. a} \cup {v}
      <4>1. w = [i \in 1 .. a |-> w[i]]
        BY DEF Written
      <4>2. \A i \in 1 .. a : w[i] \in E
        OBVIOUS
      <4>3. v \in E
        OBVIOUS
      <4> HIDE DEF w, E
      <4>4. w \in Seq(E)
        BY ONLY <4>1, <4>2, a \in Nat
      <4>5. Append(w, v) = w \o <<v>>
        BY ONLY <4>3, <4>4
      <4>6. QED
        BY <4>5 DEF w
    <3>3. Start[k] + m \in Nat
      <4>1. Start[k] \in Nat /\ m \in Nat
        BY <2>7
      <4>2. QED
        BY <4>1
    <3>4. QED
      BY <3>1, <3>2, <3>3
  <2>8. Written(Start[k] + m) \o s = Written(Start[k] + m + 1)
    <3>1. k \in 0 .. Height /\ m \in Nat /\ 1 \in Nat /\ m + 1 <= Len(RequiredAt(k))
      BY <1>5, <1>9, <1>12, <2>7 DEF R
    <3>2. s = [j \in 1 .. 1 |-> Sent(Element(DepthAt(k), RequiredAt(k)[m + j]), <<DepthAt(k), RequiredAt(k)[m + j]>>)]
      BY <1>9, <1>12 DEF R, d
    <3> HIDE DEF s
    <3>3. QED
      BY <1>2, <3>1, <3>2, WrittenMore
  <2>9. Climbs(rest, Written(Start[k] + m + 1))
    <3>1. /\ Walk(rest, c - 1, Pow2[DepthAt(k) - 1], QueriesAt(k), f)
          /\ Passed(RequiredAt(k), m + 1, f)
      BY <1>8, <1>9, <1>12 DEF half, Q, R, d
    <3>2. Start[k] + m + 1 = Start[k] + (m + 1)
      BY <2>7
    <3>3. QED
      BY <1>2, <1>9, <1>10, <3>1, <3>2, TreeNext
  <2>10. QED
    BY <2>1, <2>6, <2>8, <2>9
<1>13. Climbs(queue', proof')
  BY <1>11, <1>12
<1>14. QED
  BY <1>1, <1>13, SameClimb DEF Climbing

\* When the queue is down to the root, all is sent.
LEMMA TreeEnds ==
  ASSUME LayersInv, Climbing, TreeReturn
  PROVE  proof' = Written(Count)'
<1>1. phase = "tree" /\ Head(queue) = 1 /\ proof' = proof /\ UNCHANGED <<config, layers, rows, integrity>>
  BY DEF TreeReturn, prover
<1>2. Queried
  BY <1>1, QueriedPhases
<1>3. proof = Written(Count)
  <2>1. SUFFICES ASSUME proof # Written(Count) PROVE FALSE
    OBVIOUS
  <2>a. PICK k \in TreeLevel .. Height :
          \E e \in 0 .. Width(k) : e % 2 = 0 /\ \E c \in 0 .. Len(queue), m \in 0 .. Len(RequiredAt(k)) : ClimbingAt(queue, proof, k, e, c, m)
    BY <1>1, <2>1 DEF Climbing, Climbs
  <2>2. PICK e \in 0 .. Width(k), c \in 0 .. Len(queue), m \in 0 .. Len(RequiredAt(k)) :
          e % 2 = 0 /\ ClimbingAt(queue, proof, k, e, c, m)
    BY <2>a
  <2> DEFINE half == Pow2[DepthAt(k) - 1]
             Q == QueriesAt(k)
  <2>3. half \in Nat \ {0} /\ Q \in SUBSET (0 .. 2 * half - 1) /\ Width(k) = 2 * half
    <3>1. k \in 1 .. Height
      BY <1>2, TreeLevels
    <3>2. QED
      BY <1>2, <3>1, LevelHalves
  <2>4. c >= 1 /\ Walk(queue, c, half, Q, e)
    BY <2>2 DEF ClimbingAt
  <2>5. e \in Nat /\ e % 2 = 0
    <3>1. Width(k) \in Nat
      BY <2>3
    <3>2. QED
      BY <2>2, <3>1
  <2> HIDE DEF half, Q
  <2>6. Head(queue) \in Nat /\ Head(queue) >= 2 * half
    BY <2>3, <2>4, <2>5, WalkTurn
  <2>7. QED
    BY <1>1, <2>3, <2>6
<1>4. Count' = Count /\ \A n : Written(n)' = Written(n)
  BY <1>1, SameNames
<1>5. QED
  BY <1>1, <1>3, <1>4

-----------------------------------------------------------------------------
\* What the verifier reads.

\* No right value is Wrong.
LEMMA NotWrong ==
  \A d, i \in Nat : <<d, i>> # Wrong
  BY ConfigurationsAssumption

\* The messages of a level are among all, and none is wrong as it was sent.
LEMMA NamesRight ==
  ASSUME Queried
  PROVE  /\ Count \in Nat /\ \A k \in 0 .. Height + 1 : Start[k] \in 0 .. Count
         /\ \A i \in 1 .. Count : RightOf(NameAt(i)) # Wrong
<1>1. Height \in Nat /\ Height + 1 \in 0 .. Height + 1
  BY ConfigTypes DEF Queried
<1>2. /\ \A k \in 0 .. Height + 1 : Start[k] \in Nat
      /\ \A k \in 0 .. Height : Start[k + 1] = Start[k] + Len(RequiredAt(k))
  BY StartValues
<1>3. Count \in Nat
  BY <1>1, <1>2 DEF Count
<1>4. ASSUME NEW k \in 0 .. Height + 1 PROVE Start[k] \in 0 .. Count
  <2>1. k <= Height + 1
    BY <1>1
  <2>2. Start[k] <= Start[Height + 1]
    BY <1>1, <2>1, StartGrows
  <2>3. QED
    BY <1>2, <1>3, <2>2 DEF Count
<1> DEFINE T == {n \in Nat : n <= Height + 1 => \A i \in 1 .. Start[n] : RightOf(NameAt(i)) # Wrong}
<1>5. 0 \in T
  <2>1. rows \subseteq 0 .. Width(0) - 1 /\ 0 \in 0 .. Height + 1 /\ Width(0) \in Nat
    <3>1. 0 \in 0 .. Height + 1
      BY <1>1
    <3>2. QED
      BY <3>1, Widths DEF Queried
  <2>2. ASSUME NEW i \in 1 .. Start[0] PROVE RightOf(NameAt(i)) # Wrong
    <3>1. RightOf(NameAt(i)) = <<Height + 1, NameAt(i)[2]>> /\ NameAt(i)[2] \in rows
      BY NamesOfLevel
    <3>2. NameAt(i)[2] \in Nat /\ Height + 1 \in Nat
      <4>1. \A row \in rows : row \in Nat
        BY <2>1
      <4>2. QED
        BY <1>1, <3>1, <4>1
    <3>3. QED
      BY <3>1, <3>2, NotWrong
  <2>3. QED
    BY <2>2
<1>6. ASSUME NEW n \in Nat, n \in T PROVE n + 1 \in T
  <2>1. SUFFICES ASSUME n + 1 <= Height + 1, NEW i \in 1 .. Start[n + 1] PROVE RightOf(NameAt(i)) # Wrong
    OBVIOUS
  <2>2. n \in 0 .. Height /\ n <= Height + 1 /\ n \in 0 .. Height + 1
    BY <1>1, <2>1
  <2>3. Start[n + 1] = Start[n] + Len(RequiredAt(n)) /\ Start[n] \in Nat
    BY <1>2, <2>2
  <2>4. CASE i <= Start[n]
    BY <1>6, <2>2, <2>3, <2>4
  <2>5. CASE i > Start[n]
    <3> DEFINE j == i - Start[n]
    <3>1. Len(RequiredAt(n)) \in Nat /\ RequiredAt(n) \in Seq(0 .. Width(n) - 1) /\ Width(n) \in Nat /\ DepthAt(n) \in Nat
      <4>1. Width(n) \in Nat /\ DepthAt(n) \in 0 .. Height + 1
        BY <2>2, Widths DEF Queried
      <4>2. QED
        BY <2>2, <4>1, RequiredList
    <3>2. j \in 1 .. Len(RequiredAt(n)) /\ Start[n] + j = i
      BY <2>3, <2>5, <3>1
    <3>3. RequiredAt(n)[j] \in Nat
      <4> DEFINE S == 0 .. Width(n) - 1
      <4>1. RequiredAt(n) \in Seq(S) /\ S \subseteq Nat
        BY <3>1
      <4> HIDE DEF S, j
      <4>2. RequiredAt(n)[j] \in S
        BY ONLY <3>2, <4>1
      <4>3. QED
        BY <4>1, <4>2
    <3> HIDE DEF j
    <3>4. RightOf(NameAt(i)) = <<DepthAt(n), RequiredAt(n)[j]>>
      <4>1. RightOf(NameAt(Start[n] + j)) = <<DepthAt(n), RequiredAt(n)[j]>>
        BY <2>2, <3>2, NamesOfLevel
      <4>2. QED
        BY <3>2, <4>1
    <3>5. QED
      BY <3>1, <3>3, <3>4, NotWrong
  <2>6. QED
    BY <2>3, <2>4, <2>5
<1>7. \A n \in Nat : n \in T
  <2> HIDE DEF T
  <2>1. QED
    BY <1>5, <1>6, SetInduction
<1>8. \A i \in 1 .. Count : RightOf(NameAt(i)) # Wrong
  BY <1>1, <1>7 DEF Count
<1>9. QED
  BY <1>3, <1>4, <1>8

\* What the verifier is at follows from what it has read and knows.
LEMMA SameReading ==
  ASSUME UNCHANGED <<config, layers, rows, integrity>>
  PROVE  \A k : Reading(k)' <=>
           /\ reads' = [i \in 1 .. Start[k] |-> NameAt(i)]
           /\ DOMAIN known' = QueriesAt(k)
           /\ \A i \in QueriesAt(k) : known'[i] \in {<<DepthAt(k), i>>, Wrong}
           /\ proof' = [i \in 1 .. Count |-> proof'[i]]
           /\ \A i \in 1 .. Count :
                proof'[i] \in {Sent(NameAt(i), RightOf(NameAt(i))), Sent(NameAt(i), Wrong)}
           /\ tampered' <=> \/ \E i \in QueriesAt(k) : known'[i] = Wrong
                            \/ \E i \in Start[k] + 1 .. Count : proof'[i].value = Wrong
<1>1. Count' = Count /\ Start' = Start /\ \A i : NameAt(i)' = NameAt(i)
  BY SameNames
<1>2. \A name : RightOf(name)' = RightOf(name)
  BY SameNames
<1>3. \A k : DepthAt(k)' = DepthAt(k) /\ QueriesAt(k)' = QueriesAt(k)
  BY SameStack, SameQueries
<1>4. QED
  BY <1>1, <1>2, <1>3 DEF Reading

\* The rows.
LEMMA ReadsRows ==
  ASSUME LayersInv, Verifying, TableVerify
  PROVE  Verifying'
<1> DEFINE cells == Transmitted(CellsByRow(rows))
           n == Start[0]
           right(row) == <<Height + 1, row>>
<1>1. /\ phase = "sent" /\ phase' = "verify" /\ at' = 1 /\ reads' = cells
      /\ UNCHANGED <<config, layers, rows, integrity>>
  BY DEF TableVerify, prover
<1>2. Queried
  BY <1>1, QueriedPhases
<1>3. /\ n = Len(CellNames) /\ n \in Nat /\ CellNames = [j \in 1 .. n |-> CellNames[j]] /\ Height \in Nat /\ cells = CellNames
  BY <1>2, StartValues, CellsOfRows, ConfigTypes DEF Queried, CellNames
<1>4. /\ Count \in Nat /\ n <= Count /\ \A i \in 1 .. Count : RightOf(NameAt(i)) # Wrong
  <2>1. 0 \in 0 .. Height + 1
    BY <1>3
  <2>2. Count \in Nat /\ n \in 0 .. Count /\ \A i \in 1 .. Count : RightOf(NameAt(i)) # Wrong
    BY <1>2, <2>1, NamesRight
  <2>3. QED
    BY <2>2
<1>5. \A i \in 1 .. n : NameAt(i) = CellNames[i] /\ NameAt(i)[2] \in rows /\ RightOf(NameAt(i)) = right(NameAt(i)[2])
  BY <1>2, NamesOfLevel
<1>6. proof = [i \in 1 .. Count |-> Sent(NameAt(i), RightOf(NameAt(i)))]
  BY <1>1 DEF Verifying, Written
<1>7. \A row : Node(layers[1], row) = right(row)
  <2>1. layers[1].depth = Height + 1
    BY DEF LayersInv, Stacked, Rows, Packaging, Height
  <2>2. QED
    BY <2>1 DEF Node
<1>8. \A row \in rows : right(row) # Wrong
  <2>1. 0 \in 0 .. Height + 1
    BY <1>3
  <2>2. rows \subseteq 0 .. Width(0) - 1 /\ Width(0) \in Nat
    BY <1>2, <2>1, Widths DEF Queried
  <2>3. \A row \in rows : row \in Nat /\ Height + 1 \in Nat
    BY <1>3, <2>2
  <2>4. QED
    BY <2>3, NotWrong
<1>9. QueriesAt(0) = rows /\ DepthAt(0) = Height + 1
  BY <1>3 DEF QueriesAt, DepthAt
<1> HIDE DEF right, cells, n
\* The rows are known from the first messages, and from the integrity queries.
<1>10. ASSUME NEW p, p = [i \in 1 .. Count |-> p[i]]
       PROVE  /\ Len(SubSeq(p, 1, n)) = n
              /\ \A i \in 1 .. n : SubSeq(p, 1, n)[i] = p[i]
              /\ DOMAIN SubSeq(p, 1, n) = 1 .. n
  <2> DEFINE E == {p[i] : i \in 1 .. n}
             u == SubSeq(p, 1, n)
  <2>1. \A i \in 1 .. n : p[i] \in E
    OBVIOUS
  <2>2. 1 \in Int /\ n \in Int /\ (IF 1 <= n THEN n - 1 + 1 ELSE 0) = n /\ n - 1 + 1 = n
    BY <1>3
  <2> HIDE DEF E
  <2>3. /\ u \in Seq(E) /\ Len(u) = IF 1 <= n THEN n - 1 + 1 ELSE 0
        /\ \A i \in 1 .. n - 1 + 1 : u[i] = p[1 + i - 1]
    BY <2>1, <2>2, SubSeqProperties
  <2>4. Len(u) = n /\ \A i \in 1 .. n : u[i] = p[1 + i - 1]
    BY ONLY <2>2, <2>3
  <2>5. \A i \in 1 .. n : 1 + i - 1 = i
    BY <1>3
  <2>6. \A i \in 1 .. n : u[i] = p[i]
    BY ONLY <2>4, <2>5
  <2> HIDE DEF u
  <2>7. DOMAIN u = 1 .. n
    BY <2>3, <2>4
  <2>8. QED
    BY <2>4, <2>6, <2>7 DEF u
<1>11. ASSUME NEW p, p = [i \in 1 .. Count |-> p[i]],
              \A i \in 1 .. Count : p[i] \in {Sent(NameAt(i), RightOf(NameAt(i))), Sent(NameAt(i), Wrong)},
              NEW own \in BOOLEAN, NEW row \in rows
       PROVE  LET v == RowValue(row, SubSeq(p, 1, n), own) IN
              /\ v \in {right(row), Wrong}
              /\ v = Wrong <=> ~own \/ \E i \in 1 .. n : NameAt(i)[2] = row /\ p[i].value = Wrong
  <2> DEFINE u == SubSeq(p, 1, n)
             good == \A i \in 1 .. n : u[i].name[2] = row => u[i].value = Node(layers[1], row)
  <2>1. DOMAIN u = 1 .. n /\ \A i \in 1 .. n : u[i] = p[i]
    BY <1>10, <1>11
  <2>2. ASSUME NEW i \in 1 .. n
        PROVE  /\ p[i].name = NameAt(i) /\ u[i] = p[i]
               /\ p[i].value \in {right(NameAt(i)[2]), Wrong}
    <3>1. i \in 1 .. Count
      BY <1>3, <1>4
    <3>2. p[i] \in {Sent(NameAt(i), right(NameAt(i)[2])), Sent(NameAt(i), Wrong)}
      BY <1>5, <1>11, <3>1
    <3>3. /\ Sent(NameAt(i), right(NameAt(i)[2])).name = NameAt(i) /\ Sent(NameAt(i), Wrong).name = NameAt(i)
          /\ Sent(NameAt(i), right(NameAt(i)[2])).value = right(NameAt(i)[2]) /\ Sent(NameAt(i), Wrong).value = Wrong
      BY DEF Sent
    <3>4. p[i].name = NameAt(i) /\ p[i].value \in {right(NameAt(i)[2]), Wrong}
      BY ONLY <3>2, <3>3
    <3>5. QED
      BY <2>1, <3>4
  <2>3. RowValue(row, u, own) = IF good /\ own THEN right(row) ELSE Wrong
    BY <1>7, <2>1 DEF RowValue
  <2> HIDE DEF u
  <2>4. good <=> \A i \in 1 .. n : NameAt(i)[2] = row => p[i].value = right(row)
    BY <1>7, <2>2
  <2>5. \A i \in 1 .. n : NameAt(i)[2] = row => (p[i].value = right(row) <=> p[i].value # Wrong)
    BY <1>8, <2>2
  <2> HIDE DEF good
  <2>6. good <=> ~ \E i \in 1 .. n : NameAt(i)[2] = row /\ p[i].value = Wrong
    BY <2>4, <2>5
  <2>7. right(row) # Wrong
    BY <1>8
  <2>8. QED
    BY <2>3, <2>6, <2>7 DEF u
<1>12. reads' = [i \in 1 .. n |-> NameAt(i)]
  BY <1>1, <1>3, <1>5
<1> DEFINE Read(p, k, t) ==
       /\ DOMAIN k = rows /\ \A i \in rows : k[i] \in {right(i), Wrong}
       /\ p = [i \in 1 .. Count |-> p[i]]
       /\ \A i \in 1 .. Count : p[i] \in {Sent(NameAt(i), RightOf(NameAt(i))), Sent(NameAt(i), Wrong)}
       /\ t <=> (\E i \in rows : k[i] = Wrong) \/ (\E i \in n + 1 .. Count : p[i].value = Wrong)
<1>13. \A i \in 1 .. Count : proof[i].value # Wrong
  BY <1>4, <1>6 DEF Sent
<1>14. /\ proof = [i \in 1 .. Count |-> proof[i]]
       /\ \A i \in 1 .. Count : proof[i] \in {Sent(NameAt(i), RightOf(NameAt(i))), Sent(NameAt(i), Wrong)}
  BY <1>6
<1>15. \A i : (i \in 1 .. n => i \in 1 .. Count) /\ (i \in n + 1 .. Count => i \in 1 .. Count)
  BY <1>3, <1>4
<1>16. ASSUME /\ tampered' = FALSE /\ proof' = proof
              /\ known' = [row \in rows |-> RowValue(row, SubSeq(proof, 1, n), TRUE)]
       PROVE  Read(proof', known', tampered')
  <2>1. \A row \in rows : known'[row] \in {right(row), Wrong} /\ known'[row] # Wrong
    <3> SUFFICES ASSUME NEW row \in rows PROVE known'[row] \in {right(row), Wrong} /\ known'[row] # Wrong
      OBVIOUS
    <3> DEFINE v == RowValue(row, SubSeq(proof, 1, n), TRUE)
    <3>1. /\ v \in {right(row), Wrong}
          /\ v = Wrong <=> ~TRUE \/ \E i \in 1 .. n : NameAt(i)[2] = row /\ proof[i].value = Wrong
      BY <1>11, <1>14
    <3>2. known'[row] = v
      BY <1>16
    <3>3. ~ \E i \in 1 .. n : NameAt(i)[2] = row /\ proof[i].value = Wrong
      BY <1>13, <1>15
    <3> HIDE DEF v
    <3>4. QED
      BY <3>1, <3>2, <3>3
  <2>2. ~ \E i \in n + 1 .. Count : proof[i].value = Wrong
    BY <1>13, <1>15
  <2>3. QED
    BY <1>14, <1>16, <2>1, <2>2
<1>17. ASSUME /\ tampered' = TRUE
              /\ \E k \in DOMAIN proof : proof' = [proof EXCEPT ![k].value = Wrong]
              /\ known' = [row \in rows |-> RowValue(row, SubSeq(proof', 1, n), TRUE)]
       PROVE  Read(proof', known', tampered')
  <2>1. PICK k \in DOMAIN proof : proof' = [proof EXCEPT ![k].value = Wrong]
    BY <1>17
  <2>2. k \in 1 .. Count
    BY <1>14
  <2>3. /\ proof' = [i \in 1 .. Count |-> proof'[i]]
        /\ \A i \in 1 .. Count : proof'[i] = IF i = k THEN [proof[k] EXCEPT !.value = Wrong] ELSE proof[i]
    BY <1>14, <2>1
  <2>4. [proof[k] EXCEPT !.value = Wrong] = Sent(NameAt(k), Wrong)
    <3>1. proof[k] = Sent(NameAt(k), RightOf(NameAt(k)))
      BY <1>6, <2>2
    <3>2. QED
      BY <3>1 DEF Sent
  <2>5. \A i \in 1 .. Count : proof'[i] \in {Sent(NameAt(i), RightOf(NameAt(i))), Sent(NameAt(i), Wrong)}
    BY <1>14, <2>3, <2>4
  <2>6. proof'[k].value = Wrong
    BY <2>2, <2>3, <2>4 DEF Sent
  <2>7. \A row \in rows : /\ known'[row] \in {right(row), Wrong}
                          /\ known'[row] = Wrong <=> \E i \in 1 .. n : NameAt(i)[2] = row /\ proof'[i].value = Wrong
    BY <1>11, <1>17, <2>3, <2>5
  <2>8. (\E i \in rows : known'[i] = Wrong) \/ (\E i \in n + 1 .. Count : proof'[i].value = Wrong)
    <3>1. CASE k \in 1 .. n
      <4>1. NameAt(k)[2] \in rows
        BY <1>5, <3>1
      <4>2. QED
        BY <2>6, <2>7, <3>1, <4>1
    <3>2. CASE k \notin 1 .. n
      <4>1. k \in n + 1 .. Count
        BY <1>3, <1>4, <2>2, <3>2
      <4>2. QED
        BY <2>6, <4>1
    <3>3. QED
      BY <3>1, <3>2
  <2>9. QED
    BY <1>17, <2>3, <2>5, <2>7, <2>8
<1>18. ASSUME /\ tampered' = TRUE /\ proof' = proof
              /\ \E cell \in integrity : known' = [row \in rows |-> RowValue(row, SubSeq(proof, 1, n), row # cell[2])]
       PROVE  Read(proof', known', tampered')
  <2>1. PICK cell \in integrity : known' = [row \in rows |-> RowValue(row, SubSeq(proof, 1, n), row # cell[2])]
    BY <1>18
  <2>2. \A row \in rows : /\ known'[row] \in {right(row), Wrong}
                          /\ known'[row] = Wrong <=> row = cell[2] \/ \E i \in 1 .. n : NameAt(i)[2] = row /\ proof[i].value = Wrong
    <3>1. \A row \in rows : (row # cell[2]) \in BOOLEAN
      OBVIOUS
    <3>2. QED
      BY <1>11, <1>14, <2>1, <3>1
  <2>3. cell[2] \in rows
    <3>1. integrity \subseteq Cells(rows)
      BY <1>1 DEF LayersInv, Chosen
    <3>2. PICK row \in rows, column \in 0 .. config.columns - 1 : cell = Cell(row, column)
      BY <3>1 DEF Cells
    <3>3. QED
      BY <3>2 DEF Cell
  <2>4. \E i \in rows : known'[i] = Wrong
    BY <2>2, <2>3
  <2>5. QED
    BY <1>14, <1>18, <2>1, <2>2, <2>4
<1>19. Read(proof', known', tampered')
  <2>1. n = Len(cells)
    BY <1>3
  <2>2. QED
    BY <1>16, <1>17, <1>18, <2>1 DEF TableVerify, cells
<1>20. Reading(0)'
  BY <1>1, <1>9, <1>12, <1>19, SameReading DEF right, n
<1>21. QED
  BY <1>1, <1>20 DEF Verifying

-----------------------------------------------------------------------------
\* A layer of the verifier.

\* Each is a packaging layer of the right kind of hash.
LEMMA VerifiersKinds ==
  ASSUME config \in Configurations, NEW k \in 0 .. Height
  PROVE  /\ LayerAt(k).kind = "packaging" /\ LayerAt(k).depth = DepthAt(k) /\ LayerAt(k).per = Per(k)
         /\ RightKind(LayerAt(k)) /\ DepthAt(k) \in Nat /\ DepthAt(k) - 1 = DepthAt(k + 1) /\ Per(k) \in Nat \ {0}
<1>1. Height \in Nat /\ config.height = Height /\ k \in 0 .. Height + 1
  BY ConfigTypes
<1>2. Per(k) \in Nat \ {0} /\ DepthAt(k) \in Nat /\ DepthAt(k) - 1 = DepthAt(k + 1)
  BY <1>1, Widths DEF DepthAt
<1>3. CASE k = 0
  <2>1. LayerAt(k) = Packaging(config.height + 1, config.per_package, FALSE)
    BY <1>3, VerifiersLayers DEF Rows
  <2>2. DepthAt(k) = config.height + 1 /\ Per(k) = config.per_package
    BY <1>1, <1>3 DEF DepthAt, Per
  <2>3. ~(config.height + 1 <= config.height)
    BY <1>1
  <2>4. LayerAt(k).kind = "packaging" /\ LayerAt(k).depth = config.height + 1 /\ LayerAt(k).per = config.per_package
    BY <2>1 DEF Packaging
  <2>5. RightKind(LayerAt(k))
    BY <2>3, <2>4 DEF RightKind
  <2>6. QED
    BY <1>2, <2>2, <2>4, <2>5
<1>4. CASE k # 0
  <2>1. k \in 1 .. Height
    BY <1>1, <1>4
  <2>2. LayerAt(k) = Packaging(DepthAt(k), 2, Friendly(config, DepthAt(k)))
    BY <2>1, VerifiersLayers
  <2>3. Per(k) = 2
    BY <1>4 DEF Per
  <2>4. QED
    BY <1>2, <2>2, <2>3 DEF Packaging, RightKind
<1>5. QED
  BY <1>3, <1>4

\* The elements of the packages of a level's queries.
Covered(k) == {i \in 0 .. Width(k) - 1 : i \div Per(k) \in QueriesAt(k + 1)}

\* Queried and required elements fill the packages of the next level's queries.
LEMMA CoveredElements ==
  ASSUME Queried, NEW k \in 0 .. Height
  PROVE  /\ QueriesAt(k) \cup SetOf(RequiredAt(k)) = Covered(k)
         /\ {i \div Per(k) : i \in Covered(k)} = QueriesAt(k + 1)
         /\ \A p \in QueriesAt(k + 1) : \A j \in 1 .. Per(k) :
              p * Per(k) + j - 1 \in Covered(k) /\ (p * Per(k) + j - 1) \div Per(k) = p
         /\ \A i \in Covered(k) : i \div Per(k) \in QueriesAt(k + 1) /\ i \in Nat
                                  /\ \E j \in 1 .. Per(k) : i = (i \div Per(k)) * Per(k) + j - 1
<1> DEFINE per == Per(k)
           b == Width(k)
           w == Width(k + 1)
           Q == QueriesAt(k)
           P == QueriesAt(k + 1)
           C == Covered(k)
<1>1. Height \in Nat /\ k \in 0 .. Height + 1 /\ k + 1 \in 0 .. Height + 1
  BY ConfigTypes DEF Queried
<1>2. per \in Nat \ {0} /\ b \in Nat /\ w \in Nat /\ b = w * per
  BY <1>1, Widths DEF Queried
<1>3. Q \subseteq 0 .. b - 1 /\ P \subseteq 0 .. w - 1 /\ P = {i \div per : i \in Q}
  BY <1>1, LevelQueries DEF Queried
<1>4. SetOf(RequiredAt(k)) = C \ Q
  BY RequiredList DEF Covered
<1>5. C = {i \in 0 .. b - 1 : i \div per \in P}
  BY DEF Covered
<1> HIDE DEF per, b, w, Q, P, C
<1>6. Q \subseteq C
  BY <1>3, <1>5
<1>7. Q \cup SetOf(RequiredAt(k)) = C
  BY <1>4, <1>6
<1>8. {i \div per : i \in C} = P
  BY <1>3, <1>5, <1>6
<1>9. ASSUME NEW p \in P, NEW j \in 1 .. per
      PROVE  p * per + j - 1 \in C /\ (p * per + j - 1) \div per = p
  <2>1. p \in 0 .. w - 1 /\ p \in Nat /\ j - 1 \in 0 .. per - 1
    BY <1>2, <1>3
  <2>2. /\ (p * per + (j - 1)) \div per = p /\ p * per + (j - 1) \in 0 .. w * per - 1
    BY <1>2, <2>1, PackageArithmetic
  <2>3. p * per + (j - 1) = p * per + j - 1
    <3>1. p * per \in Nat
      BY <1>2, <2>1
    <3>2. QED
      BY <3>1
  <2>4. QED
    BY <1>2, <1>5, <2>2, <2>3
<1>10. ASSUME NEW i \in C
       PROVE  i \div per \in P /\ i \in Nat /\ \E j \in 1 .. per : i = (i \div per) * per + j - 1
  <2>1. i \in 0 .. w * per - 1 /\ i \div per \in P /\ i \in Nat
    BY <1>2, <1>5
  <2> DEFINE v == i \div per
             r == i % per
  <2>2. r \in 0 .. per - 1 /\ i = v * per + r /\ v \in Nat
    <3>1. v \in 0 .. w - 1 /\ r \in 0 .. per - 1 /\ i = v * per + r
      BY <1>2, <2>1, PackageArithmetic
    <3> HIDE DEF v, r
    <3>2. QED
      BY <1>2, <3>1
  <2> HIDE DEF r, v
  <2>3. r + 1 \in 1 .. per /\ i = v * per + (r + 1) - 1
    <3>1. v * per \in Nat
      BY <1>2, <2>2
    <3>2. QED
      BY <1>2, <2>2, <3>1
  <2>4. QED
    BY <2>1, <2>3 DEF v
<1>11. QED
  BY <1>7, <1>8, <1>9, <1>10 DEF per, Q, P, C

\* The hash of a package is right exactly if its elements are.
LEMMA LayerHash ==
  ASSUME Queried, NEW k \in 0 .. Height, NEW full,
         \A i \in Covered(k) : full[i] \in {<<DepthAt(k), i>>, Wrong},
         NEW p \in QueriesAt(k + 1)
  PROVE  LET l == LayerAt(k)
             hash == HashPackage(l, p, [j \in 1 .. l.per |-> full[PackageElements(l, p)[j]]]) IN
         /\ hash \in {<<DepthAt(k + 1), p>>, Wrong}
         /\ hash = Wrong <=> \E i \in Covered(k) : i \div Per(k) = p /\ full[i] = Wrong
<1> DEFINE l == LayerAt(k)
           per == Per(k)
           d == DepthAt(k)
           C == Covered(k)
           elements == [j \in 1 .. l.per |-> full[PackageElements(l, p)[j]]]
           right == [j \in 1 .. l.per |-> Node(l, PackageElements(l, p)[j])]
<1>1. /\ l.depth = d /\ l.per = per /\ RightKind(l) /\ d \in Nat /\ d - 1 = DepthAt(k + 1) /\ per \in Nat \ {0}
  BY VerifiersKinds DEF Queried
<1>2. p \in Nat /\ DepthAt(k + 1) \in Nat
  <2>1. k + 1 \in 0 .. Height + 1
    BY ConfigTypes DEF Queried
  <2>2. QueriesAt(k + 1) \subseteq 0 .. Width(k + 1) - 1 /\ Width(k + 1) \in Nat /\ DepthAt(k + 1) \in 0 .. Height + 1
    BY <2>1, LevelQueries, Widths DEF Queried
  <2>3. QED
    BY <2>2
<1>3. /\ \A j \in 1 .. per : p * per + j - 1 \in C /\ (p * per + j - 1) \div per = p
      /\ \A i \in C : i \in Nat /\ \E j \in 1 .. per : i = (i \div per) * per + j - 1
  BY CoveredElements
<1> HIDE DEF l, per, d, C
<1>4. \A j \in 1 .. per : PackageElements(l, p)[j] = p * per + j - 1
  BY <1>1 DEF PackageElements
<1>5. /\ elements = [j \in 1 .. per |-> full[p * per + j - 1]]
      /\ right = [j \in 1 .. per |-> <<d, p * per + j - 1>>]
  BY <1>1, <1>4 DEF Node
<1> HIDE DEF elements, right
<1>6. elements = right <=> \A j \in 1 .. per : full[p * per + j - 1] = <<d, p * per + j - 1>>
  BY <1>5
<1>7. \A i \in C : full[i] \in {<<d, i>>, Wrong} /\ <<d, i>> # Wrong
  BY <1>1, <1>3, NotWrong DEF d, C
<1>8. elements # right <=> \E i \in C : i \div per = p /\ full[i] = Wrong
  <2>1. ASSUME NEW i \in C, i \div per = p, full[i] = Wrong PROVE elements # right
    <3>1. PICK j \in 1 .. per : i = p * per + j - 1
      BY <1>3, <2>1
    <3>2. QED
      BY <1>6, <1>7, <2>1, <3>1
  <2>2. ASSUME elements # right PROVE \E i \in C : i \div per = p /\ full[i] = Wrong
    <3>1. PICK j \in 1 .. per : full[p * per + j - 1] # <<d, p * per + j - 1>>
      BY <1>6, <2>2
    <3>2. QED
      BY <1>3, <1>7, <3>1
  <2>3. QED
    BY <2>1, <2>2
<1>9. HashPackage(l, p, elements) = IF elements = right THEN <<d - 1, p>> ELSE Wrong
  BY <1>1 DEF HashPackage, RightKind, right
<1>10. <<DepthAt(k + 1), p>> # Wrong
  BY <1>2, NotWrong
<1>11. QED
  BY <1>1, <1>8, <1>9, <1>10 DEF l, per, C, elements

\* Where the verifier reads a layer, it has not failed yet.
LEMMA AtLayer ==
  ASSUME LayersInv, phase = "verify", VerifierLayers(config)[at].kind = "packaging"
  PROVE  /\ at - 1 \in 0 .. Height /\ at = (at - 1) + 1 /\ VerifierLayers(config)[at] = LayerAt(at - 1)
<1>1. Height \in Nat /\ config \in Configurations /\ at \in 1 .. Height + 2
  BY ConfigTypes DEF LayersInv, Stacked, Walking
<1>2. at = (at - 1) + 1
  BY <1>1
<1>3. VerifierLayers(config)[at] = LayerAt(at - 1)
  BY <1>2 DEF LayerAt
<1>4. at - 1 # Height + 1
  <2>1. LayerAt(Height + 1).kind = "merkle"
    BY <1>1, VerifiersLayers
  <2>2. ASSUME at - 1 = Height + 1 PROVE FALSE
    BY <1>3, <2>1, <2>2
  <2>3. QED
    BY <2>2
<1>5. QED
  BY <1>1, <1>2, <1>3, <1>4

\* One VerifyIntegrity: a level is read, and a change in it is in the hashes.
LEMMA ReadsLayer ==
  ASSUME LayersInv, Verifying, VerifyIntegrity
  PROVE  Verifying' /\ phase' # "done" /\ verdict' = verdict
<1> DEFINE k == at - 1
           l == LayerAt(k)
           R == RequiredAt(k)
           Q == QueriesAt(k)
           C == Covered(k)
           n == Len(reads)
           d == DepthAt(k)
           full == [i \in DOMAIN known \cup SetOf(R) |->
                      IF i \in DOMAIN known THEN known[i]
                      ELSE proof[n + (CHOOSE j \in DOMAIN R : R[j] = i)].value]
<1>1. phase = "verify" /\ VerifierLayers(config)[at].kind = "packaging" /\ UNCHANGED <<config, layers, rows, integrity, proof, tampered>>
  BY DEF VerifyIntegrity, prover
<1>2. k \in 0 .. Height /\ at = k + 1 /\ VerifierLayers(config)[at] = l
  BY <1>1, AtLayer
<1>3. Queried /\ Reading(k)
  BY <1>1, QueriedPhases DEF Verifying
<1>4. /\ reads = [i \in 1 .. Start[k] |-> NameAt(i)] /\ DOMAIN known = Q
      /\ \A i \in Q : known[i] \in {<<d, i>>, Wrong}
      /\ proof = [i \in 1 .. Count |-> proof[i]]
      /\ \A i \in 1 .. Count : proof[i] \in {Sent(NameAt(i), RightOf(NameAt(i))), Sent(NameAt(i), Wrong)}
      /\ tampered <=> (\E i \in Q : known[i] = Wrong) \/ (\E i \in Start[k] + 1 .. Count : proof[i].value = Wrong)
  BY <1>3 DEF Reading
<1>5. /\ Height \in Nat /\ k \in 0 .. Height + 1 /\ k + 1 \in 0 .. Height + 1 /\ Start[k] \in Nat
      /\ Start[k + 1] = Start[k] + Len(R) /\ Start[k + 1] \in 0 .. Count /\ Count \in Nat
  <2>1. Height \in Nat /\ k \in 0 .. Height + 1 /\ k + 1 \in 0 .. Height + 1
    BY <1>2, <1>3, ConfigTypes DEF Queried
  <2>2. Start[k] \in Nat /\ Start[k + 1] = Start[k] + Len(R)
    BY <1>2, <1>3, <2>1, StartValues
  <2>3. Start[k + 1] \in 0 .. Count /\ Count \in Nat
    BY <1>3, <2>1, NamesRight
  <2>4. QED
    BY <2>1, <2>2, <2>3
<1>6. /\ Len(R) \in Nat /\ DOMAIN R = 1 .. Len(R) /\ R \in Seq(0 .. Width(k) - 1)
      /\ \A i, j \in 1 .. Len(R) : i < j => R[i] < R[j]
      /\ SetOf(R) = {i \in 0 .. Width(k) - 1 : i \div Per(k) \in QueriesAt(k + 1)} \ Q
  BY <1>2, <1>3, RequiredList
<1>7. /\ Q \cup SetOf(R) = C
      /\ {i \div Per(k) : i \in C} = QueriesAt(k + 1)
      /\ \A i \in C : i \div Per(k) \in QueriesAt(k + 1) /\ i \in Nat
  BY <1>2, <1>3, CoveredElements
<1>8. /\ l.depth = d /\ l.per = Per(k) /\ d \in Nat /\ d - 1 = DepthAt(k + 1)
  BY <1>2, <1>3, VerifiersKinds DEF Queried
<1>9. ElementsRequiredToComputeHashes(l, DOMAIN known) = R
  BY <1>4 DEF RequiredAt
<1> HIDE DEF l, R, Q, C, d, k
<1>10. n = Start[k] /\ Len(proof) = Count
  BY <1>4, <1>5
<1>11. DOMAIN full = C
  BY <1>4, <1>7
<1>12. reads' = reads \o [j \in 1 .. Len(R) |-> Element(d, R[j])]
  BY <1>2, <1>6, <1>8, <1>9 DEF VerifyIntegrity
<1>13. /\ known' = [p \in {PackageOf(l, i) : i \in C} |-> HashPackage(l, p, [j \in 1 .. l.per |-> full[PackageElements(l, p)[j]]])]
       /\ at' = at + 1 /\ phase' = phase /\ verdict' = verdict
  <2>1. ~(n + Len(R) > Len(proof))
    BY <1>5, <1>10
  <2> DEFINE L == VerifierLayers(config)[at]
             required == ElementsRequiredToComputeHashes(L, DOMAIN known)
             next == Len(reads)
             all == [i \in DOMAIN known \cup SetOf(required) |->
                       IF i \in DOMAIN known THEN known[i]
                       ELSE proof[next + (CHOOSE j \in DOMAIN required : required[j] = i)].value]
  <2>2. L = l /\ required = R
    BY <1>2, <1>9
  <2>3. ~(next + Len(required) > Len(proof)) => 
          /\ known' = [p \in {PackageOf(L, i) : i \in DOMAIN all} |->
                        HashPackage(L, p, [j \in 1 .. L.per |-> all[PackageElements(L, p)[j]]])]
          /\ at' = at + 1 /\ phase' = phase /\ verdict' = verdict
    BY DEF VerifyIntegrity
  <2> HIDE DEF L, required
  <2>4. all = full
    BY <2>2
  <2>5. ~(next + Len(required) > Len(proof))
    BY <2>1, <2>2
  <2> HIDE DEF all, full
  <2>6. QED
    BY <1>11, <2>2, <2>3, <2>4, <2>5
<1>14. \A j \in 1 .. Len(R) : R[j] \in SetOf(R) /\ R[j] \notin Q /\ (CHOOSE h \in DOMAIN R : R[h] = R[j]) = j
  <2> SUFFICES ASSUME NEW j \in 1 .. Len(R)
               PROVE  R[j] \in SetOf(R) /\ R[j] \notin Q /\ (CHOOSE h \in DOMAIN R : R[h] = R[j]) = j
    OBVIOUS
  <2>1. R[j] \in SetOf(R)
    BY <1>6 DEF SetOf
  <2>2. R[j] \notin Q
    BY <1>6, <2>1
  <2>3. \A h \in 1 .. Len(R) : R[h] \in Int
    <3> DEFINE S == 0 .. Width(k) - 1
    <3>1. R \in Seq(S) /\ S \subseteq Int
      BY <1>6
    <3> HIDE DEF S
    <3>2. \A h \in 1 .. Len(R) : R[h] \in S
      BY ONLY <3>1
    <3>3. QED
      BY <3>1, <3>2
  <2>4. \A h \in 1 .. Len(R) : R[h] = R[j] => h = j
    <3> SUFFICES ASSUME NEW h \in 1 .. Len(R), R[h] = R[j], h # j PROVE FALSE
      OBVIOUS
    <3>1. h < j \/ j < h
      BY <1>6
    <3>2. R[h] < R[j] \/ R[j] < R[h]
      BY <1>6, <3>1
    <3>3. QED
      BY <2>3, <3>2
  <2>5. QED
    BY <1>6, <2>1, <2>2, <2>4
<1>15. \A i \in Q : i \in C /\ full[i] = known[i]
  BY <1>4, <1>7
<1>16. \A j \in 1 .. Len(R) : R[j] \in C /\ full[R[j]] = proof[Start[k] + j].value
  BY <1>4, <1>7, <1>10, <1>14
<1>17. \A i \in C : i \in Q \/ \E j \in 1 .. Len(R) : i = R[j]
  BY <1>6, <1>7 DEF SetOf
<1> HIDE DEF full
<1>18. \A j \in 1 .. Len(R) : Start[k] + j \in 1 .. Count
  BY <1>5, <1>6
<1>19. \A j \in 1 .. Len(R) : full[R[j]] \in {<<d, R[j]>>, Wrong}
  <2> SUFFICES ASSUME NEW j \in 1 .. Len(R) PROVE full[R[j]] \in {<<d, R[j]>>, Wrong}
    OBVIOUS
  <2> DEFINE i == Start[k] + j
  <2>1. i \in 1 .. Count /\ full[R[j]] = proof[i].value
    BY <1>16, <1>18
  <2>2. RightOf(NameAt(i)) = <<d, R[j]>>
    BY <1>2, <1>3, NamesOfLevel DEF d, R
  <2> HIDE DEF i
  <2>3. proof[i] \in {Sent(NameAt(i), <<d, R[j]>>), Sent(NameAt(i), Wrong)}
    BY <1>4, <2>1, <2>2
  <2>4. Sent(NameAt(i), <<d, R[j]>>).value = <<d, R[j]>> /\ Sent(NameAt(i), Wrong).value = Wrong
    BY DEF Sent
  <2>5. QED
    BY ONLY <2>1, <2>3, <2>4
<1>20. \A i \in C : full[i] \in {<<d, i>>, Wrong}
  BY <1>4, <1>15, <1>17, <1>19
<1> DEFINE hash(p) == HashPackage(l, p, [j \in 1 .. l.per |-> full[PackageElements(l, p)[j]]])
<1>21. ASSUME NEW p \in QueriesAt(k + 1)
       PROVE  /\ hash(p) \in {<<DepthAt(k + 1), p>>, Wrong}
              /\ hash(p) = Wrong <=> \E i \in C : i \div Per(k) = p /\ full[i] = Wrong
  BY <1>2, <1>3, <1>20, LayerHash DEF C, d, l
<1>22. known' = [p \in QueriesAt(k + 1) |-> hash(p)]
  <2>1. {PackageOf(l, i) : i \in C} = QueriesAt(k + 1)
    BY <1>7, <1>8 DEF PackageOf
  <2> HIDE DEF hash
  <2>2. known' = [p \in {PackageOf(l, i) : i \in C} |-> hash(p)]
    BY <1>13 DEF hash
  <2>3. QED
    BY <2>1, <2>2
<1> HIDE DEF hash
<1>23. reads' = [i \in 1 .. Start[k + 1] |-> NameAt(i)]
  <2> DEFINE s == [j \in 1 .. Len(R) |-> Element(d, R[j])]
             a == Start[k]
             E == {reads[i] : i \in 1 .. a} \cup {s[j] : j \in 1 .. Len(R)}
  <2>1. /\ reads = [i \in 1 .. a |-> reads[i]] /\ \A i \in 1 .. a : reads[i] \in E
        /\ s = [j \in 1 .. Len(R) |-> s[j]] /\ \A j \in 1 .. Len(R) : s[j] \in E
    BY <1>4
  <2>2. \A j \in 1 .. Len(R) : s[j] = NameAt(a + j)
    BY <1>2, <1>3, NamesOfLevel DEF d, R
  <2> HIDE DEF s, a, E
  <2>3. a \in Nat
    BY <1>5 DEF a
  <2>4. Len(R) \in Nat
    BY <1>6
  <2>5. reads \in Seq(E) /\ Len(reads) = a
    BY ONLY <2>1, <2>3
  <2>6. s \in Seq(E) /\ Len(s) = Len(R)
    BY ONLY <2>1, <2>4
  <2>7. reads \in Seq(E) /\ s \in Seq(E)
    BY <2>5, <2>6
  <2> DEFINE u == reads \o s
  <2>8. /\ u \in Seq(E) /\ Len(u) = Len(reads) + Len(s)
        /\ \A i \in 1 .. Len(reads) : u[i] = reads[i]
        /\ \A j \in 1 .. Len(s) : u[Len(reads) + j] = s[j]
    BY ONLY <2>7, Appended
  <2> HIDE DEF u
  <2>9. u \in Seq(E) /\ Len(u) = Start[k + 1] /\ Start[k + 1] = a + Len(R)
    BY <1>5, <2>5, <2>6, <2>8 DEF a
  <2>10. u = [i \in 1 .. Start[k + 1] |-> u[i]]
    BY ONLY <2>9
  <2>11. ASSUME NEW i \in 1 .. Start[k + 1] PROVE u[i] = NameAt(i)
    <3>1. CASE i \in 1 .. a
      BY <1>4, <2>5, <2>8, <3>1 DEF a
    <3>2. CASE i \notin 1 .. a
      <4>1. i - a \in 1 .. Len(R) /\ a + (i - a) = i
        BY <2>3, <2>4, <2>9, <3>2
      <4>2. u[i] = s[i - a]
        BY <2>5, <2>6, <2>8, <4>1
      <4>3. QED
        BY <2>2, <4>1, <4>2
    <3>3. QED
      BY <3>1, <3>2
  <2>12. reads' = u
    BY <1>12 DEF u, s
  <2>13. QED
    BY <2>10, <2>11, <2>12
<1>24. tampered' <=> \/ \E p \in QueriesAt(k + 1) : known'[p] = Wrong
                     \/ \E i \in Start[k + 1] + 1 .. Count : proof'[i].value = Wrong
  <2>1. (\E p \in QueriesAt(k + 1) : known'[p] = Wrong) <=> \E i \in C : full[i] = Wrong
    <3>1. \A p \in QueriesAt(k + 1) : known'[p] = Wrong <=> \E i \in C : i \div Per(k) = p /\ full[i] = Wrong
      BY <1>21, <1>22
    <3>2. QED
      BY <1>7, <3>1
  <2>2. (\E i \in C : full[i] = Wrong) <=>
          (\E i \in Q : known[i] = Wrong) \/ (\E j \in 1 .. Len(R) : proof[Start[k] + j].value = Wrong)
    BY <1>15, <1>16, <1>17
  <2>3. (\E i \in Start[k] + 1 .. Count : proof[i].value = Wrong) <=>
          \/ \E j \in 1 .. Len(R) : proof[Start[k] + j].value = Wrong
          \/ \E i \in Start[k + 1] + 1 .. Count : proof[i].value = Wrong
    <3>1. ASSUME NEW i \in Start[k] + 1 .. Count
          PROVE  i \in Start[k + 1] + 1 .. Count \/ (i - Start[k] \in 1 .. Len(R) /\ Start[k] + (i - Start[k]) = i)
      BY <1>5, <1>6
    <3>2. \A i \in Start[k + 1] + 1 .. Count : i \in Start[k] + 1 .. Count
      BY <1>5, <1>6
    <3>3. \A j \in 1 .. Len(R) : Start[k] + j \in Start[k] + 1 .. Count
      BY <1>5, <1>6
    <3>4. QED
      BY <3>1, <3>2, <3>3
  <2>4. QED
    BY <1>1, <1>4, <2>1, <2>2, <2>3
<1>a. PICK h \in 0 .. Height + 1 : h = k + 1
  BY <1>5
<1>25. Reading(h)'
  <2>1. /\ DOMAIN known' = QueriesAt(k + 1)
        /\ \A i \in QueriesAt(k + 1) : known'[i] \in {<<DepthAt(k + 1), i>>, Wrong}
    BY <1>21, <1>22
  <2>2. /\ proof' = [i \in 1 .. Count |-> proof'[i]]
        /\ \A i \in 1 .. Count : proof'[i] \in {Sent(NameAt(i), RightOf(NameAt(i))), Sent(NameAt(i), Wrong)}
    BY <1>1, <1>4
  <2>3. UNCHANGED <<config, layers, rows, integrity>>
    BY <1>1
  <2>4. /\ reads' = [i \in 1 .. Start[h] |-> NameAt(i)]
        /\ DOMAIN known' = QueriesAt(h)
        /\ \A i \in QueriesAt(h) : known'[i] \in {<<DepthAt(h), i>>, Wrong}
        /\ tampered' <=> \/ \E i \in QueriesAt(h) : known'[i] = Wrong
                         \/ \E i \in Start[h] + 1 .. Count : proof'[i].value = Wrong
    BY <1>23, <1>24, <1>a, <2>1
  <2>5. QED
    BY <2>2, <2>3, <2>4, SameReading
<1>26. at' - 1 = h
  BY <1>2, <1>5, <1>13, <1>a
<1>27. QED
  BY <1>1, <1>13, <1>25, <1>26 DEF Verifying

\* The root decides.
LEMMA ReadsRoot ==
  ASSUME LayersInv, Verifying, VerifyRoot
  PROVE  AcceptsOnlyTheData'
<1> DEFINE k == at - 1
<1>1. /\ phase = "verify" /\ VerifierLayers(config)[at].kind = "merkle" /\ UNCHANGED <<proof, reads, tampered>> /\ phase' = "done"
      /\ verdict' = IF known[0] # Wrong /\ known[0] = TreeValue(1) THEN "accept" ELSE "reject"
  BY DEF VerifyRoot
<1>2. Queried /\ Reading(k)
  BY <1>1, QueriedPhases DEF Verifying
<1>3. Height \in Nat /\ config \in Configurations /\ at \in 1 .. Height + 2
  BY <1>1, ConfigTypes DEF LayersInv, Stacked, Walking
<1>4. k = Height + 1
  <2>1. ASSUME k \in 0 .. Height PROVE FALSE
    <3>1. LayerAt(k).kind = "packaging"
      BY <1>3, <2>1, VerifiersKinds
    <3>2. k + 1 = at
      BY <1>3
    <3>3. LayerAt(k) = VerifierLayers(config)[at]
      BY <3>2 DEF LayerAt
    <3>4. QED
      BY <1>1, <3>1, <3>3
  <2>2. QED
    BY <1>3, <2>1
<1>5. DepthAt(k) = 0 /\ QueriesAt(k) = {0}
  <2>1. k \in 0 .. Height + 1
    BY <1>3, <1>4
  <2>2. QueriesAt(k) \subseteq 0 .. Width(k) - 1 /\ QueriesAt(k) # {} /\ Width(k) = 1
    BY <1>2, <1>4, <2>1, LevelQueries, Widths DEF Queried
  <2>3. 0 .. Width(k) - 1 = {0}
    BY <2>2
  <2>4. DepthAt(k) = 0
    BY <1>3, <1>4 DEF DepthAt
  <2>5. QED
    BY <2>2, <2>3, <2>4
<1>6. TreeValue(1) = <<0, 0>> /\ <<0, 0>> # Wrong
  <2>1. 0 \in 0 .. config.log_segments /\ Pow2[0] = 1
    BY <1>3, ConfigTypes, Pow2Values
  <2>2. 0 \in 0 .. Pow2[0] - 1 /\ 0 + Pow2[0] = 1
    BY <2>1
  <2>3. TreeValue(0 + Pow2[0]) = <<0, 0>>
    BY <1>1, <2>1, <2>2, TreeRight
  <2>4. QED
    BY <2>2, <2>3, NotWrong
<1> HIDE DEF k
<1>7. Count \in Nat /\ Start[k] = Count
  BY <1>2, <1>4, NamesRight DEF Count
<1>8. /\ reads = [i \in 1 .. Count |-> NameAt(i)]
      /\ known[0] \in {<<0, 0>>, Wrong}
      /\ proof = [i \in 1 .. Count |-> proof[i]]
      /\ \A i \in 1 .. Count : proof[i] \in {Sent(NameAt(i), RightOf(NameAt(i))), Sent(NameAt(i), Wrong)}
      /\ tampered <=> known[0] = Wrong \/ (\E i \in Count + 1 .. Count : proof[i].value = Wrong)
  BY <1>2, <1>5, <1>7 DEF Reading
<1>9. ~(\E i \in Count + 1 .. Count : proof[i].value = Wrong)
  BY <1>7
<1>10. verdict' = "accept" <=> ~tampered
  BY <1>1, <1>6, <1>8, <1>9
<1>11. reads = [i \in DOMAIN proof |-> proof[i].name]
  <2>1. \A i \in 1 .. Count : proof[i].name = NameAt(i)
    BY <1>8 DEF Sent
  <2>2. DOMAIN proof = 1 .. Count
    BY <1>8
  <2>3. QED
    BY <1>8, <2>1, <2>2
<1>12. QED
  BY <1>1, <1>10, <1>11 DEF AcceptsOnlyTheData

-----------------------------------------------------------------------------
\* Only the data is accepted.

\* The invariant holds at the start.
LEMMA DataInit ==
  ASSUME Init
  PROVE  DataInv
<1>1. LayersInv
  BY InitLayers
<1>2. phase = "add" /\ verdict = "none"
  BY DEF Init
<1>3. QED
  BY <1>1, <1>2 DEF DataInv, Sending, Climbing, Verifying, Judged

\* Before there is a verdict nothing is judged.
LEMMA NotYetJudged ==
  ASSUME DataInv, phase # "done", phase' # "done", verdict' = verdict
  PROVE  Judged'
  BY DEF DataInv, Judged

\* The queries' way in and the requests' way out.
LEMMA QueriesStep ==
  ASSUME DataInv, LayersInv',
         \/ \E segment \in Segments : AddSegment(segment)
         \/ Commit \/ TableStartDecommitment \/ StartDecommitment \/ ReturnRequests
  PROVE  DataInv'
<1>1. /\ phase \in {"add", "query", "start", "return"} /\ phase' \in {"add", "query", "start", "return"}
      /\ verdict' = verdict
  BY DEF AddSegment, Commit, TableStartDecommitment, StartDecommitment, ReturnRequests, verifier
<1>2. Sending' /\ Climbing' /\ Verifying'
  BY <1>1 DEF Sending, Climbing, Verifying
<1>3. QED
  BY <1>1, <1>2, NotYetJudged DEF DataInv

\* The values' way in.
LEMMA ValuesStep ==
  ASSUME DataInv, LayersInv', TableDecommit \/ PackagingDecommit \/ CachingDecommit
  PROVE  DataInv'
<1>1. phase' # "aborted"
  BY DEF LayersInv
<1>2. phase \in {"return", "decommit"} /\ phase' = "decommit" /\ verdict' = verdict
  BY <1>1 DEF TableDecommit, PackagingDecommit, CachingDecommit, Abort, verifier
<1>3. Sending'
  BY TableSends, PackagingSends, CachingSends DEF DataInv
<1>4. Climbing' /\ Verifying'
  BY <1>2 DEF Climbing, Verifying
<1>5. QED
  BY <1>2, <1>3, <1>4, NotYetJudged DEF DataInv

\* The tree.
LEMMA TreesStep ==
  ASSUME DataInv, LayersInv', MerkleDecommit \/ TreeNode \/ TreeReturn
  PROVE  DataInv'
<1>1. phase' # "aborted"
  BY DEF LayersInv
<1>2. /\ phase \in {"decommit", "tree"} /\ phase' \in {"tree", "sent"} /\ verdict' = verdict
      /\ phase' = "sent" => TreeReturn
      /\ TreeReturn => phase' = "sent"
  BY <1>1 DEF MerkleDecommit, TreeNode, TreeReturn, Abort, verifier
<1>3. Climbing'
  <2>1. CASE TreeReturn
    BY <1>2, <2>1 DEF Climbing
  <2>2. QED
    BY <2>1, TreeStarts, TreeTurn DEF DataInv
<1>4. Verifying'
  <2>1. CASE TreeReturn
    BY <1>2, <2>1, TreeEnds DEF DataInv, Verifying
  <2>2. CASE ~TreeReturn
    BY <1>2, <2>2 DEF Verifying
  <2>3. QED
    BY <2>1, <2>2
<1>5. Sending'
  BY <1>2 DEF Sending
<1>6. QED
  BY <1>2, <1>3, <1>4, <1>5, NotYetJudged DEF DataInv

\* The verifier.
LEMMA VerifiersStep ==
  ASSUME DataInv, LayersInv', TableVerify \/ VerifyIntegrity \/ VerifyRoot
  PROVE  DataInv'
<1>1. phase \in {"sent", "verify"} /\ phase' \in {"verify", "done"}
  BY DEF TableVerify, VerifyIntegrity, VerifyRoot
<1>2. Sending' /\ Climbing'
  BY <1>1 DEF Sending, Climbing
<1>3. CASE TableVerify
  <2>1. phase' = "verify" /\ verdict' = verdict
    BY <1>3 DEF TableVerify
  <2>2. Verifying'
    BY <1>3, ReadsRows DEF DataInv
  <2>3. QED
    BY <1>1, <1>2, <2>1, <2>2, NotYetJudged DEF DataInv
<1>4. CASE VerifyIntegrity
  <2>1. Verifying' /\ phase' # "done" /\ verdict' = verdict
    BY <1>4, ReadsLayer DEF DataInv
  <2>2. QED
    BY <1>1, <1>2, <2>1, NotYetJudged DEF DataInv
<1>5. CASE VerifyRoot
  <2>1. phase' = "done"
    BY <1>5 DEF VerifyRoot
  <2>2. Verifying'
    BY <2>1 DEF Verifying
  <2>3. AcceptsOnlyTheData'
    BY <1>5, ReadsRoot DEF DataInv
  <2>4. Judged'
    BY <2>1, <2>3 DEF Judged
  <2>5. QED
    BY <1>2, <2>2, <2>4 DEF DataInv
<1>6. QED
  BY <1>3, <1>4, <1>5

\* It holds where nothing changes.
LEMMA StutterData ==
  ASSUME DataInv, LayersInv', UNCHANGED vars
  PROVE  DataInv'
<1>1. /\ UNCHANGED <<config, layers, rows, integrity>>
      /\ UNCHANGED <<phase, at, queue, proof, known, reads, tampered, verdict>>
  BY DEF vars, prover, verifier
<1>2. Start' = Start /\ Count' = Count /\ \A n : Written(n)' = Written(n)
  BY <1>1, SameNames
<1>3. Sending'
  <2>1. Level(layers[at])' = Level(layers[at])
    <3>1. \A l : Level(l)' = Level(l)
      BY <1>1, SameStack
    <3>2. QED
      BY <1>1, <3>1
  <2>2. QED
    BY <1>1, <1>2, <2>1 DEF DataInv, Sending
<1>4. Climbing'
  <2>1. Climbs(queue, proof)' = Climbs(queue, proof)
    <3>1. \A q, sent : Climbs(q, sent)' = Climbs(q, sent)
      BY <1>1, SameClimb
    <3>2. QED
      BY <1>1, <3>1
  <2>2. QED
    BY <1>1, <2>1 DEF DataInv, Climbing
<1>5. Verifying'
  <2>1. Written(Count)' = Written(Count)
    BY <1>2
  <2>2. Reading(at - 1) => Reading(at - 1)'
    <3>1. PICK k : k = at - 1
      OBVIOUS
    <3>2. Reading(k) => Reading(k)'
      BY <1>1, SameReading DEF Reading
    <3>3. at' - 1 = k
      BY <1>1, <3>1
    <3>4. QED
      BY <3>1, <3>2, <3>3
  <2>3. QED
    BY <1>1, <2>1, <2>2 DEF DataInv, Verifying
<1>6. Judged'
  <2>1. AcceptsOnlyTheData' = AcceptsOnlyTheData
    BY <1>1 DEF AcceptsOnlyTheData
  <2>2. QED
    BY <1>1, <2>1 DEF DataInv, Judged
<1>7. QED
  BY <1>3, <1>4, <1>5, <1>6 DEF DataInv

\* Every step keeps it.
LEMMA DataStep ==
  ASSUME DataInv, [Next]_vars
  PROVE  DataInv'
<1>1. LayersInv'
  BY LayersStep DEF DataInv
<1>2. CASE \/ \E segment \in Segments : AddSegment(segment)
           \/ Commit \/ TableStartDecommitment \/ StartDecommitment \/ ReturnRequests
  BY <1>1, <1>2, QueriesStep
<1>3. CASE TableDecommit \/ PackagingDecommit \/ CachingDecommit
  BY <1>1, <1>3, ValuesStep
<1>4. CASE MerkleDecommit \/ TreeNode \/ TreeReturn
  BY <1>1, <1>4, TreesStep
<1>5. CASE TableVerify \/ VerifyIntegrity \/ VerifyRoot
  BY <1>1, <1>5, VerifiersStep
<1>6. CASE Finished \/ UNCHANGED vars
  BY <1>1, <1>6, StutterData DEF Finished
<1>7. QED
  BY <1>2, <1>3, <1>4, <1>5, <1>6 DEF Next

\* What was sent so far are the right values under the names that the queries
\* determine, and what the verifier has read are the messages of the levels before, its
\* elements being wrong only where a message or an own value was changed.
THEOREM DataInvTheorem == Spec => []DataInv
<1>1. Init => DataInv
  BY DataInit
<1>2. DataInv /\ [Next]_vars => DataInv'
  BY DataStep
<1>3. QED
  BY <1>1, <1>2, PTL DEF Spec

\* The verifier's stack accepts what the prover's stack sent, to the last message, and
\* nothing with a changed message or integrity value: for every height, package,
\* segment and cache, number of friendly layers, and all queries.
THEOREM AcceptsOnlyTheDataTheorem == Spec => []AcceptsOnlyTheData
<1>1. DataInv => AcceptsOnlyTheData
  BY DEF DataInv, Judged, AcceptsOnlyTheData
<1>2. QED
  BY <1>1, DataInvTheorem, PTL
=============================================================================
