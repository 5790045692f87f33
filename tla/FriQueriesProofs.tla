--------------------------- MODULE FriQueriesProofs ---------------------------
(***************************************************************************)
(* The query phase of FRI accepts consistent paths and nothing else, for   *)
(* every list of FRI steps, every size and any number of queries.          *)
(*                                                                         *)
(* The proof is a script: what the prover sends of a layer, and where it   *)
(* starts, follows from the queries (Message, Start), and the verifier     *)
(* reads along it (Scripted, Following).  A query's result is the honest   *)
(* element of its path for as long as nothing was found wrong (Computed),  *)
(* because the cells it is folded from are verified before it is used:     *)
(* those on the paths are results of the layer before, the others come     *)
(* from the proof (Inserted).                                              *)
(***************************************************************************)
EXTENDS FriQueries, FiniteSetTheorems, SequenceTheorems, TLAPS

Index(j, k) == IndexInLayer(query_indices_[j], k)
\* The cell of query j in layer k, and the honest result of the layers below it.
CellOf(j, k) == GetTableProverRowCol(Index(j, k), Step(k))
ResultOf(j, k) == Element(Depth[k], Index(j, k), FALSE)
Columns(k) == 0 .. Pow2[Step(k)] - 1

\* The rows that queries fall on, and those of their cells that are sent.
Touched(k) == {CellOf(j, k)[1] : j \in DOMAIN query_indices_} \X Columns(k)
OnPaths(k) == {CellOf(j, k) : j \in DOMAIN query_indices_}
Transmitted(k) == InOrder(Touched(k) \ OnPaths(k), k)

\* Message j of layer k, how many there are, and what precedes them.
FirstLayerQueries == SecondLayerQueriesToFirstLayerQueries(query_indices_, Step(0))
Message(k, j) ==
  IF k = 0 THEN [name |-> <<0, <<FirstLayerQueries[j], 0>>>>, value |-> Oracle(FirstLayerQueries[j])]
  ELSE Sent(k, Transmitted(k)[j])
Messages(k) == IF k = 0 THEN Len(FirstLayerQueries) ELSE Len(Transmitted(k))
Start[k \in 0 .. n_layers] == IF k = 0 THEN 0 ELSE Start[k - 1] + Messages(k - 1)

Elements == [depth : Nat, index : Nat, cheat : BOOLEAN]
Tape == Seq([name : Nat \X (Nat \X Nat), value : Elements])

\* The parameters: cheats are elements of the committed layers.
Parameters ==
  /\ fri_step_list \in Seq(Nat) /\ n_layers >= 1 /\ log_last \in Nat
  /\ query_indices_ \in [1 .. NumQueries -> 0 .. SizeAt(Depth[1]) - 1]
  /\ cheats \subseteq {Depth[k] : k \in 1 .. n_layers} \X Nat

\* The proof, whose values may have been changed on the way.
SentLayers == IF phase = "decommit" THEN layer_num ELSE n_layers
Scripted ==
  /\ layer_num \in 0 .. n_layers
  /\ proof \in Tape
  /\ Len(proof) = Start[SentLayers]
  /\ \A k \in 0 .. SentLayers - 1 : \A j \in 1 .. Messages(k) :
       /\ proof[Start[k] + j].name = Message(k, j).name
       /\ \/ proof[Start[k] + j].value = Message(k, j).value
          \/ phase # "decommit" /\ proof[Start[k] + j].value = Wrong

\* How far the verifier has come.
ReadLayers ==
  CASE phase \in {"compute", "verify"} -> layer_num + 1
    [] phase = "query" -> layer_num
    [] OTHER -> 0
Following ==
  /\ phase # "done" => verdict = "none"
  /\ phase \in {"decommit", "first"} => reads = <<>> /\ query_results_ = <<>>
  /\ phase \in {"query", "compute", "verify"} =>
       /\ layer_num >= 1
       /\ DOMAIN query_results_ = 1 .. NumQueries /\ Len(query_results_) = NumQueries
       /\ reads = [i \in 1 .. Start[ReadLayers] |-> proof[i].name]
       /\ \A i \in 1 .. Start[layer_num] : proof[i].value # Wrong
  /\ phase \in {"compute", "verify"} => layer_num < n_layers

\* The layers below the current one are consistent on all paths, and ...
Consistent ==
  phase \in {"query", "compute", "verify"} =>
    \A j \in 1 .. NumQueries : \A k \in 1 .. layer_num - 1 : <<Depth[k], Index(j, k)>> \notin cheats
\* ... the results of these layers are right; those of the current one are if it is.
Computed ==
  /\ phase \in {"query", "compute"} =>
       \A j \in 1 .. NumQueries : query_results_[j] = ResultOf(j, layer_num)
  /\ phase = "verify" /\ (\A c \in DOMAIN to_verify : to_verify[c] = Sent(layer_num, c).value) =>
       \A j \in 1 .. NumQueries : query_results_[j] = ResultOf(j, layer_num + 1)

\* The values of a layer that is verified.
Inserted ==
  /\ phase \in {"compute", "verify"} =>
       /\ data_queries = Touched(layer_num) \ OnPaths(layer_num)
       /\ integrity_queries = OnPaths(layer_num)
       /\ \A j \in 1 .. Messages(layer_num) :
            to_verify[Transmitted(layer_num)[j]] = proof[Start[layer_num] + j].value
  /\ phase = "compute" => DOMAIN to_verify = Touched(layer_num) \ OnPaths(layer_num)
  /\ phase = "verify" =>
       /\ DOMAIN to_verify = Touched(layer_num)
       /\ \A j \in 1 .. NumQueries : to_verify[CellOf(j, layer_num)] = ResultOf(j, layer_num)

IInv ==
  /\ TypeOK
  /\ Parameters /\ Scripted /\ Following /\ Consistent /\ Computed /\ Inserted
  /\ AcceptsOnlyConsistentPaths /\ RejectsOnlyInconsistentPaths

-----------------------------------------------------------------------------
\* Induction on the naturals, for sets of numbers, and the powers of two.

LEMMA LeastElement ==
  ASSUME NEW T \in SUBSET Nat, T # {}
  PROVE  \E m \in T : \A n \in T : m <= n
<1> DEFINE R == OpToRel(<, Nat)
<1>1. IsWellFoundedOn(R, Nat)
  BY NatLessThanWellFounded
<1>2. \A x, y \in Nat : <<y, x>> \in R <=> y < x
  BY DEF OpToRel
<1> HIDE DEF R
<1>3. PICK x \in T : \A y \in T : ~ (<<y, x>> \in R)
  BY <1>1, WFMin, Zenon
<1>4. ASSUME NEW y \in T PROVE x <= y
  <2>1. x \in Nat /\ y \in Nat /\ <<y, x>> \notin R
    BY <1>3
  <2>2. ~ (y < x)
    BY <1>2, <2>1
  <2>3. QED
    BY <2>1, <2>2
<1>5. QED
  BY <1>4

\* A set that has 0 and the successor of each of its numbers has every number.
LEMMA SetInduction ==
  ASSUME NEW T, 0 \in T, \A n \in Nat : n \in T => n + 1 \in T
  PROVE  \A n \in Nat : n \in T
<1> DEFINE U == Nat \ T
<1>1. SUFFICES ASSUME U # {} PROVE FALSE
  OBVIOUS
<1>2. PICK m \in U : \A n \in U : m <= n
  <2> HIDE DEF U
  <2>1. U \in SUBSET Nat
    BY DEF U
  <2>2. QED
    BY <1>1, <2>1, LeastElement, Zenon
<1>3. m # 0 /\ m \in Nat
  OBVIOUS
<1>4. m - 1 \in Nat /\ m - 1 \notin U
  BY <1>2, <1>3
<1>5. QED
  BY <1>3, <1>4

\* Powers of two.  (The definition by recursion is a choice of a function that
\* satisfies its equation: there is one, the union of its finite parts.)
LEMMA Pow2Defined ==
  Pow2 = [n \in Nat |-> IF n = 0 THEN 1 ELSE 2 * Pow2[n - 1]]
<1> DEFINE Part(n, f) == f \in [0 .. n -> Nat] /\ f[0] = 1 /\ \A i \in 1 .. n : f[i] = 2 * f[i - 1]
           g == [n \in Nat |-> (CHOOSE f : Part(n, f))[n]]
<1>1. \A n \in Nat : \E f : Part(n, f)
  <2> DEFINE T == {n \in Nat : \E f : Part(n, f)}
  <2>1. 0 \in T
    <3>1. Part(0, [i \in 0 .. 0 |-> 1])
      OBVIOUS
    <3>2. QED
      BY <3>1
  <2>2. ASSUME NEW n \in Nat, n \in T PROVE n + 1 \in T
    <3>1. PICK f : Part(n, f)
      BY <2>2
    <3> DEFINE h == [i \in 0 .. n + 1 |-> IF i = n + 1 THEN 2 * f[n] ELSE f[i]]
    <3>2. \A i \in 0 .. n : f[i] \in Nat
      BY <3>1
    <3>3. h \in [0 .. n + 1 -> Nat]
      BY <3>2
    <3>4. h[0] = 1
      BY <3>1
    <3>5. ASSUME NEW i \in 1 .. n + 1 PROVE h[i] = 2 * h[i - 1]
      <4>1. CASE i = n + 1
        BY <4>1
      <4>2. CASE i \in 1 .. n
        BY <3>1, <4>2
      <4>3. QED
        BY <4>1, <4>2
    <3>6. Part(n + 1, h)
      BY <3>3, <3>4, <3>5
    <3> HIDE DEF h, Part
    <3>7. n + 1 \in Nat /\ \E f1 : Part(n + 1, f1)
      BY <3>6
    <3>8. QED
      BY <3>7
  <2>3. \A n \in Nat : n \in T
    <3> HIDE DEF T
    <3>1. QED
      BY <2>1, <2>2, SetInduction
  <2>4. QED
    BY <2>3
<1>2. ASSUME NEW m \in Nat, NEW n \in Nat, NEW f, NEW h, Part(m, f), Part(n, h)
      PROVE  \A i \in Nat : i <= m /\ i <= n => f[i] = h[i]
  <2> DEFINE T == {i \in Nat : i <= m /\ i <= n => f[i] = h[i]}
  <2>1. 0 \in T
    BY <1>2
  <2>2. ASSUME NEW i \in Nat, i \in T PROVE i + 1 \in T
    <3>1. SUFFICES ASSUME i + 1 <= m, i + 1 <= n PROVE f[i + 1] = h[i + 1]
      OBVIOUS
    <3>2. f[i] = h[i]
      BY <2>2, <3>1
    <3>3. i + 1 \in 1 .. m /\ i + 1 \in 1 .. n /\ (i + 1) - 1 = i
      BY <3>1
    <3>4. QED
      BY <1>2, <3>2, <3>3
  <2>3. \A i \in Nat : i \in T
    <3> HIDE DEF T
    <3>1. QED
      BY <2>1, <2>2, SetInduction
  <2>4. QED
    BY <2>3
<1>3. ASSUME NEW n \in Nat PROVE g[n] = IF n = 0 THEN 1 ELSE 2 * g[n - 1]
  <2> DEFINE F(k) == CHOOSE f : Part(k, f)
  <2>1. \A k \in Nat : Part(k, F(k))
    <3> HIDE DEF Part
    <3>1. QED
      BY <1>1
  <2>2. \A k \in Nat : g[k] = F(k)[k]
    OBVIOUS
  <2> HIDE DEF g, F
  <2>3. CASE n = 0
    BY <2>1, <2>2, <2>3
  <2>4. CASE n # 0
    <3>1. n - 1 \in Nat /\ n \in 1 .. n /\ n - 1 <= n - 1 /\ n - 1 <= n
      BY <2>4
    <3>2. F(n)[n] = 2 * F(n)[n - 1]
      BY <2>1, <3>1
    <3>3. F(n)[n - 1] = F(n - 1)[n - 1]
      <4> HIDE DEF Part
      <4>1. Part(n, F(n)) /\ Part(n - 1, F(n - 1))
        BY <2>1, <3>1
      <4>2. QED
        BY <1>2, <3>1, <4>1
    <3>4. QED
      BY <2>2, <2>4, <3>1, <3>2, <3>3
  <2>5. QED
    BY <2>3, <2>4
<1>4. g = [n \in Nat |-> IF n = 0 THEN 1 ELSE 2 * g[n - 1]]
  <2> DEFINE h == [n \in Nat |-> IF n = 0 THEN 1 ELSE 2 * g[n - 1]]
  <2>1. DOMAIN g = Nat /\ DOMAIN h = Nat /\ g = [n \in Nat |-> g[n]]
    OBVIOUS
  <2>2. \A n \in Nat : g[n] = h[n]
    <3>1. \A n \in Nat : h[n] = IF n = 0 THEN 1 ELSE 2 * g[n - 1]
      OBVIOUS
    <3> HIDE DEF g, h
    <3>2. QED
      BY <1>3, <3>1
  <2>3. h = [n \in Nat |-> h[n]]
    OBVIOUS
  <2> HIDE DEF g, h
  <2>4. g = h
    BY <2>1, <2>2, <2>3
  <2>5. QED
    BY <2>4 DEF h
<1> HIDE DEF g
<1>5. QED
  BY <1>4 DEF Pow2

\* The powers of two: Pow2 unfolded, which is defined recursively over Nat.
LEMMA Pow2Values ==
  /\ Pow2[0] = 1 /\ Pow2[1] = 2
  /\ \A n \in Nat : Pow2[n] \in Nat /\ Pow2[n] >= 1 /\ Pow2[n + 1] = 2 * Pow2[n]
<1>1. \A n \in Nat : Pow2[n] = IF n = 0 THEN 1 ELSE 2 * Pow2[n - 1]
  <2> DEFINE P == Pow2
  <2>1. P = [n \in Nat |-> IF n = 0 THEN 1 ELSE 2 * P[n - 1]]
    BY Pow2Defined
  <2> HIDE DEF P
  <2>2. \A n \in Nat : P[n] = IF n = 0 THEN 1 ELSE 2 * P[n - 1]
    BY <2>1
  <2>3. QED
    BY <2>2 DEF P
<1>2. Pow2[0] = 1
  BY <1>1
<1>3. \A n \in Nat : Pow2[n + 1] = 2 * Pow2[n]
  <2> SUFFICES ASSUME NEW n \in Nat PROVE Pow2[n + 1] = 2 * Pow2[n]
    OBVIOUS
  <2>1. n + 1 \in Nat /\ n + 1 # 0 /\ (n + 1) - 1 = n
    OBVIOUS
  <2>2. QED
    BY <1>1, <2>1
<1> DEFINE T == {n \in Nat : Pow2[n] \in Nat /\ Pow2[n] >= 1}
<1>4. \A n \in Nat : n \in T
  <2>1. 0 \in T
    BY <1>2
  <2>2. ASSUME NEW n \in Nat, n \in T PROVE n + 1 \in T
    BY <1>3, <2>2
  <2> HIDE DEF T
  <2>3. QED
    BY <2>1, <2>2, SetInduction
<1>5. Pow2[1] = 2
  <2>1. Pow2[0 + 1] = 2 * Pow2[0]
    BY <1>3
  <2>2. QED
    BY <1>2, <2>1
<1>6. QED
  BY <1>2, <1>3, <1>4, <1>5

\* They grow, and double at the least.
LEMMA Pow2Grows ==
  ASSUME NEW a \in Nat, NEW b \in Nat, a <= b
  PROVE  Pow2[a] <= Pow2[b] /\ (a < b => 2 * Pow2[a] <= Pow2[b])
<1> DEFINE T == {n \in Nat : \A c \in Nat :
                 c <= n => Pow2[c] <= Pow2[n] /\ (c < n => 2 * Pow2[c] <= Pow2[n])}
<1>1. 0 \in T
  BY Pow2Values
<1>2. ASSUME NEW n \in Nat, n \in T PROVE n + 1 \in T
  <2>1. SUFFICES ASSUME NEW c \in Nat, c <= n + 1
                 PROVE  Pow2[c] <= Pow2[n + 1] /\ (c < n + 1 => 2 * Pow2[c] <= Pow2[n + 1])
    BY <1>2
  <2>2. Pow2[n + 1] = 2 * Pow2[n] /\ Pow2[n] \in Nat /\ Pow2[c] \in Nat
    BY Pow2Values
  <2>3. CASE c = n + 1
    BY <2>2, <2>3
  <2>4. CASE c <= n
    <3>1. Pow2[c] <= Pow2[n]
      BY <1>2, <2>4
    <3>2. QED
      BY <2>2, <2>4, <3>1
  <2>5. QED
    BY <2>1, <2>3, <2>4
<1>3. \A n \in Nat : n \in T
  <2> HIDE DEF T
  <2>1. QED
    BY <1>1, <1>2, SetInduction
<1>4. QED
  BY <1>3

\* Quotients by powers of two.
LEMMA Halves ==
  ASSUME NEW n \in Nat, NEW k \in Nat
  PROVE  /\ n \div Pow2[0] = n /\ n \div Pow2[k] \in Nat
         /\ (n \div Pow2[k]) \div 2 = n \div Pow2[k + 1]
         /\ (n \div Pow2[k]) * Pow2[k] <= n /\ n < (n \div Pow2[k]) * Pow2[k] + Pow2[k]
<1>1. Pow2[0] = 1 /\ Pow2[k] \in Nat /\ Pow2[k] >= 1 /\ Pow2[k + 1] = 2 * Pow2[k]
  BY Pow2Values
<1>2. ASSUME NEW p \in Nat, p >= 1
      PROVE  /\ n \div p \in Nat /\ (n \div p) * p <= n /\ n < (n \div p) * p + p
             /\ (n \div p) \div 2 = n \div (2 * p)
  BY <1>2
<1>3. n \div 1 = n
  OBVIOUS
<1>4. QED
  BY <1>1, <1>2, <1>3

\* A quotient of a quotient.
LEMMA DivisionTwice ==
  ASSUME NEW n \in Nat, NEW a \in Nat, NEW b \in Nat
  PROVE  (n \div Pow2[a]) \div Pow2[b] = n \div Pow2[a + b]
<1> DEFINE m == n \div Pow2[a]
           T == {c \in Nat : m \div Pow2[c] = n \div Pow2[a + c]}
<1>1. m \in Nat
  BY Halves
<1>2. 0 \in T
  <2>1. a + 0 = a
    OBVIOUS
  <2> HIDE DEF m
  <2>2. m \div Pow2[0] = m
    BY <1>1, Halves
  <2>3. QED
    BY <2>1, <2>2 DEF m
<1>3. ASSUME NEW c \in Nat, c \in T PROVE c + 1 \in T
  <2>1. a + c \in Nat /\ a + (c + 1) = (a + c) + 1
    OBVIOUS
  <2> DEFINE u == m \div Pow2[c]
             v == n \div Pow2[a + c]
  <2>2. u = v
    BY <1>3
  <2>3. v \div 2 = n \div Pow2[(a + c) + 1]
    BY <2>1, Halves
  <2> HIDE DEF m
  <2>4. u \div 2 = m \div Pow2[c + 1]
    BY <1>1, Halves
  <2> HIDE DEF u, v
  <2>5. m \div Pow2[c + 1] = n \div Pow2[a + (c + 1)]
    BY <2>1, <2>2, <2>3, <2>4
  <2>6. QED
    BY <2>5
<1>4. \A c \in Nat : c \in T
  <2> HIDE DEF T
  <2>1. QED
    BY <1>2, <1>3, SetInduction
<1>5. QED
  BY <1>4

\* The product of two powers of two.
LEMMA Pow2Adds ==
  ASSUME NEW a \in Nat, NEW b \in Nat
  PROVE  Pow2[a + b] = Pow2[a] * Pow2[b]
<1> DEFINE T == {c \in Nat : Pow2[a + c] = Pow2[a] * Pow2[c]}
<1>1. 0 \in T
  <2>1. a + 0 = a /\ Pow2[0] = 1 /\ Pow2[a] \in Nat
    BY Pow2Values
  <2>2. QED
    BY <2>1
<1>2. ASSUME NEW c \in Nat, c \in T PROVE c + 1 \in T
  <2>1. a + c \in Nat /\ a + (c + 1) = (a + c) + 1
    OBVIOUS
  <2>2. /\ Pow2[(a + c) + 1] = 2 * Pow2[a + c] /\ Pow2[c + 1] = 2 * Pow2[c]
        /\ Pow2[a] \in Nat /\ Pow2[c] \in Nat
    BY <2>1, Pow2Values
  <2>3. Pow2[a + c] = Pow2[a] * Pow2[c]
    BY <1>2
  <2>4. \A x, y \in Nat : 2 * (x * y) = x * (2 * y)
    OBVIOUS
  <2>5. Pow2[a + (c + 1)] = Pow2[a] * Pow2[c + 1]
    BY <2>1, <2>2, <2>3, <2>4
  <2>6. QED
    BY <2>5
<1>3. \A c \in Nat : c \in T
  <2> HIDE DEF T
  <2>1. QED
    BY <1>1, <1>2, SetInduction
<1>4. QED
  BY <1>3

\* Row and column: the quotient and the remainder of a position.
LEMMA QuotientAndRemainder ==
  ASSUME NEW a \in Nat, NEW p \in Nat, p >= 1, NEW c \in 0 .. p - 1
  PROVE  (a * p + c) \div p = a /\ (a * p + c) % p = c
<1> DEFINE n == a * p + c
           q == n \div p
<1>1. n \in Nat /\ a * p \in Nat
  OBVIOUS
<1>2. q \in Nat /\ q * p <= n /\ n < q * p + p /\ n = q * p + (n % p)
  <2>1. \A x \in Nat : /\ x \div p \in Nat /\ (x \div p) * p <= x /\ x < (x \div p) * p + p
                       /\ x % p \in Int
    OBVIOUS
  <2>2. \A x \in Nat : x % p = x - p * (x \div p)
    OBVIOUS
  <2>3. \A x \in Nat : p * x = x * p /\ x * p \in Nat
    OBVIOUS
  <2> HIDE DEF n
  <2>4. q \in Nat /\ q * p <= n /\ n < q * p + p /\ n % p \in Int
    BY <1>1, <2>1
  <2>5. n % p = n - p * q /\ p * q = q * p /\ q * p \in Nat
    BY <1>1, <2>2, <2>3, <2>4
  <2> HIDE DEF q
  <2>6. n = q * p + (n % p)
    BY <1>1, <2>4, <2>5
  <2>7. QED
    BY <2>4, <2>6
<1>3. \A x, y \in Nat : x < y => x * p + p <= y * p
  OBVIOUS
<1>4. \A x \in Nat : x * p \in Nat
  OBVIOUS
<1> HIDE DEF q
<1>5. ~ (q < a)
  <2>1. q < a => q * p + p <= a * p
    BY <1>2, <1>3
  <2>2. QED
    BY <1>1, <1>2, <1>4, <2>1
<1>6. ~ (a < q)
  <2>1. a < q => a * p + p <= q * p
    BY <1>2, <1>3
  <2>2. QED
    BY <1>1, <1>2, <1>4, <2>1
<1>7. q = a
  BY <1>2, <1>5, <1>6
<1>8. n % p = c
  <2>1. n = a * p + (n % p) /\ n = a * p + c
    BY <1>2, <1>7
  <2>2. n % p \in Int
    BY <1>1
  <2>3. QED
    BY <1>1, <2>1, <2>2
<1>9. QED
  BY <1>7, <1>8 DEF q

\* A position is where its row and its column say, and in the row's bounds.
LEMMA RowAndColumn ==
  ASSUME NEW n \in Nat, NEW s \in Nat
  PROVE  /\ n \div Pow2[s] \in Nat /\ n % Pow2[s] \in 0 .. Pow2[s] - 1
         /\ (n \div Pow2[s]) * Pow2[s] + (n % Pow2[s]) = n
<1>1. Pow2[s] \in Nat /\ Pow2[s] >= 1
  BY Pow2Values
<1>2. ASSUME NEW p \in Nat, p >= 1
      PROVE  n \div p \in Nat /\ n % p \in 0 .. p - 1 /\ (n \div p) * p + (n % p) = n
  <2> DEFINE q == n \div p
             r == n % p
  <2>1. q \in Nat /\ r \in 0 .. p - 1
    BY <1>2
  <2>2. r = n - p * q
    BY <1>2
  <2>3. \A x \in Nat : p * x = x * p /\ x * p \in Nat
    BY <1>2
  <2>4. p * q = q * p /\ q * p \in Nat
    BY <2>1, <2>3
  <2>5. r \in Int
    BY <1>2
  <2> HIDE DEF q, r
  <2>6. q * p + r = n
    BY <2>2, <2>4, <2>5
  <2>7. q = n \div p /\ r = n % p
    BY DEF q, r
  <2>8. QED
    BY <2>1, <2>6, <2>7, Zenon
<1>3. QED
  BY <1>1, <1>2

\* A quotient's bound.
LEMMA DivisionBound ==
  ASSUME NEW a \in Nat, NEW b \in Nat, NEW n \in Nat, n < Pow2[a + b]
  PROVE  n \div Pow2[b] < Pow2[a]
<1> DEFINE q == n \div Pow2[b]
<1>1. Pow2[a] \in Nat /\ Pow2[b] \in Nat /\ Pow2[b] >= 1 /\ Pow2[a + b] = Pow2[a] * Pow2[b]
  BY Pow2Adds, Pow2Values
<1>2. q \in Nat /\ q * Pow2[b] <= n
  BY Halves
<1>3. \A x, y, z \in Nat : x >= y => x * z >= y * z /\ x * z \in Nat /\ y * z \in Nat
  OBVIOUS
<1> HIDE DEF q
<1>4. q >= Pow2[a] => q * Pow2[b] >= Pow2[a] * Pow2[b] /\ q * Pow2[b] \in Nat /\ Pow2[a] * Pow2[b] \in Nat
  BY <1>1, <1>2, <1>3
<1>5. ~ (q >= Pow2[a])
  BY <1>1, <1>2, <1>4
<1>6. QED
  BY <1>1, <1>2, <1>5 DEF q

-----------------------------------------------------------------------------
\* A set in increasing order: the k-th element is the one with k - 1 below it.

\* The members of a set of numbers under x.
Below(S, x) == {y \in S : y < x}

\* Every position of an ascending list of a set's members is that of one of them.
LEMMA EveryRank ==
  ASSUME NEW b \in Nat, NEW S \in SUBSET (0 .. b - 1)
  PROVE  /\ IsFiniteSet(S) /\ Cardinality(S) \in Nat
         /\ \A k \in 1 .. Cardinality(S) : \E x \in S : Cardinality(Below(S, x)) = k - 1
<1>1. \A c \in Nat : \A R \in SUBSET (0 .. c - 1) : IsFiniteSet(R) /\ Cardinality(R) \in Nat
  <2> SUFFICES ASSUME NEW c \in Nat, NEW R \in SUBSET (0 .. c - 1)
               PROVE  IsFiniteSet(R) /\ Cardinality(R) \in Nat
    OBVIOUS
  <2>1. 0 \in Int /\ c - 1 \in Int
    OBVIOUS
  <2>2. IsFiniteSet(0 .. c - 1)
    BY <2>1, FS_Interval
  <2>3. IsFiniteSet(R)
    BY <2>2, FS_Subset
  <2>4. QED
    BY <2>3, FS_CardinalityType
<1> DEFINE Ranked(R) == \A k \in 1 .. Cardinality(R) :
                          \E x \in R : Cardinality(Below(R, x)) = k - 1
           U == {c \in Nat : \A R \in SUBSET (0 .. c - 1) : Ranked(R)}
<1>2. 0 \in U
  <2>1. ASSUME NEW R \in SUBSET (0 .. 0 - 1) PROVE Ranked(R)
    <3>1. R = {}
      OBVIOUS
    <3>2. Cardinality(R) = 0
      BY <3>1, FS_EmptySet
    <3>3. QED
      BY <3>2
  <2> HIDE DEF Ranked
  <2>2. QED
    BY <2>1
<1>3. ASSUME NEW c \in Nat, c \in U PROVE c + 1 \in U
  <2>1. ASSUME NEW R \in SUBSET (0 .. (c + 1) - 1) PROVE Ranked(R)
    <3> DEFINE Q == R \ {c}
    <3>1. Q \in SUBSET (0 .. c - 1) /\ R \in SUBSET (0 .. (c + 1) - 1) /\ c + 1 \in Nat
      OBVIOUS
    <3>2. Ranked(Q)
      <4> HIDE DEF Ranked, Q
      <4>1. QED
        BY <1>3, <3>1
    <3>3. /\ IsFiniteSet(Q) /\ Cardinality(Q) \in Nat
          /\ IsFiniteSet(R) /\ Cardinality(R) \in Nat
      BY <1>1, <3>1
    <3>4. CASE c \notin R
      <4>1. Q = R
        BY <3>4
      <4> HIDE DEF Ranked, Q
      <4>2. QED
        BY <3>2, <4>1
    <3>5. CASE c \in R
      <4>1. Cardinality(Q) = Cardinality(R) - 1
        BY <3>3, <3>5, FS_RemoveElement
      <4>2. \A x \in Q : x < c /\ x \in Nat /\ x \in R
        BY <3>1
      <4>3. Below(R, c) = Q
        <5>1. \A x \in R : x < c <=> x # c
          BY <3>1
        <5>2. QED
          BY <5>1 DEF Below
      <4>4. \A x \in Q : Below(R, x) = Below(Q, x)
        BY <3>1 DEF Below
      <4> HIDE DEF Q
      <4>5. ASSUME NEW k \in 1 .. Cardinality(R)
            PROVE  \E x \in R : Cardinality(Below(R, x)) = k - 1
        <5>1. CASE k = Cardinality(R)
          BY <3>5, <4>1, <4>3, <5>1
        <5>2. CASE k # Cardinality(R)
          <6>1. k \in 1 .. Cardinality(Q)
            BY <3>3, <4>1, <5>2
          <6>2. PICK x \in Q : Cardinality(Below(Q, x)) = k - 1
            BY <3>2, <6>1
          <6>3. QED
            BY <4>2, <4>4, <6>2
        <5>3. QED
          BY <5>1, <5>2
      <4>6. QED
        BY <4>5
    <3>6. QED
      BY <3>4, <3>5
  <2> HIDE DEF Ranked
  <2>2. QED
    BY <2>1
<1>4. \A c \in Nat : c \in U
  <2> HIDE DEF U
  <2>1. QED
    BY <1>2, <1>3, SetInduction
<1>5. QED
  BY <1>1, <1>4

\* The larger of two members has the later position.
LEMMA RankGrows ==
  ASSUME NEW b \in Nat, NEW S \in SUBSET (0 .. b - 1), NEW x \in S, NEW y \in S, x < y
  PROVE  Cardinality(Below(S, x)) < Cardinality(Below(S, y))
<1>1. /\ Below(S, x) \in SUBSET (0 .. b - 1) /\ Below(S, y) \in SUBSET (0 .. b - 1)
      /\ x \notin Below(S, x) /\ Below(S, x) \cup {x} \in SUBSET Below(S, y)
  <2>1. ~ (x < x) /\ \A z \in S : z < x => z < y
    OBVIOUS
  <2>2. Below(S, x) \subseteq S /\ Below(S, y) \subseteq S
    BY DEF Below
  <2>3. x \notin Below(S, x) /\ \A z : z \in Below(S, x) \cup {x} => z \in Below(S, y)
    BY <2>1 DEF Below
  <2>4. QED
    BY <2>2, <2>3
<1>2. /\ IsFiniteSet(Below(S, x)) /\ Cardinality(Below(S, x)) \in Nat
      /\ IsFiniteSet(Below(S, y)) /\ Cardinality(Below(S, y)) \in Nat
  BY <1>1, EveryRank
<1>3. Cardinality(Below(S, x) \cup {x}) = Cardinality(Below(S, x)) + 1
  BY <1>1, <1>2, FS_AddElement
<1>4. Cardinality(Below(S, x) \cup {x}) <= Cardinality(Below(S, y))
  BY <1>1, <1>2, FS_Subset
<1>5. QED
  BY <1>2, <1>3, <1>4

\* The definition of a function by recursion on an interval has a solution.
LEMMA IntervalRecursion ==
  ASSUME NEW N \in Nat, NEW S, NEW base \in S, NEW F \in [(1 .. N) \X S -> S]
  PROVE  \E f \in [0 .. N -> S] :
           f[0] = base /\ \A n \in 1 .. N : f[n] = F[<<n, f[n - 1]>>]
<1> DEFINE Part(m, f) == f \in [0 .. m -> S] /\ f[0] = base
                           /\ \A n \in 1 .. m : f[n] = F[<<n, f[n - 1]>>]
           T == {m \in Nat : m <= N => \E f : Part(m, f)}
<1>1. 0 \in T
  <2>1. Part(0, [n \in 0 .. 0 |-> base])
    OBVIOUS
  <2> HIDE DEF Part
  <2>2. QED
    BY <2>1
<1>2. ASSUME NEW m \in Nat, m \in T PROVE m + 1 \in T
  <2> SUFFICES ASSUME m + 1 <= N PROVE \E f : Part(m + 1, f)
    OBVIOUS
  <2>1. PICK f : Part(m, f)
    BY <1>2
  <2> DEFINE h == [n \in 0 .. m + 1 |-> IF n = m + 1 THEN F[<<m + 1, f[m]>>] ELSE f[n]]
  <2>2. \A n \in 0 .. m : f[n] \in S
    BY <2>1
  <2>3. m \in 0 .. m /\ m + 1 \in 1 .. N
    OBVIOUS
  <2>4. F[<<m + 1, f[m]>>] \in S
    BY <2>2, <2>3
  <2>5. h \in [0 .. m + 1 -> S]
    BY <2>2, <2>4
  <2>6. h[0] = base
    BY <2>1
  <2>7. ASSUME NEW n \in 1 .. m + 1 PROVE h[n] = F[<<n, h[n - 1]>>]
    <3>1. CASE n = m + 1
      <4>1. h[n] = F[<<m + 1, f[m]>>] /\ n - 1 = m /\ h[n - 1] = f[m]
        BY <3>1
      <4> HIDE DEF h
      <4>2. QED
        BY <3>1, <4>1
    <3>2. CASE n \in 1 .. m
      BY <2>1, <3>2
    <3>3. QED
      BY <3>1, <3>2
  <2>8. Part(m + 1, h)
    BY <2>5, <2>6, <2>7
  <2> HIDE DEF Part, h
  <2>9. QED
    BY <2>8
<1>3. \A m \in Nat : m \in T
  <2> HIDE DEF T
  <2>1. QED
    BY <1>1, <1>2, SetInduction
<1>4. PICK f : Part(N, f)
  <2> HIDE DEF Part
  <2>1. QED
    BY <1>3
<1>5. QED
  BY <1>4

\* The list of a set's members by their positions has each of them once.
Ascending(S) ==
  [k \in 1 .. Cardinality(S) |-> CHOOSE x \in S : Cardinality(Below(S, x)) = k - 1]
LEMMA AscendingLists ==
  ASSUME NEW b \in Nat, NEW S \in SUBSET (0 .. b - 1)
  PROVE  /\ Ascending(S) \in Seq(S) /\ Len(Ascending(S)) = Cardinality(S) /\ Range(Ascending(S)) = S
         /\ \A i, j \in 1 .. Len(Ascending(S)) : i < j => Ascending(S)[i] < Ascending(S)[j]
<1> DEFINE l == Cardinality(S)
           f == Ascending(S)
           Rank(x) == Cardinality(Below(S, x))
<1>1. IsFiniteSet(S) /\ l \in Nat /\ \A k \in 1 .. l : \E x \in S : Rank(x) = k - 1
  BY EveryRank
<1>2. f = [k \in 1 .. l |-> CHOOSE x \in S : Rank(x) = k - 1]
  BY DEF Ascending
<1>3. \A x, y \in S : x < y => Rank(x) < Rank(y)
  BY RankGrows
<1>4. \A x \in S : Rank(x) \in Nat /\ Rank(x) + 1 <= l /\ x \in Nat
  <2> SUFFICES ASSUME NEW x \in S PROVE Rank(x) \in Nat /\ Rank(x) + 1 <= l /\ x \in Nat
    OBVIOUS
  <2>1. /\ Below(S, x) \in SUBSET (0 .. b - 1) /\ Below(S, x) \in SUBSET (S \ {x})
        /\ x \in Nat
    <3>1. x \in Nat /\ ~ (x < x)
      OBVIOUS
    <3>2. \A z : z \in Below(S, x) => z \in S \ {x}
      BY <3>1 DEF Below
    <3>3. QED
      BY <3>1, <3>2
  <2>2. Rank(x) \in Nat
    BY <2>1, EveryRank
  <2>3. IsFiniteSet(S \ {x}) /\ Cardinality(S \ {x}) = l - 1
    BY <1>1, FS_RemoveElement
  <2>4. Rank(x) <= l - 1
    BY <2>1, <2>3, FS_Subset
  <2>5. QED
    BY <1>1, <2>1, <2>2, <2>4
<1> HIDE DEF l, f, Rank
<1>5. \A k \in 1 .. l : f[k] \in S /\ Rank(f[k]) = k - 1
  BY <1>1, <1>2
<1>6. f \in [1 .. l -> S]
  BY <1>2, <1>5
<1>7. f \in Seq(S) /\ Len(f) = l /\ DOMAIN f = 1 .. l
  BY <1>1, <1>6
<1>8. ASSUME NEW i \in 1 .. l, NEW j \in 1 .. l, i < j PROVE f[i] < f[j]
  <2>1. f[i] \in S /\ f[j] \in S /\ Rank(f[i]) = i - 1 /\ Rank(f[j]) = j - 1
    BY <1>5
  <2>2. f[i] # f[j]
    <3>1. i - 1 # j - 1
      BY <1>1, <1>8
    <3>2. QED
      BY <2>1, <3>1
  <2>3. ~ (f[j] < f[i])
    <3>1. ASSUME f[j] < f[i] PROVE FALSE
      <4>1. Rank(f[j]) < Rank(f[i])
        BY <1>3, <2>1, <3>1, Zenon
      <4>2. j - 1 < i - 1
        BY <2>1, <4>1
      <4>3. QED
        BY <1>1, <1>8, <4>2
    <3>2. QED
      BY <3>1
  <2>4. f[i] \in Nat /\ f[j] \in Nat
    BY <1>4, <2>1
  <2>5. QED
    BY <2>2, <2>3, <2>4
<1>9. ASSUME NEW x \in S PROVE x \in Range(f)
  <2>1. Rank(x) + 1 \in 1 .. l
    BY <1>1, <1>4
  <2>2. f[Rank(x) + 1] \in S /\ Rank(f[Rank(x) + 1]) = Rank(x)
    BY <1>4, <1>5, <2>1
  <2>3. f[Rank(x) + 1] = x
    <3> DEFINE y == f[Rank(x) + 1]
    <3>1. y \in S /\ Rank(y) = Rank(x) /\ Rank(x) \in Nat /\ x \in Nat /\ y \in Nat
      BY <1>4, <2>2
    <3> HIDE DEF y
    <3>2. ~ (x < y) /\ ~ (y < x)
      <4>1. ~ (Rank(x) < Rank(x))
        BY <3>1
      <4>2. x < y => Rank(x) < Rank(y)
        BY <1>3, <3>1, Zenon
      <4>3. y < x => Rank(y) < Rank(x)
        BY <1>3, <3>1, Zenon
      <4>4. QED
        BY <3>1, <4>1, <4>2, <4>3
    <3>3. x = y
      BY <3>1, <3>2
    <3>4. QED
      BY <3>3 DEF y
  <2>4. QED
    BY <1>7, <2>1, <2>3 DEF Range
<1>10. Range(f) = S
  BY <1>5, <1>7, <1>9 DEF Range
<1>11. QED
  BY <1>7, <1>8, <1>10 DEF f, l

\* InOrder lists each cell once.
LEMMA CellsInOrder ==
  ASSUME NEW k, Step(k) \in Nat, NEW b \in Nat,
         NEW C \in SUBSET ((0 .. b - 1) \X Columns(k)), NEW L, L = InOrder(C, k)
  PROVE  /\ L \in Seq(C) /\ Len(L) \in Nat /\ DOMAIN L = 1 .. Len(L) /\ Range(L) = C
         /\ \A i, j \in 1 .. Len(L) : L[i] = L[j] => i = j
<1> DEFINE p == Pow2[Step(k)]
           At(c) == c[1] * p + c[2]
           S == {At(c) : c \in C}
           f == Ascending(S)
           Place(i) == GetTableProverRowCol(i, Step(k))
<1>1. p \in Nat /\ p >= 1
  BY Pow2Values
<1>2. L = [n \in 1 .. Cardinality(S) |-> Place(f[n])]
  BY DEF InOrder, Below, Ascending
<1> HIDE DEF p
<1>3. ASSUME NEW c \in C PROVE At(c) \in 0 .. b * p - 1 /\ Place(At(c)) = c
  <2>1. c = <<c[1], c[2]>> /\ c[1] \in 0 .. b - 1 /\ c[2] \in 0 .. p - 1
    BY DEF Columns, p
  <2>2. At(c) \div p = c[1] /\ At(c) % p = c[2]
    BY <1>1, <2>1, QuotientAndRemainder
  <2>3. Place(At(c)) = c
    BY <2>1, <2>2 DEF GetTableProverRowCol, GetTableProverRow, GetTableProverCol, p
  <2>4. \A x, y, z \in Nat : x + 1 <= y => x * z + z <= y * z /\ x * z \in Nat /\ y * z \in Nat
    OBVIOUS
  <2>5. c[1] * p + p <= b * p /\ c[1] * p \in Nat /\ b * p \in Nat
    <3>1. c[1] \in Nat /\ c[1] + 1 <= b
      BY <2>1
    <3>2. QED
      BY <1>1, <2>4, <3>1
  <2>6. QED
    BY <1>1, <2>1, <2>3, <2>5
<1>4. b * p \in Nat /\ S \in SUBSET (0 .. b * p - 1) /\ S \in SUBSET Nat
  <2>1. b * p \in Nat
    BY <1>1
  <2> HIDE DEF At
  <2>2. S \in SUBSET (0 .. b * p - 1)
    BY <1>3, <2>1
  <2>3. (0 .. b * p - 1) \in SUBSET Nat
    BY <2>1
  <2>4. QED
    BY <2>1, <2>2, <2>3
<1>5. \A i \in S : \E c \in C : i = At(c) /\ Place(i) = c
  BY <1>3
<1>6. \A c \in C : At(c) \in S /\ Place(At(c)) = c
  BY <1>3
<1> HIDE DEF At, S, Place
<1>7. /\ f \in Seq(S) /\ Len(f) = Cardinality(S) /\ Range(f) = S
      /\ \A i, j \in 1 .. Len(f) : i < j => f[i] < f[j]
  <2> DEFINE m == b * p
  <2> HIDE DEF m
  <2>1. m \in Nat /\ S \in SUBSET (0 .. m - 1)
    BY <1>4 DEF m
  <2>2. QED
    BY <2>1, AscendingLists
<1> DEFINE l == Len(f)
<1>8. l \in Nat /\ DOMAIN f = 1 .. l /\ L = [n \in 1 .. l |-> Place(f[n])] /\ \A n \in 1 .. l : f[n] \in S
  <2>1. l = Cardinality(S)
    BY <1>7
  <2>2. L = [n \in 1 .. l |-> Place(f[n])]
    BY <1>2, <2>1
  <2> HIDE DEF f
  <2>3. QED
    BY <1>7, <2>2
<1> HIDE DEF f, l
<1>9. \A n \in 1 .. l : L[n] \in C /\ At(L[n]) = f[n]
  BY <1>5, <1>8
<1>10. L \in [1 .. l -> C]
  BY <1>8, <1>9
<1>11. L \in Seq(C) /\ Len(L) = l /\ DOMAIN L = 1 .. l
  BY <1>8, <1>10
<1>12. ASSUME NEW i \in 1 .. l, NEW j \in 1 .. l, L[i] = L[j] PROVE i = j
  <2>1. f[i] = f[j] /\ f[i] \in Nat
    <3>1. f[i] = f[j]
      BY <1>9, <1>12
    <3>2. f[i] \in S
      BY <1>8
    <3>3. QED
      BY <1>4, <3>1, <3>2
  <2>2. (i < j => f[i] < f[j]) /\ (j < i => f[j] < f[i])
    BY <1>7 DEF l
  <2>3. i \in Nat /\ j \in Nat
    BY <1>8
  <2>4. QED
    BY <2>1, <2>2, <2>3
<1>13. Range(L) = C
  <2>1. ASSUME NEW c \in C PROVE c \in Range(L)
    <3>1. At(c) \in S /\ Place(At(c)) = c
      BY <1>6
    <3>2. PICK n \in 1 .. l : f[n] = At(c)
      BY <1>7, <1>8, <3>1 DEF Range
    <3>3. L[n] = c
      BY <1>8, <3>1, <3>2
    <3>4. QED
      BY <1>11, <3>3 DEF Range
  <2>2. \A c \in Range(L) : c \in C
    BY <1>9, <1>11 DEF Range
  <2>3. QED
    BY <2>1, <2>2
<1>14. QED
  BY <1>8, <1>11, <1>12, <1>13

-----------------------------------------------------------------------------
\* Layers and their indices.

\* The layers' depths.
LEMMA DepthValues ==
  ASSUME Parameters
  PROVE  /\ n_layers \in Nat /\ n_layers >= 1 /\ log_last \in Nat /\ Depth[0] = 0
         /\ \A k \in 0 .. n_layers : Depth[k] \in Nat
         /\ \A k \in 0 .. n_layers - 1 : Step(k) \in Nat /\ Depth[k + 1] = Depth[k] + Step(k)
<1> DEFINE N == n_layers
           list == fri_step_list
           F == [x \in (1 .. N) \X Nat |-> x[2] + list[x[1]]]
<1>1. N \in Nat /\ N >= 1 /\ log_last \in Nat /\ \A k \in 1 .. N : list[k] \in Nat
  BY DEF Parameters, n_layers
<1>2. F \in [(1 .. N) \X Nat -> Nat]
  BY <1>1
<1>3. \A k \in 1 .. N : \A d \in Nat : F[<<k, d>>] = d + list[k]
  OBVIOUS
<1> HIDE DEF F
<1>4. PICK f \in [0 .. N -> Nat] : f[0] = 0 /\ \A k \in 1 .. N : f[k] = F[<<k, f[k - 1]>>]
  <2> HIDE DEF N
  <2>1. 0 \in Nat /\ N \in Nat
    BY <1>1
  <2>2. QED
    <3> DEFINE Solved(S, base, G) ==
          \E f \in [0 .. N -> S] : f[0] = base /\ \A k \in 1 .. N : f[k] = G[<<k, f[k - 1]>>]
    <3>1. \A S : \A base \in S : \A G \in [(1 .. N) \X S -> S] : Solved(S, base, G)
      BY <2>1, IntervalRecursion
    <3> HIDE DEF Solved
    <3>2. Solved(Nat, 0, F)
      BY <1>2, <2>1, <3>1
    <3>3. QED
      BY <3>2 DEF Solved
<1>5. f = [k \in 0 .. N |-> IF k = 0 THEN 0 ELSE f[k - 1] + list[k]]
  <2> DEFINE h == [k \in 0 .. N |-> IF k = 0 THEN 0 ELSE f[k - 1] + list[k]]
  <2>1. \A k \in 0 .. N : f[k] = h[k]
    <3> SUFFICES ASSUME NEW k \in 0 .. N PROVE f[k] = h[k]
      OBVIOUS
    <3>1. CASE k = 0
      BY <1>4, <3>1
    <3>2. CASE k # 0
      <4>1. k \in 1 .. N /\ k - 1 \in 0 .. N
        BY <1>1, <3>2
      <4>2. f[k - 1] \in Nat
        BY <4>1
      <4>3. QED
        BY <1>3, <1>4, <3>2, <4>1, <4>2
    <3>3. QED
      BY <3>1, <3>2
  <2>2. f = [k \in 0 .. N |-> f[k]] /\ h = [k \in 0 .. N |-> h[k]]
    OBVIOUS
  <2> HIDE DEF h
  <2>3. f = h
    BY <2>1, <2>2
  <2>4. QED
    BY <2>3 DEF h
<1>6. Depth = [k \in 0 .. N |-> IF k = 0 THEN 0 ELSE Depth[k - 1] + list[k]]
  BY <1>5 DEF Depth
<1> DEFINE D == Depth
<1>7. \A k \in 0 .. N : D[k] = IF k = 0 THEN 0 ELSE D[k - 1] + list[k]
  <2>1. D = [k \in 0 .. N |-> IF k = 0 THEN 0 ELSE D[k - 1] + list[k]]
    BY <1>6
  <2> HIDE DEF D, N
  <2>2. QED
    BY <2>1
<1> HIDE DEF D
<1>8. D[0] = 0 /\ \A k \in 0 .. N - 1 : D[k + 1] = D[k] + list[k + 1]
  <2>1. D[0] = 0
    BY <1>1, <1>7
  <2>2. ASSUME NEW k \in 0 .. N - 1 PROVE D[k + 1] = D[k] + list[k + 1]
    <3>1. k + 1 \in 0 .. N /\ k + 1 # 0 /\ (k + 1) - 1 = k
      BY <1>1
    <3>2. QED
      BY <1>7, <3>1
  <2>3. QED
    BY <2>1, <2>2
<1>9. \A k \in Nat : k \in {m \in Nat : m <= N => D[m] \in Nat}
  <2> DEFINE T == {m \in Nat : m <= N => D[m] \in Nat}
  <2>1. 0 \in T
    BY <1>8
  <2>2. ASSUME NEW m \in Nat, m \in T PROVE m + 1 \in T
    <3> SUFFICES ASSUME m + 1 <= N PROVE D[m + 1] \in Nat
      OBVIOUS
    <3>1. D[m] \in Nat /\ m \in 0 .. N - 1 /\ m + 1 \in 1 .. N
      BY <1>1, <2>2
    <3>2. list[m + 1] \in Nat
      BY <1>1, <3>1
    <3>3. QED
      BY <1>8, <3>1, <3>2
  <2> HIDE DEF T
  <2>3. \A k \in Nat : k \in T
    BY <2>1, <2>2, SetInduction
  <2>4. QED
    BY <2>3 DEF T
<1>10. \A k \in 0 .. N : D[k] \in Nat
  BY <1>1, <1>9
<1>11. \A k \in 0 .. N - 1 : Step(k) = list[k + 1] /\ k + 1 \in 1 .. N
  BY <1>1 DEF Step
<1>12. QED
  BY <1>1, <1>8, <1>10, <1>11 DEF D

\* They do not decrease.
LEMMA DepthsGrow ==
  ASSUME Parameters, NEW k \in 0 .. n_layers, NEW l \in 0 .. n_layers, k <= l
  PROVE  Depth[k] <= Depth[l]
<1> DEFINE T == {m \in Nat : k + m <= n_layers => Depth[k] <= Depth[k + m]}
<1>1. n_layers \in Nat /\ k \in Nat
  BY DepthValues
<1>2. 0 \in T
  <2>1. k + 0 = k /\ Depth[k] \in Nat
    BY <1>1, DepthValues
  <2>2. QED
    BY <2>1
<1>3. ASSUME NEW m \in Nat, m \in T PROVE m + 1 \in T
  <2> SUFFICES ASSUME k + (m + 1) <= n_layers PROVE Depth[k] <= Depth[k + (m + 1)]
    OBVIOUS
  <2>1. k + m \in 0 .. n_layers - 1 /\ k + m \in 0 .. n_layers /\ k + (m + 1) = (k + m) + 1
    BY <1>1
  <2>2. Depth[k] <= Depth[k + m] /\ Depth[k] \in Nat /\ Depth[k + m] \in Nat
    BY <1>1, <1>3, <2>1, DepthValues
  <2>3. Depth[(k + m) + 1] = Depth[k + m] + Step(k + m) /\ Step(k + m) \in Nat
    BY <2>1, DepthValues
  <2>4. QED
    BY <2>1, <2>2, <2>3
<1>4. \A m \in Nat : m \in T
  <2> HIDE DEF T
  <2>1. QED
    BY <1>2, <1>3, SetInduction
<1>5. l - k \in Nat /\ k + (l - k) = l
  BY <1>1
<1>6. QED
  BY <1>4, <1>5

\* The number of elements at a layer's depth, and at any depth up to the last layer's.
LEMMA Sizes ==
  ASSUME Parameters
  PROVE  /\ \A k \in 0 .. n_layers : SizeAt(Depth[k]) \in Nat /\ SizeAt(Depth[k]) >= 1
         /\ \A k \in 0 .. n_layers : SizeAt(Depth[k]) <= SizeAt(0)
<1>1. /\ n_layers \in 0 .. n_layers /\ Depth[n_layers] \in Nat /\ log_last \in Nat
      /\ \A k \in 0 .. n_layers : Depth[k] \in Nat /\ Depth[k] <= Depth[n_layers]
  BY DepthValues, DepthsGrow
<1>2. \A k \in 0 .. n_layers : Depth[n_layers] + log_last - Depth[k] \in Nat
  BY <1>1
<1>3. Depth[n_layers] + log_last - 0 \in Nat
  BY <1>1
<1>4. \A k \in 0 .. n_layers : Depth[n_layers] + log_last - Depth[k] <= Depth[n_layers] + log_last - 0
  BY <1>1
<1>5. QED
  BY <1>2, <1>3, <1>4, Pow2Values, Pow2Grows DEF SizeAt

\* The index of a query in a layer, and its row and column.
LEMMA Indices ==
  ASSUME Parameters, NEW j \in 1 .. NumQueries
  PROVE  /\ j \in DOMAIN query_indices_ /\ Index(j, 1) = query_indices_[j]
         /\ \A k \in 1 .. n_layers : Index(j, k) \in 0 .. SizeAt(Depth[k]) - 1
         /\ \A k \in 1 .. n_layers - 1 :
              /\ CellOf(j, k) = <<Index(j, k + 1), CellOf(j, k)[2]>> /\ CellOf(j, k)[2] \in Columns(k)
              /\ Index(j, k + 1) * Pow2[Step(k)] + CellOf(j, k)[2] = Index(j, k)
              /\ GetTableProverRow(Index(j, k), Step(k)) = Index(j, k + 1)
              /\ Step(k) = 0 => Index(j, k + 1) = Index(j, k)
<1> DEFINE q == query_indices_[j]
           Shift(k) == Depth[k] - Depth[1]
           T == Depth[n_layers] + log_last
<1>1. /\ n_layers \in Nat /\ n_layers >= 1 /\ log_last \in Nat /\ 1 \in 0 .. n_layers
      /\ \A k \in 1 .. n_layers : k \in 0 .. n_layers /\ Depth[k] \in Nat
                                    /\ Depth[1] <= Depth[k] /\ Depth[k] <= Depth[n_layers]
  <2>1. n_layers \in Nat /\ n_layers >= 1 /\ log_last \in Nat
    BY DepthValues
  <2>2. 1 \in 0 .. n_layers /\ n_layers \in 0 .. n_layers
    BY <2>1
  <2>3. QED
    BY <2>1, <2>2, DepthValues, DepthsGrow
<1>2. j \in DOMAIN query_indices_ /\ q \in 0 .. SizeAt(Depth[1]) - 1
  BY DEF Parameters
<1>3. q \in Nat /\ q < Pow2[T - Depth[1]]
  <2>1. SizeAt(Depth[1]) \in Nat
    BY <1>1, Sizes
  <2>2. q \in Nat /\ q < SizeAt(Depth[1])
    BY <1>2, <2>1
  <2>3. Depth[n_layers] + log_last - Depth[1] = T - Depth[1]
    <3>1. n_layers \in 1 .. n_layers
      BY <1>1
    <3>2. Depth[n_layers] \in Nat /\ Depth[1] \in Nat
      BY <1>1, <3>1
    <3>3. QED
      BY <1>1, <3>2
  <2>4. QED
    BY <2>2, <2>3 DEF SizeAt
<1> HIDE DEF q
<1>4. \A k \in 1 .. n_layers : Index(j, k) = q \div Pow2[Shift(k)]
  BY DEF Index, IndexInLayer, q
<1>5. \A k \in 1 .. n_layers : Shift(k) \in Nat
  BY <1>1
<1>6. Index(j, 1) = query_indices_[j]
  <2>1. Shift(1) = 0 /\ 1 \in 1 .. n_layers
    BY <1>1
  <2>2. q \div Pow2[0] = q
    BY <1>3, Halves
  <2>3. QED
    BY <1>4, <2>1, <2>2 DEF q
<1>7. ASSUME NEW k \in 1 .. n_layers PROVE Index(j, k) \in Nat /\ Index(j, k) \in 0 .. SizeAt(Depth[k]) - 1
  <2> DEFINE a == T - Depth[k]
             b == Shift(k)
  <2>1. a \in Nat /\ b \in Nat /\ a + b = T - Depth[1]
    BY <1>1
  <2> HIDE DEF a, b, T
  <2>2. q \div Pow2[b] \in Nat /\ q \div Pow2[b] < Pow2[a] /\ Pow2[a] \in Nat
    BY <1>3, <2>1, Halves, DivisionBound, Pow2Values
  <2>3. SizeAt(Depth[k]) = Pow2[a]
    <3>1. n_layers \in 1 .. n_layers
      BY <1>1
    <3>2. Depth[n_layers] \in Nat /\ Depth[k] \in Nat
      BY <1>1, <3>1
    <3>3. Depth[n_layers] + log_last - Depth[k] = a
      BY <1>1, <3>2 DEF a, T
    <3>4. QED
      BY <3>3 DEF SizeAt
  <2>4. Index(j, k) = q \div Pow2[b]
    BY <1>4 DEF b
  <2>5. QED
    BY <2>2, <2>3, <2>4
<1>8. ASSUME NEW k \in 1 .. n_layers - 1
      PROVE  /\ CellOf(j, k) = <<Index(j, k + 1), CellOf(j, k)[2]>> /\ CellOf(j, k)[2] \in Columns(k)
             /\ Index(j, k + 1) * Pow2[Step(k)] + CellOf(j, k)[2] = Index(j, k)
             /\ GetTableProverRow(Index(j, k), Step(k)) = Index(j, k + 1)
             /\ Step(k) = 0 => Index(j, k + 1) = Index(j, k)
  <2>1. k \in 1 .. n_layers /\ k + 1 \in 1 .. n_layers /\ k \in 0 .. n_layers - 1
    BY <1>1
  <2>2. Step(k) \in Nat /\ Depth[k + 1] = Depth[k] + Step(k) /\ Depth[k] \in Nat /\ Depth[1] \in Nat
    BY <1>1, <2>1, DepthValues
  <2>3. Shift(k + 1) = Shift(k) + Step(k) /\ Shift(k) \in Nat
    BY <1>5, <2>1, <2>2
  <2>4. Index(j, k) = q \div Pow2[Shift(k)] /\ Index(j, k + 1) = q \div Pow2[Shift(k + 1)]
    BY <1>4, <2>1
  <2>5. (q \div Pow2[Shift(k)]) \div Pow2[Step(k)] = q \div Pow2[Shift(k) + Step(k)]
    <3> HIDE DEF Shift
    <3>1. QED
      BY <1>3, <2>2, <2>3, DivisionTwice
  <2>6. Index(j, k) \div Pow2[Step(k)] = Index(j, k + 1)
    BY <2>3, <2>4, <2>5, Zenon
  <2> DEFINE i == Index(j, k)
  <2>7. i \in Nat
    BY <1>7, <2>1
  <2> HIDE DEF i
  <2>8. /\ i % Pow2[Step(k)] \in 0 .. Pow2[Step(k)] - 1
        /\ (i \div Pow2[Step(k)]) * Pow2[Step(k)] + (i % Pow2[Step(k)]) = i
        /\ i \div Pow2[0] = i
    BY <2>2, <2>7, RowAndColumn, Halves
  <2>9. /\ CellOf(j, k) = <<i \div Pow2[Step(k)], i % Pow2[Step(k)]>>
        /\ GetTableProverRow(Index(j, k), Step(k)) = i \div Pow2[Step(k)]
    BY DEF i, CellOf, GetTableProverRowCol, GetTableProverRow, GetTableProverCol
  <2>10. CellOf(j, k)[2] = i % Pow2[Step(k)]
    BY <2>9
  <2>11. Index(j, k + 1) = i \div Pow2[Step(k)]
    BY <2>6 DEF i
  <2>12. CellOf(j, k) = <<Index(j, k + 1), CellOf(j, k)[2]>> /\ CellOf(j, k)[2] \in Columns(k)
    BY <2>8, <2>9, <2>10, <2>11, Zenon DEF Columns
  <2>13. Index(j, k + 1) * Pow2[Step(k)] + CellOf(j, k)[2] = Index(j, k)
    BY <2>8, <2>10, <2>11, Zenon DEF i
  <2>14. Step(k) = 0 => Index(j, k + 1) = Index(j, k)
    BY <2>8, <2>11, Zenon DEF i
  <2>15. QED
    BY <2>9, <2>11, <2>12, <2>13, <2>14, Zenon
<1>9. QED
  BY <1>2, <1>6, <1>7, <1>8

\* The cells of a layer: whole rows, of which the cells on the paths are not sent.
LEMMA LayerCells ==
  ASSUME Parameters, NEW k \in 1 .. n_layers - 1
  PROVE  /\ Touched(k) \subseteq Cell(k) /\ OnPaths(k) \subseteq Touched(k)
         /\ Touched(k) \subseteq Nat \X Nat
         /\ {c[1] : c \in Touched(k)} \X Columns(k) = Touched(k)
         /\ \A j \in 1 .. NumQueries : CellOf(j, k) \in OnPaths(k)
         /\ \A c \in OnPaths(k) : \E j \in 1 .. NumQueries : c = CellOf(j, k)
         /\ \A j \in 1 .. NumQueries : \A i \in Columns(k) : <<Index(j, k + 1), i>> \in Touched(k)
         /\ \A c \in Touched(k) : c[1] * Pow2[Step(k)] + c[2] \in 0 .. SizeAt(Depth[k]) - 1
<1> DEFINE Rows == {CellOf(j, k)[1] : j \in DOMAIN query_indices_}
           b == SizeAt(Depth[k + 1])
           p == Pow2[Step(k)]
<1>1. DOMAIN query_indices_ = 1 .. NumQueries
  BY DEF Parameters
<1>2. /\ k \in 0 .. n_layers - 1 /\ k \in 0 .. n_layers /\ k + 1 \in 0 .. n_layers
      /\ k + 1 \in 1 .. n_layers /\ k \in 1 .. n_layers
  BY DepthValues
<1>3. Step(k) \in Nat /\ Depth[k + 1] = Depth[k] + Step(k) /\ Depth[k] \in Nat /\ Depth[k + 1] \in Nat
  BY <1>2, DepthValues
<1>4. p \in Nat /\ p >= 1 /\ b \in Nat /\ Columns(k) = 0 .. p - 1
  BY <1>2, <1>3, Pow2Values, Sizes DEF Columns
<1>5. \A j \in 1 .. NumQueries :
        /\ CellOf(j, k) = <<Index(j, k + 1), CellOf(j, k)[2]>> /\ CellOf(j, k)[2] \in Columns(k)
        /\ Index(j, k + 1) \in 0 .. b - 1
  BY <1>2, Indices
<1>6. Touched(k) = Rows \X Columns(k) /\ Cell(k) = (0 .. b - 1) \X Columns(k)
  BY <1>3 DEF Touched, Cell, Columns
<1>7. OnPaths(k) = {CellOf(j, k) : j \in 1 .. NumQueries}
  BY <1>1 DEF OnPaths
<1>8. Rows = {Index(j, k + 1) : j \in 1 .. NumQueries}
  <2>1. \A j \in 1 .. NumQueries : CellOf(j, k)[1] = Index(j, k + 1)
    BY <1>5
  <2>2. QED
    BY <1>1, <2>1
<1> HIDE DEF Rows, b, p
<1>9. Rows \subseteq 0 .. b - 1
  BY <1>5, <1>8
<1>10. Touched(k) \subseteq Cell(k)
  BY <1>6, <1>9
<1>11. OnPaths(k) \subseteq Touched(k)
  BY <1>5, <1>6, <1>7, <1>8
<1>12. Touched(k) \subseteq Nat \X Nat
  <2>1. Rows \subseteq Nat /\ Columns(k) \subseteq Nat
    BY <1>4, <1>9
  <2>2. QED
    BY <1>6, <2>1
<1>13. {c[1] : c \in Touched(k)} \X Columns(k) = Touched(k)
  <2>1. 0 \in Columns(k)
    BY <1>4
  <2>2. {c[1] : c \in Touched(k)} = Rows
    <3>1. ASSUME NEW r \in Rows PROVE r \in {c[1] : c \in Touched(k)}
      <4>1. <<r, 0>> \in Touched(k) /\ <<r, 0>>[1] = r
        BY <1>6, <2>1
      <4>2. QED
        BY <4>1
    <3>2. \A c \in Touched(k) : c[1] \in Rows
      BY <1>6
    <3>3. QED
      BY <3>1, <3>2
  <2>3. QED
    BY <1>6, <2>2
<1>14. \A j \in 1 .. NumQueries : \A i \in Columns(k) : <<Index(j, k + 1), i>> \in Touched(k)
  BY <1>6, <1>8
<1>15. \A c \in Touched(k) : c[1] * Pow2[Step(k)] + c[2] \in 0 .. SizeAt(Depth[k]) - 1
  <2> SUFFICES ASSUME NEW c \in Touched(k) PROVE c[1] * p + c[2] \in 0 .. SizeAt(Depth[k]) - 1
    BY DEF p
  <2> DEFINE a == Depth[n_layers] + log_last - Depth[k + 1]
  <2>1. /\ Depth[n_layers] \in Nat /\ log_last \in Nat /\ n_layers \in 0 .. n_layers
        /\ Depth[k + 1] <= Depth[n_layers]
    <3>1. n_layers \in 0 .. n_layers /\ log_last \in Nat /\ k + 1 <= n_layers
      BY <1>2, DepthValues
    <3>2. QED
      BY <1>2, <3>1, DepthValues, DepthsGrow
  <2>2. a \in Nat /\ a + Step(k) = Depth[n_layers] + log_last - Depth[k]
    BY <1>3, <2>1
  <2>3. b = Pow2[a] /\ SizeAt(Depth[k]) = Pow2[a + Step(k)]
    BY <2>2 DEF SizeAt, b
  <2> HIDE DEF a
  <2>4. SizeAt(Depth[k]) = b * p
    BY <1>3, <2>2, <2>3, Pow2Adds DEF p
  <2>5. c[1] \in 0 .. b - 1 /\ c[2] \in 0 .. p - 1
    <3>1. c[1] \in Rows /\ c[2] \in Columns(k)
      BY <1>6
    <3>2. QED
      BY <1>4, <1>9, <3>1
  <2>6. \A x, y, z \in Nat : x + 1 <= y => x * z + z <= y * z /\ x * z \in Nat /\ y * z \in Nat
    OBVIOUS
  <2>7. c[1] * p + p <= b * p /\ c[1] * p \in Nat /\ b * p \in Nat
    <3>1. c[1] \in Nat /\ c[1] + 1 <= b
      BY <1>4, <2>5
    <3>2. QED
      BY <1>4, <2>6, <3>1
  <2> DEFINE u == c[1] * p
             v == b * p
  <2>8. u \in Nat /\ v \in Nat /\ u + p <= v /\ SizeAt(Depth[k]) = v
    BY <2>4, <2>7
  <2> HIDE DEF u, v
  <2>9. u + c[2] \in 0 .. v - 1
    BY <1>4, <2>5, <2>8
  <2>10. QED
    BY <2>8, <2>9 DEF u
<1>16. /\ \A j \in 1 .. NumQueries : CellOf(j, k) \in OnPaths(k)
       /\ \A c \in OnPaths(k) : \E j \in 1 .. NumQueries : c = CellOf(j, k)
  BY <1>7
<1>17. QED
  BY <1>10, <1>11, <1>12, <1>13, <1>14, <1>15, <1>16

\* What prover and verifier compute of them.
LEMMA LayerQueries ==
  ASSUME Parameters, NEW k \in 1 .. n_layers - 1
  PROVE  /\ DataQueries(query_indices_, k) = Touched(k) \ OnPaths(k)
         /\ IntegrityQueries(query_indices_, k) = OnPaths(k)
         /\ InOrder(ElementsToBeTransmitted(DataQueries(query_indices_, k),
                                            IntegrityQueries(query_indices_, k), k), k) = Transmitted(k)
<1> DEFINE data == DataQueries(query_indices_, k)
           integrity == IntegrityQueries(query_indices_, k)
<1>1. integrity = OnPaths(k)
  BY DEF IntegrityQueries, OnPaths, CellOf, Index
<1>2. \A j \in DOMAIN query_indices_ :
        CellOf(j, k)[1] = GetTableProverRow(IndexInLayer(query_indices_[j], k), Step(k))
  BY DEF CellOf, Index, GetTableProverRowCol
<1>3. Touched(k) = {GetTableProverRow(IndexInLayer(query_indices_[j], k), Step(k)) : j \in DOMAIN query_indices_}
                     \X Columns(k)
  BY <1>2 DEF Touched
<1>4. data = Touched(k) \ OnPaths(k)
  BY <1>1, <1>3 DEF DataQueries, Columns
<1> HIDE DEF data, integrity
<1>5. data \cup integrity = Touched(k)
  BY <1>1, <1>4, LayerCells
<1>6. ElementsToBeTransmitted(data, integrity, k) = Touched(k) \ OnPaths(k)
  <2>1. {c[1] : c \in Touched(k)} \X Columns(k) = Touched(k)
    BY LayerCells
  <2>2. QED
    BY <1>1, <1>5, <2>1 DEF ElementsToBeTransmitted, Columns
<1>7. QED
  BY <1>1, <1>4, <1>6 DEF Transmitted, data, integrity

\* The list of those that are sent.
LEMMA TransmittedLists ==
  ASSUME Parameters, NEW k \in 1 .. n_layers - 1
  PROVE  /\ Transmitted(k) \in Seq(Touched(k) \ OnPaths(k)) /\ Messages(k) = Len(Transmitted(k))
         /\ Messages(k) \in Nat /\ DOMAIN Transmitted(k) = 1 .. Messages(k)
         /\ Range(Transmitted(k)) = Touched(k) \ OnPaths(k)
         /\ \A i, j \in 1 .. Messages(k) : Transmitted(k)[i] = Transmitted(k)[j] => i = j
<1> DEFINE C == Touched(k) \ OnPaths(k)
           b == SizeAt(Depth[k + 1])
           L == Transmitted(k)
<1>1. k \in 0 .. n_layers - 1 /\ k + 1 \in 0 .. n_layers /\ k # 0
  BY DepthValues
<1>2. Step(k) \in Nat /\ Depth[k + 1] = Depth[k] + Step(k) /\ b \in Nat
  BY <1>1, DepthValues, Sizes
<1>3. Touched(k) \in SUBSET ((0 .. b - 1) \X Columns(k))
  BY <1>2, LayerCells DEF Cell, Columns
<1>4. C \in SUBSET ((0 .. b - 1) \X Columns(k)) /\ L = InOrder(C, k)
  BY <1>3 DEF Transmitted
<1> HIDE DEF C, b, L
<1>5. /\ L \in Seq(C) /\ Len(L) \in Nat /\ DOMAIN L = 1 .. Len(L) /\ Range(L) = C
      /\ \A i, j \in 1 .. Len(L) : L[i] = L[j] => i = j
  BY <1>2, <1>4, CellsInOrder, SMTT(30)
<1>6. Messages(k) = Len(L)
  BY <1>1 DEF Messages, L
<1>7. QED
  BY <1>5, <1>6 DEF C, L

\* The first layer's: the cosets of the queries.
LEMMA FirstLayer ==
  ASSUME Parameters
  PROVE  /\ FirstLayerQueries \in Seq(Nat) /\ Messages(0) = Len(FirstLayerQueries)
         /\ Messages(0) \in Nat /\ DOMAIN FirstLayerQueries = 1 .. Messages(0)
         /\ \A j \in 1 .. NumQueries, i \in 1 .. Pow2[Step(0)] :
              /\ (j - 1) * Pow2[Step(0)] + i \in 1 .. Messages(0)
              /\ FirstLayerQueries[(j - 1) * Pow2[Step(0)] + i] = Index(j, 1) * Pow2[Step(0)] + (i - 1)
<1> DEFINE p == Pow2[Step(0)]
           q == query_indices_
           m == NumQueries * p
           f == FirstLayerQueries
<1>1. NumQueries \in Nat
  BY FriAssumption
<1>2. Step(0) \in Nat /\ p \in Nat /\ p >= 1
  <2>1. 0 \in 0 .. n_layers - 1
    BY DepthValues
  <2>2. QED
    BY <2>1, DepthValues, Pow2Values
<1>3. /\ DOMAIN q = 1 .. NumQueries /\ q \in Seq(Nat) /\ Len(q) = NumQueries
      /\ \A j \in 1 .. NumQueries : q[j] \in Nat
  <2>1. 1 \in 0 .. n_layers
    BY DepthValues
  <2>2. SizeAt(Depth[1]) \in Nat
    BY <2>1, Sizes
  <2>3. q \in [1 .. NumQueries -> Nat]
    BY <2>2 DEF Parameters
  <2> HIDE DEF q
  <2>4. QED
    BY <1>1, <2>3
<1> DEFINE V(i) == q[(i - 1) \div p + 1] * p + ((i - 1) % p)
<1>4. f = [i \in 1 .. m |-> V(i)]
  BY <1>3 DEF FirstLayerQueries, SecondLayerQueriesToFirstLayerQueries
<1> HIDE DEF p, q, f
<1>5. m \in Nat
  BY <1>1, <1>2
<1>6. ASSUME NEW j \in 1 .. NumQueries, NEW i \in 1 .. p
      PROVE  (j - 1) * p + i \in 1 .. m /\ V((j - 1) * p + i) = q[j] * p + (i - 1)
  <2> DEFINE n == (j - 1) * p + (i - 1)
  <2>1. j - 1 \in Nat /\ i - 1 \in 0 .. p - 1 /\ (j - 1) * p \in Nat /\ j - 1 + 1 = j
    BY <1>1, <1>2
  <2>2. n \div p = j - 1 /\ n % p = i - 1
    <3>1. \A a \in Nat : \A c \in 0 .. p - 1 : (a * p + c) \div p = a /\ (a * p + c) % p = c
      BY <1>2, QuotientAndRemainder
    <3>2. QED
      BY <2>1, <3>1, ZenonT(30)
  <2>3. ((j - 1) * p + i) - 1 = n
    BY <1>2, <2>1
  <2>4. V((j - 1) * p + i) = q[j] * p + (i - 1)
    BY <2>1, <2>2, <2>3
  <2>5. \A x, y, z \in Nat : x + 1 <= y => x * z + z <= y * z /\ x * z \in Nat /\ y * z \in Nat
    OBVIOUS
  <2>6. (j - 1) * p + p <= NumQueries * p
    <3>1. (j - 1) + 1 <= NumQueries
      BY <1>1
    <3>2. QED
      BY <1>1, <1>2, <2>1, <2>5, <3>1
  <2>7. QED
    BY <1>2, <1>5, <2>1, <2>4, <2>6
<1>7. ASSUME NEW n \in 1 .. m PROVE V(n) \in Nat
  <2> DEFINE a == (n - 1) \div p
             c == (n - 1) % p
  <2>1. n - 1 \in Nat /\ n - 1 < NumQueries * p
    BY <1>5
  <2>2. a \in Nat /\ c \in Nat /\ a * p <= n - 1
    <3>1. \A x \in Nat : x \div p \in Nat /\ x % p \in Nat /\ (x \div p) * p <= x
      BY <1>2
    <3>2. QED
      BY <2>1, <3>1
  <2>3. a < NumQueries
    <3>1. \A x, y, z \in Nat : x >= y => x * z >= y * z /\ x * z \in Nat /\ y * z \in Nat
      OBVIOUS
    <3> HIDE DEF a
    <3>2. a >= NumQueries => a * p >= NumQueries * p /\ a * p \in Nat /\ NumQueries * p \in Nat
      BY <1>1, <1>2, <2>2, <3>1
    <3>3. QED
      BY <1>1, <2>1, <2>2, <3>2
  <2>4. a + 1 \in 1 .. NumQueries
    BY <1>1, <2>2, <2>3
  <2>5. q[a + 1] \in Nat
    BY <1>3, <2>4
  <2>6. \A x, y \in Nat : x * p + y \in Nat
    BY <1>2
  <2> HIDE DEF a, c
  <2>7. q[a + 1] * p + c \in Nat
    BY <2>2, <2>5, <2>6
  <2>8. QED
    BY <2>7 DEF a, c
<1>8. f \in Seq(Nat) /\ Len(f) = m /\ DOMAIN f = 1 .. m
  <2> HIDE DEF m, V
  <2>1. f \in [1 .. m -> Nat]
    BY <1>4, <1>7
  <2>2. QED
    BY <1>5, <2>1
<1>9. Messages(0) = m
  BY <1>8 DEF Messages, f
<1>10. ASSUME NEW j \in 1 .. NumQueries, NEW i \in 1 .. p
       PROVE  (j - 1) * p + i \in 1 .. m /\ f[(j - 1) * p + i] = q[j] * p + (i - 1)
  <2> HIDE DEF m, V
  <2>1. QED
    BY <1>4, <1>6
<1>11. \A j \in 1 .. NumQueries : Index(j, 1) = q[j]
  BY Indices DEF q
<1>12. QED
  <2> HIDE DEF m
  <2>1. QED
    BY <1>5, <1>8, <1>9, <1>10, <1>11 DEF f, p

-----------------------------------------------------------------------------
\* The script: all messages, layer after layer.

\* The honest and the committed elements are elements, and neither is Wrong.
LEMMA HonestElements ==
  ASSUME Parameters
  PROVE  /\ Wrong \in Elements
         /\ \A i \in Nat : Oracle(i) \in Elements /\ Oracle(i) # Wrong
         /\ \A k \in 1 .. n_layers - 1 : \A c \in Touched(k) :
              /\ Sent(k, c).name = <<k, c>> /\ Sent(k, c).name \in Nat \X (Nat \X Nat)
              /\ Sent(k, c).value = Committed(Depth[k], c[1] * Pow2[Step(k)] + c[2])
              /\ Sent(k, c).value \in Elements /\ Sent(k, c).value # Wrong
<1>1. SizeAt(0) \in Nat /\ n_layers \in Nat /\ 0 \in 0 .. n_layers
  <2>1. Depth[0] = 0 /\ 0 \in 0 .. n_layers /\ n_layers \in Nat
    BY DepthValues
  <2>2. SizeAt(Depth[0]) \in Nat
    BY <2>1, Sizes
  <2>3. QED
    BY <2>1, <2>2
<1>2. Wrong \in Elements /\ Wrong.cheat = TRUE /\ Wrong.index = SizeAt(0)
  BY <1>1 DEF Wrong, Element, Elements
<1>3. ASSUME NEW i \in Nat PROVE Oracle(i) \in Elements /\ Oracle(i) # Wrong
  <2>1. Oracle(i) \in Elements /\ Oracle(i).cheat = FALSE
    BY DEF Oracle, Element, Elements
  <2>2. QED
    BY <1>2, <2>1
<1>4. ASSUME NEW k \in 1 .. n_layers - 1, NEW c \in Touched(k)
      PROVE  /\ Sent(k, c).name = <<k, c>> /\ Sent(k, c).name \in Nat \X (Nat \X Nat)
             /\ Sent(k, c).value = Committed(Depth[k], c[1] * Pow2[Step(k)] + c[2])
             /\ Sent(k, c).value \in Elements /\ Sent(k, c).value # Wrong
  <2> DEFINE i == c[1] * Pow2[Step(k)] + c[2]
  <2>1. Sent(k, c).name = <<k, c>> /\ Sent(k, c).value = Committed(Depth[k], i)
    BY DEF Sent
  <2>2. <<k, c>> \in Nat \X (Nat \X Nat)
    <3>1. c \in Nat \X Nat /\ k \in Nat
      BY <1>1, LayerCells
    <3>2. QED
      BY <3>1
  <2>3. k \in 0 .. n_layers /\ SizeAt(Depth[k]) \in Nat /\ SizeAt(Depth[k]) <= SizeAt(0) /\ Depth[k] \in Nat
    <3>1. k \in 0 .. n_layers
      BY <1>1
    <3>2. QED
      BY <3>1, Sizes, DepthValues
  <2>4. i \in 0 .. SizeAt(Depth[k]) - 1
    BY LayerCells
  <2> HIDE DEF i
  <2>5. i \in Nat /\ i # SizeAt(0)
    BY <1>1, <2>3, <2>4
  <2>6. Committed(Depth[k], i) \in Elements /\ Committed(Depth[k], i).index = i
    BY <2>3, <2>5 DEF Committed, Element, Elements
  <2>7. QED
    BY <1>2, <2>1, <2>2, <2>5, <2>6 DEF i
<1>5. QED
  BY <1>2, <1>3, <1>4

\* The messages of a layer.
LEMMA MessageFacts ==
  ASSUME Parameters, NEW k \in 0 .. n_layers - 1
  PROVE  /\ Messages(k) \in Nat
         /\ \A j \in 1 .. Messages(k) :
              /\ Message(k, j).name \in Nat \X (Nat \X Nat)
              /\ Message(k, j).value \in Elements /\ Message(k, j).value # Wrong
              /\ Message(k, j) = [name |-> Message(k, j).name, value |-> Message(k, j).value]
<1>1. CASE k = 0
  <2>1. Messages(0) \in Nat /\ \A j \in 1 .. Messages(0) : FirstLayerQueries[j] \in Nat
    <3>1. FirstLayerQueries \in Seq(Nat) /\ Messages(0) = Len(FirstLayerQueries) /\ Messages(0) \in Nat
      BY FirstLayer
    <3>2. QED
      BY <3>1
  <2>2. ASSUME NEW j \in 1 .. Messages(0)
        PROVE  /\ Message(0, j).name \in Nat \X (Nat \X Nat)
               /\ Message(0, j).value \in Elements /\ Message(0, j).value # Wrong
               /\ Message(0, j) = [name |-> Message(0, j).name, value |-> Message(0, j).value]
    <3> DEFINE i == FirstLayerQueries[j]
    <3>1. Message(0, j) = [name |-> <<0, <<i, 0>>>>, value |-> Oracle(i)]
      BY DEF Message
    <3>2. i \in Nat /\ Oracle(i) \in Elements /\ Oracle(i) # Wrong
      BY <2>1, HonestElements
    <3> HIDE DEF i
    <3>3. QED
      BY <3>1, <3>2
  <2>3. QED
    BY <1>1, <2>1, <2>2
<1>2. CASE k # 0
  <2>1. k \in 1 .. n_layers - 1
    BY <1>2, DepthValues
  <2>2. /\ Messages(k) \in Nat /\ Messages(k) = Len(Transmitted(k))
        /\ \A j \in 1 .. Messages(k) : Transmitted(k)[j] \in Touched(k)
    <3>1. /\ Transmitted(k) \in Seq(Touched(k) \ OnPaths(k)) /\ Messages(k) = Len(Transmitted(k))
          /\ Messages(k) \in Nat
      BY <2>1, TransmittedLists
    <3>2. QED
      BY <3>1
  <2>3. ASSUME NEW j \in 1 .. Messages(k)
        PROVE  /\ Message(k, j).name \in Nat \X (Nat \X Nat)
               /\ Message(k, j).value \in Elements /\ Message(k, j).value # Wrong
               /\ Message(k, j) = [name |-> Message(k, j).name, value |-> Message(k, j).value]
    <3> DEFINE c == Transmitted(k)[j]
    <3>1. Message(k, j) = Sent(k, c) /\ c \in Touched(k)
      BY <1>2, <2>2 DEF Message
    <3> HIDE DEF c
    <3>2. /\ Sent(k, c).name \in Nat \X (Nat \X Nat)
          /\ Sent(k, c).value \in Elements /\ Sent(k, c).value # Wrong
      BY <2>1, <3>1, HonestElements
    <3>3. Sent(k, c) = [name |-> Sent(k, c).name, value |-> Sent(k, c).value]
      BY DEF Sent
    <3>4. QED
      BY <3>1, <3>2, <3>3
  <2>4. QED
    BY <2>2, <2>3
<1>3. QED
  BY <1>1, <1>2

\* Where the messages of a layer start.
LEMMA StartValues ==
  ASSUME Parameters
  PROVE  /\ Start[0] = 0 /\ \A k \in 0 .. n_layers : Start[k] \in Nat
         /\ \A k \in 0 .. n_layers - 1 : Messages(k) \in Nat /\ Start[k + 1] = Start[k] + Messages(k)
<1> DEFINE N == n_layers
           F == [x \in (1 .. N) \X Nat |-> x[2] + Messages(x[1] - 1)]
<1>1. N \in Nat /\ \A k \in 0 .. N - 1 : Messages(k) \in Nat
  BY DepthValues, MessageFacts
<1>2. F \in [(1 .. N) \X Nat -> Nat]
  BY <1>1
<1>3. \A k \in 1 .. N : \A d \in Nat : F[<<k, d>>] = d + Messages(k - 1)
  OBVIOUS
<1> HIDE DEF F
<1>4. PICK f \in [0 .. N -> Nat] : f[0] = 0 /\ \A k \in 1 .. N : f[k] = F[<<k, f[k - 1]>>]
  <2> HIDE DEF N
  <2>1. 0 \in Nat /\ N \in Nat
    BY <1>1
  <2>2. QED
    <3> DEFINE Solved(S, base, G) ==
          \E f \in [0 .. N -> S] : f[0] = base /\ \A k \in 1 .. N : f[k] = G[<<k, f[k - 1]>>]
    <3>1. \A S : \A base \in S : \A G \in [(1 .. N) \X S -> S] : Solved(S, base, G)
      BY <2>1, IntervalRecursion
    <3> HIDE DEF Solved
    <3>2. Solved(Nat, 0, F)
      BY <1>2, <2>1, <3>1
    <3>3. QED
      BY <3>2 DEF Solved
<1>5. \A k \in 1 .. N : f[k] = f[k - 1] + Messages(k - 1) /\ f[k - 1] \in Nat
  <2> SUFFICES ASSUME NEW k \in 1 .. N
               PROVE  f[k] = f[k - 1] + Messages(k - 1) /\ f[k - 1] \in Nat
    OBVIOUS
  <2>1. k - 1 \in 0 .. N
    BY <1>1
  <2>2. f[k - 1] \in Nat
    BY <2>1
  <2>3. QED
    BY <1>3, <1>4, <2>2
<1>6. f = [k \in 0 .. N |-> IF k = 0 THEN 0 ELSE f[k - 1] + Messages(k - 1)]
  <2> DEFINE h == [k \in 0 .. N |-> IF k = 0 THEN 0 ELSE f[k - 1] + Messages(k - 1)]
  <2>1. \A k \in 0 .. N : f[k] = h[k]
    <3> SUFFICES ASSUME NEW k \in 0 .. N PROVE f[k] = h[k]
      OBVIOUS
    <3>1. CASE k = 0
      BY <1>4, <3>1
    <3>2. CASE k \in 1 .. N
      BY <1>5, <3>2
    <3>3. QED
      BY <1>1, <3>1, <3>2
  <2>2. f = [k \in 0 .. N |-> f[k]] /\ h = [k \in 0 .. N |-> h[k]]
    OBVIOUS
  <2> HIDE DEF h
  <2>3. f = h
    BY <2>1, <2>2
  <2>4. QED
    BY <2>3 DEF h
<1>7. Start = [k \in 0 .. N |-> IF k = 0 THEN 0 ELSE Start[k - 1] + Messages(k - 1)]
  BY <1>6 DEF Start
<1> DEFINE D == Start
<1>8. \A k \in 0 .. N : D[k] = IF k = 0 THEN 0 ELSE D[k - 1] + Messages(k - 1)
  <2>1. D = [k \in 0 .. N |-> IF k = 0 THEN 0 ELSE D[k - 1] + Messages(k - 1)]
    BY <1>7
  <2> HIDE DEF D, N
  <2>2. QED
    BY <2>1
<1> HIDE DEF D
<1>9. D[0] = 0 /\ \A k \in 0 .. N - 1 : D[k + 1] = D[k] + Messages(k)
  <2>1. D[0] = 0
    BY <1>1, <1>8
  <2>2. ASSUME NEW k \in 0 .. N - 1 PROVE D[k + 1] = D[k] + Messages(k)
    <3>1. k + 1 \in 0 .. N /\ k + 1 # 0 /\ (k + 1) - 1 = k
      BY <1>1
    <3>2. QED
      BY <1>8, <3>1
  <2>3. QED
    BY <2>1, <2>2
<1> DEFINE T == {m \in Nat : m <= N => D[m] \in Nat}
<1>10. \A k \in Nat : k \in T
  <2>1. 0 \in T
    BY <1>9
  <2>2. ASSUME NEW m \in Nat, m \in T PROVE m + 1 \in T
    <3> SUFFICES ASSUME m + 1 <= N PROVE D[m + 1] \in Nat
      OBVIOUS
    <3>1. D[m] \in Nat /\ m \in 0 .. N - 1
      BY <1>1, <2>2
    <3>2. Messages(m) \in Nat
      BY <1>1, <3>1
    <3>3. QED
      BY <1>9, <3>1, <3>2
  <2> HIDE DEF T
  <2>3. QED
    BY <2>1, <2>2, SetInduction
<1>11. \A k \in 0 .. N : D[k] \in Nat
  BY <1>1, <1>10
<1>12. QED
  BY <1>1, <1>9, <1>11 DEF D

\* A layer's messages start after those of the layers before it.
LEMMA StartsGrow ==
  ASSUME Parameters, NEW k \in 0 .. n_layers, NEW l \in 0 .. n_layers, k <= l
  PROVE  Start[k] <= Start[l]
<1> DEFINE T == {m \in Nat : k + m <= n_layers => Start[k] <= Start[k + m]}
<1>1. n_layers \in Nat /\ k \in Nat
  BY DepthValues
<1>2. 0 \in T
  <2>1. k + 0 = k /\ Start[k] \in Nat
    BY <1>1, StartValues
  <2>2. QED
    BY <2>1
<1>3. ASSUME NEW m \in Nat, m \in T PROVE m + 1 \in T
  <2> SUFFICES ASSUME k + (m + 1) <= n_layers PROVE Start[k] <= Start[k + (m + 1)]
    OBVIOUS
  <2>1. k + m \in 0 .. n_layers - 1 /\ k + m \in 0 .. n_layers /\ k + (m + 1) = (k + m) + 1
    BY <1>1
  <2>2. Start[k] <= Start[k + m] /\ Start[k] \in Nat /\ Start[k + m] \in Nat
    BY <1>1, <1>3, <2>1, StartValues
  <2>3. Start[(k + m) + 1] = Start[k + m] + Messages(k + m) /\ Messages(k + m) \in Nat
    BY <2>1, StartValues
  <2>4. QED
    BY <2>1, <2>2, <2>3
<1>4. \A m \in Nat : m \in T
  <2> HIDE DEF T
  <2>1. QED
    BY <1>2, <1>3, SetInduction
<1>5. l - k \in Nat /\ k + (l - k) = l
  BY <1>1
<1>6. QED
  BY <1>4, <1>5

\* Where a message is, in a script that has its layer.
LEMMA MessagePlace ==
  ASSUME Parameters, NEW l \in 0 .. n_layers, NEW k \in 0 .. l - 1, NEW j \in 1 .. Messages(k)
  PROVE  /\ Start[k] + j \in 1 .. Start[l] /\ Start[k] \in Nat /\ Start[k + 1] \in Nat
         /\ Start[k + 1] = Start[k] + Messages(k) /\ Messages(k) \in Nat
<1>1. k \in 0 .. n_layers - 1 /\ k \in 0 .. n_layers /\ k + 1 \in 0 .. n_layers /\ k + 1 <= l
  BY DepthValues
<1>2. Start[k] \in Nat /\ Start[k + 1] \in Nat /\ Start[l] \in Nat
  BY <1>1, StartValues
<1>3. Start[k + 1] = Start[k] + Messages(k) /\ Messages(k) \in Nat
  BY <1>1, StartValues
<1>4. Start[k + 1] <= Start[l]
  BY <1>1, StartsGrow
<1>5. QED
  BY <1>2, <1>3, <1>4

-----------------------------------------------------------------------------
\* Folding.

\* Nobody cheats on elements that are not of a committed layer: those that are folded
\* further at once, and the oracle's unless the first layer is committed unfolded.
LEMMA NotCommitted ==
  ASSUME Parameters, NEW k \in 0 .. n_layers - 1, NEW d \in Nat, NEW i,
         d < Depth[k + 1], Depth[k] < d \/ k = 0
  PROVE  Committed(d, i) = Element(d, i, FALSE)
<1>1. /\ n_layers \in Nat /\ k \in 0 .. n_layers /\ k + 1 \in 0 .. n_layers
      /\ Depth[k] \in Nat /\ Depth[k + 1] \in Nat
  <2>1. n_layers \in Nat /\ k \in 0 .. n_layers /\ k + 1 \in 0 .. n_layers
    BY DepthValues
  <2>2. QED
    BY <2>1, DepthValues
<1>2. ASSUME <<d, i>> \in cheats PROVE FALSE
  <2>1. PICK l \in 1 .. n_layers : d = Depth[l]
    BY <1>2 DEF Parameters
  <2>2. l \in 0 .. n_layers /\ Depth[l] \in Nat
    BY <1>1, <2>1, DepthValues
  <2>3. CASE l <= k
    <3>1. Depth[l] <= Depth[k]
      BY <1>1, <2>2, <2>3, DepthsGrow
    <3>2. k # 0
      BY <2>1, <2>3
    <3>3. QED
      BY <1>1, <2>1, <2>2, <3>1, <3>2
  <2>4. CASE k + 1 <= l
    <3>1. Depth[k + 1] <= Depth[l]
      BY <1>1, <2>2, <2>4, DepthsGrow
    <3>2. QED
      BY <1>1, <2>1, <2>2, <3>1
  <2>5. QED
    BY <1>1, <2>2, <2>3, <2>4
<1>3. (<<d, i>> \in cheats) = FALSE
  BY <1>2
<1>4. QED
  BY <1>3, Zenon DEF Committed

\* Elements, committed or honest.
LEMMA ElementTypes ==
  ASSUME NEW d \in Nat, NEW i \in Nat
  PROVE  Committed(d, i) \in Elements /\ Element(d, i, FALSE) \in Elements
<1>1. \A cheat \in BOOLEAN : Element(d, i, cheat) \in Elements
  BY DEF Element, Elements
<1>2. (<<d, i>> \in cheats) \in BOOLEAN
  OBVIOUS
<1>3. QED
  BY <1>1, <1>2, Zenon DEF Committed

\* A coset of a layer as it was committed to folds to the honest element of its row.
LEMMA FoldsOfCommitted ==
  ASSUME Parameters, NEW k \in 0 .. n_layers - 1, NEW row \in Nat, NEW elements,
         elements \in [1 .. Pow2[Step(k)] -> Elements],
         Step(k) > 0 => \A i \in 1 .. Pow2[Step(k)] :
                          elements[i] = Committed(Depth[k], row * Pow2[Step(k)] + (i - 1))
  PROVE  ApplyFriLayers(elements, k, row * Pow2[Step(k)]) =
           IF Step(k) = 0 THEN elements[1] ELSE Element(Depth[k + 1], row, FALSE)
<1> DEFINE s == Step(k)
           first == row * Pow2[s]
           d == Depth[k]
           after[n \in 0 .. s] ==
             IF n = 0 THEN [values |-> elements, first |-> first, point |-> d]
             ELSE LET was == after[n - 1]
                  IN [values |-> [j \in 1 .. Len(was.values) \div 2 |->
                                    Fold(was.values[2 * j - 1], was.values[2 * j], d + n - 1,
                                         was.first + 2 * (j - 1), was.point)],
                      first |-> NextFirstIndex(was.first), point |-> was.point + 1]
           Base == [values |-> elements, first |-> first, point |-> d]
           Folds(n, was) ==
             [values |-> [j \in 1 .. Len(was.values) \div 2 |->
                            Fold(was.values[2 * j - 1], was.values[2 * j], d + n - 1,
                                 was.first + 2 * (j - 1), was.point)],
              first |-> NextFirstIndex(was.first), point |-> was.point + 1]
           Honest(n, i) == IF n = 0 THEN Committed(d, i) ELSE Element(d + n, i, FALSE)
           Coset(n) == [j \in 1 .. Pow2[s - n] |-> Honest(n, row * Pow2[s - n] + (j - 1))]
           Result(n) == [values |-> IF n = 0 THEN elements ELSE Coset(n),
                         first |-> row * Pow2[s - n], point |-> d + n]
           g == [n \in 0 .. s |-> Result(n)]
<1>1. s \in Nat /\ d \in Nat /\ Depth[k + 1] = d + s
  <2>1. k \in 0 .. n_layers
    BY DepthValues
  <2>2. QED
    BY <2>1, DepthValues
<1>2. ApplyFriLayers(elements, k, first) = after[s].values[1]
  BY DEF ApplyFriLayers
<1>3. \A n \in Nat : Pow2[n] \in Nat /\ Pow2[n] >= 1 /\ Pow2[n + 1] = 2 * Pow2[n]
  BY Pow2Values
<1>4. Result(0) = Base
  <2>1. s - 0 = s /\ d + 0 = d
    BY <1>1
  <2>2. QED
    BY <2>1
<1>5. s > 0 => elements = Coset(0)
  <2> SUFFICES ASSUME s > 0 PROVE elements = Coset(0)
    OBVIOUS
  <2>1. s - 0 = s
    BY <1>1
  <2>2. Coset(0) = [j \in 1 .. Pow2[s] |-> Committed(d, row * Pow2[s] + (j - 1))]
    BY <2>1
  <2>3. \A j \in 1 .. Pow2[s] : elements[j] = Committed(d, row * Pow2[s] + (j - 1))
    OBVIOUS
  <2>4. elements = [j \in 1 .. Pow2[s] |-> elements[j]]
    OBVIOUS
  <2> HIDE DEF s, d, Coset
  <2>5. QED
    BY <2>2, <2>3, <2>4
\* One fold of what the folds before have given.
<1>6. ASSUME NEW n \in 1 .. s PROVE Result(n) = Folds(n, Result(n - 1))
  <2> DEFINE p == Pow2[s - n]
             u == row * p
             was == Result(n - 1)
  <2>1. s - n \in Nat /\ s - (n - 1) = (s - n) + 1 /\ n \in Nat /\ n # 0 /\ n - 1 \in Nat /\ s > 0
    BY <1>1
  <2>2. p \in Nat /\ p >= 1 /\ Pow2[s - (n - 1)] = 2 * p
    BY <1>3, <2>1
  <2>3. u \in Nat /\ row * Pow2[s - (n - 1)] = 2 * u
    <3>1. \A x, y \in Nat : x * y \in Nat /\ x * (2 * y) = 2 * (x * y)
      OBVIOUS
    <3> HIDE DEF p
    <3>2. QED
      BY <2>2, <3>1
  <2>4. was.values = Coset(n - 1) /\ was.first = 2 * u /\ was.point = d + (n - 1)
    <3>1. was.values = IF n - 1 = 0 THEN elements ELSE Coset(n - 1)
      OBVIOUS
    <3>2. was.first = row * Pow2[s - (n - 1)] /\ was.point = d + (n - 1)
      OBVIOUS
    <3> HIDE DEF was, Coset, u, p
    <3>3. QED
      BY <1>5, <2>1, <2>3, <3>1, <3>2
  <2>5. Coset(n - 1) = [j \in 1 .. 2 * p |-> Honest(n - 1, 2 * u + (j - 1))]
    <3> HIDE DEF Honest, u, p
    <3>1. QED
      BY <2>2, <2>3
  <2>6. \A i \in Nat : Honest(n - 1, i) \in Elements /\ Honest(n - 1, i) = Committed(d + (n - 1), i)
    <3> SUFFICES ASSUME NEW i \in Nat
                 PROVE  Honest(n - 1, i) \in Elements /\ Honest(n - 1, i) = Committed(d + (n - 1), i)
      OBVIOUS
    <3>1. CASE n - 1 = 0
      <4>1. Honest(n - 1, i) = Committed(d, i) /\ d + (n - 1) = d
        BY <1>1, <3>1
      <4> HIDE DEF Honest, d
      <4>2. QED
        BY <1>1, <4>1, ElementTypes
    <3>2. CASE n - 1 # 0
      <4> DEFINE e == d + (n - 1)
      <4>1. e \in Nat /\ Depth[k] < e /\ e < Depth[k + 1]
        BY <1>1, <2>1, <3>2
      <4>2. Honest(n - 1, i) = Element(e, i, FALSE)
        BY <3>2
      <4> HIDE DEF e, Honest
      <4>3. Committed(e, i) = Element(e, i, FALSE)
        BY <4>1, NotCommitted
      <4>4. QED
        BY <4>1, <4>2, <4>3, ElementTypes DEF e
    <3>3. QED
      BY <3>1, <3>2
  <2>7. Len(was.values) \div 2 = p
    <3> HIDE DEF Honest, was, Coset, u, p
    <3>1. \A j \in 1 .. 2 * p : 2 * u + (j - 1) \in Nat
      BY <2>2, <2>3
    <3>2. Coset(n - 1) \in [1 .. 2 * p -> Elements]
      BY <2>5, <2>6, <3>1
    <3>3. 2 * p \in Nat
      BY <2>2
    <3>4. Len(Coset(n - 1)) = 2 * p
      BY <3>2, <3>3
    <3>5. (2 * p) \div 2 = p
      BY <2>2
    <3>6. QED
      BY <2>4, <3>4, <3>5
  <2>8. ASSUME NEW j \in 1 .. p
        PROVE  Fold(was.values[2 * j - 1], was.values[2 * j], d + n - 1, was.first + 2 * (j - 1), was.point)
                 = Element(d + n, u + (j - 1), FALSE)
    <3> DEFINE at == was.first + 2 * (j - 1)
               e == d + (n - 1)
    <3>1. 2 * j - 1 \in 1 .. 2 * p /\ 2 * j \in 1 .. 2 * p /\ d + n - 1 = e /\ e + 1 = d + n /\ e \in Nat
      <4> HIDE DEF p, d
      <4>1. j \in Nat /\ 1 <= j /\ j <= p
        BY <2>2
      <4>2. QED
        BY <1>1, <2>1, <2>2, <4>1
    <3>2. at \in Nat /\ at % 2 = 0 /\ at \div 2 = u + (j - 1)
      <4> HIDE DEF was, u
      <4>1. at = 2 * u + 2 * (j - 1) /\ j - 1 \in Nat
        BY <2>2, <2>4
      <4>2. at = 2 * (u + (j - 1)) /\ u + (j - 1) \in Nat
        BY <2>3, <4>1
      <4> HIDE DEF at
      <4>3. QED
        BY <4>2
    <3>3. at = 2 * u + ((2 * j - 1) - 1) /\ at + 1 = 2 * u + (2 * j - 1) /\ at + 1 \in Nat
      <4> HIDE DEF was, u
      <4>1. j \in Nat
        BY <2>2
      <4>2. QED
        BY <2>3, <2>4, <4>1
    <3>4. was.values[2 * j - 1] = Honest(n - 1, at) /\ was.values[2 * j] = Honest(n - 1, at + 1)
      <4> HIDE DEF was, Coset, Honest, u, p, at
      <4>1. QED
        BY <2>4, <2>5, <3>1, <3>3
    <3>5. was.values[2 * j - 1] = Committed(e, at) /\ was.values[2 * j] = Committed(e, at + 1) /\ was.point = e
      <4> HIDE DEF was, Coset, Honest, u, p, at
      <4>1. QED
        BY <2>4, <2>6, <3>2, <3>3, <3>4
    <3> HIDE DEF was, Coset, Honest, u, p, at, e
    <3>6. Fold(was.values[2 * j - 1], was.values[2 * j], e, at, was.point) = Element(e + 1, at \div 2, FALSE)
      BY <3>2, <3>5 DEF Fold
    <3>7. QED
      BY <3>1, <3>2, <3>6 DEF at
  <2>9. Folds(n, was).values = [j \in 1 .. p |-> Element(d + n, u + (j - 1), FALSE)]
    <3>1. Folds(n, was).values = [j \in 1 .. Len(was.values) \div 2 |->
              Fold(was.values[2 * j - 1], was.values[2 * j], d + n - 1, was.first + 2 * (j - 1), was.point)]
      OBVIOUS
    <3> HIDE DEF was, u, p, Folds
    <3>2. QED
      BY <2>7, <2>8, <3>1
  <2>10. Coset(n) = [j \in 1 .. p |-> Element(d + n, u + (j - 1), FALSE)]
    <3>1. \A i : Honest(n, i) = Element(d + n, i, FALSE)
      BY <2>1
    <3>2. Coset(n) = [j \in 1 .. p |-> Honest(n, u + (j - 1))]
      OBVIOUS
    <3> HIDE DEF Coset, Honest, p, u
    <3>3. QED
      BY <3>1, <3>2
  <2>11. Folds(n, was).first = u /\ Folds(n, was).point = d + n
    <3>1. Folds(n, was).first = was.first \div 2 /\ Folds(n, was).point = was.point + 1
      BY DEF NextFirstIndex
    <3> HIDE DEF was, u, Folds
    <3> HIDE DEF d
    <3>2. was.first \div 2 = u
      <4>1. \A x \in Nat : (2 * x) \div 2 = x
        OBVIOUS
      <4>2. QED
        BY <2>3, <2>4, <4>1
    <3>3. was.point + 1 = d + n
      <4>1. was.point = d + (n - 1)
        BY <2>4
      <4>2. d + (n - 1) + 1 = d + n
        BY <1>1, <2>1
      <4>3. QED
        BY <4>1, <4>2
    <3>4. QED
      BY <3>1, <3>2, <3>3
  <2>12. Result(n) = [values |-> Coset(n), first |-> u, point |-> d + n]
    BY <2>1
  <2>13. Folds(n, was) = [values |-> Folds(n, was).values, first |-> Folds(n, was).first,
                          point |-> Folds(n, was).point]
    OBVIOUS
  <2> HIDE DEF was, u, p, Folds, Coset, Result
  <2>14. Result(n) = Folds(n, was)
    BY <2>9, <2>10, <2>11, <2>12, <2>13
  <2>15. QED
    BY <2>14 DEF was
\* The recursion has this solution, ...
<1>7. g = [n \in 0 .. s |-> IF n = 0 THEN Base ELSE Folds(n, g[n - 1])]
  <2> HIDE DEF Result, Base, Folds
  <2>1. \A n \in 0 .. s : g[n] = IF n = 0 THEN Base ELSE Folds(n, g[n - 1])
    <3> SUFFICES ASSUME NEW n \in 0 .. s PROVE g[n] = IF n = 0 THEN Base ELSE Folds(n, g[n - 1])
      OBVIOUS
    <3>1. CASE n = 0
      BY <1>4, <3>1
    <3>2. CASE n # 0
      <4>1. n \in 1 .. s /\ n - 1 \in 0 .. s
        BY <1>1, <3>2
      <4>2. g[n] = Result(n) /\ g[n - 1] = Result(n - 1)
        BY <4>1
      <4>3. QED
        BY <1>6, <3>2, <4>1, <4>2
    <3>3. QED
      BY <3>1, <3>2
  <2> DEFINE h == [n \in 0 .. s |-> IF n = 0 THEN Base ELSE Folds(n, g[n - 1])]
  <2>2. g = [n \in 0 .. s |-> g[n]] /\ h = [n \in 0 .. s |-> h[n]] /\ \A n \in 0 .. s : h[n] = g[n]
    BY <2>1
  <2> HIDE DEF h, g
  <2>3. g = h
    BY <2>2
  <2>4. QED
    BY <2>3 DEF h
<1>8. after = [n \in 0 .. s |-> IF n = 0 THEN Base ELSE Folds(n, after[n - 1])]
  BY <1>7 DEF after, Base, Folds
\* ... and no other.
<1> HIDE DEF after, Base, Folds, Result, g
<1>9. after[0] = Base /\ \A n \in 1 .. s : after[n] = Folds(n, after[n - 1])
  <2> DEFINE h == after
  <2>1. h = [n \in 0 .. s |-> IF n = 0 THEN Base ELSE Folds(n, h[n - 1])]
    BY <1>8
  <2> HIDE DEF h
  <2>2. h[0] = Base /\ \A n \in 1 .. s : h[n] = Folds(n, h[n - 1])
    BY <1>1, <2>1
  <2>3. QED
    BY <2>2 DEF h
<1> DEFINE T == {n \in Nat : n <= s => after[n] = Result(n)}
<1>10. \A n \in Nat : n \in T
  <2>1. 0 \in T
    BY <1>4, <1>9
  <2>2. ASSUME NEW n \in Nat, n \in T PROVE n + 1 \in T
    <3> SUFFICES ASSUME n + 1 <= s PROVE after[n + 1] = Result(n + 1)
      OBVIOUS
    <3>1. n + 1 \in 1 .. s /\ (n + 1) - 1 = n /\ after[n] = Result(n)
      BY <1>1, <2>2
    <3>2. after[n + 1] = Folds(n + 1, after[n]) /\ Result(n + 1) = Folds(n + 1, Result(n))
      BY <1>6, <1>9, <3>1
    <3>3. QED
      BY <3>1, <3>2
  <2> HIDE DEF T
  <2>3. QED
    BY <2>1, <2>2, SetInduction
<1>11. after[s] = Result(s)
  BY <1>1, <1>10
<1>12. CASE s = 0
  <2>1. Result(s).values = elements
    BY <1>12 DEF Result
  <2>2. QED
    BY <1>2, <1>11, <1>12, <2>1
<1>13. CASE s # 0
  <2>1. Result(s).values = Coset(s)
    BY <1>13 DEF Result
  <2>2. Coset(s)[1] = Element(d + s, row, FALSE)
    <3>1. s - s = 0 /\ Pow2[0] = 1 /\ row * 1 + (1 - 1) = row
      BY <1>1, Pow2Values
    <3>2. Coset(s)[1] = Honest(s, row * 1 + (1 - 1))
      <4> HIDE DEF Honest
      <4>1. 1 \in 1 .. Pow2[s - s] /\ Pow2[s - s] = 1
        BY <3>1
      <4>2. Coset(s)[1] = Honest(s, row * Pow2[s - s] + (1 - 1))
        BY <4>1
      <4>3. QED
        BY <4>1, <4>2
    <3>3. QED
      BY <1>13, <3>1, <3>2
  <2>3. QED
    BY <1>1, <1>2, <1>11, <1>13, <2>1, <2>2
<1>14. QED
  BY <1>12, <1>13

-----------------------------------------------------------------------------
\* The steps.  None changes the parameters, nor what is defined by them.
LEMMA ParametersKept ==
  ASSUME UNCHANGED parameters
  PROVE  /\ n_layers' = n_layers /\ Depth' = Depth /\ Start' = Start /\ Wrong' = Wrong
         /\ query_indices_' = query_indices_ /\ cheats' = cheats
         /\ FirstLayerQueries' = FirstLayerQueries
         /\ \A k : /\ Step(k)' = Step(k) /\ Touched(k)' = Touched(k) /\ OnPaths(k)' = OnPaths(k)
                   /\ Transmitted(k)' = Transmitted(k) /\ Messages(k)' = Messages(k)
                   /\ Cell(k)' = Cell(k)
         /\ \A j, k : /\ Index(j, k)' = Index(j, k) /\ CellOf(j, k)' = CellOf(j, k)
                      /\ ResultOf(j, k)' = ResultOf(j, k) /\ Message(k, j)' = Message(k, j)
                      /\ Sent(k, j)' = Sent(k, j) /\ Committed(k, j)' = Committed(k, j)
         /\ \A j : Path(j)' = Path(j)
         /\ (Parameters <=> Parameters')
<1>1. n_layers' = n_layers /\ query_indices_' = query_indices_ /\ cheats' = cheats
  BY DEF parameters, n_layers
<1>2. Depth' = Depth
  BY DEF parameters, Depth, n_layers
<1>3. SizeAt(0)' = SizeAt(0) /\ Wrong' = Wrong
  BY <1>1, <1>2 DEF parameters, SizeAt, Wrong, Element
<1>4. ASSUME NEW k
      PROVE  /\ Step(k)' = Step(k) /\ Touched(k)' = Touched(k) /\ OnPaths(k)' = OnPaths(k)
             /\ Transmitted(k)' = Transmitted(k)
  BY <1>2 DEF parameters, Transmitted, InOrder, Touched, OnPaths, CellOf, Index, IndexInLayer,
       Step, GetTableProverRowCol, GetTableProverCol, GetTableProverRow, Columns
<1>5. FirstLayerQueries' = FirstLayerQueries
  BY DEF parameters, FirstLayerQueries, SecondLayerQueriesToFirstLayerQueries, Step
<1>6. \A k : Messages(k)' = Messages(k)
  BY <1>4, <1>5 DEF Messages
<1>7. \A k : Cell(k)' = Cell(k)
  BY <1>1, <1>2, <1>4 DEF parameters, Cell, SizeAt
<1>8. ASSUME NEW j, NEW k
      PROVE  /\ Index(j, k)' = Index(j, k) /\ CellOf(j, k)' = CellOf(j, k)
             /\ ResultOf(j, k)' = ResultOf(j, k)
             /\ Sent(k, j)' = Sent(k, j) /\ Committed(k, j)' = Committed(k, j)
  <2>1. Index(j, k)' = Index(j, k)
    BY <1>2 DEF parameters, Index, IndexInLayer
  <2>2. CellOf(j, k)' = CellOf(j, k)
    BY <1>4, <2>1 DEF CellOf
  <2>3. ResultOf(j, k)' = ResultOf(j, k)
    BY <1>2, <2>1 DEF ResultOf
  <2>4. Sent(k, j)' = Sent(k, j) /\ Committed(k, j)' = Committed(k, j)
    BY <1>2, <1>4 DEF parameters, Sent, Committed, Element
  <2>5. QED
    BY <2>1, <2>2, <2>3, <2>4
<1>9. \A k, j : Message(k, j)' = Message(k, j)
  <2>1. \A k, c : Sent(k, c)' = Sent(k, c)
    BY <1>8
  <2>2. ASSUME NEW k, NEW j PROVE Message(k, j)' = Message(k, j)
    <3>1. Transmitted(k)' = Transmitted(k)
      BY <1>4
    <3> DEFINE c == Transmitted(k)[j]
    <3>2. Sent(k, c)' = Sent(k, c)
      BY <2>1, <3>1
    <3>3. QED
      BY <1>5, <3>1, <3>2 DEF Message
  <2>3. QED
    BY <2>2
<1>10. Start' = Start
  BY DEF parameters, Start, n_layers, Depth, Messages, FirstLayerQueries,
       SecondLayerQueriesToFirstLayerQueries, Transmitted, InOrder, Touched, OnPaths, CellOf, Index,
       IndexInLayer, Step, GetTableProverRowCol, GetTableProverCol, GetTableProverRow, Columns
<1>11. \A j : Path(j)' = Path(j)
  BY <1>1, <1>2 DEF parameters, Path, IndexInLayer
<1>12. Parameters <=> Parameters'
  BY <1>1, <1>2 DEF parameters, Parameters, SizeAt
<1>13. QED
  BY <1>1, <1>2, <1>3, <1>4, <1>5, <1>6, <1>7, <1>8, <1>9, <1>10, <1>11, <1>12

\* The invariant holds at first.
LEMMA InitStep == Init => IInv
<1> SUFFICES ASSUME Init PROVE IInv
  OBVIOUS
<1>1. fri_step_list \in Seq(Nat) /\ Len(fri_step_list) > 0 /\ log_last \in Nat
  BY FriAssumption DEF Init
<1>2. n_layers \in Nat /\ n_layers >= 1 /\ n_layers = Len(fri_step_list)
  BY <1>1 DEF n_layers
<1>3. query_indices_ \in [1 .. NumQueries -> 0 .. SizeAt(Depth[1]) - 1]
  BY DEF Init
<1>4. cheats \subseteq {Depth[k] : k \in 1 .. n_layers} \X Nat
  <2> DEFINE elements == UNION {{Depth[k]} \X (0 .. SizeAt(Depth[k]) - 1) : k \in 1 .. n_layers}
  <2>1. cheats \in {{}} \cup {{e} : e \in elements}
    BY DEF Init
  <2>2. \A e \in elements : e \in {Depth[k] : k \in 1 .. n_layers} \X Nat
    <3>1. ASSUME NEW e \in elements PROVE e \in {Depth[k] : k \in 1 .. n_layers} \X Nat
      <4>1. PICK k \in 1 .. n_layers : e \in {Depth[k]} \X (0 .. SizeAt(Depth[k]) - 1)
        OBVIOUS
      <4>2. (0 .. SizeAt(Depth[k]) - 1) \subseteq Nat
        OBVIOUS
      <4>3. QED
        BY <4>1, <4>2
    <3>2. QED
      BY <3>1
  <2> HIDE DEF elements
  <2>3. QED
    BY <2>1, <2>2
<1>5. Parameters
  BY <1>1, <1>2, <1>3, <1>4 DEF Parameters
<1>6. Scripted
  <2>1. Start[0] = 0
    BY <1>5, StartValues
  <2>2. phase = "decommit" /\ layer_num = 0 /\ proof = <<>>
    BY DEF Init
  <2>3. SentLayers = 0
    BY <2>2 DEF SentLayers
  <2>4. proof \in Tape /\ Len(proof) = 0
    BY <2>2 DEF Tape
  <2>5. 0 .. SentLayers - 1 = {}
    BY <2>3
  <2>6. QED
    BY <1>2, <2>1, <2>2, <2>3, <2>4, <2>5 DEF Scripted
<1>7. TypeOK
  BY <1>2 DEF Init, TypeOK, Phases
<1>8. Following /\ Consistent /\ Computed /\ Inserted
  BY DEF Init, Following, Consistent, Computed, Inserted
<1>9. AcceptsOnlyConsistentPaths /\ RejectsOnlyInconsistentPaths
  BY <1>7 DEF Init, AcceptsOnlyConsistentPaths, RejectsOnlyInconsistentPaths
<1>10. QED
  BY <1>5, <1>6, <1>7, <1>8, <1>9 DEF IInv

\* What is appended follows what was there.
LEMMA Appended ==
  ASSUME NEW S, NEW s \in Seq(S), NEW t \in Seq(S)
  PROVE  /\ s \o t \in Seq(S) /\ Len(s \o t) = Len(s) + Len(t)
         /\ \A i \in 1 .. Len(s) : (s \o t)[i] = s[i]
         /\ \A j \in 1 .. Len(t) : (s \o t)[Len(s) + j] = t[j]
<1>1. /\ s \o t \in Seq(S) /\ Len(s \o t) = Len(s) + Len(t)
      /\ Len(s) \in Nat /\ Len(t) \in Nat
  OBVIOUS
<1>2. \A i \in 1 .. Len(s) + Len(t) : (s \o t)[i] = IF i <= Len(s) THEN s[i] ELSE t[i - Len(s)]
  OBVIOUS
<1>3. \A i \in 1 .. Len(s) : i \in 1 .. Len(s) + Len(t) /\ i <= Len(s)
  BY <1>1
<1>4. \A j \in 1 .. Len(t) : /\ Len(s) + j \in 1 .. Len(s) + Len(t) /\ ~ (Len(s) + j <= Len(s))
                             /\ (Len(s) + j) - Len(s) = j
  BY <1>1
<1>5. QED
  BY <1>1, <1>2, <1>3, <1>4

\* The prover sends a layer's messages.
LEMMA DecommitStep ==
  ASSUME IInv, Decommit
  PROVE  IInv'
<1> DEFINE k == layer_num
           M == [j \in 1 .. Messages(k) |-> Message(k, j)]
<1>1. Parameters /\ Scripted /\ Following /\ TypeOK
  BY DEF IInv
<1>2. /\ phase = "decommit" /\ k < n_layers /\ layer_num' = k + 1 /\ phase' = "decommit"
      /\ UNCHANGED parameters /\ reads' = <<>> /\ query_results_' = <<>> /\ verdict' = "none"
      /\ UNCHANGED queries /\ UNCHANGED to_verify
  BY <1>1 DEF Decommit, Following
<1>3. k \in 0 .. n_layers - 1 /\ n_layers \in Nat /\ k \in 0 .. n_layers
  BY <1>1, <1>2, DepthValues DEF Scripted
<1>4. Messages(k) \in Nat
  BY <1>1, <1>3, MessageFacts
<1>5. proof' = proof \o M
  <2>1. CASE k = 0
    <3>1. proof' = proof \o [j \in DOMAIN FirstLayerQueries |->
                     [name |-> <<0, <<FirstLayerQueries[j], 0>>>>, value |-> Oracle(FirstLayerQueries[j])]]
      BY <2>1 DEF Decommit, FirstLayerQueries
    <3>2. DOMAIN FirstLayerQueries = 1 .. Messages(0)
      BY <1>1, FirstLayer
    <3>3. QED
      BY <2>1, <3>1, <3>2 DEF Message
  <2>2. CASE k # 0
    <3>1. k \in 1 .. n_layers - 1
      BY <1>3, <2>2
    <3>2. InOrder(ElementsToBeTransmitted(DataQueries(query_indices_, k),
                                          IntegrityQueries(query_indices_, k), k), k) = Transmitted(k)
      BY <1>1, <3>1, LayerQueries
    <3>3. proof' = proof \o [j \in DOMAIN Transmitted(k) |-> Sent(k, Transmitted(k)[j])]
      BY <2>2, <3>2 DEF Decommit
    <3>4. DOMAIN Transmitted(k) = 1 .. Messages(k)
      BY <1>1, <3>1, TransmittedLists
    <3>5. QED
      BY <2>2, <3>3, <3>4 DEF Message
  <2>3. QED
    BY <2>1, <2>2
<1>6. M \in Tape /\ Len(M) = Messages(k) /\ \A j \in 1 .. Messages(k) : M[j] = Message(k, j)
  <2>1. \A j \in 1 .. Messages(k) : Message(k, j) \in [name : Nat \X (Nat \X Nat), value : Elements]
    <3> SUFFICES ASSUME NEW j \in 1 .. Messages(k)
                 PROVE  Message(k, j) \in [name : Nat \X (Nat \X Nat), value : Elements]
      OBVIOUS
    <3>1. /\ Message(k, j).name \in Nat \X (Nat \X Nat) /\ Message(k, j).value \in Elements
          /\ Message(k, j) = [name |-> Message(k, j).name, value |-> Message(k, j).value]
      BY <1>1, <1>3, MessageFacts
    <3>2. QED
      BY <3>1
  <2> DEFINE S == [name : Nat \X (Nat \X Nat), value : Elements]
  <2> HIDE DEF S, k
  <2>2. M \in [1 .. Messages(k) -> S]
    BY <2>1 DEF S
  <2>3. M \in Seq(S) /\ Len(M) = Messages(k)
    BY <1>4, <2>2
  <2>4. QED
    BY <2>3 DEF Tape, S
<1> HIDE DEF M
<1>7. /\ proof \in Tape /\ Len(proof) = Start[k] /\ Start[k] \in Nat
      /\ Start[k + 1] = Start[k] + Messages(k)
      /\ \A l \in 0 .. k - 1 : \A j \in 1 .. Messages(l) :
           /\ proof[Start[l] + j].name = Message(l, j).name
           /\ proof[Start[l] + j].value = Message(l, j).value
  BY <1>1, <1>2, <1>3, StartValues DEF Scripted, SentLayers
<1>8. /\ proof' \in Tape /\ Len(proof') = Start[k + 1]
      /\ \A i \in 1 .. Start[k] : proof'[i] = proof[i]
      /\ \A j \in 1 .. Messages(k) : proof'[Start[k] + j] = Message(k, j)
  <2> DEFINE S == [name : Nat \X (Nat \X Nat), value : Elements]
  <2>1. proof \in Seq(S) /\ M \in Seq(S)
    BY <1>6, <1>7 DEF Tape
  <2> HIDE DEF S
  <2>2. /\ proof' \in Seq(S) /\ Len(proof') = Len(proof) + Len(M)
        /\ \A i \in 1 .. Len(proof) : proof'[i] = proof[i]
        /\ \A j \in 1 .. Len(M) : proof'[Len(proof) + j] = M[j]
    BY <1>5, <2>1, Appended
  <2>3. QED
    BY <1>6, <1>7, <2>2 DEF Tape, S
<1>9. \A l \in 0 .. (k + 1) - 1 : \A j \in 1 .. Messages(l) :
        /\ proof'[Start[l] + j].name = Message(l, j).name
        /\ proof'[Start[l] + j].value = Message(l, j).value
  <2> SUFFICES ASSUME NEW l \in 0 .. (k + 1) - 1, NEW j \in 1 .. Messages(l)
               PROVE  /\ proof'[Start[l] + j].name = Message(l, j).name
                      /\ proof'[Start[l] + j].value = Message(l, j).value
    OBVIOUS
  <2>1. CASE l = k
    BY <1>8, <2>1
  <2>2. CASE l # k
    <3>1. l \in 0 .. k - 1
      BY <1>3, <2>2
    <3>2. Start[l] + j \in 1 .. Start[k]
      BY <1>1, <1>3, <3>1, MessagePlace
    <3>3. QED
      BY <1>7, <1>8, <3>1, <3>2
  <2>3. QED
    BY <2>1, <2>2
<1>10. Scripted'
  <2>1. SentLayers' = k + 1 /\ layer_num' = k + 1 /\ k + 1 \in 0 .. n_layers
    BY <1>2, <1>3 DEF SentLayers
  <2>2. n_layers' = n_layers /\ Start' = Start
        /\ \A l : Messages(l)' = Messages(l) /\ \A j : Message(l, j)' = Message(l, j)
    BY <1>2, ParametersKept
  <2> HIDE DEF k
  <2>3. proof' \in Tape'
    BY <1>8 DEF Tape, Elements
  <2>4. QED
    BY <1>8, <1>9, <2>1, <2>2, <2>3 DEF Scripted
<1>11. TypeOK'
  <2>1. n_layers' = n_layers
    BY <1>2, ParametersKept
  <2>2. Len(proof') \in Nat
    BY <1>1, <1>3, <1>4, <1>7, <1>8
  <2>3. QED
    BY <1>2, <1>3, <2>1, <2>2 DEF TypeOK, Phases
<1>12. Following' /\ Consistent' /\ Computed' /\ Inserted'
  BY <1>2 DEF Following, Consistent, Computed, Inserted
<1>13. AcceptsOnlyConsistentPaths' /\ RejectsOnlyInconsistentPaths'
  BY <1>2, <1>11 DEF AcceptsOnlyConsistentPaths, RejectsOnlyInconsistentPaths
<1>14. Parameters'
  BY <1>1, <1>2, ParametersKept
<1>15. QED
  BY <1>10, <1>11, <1>12, <1>13, <1>14 DEF IInv

\* The invariant is one of the variables.
LEMMA StutterStep ==
  ASSUME IInv, UNCHANGED vars
  PROVE  IInv'
<1>1. UNCHANGED parameters
  BY DEF vars
<1>2. UNCHANGED <<proof, layer_num, phase, data_queries, integrity_queries, to_verify,
                  query_results_, reads, verdict>>
  BY DEF vars, queries
<1>3. TypeOK'
  BY <1>1, <1>2, ParametersKept DEF IInv, TypeOK, Phases
<1>4. Parameters'
  BY <1>1, ParametersKept DEF IInv
<1>5. Scripted'
  <2>1. SentLayers' = SentLayers
    BY <1>1, <1>2, ParametersKept DEF SentLayers
  <2>2. /\ n_layers' = n_layers /\ Start' = Start /\ Wrong' = Wrong
        /\ \A k : Messages(k)' = Messages(k) /\ \A j : Message(k, j)' = Message(k, j)
    BY <1>1, ParametersKept
  <2>3. Tape' = Tape
    BY DEF Tape, Elements
  <2>4. Scripted
    BY DEF IInv
  <2>5. QED
    BY <1>2, <2>1, <2>2, <2>3, <2>4 DEF Scripted
<1>6. Following'
  <2>1. ReadLayers' = ReadLayers
    BY <1>2 DEF ReadLayers
  <2>2. QED
    BY <1>1, <1>2, <2>1, ParametersKept DEF IInv, Following
<1>7. Consistent' /\ Computed'
  BY <1>1, <1>2, ParametersKept DEF IInv, Consistent, Computed
<1>8. Inserted'
  BY <1>1, <1>2, ParametersKept DEF IInv, Inserted
<1>9. AcceptsOnlyConsistentPaths' /\ RejectsOnlyInconsistentPaths'
  BY <1>1, <1>2, <1>3, ParametersKept DEF IInv, AcceptsOnlyConsistentPaths, RejectsOnlyInconsistentPaths, Tampered
<1>10. QED
  BY <1>3, <1>4, <1>5, <1>6, <1>7, <1>8, <1>9 DEF IInv

\* The proof stays as it has reached the verifier.
LEMMA ScriptKept ==
  ASSUME Parameters, Scripted, UNCHANGED <<parameters, proof>>,
         phase # "decommit", phase' # "decommit", layer_num' \in 0 .. n_layers
  PROVE  Parameters' /\ Scripted'
<1>1. SentLayers = n_layers /\ SentLayers' = n_layers
  BY ParametersKept DEF SentLayers
<1>2. Parameters'
  BY ParametersKept
<1>3. /\ n_layers' = n_layers /\ Start' = Start /\ Wrong' = Wrong
      /\ \A k : Messages(k)' = Messages(k) /\ \A j : Message(k, j)' = Message(k, j)
  BY ParametersKept
<1>4. Tape' = Tape
  BY DEF Tape, Elements
<1>5. Scripted'
  BY <1>1, <1>3, <1>4 DEF Scripted
<1>6. QED
  BY <1>2, <1>5

\* A step in which the verifier decides.
LEMMA VerdictStep ==
  ASSUME IInv, UNCHANGED <<parameters, proof, layer_num, reads>>,
         phase # "decommit", phase' = "done", Len(query_results_') = Len(query_results_),
         verdict' \in {"accept", "reject"},
         verdict' = "accept" =>
           /\ ~ Tampered /\ \A j \in 1 .. NumQueries : Path(j) \cap cheats = {}
           /\ reads = [j \in DOMAIN proof |-> proof[j].name],
         verdict' = "reject" => Tampered \/ \E j \in 1 .. NumQueries : Path(j) \cap cheats # {}
  PROVE  IInv'
<1>1. Parameters' /\ Scripted'
  BY ScriptKept DEF IInv, TypeOK
<1>2. TypeOK'
  BY ParametersKept DEF IInv, TypeOK, Phases
<1>3. Following' /\ Consistent' /\ Computed' /\ Inserted'
  BY DEF Following, Consistent, Computed, Inserted
<1>4. (Tampered <=> Tampered') /\ \A j : (Path(j) \cap cheats)' = Path(j) \cap cheats
  BY ParametersKept DEF Tampered
<1>5. AcceptsOnlyConsistentPaths' /\ RejectsOnlyInconsistentPaths'
  BY <1>2, <1>4 DEF AcceptsOnlyConsistentPaths, RejectsOnlyInconsistentPaths
<1>6. QED
  BY <1>1, <1>2, <1>3, <1>5 DEF IInv

\* The proof is sent, as it is or with a value changed.
LEMMA ProverDoneStep ==
  ASSUME IInv, ProverDone
  PROVE  IInv'
<1>1. Parameters /\ Scripted /\ Following /\ TypeOK
  BY DEF IInv
<1>2. /\ phase = "decommit" /\ layer_num = n_layers /\ layer_num' = n_layers /\ phase' = "first"
      /\ UNCHANGED parameters /\ reads' = <<>> /\ query_results_' = <<>> /\ verdict' = "none"
  BY <1>1 DEF ProverDone, Following
<1>3. /\ proof \in Tape /\ Len(proof) = Start[n_layers] /\ Start[n_layers] \in Nat /\ n_layers \in Nat
      /\ \A k \in 0 .. n_layers - 1 : \A j \in 1 .. Messages(k) :
           /\ Start[k] + j \in 1 .. Len(proof)
           /\ proof[Start[k] + j].name = Message(k, j).name
           /\ proof[Start[k] + j].value = Message(k, j).value
  <2>1. n_layers \in 0 .. n_layers /\ n_layers \in Nat
    BY <1>1, DepthValues
  <2>2. /\ proof \in Tape /\ Len(proof) = Start[n_layers] /\ Start[n_layers] \in Nat
        /\ \A k \in 0 .. n_layers - 1 : \A j \in 1 .. Messages(k) :
             /\ proof[Start[k] + j].name = Message(k, j).name
             /\ proof[Start[k] + j].value = Message(k, j).value
    BY <1>1, <1>2, <2>1, StartValues DEF Scripted, SentLayers
  <2>3. \A k \in 0 .. n_layers - 1 : \A j \in 1 .. Messages(k) : Start[k] + j \in 1 .. Start[n_layers]
    BY <1>1, <2>1, MessagePlace
  <2>4. QED
    BY <2>1, <2>2, <2>3
<1>4. /\ proof' \in Tape /\ Len(proof') = Len(proof)
      /\ \A i \in 1 .. Len(proof) : /\ proof'[i].name = proof[i].name
                                    /\ proof'[i].value = proof[i].value \/ proof'[i].value = Wrong
  <2>1. CASE proof' = proof
    BY <1>3, <2>1
  <2>2. CASE \E j \in DOMAIN proof : proof' = [proof EXCEPT ![j].value = Wrong]
    <3>1. PICK j \in DOMAIN proof : proof' = [proof EXCEPT ![j].value = Wrong]
      BY <2>2
    <3> DEFINE S == [name : Nat \X (Nat \X Nat), value : Elements]
               changed == [proof[j] EXCEPT !.value = Wrong]
    <3>2. proof \in Seq(S) /\ j \in 1 .. Len(proof) /\ Len(proof) \in Nat /\ DOMAIN proof = 1 .. Len(proof)
      <4>1. proof \in Seq(S)
        BY <1>3 DEF Tape
      <4> HIDE DEF S
      <4>2. QED
        BY <3>1, <4>1
    <3>3. Wrong \in Elements
      BY <1>1, HonestElements
    <3>4. proof[j] \in S
      <4> HIDE DEF S
      <4>1. QED
        BY <3>2
    <3>5. changed \in S /\ changed.name = proof[j].name /\ changed.value = Wrong
      BY <3>3, <3>4
    <3>6. proof' = [proof EXCEPT ![j] = changed]
      BY <3>1
    <3> HIDE DEF S, changed
    <3>7. /\ proof' \in Seq(S) /\ Len(proof') = Len(proof)
          /\ \A i \in 1 .. Len(proof) : proof'[i] = IF i = j THEN changed ELSE proof[i]
      BY <3>2, <3>5, <3>6
    <3>8. QED
      BY <3>5, <3>7 DEF Tape, S
  <2>3. QED
    BY <2>1, <2>2 DEF ProverDone
<1>5. Scripted'
  <2>1. SentLayers' = n_layers /\ layer_num' \in 0 .. n_layers
    BY <1>2, <1>3, ParametersKept DEF SentLayers
  <2>2. /\ n_layers' = n_layers /\ Start' = Start /\ Wrong' = Wrong
        /\ \A k : Messages(k)' = Messages(k) /\ \A j : Message(k, j)' = Message(k, j)
    BY <1>2, ParametersKept
  <2>3. Tape' = Tape
    BY DEF Tape, Elements
  <2>4. \A k \in 0 .. n_layers - 1 : \A j \in 1 .. Messages(k) :
          /\ proof'[Start[k] + j].name = Message(k, j).name
          /\ proof'[Start[k] + j].value = Message(k, j).value \/ proof'[Start[k] + j].value = Wrong
    BY <1>3, <1>4
  <2>5. Len(proof') = Start[n_layers] /\ proof' \in Tape
    BY <1>3, <1>4
  <2>6. QED
    BY <1>2, <2>1, <2>2, <2>3, <2>4, <2>5 DEF Scripted
<1>6. TypeOK'
  <2>1. n_layers' = n_layers /\ Len(proof') \in Nat
    BY <1>2, <1>3, <1>4, ParametersKept
  <2>2. QED
    BY <1>2, <1>3, <2>1 DEF TypeOK, Phases
<1>7. Following' /\ Consistent' /\ Computed' /\ Inserted'
  BY <1>2 DEF Following, Consistent, Computed, Inserted
<1>8. AcceptsOnlyConsistentPaths' /\ RejectsOnlyInconsistentPaths'
  BY <1>2, <1>6 DEF AcceptsOnlyConsistentPaths, RejectsOnlyInconsistentPaths
<1>9. Parameters'
  BY <1>1, <1>2, ParametersKept
<1>10. QED
  BY <1>5, <1>6, <1>7, <1>8, <1>9 DEF IInv

\* The first layer: what the oracle is asked for.
LEMMA FirstMessages ==
  ASSUME IInv, phase = "first"
  PROVE  /\ Messages(0) \in Nat /\ DOMAIN FirstLayerQueries = 1 .. Messages(0) /\ Start[0] = 0
         /\ Start[1] = Messages(0) /\ Start[1] <= Len(proof) /\ Len(proof) \in Nat /\ 1 \in 0 .. n_layers
         /\ reads = <<>> /\ query_results_ = <<>> /\ verdict = "none"
         /\ \A j \in 1 .. Messages(0) :
              /\ FirstLayerQueries[j] \in Nat
              /\ j \in DOMAIN proof /\ j <= Unread /\ Value(j) = proof[j].value
              /\ proof[j].name = <<0, <<FirstLayerQueries[j], 0>>>>
              /\ proof[j].value = Oracle(FirstLayerQueries[j]) \/ proof[j].value = Wrong
<1>1. Parameters /\ Scripted /\ Following
  BY DEF IInv
<1>2. 0 \in 0 .. n_layers - 1 /\ 1 \in 0 .. n_layers /\ n_layers \in 0 .. n_layers /\ 1 <= n_layers
  BY <1>1, DepthValues
<1>3. /\ Messages(0) \in Nat /\ DOMAIN FirstLayerQueries = 1 .. Messages(0)
      /\ FirstLayerQueries \in Seq(Nat)
  BY <1>1, FirstLayer
<1>4. Start[0] = 0 /\ Start[1] = Messages(0) /\ Start[n_layers] \in Nat /\ Start[1] <= Start[n_layers]
  <2>1. Start[0] = 0 /\ Start[0 + 1] = Start[0] + Messages(0) /\ 0 + 1 = 1
    BY <1>1, <1>2, StartValues
  <2>2. QED
    BY <1>1, <1>2, <1>3, <2>1, StartValues, StartsGrow
<1>5. /\ reads = <<>> /\ query_results_ = <<>> /\ verdict = "none"
      /\ proof \in Tape /\ Len(proof) = Start[n_layers]
  BY <1>1 DEF Following, Scripted, SentLayers
<1>6. DOMAIN proof = 1 .. Len(proof)
  BY <1>5 DEF Tape
<1>7. ASSUME NEW j \in 1 .. Messages(0)
      PROVE  /\ FirstLayerQueries[j] \in Nat
             /\ j \in DOMAIN proof /\ j <= Unread /\ Value(j) = proof[j].value
             /\ proof[j].name = <<0, <<FirstLayerQueries[j], 0>>>>
             /\ proof[j].value = Oracle(FirstLayerQueries[j]) \/ proof[j].value = Wrong
  <2>1. FirstLayerQueries[j] \in Nat
    BY <1>3
  <2>2. j \in DOMAIN proof /\ j <= Len(proof)
    BY <1>3, <1>4, <1>5, <1>6
  <2>3. Len(reads) = 0 /\ 0 + j = j
    BY <1>3, <1>5
  <2>4. Value(j) = proof[j].value /\ j <= Unread
    BY <1>4, <1>5, <2>2, <2>3 DEF Value, Unread
  <2>5. SentLayers = n_layers
    BY DEF SentLayers
  <2>6. /\ proof[Start[0] + j].name = Message(0, j).name
        /\ proof[Start[0] + j].value = Message(0, j).value \/ proof[Start[0] + j].value = Wrong
    BY <1>1, <1>2, <2>5 DEF Scripted
  <2>7. Message(0, j) = [name |-> <<0, <<FirstLayerQueries[j], 0>>>>, value |-> Oracle(FirstLayerQueries[j])]
    BY DEF Message
  <2>8. QED
    BY <1>4, <2>1, <2>2, <2>3, <2>4, <2>6, <2>7
<1>8. QED
  BY <1>2, <1>3, <1>4, <1>5, <1>7

\* The verifier reads the first layer, asks the trace for it, and folds it.
LEMMA VerifyFirstLayerStep ==
  ASSUME IInv, VerifyFirstLayer
  PROVE  IInv'
<1> DEFINE p == Pow2[Step(0)]
           asked == FirstLayerQueries
           Turned == \E j \in DOMAIN asked : j > Unread \/ Value(j) # Oracle(asked[j])
<1>1. Parameters /\ Scripted /\ Following /\ TypeOK
  BY DEF IInv
<1>2. phase = "first" /\ UNCHANGED parameters /\ UNCHANGED proof /\ UNCHANGED to_verify
  BY DEF VerifyFirstLayer
<1>3. /\ Messages(0) \in Nat /\ DOMAIN asked = 1 .. Messages(0) /\ Start[0] = 0
      /\ Start[1] = Messages(0) /\ Start[1] <= Len(proof) /\ Len(proof) \in Nat /\ 1 \in 0 .. n_layers
      /\ reads = <<>> /\ query_results_ = <<>> /\ verdict = "none"
      /\ \A j \in 1 .. Messages(0) :
           /\ asked[j] \in Nat
           /\ j \in DOMAIN proof /\ j <= Unread /\ Value(j) = proof[j].value
           /\ proof[j].name = <<0, <<asked[j], 0>>>>
           /\ proof[j].value = Oracle(asked[j]) \/ proof[j].value = Wrong
  BY <1>2, FirstMessages
<1>4. CASE Turned
  <2>1. /\ phase' = "done" /\ verdict' = "reject" /\ UNCHANGED <<layer_num, query_results_, reads>>
    BY <1>4 DEF VerifyFirstLayer, FirstLayerQueries
  <2>2. PICK j \in 1 .. Messages(0) : j > Unread \/ Value(j) # Oracle(asked[j])
    BY <1>3, <1>4
  <2>3. j <= Unread /\ Unread \in Int /\ j \in Nat
    BY <1>3 DEF Unread
  <2>4. Value(j) # Oracle(asked[j])
    BY <2>2, <2>3
  <2>5. Tampered
    BY <1>3, <2>4 DEF Tampered
  <2>6. QED
    BY <1>2, <2>1, <2>5, VerdictStep
<1>5. CASE ~ Turned
  <2>1. /\ query_results_' = [j \in 1 .. NumQueries |->
              ApplyFriLayers([i \in 1 .. p |-> Value((j - 1) * p + i)], 0, asked[(j - 1) * p + 1])]
        /\ reads' = reads \o [j \in DOMAIN asked |-> <<0, <<asked[j], 0>>>>]
        /\ layer_num' = 1 /\ phase' = "query" /\ verdict' = "none"
    BY <1>3, <1>5 DEF VerifyFirstLayer, FirstLayerQueries
  <2>2. \A j \in 1 .. Messages(0) : proof[j].value = Oracle(asked[j]) /\ Value(j) = Oracle(asked[j])
    BY <1>3, <1>5
  <2>3. p \in Nat /\ p >= 1 /\ Step(0) \in Nat /\ Depth[0] = 0 /\ Depth[1] = Step(0)
        /\ 0 \in 0 .. n_layers - 1 /\ n_layers \in Nat /\ n_layers >= 1
    <3>1. 0 \in 0 .. n_layers - 1 /\ n_layers \in Nat /\ n_layers >= 1 /\ 0 + 1 = 1
      BY <1>1, DepthValues
    <3>2. Step(0) \in Nat /\ Depth[0] = 0 /\ Depth[0 + 1] = Depth[0] + Step(0)
      BY <1>1, <3>1, DepthValues
    <3>3. QED
      BY <3>1, <3>2, Pow2Values
  <2>4. ASSUME NEW j \in 1 .. NumQueries PROVE query_results_'[j] = ResultOf(j, 1)
    <3> DEFINE row == Index(j, 1)
               elements == [i \in 1 .. p |-> Value((j - 1) * p + i)]
    <3>1. /\ row \in Nat
          /\ \A i \in 1 .. p : /\ (j - 1) * p + i \in 1 .. Messages(0)
                               /\ asked[(j - 1) * p + i] = row * p + (i - 1)
      <4>1. 1 \in 1 .. n_layers
        BY <2>3
      <4>2. row \in 0 .. SizeAt(Depth[1]) - 1
        BY <1>1, <4>1, Indices
      <4>3. QED
        BY <1>1, <4>2, FirstLayer
    <3>2. query_results_'[j] = ApplyFriLayers(elements, 0, row * p)
      <4>1. 1 \in 1 .. p /\ row * p \in Nat /\ row * p + (1 - 1) = row * p
        BY <2>3, <3>1
      <4>2. asked[(j - 1) * p + 1] = row * p
        BY <3>1, <4>1
      <4>3. QED
        BY <2>1, <4>2
    <3>3. \A i \in 1 .. p : elements[i] = Oracle(row * p + (i - 1)) /\ row * p + (i - 1) \in Nat
      <4> SUFFICES ASSUME NEW i \in 1 .. p
                   PROVE  elements[i] = Oracle(row * p + (i - 1)) /\ row * p + (i - 1) \in Nat
        OBVIOUS
      <4>1. /\ (j - 1) * p + i \in 1 .. Messages(0)
            /\ asked[(j - 1) * p + i] = row * p + (i - 1)
        BY <3>1
      <4>2. elements[i] = Value((j - 1) * p + i)
        OBVIOUS
      <4> DEFINE n == (j - 1) * p + i
      <4> HIDE DEF n, elements, row, p
      <4>3. Value(n) = Oracle(asked[n]) /\ asked[n] \in Nat
        BY <1>3, <2>2, <4>1 DEF n
      <4>4. QED
        BY <4>1, <4>2, <4>3 DEF n
    <3>4. elements \in [1 .. p -> Elements]
      <4>1. \A i \in 1 .. p : elements[i] \in Elements
        <5> HIDE DEF elements, row, p
        <5>1. QED
          BY <1>1, <3>3, HonestElements
      <4>2. elements = [i \in 1 .. p |-> elements[i]]
        OBVIOUS
      <4> HIDE DEF elements
      <4>3. QED
        BY <4>1, <4>2
    <3>5. Step(0) > 0 => \A i \in 1 .. p : elements[i] = Committed(Depth[0], row * p + (i - 1))
      <4> SUFFICES ASSUME Step(0) > 0, NEW i \in 1 .. p
                   PROVE  elements[i] = Committed(Depth[0], row * p + (i - 1))
        OBVIOUS
      <4> HIDE DEF elements, row, p
      <4>1. Committed(0, row * p + (i - 1)) = Element(0, row * p + (i - 1), FALSE)
        <5>1. 0 < Depth[0 + 1] /\ 0 \in Nat
          BY <2>3
        <5>2. QED
          BY <1>1, <2>3, <5>1, NotCommitted
      <4>2. QED
        BY <2>3, <3>3, <4>1 DEF Oracle
    <3>6. ApplyFriLayers(elements, 0, row * p) =
            IF Step(0) = 0 THEN elements[1] ELSE Element(Depth[0 + 1], row, FALSE)
      <4> HIDE DEF elements, row
      <4>1. QED
        BY <1>1, <2>3, <3>1, <3>4, <3>5, FoldsOfCommitted
    <3>7. CASE Step(0) = 0
      <4>1. p = 1 /\ 1 \in 1 .. p
        BY <3>7, Pow2Values
      <4>2. row * p + (1 - 1) = row
        <5> HIDE DEF row
        <5>1. QED
          BY <3>1, <4>1
      <4>3. elements[1] = Oracle(row)
        <5> HIDE DEF elements, row, p
        <5>1. QED
          BY <3>3, <4>1, <4>2
      <4>4. QED
        BY <2>3, <3>2, <3>6, <3>7, <4>3 DEF Oracle, ResultOf
    <3>8. CASE Step(0) # 0
      <4> HIDE DEF elements
      <4> HIDE DEF row, p
      <4>1. query_results_'[j] = Element(Depth[0 + 1], row, FALSE)
        BY <3>2, <3>6, <3>8, Zenon
      <4>2. 0 + 1 = 1
        OBVIOUS
      <4>3. QED
        BY <4>1, <4>2, Zenon DEF ResultOf, row
    <3>9. QED
      BY <3>7, <3>8
  <2>5. reads' = [i \in 1 .. Start[1] |-> proof[i].name]
    <3> DEFINE new == [j \in DOMAIN asked |-> <<0, <<asked[j], 0>>>>]
    <3>1. new = [j \in 1 .. Messages(0) |-> proof[j].name]
      BY <1>3
    <3>2. new \in Seq(Nat \X (Nat \X Nat))
      <4>1. \A j \in 1 .. Messages(0) : <<0, <<asked[j], 0>>>> \in Nat \X (Nat \X Nat)
        BY <1>3
      <4>2. new \in [1 .. Messages(0) -> Nat \X (Nat \X Nat)]
        BY <1>3, <4>1
      <4>3. QED
        BY <1>3, <4>2
    <3> HIDE DEF new
    <3>3. <<>> \o new = new
      BY <3>2
    <3>4. reads' = new
      BY <1>3, <2>1, <3>3 DEF new
    <3>5. QED
      BY <1>3, <3>1, <3>4
  <2>6. Parameters' /\ Scripted'
    <3>1. layer_num' \in 0 .. n_layers /\ phase' # "decommit" /\ phase # "decommit"
      BY <1>2, <1>3, <2>1
    <3>2. QED
      BY <1>1, <1>2, <3>1, ScriptKept
  <2>7. DOMAIN query_results_' = 1 .. NumQueries /\ Len(query_results_') = NumQueries
    <3>1. NumQueries \in Nat
      BY FriAssumption
    <3> DEFINE r(j) == ApplyFriLayers([i \in 1 .. p |-> Value((j - 1) * p + i)], 0, asked[(j - 1) * p + 1])
    <3>2. query_results_' = [j \in 1 .. NumQueries |-> r(j)]
      BY <2>1
    <3> HIDE DEF r
    <3>3. QED
      BY <3>1, <3>2
  <2>8. Following'
    <3>1. ReadLayers' = 1
      BY <2>1 DEF ReadLayers
    <3>2. \A i \in 1 .. Start[1] : proof[i].value # Wrong
      BY <1>1, <1>3, <2>2, HonestElements
    <3>3. Start' = Start /\ Wrong' = Wrong /\ n_layers' = n_layers
      BY <1>2, ParametersKept
    <3>4. reads' = [i \in 1 .. Start'[ReadLayers'] |-> proof'[i].name]
      BY <1>2, <2>5, <3>1, <3>3
    <3>5. \A i \in 1 .. Start'[layer_num'] : proof'[i].value # Wrong'
      BY <1>2, <2>1, <3>2, <3>3
    <3>6. layer_num' = 1 /\ phase' = "query" /\ verdict' = "none" /\ 1 >= 1
      BY <2>1
    <3>7. QED
      BY <2>7, <3>4, <3>5, <3>6, Zenon DEF Following
  <2>9. Consistent'
    BY <2>1 DEF Consistent
  <2>10. Computed'
    <3>1. \A j : ResultOf(j, 1)' = ResultOf(j, 1)
      BY <1>2, ParametersKept
    <3>2. QED
      BY <2>1, <2>4, <3>1 DEF Computed
  <2>11. Inserted'
    BY <2>1 DEF Inserted
  <2>12. TypeOK'
    <3>1. n_layers' = n_layers
      BY <1>2, ParametersKept
    <3>2. Len(reads') = Start[1]
      BY <1>3, <2>5
    <3>3. QED
      BY <1>2, <1>3, <2>1, <2>7, <3>1, <3>2 DEF TypeOK, Phases
  <2>13. AcceptsOnlyConsistentPaths' /\ RejectsOnlyInconsistentPaths'
    BY <2>1, <2>12 DEF AcceptsOnlyConsistentPaths, RejectsOnlyInconsistentPaths
  <2>14. QED
    BY <2>6, <2>8, <2>9, <2>10, <2>11, <2>12, <2>13 DEF IInv
<1>6. QED
  BY <1>4, <1>5

\* An inner layer's messages, as the verifier finds them.
LEMMA InnerMessages ==
  ASSUME Parameters, Scripted, phase # "decommit", NEW k \in 1 .. n_layers - 1
  PROVE  /\ Messages(k) \in Nat /\ Start[k] \in Nat /\ Start[k + 1] = Start[k] + Messages(k)
         /\ Start[k + 1] <= Len(proof) /\ Len(proof) \in Nat
         /\ \A i \in 1 .. Len(proof) : proof[i].name \in Nat \X (Nat \X Nat)
         /\ \A j \in 1 .. Messages(k) :
              /\ Transmitted(k)[j] \in Touched(k) \ OnPaths(k)
              /\ Start[k] + j \in DOMAIN proof
              /\ proof[Start[k] + j].name = <<k, Transmitted(k)[j]>>
              /\ \/ proof[Start[k] + j].value = Sent(k, Transmitted(k)[j]).value
                 \/ proof[Start[k] + j].value = Wrong
<1>1. k \in 0 .. n_layers - 1 /\ k # 0 /\ k + 1 \in 0 .. n_layers /\ n_layers \in 0 .. n_layers
      /\ k + 1 <= n_layers /\ k \in 0 .. n_layers
  BY DepthValues
<1>2. /\ Messages(k) \in Nat /\ Start[k] \in Nat /\ Start[k + 1] = Start[k] + Messages(k)
      /\ Start[k + 1] <= Start[n_layers] /\ Start[n_layers] \in Nat
  BY <1>1, StartValues, StartsGrow
<1>3. /\ SentLayers = n_layers /\ proof \in Tape /\ Len(proof) = Start[n_layers]
      /\ DOMAIN proof = 1 .. Len(proof)
  BY DEF SentLayers, Scripted, Tape
<1>4. \A i \in 1 .. Len(proof) : proof[i].name \in Nat \X (Nat \X Nat)
  <2> DEFINE N3 == Nat \X (Nat \X Nat)
             S == [name : N3, value : Elements]
  <2> HIDE DEF N3, S
  <2>1. proof \in Seq(S)
    BY <1>3 DEF Tape, N3, S
  <2>2. \A i \in 1 .. Len(proof) : proof[i] \in S
    BY <2>1
  <2>3. \A i \in 1 .. Len(proof) : proof[i].name \in N3
    BY <2>2 DEF S
  <2>4. QED
    BY <2>3 DEF N3
<1>5. ASSUME NEW j \in 1 .. Messages(k)
      PROVE  /\ Transmitted(k)[j] \in Touched(k) \ OnPaths(k)
             /\ Start[k] + j \in DOMAIN proof
             /\ proof[Start[k] + j].name = <<k, Transmitted(k)[j]>>
             /\ \/ proof[Start[k] + j].value = Sent(k, Transmitted(k)[j]).value
                \/ proof[Start[k] + j].value = Wrong
  <2>1. Transmitted(k)[j] \in Touched(k) \ OnPaths(k)
    <3>1. /\ Transmitted(k) \in Seq(Touched(k) \ OnPaths(k)) /\ Messages(k) = Len(Transmitted(k))
      BY TransmittedLists
    <3>2. QED
      BY <3>1
  <2>2. Start[k] + j \in DOMAIN proof
    <3>1. Start[k] + j \in 1 .. Start[n_layers]
      BY <1>1, MessagePlace
    <3>2. QED
      BY <1>3, <3>1
  <2>3. Message(k, j) = Sent(k, Transmitted(k)[j])
    BY <1>1 DEF Message
  <2>4. Sent(k, Transmitted(k)[j]).name = <<k, Transmitted(k)[j]>>
    BY DEF Sent
  <2>5. /\ proof[Start[k] + j].name = Message(k, j).name
        /\ proof[Start[k] + j].value = Message(k, j).value \/ proof[Start[k] + j].value = Wrong
    BY <1>1, <1>3 DEF Scripted
  <2>6. QED
    BY <2>1, <2>2, <2>3, <2>4, <2>5
<1>6. QED
  BY <1>2, <1>3, <1>4, <1>5

\* Reading on.
LEMMA ReadOn ==
  ASSUME NEW S, NEW a \in Nat, NEW b \in Nat, NEW F, \A i \in 1 .. a + b : F[i] \in S
  PROVE  [i \in 1 .. a |-> F[i]] \o [j \in 1 .. b |-> F[a + j]] = [i \in 1 .. a + b |-> F[i]]
<1> DEFINE s == [i \in 1 .. a |-> F[i]]
           t == [j \in 1 .. b |-> F[a + j]]
           u == [i \in 1 .. a + b |-> F[i]]
<1>1. s \in [1 .. a -> S] /\ t \in [1 .. b -> S] /\ u \in [1 .. a + b -> S]
  OBVIOUS
<1>2. \A i \in 1 .. a : s[i] = F[i]
  OBVIOUS
<1>3. \A j \in 1 .. b : t[j] = F[a + j]
  OBVIOUS
<1>4. \A i \in 1 .. a + b : u[i] = F[i]
  OBVIOUS
<1> HIDE DEF s, t, u
<1>5. s \in Seq(S) /\ Len(s) = a /\ t \in Seq(S) /\ Len(t) = b /\ u \in Seq(S) /\ Len(u) = a + b
  BY <1>1
<1>6. /\ s \o t \in Seq(S) /\ Len(s \o t) = a + b
      /\ \A i \in 1 .. a : (s \o t)[i] = s[i]
      /\ \A j \in 1 .. b : (s \o t)[a + j] = t[j]
  <2>1. /\ s \o t \in Seq(S) /\ Len(s \o t) = Len(s) + Len(t)
        /\ \A i \in 1 .. Len(s) : (s \o t)[i] = s[i]
        /\ \A j \in 1 .. Len(t) : (s \o t)[Len(s) + j] = t[j]
    BY <1>5, Appended
  <2>2. QED
    BY <1>5, <2>1
<1>7. \A i \in 1 .. a + b : (s \o t)[i] = u[i]
  <2> SUFFICES ASSUME NEW i \in 1 .. a + b PROVE (s \o t)[i] = u[i]
    OBVIOUS
  <2>1. CASE i <= a
    BY <1>2, <1>4, <1>6, <2>1
  <2>2. CASE i > a
    <3>1. i - a \in 1 .. b /\ a + (i - a) = i
      BY <2>2
    <3>2. (s \o t)[a + (i - a)] = t[i - a] /\ t[i - a] = F[a + (i - a)]
      BY <1>3, <1>6, <3>1
    <3>3. (s \o t)[i] = F[i] /\ u[i] = F[i]
      BY <1>4, <3>1, <3>2
    <3>4. QED
      BY <3>3
  <2>3. i <= a \/ i > a
    OBVIOUS
  <2>4. QED
    BY <2>1, <2>2, <2>3, Zenon
<1>8. s \o t = u
  <2> DEFINE v == s \o t
  <2>1. v \in Seq(S) /\ Len(v) = a + b /\ \A i \in 1 .. a + b : v[i] = u[i]
    BY <1>6, <1>7
  <2> HIDE DEF v
  <2>2. v \in [1 .. a + b -> S]
    BY <2>1
  <2>3. v = [i \in 1 .. a + b |-> v[i]] /\ u = [i \in 1 .. a + b |-> u[i]]
    BY <1>1, <2>2
  <2>4. v = u
    BY <2>1, <2>3
  <2>5. QED
    BY <2>4 DEF v
<1>9. QED
  BY <1>8 DEF s, t, u

\* The verifier reads a layer's messages.
LEMMA QueryStep ==
  ASSUME IInv, Query
  PROVE  IInv'
<1> DEFINE k == layer_num
           data == DataQueries(query_indices_, k)
           integrity == IntegrityQueries(query_indices_, k)
           cells == InOrder(ElementsToBeTransmitted(data, integrity, k), k)
<1>1. Parameters /\ Scripted /\ Following /\ TypeOK /\ Computed /\ Consistent
  BY DEF IInv
<1>2. phase = "query" /\ k < n_layers /\ UNCHANGED <<parameters, proof, layer_num, query_results_>>
  BY DEF Query
<1>3. k \in 1 .. n_layers - 1 /\ n_layers \in Nat /\ k \in 0 .. n_layers
  <2>1. k \in 0 .. n_layers /\ n_layers \in Nat /\ k >= 1
    BY <1>1, <1>2, DepthValues DEF Scripted, Following
  <2>2. QED
    BY <1>2, <2>1
<1>4. data = Touched(k) \ OnPaths(k) /\ integrity = OnPaths(k) /\ Transmitted(k) = cells
  BY <1>1, <1>3, LayerQueries
<1>5. /\ DOMAIN cells = 1 .. Messages(k) /\ Len(cells) = Messages(k)
      /\ Range(cells) = Touched(k) \ OnPaths(k)
      /\ \A i, j \in 1 .. Messages(k) : cells[i] = cells[j] => i = j
  BY <1>1, <1>3, <1>4, TransmittedLists
<1>6. /\ Messages(k) \in Nat /\ Start[k] \in Nat /\ Start[k + 1] = Start[k] + Messages(k)
      /\ Start[k + 1] <= Len(proof) /\ Len(proof) \in Nat
      /\ \A i \in 1 .. Len(proof) : proof[i].name \in Nat \X (Nat \X Nat)
      /\ \A j \in 1 .. Messages(k) : proof[Start[k] + j].name = <<k, cells[j]>>
  BY <1>1, <1>2, <1>3, <1>4, InnerMessages
<1>7. /\ reads = [i \in 1 .. Start[k] |-> proof[i].name] /\ Len(reads) = Start[k]
  <2>1. ReadLayers = k
    BY <1>2 DEF ReadLayers
  <2>2. reads = [i \in 1 .. Start[k] |-> proof[i].name]
    BY <1>1, <1>2, <2>1 DEF Following
  <2>3. QED
    BY <1>6, <2>2
<1>8. ~ (data \cap integrity # {} \/ Len(cells) > Unread)
  <2>1. data \cap integrity = {}
    BY <1>4
  <2>2. ~ (Len(cells) > Unread)
    BY <1>5, <1>6, <1>7 DEF Unread
  <2>3. QED
    BY <2>1, <2>2
<1>9. /\ data_queries' = data /\ integrity_queries' = integrity
      /\ to_verify' = [c \in Range(cells) |-> Value(CHOOSE j \in DOMAIN cells : cells[j] = c)]
      /\ reads' = reads \o [j \in DOMAIN cells |-> <<k, cells[j]>>]
      /\ phase' = "compute" /\ verdict' = "none"
  <2>1. verdict = "none"
    BY <1>1, <1>2 DEF Following
  <2>2. QED
    BY <1>8, <2>1 DEF Query
<1> HIDE DEF cells, data, integrity, k
<1>10. DOMAIN to_verify' = Touched(k) \ OnPaths(k)
  BY <1>5, <1>9
<1>11. ASSUME NEW j \in 1 .. Messages(k) PROVE to_verify'[cells[j]] = proof[Start[k] + j].value
  <2>1. cells[j] \in Range(cells)
    BY <1>5 DEF Range
  <2> DEFINE i == CHOOSE i \in DOMAIN cells : cells[i] = cells[j]
  <2>2. i \in DOMAIN cells /\ cells[i] = cells[j]
    BY <1>5
  <2>3. i = j
    <3> HIDE DEF i
    <3>1. QED
      BY <1>5, <2>2
  <2>4. to_verify'[cells[j]] = Value(i)
    BY <1>9, <2>1
  <2>5. Value(j) = proof[Start[k] + j].value
    BY <1>7 DEF Value
  <2> HIDE DEF i
  <2>6. QED
    BY <2>3, <2>4, <2>5
<1>12. reads' = [i \in 1 .. Start[k + 1] |-> proof[i].name]
  <2> DEFINE F == [i \in 1 .. Len(proof) |-> proof[i].name]
             N3 == Nat \X (Nat \X Nat)
  <2>1. \A i \in 1 .. Start[k] + Messages(k) : F[i] \in N3 /\ F[i] = proof[i].name
    BY <1>6
  <2>2. reads = [i \in 1 .. Start[k] |-> F[i]]
    BY <1>6, <1>7, <2>1
  <2>3. [j \in DOMAIN cells |-> <<k, cells[j]>>] = [j \in 1 .. Messages(k) |-> F[Start[k] + j]]
    <3>1. \A j \in 1 .. Messages(k) : Start[k] + j \in 1 .. Start[k] + Messages(k)
      BY <1>6
    <3>2. \A j \in 1 .. Messages(k) : <<k, cells[j]>> = F[Start[k] + j]
      <4> HIDE DEF F
      <4>1. QED
        BY <1>6, <2>1, <3>1
    <3> HIDE DEF F
    <3>3. QED
      BY <1>5, <3>2
  <2> HIDE DEF F, N3
  <2>4. [i \in 1 .. Start[k] |-> F[i]] \o [j \in 1 .. Messages(k) |-> F[Start[k] + j]]
          = [i \in 1 .. Start[k] + Messages(k) |-> F[i]]
    <3>1. \A a, b \in Nat : (\A i \in 1 .. a + b : F[i] \in N3) =>
            [i \in 1 .. a |-> F[i]] \o [j \in 1 .. b |-> F[a + j]] = [i \in 1 .. a + b |-> F[i]]
      BY ReadOn
    <3>2. Start[k] \in Nat /\ Messages(k) \in Nat
      BY <1>6
    <3>3. \A i \in 1 .. Start[k] + Messages(k) : F[i] \in N3
      BY <2>1
    <3>4. QED
      BY <3>1, <3>2, <3>3, ZenonT(30)
  <2>5. reads' = [i \in 1 .. Start[k] + Messages(k) |-> F[i]]
    BY <1>9, <2>2, <2>3, <2>4
  <2>6. QED
    BY <1>6, <2>1, <2>5
<1>13. Parameters' /\ Scripted'
  <2>1. layer_num' \in 0 .. n_layers /\ phase' # "decommit" /\ phase # "decommit"
    BY <1>2, <1>3, <1>9 DEF k
  <2>2. QED
    BY <1>1, <1>2, <2>1, ScriptKept
<1>14. /\ n_layers' = n_layers /\ Start' = Start /\ Wrong' = Wrong /\ cheats' = cheats /\ Depth' = Depth
       /\ Touched(k)' = Touched(k) /\ OnPaths(k)' = OnPaths(k) /\ Messages(k)' = Messages(k)
       /\ Transmitted(k)' = Transmitted(k) /\ Cell(k)' = Cell(k)
       /\ \A j, l : Index(j, l)' = Index(j, l) /\ ResultOf(j, l)' = ResultOf(j, l)
  <2>1. k' = k
    BY <1>2 DEF k
  <2>2. QED
    BY <1>2, <2>1, ParametersKept
<1>15. /\ layer_num' = k /\ layer_num = k /\ k' = k
       /\ proof' = proof /\ query_results_' = query_results_
  BY <1>2 DEF k
<1>16. Following'
  <2>1. ReadLayers' = k + 1
    BY <1>9, <1>15 DEF ReadLayers
  <2>2. /\ k >= 1 /\ DOMAIN query_results_ = 1 .. NumQueries /\ Len(query_results_) = NumQueries
        /\ \A i \in 1 .. Start[k] : proof[i].value # Wrong
    BY <1>1, <1>2, <1>15 DEF Following
  <2>3. reads' = [i \in 1 .. Start'[ReadLayers'] |-> proof'[i].name]
    BY <1>12, <1>14, <1>15, <2>1
  <2>4. \A i \in 1 .. Start'[layer_num'] : proof'[i].value # Wrong'
    BY <1>14, <1>15, <2>2
  <2>5. k < n_layers
    BY <1>3
  <2>6. QED
    BY <1>9, <1>14, <1>15, <2>2, <2>3, <2>4, <2>5 DEF Following
<1>17. Consistent'
  <2>1. \A j \in 1 .. NumQueries : \A l \in 1 .. k - 1 : <<Depth[l], Index(j, l)>> \notin cheats
    BY <1>1, <1>2, <1>15 DEF Consistent
  <2>2. QED
    BY <1>14, <1>15, <2>1 DEF Consistent
<1>18. Computed'
  <2>1. \A j \in 1 .. NumQueries : query_results_[j] = ResultOf(j, k)
    BY <1>1, <1>2, <1>15 DEF Computed
  <2>2. QED
    BY <1>9, <1>14, <1>15, <2>1 DEF Computed
<1>19. Inserted'
  <2>1. Transmitted(k) = cells
    BY <1>4
  <2>2. Touched(layer_num)' = Touched(k) /\ OnPaths(layer_num)' = OnPaths(k)
        /\ Transmitted(layer_num)' = cells /\ Messages(layer_num)' = Messages(k)
    BY <1>14, <1>15, <2>1
  <2>3. \A j \in 1 .. Messages(k) : to_verify'[cells[j]] = proof'[Start'[layer_num'] + j].value
    BY <1>11, <1>14, <1>15
  <2>4. data_queries' = Touched(k) \ OnPaths(k) /\ integrity_queries' = OnPaths(k)
    BY <1>4, <1>9
  <2>5. QED
    BY <1>9, <1>10, <2>2, <2>3, <2>4 DEF Inserted
<1>20. TypeOK'
  <2>1. Touched(k) \subseteq Cell(k) /\ OnPaths(k) \subseteq Touched(k)
    BY <1>1, <1>3, LayerCells
  <2>2. /\ data_queries' \subseteq Cell(layer_num)' /\ integrity_queries' \subseteq Cell(layer_num)'
        /\ DOMAIN to_verify' \subseteq Cell(layer_num)'
    BY <1>4, <1>9, <1>10, <1>14, <1>15, <2>1
  <2>3. Len(reads') <= Len(proof')
    <3>1. Start[k + 1] \in Nat
      BY <1>6
    <3>2. Len(reads') = Start[k + 1]
      BY <1>12, <3>1
    <3>3. QED
      BY <1>6, <1>15, <3>2
  <2>4. Len(query_results_') \in {0, NumQueries} /\ layer_num' \in 0 .. n_layers'
    BY <1>1, <1>3, <1>14, <1>15 DEF TypeOK
  <2>5. QED
    BY <1>9, <2>2, <2>3, <2>4 DEF TypeOK, Phases
<1>21. AcceptsOnlyConsistentPaths' /\ RejectsOnlyInconsistentPaths'
  BY <1>9, <1>20 DEF AcceptsOnlyConsistentPaths, RejectsOnlyInconsistentPaths
<1>22. QED
  BY <1>13, <1>16, <1>17, <1>18, <1>19, <1>20, <1>21 DEF IInv

\* What to_verify has after the insertion of the results: the whole rows.
LEMMA InsertedRows ==
  ASSUME IInv, phase = "compute"
  PROVE  /\ layer_num \in 1 .. n_layers - 1 /\ n_layers \in Nat
         /\ DOMAIN query_results_ = 1 .. NumQueries
         /\ DOMAIN InsertResults = Touched(layer_num)
         /\ \A c \in Touched(layer_num) \ OnPaths(layer_num) : InsertResults[c] = to_verify[c]
         /\ \A j \in 1 .. NumQueries :
              InsertResults[CellOf(j, layer_num)] = ResultOf(j, layer_num)
<1> DEFINE k == layer_num
           at(j) == GetTableProverRowCol(IndexInLayer(query_indices_[j], k), Step(k))
           cells == {at(j) : j \in DOMAIN query_results_}
           First(c) == CHOOSE j \in DOMAIN query_results_ : at(j) = c /\ \A i \in 1 .. j - 1 : at(i) # c
           all == InsertResults
<1>1. Parameters /\ Following /\ Computed /\ Inserted /\ TypeOK
  BY DEF IInv
<1>2. k \in 1 .. n_layers - 1 /\ n_layers \in Nat
  <2>1. k >= 1 /\ k < n_layers /\ k \in 0 .. n_layers
    BY <1>1 DEF Following, TypeOK
  <2>2. QED
    BY <1>1, <2>1, DepthValues
<1>3. DOMAIN query_results_ = 1 .. NumQueries /\ NumQueries \in Nat
  BY <1>1, FriAssumption DEF Following
<1>4. DOMAIN to_verify = Touched(k) \ OnPaths(k)
  BY <1>1 DEF Inserted
<1>5. \A j \in 1 .. NumQueries : query_results_[j] = ResultOf(j, k)
  BY <1>1 DEF Computed
<1>6. \A j : at(j) = CellOf(j, k)
  BY DEF CellOf, Index
<1>7. all = [c \in DOMAIN to_verify \cup cells |->
               IF c \in DOMAIN to_verify THEN to_verify[c] ELSE query_results_[First(c)]]
  BY DEF InsertResults
<1> HIDE DEF all, k, at
<1>8. cells = OnPaths(k) /\ OnPaths(k) \subseteq Touched(k)
  <2>1. /\ \A j \in 1 .. NumQueries : CellOf(j, k) \in OnPaths(k)
        /\ \A c \in OnPaths(k) : \E j \in 1 .. NumQueries : c = CellOf(j, k)
        /\ OnPaths(k) \subseteq Touched(k)
    BY <1>1, <1>2, LayerCells
  <2>2. \A c \in cells : c \in OnPaths(k)
    BY <1>3, <1>6, <2>1
  <2>3. \A c \in OnPaths(k) : c \in cells
    BY <1>3, <1>6, <2>1
  <2>4. QED
    BY <2>1, <2>2, <2>3
<1>9. DOMAIN all = Touched(k)
  BY <1>4, <1>7, <1>8
<1>10. ASSUME NEW c \in Touched(k) \ OnPaths(k) PROVE all[c] = to_verify[c]
  BY <1>4, <1>7, <1>10
<1>11. ASSUME NEW j \in 1 .. NumQueries PROVE all[CellOf(j, k)] = ResultOf(j, k)
  <2> DEFINE c == CellOf(j, k)
             T == {i \in 1 .. NumQueries : at(i) = c}
             m == First(c)
  <2>1. PICK l \in T : \A i \in T : l <= i
    <3>1. T \in SUBSET Nat /\ T # {}
      BY <1>3, <1>6
    <3> HIDE DEF T
    <3>2. QED
      BY <3>1, LeastElement
  <2>2. l \in 1 .. NumQueries /\ at(l) = c /\ \A i \in 1 .. l - 1 : at(i) # c
    <3>1. l \in 1 .. NumQueries /\ at(l) = c
      BY <2>1
    <3>2. ASSUME NEW i \in 1 .. l - 1, at(i) = c PROVE FALSE
      <4>1. i \in 1 .. NumQueries /\ ~ (l <= i)
        BY <1>3, <3>1
      <4>2. i \in T
        BY <3>2, <4>1
      <4>3. QED
        BY <2>1, <4>1, <4>2
    <3>3. QED
      BY <3>1, <3>2
  <2>3. m \in 1 .. NumQueries /\ at(m) = c
    BY <1>3, <2>2
  <2>4. c \in OnPaths(k)
    BY <1>3, <1>6, <1>8
  <2>5. all[c] = query_results_[m]
    BY <1>4, <1>7, <1>8, <2>4
  <2> HIDE DEF m
  <2>6. query_results_[m] = ResultOf(m, k) /\ CellOf(m, k) = CellOf(j, k)
    BY <1>5, <1>6, <2>3
  <2>7. Index(m, k) = Index(j, k)
    <3>1. /\ CellOf(m, k) = <<Index(m, k + 1), CellOf(m, k)[2]>>
          /\ Index(m, k + 1) * Pow2[Step(k)] + CellOf(m, k)[2] = Index(m, k)
      BY <1>1, <1>2, <2>3, Indices
    <3>2. /\ CellOf(j, k) = <<Index(j, k + 1), CellOf(j, k)[2]>>
          /\ Index(j, k + 1) * Pow2[Step(k)] + CellOf(j, k)[2] = Index(j, k)
      BY <1>1, <1>2, Indices
    <3>3. Index(m, k + 1) = Index(j, k + 1) /\ CellOf(m, k)[2] = CellOf(j, k)[2]
      BY <2>6, <3>1, <3>2
    <3>4. QED
      BY <3>1, <3>2, <3>3, Zenon
  <2>8. QED
    BY <2>5, <2>6, <2>7 DEF ResultOf
<1>12. QED
  BY <1>2, <1>3, <1>9, <1>10, <1>11 DEF k, all

\* The verifier inserts the results and computes the next.
LEMMA ComputeStep ==
  ASSUME IInv, Compute
  PROVE  IInv'
<1> DEFINE k == layer_num
           all == InsertResults
           p == Pow2[Step(k)]
           row(j) == CosetStart(j)
           Coset(j) == [i \in 1 .. p |-> <<row(j), i - 1>>]
           elements(j) == [i \in 1 .. p |-> all[Coset(j)[i]]]
<1>1. Parameters /\ Scripted /\ Following /\ TypeOK /\ Consistent /\ Inserted
  BY DEF IInv
<1>2. phase = "compute" /\ UNCHANGED <<parameters, proof, layer_num, queries, reads>> /\ to_verify' = all
  BY DEF Compute
<1>3. /\ k \in 1 .. n_layers - 1 /\ n_layers \in Nat
      /\ DOMAIN query_results_ = 1 .. NumQueries /\ DOMAIN all = Touched(k)
      /\ \A c \in Touched(k) \ OnPaths(k) : all[c] = to_verify[c]
      /\ \A j \in 1 .. NumQueries : all[CellOf(j, k)] = ResultOf(j, k)
  BY <1>2, InsertedRows
<1>4. /\ k \in 0 .. n_layers - 1 /\ Step(k) \in Nat /\ p \in Nat /\ p >= 1
      /\ Depth[k + 1] = Depth[k] + Step(k) /\ Depth[k] \in Nat /\ Columns(k) = 0 .. p - 1
  <2>1. k \in 0 .. n_layers - 1 /\ k \in 0 .. n_layers
    BY <1>3
  <2>2. Step(k) \in Nat /\ Depth[k + 1] = Depth[k] + Step(k) /\ Depth[k] \in Nat
    BY <1>1, <2>1, DepthValues
  <2>3. QED
    BY <2>1, <2>2, Pow2Values DEF Columns
<1>5. ASSUME NEW j \in 1 .. NumQueries
      PROVE  /\ row(j) = Index(j, k + 1) /\ row(j) \in Nat
             /\ CellOf(j, k) = <<row(j), CellOf(j, k)[2]>> /\ CellOf(j, k)[2] \in Columns(k)
             /\ Step(k) = 0 => Index(j, k + 1) = Index(j, k)
             /\ \A i \in 1 .. p : <<row(j), i - 1>> \in Touched(k)
  <2>1. /\ CellOf(j, k) = <<Index(j, k + 1), CellOf(j, k)[2]>> /\ CellOf(j, k)[2] \in Columns(k)
        /\ GetTableProverRow(Index(j, k), Step(k)) = Index(j, k + 1)
        /\ Step(k) = 0 => Index(j, k + 1) = Index(j, k)
        /\ Index(j, k + 1) \in 0 .. SizeAt(Depth[k + 1]) - 1
    <3>1. k + 1 \in 1 .. n_layers
      BY <1>3
    <3>2. QED
      BY <1>1, <1>3, <3>1, Indices
  <2>2. row(j) = Index(j, k + 1)
    BY <2>1 DEF CosetStart, Index
  <2>3. \A i \in Columns(k) : <<Index(j, k + 1), i>> \in Touched(k)
    BY <1>1, <1>3, LayerCells
  <2>4. \A i \in 1 .. p : i - 1 \in Columns(k)
    BY <1>4
  <2>5. \A i \in 1 .. p : <<row(j), i - 1>> \in Touched(k)
    BY <2>2, <2>3, <2>4
  <2>6. QED
    BY <2>1, <2>2, <2>5
<1>6. \A j \in DOMAIN query_results_ : Range(Coset(j)) \subseteq DOMAIN all
  <2> SUFFICES ASSUME NEW j \in 1 .. NumQueries PROVE Range(Coset(j)) \subseteq Touched(k)
    BY <1>3
  <2> HIDE DEF row, k, p
  <2>1. \A i \in 1 .. p : Coset(j)[i] = <<row(j), i - 1>> /\ <<row(j), i - 1>> \in Touched(k)
    BY <1>5
  <2>2. DOMAIN Coset(j) = 1 .. p
    OBVIOUS
  <2> HIDE DEF Coset
  <2>3. QED
    BY <2>1, <2>2 DEF Range
<1>7. /\ query_results_' = [j \in DOMAIN query_results_ |-> ApplyFriLayers(elements(j), k, row(j) * p)]
      /\ phase' = "verify" /\ verdict' = "none"
  <2>1. verdict = "none"
    BY <1>1, <1>2 DEF Following
  <2>2. QED
    BY <1>6, <2>1 DEF Compute
\* The results, if everything in the rows is right.
<1>8. ASSUME NEW j \in 1 .. NumQueries, \A c \in Touched(k) : all[c] = Sent(k, c).value
      PROVE  query_results_'[j] = ResultOf(j, k + 1)
  <2> DEFINE r == row(j)
             e == elements(j)
  <2>1. \A i \in 1 .. p : e[i] = all[<<r, i - 1>>] /\ <<r, i - 1>> \in Touched(k)
    <3> HIDE DEF row, all, p, k
    <3>1. QED
      BY <1>5
  <2>2. \A i \in 1 .. p : e[i] = Committed(Depth[k], r * p + (i - 1)) /\ e[i] \in Elements
    <3> SUFFICES ASSUME NEW i \in 1 .. p
                 PROVE  e[i] = Committed(Depth[k], r * p + (i - 1)) /\ e[i] \in Elements
      OBVIOUS
    <3> DEFINE c == <<r, i - 1>>
    <3>1. c \in Touched(k) /\ e[i] = all[c] /\ c[1] = r /\ c[2] = i - 1
      BY <2>1
    <3> HIDE DEF c, e, r, all
    <3>2. e[i] = Sent(k, c).value
      BY <1>8, <3>1
    <3>3. /\ Sent(k, c).value = Committed(Depth[k], c[1] * Pow2[Step(k)] + c[2])
          /\ Sent(k, c).value \in Elements
      BY <1>1, <1>3, <3>1, HonestElements
    <3>4. QED
      BY <3>1, <3>2, <3>3
  <2>3. e \in [1 .. p -> Elements]
    <3>1. e = [i \in 1 .. p |-> e[i]]
      OBVIOUS
    <3> HIDE DEF e
    <3>2. QED
      BY <2>2, <3>1
  <2>4. r \in Nat /\ r = Index(j, k + 1)
    BY <1>5
  <2>5. query_results_'[j] = ApplyFriLayers(e, k, r * p)
    BY <1>3, <1>7
  <2> HIDE DEF e, r, k
  <2>6. ApplyFriLayers(e, k, r * p) = IF Step(k) = 0 THEN e[1] ELSE Element(Depth[k + 1], r, FALSE)
    BY <1>1, <1>4, <2>2, <2>3, <2>4, FoldsOfCommitted
  <2>7. CASE Step(k) = 0
    <3>1. p = 1 /\ 1 \in 1 .. p /\ 1 - 1 = 0
      BY <2>7, Pow2Values
    <3>2. CellOf(j, k) = <<r, 0>>
      <4>1. CellOf(j, k)[2] \in 0 .. p - 1
        BY <1>4, <1>5
      <4>2. CellOf(j, k)[2] = 0
        <5> HIDE DEF p
        <5>1. QED
          BY <3>1, <4>1
      <4>3. CellOf(j, k) = <<r, CellOf(j, k)[2]>>
        BY <1>5 DEF r
      <4>4. QED
        BY <4>2, <4>3, Zenon
    <3>3. e[1] = all[<<r, 0>>]
      <4> HIDE DEF p, all
      <4>1. e[1] = all[<<r, 1 - 1>>]
        BY <2>1, <3>1
      <4>2. QED
        BY <3>1, <4>1
    <3>4. all[<<r, 0>>] = ResultOf(j, k)
      <4> HIDE DEF all
      <4>1. all[CellOf(j, k)] = ResultOf(j, k)
        BY <1>3
      <4>2. QED
        BY <3>2, <4>1, Zenon
    <3>5. ResultOf(j, k) = ResultOf(j, k + 1)
      <4>1. Index(j, k + 1) = Index(j, k) /\ Depth[k + 1] = Depth[k]
        BY <1>4, <1>5, <2>7
      <4>2. QED
        BY <4>1 DEF ResultOf
    <3> HIDE DEF all, p
    <3>6. QED
      BY <2>5, <2>6, <2>7, <3>3, <3>4, <3>5, Zenon
  <2>8. CASE Step(k) # 0
    <3> HIDE DEF p
    <3>1. QED
      BY <2>4, <2>5, <2>6, <2>8, Zenon DEF ResultOf
  <2>9. QED
    BY <2>7, <2>8
<1> HIDE DEF k, all, p, row, Coset, elements
<1>9. Parameters' /\ Scripted'
  <2>1. layer_num' \in 0 .. n_layers /\ phase' # "decommit" /\ phase # "decommit"
    BY <1>1, <1>2, <1>7 DEF TypeOK
  <2>2. QED
    BY <1>1, <1>2, <2>1, ScriptKept
<1>10. /\ layer_num' = k /\ layer_num = k /\ k' = k /\ proof' = proof /\ reads' = reads
       /\ data_queries' = data_queries /\ integrity_queries' = integrity_queries
  BY <1>2 DEF k, queries
<1>11. /\ n_layers' = n_layers /\ Start' = Start /\ Wrong' = Wrong /\ cheats' = cheats /\ Depth' = Depth
       /\ Touched(k)' = Touched(k) /\ OnPaths(k)' = OnPaths(k) /\ Messages(k)' = Messages(k)
       /\ Transmitted(k)' = Transmitted(k) /\ Cell(k)' = Cell(k)
       /\ \A j, l : /\ Index(j, l)' = Index(j, l) /\ ResultOf(j, l)' = ResultOf(j, l)
                    /\ CellOf(j, l)' = CellOf(j, l) /\ Sent(l, j)' = Sent(l, j)
  BY <1>2, <1>10, ParametersKept
<1>12. DOMAIN query_results_' = 1 .. NumQueries /\ Len(query_results_') = NumQueries
  <2>1. NumQueries \in Nat
    BY FriAssumption
  <2> DEFINE r(j) == ApplyFriLayers(elements(j), k, row(j) * p)
  <2>2. query_results_' = [j \in 1 .. NumQueries |-> r(j)]
    BY <1>3, <1>7
  <2> HIDE DEF r
  <2>3. QED
    BY <2>1, <2>2
<1>13. Following'
  <2>1. ReadLayers' = k + 1 /\ ReadLayers = k + 1
    BY <1>2, <1>7, <1>10 DEF ReadLayers
  <2>2. /\ k >= 1 /\ k < n_layers
        /\ reads = [i \in 1 .. Start[ReadLayers] |-> proof[i].name]
        /\ \A i \in 1 .. Start[k] : proof[i].value # Wrong
    BY <1>1, <1>2, <1>10 DEF Following
  <2>3. reads' = [i \in 1 .. Start'[ReadLayers'] |-> proof'[i].name]
    BY <1>10, <1>11, <2>1, <2>2
  <2>4. \A i \in 1 .. Start'[layer_num'] : proof'[i].value # Wrong'
    BY <1>10, <1>11, <2>2
  <2>5. layer_num' >= 1 /\ layer_num' < n_layers' /\ phase' = "verify" /\ verdict' = "none"
    BY <1>7, <1>10, <1>11, <2>2
  <2>6. QED
    BY <1>12, <2>3, <2>4, <2>5, Zenon DEF Following
<1>14. Consistent'
  <2>1. \A j \in 1 .. NumQueries : \A l \in 1 .. k - 1 : <<Depth[l], Index(j, l)>> \notin cheats
    BY <1>1, <1>2, <1>10 DEF Consistent
  <2>2. QED
    BY <1>10, <1>11, <2>1 DEF Consistent
<1>15. Computed'
  <2>1. ASSUME \A c \in DOMAIN to_verify' : to_verify'[c] = Sent(layer_num, c).value'
        PROVE  \A j \in 1 .. NumQueries : query_results_'[j] = ResultOf(j, layer_num + 1)'
    <3>1. \A c \in Touched(k) : all[c] = Sent(k, c).value
      <4>1. \A c : Sent(layer_num, c)' = Sent(k, c)
        BY <1>10, <1>11
      <4>2. QED
        BY <1>2, <1>3, <2>1, <4>1
    <3>2. \A j \in 1 .. NumQueries : query_results_'[j] = ResultOf(j, k + 1)
      BY <1>8, <3>1
    <3>3. \A j : ResultOf(j, layer_num + 1)' = ResultOf(j, k + 1)
      BY <1>10, <1>11
    <3>4. QED
      BY <3>2, <3>3
  <2>2. QED
    BY <1>7, <2>1 DEF Computed
<1>16. Inserted'
  <2>1. Touched(layer_num)' = Touched(k) /\ OnPaths(layer_num)' = OnPaths(k)
        /\ Transmitted(layer_num)' = Transmitted(k) /\ Messages(layer_num)' = Messages(k)
        /\ \A j : CellOf(j, layer_num)' = CellOf(j, k) /\ ResultOf(j, layer_num)' = ResultOf(j, k)
    BY <1>10, <1>11
  <2>2. data_queries = Touched(k) \ OnPaths(k) /\ integrity_queries = OnPaths(k)
        /\ \A j \in 1 .. Messages(k) : to_verify[Transmitted(k)[j]] = proof[Start[k] + j].value
    BY <1>1, <1>2, <1>10 DEF Inserted
  <2>3. \A j \in 1 .. Messages(k) : to_verify'[Transmitted(k)[j]] = proof'[Start'[layer_num'] + j].value
    <3>1. \A j \in 1 .. Messages(k) : Transmitted(k)[j] \in Touched(k) \ OnPaths(k)
      BY <1>1, <1>2, <1>3, InnerMessages
    <3>2. QED
      BY <1>2, <1>3, <1>10, <1>11, <2>2, <3>1
  <2>4. DOMAIN to_verify' = Touched(k) /\ \A j \in 1 .. NumQueries : to_verify'[CellOf(j, k)] = ResultOf(j, k)
    BY <1>2, <1>3
  <2>5. data_queries' = Touched(k) \ OnPaths(k) /\ integrity_queries' = OnPaths(k)
    BY <1>10, <2>2
  <2>6. QED
    BY <1>7, <2>1, <2>3, <2>4, <2>5 DEF Inserted
<1>17. TypeOK'
  <2>1. Touched(k) \subseteq Cell(k) /\ OnPaths(k) \subseteq Touched(k)
    BY <1>1, <1>3, LayerCells
  <2>2. data_queries = Touched(k) \ OnPaths(k) /\ integrity_queries = OnPaths(k)
    BY <1>1, <1>2, <1>10 DEF Inserted
  <2>3. /\ data_queries' \subseteq Cell(layer_num)' /\ integrity_queries' \subseteq Cell(layer_num)'
        /\ DOMAIN to_verify' \subseteq Cell(layer_num)'
    BY <1>2, <1>3, <1>10, <1>11, <2>1, <2>2
  <2>4. /\ Len(reads') <= Len(proof') /\ layer_num' \in 0 .. n_layers'
        /\ Len(query_results_') \in {0, NumQueries}
    BY <1>1, <1>10, <1>11, <1>12 DEF TypeOK
  <2>5. QED
    BY <1>7, <2>3, <2>4 DEF TypeOK, Phases
<1>18. AcceptsOnlyConsistentPaths' /\ RejectsOnlyInconsistentPaths'
  BY <1>7, <1>17 DEF AcceptsOnlyConsistentPaths, RejectsOnlyInconsistentPaths
<1>19. QED
  BY <1>9, <1>13, <1>14, <1>15, <1>16, <1>17, <1>18 DEF IInv

\* The layer that is verified: its rows are complete, and a query's cell holds an
\* element that the prover has committed to exactly if it has not cheated there.
LEMMA VerifiedLayer ==
  ASSUME IInv, phase = "verify"
  PROVE  /\ layer_num \in 1 .. n_layers - 1 /\ n_layers \in Nat /\ NumQueries \in Nat
         /\ DOMAIN to_verify = Touched(layer_num) /\ RowsComplete
         /\ \A j \in 1 .. NumQueries :
              /\ CellOf(j, layer_num) \in Touched(layer_num)
              /\ to_verify[CellOf(j, layer_num)] = Sent(layer_num, CellOf(j, layer_num)).value
                   <=> <<Depth[layer_num], Index(j, layer_num)>> \notin cheats
<1> DEFINE k == layer_num
<1>1. Parameters /\ Scripted /\ Following /\ TypeOK /\ Inserted
  BY DEF IInv
<1>2. k \in 1 .. n_layers - 1 /\ n_layers \in Nat /\ NumQueries \in Nat
  <2>1. n_layers \in Nat
    BY <1>1, DepthValues
  <2>2. layer_num \in 0 .. n_layers /\ layer_num >= 1 /\ layer_num < n_layers
    BY <1>1 DEF TypeOK, Following
  <2>3. QED
    BY <2>1, <2>2, FriAssumption
<1>3. DOMAIN to_verify = Touched(k) /\ \A j \in 1 .. NumQueries : to_verify[CellOf(j, k)] = ResultOf(j, k)
  BY <1>1 DEF Inserted
<1>4. RowsComplete
  BY <1>1, <1>2, <1>3, LayerCells DEF RowsComplete, Columns
<1>5. ASSUME NEW j \in 1 .. NumQueries
      PROVE  /\ CellOf(j, k) \in Touched(k)
             /\ to_verify[CellOf(j, k)] = Sent(k, CellOf(j, k)).value
                  <=> <<Depth[k], Index(j, k)>> \notin cheats
  <2> DEFINE c == CellOf(j, k)
  <2>1. c \in Touched(k)
    BY <1>1, <1>2, LayerCells
  <2>2. /\ c = <<Index(j, k + 1), c[2]>> /\ Index(j, k + 1) * Pow2[Step(k)] + c[2] = Index(j, k)
    BY <1>1, <1>2, Indices
  <2> HIDE DEF c, k
  <2>3. c[1] = Index(j, k + 1)
    BY <2>2
  <2>4. Sent(k, c).value = Committed(Depth[k], Index(j, k))
    BY <1>1, <1>2, <2>1, <2>2, <2>3, HonestElements
  <2>5. to_verify[c] = Element(Depth[k], Index(j, k), FALSE)
    BY <1>3 DEF c, ResultOf
  <2>6. Committed(Depth[k], Index(j, k)) =
          Element(Depth[k], Index(j, k), <<Depth[k], Index(j, k)>> \in cheats)
    BY DEF Committed
  <2>7. (Element(Depth[k], Index(j, k), FALSE) =
          Element(Depth[k], Index(j, k), <<Depth[k], Index(j, k)>> \in cheats))
          <=> <<Depth[k], Index(j, k)>> \notin cheats
    <3> DEFINE cheated == <<Depth[k], Index(j, k)>> \in cheats
    <3>1. cheated \in BOOLEAN
      OBVIOUS
    <3>2. (Element(Depth[k], Index(j, k), FALSE) = Element(Depth[k], Index(j, k), cheated))
            <=> cheated = FALSE
      <4>1. Element(Depth[k], Index(j, k), cheated).cheat = cheated
        BY DEF Element
      <4>2. Element(Depth[k], Index(j, k), FALSE).cheat = FALSE
        BY DEF Element
      <4> HIDE DEF cheated
      <4>3. QED
        BY <4>1, <4>2, Zenon
    <3>3. QED
      BY <3>1, <3>2, Zenon
  <2>8. QED
    BY <2>1, <2>4, <2>5, <2>6, <2>7, Zenon DEF c
<1>6. QED
  BY <1>2, <1>3, <1>4, <1>5

\* A value that does not verify was changed on the way, or is the result of a
\* query on whose path the prover has cheated.
LEMMA WhatFailsToVerify ==
  ASSUME IInv, phase = "verify", NEW c \in Touched(layer_num),
         to_verify[c] # Sent(layer_num, c).value
  PROVE  Tampered \/ \E j \in 1 .. NumQueries : Path(j) \cap cheats # {}
<1> DEFINE k == layer_num
<1>1. Parameters /\ Scripted /\ Inserted
  BY DEF IInv
<1>2. k \in 1 .. n_layers - 1 /\ n_layers \in Nat
  BY VerifiedLayer
<1>3. CASE c \in OnPaths(k)
  <2>1. PICK j \in 1 .. NumQueries : c = CellOf(j, k)
    BY <1>1, <1>2, <1>3, LayerCells
  <2>2. <<Depth[k], Index(j, k)>> \in cheats
    BY <2>1, VerifiedLayer
  <2>3. <<Depth[k], Index(j, k)>> \in Path(j)
    BY <1>2 DEF Path, Index
  <2>4. QED
    BY <2>2, <2>3
<1>4. CASE c \notin OnPaths(k)
  <2>1. c \in Range(Transmitted(k)) /\ DOMAIN Transmitted(k) = 1 .. Messages(k)
    BY <1>1, <1>2, <1>4, TransmittedLists
  <2>2. PICK j \in 1 .. Messages(k) : c = Transmitted(k)[j]
    BY <2>1 DEF Range
  <2>3. to_verify[c] = proof[Start[k] + j].value
    BY <1>1, <2>2 DEF Inserted
  <2>4. /\ Start[k] + j \in DOMAIN proof
        /\ proof[Start[k] + j].value = Sent(k, Transmitted(k)[j]).value \/ proof[Start[k] + j].value = Wrong
    BY <1>1, <1>2, InnerMessages
  <2>5. proof[Start[k] + j].value = Wrong
    BY <2>2, <2>3, <2>4
  <2>6. QED
    BY <2>4, <2>5 DEF Tampered
<1>5. QED
  BY <1>3, <1>4

\* The verifier verifies a layer against its commitment, and goes on if it agrees.
LEMMA VerifyDecommitmentStep ==
  ASSUME IInv, VerifyDecommitment
  PROVE  IInv'
<1> DEFINE k == layer_num
<1>1. Parameters /\ Scripted /\ Following /\ TypeOK /\ Consistent /\ Computed /\ Inserted
  BY DEF IInv
<1>2. /\ phase = "verify" /\ UNCHANGED parameters
      /\ proof' = proof /\ reads' = reads /\ query_results_' = query_results_ /\ to_verify' = to_verify
  BY DEF VerifyDecommitment
<1>3. /\ k \in 1 .. n_layers - 1 /\ n_layers \in Nat /\ NumQueries \in Nat
      /\ DOMAIN to_verify = Touched(k) /\ RowsComplete
      /\ \A j \in 1 .. NumQueries :
           /\ CellOf(j, k) \in Touched(k)
           /\ to_verify[CellOf(j, k)] = Sent(k, CellOf(j, k)).value => <<Depth[k], Index(j, k)>> \notin cheats
  BY <1>2, VerifiedLayer
<1>4. CASE \E c \in DOMAIN to_verify : to_verify[c] # Sent(layer_num, c).value
  <2>1. phase' = "done" /\ verdict' = "reject" /\ UNCHANGED layer_num
    BY <1>3, <1>4 DEF VerifyDecommitment
  <2>2. Tampered \/ \E j \in 1 .. NumQueries : Path(j) \cap cheats # {}
    BY <1>2, <1>3, <1>4, WhatFailsToVerify
  <2>3. QED
    BY <1>2, <2>1, <2>2, VerdictStep
<1>5. CASE \A c \in DOMAIN to_verify : to_verify[c] = Sent(layer_num, c).value
  <2>1. phase' = "query" /\ layer_num' = k + 1 /\ verdict' = "none"
    <3>1. verdict = "none"
      BY <1>1, <1>2 DEF Following
    <3>2. QED
      BY <1>3, <1>5, <3>1 DEF VerifyDecommitment
  <2>2. \A j \in 1 .. NumQueries : <<Depth[k], Index(j, k)>> \notin cheats
    BY <1>3, <1>5
  <2>3. /\ Messages(k) \in Nat /\ Start[k] \in Nat /\ Start[k + 1] = Start[k] + Messages(k)
        /\ \A j \in 1 .. Messages(k) : proof[Start[k] + j].value # Wrong
    <3>1. /\ Messages(k) \in Nat /\ Start[k] \in Nat /\ Start[k + 1] = Start[k] + Messages(k)
          /\ \A j \in 1 .. Messages(k) : Transmitted(k)[j] \in Touched(k)
      BY <1>1, <1>2, <1>3, InnerMessages
    <3>2. \A j \in 1 .. Messages(k) : proof[Start[k] + j].value = Sent(k, Transmitted(k)[j]).value
      BY <1>1, <1>2, <1>3, <1>5, <3>1 DEF Inserted
    <3>3. \A c \in Touched(k) : Sent(k, c).value # Wrong
      BY <1>1, <1>3, HonestElements
    <3>4. QED
      BY <3>1, <3>2, <3>3
  <2>4. \A i \in 1 .. Start[k + 1] : proof[i].value # Wrong
    <3>1. \A i \in 1 .. Start[k] : proof[i].value # Wrong
      BY <1>1, <1>2 DEF Following
    <3> SUFFICES ASSUME NEW i \in 1 .. Start[k + 1] PROVE proof[i].value # Wrong
      OBVIOUS
    <3> DEFINE a == Start[k]
               b == Messages(k)
    <3>2. a \in Nat /\ b \in Nat /\ i \in 1 .. a + b
      BY <2>3
    <3>3. \A j \in 1 .. b : proof[a + j].value # Wrong
      BY <2>3
    <3> HIDE DEF a, b
    <3>4. CASE i > a
      <4>1. i - a \in 1 .. b /\ a + (i - a) = i
        BY <3>2, <3>4
      <4>2. QED
        BY <3>3, <4>1
    <3>5. CASE i <= a
      BY <3>1, <3>2, <3>5 DEF a
    <3>6. QED
      BY <3>2, <3>4, <3>5
  <2>5. \A j \in 1 .. NumQueries : query_results_[j] = ResultOf(j, k + 1)
    BY <1>1, <1>2, <1>5 DEF Computed
  <2>6. \A j \in 1 .. NumQueries : \A l \in 1 .. k : <<Depth[l], Index(j, l)>> \notin cheats
    <3>1. \A j \in 1 .. NumQueries : \A l \in 1 .. k - 1 : <<Depth[l], Index(j, l)>> \notin cheats
      BY <1>1, <1>2 DEF Consistent
    <3>2. k \in Nat /\ \A l \in 1 .. k : l \in 1 .. k - 1 \/ l = k
      BY <1>3
    <3> HIDE DEF k
    <3>3. QED
      BY <2>2, <3>1, <3>2, Zenon
  <2> HIDE DEF k
  <2>7. k + 1 \in 1 .. n_layers /\ k + 1 \in 0 .. n_layers /\ k + 1 >= 1 /\ (k + 1) - 1 = k
    BY <1>3
  <2>8. /\ n_layers' = n_layers /\ Start' = Start /\ Wrong' = Wrong /\ cheats' = cheats /\ Depth' = Depth
        /\ \A j, l : Index(j, l)' = Index(j, l)
        /\ \A j : ResultOf(j, layer_num)' = ResultOf(j, k + 1)
    BY <1>2, <2>1, ParametersKept
  <2>9. Parameters' /\ Scripted'
    BY <1>1, <1>2, <2>1, <2>7, ScriptKept
  <2>10. Following'
    <3>1. ReadLayers' = k + 1 /\ ReadLayers = k + 1
      BY <1>2, <2>1 DEF ReadLayers, k
    <3>2. /\ DOMAIN query_results_ = 1 .. NumQueries /\ Len(query_results_) = NumQueries
          /\ reads = [i \in 1 .. Start[ReadLayers] |-> proof[i].name]
      BY <1>1, <1>2 DEF Following
    <3>3. reads' = [i \in 1 .. Start'[ReadLayers'] |-> proof'[i].name]
      BY <1>2, <2>8, <3>1, <3>2
    <3>4. \A i \in 1 .. Start'[layer_num'] : proof'[i].value # Wrong'
      BY <1>2, <2>1, <2>4, <2>8
    <3>5. layer_num' >= 1
      BY <2>1, <2>7
    <3>6. DOMAIN query_results_' = 1 .. NumQueries /\ Len(query_results_') = NumQueries
      BY <1>2, <3>2
    <3>7. QED
      BY <2>1, <3>3, <3>4, <3>5, <3>6, Zenon DEF Following
  <2>11. Consistent'
    BY <2>1, <2>6, <2>7, <2>8 DEF Consistent
  <2>12. Computed'
    BY <1>2, <2>1, <2>5, <2>8 DEF Computed
  <2>13. Inserted'
    BY <2>1 DEF Inserted
  <2>14. TypeOK'
    <3>1. Len(reads') <= Len(proof') /\ Len(query_results_') \in {0, NumQueries}
      BY <1>1, <1>2 DEF TypeOK
    <3>2. layer_num' \in 0 .. n_layers'
      BY <2>1, <2>7, <2>8
    <3>3. QED
      BY <2>1, <3>1, <3>2 DEF TypeOK, Phases
  <2>15. AcceptsOnlyConsistentPaths' /\ RejectsOnlyInconsistentPaths'
    BY <2>1, <2>14 DEF AcceptsOnlyConsistentPaths, RejectsOnlyInconsistentPaths
  <2>16. QED
    BY <2>9, <2>10, <2>11, <2>12, <2>13, <2>14, <2>15 DEF IInv
<1>6. QED
  BY <1>4, <1>5

\* The verifier compares the last results with the last layer.
LEMMA VerifyLastLayerStep ==
  ASSUME IInv, VerifyLastLayer
  PROVE  IInv'
<1> DEFINE n == n_layers
           right == \A j \in 1 .. NumQueries : query_results_[j] = Committed(Depth[n], Index(j, n))
<1>1. Parameters /\ Scripted /\ Following /\ Consistent /\ Computed
  BY DEF IInv
<1>2. /\ phase = "query" /\ layer_num = n /\ phase' = "done"
      /\ UNCHANGED <<parameters, proof, layer_num, reads>> /\ query_results_' = query_results_
  BY DEF VerifyLastLayer
<1>3. /\ DOMAIN query_results_ = 1 .. NumQueries /\ n \in Nat /\ n >= 1
      /\ \A j \in 1 .. NumQueries : query_results_[j] = Element(Depth[n], Index(j, n), FALSE)
  BY <1>1, <1>2, DepthValues DEF Following, Computed, ResultOf
<1>4. ASSUME NEW j \in 1 .. NumQueries
      PROVE  query_results_[j] = Committed(Depth[n], Index(j, n)) <=> <<Depth[n], Index(j, n)>> \notin cheats
  <2> DEFINE cheated == <<Depth[n], Index(j, n)>> \in cheats
  <2>1. cheated \in BOOLEAN
    OBVIOUS
  <2>2. Committed(Depth[n], Index(j, n)) = Element(Depth[n], Index(j, n), cheated)
    BY DEF Committed
  <2>3. /\ Element(Depth[n], Index(j, n), cheated).cheat = cheated
        /\ Element(Depth[n], Index(j, n), FALSE).cheat = FALSE
    BY DEF Element
  <2>4. query_results_[j] = Element(Depth[n], Index(j, n), FALSE)
    BY <1>3
  <2> HIDE DEF cheated, n
  <2>5. query_results_[j] = Committed(Depth[n], Index(j, n)) <=> cheated = FALSE
    BY <2>2, <2>3, <2>4, Zenon
  <2>6. QED
    BY <2>1, <2>5, Zenon DEF cheated
<1>5. verdict' = IF right THEN "accept" ELSE "reject"
  BY <1>3 DEF VerifyLastLayer, Index
<1>6. right => \A j \in 1 .. NumQueries : Path(j) \cap cheats = {}
  <2> SUFFICES ASSUME right, NEW j \in 1 .. NumQueries, NEW k \in 1 .. n
               PROVE  <<Depth[k], Index(j, k)>> \notin cheats
    BY DEF Path, Index
  <2>1. CASE k = n
    BY <1>4, <2>1
  <2>2. CASE k # n
    <3>1. k \in 1 .. layer_num - 1
      BY <1>2, <1>3, <2>2
    <3>2. QED
      BY <1>1, <1>2, <3>1 DEF Consistent
  <2>3. QED
    BY <2>1, <2>2
<1>7. ~ right => \E j \in 1 .. NumQueries : Path(j) \cap cheats # {}
  <2> SUFFICES ASSUME ~ right PROVE \E j \in 1 .. NumQueries : Path(j) \cap cheats # {}
    OBVIOUS
  <2>1. PICK j \in 1 .. NumQueries : query_results_[j] # Committed(Depth[n], Index(j, n))
    OBVIOUS
  <2>2. <<Depth[n], Index(j, n)>> \in cheats
    BY <1>4, <2>1
  <2>3. <<Depth[n], Index(j, n)>> \in Path(j)
    BY <1>3 DEF Path, Index
  <2>4. QED
    BY <2>2, <2>3
<1>8. ~ Tampered /\ reads = [j \in DOMAIN proof |-> proof[j].name]
  <2>1. Len(proof) = Start[n] /\ DOMAIN proof = 1 .. Len(proof)
    BY <1>1, <1>2 DEF Scripted, SentLayers, Tape
  <2>2. /\ reads = [i \in 1 .. Start[n] |-> proof[i].name]
        /\ \A i \in 1 .. Start[n] : proof[i].value # Wrong
    BY <1>1, <1>2 DEF Following, ReadLayers
  <2>3. QED
    BY <2>1, <2>2 DEF Tampered
<1> HIDE DEF n, right
<1>9. QED
  BY <1>2, <1>5, <1>6, <1>7, <1>8, VerdictStep

-----------------------------------------------------------------------------
\* The theorems.

\* Every step preserves the inductive invariant.
LEMMA NextStep ==
  ASSUME IInv, [Next]_vars
  PROVE  IInv'
<1>1. CASE Decommit
  BY <1>1, DecommitStep
<1>2. CASE ProverDone
  BY <1>2, ProverDoneStep
<1>3. CASE VerifyFirstLayer
  BY <1>3, VerifyFirstLayerStep
<1>4. CASE Query
  BY <1>4, QueryStep
<1>5. CASE Compute
  BY <1>5, ComputeStep
<1>6. CASE VerifyDecommitment
  BY <1>6, VerifyDecommitmentStep
<1>7. CASE VerifyLastLayer
  BY <1>7, VerifyLastLayerStep
<1>8. CASE UNCHANGED vars
  BY <1>8, StutterStep
<1>9. QED
  BY <1>1, <1>2, <1>3, <1>4, <1>5, <1>6, <1>7, <1>8 DEF Next, Done

\* What the query phase goes by: the proof is the prover's script with at most its
\* values changed, the verifier is at the place of the script where its layer starts,
\* and the results it carries are the folds of what it has verified.
THEOREM InvariantTheorem == Spec => []IInv
<1>1. IInv /\ [Next]_vars => IInv'
  BY NextStep
<1>2. QED
  BY InitStep, <1>1, PTL DEF Spec

\* FriVerifier accepts nothing but an untouched proof of a prover that was
\* consistent on the paths of all queries, and has read all of it, for every list of
\* FRI steps, size of the last layer and choice of queries.
THEOREM AcceptsOnlyConsistentPathsTheorem == Spec => []AcceptsOnlyConsistentPaths
<1>1. IInv => AcceptsOnlyConsistentPaths
  BY DEF IInv
<1>2. QED
  BY InvariantTheorem, <1>1, PTL

\* FriVerifier turns nobody else down, and no assertion of the table verifier
\* fails: data and integrity queries fill their rows, however the queries coincide.
THEOREM RejectsOnlyInconsistentPathsTheorem == Spec => []RejectsOnlyInconsistentPaths
<1>1. IInv => RejectsOnlyInconsistentPaths
  BY DEF IInv
<1>2. QED
  BY InvariantTheorem, <1>1, PTL

\* While the verifier reads, each name it has asked for is the one that the prover
\* sent at that place: the two sides derive the same queries and cells of a layer.
ReadsTheScript ==
  phase \in {"query", "compute", "verify"} =>
    Len(reads) <= Len(proof) /\ \A i \in 1 .. Len(reads) : reads[i] = proof[i].name
\* ReadsTheScript holds in every state, for every list of steps and queries.
THEOREM ReadsTheScriptTheorem == Spec => []ReadsTheScript
<1>1. IInv => ReadsTheScript
  <2> SUFFICES ASSUME IInv, phase \in {"query", "compute", "verify"}
               PROVE  Len(reads) <= Len(proof) /\ \A i \in 1 .. Len(reads) : reads[i] = proof[i].name
    BY DEF ReadsTheScript
  <2>1. Parameters /\ Scripted /\ Following /\ TypeOK
    BY DEF IInv
  <2>2. layer_num \in 0 .. n_layers /\ n_layers \in Nat
    BY <2>1, DepthValues DEF TypeOK
  <2>3. ReadLayers \in 0 .. n_layers
    BY <2>1, <2>2 DEF Following, ReadLayers
  <2>4. Start[ReadLayers] \in Nat
    BY <2>1, <2>3, StartValues
  <2>5. reads = [i \in 1 .. Start[ReadLayers] |-> proof[i].name]
    BY <2>1 DEF Following
  <2> DEFINE a == Start[ReadLayers]
  <2> HIDE DEF a
  <2>6. a \in Nat /\ reads = [i \in 1 .. a |-> proof[i].name]
    BY <2>4, <2>5 DEF a
  <2>7. Len(reads) = a /\ \A i \in 1 .. a : reads[i] = proof[i].name
    BY <2>6
  <2>8. QED
    BY <2>1, <2>7 DEF TypeOK
<1>2. QED
  BY InvariantTheorem, <1>1, PTL
===============================================================================
