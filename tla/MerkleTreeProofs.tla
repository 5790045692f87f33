-------------------------- MODULE MerkleTreeProofs --------------------------
(***************************************************************************)
(* The root, the decommitment and the verdict of MerkleTree, for trees of  *)
(* every height, every partition into segments and every query set.        *)
(*                                                                         *)
(* The argument, in three parts.  A thread that feeds a segment hashes its *)
(* rows upwards, and every write of nodes_ puts the right hash where       *)
(* nothing or the same was: right nodes stay right (Feeding, Rooting).     *)
(* Both queues hold the paths' nodes of one level from the head on, and    *)
(* those of the level above whose children have been passed (Walk); so     *)
(* what has been sent, or read, is a function of the head (Sent), and two  *)
(* walks of the same tree send and read the same nodes in the same order.  *)
(* A wrong hash on the verifier's side is in its queue or ahead on the     *)
(* tape until it reaches the root (Carried).                               *)
(***************************************************************************)
EXTENDS MerkleTree, FiniteSetTheorems, SequenceTheorems, TLAPS

\* The nodes k levels below node r, itself included for k = 0.
Row(r, k) == r * Pow2[k] .. r * Pow2[k] + Pow2[k] - 1
\* The root of segment s.
SegmentRoot(s) == Pow2[height - log_segment] + s
\* The nodes of S have their right hashes; so have the rows j levels down and below.
Right(S) == \A n \in S : nodes_[n] = n
RightFrom(s, j) == \A k \in 0 .. log_segment : k >= j => Right(Row(SegmentRoot(s), k))

\* The thread of segment s hashes the row j levels below the segment's root.
HashesRow(s, j) ==
  /\ adding[s].length = Pow2[j] /\ adding[s].cur = SegmentRoot(s) * Pow2[j]
  /\ adding[s].i \in Row(SegmentRoot(s), j)

\* The thread before its copy, while it hashes the row j levels down, and after its last
\* hash.
NotCopied(s) ==
  /\ ~adding[s].copied
  /\ \/ log_segment = 0 /\ adding[s].length = 0
     \/ /\ log_segment > 0 /\ HashesRow(s, log_segment - 1)
        /\ adding[s].i = adding[s].cur
Hashing(s, j) ==
  /\ adding[s].copied /\ HashesRow(s, j)
  /\ RightFrom(s, j + 1) /\ Right(adding[s].cur .. adding[s].i - 1)
Added(s) == adding[s].copied /\ adding[s].length = 0 /\ RightFrom(s, 0)

\* Every segment's thread is before, in or after its hashes.
Feeding ==
  phase = "feed" => \A s \in Segment :
    NotCopied(s) \/ Added(s) \/ \E j \in 0 .. log_segment - 1 : Hashing(s, j)
\* GetRoot has the right hashes in all nodes after next_root_node.
Rooting ==
  phase = "root" => /\ next_root_node < k_data_length
                    /\ \A n \in Node : n > next_root_node => nodes_[n] = n
Committed == phase \notin {"feed", "root"} => Right(Node)

-----------------------------------------------------------------------------
\* Node n is on level k.
AtLevel(n, k) == Pow2[k] <= n /\ n < Pow2[k + 1]
\* A queue's order: a level from left to right, and then the one above.
Key(n, k) == IF n >= Pow2[k] THEN n ELSE n + Pow2[k + 1]
InKeyOrder(q, k) == \A i, j \in 1 .. Len(q) : i < j => Key(q[i], k) < Key(q[j], k)
\* Of a set of paths T: what is in a queue whose head is node n of level k, ...
Frontier(T, n, k) ==
  {m \in T : (n <= m /\ m < Pow2[k + 1]) \/ (Pow2[k] <= 2 * m /\ m < n \div 2)}
\* ... the nodes that have left it, and those that have been sent or read.
Passed(T, n, k) == {m \in T : m >= Pow2[k + 1] \/ (Pow2[k] <= m /\ m < n)}
Sent(T, n, k) == {Sibling(m) : m \in Passed(T, n, k)} \ T

\* A queue of a walk of the paths T, whose head is on level k.
WalkAt(T, q, k) ==
  /\ k \in 0 .. height /\ q # <<>> /\ AtLevel(q[1], k)
  /\ Range(q) = Frontier(T, q[1], k) /\ InKeyOrder(q, k)
  /\ q[1] % 2 = 1 => q[1] - 1 \notin T

\* The node numbers of a list of pairs.
Indices(seq) == [i \in 1 .. Len(seq) |-> seq[i][1]]

\* Where the tape written by a walk at node n of level k has the sibling of a node.
SentInOrder(T, n, k, tape) ==
  /\ Range(Indices(tape)) = Sent(T, n, k)
  /\ Len(tape) = Cardinality(Sent(T, n, k))
  /\ \A m \in Passed(T, n, k), l \in 0 .. height :
       AtLevel(m, l) /\ Sibling(m) \notin T =>
         /\ Cardinality(Sent(T, m, l)) < Len(tape)
         /\ tape[Cardinality(Sent(T, m, l)) + 1][1] = Sibling(m)
\* What a walk at node n of level k has read from it.
ReadInOrder(T, n, k, read, tape) ==
  /\ Len(read) = Cardinality(Sent(T, n, k)) /\ Len(read) <= Len(tape)
  /\ \A i \in 1 .. Len(read) : read[i] = tape[i][1]

\* The prover's walk.
Proving ==
  /\ phase = "decommit" =>
       \E k \in 0 .. height : /\ WalkAt(OnAPath, queue, k)
                              /\ SentInOrder(OnAPath, queue[1], k, proof)
  /\ phase \in {"sent", "verify", "done"} => SentInOrder(OnAPath, 1, 0, proof)
  /\ phase \in {"decommit", "sent"} => \A i \in 1 .. Len(proof) : proof[i][2] = proof[i][1]
\* The verifier's walk over the prover's tape.
Reading ==
  /\ phase = "verify" =>
       \E k \in 0 .. height :
         /\ WalkAt(OnAPath, Indices(known), k)
         /\ ReadInOrder(OnAPath, known[1][1], k, reads, proof)
  /\ phase = "done" => ReadInOrder(OnAPath, 1, 0, reads, proof)
\* Without a changed hash all are right; a changed one is in the queue or ahead on the tape.
Carried ==
  /\ phase \in {"verify", "done"} /\ ~tampered =>
       /\ \A i \in 1 .. Len(proof) : proof[i][2] = proof[i][1]
       /\ \A i \in 1 .. Len(known) : known[i][2] = known[i][1]
  /\ phase = "verify" /\ tampered =>
       \/ \E i \in 1 .. Len(known) : known[i][2] = Wrong
       \/ \E i \in 1 .. Len(proof) : i > Len(reads) /\ proof[i][2] = Wrong
\* The verdict.
Judged == phase = "done" => (verdict = "accept" <=> ~tampered)

\* Nothing is queried, sent or read before its time.
Waiting ==
  /\ phase \in {"feed", "root", "committed"} => queries = {} /\ queue = <<>> /\ proof = <<>>
  /\ phase \notin {"verify", "done"} => known = <<>> /\ reads = <<>> /\ ~tampered
  /\ phase \notin {"feed", "root", "committed"} => queries # {}

\* The inductive invariant.
IInv ==
  /\ TypeOK /\ Waiting
  /\ Feeding /\ Rooting /\ Committed
  /\ Proving /\ Reading /\ Carried /\ Judged

-----------------------------------------------------------------------------
\* Induction on the naturals, for sets of numbers.

LEMMA LeastElement ==
  ASSUME NEW T \in SUBSET Nat, T # {}
  PROVE  \E m \in T : \A n \in T : m <= n
<1> DEFINE R == OpToRel(<, Nat)
<1>1. IsWellFoundedOn(R, Nat)
  BY NatLessThanWellFounded
<1>2. \A x, y \in Nat : <<y, x>> \in R <=> y < x
  BY DEF OpToRel
<1> HIDE DEF R
<1>3. PICK x \in T : \A y \in T : ~ (<<y, x>> \in R)
  BY <1>1, WFMin, Zenon
<1>4. ASSUME NEW y \in T PROVE x <= y
  <2>1. x \in Nat /\ y \in Nat /\ <<y, x>> \notin R
    BY <1>3
  <2>2. ~ (y < x)
    BY <1>2, <2>1
  <2>3. QED
    BY <2>1, <2>2
<1>5. QED
  BY <1>4

\* A set that has 0 and the successor of each of its numbers has every number.
LEMMA SetInduction ==
  ASSUME NEW T, 0 \in T, \A n \in Nat : n \in T => n + 1 \in T
  PROVE  \A n \in Nat : n \in T
<1> DEFINE U == Nat \ T
<1>1. SUFFICES ASSUME U # {} PROVE FALSE
  OBVIOUS
<1>2. PICK m \in U : \A n \in U : m <= n
  <2> HIDE DEF U
  <2>1. U \in SUBSET Nat
    BY DEF U
  <2>2. QED
    BY <1>1, <2>1, LeastElement, Zenon
<1>3. m # 0 /\ m \in Nat
  OBVIOUS
<1>4. m - 1 \in Nat /\ m - 1 \notin U
  BY <1>2, <1>3
<1>5. QED
  BY <1>3, <1>4

\* Powers of two.  (The definition by recursion is a choice of a function that
\* satisfies its equation: there is one, the union of its finite parts.)
LEMMA Pow2Defined ==
  Pow2 = [n \in Nat |-> IF n = 0 THEN 1 ELSE 2 * Pow2[n - 1]]
<1> DEFINE Part(n, f) == f \in [0 .. n -> Nat] /\ f[0] = 1 /\ \A i \in 1 .. n : f[i] = 2 * f[i - 1]
           g == [n \in Nat |-> (CHOOSE f : Part(n, f))[n]]
<1>1. \A n \in Nat : \E f : Part(n, f)
  <2> DEFINE T == {n \in Nat : \E f : Part(n, f)}
  <2>1. 0 \in T
    <3>1. Part(0, [i \in 0 .. 0 |-> 1])
      OBVIOUS
    <3>2. QED
      BY <3>1
  <2>2. ASSUME NEW n \in Nat, n \in T PROVE n + 1 \in T
    <3>1. PICK f : Part(n, f)
      BY <2>2
    <3> DEFINE h == [i \in 0 .. n + 1 |-> IF i = n + 1 THEN 2 * f[n] ELSE f[i]]
    <3>2. \A i \in 0 .. n : f[i] \in Nat
      BY <3>1
    <3>3. h \in [0 .. n + 1 -> Nat]
      BY <3>2
    <3>4. h[0] = 1
      BY <3>1
    <3>5. ASSUME NEW i \in 1 .. n + 1 PROVE h[i] = 2 * h[i - 1]
      <4>1. CASE i = n + 1
        BY <4>1
      <4>2. CASE i \in 1 .. n
        BY <3>1, <4>2
      <4>3. QED
        BY <4>1, <4>2
    <3>6. Part(n + 1, h)
      BY <3>3, <3>4, <3>5
    <3> HIDE DEF h, Part
    <3>7. n + 1 \in Nat /\ \E f1 : Part(n + 1, f1)
      BY <3>6
    <3>8. QED
      BY <3>7
  <2>3. \A n \in Nat : n \in T
    <3> HIDE DEF T
    <3>1. QED
      BY <2>1, <2>2, SetInduction
  <2>4. QED
    BY <2>3
<1>2. ASSUME NEW m \in Nat, NEW n \in Nat, NEW f, NEW h, Part(m, f), Part(n, h)
      PROVE  \A i \in Nat : i <= m /\ i <= n => f[i] = h[i]
  <2> DEFINE T == {i \in Nat : i <= m /\ i <= n => f[i] = h[i]}
  <2>1. 0 \in T
    BY <1>2
  <2>2. ASSUME NEW i \in Nat, i \in T PROVE i + 1 \in T
    <3>1. SUFFICES ASSUME i + 1 <= m, i + 1 <= n PROVE f[i + 1] = h[i + 1]
      OBVIOUS
    <3>2. f[i] = h[i]
      BY <2>2, <3>1
    <3>3. i + 1 \in 1 .. m /\ i + 1 \in 1 .. n /\ (i + 1) - 1 = i
      BY <3>1
    <3>4. QED
      BY <1>2, <3>2, <3>3
  <2>3. \A i \in Nat : i \in T
    <3> HIDE DEF T
    <3>1. QED
      BY <2>1, <2>2, SetInduction
  <2>4. QED
    BY <2>3
<1>3. ASSUME NEW n \in Nat PROVE g[n] = IF n = 0 THEN 1 ELSE 2 * g[n - 1]
  <2> DEFINE F(k) == CHOOSE f : Part(k, f)
  <2>1. \A k \in Nat : Part(k, F(k))
    <3> HIDE DEF Part
    <3>1. QED
      BY <1>1
  <2>2. \A k \in Nat : g[k] = F(k)[k]
    OBVIOUS
  <2> HIDE DEF g, F
  <2>3. CASE n = 0
    BY <2>1, <2>2, <2>3
  <2>4. CASE n # 0
    <3>1. n - 1 \in Nat /\ n \in 1 .. n /\ n - 1 <= n - 1 /\ n - 1 <= n
      BY <2>4
    <3>2. F(n)[n] = 2 * F(n)[n - 1]
      BY <2>1, <3>1
    <3>3. F(n)[n - 1] = F(n - 1)[n - 1]
      <4> HIDE DEF Part
      <4>1. Part(n, F(n)) /\ Part(n - 1, F(n - 1))
        BY <2>1, <3>1
      <4>2. QED
        BY <1>2, <3>1, <4>1
    <3>4. QED
      BY <2>2, <2>4, <3>1, <3>2, <3>3
  <2>5. QED
    BY <2>3, <2>4
<1>4. g = [n \in Nat |-> IF n = 0 THEN 1 ELSE 2 * g[n - 1]]
  <2> DEFINE h == [n \in Nat |-> IF n = 0 THEN 1 ELSE 2 * g[n - 1]]
  <2>1. DOMAIN g = Nat /\ DOMAIN h = Nat /\ g = [n \in Nat |-> g[n]]
    OBVIOUS
  <2>2. \A n \in Nat : g[n] = h[n]
    <3>1. \A n \in Nat : h[n] = IF n = 0 THEN 1 ELSE 2 * g[n - 1]
      OBVIOUS
    <3> HIDE DEF g, h
    <3>2. QED
      BY <1>3, <3>1
  <2>3. h = [n \in Nat |-> h[n]]
    OBVIOUS
  <2> HIDE DEF g, h
  <2>4. g = h
    BY <2>1, <2>2, <2>3
  <2>5. QED
    BY <2>4 DEF h
<1> HIDE DEF g
<1>5. QED
  BY <1>4 DEF Pow2

\* The powers of two: Pow2 unfolded, which is defined recursively over Nat.
LEMMA Pow2Values ==
  /\ Pow2[0] = 1 /\ Pow2[1] = 2
  /\ \A n \in Nat : Pow2[n] \in Nat /\ Pow2[n] >= 1 /\ Pow2[n + 1] = 2 * Pow2[n]
<1>1. \A n \in Nat : Pow2[n] = IF n = 0 THEN 1 ELSE 2 * Pow2[n - 1]
  <2> DEFINE P == Pow2
  <2>1. P = [n \in Nat |-> IF n = 0 THEN 1 ELSE 2 * P[n - 1]]
    BY Pow2Defined
  <2> HIDE DEF P
  <2>2. \A n \in Nat : P[n] = IF n = 0 THEN 1 ELSE 2 * P[n - 1]
    BY <2>1
  <2>3. QED
    BY <2>2 DEF P
<1>2. Pow2[0] = 1
  BY <1>1
<1>3. \A n \in Nat : Pow2[n + 1] = 2 * Pow2[n]
  <2> SUFFICES ASSUME NEW n \in Nat PROVE Pow2[n + 1] = 2 * Pow2[n]
    OBVIOUS
  <2>1. n + 1 \in Nat /\ n + 1 # 0 /\ (n + 1) - 1 = n
    OBVIOUS
  <2>2. QED
    BY <1>1, <2>1
<1> DEFINE T == {n \in Nat : Pow2[n] \in Nat /\ Pow2[n] >= 1}
<1>4. \A n \in Nat : n \in T
  <2>1. 0 \in T
    BY <1>2
  <2>2. ASSUME NEW n \in Nat, n \in T PROVE n + 1 \in T
    BY <1>3, <2>2
  <2> HIDE DEF T
  <2>3. QED
    BY <2>1, <2>2, SetInduction
<1>5. Pow2[1] = 2
  <2>1. Pow2[0 + 1] = 2 * Pow2[0]
    BY <1>3
  <2>2. QED
    BY <1>2, <2>1
<1>6. QED
  BY <1>2, <1>3, <1>4, <1>5

\* They grow, and double at the least.
LEMMA Pow2Grows ==
  ASSUME NEW a \in Nat, NEW b \in Nat, a <= b
  PROVE  Pow2[a] <= Pow2[b] /\ (a < b => 2 * Pow2[a] <= Pow2[b])
<1> DEFINE T == {n \in Nat : \A c \in Nat :
                 c <= n => Pow2[c] <= Pow2[n] /\ (c < n => 2 * Pow2[c] <= Pow2[n])}
<1>1. 0 \in T
  BY Pow2Values
<1>2. ASSUME NEW n \in Nat, n \in T PROVE n + 1 \in T
  <2>1. SUFFICES ASSUME NEW c \in Nat, c <= n + 1
                 PROVE  Pow2[c] <= Pow2[n + 1] /\ (c < n + 1 => 2 * Pow2[c] <= Pow2[n + 1])
    BY <1>2
  <2>2. Pow2[n + 1] = 2 * Pow2[n] /\ Pow2[n] \in Nat /\ Pow2[c] \in Nat
    BY Pow2Values
  <2>3. CASE c = n + 1
    BY <2>2, <2>3
  <2>4. CASE c <= n
    <3>1. Pow2[c] <= Pow2[n]
      BY <1>2, <2>4
    <3>2. QED
      BY <2>2, <2>4, <3>1
  <2>5. QED
    BY <2>1, <2>3, <2>4
<1>3. \A n \in Nat : n \in T
  <2> HIDE DEF T
  <2>1. QED
    BY <1>1, <1>2, SetInduction
<1>4. QED
  BY <1>3

\* A node has one level.
LEMMA OneLevel ==
  ASSUME NEW n \in Nat, NEW k \in Nat, NEW l \in Nat, AtLevel(n, k), AtLevel(n, l)
  PROVE  k = l
<1>1. Pow2[k + 1] = 2 * Pow2[k] /\ Pow2[l + 1] = 2 * Pow2[l] /\ Pow2[k] \in Nat /\ Pow2[l] \in Nat
  BY Pow2Values
<1>2. k < l => 2 * Pow2[k] <= Pow2[l]
  BY Pow2Grows
<1>3. l < k => 2 * Pow2[l] <= Pow2[k]
  BY Pow2Grows
<1>4. QED
  BY <1>1, <1>2, <1>3 DEF AtLevel

-----------------------------------------------------------------------------
\* The rows below a node.

LEMMA RowDoubles ==
  ASSUME NEW r \in Nat, NEW k \in Nat
  PROVE  /\ r * Pow2[0] = r /\ r * Pow2[k] \in Nat
         /\ r * Pow2[k + 1] = 2 * (r * Pow2[k]) /\ Pow2[k + 1] = 2 * Pow2[k]
         /\ (r + 1) * Pow2[k] = r * Pow2[k] + Pow2[k]
<1>1. Pow2[k] \in Nat /\ Pow2[k + 1] = 2 * Pow2[k] /\ Pow2[0] = 1
  BY Pow2Values
<1>2. \A p \in Nat : r * p \in Nat /\ r * (2 * p) = 2 * (r * p) /\ (r + 1) * p = r * p + p /\ r * 1 = r
  OBVIOUS
<1>3. QED
  BY <1>1, <1>2

\* The row k levels below a node of depth d is part of the level d + k.
LEMMA RowPlace ==
  ASSUME NEW d \in Nat, NEW r \in Nat, Pow2[d] <= r, r < 2 * Pow2[d], NEW k \in Nat
  PROVE  Pow2[d + k] <= r * Pow2[k] /\ r * Pow2[k] + Pow2[k] <= Pow2[d + k + 1]
<1> DEFINE T == {j \in Nat : Pow2[d + j] <= r * Pow2[j] /\ r * Pow2[j] + Pow2[j] <= Pow2[d + j + 1]}
<1>1. 0 \in T
  <2>1. d + 0 = d /\ d + 0 + 1 = d + 1 /\ r * Pow2[0] = r /\ Pow2[0] = 1
    BY RowDoubles, Pow2Values
  <2>2. Pow2[d] \in Nat /\ Pow2[d + 1] = 2 * Pow2[d]
    BY Pow2Values
  <2>3. QED
    BY <2>1, <2>2
<1>2. ASSUME NEW j \in Nat, j \in T PROVE j + 1 \in T
  <2>1. d + j \in Nat /\ d + j + 1 \in Nat /\ d + (j + 1) = d + j + 1 /\ d + (j + 1) + 1 = (d + j + 1) + 1
    OBVIOUS
  <2>2. /\ Pow2[d + j + 1] = 2 * Pow2[d + j] /\ Pow2[(d + j + 1) + 1] = 2 * Pow2[d + j + 1]
        /\ Pow2[d + j] \in Nat /\ Pow2[d + j + 1] \in Nat /\ Pow2[j] \in Nat
    BY <2>1, Pow2Values
  <2>3. /\ r * Pow2[j] \in Nat /\ r * Pow2[j + 1] = 2 * (r * Pow2[j])
        /\ Pow2[j + 1] = 2 * Pow2[j]
    BY RowDoubles
  <2>4. Pow2[d + j] <= r * Pow2[j] /\ r * Pow2[j] + Pow2[j] <= Pow2[d + j + 1]
    BY <1>2
  <2>5. Pow2[d + j + 1] <= r * Pow2[j + 1]
        /\ r * Pow2[j + 1] + Pow2[j + 1] <= Pow2[(d + j + 1) + 1]
    <3> DEFINE rp == r * Pow2[j]
    <3>1. rp \in Nat /\ r * Pow2[j + 1] = 2 * rp /\ Pow2[d + j] <= rp /\ rp + Pow2[j] <= Pow2[d + j + 1]
      BY <2>3, <2>4
    <3> HIDE DEF rp
    <3>2. QED
      BY ONLY <3>1, <2>2, <2>3
  <2>6. QED
    BY <2>1, <2>5
<1>3. \A j \in Nat : j \in T
  <2> HIDE DEF T
  <2>1. QED
    BY <1>1, <1>2, SetInduction
<1>4. QED
  BY <1>3

\* Where the row k levels below segment s of depth d starts.
LEMMA RowStart ==
  ASSUME NEW d \in Nat, NEW s \in Nat, NEW k \in Nat
  PROVE  (Pow2[d] + s) * Pow2[k] = Pow2[d + k] + s * Pow2[k]
<1> DEFINE T == {j \in Nat : (Pow2[d] + s) * Pow2[j] = Pow2[d + j] + s * Pow2[j]}
<1>0. Pow2[d] + s \in Nat
  BY Pow2Values
<1>1. 0 \in T
  <2>1. \A r \in Nat : r * Pow2[0] = r
    BY RowDoubles
  <2>2. d + 0 = d
    OBVIOUS
  <2>3. QED
    BY <1>0, <2>1, <2>2
<1>2. ASSUME NEW j \in Nat, j \in T PROVE j + 1 \in T
  <2> DEFINE a == (Pow2[d] + s) * Pow2[j]
             b == s * Pow2[j]
  <2>1. d + j \in Nat /\ d + (j + 1) = (d + j) + 1
    OBVIOUS
  <2>2. Pow2[(d + j) + 1] = 2 * Pow2[d + j] /\ Pow2[d + j] \in Nat
    BY <2>1, Pow2Values
  <2>3. /\ a \in Nat /\ (Pow2[d] + s) * Pow2[j + 1] = 2 * a
        /\ b \in Nat /\ s * Pow2[j + 1] = 2 * b
    BY <1>0, RowDoubles
  <2>4. a = Pow2[d + j] + b
    BY <1>2
  <2> HIDE DEF a, b
  <2>5. (Pow2[d] + s) * Pow2[j + 1] = Pow2[d + (j + 1)] + s * Pow2[j + 1]
    BY ONLY <2>1, <2>2, <2>3, <2>4
  <2>6. QED
    BY <2>5
<1>3. \A j \in Nat : j \in T
  <2> HIDE DEF T
  <2>1. QED
    BY <1>1, <1>2, SetInduction
<1>4. QED
  BY <1>3

\* Every node that deep is in the row of some node of depth d.
LEMMA RowOfNode ==
  ASSUME NEW d \in Nat, NEW k \in Nat, NEW n \in Nat, Pow2[d + k] <= n, n < Pow2[d + k + 1]
  PROVE  \E r \in Nat : Pow2[d] <= r /\ r < 2 * Pow2[d] /\ n \in Row(r, k)
<1> DEFINE T == {j \in Nat : \A m \in Nat : Pow2[d + j] <= m /\ m < Pow2[d + j + 1] =>
                   \E r \in Nat : Pow2[d] <= r /\ r < 2 * Pow2[d] /\ m \in Row(r, j)}
<1>1. 0 \in T
  <2> SUFFICES ASSUME NEW m \in Nat, Pow2[d + 0] <= m, m < Pow2[d + 0 + 1]
               PROVE  \E r \in Nat : Pow2[d] <= r /\ r < 2 * Pow2[d] /\ m \in Row(r, 0)
    OBVIOUS
  <2>1. d + 0 = d /\ d + 0 + 1 = d + 1
    OBVIOUS
  <2>2. Pow2[d] <= m /\ m < 2 * Pow2[d]
    BY <2>1, Pow2Values
  <2>3. m * Pow2[0] = m /\ Pow2[0] = 1
    BY RowDoubles, Pow2Values
  <2>4. m \in Row(m, 0)
    BY <2>3 DEF Row
  <2>5. QED
    BY <2>2, <2>4
<1>2. ASSUME NEW j \in Nat, j \in T PROVE j + 1 \in T
  <2> SUFFICES ASSUME NEW m \in Nat, Pow2[d + (j + 1)] <= m, m < Pow2[d + (j + 1) + 1]
               PROVE  \E r \in Nat : Pow2[d] <= r /\ r < 2 * Pow2[d] /\ m \in Row(r, j + 1)
    OBVIOUS
  <2>1. d + j \in Nat /\ d + (j + 1) = (d + j) + 1 /\ d + (j + 1) + 1 = (d + j + 1) + 1 /\ d + j + 1 \in Nat
    OBVIOUS
  <2>2. /\ Pow2[d + j + 1] = 2 * Pow2[d + j] /\ Pow2[(d + j + 1) + 1] = 2 * Pow2[d + j + 1]
        /\ Pow2[d + j] \in Nat /\ Pow2[d + j + 1] \in Nat
    BY <2>1, Pow2Values
  <2> DEFINE h == m \div 2
  <2>3. h \in Nat /\ (m = 2 * h \/ m = 2 * h + 1)
    OBVIOUS
  <2> HIDE DEF h
  <2>4. Pow2[d + j] <= h /\ h < Pow2[d + j + 1]
    BY <2>1, <2>2, <2>3
  <2>5. PICK r \in Nat : Pow2[d] <= r /\ r < 2 * Pow2[d] /\ h \in Row(r, j)
    BY <1>2, <2>3, <2>4
  <2>6. /\ r * Pow2[j] \in Nat /\ r * Pow2[j + 1] = 2 * (r * Pow2[j])
        /\ Pow2[j + 1] = 2 * Pow2[j] /\ Pow2[j] \in Nat
    BY RowDoubles, Pow2Values
  <2>7. h >= r * Pow2[j] /\ h <= r * Pow2[j] + Pow2[j] - 1
    BY <2>3, <2>5, <2>6 DEF Row
  <2>8. m >= r * Pow2[j + 1] /\ m <= r * Pow2[j + 1] + Pow2[j + 1] - 1
    <3> DEFINE rp == r * Pow2[j]
    <3>1. rp \in Nat /\ r * Pow2[j + 1] = 2 * rp /\ h >= rp /\ h <= rp + Pow2[j] - 1
      BY <2>6, <2>7
    <3> HIDE DEF rp
    <3>2. QED
      BY ONLY <3>1, <2>3, <2>6
  <2>9. m \in Row(r, j + 1)
    <3>1. r * Pow2[j + 1] \in Nat /\ Pow2[j + 1] \in Nat
      BY <2>6
    <3>2. QED
      BY <2>8, <3>1 DEF Row
  <2>10. QED
    BY <2>5, <2>9
<1>3. \A j \in Nat : j \in T
  <2> HIDE DEF T
  <2>1. QED
    BY <1>1, <1>2, SetInduction
<1>4. QED
  BY <1>3

\* Every node is on one of the levels between its least and its largest possible.
LEMMA LevelOfNode ==
  ASSUME NEW d \in Nat, NEW l \in Nat, NEW n \in Nat, Pow2[d] <= n, n < Pow2[d + l + 1]
  PROVE  \E k \in 0 .. l : Pow2[d + k] <= n /\ n < Pow2[d + k + 1]
<1> DEFINE T == {j \in Nat : n < Pow2[d + j + 1] =>
                   \E k \in 0 .. j : Pow2[d + k] <= n /\ n < Pow2[d + k + 1]}
<1>1. 0 \in T
  <2>1. d + 0 = d
    OBVIOUS
  <2>2. QED
    BY <2>1
<1>2. ASSUME NEW j \in Nat, j \in T PROVE j + 1 \in T
  <2>1. SUFFICES ASSUME n < Pow2[d + (j + 1) + 1]
                 PROVE  \E k \in 0 .. j + 1 : Pow2[d + k] <= n /\ n < Pow2[d + k + 1]
    BY <1>2
  <2>2. CASE n < Pow2[d + j + 1]
    <3>1. PICK k \in 0 .. j : Pow2[d + k] <= n /\ n < Pow2[d + k + 1]
      BY <1>2, <2>2
    <3>2. k \in 0 .. j + 1
      OBVIOUS
    <3>3. QED
      BY <3>1, <3>2
  <2>3. CASE ~ (n < Pow2[d + j + 1])
    <3>1. d + (j + 1) = d + j + 1 /\ d + j + 1 \in Nat /\ j + 1 \in 0 .. j + 1
      OBVIOUS
    <3>2. Pow2[d + j + 1] <= n
      BY <2>3, <3>1, Pow2Values
    <3>3. QED
      BY <2>1, <3>1, <3>2
  <2>4. QED
    BY <2>2, <2>3
<1>3. \A j \in Nat : j \in T
  <2> HIDE DEF T
  <2>1. QED
    BY <1>1, <1>2, SetInduction
<1>4. QED
  BY <1>3

-----------------------------------------------------------------------------
\* The tree's numbers.

LEMMA Sizes ==
  ASSUME TypeOK
  PROVE  /\ height \in Nat /\ log_segment \in Nat /\ height - log_segment \in Nat
         /\ Wrong \notin Nat /\ k_data_length = Pow2[height] /\ k_data_length \in Nat
         /\ k_data_length >= 1 /\ Pow2[height + 1] = 2 * k_data_length /\ Pow2[height + 1] \in Nat
         /\ Node = 1 .. Pow2[height + 1] - 1
<1>1. height \in Nat /\ log_segment \in Nat /\ height - log_segment \in Nat /\ Wrong \notin Nat
  BY TreeAssumption DEF TypeOK
<1>2. Pow2[height] \in Nat /\ Pow2[height] >= 1 /\ Pow2[height + 1] = 2 * Pow2[height]
  BY <1>1, Pow2Values
<1>3. QED
  BY <1>1, <1>2 DEF k_data_length, Node

\* The rows below a segment's root are nodes of the tree.
LEMMA SegmentRows ==
  ASSUME TypeOK, NEW s \in Segment
  PROVE  /\ s \in Nat /\ SegmentRoot(s) \in Nat /\ SegmentRoot(s) >= 1
         /\ \A k \in 0 .. log_segment :
              /\ SegmentRoot(s) * Pow2[k] \in Nat /\ SegmentRoot(s) * Pow2[k] >= 1
              /\ Pow2[k] \in Nat /\ Pow2[k] >= 1
              /\ SegmentRoot(s) * Pow2[k] + Pow2[k] <= Pow2[height + 1]
              /\ Row(SegmentRoot(s), k) \subseteq Node
<1> DEFINE d == height - log_segment
           r == SegmentRoot(s)
<1>1. /\ height \in Nat /\ log_segment \in Nat /\ d \in Nat
      /\ Node = 1 .. Pow2[height + 1] - 1 /\ Pow2[height + 1] \in Nat
  BY Sizes
<1>2. Pow2[d] \in Nat /\ Pow2[d] >= 1
  BY <1>1, Pow2Values
<1>3. s \in Nat /\ r \in Nat /\ Pow2[d] <= r /\ r < 2 * Pow2[d] /\ r >= 1
  BY <1>2 DEF Segment, SegmentRoot
<1> HIDE DEF r
<1>4. ASSUME NEW k \in 0 .. log_segment
      PROVE  /\ r * Pow2[k] \in Nat /\ r * Pow2[k] >= 1 /\ Pow2[k] \in Nat /\ Pow2[k] >= 1
             /\ r * Pow2[k] + Pow2[k] <= Pow2[height + 1] /\ Row(r, k) \subseteq Node
  <2>1. k \in Nat /\ d + k \in Nat /\ d + k + 1 \in Nat /\ height + 1 \in Nat /\ d + k + 1 <= height + 1
    BY <1>1
  <2>2. Pow2[d + k] <= r * Pow2[k] /\ r * Pow2[k] + Pow2[k] <= Pow2[d + k + 1]
    BY <1>1, <1>3, <2>1, RowPlace
  <2>3. /\ Pow2[d + k + 1] <= Pow2[height + 1] /\ Pow2[d + k] >= 1
        /\ Pow2[d + k] \in Nat /\ Pow2[k] \in Nat /\ Pow2[k] >= 1 /\ Pow2[d + k + 1] \in Nat
    BY <2>1, Pow2Grows, Pow2Values
  <2>4. r * Pow2[k] \in Nat
    BY <1>3, <2>1, RowDoubles
  <2> DEFINE rp == r * Pow2[k]
  <2>5. rp \in Nat /\ rp >= 1 /\ rp + Pow2[k] <= Pow2[height + 1]
    BY <1>1, <2>2, <2>3, <2>4, SMTT(30)
  <2>6. rp .. rp + Pow2[k] - 1 \subseteq Node
    <3> HIDE DEF rp
    <3>1. QED
      BY ONLY <1>1, <2>3, <2>5, SMTT(30)
  <2>7. QED
    BY <2>3, <2>5, <2>6 DEF Row
<1>5. QED
  BY <1>3, <1>4 DEF r

\* The hash of a node's right children is the node's right hash.
LEMMA HashOfRight ==
  ASSUME NEW n \in Nat, Wrong \notin Nat
  PROVE  Hash(2 * n, 2 * n + 1) = n
BY DEF Hash

\* A hash is a hash, whatever the cells hold.
LEMMA HashCell ==
  ASSUME TypeOK, NEW a \in Cell \cup {Wrong}, NEW b \in Cell \cup {Wrong}
  PROVE  Hash(a, b) \in Cell \cup {Wrong}
<1>1. Node = 1 .. Pow2[height + 1] - 1 /\ Pow2[height + 1] \in Nat
  BY Sizes
<1>2. \A c \in Cell : c \div 2 \in Cell
  BY <1>1 DEF Cell
<1>3. QED
  BY <1>2 DEF Hash

\* A right node stays right.
RightKept == \A n \in Node : nodes_[n] = n => nodes_'[n] = n

\* What a hash of two right children leaves.
LEMMA HashWrites ==
  ASSUME TypeOK, NEW i \in Node, 2 * i \in Node, 2 * i + 1 \in Node,
         nodes_[2 * i] = 2 * i, nodes_[2 * i + 1] = 2 * i + 1,
         nodes_' = [nodes_ EXCEPT ![i] = Hash(nodes_[2 * i], nodes_[2 * i + 1])]
  PROVE  RightKept /\ nodes_'[i] = i /\ nodes_' \in [Cell -> Cell \cup {Wrong}]
<1>1. i \in Nat /\ i \in Cell /\ Wrong \notin Nat
  BY Sizes, Pow2Values DEF Cell
<1>2. Hash(nodes_[2 * i], nodes_[2 * i + 1]) = i
  BY <1>1, HashOfRight
<1>3. nodes_' = [nodes_ EXCEPT ![i] = i] /\ nodes_ \in [Cell -> Cell \cup {Wrong}]
  BY <1>2 DEF TypeOK
<1>4. QED
  BY <1>1, <1>3 DEF RightKept, Cell

\* A segment that a step leaves alone.
LEMMA SegmentKept ==
  ASSUME TypeOK, height' = height, log_segment' = log_segment, RightKept,
         NEW s \in Segment, adding'[s] = adding[s]
  PROVE  /\ NotCopied(s) => NotCopied(s)'
         /\ Added(s) => Added(s)'
         /\ \A j \in 0 .. log_segment - 1 : Hashing(s, j) => Hashing(s, j)'
<1>0. log_segment \in Nat
  BY Sizes
<1>1. SegmentRoot(s)' = SegmentRoot(s)
  BY DEF SegmentRoot
<1>2. \A k \in 0 .. log_segment : Row(SegmentRoot(s), k) \subseteq Node
  BY SegmentRows
<1>3. \A S : S \subseteq Node /\ Right(S) => Right(S)'
  BY DEF Right, RightKept
<1>4. \A k \in 0 .. log_segment :
        Right(Row(SegmentRoot(s), k)) => Right(Row(SegmentRoot(s), k))'
  <2> SUFFICES ASSUME NEW k \in 0 .. log_segment, Right(Row(SegmentRoot(s), k))
               PROVE  Right(Row(SegmentRoot(s), k))'
    OBVIOUS
  <2>1. Row(SegmentRoot(s), k)' = Row(SegmentRoot(s), k)
    BY <1>1 DEF Row
  <2>2. QED
    BY <1>2, <2>1 DEF Right, RightKept
<1>5. \A j : RightFrom(s, j) => RightFrom(s, j)'
  BY <1>4 DEF RightFrom
<1>6. \A j : HashesRow(s, j) => HashesRow(s, j)'
  BY <1>1 DEF HashesRow, Row
<1>7. NotCopied(s) => NotCopied(s)'
  BY <1>6 DEF NotCopied
<1>8. Added(s) => Added(s)'
  BY <1>5 DEF Added
<1>9. ASSUME NEW j \in 0 .. log_segment - 1, Hashing(s, j) PROVE Hashing(s, j)'
  <2>1. j \in 0 .. log_segment
    BY <1>0
  <2>2. adding[s].cur .. adding[s].i - 1 \subseteq Node
    <3>1. /\ adding[s].cur = SegmentRoot(s) * Pow2[j] /\ adding[s].i \in Row(SegmentRoot(s), j)
          /\ Row(SegmentRoot(s), j) \subseteq Node
      BY <1>2, <1>9, <2>1 DEF Hashing, HashesRow
    <3>2. SegmentRoot(s) * Pow2[j] \in Nat /\ Pow2[j] \in Nat
      BY <2>1, SegmentRows
    <3>3. adding[s].cur .. adding[s].i - 1 \subseteq Row(SegmentRoot(s), j)
      BY <3>1, <3>2 DEF Row
    <3>4. QED
      BY <3>1, <3>3
  <2>3. Right(adding[s].cur .. adding[s].i - 1)'
    BY <1>9, <2>2 DEF Hashing, Right, RightKept
  <2>4. QED
    BY <1>5, <1>6, <1>9, <2>3 DEF Hashing
<1>10. QED
  BY <1>7, <1>8, <1>9

-----------------------------------------------------------------------------
\* The threads that feed the tree.

SegmentFed(s) == NotCopied(s) \/ Added(s) \/ \E j \in 0 .. log_segment - 1 : Hashing(s, j)

\* A thread leaves the other segments as they are.
LEMMA OthersFed ==
  ASSUME TypeOK, Feeding, phase = "feed", NEW s \in Segment,
         height' = height, log_segment' = log_segment, RightKept,
         \A t \in Segment : t # s => adding'[t] = adding[t],
         SegmentFed(s)'
  PROVE  Feeding'
<1>1. Segment' = Segment
  BY DEF Segment
<1>2. ASSUME NEW t \in Segment, t # s PROVE SegmentFed(t)'
  <2>1. adding'[t] = adding[t]
    BY <1>2
  <2>2. SegmentFed(t)
    BY DEF Feeding, SegmentFed
  <2>3. log_segment' - 1 = log_segment - 1
    OBVIOUS
  <2>4. QED
    BY <2>1, <2>2, <2>3, SegmentKept DEF SegmentFed
<1>3. QED
  BY <1>1, <1>2 DEF Feeding, SegmentFed

\* AddData's copy leaves the right hashes in the segment's leaves.
LEMMA CopyWrites ==
  ASSUME TypeOK, NEW s \in Segment, CopyLeaves(s), height' = height, log_segment' = log_segment
  PROVE  /\ RightKept /\ nodes_' \in [Cell -> Cell \cup {Wrong}]
         /\ \A n \in Row(SegmentRoot(s), log_segment) : nodes_'[n] = n
<1> DEFINE d == height - log_segment
           p == Pow2[log_segment]
           mine == Leaf(s * p) .. Leaf((s + 1) * p - 1)
<1>1. /\ height \in Nat /\ log_segment \in Nat /\ d \in Nat /\ d + log_segment = height
      /\ k_data_length = Pow2[height] /\ k_data_length \in Nat
  BY Sizes
<1>2. s \in Nat /\ log_segment \in 0 .. log_segment
  BY <1>1, SegmentRows
<1>3. SegmentRoot(s) * p = Pow2[height] + s * p
  BY <1>1, <1>2, RowStart DEF SegmentRoot
<1>4. (s + 1) * p = s * p + p /\ s * p \in Nat /\ p \in Nat
  BY <1>1, <1>2, RowDoubles, Pow2Values, ZenonT(60)
<1>5. mine = Row(SegmentRoot(s), log_segment)
  <2>1. Row(SegmentRoot(s), log_segment) = SegmentRoot(s) * p .. SegmentRoot(s) * p + p - 1
    BY DEF Row
  <2>2. mine = s * p + Pow2[height] .. ((s + 1) * p - 1) + Pow2[height]
    BY <1>1 DEF Leaf
  <2> DEFINE sp == s * p
             rp == SegmentRoot(s) * p
             tp == (s + 1) * p
  <2>3. rp = Pow2[height] + sp /\ tp = sp + p /\ sp \in Nat /\ p \in Nat /\ Pow2[height] \in Nat
    BY <1>1, <1>3, <1>4
  <2> HIDE DEF sp, rp, tp
  <2>4. rp = sp + Pow2[height] /\ rp + p - 1 = (tp - 1) + Pow2[height]
    BY ONLY <2>3
  <2>5. QED
    BY <2>1, <2>2, <2>4 DEF rp, sp, tp
<1>6. mine \subseteq Node
  BY <1>2, <1>5, SegmentRows
<1>7. nodes_' = [n \in Cell |-> IF n \in mine THEN n ELSE nodes_[n]]
  BY DEF CopyLeaves
<1>8. Node \subseteq Cell /\ nodes_ \in [Cell -> Cell \cup {Wrong}]
  BY DEF Cell, TypeOK
<1> HIDE DEF mine
<1>9. QED
  BY <1>5, <1>6, <1>7, <1>8 DEF RightKept

\* The copy keeps Feeding: the row above the leaves is next.
LEMMA AddDataCopyStep ==
  ASSUME TypeOK, Feeding, NEW s \in Segment, AddDataCopy(s)
  PROVE  Feeding' /\ nodes_' \in [Cell -> Cell \cup {Wrong}]
         /\ adding' \in [Segment -> [cur : Nat, length : Nat, i : Nat, copied : BOOLEAN]]
<1>0. /\ phase = "feed" /\ ~adding[s].copied /\ CopyLeaves(s)
      /\ adding' = [adding EXCEPT ![s].copied = TRUE]
      /\ height' = height /\ log_segment' = log_segment
  BY DEF AddDataCopy
<1>1. adding \in [Segment -> [cur : Nat, length : Nat, i : Nat, copied : BOOLEAN]]
  BY DEF TypeOK
<1>2. /\ adding' \in [Segment -> [cur : Nat, length : Nat, i : Nat, copied : BOOLEAN]]
      /\ adding'[s].copied /\ adding'[s].cur = adding[s].cur
      /\ adding'[s].length = adding[s].length /\ adding'[s].i = adding[s].i
      /\ \A t \in Segment : t # s => adding'[t] = adding[t]
  BY <1>0, <1>1
<1>3. /\ RightKept /\ nodes_' \in [Cell -> Cell \cup {Wrong}]
      /\ \A n \in Row(SegmentRoot(s), log_segment) : nodes_'[n] = n
  BY <1>0, CopyWrites
<1>4. NotCopied(s)
  BY <1>0 DEF Feeding, Added, Hashing
<1>5. SegmentRoot(s)' = SegmentRoot(s) /\ log_segment \in Nat
  BY <1>0, Sizes DEF SegmentRoot
<1>6. RightFrom(s, log_segment)'
  <2>1. \A k \in 0 .. log_segment : k >= log_segment => k = log_segment
    BY <1>5
  <2>2. QED
    BY <1>0, <1>3, <1>5, <2>1 DEF RightFrom, Right
<1>7. SegmentFed(s)'
  <2>1. CASE log_segment = 0
    <3>1. adding[s].length = 0
      BY <1>4, <2>1 DEF NotCopied
    <3>2. RightFrom(s, 0)'
      BY <1>0, <1>6, <2>1 DEF RightFrom
    <3>3. Added(s)'
      BY <1>2, <3>1, <3>2 DEF Added
    <3>4. QED
      BY <3>3 DEF SegmentFed
  <2>2. CASE log_segment > 0
    <3>1. HashesRow(s, log_segment - 1) /\ adding[s].i = adding[s].cur
      BY <1>4, <2>2 DEF NotCopied
    <3>2. HashesRow(s, log_segment - 1)'
      BY <1>0, <1>2, <1>5, <3>1 DEF HashesRow, Row
    <3>3. adding'[s].i = adding'[s].cur /\ adding'[s].i \in Nat
      BY <1>2, <3>1
    <3>4. Right(adding[s].cur .. adding[s].i - 1)'
      BY <3>3 DEF Right
    <3>5. (log_segment - 1) + 1 = log_segment /\ log_segment - 1 \in 0 .. log_segment - 1
      BY <1>5, <2>2
    <3>6. RightFrom(s, (log_segment - 1) + 1)'
      BY <1>0, <1>6, <3>5 DEF RightFrom
    <3>7. Hashing(s, log_segment - 1)'
      BY <1>2, <3>2, <3>4, <3>6 DEF Hashing
    <3>8. QED
      BY <1>0, <3>5, <3>7 DEF SegmentFed
  <2>3. QED
    BY <1>5, <2>1, <2>2
<1>8. Feeding'
  BY <1>0, <1>2, <1>3, <1>7, OthersFed
<1>9. QED
  BY <1>2, <1>3, <1>8

\* A row's end is the start of the row above it, or of nothing.
LEMMA NextRow ==
  ASSUME TypeOK, NEW s \in Segment, NEW j \in 0 .. log_segment - 1, HashesRow(s, j)
  PROVE  /\ adding[s].length = Pow2[j] /\ Pow2[j] \in Nat
         /\ adding[s].cur = SegmentRoot(s) * Pow2[j] /\ adding[s].cur \in Nat
         /\ j > 0 => /\ adding[s].length \div 2 = Pow2[j - 1] /\ Pow2[j - 1] \in Nat
                     /\ Pow2[j - 1] >= 1
                     /\ adding[s].cur \div 2 = SegmentRoot(s) * Pow2[j - 1]
                     /\ SegmentRoot(s) * Pow2[j - 1] \in Nat
         /\ j = 0 => adding[s].length \div 2 = 0
<1>0. log_segment \in Nat /\ j \in Nat /\ j \in 0 .. log_segment
  BY Sizes
<1>1. /\ adding[s].length = Pow2[j] /\ Pow2[j] \in Nat
      /\ adding[s].cur = SegmentRoot(s) * Pow2[j] /\ adding[s].cur \in Nat
  BY <1>0, SegmentRows DEF HashesRow
<1>2. ASSUME j > 0
      PROVE  /\ adding[s].length \div 2 = Pow2[j - 1] /\ Pow2[j - 1] \in Nat /\ Pow2[j - 1] >= 1
             /\ adding[s].cur \div 2 = SegmentRoot(s) * Pow2[j - 1]
             /\ SegmentRoot(s) * Pow2[j - 1] \in Nat
  <2>1. j - 1 \in Nat /\ (j - 1) + 1 = j /\ SegmentRoot(s) \in Nat
    BY <1>0, <1>2, SegmentRows
  <2>2. /\ SegmentRoot(s) * Pow2[(j - 1) + 1] = 2 * (SegmentRoot(s) * Pow2[j - 1])
        /\ Pow2[(j - 1) + 1] = 2 * Pow2[j - 1] /\ Pow2[j - 1] \in Nat /\ Pow2[j - 1] >= 1
        /\ SegmentRoot(s) * Pow2[j - 1] \in Nat
    BY <2>1, RowDoubles, Pow2Values
  <2>3. \A n \in Nat : (2 * n) \div 2 = n
    OBVIOUS
  <2>4. QED
    BY <1>1, <2>1, <2>2, <2>3
<1>3. ASSUME j = 0 PROVE adding[s].length \div 2 = 0
  BY <1>1, <1>3, Pow2Values
<1>4. QED
  BY <1>1, <1>2, <1>3

\* The children of the node that a thread hashes next are right.
LEMMA ChildrenRight ==
  ASSUME TypeOK, NEW s \in Segment, NEW j \in 0 .. log_segment - 1, Hashing(s, j)
  PROVE  LET i == adding[s].i
         IN  /\ i \in Node /\ i \in Nat /\ 2 * i \in Node /\ 2 * i + 1 \in Node
             /\ nodes_[2 * i] = 2 * i /\ nodes_[2 * i + 1] = 2 * i + 1
<1> DEFINE i == adding[s].i
           rp == SegmentRoot(s) * Pow2[j]
<1>1. j \in Nat /\ j \in 0 .. log_segment /\ j + 1 \in 0 .. log_segment /\ SegmentRoot(s) \in Nat
  BY Sizes, SegmentRows, SMTT(30)
<1>2. /\ SegmentRoot(s) * Pow2[j + 1] = 2 * rp /\ rp \in Nat /\ Pow2[j] \in Nat
      /\ Pow2[j + 1] = 2 * Pow2[j]
  BY <1>1, RowDoubles, Pow2Values
<1>3. i \in Row(SegmentRoot(s), j)
  BY DEF Hashing, HashesRow
<1>4. i \in rp .. rp + Pow2[j] - 1
  BY <1>3 DEF Row
<1>5. Row(SegmentRoot(s), j + 1) = 2 * rp .. 2 * rp + 2 * Pow2[j] - 1
  BY <1>2 DEF Row
<1>6. 2 * i \in Row(SegmentRoot(s), j + 1) /\ 2 * i + 1 \in Row(SegmentRoot(s), j + 1)
  <2> HIDE DEF rp, i
  <2>1. QED
    BY <1>2, <1>4, <1>5, SMTT(30)
<1>7. Row(SegmentRoot(s), j) \subseteq Node /\ Row(SegmentRoot(s), j + 1) \subseteq Node
  BY <1>1, SegmentRows
<1>8. Right(Row(SegmentRoot(s), j + 1))
  BY <1>1 DEF Hashing, RightFrom
<1>9. i \in Nat
  BY <1>2, <1>4
<1>10. QED
  BY <1>3, <1>6, <1>7, <1>8, <1>9 DEF Right

\* Each hash of AddData keeps Feeding, within a row and from a row to the one above.
LEMMA AddDataHashStep ==
  ASSUME TypeOK, Feeding, NEW s \in Segment, AddDataHash(s)
  PROVE  Feeding' /\ nodes_' \in [Cell -> Cell \cup {Wrong}]
         /\ adding' \in [Segment -> [cur : Nat, length : Nat, i : Nat, copied : BOOLEAN]]
<1> DEFINE a == adding[s]
           r == SegmentRoot(s)
<1>0. /\ phase = "feed" /\ a.copied /\ a.length > 0
      /\ nodes_' = [nodes_ EXCEPT ![a.i] = Hash(nodes_[2 * a.i], nodes_[2 * a.i + 1])]
      /\ adding' = [adding EXCEPT ![s] =
           IF a.i + 1 < a.cur + a.length THEN [a EXCEPT !.i = a.i + 1] ELSE NextSubLayer(a)]
      /\ height' = height /\ log_segment' = log_segment
  BY DEF AddDataHash
<1>1. adding \in [Segment -> [cur : Nat, length : Nat, i : Nat, copied : BOOLEAN]]
  BY DEF TypeOK
<1>2. a \in [cur : Nat, length : Nat, i : Nat, copied : BOOLEAN] /\ log_segment \in Nat
  BY <1>1, Sizes
<1>3. PICK j \in 0 .. log_segment - 1 : Hashing(s, j)
  BY <1>0, <1>2 DEF Feeding, NotCopied, Added
<1>4. HashesRow(s, j) /\ RightFrom(s, j + 1) /\ Right(a.cur .. a.i - 1)
  BY <1>3 DEF Hashing
<1>5. /\ a.i \in Node /\ a.i \in Nat /\ 2 * a.i \in Node /\ 2 * a.i + 1 \in Node
      /\ nodes_[2 * a.i] = 2 * a.i /\ nodes_[2 * a.i + 1] = 2 * a.i + 1
  BY <1>3, ChildrenRight
<1>6. RightKept /\ nodes_'[a.i] = a.i /\ nodes_' \in [Cell -> Cell \cup {Wrong}]
  BY <1>0, <1>5, HashWrites
<1>7. \A t \in Segment : t # s => adding'[t] = adding[t]
  BY <1>0, <1>1
<1>8. r' = r /\ r \in Nat
  BY <1>0, SegmentRows DEF SegmentRoot
<1>9. /\ a.length = Pow2[j] /\ Pow2[j] \in Nat /\ a.cur = r * Pow2[j] /\ a.cur \in Nat
      /\ j > 0 => /\ a.length \div 2 = Pow2[j - 1] /\ Pow2[j - 1] \in Nat /\ Pow2[j - 1] >= 1
                  /\ a.cur \div 2 = r * Pow2[j - 1] /\ r * Pow2[j - 1] \in Nat
      /\ j = 0 => a.length \div 2 = 0
  BY <1>4, NextRow
<1>10. Row(r, j) = a.cur .. a.cur + a.length - 1
  BY <1>9 DEF Row
<1>11. a.cur <= a.i /\ a.i <= a.cur + a.length - 1
  BY <1>4, <1>5, <1>9, <1>10 DEF HashesRow
<1>12. \A k \in 0 .. log_segment : Row(r, k) \subseteq Node
  BY SegmentRows
<1>13. RightFrom(s, j + 1)'
  <2>1. \A k : Row(r, k)' = Row(r, k)
    BY <1>8 DEF Row
  <2>2. QED
    BY <1>0, <1>4, <1>6, <1>8, <1>12, <2>1 DEF RightFrom, Right, RightKept
<1>14. a.cur .. a.i \subseteq Node /\ \A n \in a.cur .. a.i : nodes_'[n] = n
  <2>1. j \in 0 .. log_segment
    BY <1>2
  <2>2. a.cur .. a.i \subseteq Row(r, j)
    BY <1>5, <1>9, <1>10, <1>11, SMTT(30)
  <2>3. a.cur .. a.i \subseteq Node
    BY <1>12, <2>1, <2>2
  <2>4. ASSUME NEW n \in a.cur .. a.i PROVE nodes_'[n] = n
    <3>1. CASE n = a.i
      BY <1>6, <3>1
    <3>2. CASE n # a.i
      <4>1. n \in a.cur .. a.i - 1
        BY <1>5, <1>9, <2>4, <3>2
      <4>2. QED
        BY <1>4, <1>6, <2>3, <2>4, <4>1 DEF Right, RightKept
    <3>3. QED
      BY <3>1, <3>2
  <2>5. QED
    BY <2>3, <2>4
<1>15. CASE a.i + 1 < a.cur + a.length
  <2>1. adding' = [adding EXCEPT ![s] = [a EXCEPT !.i = a.i + 1]]
    BY <1>0, <1>15
  <2>2. /\ adding' \in [Segment -> [cur : Nat, length : Nat, i : Nat, copied : BOOLEAN]]
        /\ adding'[s].cur = a.cur /\ adding'[s].length = a.length
        /\ adding'[s].i = a.i + 1 /\ adding'[s].copied
    BY <1>0, <1>1, <1>2, <2>1
  <2>3. a.i + 1 \in Row(r, j)
    BY <1>5, <1>9, <1>10, <1>11, <1>15, SMTT(30)
  <2>4. HashesRow(s, j)'
    BY <1>8, <1>9, <2>2, <2>3 DEF HashesRow, Row
  <2>5. adding'[s].i - 1 = a.i
    BY <1>5, <2>2
  <2>6. Right(adding[s].cur .. adding[s].i - 1)'
    BY <1>14, <2>2, <2>5 DEF Right
  <2>7. Hashing(s, j)'
    BY <1>13, <2>2, <2>4, <2>6 DEF Hashing
  <2>8. SegmentFed(s)'
    BY <1>0, <2>7 DEF SegmentFed
  <2>9. QED
    BY <1>0, <1>6, <1>7, <2>2, <2>8, OthersFed
<1>16. CASE ~ (a.i + 1 < a.cur + a.length)
  <2>1. adding' = [adding EXCEPT ![s] = NextSubLayer(a)]
    BY <1>0, <1>16
  <2>2. /\ NextSubLayer(a) \in [cur : Nat, length : Nat, i : Nat, copied : BOOLEAN]
        /\ NextSubLayer(a).cur = a.cur \div 2 /\ NextSubLayer(a).length = a.length \div 2
        /\ NextSubLayer(a).i = a.cur \div 2 /\ NextSubLayer(a).copied = a.copied
        /\ a.cur \div 2 \in Nat /\ a.length \div 2 \in Nat
    <3> HIDE DEF a
    <3>1. a.cur \div 2 \in Nat /\ a.length \div 2 \in Nat
      BY <1>2
    <3>2. \A c, l \in Nat :
            LET e == [a EXCEPT !.cur = c, !.length = l, !.i = c]
            IN  /\ e \in [cur : Nat, length : Nat, i : Nat, copied : BOOLEAN]
                /\ e.cur = c /\ e.length = l /\ e.i = c /\ e.copied = a.copied
      BY <1>2
    <3>3. QED
      BY <3>1, <3>2 DEF NextSubLayer
  <2>3. /\ adding' \in [Segment -> [cur : Nat, length : Nat, i : Nat, copied : BOOLEAN]]
        /\ adding'[s].cur = a.cur \div 2 /\ adding'[s].length = a.length \div 2
        /\ adding'[s].i = a.cur \div 2 /\ adding'[s].copied
    BY <1>0, <1>1, <2>1, <2>2
  <2>4. Row(r, j) \subseteq a.cur .. a.i
    BY <1>5, <1>9, <1>10, <1>11, <1>16, SMTT(30)
  <2>5. \A n \in Row(r, j) : nodes_'[n] = n
    BY <1>14, <2>4
  <2>6. RightFrom(s, j)'
    <3>1. \A k \in 0 .. log_segment : k >= j => k = j \/ k >= j + 1
      BY <1>2
    <3>2. \A k : Row(r, k)' = Row(r, k)
      BY <1>8 DEF Row
    <3>3. QED
      BY <1>0, <1>8, <1>13, <2>5, <3>1, <3>2 DEF RightFrom, Right
  <2>7. CASE j > 0
    <3>1. j - 1 \in 0 .. log_segment - 1 /\ (j - 1) + 1 = j
      BY <1>2, <2>7
    <3>2. r * Pow2[j - 1] \in Row(r, j - 1)
      <4>1. Row(r, j - 1) = a.cur \div 2 .. a.cur \div 2 + Pow2[j - 1] - 1
        BY <1>9, <2>7 DEF Row
      <4>2. Pow2[j - 1] \in Nat /\ Pow2[j - 1] >= 1 /\ a.cur \div 2 = r * Pow2[j - 1]
        BY <1>9, <2>7
      <4>3. a.cur \div 2 \in a.cur \div 2 .. a.cur \div 2 + Pow2[j - 1] - 1
        BY <2>2, <4>2
      <4>4. QED
        BY <4>1, <4>2, <4>3
    <3>3. HashesRow(s, j - 1)'
      BY <1>8, <1>9, <2>3, <2>7, <3>2 DEF HashesRow, Row
    <3>4. Right(adding[s].cur .. adding[s].i - 1)'
      BY <2>2, <2>3 DEF Right
    <3>5. Hashing(s, j - 1)'
      BY <2>3, <2>6, <3>1, <3>3, <3>4 DEF Hashing
    <3>6. SegmentFed(s)'
      BY <1>0, <3>1, <3>5 DEF SegmentFed
    <3>7. QED
      BY <1>0, <1>6, <1>7, <2>3, <3>6, OthersFed
  <2>8. CASE j = 0
    <3>1. Added(s)'
      BY <1>9, <2>3, <2>6, <2>8 DEF Added
    <3>2. SegmentFed(s)'
      BY <3>1 DEF SegmentFed
    <3>3. QED
      BY <1>0, <1>6, <1>7, <2>3, <3>2, OthersFed
  <2>9. QED
    BY <1>2, <2>7, <2>8
<1>17. QED
  BY <1>15, <1>16

-----------------------------------------------------------------------------
\* GetRoot.

\* When every segment has been added, every node from the depth of the segments'
\* roots on is right.
LEMMA AddedRows ==
  ASSUME TypeOK, \A s \in Segment : Added(s),
         NEW n \in Node, n >= Pow2[height - log_segment]
  PROVE  nodes_[n] = n
<1> DEFINE d == height - log_segment
<1>1. /\ height \in Nat /\ log_segment \in Nat /\ d \in Nat /\ d + log_segment = height
      /\ d + log_segment + 1 = height + 1
      /\ Node = 1 .. Pow2[height + 1] - 1 /\ Pow2[height + 1] \in Nat /\ Pow2[d] \in Nat
  <2>1. /\ height \in Nat /\ log_segment \in Nat /\ d \in Nat
        /\ Node = 1 .. Pow2[height + 1] - 1 /\ Pow2[height + 1] \in Nat
    BY Sizes
  <2>2. d + log_segment = height
    BY <2>1
  <2>3. Pow2[d] \in Nat
    BY <2>1, Pow2Values
  <2>4. QED
    BY <2>1, <2>2, <2>3
<1>2. n \in Nat /\ Pow2[d] <= n /\ n < Pow2[d + log_segment + 1]
  BY <1>1
<1>3. PICK k \in 0 .. log_segment : Pow2[d + k] <= n /\ n < Pow2[d + k + 1]
  <2> HIDE DEF d
  <2>1. QED
    BY <1>1, <1>2, LevelOfNode
<1>4. PICK r \in Nat : Pow2[d] <= r /\ r < 2 * Pow2[d] /\ n \in Row(r, k)
  <2> HIDE DEF d
  <2>1. k \in Nat
    BY <1>1
  <2>2. QED
    BY <1>1, <1>2, <1>3, <2>1, RowOfNode
<1>5. r - Pow2[d] \in Segment /\ SegmentRoot(r - Pow2[d]) = r
  BY <1>1, <1>4 DEF Segment, SegmentRoot
<1>6. Right(Row(r, k))
  BY <1>1, <1>3, <1>5 DEF Added, RightFrom
<1>7. QED
  BY <1>4, <1>6 DEF Right

\* When every segment is added, the rows from the segments' roots down are right.
LEMMA GetRootStartStep ==
  ASSUME TypeOK, Feeding, GetRootStart
  PROVE  Rooting' /\ next_root_node' \in Nat
<1>0. /\ phase = "feed" /\ \A s \in Segment : adding[s].copied /\ adding[s].length = 0
      /\ nodes_' = nodes_ /\ height' = height /\ log_segment' = log_segment
  BY DEF GetRootStart, AllAdded
<1>1. PICK min_depth \in height - log_segment .. height : next_root_node' = Pow2[min_depth] - 1
  BY DEF GetRootStart, LastIncompleteNode
<1>2. /\ height \in Nat /\ height - log_segment \in Nat /\ log_segment \in Nat
      /\ k_data_length = Pow2[height] /\ k_data_length \in Nat
  BY Sizes
<1>3. /\ min_depth \in Nat /\ Pow2[min_depth] \in Nat /\ Pow2[min_depth] >= 1
      /\ Pow2[min_depth] <= Pow2[height] /\ Pow2[height - log_segment] <= Pow2[min_depth]
      /\ Pow2[height - log_segment] \in Nat
  BY <1>2, Pow2Grows, Pow2Values
<1>4. ASSUME NEW s \in Segment PROVE Added(s)
  <2>1. SegmentFed(s) /\ adding[s].copied /\ adding[s].length = 0
    BY <1>0 DEF Feeding, SegmentFed
  <2>2. ASSUME NEW j \in 0 .. log_segment - 1, Hashing(s, j) PROVE FALSE
    <3>1. Pow2[j] >= 1 /\ Pow2[j] \in Nat
      BY <1>2, Pow2Values
    <3>2. QED
      BY <2>1, <2>2, <3>1 DEF Hashing, HashesRow
  <2>3. QED
    BY <2>1, <2>2 DEF SegmentFed, NotCopied
<1>5. ASSUME NEW n \in Node, n > next_root_node' PROVE nodes_[n] = n
  <2>1. n \in Nat
    BY <1>2 DEF Node
  <2>2. n >= Pow2[height - log_segment]
    BY <1>1, <1>3, <1>5, <2>1
  <2>3. QED
    BY <1>4, <2>2, AddedRows
<1>6. Node' = Node /\ k_data_length' = k_data_length
  BY <1>0 DEF Node, k_data_length
<1>7. next_root_node' < k_data_length /\ next_root_node' \in Nat
  BY <1>1, <1>2, <1>3
<1>8. QED
  BY <1>0, <1>5, <1>6, <1>7 DEF Rooting

\* Each hash of GetRoot keeps Rooting: all nodes after next_root_node are right.
LEMMA GetRootHashStep ==
  ASSUME TypeOK, Rooting, GetRootHash
  PROVE  Rooting' /\ next_root_node' \in Nat /\ nodes_' \in [Cell -> Cell \cup {Wrong}]
<1> DEFINE i == next_root_node
<1>0. /\ phase = "root" /\ i > 0 /\ next_root_node' = i - 1
      /\ nodes_' = [nodes_ EXCEPT ![i] = Hash(nodes_[2 * i], nodes_[2 * i + 1])]
      /\ height' = height /\ log_segment' = log_segment
  BY DEF GetRootHash
<1>1. i \in Nat /\ i < k_data_length /\ \A n \in Node : n > i => nodes_[n] = n
  BY <1>0 DEF Rooting, TypeOK
<1>2. k_data_length \in Nat
  BY Sizes
<1>3. i \in Node /\ 2 * i \in Node /\ 2 * i + 1 \in Node /\ 2 * i > i /\ 2 * i + 1 > i
  BY <1>0, <1>1, <1>2 DEF Node
<1>4. nodes_[2 * i] = 2 * i /\ nodes_[2 * i + 1] = 2 * i + 1
  BY <1>1, <1>3
<1>5. RightKept /\ nodes_'[i] = i /\ nodes_' \in [Cell -> Cell \cup {Wrong}]
  BY <1>0, <1>3, <1>4, HashWrites
<1>6. \A n \in Node : n > i - 1 => n = i \/ n > i
  BY <1>1, <1>2 DEF Node
<1>7. Node' = Node /\ k_data_length' = k_data_length
  BY <1>0 DEF Node, k_data_length
<1>8. \A n \in Node : n > next_root_node' => nodes_'[n] = n
  BY <1>0, <1>1, <1>5, <1>6 DEF RightKept
<1>9. next_root_node' \in Nat /\ next_root_node' < k_data_length
  BY <1>0, <1>1, <1>2
<1>10. QED
  BY <1>5, <1>7, <1>8, <1>9 DEF Rooting

\* When GetRoot returns, every node is right.
LEMMA GetRootReturnStep ==
  ASSUME TypeOK, Rooting, GetRootReturn
  PROVE  Right(Node)
<1>1. phase = "root" /\ next_root_node = 0 /\ \A n \in Node : n > 0 => nodes_[n] = n
  BY DEF GetRootReturn, Rooting
<1>2. \A n \in Node : n > 0
  BY Sizes DEF Node
<1>3. QED
  BY <1>1, <1>2 DEF Right

-----------------------------------------------------------------------------
\* The paths from the queried leaves to the root.

LEMMA Halves ==
  ASSUME NEW n \in Nat, NEW k \in Nat
  PROVE  /\ n \div Pow2[0] = n /\ n \div Pow2[k] \in Nat
         /\ (n \div Pow2[k]) \div 2 = n \div Pow2[k + 1]
         /\ (n \div Pow2[k]) * Pow2[k] <= n /\ n < (n \div Pow2[k]) * Pow2[k] + Pow2[k]
<1>1. Pow2[0] = 1 /\ Pow2[k] \in Nat /\ Pow2[k] >= 1 /\ Pow2[k + 1] = 2 * Pow2[k]
  BY Pow2Values
<1>2. ASSUME NEW p \in Nat, p >= 1
      PROVE  /\ n \div p \in Nat /\ (n \div p) * p <= n /\ n < (n \div p) * p + p
             /\ (n \div p) \div 2 = n \div (2 * p)
  BY <1>2
<1>3. n \div 1 = n
  OBVIOUS
<1>4. QED
  BY <1>1, <1>2, <1>3

\* The nodes between the leaves of Q and the root; and what of such a set the walks
\* rest on: it is closed upwards, and below the leaves' level every node has a child.
Paths(Q) == {Leaf(q) \div Pow2[k] : q \in Q, k \in 0 .. height}
\* What OnAPath is: every node has its parent in it, and all but the leaves a child.
IsPaths(T) ==
  /\ T \subseteq 1 .. Pow2[height + 1] - 1
  /\ \A m \in T : m >= 2 => m \div 2 \in T
  /\ \A m \in T : m < Pow2[height] => 2 * m \in T \/ 2 * m + 1 \in T

\* The depth of a leaf's ancestor.
LEMMA Ancestor ==
  ASSUME NEW h \in Nat, NEW k \in 0 .. h, NEW n \in Nat, Pow2[h] <= n, n < Pow2[h + 1]
  PROVE  Pow2[h - k] <= n \div Pow2[k] /\ n \div Pow2[k] < 2 * Pow2[h - k]
<1> DEFINE d == h - k
           m == n \div Pow2[k]
<1>1. d \in Nat /\ k \in Nat /\ d + k = h
  OBVIOUS
<1>2. (Pow2[d] + 0) * Pow2[k] = Pow2[d + k] + 0 * Pow2[k]
  <2>1. \A s \in Nat : (Pow2[d] + s) * Pow2[k] = Pow2[d + k] + s * Pow2[k]
    BY <1>1, RowStart, ZenonT(60)
  <2>2. 0 \in Nat
    OBVIOUS
  <2>3. QED
    BY <2>1, <2>2, Zenon
<1>3. /\ Pow2[d] \in Nat /\ Pow2[k] \in Nat /\ Pow2[k] >= 1 /\ Pow2[h + 1] = 2 * Pow2[h]
      /\ Pow2[h] \in Nat
  BY <1>1, Pow2Values
<1>4. Pow2[d] * Pow2[k] = Pow2[h]
  BY <1>1, <1>2, <1>3
<1>5. m \in Nat /\ m * Pow2[k] <= n /\ n < m * Pow2[k] + Pow2[k]
  BY <1>1, Halves
<1> DEFINE a == Pow2[d]
           p == Pow2[k]
<1> HIDE DEF m, d, a, p
<1>6. ASSUME m < a PROVE FALSE
  <2>1. \A x, y, z \in Nat : x < y => x * z + z <= y * z
    OBVIOUS
  <2>2. m * p + p <= a * p
    BY <1>3, <1>5, <1>6, <2>1 DEF a, p
  <2>3. a * p = Pow2[h] /\ m * p \in Nat /\ p \in Nat
    BY <1>3, <1>4, <1>5 DEF a, p
  <2>4. n < m * p + p
    BY <1>5 DEF p
  <2>5. QED
    BY <1>3, <2>2, <2>3, <2>4
<1>7. ASSUME m >= 2 * a PROVE FALSE
  <2>1. \A x, y, z \in Nat : x >= 2 * y => x * z >= 2 * (y * z)
    OBVIOUS
  <2>2. m * p >= 2 * (a * p)
    BY <1>3, <1>5, <1>7, <2>1 DEF a, p
  <2>3. a * p = Pow2[h] /\ m * p \in Nat /\ p \in Nat
    BY <1>3, <1>4, <1>5 DEF a, p
  <2>4. m * p <= n
    BY <1>5 DEF p
  <2>5. QED
    BY <1>3, <2>2, <2>3, <2>4
<1>8. QED
  BY <1>3, <1>5, <1>6, <1>7 DEF a, m, d

\* The nodes on the paths from the queried leaves to the root are such a set.
LEMMA PathsOfQueries ==
  ASSUME TypeOK, NEW Q \in SUBSET (0 .. k_data_length - 1)
  PROVE  /\ IsPaths(Paths(Q))
         /\ \A q \in Q : Leaf(q) \in Paths(Q) /\ Leaf(q) >= Pow2[height]
         /\ \A m \in Paths(Q) : m >= Pow2[height] => \E q \in Q : m = Leaf(q)
<1> DEFINE h == height
<1>1. h \in Nat /\ k_data_length = Pow2[h] /\ Pow2[h] \in Nat /\ Pow2[h + 1] = 2 * Pow2[h] /\ Pow2[h] >= 1
  BY Sizes
<1>2. \A q \in Q : Leaf(q) \in Nat /\ Pow2[h] <= Leaf(q) /\ Leaf(q) < Pow2[h + 1]
  BY <1>1 DEF Leaf
<1> HIDE DEF h
<1>3. ASSUME NEW q \in Q, NEW k \in 0 .. h
      PROVE  LET m == Leaf(q) \div Pow2[k]
             IN  /\ m \in 1 .. Pow2[h + 1] - 1
                 /\ m >= 2 => k + 1 \in 0 .. h /\ m \div 2 = Leaf(q) \div Pow2[k + 1]
                 /\ m < Pow2[h] => /\ k - 1 \in 0 .. h
                                   /\ \/ Leaf(q) \div Pow2[k - 1] = 2 * m
                                      \/ Leaf(q) \div Pow2[k - 1] = 2 * m + 1
                 /\ m >= Pow2[h] => m = Leaf(q)
  <2> DEFINE m == Leaf(q) \div Pow2[k]
  <2>1. k \in Nat /\ h - k \in Nat /\ h - k <= h /\ (k # 0 => h - k < h)
    BY <1>1
  <2>2. /\ m \in Nat /\ Leaf(q) \div Pow2[0] = Leaf(q) /\ m \div 2 = Leaf(q) \div Pow2[k + 1]
    BY <1>2, <2>1, Halves
  <2>3. Pow2[h - k] <= m /\ m < 2 * Pow2[h - k]
    BY <1>1, <1>2, Ancestor
  <2>4. /\ Pow2[h - k] \in Nat /\ Pow2[h - k] >= 1 /\ Pow2[h - k] <= Pow2[h]
        /\ k # 0 => 2 * Pow2[h - k] <= Pow2[h]
    BY <1>1, <2>1, Pow2Grows, Pow2Values
  <2>5. m \in 1 .. Pow2[h + 1] - 1
    BY <1>1, <2>2, <2>3, <2>4
  <2>6. ASSUME m >= 2 PROVE k + 1 \in 0 .. h
    <3>1. k # h
      <4>1. ASSUME k = h PROVE FALSE
        <5>1. h - k = 0 /\ Pow2[0] = 1
          BY <1>1, <4>1, Pow2Values
        <5>2. QED
          BY <2>2, <2>3, <2>6, <5>1
      <4>2. QED
        BY <4>1
    <3>2. QED
      BY <1>1, <2>1, <3>1
  <2>7. ASSUME m < Pow2[h]
        PROVE  /\ k - 1 \in 0 .. h
               /\ Leaf(q) \div Pow2[k - 1] = 2 * m \/ Leaf(q) \div Pow2[k - 1] = 2 * m + 1
    <3>1. k # 0
      BY <1>1, <1>2, <2>2, <2>7
    <3>2. k - 1 \in Nat /\ (k - 1) + 1 = k /\ k - 1 \in 0 .. h
      BY <1>1, <2>1, <3>1
    <3> DEFINE c == Leaf(q) \div Pow2[k - 1]
    <3>3. c \in Nat /\ c \div 2 = Leaf(q) \div Pow2[(k - 1) + 1]
      BY <1>2, <3>2, Halves
    <3>4. c \div 2 = m
      BY <3>2, <3>3
    <3> HIDE DEF c, m
    <3>5. c = 2 * m \/ c = 2 * m + 1
      BY <3>3, <3>4
    <3>6. QED
      BY <3>2, <3>5 DEF c
  <2>8. ASSUME m >= Pow2[h] PROVE m = Leaf(q)
    <3>1. k = 0
      BY <1>1, <2>2, <2>3, <2>4, <2>8
    <3>2. QED
      BY <2>2, <3>1
  <2>9. QED
    BY <2>2, <2>5, <2>6, <2>7, <2>8
<1>4. Paths(Q) = {Leaf(q) \div Pow2[k] : q \in Q, k \in 0 .. h}
  BY DEF Paths, h
<1>5. ASSUME NEW m \in Paths(Q)
      PROVE  /\ m \in 1 .. Pow2[h + 1] - 1
             /\ m >= 2 => m \div 2 \in Paths(Q)
             /\ m < Pow2[h] => 2 * m \in Paths(Q) \/ 2 * m + 1 \in Paths(Q)
             /\ m >= Pow2[h] => \E q \in Q : m = Leaf(q)
  <2>1. PICK q \in Q, k \in 0 .. h : m = Leaf(q) \div Pow2[k]
    BY ONLY <1>4, <1>5
  <2>2. \A l \in 0 .. h : Leaf(q) \div Pow2[l] \in Paths(Q)
    BY <1>4
  <2>3. /\ m \in 1 .. Pow2[h + 1] - 1
        /\ m >= 2 => k + 1 \in 0 .. h /\ m \div 2 = Leaf(q) \div Pow2[k + 1]
        /\ m < Pow2[h] => /\ k - 1 \in 0 .. h
                          /\ \/ Leaf(q) \div Pow2[k - 1] = 2 * m
                             \/ Leaf(q) \div Pow2[k - 1] = 2 * m + 1
        /\ m >= Pow2[h] => m = Leaf(q)
    BY <1>3, <2>1
  <2>4. QED
    BY <2>2, <2>3
<1>6. ASSUME NEW q \in Q PROVE Leaf(q) \in Paths(Q) /\ Leaf(q) >= Pow2[h]
  <2>1. 0 \in 0 .. h /\ Leaf(q) \div Pow2[0] = Leaf(q)
    BY <1>1, <1>2, Halves
  <2>2. Leaf(q) \in Paths(Q)
    BY <1>4, <2>1
  <2>3. QED
    BY <1>1, <1>2, <2>2
<1>7. QED
  BY <1>5, <1>6 DEF IsPaths, h

-----------------------------------------------------------------------------
\* One step of a walk: the head leaves the queue, and its sibling if it is on a
\* path, and their parent joins it.

\* The nodes that a step of the walk at node n takes from the queue.
Gone(T, n) == {n} \cup (IF Sibling(n) \in T THEN {Sibling(n)} ELSE {})

\* A walk that has not come to the root.
Walking(T, q, k) ==
  /\ TypeOK /\ IsPaths(T) /\ q \in Seq(Nat) /\ WalkAt(T, q, k) /\ q[1] # 1

\* The numbers in it.
LEMMA WalkNumbers ==
  ASSUME NEW T, NEW q, NEW k, Walking(T, q, k)
  PROVE  /\ k \in Nat /\ k >= 1 /\ k <= height /\ height \in Nat
         /\ Pow2[k] \in Nat /\ Pow2[k - 1] \in Nat /\ Pow2[k - 1] >= 1 /\ Pow2[k] = 2 * Pow2[k - 1]
         /\ Pow2[k + 1] = 2 * Pow2[k] /\ Pow2[k] <= Pow2[height]
         /\ Len(q) \in Nat /\ Len(q) >= 1 /\ \A i \in 1 .. Len(q) : q[i] \in T /\ q[i] \in Nat
         /\ q[1] \in T /\ q[1] \in Nat /\ Pow2[k] <= q[1] /\ q[1] < Pow2[k + 1] /\ q[1] >= 2
         /\ q[1] \div 2 \in T /\ \A m \in T : m \in Nat /\ m >= 1 /\ m \in 1 .. Pow2[height + 1] - 1
         /\ \A m \in T : m < Pow2[height] => 2 * m \in T \/ 2 * m + 1 \in T
<1>1. /\ TypeOK /\ IsPaths(T) /\ q \in Seq(Nat) /\ q[1] # 1 /\ k \in 0 .. height /\ q # <<>>
      /\ AtLevel(q[1], k) /\ Range(q) = Frontier(T, q[1], k)
  BY DEF Walking, WalkAt
<1>2. height \in Nat /\ Pow2[height + 1] \in Nat
  BY <1>1, Sizes
<1>3. k \in Nat /\ k <= height /\ Pow2[k] \in Nat /\ Pow2[k + 1] = 2 * Pow2[k] /\ Pow2[0] = 1
  <2>1. k \in Nat /\ k <= height
    BY <1>1, <1>2
  <2>2. QED
    BY <2>1, Pow2Values
<1>4. Len(q) \in Nat /\ Len(q) >= 1 /\ DOMAIN q = 1 .. Len(q) /\ \A i \in 1 .. Len(q) : q[i] \in Nat
  BY <1>1
<1>5. \A i \in 1 .. Len(q) : q[i] \in T
  BY <1>1, <1>4 DEF Range, Frontier
<1>6. \A m \in T : m \in Nat /\ m >= 1 /\ m \in 1 .. Pow2[height + 1] - 1
  BY <1>1, <1>2 DEF IsPaths
<1>7. q[1] \in T /\ q[1] \in Nat /\ q[1] >= 2 /\ Pow2[k] <= q[1] /\ q[1] < Pow2[k + 1]
  BY <1>1, <1>4, <1>5, <1>6 DEF AtLevel
<1>8. k # 0
  <2>1. ASSUME k = 0 PROVE FALSE
    <3>1. Pow2[k + 1] = 2
      BY <1>3, <2>1
    <3>2. QED
      BY <1>7, <3>1
  <2>2. QED
    BY <2>1
<1>9. k - 1 \in Nat /\ (k - 1) + 1 = k /\ k >= 1
  BY <1>3, <1>8
<1>10. Pow2[k - 1] \in Nat /\ Pow2[k - 1] >= 1 /\ Pow2[(k - 1) + 1] = 2 * Pow2[k - 1]
  BY <1>9, Pow2Values
<1>11. Pow2[k] <= Pow2[height]
  BY <1>2, <1>3, Pow2Grows
<1>12. q[1] \div 2 \in T
  BY <1>1, <1>7 DEF IsPaths
<1>13. \A m \in T : m < Pow2[height] => 2 * m \in T \/ 2 * m + 1 \in T
  BY <1>1 DEF IsPaths
<1>14. Pow2[k] = 2 * Pow2[k - 1]
  BY <1>9, <1>10
<1>15. QED
  BY <1>2, <1>3, <1>4, <1>5, <1>6, <1>7, <1>9, <1>10, <1>11, <1>12, <1>13, <1>14

\* The sibling of the head is on a path exactly if it is next in the queue.
LEMMA SiblingIsNext ==
  ASSUME NEW T, NEW q, NEW k, Walking(T, q, k)
  PROVE  /\ Sibling(q[1]) \in T <=> Len(q) >= 2 /\ q[2] = Sibling(q[1])
         /\ Sibling(q[1]) \in T => q[1] % 2 = 0 /\ Sibling(q[1]) = q[1] + 1
         /\ Sibling(q[1]) # q[1] \div 2 /\ Sibling(q[1]) \in Nat /\ Sibling(q[1]) # q[1]
<1> DEFINE n == q[1]
<1>1. /\ k \in Nat /\ Pow2[k] \in Nat /\ Pow2[k + 1] = 2 * Pow2[k]
      /\ Len(q) \in Nat /\ Len(q) >= 1 /\ \A i \in 1 .. Len(q) : q[i] \in T /\ q[i] \in Nat
      /\ n \in T /\ n \in Nat /\ Pow2[k] <= n /\ n < Pow2[k + 1] /\ n >= 2
  BY WalkNumbers
<1>2. n % 2 = 1 => n - 1 \notin T
  BY DEF Walking, WalkAt
<1>3. /\ q \in Seq(Nat) /\ Range(q) = Frontier(T, n, k)
      /\ \A i, j \in 1 .. Len(q) : i < j => Key(q[i], k) < Key(q[j], k)
  BY DEF Walking, WalkAt, InKeyOrder
<1> HIDE DEF n
<1>4. n % 2 = 0 \/ n % 2 = 1
  BY <1>1
<1>5. /\ Sibling(n) \in T => n % 2 = 0 /\ Sibling(n) = n + 1
      /\ Sibling(n) # n \div 2 /\ Sibling(n) \in Nat /\ Sibling(n) # n
  BY <1>1, <1>2, <1>4 DEF Sibling
<1>6. ASSUME Sibling(n) \in T PROVE Len(q) >= 2 /\ q[2] = Sibling(n)
  <2>1. n % 2 = 0 /\ Sibling(n) = n + 1 /\ n + 1 \in T
    BY <1>5, <1>6
  <2>2. n + 1 < Pow2[k + 1]
    <3>1. n % 2 = 0 /\ n \in Nat /\ n < Pow2[k + 1] /\ Pow2[k + 1] = 2 * Pow2[k] /\ Pow2[k] \in Nat
      BY <1>1, <2>1
    <3>2. \A p \in Nat : n < 2 * p => n + 1 < 2 * p
      BY ONLY <3>1
    <3>3. QED
      BY <3>1, <3>2
  <2>3. n + 1 \in Range(q)
    BY <1>1, <1>3, <2>1, <2>2 DEF Frontier
  <2>4. PICK i \in 1 .. Len(q) : q[i] = n + 1
    BY <1>3, <2>3 DEF Range
  <2>5. i # 1
    BY <1>1, <2>4 DEF n
  <2>6. Key(n, k) = n /\ Key(n + 1, k) = n + 1
    BY <1>1 DEF Key
  <2>7. ASSUME i > 2 PROVE FALSE
    <3>1. 1 \in 1 .. Len(q) /\ 2 \in 1 .. Len(q)
      BY <1>1, <2>7
    <3>2. Key(q[1], k) < Key(q[2], k) /\ Key(q[2], k) < Key(q[i], k)
      BY <1>3, <2>7, <3>1
    <3>3. Key(q[2], k) \in Nat
      BY <1>1, <3>1 DEF Key
    <3>4. QED
      BY <1>1, <2>4, <2>6, <3>2, <3>3 DEF n
  <2>8. i = 2
    BY <1>1, <2>5, <2>7
  <2>9. QED
    BY <1>1, <2>1, <2>4, <2>8
<1>7. ASSUME Len(q) >= 2, q[2] = Sibling(n) PROVE Sibling(n) \in T
  <2>1. 2 \in 1 .. Len(q)
    BY <1>1, <1>7
  <2>2. QED
    BY <1>1, <1>7, <2>1
<1>8. QED
  BY <1>5, <1>6, <1>7 DEF n

\* What is in the queue after the step.
Member(T, n, k, x) ==
  \/ x \in T /\ n < x /\ x < Pow2[k + 1] /\ x \notin Gone(T, n)
  \/ x \in T /\ Pow2[k] <= 2 * x /\ x < n \div 2
  \/ x = n \div 2

\* The queue after the step: the head gone, with its sibling if that is queued, and the
\* parent put last.
Stepped(T, q, q2) ==
  LET d == IF Sibling(q[1]) \in T THEN 2 ELSE 1
  IN  /\ q2 \in Seq(Nat) /\ Len(q2) = Len(q) - d + 1
      /\ \A i \in 1 .. Len(q) - d : q2[i] = q[i + d]
      /\ q2[Len(q) - d + 1] = q[1] \div 2

\* The stepped queue holds the members of the frontier that follow, in order.
LEMMA SteppedQueue ==
  ASSUME NEW T, NEW q, NEW k, Walking(T, q, k), NEW q2, Stepped(T, q, q2)
  PROVE  /\ Len(q2) \in Nat /\ Len(q2) >= 1 /\ Range(q2) = {x \in T : Member(T, q[1], k, x)}
         /\ q2[1] \in Range(q2) /\ InKeyOrder(q2, k)
         /\ \A x \in Range(q2) : Key(q2[1], k) <= Key(x, k)
<1> DEFINE n == q[1]
           d == IF Sibling(n) \in T THEN 2 ELSE 1
           l == Len(q) - d
<1>1. /\ k \in Nat /\ k >= 1 /\ Pow2[k] \in Nat /\ Pow2[k + 1] = 2 * Pow2[k]
      /\ Len(q) \in Nat /\ Len(q) >= 1 /\ \A i \in 1 .. Len(q) : q[i] \in T /\ q[i] \in Nat
      /\ n \in T /\ n \in Nat /\ Pow2[k] <= n /\ n < Pow2[k + 1] /\ n >= 2
      /\ n \div 2 \in T /\ \A m \in T : m \in Nat /\ m >= 1
  BY WalkNumbers
<1>2. /\ Sibling(n) \in T <=> Len(q) >= 2 /\ q[2] = Sibling(n)
      /\ Sibling(n) \in T => n % 2 = 0 /\ Sibling(n) = n + 1
      /\ Sibling(n) \in Nat
  BY SiblingIsNext
<1>3. /\ q \in Seq(Nat) /\ Range(q) = Frontier(T, n, k) /\ DOMAIN q = 1 .. Len(q)
      /\ \A i, j \in 1 .. Len(q) : i < j => Key(q[i], k) < Key(q[j], k)
  BY DEF Walking, WalkAt, InKeyOrder
<1>4. /\ q2 \in Seq(Nat) /\ Len(q2) = l + 1 /\ \A i \in 1 .. l : q2[i] = q[i + d]
      /\ q2[l + 1] = n \div 2 /\ DOMAIN q2 = 1 .. l + 1
  BY DEF Stepped
<1>5. d \in 1 .. 2 /\ l \in Nat /\ l + d = Len(q)
  BY <1>1, <1>2
<1>6. Gone(T, n) = {q[i] : i \in 1 .. d}
  <2>1. CASE Sibling(n) \in T
    <3>1. d = 2 /\ 1 .. d = {1, 2} /\ q[2] = Sibling(n)
      BY <1>2, <2>1
    <3>2. QED
      BY <2>1, <3>1 DEF Gone
  <2>2. CASE Sibling(n) \notin T
    <3>1. d = 1 /\ 1 .. d = {1}
      BY <2>2
    <3>2. QED
      BY <2>2, <3>1 DEF Gone
  <2>3. QED
    BY <2>1, <2>2
<1> DEFINE p == Pow2[k]
<1>7. \A x \in Range(q) : \/ x \in T /\ n <= x /\ x < 2 * p /\ Key(x, k) = x
                          \/ x \in T /\ p <= 2 * x /\ x < n \div 2 /\ x < p /\ Key(x, k) = x + 2 * p
  <2> SUFFICES ASSUME NEW x \in Range(q)
               PROVE  \/ x \in T /\ n <= x /\ x < 2 * p /\ Key(x, k) = x
                      \/ x \in T /\ p <= 2 * x /\ x < n \div 2 /\ x < p /\ Key(x, k) = x + 2 * p
    OBVIOUS
  <2>1. x \in T /\ x \in Nat /\ ((n <= x /\ x < Pow2[k + 1]) \/ (Pow2[k] <= 2 * x /\ x < n \div 2))
    BY <1>1, <1>3 DEF Frontier
  <2>2. QED
    BY <1>1, <2>1 DEF Key
<1>8. n \div 2 \in Nat /\ n \div 2 < p /\ Key(n \div 2, k) = n \div 2 + 2 * p
  BY <1>1 DEF Key
<1> HIDE DEF n, d, l, p
<1>9. \A i \in 1 .. l : i + d \in 1 .. Len(q) /\ q2[i] \in Range(q) /\ q2[i] \notin Gone(T, n)
  <2> SUFFICES ASSUME NEW i \in 1 .. l
               PROVE  i + d \in 1 .. Len(q) /\ q2[i] \in Range(q) /\ q2[i] \notin Gone(T, n)
    OBVIOUS
  <2>1. i + d \in 1 .. Len(q) /\ q2[i] = q[i + d]
    BY <1>1, <1>4, <1>5, SMTT(30)
  <2>2. ASSUME NEW j \in 1 .. d PROVE q[j] # q[i + d]
    <3>1. j \in 1 .. Len(q) /\ j < i + d
      BY <1>5, <2>1
    <3>2. Key(q[j], k) < Key(q[i + d], k)
      BY <1>3, <2>1, <3>1
    <3>3. Key(q[i + d], k) \in Nat
      BY <1>1, <2>1 DEF Key
    <3>4. QED
      BY <3>2, <3>3
  <2>3. QED
    BY <1>3, <1>6, <2>1, <2>2 DEF Range
<1>10. InKeyOrder(q2, k)
  <2> SUFFICES ASSUME NEW i \in 1 .. l + 1, NEW j \in 1 .. l + 1, i < j
               PROVE  Key(q2[i], k) < Key(q2[j], k)
    BY <1>4 DEF InKeyOrder
  <2>1. i \in 1 .. l
    BY <1>5
  <2>2. CASE j \in 1 .. l
    <3>1. i + d \in 1 .. Len(q) /\ j + d \in 1 .. Len(q) /\ i + d < j + d
      BY <1>5, <1>9, <2>1, <2>2
    <3>2. q2[i] = q[i + d] /\ q2[j] = q[j + d]
      BY <1>4, <2>1, <2>2
    <3>3. QED
      BY <1>3, <3>1, <3>2
  <2>3. CASE j = l + 1
    <3>1. q2[i] \in Range(q) /\ q2[j] = n \div 2
      BY <1>4, <1>9, <2>1, <2>3
    <3>2. Key(q2[i], k) < n \div 2 + 2 * p
      <4>1. p \in Nat /\ n \div 2 \in Nat
        BY <1>1, <1>8 DEF p
      <4>2. q2[i] \in T /\ q2[i] \in Nat
        BY <1>1, <1>7, <3>1
      <4>3. QED
        BY <1>7, <3>1, <4>1, <4>2
    <3>3. QED
      BY <1>8, <3>1, <3>2
  <2>4. QED
    BY <1>5, <2>2, <2>3
<1>11. \A x \in Range(q) : x \notin Gone(T, n) => \E i \in 1 .. l : q2[i] = x
  <2> SUFFICES ASSUME NEW x \in Range(q), x \notin Gone(T, n) PROVE \E i \in 1 .. l : q2[i] = x
    OBVIOUS
  <2>1. PICK i \in 1 .. Len(q) : q[i] = x
    BY <1>3 DEF Range
  <2>2. i \notin 1 .. d
    BY <1>6, <2>1
  <2>3. i - d \in 1 .. l /\ (i - d) + d = i
    BY <1>1, <1>5, <2>2
  <2>4. q2[i - d] = q[(i - d) + d]
    BY <1>4, <2>3
  <2>5. QED
    BY <2>1, <2>3, <2>4
<1>12. \A x : x \in Range(q2) <=> x \in T /\ Member(T, n, k, x)
  <2> SUFFICES ASSUME NEW x PROVE x \in Range(q2) <=> x \in T /\ Member(T, n, k, x)
    OBVIOUS
  <2>1. x \in Range(q2) <=> x = n \div 2 \/ (x \in Range(q) /\ x \notin Gone(T, n))
    <3>1. x \in Range(q2) <=> \E i \in 1 .. l + 1 : q2[i] = x
      BY <1>4 DEF Range
    <3>2. (\E i \in 1 .. l + 1 : q2[i] = x) <=> x = n \div 2 \/ \E i \in 1 .. l : q2[i] = x
      <4>1. 1 .. l + 1 = 1 .. l \cup {l + 1}
        BY <1>5
      <4>2. QED
        BY <1>4, <4>1
    <3>3. (\E i \in 1 .. l : q2[i] = x) <=> x \in Range(q) /\ x \notin Gone(T, n)
      BY <1>9, <1>11
    <3>4. QED
      BY <3>1, <3>2, <3>3
  <2>2. x \in Range(q) <=> x \in T /\ ((n <= x /\ x < Pow2[k + 1]) \/ (Pow2[k] <= 2 * x /\ x < n \div 2))
    BY <1>3 DEF Frontier
  <2>3. n \in Gone(T, n) /\ \A y \in Gone(T, n) : y >= n /\ y \in Nat
    <3>1. Sibling(n) \in T => Sibling(n) >= n /\ Sibling(n) \in Nat
      BY <1>1, <1>2 DEF n
    <3>2. n >= n /\ n \in Nat
      BY <1>1 DEF n
    <3>3. QED
      BY <3>1, <3>2 DEF Gone
  <2>4. n \in Nat /\ n >= 2 /\ n \div 2 \in T /\ n \div 2 \in Nat /\ (x \in T => x \in Nat)
    BY <1>1 DEF n
  <2>5. x \in T /\ x < n \div 2 => x \notin Gone(T, n)
    <3>1. n \div 2 < n
      BY <2>4
    <3>2. QED
      BY <2>3, <2>4, <3>1
  <2>6. x \in T /\ n <= x /\ x \notin Gone(T, n) => n < x
    BY <2>3, <2>4
  <2>7. x \in T /\ n < x => n <= x
    BY <2>4
  <2>8. QED
    BY <2>1, <2>2, <2>4, <2>5, <2>6, <2>7 DEF Member
<1>13. 1 \in 1 .. l + 1 /\ Len(q2) \in Nat /\ Len(q2) >= 1 /\ q2[1] \in Range(q2)
  BY <1>4, <1>5 DEF Range
<1>14. ASSUME NEW x \in Range(q2) PROVE Key(q2[1], k) <= Key(x, k)
  <2>1. PICK i \in 1 .. l + 1 : q2[i] = x
    BY <1>4 DEF Range
  <2>2. Key(q2[1], k) \in Nat
    <3>1. q2[1] \in Nat
      BY <1>4, <1>13
    <3>2. QED
      BY <1>1, <3>1 DEF Key
  <2>3. CASE i = 1
    BY <2>1, <2>2, <2>3
  <2>4. CASE i # 1
    <3>1. 1 < i
      BY <1>5, <2>4
    <3>2. Key(q2[1], k) < Key(q2[i], k)
      BY <1>4, <1>10, <1>13, <3>1 DEF InKeyOrder
    <3>3. Key(x, k) \in Nat
      <4>1. x \in Nat
        BY <1>4, <2>1
      <4>2. QED
        BY <1>1, <4>1 DEF Key
    <3>4. QED
      BY <2>1, <2>2, <3>2, <3>3
  <2>5. QED
    BY <2>3, <2>4
<1>15. QED
  BY <1>10, <1>12, <1>13, <1>14 DEF n

\* The facts of the cases below, for a walk's head n and the next head m.
StepFacts(T, n, k, m) ==
  /\ k \in Nat /\ k >= 1 /\ k <= height /\ height \in Nat
  /\ Pow2[k] \in Nat /\ Pow2[k - 1] \in Nat /\ Pow2[k - 1] >= 1 /\ Pow2[k] = 2 * Pow2[k - 1]
  /\ Pow2[k + 1] = 2 * Pow2[k] /\ Pow2[k] <= Pow2[height] /\ Pow2[height] \in Nat
  /\ n \in T /\ n \in Nat /\ Pow2[k] <= n /\ n < Pow2[k + 1] /\ n >= 2 /\ n \div 2 \in T
  /\ \A x \in T : x \in Nat /\ x >= 1
  /\ \A x \in T : x < Pow2[height] => 2 * x \in T \/ 2 * x + 1 \in T
  /\ Sibling(n) \in T => n % 2 = 0 /\ Sibling(n) = n + 1
  /\ n % 2 = 0 => Sibling(n) = n + 1
  /\ m \in T /\ m \in Nat /\ Member(T, n, k, m)
  /\ \A x \in T : Member(T, n, k, x) => Key(m, k) <= Key(x, k)

\* What the step leaves, for the two lemmas that follow.
LEMMA FactsOfStep ==
  ASSUME NEW T, NEW q, NEW k, Walking(T, q, k), NEW q2, Stepped(T, q, q2)
  PROVE  StepFacts(T, q[1], k, q2[1])
<1>1. /\ k \in Nat /\ k >= 1 /\ k <= height /\ height \in Nat
      /\ Pow2[k] \in Nat /\ Pow2[k - 1] \in Nat /\ Pow2[k - 1] >= 1 /\ Pow2[k] = 2 * Pow2[k - 1]
      /\ Pow2[k + 1] = 2 * Pow2[k] /\ Pow2[k] <= Pow2[height]
      /\ q[1] \in T /\ q[1] \in Nat /\ Pow2[k] <= q[1] /\ q[1] < Pow2[k + 1] /\ q[1] >= 2
      /\ q[1] \div 2 \in T /\ \A x \in T : x \in Nat /\ x >= 1
      /\ \A x \in T : x < Pow2[height] => 2 * x \in T \/ 2 * x + 1 \in T
  BY WalkNumbers
<1>2. Pow2[height] \in Nat
  BY <1>1, Pow2Values
<1>3. Sibling(q[1]) \in T => q[1] % 2 = 0 /\ Sibling(q[1]) = q[1] + 1
  BY SiblingIsNext
<1>4. q[1] % 2 = 0 => Sibling(q[1]) = q[1] + 1
  BY DEF Sibling
<1>5. /\ Range(q2) = {x \in T : Member(T, q[1], k, x)} /\ q2[1] \in Range(q2)
      /\ \A x \in Range(q2) : Key(q2[1], k) <= Key(x, k)
  BY SteppedQueue
<1>6. /\ q2[1] \in T /\ Member(T, q[1], k, q2[1])
      /\ \A x \in T : Member(T, q[1], k, x) => Key(q2[1], k) <= Key(x, k)
  BY <1>5
<1>7. q2[1] \in Nat
  BY <1>1, <1>6
<1>8. QED
  BY <1>1, <1>2, <1>3, <1>4, <1>6, <1>7 DEF StepFacts

\* The nodes that are gone are the head, and the node on its right if the head is even.
LEMMA GoneNodes ==
  ASSUME NEW T, NEW n, NEW k, NEW m, StepFacts(T, n, k, m)
  PROVE  /\ \A x : x \in Gone(T, n) <=> x = n \/ (x = n + 1 /\ n % 2 = 0 /\ n + 1 \in T)
         /\ \A x \in Gone(T, n) : x \in T /\ x \in Nat /\ Pow2[k] <= x /\ x < Pow2[k + 1]
                                  /\ x \div 2 = n \div 2
<1>1. /\ n \in T /\ n \in Nat /\ Pow2[k] <= n /\ n < Pow2[k + 1] /\ Pow2[k + 1] = 2 * Pow2[k]
      /\ Pow2[k] \in Nat
      /\ Sibling(n) \in T => n % 2 = 0 /\ Sibling(n) = n + 1
      /\ n % 2 = 0 => Sibling(n) = n + 1
  BY DEF StepFacts
<1>2. \A x : x \in Gone(T, n) <=> x = n \/ (x = n + 1 /\ n % 2 = 0 /\ n + 1 \in T)
  BY <1>1 DEF Gone
<1>3. ASSUME n % 2 = 0 PROVE n + 1 < Pow2[k + 1] /\ (n + 1) \div 2 = n \div 2
  <2>1. \A p \in Nat : n < 2 * p => n + 1 < 2 * p
    BY ONLY <1>1, <1>3
  <2>2. (n + 1) \div 2 = n \div 2
    BY <1>1, <1>3
  <2>3. QED
    BY <1>1, <2>1, <2>2
<1>4. QED
  BY <1>1, <1>2, <1>3

\* The next head is on the same level: no node of a path is between the two.
LEMMA SameLevel ==
  ASSUME NEW T, NEW n, NEW k, NEW m, StepFacts(T, n, k, m), m >= Pow2[k]
  PROVE  /\ n < m /\ m < Pow2[k + 1] /\ m \notin Gone(T, n) /\ n \div 2 < m \div 2
         /\ \A x \in T : Pow2[k] <= x /\ x < m => x < n \/ x \in Gone(T, n)
         /\ \A x \in Gone(T, n) : x < m
<1>1. /\ Pow2[k] \in Nat /\ Pow2[k + 1] = 2 * Pow2[k]
      /\ n \in T /\ n \in Nat /\ Pow2[k] <= n /\ n < Pow2[k + 1] /\ n \div 2 \in T
      /\ \A x \in T : x \in Nat
      /\ m \in T /\ m \in Nat /\ Member(T, n, k, m)
      /\ \A x \in T : Member(T, n, k, x) => Key(m, k) <= Key(x, k)
  BY DEF StepFacts
<1>2. /\ \A x : x \in Gone(T, n) <=> x = n \/ (x = n + 1 /\ n % 2 = 0 /\ n + 1 \in T)
  BY GoneNodes
<1>3. n \div 2 < Pow2[k]
  BY <1>1
<1>4. n < m /\ m < Pow2[k + 1] /\ m \notin Gone(T, n)
  BY <1>1, <1>3 DEF Member
<1>5. n % 2 = 0 => m # n + 1
  BY <1>1, <1>2, <1>4
<1>6. n % 2 = 0 \/ n % 2 = 1
  BY <1>1
<1>7. n \div 2 < m \div 2
  BY ONLY <1>1, <1>4, <1>5, <1>6
<1>8. ASSUME NEW x \in T, Pow2[k] <= x, x < m, ~ (x < n), x \notin Gone(T, n) PROVE FALSE
  <2>1. x \in Nat /\ n < x /\ x < Pow2[k + 1]
    BY <1>1, <1>2, <1>4, <1>8
  <2>2. Member(T, n, k, x)
    BY <1>8, <2>1 DEF Member
  <2>3. Key(m, k) <= Key(x, k) /\ Key(m, k) = m /\ Key(x, k) = x
    BY <1>1, <1>8, <2>2 DEF Key
  <2>4. QED
    BY <1>1, <1>8, <2>1, <2>3
<1>9. \A x \in Gone(T, n) : x < m
  BY <1>1, <1>2, <1>4, <1>5
<1>10. QED
  BY <1>4, <1>7, <1>8, <1>9

\* When the next head is on the same level, the queue is the frontier at that head.
LEMMA SameLevelFrontier ==
  ASSUME NEW T, NEW n, NEW k, NEW m, StepFacts(T, n, k, m), m >= Pow2[k]
  PROVE  /\ \A x \in T : Member(T, n, k, x) <=>
              (m <= x /\ x < Pow2[k + 1]) \/ (Pow2[k] <= 2 * x /\ x < m \div 2)
         /\ m % 2 = 1 => m - 1 \notin T
         /\ Passed(T, m, k) = Passed(T, n, k) \cup Gone(T, n)
<1>1. /\ Pow2[k] \in Nat /\ Pow2[k - 1] \in Nat /\ Pow2[k] = 2 * Pow2[k - 1]
      /\ Pow2[k + 1] = 2 * Pow2[k] /\ Pow2[k] <= Pow2[height] /\ Pow2[height] \in Nat
      /\ n \in T /\ n \in Nat /\ Pow2[k] <= n /\ n < Pow2[k + 1] /\ n >= 2 /\ n \div 2 \in T
      /\ \A x \in T : x \in Nat
      /\ \A x \in T : x < Pow2[height] => 2 * x \in T \/ 2 * x + 1 \in T
      /\ m \in T /\ m \in Nat
      /\ \A x \in T : Member(T, n, k, x) => Key(m, k) <= Key(x, k)
  BY DEF StepFacts
<1>2. /\ \A x : x \in Gone(T, n) <=> x = n \/ (x = n + 1 /\ n % 2 = 0 /\ n + 1 \in T)
      /\ \A x \in Gone(T, n) : x \in T /\ x \in Nat /\ Pow2[k] <= x /\ x < Pow2[k + 1]
                               /\ x \div 2 = n \div 2
  BY GoneNodes
<1>3. /\ n < m /\ m < Pow2[k + 1] /\ m \notin Gone(T, n) /\ n \div 2 < m \div 2
      /\ \A x \in T : Pow2[k] <= x /\ x < m => x < n \/ x \in Gone(T, n)
      /\ \A x \in Gone(T, n) : x < m
  BY SameLevel
<1>4. n \div 2 \in Nat /\ m \div 2 \in Nat /\ n \div 2 < Pow2[k] /\ m \div 2 < Pow2[k]
      /\ Pow2[k] <= 2 * (n \div 2)
  <2>1. \A p, r \in Nat : p = 2 * r /\ p <= n => p <= 2 * (n \div 2)
    BY ONLY <1>1
  <2>2. QED
    BY <1>1, <1>3, <2>1
<1>5. ASSUME NEW x \in T, Member(T, n, k, x)
      PROVE  (m <= x /\ x < Pow2[k + 1]) \/ (Pow2[k] <= 2 * x /\ x < m \div 2)
  <2>1. x \in Nat /\ Key(m, k) <= Key(x, k) /\ Key(m, k) = m
    BY <1>1, <1>5 DEF Key
  <2>2. CASE n < x /\ x < Pow2[k + 1]
    <3>1. Key(x, k) = x
      BY <1>1, <2>1, <2>2 DEF Key
    <3>2. QED
      BY <2>1, <2>2, <3>1
  <2>3. CASE (Pow2[k] <= 2 * x /\ x < n \div 2) \/ x = n \div 2
    BY <1>3, <1>4, <2>1, <2>3
  <2>4. QED
    BY <1>5, <2>2, <2>3 DEF Member
<1>6. ASSUME NEW x \in T, m <= x, x < Pow2[k + 1] PROVE Member(T, n, k, x)
  <2>1. x \in Nat /\ n < x /\ x \notin Gone(T, n)
    BY <1>1, <1>2, <1>3, <1>6
  <2>2. QED
    BY <1>6, <2>1 DEF Member
<1>7. ASSUME NEW x \in T, Pow2[k] <= 2 * x, x < m \div 2 PROVE Member(T, n, k, x)
  <2>1. x \in Nat /\ x < Pow2[height]
    BY <1>1, <1>4, <1>7
  <2>2. PICK c \in T : c = 2 * x \/ c = 2 * x + 1
    BY <1>1, <2>1
  <2>3. c \in Nat /\ Pow2[k] <= c /\ c < m /\ c \div 2 = x
    BY <1>1, <1>7, <2>1, <2>2
  <2>4. c < n \/ c \in Gone(T, n)
    BY <1>3, <2>3
  <2>5. x <= n \div 2
    BY <1>1, <1>2, <2>1, <2>2, <2>3, <2>4
  <2>6. QED
    BY <1>4, <1>7, <2>1, <2>5 DEF Member
<1>8. ASSUME m % 2 = 1, m - 1 \in T PROVE FALSE
  <2>1. Pow2[k] <= m - 1 /\ m - 1 < m /\ m - 1 \in Nat /\ ~ (m - 1 < n)
    <3>1. \A p, r \in Nat : p = 2 * r /\ p <= m => p <= m - 1
      BY ONLY <1>1, <1>8
    <3>2. QED
      BY <1>1, <1>3, <3>1
  <2>2. m - 1 \in Gone(T, n)
    BY <1>3, <1>8, <2>1
  <2>3. (m - 1 = n /\ n % 2 = 0) \/ (m - 1 = n + 1 /\ n % 2 = 0)
    <3>1. m - 1 = n => n % 2 = 0
      BY ONLY <1>1, <1>8
    <3>2. QED
      BY <1>2, <2>2, <3>1
  <2>4. m - 1 = n /\ n % 2 = 0
    BY ONLY <1>1, <1>8, <2>3
  <2>5. m = n + 1 /\ n \div 2 = m \div 2
    BY ONLY <1>1, <2>4
  <2>6. QED
    BY <1>3, <1>4, <2>5
<1>9. \A x \in T : (x >= Pow2[k + 1] \/ (Pow2[k] <= x /\ x < m)) <=>
                   (x >= Pow2[k + 1] \/ (Pow2[k] <= x /\ x < n)) \/ x \in Gone(T, n)
  BY <1>1, <1>2, <1>3
<1>10. Gone(T, n) \subseteq T
  BY <1>2
<1>11. Passed(T, m, k) = Passed(T, n, k) \cup Gone(T, n)
  BY <1>9, <1>10 DEF Passed
<1>12. QED
  BY <1>5, <1>6, <1>7, <1>8, <1>11

\* The next head is on the level above: all the paths' nodes of this level are gone.
LEMMA UpperLevelFrontier ==
  ASSUME NEW T, NEW n, NEW k, NEW m, StepFacts(T, n, k, m), m < Pow2[k]
  PROVE  /\ Pow2[k - 1] <= m
         /\ \A x \in T : Member(T, n, k, x) => Pow2[k - 1] <= x /\ x < Pow2[k]
         /\ \A x \in T : Member(T, n, k, x) <=>
              (m <= x /\ x < Pow2[k]) \/ (Pow2[k - 1] <= 2 * x /\ x < m \div 2)
         /\ m % 2 = 1 => m - 1 \notin T
         /\ Passed(T, m, k - 1) = Passed(T, n, k) \cup Gone(T, n)
<1>1. /\ Pow2[k] \in Nat /\ Pow2[k - 1] \in Nat /\ Pow2[k] = 2 * Pow2[k - 1] /\ Pow2[k - 1] >= 1
      /\ Pow2[k + 1] = 2 * Pow2[k] /\ Pow2[k] <= Pow2[height] /\ Pow2[height] \in Nat
      /\ n \in T /\ n \in Nat /\ Pow2[k] <= n /\ n < Pow2[k + 1] /\ n >= 2 /\ n \div 2 \in T
      /\ \A x \in T : x \in Nat /\ x >= 1
      /\ \A x \in T : x < Pow2[height] => 2 * x \in T \/ 2 * x + 1 \in T
      /\ m \in T /\ m \in Nat /\ Member(T, n, k, m) /\ k \in Nat /\ k >= 1 /\ k <= height
      /\ height \in Nat
      /\ \A x \in T : Member(T, n, k, x) => Key(m, k) <= Key(x, k)
  BY DEF StepFacts
<1>2. /\ \A x : x \in Gone(T, n) <=> x = n \/ (x = n + 1 /\ n % 2 = 0 /\ n + 1 \in T)
      /\ \A x \in Gone(T, n) : x \in T /\ x \in Nat /\ Pow2[k] <= x /\ x < Pow2[k + 1]
                               /\ x \div 2 = n \div 2
  BY GoneNodes
<1>3. Key(m, k) = m + Pow2[k + 1]
  BY <1>1 DEF Key
<1>4. n \div 2 \in Nat /\ n \div 2 < Pow2[k] /\ Pow2[k] <= 2 * (n \div 2)
  <2>1. \A p, r \in Nat : p = 2 * r /\ p <= n => p <= 2 * (n \div 2)
    BY ONLY <1>1
  <2>2. QED
    BY <1>1, <2>1
<1>5. ASSUME NEW x \in T, Member(T, n, k, x) PROVE Pow2[k - 1] <= x /\ x < Pow2[k] /\ m <= x
  <2>1. x \in Nat /\ m + Pow2[k + 1] <= Key(x, k)
    BY <1>1, <1>3, <1>5
  <2>2. ~ (n < x /\ x < Pow2[k + 1])
    <3>1. ASSUME n < x, x < Pow2[k + 1] PROVE FALSE
      <4>1. Key(x, k) = x
        BY <1>1, <2>1, <3>1 DEF Key
      <4>2. QED
        BY <1>1, <2>1, <3>1, <4>1
    <3>2. QED
      BY <3>1
  <2>3. (Pow2[k] <= 2 * x /\ x < n \div 2) \/ x = n \div 2
    BY <1>5, <2>2 DEF Member
  <2>4. Pow2[k] <= 2 * x /\ x < Pow2[k]
    <3>1. \A y, p \in Nat : /\ n \div 2 < p /\ p <= 2 * (n \div 2)
                            /\ (p <= 2 * y /\ y < n \div 2) \/ y = n \div 2
                            => p <= 2 * y /\ y < p
      BY ONLY <1>1, <1>4
    <3>2. QED
      BY <1>1, <1>4, <2>1, <2>3, <3>1, Zenon
  <2>5. Key(x, k) = x + Pow2[k + 1]
    BY <1>1, <2>1, <2>4 DEF Key
  <2>6. m <= x
    BY <1>1, <2>1, <2>5
  <2>7. Pow2[k - 1] <= x
    BY <1>1, <2>1, <2>4
  <2>8. QED
    BY <2>4, <2>6, <2>7
<1>6. ASSUME NEW x \in T, Pow2[k] <= x, x < Pow2[k + 1] PROVE x < n \/ x \in Gone(T, n)
  <2>1. SUFFICES ASSUME ~ (x < n), x \notin Gone(T, n) PROVE FALSE
    OBVIOUS
  <2>2. x \in Nat /\ n < x
    BY <1>1, <1>2, <2>1
  <2>3. Member(T, n, k, x)
    BY <1>6, <2>1, <2>2 DEF Member
  <2>4. x < Pow2[k]
    BY <1>5, <2>3
  <2>5. QED
    BY <1>1, <1>6, <2>2, <2>4
<1>7. ASSUME NEW x \in T, Pow2[k - 1] <= x, x < Pow2[k] PROVE Member(T, n, k, x)
  <2>1. x \in Nat /\ x < Pow2[height]
    BY <1>1, <1>7
  <2>2. PICK c \in T : c = 2 * x \/ c = 2 * x + 1
    BY <1>1, <2>1
  <2>3. c \in Nat /\ Pow2[k] <= c /\ c < Pow2[k + 1] /\ c \div 2 = x
    BY <1>1, <1>7, <2>1, <2>2
  <2>4. c < n \/ c \in Gone(T, n)
    BY <1>6, <2>3
  <2>5. x <= n \div 2
    BY <1>1, <1>2, <2>1, <2>2, <2>3, <2>4
  <2>6. Pow2[k] <= 2 * x
    BY <1>1, <1>7, <2>1
  <2>7. QED
    BY <1>4, <2>1, <2>5, <2>6 DEF Member
<1>8. ASSUME NEW x \in T, Pow2[k - 1] <= 2 * x, x < m \div 2 PROVE FALSE
  <2>1. x \in Nat /\ x < Pow2[height] /\ 2 * x + 1 < m
    <3>1. x \in Nat /\ m \div 2 \in Nat /\ m \div 2 <= m
      BY <1>1
    <3>2. 2 * x + 1 < m
      BY ONLY <1>1, <1>8, <3>1
    <3>3. QED
      BY <1>1, <1>8, <3>1, <3>2
  <2>2. PICK c \in T : c = 2 * x \/ c = 2 * x + 1
    BY <1>1, <2>1
  <2>3. c \in Nat /\ Pow2[k - 1] <= c /\ c < m /\ c < Pow2[k]
    BY <1>1, <1>8, <2>1, <2>2
  <2>4. m <= c
    BY <1>5, <1>7, <2>3
  <2>5. QED
    BY <1>1, <2>3, <2>4
<1>9. Pow2[k - 1] <= m
  BY <1>1, <1>5
<1>10. \A x \in T : Member(T, n, k, x) <=>
         (m <= x /\ x < Pow2[k]) \/ (Pow2[k - 1] <= 2 * x /\ x < m \div 2)
  <2> SUFFICES ASSUME NEW x \in T
               PROVE  Member(T, n, k, x) <=>
                        (m <= x /\ x < Pow2[k]) \/ (Pow2[k - 1] <= 2 * x /\ x < m \div 2)
    OBVIOUS
  <2>1. m <= x => Pow2[k - 1] <= x
    BY <1>1, <1>9
  <2>2. QED
    BY <1>5, <1>7, <1>8, <2>1
<1>11. ASSUME m % 2 = 1, m - 1 \in T PROVE FALSE
  <2>1. m - 1 \in Nat /\ m - 1 >= 1 /\ m - 1 < m /\ m - 1 < Pow2[k]
    BY <1>1, <1>11
  <2>2. CASE k = 1
    <3>1. Pow2[k] = 2
      BY <2>2, Pow2Values
    <3>2. QED
      BY <1>1, <2>1, <3>1
  <2>3. CASE k # 1
    <3>1. k - 2 \in Nat /\ (k - 2) + 1 = k - 1
      BY <1>1, <2>3
    <3>2. Pow2[(k - 2) + 1] = 2 * Pow2[k - 2] /\ Pow2[k - 2] \in Nat
      BY <3>1, Pow2Values
    <3>3. \A p, r \in Nat : p = 2 * r /\ p <= m => p <= m - 1
      BY ONLY <1>1, <1>11
    <3>4. Pow2[k - 1] <= m - 1
      BY <1>1, <1>9, <3>1, <3>2, <3>3
    <3>5. m <= m - 1
      BY <1>5, <1>7, <1>11, <2>1, <3>4
    <3>6. QED
      BY <1>1, <3>5
  <2>4. QED
    BY <2>2, <2>3
<1>12. \A x \in T : (x >= Pow2[k] \/ (Pow2[k - 1] <= x /\ x < m)) <=>
                    (x >= Pow2[k + 1] \/ (Pow2[k] <= x /\ x < n)) \/ x \in Gone(T, n)
  <2> SUFFICES ASSUME NEW x \in T
               PROVE  (x >= Pow2[k] \/ (Pow2[k - 1] <= x /\ x < m)) <=>
                      (x >= Pow2[k + 1] \/ (Pow2[k] <= x /\ x < n)) \/ x \in Gone(T, n)
    OBVIOUS
  <2>1. x \in Nat
    BY <1>1
  <2>2. ~ (Pow2[k - 1] <= x /\ x < m)
    <3>1. ASSUME Pow2[k - 1] <= x, x < m PROVE FALSE
      <4>1. x < Pow2[k]
        BY <1>1, <2>1, <3>1
      <4>2. m <= x
        BY <1>5, <1>7, <3>1, <4>1
      <4>3. QED
        BY <1>1, <2>1, <3>1, <4>2
    <3>2. QED
      BY <3>1
  <2>3. x >= Pow2[k] /\ ~ (x >= Pow2[k + 1]) => x < n \/ x \in Gone(T, n)
    BY <1>1, <1>6, <2>1
  <2>4. x >= Pow2[k + 1] => x >= Pow2[k]
    BY <1>1, <2>1
  <2>5. x \in Gone(T, n) => x >= Pow2[k]
    BY <1>2, <2>1
  <2>6. QED
    BY <2>1, <2>2, <2>3, <2>4, <2>5
<1>13. Passed(T, m, k - 1) = Passed(T, n, k) \cup Gone(T, n)
  <2>1. (k - 1) + 1 = k
    BY <1>1
  <2>2. Gone(T, n) \subseteq T
    BY <1>2
  <2>3. QED
    BY <1>12, <2>1, <2>2 DEF Passed
<1>14. QED
  BY <1>5, <1>9, <1>10, <1>11, <1>13

\* A step of a walk is a walk, and passes the nodes it has taken from the queue.
LEMMA WalkStep ==
  ASSUME NEW T, NEW q, NEW k, Walking(T, q, k), NEW q2, Stepped(T, q, q2)
  PROVE  \E k2 \in 0 .. height :
           WalkAt(T, q2, k2) /\ Passed(T, q2[1], k2) = Passed(T, q[1], k) \cup Gone(T, q[1])
<1> DEFINE n == q[1]
           m == q2[1]
<1>1. /\ Len(q2) \in Nat /\ Len(q2) >= 1 /\ Range(q2) = {x \in T : Member(T, n, k, x)}
      /\ InKeyOrder(q2, k) /\ q2 \in Seq(Nat)
  BY SteppedQueue DEF Stepped
<1>2. StepFacts(T, n, k, m)
  BY FactsOfStep
<1>3. /\ k \in Nat /\ k >= 1 /\ k <= height /\ height \in Nat
      /\ Pow2[k] \in Nat /\ Pow2[k - 1] \in Nat /\ Pow2[k] = 2 * Pow2[k - 1]
      /\ m \in T /\ m \in Nat /\ \A x \in T : x \in Nat
  BY <1>2 DEF StepFacts
<1>4. q2 # <<>>
  BY <1>1
<1> HIDE DEF n, m
<1>5. CASE m >= Pow2[k]
  <2>1. n < m /\ m < Pow2[k + 1]
    BY <1>2, <1>5, SameLevel
  <2>2. /\ \A x \in T : Member(T, n, k, x) <=>
             (m <= x /\ x < Pow2[k + 1]) \/ (Pow2[k] <= 2 * x /\ x < m \div 2)
        /\ m % 2 = 1 => m - 1 \notin T
        /\ Passed(T, m, k) = Passed(T, n, k) \cup Gone(T, n)
    BY <1>2, <1>5, SameLevelFrontier
  <2>3. Range(q2) = Frontier(T, m, k)
    BY <1>1, <2>2 DEF Frontier
  <2>4. AtLevel(m, k)
    BY <1>3, <1>5, <2>1 DEF AtLevel
  <2>5. k \in 0 .. height
    BY <1>3
  <2>6. WalkAt(T, q2, k)
    BY <1>1, <1>4, <2>2, <2>3, <2>4, <2>5 DEF WalkAt, m
  <2>7. QED
    BY <2>2, <2>5, <2>6 DEF n, m
<1>6. CASE m < Pow2[k]
  <2>1. /\ Pow2[k - 1] <= m
        /\ \A x \in T : Member(T, n, k, x) => Pow2[k - 1] <= x /\ x < Pow2[k]
        /\ \A x \in T : Member(T, n, k, x) <=>
             (m <= x /\ x < Pow2[k]) \/ (Pow2[k - 1] <= 2 * x /\ x < m \div 2)
        /\ m % 2 = 1 => m - 1 \notin T
        /\ Passed(T, m, k - 1) = Passed(T, n, k) \cup Gone(T, n)
    BY <1>2, <1>6, UpperLevelFrontier
  <2>2. (k - 1) + 1 = k /\ k - 1 \in 0 .. height
    BY <1>3
  <2>3. Range(q2) = Frontier(T, m, k - 1)
    BY <1>1, <2>1, <2>2 DEF Frontier
  <2>4. AtLevel(m, k - 1)
    BY <1>6, <2>1, <2>2 DEF AtLevel
  <2>5. InKeyOrder(q2, k - 1)
    <3> SUFFICES ASSUME NEW i \in 1 .. Len(q2), NEW j \in 1 .. Len(q2), i < j
                 PROVE  Key(q2[i], k - 1) < Key(q2[j], k - 1)
      BY DEF InKeyOrder
    <3>1. \A l \in 1 .. Len(q2) : q2[l] \in Range(q2)
      BY <1>1 DEF Range
    <3>2. \A l \in 1 .. Len(q2) : q2[l] \in Nat /\ Pow2[k - 1] <= q2[l] /\ q2[l] < Pow2[k]
      BY <1>1, <1>3, <2>1, <3>1
    <3>3. \A l \in 1 .. Len(q2) : Key(q2[l], k - 1) = q2[l] /\ Key(q2[l], k) = q2[l] + Pow2[k + 1]
      BY <1>3, <3>2, SMTT(30) DEF Key
    <3>4. Key(q2[i], k) < Key(q2[j], k)
      BY <1>1 DEF InKeyOrder
    <3>5. Pow2[k + 1] \in Nat
      <4>1. Pow2[k + 1] = 2 * Pow2[k] /\ Pow2[k] \in Nat
        BY <1>2 DEF StepFacts
      <4>2. QED
        BY ONLY <4>1
    <3>6. q2[i] + Pow2[k + 1] < q2[j] + Pow2[k + 1]
      BY <3>3, <3>4
    <3>7. q2[i] < q2[j]
      BY <3>2, <3>5, <3>6
    <3>8. QED
      BY <3>3, <3>7
  <2>6. WalkAt(T, q2, k - 1)
    BY <1>4, <2>1, <2>2, <2>3, <2>4, <2>5 DEF WalkAt, m
  <2>7. QED
    BY <2>1, <2>2, <2>6 DEF n, m
<1>7. QED
  BY <1>3, <1>5, <1>6

-----------------------------------------------------------------------------
\* A set in increasing order: the k-th element is the one with k - 1 below it.

\* The members of a set of numbers under x.
Below(S, x) == {y \in S : y < x}

\* Every position of an ascending list of a set's members is that of one of them.
LEMMA EveryRank ==
  ASSUME NEW b \in Nat, NEW S \in SUBSET (0 .. b - 1)
  PROVE  /\ IsFiniteSet(S) /\ Cardinality(S) \in Nat
         /\ \A k \in 1 .. Cardinality(S) : \E x \in S : Cardinality(Below(S, x)) = k - 1
<1>1. \A c \in Nat : \A R \in SUBSET (0 .. c - 1) : IsFiniteSet(R) /\ Cardinality(R) \in Nat
  <2> SUFFICES ASSUME NEW c \in Nat, NEW R \in SUBSET (0 .. c - 1)
               PROVE  IsFiniteSet(R) /\ Cardinality(R) \in Nat
    OBVIOUS
  <2>1. 0 \in Int /\ c - 1 \in Int
    OBVIOUS
  <2>2. IsFiniteSet(0 .. c - 1)
    BY <2>1, FS_Interval
  <2>3. IsFiniteSet(R)
    BY <2>2, FS_Subset
  <2>4. QED
    BY <2>3, FS_CardinalityType
<1> DEFINE Ranked(R) == \A k \in 1 .. Cardinality(R) :
                          \E x \in R : Cardinality(Below(R, x)) = k - 1
           U == {c \in Nat : \A R \in SUBSET (0 .. c - 1) : Ranked(R)}
<1>2. 0 \in U
  <2>1. ASSUME NEW R \in SUBSET (0 .. 0 - 1) PROVE Ranked(R)
    <3>1. R = {}
      OBVIOUS
    <3>2. Cardinality(R) = 0
      BY <3>1, FS_EmptySet
    <3>3. QED
      BY <3>2
  <2> HIDE DEF Ranked
  <2>2. QED
    BY <2>1
<1>3. ASSUME NEW c \in Nat, c \in U PROVE c + 1 \in U
  <2>1. ASSUME NEW R \in SUBSET (0 .. (c + 1) - 1) PROVE Ranked(R)
    <3> DEFINE Q == R \ {c}
    <3>1. Q \in SUBSET (0 .. c - 1) /\ R \in SUBSET (0 .. (c + 1) - 1) /\ c + 1 \in Nat
      OBVIOUS
    <3>2. Ranked(Q)
      <4> HIDE DEF Ranked, Q
      <4>1. QED
        BY <1>3, <3>1
    <3>3. /\ IsFiniteSet(Q) /\ Cardinality(Q) \in Nat
          /\ IsFiniteSet(R) /\ Cardinality(R) \in Nat
      BY <1>1, <3>1
    <3>4. CASE c \notin R
      <4>1. Q = R
        BY <3>4
      <4> HIDE DEF Ranked, Q
      <4>2. QED
        BY <3>2, <4>1
    <3>5. CASE c \in R
      <4>1. Cardinality(Q) = Cardinality(R) - 1
        BY <3>3, <3>5, FS_RemoveElement
      <4>2. \A x \in Q : x < c /\ x \in Nat /\ x \in R
        BY <3>1
      <4>3. Below(R, c) = Q
        <5>1. \A x \in R : x < c <=> x # c
          BY <3>1
        <5>2. QED
          BY <5>1 DEF Below
      <4>4. \A x \in Q : Below(R, x) = Below(Q, x)
        BY <3>1 DEF Below
      <4> HIDE DEF Q
      <4>5. ASSUME NEW k \in 1 .. Cardinality(R)
            PROVE  \E x \in R : Cardinality(Below(R, x)) = k - 1
        <5>1. CASE k = Cardinality(R)
          BY <3>5, <4>1, <4>3, <5>1
        <5>2. CASE k # Cardinality(R)
          <6>1. k \in 1 .. Cardinality(Q)
            BY <3>3, <4>1, <5>2
          <6>2. PICK x \in Q : Cardinality(Below(Q, x)) = k - 1
            BY <3>2, <6>1
          <6>3. QED
            BY <4>2, <4>4, <6>2
        <5>3. QED
          BY <5>1, <5>2
      <4>6. QED
        BY <4>5
    <3>6. QED
      BY <3>4, <3>5
  <2> HIDE DEF Ranked
  <2>2. QED
    BY <2>1
<1>4. \A c \in Nat : c \in U
  <2> HIDE DEF U
  <2>1. QED
    BY <1>2, <1>3, SetInduction
<1>5. QED
  BY <1>1, <1>4

\* The larger of two members has the later position.
LEMMA RankGrows ==
  ASSUME NEW b \in Nat, NEW S \in SUBSET (0 .. b - 1), NEW x \in S, NEW y \in S, x < y
  PROVE  Cardinality(Below(S, x)) < Cardinality(Below(S, y))
<1>1. /\ Below(S, x) \in SUBSET (0 .. b - 1) /\ Below(S, y) \in SUBSET (0 .. b - 1)
      /\ x \notin Below(S, x) /\ Below(S, x) \cup {x} \in SUBSET Below(S, y)
  <2>1. ~ (x < x) /\ \A z \in S : z < x => z < y
    OBVIOUS
  <2>2. Below(S, x) \subseteq S /\ Below(S, y) \subseteq S
    BY DEF Below
  <2>3. x \notin Below(S, x) /\ \A z : z \in Below(S, x) \cup {x} => z \in Below(S, y)
    BY <2>1 DEF Below
  <2>4. QED
    BY <2>2, <2>3
<1>2. /\ IsFiniteSet(Below(S, x)) /\ Cardinality(Below(S, x)) \in Nat
      /\ IsFiniteSet(Below(S, y)) /\ Cardinality(Below(S, y)) \in Nat
  BY <1>1, EveryRank
<1>3. Cardinality(Below(S, x) \cup {x}) = Cardinality(Below(S, x)) + 1
  BY <1>1, <1>2, FS_AddElement
<1>4. Cardinality(Below(S, x) \cup {x}) <= Cardinality(Below(S, y))
  BY <1>1, <1>2, FS_Subset
<1>5. QED
  BY <1>2, <1>3, <1>4

\* InOrder lists each element once, in increasing order.
LEMMA InOrderLists ==
  ASSUME NEW b \in Nat, NEW S \in SUBSET (0 .. b - 1)
  PROVE  /\ InOrder(S) \in Seq(S) /\ Len(InOrder(S)) = Cardinality(S) /\ Range(InOrder(S)) = S
         /\ \A i, j \in 1 .. Len(InOrder(S)) : i < j => InOrder(S)[i] < InOrder(S)[j]
<1> DEFINE l == Cardinality(S)
           f == InOrder(S)
           Rank(x) == Cardinality(Below(S, x))
<1>1. IsFiniteSet(S) /\ l \in Nat /\ \A k \in 1 .. l : \E x \in S : Rank(x) = k - 1
  BY EveryRank
<1>2. f = [k \in 1 .. l |-> CHOOSE x \in S : Rank(x) = k - 1]
  BY DEF InOrder, Below
<1>3. \A x, y \in S : x < y => Rank(x) < Rank(y)
  BY RankGrows
<1>4. \A x \in S : Rank(x) \in Nat /\ Rank(x) + 1 <= l /\ x \in Nat
  <2> SUFFICES ASSUME NEW x \in S PROVE Rank(x) \in Nat /\ Rank(x) + 1 <= l /\ x \in Nat
    OBVIOUS
  <2>1. /\ Below(S, x) \in SUBSET (0 .. b - 1) /\ Below(S, x) \in SUBSET (S \ {x})
        /\ x \in Nat
    <3>1. x \in Nat /\ ~ (x < x)
      OBVIOUS
    <3>2. \A z : z \in Below(S, x) => z \in S \ {x}
      BY <3>1 DEF Below
    <3>3. QED
      BY <3>1, <3>2
  <2>2. Rank(x) \in Nat
    BY <2>1, EveryRank
  <2>3. IsFiniteSet(S \ {x}) /\ Cardinality(S \ {x}) = l - 1
    BY <1>1, FS_RemoveElement
  <2>4. Rank(x) <= l - 1
    BY <2>1, <2>3, FS_Subset
  <2>5. QED
    BY <1>1, <2>1, <2>2, <2>4
<1> HIDE DEF l, f, Rank
<1>5. \A k \in 1 .. l : f[k] \in S /\ Rank(f[k]) = k - 1
  BY <1>1, <1>2
<1>6. f \in [1 .. l -> S]
  BY <1>2, <1>5
<1>7. f \in Seq(S) /\ Len(f) = l /\ DOMAIN f = 1 .. l
  BY <1>1, <1>6
<1>8. ASSUME NEW i \in 1 .. l, NEW j \in 1 .. l, i < j PROVE f[i] < f[j]
  <2>1. f[i] \in S /\ f[j] \in S /\ Rank(f[i]) = i - 1 /\ Rank(f[j]) = j - 1
    BY <1>5
  <2>2. f[i] # f[j]
    <3>1. i - 1 # j - 1
      BY <1>1, <1>8
    <3>2. QED
      BY <2>1, <3>1
  <2>3. ~ (f[j] < f[i])
    <3>1. ASSUME f[j] < f[i] PROVE FALSE
      <4>1. Rank(f[j]) < Rank(f[i])
        BY <1>3, <2>1, <3>1, Zenon
      <4>2. j - 1 < i - 1
        BY <2>1, <4>1
      <4>3. QED
        BY <1>1, <1>8, <4>2
    <3>2. QED
      BY <3>1
  <2>4. f[i] \in Nat /\ f[j] \in Nat
    BY <1>4, <2>1
  <2>5. QED
    BY <2>2, <2>3, <2>4
<1>9. ASSUME NEW x \in S PROVE x \in Range(f)
  <2>1. Rank(x) + 1 \in 1 .. l
    BY <1>1, <1>4
  <2>2. f[Rank(x) + 1] \in S /\ Rank(f[Rank(x) + 1]) = Rank(x)
    BY <1>4, <1>5, <2>1
  <2>3. f[Rank(x) + 1] = x
    <3> DEFINE y == f[Rank(x) + 1]
    <3>1. y \in S /\ Rank(y) = Rank(x) /\ Rank(x) \in Nat /\ x \in Nat /\ y \in Nat
      BY <1>4, <2>2
    <3> HIDE DEF y
    <3>2. ~ (x < y) /\ ~ (y < x)
      <4>1. ~ (Rank(x) < Rank(x))
        BY <3>1
      <4>2. x < y => Rank(x) < Rank(y)
        BY <1>3, <3>1, Zenon
      <4>3. y < x => Rank(y) < Rank(x)
        BY <1>3, <3>1, Zenon
      <4>4. QED
        BY <3>1, <4>1, <4>2, <4>3
    <3>3. x = y
      BY <3>1, <3>2
    <3>4. QED
      BY <3>3 DEF y
  <2>4. QED
    BY <1>7, <2>1, <2>3 DEF Range
<1>10. Range(f) = S
  BY <1>5, <1>7, <1>9 DEF Range
<1>11. QED
  BY <1>7, <1>8, <1>10 DEF f, l

\* The queried leaves, in order: the beginning of both walks.
LEMMA LeavesInOrder ==
  ASSUME TypeOK, NEW Q \in SUBSET (0 .. k_data_length - 1), Q # {},
         NEW L, L = InOrder({Leaf(q) : q \in Q})
  PROVE  /\ L \in Seq(Node) /\ Len(L) \in Nat /\ Len(L) >= 1
         /\ WalkAt(Paths(Q), L, height) /\ Passed(Paths(Q), L[1], height) = {}
<1> DEFINE S == {Leaf(q) : q \in Q}
           T == Paths(Q)
           h == height
           n == L[1]
<1>1. /\ h \in Nat /\ Pow2[h] \in Nat /\ Pow2[h + 1] \in Nat /\ Pow2[h + 1] = 2 * Pow2[h]
      /\ Pow2[h] >= 1 /\ Node = 1 .. Pow2[h + 1] - 1
  BY Sizes
<1>2. /\ T \subseteq 1 .. Pow2[h + 1] - 1
      /\ \A m \in T : m < Pow2[h] => 2 * m \in T \/ 2 * m + 1 \in T
  BY PathsOfQueries DEF IsPaths
<1>3. \A m : m \in S <=> m \in T /\ m >= Pow2[h]
  BY PathsOfQueries
<1> HIDE DEF S, T
<1>4. S \in SUBSET (0 .. Pow2[h + 1] - 1) /\ S \subseteq Node
  <2>1. S \subseteq T
    BY <1>3, Zenon
  <2>2. T \subseteq 0 .. Pow2[h + 1] - 1
    BY ONLY <1>1, <1>2
  <2>3. QED
    BY <1>1, <1>2, <2>1, <2>2, Zenon
<1>5. /\ L \in Seq(S) /\ Len(L) = Cardinality(S) /\ Range(L) = S
      /\ \A i, j \in 1 .. Len(L) : i < j => L[i] < L[j]
  <2> HIDE DEF h
  <2>1. L = InOrder(S)
    BY DEF S
  <2>2. QED
    BY <1>1, <1>4, <2>1, InOrderLists
<1>6. S # {}
  BY DEF S
<1>7. Len(L) \in Nat /\ Len(L) >= 1 /\ \A i \in 1 .. Len(L) : L[i] \in S
  <2>1. Len(L) \in Nat /\ DOMAIN L = 1 .. Len(L) /\ \A i \in 1 .. Len(L) : L[i] \in S
    BY ONLY <1>5
  <2>2. Len(L) # 0
    BY <1>5, <1>6, <2>1 DEF Range
  <2>3. QED
    BY <2>1, <2>2
<1>8. n \in S /\ n \in Nat /\ Pow2[h] <= n /\ n < Pow2[h + 1] /\ n \in T
  <2>1. n \in S
    BY <1>7
  <2>2. n \in T /\ n >= Pow2[h]
    BY <1>3, <2>1, Zenon
  <2>3. \A m \in T : m \in Nat /\ m < Pow2[h + 1]
    BY ONLY <1>1, <1>2
  <2>4. QED
    BY ONLY <1>1, <2>1, <2>2, <2>3
<1>9. \A m \in S : n <= m /\ m \in Nat
  <2> SUFFICES ASSUME NEW m \in S PROVE n <= m /\ m \in Nat
    OBVIOUS
  <2>1. m \in Nat
    BY <1>1, <1>4
  <2>2. PICK i \in 1 .. Len(L) : m = L[i]
    <3>1. m \in Range(L) /\ DOMAIN L = 1 .. Len(L)
      BY ONLY <1>5
    <3>2. QED
      BY ONLY <3>1 DEF Range
  <2>3. i = 1 \/ n < m
    BY <1>5, <1>7, <2>2
  <2>4. QED
    BY <1>8, <2>1, <2>2, <2>3
<1>10. L \in Seq(Node) /\ L # <<>>
  <2>1. L \in Seq(S) /\ S \subseteq Node
    BY <1>4, <1>5
  <2>2. L \in Seq(Node)
    <3> HIDE DEF n
    <3>1. QED
      BY ONLY <2>1
  <2>3. L # <<>>
    BY ONLY <1>7
  <2>4. QED
    BY <2>2, <2>3
<1> HIDE DEF n
<1>11. AtLevel(n, h) /\ h \in 0 .. h
  BY <1>1, <1>8 DEF AtLevel
<1>12. ASSUME NEW m \in T, Pow2[h] <= 2 * m, m < n \div 2 PROVE FALSE
  <2>1. m \in Nat /\ m < Pow2[h] /\ 2 * m + 1 < n
    <3>1. m \in Nat
      BY <1>1, <1>2
    <3>2. \A p, r \in Nat : n < r /\ r = 2 * p => m < p /\ 2 * m + 1 < n
      BY ONLY <1>8, <1>12, <3>1
    <3>3. QED
      BY <1>1, <1>8, <3>1, <3>2
  <2>2. PICK c \in T : c = 2 * m \/ c = 2 * m + 1
    BY <1>2, <2>1
  <2>3. c >= Pow2[h] /\ c < n /\ c \in Nat
    BY <1>1, <1>8, <1>12, <2>1, <2>2
  <2>4. n <= c
    BY <1>3, <1>9, <2>3
  <2>5. QED
    BY <1>8, <2>3, <2>4
<1>13. S = {m \in T : n <= m /\ m < Pow2[h + 1]}
  <2>1. \A m \in S : m \in T /\ n <= m /\ m < Pow2[h + 1]
    BY <1>1, <1>2, <1>3, <1>9
  <2>2. \A m \in T : n <= m => m >= Pow2[h]
    BY <1>1, <1>2, <1>8
  <2>3. QED
    BY <1>3, <2>1, <2>2
<1>14. Range(L) = Frontier(T, n, h)
  BY <1>5, <1>12, <1>13 DEF Frontier
<1>15. InKeyOrder(L, h)
  <2>1. \A i \in 1 .. Len(L) : Key(L[i], h) = L[i]
    BY <1>3, <1>7 DEF Key
  <2>2. QED
    BY <1>5, <2>1 DEF InKeyOrder
<1>16. ASSUME n % 2 = 1, n - 1 \in T PROVE FALSE
  <2>1. n - 1 \in Nat /\ n - 1 >= 1 /\ n - 1 < n
    BY <1>1, <1>2, <1>8, <1>16
  <2>2. h # 0
    <3>1. h = 0 => Pow2[h] = 1 /\ n < 2
      BY <1>1, <1>8, Pow2Values, SMTT(30)
    <3>2. QED
      BY <1>8, <2>1, <3>1
  <2>3. h - 1 \in Nat /\ (h - 1) + 1 = h
    BY <1>1, <2>2
  <2>4. Pow2[(h - 1) + 1] = 2 * Pow2[h - 1] /\ Pow2[h - 1] \in Nat
    BY <2>3, Pow2Values
  <2>5. \A p, r \in Nat : p = 2 * r /\ p <= n => p <= n - 1
    BY ONLY <1>8, <1>16
  <2>6. Pow2[h] <= n - 1
    BY <1>1, <1>8, <2>3, <2>4, <2>5
  <2>7. n <= n - 1
    BY <1>3, <1>9, <1>16, <2>6
  <2>8. QED
    BY <1>8, <2>7
<1>17. WalkAt(T, L, h)
  BY <1>10, <1>11, <1>14, <1>15, <1>16 DEF WalkAt, n
<1>18. Passed(T, n, h) = {}
  <2>1. ASSUME NEW m \in T, Pow2[h] <= m, m < n PROVE FALSE
    <3>1. n <= m /\ m \in Nat
      BY <1>3, <1>9, <2>1
    <3>2. QED
      BY <1>8, <2>1, <3>1
  <2>2. \A m \in T : ~ (m >= Pow2[h + 1])
    BY <1>1, <1>2
  <2>3. QED
    BY <2>1, <2>2 DEF Passed
<1>19. QED
  BY <1>7, <1>10, <1>17, <1>18 DEF T, n

-----------------------------------------------------------------------------
\* What a step sends or reads: the head's sibling, if it is on no path.

LEMMA SiblingOfSibling ==
  ASSUME NEW n \in Nat
  PROVE  Sibling(n) \in Nat /\ Sibling(n) <= n + 1 /\ Sibling(Sibling(n)) = n
BY DEF Sibling

\* What a walk sends is finite.
LEMMA SentIsFinite ==
  ASSUME TypeOK, NEW T, IsPaths(T), NEW n, NEW k
  PROVE  IsFiniteSet(Sent(T, n, k)) /\ Cardinality(Sent(T, n, k)) \in Nat
<1>1. Pow2[height + 1] \in Nat
  BY Sizes
<1>2. ASSUME NEW s \in Sent(T, n, k) PROVE s \in 0 .. (Pow2[height + 1] + 1) - 1
  <2>1. PICK m \in T : s = Sibling(m)
    BY DEF Sent, Passed
  <2>2. m \in 1 .. Pow2[height + 1] - 1
    BY <2>1 DEF IsPaths
  <2>3. s \in Nat /\ s <= m + 1 /\ m \in Nat
    BY <1>1, <2>1, <2>2, SiblingOfSibling
  <2>4. QED
    BY ONLY <1>1, <2>2, <2>3
<1>3. Sent(T, n, k) \in SUBSET (0 .. (Pow2[height + 1] + 1) - 1) /\ Pow2[height + 1] + 1 \in Nat
  BY <1>1, <1>2
<1>4. QED
  BY <1>3, EveryRank

\* A step of a walk sends its head's sibling, unless that is on a path.
LEMMA SentGrows ==
  ASSUME TypeOK, NEW T, IsPaths(T), NEW n \in T, NEW k \in Nat, AtLevel(n, k), NEW n2, NEW k2,
         Passed(T, n2, k2) = Passed(T, n, k) \cup Gone(T, n)
  PROVE  /\ IsFiniteSet(Sent(T, n, k)) /\ Cardinality(Sent(T, n, k)) \in Nat
         /\ Sibling(n) \in T => Sent(T, n2, k2) = Sent(T, n, k)
         /\ Sibling(n) \notin T =>
              /\ Sent(T, n2, k2) = Sent(T, n, k) \cup {Sibling(n)}
              /\ Cardinality(Sent(T, n2, k2)) = Cardinality(Sent(T, n, k)) + 1
<1>1. IsFiniteSet(Sent(T, n, k)) /\ Cardinality(Sent(T, n, k)) \in Nat
  BY SentIsFinite
<1>2. \A m \in T : m \in Nat
  <2>1. Pow2[height + 1] \in Nat
    BY Sizes
  <2>2. QED
    BY <2>1 DEF IsPaths
<1>3. \A m \in T : Sibling(Sibling(m)) = m
  BY <1>2, SiblingOfSibling
<1>4. CASE Sibling(n) \in T
  <2>1. \A m \in Gone(T, n) : Sibling(m) \in T
    BY <1>3, <1>4 DEF Gone
  <2>2. QED
    BY <1>1, <1>4, <2>1 DEF Sent
<1>5. CASE Sibling(n) \notin T
  <2>1. Gone(T, n) = {n}
    BY <1>5 DEF Gone
  <2>2. Sent(T, n2, k2) = Sent(T, n, k) \cup {Sibling(n)}
    BY <1>5, <2>1 DEF Sent
  <2>3. Sibling(n) \notin Sent(T, n, k)
    <3>1. ASSUME NEW m \in Passed(T, n, k), Sibling(m) = Sibling(n) PROVE FALSE
      <4>1. m \in T /\ (m >= Pow2[k + 1] \/ m < n)
        BY DEF Passed
      <4>2. m = n
        BY <1>3, <3>1, <4>1
      <4>3. n \in Nat /\ ~ (n < n) /\ n < Pow2[k + 1]
        BY <1>2 DEF AtLevel
      <4>4. ~ (n >= Pow2[k + 1])
        <5>1. Pow2[k + 1] = 2 * Pow2[k] /\ Pow2[k] \in Nat
          BY Pow2Values
        <5>2. QED
          BY <4>3, <5>1
      <4>5. QED
        BY <4>1, <4>2, <4>3, <4>4
    <3>2. QED
      BY <3>1 DEF Sent
  <2>4. Cardinality(Sent(T, n2, k2)) = Cardinality(Sent(T, n, k)) + 1
    BY <1>1, <2>2, <2>3, FS_AddElement
  <2>5. QED
    BY <1>1, <1>5, <2>2, <2>4
<1>6. QED
  BY <1>4, <1>5

\* The queues of the code, as sequences.
LEMMA HeadOfQueue ==
  ASSUME NEW S, NEW q \in Seq(S), q # <<>>
  PROVE  Head(q) = q[1] /\ Len(q) \in Nat /\ Len(q) >= 1 /\ q[1] \in S
<1>1. Len(q) \in Nat /\ Len(q) # 0 /\ q \in [1 .. Len(q) -> S]
  BY EmptySeq, LenProperties
<1>2. 1 \in 1 .. Len(q) /\ Len(q) >= 1
  BY <1>1
<1>3. QED
  BY <1>1, <1>2

\* A queue whose head is taken and where an element is put last.
LEMMA PushedQueue ==
  ASSUME NEW S, NEW q \in Seq(S), q # <<>>, NEW e \in S, NEW r, r = Append(Tail(q), e)
  PROVE  /\ r \in Seq(S) /\ r # <<>> /\ Len(r) = Len(q) /\ Len(q) \in Nat
         /\ \A i \in 1 .. Len(q) - 1 : r[i] = q[i + 1]
         /\ r[Len(q)] = e
<1> DEFINE t == Tail(q)
<1>1. Len(q) \in Nat /\ Len(q) >= 1
  BY HeadOfQueue
<1>2. t \in Seq(S) /\ Len(t) = Len(q) - 1 /\ \A i \in 1 .. Len(t) : t[i] = q[i + 1]
  BY HeadTailProperties
<1> HIDE DEF t
<1>3. /\ r \in Seq(S) /\ Len(r) = Len(t) + 1 /\ r[Len(t) + 1] = e
      /\ \A i \in 1 .. Len(t) : r[i] = t[i]
  <2>1. r = Append(t, e)
    BY DEF t
  <2>2. QED
    BY <1>2, <2>1, AppendProperties
<1>4. Len(r) = Len(q) /\ r # <<>>
  BY <1>1, <1>2, <1>3
<1>5. \A i \in 1 .. Len(q) - 1 : r[i] = q[i + 1]
  BY <1>2, <1>3
<1>6. r[Len(q)] = e
  BY <1>1, <1>2, <1>3
<1>7. QED
  BY <1>1, <1>3, <1>4, <1>5, <1>6

\* The sibling of a node other than the root is a node.
LEMMA SiblingIsNode ==
  ASSUME TypeOK, NEW T, IsPaths(T), NEW n \in T, n >= 2
  PROVE  Sibling(n) \in Node
<1>1. /\ height \in Nat /\ Pow2[height] \in Nat /\ Pow2[height + 1] = 2 * Pow2[height]
      /\ Node = 1 .. Pow2[height + 1] - 1
  BY Sizes
<1>2. n \in 1 .. Pow2[height + 1] - 1
  BY DEF IsPaths
<1>3. \A p, r, x \in Nat : /\ r = 2 * p /\ x < r /\ x >= 2
                           => Sibling(x) \in Nat /\ Sibling(x) >= 1 /\ Sibling(x) < r
  BY DEF Sibling
<1>4. n \in Nat /\ n < Pow2[height + 1] /\ Pow2[height + 1] \in Nat
  BY ONLY <1>1, <1>2
<1>5. Sibling(n) \in Nat /\ Sibling(n) >= 1 /\ Sibling(n) < Pow2[height + 1]
  BY <1>1, <1>3, <1>4, Zenon
<1>6. QED
  BY ONLY <1>1, <1>4, <1>5

\* The prover's step: the tape stays in order.
LEMMA SentStep ==
  ASSUME TypeOK, NEW T, IsPaths(T), NEW n \in T, n >= 2, NEW k \in 0 .. height, AtLevel(n, k),
         NEW n2, NEW k2, Passed(T, n2, k2) = Passed(T, n, k) \cup Gone(T, n),
         NEW tape \in Seq(Node \X (Node \cup {Wrong})), SentInOrder(T, n, k, tape),
         NEW h \in Node \cup {Wrong}, NEW tape2,
         IF Sibling(n) \in T THEN tape2 = tape ELSE tape2 = Append(tape, <<Sibling(n), h>>)
  PROVE  SentInOrder(T, n2, k2, tape2)
<1> DEFINE c == Cardinality(Sent(T, n, k))
<1>1. /\ IsFiniteSet(Sent(T, n, k)) /\ c \in Nat /\ k \in Nat
      /\ Sibling(n) \in T => Sent(T, n2, k2) = Sent(T, n, k)
      /\ Sibling(n) \notin T => /\ Sent(T, n2, k2) = Sent(T, n, k) \cup {Sibling(n)}
                                /\ Cardinality(Sent(T, n2, k2)) = c + 1
  <2>1. k \in Nat
    OBVIOUS
  <2>2. QED
    BY <2>1, SentGrows
<1>2. /\ Range(Indices(tape)) = Sent(T, n, k) /\ Len(tape) = c
      /\ \A m \in Passed(T, n, k), l \in 0 .. height :
           AtLevel(m, l) /\ Sibling(m) \notin T =>
             /\ Cardinality(Sent(T, m, l)) < Len(tape)
             /\ tape[Cardinality(Sent(T, m, l)) + 1][1] = Sibling(m)
  BY DEF SentInOrder
<1>3. CASE Sibling(n) \in T
  <2>1. \A m \in Gone(T, n) : Sibling(m) \in T
    <3>1. n \in Nat
      BY Sizes DEF IsPaths
    <3>2. Sibling(Sibling(n)) = n
      BY <3>1, SiblingOfSibling
    <3>3. QED
      BY <1>3, <3>2 DEF Gone
  <2>2. tape2 = tape
    BY <1>3
  <2>3. QED
    BY <1>1, <1>2, <1>3, <2>1, <2>2 DEF SentInOrder
<1>4. CASE Sibling(n) \notin T
  <2> DEFINE e == <<Sibling(n), h>>
  <2>1. tape2 = Append(tape, e)
    BY <1>4
  <2>2. e \in Node \X (Node \cup {Wrong}) /\ e[1] = Sibling(n)
    BY SiblingIsNode
  <2> HIDE DEF e
  <2>3. /\ tape2 \in Seq(Node \X (Node \cup {Wrong})) /\ Len(tape2) = Len(tape) + 1
        /\ \A i \in 1 .. Len(tape) : tape2[i] = tape[i]
        /\ tape2[Len(tape) + 1] = e
    BY <2>1, <2>2, AppendProperties
  <2>4. Len(tape) \in Nat /\ Len(tape2) = c + 1 /\ tape2[c + 1][1] = Sibling(n)
    BY <1>1, <1>2, <2>2, <2>3
  <2>5. /\ \A x : x \in Range(Indices(tape)) <=> \E i \in 1 .. Len(tape) : x = tape[i][1]
        /\ \A x : x \in Range(Indices(tape2)) <=> \E i \in 1 .. Len(tape2) : x = tape2[i][1]
    BY DEF Range, Indices
  <2>6. \A x : x \in Range(Indices(tape2)) <=> x \in Range(Indices(tape)) \/ x = Sibling(n)
    <3>1. \A i \in 1 .. c + 1 : i \in 1 .. c \/ i = c + 1
      BY <1>1
    <3>2. \A i \in 1 .. c : i \in 1 .. c + 1
      BY <1>1
    <3>3. c + 1 \in 1 .. c + 1
      BY <1>1
    <3>4. \A i \in 1 .. c : tape2[i][1] = tape[i][1]
      BY <1>2, <2>3
    <3> HIDE DEF c
    <3>5. \A x : x \in Range(Indices(tape2)) => x \in Range(Indices(tape)) \/ x = Sibling(n)
      BY <1>2, <2>4, <2>5, <3>1, <3>4
    <3>6. \A x : x \in Range(Indices(tape)) => x \in Range(Indices(tape2))
      BY <1>2, <2>4, <2>5, <3>2, <3>4
    <3>7. Sibling(n) \in Range(Indices(tape2))
      BY <2>4, <2>5, <3>3
    <3>8. QED
      BY <3>5, <3>6, <3>7
  <2>7. Range(Indices(tape2)) = Sent(T, n2, k2)
    <3>1. Sent(T, n2, k2) = Range(Indices(tape)) \cup {Sibling(n)}
      BY <1>1, <1>2, <1>4, Zenon
    <3>2. Range(Indices(tape2)) = Range(Indices(tape)) \cup {Sibling(n)}
      BY <2>6, Zenon
    <3>3. QED
      BY <3>1, <3>2, Zenon
  <2>8. Len(tape2) = Cardinality(Sent(T, n2, k2))
    BY <1>1, <1>4, <2>4
  <2>9. ASSUME NEW m \in Passed(T, n2, k2), NEW l \in 0 .. height, AtLevel(m, l), Sibling(m) \notin T
        PROVE  /\ Cardinality(Sent(T, m, l)) < Len(tape2)
               /\ tape2[Cardinality(Sent(T, m, l)) + 1][1] = Sibling(m)
    <3>1. CASE m \in Passed(T, n, k)
      <4> DEFINE d == Cardinality(Sent(T, m, l))
      <4>1. d < Len(tape) /\ tape[d + 1][1] = Sibling(m) /\ d \in Nat
        BY <1>2, <2>9, <3>1, SentIsFinite
      <4> HIDE DEF d
      <4>2. d < Len(tape2) /\ d + 1 \in 1 .. Len(tape)
        BY <2>3, <2>4, <4>1
      <4>3. tape2[d + 1] = tape[d + 1]
        BY <2>3, <4>2
      <4>4. QED
        BY <4>1, <4>2, <4>3 DEF d
    <3>2. CASE m = n
      <4>1. n \in Nat /\ k \in Nat /\ l \in Nat
        BY Sizes DEF IsPaths
      <4>2. l = k
        BY <2>9, <3>2, <4>1, OneLevel
      <4>3. c < c + 1
        BY <1>1
      <4>4. QED
        BY <2>4, <3>2, <4>2, <4>3
    <3>3. QED
      BY <1>4, <2>9, <3>1, <3>2 DEF Gone
  <2>10. QED
    BY <2>7, <2>8, <2>9 DEF SentInOrder
<1>5. QED
  BY <1>3, <1>4

\* When the verifier needs a sibling, the tape has it next.
LEMMA TapeIsAhead ==
  ASSUME TypeOK, NEW T, IsPaths(T), NEW n \in T, n >= 2, NEW k \in 0 .. height, AtLevel(n, k),
         NEW tape, SentInOrder(T, 1, 0, tape), NEW read, ReadInOrder(T, n, k, read, tape),
         Sibling(n) \notin T
  PROVE  Len(read) < Len(tape) /\ tape[Len(read) + 1][1] = Sibling(n)
<1>1. n \in Passed(T, 1, 0)
  <2>1. n \in Nat /\ Pow2[0 + 1] = 2
    <3>1. 0 + 1 = 1
      OBVIOUS
    <3>2. QED
      BY <3>1, Sizes, Pow2Values DEF IsPaths
  <2>2. QED
    BY <2>1 DEF Passed
<1>2. Len(read) = Cardinality(Sent(T, n, k))
  BY DEF ReadInOrder
<1>3. QED
  BY <1>1, <1>2 DEF SentInOrder

\* The verifier's step.
ReadNext(T, n, read, read2) ==
  IF Sibling(n) \in T THEN read2 = read ELSE read2 = Append(read, Sibling(n))
\* Two walks agree: where one reads, the tape of the other has the node that the reader is
\* at.
LEMMA ReadStep ==
  ASSUME TypeOK, NEW T, IsPaths(T), NEW n \in T, n >= 2, NEW k \in 0 .. height, AtLevel(n, k),
         NEW n2, NEW k2, Passed(T, n2, k2) = Passed(T, n, k) \cup Gone(T, n),
         NEW tape \in Seq(Node \X (Node \cup {Wrong})), SentInOrder(T, 1, 0, tape),
         NEW read \in Seq(Node), ReadInOrder(T, n, k, read, tape), NEW read2,
         ReadNext(T, n, read, read2)
  PROVE  /\ Sibling(n) \notin T =>
              Len(read) < Len(tape) /\ tape[Len(read) + 1][1] = Sibling(n)
         /\ ReadInOrder(T, n2, k2, read2, tape)
<1> DEFINE c == Cardinality(Sent(T, n, k))
<1>1. /\ IsFiniteSet(Sent(T, n, k)) /\ c \in Nat
      /\ Sibling(n) \in T => Sent(T, n2, k2) = Sent(T, n, k)
      /\ Sibling(n) \notin T => Cardinality(Sent(T, n2, k2)) = c + 1
  <2>1. k \in Nat
    OBVIOUS
  <2>2. QED
    BY <2>1, SentGrows
<1>2. /\ Len(read) = c /\ Len(read) <= Len(tape) /\ Len(tape) \in Nat
      /\ \A i \in 1 .. Len(read) : read[i] = tape[i][1]
  BY LenProperties DEF ReadInOrder
<1>4. Sibling(n) \notin T => c < Len(tape) /\ tape[c + 1][1] = Sibling(n)
  BY <1>2, TapeIsAhead
<1> HIDE DEF c
<1>5. CASE Sibling(n) \in T
  BY <1>1, <1>2, <1>5 DEF ReadInOrder, ReadNext, c
<1>6. CASE Sibling(n) \notin T
  <2>1. Sibling(n) \in Node /\ read2 = Append(read, Sibling(n))
    BY <1>6, SiblingIsNode DEF ReadNext
  <2>2. /\ Len(read2) = c + 1 /\ read2[c + 1] = Sibling(n)
        /\ \A i \in 1 .. c : read2[i] = read[i]
    BY <1>2, <2>1, AppendProperties
  <2>3. \A i \in 1 .. c + 1 : i \in 1 .. c \/ i = c + 1
    BY <1>1
  <2>4. \A i \in 1 .. c + 1 : read2[i] = tape[i][1]
    BY <1>2, <1>4, <1>6, <2>2, <2>3
  <2>5. c + 1 <= Len(tape)
    BY <1>1, <1>2, <1>4, <1>6
  <2>6. QED
    BY <1>1, <1>2, <1>4, <1>6, <2>2, <2>4, <2>5 DEF ReadInOrder
<1>7. QED
  BY <1>5, <1>6

\* A walk that has come to the root has nothing else in its queue.
LEMMA WalkAtRoot ==
  ASSUME TypeOK, NEW T, IsPaths(T), NEW q \in Seq(Nat), NEW k, WalkAt(T, q, k), q[1] = 1
  PROVE  k = 0 /\ Len(q) = 1
<1>1. /\ k \in 0 .. height /\ q # <<>> /\ AtLevel(1, k) /\ Range(q) = Frontier(T, 1, k)
      /\ \A i, j \in 1 .. Len(q) : i < j => Key(q[i], k) < Key(q[j], k)
  BY DEF WalkAt, InKeyOrder
<1>2. k \in Nat
  BY <1>1, Sizes
<1>3. k = 0
  <2>1. k # 0 => 1 \in Nat /\ 1 <= k
    BY <1>2
  <2>2. k # 0 => Pow2[1] <= Pow2[k] /\ Pow2[1] = 2 /\ Pow2[k] \in Nat
    BY <1>2, <2>1, Pow2Grows, Pow2Values
  <2>3. QED
    BY <1>1, <2>2 DEF AtLevel
<1>4. Len(q) \in Nat /\ Len(q) >= 1 /\ DOMAIN q = 1 .. Len(q)
  BY <1>1, HeadOfQueue, LenProperties
<1>5. Pow2[0] = 1 /\ Pow2[0 + 1] = 2
  <2>1. 0 + 1 = 1
    OBVIOUS
  <2>2. QED
    BY <2>1, Pow2Values
<1>6. \A m \in Frontier(T, 1, 0) : m = 1
  <2>1. Pow2[height + 1] \in Nat
    BY Sizes
  <2>2. \A m \in T : m \in Nat /\ m >= 1
    BY <2>1 DEF IsPaths
  <2>3. \A m \in T : ~ (m < 1 \div 2)
    BY <2>2
  <2>4. \A m \in T : 1 <= m /\ m < 2 => m = 1
    BY <2>2
  <2>5. QED
    BY <1>5, <2>3, <2>4 DEF Frontier
<1>7. \A i \in 1 .. Len(q) : q[i] = 1
  BY <1>1, <1>3, <1>4, <1>6 DEF Range
<1>8. ~ (Len(q) >= 2)
  <2>1. ASSUME Len(q) >= 2 PROVE FALSE
    <3>1. 1 \in 1 .. Len(q) /\ 2 \in 1 .. Len(q)
      BY <1>4, <2>1
    <3>2. Key(1, k) < Key(1, k)
      BY <1>1, <1>7, <3>1
    <3>3. Key(1, k) = 1
      BY <1>3, <1>5 DEF Key
    <3>4. QED
      BY <3>2, <3>3
  <2>2. QED
    BY <2>1
<1>9. QED
  <2>1. \A l \in Nat : l >= 1 /\ ~ (l >= 2) => l = 1
    OBVIOUS
  <2>2. QED
    BY <1>3, <1>4, <1>8, <2>1, Zenon

-----------------------------------------------------------------------------
\* The steps of the decommitment and of its verification.

LEMMA TypeStands ==
  ASSUME TypeOK, UNCHANGED committing, phase' \in Phases,
         queries' \subseteq 0 .. k_data_length - 1, queue' \in Seq(Node),
         proof' \in Seq(Node \X (Node \cup {Wrong})),
         known' \in Seq(Node \X (Node \cup {Wrong})), reads' \in Seq(Node),
         tampered' \in BOOLEAN, verdict' \in {"none", "accept", "reject"}
  PROVE  TypeOK' /\ Node' = Node /\ k_data_length' = k_data_length
<1>1. /\ height' = height /\ log_segment' = log_segment /\ nodes_' = nodes_
      /\ adding' = adding /\ next_root_node' = next_root_node
  BY DEF committing
<1>2. k_data_length' = k_data_length /\ Node' = Node /\ Cell' = Cell /\ Segment' = Segment
  BY <1>1 DEF k_data_length, Node, Cell, Segment
<1>3. QED
  BY <1>1, <1>2 DEF TypeOK

\* A committed tree is not written again.
LEMMA TreeStands ==
  ASSUME TypeOK, Committed, UNCHANGED committing,
         phase \notin {"feed", "root"}, phase' \notin {"feed", "root"}
  PROVE  Feeding' /\ Rooting' /\ Committed'
<1>1. height' = height /\ nodes_' = nodes_
  BY DEF committing
<1>2. Node' = Node
  BY <1>1 DEF k_data_length, Node
<1>3. \A n \in Node : nodes_[n] = n
  BY DEF Committed, Right
<1>4. Committed'
  BY <1>1, <1>2, <1>3 DEF Committed, Right
<1>5. QED
  BY <1>4 DEF Feeding, Rooting

\* The paths of the queries are paths.
LEMMA PathsStand ==
  ASSUME TypeOK
  PROVE  IsPaths(OnAPath) /\ OnAPath = Paths(queries)
<1>1. OnAPath = Paths(queries)
  BY DEF OnAPath, Paths
<1>2. queries \in SUBSET (0 .. k_data_length - 1)
  BY DEF TypeOK
<1>3. IsPaths(Paths(queries))
  BY <1>2, PathsOfQueries
<1>4. QED
  BY <1>1, <1>3

\* A walk that has passed no node has sent none.
LEMMA NothingSent ==
  ASSUME NEW T, NEW n, NEW k, Passed(T, n, k) = {}
  PROVE  SentInOrder(T, n, k, <<>>)
<1>1. Sent(T, n, k) = {}
  BY DEF Sent
<1>2. Cardinality({}) = 0
  BY FS_EmptySet
<1>3. Range(Indices(<<>>)) = {} /\ Len(<<>>) = 0
  BY DEF Range, Indices
<1>4. QED
  BY <1>1, <1>2, <1>3 DEF SentInOrder

\* GenerateDecommitment starts a walk at the first queried leaf.
LEMMA GenerateDecommitmentStartStep ==
  ASSUME IInv, GenerateDecommitmentStart
  PROVE  IInv'
<1>0. /\ TypeOK /\ Waiting /\ Committed /\ phase = "committed" /\ phase' = "decommit"
      /\ UNCHANGED committing /\ UNCHANGED <<proof, known, reads, tampered, verdict>>
      /\ height' = height
  BY DEF IInv, GenerateDecommitmentStart, verifying, committing
<1>1. PICK Q \in (SUBSET (0 .. k_data_length - 1)) \ {{}} :
        queries' = Q /\ queue' = InOrder({Leaf(q) : q \in Q})
  BY DEF GenerateDecommitmentStart
<1>2. proof = <<>> /\ known = <<>> /\ reads = <<>> /\ ~ tampered
  BY <1>0 DEF Waiting
<1>3. PICK L : L = InOrder({Leaf(q) : q \in Q})
  OBVIOUS
<1>4. /\ L \in Seq(Node) /\ Len(L) \in Nat /\ Len(L) >= 1
      /\ WalkAt(Paths(Q), L, height) /\ Passed(Paths(Q), L[1], height) = {}
  <2>1. Q \in SUBSET (0 .. k_data_length - 1) /\ Q # {}
    OBVIOUS
  <2>2. QED
    BY <1>0, <1>3, <2>1, LeavesInOrder
<1>5. PICK T : T = Paths(Q)
  OBVIOUS
<1>6. OnAPath' = T
  BY <1>0, <1>1, <1>5 DEF OnAPath, Paths, Leaf, k_data_length
<1>7. WalkAt(T, L, height) /\ SentInOrder(T, L[1], height, <<>>) /\ height \in 0 .. height
  BY <1>4, <1>5, NothingSent DEF WalkAt
<1>8. TypeOK' /\ Feeding' /\ Rooting' /\ Committed'
  BY <1>0, <1>1, <1>3, <1>4, TypeStands, TreeStands DEF TypeOK, Phases
<1>9. Waiting'
  BY <1>0, <1>1, <1>2 DEF Waiting
<1>10. Proving'
  <2>1. queue' = L
    BY <1>1, <1>3
  <2>2. (WalkAt(OnAPath, queue, height))'
    BY <1>0, <1>6, <1>7, <2>1 DEF WalkAt
  <2>3. (SentInOrder(OnAPath, queue[1], height, proof))'
    BY <1>0, <1>2, <1>6, <1>7, <2>1 DEF SentInOrder
  <2>4. height' \in 0 .. height'
    BY <1>0, <1>7
  <2>5. QED
    BY <1>0, <1>2, <2>2, <2>3, <2>4 DEF Proving
<1>11. Reading' /\ Carried' /\ Judged'
  BY <1>0 DEF Reading, Carried, Judged
<1>12. QED
  BY <1>8, <1>9, <1>10, <1>11 DEF IInv

\* The three ways of the queue: its head goes, and its parent comes.
LEMMA QueueSteps ==
  ASSUME NEW T, NEW q, NEW k, Walking(T, q, k), q \in Seq(Node),
         NEW r, r = Append(Tail(q), q[1] \div 2)
  PROVE  /\ q[1] \div 2 \in Node /\ r \in Seq(Node) /\ r # <<>>
         /\ Head(r) = Sibling(q[1]) <=> Sibling(q[1]) \in T
         /\ Sibling(q[1]) \notin T => Stepped(T, q, r)
         /\ Sibling(q[1]) \in T => Stepped(T, q, Tail(r)) /\ Tail(r) \in Seq(Node)
<1> DEFINE n == q[1]
           e == n \div 2
<1>1. /\ Len(q) \in Nat /\ Len(q) >= 1 /\ n \in T /\ e \in T
      /\ \A m \in T : m \in Nat /\ m >= 1 /\ m \in 1 .. Pow2[height + 1] - 1
  BY WalkNumbers
<1>2. TypeOK /\ q # <<>>
  BY DEF Walking, WalkAt
<1>3. Node = 1 .. Pow2[height + 1] - 1 /\ Pow2[height + 1] \in Nat
  BY <1>2, Sizes
<1>4. e \in Node /\ Node \subseteq Nat
  BY <1>1, <1>3
<1>5. /\ Sibling(n) \in T <=> Len(q) >= 2 /\ q[2] = Sibling(n)
      /\ Sibling(n) # e
  BY SiblingIsNext
<1> HIDE DEF n, e
<1>6. /\ r \in Seq(Node) /\ r # <<>> /\ Len(r) = Len(q)
      /\ \A i \in 1 .. Len(q) - 1 : r[i] = q[i + 1]
      /\ r[Len(q)] = e
      /\ Head(r) = r[1]
  <2>1. r = Append(Tail(q), e)
    BY DEF e, n
  <2>2. QED
    <3>1. q \in Seq(Node)
      OBVIOUS
    <3>2. r \in Seq(Node) /\ r # <<>> /\ Len(r) = Len(q)
      BY ONLY <1>2, <1>4, <2>1, <3>1, PushedQueue
    <3>3. \A i \in 1 .. Len(q) - 1 : r[i] = q[i + 1]
      BY ONLY <1>2, <1>4, <2>1, <3>1, PushedQueue
    <3>4. r[Len(q)] = e
      BY ONLY <1>2, <1>4, <2>1, <3>1, PushedQueue
    <3>5. Head(r) = r[1]
      BY <3>2, HeadOfQueue
    <3>6. QED
      BY <3>2, <3>3, <3>4, <3>5
<1>7. Head(r) = Sibling(n) <=> Sibling(n) \in T
  <2>1. CASE Len(q) >= 2
    <3>1. 1 \in 1 .. Len(q) - 1 /\ 1 + 1 = 2
      BY ONLY <1>1, <2>1
    <3>2. r[1] = q[1 + 1]
      BY <1>6, <3>1, Zenon
    <3>3. QED
      BY <1>5, <1>6, <2>1, <3>1, <3>2
  <2>2. CASE ~ (Len(q) >= 2)
    <3>1. \A l \in Nat : l >= 1 /\ ~ (l >= 2) => l = 1
      OBVIOUS
    <3>2. Len(q) = 1
      BY <1>1, <2>2, <3>1, Zenon
    <3>3. QED
      BY <1>5, <1>6, <2>2, <3>2
  <2>3. QED
    BY <2>1, <2>2
<1>8. ASSUME Sibling(n) \notin T PROVE Stepped(T, q, r)
  <2>1. r \in Seq(Nat)
    BY <1>4, <1>6, SeqMonotonic
  <2>2. Len(q) - 1 + 1 = Len(q)
    BY ONLY <1>1
  <2>3. QED
    BY <1>6, <1>8, <2>1, <2>2 DEF Stepped, n, e
<1>9. ASSUME Sibling(n) \in T PROVE Stepped(T, q, Tail(r)) /\ Tail(r) \in Seq(Node)
  <2> DEFINE t == Tail(r)
  <2>1. t \in Seq(Node) /\ Len(t) = Len(r) - 1 /\ \A i \in 1 .. Len(t) : t[i] = r[i + 1]
    BY <1>6, HeadTailProperties
  <2> HIDE DEF t
  <2>2. t \in Seq(Nat)
    BY <1>4, <2>1, SeqMonotonic
  <2>3. Len(q) >= 2
    BY <1>5, <1>9
  <2>4. Len(t) = Len(q) - 2 + 1
    BY ONLY <1>1, <1>6, <2>1
  <2>5. ASSUME NEW i \in 1 .. Len(q) - 2 PROVE t[i] = q[i + 2]
    <3>1. i \in 1 .. Len(t) /\ i + 1 \in 1 .. Len(q) - 1 /\ (i + 1) + 1 = i + 2
      BY ONLY <1>1, <1>6, <2>1, <2>5
    <3>2. t[i] = r[i + 1] /\ r[i + 1] = q[(i + 1) + 1]
      BY <1>6, <2>1, <3>1
    <3>3. QED
      BY <3>1, <3>2
  <2>6. t[Len(q) - 2 + 1] = e
    <3>1. Len(q) - 2 + 1 \in 1 .. Len(t) /\ Len(q) - 2 + 1 + 1 = Len(q)
      BY ONLY <1>1, <1>6, <2>1, <2>3
    <3>2. t[Len(q) - 2 + 1] = r[Len(q) - 2 + 1 + 1]
      BY <2>1, <3>1
    <3>3. QED
      BY <1>6, <3>1, <3>2
  <2>7. Stepped(T, q, t)
    BY <1>9, <2>2, <2>4, <2>5, <2>6 DEF Stepped, n, e
  <2>8. QED
    BY <2>1, <2>7 DEF t
<1>10. QED
  BY <1>4, <1>6, <1>7, <1>8, <1>9 DEF n, e

\* GenerateDecommitment's loop is a walk that writes the siblings in order.
LEMMA GenerateDecommitmentNodeStep ==
  ASSUME IInv, GenerateDecommitmentNode
  PROVE  IInv'
<1>0. /\ TypeOK /\ Waiting /\ Committed /\ Proving /\ phase = "decommit" /\ phase' = "decommit"
      /\ UNCHANGED committing /\ UNCHANGED <<queries, known, reads, tampered, verdict>>
      /\ height' = height
  BY DEF IInv, GenerateDecommitmentNode, verifying, committing
<1>1. PICK T, q, r, tape :
        T = OnAPath /\ q = queue /\ r = Append(Tail(queue), queue[1] \div 2) /\ tape = proof
  OBVIOUS
<1>2. PICK k \in 0 .. height :
        WalkAt(T, q, k) /\ SentInOrder(T, q[1], k, tape)
  BY <1>0, <1>1 DEF Proving
<1>3. q \in Seq(Node) /\ tape \in Seq(Node \X (Node \cup {Wrong})) /\ q # <<>>
  BY <1>0, <1>1, <1>2 DEF TypeOK, WalkAt
<1>4. Head(q) = q[1] /\ Node \subseteq Nat
  BY <1>0, <1>3, HeadOfQueue, Sizes
<1>5. IsPaths(T) /\ q \in Seq(Nat) /\ q[1] # 1
  <2>1. IsPaths(T)
    BY <1>0, <1>1, PathsStand
  <2>2. q \in Seq(Nat)
    BY <1>3, <1>4, SeqMonotonic
  <2>3. q[1] # 1
    BY <1>1, <1>4 DEF GenerateDecommitmentNode
  <2>4. QED
    BY <2>1, <2>2, <2>3
<1>6. Walking(T, q, k)
  BY <1>0, <1>2, <1>5 DEF Walking
<1>7. q[1] \in T /\ q[1] >= 2 /\ AtLevel(q[1], k)
  BY <1>2, <1>6, WalkNumbers DEF WalkAt
<1>8. /\ r \in Seq(Node) /\ r # <<>>
      /\ Head(r) = Sibling(q[1]) <=> Sibling(q[1]) \in T
      /\ Sibling(q[1]) \notin T => Stepped(T, q, r)
      /\ Sibling(q[1]) \in T => Stepped(T, q, Tail(r)) /\ Tail(r) \in Seq(Node)
  BY <1>1, <1>3, <1>6, QueueSteps
<1>9. Sibling(q[1]) \in Node /\ nodes_[Sibling(q[1])] = Sibling(q[1])
  <2>1. Sibling(q[1]) \in Node
    BY <1>0, <1>5, <1>7, SiblingIsNode
  <2>2. QED
    BY <1>0, <2>1 DEF Committed, Right
<1>10. IF Sibling(q[1]) \in T THEN queue' = Tail(r) /\ proof' = tape
                              ELSE queue' = r /\ proof' = Append(tape, <<Sibling(q[1]), Sibling(q[1])>>)
  BY <1>1, <1>4, <1>8, <1>9 DEF GenerateDecommitmentNode, PassNode
<1>11. PICK q2, tape2 : q2 = queue' /\ tape2 = proof'
  OBVIOUS
<1>12. Stepped(T, q, q2) /\ q2 \in Seq(Node)
  BY <1>8, <1>10, <1>11
<1>13. PICK k2 \in 0 .. height :
         WalkAt(T, q2, k2) /\ Passed(T, q2[1], k2) = Passed(T, q[1], k) \cup Gone(T, q[1])
  BY <1>6, <1>12, WalkStep
<1>14. SentInOrder(T, q2[1], k2, tape2)
  <2>1. /\ Sibling(q[1]) \in Node \cup {Wrong}
        /\ IF Sibling(q[1]) \in T THEN tape2 = tape
           ELSE tape2 = Append(tape, <<Sibling(q[1]), Sibling(q[1])>>)
    BY <1>9, <1>10, <1>11
  <2>2. QED
    BY <1>0, <1>2, <1>3, <1>5, <1>7, <1>13, <2>1, SentStep
<1>15. tape2 \in Seq(Node \X (Node \cup {Wrong})) /\ \A i \in 1 .. Len(tape2) : tape2[i][2] = tape2[i][1]
  <2>1. Len(tape) \in Nat /\ \A i \in 1 .. Len(tape) : tape[i][2] = tape[i][1]
    BY <1>0, <1>1, <1>3, LenProperties DEF Proving
  <2>2. CASE Sibling(q[1]) \in T
    BY <1>3, <1>10, <1>11, <2>1, <2>2
  <2>3. CASE Sibling(q[1]) \notin T
    <3> DEFINE e == <<Sibling(q[1]), Sibling(q[1])>>
    <3>1. e \in Node \X (Node \cup {Wrong}) /\ e[1] = e[2] /\ tape2 = Append(tape, e)
      BY <1>9, <1>10, <1>11, <2>3
    <3> HIDE DEF e
    <3>2. /\ tape2 \in Seq(Node \X (Node \cup {Wrong})) /\ Len(tape2) = Len(tape) + 1
          /\ \A i \in 1 .. Len(tape) : tape2[i] = tape[i]
          /\ tape2[Len(tape) + 1] = e
      BY <1>3, <3>1, AppendProperties
    <3>3. \A i \in 1 .. Len(tape) + 1 : i \in 1 .. Len(tape) \/ i = Len(tape) + 1
      BY ONLY <2>1
    <3>4. QED
      BY <2>1, <3>1, <3>2, <3>3
  <2>4. QED
    BY <2>2, <2>3
<1>16. TypeOK' /\ Feeding' /\ Rooting' /\ Committed'
  BY <1>0, <1>11, <1>12, <1>15, TypeStands, TreeStands DEF TypeOK, Phases
<1>17. OnAPath' = T
  BY <1>0, <1>1 DEF OnAPath, Leaf, k_data_length
<1>18. Proving'
  <2>1. (WalkAt(OnAPath, queue, k2))'
    BY <1>0, <1>11, <1>13, <1>17 DEF WalkAt
  <2>2. (SentInOrder(OnAPath, queue[1], k2, proof))'
    BY <1>0, <1>11, <1>14, <1>17 DEF SentInOrder
  <2>3. k2 \in 0 .. height'
    BY <1>0
  <2>4. QED
    BY <1>0, <1>11, <1>15, <2>1, <2>2, <2>3 DEF Proving
<1>19. Waiting' /\ Reading' /\ Carried' /\ Judged'
  BY <1>0 DEF Waiting, Reading, Carried, Judged
<1>20. QED
  BY <1>16, <1>18, <1>19 DEF IInv

\* At the root GenerateDecommitment has written all that is sent.
LEMMA GenerateDecommitmentReturnStep ==
  ASSUME IInv, GenerateDecommitmentReturn
  PROVE  IInv'
<1>0. /\ TypeOK /\ Waiting /\ Committed /\ Proving /\ phase = "decommit" /\ phase' = "sent"
      /\ UNCHANGED <<committing, proving, verifying>> /\ UNCHANGED committing
      /\ UNCHANGED <<queries, queue, proof, known, reads, tampered, verdict>>
      /\ height' = height
  BY DEF IInv, GenerateDecommitmentReturn, verifying, committing, proving
<1>1. PICK T, q, tape : T = OnAPath /\ q = queue /\ tape = proof
  OBVIOUS
<1>2. PICK k \in 0 .. height :
        WalkAt(T, q, k) /\ SentInOrder(T, q[1], k, tape)
  BY <1>0, <1>1 DEF Proving
<1>3. q \in Seq(Node) /\ q # <<>> /\ Node \subseteq Nat
  <2>1. q \in Seq(Node) /\ q # <<>>
    BY <1>0, <1>1, <1>2 DEF TypeOK, WalkAt
  <2>2. Node \subseteq Nat
    BY <1>0, Sizes
  <2>3. QED
    BY <2>1, <2>2
<1>4. Head(q) = q[1] /\ q \in Seq(Nat)
  BY <1>3, HeadOfQueue, SeqMonotonic
<1>5. q[1] = 1
  BY <1>1, <1>4 DEF GenerateDecommitmentReturn
<1>6. k = 0
  BY <1>0, <1>1, <1>2, <1>4, <1>5, PathsStand, WalkAtRoot
<1>7. SentInOrder(T, 1, 0, tape)
  BY <1>2, <1>5, <1>6
<1>8. OnAPath' = T
  BY <1>0, <1>1 DEF OnAPath, Leaf, k_data_length
<1>9. Proving'
  <2>1. (SentInOrder(OnAPath, 1, 0, proof))'
    BY <1>0, <1>1, <1>7, <1>8 DEF SentInOrder
  <2>2. QED
    BY <1>0, <2>1 DEF Proving
<1>10. TypeOK' /\ Feeding' /\ Rooting' /\ Committed'
  BY <1>0, TypeStands, TreeStands DEF TypeOK, Phases
<1>11. Waiting' /\ Reading' /\ Carried' /\ Judged'
  BY <1>0 DEF Waiting, Reading, Carried, Judged
<1>12. QED
  BY <1>9, <1>10, <1>11 DEF IInv

\* A node with the hash that is claimed of it.
Pairs == Node \X (Node \cup {Wrong})

\* A changed hash is in the place of another, for the same node.
LEMMA TamperedSeq ==
  ASSUME NEW s \in Seq(Pairs), NEW i \in DOMAIN s, NEW t, t = Tampered(s, i)
  PROVE  /\ t \in Seq(Pairs) /\ Len(t) = Len(s) /\ i \in 1 .. Len(s) /\ t[i][2] = Wrong
         /\ \A j \in 1 .. Len(s) : t[j][1] = s[j][1]
<1>1. DOMAIN s = 1 .. Len(s) /\ Len(s) \in Nat /\ \A j \in 1 .. Len(s) : s[j] \in Pairs
  BY LenProperties
<1> DEFINE e == [s[i] EXCEPT ![2] = Wrong]
<1>2. \A x \in Node, y \in Node \cup {Wrong} :
        LET p == [<<x, y>> EXCEPT ![2] = Wrong]
        IN  p[1] = x /\ p[2] = Wrong /\ p \in Node \X (Node \cup {Wrong})
  OBVIOUS
<1>3. e[1] = s[i][1] /\ e[2] = Wrong /\ e \in Pairs
  <2>1. PICK x \in Node, y \in Node \cup {Wrong} : s[i] = <<x, y>>
    BY <1>1 DEF Pairs
  <2>2. QED
    BY <1>2, <2>1 DEF Pairs
<1>4. t = [s EXCEPT ![i] = e]
  BY DEF Tampered
<1> HIDE DEF e
<1>5. /\ t \in Seq(Pairs) /\ Len(t) = Len(s)
      /\ \A j \in 1 .. Len(s) : t[j] = IF j = i THEN e ELSE s[j]
  <2>1. i \in 1 .. Len(s)
    BY <1>1
  <2>2. QED
    BY <1>3, <1>4, <2>1, ExceptSeq
<1>6. QED
  BY <1>1, <1>3, <1>5

\* Both orders are about the nodes of a tape, and not about its hashes.
LEMMA SameNodes ==
  ASSUME NEW a, NEW b, Len(a) = Len(b), Len(a) \in Nat,
         \A i \in 1 .. Len(a) : a[i][1] = b[i][1],
         NEW T, NEW n, NEW k, TypeOK, IsPaths(T), SentInOrder(T, n, k, a)
  PROVE  SentInOrder(T, n, k, b)
<1>1. Indices(a) = Indices(b)
  BY DEF Indices
<1>2. ASSUME NEW m \in Passed(T, n, k), NEW l \in 0 .. height, AtLevel(m, l), Sibling(m) \notin T
      PROVE  /\ Cardinality(Sent(T, m, l)) < Len(b)
             /\ b[Cardinality(Sent(T, m, l)) + 1][1] = Sibling(m)
  <2> DEFINE c == Cardinality(Sent(T, m, l))
  <2>1. c \in Nat /\ c < Len(a) /\ a[c + 1][1] = Sibling(m)
    BY <1>2, SentIsFinite DEF SentInOrder
  <2> HIDE DEF c
  <2>2. c + 1 \in 1 .. Len(a)
    BY <2>1
  <2>3. b[c + 1][1] = Sibling(m) /\ c < Len(b)
    BY <2>1, <2>2
  <2>4. QED
    BY <2>3 DEF c
<1>3. QED
  BY <1>1, <1>2 DEF SentInOrder

\* VerifyDecommitment starts a walk of the same paths.
LEMMA VerifyStartStep ==
  ASSUME IInv, VerifyStart
  PROVE  IInv'
<1>0. /\ TypeOK /\ Waiting /\ Committed /\ Proving /\ phase = "sent" /\ phase' = "verify"
      /\ UNCHANGED committing /\ UNCHANGED <<queries, queue, reads, verdict>>
      /\ height' = height
  BY DEF IInv, VerifyStart, committing
<1>1. /\ known = <<>> /\ reads = <<>> /\ ~ tampered /\ queries # {}
      /\ queries \in SUBSET (0 .. k_data_length - 1)
      /\ proof \in Seq(Pairs) /\ \A i \in 1 .. Len(proof) : proof[i][2] = proof[i][1]
  BY <1>0 DEF Waiting, TypeOK, Proving, Pairs
<1>2. PICK L, T, tape : L = InOrder({Leaf(q) : q \in queries}) /\ T = OnAPath /\ tape = proof
  OBVIOUS
<1>3. /\ L \in Seq(Node) /\ Len(L) \in Nat /\ Len(L) >= 1
      /\ WalkAt(T, L, height) /\ Passed(T, L[1], height) = {} /\ IsPaths(T)
  BY <1>0, <1>1, <1>2, LeavesInOrder, PathsStand
<1>4. PICK given : given = [i \in DOMAIN L |-> <<L[i], L[i]>>]
  OBVIOUS
<1>5. /\ given \in Seq(Pairs) /\ Len(given) = Len(L)
      /\ \A i \in 1 .. Len(L) : given[i][1] = L[i] /\ given[i][2] = L[i]
  <2>1. DOMAIN L = 1 .. Len(L) /\ \A i \in 1 .. Len(L) : L[i] \in Node
    BY <1>3, LenProperties
  <2>2. given = [i \in 1 .. Len(L) |-> <<L[i], L[i]>>]
    BY <1>4, <2>1
  <2>3. \A i \in 1 .. Len(L) : given[i] = <<L[i], L[i]>> /\ given[i] \in Pairs
    BY <2>1, <2>2 DEF Pairs
  <2>4. given \in [1 .. Len(L) -> Pairs]
    BY <2>2, <2>3
  <2>5. given \in Seq(Pairs) /\ Len(given) = Len(L)
    BY <1>3, <2>4
  <2>6. QED
    BY <2>3, <2>5
<1>6. PICK kn, tape2 : kn = known' /\ tape2 = proof'
  OBVIOUS
<1>7. \/ kn = given /\ tampered' = FALSE /\ tape2 = tape
      \/ (\E i \in DOMAIN given : kn = Tampered(given, i)) /\ tampered' = TRUE /\ tape2 = tape
      \/ (\E i \in DOMAIN tape : tape2 = Tampered(tape, i)) /\ tampered' = TRUE /\ kn = given
  BY <1>2, <1>4, <1>6 DEF VerifyStart
<1>8. /\ kn \in Seq(Pairs) /\ Len(kn) = Len(given)
      /\ \A i \in 1 .. Len(given) : kn[i][1] = given[i][1]
  BY <1>5, <1>7, TamperedSeq
<1>9. /\ tape2 \in Seq(Pairs) /\ Len(tape2) = Len(tape) /\ Len(tape) \in Nat
      /\ \A i \in 1 .. Len(tape) : tape2[i][1] = tape[i][1]
  <2>1. tape \in Seq(Pairs) /\ Len(tape) \in Nat
    BY <1>1, <1>2, LenProperties
  <2>2. CASE tape2 = tape
    BY <2>1, <2>2
  <2>3. CASE \E i \in DOMAIN tape : tape2 = Tampered(tape, i)
    <3>1. PICK i \in DOMAIN tape : tape2 = Tampered(tape, i)
      BY <2>3
    <3>2. QED
      BY <2>1, <3>1, TamperedSeq
  <2>4. QED
    BY <1>7, <2>2, <2>3
<1>10. Indices(kn) = L /\ kn[1][1] = L[1]
  <2>1. Len(kn) = Len(L) /\ \A i \in 1 .. Len(L) : kn[i][1] = L[i]
    BY <1>5, <1>8
  <2>2. Indices(kn) = [i \in 1 .. Len(L) |-> L[i]]
    BY <2>1 DEF Indices
  <2>3. L = [i \in 1 .. Len(L) |-> L[i]]
    BY <1>3
  <2>4. 1 \in 1 .. Len(L)
    BY <1>3
  <2>5. QED
    BY <2>1, <2>2, <2>3, <2>4
<1>11. SentInOrder(T, 1, 0, tape2)
  <2>1. SentInOrder(T, 1, 0, tape)
    BY <1>0, <1>2 DEF Proving
  <2>2. QED
    BY <1>0, <1>3, <1>9, <2>1, SameNodes
<1>12. ReadInOrder(T, L[1], height, <<>>, tape2)
  <2>1. Sent(T, L[1], height) = {}
    BY <1>3 DEF Sent
  <2>2. Len(<<>>) = 0 /\ Cardinality({}) = 0 /\ 0 <= Len(tape2)
    BY <1>9, FS_EmptySet
  <2>3. QED
    BY <2>1, <2>2 DEF ReadInOrder
<1>13. OnAPath' = T
  BY <1>0, <1>2 DEF OnAPath, Leaf, k_data_length
<1>14. TypeOK' /\ Feeding' /\ Rooting' /\ Committed'
  <2>1. tampered' \in BOOLEAN
    BY <1>7
  <2>2. QED
    BY <1>0, <1>6, <1>8, <1>9, <2>1, TypeStands, TreeStands DEF TypeOK, Phases, Pairs
<1>15. Proving'
  <2>1. (SentInOrder(OnAPath, 1, 0, proof))'
    BY <1>0, <1>6, <1>11, <1>13 DEF SentInOrder
  <2>2. QED
    BY <1>0, <2>1 DEF Proving
<1>16. Reading'
  <2>1. (WalkAt(OnAPath, Indices(known), height))'
    BY <1>0, <1>3, <1>6, <1>10, <1>13 DEF WalkAt
  <2>2. (ReadInOrder(OnAPath, known[1][1], height, reads, proof))'
    BY <1>0, <1>1, <1>6, <1>10, <1>12, <1>13 DEF ReadInOrder
  <2>3. height \in 0 .. height'
    BY <1>0, <1>3 DEF WalkAt
  <2>4. QED
    BY <1>0, <2>1, <2>2, <2>3 DEF Reading
<1>17. Carried'
  <2>1. CASE kn = given /\ tampered' = FALSE /\ tape2 = tape
    <3>1. \A i \in 1 .. Len(kn) : kn[i][2] = kn[i][1]
      BY <1>5, <2>1
    <3>2. QED
      BY <1>1, <1>2, <1>6, <2>1, <3>1 DEF Carried
  <2>2. CASE (\E i \in DOMAIN given : kn = Tampered(given, i)) /\ tampered' = TRUE /\ tape2 = tape
    <3>1. \E i \in 1 .. Len(kn) : kn[i][2] = Wrong
      <4>1. PICK i \in DOMAIN given : kn = Tampered(given, i)
        BY <2>2
      <4>2. Len(kn) = Len(given) /\ i \in 1 .. Len(given) /\ kn[i][2] = Wrong
        BY <1>5, <4>1, TamperedSeq
      <4>3. QED
        BY <4>2
    <3>2. QED
      BY <1>6, <2>2, <3>1 DEF Carried
  <2>3. CASE (\E i \in DOMAIN tape : tape2 = Tampered(tape, i)) /\ tampered' = TRUE /\ kn = given
    <3>1. \E i \in 1 .. Len(tape2) : tape2[i][2] = Wrong
      <4>1. PICK i \in DOMAIN tape : tape2 = Tampered(tape, i)
        BY <2>3
      <4>2. tape \in Seq(Pairs)
        BY <1>1, <1>2
      <4>3. Len(tape2) = Len(tape) /\ i \in 1 .. Len(tape) /\ tape2[i][2] = Wrong
        BY <4>1, <4>2, TamperedSeq
      <4>4. QED
        BY <4>3
    <3>2. \E i \in 1 .. Len(tape2) : i > Len(<<>>) /\ tape2[i][2] = Wrong
      BY <3>1
    <3>3. QED
      BY <1>0, <1>1, <1>6, <2>3, <3>2 DEF Carried
  <2>4. QED
    BY <1>7, <2>1, <2>2, <2>3
<1>18. Waiting' /\ Judged'
  BY <1>0, <1>1 DEF Waiting, Judged
<1>19. QED
  BY <1>14, <1>15, <1>16, <1>17, <1>18 DEF IInv

\* The hash of a parent: right if both are, Wrong if one is.
LEMMA ParentHashes ==
  ASSUME TypeOK, NEW n \in Nat, n >= 2, NEW a \in Node \cup {Wrong}, NEW b \in Node \cup {Wrong}
  PROVE  /\ ParentHash(n, a, b) \in Node \cup {Wrong}
         /\ a = n /\ b = Sibling(n) => ParentHash(n, a, b) = n \div 2
         /\ a = Wrong \/ b = Wrong => ParentHash(n, a, b) = Wrong
<1>1. /\ Pow2[height + 1] \in Nat /\ Node = 1 .. Pow2[height + 1] - 1 /\ Wrong \notin Nat
  BY Sizes
<1>2. \A x, y \in Node \cup {Wrong} : Hash(x, y) \in Node \cup {Wrong}
  <2> SUFFICES ASSUME NEW x \in Node \cup {Wrong}, NEW y \in Node \cup {Wrong}
               PROVE  Hash(x, y) \in Node \cup {Wrong}
    OBVIOUS
  <2>1. CASE x \in Node /\ x % 2 = 0
    <3>1. x \in Nat /\ x >= 1 /\ x <= Pow2[height + 1] - 1
      BY <1>1, <2>1
    <3>2. x \div 2 \in Nat /\ x \div 2 >= 1 /\ x \div 2 <= x
      BY ONLY <2>1, <3>1
    <3>3. x \div 2 \in Node
      BY <1>1, <3>1, <3>2
    <3>4. QED
      BY <3>3 DEF Hash
  <2>2. CASE ~ (x \in Node /\ x % 2 = 0)
    BY <2>2 DEF Hash
  <2>3. QED
    BY <2>1, <2>2
<1>3. \A x, y : x = Wrong \/ y = Wrong => Hash(x, y) = Wrong
  BY DEF Hash
<1>4. \A x \in Nat : x % 2 = 0 => Hash(x, x + 1) = x \div 2
  <2> SUFFICES ASSUME NEW x \in Nat, x % 2 = 0 PROVE Hash(x, x + 1) = x \div 2
    OBVIOUS
  <2>1. x + 1 \in Nat
    OBVIOUS
  <2>2. x # Wrong /\ x + 1 # Wrong
    BY <1>1, <2>1
  <2>3. QED
    BY <2>2 DEF Hash
<1>5. n % 2 = 0 \/ n % 2 = 1
  OBVIOUS
<1>6. CASE n % 2 = 0
  <2>1. Sibling(n) = n + 1 /\ ParentHash(n, a, b) = Hash(a, b)
    BY <1>6 DEF Sibling, ParentHash
  <2>2. Hash(n, n + 1) = n \div 2
    BY <1>4, <1>6
  <2>3. QED
    BY <1>2, <1>3, <2>1, <2>2
<1>7. CASE n % 2 = 1
  <2>1. Sibling(n) = n - 1 /\ ParentHash(n, a, b) = Hash(b, a)
    BY <1>7 DEF Sibling, ParentHash
  <2>2. n - 1 \in Nat /\ (n - 1) % 2 = 0 /\ (n - 1) + 1 = n /\ (n - 1) \div 2 = n \div 2
    BY ONLY <1>7
  <2>3. Hash(n - 1, n) = n \div 2
    BY <1>4, <2>2
  <2>4. QED
    BY <1>2, <1>3, <2>1, <2>3
<1>8. QED
  BY <1>5, <1>6, <1>7

\* Two elements leave the queue, and one joins it.
LEMMA PoppedQueue ==
  ASSUME NEW S, NEW q \in Seq(S), q # <<>>, NEW e \in S
  PROVE  /\ Tail(q) # <<>> <=> Len(q) >= 2
         /\ Len(q) >= 2 => Head(Tail(q)) = q[2]
         /\ \A r : Len(q) >= 2 /\ r = Append(Tail(Tail(q)), e) =>
              /\ r \in Seq(S) /\ Len(r) = Len(q) - 1
              /\ \A i \in 1 .. Len(q) - 2 : r[i] = q[i + 2]
              /\ r[Len(q) - 1] = e
<1> DEFINE t == Tail(q)
<1>1. Len(q) \in Nat /\ Len(q) >= 1
  BY HeadOfQueue
<1>2. t \in Seq(S) /\ Len(t) = Len(q) - 1 /\ \A i \in 1 .. Len(t) : t[i] = q[i + 1]
  BY HeadTailProperties
<1> HIDE DEF t
<1>3. t # <<>> <=> Len(q) >= 2
  <2>1. t = <<>> <=> Len(t) = 0
    BY <1>2, EmptySeq
  <2>2. Len(q) - 1 = 0 <=> ~ (Len(q) >= 2)
    <3>1. \A l \in Nat : l >= 1 => (l - 1 = 0 <=> ~ (l >= 2))
      OBVIOUS
    <3>2. QED
      BY <1>1, <3>1, Zenon
  <2>3. QED
    BY <1>2, <2>1, <2>2
<1>4. ASSUME Len(q) >= 2 PROVE Head(t) = q[2]
  <2>1. Head(t) = t[1]
    BY <1>2, <1>3, <1>4, HeadOfQueue
  <2>2. 1 \in 1 .. Len(t) /\ 1 + 1 = 2
    BY ONLY <1>1, <1>2, <1>4
  <2>3. t[1] = q[1 + 1]
    BY <1>2, <2>2, Zenon
  <2>4. QED
    BY <2>1, <2>2, <2>3
<1>5. ASSUME NEW r, Len(q) >= 2, r = Append(Tail(t), e)
      PROVE  /\ r \in Seq(S) /\ Len(r) = Len(q) - 1
             /\ \A i \in 1 .. Len(q) - 2 : r[i] = q[i + 2]
             /\ r[Len(q) - 1] = e
  <2>1. t # <<>>
    BY <1>3, <1>5
  <2>2. r \in Seq(S) /\ Len(r) = Len(t)
    BY <1>2, <1>5, <2>1, PushedQueue
  <2>3. \A i \in 1 .. Len(t) - 1 : r[i] = t[i + 1]
    BY <1>2, <1>5, <2>1, PushedQueue
  <2>4. r[Len(t)] = e
    BY <1>2, <1>5, <2>1, PushedQueue
  <2>5. ASSUME NEW i \in 1 .. Len(q) - 2 PROVE r[i] = q[i + 2]
    <3>1. i \in 1 .. Len(t) - 1 /\ i + 1 \in 1 .. Len(t) /\ (i + 1) + 1 = i + 2
      BY ONLY <1>1, <1>2, <2>5
    <3>2. r[i] = t[i + 1] /\ t[i + 1] = q[(i + 1) + 1]
      BY <1>2, <2>3, <3>1
    <3>3. QED
      BY <3>1, <3>2
  <2>6. QED
    BY <1>2, <2>2, <2>4, <2>5
<1>6. QED
  BY <1>3, <1>4, <1>5 DEF t

\* The verifier's queue after a step: d nodes go, and the parent with its hash comes.
Replaced(T, kn, other, d, kn2) ==
  /\ d = IF Sibling(kn[1][1]) \in T THEN 2 ELSE 1
  /\ kn2 = Append(IF d = 2 THEN Tail(Tail(kn)) ELSE Tail(kn),
                  <<kn[1][1] \div 2, ParentHash(kn[1][1], kn[1][2], other)>>)

\* The same, entry by entry.
IsReplaced(T, kn, other, d, kn2) ==
  /\ kn2 \in Seq(Pairs) /\ Len(kn2) = Len(kn) - d + 1 /\ Len(kn) >= d
  /\ \A i \in 1 .. Len(kn) - d : kn2[i] = kn[i + d]
  /\ kn2[Len(kn) - d + 1] = <<kn[1][1] \div 2, ParentHash(kn[1][1], kn[1][2], other)>>
  /\ Stepped(T, Indices(kn), Indices(kn2))

\* The verifier's queue after a step: its indices have stepped, and the parent has
\* the hash of the head's and its sibling's.
LEMMA VerifierSteps ==
  ASSUME TypeOK, NEW T, IsPaths(T), NEW kn \in Seq(Pairs), NEW k, WalkAt(T, Indices(kn), k),
         kn[1][1] # 1, NEW other \in Node \cup {Wrong}, NEW kn2, NEW d, Replaced(T, kn, other, d, kn2)
  PROVE  IsReplaced(T, kn, other, d, kn2)
<1> DEFINE q == Indices(kn)
           n == kn[1][1]
           e == <<n \div 2, ParentHash(n, kn[1][2], other)>>
<1>0. kn \in Seq(Pairs) /\ (d = 2 => Sibling(n) \in T)
  BY DEF Replaced
<1>1. /\ Len(kn) \in Nat /\ \A i \in 1 .. Len(kn) : kn[i] \in Pairs
      /\ \A i \in 1 .. Len(kn) : kn[i][1] \in Node /\ kn[i][2] \in Node \cup {Wrong}
  BY LenProperties DEF Pairs
<1>2. Node \subseteq Nat /\ Node = 1 .. Pow2[height + 1] - 1
  BY Sizes
<1>3. q \in Seq(Nat) /\ Len(q) = Len(kn) /\ \A i \in 1 .. Len(kn) : q[i] = kn[i][1]
  <2>1. q = [i \in 1 .. Len(kn) |-> kn[i][1]]
    BY DEF Indices
  <2>2. q \in [1 .. Len(kn) -> Nat]
    BY <1>1, <1>2, <2>1
  <2>3. QED
    BY <1>1, <2>1, <2>2
<1> HIDE DEF q
<1>4. q # <<>> /\ WalkAt(T, q, k)
  BY DEF WalkAt, q
<1>5. Len(kn) >= 1 /\ kn # <<>>
  <2>1. Len(q) >= 1
    BY <1>3, <1>4, HeadOfQueue
  <2>2. kn = <<>> => Len(kn) = 0
    OBVIOUS
  <2>3. QED
    BY <1>3, <2>1, <2>2
<1>6. 1 \in 1 .. Len(kn) /\ q[1] = n
  <2>1. 1 \in 1 .. Len(kn)
    BY <1>1, <1>5
  <2>2. QED
    BY <1>3, <2>1
<1>7. Walking(T, q, k)
  BY <1>3, <1>4, <1>6 DEF Walking
<1>8. n >= 2 /\ n \in Nat /\ n \div 2 \in T
  BY <1>6, <1>7, WalkNumbers
<1>9. e \in Pairs /\ e[1] = n \div 2
  <2>1. kn[1][2] \in Node \cup {Wrong}
    BY <1>1, <1>6
  <2>2. ParentHash(n, kn[1][2], other) \in Node \cup {Wrong}
    BY <1>8, <2>1, ParentHashes
  <2>3. n \div 2 \in Node
    BY <1>2, <1>8 DEF IsPaths
  <2>4. QED
    BY <2>2, <2>3 DEF Pairs
<1>10. Sibling(n) \in T => Len(kn) >= 2
  BY <1>3, <1>6, <1>7, SiblingIsNext
<1> HIDE DEF n, e
<1>11. kn2 = Append(IF d = 2 THEN Tail(Tail(kn)) ELSE Tail(kn), e) /\ (d = 2 \/ d = 1)
  BY DEF e, n, Replaced
<1>12. /\ kn2 \in Seq(Pairs) /\ Len(kn2) = Len(kn) - d + 1 /\ Len(kn) >= d
       /\ \A i \in 1 .. Len(kn) - d : kn2[i] = kn[i + d]
       /\ kn2[Len(kn) - d + 1] = e
  <2>1. CASE d = 2
    <3>1. Len(kn) >= 2 /\ kn2 = Append(Tail(Tail(kn)), e)
      <4>1. Len(kn) >= 2
        BY <1>0, <1>10, <2>1, Zenon
      <4>2. QED
        BY <1>11, <2>1, <4>1, Zenon
    <3>2. /\ kn2 \in Seq(Pairs) /\ Len(kn2) = Len(kn) - 1
          /\ \A i \in 1 .. Len(kn) - 2 : kn2[i] = kn[i + 2]
          /\ kn2[Len(kn) - 1] = e
      <4>1. /\ kn2 \in Seq(Pairs) /\ Len(kn2) = Len(kn) - 1
            /\ kn2[Len(kn) - 1] = e
        BY ONLY <1>0, <1>5, <1>9, <3>1, PoppedQueue
      <4>2. \A i \in 1 .. Len(kn) - 2 : kn2[i] = kn[i + 2]
        BY ONLY <1>0, <1>5, <1>9, <3>1, PoppedQueue
      <4>3. QED
        BY <4>1, <4>2
    <3>3. Len(kn) - 2 + 1 = Len(kn) - 1
      BY ONLY <1>1
    <3>4. QED
      BY <2>1, <3>1, <3>2, <3>3
  <2>2. CASE d = 1
    <3>1. kn2 = Append(Tail(kn), e)
      BY <1>11, <2>2
    <3>2. kn2 \in Seq(Pairs) /\ Len(kn2) = Len(kn)
      BY ONLY <1>0, <1>5, <1>9, <3>1, PushedQueue
    <3>3. \A i \in 1 .. Len(kn) - 1 : kn2[i] = kn[i + 1]
      BY ONLY <1>0, <1>5, <1>9, <3>1, PushedQueue
    <3>4. kn2[Len(kn)] = e
      BY ONLY <1>0, <1>5, <1>9, <3>1, PushedQueue
    <3>5. Len(kn) - 1 + 1 = Len(kn)
      BY ONLY <1>1
    <3>6. QED
      BY <1>5, <2>2, <3>2, <3>3, <3>4, <3>5
  <2>3. QED
    BY <1>11, <2>1, <2>2
<1>13. Stepped(T, q, Indices(kn2))
  <2> DEFINE q2 == Indices(kn2)
             l == Len(kn) - d
  <2>1. l \in Nat /\ l + 1 = Len(kn2) /\ Len(kn2) \in Nat /\ l + d = Len(kn) /\ d \in Nat
    <3>1. \A x, y \in Nat : x >= y => x - y \in Nat /\ x - y + 1 \in Nat /\ (x - y) + y = x
      OBVIOUS
    <3>2. d \in Nat
      BY <1>11
    <3>3. QED
      BY <1>1, <1>12, <3>1, <3>2, ZenonT(60)
  <2>2. q2 = [i \in 1 .. Len(kn2) |-> kn2[i][1]]
    BY DEF Indices
  <2>3. \A i \in 1 .. Len(kn2) : kn2[i][1] \in Nat
    <3>1. \A i \in 1 .. Len(kn2) : kn2[i] \in Pairs
      BY ONLY <1>12, LenProperties
    <3>2. \A x \in Pairs : x[1] \in Nat
      BY <1>2 DEF Pairs
    <3>3. QED
      BY <3>1, <3>2, Zenon
  <2>4. q2 \in [1 .. Len(kn2) -> Nat]
    BY <2>2, <2>3
  <2>5. q2 \in Seq(Nat) /\ Len(q2) = Len(kn2) /\ \A i \in 1 .. Len(kn2) : q2[i] = kn2[i][1]
    <3> HIDE DEF q2
    <3>1. QED
      BY ONLY <2>1, <2>2, <2>4
  <2> HIDE DEF q2, l
  <2>6. ASSUME NEW i \in 1 .. l PROVE q2[i] = q[i + d]
    <3>1. i \in 1 .. Len(kn2) /\ i + d \in 1 .. Len(kn)
      BY ONLY <2>1, <2>6
    <3>2. kn2[i] = kn[i + d]
      BY <1>12 DEF l
    <3>3. QED
      BY ONLY <1>3, <2>5, <3>1, <3>2
  <2>7. q2[l + 1] = n \div 2
    <3>1. l + 1 \in 1 .. Len(kn2)
      BY ONLY <2>1
    <3>2. q2[l + 1] = kn2[l + 1][1]
      BY <2>5, <3>1
    <3>3. kn2[l + 1] = e
      BY <1>12 DEF l
    <3>4. QED
      BY <1>9, <3>2, <3>3
  <2>8. d = IF Sibling(q[1]) \in T THEN 2 ELSE 1
    BY <1>6 DEF n, Replaced
  <2>9. QED
    BY <1>3, <1>6, <2>1, <2>5, <2>6, <2>7, <2>8 DEF Stepped, l, q2
<1>14. QED
  BY <1>12, <1>13 DEF IsReplaced, q, e, n

\* The verifier's next hash of the walk, from the queue or from the tape.
LEMMA VerifyNodeStep ==
  ASSUME IInv, VerifyNode
  PROVE  IInv'
<1>0. /\ TypeOK /\ Waiting /\ Committed /\ Proving /\ Reading /\ Carried /\ phase = "verify"
      /\ UNCHANGED committing /\ UNCHANGED <<queries, queue, proof, tampered>>
      /\ height' = height
  BY DEF IInv, VerifyNode, proving, committing
<1>1. PICK T, kn, tape, read : T = OnAPath /\ kn = known /\ tape = proof /\ read = reads
  OBVIOUS
<1>2. PICK k \in 0 .. height :
        WalkAt(T, Indices(kn), k) /\ ReadInOrder(T, kn[1][1], k, read, tape)
  BY <1>0, <1>1 DEF Reading
<1>3. /\ kn \in Seq(Pairs) /\ tape \in Seq(Pairs) /\ read \in Seq(Node) /\ IsPaths(T)
      /\ SentInOrder(T, 1, 0, tape)
  BY <1>0, <1>1, PathsStand DEF TypeOK, Pairs, Proving
<1>4. kn # <<>>
  <2>1. Indices(kn) # <<>>
    BY <1>2 DEF WalkAt
  <2>2. Indices(<<>>) = <<>>
    BY DEF Indices
  <2>3. QED
    BY <2>1, <2>2
<1>5. Head(kn) = kn[1] /\ Len(kn) \in Nat /\ Len(kn) >= 1 /\ kn[1] \in Pairs
  BY <1>3, <1>4, HeadOfQueue
<1>6. PICK n, own : n = kn[1][1] /\ own = kn[1][2]
  OBVIOUS
<1>7. n # 1 /\ own \in Node \cup {Wrong} /\ Head(known)[1] = n /\ Head(known)[2] = own
  BY <1>1, <1>5, <1>6 DEF VerifyNode, Pairs
<1>8. Indices(kn)[1] = n
  <2>1. 1 \in 1 .. Len(kn)
    BY <1>5
  <2>2. QED
    BY <1>6, <2>1 DEF Indices
<1>9. PICK d : d = IF Sibling(n) \in T THEN 2 ELSE 1
  OBVIOUS
<1>10. Walking(T, Indices(kn), k) /\ (Sibling(n) \in T => Len(kn) >= 2)
  <2>1. Indices(kn) \in Seq(Nat) /\ Len(Indices(kn)) = Len(kn)
    <3>1. \A i \in 1 .. Len(kn) : kn[i] \in Pairs
      BY <1>3, LenProperties
    <3>2. \A x \in Pairs : x[1] \in Nat
      BY <1>0, Sizes DEF Pairs
    <3>3. Indices(kn) \in [1 .. Len(kn) -> Nat]
      BY <3>1, <3>2 DEF Indices
    <3>4. QED
      BY <1>5, <3>3
  <2>2. Walking(T, Indices(kn), k)
    BY <1>0, <1>2, <1>3, <1>7, <1>8, <2>1 DEF Walking
  <2>3. Sibling(n) \in T => Len(Indices(kn)) >= 2
    BY <1>8, <2>2, SiblingIsNext
  <2>4. QED
    BY <2>1, <2>2, <2>3
<1>11. n \in T /\ n >= 2 /\ n \in Nat /\ AtLevel(n, k)
  BY <1>2, <1>8, <1>10, WalkNumbers DEF WalkAt
<1>12. Sibling(n) \notin T => Len(read) < Len(tape) /\ tape[Len(read) + 1][1] = Sibling(n)
  BY <1>0, <1>2, <1>3, <1>6, <1>11, TapeIsAhead
<1>13. Len(tape) \in Nat /\ Len(read) \in Nat /\ \A i \in 1 .. Len(tape) : tape[i] \in Pairs
  BY <1>3, LenProperties
<1>14. PICK other : other = IF d = 2 THEN kn[2][2] ELSE tape[Len(read) + 1][2]
  OBVIOUS
<1>15. /\ Sibling(n) \in T => other = kn[2][2] /\ 2 \in 1 .. Len(kn)
       /\ Sibling(n) \notin T => other = tape[Len(read) + 1][2] /\ Len(read) + 1 \in 1 .. Len(tape)
  <2>1. Sibling(n) \in T => other = kn[2][2] /\ 2 \in 1 .. Len(kn)
    <3>1. Len(kn) >= 2 => 2 \in 1 .. Len(kn)
      BY ONLY <1>5
    <3>2. QED
      BY <1>9, <1>10, <1>14, <3>1
  <2>2. Sibling(n) \notin T => other = tape[Len(read) + 1][2] /\ Len(read) + 1 \in 1 .. Len(tape)
    <3>1. Len(read) < Len(tape) => Len(read) + 1 \in 1 .. Len(tape)
      BY ONLY <1>13
    <3>2. QED
      BY <1>9, <1>12, <1>14, <3>1
  <2>3. QED
    BY <2>1, <2>2
<1>16. other \in Node \cup {Wrong}
  <2>1. \A i \in 1 .. Len(kn) : kn[i] \in Pairs
    BY <1>3, LenProperties
  <2>2. \A x \in Pairs : x[2] \in Node \cup {Wrong}
    BY DEF Pairs
  <2>3. QED
    BY <1>13, <1>15, <2>1, <2>2
<1>17. SiblingKnown(n, Tail(kn)) <=> Sibling(n) \in T
  <2>1. Tail(kn) # <<>> <=> Len(kn) >= 2
    BY <1>3, <1>4, <1>5, PoppedQueue
  <2>2. Len(kn) >= 2 => Head(Tail(kn)) = kn[2]
    BY <1>3, <1>4, <1>5, PoppedQueue
  <2>3. Sibling(n) \in T => Len(kn) >= 2 /\ kn[2][1] = Sibling(n)
    <3>1. Sibling(n) \in T => Indices(kn)[2] = Sibling(n)
      BY <1>8, <1>10, SiblingIsNext
    <3>2. Sibling(n) \in T => Indices(kn)[2] = kn[2][1]
      BY <1>15 DEF Indices
    <3>3. QED
      BY <1>10, <3>1, <3>2
  <2>4. Len(kn) >= 2 /\ kn[2][1] = Sibling(n) => Sibling(n) \in T
    <3>1. ASSUME Len(kn) >= 2 PROVE Len(Indices(kn)) >= 2 /\ Indices(kn)[2] = kn[2][1]
      <4>1. 2 \in 1 .. Len(kn)
        BY ONLY <1>5, <3>1
      <4>2. Indices(kn) = [i \in 1 .. Len(kn) |-> kn[i][1]]
        BY DEF Indices
      <4>3. Len(Indices(kn)) = Len(kn)
        BY ONLY <1>5, <4>2
      <4>4. QED
        BY <3>1, <4>1, <4>2, <4>3
    <3>2. QED
      BY <1>8, <1>10, <3>1, SiblingIsNext
  <2>5. QED
    BY <2>1, <2>2, <2>3, <2>4 DEF SiblingKnown
<1>18. PICK kn2, read2 : kn2 = known' /\ read2 = reads'
  OBVIOUS
<1>19. /\ phase' = "verify" /\ verdict' = verdict
       /\ kn2 = Append(IF d = 2 THEN Tail(Tail(kn)) ELSE Tail(kn),
                       <<n \div 2, ParentHash(n, own, other)>>)
       /\ IF Sibling(n) \in T THEN read2 = read ELSE read2 = Append(read, Sibling(n))
  <2>1. CASE Sibling(n) \in T
    <3>1. Head(Tail(kn)) = kn[2]
      BY <1>3, <1>4, <1>5, <1>10, <2>1, PoppedQueue
    <3>2. /\ phase' = phase /\ verdict' = verdict /\ reads' = reads
          /\ known' = Append(Tail(Tail(kn)), <<n \div 2, ParentHash(n, own, Head(Tail(kn))[2])>>)
      BY <1>1, <1>7, <1>17, <2>1, Zenon DEF VerifyNode
    <3>3. QED
      BY <1>0, <1>1, <1>9, <1>15, <1>18, <2>1, <3>1, <3>2
  <2>2. CASE Sibling(n) \notin T
    <3>1. /\ phase' = phase /\ verdict' = verdict /\ reads' = Append(reads, Sibling(n))
          /\ known' = Append(Tail(kn), <<n \div 2, ParentHash(n, own, tape[Len(read) + 1][2])>>)
      BY <1>1, <1>7, <1>12, <1>17, <2>2, Zenon DEF VerifyNode
    <3>2. QED
      BY <1>0, <1>1, <1>9, <1>15, <1>18, <2>2, <3>1
  <2>3. QED
    BY <2>1, <2>2
<1>20. /\ kn2 \in Seq(Pairs) /\ Len(kn2) = Len(kn) - d + 1 /\ Len(kn) >= d
       /\ \A i \in 1 .. Len(kn) - d : kn2[i] = kn[i + d]
       /\ kn2[Len(kn) - d + 1] = <<n \div 2, ParentHash(n, own, other)>>
       /\ Stepped(T, Indices(kn), Indices(kn2))
  <2>1. Replaced(T, kn, other, d, kn2) /\ kn[1][1] # 1
    BY <1>6, <1>7, <1>9, <1>19, Zenon DEF Replaced
  <2>2. /\ kn2 \in Seq(Pairs) /\ Len(kn2) = Len(kn) - d + 1 /\ Len(kn) >= d
        /\ \A i \in 1 .. Len(kn) - d : kn2[i] = kn[i + d]
        /\ kn2[Len(kn) - d + 1] = <<kn[1][1] \div 2, ParentHash(kn[1][1], kn[1][2], other)>>
        /\ Stepped(T, Indices(kn), Indices(kn2))
    <3>1. TypeOK
      BY <1>0
    <3>2. QED
      <4>1. IsReplaced(T, kn, other, d, kn2)
        BY ONLY <1>2, <1>3, <1>16, <2>1, <3>1, VerifierSteps
      <4>2. QED
        BY <4>1 DEF IsReplaced
  <2>3. QED
    BY <1>6, <2>2, Zenon
<1>21. PICK k2 \in 0 .. height :
         /\ WalkAt(T, Indices(kn2), k2)
         /\ Passed(T, Indices(kn2)[1], k2) = Passed(T, n, k) \cup Gone(T, n)
  <2>1. Walking(T, Indices(kn), k) /\ Stepped(T, Indices(kn), Indices(kn2))
    BY ONLY <1>10, <1>20, Zenon
  <2>2. \E k2 \in 0 .. height :
          /\ WalkAt(T, Indices(kn2), k2)
          /\ Passed(T, Indices(kn2)[1], k2) = Passed(T, Indices(kn)[1], k) \cup Gone(T, Indices(kn)[1])
    BY ONLY <2>1, WalkStep
  <2>3. QED
    BY ONLY <1>8, <2>2, Zenon
<1>22. ReadInOrder(T, Indices(kn2)[1], k2, read2, tape)
  <2>1. TypeOK /\ ReadInOrder(T, n, k, read, tape) /\ ReadNext(T, n, read, read2)
    BY <1>0, <1>2, <1>6, <1>19 DEF ReadNext
  <2>2. tape \in Seq(Node \X (Node \cup {Wrong}))
    BY <1>3 DEF Pairs
  <2>3. QED
    BY ONLY <1>2, <1>3, <1>11, <1>21, <2>1, <2>2, ReadStep
<1>23. Len(kn2) \in Nat /\ (d = 1 \/ d = 2) /\ Indices(kn2)[1] = kn2[1][1]
  <2>1. d = 1 \/ d = 2
    BY <1>9
  <2>2. Len(kn2) \in Nat /\ 1 \in 1 .. Len(kn2)
    BY ONLY <1>5, <1>20, <2>1
  <2>3. QED
    BY <2>1, <2>2 DEF Indices
<1>24. read2 \in Seq(Node)
  <2>1. Sibling(n) \in Node
    BY <1>0, <1>3, <1>11, SiblingIsNode
  <2>2. Append(read, Sibling(n)) \in Seq(Node)
    BY ONLY <1>3, <2>1, AppendProperties
  <2>3. QED
    BY <1>3, <1>19, <2>2, Zenon
<1>25. OnAPath' = T
  BY <1>0, <1>1 DEF OnAPath, Leaf, k_data_length
<1>26. TypeOK' /\ Feeding' /\ Rooting' /\ Committed'
  BY <1>0, <1>18, <1>19, <1>20, <1>24, TypeStands, TreeStands DEF TypeOK, Phases, Pairs
<1>27. Proving'
  <2>1. (SentInOrder(OnAPath, 1, 0, proof))'
    BY <1>0, <1>1, <1>3, <1>25 DEF SentInOrder
  <2>2. QED
    BY <1>19, <2>1 DEF Proving
<1>28. Reading'
  <2>1. (WalkAt(OnAPath, Indices(known), k2))'
    BY <1>0, <1>18, <1>21, <1>25 DEF WalkAt
  <2>2. (ReadInOrder(OnAPath, known[1][1], k2, reads, proof))'
    BY <1>0, <1>1, <1>18, <1>22, <1>23, <1>25 DEF ReadInOrder
  <2>3. k2 \in 0 .. height'
    BY <1>0
  <2>4. QED
    BY <1>19, <2>1, <2>2, <2>3 DEF Reading
<1>29. Carried'
  <2>1. /\ \A x : x = <<n \div 2, ParentHash(n, own, other)>> =>
                  x[1] = n \div 2 /\ x[2] = ParentHash(n, own, other)
        /\ own = n /\ other = Sibling(n) => ParentHash(n, own, other) = n \div 2
        /\ own = Wrong \/ other = Wrong => ParentHash(n, own, other) = Wrong
    BY <1>0, <1>7, <1>11, <1>16, ParentHashes
  <2> DEFINE l == Len(kn) - d
  <2>2. l \in Nat /\ l + 1 = Len(kn2) /\ l + d = Len(kn) /\ d \in Nat
    <3>1. \A x, y \in Nat : x >= y => x - y \in Nat /\ (x - y) + y = x
      OBVIOUS
    <3>2. d \in Nat
      BY <1>23
    <3>3. QED
      BY <1>5, <1>20, <3>1, <3>2, Zenon
  <2>3. /\ \A i \in 1 .. l : kn2[i] = kn[i + d]
        /\ kn2[l + 1][1] = n \div 2 /\ kn2[l + 1][2] = ParentHash(n, own, other)
    BY <1>20, <2>1
  <2> HIDE DEF l
  <2>4. CASE ~ tampered
    <3>1. /\ \A i \in 1 .. Len(tape) : tape[i][2] = tape[i][1]
          /\ \A i \in 1 .. Len(kn) : kn[i][2] = kn[i][1]
      BY <1>0, <1>1, <2>4 DEF Carried
    <3>2. own = n
      <4>1. 1 \in 1 .. Len(kn)
        BY ONLY <1>5
      <4>2. QED
        BY <1>6, <3>1, <4>1
    <3>3. other = Sibling(n)
      <4>1. CASE Sibling(n) \in T
        <5>1. kn[2][1] = Sibling(n)
          <6>1. Indices(kn)[2] = Sibling(n)
            BY <1>8, <1>10, <4>1, SiblingIsNext
          <6>2. QED
            BY <1>15, <4>1, <6>1 DEF Indices
        <5>2. QED
          BY <1>15, <3>1, <4>1, <5>1
      <4>2. CASE Sibling(n) \notin T
        BY <1>12, <1>15, <3>1, <4>2
      <4>3. QED
        BY <4>1, <4>2
    <3>4. ASSUME NEW i \in 1 .. l + 1 PROVE kn2[i][2] = kn2[i][1]
      <4>1. CASE i \in 1 .. l
        <5>1. i + d \in 1 .. Len(kn)
          BY ONLY <2>2, <4>1
        <5>2. QED
          BY <2>3, <3>1, <4>1, <5>1
      <4>2. CASE i = l + 1
        BY <2>1, <2>3, <3>2, <3>3, <4>2
      <4>3. QED
        BY ONLY <2>2, <3>4, <4>1, <4>2
    <3>5. QED
      BY <1>0, <1>1, <1>18, <1>19, <2>2, <2>4, <3>1, <3>4 DEF Carried
  <2>5. CASE tampered
    <3>1. \/ \E i \in 1 .. Len(kn) : kn[i][2] = Wrong
          \/ \E i \in 1 .. Len(tape) : i > Len(read) /\ tape[i][2] = Wrong
      BY <1>0, <1>1, <2>5 DEF Carried
    <3>2. l + 1 \in 1 .. Len(kn2)
      BY ONLY <2>2
    <3>3. CASE \E i \in 1 .. Len(kn) : kn[i][2] = Wrong
      <4>1. PICK i \in 1 .. Len(kn) : kn[i][2] = Wrong
        BY <3>3
      <4>2. CASE i > d
        <5>1. i - d \in 1 .. l /\ (i - d) + d = i /\ i - d \in 1 .. Len(kn2)
          BY ONLY <2>2, <4>2
        <5>2. kn2[i - d] = kn[i]
          BY <2>3, <5>1
        <5>3. \E j \in 1 .. Len(kn2) : kn2[j][2] = Wrong
          BY <4>1, <5>1, <5>2
        <5>4. QED
          BY <1>0, <1>18, <1>19, <2>5, <5>3 DEF Carried
      <4>3. CASE ~ (i > d)
        <5>1. i = 1 \/ (i = 2 /\ d = 2)
          BY ONLY <1>23, <4>3
        <5>2. own = Wrong \/ other = Wrong
          BY <1>6, <1>14, <4>1, <5>1
        <5>3. \E j \in 1 .. Len(kn2) : kn2[j][2] = Wrong
          BY <2>1, <2>3, <3>2, <5>2
        <5>4. QED
          BY <1>0, <1>18, <1>19, <2>5, <5>3 DEF Carried
      <4>4. QED
        BY <4>2, <4>3
    <3>4. CASE \E i \in 1 .. Len(tape) : i > Len(read) /\ tape[i][2] = Wrong
      <4>1. PICK i \in 1 .. Len(tape) : i > Len(read) /\ tape[i][2] = Wrong
        BY <3>4
      <4>2. CASE Sibling(n) \in T
        BY <1>0, <1>1, <1>18, <1>19, <2>5, <4>1, <4>2 DEF Carried
      <4>3. CASE Sibling(n) \notin T /\ i = Len(read) + 1
        <5>1. other = Wrong
          BY <1>15, <4>1, <4>3
        <5>2. \E j \in 1 .. Len(kn2) : kn2[j][2] = Wrong
          BY <2>1, <2>3, <3>2, <5>1
        <5>3. QED
          BY <1>0, <1>18, <1>19, <2>5, <5>2 DEF Carried
      <4>4. CASE Sibling(n) \notin T /\ i # Len(read) + 1
        <5>1. Sibling(n) \in Node /\ read2 = Append(read, Sibling(n))
          BY <1>0, <1>3, <1>11, <1>19, <4>4, SiblingIsNode
        <5>2. Len(read2) = Len(read) + 1
          BY <1>3, <5>1, AppendProperties
        <5>3. i > Len(read2)
          BY ONLY <1>13, <4>1, <4>4, <5>2
        <5>4. QED
          BY <1>0, <1>1, <1>18, <1>19, <2>5, <4>1, <5>3 DEF Carried
      <4>5. QED
        BY <4>2, <4>3, <4>4
    <3>5. QED
      BY <3>1, <3>3, <3>4
  <2>6. QED
    BY <2>4, <2>5
<1>30. Waiting' /\ Judged'
  BY <1>0, <1>19 DEF Waiting, Judged
<1>31. QED
  BY <1>26, <1>27, <1>28, <1>29, <1>30 DEF IInv

\* At the root, all of the tape has been read; and the hash that has come there is
\* right exactly if nothing was changed.
LEMMA VerifyReturnStep ==
  ASSUME IInv, VerifyReturn
  PROVE  IInv'
<1>0. /\ TypeOK /\ Waiting /\ Committed /\ Proving /\ Reading /\ Carried /\ phase = "verify"
      /\ phase' = "done" /\ verdict' = IF Head(known)[2] = nodes_[1] THEN "accept" ELSE "reject"
      /\ UNCHANGED committing /\ UNCHANGED <<queries, queue, proof, known, reads, tampered>>
      /\ height' = height
  BY DEF IInv, VerifyReturn, proving, committing
<1>1. PICK T, kn, tape, read : T = OnAPath /\ kn = known /\ tape = proof /\ read = reads
  OBVIOUS
<1>2. PICK k \in 0 .. height :
        WalkAt(T, Indices(kn), k) /\ ReadInOrder(T, kn[1][1], k, read, tape)
  BY <1>0, <1>1 DEF Reading
<1>3. /\ kn \in Seq(Pairs) /\ tape \in Seq(Pairs) /\ IsPaths(T)
      /\ SentInOrder(T, 1, 0, tape)
  BY <1>0, <1>1, PathsStand DEF TypeOK, Pairs, Proving
<1>4. kn # <<>>
  <2>1. Indices(kn) # <<>>
    BY <1>2 DEF WalkAt
  <2>2. Indices(<<>>) = <<>>
    BY DEF Indices
  <2>3. QED
    BY <2>1, <2>2
<1>5. Head(kn) = kn[1] /\ Len(kn) \in Nat /\ Len(kn) >= 1
  BY <1>3, <1>4, HeadOfQueue
<1>6. kn[1][1] = 1 /\ 1 \in 1 .. Len(kn)
  <2>1. 1 \in 1 .. Len(kn)
    BY ONLY <1>5
  <2>2. Head(known)[1] = 1
    BY DEF VerifyReturn
  <2>3. QED
    BY <1>1, <1>5, <2>1, <2>2
<1>7. Indices(kn) \in Seq(Nat) /\ Len(Indices(kn)) = Len(kn) /\ Indices(kn)[1] = 1
  <2>1. \A i \in 1 .. Len(kn) : kn[i] \in Pairs
    BY <1>3, LenProperties
  <2>2. \A x \in Pairs : x[1] \in Nat
    BY <1>0, Sizes DEF Pairs
  <2>3. Indices(kn) = [i \in 1 .. Len(kn) |-> kn[i][1]]
    BY DEF Indices
  <2>4. Indices(kn) \in [1 .. Len(kn) -> Nat]
    BY <2>1, <2>2, <2>3
  <2>5. QED
    BY <1>5, <1>6, <2>3, <2>4
<1>8. k = 0 /\ Len(kn) = 1
  <2>1. PICK q : q = Indices(kn)
    OBVIOUS
  <2>2. /\ TypeOK /\ IsPaths(T) /\ q \in Seq(Nat) /\ WalkAt(T, q, k) /\ q[1] = 1
        /\ Len(q) = Len(kn)
    BY <1>0, <1>2, <1>3, <1>7, <2>1, Zenon
  <2>3. k = 0 /\ Len(q) = 1
    BY ONLY <2>2, WalkAtRoot
  <2>4. QED
    BY <2>2, <2>3
<1>9. ReadInOrder(T, 1, 0, read, tape) /\ Len(read) = Len(tape) /\ Len(tape) \in Nat
  BY <1>2, <1>3, <1>6, <1>8, LenProperties DEF ReadInOrder, SentInOrder
<1>10. nodes_[1] = 1 /\ Wrong # 1
  <2>1. 1 \in Node
    BY <1>0, Sizes DEF Node
  <2>2. QED
    BY <1>0, <2>1, Sizes DEF Committed, Right
<1>11. kn[1][2] = 1 <=> ~ tampered
  <2>1. CASE ~ tampered
    BY <1>0, <1>1, <1>6, <2>1 DEF Carried
  <2>2. CASE tampered
    <3>1. \/ \E i \in 1 .. Len(kn) : kn[i][2] = Wrong
          \/ \E i \in 1 .. Len(tape) : i > Len(read) /\ tape[i][2] = Wrong
      BY <1>0, <1>1, <2>2 DEF Carried
    <3>2. \A i \in 1 .. Len(tape) : ~ (i > Len(read))
      BY ONLY <1>9
    <3>3. \A i \in 1 .. Len(kn) : i = 1
      BY ONLY <1>8
    <3>4. kn[1][2] = Wrong
      BY <3>1, <3>2, <3>3
    <3>5. QED
      BY <1>10, <2>2, <3>4
  <2>3. QED
    BY <2>1, <2>2
<1>12. OnAPath' = T
  BY <1>0, <1>1 DEF OnAPath, Leaf, k_data_length
<1>13. TypeOK' /\ Feeding' /\ Rooting' /\ Committed'
  <2>1. verdict' \in {"none", "accept", "reject"}
    BY <1>0
  <2>2. QED
    BY <1>0, <2>1, TypeStands, TreeStands DEF TypeOK, Phases
<1>14. Proving'
  <2>1. (SentInOrder(OnAPath, 1, 0, proof))'
    BY <1>0, <1>1, <1>3, <1>12 DEF SentInOrder
  <2>2. QED
    BY <1>0, <2>1 DEF Proving
<1>15. Reading'
  <2>1. (ReadInOrder(OnAPath, 1, 0, reads, proof))'
    BY <1>0, <1>1, <1>9, <1>12 DEF ReadInOrder
  <2>2. QED
    BY <1>0, <2>1 DEF Reading
<1>16. Carried'
  BY <1>0 DEF Carried
<1>17. Judged'
  BY <1>0, <1>1, <1>5, <1>10, <1>11 DEF Judged
<1>18. Waiting'
  BY <1>0 DEF Waiting
<1>19. QED
  BY <1>13, <1>14, <1>15, <1>16, <1>17, <1>18 DEF IInv

-----------------------------------------------------------------------------
\* The steps before the decommitment.

LEMMA BeforeQueries ==
  ASSUME Waiting, phase \in {"feed", "root"}, phase' \in {"feed", "root", "committed"},
         UNCHANGED <<proving, verifying>>
  PROVE  Waiting' /\ Proving' /\ Reading' /\ Carried' /\ Judged'
<1>1. UNCHANGED <<queries, queue, proof, known, reads, tampered, verdict>>
  BY DEF proving, verifying
<1>2. QED
  BY <1>1 DEF Waiting, Proving, Reading, Carried, Judged

\* AddData's steps keep the invariant.
LEMMA FeedSteps ==
  ASSUME IInv, NEW s \in Segment, AddDataCopy(s) \/ AddDataHash(s)
  PROVE  IInv'
<1>0. /\ TypeOK /\ Waiting /\ Feeding /\ phase = "feed" /\ phase' = "feed"
      /\ UNCHANGED <<proving, verifying>>
      /\ UNCHANGED <<height, log_segment, next_root_node, phase>>
      /\ UNCHANGED <<queries, queue, proof, known, reads, tampered, verdict>>
  BY DEF IInv, AddDataCopy, AddDataHash, proving, verifying
<1>1. /\ Feeding' /\ nodes_' \in [Cell -> Cell \cup {Wrong}]
      /\ adding' \in [Segment -> [cur : Nat, length : Nat, i : Nat, copied : BOOLEAN]]
  BY <1>0, AddDataCopyStep, AddDataHashStep
<1>2. Node' = Node /\ Cell' = Cell /\ Segment' = Segment /\ k_data_length' = k_data_length
  BY <1>0 DEF k_data_length, Node, Cell, Segment
<1>3. TypeOK'
  BY <1>0, <1>1, <1>2 DEF TypeOK
<1>4. Rooting' /\ Committed'
  BY <1>0 DEF Rooting, Committed
<1>5. QED
  BY <1>0, <1>1, <1>3, <1>4, BeforeQueries DEF IInv

\* GetRoot's steps keep the invariant.
LEMMA RootSteps ==
  ASSUME IInv, GetRootStart \/ GetRootHash \/ GetRootReturn
  PROVE  IInv'
<1>0. /\ TypeOK /\ Waiting /\ Feeding /\ Rooting /\ phase \in {"feed", "root"}
      /\ UNCHANGED <<proving, verifying>> /\ UNCHANGED <<height, log_segment, adding>>
      /\ UNCHANGED <<queries, queue, proof, known, reads, tampered, verdict>>
      /\ phase' \in {"root", "committed"}
  BY DEF IInv, GetRootStart, GetRootHash, GetRootReturn, Rooting, proving, verifying, committing
<1>1. Node' = Node /\ Cell' = Cell /\ Segment' = Segment /\ k_data_length' = k_data_length
  BY <1>0 DEF k_data_length, Node, Cell, Segment
<1>2. /\ nodes_' \in [Cell -> Cell \cup {Wrong}] /\ next_root_node' \in Nat
      /\ Rooting' /\ Committed'
  <2>1. CASE GetRootStart
    <3>1. nodes_' = nodes_ /\ phase' = "root"
      BY <2>1 DEF GetRootStart
    <3>2. Rooting' /\ next_root_node' \in Nat
      BY <1>0, <2>1, GetRootStartStep
    <3>3. QED
      BY <1>0, <3>1, <3>2 DEF TypeOK, Committed
  <2>2. CASE GetRootHash
    <3>1. phase' = "root"
      BY <2>2 DEF GetRootHash
    <3>2. Rooting' /\ next_root_node' \in Nat /\ nodes_' \in [Cell -> Cell \cup {Wrong}]
      BY <1>0, <2>2, GetRootHashStep
    <3>3. QED
      BY <3>1, <3>2 DEF Committed
  <2>3. CASE GetRootReturn
    <3>1. phase' = "committed" /\ nodes_' = nodes_ /\ next_root_node' = next_root_node
      BY <2>3 DEF GetRootReturn, committing
    <3>2. Right(Node)
      BY <1>0, <2>3, GetRootReturnStep
    <3>3. Committed'
      BY <1>1, <3>1, <3>2 DEF Committed, Right
    <3>4. Rooting'
      BY <3>1 DEF Rooting
    <3>5. QED
      BY <1>0, <3>1, <3>3, <3>4 DEF TypeOK
  <2>4. QED
    BY <2>1, <2>2, <2>3
<1>3. TypeOK'
  BY <1>0, <1>1, <1>2 DEF TypeOK, Phases
<1>4. Feeding'
  BY <1>0 DEF Feeding
<1>5. QED
  BY <1>0, <1>2, <1>3, <1>4, BeforeQueries DEF IInv

-----------------------------------------------------------------------------
\* The invariant, for every height and every constant.

LEMMA InitialTree ==
  ASSUME Init
  PROVE  IInv
<1>0. /\ height \in 0 .. MaxHeight /\ log_segment \in 0 .. height
      /\ nodes_ = [n \in Cell |-> Wrong]
      /\ adding = [s \in Segment |->
           [cur |-> FirstParent(s), length |-> Pow2[log_segment] \div 2,
            i |-> FirstParent(s), copied |-> FALSE]]
      /\ next_root_node = 0 /\ phase = "feed" /\ queries = {} /\ queue = <<>> /\ proof = <<>>
      /\ known = <<>> /\ reads = <<>> /\ tampered = FALSE /\ verdict = "none"
  BY DEF Init
<1>1. /\ height \in Nat /\ log_segment \in Nat /\ height - log_segment \in Nat
      /\ Pow2[height] \in Nat /\ Pow2[log_segment] \in Nat /\ k_data_length = Pow2[height]
  <2>1. height \in Nat /\ log_segment \in Nat /\ height - log_segment \in Nat
    BY <1>0, TreeAssumption
  <2>2. QED
    BY <2>1, Pow2Values DEF k_data_length
<1>2. \A s \in Segment : s \in Nat
  BY DEF Segment
<1>3. ASSUME NEW s \in Segment PROVE FirstParent(s) \in Nat /\ Pow2[log_segment] \div 2 \in Nat
  <2>1. \A x, y, z \in Nat : (x * y + z) \div 2 \in Nat /\ y \div 2 \in Nat
    OBVIOUS
  <2>2. QED
    BY <1>1, <1>2, <2>1 DEF FirstParent, Leaf
<1>4. adding \in [Segment -> [cur : Nat, length : Nat, i : Nat, copied : BOOLEAN]]
  BY <1>0, <1>3
<1>5. TypeOK
  BY <1>0, <1>4, EmptySeq DEF TypeOK, Phases
<1>6. ASSUME NEW s \in Segment PROVE NotCopied(s)
  <2>1. /\ adding[s].cur = FirstParent(s) /\ adding[s].length = Pow2[log_segment] \div 2
        /\ adding[s].i = FirstParent(s) /\ adding[s].copied = FALSE
    BY <1>0
  <2>2. CASE log_segment = 0
    <3>1. Pow2[log_segment] = 1
      BY <2>2, Pow2Values
    <3>2. adding[s].length = 0
      BY ONLY <2>1, <3>1
    <3>3. QED
      BY <2>1, <2>2, <3>2 DEF NotCopied
  <2>3. CASE log_segment > 0
    <3> DEFINE j == log_segment - 1
               d == height - log_segment
    <3>1. j \in Nat /\ d \in Nat /\ j + 1 = log_segment /\ (d + j) + 1 = height /\ d + j \in Nat
      BY ONLY <1>1, <2>3
    <3>2. /\ Pow2[j + 1] = 2 * Pow2[j] /\ Pow2[j] \in Nat /\ Pow2[j] >= 1
          /\ Pow2[(d + j) + 1] = 2 * Pow2[d + j] /\ Pow2[d + j] \in Nat /\ Pow2[d] \in Nat
      <4> HIDE DEF j, d
      <4>1. QED
        BY <3>1, Pow2Values
    <3>3. (Pow2[d] + s) * Pow2[j] = Pow2[d + j] + s * Pow2[j]
      <4> HIDE DEF j, d
      <4>1. QED
        BY <1>2, <3>1, RowStart
    <3>4. Pow2[log_segment] = 2 * Pow2[j] /\ Pow2[height] = 2 * Pow2[d + j]
      BY <3>1, <3>2, Zenon
    <3>5. FirstParent(s) = (s * Pow2[log_segment] + Pow2[height]) \div 2
      BY <1>1 DEF FirstParent, Leaf
    <3>6. SegmentRoot(s) = Pow2[d] + s
      BY DEF SegmentRoot
    <3> HIDE DEF j, d
    <3>7. \A x, y, z \in Nat : (x * (2 * y) + 2 * z) \div 2 = z + x * y
      <4> SUFFICES ASSUME NEW x \in Nat, NEW y \in Nat, NEW z \in Nat
                   PROVE  (x * (2 * y) + 2 * z) \div 2 = z + x * y
        OBVIOUS
      <4>1. PICK w \in Nat : w = x * y
        OBVIOUS
      <4>2. x * (2 * y) = 2 * (x * y)
        OBVIOUS
      <4>3. x * (2 * y) + 2 * z = 2 * (z + w)
        BY <4>1, <4>2
      <4>4. (2 * (z + w)) \div 2 = z + w
        OBVIOUS
      <4>5. QED
        BY <4>1, <4>3, <4>4
    <3>8. FirstParent(s) = SegmentRoot(s) * Pow2[j]
      BY <1>2, <3>2, <3>3, <3>4, <3>5, <3>6, <3>7
    <3>9. adding[s].length = Pow2[j]
      BY ONLY <2>1, <3>2, <3>4
    <3>10. FirstParent(s) \in Row(SegmentRoot(s), j)
      <4>1. PICK c : c = SegmentRoot(s) * Pow2[j]
        OBVIOUS
      <4>2. c \in Nat
        BY <1>3, <3>8, <4>1
      <4>3. c \in c .. c + Pow2[j] - 1
        BY ONLY <3>2, <4>2
      <4>4. QED
        BY <3>8, <4>1, <4>3 DEF Row
    <3>11. HashesRow(s, j)
      BY <2>1, <3>8, <3>9, <3>10 DEF HashesRow
    <3>12. QED
      BY <2>1, <2>3, <3>11 DEF NotCopied, j
  <2>4. QED
    BY <1>1, <2>2, <2>3
<1>7. Feeding
  BY <1>6 DEF Feeding
<1>8. QED
  BY <1>0, <1>5, <1>7 DEF IInv, Waiting, Rooting, Committed, Proving, Reading, Carried, Judged

\* A step that changes nothing keeps the invariant.
LEMMA StutteringStep ==
  ASSUME IInv, UNCHANGED vars
  PROVE  IInv'
<1>1. /\ UNCHANGED <<height, log_segment, nodes_, adding, next_root_node, phase>>
      /\ UNCHANGED <<queries, queue, proof, known, reads, tampered, verdict>>
  BY DEF vars, committing, proving, verifying
<1>2. Node' = Node /\ Cell' = Cell /\ Segment' = Segment /\ k_data_length' = k_data_length
      /\ OnAPath' = OnAPath
  BY <1>1 DEF k_data_length, Node, Cell, Segment, OnAPath, Leaf
<1>3. TypeOK' /\ Waiting'
  BY <1>1, <1>2 DEF IInv, TypeOK, Waiting
<1>4. Feeding'
  BY <1>1, <1>2 DEF IInv, Feeding, NotCopied, Added, Hashing, HashesRow, RightFrom, Right, SegmentRoot
<1>5. Rooting' /\ Committed'
  BY <1>1, <1>2 DEF IInv, Rooting, Committed, Right
<1>6. Proving'
  BY <1>1, <1>2 DEF IInv, Proving, WalkAt, SentInOrder
<1>7. Reading'
  BY <1>1, <1>2 DEF IInv, Reading, WalkAt, ReadInOrder
<1>8. Carried' /\ Judged'
  BY <1>1 DEF IInv, Carried, Judged
<1>9. QED
  BY <1>3, <1>4, <1>5, <1>6, <1>7, <1>8 DEF IInv

\* Every reachable state, of every thread order, satisfies the invariant.
THEOREM InvariantTheorem == Spec => []IInv
<1>1. Init => IInv
  BY InitialTree
<1>2. IInv /\ [Next]_vars => IInv'
  <2> SUFFICES ASSUME IInv, [Next]_vars PROVE IInv'
    OBVIOUS
  <2>1. ASSUME NEW s \in Segment, AddDataCopy(s) \/ AddDataHash(s) PROVE IInv'
    BY <2>1, FeedSteps
  <2>2. CASE GetRootStart \/ GetRootHash \/ GetRootReturn
    BY <2>2, RootSteps
  <2>3. CASE GenerateDecommitmentStart
    BY <2>3, GenerateDecommitmentStartStep
  <2>4. CASE GenerateDecommitmentNode
    BY <2>4, GenerateDecommitmentNodeStep
  <2>5. CASE GenerateDecommitmentReturn
    BY <2>5, GenerateDecommitmentReturnStep
  <2>6. CASE VerifyStart
    BY <2>6, VerifyStartStep
  <2>7. CASE VerifyNode
    BY <2>7, VerifyNodeStep
  <2>8. CASE VerifyReturn
    BY <2>8, VerifyReturnStep
  <2>9. CASE Finished \/ UNCHANGED vars
    BY <2>9, StutteringStep DEF Finished
  <2>10. QED
    BY <2>1, <2>2, <2>3, <2>4, <2>5, <2>6, <2>7, <2>8, <2>9 DEF Next
<1>3. QED
  BY <1>1, <1>2, PTL DEF Spec

\* GetRoot leaves every node right, whatever the order in which the segments' threads
\* were scheduled and from any depth that the segments complete (merkle.h).
THEOREM EveryNodeRightTheorem == Spec => []EveryNodeRight
<1>1. IInv => EveryNodeRight
  BY DEF IInv, Committed, Right, EveryNodeRight
<1>2. QED
  BY <1>1, InvariantTheorem, PTL

\* The decommitment is the siblings of the paths that are on none, each once, and
\* VerifyDecommitment reads them in the order in which GenerateDecommitment sent them,
\* to the last one.
THEOREM ReadsWhatWasSentTheorem == Spec => []ReadsWhatWasSent
<1>1. IInv => ReadsWhatWasSent
  <2> SUFFICES ASSUME IInv PROVE ReadsWhatWasSent
    OBVIOUS
  <2>1. TypeOK /\ Proving /\ Reading
    BY DEF IInv
  <2>2. proof \in Seq(Pairs) /\ reads \in Seq(Node)
    BY <2>1 DEF TypeOK, Pairs
  <2>3. /\ DOMAIN proof = 1 .. Len(proof) /\ Len(proof) \in Nat
        /\ DOMAIN reads = 1 .. Len(reads) /\ Len(reads) \in Nat
    BY <2>2, LenProperties
  <2>4. ASSUME phase \in {"sent", "verify", "done"}
        PROVE  /\ {proof[i][1] : i \in DOMAIN proof} = {Sibling(n) : n \in OnAPath \ {1}} \ OnAPath
               /\ Len(proof) = Cardinality({proof[i][1] : i \in DOMAIN proof})
    <3>1. Range(Indices(proof)) = Sent(OnAPath, 1, 0) /\ Len(proof) = Cardinality(Sent(OnAPath, 1, 0))
      BY <2>1, <2>4 DEF Proving, SentInOrder
    <3>2. Range(Indices(proof)) = {proof[i][1] : i \in DOMAIN proof}
      BY <2>3 DEF Range, Indices
    <3>3. Passed(OnAPath, 1, 0) = OnAPath \ {1}
      <4>1. Pow2[0] = 1 /\ Pow2[0 + 1] = 2
        <5>1. 0 + 1 = 1
          OBVIOUS
        <5>2. QED
          BY <5>1, Pow2Values
      <4>2. \A m \in OnAPath : m \in Nat /\ m >= 1
        BY <2>1, Sizes, PathsStand DEF IsPaths
      <4>3. \A m \in OnAPath : (m >= 2 \/ (1 <= m /\ m < 1)) <=> m # 1
        BY <4>2
      <4>4. QED
        BY <4>1, <4>3 DEF Passed
    <3>4. Sent(OnAPath, 1, 0) = {Sibling(n) : n \in OnAPath \ {1}} \ OnAPath
      BY <3>3 DEF Sent
    <3>5. QED
      BY <3>1, <3>2, <3>4
  <2>5. ASSUME phase \in {"verify", "done"}, NEW k \in DOMAIN reads
        PROVE  k <= Len(proof) /\ reads[k] = proof[k][1]
    <3>1. Len(reads) <= Len(proof) /\ \A i \in 1 .. Len(reads) : reads[i] = proof[i][1]
      BY <2>1, <2>5 DEF Reading, ReadInOrder
    <3>2. k <= Len(proof)
      BY ONLY <2>3, <2>5, <3>1
    <3>3. QED
      BY <2>3, <3>1, <3>2
  <2>6. phase = "done" => Len(reads) = Len(proof)
    BY <2>1 DEF Proving, Reading, SentInOrder, ReadInOrder
  <2>7. QED
    BY <2>4, <2>5, <2>6 DEF ReadsWhatWasSent
<1>2. QED
  BY <1>1, InvariantTheorem, PTL

\* VerifyDecommitment accepts what the prover committed to and sent, and a change of
\* any one leaf's or any one sent node's hash makes it reject.
THEOREM AcceptsOnlyTheDataTheorem == Spec => []AcceptsOnlyTheData
<1>1. IInv => AcceptsOnlyTheData
  BY DEF IInv, Judged, AcceptsOnlyTheData
<1>2. QED
  BY <1>1, InvariantTheorem, PTL
=============================================================================
