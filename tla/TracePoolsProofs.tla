--------------------------- MODULE TracePoolsProofs ---------------------------
(***************************************************************************)
(* GetTrace makes a trace of every statement that fits, and of no other.   *)
(***************************************************************************)
EXTENDS TracePools, FiniteSetTheorems, SequenceTheorems, TLAPS

-----------------------------------------------------------------------------
\* GetTrace from one of its stages on.
FromInteraction == {"interaction", "done"}
FromRcSort == {"rc sort"} \cup FromInteraction
FromSort == {"sort"} \cup FromRcSort
FromMemFill == {"mem fill"} \cup FromSort
FromMemFinalize == {"mem finalize"} \cup FromMemFill
FromBuiltinFinalize == {"builtin finalize"} \cup FromMemFinalize
FromRcFill == {"rc fill"} \cup FromBuiltinFinalize
FromRcFinalize == {"rc finalize"} \cup FromRcFill
FromBuiltin == {"builtin"} \cup FromRcFinalize
FromPublic == {"public"} \cup FromBuiltin

\* What has been written at stage s with loop counter n: entry k of the public
\* memory, instance i of the builtin, and the cells that are filled with what is
\* missing.
PublicDoneAt(s, n, k) == s \in FromBuiltin \/ (s = "public" /\ k < n)
RcFilledAt(s, n, k) == s \in FromBuiltinFinalize \/ (s = "rc fill" /\ k < n)
InstanceDoneAt(s, n, i) == s \in FromMemFinalize \/ (s = "builtin finalize" /\ i + 1 < n)
MemFilledAt(s, n, j) == s \in FromSort \/ (s = "mem fill" /\ j < n)

PublicDone(k) == PublicDoneAt(stage, next, k)
PartsDone == stage \in FromRcFinalize
RcFilled(k) == RcFilledAt(stage, next, k)
InstanceDone(i) == InstanceDoneAt(stage, next, i)
MemFilled(j) == MemFilledAt(stage, next, j)

Part == 0 .. (n_parts - 1)
PrivateParts == {PartIndex(i, part) : i \in DOMAIN in.private, part \in Part}
RcFree == RcIndices \ (Steps \cup PrivateParts)
MemFree == (n_steps + PublicSize + n_instances + 1) .. (n_steps + PublicSize + n_instances + MemVacant)
InstanceAddress(i) == Word(begin_addr + i)
Parts(i) == [part \in Part |-> rc[PartIndex(i, part)]]
AllAddresses == GivenAddresses \cup FilledAddresses

Types ==
  /\ in \in Inputs
  /\ pc \in [Steps -> {"start", "locked", "accessed", "done"}]
  /\ write_trace_lock_ \in {NoOne} \cup Steps
  /\ read_range \in [Steps -> (0..MaxWord) \X (0..MaxWord)]
  /\ cell \in [MemIndices -> {Empty} \cup ((0..MaxWord) \X Nat)]
  /\ column \in [MemIndices -> (0..MaxWord) \X Nat]
  /\ address_min_ \in 0..MaxWord /\ address_max_ \in 0..MaxWord
  /\ rc \in [RcIndices -> {Empty} \cup Nat]
  /\ stage \in {"cpu"} \cup FromPublic /\ next \in Nat \ {0}
  /\ used \subseteq 0..MaxWord /\ last_hole \in 0..MaxWord /\ orig_address_max \in 0..MaxWord
  /\ sorted \in Seq(MemIndices)

\* The lock is held by the step that has read the range, and nobody has changed
\* the range since.
Locking ==
  /\ \A t \in Steps : pc[t] = "locked" <=> write_trace_lock_ = t
  /\ \A t \in Steps : pc[t] = "locked" => read_range[t] = range
  /\ stage # "cpu" => \A t \in Steps : pc[t] = "done"

\* Every cell of the memory pool is written once, by its component.
MemCells ==
  /\ \A t \in Steps : cell[t] = IF pc[t] = "start" THEN Empty ELSE Access(t)
  /\ \A k \in 1..PublicSize :
       cell[PublicIndex(k)] = IF PublicDone(k) THEN PublicEntry(k) ELSE Empty
  /\ \A i \in Instances :
       cell[InstanceIndex(i)]
         = IF InstanceDone(i) THEN <<InstanceAddress(i), FromParts(Parts(i))>> ELSE Empty
  /\ \A j \in MemFree :
       IF MemFilled(j) THEN cell[j] # Empty /\ cell[j][1] \notin AllAddresses /\ cell[j][2] = 0
                       ELSE cell[j] = Empty

\* The columns show what was written but for the public memory.
Columns ==
  /\ public_input_indices_ = {PublicIndex(k) : k \in {k \in 1..PublicSize : PublicDone(k)}}
  /\ \A i \in MemIndices :
       IF i \in public_input_indices_ THEN column[i] = <<0, 0>>
       ELSE cell[i] # Empty /\ (i \in Steps => pc[i] # "locked") => column[i] = cell[i]

\* The range is that of the cells, but for the one of the step under the lock.
Counted == {i \in MemIndices : cell[i] # Empty /\ (i \in Steps => pc[i] # "locked")}
RangeOfCells ==
  /\ \A i \in Counted : address_min_ <= cell[i][1] /\ cell[i][1] <= address_max_
  /\ Counted = {} => address_min_ = MaxWord /\ address_max_ = 0
  /\ Counted # {} => /\ \E i \in Counted : cell[i][1] = address_min_
                     /\ \E i \in Counted : cell[i][1] = address_max_

\* And so is every value of the range-check pool.
RcCells ==
  /\ \A t \in Steps : rc[t] = IF pc[t] = "done" THEN in.offset[t] ELSE Empty
  /\ \A i \in DOMAIN in.private : \A part \in Part :
       rc[PartIndex(i, part)] = IF PartsDone THEN PartOf(in.private[i], part) ELSE Empty
  /\ \A k \in RcFree : IF RcFilled(k) THEN rc[k] # Empty ELSE rc[k] = Empty

InputsRead ==
  /\ stage \in FromBuiltin => Len(in.public) <= PublicSize
  /\ PartsDone => \A i \in DOMAIN in.private : in.private[i] < Power[n_parts]

\* Finalize of the range-check pool: every value below the frontier is in the
\* pool, and while one above it is missing, no free cell has been wasted.
RcFrontier == Word(last_hole + 1)
RcFilling ==
  stage = "rc fill" =>
    /\ in.rc_min < in.rc_max /\ used = GivenRc /\ GivenRc \subseteq in.rc_min .. in.rc_max
    /\ RcFrontier \in in.rc_min .. (in.rc_max + 1)
    /\ \A v \in in.rc_min .. (RcFrontier - 1) : v \in Contents(rc)
    /\ \A k \in RcFree : k < next => rc[k] \in in.rc_min .. (RcFrontier - 1)
    /\ \A v \in RcFrontier .. in.rc_max : v \notin used =>
         \A k \in RcFree : k < next =>
           rc[k] \notin used /\ \A j \in RcFree : j < k => rc[j] < rc[k]
RcFull ==
  stage \in FromBuiltinFinalize => RcFits /\ Contents(rc) = in.rc_min .. in.rc_max

\* Finalize of the memory pool, the same.
MemFilling ==
  stage = "mem fill" =>
    /\ used = AllAddresses
    /\ address_min_ \in used /\ orig_address_max \in used
    /\ used \subseteq address_min_ .. orig_address_max
    /\ address_max_ \in {orig_address_max, orig_address_max + 1}
    /\ last_hole \in address_min_ .. (orig_address_max + 1)
    /\ \A a \in address_min_ .. (last_hole - 1) : a \in Addresses
    /\ address_max_ = orig_address_max + 1 => last_hole = orig_address_max + 1
    /\ \A a \in HolesFrom(last_hole) : \A j \in MemFree : j < next =>
         cell[j][1] < last_hole /\ \A i \in MemFree : i < j => cell[i][1] < cell[j][1]
MemFull ==
  stage \in FromSort => MemFits /\ Addresses = address_min_ .. address_max_

\* The rows so far are cells in the order of their addresses, each once, and
\* equal addresses have shown equal values.
Sorting ==
  /\ stage \notin FromSort => sorted = <<>>
  /\ \A k, l \in DOMAIN sorted : k < l =>
       /\ sorted[k] # sorted[l]
       /\ cell[sorted[k]][1] <= cell[sorted[l]][1]
       /\ cell[sorted[k]][1] = cell[sorted[l]][1] => cell[sorted[k]] = cell[sorted[l]]
  /\ \A k \in DOMAIN sorted : \A i \in Left : cell[sorted[k]][1] <= cell[i][1]
  /\ stage \in FromRcSort => Left = {}

\* What is wrong with a statement that no trace is made for.
Unfit ==
  \/ ~InputsFit \/ ~MemFits \/ ~RcFits
  \/ ~IsMemory(GivenPairs)
  \/ FilledAddresses \cap GivenAddresses # {}
Stopping == aborted # "no" => Unfit

IInv ==
  /\ Types /\ Locking /\ MemCells /\ Columns /\ RangeOfCells
  /\ RcCells /\ InputsRead /\ RcFilling /\ RcFull
  /\ MemFilling /\ MemFull /\ Sorting /\ Stopping

\* GetTrace has stopped at a builtin value that is too large, some parts written.
Stuck ==
  /\ Types /\ public_input_indices_ \subseteq MemIndices
  /\ stage = "builtin" /\ aborted = "too large value" /\ ~InputsFit

Inv == IInv \/ Stuck

-----------------------------------------------------------------------------
\* Induction on the naturals, for sets of numbers, and recursion on an interval.

LEMMA LeastElement ==
  ASSUME NEW T \in SUBSET Nat, T # {}
  PROVE  \E m \in T : \A n \in T : m <= n
<1> DEFINE R == OpToRel(<, Nat)
<1>1. IsWellFoundedOn(R, Nat)
  BY NatLessThanWellFounded
<1>2. \A x, y \in Nat : <<y, x>> \in R <=> y < x
  BY DEF OpToRel
<1> HIDE DEF R
<1>3. PICK x \in T : \A y \in T : ~ (<<y, x>> \in R)
  BY <1>1, WFMin, Zenon
<1>4. ASSUME NEW y \in T PROVE x <= y
  <2>1. x \in Nat /\ y \in Nat /\ <<y, x>> \notin R
    BY <1>3
  <2>2. ~ (y < x)
    BY <1>2, <2>1
  <2>3. QED
    BY <2>1, <2>2
<1>5. QED
  BY <1>4

\* A set that has 0 and the successor of each of its numbers has every number.
LEMMA SetInduction ==
  ASSUME NEW T, 0 \in T, \A n \in Nat : n \in T => n + 1 \in T
  PROVE  \A n \in Nat : n \in T
<1> DEFINE U == Nat \ T
<1>1. SUFFICES ASSUME U # {} PROVE FALSE
  OBVIOUS
<1>2. PICK m \in U : \A n \in U : m <= n
  <2> HIDE DEF U
  <2>1. U \in SUBSET Nat
    BY DEF U
  <2>2. QED
    BY <1>1, <2>1, LeastElement, Zenon
<1>3. m # 0 /\ m \in Nat
  OBVIOUS
<1>4. m - 1 \in Nat /\ m - 1 \notin U
  BY <1>2, <1>3
<1>5. QED
  BY <1>3, <1>4

\* The definition of a function by recursion on an interval has a solution.
LEMMA IntervalRecursion ==
  ASSUME NEW N \in Nat, NEW S, NEW base \in S, NEW F \in [(1 .. N) \X S -> S]
  PROVE  \E f \in [0 .. N -> S] :
           f[0] = base /\ \A n \in 1 .. N : f[n] = F[<<n, f[n - 1]>>]
<1> DEFINE Upto(m, f) == f \in [0 .. m -> S] /\ f[0] = base
                           /\ \A n \in 1 .. m : f[n] = F[<<n, f[n - 1]>>]
           T == {m \in Nat : m <= N => \E f : Upto(m, f)}
<1>1. 0 \in T
  <2>1. Upto(0, [n \in 0 .. 0 |-> base])
    OBVIOUS
  <2> HIDE DEF Upto
  <2>2. QED
    BY <2>1
<1>2. ASSUME NEW m \in Nat, m \in T PROVE m + 1 \in T
  <2> SUFFICES ASSUME m + 1 <= N PROVE \E f : Upto(m + 1, f)
    OBVIOUS
  <2>1. PICK f : Upto(m, f)
    BY <1>2
  <2> DEFINE h == [n \in 0 .. m + 1 |-> IF n = m + 1 THEN F[<<m + 1, f[m]>>] ELSE f[n]]
  <2>2. \A n \in 0 .. m : f[n] \in S
    BY <2>1
  <2>3. m \in 0 .. m /\ m + 1 \in 1 .. N
    OBVIOUS
  <2>4. F[<<m + 1, f[m]>>] \in S
    BY <2>2, <2>3
  <2>5. h \in [0 .. m + 1 -> S]
    BY <2>2, <2>4
  <2>6. h[0] = base
    BY <2>1
  <2>7. ASSUME NEW n \in 1 .. m + 1 PROVE h[n] = F[<<n, h[n - 1]>>]
    <3>1. CASE n = m + 1
      <4>1. h[n] = F[<<m + 1, f[m]>>] /\ n - 1 = m /\ h[n - 1] = f[m]
        BY <3>1
      <4> HIDE DEF h
      <4>2. QED
        BY <3>1, <4>1
    <3>2. CASE n \in 1 .. m
      BY <2>1, <3>2
    <3>3. QED
      BY <3>1, <3>2
  <2>8. Upto(m + 1, h)
    BY <2>5, <2>6, <2>7
  <2> HIDE DEF Upto, h
  <2>9. QED
    BY <2>8
<1>3. \A m \in Nat : m \in T
  <2> HIDE DEF T
  <2>1. QED
    BY <1>1, <1>2, SetInduction
<1>4. PICK f : Upto(N, f)
  <2> HIDE DEF Upto
  <2>1. QED
    BY <1>3
<1>5. QED
  BY <1>4

-----------------------------------------------------------------------------
\* Quotients, remainders and the parts of a number.

LEMMA QuotientAndRemainder ==
  ASSUME NEW a \in Nat, NEW p \in Nat, p >= 1, NEW c \in 0 .. p - 1
  PROVE  (a * p + c) \div p = a /\ (a * p + c) % p = c
<1> DEFINE n == a * p + c
           q == n \div p
<1>1. n \in Nat /\ a * p \in Nat
  OBVIOUS
<1>2. q \in Nat /\ q * p <= n /\ n < q * p + p /\ n = q * p + (n % p)
  <2>1. \A x \in Nat : /\ x \div p \in Nat /\ (x \div p) * p <= x /\ x < (x \div p) * p + p
                       /\ x % p \in Int
    OBVIOUS
  <2>2. \A x \in Nat : x % p = x - p * (x \div p)
    OBVIOUS
  <2>3. \A x \in Nat : p * x = x * p /\ x * p \in Nat
    OBVIOUS
  <2> HIDE DEF n
  <2>4. q \in Nat /\ q * p <= n /\ n < q * p + p /\ n % p \in Int
    BY <1>1, <2>1
  <2>5. n % p = n - p * q /\ p * q = q * p /\ q * p \in Nat
    BY <1>1, <2>2, <2>3, <2>4
  <2> HIDE DEF q
  <2>6. n = q * p + (n % p)
    BY <1>1, <2>4, <2>5
  <2>7. QED
    BY <2>4, <2>6
<1>3. \A x, y \in Nat : x < y => x * p + p <= y * p
  OBVIOUS
<1>4. \A x \in Nat : x * p \in Nat
  OBVIOUS
<1> HIDE DEF q
<1>5. ~ (q < a)
  <2>1. q < a => q * p + p <= a * p
    BY <1>2, <1>3
  <2>2. QED
    BY <1>1, <1>2, <1>4, <2>1
<1>6. ~ (a < q)
  <2>1. a < q => a * p + p <= q * p
    BY <1>2, <1>3
  <2>2. QED
    BY <1>1, <1>2, <1>4, <2>1
<1>7. q = a
  BY <1>2, <1>5, <1>6
<1>8. n % p = c
  <2>1. n = a * p + (n % p) /\ n = a * p + c
    BY <1>2, <1>7
  <2>2. n % p \in Int
    BY <1>1
  <2>3. QED
    BY <1>1, <2>1, <2>2
<1>9. QED
  BY <1>7, <1>8 DEF q

LEMMA ProductFacts ==
  \A x, y, p \in Nat : x * p \in Nat /\ (x < y => x * p + p <= y * p)
<1> SUFFICES ASSUME NEW x \in Nat, NEW y \in Nat, NEW p \in Nat
             PROVE  x * p \in Nat /\ (x < y => x * p + p <= y * p)
  OBVIOUS
<1>1. x * p \in Nat
  OBVIOUS
<1>2. ASSUME x < y PROVE x * p + p <= y * p
  <2>1. PICK d \in Nat : y = x + 1 + d
    <3>1. y - x - 1 \in Nat /\ y = x + 1 + (y - x - 1)
      BY <1>2
    <3>2. QED
      BY <3>1
  <2>2. y * p = x * p + p + d * p /\ d * p \in Nat
    BY <2>1
  <2>3. QED
    BY <1>1, <2>2
<1>3. QED
  BY <1>1, <1>2

\* A quotient is known by the multiples around a number.
LEMMA QuotientUnique ==
  ASSUME NEW v \in Nat, NEW q \in Nat, NEW c \in Nat, c >= 1, q * c <= v, v < q * c + c
  PROVE  v \div c = q
<1>1. q * c \in Nat
  OBVIOUS
<1>2. v - q * c \in 0 .. c - 1 /\ v = q * c + (v - q * c)
  BY <1>1
<1>3. QED
  BY <1>2, QuotientAndRemainder

LEMMA QuotientBounds ==
  ASSUME NEW v \in Nat, NEW c \in Nat, c >= 1
  PROVE  /\ v \div c \in Nat /\ (v \div c) * c <= v /\ v < (v \div c) * c + c
         /\ v % c \in 0 .. c - 1 /\ v = (v \div c) * c + (v % c)
<1>1. v \div c \in Nat /\ (v \div c) * c <= v /\ v < (v \div c) * c + c
  OBVIOUS
<1>2. v % c \in 0 .. c - 1
  OBVIOUS
<1>3. v % c = v - c * (v \div c)
  OBVIOUS
<1>4. \A x \in Nat : c * x = x * c /\ x * c \in Nat
  OBVIOUS
<1>5. QED
  BY <1>1, <1>2, <1>3, <1>4

LEMMA DivisionTwice ==
  ASSUME NEW v \in Nat, NEW p \in Nat, NEW b \in Nat, p >= 1, b >= 1
  PROVE  (v \div p) \div b = v \div (b * p)
<1> DEFINE a == v \div p
           q == a \div b
           c == b * p
<1>1. a \in Nat /\ a * p <= v /\ v < a * p + p
  BY QuotientBounds
<1> HIDE DEF a
<1>2. q \in Nat /\ q * b <= a /\ a < q * b + b
  BY <1>1, QuotientBounds
<1> HIDE DEF q
<1>3. c \in Nat /\ c >= 1
  <2>1. b * p \in Nat /\ 0 * p + p <= b * p
    BY ProductFacts
  <2>2. QED
    BY <2>1
<1>4. q * c = (q * b) * p /\ q * b \in Nat /\ q * c \in Nat
  <2>1. q * (b * p) = (q * b) * p
    BY <1>2
  <2>2. QED
    BY <1>2, <1>3, <2>1
<1>5. (q * b) * p <= a * p
  <2>1. CASE q * b = a
    BY <1>1, <2>1
  <2>2. CASE q * b < a
    <3>1. (q * b) * p + p <= a * p /\ (q * b) * p \in Nat
      BY <1>1, <1>4, <2>2, ProductFacts
    <3>2. QED
      BY <1>1, <3>1
  <2>3. QED
    BY <1>1, <1>2, <1>4, <2>1, <2>2
<1>6. a * p + p <= (q * b + b) * p
  BY <1>1, <1>2, <1>4, ProductFacts
<1>7. (q * b + b) * p = q * c + c
  <2>1. (q * b + b) * p = (q * b) * p + b * p
    BY <1>4
  <2>2. QED
    BY <1>4, <2>1
<1>8. q * c <= v /\ v < q * c + c
  <2>1. a * p \in Nat
    BY <1>1
  <2>2. QED
    BY <1>1, <1>3, <1>4, <1>5, <1>6, <1>7, <2>1
<1>9. v \div c = q
  <2> HIDE DEF c
  <2>1. QED
    BY <1>2, <1>3, <1>8, QuotientUnique
<1>10. QED
  BY <1>9 DEF q, a

\* The powers of PartBase: Power unfolded, which is defined by recursion.
LEMMA PowerValues ==
  /\ n_parts \in Nat /\ n_parts >= 1 /\ PartBase \in Nat /\ PartBase >= 2
  /\ Power[0] = 1 /\ \A k \in 0 .. n_parts : Power[k] \in Nat /\ Power[k] >= 1
  /\ \A k \in 1 .. n_parts : Power[k] = PartBase * Power[k - 1]
<1> DEFINE N == n_parts
           B == PartBase
           S == Nat \ {0}
           F == [x \in (1 .. N) \X S |-> B * x[2]]
<1>1. N \in Nat /\ N >= 1 /\ B \in Nat /\ B >= 2
  BY PoolsAssumption
<1> HIDE DEF N, B
<1>2. F \in [(1 .. N) \X S -> S]
  <2>1. \A x \in S : B * x \in S
    <3>1. \A x \in Nat : B * x \in Nat /\ (x >= 1 => B * x >= x)
      BY <1>1
    <3>2. QED
      BY <3>1
  <2>2. QED
    BY <2>1
<1>3. \A k \in 1 .. N : \A d \in S : F[<<k, d>>] = B * d
  OBVIOUS
<1> HIDE DEF F
<1>4. PICK f \in [0 .. N -> S] : f[0] = 1 /\ \A k \in 1 .. N : f[k] = F[<<k, f[k - 1]>>]
  <2> DEFINE Solved(T, base, G) ==
        \E f \in [0 .. N -> T] : f[0] = base /\ \A k \in 1 .. N : f[k] = G[<<k, f[k - 1]>>]
  <2>1. \A T : \A base \in T : \A G \in [(1 .. N) \X T -> T] : Solved(T, base, G)
    BY <1>1, IntervalRecursion
  <2>2. 1 \in S
    OBVIOUS
  <2> HIDE DEF Solved, S
  <2>3. Solved(S, 1, F)
    BY <1>2, <2>1, <2>2
  <2>4. QED
    BY <2>3 DEF Solved
<1>5. \A k \in 1 .. N : f[k] = B * f[k - 1]
  <2> SUFFICES ASSUME NEW k \in 1 .. N PROVE f[k] = B * f[k - 1]
    OBVIOUS
  <2>1. k - 1 \in 0 .. N
    BY <1>1
  <2>2. QED
    BY <1>3, <1>4, <2>1
<1>6. f = [k \in 0 .. N |-> IF k = 0 THEN 1 ELSE B * f[k - 1]]
  <2> DEFINE h == [k \in 0 .. N |-> IF k = 0 THEN 1 ELSE B * f[k - 1]]
  <2>1. \A k \in 0 .. N : f[k] = h[k]
    BY <1>1, <1>4, <1>5
  <2>2. f = [k \in 0 .. N |-> f[k]] /\ h = [k \in 0 .. N |-> h[k]]
    OBVIOUS
  <2> HIDE DEF h
  <2>3. f = h
    BY <2>1, <2>2
  <2>4. QED
    BY <2>3 DEF h
<1>7. Power = [k \in 0 .. N |-> IF k = 0 THEN 1 ELSE B * Power[k - 1]]
  BY <1>6 DEF Power, N, B
<1> DEFINE D == Power
<1>8. \A k \in 0 .. N : D[k] = IF k = 0 THEN 1 ELSE B * D[k - 1]
  <2>1. D = [k \in 0 .. N |-> IF k = 0 THEN 1 ELSE B * D[k - 1]]
    BY <1>7
  <2> HIDE DEF D
  <2>2. QED
    BY <2>1
<1> HIDE DEF D
<1>9. \A k \in Nat : k \in {m \in Nat : m <= N => D[m] = f[m]}
  <2> DEFINE T == {m \in Nat : m <= N => D[m] = f[m]}
  <2>1. 0 \in T
    BY <1>1, <1>4, <1>8
  <2>2. ASSUME NEW m \in Nat, m \in T PROVE m + 1 \in T
    <3> SUFFICES ASSUME m + 1 <= N PROVE D[m + 1] = f[m + 1]
      OBVIOUS
    <3>1. m + 1 \in 0 .. N /\ m + 1 # 0 /\ m + 1 \in 1 .. N /\ (m + 1) - 1 = m /\ D[m] = f[m]
      BY <1>1, <2>2
    <3>2. QED
      BY <1>5, <1>8, <3>1
  <2> HIDE DEF T
  <2>3. \A k \in Nat : k \in T
    BY <2>1, <2>2, SetInduction
  <2>4. QED
    BY <2>3 DEF T
<1>10. \A k \in 0 .. N : D[k] = f[k] /\ f[k] \in Nat /\ f[k] >= 1
  BY <1>1, <1>9
<1>11. \A k \in 1 .. N : D[k] = B * D[k - 1]
  BY <1>1, <1>8
<1>12. D[0] = 1
  BY <1>1, <1>8
<1>13. QED
  BY <1>1, <1>10, <1>11, <1>12 DEF D, N, B

\* The number that parts spell is that of any list of sums that starts with 0.
LEMMA FromPartsIs ==
  ASSUME NEW parts, NEW s \in [0 .. n_parts -> Nat], s[0] = 0,
         \A k \in 1 .. n_parts : s[k] = s[k - 1] * PartBase + parts[k - 1]
  PROVE  FromParts(parts) = s[n_parts]
<1> DEFINE N == n_parts
           B == PartBase
           Solves(g) == g = [k \in 0 .. N |-> IF k = 0 THEN 0 ELSE g[k - 1] * B + parts[k - 1]]
           sum == CHOOSE g : Solves(g)
<1>1. N \in Nat /\ N >= 1
  BY PowerValues
<1> HIDE DEF N
<1>2. Solves(s)
  <2> DEFINE h == [k \in 0 .. N |-> IF k = 0 THEN 0 ELSE s[k - 1] * B + parts[k - 1]]
  <2>1. \A k \in 0 .. N : s[k] = h[k]
    BY <1>1 DEF N
  <2>2. s = [k \in 0 .. N |-> s[k]] /\ h = [k \in 0 .. N |-> h[k]]
    BY DEF N
  <2> HIDE DEF h
  <2>3. s = h
    BY <2>1, <2>2
  <2>4. QED
    BY <2>3 DEF h
<1>3. Solves(sum)
  <2> HIDE DEF Solves
  <2>1. QED
    BY <1>2
<1>4. FromParts(parts) = sum[N]
  BY DEF FromParts, N
<1> HIDE DEF sum
<1>5. \A k \in 0 .. N : sum[k] = IF k = 0 THEN 0 ELSE sum[k - 1] * B + parts[k - 1]
  BY <1>3
<1> HIDE DEF Solves
<1> DEFINE T == {k \in Nat : k <= N => sum[k] = s[k]}
<1>6. 0 \in T
  BY <1>1, <1>5
<1>7. ASSUME NEW k \in Nat, k \in T PROVE k + 1 \in T
  <2> SUFFICES ASSUME k + 1 <= N PROVE sum[k + 1] = s[k + 1]
    OBVIOUS
  <2>1. k + 1 \in 0 .. N /\ k + 1 # 0 /\ k + 1 \in 1 .. N /\ (k + 1) - 1 = k /\ sum[k] = s[k]
    BY <1>1, <1>7
  <2>2. s[k + 1] = s[k] * B + parts[k]
    BY <2>1 DEF N
  <2>3. QED
    BY <1>5, <2>1, <2>2
<1>8. \A k \in Nat : k \in T
  <2> HIDE DEF T
  <2>1. QED
    BY <1>6, <1>7, SetInduction
<1>9. QED
  BY <1>1, <1>4, <1>8 DEF N

LEMMA FromPartsTyped ==
  ASSUME NEW parts \in [Part -> Nat]
  PROVE  FromParts(parts) \in Nat
<1> DEFINE N == n_parts
           B == PartBase
           F == [x \in (1 .. N) \X Nat |-> x[2] * B + parts[x[1] - 1]]
<1>1. N \in Nat /\ N >= 1 /\ B \in Nat
  BY PowerValues
<1>2. \A k \in 1 .. N : parts[k - 1] \in Nat
  BY <1>1 DEF Part
<1> HIDE DEF N, B
<1>3. F \in [(1 .. N) \X Nat -> Nat] /\ \A k \in 1 .. N : \A d \in Nat : F[<<k, d>>] = d * B + parts[k - 1]
  BY <1>1, <1>2
<1> HIDE DEF F
<1>4. PICK s \in [0 .. N -> Nat] : s[0] = 0 /\ \A k \in 1 .. N : s[k] = F[<<k, s[k - 1]>>]
  <2> DEFINE Solved(T, base, G) ==
        \E f \in [0 .. N -> T] : f[0] = base /\ \A k \in 1 .. N : f[k] = G[<<k, f[k - 1]>>]
  <2>1. \A T : \A base \in T : \A G \in [(1 .. N) \X T -> T] : Solved(T, base, G)
    BY <1>1, IntervalRecursion
  <2> HIDE DEF Solved
  <2>2. Solved(Nat, 0, F)
    BY <1>3, <2>1
  <2>3. QED
    BY <2>2 DEF Solved
<1>5. \A k \in 1 .. N : s[k] = s[k - 1] * B + parts[k - 1]
  <2> SUFFICES ASSUME NEW k \in 1 .. N PROVE s[k] = s[k - 1] * B + parts[k - 1]
    OBVIOUS
  <2>1. k - 1 \in 0 .. N
    BY <1>1
  <2>2. QED
    BY <1>3, <1>4, <2>1
<1>6. FromParts(parts) = s[N]
  BY <1>4, <1>5, FromPartsIs DEF N, B
<1>7. QED
  BY <1>1, <1>6

LEMMA PartOfTyped ==
  ASSUME NEW v \in Nat, NEW part \in Part
  PROVE  PartOf(v, part) \in Nat
<1>1. n_parts - 1 - part \in 0 .. n_parts
  BY PowerValues DEF Part
<1>2. v \div Power[n_parts - 1 - part] \in Nat
  BY <1>1, PowerValues, QuotientBounds
<1>3. QED
  BY <1>2, PowerValues, QuotientBounds DEF PartOf

\* A value that fits is spelled by its parts.
LEMMA PartsSpell ==
  ASSUME NEW v \in Nat, v < Power[n_parts]
  PROVE  FromParts([part \in Part |-> PartOf(v, part)]) = v
<1> DEFINE N == n_parts
           B == PartBase
           parts == [part \in Part |-> PartOf(v, part)]
           s == [k \in 0 .. N |-> v \div Power[N - k]]
<1>1. N \in Nat /\ N >= 1 /\ B \in Nat /\ B >= 2
  BY PowerValues
<1>2. \A k \in 0 .. N : Power[k] \in Nat /\ Power[k] >= 1
  BY PowerValues
<1>3. s \in [0 .. N -> Nat]
  <2> SUFFICES ASSUME NEW k \in 0 .. N PROVE v \div Power[N - k] \in Nat
    OBVIOUS
  <2>1. N - k \in 0 .. N
    BY <1>1
  <2>2. QED
    BY <1>2, <2>1, QuotientBounds
<1>4. s[0] = 0
  <2>1. N - 0 = N /\ N \in 0 .. N /\ 0 \in 0 .. N
    BY <1>1
  <2>2. v \div Power[N] = 0
    <3>1. Power[N] \in Nat /\ Power[N] >= 1
      BY <1>2, <2>1
    <3>2. QED
      BY <3>1, QuotientUnique
  <2>3. QED
    BY <2>1, <2>2
<1>5. ASSUME NEW k \in 1 .. N PROVE s[k] = s[k - 1] * B + parts[k - 1]
  <2>1. /\ k \in 0 .. N /\ k - 1 \in 0 .. N /\ N - k \in 0 .. N /\ N - (k - 1) \in 1 .. N
        /\ (N - (k - 1)) - 1 = N - k /\ k - 1 \in Part /\ n_parts - 1 - (k - 1) = N - k
    BY <1>1 DEF Part
  <2> DEFINE a == v \div Power[N - k]
  <2>2. a \in Nat
    BY <1>2, <2>1, QuotientBounds
  <2>3. parts[k - 1] = a % B
    <3>1. parts[k - 1] = PartOf(v, k - 1)
      BY <2>1
    <3>2. QED
      BY <2>1, <3>1 DEF PartOf
  <2>4. s[k - 1] = a \div B
    <3>1. Power[N - (k - 1)] = B * Power[N - k]
      BY <2>1, PowerValues
    <3>2. s[k - 1] = v \div Power[N - (k - 1)]
      BY <2>1
    <3>3. (v \div Power[N - k]) \div B = v \div (B * Power[N - k])
      <4> DEFINE p == Power[N - k]
      <4>1. p \in Nat /\ p >= 1
        BY <1>2, <2>1
      <4> HIDE DEF p, N, B
      <4>2. B \in Nat /\ B >= 1
        BY <1>1
      <4>3. \A w, x, b \in Nat : x >= 1 /\ b >= 1 => (w \div x) \div b = w \div (b * x)
        BY DivisionTwice
      <4>4. (v \div p) \div B = v \div (B * p)
        BY <4>1, <4>2, <4>3
      <4>5. QED
        BY <4>4 DEF p
    <3>4. QED
      BY <3>1, <3>2, <3>3
  <2>5. s[k] = a
    BY <2>1
  <2> HIDE DEF s, a, parts, N, B
  <2>6. a = (a \div B) * B + (a % B)
    BY <1>1, <2>2, QuotientBounds
  <2>7. QED
    BY <2>3, <2>4, <2>5, <2>6
<1>6. s[N] = v
  <2>1. N \in 0 .. N /\ N - N = 0
    BY <1>1
  <2>2. v \div 1 = v
    OBVIOUS
  <2>3. QED
    BY <2>1, <2>2, PowerValues
<1> HIDE DEF s, parts
<1>7. FromParts(parts) = s[N]
  BY <1>3, <1>4, <1>5, FromPartsIs
<1>8. QED
  BY <1>6, <1>7 DEF parts

-----------------------------------------------------------------------------
\* The constants, and what every statement is like.

LEMMA Constants ==
  /\ MaxWord \in Nat /\ MaxWord >= 2 /\ n_steps \in Nat /\ n_steps >= 1 /\ PublicSize \in Nat
  /\ n_instances \in Nat /\ MemVacant \in Nat /\ RcVacant \in Nat
  /\ begin_addr \in 0..MaxWord /\ Empty \notin Nat /\ Empty \notin (0..MaxWord) \X Nat
  /\ n_steps + PublicSize + n_instances + MemVacant \in Nat
  /\ n_instances * n_parts \in Nat
  BY PoolsAssumption, PowerValues, ProductFacts

LEMMA StatementFacts ==
  ASSUME in \in Inputs
  PROVE  /\ \A t \in Steps : Access(t) \in (0..MaxWord) \X Nat /\ in.offset[t] \in Nat
         /\ \A k \in 1..PublicSize : PublicEntry(k) \in (0..MaxWord) \X Nat
         /\ in.public \in Seq((0..MaxWord) \X Nat) /\ Len(in.public) \in Nat /\ Len(in.public) >= 1
         /\ DOMAIN in.public = 1 .. Len(in.public)
         /\ in.rc_min \in Nat /\ in.rc_max \in Nat /\ in.rc_min <= in.rc_max /\ in.rc_max < MaxWord
         /\ DOMAIN in.private \subseteq Instances /\ \A i \in DOMAIN in.private : in.private[i] \in Nat
<1>1. /\ in.access \in [Steps -> 0..MaxWord] /\ in.memory \in [0..MaxWord -> Nat]
      /\ in.offset \in [Steps -> Nat]
      /\ in.public \in Seq((0..MaxWord) \X Nat) /\ Len(in.public) > 0
      /\ in.rc_min \in Nat /\ in.rc_max \in Nat
      /\ in.rc_min <= in.rc_max /\ in.rc_max < PartBase
      /\ DOMAIN in.private \subseteq Instances /\ \A i \in DOMAIN in.private : in.private[i] \in Nat
  BY PoolsAssumption, Zenon
<1>2. \A t \in Steps : Access(t) \in (0..MaxWord) \X Nat /\ in.offset[t] \in Nat
  BY <1>1 DEF Access
<1>3. Len(in.public) \in Nat /\ Len(in.public) >= 1 /\ DOMAIN in.public = 1 .. Len(in.public)
  BY <1>1
<1>4. \A k \in 1 .. Len(in.public) : in.public[k] \in (0..MaxWord) \X Nat
  BY <1>1
<1>5. \A k \in 1..PublicSize : PublicEntry(k) \in (0..MaxWord) \X Nat
  <2> SUFFICES ASSUME NEW k \in 1..PublicSize PROVE PublicEntry(k) \in (0..MaxWord) \X Nat
    OBVIOUS
  <2>1. CASE k <= Len(in.public)
    <3>1. k \in 1 .. Len(in.public) /\ PublicEntry(k) = in.public[k]
      BY <1>3, <2>1, Constants DEF PublicEntry
    <3>2. QED
      BY <1>4, <3>1
  <2>2. CASE ~(k <= Len(in.public))
    <3>1. 1 \in 1 .. Len(in.public) /\ PublicEntry(k) = in.public[1]
      BY <1>3, <2>2, Constants DEF PublicEntry
    <3>2. QED
      BY <1>4, <3>1
  <2>3. QED
    BY <2>1, <2>2
<1>6. in.rc_max < MaxWord
  BY <1>1, PoolsAssumption
<1>7. QED
  BY <1>1, <1>2, <1>3, <1>5, <1>6

\* What is said of the statement does not change.
LEMMA SameStatement ==
  ASSUME in' = in
  PROVE  /\ \A t : Access(t)' = Access(t)
         /\ \A k : PublicEntry(k)' = PublicEntry(k)
         /\ Filled' = Filled /\ GivenPairs' = GivenPairs /\ GivenAddresses' = GivenAddresses
         /\ FilledAddresses' = FilledAddresses /\ AllAddresses' = AllAddresses
         /\ GivenRc' = GivenRc /\ PrivateParts' = PrivateParts /\ RcFree' = RcFree
         /\ (InputsFit' <=> InputsFit) /\ (MemFits' <=> MemFits) /\ (RcFits' <=> RcFits)
         /\ (IsMemory(GivenPairs)' <=> IsMemory(GivenPairs)) /\ (Unfit' <=> Unfit)
<1>1. /\ \A t : Access(t)' = Access(t)
      /\ \A k : PublicEntry(k)' = PublicEntry(k)
  BY DEF Access, PublicEntry
<1>2. /\ Filled' = Filled /\ PrivateParts' = PrivateParts /\ (InputsFit' <=> InputsFit)
      /\ GivenRc' = GivenRc
  BY DEF Filled, PrivateParts, InputsFit, GivenRc, PartOf
<1>3. GivenPairs' = GivenPairs
  BY DEF GivenPairs, Access
<1>4. GivenAddresses' = GivenAddresses /\ FilledAddresses' = FilledAddresses
  BY <1>2, <1>3 DEF GivenAddresses, FilledAddresses
<1>5. AllAddresses' = AllAddresses /\ RcFree' = RcFree
  BY <1>2, <1>4 DEF AllAddresses, RcFree
<1>6. (MemFits' <=> MemFits)
  BY <1>4 DEF MemFits, Gaps
<1>7. (RcFits' <=> RcFits)
  BY <1>2 DEF RcFits
<1>8. IsMemory(GivenPairs)' <=> IsMemory(GivenPairs)
  BY <1>3 DEF IsMemory
<1>9. Unfit' <=> Unfit
  BY <1>2, <1>4, <1>6, <1>7, <1>8 DEF Unfit
<1>10. QED
  BY <1>1, <1>2, <1>3, <1>4, <1>5, <1>6, <1>7, <1>8, <1>9

LEMMA WordFacts ==
  /\ \A n \in Int : Word(n) \in 0..MaxWord
  /\ \A n \in 0..MaxWord : Word(n) = n
  /\ Word(MaxWord + 1) = 0 /\ Word(0 - 1) = MaxWord
<1> DEFINE m == MaxWord + 1
<1>1. m \in Nat /\ m >= 1 /\ MaxWord = m - 1
  BY Constants
<1> HIDE DEF m
<1>2. \A n \in Int : n % m \in 0 .. m - 1
  BY <1>1
<1>3. \A n \in 0 .. m - 1 : n % m = n
  BY <1>1
<1>4. m % m = 0 /\ (0 - 1) % m = m - 1
  <2>1. m % m = 0
    BY <1>1
  <2>2. (0 - 1) % m = m - 1
    BY <1>1
  <2>3. QED
    BY <2>1, <2>2
<1>5. \A n : Word(n) = n % m
  BY DEF Word, m
<1>6. MaxWord + 1 = m
  BY DEF m
<1>7. QED
  BY <1>1, <1>2, <1>3, <1>4, <1>5, <1>6

\* The indices of the memory pool, by component.
LEMMA MemIndexFacts ==
  /\ \A t \in Steps : t \in MemIndices /\ t \in Nat /\ t # NoOne
  /\ \A k \in 1..PublicSize : PublicIndex(k) \in MemIndices /\ PublicIndex(k) \notin Steps
  /\ \A i \in Instances : InstanceIndex(i) \in MemIndices /\ InstanceIndex(i) \notin Steps
  /\ \A j \in MemFree : j \in MemIndices /\ j \notin Steps
  /\ \A k \in 1..PublicSize, i \in Instances : PublicIndex(k) # InstanceIndex(i)
  /\ \A k \in 1..PublicSize : PublicIndex(k) \notin MemFree
  /\ \A i \in Instances : InstanceIndex(i) \notin MemFree
  /\ \A k, l \in 1..PublicSize : PublicIndex(k) = PublicIndex(l) => k = l
  /\ \A i, j \in Instances : InstanceIndex(i) = InstanceIndex(j) => i = j
  /\ \A m \in MemIndices :
       \/ m \in Steps \/ \E k \in 1..PublicSize : m = PublicIndex(k)
       \/ \E i \in Instances : m = InstanceIndex(i)
       \/ m \in MemFree
  /\ \A m \in MemIndices : m \in Nat /\ m >= 1
<1> DEFINE a == n_steps
           b == PublicSize
           c == n_instances
           d == MemVacant
<1>1. a \in Nat /\ b \in Nat /\ c \in Nat /\ d \in Nat
  BY Constants
<1> HIDE DEF a, b, c, d
<1>2. /\ Steps = 1 .. a /\ MemIndices = 1 .. (a + b + c + d) /\ Instances = 0 .. c - 1
      /\ MemFree = (a + b + c + 1) .. (a + b + c + d)
      /\ \A k : PublicIndex(k) = a + k
      /\ \A i : InstanceIndex(i) = a + b + i + 1
  BY DEF a, b, c, d, Steps, MemIndices, Instances, MemFree, PublicIndex, InstanceIndex
<1>3. ASSUME NEW m \in 1 .. (a + b + c + d)
      PROVE  \/ m \in 1 .. a \/ \E k \in 1 .. b : m = a + k
             \/ \E i \in 0 .. c - 1 : m = a + b + i + 1
             \/ m \in (a + b + c + 1) .. (a + b + c + d)
  <2>1. CASE m <= a
    BY <1>1, <2>1
  <2>2. CASE a < m /\ m <= a + b
    <3>1. m - a \in 1 .. b /\ m = a + (m - a)
      BY <1>1, <2>2
    <3>2. QED
      BY <3>1
  <2>3. CASE a + b < m /\ m <= a + b + c
    <3>1. m - a - b - 1 \in 0 .. c - 1 /\ m = a + b + (m - a - b - 1) + 1
      BY <1>1, <2>3
    <3>2. QED
      BY <3>1
  <2>4. CASE a + b + c < m
    BY <1>1, <2>4
  <2>5. QED
    BY <1>1, <2>1, <2>2, <2>3, <2>4
<1>4. /\ \A t \in Steps : t \in MemIndices /\ t \in Nat /\ t # NoOne
      /\ \A k \in 1..b : a + k \in MemIndices /\ a + k \notin Steps
      /\ \A i \in Instances : a + b + i + 1 \in MemIndices /\ a + b + i + 1 \notin Steps
      /\ \A j \in MemFree : j \in MemIndices /\ j \notin Steps
  BY <1>1, <1>2 DEF NoOne
<1>5. /\ \A k \in 1..b, i \in Instances : a + k # a + b + i + 1
      /\ \A k \in 1..b : a + k \notin MemFree
      /\ \A i \in Instances : a + b + i + 1 \notin MemFree
      /\ \A k, l \in 1..b : a + k = a + l => k = l
      /\ \A i, j \in Instances : a + b + i + 1 = a + b + j + 1 => i = j
  BY <1>1, <1>2
<1>6. b = PublicSize
  BY DEF b
<1>7. \A m \in MemIndices : m \in Nat /\ m >= 1
  BY <1>1, <1>2
<1>8. QED
  BY <1>2, <1>3, <1>4, <1>5, <1>6, <1>7

\* The indices of the range-check pool, by component.
LEMMA RcIndexFacts ==
  /\ \A t \in Steps : t \in RcIndices /\ t \in MemIndices
  /\ \A i \in Instances, part \in Part :
       /\ PartIndex(i, part) \in RcIndices /\ PartIndex(i, part) \notin Steps
       /\ PartIndex(i, part) <= n_steps + n_instances * n_parts
       /\ PartIndex(i, part) - PartIndex(i, 0) = part
  /\ \A i, j \in Instances, p, q \in Part : PartIndex(i, p) = PartIndex(j, q) => i = j /\ p = q
  /\ \A k \in RcIndices :
       \/ k \in Steps \/ k > n_steps + n_instances * n_parts
       \/ \E i \in Instances, part \in Part : k = PartIndex(i, part)
  /\ \A k \in RcIndices : k \in Nat /\ k >= 1
<1> DEFINE a == n_steps
           c == n_instances
           p == n_parts
           d == RcVacant
<1>1. a \in Nat /\ c \in Nat /\ d \in Nat /\ p \in Nat /\ p >= 1
  BY Constants, PowerValues
<1> HIDE DEF a, c, d, p
<1>2. /\ Steps = 1 .. a /\ RcIndices = 1 .. (a + c * p + d) /\ Instances = 0 .. c - 1
      /\ Part = 0 .. p - 1
      /\ \A i, part : PartIndex(i, part) = a + i * p + part + 1
  BY DEF a, c, d, p, Steps, RcIndices, Instances, Part, PartIndex
<1>3. \A x \in Nat : x * p \in Nat
  BY <1>1, ProductFacts
<1>4. \A x, y \in Nat : x < y => x * p + p <= y * p
  BY <1>1, ProductFacts
<1>5. ASSUME NEW i \in Instances, NEW part \in Part
      PROVE  /\ PartIndex(i, part) \in RcIndices /\ PartIndex(i, part) \notin Steps
             /\ PartIndex(i, part) <= a + c * p
             /\ PartIndex(i, part) - PartIndex(i, 0) = part
  <2>1. i \in Nat /\ i < c /\ part \in Nat /\ part + 1 <= p
    BY <1>1, <1>2
  <2>2. i * p \in Nat /\ c * p \in Nat /\ i * p + p <= c * p
    BY <1>1, <1>3, <1>4, <2>1
  <2>3. PartIndex(i, part) = a + i * p + part + 1 /\ PartIndex(i, 0) = a + i * p + 0 + 1
    BY <1>2
  <2>4. PICK z \in Nat, m \in Nat : z = i * p /\ m = c * p
    BY <2>2
  <2>5. z + p <= m /\ PartIndex(i, part) = a + z + part + 1 /\ PartIndex(i, 0) = a + z + 0 + 1
    BY <2>2, <2>3, <2>4
  <2>6. PartIndex(i, part) \in 1 .. (a + m + d) /\ PartIndex(i, part) \notin 1 .. a
    BY <1>1, <2>1, <2>5
  <2>7. PartIndex(i, part) <= a + m /\ PartIndex(i, part) - PartIndex(i, 0) = part
    BY <1>1, <2>1, <2>5
  <2>8. QED
    BY <1>2, <2>4, <2>6, <2>7
<1>6. ASSUME NEW i \in Instances, NEW j \in Instances, NEW x \in Part, NEW y \in Part,
             PartIndex(i, x) = PartIndex(j, y)
      PROVE  i = j /\ x = y
  <2>1. i \in Nat /\ j \in Nat /\ x \in Nat /\ y \in Nat /\ x + 1 <= p /\ y + 1 <= p
    BY <1>1, <1>2
  <2>2. i * p \in Nat /\ j * p \in Nat
    BY <1>3, <2>1
  <2>3. i * p + x = j * p + y
    <3>1. PICK z \in Nat, m \in Nat : z = i * p /\ m = j * p
      BY <2>2
    <3>2. PartIndex(i, x) = a + z + x + 1 /\ PartIndex(j, y) = a + m + y + 1
      BY <1>2, <3>1
    <3>3. a + z + x + 1 = a + m + y + 1
      BY <1>6, <3>2, Zenon
    <3>4. z + x = m + y
      BY <1>1, <2>1, <3>3
    <3>5. QED
      BY <3>1, <3>4
  <2>4. ~(i < j) /\ ~(j < i)
    <3>1. (i < j => i * p + p <= j * p) /\ (j < i => j * p + p <= i * p)
      BY <1>4, <2>1
    <3>2. QED
      BY <1>1, <2>1, <2>2, <2>3, <3>1
  <2>5. i = j
    BY <2>1, <2>4
  <2>6. QED
    BY <2>1, <2>2, <2>3, <2>5
<1>7. ASSUME NEW k \in RcIndices, k \notin Steps, ~(k > a + c * p)
      PROVE  \E i \in Instances, part \in Part : k = PartIndex(i, part)
  <2> DEFINE v == k - a - 1
             i == v \div p
             x == v % p
  <2>1. v \in Nat /\ v < c * p /\ c * p \in Nat /\ k = a + v + 1
    BY <1>1, <1>2, <1>3, <1>7
  <2> HIDE DEF v
  <2>2. i \in Nat /\ i * p <= v /\ x \in 0 .. p - 1 /\ v = i * p + x
    BY <1>1, <2>1, QuotientBounds
  <2> HIDE DEF i, x
  <2>3. i < c
    <3>1. SUFFICES ASSUME c <= i PROVE FALSE
      BY <1>1, <2>2
    <3>2. c * p <= i * p
      <4>1. CASE c = i
        BY <2>1, <4>1
      <4>2. CASE c < i
        <5>1. c * p + p <= i * p /\ i * p \in Nat
          BY <1>1, <1>3, <1>4, <2>2, <4>2
        <5>2. QED
          BY <1>1, <2>1, <5>1
      <4>3. QED
        BY <1>1, <2>2, <3>1, <4>1, <4>2
    <3>3. QED
      BY <1>3, <2>1, <2>2, <3>2
  <2>4. i \in Instances /\ x \in Part
    BY <1>1, <1>2, <2>2, <2>3
  <2>5. k = PartIndex(i, x)
    <3>1. i * p \in Nat
      BY <1>3, <2>2
    <3>2. QED
      BY <1>1, <1>2, <2>1, <2>2, <3>1
  <2>6. QED
    BY <2>4, <2>5
<1>8. \A t \in Steps : t \in RcIndices /\ t \in MemIndices
  <2>1. PICK m \in Nat : m = c * p
    BY <1>1, <1>3
  <2>2. RcIndices = 1 .. (a + m + d)
    BY <1>2, <2>1
  <2>3. QED
    BY <1>1, <1>2, <2>2, MemIndexFacts
<1>9. n_steps + n_instances * n_parts = a + c * p
  BY DEF a, c, p
<1>10. \A k \in RcIndices : k \in Nat /\ k >= 1
  <2>1. PICK m \in Nat : m = c * p
    BY <1>1, <1>3
  <2>2. RcIndices = 1 .. (a + m + d)
    BY <1>2, <2>1
  <2>3. QED
    BY <1>1, <2>2
<1>11. QED
  BY <1>5, <1>6, <1>7, <1>8, <1>9, <1>10

-----------------------------------------------------------------------------
\* Counting.

LEMMA CoverBound ==
  ASSUME NEW S, IsFiniteSet(S), NEW f, NEW T, \A v \in T : \E k \in S : f[k] = v
  PROVE  IsFiniteSet(T) /\ Cardinality(T) <= Cardinality(S)
<1> DEFINE g == [k \in S |-> f[k]]
           R == {f[k] : k \in S}
<1>1. g \in Surjection(S, R)
  BY DEF Surjection
<1> HIDE DEF g
<1>2. IsFiniteSet(R) /\ Cardinality(R) <= Cardinality(S)
  <2> HIDE DEF R
  <2>1. QED
    BY <1>1, FS_Surjection
<1>3. T \in SUBSET R
  OBVIOUS
<1> HIDE DEF R
<1>4. IsFiniteSet(T) /\ Cardinality(T) <= Cardinality(R)
  BY <1>2, <1>3, FS_Subset
<1>5. Cardinality(T) \in Int /\ Cardinality(R) \in Int /\ Cardinality(S) \in Int
  BY <1>2, <1>4, FS_CardinalityType
<1>6. QED
  BY <1>2, <1>4, <1>5

\* Different members of S have different values in T other than w.
LEMMA InjectBound ==
  ASSUME NEW S, IsFiniteSet(S), NEW f, NEW T, IsFiniteSet(T), NEW w \in T,
         \A k \in S : f[k] \in T /\ f[k] # w,
         \A j, k \in S : f[j] = f[k] => j = k
  PROVE  Cardinality(S) + 1 <= Cardinality(T)
<1> DEFINE g == [k \in S |-> f[k]]
           R == T \ {w}
<1>1. g \in Injection(S, R)
  BY DEF Injection, IsInjective
<1> HIDE DEF g
<1>2. IsFiniteSet(R) /\ Cardinality(R) = Cardinality(T) - 1
  BY FS_RemoveElement
<1> HIDE DEF R
<1>3. Cardinality(S) <= Cardinality(R)
  BY <1>1, <1>2, FS_Injection
<1>4. Cardinality(S) \in Int /\ Cardinality(R) \in Int /\ Cardinality(T) \in Int
  BY <1>2, FS_CardinalityType
<1>5. QED
  BY <1>2, <1>3, <1>4

LEMMA MemFreeFacts == IsFiniteSet(MemFree) /\ Cardinality(MemFree) = MemVacant
<1> DEFINE a == n_steps + PublicSize + n_instances
           b == MemVacant
<1>1. a \in Nat /\ b \in Nat /\ MemFree = (a + 1) .. (a + b)
  BY Constants DEF MemFree
<1> HIDE DEF a, b
<1>2. a + 1 \in Int /\ a + b \in Int
  BY <1>1
<1>3. /\ IsFiniteSet((a + 1) .. (a + b))
      /\ Cardinality((a + 1) .. (a + b)) = IF a + 1 > a + b THEN 0 ELSE (a + b) - (a + 1) + 1
  BY <1>2, FS_Interval
<1>4. QED
  BY <1>1, <1>3 DEF b

\* The cells that no component with a value of its own has written.
LEMMA RcFreeFacts ==
  ASSUME in \in Inputs
  PROVE  /\ RcFree \subseteq RcIndices /\ IsFiniteSet(RcFree) /\ Cardinality(Filled) \in Nat
         /\ Cardinality(RcFree) = RcVacant + n_parts * Cardinality(Filled)
         /\ \A t \in Steps : t \notin RcFree
         /\ \A i \in DOMAIN in.private, part \in Part : PartIndex(i, part) \notin RcFree
         /\ \A i \in Filled, part \in Part : PartIndex(i, part) \in RcFree
         /\ \A k \in RcIndices :
              k \in Steps \/ k \in RcFree \/ \E i \in DOMAIN in.private, part \in Part : k = PartIndex(i, part)
<1> DEFINE a == n_steps + n_instances * n_parts
           V == (a + 1) .. (a + RcVacant)
           P == {PartIndex(x[1], x[2]) : x \in Filled \X Part}
           f == [x \in Filled \X Part |-> PartIndex(x[1], x[2])]
<1>1. a \in Nat /\ RcVacant \in Nat /\ RcIndices = 1 .. (a + RcVacant)
  BY Constants DEF RcIndices
<1>2. DOMAIN in.private \subseteq Instances /\ Filled = Instances \ DOMAIN in.private
  BY StatementFacts DEF Filled
<1>3. /\ \A t \in Steps : t \notin RcFree
      /\ \A i \in DOMAIN in.private, part \in Part : PartIndex(i, part) \notin RcFree
      /\ \A k \in RcIndices :
           k \in Steps \/ k \in RcFree \/ \E i \in DOMAIN in.private, part \in Part : k = PartIndex(i, part)
  BY DEF RcFree, PrivateParts
<1>4. \A i \in Filled, part \in Part : PartIndex(i, part) \in RcFree
  BY <1>2, RcIndexFacts DEF RcFree, PrivateParts
<1>5. RcFree = V \cup P
  <2>1. ASSUME NEW k \in RcFree PROVE k \in V \cup P
    <3>1. k \in RcIndices /\ k \notin Steps /\ k \notin PrivateParts
      BY DEF RcFree
    <3>2. CASE k > a
      BY <1>1, <3>1, <3>2
    <3>3. CASE ~(k > a)
      <4>1. PICK i \in Instances, part \in Part : k = PartIndex(i, part)
        BY <3>1, <3>3, RcIndexFacts
      <4>2. i \in Filled
        BY <1>2, <3>1, <4>1 DEF PrivateParts
      <4>3. <<i, part>> \in Filled \X Part /\ k = PartIndex(<<i, part>>[1], <<i, part>>[2])
        BY <4>1, <4>2
      <4>4. k \in P
        BY <4>3
      <4>5. QED
        BY <4>4
    <3>4. QED
      BY <3>2, <3>3
  <2>2. ASSUME NEW k \in P PROVE k \in RcFree
    BY <1>4
  <2>3. ASSUME NEW k \in V PROVE k \in RcFree
    <3>1. k \in RcIndices /\ k > a /\ k \in Nat
      BY <1>1
    <3>2. k \notin Steps
      <4>1. n_steps <= a
        BY Constants
      <4>2. QED
        BY <1>1, <3>1, <4>1, Constants DEF Steps
    <3>3. \A i \in DOMAIN in.private, part \in Part : PartIndex(i, part) <= a
      BY <1>2, RcIndexFacts
    <3>4. \A i \in DOMAIN in.private, part \in Part : PartIndex(i, part) # k
      BY <1>1, <3>1, <3>3
    <3>5. QED
      BY <3>1, <3>2, <3>4 DEF RcFree, PrivateParts
  <2> HIDE DEF V, P
  <2>4. QED
    BY <2>1, <2>2, <2>3
<1>6. IsFiniteSet(V) /\ Cardinality(V) = RcVacant
  <2>1. /\ IsFiniteSet((a + 1) .. (a + RcVacant))
        /\ Cardinality((a + 1) .. (a + RcVacant))
             = IF a + 1 > a + RcVacant THEN 0 ELSE (a + RcVacant) - (a + 1) + 1
    <3> HIDE DEF a
    <3>1. a + 1 \in Int /\ a + RcVacant \in Int
      BY <1>1
    <3>2. QED
      BY <3>1, FS_Interval
  <2> HIDE DEF a
  <2>2. QED
    BY <1>1, <2>1
<1>7. /\ IsFiniteSet(Filled) /\ Cardinality(Filled) \in Nat
      /\ IsFiniteSet(Part) /\ Cardinality(Part) = n_parts
  <2>1. 0 \in Int /\ n_instances - 1 \in Int /\ n_parts - 1 \in Int /\ n_parts >= 1 /\ n_parts \in Nat
    BY Constants, PowerValues
  <2>2. /\ IsFiniteSet(0 .. (n_parts - 1))
        /\ Cardinality(0 .. (n_parts - 1)) = IF 0 > n_parts - 1 THEN 0 ELSE (n_parts - 1) - 0 + 1
    BY <2>1, FS_Interval
  <2>3. IsFiniteSet(Instances)
    BY <2>1, FS_Interval DEF Instances
  <2>4. Filled \in SUBSET Instances
    BY DEF Filled
  <2>5. IsFiniteSet(Filled)
    BY <2>3, <2>4, FS_Subset
  <2>6. QED
    BY <2>1, <2>2, <2>5, FS_CardinalityType DEF Part
<1>8. IsFiniteSet(Filled \X Part) /\ Cardinality(Filled \X Part) = Cardinality(Filled) * n_parts
  BY <1>7, FS_Product
<1>9. f \in Bijection(Filled \X Part, P)
  <2>1. \A x, y \in Filled \X Part : f[x] = f[y] => x = y
    <3> SUFFICES ASSUME NEW x \in Filled \X Part, NEW y \in Filled \X Part, f[x] = f[y] PROVE x = y
      OBVIOUS
    <3>1. x[1] \in Instances /\ y[1] \in Instances /\ x[2] \in Part /\ y[2] \in Part
      BY <1>2
    <3>2. PartIndex(x[1], x[2]) = PartIndex(y[1], y[2])
      OBVIOUS
    <3>3. x[1] = y[1] /\ x[2] = y[2]
      BY <3>1, <3>2, RcIndexFacts
    <3>4. QED
      BY <3>3
  <2>2. f \in Injection(Filled \X Part, P)
    BY <2>1 DEF Injection, IsInjective
  <2>3. f \in Surjection(Filled \X Part, P)
    BY DEF Surjection
  <2>4. QED
    BY <2>2, <2>3 DEF Bijection
<1> HIDE DEF f
<1>10. IsFiniteSet(P) /\ Cardinality(P) = Cardinality(Filled) * n_parts
  <2>1. ExistsBijection(Filled \X Part, P)
    BY <1>9 DEF ExistsBijection
  <2> HIDE DEF P
  <2>2. QED
    BY <1>8, <2>1, FS_Bijection
<1>11. V \cap P = {}
  <2>1. \A i \in Instances, part \in Part : PartIndex(i, part) <= a
    BY RcIndexFacts
  <2>2. \A x \in P : x <= a
    BY <1>2, <2>1
  <2>3. \A x \in V : ~(x <= a)
    BY <1>1
  <2>4. QED
    BY <2>2, <2>3
<1>12. IsFiniteSet(RcFree) /\ Cardinality(RcFree) = RcVacant + Cardinality(Filled) * n_parts
  <2> HIDE DEF V, P
  <2>1. /\ IsFiniteSet(V \cup P)
        /\ Cardinality(V \cup P) = Cardinality(V) + Cardinality(P) - Cardinality(V \cap P)
    BY <1>6, <1>10, FS_Union
  <2>2. Cardinality(V \cap P) = 0
    BY <1>11, FS_EmptySet
  <2>3. Cardinality(Filled) * n_parts \in Nat
    BY <1>7, PowerValues, ProductFacts
  <2>4. QED
    BY <1>1, <1>5, <1>6, <1>10, <2>1, <2>2, <2>3
<1>13. Cardinality(Filled) * n_parts = n_parts * Cardinality(Filled)
  BY <1>7, PowerValues
<1>14. RcFree \subseteq RcIndices
  BY DEF RcFree
<1>15. QED
  BY <1>3, <1>4, <1>7, <1>12, <1>13, <1>14

\* No room is lacking if the missing values are in free cells, and some is if
\* the free cells have different missing values and one is still missing.
LEMMA RcRoom ==
  ASSUME in \in Inputs, in.rc_min < in.rc_max, GivenRc \subseteq in.rc_min .. in.rc_max, NEW f
  PROVE  /\ (\A v \in (in.rc_min .. in.rc_max) \ GivenRc : \E k \in RcFree : f[k] = v) => RcFits
         /\ (\E w \in (in.rc_min .. in.rc_max) \ GivenRc :
               /\ \A k \in RcFree : f[k] \in (in.rc_min .. in.rc_max) \ GivenRc /\ f[k] # w
               /\ \A j, k \in RcFree : f[j] = f[k] => j = k) => ~RcFits
<1> DEFINE M == (in.rc_min .. in.rc_max) \ GivenRc
<1>1. IsFiniteSet(M) /\ Cardinality(M) \in Nat
  <2>1. in.rc_min \in Int /\ in.rc_max \in Int
    BY StatementFacts
  <2>2. IsFiniteSet(in.rc_min .. in.rc_max)
    BY <2>1, FS_Interval
  <2>3. M \in SUBSET (in.rc_min .. in.rc_max)
    OBVIOUS
  <2>4. QED
    BY <2>2, <2>3, FS_Subset, FS_CardinalityType
<1>2. RcFits <=> Cardinality(M) <= RcVacant + n_parts * Cardinality(Filled)
  BY DEF RcFits
<1> HIDE DEF M
<1>3. /\ IsFiniteSet(RcFree) /\ Cardinality(RcFree) \in Nat
      /\ Cardinality(RcFree) = RcVacant + n_parts * Cardinality(Filled)
  BY RcFreeFacts, FS_CardinalityType
<1>4. (\A v \in M : \E k \in RcFree : f[k] = v) => RcFits
  <2> SUFFICES ASSUME \A v \in M : \E k \in RcFree : f[k] = v PROVE RcFits
    OBVIOUS
  <2>1. Cardinality(M) <= Cardinality(RcFree)
    BY <1>3, CoverBound
  <2>2. QED
    BY <1>2, <1>3, <2>1
<1>5. ASSUME NEW w \in M, \A k \in RcFree : f[k] \in M /\ f[k] # w,
             \A j, k \in RcFree : f[j] = f[k] => j = k
      PROVE  ~RcFits
  <2>1. Cardinality(RcFree) + 1 <= Cardinality(M)
    BY <1>1, <1>3, <1>5, InjectBound
  <2>2. QED
    BY <1>1, <1>2, <1>3, <2>1
<1>6. QED
  BY <1>4, <1>5 DEF M

\* The same for the memory pool.
\* The free cells have every member of S, or different ones and not all of them.
Covers(f, S) == \A v \in S : \E k \in MemFree : f[k] = v
Misses(f, S) == \E w \in S : /\ \A k \in MemFree : f[k] \in S /\ f[k] # w
                            /\ \A j, k \in MemFree : f[j] = f[k] => j = k

LEMMA MemRoom ==
  ASSUME in \in Inputs, NEW lo \in AllAddresses, NEW hi \in AllAddresses,
         AllAddresses \subseteq 0..MaxWord, AllAddresses \subseteq lo .. hi, NEW f
  PROVE  /\ hi = MaxWord => ~MemFits
         /\ hi # MaxWord /\ Covers(f, (lo .. hi) \ AllAddresses) => MemFits
         /\ Misses(f, (lo .. hi) \ AllAddresses) => ~MemFits
<1> DEFINE M == (lo .. hi) \ AllAddresses
<1>1. lo \in 0..MaxWord /\ hi \in 0..MaxWord /\ MaxWord \in Nat
  BY Constants
<1>2. IsFiniteSet(M) /\ Cardinality(M) \in Nat
  <2>1. lo \in Int /\ hi \in Int
    BY <1>1
  <2>2. IsFiniteSet(lo .. hi)
    BY <2>1, FS_Interval
  <2>3. M \in SUBSET (lo .. hi)
    OBVIOUS
  <2>4. QED
    BY <2>2, <2>3, FS_Subset, FS_CardinalityType
<1>3. Gaps(AllAddresses) = M
  <2>1. ASSUME NEW a \in Gaps(AllAddresses) PROVE a \in M
    <3>1. /\ a \in 0..MaxWord /\ a \notin AllAddresses
          /\ \E x \in AllAddresses : x < a
          /\ \E x \in AllAddresses : x > a
      BY DEF Gaps
    <3>2. \A x \in AllAddresses : x \in Nat /\ lo <= x /\ x <= hi
      BY <1>1
    <3>3. PICK x \in AllAddresses, y \in AllAddresses : x < a /\ y > a
      BY <3>1
    <3>4. a \in Nat /\ x \in Nat /\ y \in Nat /\ lo <= x /\ y <= hi
      BY <1>1, <3>1, <3>2
    <3>5. a \in lo .. hi
      BY <1>1, <3>3, <3>4
    <3>6. QED
      BY <3>1, <3>5
  <2>2. ASSUME NEW a \in M PROVE a \in Gaps(AllAddresses)
    <3>1. a \in lo .. hi /\ a \notin AllAddresses /\ a # lo /\ a # hi
      OBVIOUS
    <3>2. a \in 0..MaxWord /\ lo < a /\ hi > a
      BY <1>1, <3>1
    <3>3. QED
      BY <3>1, <3>2 DEF Gaps
  <2>3. QED
    BY <2>1, <2>2
<1>4. MemFits <=> MaxWord \notin AllAddresses /\ Cardinality(M) <= MemVacant
  BY <1>3 DEF MemFits, AllAddresses
<1>5. MaxWord \in AllAddresses <=> hi = MaxWord
  BY <1>1
<1> HIDE DEF M
<1>6. IsFiniteSet(MemFree) /\ Cardinality(MemFree) = MemVacant /\ MemVacant \in Nat
  BY MemFreeFacts, Constants
<1>7. (\A v \in M : \E k \in MemFree : f[k] = v) => Cardinality(M) <= MemVacant
  BY <1>6, CoverBound
<1>8. ASSUME NEW w \in M, \A k \in MemFree : f[k] \in M /\ f[k] # w,
             \A j, k \in MemFree : f[j] = f[k] => j = k
      PROVE  ~MemFits
  <2>1. Cardinality(MemFree) + 1 <= Cardinality(M)
    BY <1>2, <1>6, <1>8, InjectBound
  <2>2. QED
    BY <1>2, <1>4, <1>6, <2>1
<1>9. QED
  <2>1. Misses(f, M) => ~MemFits
    BY <1>8 DEF Misses
  <2>2. Covers(f, M) => Cardinality(M) <= MemVacant
    BY <1>7 DEF Covers
  <2>3. QED
    BY <1>4, <1>5, <2>1, <2>2 DEF M

-----------------------------------------------------------------------------
\* What the pools hold of the statement.

LEMMA ContentsIs ==
  /\ \A v : v \in Contents(rc) <=> v # Empty /\ \E k \in DOMAIN rc : rc[k] = v
  /\ \A v : v \in Contents(cell) <=> v # Empty /\ \E k \in DOMAIN cell : cell[k] = v
  /\ \A a : a \in Addresses <=> \E k \in DOMAIN cell : cell[k] # Empty /\ cell[k][1] = a
  BY DEF Contents, Addresses

LEMMA StageOrder ==
  /\ FromInteraction \subseteq FromRcSort /\ FromRcSort \subseteq FromSort
  /\ FromSort \subseteq FromMemFill /\ FromMemFill \subseteq FromMemFinalize
  /\ FromMemFinalize \subseteq FromBuiltinFinalize /\ FromBuiltinFinalize \subseteq FromRcFill
  /\ FromRcFill \subseteq FromRcFinalize /\ FromRcFinalize \subseteq FromBuiltin
  /\ FromBuiltin \subseteq FromPublic /\ "cpu" \notin FromPublic
<1>1. /\ FromInteraction \subseteq FromRcSort /\ FromRcSort \subseteq FromSort
      /\ FromSort \subseteq FromMemFill /\ FromMemFill \subseteq FromMemFinalize
  BY DEF FromRcSort, FromSort, FromMemFill, FromMemFinalize
<1>2. /\ FromMemFinalize \subseteq FromBuiltinFinalize /\ FromBuiltinFinalize \subseteq FromRcFill
      /\ FromRcFill \subseteq FromRcFinalize /\ FromRcFinalize \subseteq FromBuiltin
      /\ FromBuiltin \subseteq FromPublic
  BY DEF FromBuiltinFinalize, FromRcFill, FromRcFinalize, FromBuiltin, FromPublic
<1>3. "cpu" \notin FromPublic
  BY DEF FromPublic, FromBuiltin, FromRcFinalize, FromRcFill, FromBuiltinFinalize,
         FromMemFinalize, FromMemFill, FromSort, FromRcSort, FromInteraction
<1>4. QED
  BY <1>1, <1>2, <1>3

LEMMA RcGiven ==
  ASSUME Types, Locking, RcCells, stage \in FromRcFinalize
  PROVE  /\ \A k \in RcIndices : k \notin RcFree => rc[k] \in GivenRc /\ rc[k] # Empty
         /\ \A v \in GivenRc : \E k \in RcIndices : k \notin RcFree /\ rc[k] = v
         /\ GivenRc \subseteq Nat /\ GivenRc \subseteq Contents(rc)
<1>1. in \in Inputs /\ DOMAIN rc = RcIndices /\ Empty \notin Nat
  BY Constants DEF Types
<1>2. \A t \in Steps : rc[t] = in.offset[t]
  BY StageOrder DEF Locking, RcCells
<1>3. \A i \in DOMAIN in.private, part \in Part : rc[PartIndex(i, part)] = PartOf(in.private[i], part)
  BY DEF RcCells, PartsDone
<1>4. \A v : v \in GivenRc <=> \/ \E t \in Steps : v = in.offset[t]
                               \/ \E i \in DOMAIN in.private, part \in Part : v = PartOf(in.private[i], part)
  BY DEF GivenRc, Part
<1>5. GivenRc \subseteq Nat
  <2>1. \A t \in Steps : in.offset[t] \in Nat
    BY <1>1, StatementFacts
  <2>2. \A i \in DOMAIN in.private, part \in Part : PartOf(in.private[i], part) \in Nat
    BY <1>1, StatementFacts, PartOfTyped
  <2>3. QED
    BY <1>4, <2>1, <2>2
<1>6. \A k \in RcIndices : k \notin RcFree => rc[k] \in GivenRc
  BY <1>1, <1>2, <1>3, <1>4, RcFreeFacts
<1>7. ASSUME NEW v \in GivenRc PROVE \E k \in RcIndices : k \notin RcFree /\ rc[k] = v
  <2>1. \A t \in Steps : t \in RcIndices /\ t \notin RcFree
    BY <1>1, RcFreeFacts, RcIndexFacts
  <2>2. \A i \in DOMAIN in.private, part \in Part :
          PartIndex(i, part) \in RcIndices /\ PartIndex(i, part) \notin RcFree
    BY <1>1, RcFreeFacts, RcIndexFacts, StatementFacts
  <2>3. QED
    BY <1>2, <1>3, <1>4, <1>7, <2>1, <2>2
<1>8. GivenRc \subseteq Contents(rc)
  BY <1>1, <1>5, <1>7, ContentsIs
<1>9. QED
  BY <1>1, <1>5, <1>6, <1>7, <1>8

\* What a pair of the statement is, and the addresses of the statement.
LEMMA GivenIs ==
  ASSUME in \in Inputs
  PROVE  /\ \A p : p \in GivenPairs <=>
              \/ \E t \in Steps : p = Access(t)
              \/ \E k \in DOMAIN in.public : p = in.public[k]
              \/ \E i \in DOMAIN in.private : p = <<InstanceAddress(i), in.private[i]>>
         /\ \A p \in GivenPairs : p[1] \in GivenAddresses
         /\ \A i \in Filled : InstanceAddress(i) \in FilledAddresses
         /\ GivenPairs \subseteq (0..MaxWord) \X Nat /\ AllAddresses \subseteq 0..MaxWord
<1>1. \A p : p \in GivenPairs <=>
        \/ \E t \in Steps : p = Access(t)
        \/ \E k \in DOMAIN in.public : p = in.public[k]
        \/ \E i \in DOMAIN in.private : p = <<InstanceAddress(i), in.private[i]>>
  BY DEF GivenPairs, InstanceAddress
<1>2. \A i \in Instances : InstanceAddress(i) \in 0..MaxWord
  <2>1. \A i \in Instances : begin_addr + i \in Int
    BY Constants DEF Instances
  <2>2. QED
    BY <2>1, WordFacts DEF InstanceAddress
<1>3. GivenPairs \subseteq (0..MaxWord) \X Nat
  <2>1. \A k \in DOMAIN in.public : in.public[k] \in (0..MaxWord) \X Nat
    BY StatementFacts
  <2>2. \A i \in DOMAIN in.private : in.private[i] \in Nat /\ InstanceAddress(i) \in 0..MaxWord
    BY <1>2, StatementFacts
  <2>3. \A t \in Steps : Access(t) \in (0..MaxWord) \X Nat
    BY StatementFacts
  <2>4. QED
    BY <1>1, <2>1, <2>2, <2>3
<1>4. GivenAddresses \subseteq 0..MaxWord /\ \A p \in GivenPairs : p[1] \in GivenAddresses
  BY <1>3 DEF GivenAddresses
<1>5. FilledAddresses \subseteq 0..MaxWord /\ \A i \in Filled : InstanceAddress(i) \in FilledAddresses
  BY <1>2 DEF FilledAddresses, Filled, InstanceAddress
<1>6. QED
  BY <1>1, <1>3, <1>4, <1>5 DEF AllAddresses

LEMMA MemGiven ==
  ASSUME Types, Locking, MemCells, RcCells, InputsRead, stage \in FromMemFinalize
  PROVE  /\ \A m \in MemIndices : m \notin MemFree =>
              /\ cell[m] # Empty /\ cell[m][1] \in AllAddresses
              /\ \/ cell[m] \in GivenPairs
                 \/ \E i \in Filled : m = InstanceIndex(i) /\ cell[m][1] = InstanceAddress(i)
         /\ \A p \in GivenPairs : \E m \in MemIndices : m \notin MemFree /\ cell[m] = p
         /\ \A a \in AllAddresses : \E m \in MemIndices : m \notin MemFree /\ cell[m][1] = a
<1>1. in \in Inputs /\ Empty \notin (0..MaxWord) \X Nat
  BY Constants DEF Types
<1>2. \A t \in Steps : cell[t] = Access(t)
  BY StageOrder DEF Locking, MemCells
<1>3. /\ \A k \in 1..PublicSize : cell[PublicIndex(k)] = PublicEntry(k)
      /\ Len(in.public) <= PublicSize /\ PartsDone
      /\ \A i \in DOMAIN in.private : in.private[i] < Power[n_parts]
  BY StageOrder DEF MemCells, PublicDone, PublicDoneAt, InputsRead, PartsDone
<1>4. \A i \in Instances : cell[InstanceIndex(i)] = <<InstanceAddress(i), FromParts(Parts(i))>>
  BY DEF MemCells, InstanceDone, InstanceDoneAt
<1>5. \A i \in DOMAIN in.private : FromParts(Parts(i)) = in.private[i]
  <2> SUFFICES ASSUME NEW i \in DOMAIN in.private PROVE FromParts(Parts(i)) = in.private[i]
    OBVIOUS
  <2> DEFINE v == in.private[i]
  <2>1. v \in Nat /\ v < Power[n_parts]
    BY <1>1, <1>3, StatementFacts
  <2>2. \A part \in Part : rc[PartIndex(i, part)] = PartOf(v, part)
    BY <1>3 DEF RcCells
  <2>3. Parts(i) = [part \in Part |-> PartOf(v, part)]
    BY <2>2 DEF Parts
  <2> HIDE DEF v
  <2>4. FromParts([part \in Part |-> PartOf(v, part)]) = v
    BY <2>1, PartsSpell
  <2>5. QED
    BY <2>3, <2>4 DEF v
<1>6. \A k \in 1..PublicSize : PublicEntry(k) \in GivenPairs
  <2> SUFFICES ASSUME NEW k \in 1..PublicSize PROVE PublicEntry(k) \in GivenPairs
    OBVIOUS
  <2>1. /\ k \in Nat /\ k >= 1 /\ Len(in.public) \in Nat /\ Len(in.public) >= 1
        /\ DOMAIN in.public = 1 .. Len(in.public)
    BY <1>1, StatementFacts, Constants
  <2>2. \E l \in DOMAIN in.public : PublicEntry(k) = in.public[l]
    BY <2>1 DEF PublicEntry
  <2>3. QED
    BY <1>1, <2>2, GivenIs
<1>7. \A l \in DOMAIN in.public : l \in 1..PublicSize /\ PublicEntry(l) = in.public[l]
  <2>1. DOMAIN in.public = 1 .. Len(in.public) /\ Len(in.public) \in Nat
    BY <1>1, StatementFacts
  <2>2. QED
    BY <1>3, <2>1, Constants DEF PublicEntry
<1>8. \A i \in DOMAIN in.private : i \in Instances
  BY <1>1, StatementFacts
<1>9. ASSUME NEW m \in MemIndices, m \notin MemFree
      PROVE  /\ cell[m] # Empty /\ cell[m][1] \in AllAddresses
             /\ \/ cell[m] \in GivenPairs
                \/ \E i \in Filled : m = InstanceIndex(i) /\ cell[m][1] = InstanceAddress(i)
  <2>1. CASE \E i \in Filled : m = InstanceIndex(i) /\ cell[m] = <<InstanceAddress(i), FromParts(Parts(i))>>
    <3>1. PICK i \in Filled : m = InstanceIndex(i) /\ cell[m] = <<InstanceAddress(i), FromParts(Parts(i))>>
      BY <2>1
    <3>2. cell[m][1] = InstanceAddress(i) /\ cell[m][1] \in AllAddresses
      BY <1>1, <3>1, GivenIs DEF AllAddresses
    <3>3. cell[m] # Empty
      <4>1. \A part \in Part : rc[PartIndex(i, part)] \in Nat
        <5> SUFFICES ASSUME NEW part \in Part PROVE rc[PartIndex(i, part)] \in Nat
          OBVIOUS
        <5>1. PartIndex(i, part) \in RcFree /\ PartIndex(i, part) \in RcIndices
          BY <1>1, RcFreeFacts
        <5>2. rc[PartIndex(i, part)] # Empty
          BY <5>1, StageOrder DEF RcCells, RcFilled, RcFilledAt
        <5>3. QED
          BY <5>1, <5>2 DEF Types
      <4>2. Parts(i) \in [Part -> Nat]
        BY <4>1 DEF Parts
      <4>3. FromParts(Parts(i)) \in Nat
        BY <4>2, FromPartsTyped
      <4>4. InstanceAddress(i) \in 0..MaxWord
        BY <1>1, <3>2, GivenIs
      <4>5. cell[m] \in (0..MaxWord) \X Nat
        BY <3>1, <4>3, <4>4
      <4>6. QED
        BY <1>1, <4>5
    <3>4. QED
      BY <3>1, <3>2, <3>3
  <2>2. CASE cell[m] \in GivenPairs
    <3>1. cell[m] \in (0..MaxWord) \X Nat /\ cell[m][1] \in GivenAddresses
      BY <1>1, <2>2, GivenIs
    <3>2. QED
      BY <1>1, <2>2, <3>1 DEF AllAddresses
  <2>3. cell[m] \in GivenPairs \/ \E i \in Filled : m = InstanceIndex(i) /\ cell[m] = <<InstanceAddress(i), FromParts(Parts(i))>>
    <3>1. CASE m \in Steps
      BY <1>1, <1>2, <3>1, GivenIs
    <3>2. CASE \E k \in 1..PublicSize : m = PublicIndex(k)
      BY <1>3, <1>6, <3>2
    <3>3. CASE \E i \in Instances : m = InstanceIndex(i)
      <4>1. PICK i \in Instances : m = InstanceIndex(i)
        BY <3>3
      <4>2. CASE i \in DOMAIN in.private
        BY <1>1, <1>4, <1>5, <4>1, <4>2, GivenIs
      <4>3. CASE i \notin DOMAIN in.private
        BY <1>4, <4>1, <4>3 DEF Filled
      <4>4. QED
        BY <4>2, <4>3
    <3>4. QED
      BY <1>9, <3>1, <3>2, <3>3, MemIndexFacts
  <2>4. QED
    BY <2>1, <2>2, <2>3
<1>10. ASSUME NEW p \in GivenPairs PROVE \E m \in MemIndices : m \notin MemFree /\ cell[m] = p
  <2>1. CASE \E t \in Steps : p = Access(t)
    BY <1>2, <2>1, MemIndexFacts
  <2>2. CASE \E k \in DOMAIN in.public : p = in.public[k]
    BY <1>3, <1>7, <2>2, MemIndexFacts
  <2>3. CASE \E i \in DOMAIN in.private : p = <<InstanceAddress(i), in.private[i]>>
    BY <1>4, <1>5, <1>8, <2>3, MemIndexFacts
  <2>4. QED
    BY <1>1, <2>1, <2>2, <2>3, GivenIs
<1>11. ASSUME NEW a \in AllAddresses PROVE \E m \in MemIndices : m \notin MemFree /\ cell[m][1] = a
  <2>1. CASE a \in GivenAddresses
    <3>1. PICK p \in GivenPairs : a = p[1]
      BY <2>1 DEF GivenAddresses
    <3>2. QED
      BY <1>10, <3>1
  <2>2. CASE a \in FilledAddresses
    <3>1. PICK i \in Instances : a = InstanceAddress(i)
      BY <2>2 DEF FilledAddresses, Filled, InstanceAddress
    <3>2. cell[InstanceIndex(i)][1] = a
      BY <1>4, <3>1
    <3>3. QED
      BY <3>2, MemIndexFacts
  <2>3. QED
    BY <2>1, <2>2 DEF AllAddresses
<1>12. QED
  BY <1>9, <1>10, <1>11

-----------------------------------------------------------------------------
\* What is written at each stage.

LEMMA AtStage ==
  ASSUME NEW s, NEW n
  PROVE  /\ s \notin FromPublic =>
              /\ \A k : ~PublicDoneAt(s, n, k) /\ ~RcFilledAt(s, n, k)
              /\ \A k : ~InstanceDoneAt(s, n, k) /\ ~MemFilledAt(s, n, k)
              /\ s \notin FromRcFinalize
         /\ s = "public" =>
              /\ \A k : (PublicDoneAt(s, n, k) <=> k < n) /\ ~RcFilledAt(s, n, k)
              /\ \A k : ~InstanceDoneAt(s, n, k) /\ ~MemFilledAt(s, n, k)
              /\ s \notin FromRcFinalize
         /\ s = "builtin" =>
              /\ \A k : PublicDoneAt(s, n, k) /\ ~RcFilledAt(s, n, k)
              /\ \A k : ~InstanceDoneAt(s, n, k) /\ ~MemFilledAt(s, n, k)
              /\ s \notin FromRcFinalize
         /\ s = "rc finalize" =>
              /\ \A k : PublicDoneAt(s, n, k) /\ ~RcFilledAt(s, n, k)
              /\ \A k : ~InstanceDoneAt(s, n, k) /\ ~MemFilledAt(s, n, k)
              /\ s \in FromRcFinalize
         /\ s = "rc fill" =>
              /\ \A k : PublicDoneAt(s, n, k) /\ (RcFilledAt(s, n, k) <=> k < n)
              /\ \A k : ~InstanceDoneAt(s, n, k) /\ ~MemFilledAt(s, n, k)
              /\ s \in FromRcFinalize
         /\ s = "builtin finalize" =>
              /\ \A k : PublicDoneAt(s, n, k) /\ RcFilledAt(s, n, k)
              /\ \A k : (InstanceDoneAt(s, n, k) <=> k + 1 < n) /\ ~MemFilledAt(s, n, k)
              /\ s \in FromRcFinalize
         /\ s = "mem finalize" =>
              /\ \A k : PublicDoneAt(s, n, k) /\ RcFilledAt(s, n, k)
              /\ \A k : InstanceDoneAt(s, n, k) /\ ~MemFilledAt(s, n, k)
              /\ s \in FromRcFinalize
         /\ s = "mem fill" =>
              /\ \A k : PublicDoneAt(s, n, k) /\ RcFilledAt(s, n, k)
              /\ \A k : InstanceDoneAt(s, n, k) /\ (MemFilledAt(s, n, k) <=> k < n)
              /\ s \in FromRcFinalize
         /\ s \in FromSort =>
              /\ \A k : PublicDoneAt(s, n, k) /\ RcFilledAt(s, n, k)
              /\ \A k : InstanceDoneAt(s, n, k) /\ MemFilledAt(s, n, k)
              /\ s \in FromRcFinalize
  BY DEF PublicDoneAt, RcFilledAt, InstanceDoneAt, MemFilledAt, FromPublic, FromBuiltin,
         FromRcFinalize, FromRcFill, FromBuiltinFinalize, FromMemFinalize, FromMemFill, FromSort,
         FromRcSort, FromInteraction

\* Where each stage is in the order.
LEMMA StageNames ==
  /\ "cpu" \notin FromPublic
  /\ "public" \in FromPublic /\ "public" \notin FromBuiltin
  /\ "builtin" \in FromBuiltin /\ "builtin" \notin FromRcFinalize
  /\ "rc finalize" \in FromRcFinalize /\ "rc finalize" \notin FromRcFill
  /\ "rc fill" \in FromRcFill /\ "rc fill" \notin FromBuiltinFinalize
  /\ "builtin finalize" \in FromBuiltinFinalize /\ "builtin finalize" \notin FromMemFinalize
  /\ "mem finalize" \in FromMemFinalize /\ "mem finalize" \notin FromMemFill
  /\ "mem fill" \in FromMemFill /\ "mem fill" \notin FromSort
  /\ "sort" \in FromSort /\ "sort" \notin FromRcSort
  /\ "rc sort" \in FromRcSort /\ "interaction" \in FromRcSort /\ "done" \in FromRcSort
  BY DEF FromPublic, FromBuiltin, FromRcFinalize, FromRcFill, FromBuiltinFinalize,
         FromMemFinalize, FromMemFill, FromSort, FromRcSort, FromInteraction

-----------------------------------------------------------------------------
\* Steps that change the outcome only.

LEMMA KeptButSorted ==
  ASSUME IInv, UNCHANGED <<in, pc, write_trace_lock_, read_range, memory, rc, control>>,
         aborted' # "no" => Unfit, sorted' \in Seq(MemIndices), Sorting'
  PROVE  IInv'
<1>1. /\ in' = in /\ pc' = pc /\ write_trace_lock_' = write_trace_lock_ /\ read_range' = read_range
      /\ cell' = cell /\ column' = column /\ public_input_indices_' = public_input_indices_
      /\ address_min_' = address_min_ /\ address_max_' = address_max_ /\ rc' = rc
      /\ stage' = stage /\ next' = next /\ used' = used /\ last_hole' = last_hole
      /\ orig_address_max' = orig_address_max
  BY DEF memory, control, scan, range
<1>2. range' = range
  BY <1>1 DEF range
<1>3. /\ \A t : Access(t)' = Access(t)
      /\ \A k : PublicEntry(k)' = PublicEntry(k)
      /\ AllAddresses' = AllAddresses
      /\ GivenRc' = GivenRc /\ RcFree' = RcFree
      /\ (MemFits' <=> MemFits) /\ (RcFits' <=> RcFits) /\ (Unfit' <=> Unfit)
  BY <1>1, SameStatement
<1>4. /\ \A k : (PublicDone(k)' <=> PublicDone(k)) /\ (RcFilled(k)' <=> RcFilled(k))
      /\ \A k : (InstanceDone(k)' <=> InstanceDone(k)) /\ (MemFilled(k)' <=> MemFilled(k))
      /\ (PartsDone' <=> PartsDone)
  BY <1>1 DEF PublicDone, PublicDoneAt, RcFilled, RcFilledAt, InstanceDone, InstanceDoneAt,
              MemFilled, MemFilledAt, PartsDone
<1>5. /\ Contents(rc)' = Contents(rc) /\ Addresses' = Addresses
      /\ \A i : Parts(i)' = Parts(i)
  BY <1>1 DEF Contents, Addresses, Parts
<1>6. /\ Counted' = Counted /\ RcFrontier' = RcFrontier /\ \A h : HolesFrom(h)' = HolesFrom(h)
  BY <1>1 DEF Counted, RcFrontier, Word, HolesFrom
<1>7. Types'
  BY <1>1 DEF IInv, Types
<1>8. Locking'
  BY <1>1, <1>2 DEF IInv, Locking
<1>9. MemCells'
  BY <1>1, <1>3, <1>4, <1>5 DEF IInv, MemCells, FromParts
<1>10. Columns'
  BY <1>1, <1>4 DEF IInv, Columns
<1>11. RangeOfCells'
  BY <1>1, <1>6 DEF IInv, RangeOfCells
<1>12. RcCells'
  BY <1>1, <1>3, <1>4 DEF IInv, RcCells, PartOf
<1>13. InputsRead'
  BY <1>1, <1>4 DEF IInv, InputsRead
<1>14. RcFilling'
  BY <1>1, <1>3, <1>5, <1>6 DEF IInv, RcFilling
<1>15. RcFull'
  BY <1>1, <1>3, <1>5 DEF IInv, RcFull
<1>16. MemFilling'
  BY <1>1, <1>3, <1>5, <1>6 DEF IInv, MemFilling
<1>17. MemFull'
  BY <1>1, <1>3, <1>5 DEF IInv, MemFull
<1>18. Stopping'
  BY <1>3 DEF Stopping
<1>19. QED
  BY <1>7, <1>8, <1>9, <1>10, <1>11, <1>12, <1>13, <1>14, <1>15, <1>16, <1>17, <1>18 DEF IInv

LEMMA Kept ==
  ASSUME IInv, UNCHANGED <<in, pc, write_trace_lock_, read_range, memory, rc, control, sorted>>,
         aborted' # "no" => Unfit
  PROVE  IInv'
<1>1. cell' = cell /\ stage' = stage /\ sorted' = sorted
  BY DEF memory, control
<1>2. Left' = Left
  BY <1>1 DEF Left
<1>3. Sorting'
  BY <1>1, <1>2 DEF IInv, Sorting
<1>4. sorted' \in Seq(MemIndices)
  BY <1>1 DEF IInv, Types
<1>5. QED
  BY <1>3, <1>4, KeptButSorted

LEMMA AbortKeeps ==
  ASSUME IInv, NEW why, Abort(why), Unfit
  PROVE  IInv'
  BY Kept DEF Abort

-----------------------------------------------------------------------------
\* The initial states.

LEMMA InitialState == Init => IInv
<1> SUFFICES ASSUME Init PROVE IInv
  OBVIOUS
<1>1. /\ in \in Inputs /\ pc = [t \in Steps |-> "start"] /\ write_trace_lock_ = NoOne
      /\ read_range = [t \in Steps |-> <<0, 0>>]
      /\ cell = [i \in MemIndices |-> Empty] /\ column = [i \in MemIndices |-> <<0, 0>>]
      /\ public_input_indices_ = {} /\ address_min_ = MaxWord /\ address_max_ = 0
      /\ rc = [i \in RcIndices |-> Empty] /\ next = 1
      /\ used = {} /\ last_hole = 0 /\ orig_address_max = 0 /\ sorted = <<>>
  BY DEF Init
<1>2. stage = "cpu" /\ aborted = "no"
  BY DEF Init
<1>3. /\ stage \notin FromPublic /\ stage \notin FromBuiltin /\ stage \notin FromBuiltinFinalize
      /\ stage \notin FromSort /\ stage \notin FromRcSort
      /\ stage # "rc fill" /\ stage # "mem fill" /\ ~PartsDone
  BY <1>2, StageOrder, StageNames DEF PartsDone
<1>4. /\ \A k : ~PublicDone(k) /\ ~RcFilled(k)
      /\ \A k : ~InstanceDone(k) /\ ~MemFilled(k)
  BY <1>3, AtStage DEF PublicDone, RcFilled, InstanceDone, MemFilled
<1>5. \A t \in Steps : pc[t] = "start"
  BY <1>1
<1>6. \A t \in Steps : pc[t] # "locked" /\ pc[t] # "done"
  BY <1>5
<1>7. 0 \in 0..MaxWord /\ MaxWord \in 0..MaxWord
  BY Constants
<1>8. sorted \in Seq(MemIndices) /\ DOMAIN sorted = {}
  BY <1>1
<1>9. Types
  <2>1. pc \in [Steps -> {"start", "locked", "accessed", "done"}] /\ stage \in {"cpu"} \cup FromPublic
    BY <1>1, <1>2
  <2>2. read_range \in [Steps -> (0..MaxWord) \X (0..MaxWord)]
    BY <1>1, <1>7
  <2>3. cell \in [MemIndices -> {Empty} \cup ((0..MaxWord) \X Nat)]
    BY <1>1
  <2>4. column \in [MemIndices -> (0..MaxWord) \X Nat]
    BY <1>1, <1>7
  <2>5. rc \in [RcIndices -> {Empty} \cup Nat]
    BY <1>1
  <2>6. QED
    BY <1>1, <1>7, <1>8, <2>1, <2>2, <2>3, <2>4, <2>5 DEF Types
<1>10. Locking
  BY <1>1, <1>2, <1>6, MemIndexFacts DEF Locking
<1>11. MemCells
  BY <1>1, <1>4, <1>5, MemIndexFacts DEF MemCells
<1>12. Columns
  BY <1>1, <1>4 DEF Columns
<1>13. RangeOfCells
  <2>1. Counted = {}
    BY <1>1 DEF Counted
  <2>2. QED
    BY <1>1, <2>1 DEF RangeOfCells
<1>14. RcCells
  <2>1. \A k \in RcIndices : rc[k] = Empty
    BY <1>1
  <2>2. \A i \in DOMAIN in.private, part \in Part : PartIndex(i, part) \in RcIndices
    BY <1>1, StatementFacts, RcIndexFacts
  <2>3. QED
    BY <1>1, <1>3, <1>4, <1>6, <2>1, <2>2, RcIndexFacts, RcFreeFacts DEF RcCells
<1>15. InputsRead
  BY <1>3 DEF InputsRead
<1>16. RcFilling /\ RcFull /\ MemFilling /\ MemFull
  BY <1>3 DEF RcFilling, RcFull, MemFilling, MemFull
<1>17. Sorting
  BY <1>1, <1>3, <1>8 DEF Sorting
<1>18. Stopping
  BY <1>2 DEF Stopping
<1>19. QED
  BY <1>9, <1>10, <1>11, <1>12, <1>13, <1>14, <1>15, <1>16, <1>17, <1>18 DEF IInv

-----------------------------------------------------------------------------
\* What a step leaves alone.

LEMMA KeepMemory ==
  ASSUME MemCells, Columns, RangeOfCells, in' = in, pc' = pc, UNCHANGED memory,
         \A k \in 1..PublicSize : PublicDone(k)' <=> PublicDone(k),
         \A i \in Instances : InstanceDone(i)' <=> InstanceDone(i),
         \A j \in MemFree : MemFilled(j)' <=> MemFilled(j),
         rc' = rc \/ \A i \in Instances : ~InstanceDone(i)
  PROVE  MemCells' /\ Columns' /\ RangeOfCells'
<1>1. /\ cell' = cell /\ column' = column /\ public_input_indices_' = public_input_indices_
      /\ address_min_' = address_min_ /\ address_max_' = address_max_
  BY DEF memory, range
<1>2. /\ \A t : Access(t)' = Access(t)
      /\ \A k : PublicEntry(k)' = PublicEntry(k)
      /\ AllAddresses' = AllAddresses
  BY SameStatement
<1>3. \A i \in Instances : InstanceDone(i) =>
        FromParts(Parts(i))' = FromParts(Parts(i)) /\ InstanceAddress(i)' = InstanceAddress(i)
  <2> SUFFICES ASSUME NEW i \in Instances, InstanceDone(i)
               PROVE  FromParts(Parts(i))' = FromParts(Parts(i)) /\ InstanceAddress(i)' = InstanceAddress(i)
    OBVIOUS
  <2>1. rc' = rc
    OBVIOUS
  <2>2. QED
    BY <2>1 DEF FromParts, Parts, InstanceAddress, Word
<1>4. MemCells'
  <2>1. \A t \in Steps : cell[t]' = IF pc[t]' = "start" THEN Empty ELSE Access(t)'
    BY <1>1, <1>2 DEF MemCells
  <2>2. \A k \in 1..PublicSize : cell[PublicIndex(k)]' = IF PublicDone(k)' THEN PublicEntry(k)' ELSE Empty
    BY <1>1, <1>2 DEF MemCells
  <2>3. \A i \in Instances : cell[InstanceIndex(i)]'
          = IF InstanceDone(i)' THEN <<InstanceAddress(i), FromParts(Parts(i))>>' ELSE Empty
    BY <1>1, <1>3 DEF MemCells
  <2>4. \A j \in MemFree :
          IF MemFilled(j)' THEN cell[j]' # Empty /\ cell[j][1]' \notin AllAddresses' /\ cell[j][2]' = 0
                           ELSE cell[j]' = Empty
    BY <1>1, <1>2 DEF MemCells
  <2>5. QED
    BY <2>1, <2>2, <2>3, <2>4 DEF MemCells
<1>5. Columns'
  <2>1. {k \in 1..PublicSize : PublicDone(k)}' = {k \in 1..PublicSize : PublicDone(k)}
    OBVIOUS
  <2>2. QED
    BY <1>1, <2>1 DEF Columns
<1>6. Counted' = Counted
  BY <1>1 DEF Counted
<1>7. RangeOfCells'
  BY <1>1, <1>6 DEF RangeOfCells
<1>8. QED
  BY <1>4, <1>5, <1>7

LEMMA KeepRc ==
  ASSUME RcCells, in' = in, pc' = pc, rc' = rc, PartsDone' <=> PartsDone,
         \A k \in RcFree : RcFilled(k)' <=> RcFilled(k)
  PROVE  RcCells'
<1>1. RcFree' = RcFree
  BY SameStatement
<1>2. QED
  BY <1>1 DEF RcCells, PartOf

\* Nothing is sorted yet.
LEMMA KeepUnsorted ==
  ASSUME Sorting, stage \notin FromSort, sorted' = sorted, stage' \notin FromRcSort
  PROVE  Sorting' /\ sorted = <<>>
<1>1. sorted = <<>> /\ DOMAIN sorted = {} /\ DOMAIN sorted' = {}
  BY DEF Sorting
<1>2. QED
  BY <1>1 DEF Sorting

-----------------------------------------------------------------------------
\* The CPU steps.

\* While they run nothing else has been written.
LEMMA CpuFacts ==
  ASSUME IInv, NEW t \in Steps, pc[t] # "done"
  PROVE  /\ stage \notin FromPublic /\ stage \notin FromBuiltin /\ stage \notin FromBuiltinFinalize
         /\ stage \notin FromSort /\ stage \notin FromRcSort
         /\ stage # "rc fill" /\ stage # "mem fill" /\ ~PartsDone
         /\ \A k : ~PublicDone(k) /\ ~RcFilled(k)
         /\ \A k : ~InstanceDone(k) /\ ~MemFilled(k)
         /\ public_input_indices_ = {} /\ sorted = <<>>
         /\ \A m \in MemIndices : m \notin Steps => cell[m] = Empty
<1>1. stage = "cpu"
  BY DEF IInv, Locking
<1>2. /\ stage \notin FromPublic /\ stage \notin FromBuiltin /\ stage \notin FromBuiltinFinalize
      /\ stage \notin FromSort /\ stage \notin FromRcSort
      /\ stage # "rc fill" /\ stage # "mem fill" /\ ~PartsDone
  BY <1>1, StageOrder, StageNames DEF PartsDone
<1>3. /\ \A k : ~PublicDone(k) /\ ~RcFilled(k)
      /\ \A k : ~InstanceDone(k) /\ ~MemFilled(k)
  BY <1>2, AtStage DEF PublicDone, RcFilled, InstanceDone, MemFilled
<1>4. public_input_indices_ = {} /\ sorted = <<>>
  BY <1>2, <1>3 DEF IInv, Columns, Sorting
<1>5. \A m \in MemIndices : m \notin Steps => cell[m] = Empty
  BY <1>3, MemIndexFacts DEF IInv, MemCells
<1>6. QED
  BY <1>2, <1>3, <1>4, <1>5

\* What a CPU step that goes on leaves as it is.
LEMMA CpuKeeps ==
  ASSUME IInv, NEW t \in Steps, pc[t] # "done", UNCHANGED <<in, control, sorted>>,
         aborted' = aborted, aborted = "no"
  PROVE  /\ InputsRead' /\ RcFilling' /\ RcFull' /\ MemFilling' /\ MemFull' /\ Sorting' /\ Stopping'
         /\ stage' = "cpu" /\ stage' = stage /\ next' = next
         /\ used' = used /\ last_hole' = last_hole /\ orig_address_max' = orig_address_max
         /\ \A k : ~PublicDone(k)' /\ ~RcFilled(k)'
         /\ \A k : ~InstanceDone(k)' /\ ~MemFilled(k)'
         /\ ~PartsDone'
<1>1. /\ stage' = stage /\ next' = next /\ used' = used /\ last_hole' = last_hole
      /\ orig_address_max' = orig_address_max /\ stage = "cpu"
  BY DEF control, scan, IInv, Locking
<1>2. /\ stage \notin FromPublic /\ stage \notin FromBuiltin /\ stage \notin FromBuiltinFinalize
      /\ stage \notin FromSort /\ stage \notin FromRcSort
      /\ stage # "rc fill" /\ stage # "mem fill" /\ ~PartsDone
  BY CpuFacts
<1>3. /\ \A k : ~PublicDone(k)' /\ ~RcFilled(k)'
      /\ \A k : ~InstanceDone(k)' /\ ~MemFilled(k)'
      /\ ~PartsDone'
  BY <1>1, CpuFacts DEF PublicDone, PublicDoneAt, RcFilled, RcFilledAt, InstanceDone, InstanceDoneAt,
                         MemFilled, MemFilledAt, PartsDone
<1>4. InputsRead' /\ RcFilling' /\ RcFull' /\ MemFilling' /\ MemFull'
  BY <1>1, <1>2, <1>3 DEF InputsRead, RcFilling, RcFull, MemFilling, MemFull
<1>5. Sorting'
  BY <1>1, <1>2, KeepUnsorted DEF IInv
<1>6. Stopping'
  BY DEF Stopping
<1>7. QED
  BY <1>1, <1>3, <1>4, <1>5, <1>6

LEMMA EnterWriteStep ==
  ASSUME IInv, NEW t \in Steps, EnterWrite(t)
  PROVE  IInv'
<1>1. /\ aborted = "no" /\ pc[t] = "start" /\ write_trace_lock_ = NoOne
      /\ t \in MemIndices /\ t # NoOne /\ in \in Inputs
  BY MemIndexFacts DEF EnterWrite, Running, CanLock, IInv, Types
<1>2. cell[t] = Empty /\ Access(t) \in (0..MaxWord) \X Nat /\ Empty \notin (0..MaxWord) \X Nat
  BY <1>1, StatementFacts, Constants DEF IInv, MemCells
<1>3. /\ write_trace_lock_' = t
      /\ cell' = [cell EXCEPT ![t] = Access(t)]
      /\ read_range' = [read_range EXCEPT ![t] = range]
      /\ pc' = [pc EXCEPT ![t] = "locked"]
      /\ UNCHANGED <<in, column, public_input_indices_, range, rc, control, sorted, aborted>>
  BY <1>2 DEF EnterWrite
<1>4. /\ cell \in [MemIndices -> {Empty} \cup ((0..MaxWord) \X Nat)]
      /\ read_range \in [Steps -> (0..MaxWord) \X (0..MaxWord)]
      /\ pc \in [Steps -> {"start", "locked", "accessed", "done"}]
      /\ range \in (0..MaxWord) \X (0..MaxWord)
  BY DEF IInv, Types, range
<1>5. /\ cell'[t] = Access(t) /\ \A m \in MemIndices : m # t => cell'[m] = cell[m]
      /\ read_range'[t] = range /\ \A u \in Steps : u # t => read_range'[u] = read_range[u]
  BY <1>1, <1>3, <1>4
<1>6. pc'[t] = "locked" /\ \A u \in Steps : u # t => pc'[u] = pc[u]
  BY <1>3, <1>4
<1>7. /\ address_min_' = address_min_ /\ address_max_' = address_max_ /\ range' = range
      /\ pc[t] # "done"
  BY <1>1, <1>3 DEF range
<1>8. /\ InputsRead' /\ RcFilling' /\ RcFull' /\ MemFilling' /\ MemFull' /\ Sorting' /\ Stopping'
      /\ stage' = "cpu" /\ stage' = stage /\ next' = next
      /\ used' = used /\ last_hole' = last_hole /\ orig_address_max' = orig_address_max
      /\ \A k : ~PublicDone(k)' /\ ~RcFilled(k)'
      /\ \A k : ~InstanceDone(k)' /\ ~MemFilled(k)'
      /\ ~PartsDone'
  BY <1>1, <1>3, <1>7, CpuKeeps
<1>9. Types'
  <2>1. cell' \in [MemIndices -> {Empty} \cup ((0..MaxWord) \X Nat)]
    BY <1>1, <1>2, <1>3, <1>4
  <2>2. read_range' \in [Steps -> (0..MaxWord) \X (0..MaxWord)]
    BY <1>3, <1>4
  <2>3. pc' \in [Steps -> {"start", "locked", "accessed", "done"}]
    BY <1>3, <1>4
  <2>4. QED
    BY <1>3, <1>7, <1>8, <2>1, <2>2, <2>3 DEF IInv, Types
<1>10. Locking'
  <2>1. \A u \in Steps : pc[u] # "locked"
    BY <1>1, MemIndexFacts DEF IInv, Locking
  <2>2. \A u \in Steps : (pc[u] = "locked")' <=> write_trace_lock_' = u
    BY <1>3, <1>6, <2>1
  <2>3. \A u \in Steps : pc[u]' = "locked" => read_range[u]' = range'
    BY <1>5, <1>6, <1>7, <2>1
  <2>4. QED
    BY <1>8, <2>2, <2>3 DEF Locking
<1>11. /\ \A u : Access(u)' = Access(u)
       /\ \A k : PublicEntry(k)' = PublicEntry(k)
       /\ AllAddresses' = AllAddresses /\ RcFree' = RcFree
  BY <1>3, SameStatement
<1>12. \A m \in MemIndices : m \notin Steps => cell'[m] = Empty
  BY <1>1, <1>5, <1>7, CpuFacts
<1>13. MemCells'
  <2>1. \A u \in Steps : cell'[u] = IF pc'[u] = "start" THEN Empty ELSE Access(u)
    BY <1>5, <1>6, MemIndexFacts DEF IInv, MemCells
  <2>2. QED
    BY <1>8, <1>11, <1>12, <2>1, MemIndexFacts DEF MemCells
<1>14. Columns'
  <2>1. public_input_indices_ = {} /\ public_input_indices_' = {} /\ column' = column
    BY <1>1, <1>3, <1>7, CpuFacts
  <2>2. \A m \in MemIndices : cell'[m] # Empty /\ (m \in Steps => pc'[m] # "locked") => column'[m] = cell'[m]
    <3> SUFFICES ASSUME NEW m \in MemIndices, cell'[m] # Empty, m \in Steps => pc'[m] # "locked"
                 PROVE  column[m] = cell'[m]
      BY <2>1
    <3>1. m # t /\ m \in Steps
      BY <1>6, <1>12
    <3>2. cell'[m] = cell[m] /\ pc'[m] = pc[m]
      BY <1>5, <1>6, <3>1
    <3>3. QED
      BY <2>1, <3>1, <3>2 DEF IInv, Columns
  <2>3. QED
    BY <1>8, <2>1, <2>2 DEF Columns
<1>15. RangeOfCells'
  <2>1. Counted' = Counted
    BY <1>1, <1>2, <1>5, <1>6, MemIndexFacts DEF Counted
  <2>2. t \notin Counted
    BY <1>2 DEF Counted
  <2>3. \A m \in Counted : cell'[m] = cell[m]
    BY <1>5, <2>2 DEF Counted
  <2>4. QED
    BY <1>7, <2>1, <2>3 DEF IInv, RangeOfCells
<1>16. RcCells'
  <2>1. \A u \in Steps : pc'[u] = "done" <=> pc[u] = "done"
    BY <1>6, <1>7
  <2>2. ~PartsDone /\ \A k : ~RcFilled(k)
    BY <1>7, CpuFacts
  <2>3. rc' = rc /\ in' = in
    BY <1>3
  <2>4. QED
    BY <1>8, <1>11, <2>1, <2>2, <2>3 DEF IInv, RcCells
<1>17. QED
  BY <1>8, <1>9, <1>10, <1>13, <1>14, <1>15, <1>16 DEF IInv

LEMMA LeaveWriteStep ==
  ASSUME IInv, NEW t \in Steps, LeaveWrite(t)
  PROVE  IInv'
<1>1. aborted = "no" /\ pc[t] = "locked" /\ t \in MemIndices /\ t # NoOne /\ in \in Inputs
  BY MemIndexFacts DEF LeaveWrite, Running, IInv, Types
<1>2. write_trace_lock_ = t /\ read_range[t] = range
  BY <1>1 DEF IInv, Locking
<1>3. cell[t] = Access(t) /\ Access(t) \in (0..MaxWord) \X Nat /\ Empty \notin (0..MaxWord) \X Nat
  BY <1>1, StatementFacts, Constants DEF IInv, MemCells
<1> DEFINE a == Access(t)[1]
<1>4. /\ address_min_' = Smaller(a, address_min_) /\ address_max_' = Larger(a, address_max_)
      /\ column' = [column EXCEPT ![t] = Access(t)] /\ write_trace_lock_' = NoOne
      /\ UNCHANGED <<in, read_range, cell, public_input_indices_, rc, control, sorted, aborted>>
  BY <1>2 DEF LeaveWrite, range
<1>5. pc' = [pc EXCEPT ![t] = "accessed"] /\ pc[t] # "done"
  BY <1>1 DEF LeaveWrite
<1>6. /\ pc \in [Steps -> {"start", "locked", "accessed", "done"}]
      /\ column \in [MemIndices -> (0..MaxWord) \X Nat]
      /\ address_min_ \in 0..MaxWord /\ address_max_ \in 0..MaxWord /\ a \in 0..MaxWord
  BY <1>3 DEF IInv, Types
<1>7. pc'[t] = "accessed" /\ \A u \in Steps : u # t => pc'[u] = pc[u]
  BY <1>5, <1>6
<1>8. column'[t] = cell[t] /\ \A m \in MemIndices : m # t => column'[m] = column[m]
  BY <1>1, <1>3, <1>4, <1>6
<1>9. cell' = cell /\ in' = in /\ rc' = rc /\ public_input_indices_' = public_input_indices_
  BY <1>4
<1>10. /\ InputsRead' /\ RcFilling' /\ RcFull' /\ MemFilling' /\ MemFull' /\ Sorting' /\ Stopping'
       /\ stage' = "cpu" /\ stage' = stage /\ next' = next
       /\ used' = used /\ last_hole' = last_hole /\ orig_address_max' = orig_address_max
       /\ \A k : ~PublicDone(k)' /\ ~RcFilled(k)'
       /\ \A k : ~InstanceDone(k)' /\ ~MemFilled(k)'
       /\ ~PartsDone'
  BY <1>1, <1>4, <1>5, CpuKeeps
<1>11. Types'
  <2>1. address_min_' \in 0..MaxWord /\ address_max_' \in 0..MaxWord
    BY <1>4, <1>6 DEF Smaller, Larger
  <2>2. column' \in [MemIndices -> (0..MaxWord) \X Nat]
    BY <1>1, <1>3, <1>4, <1>6
  <2>3. pc' \in [Steps -> {"start", "locked", "accessed", "done"}]
    BY <1>5, <1>6
  <2>4. QED
    BY <1>4, <1>10, <2>1, <2>2, <2>3 DEF IInv, Types
<1>12. \A u \in Steps : pc'[u] # "locked"
  <2>1. \A u \in Steps : u # t => pc[u] # "locked"
    BY <1>2 DEF IInv, Locking
  <2>2. QED
    BY <1>7, <2>1
<1>13. Locking'
  BY <1>4, <1>10, <1>12, MemIndexFacts DEF Locking
<1>14. /\ \A u : Access(u)' = Access(u)
       /\ \A k : PublicEntry(k)' = PublicEntry(k)
       /\ AllAddresses' = AllAddresses /\ RcFree' = RcFree
  BY <1>4, SameStatement
<1>15. \A m \in MemIndices : m \notin Steps => cell'[m] = Empty
  BY <1>5, <1>9, CpuFacts
<1>16. MemCells'
  <2>1. \A u \in Steps : cell'[u] = IF pc'[u] = "start" THEN Empty ELSE Access(u)
    BY <1>3, <1>7, <1>9 DEF IInv, MemCells
  <2>2. QED
    BY <1>10, <1>14, <1>15, <2>1, MemIndexFacts DEF MemCells
<1>17. Columns'
  <2>1. public_input_indices_ = {} /\ public_input_indices_' = {}
    BY <1>5, <1>9, CpuFacts
  <2>2. \A m \in MemIndices : cell'[m] # Empty => column'[m] = cell'[m]
    <3> SUFFICES ASSUME NEW m \in MemIndices, cell[m] # Empty, m # t
                 PROVE  column[m] = cell[m]
      BY <1>8, <1>9
    <3>1. m \in Steps /\ pc[m] # "locked"
      BY <1>7, <1>9, <1>12, <1>15
    <3>2. QED
      BY <2>1, <3>1 DEF IInv, Columns
  <2>3. QED
    BY <1>10, <2>1, <2>2 DEF Columns
<1>18. RangeOfCells'
  <2>1. Counted' = Counted \cup {t}
    BY <1>1, <1>3, <1>7, <1>9, <1>12, MemIndexFacts DEF Counted
  <2>2. \A m \in Counted : cell[m][1] \in 0..MaxWord
    BY DEF Counted, IInv, Types
  <2>3. cell[t][1] = a
    BY <1>3
  <2>4. /\ \A m \in Counted : address_min_ <= cell[m][1] /\ cell[m][1] <= address_max_
        /\ Counted = {} => address_min_ = MaxWord /\ address_max_ = 0
        /\ Counted # {} => /\ \E i \in Counted : cell[i][1] = address_min_
                           /\ \E i \in Counted : cell[i][1] = address_max_
    BY DEF IInv, RangeOfCells
  <2> HIDE DEF a
  <2>5. \A m \in Counted' : address_min_' <= cell[m][1] /\ cell[m][1] <= address_max_'
    BY <1>4, <1>6, <2>1, <2>2, <2>3, <2>4 DEF Smaller, Larger
  <2>6. /\ \E i \in Counted' : cell[i][1] = address_min_'
        /\ \E i \in Counted' : cell[i][1] = address_max_'
    BY <1>4, <1>6, <2>1, <2>3, <2>4, Constants DEF Smaller, Larger
  <2>7. QED
    BY <1>9, <2>1, <2>5, <2>6 DEF RangeOfCells
<1>19. RcCells'
  <2>1. \A u \in Steps : pc'[u] = "done" <=> pc[u] = "done"
    BY <1>5, <1>7
  <2>2. ~PartsDone /\ \A k : ~RcFilled(k)
    BY <1>5, CpuFacts
  <2>3. QED
    BY <1>9, <1>10, <1>14, <2>1, <2>2 DEF IInv, RcCells
<1>20. QED
  BY <1>10, <1>11, <1>13, <1>16, <1>17, <1>18, <1>19 DEF IInv

LEMMA WriteOffsetStep ==
  ASSUME IInv, NEW t \in Steps, WriteOffset(t)
  PROVE  IInv'
<1>1. aborted = "no" /\ pc[t] = "accessed" /\ pc[t] # "done" /\ in \in Inputs
  BY DEF WriteOffset, Running, IInv, Types
<1>2. t \in RcIndices /\ rc[t] = Empty /\ in.offset[t] \in Nat /\ Empty \notin Nat
  BY <1>1, RcIndexFacts, StatementFacts, Constants DEF IInv, RcCells
<1>3. /\ rc' = [rc EXCEPT ![t] = in.offset[t]]
      /\ pc' = [pc EXCEPT ![t] = "done"]
      /\ UNCHANGED <<in, write_trace_lock_, read_range, memory, control, sorted, aborted>>
  BY <1>2 DEF WriteOffset
<1>4. /\ cell' = cell /\ column' = column /\ public_input_indices_' = public_input_indices_
      /\ address_min_' = address_min_ /\ address_max_' = address_max_ /\ in' = in /\ range' = range
  BY <1>3 DEF memory, range
<1>5. pc \in [Steps -> {"start", "locked", "accessed", "done"}] /\ rc \in [RcIndices -> {Empty} \cup Nat]
  BY DEF IInv, Types
<1>6. pc'[t] = "done" /\ \A u \in Steps : u # t => pc'[u] = pc[u]
  BY <1>3, <1>5
<1>7. rc'[t] = in.offset[t] /\ \A k \in RcIndices : k # t => rc'[k] = rc[k]
  BY <1>2, <1>3, <1>5
<1>8. /\ InputsRead' /\ RcFilling' /\ RcFull' /\ MemFilling' /\ MemFull' /\ Sorting' /\ Stopping'
      /\ stage' = "cpu" /\ stage' = stage /\ next' = next
      /\ used' = used /\ last_hole' = last_hole /\ orig_address_max' = orig_address_max
      /\ \A k : ~PublicDone(k)' /\ ~RcFilled(k)'
      /\ \A k : ~InstanceDone(k)' /\ ~MemFilled(k)'
      /\ ~PartsDone'
  BY <1>1, <1>3, CpuKeeps
<1>9. /\ \A u \in Steps : pc'[u] = "start" <=> pc[u] = "start"
      /\ \A u \in Steps : pc'[u] = "locked" <=> pc[u] = "locked"
  BY <1>1, <1>6
<1>10. /\ \A u : Access(u)' = Access(u)
       /\ \A k : PublicEntry(k)' = PublicEntry(k)
       /\ AllAddresses' = AllAddresses /\ RcFree' = RcFree
  BY <1>4, SameStatement
<1>11. Types'
  <2>1. rc' \in [RcIndices -> {Empty} \cup Nat]
    BY <1>2, <1>3, <1>5
  <2>2. pc' \in [Steps -> {"start", "locked", "accessed", "done"}]
    BY <1>3, <1>5
  <2>3. QED
    BY <1>3, <1>4, <1>8, <2>1, <2>2 DEF IInv, Types
<1>12. Locking'
  BY <1>3, <1>4, <1>8, <1>9 DEF IInv, Locking
<1>13. \A m \in MemIndices : m \notin Steps => cell[m] = Empty
  BY <1>1, CpuFacts
<1>14. MemCells'
  <2>1. \A u \in Steps : cell'[u] = IF pc'[u] = "start" THEN Empty ELSE Access(u)
    BY <1>4, <1>9 DEF IInv, MemCells
  <2>2. QED
    BY <1>4, <1>8, <1>10, <1>13, <2>1, MemIndexFacts DEF MemCells
<1>15. Columns'
  <2>1. public_input_indices_ = {}
    BY <1>1, CpuFacts
  <2>2. \A m \in MemIndices : cell[m] # Empty /\ (m \in Steps => pc[m] # "locked") => column[m] = cell[m]
    BY <2>1 DEF IInv, Columns
  <2>3. QED
    BY <1>4, <1>8, <1>9, <2>1, <2>2 DEF Columns
<1>16. RangeOfCells'
  <2>1. Counted' = Counted
    BY <1>4, <1>9 DEF Counted
  <2>2. QED
    BY <1>4, <2>1 DEF IInv, RangeOfCells
<1>17. RcCells'
  <2>1. ~PartsDone /\ \A k : ~RcFilled(k)
    BY <1>1, CpuFacts
  <2>2. \A u \in Steps : rc'[u] = IF pc'[u] = "done" THEN in.offset[u] ELSE Empty
    BY <1>6, <1>7, RcIndexFacts DEF IInv, RcCells
  <2>3. \A i \in DOMAIN in.private : \A part \in Part : rc'[PartIndex(i, part)] = Empty
    <3> SUFFICES ASSUME NEW i \in DOMAIN in.private, NEW part \in Part
                 PROVE  rc'[PartIndex(i, part)] = Empty
      OBVIOUS
    <3>1. PartIndex(i, part) \in RcIndices /\ PartIndex(i, part) # t
      BY <1>1, StatementFacts, RcIndexFacts
    <3>2. rc[PartIndex(i, part)] = Empty
      BY <2>1 DEF IInv, RcCells
    <3>3. QED
      BY <1>7, <3>1, <3>2
  <2>4. \A k \in RcFree : rc'[k] = Empty
    <3>1. \A k \in RcFree : k \in RcIndices /\ k # t /\ rc[k] = Empty
      BY <1>1, <2>1, RcFreeFacts DEF IInv, RcCells
    <3>2. QED
      BY <1>7, <3>1
  <2>5. QED
    BY <1>4, <1>8, <1>10, <2>2, <2>3, <2>4 DEF RcCells
<1>18. QED
  BY <1>8, <1>11, <1>12, <1>14, <1>15, <1>16, <1>17 DEF IInv

LEMMA StepsDoneStep ==
  ASSUME IInv, StepsDone
  PROVE  IInv'
<1>1. /\ aborted = "no" /\ stage = "cpu" /\ (\A t \in Steps : pc[t] = "done")
      /\ stage' = "public" /\ next' = 1
      /\ UNCHANGED <<in, pc, write_trace_lock_, read_range, memory, rc, scan, sorted, aborted>>
  BY DEF StepsDone, Running, GoTo
<1>2. /\ cell' = cell /\ column' = column /\ public_input_indices_' = public_input_indices_
      /\ address_min_' = address_min_ /\ address_max_' = address_max_ /\ range' = range
      /\ used' = used /\ last_hole' = last_hole /\ orig_address_max' = orig_address_max
  BY <1>1 DEF memory, range, scan
<1>3. /\ stage \notin FromPublic /\ stage \notin FromSort /\ ~PartsDone
      /\ stage' \in FromPublic /\ stage' \notin FromBuiltin /\ stage' \notin FromBuiltinFinalize
      /\ stage' \notin FromSort /\ stage' \notin FromRcSort /\ ~PartsDone'
      /\ stage' # "rc fill" /\ stage' # "mem fill"
  BY <1>1, StageOrder, StageNames DEF PartsDone
<1>4. /\ \A k \in 1..PublicSize : ~PublicDone(k) /\ ~PublicDone(k)'
      /\ \A k : ~RcFilled(k) /\ ~RcFilled(k)'
      /\ \A k : ~InstanceDone(k) /\ ~MemFilled(k) /\ ~InstanceDone(k)' /\ ~MemFilled(k)'
  <2>1. \A k \in 1..PublicSize : ~(k < 1)
    BY Constants
  <2>2. QED
    BY <1>1, <1>3, <2>1, AtStage DEF PublicDone, RcFilled, InstanceDone, MemFilled
<1>5. Types'
  BY <1>1, <1>2, <1>3 DEF IInv, Types
<1>6. Locking'
  BY <1>1, <1>2 DEF IInv, Locking
<1>7. MemCells' /\ Columns' /\ RangeOfCells'
  BY <1>1, <1>4, KeepMemory DEF IInv
<1>8. RcCells'
  BY <1>1, <1>3, <1>4, KeepRc DEF IInv
<1>9. InputsRead' /\ RcFilling' /\ RcFull' /\ MemFilling' /\ MemFull'
  BY <1>3 DEF InputsRead, RcFilling, RcFull, MemFilling, MemFull
<1>10. Sorting'
  BY <1>1, <1>3, KeepUnsorted DEF IInv
<1>11. Stopping'
  BY <1>1 DEF Stopping
<1>12. QED
  BY <1>5, <1>6, <1>7, <1>8, <1>9, <1>10, <1>11 DEF IInv

-----------------------------------------------------------------------------
\* The one thread's writes.

LEMMA WriteCellFacts ==
  ASSUME Types, RangeOfCells, \A t \in Steps : pc[t] = "done", pc' = pc,
         NEW m \in MemIndices, cell[m] = Empty, NEW a \in 0..MaxWord, NEW v \in Nat,
         NEW is_public \in BOOLEAN, WriteCell(m, a, v, is_public)
  PROVE  /\ cell' \in [MemIndices -> {Empty} \cup ((0..MaxWord) \X Nat)]
         /\ column' \in [MemIndices -> (0..MaxWord) \X Nat]
         /\ address_min_' \in 0..MaxWord /\ address_max_' \in 0..MaxWord
         /\ address_min_' = Smaller(a, address_min_) /\ address_max_' = Larger(a, address_max_)
         /\ cell'[m] = <<a, v>> /\ cell'[m] # Empty /\ cell'[m][1] = a /\ cell'[m][2] = v
         /\ \A k \in MemIndices : k # m => cell'[k] = cell[k] /\ column'[k] = column[k]
         /\ column'[m] = IF is_public THEN <<0, 0>> ELSE <<a, v>>
         /\ public_input_indices_' = public_input_indices_ \cup (IF is_public THEN {m} ELSE {})
         /\ RangeOfCells'
<1>1. /\ cell' = [cell EXCEPT ![m] = <<a, v>>]
      /\ address_min_' = Smaller(a, address_min_)
      /\ address_max_' = Larger(a, address_max_)
      /\ column' = [column EXCEPT ![m] = IF is_public THEN <<0, 0>> ELSE <<a, v>>]
      /\ public_input_indices_' = public_input_indices_ \cup (IF is_public THEN {m} ELSE {})
  BY DEF WriteCell
<1>2. /\ cell \in [MemIndices -> {Empty} \cup ((0..MaxWord) \X Nat)]
      /\ column \in [MemIndices -> (0..MaxWord) \X Nat]
      /\ address_min_ \in 0..MaxWord /\ address_max_ \in 0..MaxWord
  BY DEF Types
<1>3. 0 \in 0..MaxWord /\ Empty \notin (0..MaxWord) \X Nat /\ MaxWord \in Nat
  BY Constants
<1>4. <<a, v>> \in (0..MaxWord) \X Nat /\ <<0, 0>> \in (0..MaxWord) \X Nat
  BY <1>3
<1>5. /\ cell' \in [MemIndices -> {Empty} \cup ((0..MaxWord) \X Nat)]
      /\ column' \in [MemIndices -> (0..MaxWord) \X Nat]
  BY <1>1, <1>2, <1>4
<1>6. address_min_' \in 0..MaxWord /\ address_max_' \in 0..MaxWord
  BY <1>1, <1>2 DEF Smaller, Larger
<1>7. cell'[m] = <<a, v>> /\ cell'[m] # Empty /\ cell'[m][1] = a /\ cell'[m][2] = v
  <2>1. cell'[m] = <<a, v>>
    BY <1>1, <1>2
  <2>2. <<a, v>> # Empty
    BY <1>3, <1>4
  <2>3. QED
    BY <2>1, <2>2
<1>8. /\ \A k \in MemIndices : k # m => cell'[k] = cell[k] /\ column'[k] = column[k]
      /\ column'[m] = IF is_public THEN <<0, 0>> ELSE <<a, v>>
  BY <1>1, <1>2
<1>9. RangeOfCells'
  <2>1. \A t \in Steps : pc[t] # "locked" /\ pc'[t] # "locked"
    OBVIOUS
  <2>2. Counted' = Counted \cup {m} /\ m \notin Counted
    BY <1>7, <1>8, <2>1 DEF Counted
  <2>3. \A k \in Counted : cell[k][1] \in 0..MaxWord
    BY <1>2 DEF Counted
  <2>4. \A k \in Counted : cell'[k][1] = cell[k][1]
    BY <1>8, <2>2 DEF Counted
  <2>5. /\ \A k \in Counted : address_min_ <= cell[k][1] /\ cell[k][1] <= address_max_
        /\ Counted = {} => address_min_ = MaxWord /\ address_max_ = 0
        /\ Counted # {} => /\ \E i \in Counted : cell[i][1] = address_min_
                           /\ \E i \in Counted : cell[i][1] = address_max_
    BY DEF RangeOfCells
  <2>6. \A k \in Counted' : address_min_' <= cell'[k][1] /\ cell'[k][1] <= address_max_'
    BY <1>1, <1>2, <1>7, <2>2, <2>3, <2>4, <2>5 DEF Smaller, Larger
  <2>7. /\ \E i \in Counted' : cell'[i][1] = address_min_'
        /\ \E i \in Counted' : cell'[i][1] = address_max_'
    BY <1>1, <1>2, <1>3, <1>7, <2>2, <2>4, <2>5 DEF Smaller, Larger
  <2>8. QED
    BY <2>2, <2>6, <2>7 DEF RangeOfCells
<1>10. QED
  BY <1>1, <1>5, <1>6, <1>7, <1>8, <1>9

\* After the CPU steps.
LEMMA OneThread ==
  ASSUME IInv, stage \in FromPublic
  PROVE  /\ \A t \in Steps : pc[t] = "done" /\ pc[t] # "start" /\ pc[t] # "locked"
         /\ \A t \in Steps : cell[t] = Access(t) /\ rc[t] = in.offset[t]
         /\ stage # "cpu" /\ in \in Inputs
<1>1. stage # "cpu"
  BY StageOrder
<1>2. \A t \in Steps : pc[t] = "done" /\ pc[t] # "start" /\ pc[t] # "locked"
  BY <1>1 DEF IInv, Locking
<1>3. QED
  BY <1>1, <1>2 DEF IInv, MemCells, RcCells, Types

LEMMA WritePublicMemoryStep ==
  ASSUME IInv, WritePublicMemory
  PROVE  IInv'
<1>1. aborted = "no" /\ stage = "public" /\ in \in Inputs
  BY DEF WritePublicMemory, Running, IInv, Types
<1>2. /\ stage \in FromPublic /\ stage \notin FromBuiltin /\ stage \notin FromBuiltinFinalize
      /\ stage \notin FromSort /\ ~PartsDone
  BY <1>1, StageOrder, StageNames DEF PartsDone
<1>3. /\ \A k : PublicDone(k) <=> k < next
      /\ \A k : ~RcFilled(k)
      /\ \A k : ~InstanceDone(k) /\ ~MemFilled(k)
  BY <1>1, AtStage DEF PublicDone, RcFilled, InstanceDone, MemFilled
<1>4. /\ \A t \in Steps : pc[t] = "done" /\ pc[t] # "start" /\ pc[t] # "locked"
      /\ \A t \in Steps : cell[t] = Access(t) /\ rc[t] = in.offset[t]
  BY <1>2, OneThread
<1>5. next \in Nat /\ next >= 1 /\ PublicSize \in Nat
  BY Constants DEF IInv, Types
<1>6. CASE Len(in.public) > PublicSize
  <2>1. ~InputsFit
    <3>1. Len(in.public) \in Nat
      BY <1>1, StatementFacts
    <3>2. QED
      BY <1>5, <1>6, <3>1 DEF InputsFit
  <2>2. Abort("public memory too large")
    BY <1>6 DEF WritePublicMemory
  <2>3. QED
    BY <2>1, <2>2, AbortKeeps DEF Unfit
<1>7. CASE ~(Len(in.public) > PublicSize) /\ next > PublicSize
  <2>1. /\ stage' = "builtin" /\ next' = 1
        /\ UNCHANGED <<rest, memory, rc, scan>>
    BY <1>7 DEF WritePublicMemory, GoTo
  <2>2. /\ in' = in /\ pc' = pc /\ write_trace_lock_' = write_trace_lock_ /\ read_range' = read_range
        /\ sorted' = sorted /\ aborted' = aborted /\ rc' = rc /\ UNCHANGED memory
        /\ cell' = cell /\ column' = column /\ public_input_indices_' = public_input_indices_
        /\ address_min_' = address_min_ /\ address_max_' = address_max_ /\ range' = range
        /\ used' = used /\ last_hole' = last_hole /\ orig_address_max' = orig_address_max
    BY <2>1 DEF rest, memory, scan, range
  <2>3. /\ stage' \in FromPublic /\ stage' \in FromBuiltin /\ stage' \notin FromBuiltinFinalize
        /\ stage' \notin FromSort /\ stage' \notin FromRcSort /\ ~PartsDone'
        /\ stage' # "rc fill" /\ stage' # "mem fill" /\ stage' # "cpu"
    BY <2>1, StageOrder, StageNames DEF PartsDone
  <2>4. /\ \A k : PublicDone(k)'
        /\ \A k : ~RcFilled(k)'
        /\ \A k : ~InstanceDone(k)' /\ ~MemFilled(k)'
    BY <2>1, AtStage DEF PublicDone, RcFilled, InstanceDone, MemFilled
  <2>5. \A k \in 1..PublicSize : PublicDone(k)
    BY <1>3, <1>5, <1>7
  <2>6. Types'
    BY <2>1, <2>2, <2>3 DEF IInv, Types
  <2>7. Locking'
    BY <2>2, <2>3, <1>4 DEF IInv, Locking
  <2>8. MemCells' /\ Columns' /\ RangeOfCells'
    BY <1>3, <2>2, <2>4, <2>5, KeepMemory DEF IInv
  <2>9. RcCells'
    BY <1>2, <1>3, <2>2, <2>3, <2>4, KeepRc DEF IInv
  <2>10. InputsRead'
    <3>1. Len(in.public) \in Nat
      BY <1>1, StatementFacts
    <3>2. Len(in.public) <= PublicSize
      BY <1>5, <1>7, <3>1
    <3>3. QED
      BY <2>2, <2>3, <3>2 DEF InputsRead
  <2>11. RcFilling' /\ RcFull' /\ MemFilling' /\ MemFull'
    BY <2>3 DEF RcFilling, RcFull, MemFilling, MemFull
  <2>12. Sorting'
    BY <1>2, <2>2, <2>3, KeepUnsorted DEF IInv
  <2>13. Stopping'
    BY <1>1, <2>2 DEF Stopping
  <2>14. QED
    BY <2>6, <2>7, <2>8, <2>9, <2>10, <2>11, <2>12, <2>13 DEF IInv
<1>8. CASE ~(Len(in.public) > PublicSize) /\ ~(next > PublicSize)
  <2> DEFINE m == PublicIndex(next)
             a == PublicEntry(next)[1]
             v == PublicEntry(next)[2]
  <2>1. /\ next \in 1..PublicSize /\ m \in MemIndices /\ m \notin Steps
        /\ PublicEntry(next) \in (0..MaxWord) \X Nat
    <3>1. next \in 1..PublicSize
      BY <1>5, <1>8
    <3>2. QED
      BY <1>1, <3>1, MemIndexFacts, StatementFacts
  <2>2. a \in 0..MaxWord /\ v \in Nat /\ PublicEntry(next) = <<a, v>>
    BY <2>1
  <2>3. cell[m] = Empty
    BY <1>3, <1>5, <2>1 DEF IInv, MemCells
  <2>4. /\ WriteCell(m, a, v, TRUE) /\ next' = next + 1
        /\ UNCHANGED <<rest, rc, stage, scan>>
    BY <1>8, <2>3 DEF WritePublicMemory
  <2> HIDE DEF m, a, v
  <2>5. /\ in' = in /\ pc' = pc /\ write_trace_lock_' = write_trace_lock_ /\ read_range' = read_range
        /\ sorted' = sorted /\ aborted' = aborted /\ rc' = rc /\ stage' = stage
        /\ used' = used /\ last_hole' = last_hole /\ orig_address_max' = orig_address_max
    BY <2>4 DEF rest, scan
  <2>6. /\ cell' \in [MemIndices -> {Empty} \cup ((0..MaxWord) \X Nat)]
        /\ column' \in [MemIndices -> (0..MaxWord) \X Nat]
        /\ address_min_' \in 0..MaxWord /\ address_max_' \in 0..MaxWord
        /\ cell'[m] = <<a, v>> /\ cell'[m] # Empty
        /\ \A k \in MemIndices : k # m => cell'[k] = cell[k] /\ column'[k] = column[k]
        /\ column'[m] = <<0, 0>>
        /\ public_input_indices_' = public_input_indices_ \cup {m}
        /\ RangeOfCells'
    <3>1. TRUE \in BOOLEAN
      OBVIOUS
    <3>2. Types /\ RangeOfCells
      BY DEF IInv
    <3>3. /\ cell' \in [MemIndices -> {Empty} \cup ((0..MaxWord) \X Nat)]
          /\ column' \in [MemIndices -> (0..MaxWord) \X Nat]
          /\ address_min_' \in 0..MaxWord /\ address_max_' \in 0..MaxWord
          /\ cell'[m] = <<a, v>> /\ cell'[m] # Empty
          /\ \A k \in MemIndices : k # m => cell'[k] = cell[k] /\ column'[k] = column[k]
          /\ column'[m] = IF TRUE THEN <<0, 0>> ELSE <<a, v>>
          /\ public_input_indices_' = public_input_indices_ \cup (IF TRUE THEN {m} ELSE {})
          /\ RangeOfCells'
      <4>1. (\A t \in Steps : pc[t] = "done") /\ pc' = pc /\ m \in MemIndices /\ cell[m] = Empty
        BY <1>4, <2>1, <2>3, <2>5
      <4>2. a \in 0..MaxWord /\ v \in Nat /\ WriteCell(m, a, v, TRUE)
        BY <2>2, <2>4
      <4>3. QED
        BY <3>1, <3>2, <4>1, <4>2, WriteCellFacts, Zenon
    <3>4. QED
      BY <3>3, Zenon
  <2>7. /\ \A k : (PublicDone(k)' <=> k < next + 1) /\ ~RcFilled(k)'
        /\ \A k : ~InstanceDone(k)' /\ ~MemFilled(k)'
        /\ (PartsDone' <=> PartsDone)
    <3>1. stage' = "public" /\ next' = next + 1
      BY <1>1, <2>4, <2>5
    <3>2. QED
      BY <1>2, <3>1, <2>5, AtStage DEF PublicDone, RcFilled, InstanceDone, MemFilled, PartsDone
  <2>8. /\ \A t : Access(t)' = Access(t)
        /\ \A k : PublicEntry(k)' = PublicEntry(k)
        /\ AllAddresses' = AllAddresses
    BY <2>5, SameStatement
  <2>9. Types'
    <3>1. next' \in Nat \ {0}
      BY <1>5, <2>4
    <3>2. QED
      BY <2>5, <2>6, <3>1 DEF IInv, Types
  <2>10. Locking'
    BY <1>2, <1>4, <2>5 DEF IInv, Locking, FromPublic
  <2>11. \A k \in 1..PublicSize : k # next => PublicIndex(k) # m /\ PublicIndex(k) \in MemIndices
    BY <2>1, MemIndexFacts DEF m
  <2>12. MemCells'
    <3>1. \A t \in Steps : cell'[t] = Access(t) /\ pc'[t] # "start"
      BY <1>4, <2>1, <2>5, <2>6, MemIndexFacts
    <3>2. \A k \in 1..PublicSize : cell'[PublicIndex(k)] = IF k < next + 1 THEN PublicEntry(k) ELSE Empty
      <4> SUFFICES ASSUME NEW k \in 1..PublicSize
                   PROVE  cell'[PublicIndex(k)] = IF k < next + 1 THEN PublicEntry(k) ELSE Empty
        OBVIOUS
      <4>1. CASE k = next
        <5>1. cell'[PublicIndex(k)] = PublicEntry(k) /\ k < next + 1
          BY <1>5, <2>2, <2>6, <4>1 DEF m
        <5>2. QED
          BY <5>1
      <4>2. CASE k # next
        <5>1. cell'[PublicIndex(k)] = cell[PublicIndex(k)]
          BY <2>6, <2>11, <4>2
        <5>2. cell[PublicIndex(k)] = IF k < next THEN PublicEntry(k) ELSE Empty
          BY <1>3 DEF IInv, MemCells
        <5>3. k < next + 1 <=> k < next
          BY <1>5, <4>2
        <5>4. QED
          BY <5>1, <5>2, <5>3
      <4>3. QED
        BY <4>1, <4>2
    <3>3. \A i \in Instances : cell'[InstanceIndex(i)] = Empty
      <4>1. \A i \in Instances : InstanceIndex(i) \in MemIndices /\ InstanceIndex(i) # m
        BY <2>1, MemIndexFacts DEF m
      <4>2. QED
        BY <1>3, <2>6, <4>1 DEF IInv, MemCells
    <3>4. \A j \in MemFree : cell'[j] = Empty
      <4>1. \A j \in MemFree : j \in MemIndices /\ j # m
        BY <2>1, MemIndexFacts DEF m
      <4>2. QED
        BY <1>3, <2>6, <4>1 DEF IInv, MemCells
    <3>5. QED
      BY <2>7, <2>8, <3>1, <3>2, <3>3, <3>4 DEF MemCells
  <2>13. Columns'
    <3>1. public_input_indices_' = {PublicIndex(k) : k \in {k \in 1..PublicSize : k < next + 1}}
      <4>1. public_input_indices_ = {PublicIndex(k) : k \in {k \in 1..PublicSize : k < next}}
        BY <1>3 DEF IInv, Columns
      <4>2. {k \in 1..PublicSize : k < next + 1} = {k \in 1..PublicSize : k < next} \cup {next}
        BY <1>5, <2>1
      <4>3. QED
        BY <2>6, <4>1, <4>2 DEF m
    <3>2. ASSUME NEW i \in MemIndices
          PROVE  IF i \in public_input_indices_' THEN column'[i] = <<0, 0>>
                 ELSE cell'[i] # Empty /\ (i \in Steps => pc'[i] # "locked") => column'[i] = cell'[i]
      <4>1. CASE i = m
        BY <2>6, <4>1
      <4>2. CASE i # m
        <5>1. cell'[i] = cell[i] /\ column'[i] = column[i] /\ pc' = pc
          BY <2>5, <2>6, <4>2
        <5>2. i \in public_input_indices_' <=> i \in public_input_indices_
          BY <2>6, <4>2
        <5>3. IF i \in public_input_indices_ THEN column[i] = <<0, 0>>
              ELSE cell[i] # Empty /\ (i \in Steps => pc[i] # "locked") => column[i] = cell[i]
          BY DEF IInv, Columns
        <5>4. QED
          BY <5>1, <5>2, <5>3
      <4>3. QED
        BY <4>1, <4>2
    <3>3. QED
      BY <2>7, <3>1, <3>2 DEF Columns
  <2>14. RcCells'
    BY <1>3, <2>5, <2>7, KeepRc DEF IInv
  <2>15. /\ stage' \notin FromBuiltin /\ stage' \notin FromBuiltinFinalize /\ stage' \notin FromSort
         /\ stage' # "rc fill" /\ stage' # "mem fill" /\ ~PartsDone' /\ stage' \notin FromRcSort
    BY <1>1, <1>2, <2>5, <2>7, StageOrder
  <2>16. InputsRead' /\ RcFilling' /\ RcFull' /\ MemFilling' /\ MemFull'
    BY <2>15 DEF InputsRead, RcFilling, RcFull, MemFilling, MemFull
  <2>17. Sorting'
    BY <1>2, <2>5, <2>15, KeepUnsorted DEF IInv
  <2>18. Stopping'
    BY <1>1, <2>5 DEF Stopping
  <2>19. QED
    BY <2>6, <2>9, <2>10, <2>12, <2>13, <2>14, <2>16, <2>17, <2>18 DEF IInv
<1>9. QED
  BY <1>6, <1>7, <1>8

-----------------------------------------------------------------------------
\* Steps from one stage to the next, which write nothing.

LEMMA MoveOn ==
  ASSUME IInv, stage \in FromBuiltin, stage' \in FromPublic, aborted = "no",
         UNCHANGED <<rest, memory, rc>>, next' \in Nat \ {0},
         used' \subseteq 0..MaxWord, last_hole' \in 0..MaxWord, orig_address_max' \in 0..MaxWord,
         \A k \in 1..PublicSize : PublicDone(k)' <=> PublicDone(k),
         \A i \in Instances : InstanceDone(i)' <=> InstanceDone(i),
         \A j \in MemFree : MemFilled(j)' <=> MemFilled(j),
         PartsDone' <=> PartsDone,
         \A k \in RcFree : RcFilled(k)' <=> RcFilled(k)
  PROVE  /\ Types' /\ Locking' /\ MemCells' /\ Columns' /\ RangeOfCells' /\ RcCells'
         /\ InputsRead' /\ Stopping'
         /\ cell' = cell /\ in' = in /\ rc' = rc /\ sorted' = sorted
         /\ address_min_' = address_min_ /\ address_max_' = address_max_
<1>1. /\ in' = in /\ pc' = pc /\ write_trace_lock_' = write_trace_lock_ /\ read_range' = read_range
      /\ sorted' = sorted /\ aborted' = aborted /\ rc' = rc /\ UNCHANGED memory
      /\ cell' = cell /\ column' = column /\ public_input_indices_' = public_input_indices_
      /\ address_min_' = address_min_ /\ address_max_' = address_max_ /\ range' = range
  BY DEF rest, memory, range
<1>2. Types'
  BY <1>1 DEF IInv, Types
<1>3. Locking'
  <2>1. \A t \in Steps : pc[t] = "done"
    BY StageOrder, OneThread
  <2>2. QED
    BY <1>1, <2>1 DEF IInv, Locking
<1>4. MemCells' /\ Columns' /\ RangeOfCells'
  BY <1>1, KeepMemory DEF IInv
<1>5. RcCells'
  BY <1>1, KeepRc DEF IInv
<1>6. InputsRead'
  <2>1. Len(in.public) <= PublicSize /\ (PartsDone => \A i \in DOMAIN in.private : in.private[i] < Power[n_parts])
    BY DEF IInv, InputsRead
  <2>2. QED
    BY <1>1, <2>1 DEF InputsRead
<1>7. Stopping'
  BY <1>1 DEF Stopping
<1>8. QED
  BY <1>1, <1>2, <1>3, <1>4, <1>5, <1>6, <1>7

LEMMA KeepRcFull ==
  ASSUME RcFull, in' = in, rc' = rc, stage \in FromBuiltinFinalize
  PROVE  RcFull'
<1>1. RcFits /\ Contents(rc) = in.rc_min .. in.rc_max
  BY DEF RcFull
<1>2. RcFits'
  BY <1>1, SameStatement
<1>3. Contents(rc)' = in'.rc_min .. in'.rc_max
  BY <1>1 DEF Contents
<1>4. QED
  BY <1>2, <1>3 DEF RcFull

LEMMA KeepMemFull ==
  ASSUME MemFull, in' = in, cell' = cell, address_min_' = address_min_, address_max_' = address_max_,
         stage \in FromSort
  PROVE  MemFull'
<1>1. MemFits /\ Addresses = address_min_ .. address_max_
  BY DEF MemFull
<1>2. MemFits'
  BY <1>1, SameStatement
<1>3. Addresses' = address_min_' .. address_max_'
  BY <1>1 DEF Addresses, Contents
<1>4. QED
  BY <1>2, <1>3 DEF MemFull

-----------------------------------------------------------------------------
\* The builtin's parts.

LEMMA BuiltinWriteStep ==
  ASSUME IInv, BuiltinWrite
  PROVE  Inv'
<1>1. aborted = "no" /\ stage = "builtin" /\ in \in Inputs
  BY DEF BuiltinWrite, Running, IInv, Types
<1>2. /\ stage \in FromPublic /\ stage \in FromBuiltin /\ stage \notin FromBuiltinFinalize
      /\ stage \notin FromSort /\ ~PartsDone
  BY <1>1, StageOrder, StageNames DEF PartsDone
<1>3. /\ \A k : PublicDone(k) /\ ~RcFilled(k)
      /\ \A k : ~InstanceDone(k) /\ ~MemFilled(k)
  BY <1>1, AtStage DEF PublicDone, RcFilled, InstanceDone, MemFilled
<1>4. /\ \A t \in Steps : pc[t] = "done" /\ pc[t] # "start" /\ pc[t] # "locked"
      /\ \A t \in Steps : cell[t] = Access(t) /\ rc[t] = in.offset[t]
  BY <1>2, OneThread
<1>5. /\ DOMAIN in.private \subseteq Instances
      /\ \A i \in DOMAIN in.private : in.private[i] \in Nat /\ Power[n_parts] \in Nat
  <2>1. Power[n_parts] \in Nat
    <3>1. n_parts \in 0 .. n_parts
      BY PowerValues
    <3>2. QED
      BY <3>1, PowerValues
  <2>2. in \in Inputs
    BY <1>1
  <2>3. DOMAIN in.private \subseteq Instances /\ \A i \in DOMAIN in.private : in.private[i] \in Nat
    BY <2>2, StatementFacts
  <2>4. QED
    BY <2>1, <2>3
<1>6. rc' = [k \in RcIndices |->
               IF \E i \in Reached : k \in PartIndices(i)
               THEN LET i == CHOOSE i \in Reached : k \in PartIndices(i)
                    IN  PartOf(in.private[i], k - PartIndex(i, 0))
               ELSE rc[k]]
  BY DEF BuiltinWrite
<1>7. rc' \in [RcIndices -> {Empty} \cup Nat]
  <2>1. \A k \in RcIndices : rc'[k] \in {Empty} \cup Nat
    <3> SUFFICES ASSUME NEW k \in RcIndices PROVE rc'[k] \in {Empty} \cup Nat
      OBVIOUS
    <3> DEFINE j == CHOOSE j \in Reached : k \in PartIndices(j)
    <3>1. CASE \E i \in Reached : k \in PartIndices(i)
      <4>1. j \in Reached /\ k \in PartIndices(j)
        BY <3>1
      <4>2. rc'[k] = PartOf(in.private[j], k - PartIndex(j, 0))
        BY <1>6, <3>1
      <4> HIDE DEF j
      <4>3. j \in DOMAIN in.private
        BY <4>1 DEF Reached
      <4>4. PICK p \in Part : k = PartIndex(j, p)
        BY <4>1 DEF PartIndices, Part
      <4>5. k - PartIndex(j, 0) = p
        BY <1>5, <4>3, <4>4, RcIndexFacts
      <4>6. QED
        BY <1>5, <4>2, <4>3, <4>5, PartOfTyped
    <3>2. CASE ~\E i \in Reached : k \in PartIndices(i)
      <4>1. rc'[k] = rc[k]
        BY <1>6, <3>2
      <4>2. QED
        BY <4>1 DEF IInv, Types
    <3>3. QED
      BY <3>1, <3>2
  <2>2. rc' = [k \in RcIndices |-> rc'[k]]
    BY <1>6
  <2>3. QED
    BY <2>1, <2>2
<1>8. CASE \E i \in DOMAIN in.private : TooLarge(i)
  <2>1. ~InputsFit
    <3>1. PICK i \in DOMAIN in.private : in.private[i] >= Power[n_parts]
      BY <1>8 DEF TooLarge
    <3>2. ~(in.private[i] < Power[n_parts])
      BY <1>5, <3>1
    <3>3. QED
      BY <3>2 DEF InputsFit
  <2>2. /\ aborted' = "too large value"
        /\ UNCHANGED <<in, pc, write_trace_lock_, read_range, memory, control, sorted>>
    BY <1>8 DEF BuiltinWrite
  <2>3. /\ in' = in /\ pc' = pc /\ write_trace_lock_' = write_trace_lock_ /\ read_range' = read_range
        /\ sorted' = sorted /\ stage' = stage /\ next' = next
        /\ cell' = cell /\ column' = column /\ public_input_indices_' = public_input_indices_
        /\ address_min_' = address_min_ /\ address_max_' = address_max_
        /\ used' = used /\ last_hole' = last_hole /\ orig_address_max' = orig_address_max
    BY <2>2 DEF memory, range, control, scan
  <2>4. Types'
    BY <1>7, <2>3 DEF IInv, Types
  <2>5. (~InputsFit)'
    BY <2>1, <2>3 DEF InputsFit
  <2>6. public_input_indices_ \subseteq MemIndices
    BY MemIndexFacts DEF IInv, Columns
  <2>7. Stuck'
    BY <1>1, <2>2, <2>3, <2>4, <2>5, <2>6 DEF Stuck
  <2>8. QED
    BY <2>7 DEF Inv
<1>9. CASE ~(\E i \in DOMAIN in.private : TooLarge(i))
  <2>1. /\ rc' = [k \in RcIndices |->
                    IF \E i \in DOMAIN in.private : k \in PartIndices(i)
                    THEN LET i == CHOOSE i \in DOMAIN in.private : k \in PartIndices(i)
                         IN  PartOf(in.private[i], k - PartIndex(i, 0))
                    ELSE rc[k]]
        /\ stage' = "rc finalize" /\ next' = 1
        /\ UNCHANGED <<rest, memory, scan>>
    <3>1. Reached = DOMAIN in.private
      BY <1>9 DEF Reached
    <3>2. QED
      BY <1>9, <1>6, <3>1 DEF BuiltinWrite, GoTo
  <2>2. /\ in' = in /\ pc' = pc /\ write_trace_lock_' = write_trace_lock_ /\ read_range' = read_range
        /\ sorted' = sorted /\ aborted' = aborted /\ UNCHANGED memory
        /\ cell' = cell /\ column' = column /\ public_input_indices_' = public_input_indices_
        /\ address_min_' = address_min_ /\ address_max_' = address_max_ /\ range' = range
        /\ used' = used /\ last_hole' = last_hole /\ orig_address_max' = orig_address_max
    BY <2>1 DEF rest, memory, scan, range
  <2>3. \A i, k : k \in PartIndices(i) <=> \E part \in Part : k = PartIndex(i, part)
    BY DEF PartIndices, Part
  <2>4. ASSUME NEW i \in DOMAIN in.private, NEW part \in Part
        PROVE  /\ PartIndex(i, part) \in RcIndices
               /\ rc'[PartIndex(i, part)] = PartOf(in.private[i], part)
    <3> DEFINE k == PartIndex(i, part)
               j == CHOOSE j \in DOMAIN in.private : k \in PartIndices(j)
    <3>1. i \in Instances /\ k \in RcIndices /\ k - PartIndex(i, 0) = part
      BY <1>5, RcIndexFacts
    <3>2. k \in PartIndices(i)
      BY <2>3
    <3>3. j \in DOMAIN in.private /\ k \in PartIndices(j)
      BY <3>2
    <3>4. rc'[k] = PartOf(in.private[j], k - PartIndex(j, 0))
      BY <2>1, <3>1, <3>2
    <3> HIDE DEF j
    <3>5. PICK p \in Part : k = PartIndex(j, p)
      BY <2>3, <3>3
    <3>6. j \in Instances
      BY <1>5, <3>3
    <3>7. i = j
      BY <3>1, <3>5, <3>6, RcIndexFacts
    <3>8. QED
      BY <3>1, <3>4, <3>7
  <2>5. ASSUME NEW k \in RcIndices, k \in Steps \/ k \in RcFree
        PROVE  rc'[k] = rc[k]
    <3>1. ~\E i \in DOMAIN in.private : k \in PartIndices(i)
      <4>1. \A i \in DOMAIN in.private, part \in Part : k # PartIndex(i, part)
        BY <1>1, <1>5, <2>5, RcIndexFacts, RcFreeFacts
      <4>2. QED
        BY <2>3, <4>1
    <3>2. QED
      BY <2>1, <3>1
  <2>7. /\ stage' \in FromPublic /\ stage' \in FromBuiltin /\ stage' \notin FromBuiltinFinalize
        /\ stage' \notin FromSort /\ stage' \notin FromRcSort /\ PartsDone'
        /\ stage' # "rc fill" /\ stage' # "mem fill" /\ stage' # "cpu"
    BY <2>1, StageOrder, StageNames DEF PartsDone
  <2>8. /\ \A k : PublicDone(k)' /\ ~RcFilled(k)'
        /\ \A k : ~InstanceDone(k)' /\ ~MemFilled(k)'
    BY <2>1, AtStage DEF PublicDone, RcFilled, InstanceDone, MemFilled
  <2>9. Types'
    <3>1. next' = 1
      BY <2>1, Zenon
    <3>2. next' \in Nat \ {0}
      BY <3>1
    <3>3. stage' \in {"cpu"} \cup FromPublic
      BY <2>7
    <3>4. Types
      BY DEF IInv
    <3>5. QED
      BY <2>2, <1>7, <3>2, <3>3, <3>4 DEF Types
  <2>10. Locking'
    BY <1>4, <2>2, <2>7 DEF IInv, Locking
  <2>11. MemCells' /\ Columns' /\ RangeOfCells'
    BY <1>3, <2>2, <2>8, KeepMemory DEF IInv
  <2>12. RcCells'
    <3>1. RcFree' = RcFree
      BY <2>2, SameStatement
    <3>2. \A t \in Steps : rc'[t] = in.offset[t]
      BY <1>4, <2>5, RcIndexFacts
    <3>3. \A k \in RcFree : rc'[k] = Empty
      <4>1. \A k \in RcFree : k \in RcIndices /\ rc[k] = Empty
        BY <1>1, <1>3, RcFreeFacts DEF IInv, RcCells
      <4>2. QED
        BY <2>5, <4>1
    <3>4. \A t \in Steps : pc'[t] = "done"
      BY <1>4, <2>2
    <3>5. \A i \in DOMAIN in.private : \A part \in Part :
            rc'[PartIndex(i, part)] = PartOf(in.private[i], part)
      BY <2>4
    <3>6. QED
      BY <2>2, <2>7, <2>8, <3>1, <3>2, <3>3, <3>4, <3>5 DEF RcCells, PartOf
  <2>13. InputsRead'
    <3>1. Len(in.public) <= PublicSize
      BY <1>2 DEF IInv, InputsRead
    <3>2. \A i \in DOMAIN in.private : in.private[i] < Power[n_parts]
      BY <1>5, <1>9 DEF TooLarge
    <3>3. QED
      BY <2>2, <3>1, <3>2 DEF InputsRead
  <2>14. RcFilling' /\ RcFull' /\ MemFilling' /\ MemFull'
    BY <2>7 DEF RcFilling, RcFull, MemFilling, MemFull
  <2>15. Sorting'
    BY <1>2, <2>2, <2>7, KeepUnsorted DEF IInv
  <2>16. Stopping'
    BY <1>1, <2>2 DEF Stopping
  <2>17. QED
    BY <2>9, <2>10, <2>11, <2>12, <2>13, <2>14, <2>15, <2>16 DEF IInv, Inv
<1>10. QED
  BY <1>8, <1>9

-----------------------------------------------------------------------------
\* Finalize of the range-check pool.

LEMMA BeginRcFinalizeStep ==
  ASSUME IInv, BeginRcFinalize
  PROVE  IInv'
<1>1. aborted = "no" /\ stage = "rc finalize" /\ in \in Inputs
  BY DEF BeginRcFinalize, Running, IInv, Types
<1>2. /\ stage \in FromBuiltin /\ stage \in FromRcFinalize /\ stage \notin FromBuiltinFinalize
      /\ stage \notin FromSort /\ PartsDone
  BY <1>1, StageOrder, StageNames DEF PartsDone
<1>3. /\ \A k : PublicDone(k) /\ ~RcFilled(k)
      /\ \A k : ~InstanceDone(k) /\ ~MemFilled(k)
  BY <1>1, AtStage DEF PublicDone, RcFilled, InstanceDone, MemFilled
<1>4. Contents(rc) = GivenRc /\ GivenRc \subseteq Nat
  <2>1. /\ \A k \in RcIndices : k \notin RcFree => rc[k] \in GivenRc /\ rc[k] # Empty
        /\ GivenRc \subseteq Nat /\ GivenRc \subseteq Contents(rc)
    BY <1>2, RcGiven DEF IInv
  <2>2. \A k \in RcFree : rc[k] = Empty
    BY <1>3 DEF IInv, RcCells
  <2>3. DOMAIN rc = RcIndices
    BY DEF IInv, Types
  <2>4. ASSUME NEW v \in Contents(rc) PROVE v \in GivenRc
    <3>1. PICK k \in DOMAIN rc : v # Empty /\ rc[k] = v
      BY ContentsIs
    <3>2. QED
      BY <2>1, <2>2, <2>3, <3>1
  <2>5. QED
    BY <2>1, <2>4
<1>5. in.rc_min \in Nat /\ in.rc_max \in Nat /\ in.rc_max < MaxWord /\ in.rc_min <= in.rc_max /\ MaxWord \in Nat
  BY <1>1, StatementFacts, Constants
<1>6. CASE in.rc_min >= in.rc_max
  <2>1. ~RcFits
    BY <1>5, <1>6 DEF RcFits
  <2>2. Abort("rc_min must be smaller")
    BY <1>6 DEF BeginRcFinalize
  <2>3. QED
    BY <2>1, <2>2, AbortKeeps DEF Unfit
<1>7. CASE ~(in.rc_min >= in.rc_max) /\ ~(Contents(rc) \subseteq in.rc_min .. in.rc_max)
  <2>1. ~RcFits
    BY <1>4, <1>7 DEF RcFits
  <2>2. Abort("out of range value")
    BY <1>7 DEF BeginRcFinalize
  <2>3. QED
    BY <2>1, <2>2, AbortKeeps DEF Unfit
<1>8. CASE ~(in.rc_min >= in.rc_max) /\ Contents(rc) \subseteq in.rc_min .. in.rc_max
  <2>1. stage' = "rc fill" /\ next' = 1
    BY <1>8 DEF BeginRcFinalize, GoTo
  <2>13. /\ used' = Contents(rc) /\ last_hole' = Word(in.rc_min - 1)
         /\ UNCHANGED <<rest, memory, rc, orig_address_max>>
    BY <1>8 DEF BeginRcFinalize
  <2>14. next' = 1 /\ in.rc_min < in.rc_max /\ GivenRc \subseteq in.rc_min .. in.rc_max
    <3>1. next' = 1
      BY <2>1, Zenon
    <3>2. in.rc_min < in.rc_max
      BY <1>5, <1>8
    <3>3. QED
      BY <1>4, <1>8, <3>1, <3>2, Zenon
  <2>2. /\ stage' \in FromPublic /\ stage' \notin FromBuiltinFinalize /\ stage' \notin FromSort
        /\ stage' \notin FromRcSort /\ PartsDone' /\ stage' # "mem fill"
    BY <2>1, StageOrder, StageNames DEF PartsDone
  <2>3. /\ \A k : PublicDone(k)' /\ (RcFilled(k)' <=> k < 1)
        /\ \A k : ~InstanceDone(k)' /\ ~MemFilled(k)'
    BY <2>1, AtStage DEF PublicDone, RcFilled, InstanceDone, MemFilled
  <2>4. \A k \in RcFree : k \in Nat /\ k >= 1
    BY <1>1, RcFreeFacts, RcIndexFacts
  <2>5. used' \subseteq 0..MaxWord /\ orig_address_max' = orig_address_max /\ next' = 1
    BY <1>4, <1>5, <2>13, <2>14
  <2>6. last_hole' = Word(in.rc_min - 1) /\ last_hole' \in 0..MaxWord
    <3>1. in.rc_min - 1 \in Int
      BY <1>5
    <3>2. QED
      BY <2>13, <3>1, WordFacts
  <2>7. /\ Types' /\ Locking' /\ MemCells' /\ Columns' /\ RangeOfCells' /\ RcCells'
        /\ InputsRead' /\ Stopping'
        /\ cell' = cell /\ in' = in /\ rc' = rc /\ sorted' = sorted
    <3>1. next' \in Nat \ {0} /\ orig_address_max' \in 0..MaxWord
      BY <2>5 DEF IInv, Types
    <3>2. \A k \in RcFree : RcFilled(k)' <=> RcFilled(k)
      BY <1>3, <2>3, <2>4
    <3>3. UNCHANGED <<rest, memory, rc>>
      BY <2>13
    <3>4. QED
      BY <1>1, <1>2, <1>3, <2>2, <2>3, <2>5, <2>6, <3>1, <3>2, <3>3, MoveOn
  <2>8. RcFrontier' = in.rc_min
    <3>1. CASE in.rc_min = 0
      <4>1. last_hole' = MaxWord
        BY <2>6, <3>1, WordFacts
      <4>2. QED
        BY <3>1, <4>1, WordFacts DEF RcFrontier, Word
    <3>2. CASE in.rc_min # 0
      <4>1. in.rc_min - 1 \in 0..MaxWord /\ in.rc_min \in 0..MaxWord
        BY <1>5, <3>2
      <4>2. last_hole' = in.rc_min - 1 /\ Word(in.rc_min) = in.rc_min /\ (in.rc_min - 1) + 1 = in.rc_min
        BY <1>5, <2>6, <4>1, WordFacts
      <4>3. RcFrontier' = Word(last_hole' + 1)
        BY DEF RcFrontier, Word
      <4>4. QED
        BY <4>2, <4>3
    <3>3. QED
      BY <3>1, <3>2
  <2>9. RcFilling'
    <3>1. RcFree' = RcFree /\ GivenRc' = GivenRc
      BY <2>7, SameStatement
    <3>2. in.rc_min < in.rc_max /\ GivenRc \subseteq in.rc_min .. in.rc_max /\ used' = GivenRc
      BY <1>4, <2>13, <2>14
    <3>3. RcFrontier' \in in.rc_min .. (in.rc_max + 1) /\ in.rc_min .. (RcFrontier' - 1) = {}
      BY <1>5, <2>8, <3>2
    <3>4. \A k \in RcFree : ~(k < next')
      BY <2>4, <2>5
    <3>5. QED
      BY <2>7, <3>1, <3>2, <3>3, <3>4 DEF RcFilling
  <2>10. RcFull' /\ MemFilling' /\ MemFull'
    BY <2>2 DEF RcFull, MemFilling, MemFull
  <2>11. Sorting'
    BY <1>2, <2>2, <2>7, KeepUnsorted DEF IInv
  <2>12. QED
    BY <2>7, <2>9, <2>10, <2>11 DEF IInv
<1>9. QED
  BY <1>6, <1>7, <1>8

\* A step of the fill sees this.
LEMMA RcFillFacts ==
  ASSUME IInv, stage = "rc fill"
  PROVE  /\ in \in Inputs /\ stage \in FromPublic /\ stage \in FromBuiltin /\ stage \in FromRcFinalize
         /\ stage \notin FromBuiltinFinalize /\ stage \notin FromSort /\ PartsDone
         /\ \A k : PublicDone(k) /\ (RcFilled(k) <=> k < next)
         /\ \A k : ~InstanceDone(k) /\ ~MemFilled(k)
         /\ in.rc_min \in Nat /\ in.rc_max \in Nat /\ in.rc_max < MaxWord /\ MaxWord \in Nat
         /\ in.rc_min < in.rc_max /\ used = GivenRc /\ GivenRc \subseteq in.rc_min .. in.rc_max
         /\ RcFrontier \in in.rc_min .. (in.rc_max + 1) /\ RcFrontier = Word(last_hole + 1)
         /\ \A v \in in.rc_min .. (RcFrontier - 1) : v \in Contents(rc)
         /\ \A k \in RcFree : k < next => rc[k] \in in.rc_min .. (RcFrontier - 1)
         /\ \A v \in RcFrontier .. in.rc_max : v \notin used =>
              \A k \in RcFree : k < next =>
                rc[k] \notin used /\ \A j \in RcFree : j < k => rc[j] < rc[k]
         /\ \A k \in RcFree : k < next => rc[k] # Empty
         /\ \A k \in RcFree : ~(k < next) => rc[k] = Empty
         /\ \A k \in RcIndices : k \notin RcFree => rc[k] \in GivenRc /\ rc[k] # Empty
         /\ GivenRc \subseteq Contents(rc)
         /\ \A k \in RcIndices : k \in Nat /\ k >= 1
         /\ rc \in [RcIndices -> {Empty} \cup Nat] /\ last_hole \in 0..MaxWord /\ next \in Nat \ {0}
<1>1. /\ in \in Inputs /\ rc \in [RcIndices -> {Empty} \cup Nat]
      /\ last_hole \in 0..MaxWord /\ next \in Nat \ {0}
  BY DEF IInv, Types
<1>2. /\ stage \in FromPublic /\ stage \in FromBuiltin /\ stage \in FromRcFinalize
      /\ stage \notin FromBuiltinFinalize /\ stage \notin FromSort /\ PartsDone
  BY StageOrder, StageNames DEF PartsDone
<1>3. /\ \A k : PublicDone(k) /\ (RcFilled(k) <=> k < next)
      /\ \A k : ~InstanceDone(k) /\ ~MemFilled(k)
  BY AtStage DEF PublicDone, RcFilled, InstanceDone, MemFilled
<1>4. in.rc_min \in Nat /\ in.rc_max \in Nat /\ in.rc_max < MaxWord /\ MaxWord \in Nat
  BY <1>1, StatementFacts, Constants
<1>5. /\ in.rc_min < in.rc_max /\ used = GivenRc /\ GivenRc \subseteq in.rc_min .. in.rc_max
      /\ RcFrontier \in in.rc_min .. (in.rc_max + 1)
      /\ \A v \in in.rc_min .. (RcFrontier - 1) : v \in Contents(rc)
      /\ \A k \in RcFree : k < next => rc[k] \in in.rc_min .. (RcFrontier - 1)
      /\ \A v \in RcFrontier .. in.rc_max : v \notin used =>
           \A k \in RcFree : k < next =>
             rc[k] \notin used /\ \A j \in RcFree : j < k => rc[j] < rc[k]
  BY DEF IInv, RcFilling
<1>6. RcFrontier = Word(last_hole + 1)
  BY DEF RcFrontier
<1>7. /\ \A k \in RcFree : k < next => rc[k] # Empty
      /\ \A k \in RcFree : ~(k < next) => rc[k] = Empty
  BY <1>3 DEF IInv, RcCells
<1>8. /\ \A k \in RcIndices : k \notin RcFree => rc[k] \in GivenRc /\ rc[k] # Empty
      /\ GivenRc \subseteq Contents(rc)
  BY <1>2, RcGiven DEF IInv
<1>9. \A k \in RcIndices : k \in Nat /\ k >= 1
  BY RcIndexFacts
<1>10. QED
  BY <1>1, <1>2, <1>3, <1>4, <1>5, <1>6, <1>7, <1>8, <1>9

LEMMA FillRcStep ==
  ASSUME IInv, FillRc
  PROVE  IInv'
<1>1. aborted = "no" /\ stage = "rc fill" /\ next \in RcIndices
  BY DEF FillRc, Running
<1>2. stage' = stage /\ next' = next + 1 /\ UNCHANGED <<rest, memory, used, orig_address_max>>
  BY DEF FillRc
<1>3. IF rc[next] # Empty THEN UNCHANGED <<rc, last_hole>>
      ELSE last_hole' = NextRcHole(last_hole) /\ rc' = [rc EXCEPT ![next] = last_hole']
  BY DEF FillRc
<1>4. /\ in \in Inputs /\ stage \in FromPublic /\ stage \in FromBuiltin /\ stage \in FromRcFinalize
      /\ stage \notin FromBuiltinFinalize /\ stage \notin FromSort /\ PartsDone
      /\ \A k : PublicDone(k) /\ (RcFilled(k) <=> k < next)
      /\ \A k : ~InstanceDone(k) /\ ~MemFilled(k)
  BY <1>1, RcFillFacts
<1> DEFINE lo == in.rc_min
           hi == in.rc_max
           F == RcFrontier
<1>5. /\ lo \in Nat /\ hi \in Nat /\ hi < MaxWord /\ MaxWord \in Nat
      /\ lo < hi /\ used = GivenRc /\ GivenRc \subseteq lo .. hi
      /\ F \in lo .. (hi + 1) /\ F = Word(last_hole + 1)
      /\ last_hole \in 0..MaxWord /\ next \in Nat \ {0}
  BY <1>1, RcFillFacts
<1>6. /\ \A v \in lo .. (F - 1) : v \in Contents(rc)
      /\ \A k \in RcFree : k < next => rc[k] \in lo .. (F - 1)
      /\ \A v \in F .. hi : v \notin used =>
           \A k \in RcFree : k < next =>
             rc[k] \notin used /\ \A j \in RcFree : j < k => rc[j] < rc[k]
  BY <1>1, RcFillFacts
<1>7. /\ \A k \in RcFree : k < next => rc[k] # Empty
      /\ \A k \in RcFree : ~(k < next) => rc[k] = Empty
      /\ \A k \in RcIndices : k \notin RcFree => rc[k] \in GivenRc /\ rc[k] # Empty
      /\ GivenRc \subseteq Contents(rc)
      /\ \A k \in RcIndices : k \in Nat /\ k >= 1
      /\ rc \in [RcIndices -> {Empty} \cup Nat]
  BY <1>1, RcFillFacts
<1>8. /\ in' = in /\ pc' = pc /\ write_trace_lock_' = write_trace_lock_ /\ read_range' = read_range
      /\ sorted' = sorted /\ aborted' = aborted /\ UNCHANGED memory
      /\ cell' = cell /\ column' = column /\ public_input_indices_' = public_input_indices_
      /\ address_min_' = address_min_ /\ address_max_' = address_max_ /\ range' = range
      /\ used' = used /\ orig_address_max' = orig_address_max
  BY <1>2 DEF rest, memory, range
<1>9. /\ \A k : PublicDone(k)' /\ (RcFilled(k)' <=> k < next + 1)
      /\ \A k : ~InstanceDone(k)' /\ ~MemFilled(k)'
      /\ PartsDone'
  BY <1>1, <1>2, AtStage DEF PublicDone, RcFilled, InstanceDone, MemFilled, PartsDone
<1>10. RcFree \subseteq RcIndices /\ RcFree' = RcFree /\ GivenRc' = GivenRc /\ Empty \notin Nat
  BY <1>4, <1>8, RcFreeFacts, SameStatement, Constants
\* What becomes of the pool, the frontier and the cells that have been filled.
<1> DEFINE G == RcFrontier'
           Progress ==
             /\ rc' \in [RcIndices -> {Empty} \cup Nat] /\ last_hole' \in 0..MaxWord
             /\ \A k \in RcIndices : rc[k] # Empty => rc'[k] = rc[k]
             /\ \A k \in RcIndices : k # next => rc'[k] = rc[k]
             /\ rc'[next] # Empty
             /\ G \in lo .. (hi + 1)
             /\ \A v \in lo .. (G - 1) : \E k \in RcIndices : rc'[k] = v
             /\ \A k \in RcFree : k < next + 1 => rc'[k] \in lo .. (G - 1)
             /\ \A v \in G .. hi : v \notin used =>
                  \A k \in RcFree : k < next + 1 =>
                    rc'[k] \notin used /\ \A j \in RcFree : j < k => rc'[j] < rc'[k]
<1>11. G = Word(last_hole' + 1)
  BY DEF RcFrontier, Word
<1>12. \A v \in lo .. hi : v \in Contents(rc) => \E k \in RcIndices : rc[k] = v /\ v # Empty
  BY <1>7, ContentsIs
<1>13. ASSUME rc[next] # Empty PROVE Progress
  <2>1. rc' = rc /\ last_hole' = last_hole /\ G = F
    BY <1>3, <1>5, <1>11, <1>13
  <2>2. next \notin RcFree
    BY <1>5, <1>7, <1>13
  <2>3. \A k \in RcFree : k < next + 1 <=> k < next
    BY <1>5, <1>7, <1>10, <2>2
  <2> HIDE DEF F, G, lo, hi
  <2>4. \A v \in lo .. (F - 1) : \E k \in RcIndices : rc[k] = v
    BY <1>5, <1>6, <1>12
  <2>5. QED
    BY <1>5, <1>6, <1>7, <1>13, <2>1, <2>3, <2>4
<1>14. ASSUME rc[next] = Empty PROVE Progress
  <2>1. last_hole' = NextRcHole(last_hole) /\ rc' = [rc EXCEPT ![next] = last_hole']
    BY <1>3, <1>14
  <2>2. next \in RcFree
    BY <1>1, <1>7, <1>14
  <2>3. \A k \in RcFree : k < next + 1 <=> (k < next \/ k = next)
    BY <1>5, <1>7, <1>10
  <2>4. rc'[next] = last_hole' /\ \A k \in RcIndices : k # next => rc'[k] = rc[k]
    BY <1>1, <1>7, <2>1
  <2>5. \A k \in RcIndices : rc[k] # Empty => rc'[k] = rc[k]
    BY <1>14, <2>4
  <2>6. last_hole \in 0 .. MaxWord - 1 => F = last_hole + 1
    <3>1. last_hole \in 0 .. MaxWord - 1 => last_hole + 1 \in 0..MaxWord
      BY <1>5
    <3>2. QED
      BY <1>5, <3>1, WordFacts
  <2>7. last_hole = MaxWord => F = 0
    BY <1>5, WordFacts
  <2>8. CASE last_hole = hi
    <3>1. last_hole' = hi
      BY <2>1, <2>8 DEF NextRcHole
    <3>2. F = hi + 1 /\ G = hi + 1
      BY <1>5, <1>11, <2>6, <2>8, <3>1
    <3>3. rc' \in [RcIndices -> {Empty} \cup Nat]
      BY <1>5, <1>7, <2>1, <3>1
    <3> HIDE DEF F, G, lo, hi
    <3>4. \A v \in lo .. (G - 1) : \E k \in RcIndices : rc'[k] = v
      <4> SUFFICES ASSUME NEW v \in lo .. (G - 1) PROVE \E k \in RcIndices : rc'[k] = v
        OBVIOUS
      <4>1. v \in lo .. (F - 1) /\ v \in lo .. hi
        BY <1>5, <3>2
      <4>2. PICK k \in RcIndices : rc[k] = v /\ v # Empty
        BY <1>6, <1>12, <4>1
      <4>3. QED
        BY <2>5, <4>2
    <3>5. \A k \in RcFree : k < next + 1 => rc'[k] \in lo .. (G - 1)
      <4> SUFFICES ASSUME NEW k \in RcFree, k < next + 1 PROVE rc'[k] \in lo .. (G - 1)
        OBVIOUS
      <4>1. CASE k = next
        BY <1>5, <2>4, <3>1, <3>2, <4>1
      <4>2. CASE k # next
        BY <1>5, <1>6, <1>10, <2>3, <2>4, <3>2, <4>2
      <4>3. QED
        BY <4>1, <4>2
    <3>6. G .. hi = {}
      BY <1>5, <3>2
    <3>7. rc'[next] # Empty /\ last_hole' \in 0..MaxWord /\ G \in lo .. (hi + 1)
      BY <1>5, <1>10, <2>4, <3>1, <3>2
    <3>8. QED
      BY <2>4, <2>5, <3>3, <3>4, <3>5, <3>6, <3>7
  <2>9. CASE last_hole # hi
    <3>1. F \in lo .. hi
      <4>1. last_hole = MaxWord \/ last_hole \in 0 .. MaxWord - 1
        BY <1>5
      <4>2. CASE last_hole = MaxWord
        BY <1>5, <2>7, <4>2
      <4>3. CASE last_hole \in 0 .. MaxWord - 1
        BY <1>5, <2>6, <2>9, <4>3
      <4>4. QED
        BY <4>1, <4>2, <4>3
    <3> DEFINE above == {v \in F .. hi : v \notin used \/ v = hi}
    <3>2. last_hole' = CHOOSE v \in above : \A w \in above : v <= w
      BY <1>5, <2>1, <2>9 DEF NextRcHole
    <3>3. last_hole' \in above /\ \A w \in above : last_hole' <= w
      <4> HIDE DEF F, hi, lo
      <4>1. above \in SUBSET Nat
        BY <1>5, <3>1
      <4>2. hi \in above
        BY <1>5, <3>1
      <4> HIDE DEF above
      <4>3. \E v \in above : \A w \in above : v <= w
        BY <4>1, <4>2, LeastElement, Zenon
      <4>4. QED
        BY <3>2, <4>3
    <3> DEFINE n == last_hole'
    <3>4. /\ n \in F .. hi /\ (n < hi => n \notin used)
          /\ \A v \in F .. hi : v < n => v \in used
      <4> HIDE DEF F, hi, lo
      <4>1. n \in F .. hi /\ (n \notin used \/ n = hi)
        BY <3>3
      <4>2. n \in Nat
        BY <1>5, <3>1, <4>1
      <4>3. \A v \in F .. hi : v < n => v \in used
        <5> SUFFICES ASSUME NEW v \in F .. hi, v < n, v \notin used PROVE FALSE
          OBVIOUS
        <5>1. v \in above
          OBVIOUS
        <5>2. n <= v /\ v \in Nat
          BY <1>5, <3>1, <3>3, <5>1
        <5>3. QED
          BY <4>2, <5>2
      <4>4. QED
        BY <1>5, <4>1, <4>2, <4>3
    <3> HIDE DEF above
    <3>5. G = n + 1 /\ n \in Nat /\ lo <= F /\ F <= n /\ n <= hi /\ F \in Nat
      <4>1. n \in Nat /\ lo <= F /\ F <= n /\ n <= hi /\ F \in Nat
        BY <1>5, <3>1, <3>4
      <4>2. n + 1 \in 0..MaxWord
        <5>1. hi < MaxWord /\ hi \in Nat /\ MaxWord \in Nat
          BY <1>5
        <5> HIDE DEF n, hi
        <5>2. QED
          BY <4>1, <5>1
      <4>3. QED
        BY <1>11, <4>1, <4>2, WordFacts
    <3>6. rc' \in [RcIndices -> {Empty} \cup Nat]
      BY <1>7, <2>1, <3>5
    <3>7. rc'[next] = n
      BY <2>4
    <3> HIDE DEF F, G, lo, hi, n
    <3>8. \A v \in lo .. (G - 1) : \E k \in RcIndices : rc'[k] = v
      <4> SUFFICES ASSUME NEW v \in lo .. (G - 1) PROVE \E k \in RcIndices : rc'[k] = v
        OBVIOUS
      <4>1. v \in Nat /\ lo <= v /\ v <= n /\ v \in lo .. hi
        BY <1>5, <3>5
      <4>2. CASE v = n
        BY <1>1, <3>7, <4>2
      <4>3. CASE v < n
        <5>1. v \in Contents(rc)
          <6>1. CASE v < F
            <7>1. v \in lo .. (F - 1)
              BY <1>5, <3>5, <4>1, <6>1
            <7>2. QED
              BY <1>6, <7>1
          <6>2. CASE ~(v < F)
            <7>1. v \in F .. hi
              BY <1>5, <3>5, <4>1, <6>2
            <7>2. QED
              BY <1>5, <1>7, <3>4, <4>3, <7>1
          <6>3. QED
            BY <6>1, <6>2
        <5>2. PICK k \in RcIndices : rc[k] = v /\ v # Empty
          BY <1>12, <4>1, <5>1
        <5>3. QED
          BY <2>5, <5>2
      <4>4. QED
        BY <3>5, <4>1, <4>2, <4>3
    <3>9. \A k \in RcFree : k < next + 1 => rc'[k] \in lo .. (G - 1)
      <4> SUFFICES ASSUME NEW k \in RcFree, k < next + 1 PROVE rc'[k] \in lo .. (G - 1)
        OBVIOUS
      <4>1. CASE k = next
        BY <1>5, <3>5, <3>7, <4>1
      <4>2. CASE k # next
        <5>1. rc'[k] \in lo .. (F - 1)
          BY <1>6, <1>10, <2>3, <2>4, <4>2
        <5>2. QED
          BY <1>5, <3>5, <5>1
      <4>3. QED
        BY <4>1, <4>2
    <3>10. ASSUME NEW v \in G .. hi, v \notin used, NEW k \in RcFree, k < next + 1
           PROVE  rc'[k] \notin used /\ \A j \in RcFree : j < k => rc'[j] < rc'[k]
      <4>1. v \in F .. hi /\ n < hi
        BY <1>5, <3>5, <3>10
      <4>2. CASE k = next
        <5>1. rc'[k] = n /\ n \notin used
          BY <3>4, <3>7, <4>1, <4>2
        <5>2. ASSUME NEW j \in RcFree, j < k PROVE rc'[j] < rc'[k]
          <6>1. j # next /\ j \in RcIndices /\ j < next
            BY <1>5, <1>7, <1>10, <4>2, <5>2
          <6>2. rc'[j] \in lo .. (F - 1)
            BY <1>6, <2>4, <5>2, <6>1
          <6>3. QED
            BY <1>5, <3>5, <5>1, <6>2
        <5>3. QED
          BY <5>1, <5>2
      <4>3. CASE k # next
        <5>1. k < next /\ k \in RcIndices /\ rc'[k] = rc[k]
          BY <1>10, <2>3, <2>4, <3>10, <4>3
        <5>2. rc[k] \notin used /\ \A j \in RcFree : j < k => rc[j] < rc[k]
          BY <1>6, <3>10, <4>1, <5>1
        <5>3. \A j \in RcFree : j < k => rc'[j] = rc[j]
          <6>1. \A j \in RcFree : j < k => j # next /\ j \in RcIndices
            BY <1>5, <1>7, <1>10, <5>1
          <6>2. QED
            BY <2>4, <6>1
        <5>4. QED
          BY <5>1, <5>2, <5>3
      <4>4. QED
        BY <4>2, <4>3
    <3>11. rc'[next] # Empty /\ n \in 0..MaxWord /\ G \in lo .. (hi + 1)
      BY <1>5, <1>10, <3>5, <3>7
    <3>12. QED
      BY <2>4, <2>5, <3>6, <3>8, <3>9, <3>10, <3>11 DEF n
  <2>10. QED
    BY <2>8, <2>9
<1>15. Progress
  BY <1>13, <1>14
<1>16. Types'
  <2>1. next' \in Nat \ {0}
    BY <1>2, <1>5
  <2>2. Types
    BY DEF IInv
  <2>3. rc' \in [RcIndices -> {Empty} \cup Nat] /\ last_hole' \in 0..MaxWord
    BY <1>15
  <2>4. QED
    BY <1>2, <1>8, <2>1, <2>2, <2>3 DEF Types
<1>17. Locking'
  BY <1>2, <1>8 DEF IInv, Locking
<1>18. MemCells' /\ Columns' /\ RangeOfCells'
  BY <1>4, <1>8, <1>9, KeepMemory DEF IInv
<1>19. RcCells'
  <2>1. /\ \A k \in RcIndices : rc[k] # Empty => rc'[k] = rc[k]
        /\ \A k \in RcIndices : k # next => rc'[k] = rc[k]
        /\ rc'[next] # Empty
    BY <1>15
  <2>2. \A t \in Steps : rc'[t] = in.offset[t] /\ pc'[t] = "done"
    <3>1. \A t \in Steps : rc[t] = in.offset[t] /\ pc[t] = "done"
      BY <1>4, OneThread
    <3>2. \A t \in Steps : t \in RcIndices /\ rc[t] # Empty
      BY <1>4, <1>7, RcIndexFacts, RcFreeFacts
    <3>3. QED
      BY <1>8, <2>1, <3>1, <3>2
  <2>3. \A i \in DOMAIN in.private : \A part \in Part :
          rc'[PartIndex(i, part)] = PartOf(in.private[i], part)
    <3>1. \A i \in DOMAIN in.private : \A part \in Part :
            rc[PartIndex(i, part)] = PartOf(in.private[i], part)
      BY <1>4 DEF IInv, RcCells
    <3>2. \A i \in DOMAIN in.private : \A part \in Part :
            PartIndex(i, part) \in RcIndices /\ PartIndex(i, part) \notin RcFree
      BY <1>4, StatementFacts, RcIndexFacts, RcFreeFacts
    <3>3. QED
      BY <1>7, <2>1, <3>1, <3>2
  <2>4. \A k \in RcFree : IF k < next + 1 THEN rc'[k] # Empty ELSE rc'[k] = Empty
    <3> SUFFICES ASSUME NEW k \in RcFree PROVE IF k < next + 1 THEN rc'[k] # Empty ELSE rc'[k] = Empty
      OBVIOUS
    <3>1. k \in RcIndices /\ k \in Nat /\ next \in Nat
      BY <1>5, <1>7, <1>10
    <3>2. CASE k = next
      BY <2>1, <3>1, <3>2
    <3>3. CASE k # next
      <4>1. rc'[k] = rc[k] /\ (k < next + 1 <=> k < next)
        BY <2>1, <3>1, <3>3
      <4>2. QED
        BY <1>7, <4>1
    <3>4. QED
      BY <3>2, <3>3
  <2>5. QED
    BY <1>8, <1>9, <1>10, <2>2, <2>3, <2>4 DEF RcCells, PartOf
<1>20. InputsRead'
  BY <1>2, <1>4, <1>8, <1>9 DEF IInv, InputsRead
<1>21. RcFilling'
  <2>1. \A v \in lo .. (G - 1) : v \in Contents(rc)'
    <3>1. \A v : v \in Contents(rc)' <=> v # Empty /\ \E k \in DOMAIN rc' : rc'[k] = v
      BY DEF Contents
    <3>2. DOMAIN rc' = RcIndices
      BY <1>15
    <3>3. \A v \in lo .. (G - 1) : v \in Nat /\ \E k \in RcIndices : rc'[k] = v
      <4>1. \A v \in lo .. (G - 1) : \E k \in RcIndices : rc'[k] = v
        BY <1>15
      <4> HIDE DEF lo, G
      <4>2. QED
        BY <1>5, <4>1
    <3>4. QED
      BY <1>10, <3>1, <3>2, <3>3
  <2>2. \A v \in G .. hi : v \notin used =>
          \A k \in RcFree : k < next + 1 =>
            rc'[k] \notin used /\ \A j \in RcFree : j < k => rc'[j] < rc'[k]
    BY <1>15
  <2>3. G \in lo .. (hi + 1) /\ \A k \in RcFree : k < next + 1 => rc'[k] \in lo .. (G - 1)
    BY <1>15
  <2> HIDE DEF G
  <2>4. QED
    BY <1>2, <1>5, <1>8, <1>10, <2>1, <2>2, <2>3 DEF RcFilling, G
<1>22. RcFull' /\ MemFilling' /\ MemFull'
  <2>1. stage' # "mem fill" /\ stage' \notin FromBuiltinFinalize /\ stage' \notin FromSort
    BY <1>1, <1>2, <1>4
  <2>2. QED
    BY <2>1 DEF RcFull, MemFilling, MemFull
<1>23. Sorting'
  <2>1. stage' \notin FromRcSort
    BY <1>2, <1>4, StageOrder
  <2>2. QED
    BY <1>4, <1>8, <2>1, KeepUnsorted DEF IInv
<1>24. Stopping'
  BY <1>1, <1>8 DEF Stopping
<1>25. QED
  BY <1>16, <1>17, <1>18, <1>19, <1>20, <1>21, <1>22, <1>23, <1>24 DEF IInv

LEMMA EndRcFinalizeStep ==
  ASSUME IInv, EndRcFinalize
  PROVE  IInv'
<1>1. aborted = "no" /\ stage = "rc fill" /\ next \notin RcIndices
  BY DEF EndRcFinalize, Running
<1>2. /\ in \in Inputs /\ stage \in FromPublic /\ stage \in FromBuiltin /\ stage \in FromRcFinalize
      /\ stage \notin FromBuiltinFinalize /\ stage \notin FromSort /\ PartsDone
      /\ \A k : PublicDone(k) /\ (RcFilled(k) <=> k < next)
      /\ \A k : ~InstanceDone(k) /\ ~MemFilled(k)
  BY <1>1, RcFillFacts
<1> DEFINE lo == in.rc_min
           hi == in.rc_max
           F == RcFrontier
<1>3. /\ lo \in Nat /\ hi \in Nat /\ hi < MaxWord /\ MaxWord \in Nat
      /\ lo < hi /\ used = GivenRc /\ GivenRc \subseteq lo .. hi
      /\ F \in lo .. (hi + 1) /\ F = Word(last_hole + 1)
      /\ last_hole \in 0..MaxWord /\ next \in Nat \ {0}
  BY <1>1, RcFillFacts
<1>4. /\ \A v \in lo .. (F - 1) : v \in Contents(rc)
      /\ \A k \in RcFree : k < next => rc[k] \in lo .. (F - 1)
      /\ \A v \in F .. hi : v \notin used =>
           \A k \in RcFree : k < next =>
             rc[k] \notin used /\ \A j \in RcFree : j < k => rc[j] < rc[k]
  BY <1>1, RcFillFacts
<1>5. /\ \A k \in RcIndices : k \notin RcFree => rc[k] \in GivenRc /\ rc[k] # Empty
      /\ GivenRc \subseteq Contents(rc)
      /\ \A k \in RcIndices : k \in Nat /\ k >= 1
      /\ rc \in [RcIndices -> {Empty} \cup Nat]
      /\ RcFree \subseteq RcIndices
  BY <1>1, <1>2, RcFillFacts, RcFreeFacts
<1>6. \A k \in RcFree : k < next
  <2> SUFFICES ASSUME NEW k \in RcFree, ~(k < next) PROVE FALSE
    OBVIOUS
  <2>1. PICK b \in Nat : RcIndices = 1 .. b
    <3>1. n_steps + n_instances * n_parts + RcVacant \in Nat
      BY Constants
    <3>2. QED
      BY <3>1 DEF RcIndices
  <2>2. k \in 1 .. b
    BY <1>5, <2>1
  <2>3. next \in 1 .. b
    BY <1>3, <2>1, <2>2
  <2>4. QED
    BY <1>1, <2>1, <2>3
<1>7. CASE \E v \in Word(last_hole + 1) .. in.rc_max : v \notin used
  <2>1. PICK w \in F .. hi : w \notin used
    BY <1>3, <1>7
  <2>2. Abort("range-check holes remain")
    BY <1>7 DEF EndRcFinalize
  <2>3. w \in (lo .. hi) \ GivenRc
    <3> HIDE DEF lo, hi, F
    <3>1. QED
      BY <1>3, <2>1
  <2>4. \A k \in RcFree : rc[k] \in (lo .. hi) \ GivenRc /\ rc[k] # w
    <3> SUFFICES ASSUME NEW k \in RcFree PROVE rc[k] \in (lo .. hi) \ GivenRc /\ rc[k] # w
      OBVIOUS
    <3> HIDE DEF lo, hi, F
    <3>1. rc[k] \in lo .. (F - 1) /\ rc[k] \notin used
      BY <1>4, <1>6, <2>1
    <3>2. QED
      BY <1>3, <2>1, <3>1
  <2>5. \A j, k \in RcFree : rc[j] = rc[k] => j = k
    <3> SUFFICES ASSUME NEW j \in RcFree, NEW k \in RcFree, rc[j] = rc[k], j # k PROVE FALSE
      OBVIOUS
    <3> HIDE DEF lo, hi, F
    <3>1. /\ \A x \in RcFree : j < k => rc[j] < rc[k]
          /\ \A x \in RcFree : k < j => rc[k] < rc[j]
      BY <1>4, <1>6, <2>1
    <3>2. rc[j] \in Int /\ rc[k] \in Int
      BY <1>3, <1>4, <1>6
    <3>3. j \in Nat /\ k \in Nat
      BY <1>5
    <3>4. QED
      BY <3>1, <3>2, <3>3
  <2>6. ~RcFits
    <3>1. \E v \in (lo .. hi) \ GivenRc :
            /\ \A k \in RcFree : rc[k] \in (lo .. hi) \ GivenRc /\ rc[k] # v
            /\ \A j, k \in RcFree : rc[j] = rc[k] => j = k
      <4> HIDE DEF lo, hi
      <4>1. QED
        BY <2>3, <2>4, <2>5
    <3>2. QED
      BY <1>2, <1>3, <3>1, RcRoom
  <2>7. QED
    BY <2>2, <2>6, AbortKeeps DEF Unfit
<1>8. CASE ~(\E v \in Word(last_hole + 1) .. in.rc_max : v \notin used)
  <2>1. stage' = "builtin finalize" /\ next' = 1
    BY <1>8 DEF EndRcFinalize, GoTo
  <2>2. UNCHANGED <<rest, memory, rc, scan>>
    BY <1>8 DEF EndRcFinalize
  <2>3. \A v \in F .. hi : v \in used
    BY <1>3, <1>8
  <2>4. \A v \in lo .. hi : v \in Contents(rc)
    <3> SUFFICES ASSUME NEW v \in lo .. hi PROVE v \in Contents(rc)
      OBVIOUS
    <3> HIDE DEF lo, hi, F
    <3>1. CASE v < F
      <4>1. v \in lo .. (F - 1)
        BY <1>3, <3>1
      <4>2. QED
        BY <1>4, <4>1
    <3>2. CASE ~(v < F)
      <4>1. v \in F .. hi
        BY <1>3, <3>2
      <4>2. QED
        BY <1>3, <1>5, <2>3, <4>1
    <3>3. QED
      BY <3>1, <3>2
  <2>5. \A v \in Contents(rc) : v \in lo .. hi
    <3> SUFFICES ASSUME NEW v \in Contents(rc) PROVE v \in lo .. hi
      OBVIOUS
    <3>1. PICK k \in RcIndices : rc[k] = v
      BY <1>5, ContentsIs
    <3> HIDE DEF lo, hi, F
    <3>2. CASE k \in RcFree
      <4>1. v \in lo .. (F - 1)
        BY <1>4, <1>6, <3>1, <3>2
      <4>2. QED
        BY <1>3, <4>1
    <3>3. CASE k \notin RcFree
      BY <1>3, <1>5, <3>1, <3>3
    <3>4. QED
      BY <3>2, <3>3
  <2>6. \A v \in (lo .. hi) \ GivenRc : \E k \in RcFree : rc[k] = v
    <3> SUFFICES ASSUME NEW v \in (lo .. hi) \ GivenRc PROVE \E k \in RcFree : rc[k] = v
      OBVIOUS
    <3>1. v \in Contents(rc)
      BY <2>4
    <3>2. PICK k \in RcIndices : rc[k] = v
      BY <1>5, <3>1, ContentsIs
    <3>3. QED
      BY <1>5, <3>2
  <2>7. RcFits
    BY <1>2, <1>3, <2>6, RcRoom
  <2>8. /\ stage' \in FromPublic /\ stage' \in FromBuiltinFinalize /\ stage' \notin FromSort
        /\ stage' \notin FromRcSort /\ PartsDone' /\ stage' # "mem fill" /\ stage' # "rc fill"
    BY <2>1, StageOrder, StageNames DEF PartsDone
  <2>9. next' = 1
    BY <2>1, Zenon
  <2>10. /\ \A k : PublicDone(k)' /\ RcFilled(k)'
         /\ \A k : (InstanceDone(k)' <=> k + 1 < 1) /\ ~MemFilled(k)'
    BY <2>1, AtStage DEF PublicDone, RcFilled, InstanceDone, MemFilled
  <2>11. \A i \in Instances : ~(i + 1 < 1)
    BY Constants DEF Instances
  <2>12. /\ Types' /\ Locking' /\ MemCells' /\ Columns' /\ RangeOfCells' /\ RcCells'
         /\ InputsRead' /\ Stopping'
         /\ cell' = cell /\ in' = in /\ rc' = rc /\ sorted' = sorted
    <3>1. used' = used /\ last_hole' = last_hole /\ orig_address_max' = orig_address_max
      BY <2>2 DEF scan
    <3>2. next' \in Nat \ {0}
      BY <2>9
    <3>3. used' \subseteq 0..MaxWord /\ last_hole' \in 0..MaxWord /\ orig_address_max' \in 0..MaxWord
      BY <3>1 DEF IInv, Types
    <3>4. UNCHANGED <<rest, memory, rc>>
      BY <2>2
    <3>5. QED
      BY <1>1, <1>2, <1>6, <2>8, <2>10, <2>11, <3>2, <3>3, <3>4, MoveOn
  <2>13. RcFilling' /\ MemFilling' /\ MemFull'
    BY <2>8 DEF RcFilling, MemFilling, MemFull
  <2>14. RcFull'
    <3>1. RcFits'
      BY <2>7, <2>12, SameStatement
    <3>2. Contents(rc)' = Contents(rc)
      BY <2>12 DEF Contents
    <3>3. Contents(rc) = lo .. hi
      BY <2>4, <2>5
    <3>4. QED
      BY <2>12, <3>1, <3>2, <3>3 DEF RcFull
  <2>15. Sorting'
    BY <1>2, <2>8, <2>12, KeepUnsorted DEF IInv
  <2>16. QED
    BY <2>12, <2>13, <2>14, <2>15 DEF IInv
<1>9. QED
  BY <1>7, <1>8

-----------------------------------------------------------------------------
\* The builtin's memory.

\* Once the range-check pool is full every part is a number.
LEMMA PartsTyped ==
  ASSUME Types, Locking, RcCells, stage \in FromBuiltinFinalize
  PROVE  /\ \A k \in RcIndices : rc[k] \in Nat
         /\ \A i \in Instances : Parts(i) \in [Part -> Nat] /\ FromParts(Parts(i)) \in Nat
<1>1. in \in Inputs /\ stage \in FromRcFinalize /\ rc \in [RcIndices -> {Empty} \cup Nat]
  BY StageOrder DEF Types
<1>2. \A k \in RcIndices : rc[k] # Empty
  <2>1. \A k \in RcIndices : k \notin RcFree => rc[k] # Empty
    BY <1>1, RcGiven
  <2>2. \A k \in RcFree : rc[k] # Empty
    BY DEF RcCells, RcFilled, RcFilledAt
  <2>3. QED
    BY <2>1, <2>2
<1>3. \A k \in RcIndices : rc[k] \in Nat
  BY <1>1, <1>2
<1>4. ASSUME NEW i \in Instances PROVE Parts(i) \in [Part -> Nat]
  <2>1. \A part \in Part : rc[PartIndex(i, part)] \in Nat
    BY <1>3, RcIndexFacts
  <2>2. QED
    BY <2>1 DEF Parts
<1>5. \A i \in Instances : FromParts(Parts(i)) \in Nat
  BY <1>4, FromPartsTyped
<1>6. QED
  BY <1>3, <1>4, <1>5

LEMMA BuiltinFinalizeStep ==
  ASSUME IInv, BuiltinFinalize
  PROVE  IInv'
<1> DEFINE i == next - 1
           parts == [part \in 0 .. (n_parts - 1) |-> rc[PartIndex(i, part)]]
<1>1. aborted = "no" /\ stage = "builtin finalize" /\ in \in Inputs
  BY DEF BuiltinFinalize, Running, IInv, Types
<1>12. next \in Nat /\ next >= 1
  <2>1. next \in Nat \ {0}
    BY DEF IInv, Types
  <2>2. QED
    BY <2>1
<1>2. /\ stage \in FromPublic /\ stage \in FromBuiltin /\ stage \in FromRcFinalize
      /\ stage \in FromBuiltinFinalize /\ stage \notin FromMemFinalize
      /\ stage \notin FromSort /\ PartsDone
  BY <1>1, StageOrder, StageNames DEF PartsDone
<1>3. /\ \A k : PublicDone(k) /\ RcFilled(k)
      /\ \A k : (InstanceDone(k) <=> k + 1 < next) /\ ~MemFilled(k)
  BY <1>1, AtStage DEF PublicDone, RcFilled, InstanceDone, MemFilled
<1>4. /\ \A t \in Steps : pc[t] = "done" /\ pc[t] # "start" /\ pc[t] # "locked"
      /\ \A t \in Steps : cell[t] = Access(t) /\ rc[t] = in.offset[t]
  BY <1>2, OneThread
<1>5. /\ \A k \in RcIndices : rc[k] \in Nat
      /\ \A k \in Instances : Parts(k) \in [Part -> Nat] /\ FromParts(Parts(k)) \in Nat
  BY <1>2, PartsTyped DEF IInv
<1>6. i \in Int /\ i >= 0 /\ next = i + 1
  BY <1>12
<1>7. IF i \notin Instances
      THEN GoTo("mem finalize") /\ UNCHANGED <<rest, memory, rc, scan>>
      ELSE IF \E k \in PartIndices(i) : rc[k] = Empty THEN Abort("uninitialized value")
      ELSE IF cell[InstanceIndex(i)] # Empty THEN Abort("already written")
      ELSE /\ WriteCell(InstanceIndex(i), Word(begin_addr + i), FromParts(parts), FALSE)
           /\ next' = next + 1
           /\ UNCHANGED <<rest, rc, stage, scan>>
  BY DEF BuiltinFinalize
<1>8. parts = Parts(i)
  BY DEF Parts, Part
<1> HIDE DEF i, parts
<1>9. CASE i \notin Instances
  <2>1. stage' = "mem finalize" /\ next' = 1
    BY <1>7, <1>9 DEF GoTo
  <2>2. UNCHANGED <<rest, memory, rc, scan>>
    BY <1>7, <1>9
  <2>3. \A k \in Instances : k + 1 < next
    BY <1>6, <1>9, Constants DEF Instances
  <2>4. /\ stage' \in FromPublic /\ stage' \in FromBuiltinFinalize /\ stage' \notin FromSort
        /\ stage' \notin FromRcSort /\ PartsDone' /\ stage' # "mem fill" /\ stage' # "rc fill"
    BY <2>1, StageOrder, StageNames DEF PartsDone
  <2>5. next' = 1
    BY <2>1, Zenon
  <2>6. /\ \A k : PublicDone(k)' /\ RcFilled(k)'
        /\ \A k : InstanceDone(k)' /\ ~MemFilled(k)'
    BY <2>1, AtStage DEF PublicDone, RcFilled, InstanceDone, MemFilled
  <2>7. /\ Types' /\ Locking' /\ MemCells' /\ Columns' /\ RangeOfCells' /\ RcCells'
        /\ InputsRead' /\ Stopping'
        /\ cell' = cell /\ in' = in /\ rc' = rc /\ sorted' = sorted
    <3>1. used' = used /\ last_hole' = last_hole /\ orig_address_max' = orig_address_max
      BY <2>2 DEF scan
    <3>2. next' \in Nat \ {0}
      BY <2>5
    <3>3. used' \subseteq 0..MaxWord /\ last_hole' \in 0..MaxWord /\ orig_address_max' \in 0..MaxWord
      BY <3>1 DEF IInv, Types
    <3>4. UNCHANGED <<rest, memory, rc>>
      BY <2>2
    <3>5. QED
      BY <1>1, <1>2, <1>3, <2>3, <2>4, <2>6, <3>2, <3>3, <3>4, MoveOn
  <2>8. RcFilling' /\ MemFilling' /\ MemFull'
    BY <2>4 DEF RcFilling, MemFilling, MemFull
  <2>9. RcFull'
    BY <1>2, <2>7, KeepRcFull DEF IInv
  <2>10. Sorting'
    BY <1>2, <2>4, <2>7, KeepUnsorted DEF IInv
  <2>11. QED
    BY <2>7, <2>8, <2>9, <2>10 DEF IInv
<1>10. CASE i \in Instances
  <2> DEFINE m == InstanceIndex(i)
             a == InstanceAddress(i)
             v == FromParts(Parts(i))
  <2>1. ~\E k \in PartIndices(i) : rc[k] = Empty
    <3> SUFFICES ASSUME NEW k \in PartIndices(i) PROVE rc[k] # Empty
      OBVIOUS
    <3>1. k \in RcIndices
      BY <1>10, RcIndexFacts DEF PartIndices, Part
    <3>2. QED
      BY <1>5, <3>1, Constants
  <2>2. m \in MemIndices /\ m \notin Steps
    BY <1>10, MemIndexFacts
  <2>3. cell[m] = Empty
    <3>1. ~InstanceDone(i)
      BY <1>3, <1>6
    <3>2. QED
      BY <1>10, <3>1 DEF IInv, MemCells
  <2>4. /\ WriteCell(m, a, v, FALSE) /\ next' = next + 1
        /\ UNCHANGED <<rest, rc, stage, scan>>
    BY <1>7, <1>8, <1>10, <2>1, <2>3 DEF InstanceAddress
  <2>5. a \in 0..MaxWord /\ v \in Nat
    <3>1. begin_addr + i \in Int
      BY <1>6, Constants
    <3>2. QED
      BY <1>5, <1>10, <3>1, WordFacts DEF InstanceAddress
  <2> HIDE DEF m, a, v
  <2>6. /\ in' = in /\ pc' = pc /\ write_trace_lock_' = write_trace_lock_ /\ read_range' = read_range
        /\ sorted' = sorted /\ aborted' = aborted /\ rc' = rc /\ stage' = stage
        /\ used' = used /\ last_hole' = last_hole /\ orig_address_max' = orig_address_max
    BY <2>4 DEF rest, scan
  <2>7. /\ cell' \in [MemIndices -> {Empty} \cup ((0..MaxWord) \X Nat)]
        /\ column' \in [MemIndices -> (0..MaxWord) \X Nat]
        /\ address_min_' \in 0..MaxWord /\ address_max_' \in 0..MaxWord
        /\ cell'[m] = <<a, v>> /\ cell'[m] # Empty
        /\ \A k \in MemIndices : k # m => cell'[k] = cell[k] /\ column'[k] = column[k]
        /\ column'[m] = <<a, v>>
        /\ public_input_indices_' = public_input_indices_ \cup {}
        /\ RangeOfCells'
    <3>1. FALSE \in BOOLEAN
      OBVIOUS
    <3>2. Types /\ RangeOfCells
      BY DEF IInv
    <3>3. /\ cell' \in [MemIndices -> {Empty} \cup ((0..MaxWord) \X Nat)]
          /\ column' \in [MemIndices -> (0..MaxWord) \X Nat]
          /\ address_min_' \in 0..MaxWord /\ address_max_' \in 0..MaxWord
          /\ cell'[m] = <<a, v>> /\ cell'[m] # Empty
          /\ \A k \in MemIndices : k # m => cell'[k] = cell[k] /\ column'[k] = column[k]
          /\ column'[m] = IF FALSE THEN <<0, 0>> ELSE <<a, v>>
          /\ public_input_indices_' = public_input_indices_ \cup (IF FALSE THEN {m} ELSE {})
          /\ RangeOfCells'
      <4>1. (\A t \in Steps : pc[t] = "done") /\ pc' = pc
        BY <1>4, <2>6
      <4>2. WriteCell(m, a, v, FALSE)
        BY <2>4
      <4>3. QED
        BY <2>2, <2>3, <2>5, <3>1, <3>2, <4>1, <4>2, WriteCellFacts, Zenon
    <3>4. QED
      BY <3>3, Zenon
  <2>8. /\ \A k : PublicDone(k)' /\ RcFilled(k)'
        /\ \A k : (InstanceDone(k)' <=> k + 1 < next + 1) /\ ~MemFilled(k)'
        /\ PartsDone'
    <3>1. stage' = "builtin finalize" /\ next' = next + 1
      BY <1>1, <2>4, <2>6
    <3>2. QED
      BY <1>2, <2>6, <3>1, AtStage DEF PublicDone, RcFilled, InstanceDone, MemFilled, PartsDone
  <2>9. /\ \A t : Access(t)' = Access(t)
        /\ \A k : PublicEntry(k)' = PublicEntry(k)
        /\ AllAddresses' = AllAddresses
        /\ \A k : FromParts(Parts(k))' = FromParts(Parts(k))
        /\ \A k : InstanceAddress(k)' = InstanceAddress(k)
    <3>1. \A k : FromParts(Parts(k))' = FromParts(Parts(k))
      BY <2>6 DEF FromParts, Parts
    <3>2. \A k : InstanceAddress(k)' = InstanceAddress(k)
      BY DEF InstanceAddress, Word
    <3>3. QED
      BY <2>6, <3>1, <3>2, SameStatement
  <2>10. Types'
    <3>1. next' \in Nat \ {0}
      BY <1>12, <2>4
    <3>2. Types
      BY DEF IInv
    <3>3. QED
      BY <2>6, <2>7, <3>1, <3>2 DEF Types
  <2>11. Locking'
    <3>1. range' = range \/ \A t \in Steps : pc[t] # "locked"
      BY <1>4
    <3>2. \A t \in Steps : pc'[t] # "locked" /\ pc'[t] = "done" /\ write_trace_lock_' # t
      BY <1>4, <2>6 DEF IInv, Locking
    <3>3. QED
      BY <3>2 DEF Locking
  <2>12. MemCells'
    <3>1. \A t \in Steps : cell'[t] = Access(t) /\ pc'[t] # "start"
      BY <1>4, <2>2, <2>6, <2>7, MemIndexFacts
    <3>2. \A k \in 1..PublicSize : cell'[PublicIndex(k)] = PublicEntry(k)
      <4>1. \A k \in 1..PublicSize : PublicIndex(k) \in MemIndices /\ PublicIndex(k) # m
        BY <1>10, MemIndexFacts DEF m
      <4>2. QED
        BY <1>3, <2>7, <4>1 DEF IInv, MemCells
    <3>3. \A k \in Instances : cell'[InstanceIndex(k)]
            = IF k + 1 < next + 1 THEN <<InstanceAddress(k), FromParts(Parts(k))>> ELSE Empty
      <4> SUFFICES ASSUME NEW k \in Instances
                   PROVE  cell'[InstanceIndex(k)]
                            = IF k + 1 < next + 1 THEN <<InstanceAddress(k), FromParts(Parts(k))>> ELSE Empty
        OBVIOUS
      <4>1. k \in Int
        BY DEF Instances
      <4>2. CASE k = i
        <5>1. k + 1 < next + 1
          BY <1>6, <4>1, <4>2
        <5>2. cell'[InstanceIndex(k)] = <<InstanceAddress(k), FromParts(Parts(k))>>
          BY <2>7, <4>2, Zenon DEF m, a, v
        <5>3. QED
          BY <5>1, <5>2
      <4>3. CASE k # i
        <5>1. cell'[InstanceIndex(k)] = cell[InstanceIndex(k)]
          <6>1. InstanceIndex(k) \in MemIndices /\ InstanceIndex(k) # m
            BY <1>10, <4>3, MemIndexFacts DEF m
          <6>2. QED
            BY <2>7, <6>1
        <5>2. cell[InstanceIndex(k)] = IF k + 1 < next THEN <<InstanceAddress(k), FromParts(Parts(k))>> ELSE Empty
          BY <1>3 DEF IInv, MemCells
        <5>3. k + 1 < next + 1 <=> k + 1 < next
          BY <1>6, <4>1, <4>3
        <5>4. QED
          BY <5>1, <5>2, <5>3
      <4>4. QED
        BY <4>2, <4>3
    <3>4. \A j \in MemFree : cell'[j] = Empty
      <4>1. \A j \in MemFree : j \in MemIndices /\ j # m
        BY <1>10, MemIndexFacts DEF m
      <4>2. QED
        BY <1>3, <2>7, <4>1 DEF IInv, MemCells
    <3>5. QED
      BY <2>8, <2>9, <3>1, <3>2, <3>3, <3>4 DEF MemCells
  <2>13. Columns'
    <3>1. public_input_indices_' = public_input_indices_
      BY <2>7
    <3>2. public_input_indices_' = {PublicIndex(k) : k \in {k \in 1..PublicSize : PublicDone(k)'}}
      BY <1>3, <2>8, <3>1 DEF IInv, Columns
    <3>3. ASSUME NEW k \in MemIndices
          PROVE  IF k \in public_input_indices_' THEN column'[k] = <<0, 0>>
                 ELSE cell'[k] # Empty /\ (k \in Steps => pc'[k] # "locked") => column'[k] = cell'[k]
      <4>1. CASE k = m
        <5>1. m \notin public_input_indices_
          BY <1>10, MemIndexFacts DEF IInv, Columns, m
        <5>2. QED
          BY <2>7, <3>1, <4>1, <5>1
      <4>2. CASE k # m
        <5>1. cell'[k] = cell[k] /\ column'[k] = column[k] /\ pc' = pc
          BY <2>6, <2>7, <4>2
        <5>2. IF k \in public_input_indices_ THEN column[k] = <<0, 0>>
              ELSE cell[k] # Empty /\ (k \in Steps => pc[k] # "locked") => column[k] = cell[k]
          BY DEF IInv, Columns
        <5>3. QED
          BY <3>1, <5>1, <5>2
      <4>3. QED
        BY <4>1, <4>2
    <3>4. QED
      BY <3>2, <3>3 DEF Columns
  <2>14. RcCells'
    BY <1>2, <1>3, <2>6, <2>8, KeepRc DEF IInv
  <2>15. InputsRead'
    BY <1>2, <2>6 DEF IInv, InputsRead, PartsDone
  <2>16. /\ stage' \in FromBuiltinFinalize /\ stage' \notin FromSort
         /\ stage' # "rc fill" /\ stage' # "mem fill" /\ stage' \notin FromRcSort
    BY <1>1, <1>2, <2>6, StageOrder
  <2>17. RcFilling' /\ MemFilling' /\ MemFull'
    BY <2>16 DEF RcFilling, MemFilling, MemFull
  <2>18. RcFull'
    BY <1>2, <2>6, KeepRcFull DEF IInv
  <2>19. Sorting'
    BY <1>2, <2>6, <2>16, KeepUnsorted DEF IInv
  <2>20. Stopping'
    BY <1>1, <2>6 DEF Stopping
  <2>21. QED
    BY <2>7, <2>10, <2>11, <2>12, <2>13, <2>14, <2>15, <2>17, <2>18, <2>19, <2>20 DEF IInv
<1>11. QED
  BY <1>9, <1>10

-----------------------------------------------------------------------------
\* Finalize of the memory pool.

\* From here on the cells of the statement are all there.
LEMMA MemPoolFacts ==
  ASSUME IInv, stage \in FromMemFinalize
  PROVE  /\ in \in Inputs /\ stage \in FromPublic /\ stage \in FromBuiltin /\ stage \in FromRcFinalize
         /\ stage \in FromBuiltinFinalize /\ stage # "rc fill" /\ PartsDone
         /\ \A t \in Steps : pc[t] = "done"
         /\ \A m \in MemIndices : m \notin MemFree =>
              /\ cell[m] # Empty /\ cell[m][1] \in AllAddresses
              /\ \/ cell[m] \in GivenPairs
                 \/ \E i \in Filled : m = InstanceIndex(i) /\ cell[m][1] = InstanceAddress(i)
         /\ \A p \in GivenPairs : \E m \in MemIndices : m \notin MemFree /\ cell[m] = p
         /\ \A a \in AllAddresses : \E m \in MemIndices : m \notin MemFree /\ cell[m][1] = a
         /\ \A m \in MemIndices : cell[m] # Empty =>
              /\ cell[m] \in (0..MaxWord) \X Nat /\ cell[m][1] \in 0..MaxWord
              /\ address_min_ <= cell[m][1] /\ cell[m][1] <= address_max_
         /\ \E m \in MemIndices : cell[m] # Empty /\ cell[m][1] = address_min_
         /\ \E m \in MemIndices : cell[m] # Empty /\ cell[m][1] = address_max_
         /\ \A a : a \in Addresses <=> \E m \in MemIndices : cell[m] # Empty /\ cell[m][1] = a
         /\ AllAddresses \subseteq 0..MaxWord /\ AllAddresses \subseteq Addresses
         /\ address_min_ \in 0..MaxWord /\ address_max_ \in 0..MaxWord /\ address_min_ <= address_max_
         /\ MemFree \subseteq MemIndices
         /\ cell \in [MemIndices -> {Empty} \cup ((0..MaxWord) \X Nat)]
<1>1. /\ stage \in FromPublic /\ stage \in FromBuiltin /\ stage \in FromRcFinalize
      /\ stage \in FromBuiltinFinalize /\ stage # "rc fill" /\ PartsDone
  BY StageOrder, StageNames DEF PartsDone
<1>2. in \in Inputs /\ cell \in [MemIndices -> {Empty} \cup ((0..MaxWord) \X Nat)]
  BY DEF IInv, Types
<1>3. \A t \in Steps : pc[t] = "done" /\ pc[t] # "locked"
  BY <1>1, OneThread
<1>4. /\ \A m \in MemIndices : m \notin MemFree =>
           /\ cell[m] # Empty /\ cell[m][1] \in AllAddresses
           /\ \/ cell[m] \in GivenPairs
              \/ \E i \in Filled : m = InstanceIndex(i) /\ cell[m][1] = InstanceAddress(i)
      /\ \A p \in GivenPairs : \E m \in MemIndices : m \notin MemFree /\ cell[m] = p
      /\ \A a \in AllAddresses : \E m \in MemIndices : m \notin MemFree /\ cell[m][1] = a
  BY MemGiven DEF IInv
<1>5. Counted = {m \in MemIndices : cell[m] # Empty}
  BY <1>3 DEF Counted
<1>6. Counted # {}
  <2>1. 1 \in Steps
    BY Constants DEF Steps
  <2>2. 1 \in MemIndices /\ 1 \notin MemFree
    BY <2>1, MemIndexFacts
  <2>3. QED
    BY <1>4, <1>5, <2>2
<1>7. /\ \A m \in Counted : address_min_ <= cell[m][1] /\ cell[m][1] <= address_max_
      /\ \E m \in Counted : cell[m][1] = address_min_
      /\ \E m \in Counted : cell[m][1] = address_max_
  BY <1>6 DEF IInv, RangeOfCells
<1>8. \A m \in MemIndices : cell[m] # Empty =>
        cell[m] \in (0..MaxWord) \X Nat /\ cell[m][1] \in 0..MaxWord
  BY <1>2
<1>9. \A a : a \in Addresses <=> \E m \in MemIndices : cell[m] # Empty /\ cell[m][1] = a
  BY <1>2, ContentsIs
<1>10. AllAddresses \subseteq 0..MaxWord /\ AllAddresses \subseteq Addresses
  BY <1>2, <1>4, <1>9, GivenIs
<1>11. address_min_ \in 0..MaxWord /\ address_max_ \in 0..MaxWord /\ address_min_ <= address_max_
  <2>1. address_min_ \in 0..MaxWord /\ address_max_ \in 0..MaxWord
    BY DEF IInv, Types
  <2>2. PICK m \in Counted : cell[m][1] = address_min_
    BY <1>7
  <2>3. QED
    BY <1>7, <2>1, <2>2
<1>12. MemFree \subseteq MemIndices
  BY MemIndexFacts
<1>13. QED
  BY <1>1, <1>2, <1>3, <1>4, <1>5, <1>7, <1>8, <1>9, <1>10, <1>11, <1>12

LEMMA BeginMemFinalizeStep ==
  ASSUME IInv, BeginMemFinalize
  PROVE  IInv'
<1>1. aborted = "no" /\ stage = "mem finalize"
  BY DEF BeginMemFinalize, Running
<1>2. stage \in FromMemFinalize /\ stage \notin FromMemFill /\ stage \notin FromSort
  BY <1>1, StageOrder, StageNames
<1>3. /\ in \in Inputs /\ stage \in FromPublic /\ stage \in FromBuiltin /\ stage \in FromRcFinalize
      /\ stage \in FromBuiltinFinalize /\ PartsDone
  BY <1>2, MemPoolFacts
<1>4. /\ \A k : PublicDone(k) /\ RcFilled(k)
      /\ \A k : InstanceDone(k) /\ ~MemFilled(k)
  BY <1>1, AtStage DEF PublicDone, RcFilled, InstanceDone, MemFilled
<1>5. Addresses = AllAddresses
  <2>1. \A j \in MemFree : cell[j] = Empty
    BY <1>4 DEF IInv, MemCells
  <2>2. ASSUME NEW a \in Addresses PROVE a \in AllAddresses
    <3>1. PICK m \in MemIndices : cell[m] # Empty /\ cell[m][1] = a
      BY <1>2, MemPoolFacts
    <3>2. m \notin MemFree
      BY <2>1, <3>1
    <3>3. QED
      BY <1>2, <3>1, <3>2, MemPoolFacts
  <2>3. QED
    BY <1>2, <2>2, MemPoolFacts
<1>6. /\ address_min_ \in AllAddresses /\ address_max_ \in AllAddresses
      /\ address_min_ \in 0..MaxWord /\ address_max_ \in 0..MaxWord /\ address_min_ <= address_max_
      /\ AllAddresses \subseteq 0..MaxWord /\ AllAddresses \subseteq address_min_ .. address_max_
      /\ MaxWord \in Nat
  <2>1. address_min_ \in Addresses /\ address_max_ \in Addresses
    BY <1>2, MemPoolFacts
  <2>2. ASSUME NEW a \in Addresses PROVE a \in 0..MaxWord /\ address_min_ <= a /\ a <= address_max_
    <3>1. PICK m \in MemIndices : cell[m] # Empty /\ cell[m][1] = a
      BY <1>2, MemPoolFacts
    <3>2. /\ cell[m][1] \in 0..MaxWord
          /\ address_min_ <= cell[m][1] /\ cell[m][1] <= address_max_
      BY <1>2, <3>1, MemPoolFacts
    <3>3. QED
      BY <3>1, <3>2
  <2>3. address_min_ \in 0..MaxWord /\ address_max_ \in 0..MaxWord /\ address_min_ <= address_max_ /\ MaxWord \in Nat
    BY <1>2, MemPoolFacts, Constants
  <2>4. \A a \in AllAddresses : a \in address_min_ .. address_max_
    <3> SUFFICES ASSUME NEW a \in AllAddresses PROVE a \in address_min_ .. address_max_
      OBVIOUS
    <3>1. a \in 0..MaxWord /\ address_min_ <= a /\ a <= address_max_
      BY <1>5, <2>2
    <3>2. QED
      BY <2>3, <3>1
  <2>5. QED
    BY <1>5, <2>1, <2>2, <2>3, <2>4
<1>7. /\ ~(address_min_ > address_max_)
      /\ Addresses \subseteq address_min_ .. address_max_
  BY <1>5, <1>6
<1>8. CASE SetSize = 0
  <2>1. address_max_ = MaxWord
    <3>1. address_max_ - address_min_ + 1 \in 0 .. MaxWord \/ address_max_ - address_min_ + 1 = MaxWord + 1
      BY <1>6
    <3>2. Word(address_max_ - address_min_ + 1) = 0
      BY <1>8 DEF SetSize
    <3>3. address_max_ - address_min_ + 1 # 0
      BY <1>6
    <3>4. address_max_ - address_min_ + 1 = MaxWord + 1
      BY <3>1, <3>2, <3>3, WordFacts
    <3>5. QED
      BY <1>6, <3>4
  <2>2. ~MemFits
    BY <1>3, <1>6, <2>1, MemRoom
  <2>3. Abort("at() out of range")
    BY <1>7, <1>8 DEF BeginMemFinalize
  <2>4. QED
    BY <2>2, <2>3, AbortKeeps DEF Unfit
<1>9. CASE SetSize # 0
  <2>1. stage' = "mem fill" /\ next' = 1
    BY <1>7, <1>9 DEF BeginMemFinalize, GoTo
  <2>2. /\ used' = Addresses
        /\ last_hole' = address_min_ /\ orig_address_max' = address_max_
        /\ UNCHANGED <<rest, memory, rc>>
    BY <1>7, <1>9 DEF BeginMemFinalize
  <2>3. /\ stage' \in FromPublic /\ stage' \in FromBuiltinFinalize /\ stage' \notin FromSort
        /\ stage' \notin FromRcSort /\ PartsDone' /\ stage' # "rc fill"
    BY <2>1, StageOrder, StageNames DEF PartsDone
  <2>4. next' = 1
    BY <2>1, Zenon
  <2>5. /\ \A k : PublicDone(k)' /\ RcFilled(k)'
        /\ \A k : InstanceDone(k)' /\ (MemFilled(k)' <=> k < 1)
    BY <2>1, AtStage DEF PublicDone, RcFilled, InstanceDone, MemFilled
  <2>6. \A j \in MemFree : ~(j < 1)
    <3>1. \A j \in MemFree : j \in Nat /\ j >= 1
      BY Constants DEF MemFree
    <3>2. QED
      BY <3>1
  <2>7. /\ Types' /\ Locking' /\ MemCells' /\ Columns' /\ RangeOfCells' /\ RcCells'
        /\ InputsRead' /\ Stopping'
        /\ cell' = cell /\ in' = in /\ rc' = rc /\ sorted' = sorted
        /\ address_min_' = address_min_ /\ address_max_' = address_max_
    <3>1. next' \in Nat \ {0}
      BY <2>4
    <3>2. used' \subseteq 0..MaxWord /\ last_hole' \in 0..MaxWord /\ orig_address_max' \in 0..MaxWord
      BY <1>5, <1>6, <2>2
    <3>3. UNCHANGED <<rest, memory, rc>>
      BY <2>2
    <3>4. QED
      BY <1>1, <1>3, <1>4, <2>3, <2>5, <2>6, <3>1, <3>2, <3>3, MoveOn
  <2>8. RcFilling' /\ MemFull'
    BY <2>3 DEF RcFilling, MemFull
  <2>9. RcFull'
    BY <1>3, <2>7, KeepRcFull DEF IInv
  <2>10. MemFilling'
    <3>1. AllAddresses' = AllAddresses
      BY <2>7, SameStatement
    <3>2. used' = AllAddresses /\ last_hole' = address_min_ /\ orig_address_max' = address_max_
      BY <1>5, <2>2
    <3>3. /\ last_hole' \in address_min_ .. (orig_address_max' + 1)
          /\ address_min_ .. (last_hole' - 1) = {}
          /\ address_max_ # orig_address_max' + 1
      BY <1>6, <3>2
    <3>4. \A j \in MemFree : ~(j < next')
      BY <2>4, <2>6
    <3>5. QED
      BY <1>6, <2>7, <3>1, <3>2, <3>3, <3>4 DEF MemFilling
  <2>11. Sorting'
    BY <1>2, <2>3, <2>7, KeepUnsorted DEF IInv
  <2>12. QED
    BY <2>7, <2>8, <2>9, <2>10, <2>11 DEF IInv
<1>10. QED
  BY <1>8, <1>9

LEMMA TypedNumbers ==
  ASSUME Types
  PROVE  /\ next \in Nat /\ next >= 1 /\ address_min_ \in Nat
         /\ orig_address_max \in 0..MaxWord /\ MaxWord \in Nat
<1>1. next \in Nat \ {0} /\ address_min_ \in 0..MaxWord /\ orig_address_max \in 0..MaxWord
  BY DEF Types
<1>2. QED
  BY <1>1, Constants

LEMMA MemFillFacts ==
  ASSUME IInv, stage = "mem fill"
  PROVE  /\ stage \in FromMemFinalize /\ stage \in FromMemFill /\ stage \notin FromSort
         /\ \A k : PublicDone(k) /\ RcFilled(k)
         /\ \A k : InstanceDone(k) /\ (MemFilled(k) <=> k < next)
         /\ used = AllAddresses
         /\ address_min_ \in AllAddresses /\ orig_address_max \in AllAddresses
         /\ AllAddresses \subseteq address_min_ .. orig_address_max
         /\ address_max_ \in {orig_address_max, orig_address_max + 1}
         /\ last_hole \in address_min_ .. (orig_address_max + 1)
         /\ \A a \in address_min_ .. (last_hole - 1) : a \in Addresses
         /\ address_max_ = orig_address_max + 1 => last_hole = orig_address_max + 1
         /\ \A a \in HolesFrom(last_hole) : \A j \in MemFree : j < next =>
              cell[j][1] < last_hole /\ \A i \in MemFree : i < j => cell[i][1] < cell[j][1]
         /\ \A j \in MemFree : j < next =>
              cell[j] # Empty /\ cell[j][1] \notin AllAddresses /\ cell[j][2] = 0
         /\ \A j \in MemFree : ~(j < next) => cell[j] = Empty
         /\ \A j \in MemIndices : j \in Nat /\ j >= 1
         /\ next \in Nat /\ next >= 1
         /\ address_min_ \in Nat /\ orig_address_max \in 0..MaxWord /\ MaxWord \in Nat
<1>1. stage \in FromMemFinalize /\ stage \in FromMemFill /\ stage \notin FromSort
  BY StageOrder, StageNames
<1>2. /\ \A k : PublicDone(k) /\ RcFilled(k)
      /\ \A k : InstanceDone(k) /\ (MemFilled(k) <=> k < next)
  BY AtStage DEF PublicDone, RcFilled, InstanceDone, MemFilled
<1>3. /\ used = AllAddresses
      /\ address_min_ \in used /\ orig_address_max \in used
      /\ used \subseteq address_min_ .. orig_address_max
      /\ address_max_ \in {orig_address_max, orig_address_max + 1}
      /\ last_hole \in address_min_ .. (orig_address_max + 1)
      /\ \A a \in address_min_ .. (last_hole - 1) : a \in Addresses
      /\ address_max_ = orig_address_max + 1 => last_hole = orig_address_max + 1
      /\ \A a \in HolesFrom(last_hole) : \A j \in MemFree : j < next =>
           cell[j][1] < last_hole /\ \A i \in MemFree : i < j => cell[i][1] < cell[j][1]
  BY DEF IInv, MemFilling
<1>4. /\ \A j \in MemFree : j < next =>
           cell[j] # Empty /\ cell[j][1] \notin AllAddresses /\ cell[j][2] = 0
      /\ \A j \in MemFree : ~(j < next) => cell[j] = Empty
  BY <1>2 DEF IInv, MemCells
<1>5. \A j \in MemIndices : j \in Nat /\ j >= 1
  BY MemIndexFacts
<1>6. next \in Nat /\ next >= 1 /\ address_min_ \in Nat /\ orig_address_max \in 0..MaxWord /\ MaxWord \in Nat
  BY TypedNumbers DEF IInv
<1>7. QED
  BY <1>1, <1>2, <1>3, <1>4, <1>5, <1>6

\* The next hole, or the address above all of them.
LEMMA NextHoleFacts ==
  ASSUME NEW lo \in Nat, NEW h \in Nat, lo <= h, orig_address_max \in 0..MaxWord, MaxWord \in Nat,
         used \subseteq lo .. orig_address_max, orig_address_max \in used,
         h <= orig_address_max + 1, ~PassesTheEnd(h)
  PROVE  \E n \in Nat :
           /\ n = NextHole(h) /\ n \in 0..MaxWord /\ n \notin used /\ h <= n /\ n <= orig_address_max + 1
           /\ \A a \in h .. (n - 1) : a \in used
           /\ HolesFrom(h) = {} => n = orig_address_max + 1
           /\ HolesFrom(h) # {} => n \in HolesFrom(h) /\ n < orig_address_max
<1> DEFINE hi == orig_address_max
<1>1. hi \in Nat /\ hi <= MaxWord /\ MaxWord \in Nat
  OBVIOUS
<1>2. \A a : a \in HolesFrom(h) <=> a \in h .. hi /\ a \notin used
  BY DEF HolesFrom
<1>3. \A a \in used : a \in Nat /\ a <= hi
  OBVIOUS
<1>4. CASE HolesFrom(h) = {}
  <2>1. NextHole(h) = hi + 1
    BY <1>4 DEF NextHole
  <2>2. hi # MaxWord
    BY <1>4 DEF PassesTheEnd
  <2> HIDE DEF hi
  <2>3. hi + 1 \in 0..MaxWord /\ hi + 1 \notin used
    BY <1>1, <1>3, <2>2
  <2>4. \A a \in h .. ((hi + 1) - 1) : a \in used
    BY <1>1, <1>2, <1>4
  <2>5. h <= hi + 1
    BY DEF hi
  <2>6. hi + 1 \in Nat /\ hi + 1 <= hi + 1
    BY <1>1
  <2>7. QED
    BY <1>4, <2>1, <2>3, <2>4, <2>5, <2>6 DEF hi
<1>5. CASE HolesFrom(h) # {}
  <2>1. NextHole(h) = CHOOSE a \in HolesFrom(h) : \A b \in HolesFrom(h) : a <= b
    BY <1>5 DEF NextHole
  <2>2. HolesFrom(h) \in SUBSET Nat
    BY <1>1, <1>2
  <2>3. \E a \in HolesFrom(h) : \A b \in HolesFrom(h) : a <= b
    BY <1>5, <2>2, LeastElement, Zenon
  <2>4. NextHole(h) \in HolesFrom(h) /\ \A b \in HolesFrom(h) : NextHole(h) <= b
    BY <2>1, <2>3
  <2>5. PICK n \in HolesFrom(h) : n = NextHole(h) /\ \A b \in HolesFrom(h) : n <= b
    BY <2>4
  <2>6. n \in Nat /\ h <= n /\ n <= hi /\ n \notin used
    <3>1. n \in h .. hi /\ n \notin used
      BY <1>2
    <3> HIDE DEF hi
    <3>2. QED
      BY <1>1, <3>1
  <2>7. n # hi
    BY <2>6
  <2>8. \A a \in h .. (n - 1) : a \in used
    <3> SUFFICES ASSUME NEW a \in h .. (n - 1), a \notin used PROVE FALSE
      OBVIOUS
    <3> HIDE DEF hi
    <3>1. a \in h .. hi /\ a < n /\ a \in Nat
      BY <1>1, <2>6
    <3>2. n <= a
      BY <1>2, <2>5, <3>1
    <3>3. QED
      BY <2>6, <3>1, <3>2
  <2>9. n < hi /\ n \in 0..MaxWord /\ n <= hi + 1
    <3> HIDE DEF hi
    <3>1. QED
      BY <1>1, <2>6, <2>7
  <2>10. QED
    BY <1>5, <2>5, <2>6, <2>8, <2>9
<1>6. QED
  BY <1>4, <1>5

LEMMA FillMemStep ==
  ASSUME IInv, FillMem
  PROVE  IInv'
<1>1. aborted = "no" /\ stage = "mem fill" /\ next \in MemIndices
  BY DEF FillMem, Running
<1>2. IF cell[next] # Empty
      THEN /\ next' = next + 1
           /\ UNCHANGED <<rest, memory, rc, stage, scan>>
      ELSE IF PassesTheEnd(last_hole) THEN Abort("at() out of range")
      ELSE /\ WriteCell(next, NextHole(last_hole), 0, FALSE)
           /\ last_hole' = IF NextHole(last_hole) <= orig_address_max
                           THEN Word(NextHole(last_hole) + 1) ELSE NextHole(last_hole)
           /\ next' = next + 1
           /\ UNCHANGED <<rest, rc, stage, used, orig_address_max>>
  BY DEF FillMem
<1>3. /\ stage \in FromMemFinalize /\ stage \in FromMemFill /\ stage \notin FromSort
      /\ \A k : PublicDone(k) /\ RcFilled(k)
      /\ \A k : InstanceDone(k) /\ (MemFilled(k) <=> k < next)
  BY <1>1, MemFillFacts
<1>4. /\ in \in Inputs /\ stage \in FromPublic /\ stage \in FromBuiltin /\ stage \in FromRcFinalize
      /\ stage \in FromBuiltinFinalize /\ stage # "rc fill" /\ PartsDone
      /\ \A t \in Steps : pc[t] = "done"
  BY <1>3, MemPoolFacts
<1>5. /\ \A m \in MemIndices : m \notin MemFree => cell[m] # Empty /\ cell[m][1] \in AllAddresses
      /\ \A m \in MemIndices : cell[m] # Empty =>
           address_min_ <= cell[m][1] /\ cell[m][1] <= address_max_
      /\ \A a : a \in Addresses <=> \E m \in MemIndices : cell[m] # Empty /\ cell[m][1] = a
      /\ AllAddresses \subseteq 0..MaxWord /\ AllAddresses \subseteq Addresses
      /\ MemFree \subseteq MemIndices
      /\ cell \in [MemIndices -> {Empty} \cup ((0..MaxWord) \X Nat)]
  BY <1>3, MemPoolFacts
<1> DEFINE lo == address_min_
           hi == orig_address_max
           h == last_hole
<1>6. /\ used = AllAddresses
      /\ lo \in AllAddresses /\ hi \in AllAddresses
      /\ AllAddresses \subseteq lo .. hi
      /\ address_max_ \in {hi, hi + 1}
      /\ h \in lo .. (hi + 1)
      /\ \A a \in lo .. (h - 1) : a \in Addresses
      /\ address_max_ = hi + 1 => h = hi + 1
      /\ \A a \in HolesFrom(h) : \A j \in MemFree : j < next =>
           cell[j][1] < h /\ \A i \in MemFree : i < j => cell[i][1] < cell[j][1]
  BY <1>1, MemFillFacts
<1>7. /\ \A j \in MemFree : j < next =>
           cell[j] # Empty /\ cell[j][1] \notin AllAddresses /\ cell[j][2] = 0
      /\ \A j \in MemFree : ~(j < next) => cell[j] = Empty
      /\ \A j \in MemIndices : j \in Nat /\ j >= 1
      /\ next \in Nat /\ next >= 1
      /\ lo \in Nat /\ hi \in 0..MaxWord /\ MaxWord \in Nat
  BY <1>1, MemFillFacts
<1>8. h \in Nat /\ lo <= h /\ h <= hi + 1 /\ hi \in Nat
  <2> HIDE DEF lo, hi, h
  <2>1. QED
    BY <1>6, <1>7
<1>9. CASE cell[next] # Empty
  <2>1. next' = next + 1 /\ UNCHANGED <<rest, memory, rc, stage, scan>>
    BY <1>2, <1>9
  <2>2. /\ stage' = stage /\ used' = used /\ last_hole' = last_hole /\ orig_address_max' = orig_address_max
        /\ UNCHANGED <<rest, memory, rc>>
    BY <2>1 DEF scan
  <2>3. next \notin MemFree
    BY <1>7, <1>9
  <2>4. \A j \in MemFree : j < next + 1 <=> j < next
    BY <1>5, <1>7, <2>3
  <2>5. /\ \A k : PublicDone(k)' /\ RcFilled(k)'
        /\ \A k : InstanceDone(k)' /\ (MemFilled(k)' <=> k < next + 1)
        /\ PartsDone'
    <3>1. stage' = "mem fill" /\ next' = next + 1
      BY <1>1, <2>1, <2>2
    <3>2. QED
      BY <3>1, AtStage DEF PublicDone, RcFilled, InstanceDone, MemFilled, PartsDone
  <2>6. /\ Types' /\ Locking' /\ MemCells' /\ Columns' /\ RangeOfCells' /\ RcCells'
        /\ InputsRead' /\ Stopping'
        /\ cell' = cell /\ in' = in /\ rc' = rc /\ sorted' = sorted
        /\ address_min_' = address_min_ /\ address_max_' = address_max_
    <3>1. next' \in Nat \ {0}
      BY <1>7, <2>1
    <3>2. used' \subseteq 0..MaxWord /\ last_hole' \in 0..MaxWord /\ orig_address_max' \in 0..MaxWord
      BY <2>2 DEF IInv, Types
    <3>3. /\ \A k \in 1..PublicSize : PublicDone(k)' <=> PublicDone(k)
          /\ \A i \in Instances : InstanceDone(i)' <=> InstanceDone(i)
          /\ \A j \in MemFree : MemFilled(j)' <=> MemFilled(j)
          /\ PartsDone' <=> PartsDone
          /\ \A k \in RcFree : RcFilled(k)' <=> RcFilled(k)
      BY <1>3, <1>4, <2>4, <2>5
    <3>4. stage' \in FromPublic
      BY <1>4, <2>2
    <3>5. QED
      BY <1>1, <1>4, <2>2, <3>1, <3>2, <3>3, <3>4, MoveOn
  <2>7. /\ stage' # "rc fill" /\ stage' \notin FromSort /\ stage' \notin FromRcSort
    BY <1>3, <1>4, <2>2, StageOrder
  <2>8. RcFilling' /\ MemFull'
    BY <2>7 DEF RcFilling, MemFull
  <2>9. RcFull'
    BY <1>4, <2>6, KeepRcFull DEF IInv
  <2>10. MemFilling'
    <3>1. AllAddresses' = AllAddresses
      BY <2>6, SameStatement
    <3>2. \A x : HolesFrom(x)' = HolesFrom(x)
      BY <2>2 DEF HolesFrom
    <3>3. Addresses' = Addresses
      BY <2>6 DEF Addresses, Contents
    <3>4. QED
      BY <1>6, <2>1, <2>2, <2>4, <2>6, <3>1, <3>2, <3>3 DEF MemFilling
  <2>11. Sorting'
    BY <1>3, <2>6, <2>7, KeepUnsorted DEF IInv
  <2>12. QED
    BY <2>6, <2>8, <2>9, <2>10, <2>11 DEF IInv
<1>10. CASE cell[next] = Empty /\ PassesTheEnd(h)
  <2>1. hi = MaxWord
    BY <1>10 DEF PassesTheEnd
  <2>2. ~MemFits
    <3>1. hi = MaxWord => ~MemFits
      <4>1. \A f : hi = MaxWord => ~MemFits
        BY <1>4, <1>5, <1>6, MemRoom
      <4>2. QED
        BY <4>1
    <3>2. QED
      BY <2>1, <3>1
  <2>3. Abort("at() out of range")
    BY <1>2, <1>10
  <2>4. QED
    BY <2>2, <2>3, AbortKeeps DEF Unfit
<1>11. CASE cell[next] = Empty /\ ~PassesTheEnd(h)
  <2>1. /\ WriteCell(next, NextHole(h), 0, FALSE)
        /\ last_hole' = IF NextHole(h) <= hi THEN Word(NextHole(h) + 1) ELSE NextHole(h)
        /\ next' = next + 1
        /\ UNCHANGED <<rest, rc, stage, used, orig_address_max>>
    BY <1>2, <1>11
  <2>2. PICK n \in Nat :
          /\ n = NextHole(h) /\ n \in 0..MaxWord /\ n \notin used /\ h <= n /\ n <= hi + 1
          /\ \A a \in h .. (n - 1) : a \in used
          /\ HolesFrom(h) = {} => n = hi + 1
          /\ HolesFrom(h) # {} => n \in HolesFrom(h) /\ n < hi
    BY <1>6, <1>7, <1>8, <1>11, NextHoleFacts
  <2>3. /\ in' = in /\ pc' = pc /\ write_trace_lock_' = write_trace_lock_ /\ read_range' = read_range
        /\ sorted' = sorted /\ aborted' = aborted /\ rc' = rc /\ stage' = stage
        /\ used' = used /\ orig_address_max' = orig_address_max /\ next' = next + 1
    BY <2>1 DEF rest
  <2>4. next \in MemFree
    BY <1>1, <1>5, <1>11
  <2>5. /\ cell' \in [MemIndices -> {Empty} \cup ((0..MaxWord) \X Nat)]
        /\ column' \in [MemIndices -> (0..MaxWord) \X Nat]
        /\ address_min_' \in 0..MaxWord /\ address_max_' \in 0..MaxWord
        /\ address_min_' = Smaller(n, address_min_) /\ address_max_' = Larger(n, address_max_)
        /\ cell'[next] = <<n, 0>> /\ cell'[next] # Empty /\ cell'[next][1] = n /\ cell'[next][2] = 0
        /\ \A k \in MemIndices : k # next => cell'[k] = cell[k] /\ column'[k] = column[k]
        /\ column'[next] = <<n, 0>>
        /\ public_input_indices_' = public_input_indices_ \cup {}
        /\ RangeOfCells'
    <3>1. FALSE \in BOOLEAN /\ 0 \in Nat
      OBVIOUS
    <3>2. Types /\ RangeOfCells
      BY DEF IInv
    <3>3. /\ cell' \in [MemIndices -> {Empty} \cup ((0..MaxWord) \X Nat)]
          /\ column' \in [MemIndices -> (0..MaxWord) \X Nat]
          /\ address_min_' \in 0..MaxWord /\ address_max_' \in 0..MaxWord
          /\ address_min_' = Smaller(n, address_min_) /\ address_max_' = Larger(n, address_max_)
          /\ cell'[next] = <<n, 0>> /\ cell'[next] # Empty /\ cell'[next][1] = n /\ cell'[next][2] = 0
          /\ \A k \in MemIndices : k # next => cell'[k] = cell[k] /\ column'[k] = column[k]
          /\ column'[next] = IF FALSE THEN <<0, 0>> ELSE <<n, 0>>
          /\ public_input_indices_' = public_input_indices_ \cup (IF FALSE THEN {next} ELSE {})
          /\ RangeOfCells'
      <4>1. (\A t \in Steps : pc[t] = "done") /\ pc' = pc /\ next \in MemIndices /\ cell[next] = Empty
        BY <1>1, <1>4, <1>11, <2>3
      <4>2. WriteCell(next, n, 0, FALSE) /\ n \in 0..MaxWord
        BY <2>1, <2>2, Zenon
      <4>3. QED
        BY <3>1, <3>2, <4>1, <4>2, WriteCellFacts, Zenon
    <3>4. QED
      BY <3>3, Zenon
  \* The scan, as far as it has come.
  <2>6. /\ last_hole' \in lo .. (hi + 1) /\ last_hole' \in Nat /\ last_hole' \in 0..MaxWord
        /\ n < hi => last_hole' = n + 1
        /\ n = hi + 1 => last_hole' = hi + 1
        /\ n < hi \/ n = hi + 1
    <3>1. n < hi \/ n = hi + 1
      BY <2>2
    <3>2. last_hole' = IF n <= hi THEN Word(n + 1) ELSE n
      BY <2>1, <2>2, Zenon
    <3> HIDE DEF lo, hi, h
    <3>3. n < hi => n + 1 \in 0..MaxWord /\ n + 1 <= hi /\ n + 1 >= lo
      BY <1>7, <1>8, <2>2
    <3>4. n < hi => last_hole' = n + 1
      BY <1>7, <1>8, <3>2, <3>3, WordFacts
    <3>5. n = hi + 1 => last_hole' = hi + 1 /\ hi + 1 \in 0..MaxWord
      BY <1>8, <2>2, <3>2
    <3>6. QED
      BY <1>7, <1>8, <3>1, <3>3, <3>4, <3>5
  <2>7. address_min_' = lo
    <3>1. lo <= n
      <4> HIDE DEF lo, hi, h
      <4>1. QED
        BY <1>7, <1>8, <2>2
    <3>2. QED
      BY <1>7, <2>5, <3>1 DEF Smaller
  <2>8. address_max_' \in {hi, hi + 1} /\ (address_max_' = hi + 1 => n = hi + 1)
    <3>1. CASE n = hi + 1
      <4> HIDE DEF lo, hi, h
      <4>1. QED
        BY <1>6, <1>8, <2>5, <3>1 DEF Larger
    <3>2. CASE n < hi
      <4> HIDE DEF lo, hi, h
      <4>1. address_max_ = hi
        BY <1>6, <1>8, <2>2, <3>2
      <4>2. address_max_' = hi
        BY <1>8, <2>2, <2>5, <3>2, <4>1 DEF Larger
      <4>3. QED
        BY <1>8, <4>2
    <3>3. QED
      BY <2>6, <3>1, <3>2
  <2>9. \A k \in MemIndices : cell[k] # Empty => cell'[k] = cell[k]
    BY <1>11, <2>5
  <2>10. /\ \A k : PublicDone(k)' /\ RcFilled(k)'
         /\ \A k : InstanceDone(k)' /\ (MemFilled(k)' <=> k < next + 1)
         /\ PartsDone'
    <3>1. stage' = "mem fill" /\ next' = next + 1
      BY <1>1, <2>3
    <3>2. QED
      BY <3>1, AtStage DEF PublicDone, RcFilled, InstanceDone, MemFilled, PartsDone
  <2>11. /\ \A t : Access(t)' = Access(t)
         /\ \A k : PublicEntry(k)' = PublicEntry(k)
         /\ AllAddresses' = AllAddresses
         /\ \A k : FromParts(Parts(k))' = FromParts(Parts(k))
         /\ \A k : InstanceAddress(k)' = InstanceAddress(k)
    <3>1. \A k : FromParts(Parts(k))' = FromParts(Parts(k))
      BY <2>3 DEF FromParts, Parts
    <3>2. \A k : InstanceAddress(k)' = InstanceAddress(k)
      BY DEF InstanceAddress, Word
    <3>3. QED
      BY <2>3, <3>1, <3>2, SameStatement
  <2>12. \A j \in MemFree : j < next + 1 <=> (j < next \/ j = next)
    BY <1>5, <1>7
  <2>13. Types'
    <3>1. next' \in Nat \ {0}
      BY <1>7, <2>3
    <3>2. Types
      BY DEF IInv
    <3>3. QED
      BY <2>3, <2>5, <2>6, <3>1, <3>2 DEF Types
  <2>14. Locking'
    <3>1. \A t \in Steps : pc'[t] # "locked" /\ pc'[t] = "done" /\ write_trace_lock_' # t
      BY <1>4, <2>3 DEF IInv, Locking
    <3>2. QED
      BY <3>1 DEF Locking
  <2>15. MemCells'
    <3>1. \A t \in Steps : cell'[t] = Access(t) /\ pc'[t] # "start"
      <4>1. \A t \in Steps : cell[t] = Access(t) /\ pc[t] # "start"
        BY <1>4, OneThread
      <4>2. \A t \in Steps : t \in MemIndices /\ t # next
        BY <2>4, MemIndexFacts
      <4>3. QED
        BY <2>3, <2>5, <4>1, <4>2
    <3>2. \A k \in 1..PublicSize : cell'[PublicIndex(k)] = PublicEntry(k)
      <4>1. \A k \in 1..PublicSize : PublicIndex(k) \in MemIndices /\ PublicIndex(k) # next
        BY <2>4, MemIndexFacts
      <4>2. \A k \in 1..PublicSize : cell[PublicIndex(k)] = PublicEntry(k)
        BY <1>3 DEF IInv, MemCells
      <4>3. QED
        BY <2>5, <4>1, <4>2
    <3>3. \A k \in Instances : cell'[InstanceIndex(k)] = <<InstanceAddress(k), FromParts(Parts(k))>>
      <4>1. \A k \in Instances : InstanceIndex(k) \in MemIndices /\ InstanceIndex(k) # next
        BY <2>4, MemIndexFacts
      <4>2. \A k \in Instances : cell[InstanceIndex(k)] = <<InstanceAddress(k), FromParts(Parts(k))>>
        BY <1>3 DEF IInv, MemCells
      <4>3. QED
        BY <2>5, <4>1, <4>2
    <3>4. \A j \in MemFree :
            IF j < next + 1 THEN cell'[j] # Empty /\ cell'[j][1] \notin AllAddresses /\ cell'[j][2] = 0
                            ELSE cell'[j] = Empty
      <4> SUFFICES ASSUME NEW j \in MemFree
                   PROVE  IF j < next + 1
                          THEN cell'[j] # Empty /\ cell'[j][1] \notin AllAddresses /\ cell'[j][2] = 0
                          ELSE cell'[j] = Empty
        OBVIOUS
      <4>1. CASE j = next
        <5>1. j < next + 1
          BY <1>7, <4>1
        <5>2. n \notin AllAddresses
          BY <1>6, <2>2
        <5>3. QED
          BY <2>5, <4>1, <5>1, <5>2
      <4>2. CASE j # next
        <5>1. cell'[j] = cell[j] /\ (j < next + 1 <=> j < next)
          BY <1>5, <2>5, <2>12, <4>2
        <5>2. QED
          BY <1>7, <5>1
      <4>3. QED
        BY <4>1, <4>2
    <3>5. QED
      BY <2>10, <2>11, <3>1, <3>2, <3>3, <3>4 DEF MemCells
  <2>16. Columns'
    <3>1. public_input_indices_' = public_input_indices_
      BY <2>5
    <3>2. public_input_indices_' = {PublicIndex(k) : k \in {k \in 1..PublicSize : PublicDone(k)'}}
      BY <1>3, <2>10, <3>1 DEF IInv, Columns
    <3>3. ASSUME NEW k \in MemIndices
          PROVE  IF k \in public_input_indices_' THEN column'[k] = <<0, 0>>
                 ELSE cell'[k] # Empty /\ (k \in Steps => pc'[k] # "locked") => column'[k] = cell'[k]
      <4>1. CASE k = next
        <5>1. next \notin public_input_indices_
          BY <2>4, MemIndexFacts DEF IInv, Columns
        <5>2. QED
          BY <2>5, <3>1, <4>1, <5>1
      <4>2. CASE k # next
        <5>1. cell'[k] = cell[k] /\ column'[k] = column[k] /\ pc' = pc
          BY <2>3, <2>5, <4>2
        <5>2. IF k \in public_input_indices_ THEN column[k] = <<0, 0>>
              ELSE cell[k] # Empty /\ (k \in Steps => pc[k] # "locked") => column[k] = cell[k]
          BY DEF IInv, Columns
        <5>3. QED
          BY <3>1, <5>1, <5>2
      <4>3. QED
        BY <4>1, <4>2
    <3>4. QED
      BY <3>2, <3>3 DEF Columns
  <2>17. RcCells'
    BY <1>3, <1>4, <2>3, <2>10, KeepRc DEF IInv
  <2>18. InputsRead'
    BY <1>4, <2>3 DEF IInv, InputsRead, PartsDone
  <2>19. /\ stage' \in FromBuiltinFinalize /\ stage' \notin FromSort
         /\ stage' # "rc fill" /\ stage' \notin FromRcSort
    BY <1>3, <1>4, <2>3, StageOrder
  <2>20. RcFilling' /\ MemFull'
    BY <2>19 DEF RcFilling, MemFull
  <2>21. RcFull'
    BY <1>4, <2>3, KeepRcFull DEF IInv
  <2>22. MemFilling'
    <3>1. \A a \in lo .. (last_hole' - 1) : a \in Addresses'
      <4>1. \A a : (\E m \in MemIndices : cell'[m] # Empty /\ cell'[m][1] = a) => a \in Addresses'
        BY <2>5 DEF Addresses, Contents
      <4>2. \A a \in Addresses : a \in Addresses'
        <5> SUFFICES ASSUME NEW a \in Addresses PROVE a \in Addresses'
          OBVIOUS
        <5>1. PICK m \in MemIndices : cell[m] # Empty /\ cell[m][1] = a
          BY <1>5
        <5>2. cell'[m] = cell[m]
          BY <2>9, <5>1
        <5>3. QED
          BY <4>1, <5>1, <5>2
      <4>3. n \in Addresses'
        BY <1>1, <2>5, <4>1
      <4> SUFFICES ASSUME NEW a \in lo .. (last_hole' - 1) PROVE a \in Addresses'
        OBVIOUS
      <4>4. a \in lo .. (h - 1) \/ a \in h .. (n - 1) \/ a = n
        <5> HIDE DEF lo, hi, h
        <5>3. last_hole' \in Nat /\ last_hole' - 1 <= n
          BY <1>8, <2>2, <2>6
        <5>4. lo \in Nat
          BY <1>7
        <5>5. \A x, y, z \in Int : \A b \in x .. y : y <= z => b \in Int /\ x <= b /\ b <= z
          OBVIOUS
        <5>6. lo \in Int /\ last_hole' - 1 \in Int /\ n \in Int
          BY <5>3, <5>4
        <5>8. a \in lo .. (last_hole' - 1)
          OBVIOUS
        <5>7. a \in Int /\ lo <= a /\ a <= n
          BY <5>3, <5>5, <5>6, <5>8
        <5>1. a \in Nat /\ lo <= a /\ a <= n
          BY <5>4, <5>7
        <5>2. QED
          BY <1>8, <5>1
      <4>5. QED
        BY <1>5, <1>6, <2>2, <4>2, <4>3, <4>4
    <3>2. ASSUME NEW a \in HolesFrom(last_hole)', NEW j \in MemFree, j < next'
          PROVE  cell'[j][1] < last_hole' /\ \A i \in MemFree : i < j => cell'[i][1] < cell'[j][1]
      <4>1. a \in last_hole' .. hi /\ a \notin used
        BY <2>3 DEF HolesFrom
      <4>2. n < hi /\ last_hole' = n + 1
        <5> HIDE DEF lo, hi, h
        <5>1. QED
          BY <1>8, <2>6, <4>1
      <4>3. a \in HolesFrom(h)
        <5>1. a \in h .. hi
          <6> HIDE DEF lo, hi, h
          <6>1. QED
            BY <1>8, <2>2, <4>1, <4>2
        <5>2. QED
          BY <4>1, <5>1 DEF HolesFrom
      <4>4. \A i \in MemFree : i < next => cell'[i] = cell[i] /\ cell[i][1] < h /\ cell[i][1] \in Int
        <5> SUFFICES ASSUME NEW i \in MemFree, i < next
                     PROVE  cell'[i] = cell[i] /\ cell[i][1] < h /\ cell[i][1] \in Int
          OBVIOUS
        <5>1. cell[i] # Empty /\ i \in MemIndices
          BY <1>5, <1>7
        <5>2. cell'[i] = cell[i]
          BY <2>9, <5>1
        <5>3. cell[i][1] \in Int
          BY <1>5, <5>1
        <5>4. cell[i][1] < h
          BY <1>6, <4>3
        <5>5. QED
          BY <5>2, <5>3, <5>4
      <4>5. CASE j = next
        <5>1. cell'[j][1] = n
          BY <2>5, <4>5
        <5>2. \A i \in MemFree : i < j => cell'[i][1] < n
          <6> SUFFICES ASSUME NEW i \in MemFree, i < j PROVE cell'[i][1] < n
            OBVIOUS
          <6>1. cell'[i] = cell[i] /\ cell[i][1] < h /\ cell[i][1] \in Int
            BY <4>4, <4>5
          <6> HIDE DEF lo, hi, h
          <6>2. cell[i][1] < n
            BY <1>8, <2>2, <6>1
          <6>3. QED
            BY <6>1, <6>2
        <5>3. n < last_hole'
          BY <4>2
        <5>4. QED
          BY <5>1, <5>2, <5>3
      <4>6. CASE j # next
        <5>1. j < next
          BY <2>3, <2>12, <3>2, <4>6
        <5>2. cell[j][1] < h /\ \A i \in MemFree : i < j => cell[i][1] < cell[j][1]
          BY <1>6, <4>3, <5>1
        <5>3. \A i \in MemFree : i < j => i < next
          BY <1>5, <1>7, <5>1
        <5>4. cell'[j] = cell[j] /\ cell[j][1] \in Int
          BY <4>4, <5>1
        <5>5. cell'[j][1] < last_hole'
          <6> HIDE DEF lo, hi, h
          <6>1. cell[j][1] < last_hole'
            BY <1>8, <2>2, <4>2, <5>2, <5>4
          <6>2. QED
            BY <5>4, <6>1
        <5>6. \A i \in MemFree : i < j => cell'[i][1] < cell'[j][1]
          <6> SUFFICES ASSUME NEW i \in MemFree, i < j PROVE cell'[i][1] < cell'[j][1]
            OBVIOUS
          <6>1. cell'[i] = cell[i]
            BY <4>4, <5>3
          <6>2. cell[i][1] < cell[j][1]
            BY <5>2
          <6>3. QED
            BY <5>4, <6>1, <6>2
        <5>7. QED
          BY <5>5, <5>6
      <4>7. QED
        BY <4>5, <4>6
    <3>3. address_max_' = hi + 1 => last_hole' = hi + 1
      BY <2>6, <2>8
    <3>4. /\ used' = AllAddresses' /\ address_min_' = lo /\ orig_address_max' = hi
          /\ lo \in AllAddresses' /\ hi \in AllAddresses' /\ AllAddresses' \subseteq lo .. hi
      BY <1>6, <2>3, <2>7, <2>11
    <3>5. last_hole' \in lo .. (hi + 1) /\ address_max_' \in {hi, hi + 1}
      BY <2>6, <2>8
    <3> HIDE DEF lo, hi, h
    <3>6. QED
      BY <3>1, <3>2, <3>3, <3>4, <3>5 DEF MemFilling
  <2>23. Sorting'
    BY <1>3, <2>3, <2>19, KeepUnsorted DEF IInv
  <2>24. Stopping'
    BY <1>1, <2>3 DEF Stopping
  <2>25. QED
    BY <2>5, <2>13, <2>14, <2>15, <2>16, <2>17, <2>18, <2>20, <2>21, <2>22, <2>23, <2>24 DEF IInv
<1>12. QED
  BY <1>9, <1>10, <1>11

LEMMA EndMemFinalizeStep ==
  ASSUME IInv, EndMemFinalize
  PROVE  IInv'
<1>1. aborted = "no" /\ stage = "mem fill" /\ next \notin MemIndices
  BY DEF EndMemFinalize, Running
<1>2. IF orig_address_max = MaxWord THEN Abort("at() out of range")
      ELSE IF HolesFrom(last_hole) # {} THEN Abort("memory holes remain")
      ELSE GoTo("sort") /\ UNCHANGED <<rest, memory, rc, scan>>
  BY DEF EndMemFinalize
<1>3. /\ stage \in FromMemFinalize /\ stage \in FromMemFill /\ stage \notin FromSort
      /\ \A k : PublicDone(k) /\ RcFilled(k)
      /\ \A k : InstanceDone(k) /\ (MemFilled(k) <=> k < next)
  BY <1>1, MemFillFacts
<1>4. /\ in \in Inputs /\ stage \in FromPublic /\ stage \in FromBuiltin /\ stage \in FromRcFinalize
      /\ stage \in FromBuiltinFinalize /\ stage # "rc fill" /\ PartsDone
  BY <1>3, MemPoolFacts
<1>5. /\ \A m \in MemIndices : m \notin MemFree => cell[m] # Empty /\ cell[m][1] \in AllAddresses
      /\ \A m \in MemIndices : cell[m] # Empty =>
           cell[m][1] \in 0..MaxWord /\ address_min_ <= cell[m][1] /\ cell[m][1] <= address_max_
      /\ \E m \in MemIndices : cell[m] # Empty /\ cell[m][1] = address_max_
      /\ \A a : a \in Addresses <=> \E m \in MemIndices : cell[m] # Empty /\ cell[m][1] = a
      /\ AllAddresses \subseteq 0..MaxWord /\ AllAddresses \subseteq Addresses
      /\ MemFree \subseteq MemIndices
      /\ address_max_ \in 0..MaxWord
  BY <1>3, MemPoolFacts
<1> DEFINE lo == address_min_
           hi == orig_address_max
           h == last_hole
<1>6. /\ used = AllAddresses
      /\ lo \in AllAddresses /\ hi \in AllAddresses
      /\ AllAddresses \subseteq lo .. hi
      /\ address_max_ \in {hi, hi + 1}
      /\ h \in lo .. (hi + 1)
      /\ \A a \in lo .. (h - 1) : a \in Addresses
      /\ \A a \in HolesFrom(h) : \A j \in MemFree : j < next =>
           cell[j][1] < h /\ \A i \in MemFree : i < j => cell[i][1] < cell[j][1]
  BY <1>1, MemFillFacts
<1>7. /\ \A j \in MemFree : j < next =>
           cell[j] # Empty /\ cell[j][1] \notin AllAddresses /\ cell[j][2] = 0
      /\ \A j \in MemIndices : j \in Nat /\ j >= 1
      /\ next \in Nat /\ next >= 1
      /\ lo \in Nat /\ hi \in 0..MaxWord /\ MaxWord \in Nat
  BY <1>1, MemFillFacts
<1>8. h \in Nat /\ lo <= h /\ h <= hi + 1 /\ hi \in Nat
  <2> HIDE DEF lo, hi, h
  <2>1. QED
    BY <1>6, <1>7
<1>9. \A j \in MemFree : j < next
  <2> SUFFICES ASSUME NEW j \in MemFree, ~(j < next) PROVE FALSE
    OBVIOUS
  <2>1. PICK b \in Nat : MemIndices = 1 .. b
    <3>1. n_steps + PublicSize + n_instances + MemVacant \in Nat
      BY Constants
    <3>2. QED
      BY <3>1 DEF MemIndices
  <2>2. j \in 1 .. b
    BY <1>5, <2>1
  <2>3. next \in 1 .. b
    BY <1>7, <2>2
  <2>4. QED
    BY <1>1, <2>1, <2>3
<1> DEFINE f == [j \in MemFree |-> cell[j][1]]
<1>10. /\ hi = MaxWord => ~MemFits
       /\ hi # MaxWord /\ Covers(f, (lo .. hi) \ AllAddresses) => MemFits
       /\ Misses(f, (lo .. hi) \ AllAddresses) => ~MemFits
  <2> HIDE DEF f, lo, hi
  <2>1. QED
    BY <1>4, <1>5, <1>6, MemRoom
<1>11. CASE hi = MaxWord
  <2>1. Abort("at() out of range")
    BY <1>2, <1>11
  <2>2. QED
    BY <1>10, <1>11, <2>1, AbortKeeps DEF Unfit
<1>12. CASE hi # MaxWord /\ HolesFrom(h) # {}
  <2>1. Abort("memory holes remain")
    BY <1>2, <1>12
  <2>2. PICK w \in HolesFrom(h) : TRUE
    BY <1>12
  <2>3. w \in h .. hi /\ w \notin AllAddresses
    BY <1>6, <2>2 DEF HolesFrom
  <2>4. \A k \in MemFree : f[k] = cell[k][1] /\ f[k] \in Nat /\ lo <= f[k] /\ f[k] < h /\ f[k] \notin AllAddresses
    <3> SUFFICES ASSUME NEW k \in MemFree
                 PROVE  f[k] = cell[k][1] /\ f[k] \in Nat /\ lo <= f[k] /\ f[k] < h /\ f[k] \notin AllAddresses
      OBVIOUS
    <3>1. f[k] = cell[k][1]
      OBVIOUS
    <3>2. k \in MemIndices /\ cell[k] # Empty /\ cell[k][1] \notin AllAddresses
      BY <1>5, <1>7, <1>9
    <3>3. cell[k][1] \in 0..MaxWord /\ lo <= cell[k][1]
      BY <1>5, <3>2
    <3>4. cell[k][1] < h
      BY <1>6, <1>9, <2>2
    <3> HIDE DEF f
    <3>5. QED
      BY <1>7, <3>1, <3>2, <3>3, <3>4
  <2>5. \A k \in MemFree : f[k] \in (lo .. hi) \ AllAddresses /\ f[k] # w
    <3> SUFFICES ASSUME NEW k \in MemFree PROVE f[k] \in (lo .. hi) \ AllAddresses /\ f[k] # w
      OBVIOUS
    <3>1. f[k] \in Nat /\ lo <= f[k] /\ f[k] < h /\ f[k] \notin AllAddresses
      BY <2>4
    <3> HIDE DEF f, lo, hi, h
    <3>2. QED
      BY <1>7, <1>8, <2>3, <3>1
  <2>6. \A j, k \in MemFree : f[j] = f[k] => j = k
    <3> SUFFICES ASSUME NEW j \in MemFree, NEW k \in MemFree, f[j] = f[k], j # k PROVE FALSE
      OBVIOUS
    <3>1. /\ j < k => cell[j][1] < cell[k][1]
          /\ k < j => cell[k][1] < cell[j][1]
      BY <1>6, <1>9, <2>2
    <3>2. j \in Nat /\ k \in Nat
      BY <1>5, <1>7
    <3>3. f[j] = cell[j][1] /\ f[k] = cell[k][1] /\ f[j] \in Nat /\ f[k] \in Nat
      BY <2>4
    <3> HIDE DEF f
    <3>4. cell[j][1] = cell[k][1] /\ cell[j][1] \in Nat
      BY <3>3, Zenon
    <3>5. j < k \/ k < j
      BY <3>2
    <3>6. QED
      BY <3>1, <3>4, <3>5
  <2>7. w \in (lo .. hi) \ AllAddresses
    <3> HIDE DEF lo, hi, h
    <3>1. QED
      BY <1>7, <1>8, <2>3
  <2>8. ~MemFits
    <3> HIDE DEF f, lo, hi
    <3>1. Misses(f, (lo .. hi) \ AllAddresses)
      BY <2>5, <2>6, <2>7 DEF Misses
    <3>2. QED
      BY <1>10, <3>1
  <2>9. QED
    BY <2>1, <2>8, AbortKeeps DEF Unfit
<1>13. CASE hi # MaxWord /\ HolesFrom(h) = {}
  <2>1. stage' = "sort" /\ next' = 1
    BY <1>2, <1>13 DEF GoTo
  <2>2. UNCHANGED <<rest, memory, rc, scan>>
    BY <1>2, <1>13
  <2>3. \A a \in h .. hi : a \in AllAddresses
    BY <1>6, <1>13 DEF HolesFrom
  <2>4. \A a \in lo .. hi : a \in Addresses
    <3> SUFFICES ASSUME NEW a \in lo .. hi PROVE a \in Addresses
      OBVIOUS
    <3>1. a \in lo .. (h - 1) \/ a \in h .. hi
      <4> HIDE DEF lo, hi, h
      <4>1. QED
        BY <1>7, <1>8
    <3>2. QED
      BY <1>5, <1>6, <2>3, <3>1
  <2>5. Covers(f, (lo .. hi) \ AllAddresses)
    <3> SUFFICES ASSUME NEW v \in (lo .. hi) \ AllAddresses PROVE \E k \in MemFree : f[k] = v
      BY DEF Covers
    <3>1. PICK m \in MemIndices : cell[m] # Empty /\ cell[m][1] = v
      BY <1>5, <2>4
    <3>2. m \in MemFree
      BY <1>5, <3>1
    <3>3. QED
      BY <3>1, <3>2
  <2>6. MemFits
    <3> HIDE DEF f
    <3>1. QED
      BY <1>10, <1>13, <2>5
  <2>7. Addresses = address_min_ .. address_max_
    <3>1. \A a \in lo .. address_max_ : a \in Addresses
      <4> SUFFICES ASSUME NEW a \in lo .. address_max_ PROVE a \in Addresses
        OBVIOUS
      <4>1. CASE a = address_max_
        BY <1>5, <4>1
      <4>2. CASE a # address_max_
        <5>1. a \in lo .. hi
          <6> HIDE DEF lo, hi
          <6>1. QED
            BY <1>6, <1>7, <1>8, <4>2
        <5>2. QED
          BY <2>4, <5>1
      <4>3. QED
        BY <4>1, <4>2
    <3>2. ASSUME NEW a \in Addresses PROVE a \in lo .. address_max_
      <4>1. PICK m \in MemIndices : cell[m] # Empty /\ cell[m][1] = a
        BY <1>5
      <4>2. cell[m][1] \in 0..MaxWord /\ lo <= cell[m][1] /\ cell[m][1] <= address_max_
        BY <1>5, <4>1
      <4>3. a \in 0..MaxWord /\ lo <= a /\ a <= address_max_ /\ address_max_ \in 0..MaxWord
        BY <1>5, <4>1, <4>2
      <4> HIDE DEF lo
      <4>4. QED
        BY <1>7, <4>3
    <3>3. QED
      BY <3>1, <3>2
  <2>8. /\ stage' \in FromPublic /\ stage' \in FromBuiltinFinalize /\ stage' \in FromSort
        /\ stage' \notin FromRcSort /\ PartsDone' /\ stage' # "rc fill" /\ stage' # "mem fill"
    BY <2>1, StageOrder, StageNames DEF PartsDone
  <2>9. next' = 1
    BY <2>1, Zenon
  <2>10. /\ \A k : PublicDone(k)' /\ RcFilled(k)'
         /\ \A k : InstanceDone(k)' /\ MemFilled(k)'
    BY <2>8, AtStage DEF PublicDone, RcFilled, InstanceDone, MemFilled
  <2>11. /\ Types' /\ Locking' /\ MemCells' /\ Columns' /\ RangeOfCells' /\ RcCells'
         /\ InputsRead' /\ Stopping'
         /\ cell' = cell /\ in' = in /\ rc' = rc /\ sorted' = sorted
         /\ address_min_' = address_min_ /\ address_max_' = address_max_
    <3>1. used' = used /\ last_hole' = last_hole /\ orig_address_max' = orig_address_max
      BY <2>2 DEF scan
    <3>2. next' \in Nat \ {0}
      BY <2>9
    <3>3. used' \subseteq 0..MaxWord /\ last_hole' \in 0..MaxWord /\ orig_address_max' \in 0..MaxWord
      BY <3>1 DEF IInv, Types
    <3>4. UNCHANGED <<rest, memory, rc>>
      BY <2>2
    <3>5. QED
      BY <1>1, <1>3, <1>4, <1>9, <2>8, <2>10, <3>2, <3>3, <3>4, MoveOn
  <2>12. RcFilling' /\ MemFilling'
    BY <2>8 DEF RcFilling, MemFilling
  <2>13. RcFull'
    BY <1>4, <2>11, KeepRcFull DEF IInv
  <2>14. MemFull'
    <3>1. MemFits'
      BY <2>6, <2>11, SameStatement
    <3>2. Addresses' = Addresses
      BY <2>11 DEF Addresses, Contents
    <3>3. QED
      BY <2>7, <2>11, <3>1, <3>2 DEF MemFull
  <2>15. Sorting'
    BY <1>3, <2>8, <2>11, KeepUnsorted DEF IInv
  <2>16. QED
    BY <2>11, <2>12, <2>13, <2>14, <2>15 DEF IInv
<1>14. QED
  BY <1>11, <1>12, <1>13

-----------------------------------------------------------------------------
\* The memory pool when it is full.

LEMMA SortFacts ==
  ASSUME IInv, stage \in FromSort
  PROVE  /\ \A m \in MemIndices : cell[m] # Empty /\ cell[m] \in (0..MaxWord) \X Nat
         /\ \A m \in MemIndices : address_min_ <= cell[m][1] /\ cell[m][1] <= address_max_
         /\ \A m \in MemFree : cell[m][1] \notin AllAddresses /\ cell[m][2] = 0
         /\ \A a \in address_min_ .. address_max_ : \E m \in MemIndices : cell[m][1] = a
         /\ MemFits /\ address_min_ \in 0..MaxWord /\ address_max_ \in 0..MaxWord
         /\ stage \in FromMemFinalize /\ stage \in FromBuiltinFinalize /\ stage \in FromBuiltin
         /\ in \in Inputs
<1>1. stage \in FromMemFinalize /\ stage \in FromBuiltinFinalize /\ stage \in FromBuiltin
  BY StageOrder
<1>2. \A m \in MemFree : cell[m] # Empty /\ cell[m][1] \notin AllAddresses /\ cell[m][2] = 0
  <2>1. \A k : MemFilled(k)
    BY AtStage DEF MemFilled
  <2>2. QED
    BY <2>1 DEF IInv, MemCells
<1>3. \A m \in MemIndices : cell[m] # Empty
  BY <1>1, <1>2, MemPoolFacts
<1>4. MemFits /\ Addresses = address_min_ .. address_max_
  BY DEF IInv, MemFull
<1>5. \A a \in address_min_ .. address_max_ : \E m \in MemIndices : cell[m][1] = a
  BY <1>1, <1>4, MemPoolFacts
<1>6. /\ \A m \in MemIndices : cell[m] \in (0..MaxWord) \X Nat
      /\ \A m \in MemIndices : address_min_ <= cell[m][1] /\ cell[m][1] <= address_max_
      /\ address_min_ \in 0..MaxWord /\ address_max_ \in 0..MaxWord /\ in \in Inputs
  BY <1>1, <1>3, MemPoolFacts
<1>7. QED
  BY <1>1, <1>2, <1>3, <1>4, <1>5, <1>6

\* Different numbers that are the same word are far apart.
LEMMA SameWord ==
  ASSUME NEW x \in Nat, NEW y \in Nat, x < y, Word(x) = Word(y)
  PROVE  MaxWord < y - x
<1> DEFINE p == MaxWord + 1
           q == x \div p
           r == y \div p
           w == Word(x)
<1>1. p \in Nat /\ p >= 1 /\ MaxWord \in Nat
  BY Constants
<1>2. q \in Nat /\ x = q * p + w /\ w \in Nat
  <2>1. x % p \in 0 .. p - 1 /\ x = q * p + (x % p) /\ q \in Nat
    BY <1>1, QuotientBounds
  <2>2. QED
    BY <1>1, <2>1 DEF Word
<1>3. r \in Nat /\ y = r * p + w
  <2>1. y % p \in 0 .. p - 1 /\ y = r * p + (y % p) /\ r \in Nat
    BY <1>1, QuotientBounds
  <2>2. QED
    BY <1>1, <2>1 DEF Word
<1> HIDE DEF q, r, w
<1>4. /\ q * p \in Nat /\ r * p \in Nat
      /\ q < r => q * p + p <= r * p
      /\ r < q => r * p + p <= q * p
  BY <1>1, <1>2, <1>3, ProductFacts
<1>5. q # r
  BY <1>2, <1>3
<1>6. q * p + p <= r * p
  BY <1>1, <1>2, <1>3, <1>4, <1>5
<1>7. QED
  BY <1>1, <1>2, <1>3, <1>4, <1>6

\* Two instances that share an address are so many that one has the last address.
LEMMA InstancesShareNoAddress ==
  ASSUME in \in Inputs, MemFits, NEW i \in Instances, NEW j \in Instances,
         InstanceAddress(i) = InstanceAddress(j)
  PROVE  i = j
<1>1. /\ MaxWord \in Nat /\ begin_addr \in Nat /\ begin_addr <= MaxWord /\ n_instances \in Nat
      /\ i \in Nat /\ j \in Nat /\ i < n_instances /\ j < n_instances
  BY Constants DEF Instances
<1>2. SUFFICES ASSUME i # j PROVE FALSE
  OBVIOUS
<1>3. MaxWord < n_instances
  <2>1. CASE i < j
    <3>1. begin_addr + i < begin_addr + j /\ begin_addr + i \in Nat /\ begin_addr + j \in Nat
      BY <1>1, <2>1
    <3>2. MaxWord < (begin_addr + j) - (begin_addr + i)
      BY <3>1, SameWord DEF InstanceAddress
    <3>3. QED
      BY <1>1, <3>2
  <2>2. CASE j < i
    <3>1. begin_addr + j < begin_addr + i /\ begin_addr + i \in Nat /\ begin_addr + j \in Nat
      BY <1>1, <2>2
    <3>2. MaxWord < (begin_addr + i) - (begin_addr + j)
      BY <3>1, SameWord DEF InstanceAddress
    <3>3. QED
      BY <1>1, <3>2
  <2>3. QED
    BY <1>1, <1>2, <2>1, <2>2
<1> DEFINE k == MaxWord - begin_addr
<1>4. k \in Instances /\ begin_addr + k = MaxWord
  BY <1>1, <1>3 DEF Instances
<1>5. InstanceAddress(k) = MaxWord
  BY <1>1, <1>4, WordFacts DEF InstanceAddress
<1> HIDE DEF k
<1>6. MaxWord \in AllAddresses
  <2>1. CASE k \in DOMAIN in.private
    <3>1. <<InstanceAddress(k), in.private[k]>> \in GivenPairs
      BY <2>1, GivenIs
    <3>2. <<InstanceAddress(k), in.private[k]>>[1] \in GivenAddresses
      BY <3>1, GivenIs
    <3>3. QED
      BY <1>5, <3>2 DEF AllAddresses
  <2>2. CASE k \notin DOMAIN in.private
    <3>1. k \in Filled
      BY <1>4, <2>2 DEF Filled
    <3>2. QED
      BY <1>5, <3>1, GivenIs DEF AllAddresses
  <2>3. QED
    BY <2>1, <2>2
<1>7. QED
  BY <1>6 DEF MemFits, AllAddresses

\* Two cells of an address agree if the statement fits.
LEMMA ClashIsUnfit ==
  ASSUME IInv, stage \in FromSort, NEW l \in MemIndices, NEW i \in MemIndices,
         cell[l][1] = cell[i][1], cell[l] # cell[i]
  PROVE  Unfit
<1>1. /\ \A m \in MemIndices : cell[m] # Empty /\ cell[m] \in (0..MaxWord) \X Nat
      /\ \A m \in MemFree : cell[m][1] \notin AllAddresses /\ cell[m][2] = 0
      /\ MemFits /\ stage \in FromMemFinalize /\ in \in Inputs
  BY SortFacts
<1>2. cell[l][2] # cell[i][2]
  <2>1. \A p, q \in (0..MaxWord) \X Nat : p[1] = q[1] /\ p[2] = q[2] => p = q
    OBVIOUS
  <2>2. QED
    BY <1>1, <2>1
<1>3. \A m \in MemIndices : m \notin MemFree =>
        /\ cell[m][1] \in AllAddresses
        /\ \/ cell[m] \in GivenPairs
           \/ \E k \in Filled : m = InstanceIndex(k) /\ cell[m][1] = InstanceAddress(k)
  BY <1>1, MemPoolFacts
<1>4. l \notin MemFree /\ i \notin MemFree
  BY <1>1, <1>2, <1>3
<1>5. CASE cell[l] \in GivenPairs /\ cell[i] \in GivenPairs
  BY <1>5 DEF Unfit, IsMemory
<1>6. ASSUME NEW m \in MemIndices, NEW n \in MemIndices, cell[m] \in GivenPairs,
             NEW k \in Filled, cell[n][1] = InstanceAddress(k), cell[m][1] = cell[n][1]
      PROVE  Unfit
  <2>1. cell[m][1] \in GivenAddresses /\ cell[n][1] \in FilledAddresses
    BY <1>1, <1>6, GivenIs
  <2>2. QED
    BY <1>6, <2>1 DEF Unfit
<1>7. ASSUME NEW j \in Filled, l = InstanceIndex(j), cell[l][1] = InstanceAddress(j),
             NEW k \in Filled, i = InstanceIndex(k), cell[i][1] = InstanceAddress(k)
      PROVE  FALSE
  <2>1. j \in Instances /\ k \in Instances
    BY DEF Filled
  <2>2. InstanceAddress(j) = InstanceAddress(k)
    BY <1>7
  <2>3. j = k
    BY <1>1, <2>1, <2>2, InstancesShareNoAddress
  <2>4. QED
    BY <1>7, <2>3
<1>8. QED
  BY <1>3, <1>4, <1>5, <1>6, <1>7

-----------------------------------------------------------------------------
\* The steps after the pools are full.

LEMMA LateStep ==
  ASSUME IInv, stage \in FromSort, stage' \in FromRcSort, aborted = "no", next' = 1,
         UNCHANGED <<rest, memory, rc, scan>>, Left = {}
  PROVE  IInv'
<1>1. /\ stage' \in FromSort /\ stage' \in FromPublic /\ stage \in FromBuiltin
      /\ stage \in FromBuiltinFinalize /\ stage' # "rc fill" /\ stage' # "mem fill"
      /\ PartsDone' /\ PartsDone
  <2>1. stage' \in FromSort /\ stage' \in FromPublic
    BY StageOrder
  <2>2. stage \in FromBuiltin /\ stage \in FromBuiltinFinalize
    BY StageOrder
  <2>3. stage' # "rc fill" /\ stage' # "mem fill"
    BY <2>1, StageOrder, StageNames
  <2>4. PartsDone' /\ PartsDone
    BY <2>1, StageOrder DEF PartsDone
  <2>5. QED
    BY <2>1, <2>2, <2>3, <2>4
<1>2. /\ \A k : PublicDone(k)' /\ RcFilled(k)' /\ PublicDone(k) /\ RcFilled(k)
      /\ \A k : InstanceDone(k)' /\ MemFilled(k)' /\ InstanceDone(k) /\ MemFilled(k)
  <2>1. \A k : PublicDone(k) /\ RcFilled(k) /\ InstanceDone(k) /\ MemFilled(k)
    BY AtStage DEF PublicDone, RcFilled, InstanceDone, MemFilled
  <2>2. \A k : PublicDone(k)' /\ RcFilled(k)' /\ InstanceDone(k)' /\ MemFilled(k)'
    BY <1>1, AtStage DEF PublicDone, RcFilled, InstanceDone, MemFilled
  <2>3. QED
    BY <2>1, <2>2
<1>3. /\ Types' /\ Locking' /\ MemCells' /\ Columns' /\ RangeOfCells' /\ RcCells'
      /\ InputsRead' /\ Stopping'
      /\ cell' = cell /\ in' = in /\ rc' = rc /\ sorted' = sorted
      /\ address_min_' = address_min_ /\ address_max_' = address_max_
  <2>1. used' = used /\ last_hole' = last_hole /\ orig_address_max' = orig_address_max
    BY DEF scan
  <2>2. next' \in Nat \ {0}
    OBVIOUS
  <2>3. used' \subseteq 0..MaxWord /\ last_hole' \in 0..MaxWord /\ orig_address_max' \in 0..MaxWord
    BY <2>1 DEF IInv, Types
  <2>4. UNCHANGED <<rest, memory, rc>>
    OBVIOUS
  <2>5. QED
    BY <1>1, <1>2, <2>2, <2>3, <2>4, MoveOn
<1>4. RcFilling' /\ MemFilling'
  BY <1>1 DEF RcFilling, MemFilling
<1>5. RcFull'
  BY <1>1, <1>3, KeepRcFull DEF IInv
<1>6. MemFull'
  BY <1>3, KeepMemFull DEF IInv
<1>7. Sorting'
  <2>1. Left' = Left
    BY <1>3 DEF Left
  <2>2. \A k, l \in DOMAIN sorted : k < l =>
          /\ sorted[k] # sorted[l]
          /\ cell[sorted[k]][1] <= cell[sorted[l]][1]
          /\ cell[sorted[k]][1] = cell[sorted[l]][1] => cell[sorted[k]] = cell[sorted[l]]
    BY DEF IInv, Sorting
  <2>3. stage' \in FromSort /\ Left' = {} /\ cell' = cell /\ sorted' = sorted
    BY <1>1, <1>3, <2>1
  <2>4. QED
    BY <2>2, <2>3 DEF Sorting
<1>8. QED
  BY <1>3, <1>4, <1>5, <1>6, <1>7 DEF IInv

LEMMA SortMemStep ==
  ASSUME IInv, SortMem
  PROVE  IInv'
<1>1. aborted = "no" /\ stage = "sort"
  BY DEF SortMem, Running
<1>2. stage \in FromSort /\ stage \notin FromRcSort
  BY <1>1, StageNames
<1>3. IF Left = {} THEN GoTo("rc sort") /\ UNCHANGED <<rest, memory, rc, scan>>
      ELSE \E i \in Left :
        /\ Lowest(i)
        /\ IF sorted # <<>> /\ ~ValidConsecutive(sorted[Len(sorted)], i)
           THEN Abort("problem with memory")
           ELSE /\ sorted' = Append(sorted, i)
                /\ UNCHANGED <<in, pc, write_trace_lock_, read_range, memory, rc, control, aborted>>
  BY DEF SortMem
<1>4. CASE Left = {}
  <2>1. stage' = "rc sort" /\ next' = 1
    BY <1>3, <1>4 DEF GoTo
  <2>2. stage' \in FromRcSort
    BY <2>1, StageNames
  <2>3. UNCHANGED <<rest, memory, rc, scan>> /\ next' = 1
    BY <1>3, <1>4, <2>1
  <2>4. QED
    BY <1>1, <1>2, <1>4, <2>2, <2>3, LateStep
<1>5. CASE Left # {}
  <2>1. PICK i \in Left :
          /\ Lowest(i)
          /\ IF sorted # <<>> /\ ~ValidConsecutive(sorted[Len(sorted)], i)
             THEN Abort("problem with memory")
             ELSE /\ sorted' = Append(sorted, i)
                  /\ UNCHANGED <<in, pc, write_trace_lock_, read_range, memory, rc, control, aborted>>
    BY <1>3, <1>5
  <2> DEFINE n == Len(sorted)
  <2>2. /\ sorted \in Seq(MemIndices) /\ n \in Nat /\ DOMAIN sorted = 1 .. n
        /\ \A k \in 1 .. n : sorted[k] \in MemIndices
        /\ sorted # <<>> => n \in 1 .. n
        /\ sorted = <<>> => n = 0
    BY DEF IInv, Types
  <2> HIDE DEF n
  <2>3. /\ \A k, l \in 1 .. n : k < l =>
             /\ sorted[k] # sorted[l]
             /\ cell[sorted[k]][1] <= cell[sorted[l]][1]
             /\ cell[sorted[k]][1] = cell[sorted[l]][1] => cell[sorted[k]] = cell[sorted[l]]
        /\ \A k \in 1 .. n : \A j \in Left : cell[sorted[k]][1] <= cell[j][1]
    BY <2>2 DEF IInv, Sorting
  <2>4. /\ \A m : m \in Left <=> m \in MemIndices /\ \A k \in 1 .. n : sorted[k] # m
        /\ i \in MemIndices /\ \A j \in Left : cell[i][1] <= cell[j][1]
    BY <2>1, <2>2 DEF Left, Lowest
  <2>5. /\ \A m \in MemIndices : cell[m] \in (0..MaxWord) \X Nat
        /\ \A m \in MemIndices : address_min_ <= cell[m][1] /\ cell[m][1] <= address_max_
        /\ \A a \in address_min_ .. address_max_ : \E m \in MemIndices : cell[m][1] = a
        /\ address_min_ \in Nat /\ address_max_ \in Nat /\ address_max_ <= MaxWord
        /\ MaxWord \in Nat /\ MaxWord >= 2
    BY <1>2, SortFacts, Constants
  <2>6. \A m \in MemIndices : cell[m][1] \in Nat
    BY <2>5
  <2>7. CASE sorted # <<>> /\ ~ValidConsecutive(sorted[n], i)
    <3>1. Abort("problem with memory")
      BY <2>1, <2>7 DEF n
    <3> DEFINE l == sorted[n]
               x == cell[l][1]
               y == cell[i][1]
    <3>2. n \in 1 .. n /\ l \in MemIndices /\ x \in Nat /\ y \in Nat /\ x <= y
      BY <2>1, <2>2, <2>3, <2>4, <2>6, <2>7
    <3>3. cell[l] # cell[i] /\ y # Word(x + 1)
      BY <2>7 DEF ValidConsecutive
    <3> HIDE DEF l
    <3>4. address_min_ <= x /\ y <= address_max_
      BY <2>4, <2>5, <3>2
    <3>5. ASSUME x < y PROVE FALSE
      <4> HIDE DEF x, y
      <4>1. x + 1 \in address_min_ .. address_max_ /\ x + 1 \in 0..MaxWord
        BY <2>5, <3>2, <3>4, <3>5
      <4>2. x + 1 < y
        <5>1. Word(x + 1) = x + 1
          BY <4>1, WordFacts
        <5>2. QED
          BY <3>2, <3>3, <3>5, <5>1
      <4>3. PICK m \in MemIndices : cell[m][1] = x + 1
        BY <2>5, <4>1
      <4>4. m \notin Left
        <5>1. m \in Left => y <= x + 1
          BY <2>4, <4>3 DEF y
        <5>2. QED
          BY <3>2, <4>2, <5>1
      <4>5. PICK k \in 1 .. n : sorted[k] = m
        BY <2>4, <4>4
      <4>6. k = n \/ k < n
        BY <2>2
      <4>7. cell[m][1] <= x
        <5>1. CASE k = n
          <6>1. cell[m][1] = x
            BY <4>5, <5>1 DEF l, x
          <6>2. QED
            BY <3>2, <6>1
        <5>2. CASE k < n
          BY <2>3, <3>2, <4>5, <5>2 DEF l, x
        <5>3. QED
          BY <4>6, <5>1, <5>2
      <4>8. QED
        BY <3>2, <4>3, <4>7
    <3>6. x = y
      <4> HIDE DEF x, y
      <4>1. QED
        BY <3>2, <3>5
    <3>7. Unfit
      BY <1>2, <2>4, <3>2, <3>3, <3>6, ClashIsUnfit
    <3>8. QED
      BY <3>1, <3>7, AbortKeeps
  <2>8. CASE ~(sorted # <<>> /\ ~ValidConsecutive(sorted[n], i))
    <3>1. /\ sorted' = Append(sorted, i)
          /\ UNCHANGED <<in, pc, write_trace_lock_, read_range, memory, rc, control, aborted>>
      BY <2>1, <2>8 DEF n
    <3>2. cell' = cell /\ stage' = stage /\ aborted' = "no"
      BY <1>1, <3>1 DEF memory, control
    <3>3. /\ sorted' \in Seq(MemIndices) /\ DOMAIN sorted' = 1 .. n + 1
          /\ \A k \in 1 .. n : sorted'[k] = sorted[k]
          /\ sorted'[n + 1] = i
      BY <2>2, <2>4, <3>1 DEF n
    <3>4. \A k \in 1 .. n : cell[sorted[k]][1] = cell[i][1] => cell[sorted[k]] = cell[i]
      <4> SUFFICES ASSUME NEW k \in 1 .. n, cell[sorted[k]][1] = cell[i][1]
                   PROVE  cell[sorted[k]] = cell[i]
        OBVIOUS
      <4> DEFINE l == sorted[n]
                 y == cell[i][1]
      <4>1. sorted # <<>> /\ n \in 1 .. n /\ l \in MemIndices /\ i \in Left
        <5>1. n # 0
          BY <2>2
        <5>2. QED
          BY <2>1, <2>2, <5>1
      <4>2. y \in Nat /\ cell[l][1] \in Nat /\ cell[l][1] <= y
        BY <2>3, <2>4, <2>6, <4>1
      <4>3. k = n \/ k < n
        BY <2>2
      <4>4. cell[l][1] = y /\ cell[sorted[k]] = cell[l]
        <5>1. CASE k = n
          BY <5>1
        <5>2. CASE k < n
          <6>1. y <= cell[l][1]
            BY <2>3, <4>1, <5>2
          <6>2. cell[l][1] = y
            <7> HIDE DEF l, y
            <7>1. QED
              BY <4>2, <6>1
          <6>3. QED
            BY <2>3, <4>1, <5>2, <6>2
        <5>3. QED
          BY <4>3, <5>1, <5>2
      <4>5. y # Word(y + 1)
        <5>1. y \in 0..MaxWord
          BY <2>4, <2>5
        <5> HIDE DEF y
        <5>2. CASE y = MaxWord
          <6>1. Word(MaxWord + 1) = 0
            BY WordFacts
          <6>2. QED
            BY <2>5, <5>2, <6>1
        <5>3. CASE y # MaxWord
          <6>1. y + 1 \in 0..MaxWord
            BY <2>5, <5>1, <5>3
          <6>2. Word(y + 1) = y + 1
            BY <6>1, WordFacts
          <6>3. QED
            BY <4>2, <6>2
        <5>4. QED
          BY <5>2, <5>3
      <4>6. cell[l] = cell[i]
        BY <2>8, <4>1, <4>4, <4>5 DEF ValidConsecutive
      <4>7. QED
        BY <4>4, <4>6
    <3>5. \A k \in 1 .. n + 1 : k \in 1 .. n \/ k = n + 1
      BY <2>2
    <3>6. ASSUME NEW k \in 1 .. n + 1, NEW l \in 1 .. n + 1, k < l
          PROVE  /\ sorted'[k] # sorted'[l]
                 /\ cell[sorted'[k]][1] <= cell[sorted'[l]][1]
                 /\ cell[sorted'[k]][1] = cell[sorted'[l]][1] => cell[sorted'[k]] = cell[sorted'[l]]
      <4>1. k \in 1 .. n
        BY <2>2, <3>6
      <4>2. CASE l \in 1 .. n
        BY <2>3, <3>3, <3>6, <4>1, <4>2
      <4>3. CASE l = n + 1
        <5>1. sorted'[k] = sorted[k] /\ sorted'[l] = i
          BY <3>3, <4>1, <4>3
        <5>2. sorted[k] # i /\ cell[sorted[k]][1] <= cell[i][1]
          BY <2>1, <2>3, <2>4, <4>1
        <5>3. QED
          BY <3>4, <4>1, <5>1, <5>2
      <4>4. QED
        BY <3>5, <4>2, <4>3
    <3>7. \A j \in Left' : j \in Left
      <4>1. \A j \in Left' : j \in MemIndices /\ \A k \in 1 .. n + 1 : sorted'[k] # j
        BY <3>3 DEF Left
      <4>2. \A k \in 1 .. n : k \in 1 .. n + 1
        BY <2>2
      <4>3. QED
        BY <2>4, <3>3, <4>1, <4>2
    <3>8. ASSUME NEW k \in 1 .. n + 1, NEW j \in Left' PROVE cell[sorted'[k]][1] <= cell[j][1]
      <4>1. CASE k \in 1 .. n
        BY <2>3, <3>3, <3>7, <4>1
      <4>2. CASE k = n + 1
        BY <2>4, <3>3, <3>7, <4>2
      <4>3. QED
        BY <3>5, <4>1, <4>2
    <3>9. Sorting'
      BY <1>2, <3>2, <3>3, <3>6, <3>8 DEF Sorting
    <3>10. QED
      BY <3>1, <3>2, <3>3, <3>9, KeptButSorted
  <2>9. QED
    BY <2>7, <2>8
<1>6. QED
  BY <1>4, <1>5

LEMMA SortRcStep ==
  ASSUME IInv, SortRc
  PROVE  IInv'
<1>1. aborted = "no" /\ stage = "rc sort"
  BY DEF SortRc, Running
<1>2. stage \in FromRcSort
  BY <1>1, StageNames
<1>3. stage \in FromSort /\ stage \in FromBuiltinFinalize
  BY <1>2, StageOrder
<1>4. Contents(rc) = in.rc_min .. in.rc_max /\ in \in Inputs
  BY <1>3 DEF IInv, RcFull, Types
<1>5. ~ \E v, w \in Contents(rc) : v < w /\ v + 1 \notin Contents(rc)
  <2>1. in.rc_min \in Nat /\ in.rc_max \in Nat
    BY <1>4, StatementFacts
  <2>2. QED
    BY <1>4, <2>1
<1>6. GoTo("interaction") /\ UNCHANGED <<rest, memory, rc, scan>>
  BY <1>5 DEF SortRc
<1>7. stage' = "interaction" /\ next' = 1
  BY <1>6 DEF GoTo
<1>8. stage' \in FromRcSort
  BY <1>7, StageNames
<1>9. Left = {}
  BY <1>2 DEF IInv, Sorting
<1>10. UNCHANGED <<rest, memory, rc, scan>> /\ next' = 1
  BY <1>6, <1>7
<1>11. QED
  BY <1>1, <1>3, <1>8, <1>9, <1>10, LateStep

-----------------------------------------------------------------------------
\* The sorted column is a permutation of the pool, and the columns written so far
\* are the pool but for the public memory.

\* Members of S and of T that f pairs off.
LEMMA PairedOff ==
  ASSUME NEW S, IsFiniteSet(S), NEW T, NEW f,
         \A k \in S : f[k] \in T, \A j, k \in S : f[j] = f[k] => j = k,
         \A t \in T : \E k \in S : f[k] = t
  PROVE  IsFiniteSet(T) /\ Cardinality(T) = Cardinality(S) /\ Cardinality(S) \in Nat
<1> DEFINE g == [k \in S |-> f[k]]
<1>1. g \in [S -> T] /\ \A k \in S : g[k] = f[k]
  OBVIOUS
<1> HIDE DEF g
<1>2. g \in Injection(S, T)
  BY <1>1 DEF Injection, IsInjective
<1>3. g \in Surjection(S, T)
  BY <1>1 DEF Surjection
<1>4. g \in Bijection(S, T)
  BY <1>2, <1>3 DEF Bijection
<1>5. ExistsBijection(S, T)
  BY <1>4 DEF ExistsBijection
<1>6. QED
  BY <1>5, FS_Bijection, FS_CardinalityType

\* The columns show every cell but those of the public memory, which are the
\* statement's.
LEMMA ColumnsFacts ==
  ASSUME IInv, stage \in FromSort
  PROVE  /\ public_input_indices_ = {PublicIndex(k) : k \in 1..PublicSize}
         /\ \A i \in MemIndices : column[i] = Unsorted(i)
         /\ \A k \in 1..PublicSize : cell[PublicIndex(k)] = PublicEntry(k)
<1>1. \A k : PublicDone(k)
  BY AtStage DEF PublicDone
<1>2. public_input_indices_ = {PublicIndex(k) : k \in 1..PublicSize}
  BY <1>1 DEF IInv, Columns
<1>3. \A k \in 1..PublicSize : cell[PublicIndex(k)] = PublicEntry(k)
  BY <1>1 DEF IInv, MemCells
<1>4. \A t \in Steps : pc[t] # "locked"
  BY StageOrder, OneThread
<1>5. \A i \in MemIndices : cell[i] # Empty
  BY SortFacts
<1>6. \A i \in MemIndices : column[i] = Unsorted(i)
  BY <1>4, <1>5 DEF IInv, Columns, Unsorted
<1>7. QED
  BY <1>2, <1>3, <1>6

LEMMA SortedIsPermutation ==
  ASSUME IInv, stage \in FromRcSort, NEW x
  PROVE  /\ IsFiniteSet({i \in MemIndices : cell[i] = x})
         /\ Cardinality({k \in DOMAIN sorted : cell[sorted[k]] = x})
              = Cardinality({i \in MemIndices : cell[i] = x})
<1> DEFINE n == Len(sorted)
           S == {k \in 1 .. n : cell[sorted[k]] = x}
           T == {i \in MemIndices : cell[i] = x}
<1>1. /\ n \in Nat /\ DOMAIN sorted = 1 .. n /\ \A k \in 1 .. n : sorted[k] \in MemIndices
  BY DEF IInv, Types
<1> HIDE DEF n
<1>2. \A k, l \in 1 .. n : k < l => sorted[k] # sorted[l]
  BY <1>1 DEF IInv, Sorting
<1>3. \A i \in MemIndices : \E k \in 1 .. n : sorted[k] = i
  BY <1>1 DEF IInv, Sorting, Left
<1>4. IsFiniteSet(S)
  <2>1. IsFiniteSet(1 .. n)
    BY <1>1, FS_Interval
  <2>2. S \in SUBSET (1 .. n)
    OBVIOUS
  <2>3. QED
    BY <2>1, <2>2, FS_Subset
<1>5. \A k \in S : sorted[k] \in T
  BY <1>1
<1>6. \A j, k \in S : sorted[j] = sorted[k] => j = k
  <2> SUFFICES ASSUME NEW j \in S, NEW k \in S, sorted[j] = sorted[k], j # k PROVE FALSE
    OBVIOUS
  <2>1. j < k \/ k < j
    BY <1>1
  <2>2. QED
    BY <1>2, <2>1
<1>7. \A i \in T : \E k \in S : sorted[k] = i
  BY <1>3
<1>8. S = {k \in DOMAIN sorted : cell[sorted[k]] = x}
  BY <1>1
<1> HIDE DEF S, T
<1>9. IsFiniteSet(T) /\ Cardinality(T) = Cardinality(S)
  BY <1>4, <1>5, <1>6, <1>7, PairedOff
<1>10. QED
  BY <1>8, <1>9 DEF T

\* Both sides of the last cumulative product have the same factors.
LEMMA SameFactors ==
  ASSUME IInv, stage \in FromRcSort, NEW x
  PROVE  Cardinality({i \in MemIndices : Unsorted(i) = x})
           + Cardinality({k \in 1..PublicSize : PublicEntry(k) = x})
         = Cardinality({k \in DOMAIN sorted : cell[sorted[k]] = x})
           + (IF x = <<0, 0>> THEN PublicSize ELSE 0)
<1> DEFINE P == 1..PublicSize
           U == public_input_indices_
           T == {i \in MemIndices : cell[i] = x}
           T0 == {i \in T : i \notin U}
           T1 == {i \in T : i \in U}
           K == {k \in P : PublicEntry(k) = x}
           A == {i \in MemIndices : Unsorted(i) = x}
           f == [k \in P |-> PublicIndex(k)]
<1>1. PublicSize \in Nat /\ IsFiniteSet(P) /\ Cardinality(P) = PublicSize
  <2>1. PublicSize \in Nat
    BY Constants
  <2>2. IsFiniteSet(1..PublicSize) /\ Cardinality(1..PublicSize) = IF 1 > PublicSize THEN 0 ELSE PublicSize - 1 + 1
    BY <2>1, FS_Interval
  <2>3. QED
    BY <2>1, <2>2
<1>2. /\ U = {PublicIndex(k) : k \in P}
      /\ \A k \in P : cell[PublicIndex(k)] = PublicEntry(k)
  BY StageOrder, ColumnsFacts
<1>3. /\ \A k \in P : f[k] = PublicIndex(k)
      /\ \A k \in P : f[k] \in MemIndices /\ f[k] \in U
      /\ \A j, k \in P : f[j] = f[k] => j = k
      /\ \A i \in U : \E k \in P : f[k] = i
  <2>1. \A k \in P : PublicIndex(k) \in MemIndices
    BY MemIndexFacts
  <2>2. \A j, k \in P : PublicIndex(j) = PublicIndex(k) => j = k
    BY MemIndexFacts
  <2>3. QED
    BY <1>2, <2>1, <2>2
<1> HIDE DEF P, f
<1>4. IsFiniteSet(U) /\ Cardinality(U) = PublicSize /\ U \subseteq MemIndices
  <2>1. IsFiniteSet(U) /\ Cardinality(U) = Cardinality(P)
    <3> HIDE DEF U
    <3>1. QED
      BY <1>1, <1>3, PairedOff
  <2>2. U \subseteq MemIndices
    BY <1>3
  <2>3. QED
    BY <1>1, <2>1, <2>2
<1>5. IsFiniteSet(T) /\ Cardinality({k \in DOMAIN sorted : cell[sorted[k]] = x}) = Cardinality(T)
  BY SortedIsPermutation
<1>6. IsFiniteSet(T1) /\ Cardinality(T1) = Cardinality(K)
  <2>1. IsFiniteSet(K)
    <3>1. K \in SUBSET P
      OBVIOUS
    <3>2. QED
      BY <1>1, <3>1, FS_Subset
  <2>2. \A k \in K : f[k] \in T1
    BY <1>2, <1>3
  <2>3. \A j, k \in K : f[j] = f[k] => j = k
    BY <1>3
  <2>4. \A i \in T1 : \E k \in K : f[k] = i
    BY <1>2, <1>3
  <2> HIDE DEF K, T1
  <2>5. QED
    BY <2>1, <2>2, <2>3, <2>4, PairedOff
<1>7. IsFiniteSet(T0) /\ Cardinality(T) = Cardinality(T0) + Cardinality(T1)
  <2>1. T0 = T \ T1 /\ T \cap T1 = T1
    OBVIOUS
  <2>2. IsFiniteSet(T \ T1) /\ Cardinality(T \ T1) = Cardinality(T) - Cardinality(T \cap T1)
    <3> HIDE DEF T, T1
    <3>1. QED
      BY <1>5, FS_Difference
  <2>3. Cardinality(T) \in Nat /\ Cardinality(T1) \in Nat
    BY <1>5, <1>6, FS_CardinalityType
  <2> HIDE DEF T, T0, T1
  <2>4. IsFiniteSet(T0) /\ Cardinality(T0) = Cardinality(T) - Cardinality(T1)
    BY <2>1, <2>2, Zenon
  <2>5. QED
    BY <2>3, <2>4
<1>8. Cardinality(A) = Cardinality(T0) + (IF x = <<0, 0>> THEN PublicSize ELSE 0)
  <2>1. CASE x = <<0, 0>>
    <3>1. A = T0 \cup U /\ T0 \cap U = {}
      BY <1>4, <2>1 DEF Unsorted
    <3>2. /\ Cardinality(T0 \cup U) = Cardinality(T0) + Cardinality(U) - Cardinality(T0 \cap U)
      <4> HIDE DEF T0, U
      <4>1. QED
        BY <1>4, <1>7, FS_Union
    <3>3. Cardinality({}) = 0 /\ Cardinality(T0) \in Nat
      BY <1>7, FS_EmptySet, FS_CardinalityType
    <3> HIDE DEF A, T0, U
    <3>4. Cardinality(A) = Cardinality(T0) + PublicSize - 0
      BY <1>4, <3>1, <3>2, <3>3, Zenon
    <3>5. QED
      BY <1>1, <2>1, <3>3, <3>4
  <2>2. CASE x # <<0, 0>>
    <3>1. A = T0
      BY <2>2 DEF Unsorted
    <3>2. Cardinality(T0) \in Nat
      BY <1>7, FS_CardinalityType
    <3> HIDE DEF A, T0
    <3>3. QED
      BY <2>2, <3>1, <3>2
  <2>3. QED
    BY <2>1, <2>2
<1>9. Cardinality(T0) \in Nat /\ Cardinality(T1) \in Nat
  BY <1>6, <1>7, FS_CardinalityType
<1>10. K = {k \in 1..PublicSize : PublicEntry(k) = x}
  BY DEF P
<1> HIDE DEF T, T0, T1, K, A
<1>11. Cardinality(A) + Cardinality(K)
         = Cardinality(T) + (IF x = <<0, 0>> THEN PublicSize ELSE 0)
  BY <1>1, <1>6, <1>7, <1>8, <1>9
<1>12. QED
  BY <1>5, <1>10, <1>11 DEF A

LEMMA InteractionStep ==
  ASSUME IInv, Interaction
  PROVE  IInv'
<1>1. aborted = "no" /\ stage = "interaction"
  BY DEF Interaction, Running
<1>2. stage \in FromRcSort
  BY <1>1, StageNames
<1>3. stage \in FromSort
  BY <1>2, StageOrder
<1>4. ProductsAgree
  <2> SUFFICES ASSUME NEW x
               PROVE  HowOften(x, MemIndices, Unsorted) + PublicFactors(x)
                        = HowOften(x, DOMAIN sorted, LAMBDA k : cell[sorted[k]])
                            + (IF x = <<0, 0>> THEN PublicSize ELSE 0)
    BY DEF ProductsAgree
  <2>1. QED
    BY <1>2, SameFactors DEF HowOften, PublicFactors
<1>5. GoTo("done") /\ UNCHANGED <<rest, memory, rc, scan>>
  BY <1>4 DEF Interaction
<1>6. stage' = "done" /\ next' = 1
  BY <1>5 DEF GoTo
<1>7. stage' \in FromRcSort
  BY <1>6, StageNames
<1>8. Left = {}
  BY <1>2 DEF IInv, Sorting
<1>9. UNCHANGED <<rest, memory, rc, scan>> /\ next' = 1
  BY <1>5, <1>6
<1>10. QED
  BY <1>1, <1>3, <1>7, <1>8, <1>9, LateStep

-----------------------------------------------------------------------------
\* Every step keeps the invariant.

LEMMA NextStep == IInv /\ [Next]_vars => Inv'
<1> SUFFICES ASSUME IInv, [Next]_vars PROVE Inv'
  OBVIOUS
<1>1. CASE UNCHANGED vars
  <2>1. UNCHANGED <<in, pc, write_trace_lock_, read_range, memory, rc, control, sorted>> /\ aborted' = aborted
    BY <1>1 DEF vars
  <2>2. aborted' # "no" => Unfit
    BY <2>1 DEF IInv, Stopping
  <2>3. QED
    BY <2>1, <2>2, Kept DEF Inv
<1>2. ASSUME NEW t \in Steps, EnterWrite(t) PROVE Inv'
  BY <1>2, EnterWriteStep DEF Inv
<1>3. ASSUME NEW t \in Steps, LeaveWrite(t) PROVE Inv'
  BY <1>3, LeaveWriteStep DEF Inv
<1>4. ASSUME NEW t \in Steps, WriteOffset(t) PROVE Inv'
  BY <1>4, WriteOffsetStep DEF Inv
<1>5. CASE StepsDone
  BY <1>5, StepsDoneStep DEF Inv
<1>6. CASE WritePublicMemory
  BY <1>6, WritePublicMemoryStep DEF Inv
<1>7. CASE BuiltinWrite
  BY <1>7, BuiltinWriteStep
<1>8. CASE BeginRcFinalize
  BY <1>8, BeginRcFinalizeStep DEF Inv
<1>9. CASE FillRc
  BY <1>9, FillRcStep DEF Inv
<1>10. CASE EndRcFinalize
  BY <1>10, EndRcFinalizeStep DEF Inv
<1>11. CASE BuiltinFinalize
  BY <1>11, BuiltinFinalizeStep DEF Inv
<1>12. CASE BeginMemFinalize
  BY <1>12, BeginMemFinalizeStep DEF Inv
<1>13. CASE FillMem
  BY <1>13, FillMemStep DEF Inv
<1>14. CASE EndMemFinalize
  BY <1>14, EndMemFinalizeStep DEF Inv
<1>15. CASE SortMem
  BY <1>15, SortMemStep DEF Inv
<1>16. CASE SortRc
  BY <1>16, SortRcStep DEF Inv
<1>17. CASE Interaction
  BY <1>17, InteractionStep DEF Inv
<1>18. CASE Stopped
  BY <1>1, <1>18 DEF Stopped
<1>19. QED
  BY <1>1, <1>2, <1>3, <1>4, <1>5, <1>6, <1>7, <1>8, <1>9, <1>10, <1>11, <1>12, <1>13, <1>14,
     <1>15, <1>16, <1>17, <1>18 DEF Next

LEMMA StuckStep == Stuck /\ [Next]_vars => Stuck'
<1> SUFFICES ASSUME Stuck, [Next]_vars PROVE Stuck'
  OBVIOUS
<1>1. ~Running
  BY DEF Stuck, Running
<1>2. UNCHANGED vars
  BY <1>1 DEF Next, EnterWrite, LeaveWrite, WriteOffset, StepsDone, WritePublicMemory, BuiltinWrite,
       BeginRcFinalize, FillRc, EndRcFinalize, BuiltinFinalize, BeginMemFinalize, FillMem,
       EndMemFinalize, SortMem, SortRc, Interaction, Stopped
<1>3. /\ in' = in /\ pc' = pc /\ write_trace_lock_' = write_trace_lock_ /\ read_range' = read_range
      /\ sorted' = sorted /\ stage' = stage /\ next' = next /\ rc' = rc /\ aborted' = aborted
      /\ cell' = cell /\ column' = column /\ public_input_indices_' = public_input_indices_
      /\ address_min_' = address_min_ /\ address_max_' = address_max_
      /\ used' = used /\ last_hole' = last_hole /\ orig_address_max' = orig_address_max
  BY <1>2 DEF vars, memory, range, control, scan
<1>4. Types'
  BY <1>3 DEF Stuck, Types
<1>5. (~InputsFit)'
  BY <1>3 DEF Stuck, InputsFit
<1>6. QED
  BY <1>3, <1>4, <1>5 DEF Stuck

\* The inductive invariant: what each component has written is in the pools, in
\* its place and in the columns, the range is that of the cells but for the step
\* under the lock, each Finalize fills from the lowest hole and wastes no free
\* cell while a hole is left, the sorted rows are cells in order, and what has
\* stopped GetTrace is in the statement; or a builtin's value was too large, and
\* the parts of some values have been written.
THEOREM InvariantTheorem == Spec => []Inv
<1>1. Init => Inv
  BY InitialState DEF Inv
<1>2. Inv /\ [Next]_vars => Inv'
  BY NextStep, StuckStep DEF Inv
<1>3. QED
  BY <1>1, <1>2, PTL DEF Spec

-----------------------------------------------------------------------------
\* The properties of the run.

LEMMA DoneIsSettled == Inv /\ stage = "done" => IInv
  BY DEF Inv, Stuck

LEMMA DoneIsAMemory == Inv => TracesOnlyAMemory
<1> SUFFICES ASSUME IInv, stage = "done"
             PROVE  /\ InputsFit /\ MemFits /\ RcFits
                    /\ IsMemory(Contents(cell)) /\ GivenPairs \subseteq Contents(cell)
                    /\ Addresses = address_min_ .. address_max_
                    /\ Contents(rc) = in.rc_min .. in.rc_max
  BY DoneIsSettled DEF TracesOnlyAMemory
<1>1. stage \in FromRcSort
  BY StageNames
<1>2. stage \in FromSort /\ stage \in FromMemFinalize /\ stage \in FromBuiltinFinalize
      /\ stage \in FromBuiltin /\ stage \in FromRcFinalize
  BY <1>1, StageOrder
<1>3. InputsFit
  BY <1>2 DEF IInv, InputsRead, PartsDone, InputsFit
<1>4. MemFits /\ Addresses = address_min_ .. address_max_
  BY <1>2 DEF IInv, MemFull
<1>5. RcFits /\ Contents(rc) = in.rc_min .. in.rc_max
  BY <1>2 DEF IInv, RcFull
<1>6. DOMAIN cell = MemIndices
  BY DEF IInv, Types
<1>7. GivenPairs \subseteq Contents(cell)
  <2>1. \A p \in GivenPairs : \E m \in MemIndices : m \notin MemFree /\ cell[m] = p
    BY <1>2, MemPoolFacts
  <2>2. \A m \in MemIndices : cell[m] # Empty
    BY <1>2, SortFacts
  <2>3. QED
    BY <1>6, <2>1, <2>2, ContentsIs
<1>8. IsMemory(Contents(cell))
  <2> DEFINE n == Len(sorted)
  <2>1. n \in Nat /\ DOMAIN sorted = 1 .. n
    BY DEF IInv, Types
  <2> HIDE DEF n
  <2>2. /\ \A k, l \in 1 .. n : k < l =>
             (cell[sorted[k]][1] = cell[sorted[l]][1] => cell[sorted[k]] = cell[sorted[l]])
        /\ \A i \in MemIndices : \E k \in 1 .. n : sorted[k] = i
    BY <1>1, <2>1 DEF IInv, Sorting, Left
  <2>3. \A k, l \in 1 .. n :
          cell[sorted[k]][1] = cell[sorted[l]][1] => cell[sorted[k]] = cell[sorted[l]]
    <3> SUFFICES ASSUME NEW k \in 1 .. n, NEW l \in 1 .. n, cell[sorted[k]][1] = cell[sorted[l]][1]
                 PROVE  cell[sorted[k]] = cell[sorted[l]]
      OBVIOUS
    <3>1. k = l \/ k < l \/ l < k
      BY <2>1
    <3>2. QED
      BY <2>2, <3>1
  <2>4. \A i, j \in MemIndices : cell[i][1] = cell[j][1] => cell[i] = cell[j]
    BY <2>2, <2>3
  <2>5. \A p \in Contents(cell) : \E i \in MemIndices : cell[i] = p
    BY <1>6, ContentsIs
  <2>6. QED
    BY <2>4, <2>5 DEF IsMemory
<1>9. QED
  BY <1>3, <1>4, <1>5, <1>7, <1>8

LEMMA StopIsUnfit == Inv => StopsOnlyForTheStatement
<1> SUFFICES ASSUME Inv PROVE TypeOK /\ (aborted # "no" => Unfit)
  BY DEF StopsOnlyForTheStatement, Unfit
<1>1. /\ write_trace_lock_ \in {NoOne} \cup Steps
      /\ \A i \in MemIndices : cell[i] = Empty \/ cell[i] \in (0..MaxWord) \X Nat
      /\ \A i \in RcIndices : rc[i] = Empty \/ rc[i] \in Nat
      /\ address_min_ \in 0..MaxWord /\ address_max_ \in 0..MaxWord
      /\ last_hole \in 0..MaxWord /\ used \subseteq 0..MaxWord
  BY DEF Inv, Stuck, IInv, Types
<1>2. public_input_indices_ \subseteq MemIndices
  <2>1. CASE IInv
    BY <2>1, MemIndexFacts DEF IInv, Columns
  <2>2. CASE Stuck
    BY <2>2 DEF Stuck
  <2>3. QED
    BY <2>1, <2>2 DEF Inv
<1>3. TypeOK
  BY <1>1, <1>2 DEF TypeOK
<1>4. QED
  BY <1>3 DEF Inv, Stuck, IInv, Stopping, Unfit

LEMMA DoneAddsUp == Inv => ColumnsAddUp
<1> SUFFICES ASSUME IInv, stage = "done"
             PROVE  /\ \A x \in Contents(cell) \cup {<<0, 0>>} :
                         HowOften(x, MemIndices, LAMBDA i : column[i]) + PublicFactors(x)
                           = HowOften(x, DOMAIN sorted, LAMBDA k : cell[sorted[k]])
                               + (IF x = <<0, 0>> THEN PublicSize ELSE 0)
                    /\ \A i \in Instances :
                         cell[InstanceIndex(i)][2]
                           = FromParts([part \in 0 .. (n_parts - 1) |-> rc[PartIndex(i, part)]])
  BY DoneIsSettled DEF ColumnsAddUp
<1>1. stage \in FromRcSort
  BY StageNames
<1>2. stage \in FromSort /\ stage \in FromMemFinalize
  BY <1>1, StageOrder
<1>3. ASSUME NEW x
      PROVE  HowOften(x, MemIndices, LAMBDA i : column[i]) + PublicFactors(x)
               = HowOften(x, DOMAIN sorted, LAMBDA k : cell[sorted[k]])
                   + (IF x = <<0, 0>> THEN PublicSize ELSE 0)
  <2>1. {i \in MemIndices : column[i] = x} = {i \in MemIndices : Unsorted(i) = x}
    BY <1>2, ColumnsFacts
  <2>2. QED
    BY <1>1, <2>1, SameFactors DEF HowOften, PublicFactors
<1>4. \A i \in Instances : cell[InstanceIndex(i)][2] = FromParts(Parts(i))
  BY <1>2 DEF IInv, MemCells, InstanceDone, InstanceDoneAt
<1>5. \A i \in Instances : Parts(i) = [part \in 0 .. (n_parts - 1) |-> rc[PartIndex(i, part)]]
  BY DEF Parts, Part
<1>6. QED
  BY <1>3, <1>4, <1>5

\* For every number of steps, every public memory, every builtin and every
\* statement: a trace is only made of a memory, with no gap between its lowest
\* and highest address, that agrees with the statement, and of all the
\* range-check values that the statement claims (GetTrace's columns, cpu_air.inl).
THEOREM TracesOnlyAMemoryTheorem == Spec => []TracesOnlyAMemory
  BY InvariantTheorem, DoneIsAMemory, PTL

\* And GetTrace stops with an assertion or an exception only for a statement that
\* does not fit, however its steps interleave and whichever cells are free: its
\* own checks of the pools, the range and the products never fail.
THEOREM StopsOnlyForTheStatementTheorem == Spec => []StopsOnlyForTheStatement
  BY InvariantTheorem, StopIsUnfit, PTL

\* The trace columns have the factors that the interaction trace multiplies up
\* to the expected last product (permutation.inl), and every builtin instance's
\* value is the number that its range-checked parts spell.
THEOREM ColumnsAddUpTheorem == Spec => []ColumnsAddUp
  BY InvariantTheorem, DoneAddsUp, PTL
=============================================================================
