----------------------------- MODULE ChannelProofs -----------------------------
(***************************************************************************)
(* What the channel draws on.  Of the proof of work, for every word size,  *)
(* chunk size, number of tasks and set of valid nonces: the nonce that     *)
(* ProofOfWork's tasks agree on is the lowest valid one, and they fail     *)
(* only if no chunk they search holds one.  Of HashChain, for every digest *)
(* size and every sequence of requests and mixes: the spare bytes always   *)
(* fit, no byte is handed out twice under one seed, none is lost, and      *)
(* every seed is new.                                                      *)
(***************************************************************************)
EXTENDS ProofOfWork, HashChain, SequenceTheorems, TLAPS

-----------------------------------------------------------------------------
\* ProofOfWork.  The argument: each valid nonce that the loop of SearchChunk can
\* meet is accounted for at every moment.  Either one no higher has been recorded,
\* or a task holds it, or it has not been fetched yet; and a task gives up only if
\* it has seen a nonce recorded below its chunk, or the counter wrapped around.

IsChunkStart(x) == \E k \in Nat : x = k * chunk_size
InChunk(n, start) == start <= n /\ n < start + chunk_size

\* The counter has passed the last chunk.
Wrapped ==
  \/ next_chunk_to_search < nonce_bound
  \/ \E t \in Task : pc[t] \in {"test", "done"} /\ nonce_start[t] < nonce_bound

Holds(t, n) ==
  \/ pc[t] = "search" /\ InChunk(n, nonce_start[t])
  \/ pc[t] \in {"load", "cas"} /\ nonce[t] <= n
  \/ pc[t] = "test" /\ nonce_start[t] >= nonce_bound /\ InChunk(n, nonce_start[t])

Covered(n) ==
  \/ lowest_nonce_found <= n
  \/ \E t \in Task : Holds(t, n)
  \/ ~Wrapped /\ next_chunk_to_search <= n

Chunked ==
  IsChunkStart(next_chunk_to_search) /\ \A t \in Task : IsChunkStart(nonce_start[t])
Found ==
  /\ lowest_nonce_found # MaxWord => lowest_nonce_found \in valid \cap Searched
  /\ \A t \in Task : pc[t] \in {"load", "cas"} => nonce[t] \in valid \cap Searched
Contending == \A t \in Task : pc[t] = "cas" => nonce[t] < curr_nonce[t]
Ahead == ~Wrapped => \A t \in Task : nonce_start[t] < next_chunk_to_search
GaveUp ==
  \A t \in Task : pc[t] = "done" /\ nonce_start[t] >= nonce_bound =>
                    lowest_nonce_found <= nonce_start[t]
Accounted == \A n \in valid \cap Searched : Covered(n)
Results ==
  result # "running" => /\ \A t \in Task : pc[t] = "done"
                        /\ result = "nonce" <=> lowest_nonce_found # MaxWord

PowInv ==
  /\ PowTypeOK /\ Chunked /\ Found /\ Contending /\ Ahead /\ GaveUp /\ Accounted /\ Results

-----------------------------------------------------------------------------
\* What the assumption says of the constants.
LEMMA Sizes ==
  /\ Size \in Nat /\ chunk_size \in Nat \ {0} /\ thread_count \in Nat \ {0}
  /\ nonce_bound \in Nat /\ chunk_size <= nonce_bound /\ nonce_bound < Size
  /\ 0 \in Task
<1>1. thread_count * chunk_size >= chunk_size
  BY PowAssumption
<1> QED  BY <1>1, PowAssumption DEF nonce_bound, Task

\* Between two multiples lies a whole chunk.
LEMMA WholeChunk ==
  ASSUME NEW a \in Nat, NEW b \in Nat, NEW c \in Nat \ {0}, a * c < b * c
  PROVE  a * c + c <= b * c
<1>1. a < b
  <2> SUFFICES ASSUME b <= a PROVE FALSE
    OBVIOUS
  <2>1. PICK d \in Nat : a = b + d
    <3> WITNESS a - b \in Nat
    <3> QED  OBVIOUS
  <2>2. a * c = b * c + d * c
    BY <2>1
  <2>3. d * c >= 0
    OBVIOUS
  <2> QED  BY <2>2, <2>3
<1>2. PICK d \in Nat : b = a + 1 + d
  <2> WITNESS b - a - 1 \in Nat
  <2> QED  BY <1>1
<1>3. b * c = a * c + c + d * c
  BY <1>2
<1>4. d * c >= 0
  OBVIOUS
<1> QED  BY <1>3, <1>4

\* A chunk ends at most at the end of the words, and so does the next one
\* unless the counter wraps.
LEMMA ChunkInWord ==
  ASSUME NEW x \in Word, IsChunkStart(x)
  PROVE  /\ x + chunk_size < Size => /\ Plus(x, chunk_size) = x + chunk_size
                                     /\ x + chunk_size + chunk_size <= Size
         /\ x + chunk_size >= Size => Plus(x, chunk_size) = 0
         /\ Plus(x, chunk_size) \in Word
         /\ IsChunkStart(Plus(x, chunk_size))
<1> USE Sizes
<1>1. PICK k \in Nat : x = k * chunk_size
  BY DEF IsChunkStart
<1>2. PICK n \in 1 .. Size : Size = n * chunk_size
  BY PowAssumption
<1>3. x + chunk_size <= Size
  <2>1. x < Size
    BY DEF Word
  <2> QED  BY <1>1, <1>2, <2>1, WholeChunk
<1>4. x + chunk_size = (k + 1) * chunk_size
  BY <1>1
<1>5. x \in Nat
  BY DEF Word
<1>6. CASE x + chunk_size < Size
  <2>1. x + chunk_size + chunk_size <= Size
    <3>1. (k + 1) * chunk_size < n * chunk_size
      BY <1>2, <1>4, <1>6
    <3>2. (k + 1) * chunk_size + chunk_size <= n * chunk_size
      <4>1. k + 1 \in Nat /\ n \in Nat
        OBVIOUS
      <4> QED  BY <3>1, <4>1, WholeChunk
    <3> QED  BY <3>2, <1>2, <1>4
  <2>2. Plus(x, chunk_size) = x + chunk_size
    BY <1>6 DEF Plus
  <2>3. IsChunkStart(x + chunk_size)
    BY <1>4 DEF IsChunkStart
  <2> QED  BY <1>5, <1>6, <2>1, <2>2, <2>3 DEF Word
<1>7. CASE x + chunk_size >= Size
  <2>1. Plus(x, chunk_size) = 0
    BY <1>3, <1>5, <1>7 DEF Plus
  <2>2. 0 = 0 * chunk_size
    OBVIOUS
  <2> QED  BY <1>5, <1>7, <2>1, <2>2 DEF IsChunkStart, Word
<1> QED  BY <1>5, <1>6, <1>7

\* The chunks that the tasks start with.
LEMMA FirstChunks ==
  /\ \A t \in Task : /\ t * chunk_size \in Word /\ t * chunk_size < nonce_bound
                     /\ IsChunkStart(t * chunk_size)
  /\ \A n \in Nat : n < nonce_bound => \E t \in Task : InChunk(n, t * chunk_size)
<1> USE Sizes
<1>1. ASSUME NEW t \in Task
      PROVE  /\ t * chunk_size \in Word /\ t * chunk_size < nonce_bound
             /\ IsChunkStart(t * chunk_size)
  <2>1. t \in Nat /\ t < thread_count
    BY DEF Task
  <2>2. PICK d \in Nat : thread_count = t + 1 + d
    <3>1. thread_count - t - 1 \in Nat /\ thread_count = t + 1 + (thread_count - t - 1)
      BY <2>1
    <3> QED  BY <3>1
  <2>3. nonce_bound = t * chunk_size + chunk_size + d * chunk_size
    BY <2>1, <2>2 DEF nonce_bound
  <2>4. d * chunk_size \in Nat /\ t * chunk_size \in Nat
    BY <2>1
  <2> QED  BY <2>1, <2>3, <2>4 DEF Word, IsChunkStart
<1>2. ASSUME NEW n \in Nat, n < nonce_bound
      PROVE  \E t \in Task : InChunk(n, t * chunk_size)
  <2> DEFINE q == n \div chunk_size
             r == n % chunk_size
  <2>1. q \in Nat /\ r \in 0 .. chunk_size - 1 /\ n = chunk_size * q + r
    OBVIOUS
  <2> HIDE DEF q, r
  <2>2. q * chunk_size <= n /\ n < q * chunk_size + chunk_size
    <3>1. chunk_size * q = q * chunk_size
      BY <2>1
    <3>2. q * chunk_size \in Nat
      BY <2>1
    <3> QED  BY <2>1, <3>1, <3>2
  <2>3. q * chunk_size < thread_count * chunk_size
    BY <1>2, <2>1, <2>2 DEF nonce_bound
  <2>4. q < thread_count
    <3> SUFFICES ASSUME thread_count <= q PROVE FALSE
      BY <2>1
    <3>1. PICK d \in Nat : q = thread_count + d
      <4>1. q - thread_count \in Nat /\ q = thread_count + (q - thread_count)
        BY <2>1
      <4> QED  BY <4>1
    <3>2. q * chunk_size = thread_count * chunk_size + d * chunk_size
      BY <3>1
    <3>3. d * chunk_size \in Nat
      OBVIOUS
    <3> QED  BY <2>3, <3>2, <3>3
  <2>5. q \in Task
    BY <2>1, <2>4 DEF Task
  <2> QED  BY <2>2, <2>5 DEF InChunk
<1> QED  BY <1>1, <1>2

-----------------------------------------------------------------------------
LEMMA InitPowInv == PowInit => PowInv
<1> SUFFICES ASSUME PowInit PROVE PowInv
  OBVIOUS
<1> USE Sizes, FirstChunks
<1>1. PowTypeOK
  BY PowAssumption DEF PowInit, PowTypeOK, Word, MaxWord
<1>2. Chunked
  BY DEF PowInit, Chunked, IsChunkStart, nonce_bound
<1>3. ~Wrapped
  BY DEF PowInit, Wrapped
<1>4. Ahead
  BY DEF PowInit, Ahead
<1>5. Accounted
  <2> SUFFICES ASSUME NEW n \in valid \cap Searched PROVE Covered(n)
    BY DEF Accounted
  <2>1. n \in Nat
    BY DEF Searched
  <2>2. CASE n < nonce_bound
    BY <2>1, <2>2 DEF Covered, Holds, PowInit
  <2>3. CASE n >= nonce_bound
    BY <1>3, <2>3 DEF Covered, PowInit
  <2> QED  BY <2>1, <2>2, <2>3
<1> QED  BY <1>1, <1>2, <1>4, <1>5
         DEF PowInv, PowInit, Found, Contending, GaveUp, Results

-----------------------------------------------------------------------------
\* A task that has not given up is in a search whose result is open.
LEMMA StepWhileRunning ==
  ASSUME PowInv, NEW t \in Task, pc[t] # "done", UNCHANGED result
  PROVE  Results'
  BY DEF PowInv, Results

LEMMA SearchChunkStep ==
  ASSUME PowInv, NEW t \in Task, SearchChunk(t)
  PROVE  PowInv'
<1> USE Sizes
<1> DEFINE start == nonce_start[t]
           hits == Hits(start)
<1>1. /\ pc[t] = "search" /\ pc \in [Task -> {"search", "load", "cas", "fetch", "test", "done"}]
      /\ start \in Word /\ IsChunkStart(start) /\ valid \subseteq Word
  BY PowAssumption DEF PowInv, PowTypeOK, Chunked, SearchChunk, Goto, Word
<1>2. /\ start + chunk_size < Size => /\ Plus(start, chunk_size) = start + chunk_size
                                      /\ start + chunk_size + chunk_size <= Size
      /\ start + chunk_size >= Size => Plus(start, chunk_size) = 0
  BY <1>1, ChunkInWord
<1>3. hits \subseteq valid \cap Searched
  <2> SUFFICES ASSUME NEW n \in hits PROVE n \in Searched
    BY DEF Hits
  <2>1. n \in Word /\ n < Plus(start, chunk_size)
    BY <1>1 DEF Hits
  <2>2. start + chunk_size < Size
    BY <1>1, <1>2, <2>1 DEF Word
  <2> QED  BY <1>1, <1>2, <2>1, <2>2 DEF Searched, Word
<1>4. /\ pc' \in [Task -> {"search", "load", "cas", "fetch", "test", "done"}]
      /\ pc'[t] \in {"load", "fetch"} /\ \A u \in Task \ {t} : pc'[u] = pc[u]
      /\ UNCHANGED <<valid, next_chunk_to_search, lowest_nonce_found, nonce_start,
                     curr_nonce, result>>
  BY <1>1 DEF SearchChunk, Goto
<1>5. CASE hits = {}
  <2>1. UNCHANGED nonce /\ pc'[t] = "fetch"
    BY <1>1, <1>5 DEF SearchChunk, Goto
  <2>2. Wrapped' <=> Wrapped
    BY <1>1, <1>4, <2>1 DEF Wrapped
  <2>3. ASSUME NEW n \in valid \cap Searched PROVE ~Holds(t, n)
    <3> SUFFICES ASSUME InChunk(n, start) PROVE n \in hits
      BY <1>1, <1>5 DEF Holds
    <3> QED  BY <1>1, <1>2 DEF Hits, InChunk, Searched, Word
  <2>4. Accounted'
    BY <1>4, <2>1, <2>2, <2>3 DEF PowInv, Accounted, Covered, Holds
  <2> QED  BY <1>1, <1>4, <2>1, <2>2, <2>4, StepWhileRunning
           DEF PowInv, PowTypeOK, Chunked, Found, Contending, Ahead, GaveUp
<1>6. CASE hits # {}
  <2>1. PICK m \in hits : IsLowest(m, hits) /\ nonce' = [nonce EXCEPT ![t] = m]
    BY <1>6 DEF SearchChunk, IsLowest
  <2>2. /\ pc'[t] = "load" /\ m \in valid \cap Searched /\ m \in Word
        /\ nonce' \in [Task -> Word] /\ nonce'[t] = m
        /\ \A u \in Task \ {t} : nonce'[u] = nonce[u]
    BY <1>1, <1>3, <1>6, <2>1 DEF SearchChunk, Goto, PowInv, PowTypeOK
  <2>3. Wrapped' <=> Wrapped
    BY <1>1, <1>4, <2>2 DEF Wrapped
  <2>4. ASSUME NEW n \in valid \cap Searched, Holds(t, n) PROVE m <= n
    <3>1. InChunk(n, start)
      BY <1>1, <2>4 DEF Holds
    <3>2. n \in hits
      BY <1>1, <1>2, <3>1 DEF Hits, InChunk, Searched, Word
    <3> QED  BY <2>1, <3>2 DEF IsLowest
  <2>5. Accounted'
    BY <1>4, <2>2, <2>3, <2>4 DEF PowInv, Accounted, Covered, Holds
  <2>6. Found' /\ Contending'
    BY <1>1, <1>4, <2>2 DEF PowInv, Found, Contending, Searched
  <2> QED  BY <1>1, <1>4, <2>2, <2>3, <2>5, <2>6, StepWhileRunning
           DEF PowInv, PowTypeOK, Chunked, Ahead, GaveUp
<1> QED  BY <1>5, <1>6

\* A task that holds a nonce and reads the lowest one: it tries to store its own
\* or, not being lower, drops it.
LEMMA ReadLowest ==
  ASSUME PowInv, NEW t \in Task, pc[t] \in {"load", "cas"},
         pc' = [pc EXCEPT ![t] = Contend(t, lowest_nonce_found)],
         curr_nonce' = [curr_nonce EXCEPT ![t] = lowest_nonce_found],
         UNCHANGED <<valid, next_chunk_to_search, lowest_nonce_found, nonce_start,
                     nonce, result>>
  PROVE  PowInv'
<1> USE Sizes
<1>1. /\ pc'[t] = Contend(t, lowest_nonce_found) /\ curr_nonce'[t] = lowest_nonce_found
      /\ pc' \in [Task -> {"search", "load", "cas", "fetch", "test", "done"}]
      /\ curr_nonce' \in [Task -> Word]
      /\ \A u \in Task \ {t} : pc'[u] = pc[u] /\ curr_nonce'[u] = curr_nonce[u]
      /\ nonce[t] \in Word /\ lowest_nonce_found \in Word
  BY DEF PowInv, PowTypeOK, Contend
<1>2. \/ pc'[t] = "cas" /\ nonce[t] < lowest_nonce_found
      \/ pc'[t] = "fetch" /\ lowest_nonce_found <= nonce[t]
  BY <1>1 DEF Contend, Word
<1>3. Wrapped' <=> Wrapped
  BY <1>1, <1>2 DEF Wrapped
<1>4. ASSUME NEW n \in valid \cap Searched, Holds(t, n), pc'[t] = "fetch"
      PROVE  lowest_nonce_found <= n
  BY <1>1, <1>2, <1>4 DEF Holds, Searched, Word
<1>5. Accounted'
  <2> SUFFICES ASSUME NEW n \in valid \cap Searched PROVE Covered(n)'
    BY DEF Accounted, Searched
  <2>1. Covered(n)
    BY DEF PowInv, Accounted
  <2>2. CASE lowest_nonce_found <= n
    BY <2>2 DEF Covered
  <2>3. CASE Holds(t, n)
    BY <1>1, <1>2, <1>4, <2>3 DEF Covered, Holds
  <2>4. ASSUME NEW u \in Task \ {t}, Holds(u, n) PROVE Covered(n)'
    BY <1>1, <2>4 DEF Covered, Holds
  <2>5. CASE ~Wrapped /\ next_chunk_to_search <= n
    BY <1>3, <2>5 DEF Covered
  <2> QED  BY <2>1, <2>2, <2>3, <2>4, <2>5 DEF Covered
<1>6. Found' /\ Contending' /\ GaveUp'
  BY <1>1, <1>2 DEF PowInv, Found, Contending, GaveUp, Searched
<1>7. Results'
  BY StepWhileRunning
<1> QED  BY <1>1, <1>3, <1>5, <1>6, <1>7 DEF PowInv, PowTypeOK, Chunked, Ahead

LEMMA LoadLowestStep ==
  ASSUME PowInv, NEW t \in Task, LoadLowest(t)
  PROVE  PowInv'
  BY ReadLowest DEF LoadLowest, Goto

LEMMA CompareExchangeStep ==
  ASSUME PowInv, NEW t \in Task, CompareExchange(t)
  PROVE  PowInv'
<1> USE Sizes
<1>1. CASE lowest_nonce_found # curr_nonce[t]
  BY <1>1, ReadLowest DEF CompareExchange, Goto
<1>2. CASE lowest_nonce_found = curr_nonce[t]
  <2>1. /\ pc[t] = "cas" /\ pc' = [pc EXCEPT ![t] = "fetch"]
        /\ lowest_nonce_found' = nonce[t]
        /\ UNCHANGED <<valid, next_chunk_to_search, nonce_start, nonce, curr_nonce, result>>
    BY <1>2 DEF CompareExchange, Goto
  <2>2. /\ pc'[t] = "fetch" /\ \A u \in Task \ {t} : pc'[u] = pc[u]
        /\ pc' \in [Task -> {"search", "load", "cas", "fetch", "test", "done"}]
        /\ nonce[t] \in Word /\ lowest_nonce_found \in Word /\ nonce_start \in [Task -> Word]
    BY <2>1 DEF PowInv, PowTypeOK
  <2>3. lowest_nonce_found' < lowest_nonce_found
    BY <1>2, <2>1 DEF PowInv, Contending
  <2>4. Wrapped' <=> Wrapped
    BY <2>1, <2>2 DEF Wrapped
  <2>5. Accounted'
    <3> SUFFICES ASSUME NEW n \in valid \cap Searched PROVE Covered(n)'
      BY <2>1 DEF Accounted, Searched
    <3>1. Covered(n)
      BY DEF PowInv, Accounted
    <3>2. CASE lowest_nonce_found <= n
      BY <2>1, <2>2, <2>3, <3>2 DEF Covered, Searched, Word
    <3>3. CASE Holds(t, n)
      BY <2>1, <3>3 DEF Covered, Holds
    <3>4. ASSUME NEW u \in Task \ {t}, Holds(u, n) PROVE Covered(n)'
      BY <2>1, <2>2, <3>4 DEF Covered, Holds
    <3>5. CASE ~Wrapped /\ next_chunk_to_search <= n
      BY <2>1, <2>4, <3>5 DEF Covered
    <3> QED  BY <3>1, <3>2, <3>3, <3>4, <3>5 DEF Covered
  <2>6. Found'
    BY <2>1, <2>2 DEF PowInv, Found, Searched
  <2>7. GaveUp'
    <3> SUFFICES ASSUME NEW u \in Task, pc'[u] = "done", nonce_start[u] >= nonce_bound
                 PROVE  lowest_nonce_found' <= nonce_start[u]
      BY <2>1 DEF GaveUp
    <3>1. lowest_nonce_found <= nonce_start[u]
      BY <2>2 DEF PowInv, GaveUp
    <3> QED  BY <2>1, <2>2, <2>3, <3>1 DEF Word
  <2>8. Contending' /\ Ahead'
    BY <2>1, <2>2, <2>4 DEF PowInv, Contending, Ahead
  <2>9. Results'
    BY <2>1, StepWhileRunning
  <2> QED  BY <2>1, <2>2, <2>5, <2>6, <2>7, <2>8, <2>9 DEF PowInv, PowTypeOK, Chunked
<1> QED  BY <1>1, <1>2

LEMMA FetchAddStep ==
  ASSUME PowInv, NEW t \in Task, FetchAdd(t)
  PROVE  PowInv'
<1> USE Sizes
<1> DEFINE next == next_chunk_to_search
<1>1. /\ pc[t] = "fetch" /\ pc' = [pc EXCEPT ![t] = "test"]
      /\ nonce_start' = [nonce_start EXCEPT ![t] = next] /\ next' = Plus(next, chunk_size)
      /\ UNCHANGED <<valid, lowest_nonce_found, nonce, curr_nonce, result>>
  BY DEF FetchAdd, Goto
<1>2. /\ pc'[t] = "test" /\ nonce_start'[t] = next
      /\ \A u \in Task \ {t} : pc'[u] = pc[u] /\ nonce_start'[u] = nonce_start[u]
      /\ pc' \in [Task -> {"search", "load", "cas", "fetch", "test", "done"}]
      /\ nonce_start' \in [Task -> Word] /\ nonce_start \in [Task -> Word]
      /\ next \in Word /\ IsChunkStart(next)
  BY <1>1 DEF PowInv, PowTypeOK, Chunked
<1>3. /\ next' \in Word /\ IsChunkStart(next')
      /\ next + chunk_size < Size => next' = next + chunk_size
      /\ next + chunk_size >= Size => next' = 0
  BY <1>1, <1>2, ChunkInWord
<1>4. ASSUME ~Wrapped'
      PROVE  ~Wrapped /\ next' = next + chunk_size
  <2>1. next >= nonce_bound /\ next' >= nonce_bound
    BY <1>2, <1>3, <1>4 DEF Wrapped, Word
  <2>2. \A u \in Task : pc[u] \in {"test", "done"} => ~(nonce_start[u] < nonce_bound)
    BY <1>1, <1>2, <1>4 DEF Wrapped
  <2> QED  BY <1>2, <1>3, <2>1, <2>2 DEF Wrapped, Word
<1>5. Chunked'
  BY <1>2, <1>3 DEF PowInv, Chunked, IsChunkStart
<1>6. Ahead'
  <2> SUFFICES ASSUME ~Wrapped', NEW u \in Task PROVE nonce_start'[u] < next'
    BY DEF Ahead
  <2>1. ~Wrapped /\ next' = next + chunk_size
    BY <1>4
  <2>2. CASE u = t
    BY <1>2, <2>1, <2>2 DEF Word
  <2>3. CASE u # t
    <3>1. nonce_start[u] < next
      BY <2>1 DEF PowInv, Ahead
    <3> QED  BY <1>2, <2>1, <2>3, <3>1 DEF Word
  <2> QED  BY <2>2, <2>3
<1>7. Accounted'
  <2> SUFFICES ASSUME NEW n \in valid \cap Searched PROVE Covered(n)'
    BY <1>1 DEF Accounted, Searched
  <2>1. Covered(n)
    BY DEF PowInv, Accounted
  <2>2. CASE lowest_nonce_found <= n
    BY <1>1, <2>2 DEF Covered
  <2>3. ASSUME NEW u \in Task, Holds(u, n) PROVE Covered(n)'
    <3>1. u # t
      BY <1>1, <2>3 DEF Holds
    <3> QED  BY <1>1, <1>2, <2>3, <3>1 DEF Covered, Holds
  <2>4. CASE ~Wrapped /\ next <= n
    <3>1. next >= nonce_bound /\ n \in Nat
      BY <1>2, <2>4 DEF Wrapped, Word, Searched
    <3>2. next' = next + chunk_size
      BY <1>2, <1>3, <2>4 DEF Searched, Word
    <3>3. CASE n < next + chunk_size
      BY <1>2, <2>4, <3>1, <3>3 DEF Covered, Holds, InChunk
    <3>4. CASE n >= next + chunk_size
      <4>1. ~Wrapped'
        BY <1>1, <1>2, <2>4, <3>1, <3>2 DEF Wrapped, Word
      <4> QED  BY <3>2, <3>4, <4>1 DEF Covered
    <3> QED  BY <1>2, <3>1, <3>3, <3>4 DEF Word
  <2> QED  BY <2>1, <2>2, <2>3, <2>4 DEF Covered
<1>8. Found' /\ Contending' /\ GaveUp'
  BY <1>1, <1>2 DEF PowInv, Found, Contending, GaveUp, Searched
<1>9. Results'
  BY <1>1, StepWhileRunning
<1> QED  BY <1>1, <1>2, <1>3, <1>5, <1>6, <1>7, <1>8, <1>9 DEF PowInv, PowTypeOK

LEMMA TestLoopStep ==
  ASSUME PowInv, NEW t \in Task, TestLoop(t)
  PROVE  PowInv'
<1> USE Sizes
<1>1. /\ pc[t] = "test" /\ pc'[t] \in {"search", "done"}
      /\ pc' \in [Task -> {"search", "load", "cas", "fetch", "test", "done"}]
      /\ pc'[t] = "search" <=> /\ nonce_start[t] < lowest_nonce_found
                               /\ nonce_start[t] >= nonce_bound
      /\ \A u \in Task \ {t} : pc'[u] = pc[u]
      /\ UNCHANGED <<valid, next_chunk_to_search, lowest_nonce_found, nonce_start,
                     nonce, curr_nonce, result>>
      /\ nonce_start[t] \in Word /\ lowest_nonce_found \in Word
  BY DEF TestLoop, Goto, GoOn, PowInv, PowTypeOK
<1>2. Wrapped' <=> Wrapped
  BY <1>1 DEF Wrapped, Word
<1>3. GaveUp'
  BY <1>1 DEF PowInv, GaveUp, Word
<1>4. Accounted'
  <2> SUFFICES ASSUME NEW n \in valid \cap Searched PROVE Covered(n)'
    BY <1>1 DEF Accounted, Searched
  <2>1. Covered(n)
    BY DEF PowInv, Accounted
  <2>2. CASE lowest_nonce_found <= n
    BY <1>1, <2>2 DEF Covered
  <2>3. CASE Holds(t, n)
    <3>1. nonce_start[t] >= nonce_bound /\ InChunk(n, nonce_start[t])
      BY <1>1, <2>3 DEF Holds
    <3>2. CASE pc'[t] = "search"
      BY <1>1, <3>1, <3>2 DEF Covered, Holds
    <3>3. CASE pc'[t] = "done"
      BY <1>1, <3>1, <3>3 DEF Covered, InChunk, Searched, Word
    <3> QED  BY <1>1, <3>2, <3>3
  <2>4. ASSUME NEW u \in Task \ {t}, Holds(u, n) PROVE Covered(n)'
    BY <1>1, <2>4 DEF Covered, Holds
  <2>5. CASE ~Wrapped /\ next_chunk_to_search <= n
    BY <1>1, <1>2, <2>5 DEF Covered
  <2> QED  BY <2>1, <2>2, <2>3, <2>4, <2>5 DEF Covered
<1>5. Found' /\ Contending' /\ Ahead' /\ Chunked'
  BY <1>1, <1>2 DEF PowInv, Found, Contending, Ahead, Chunked, Searched
<1>6. Results'
  BY <1>1, StepWhileRunning
<1> QED  BY <1>1, <1>3, <1>4, <1>5, <1>6 DEF PowInv, PowTypeOK

LEMMA FinishStep ==
  ASSUME PowInv, Finish
  PROVE  PowInv'
<1>1. Results'
  BY DEF Finish, Results
<1>2. Accounted'
  BY DEF PowInv, Accounted, Covered, Holds, Wrapped, Finish
<1> QED  BY <1>1, <1>2
         DEF PowInv, PowTypeOK, Chunked, Found, Contending, Ahead, Wrapped, GaveUp, Finish

LEMMA StutterStep ==
  ASSUME PowInv, UNCHANGED pow_vars
  PROVE  PowInv'
<1>1. Accounted'
  BY DEF PowInv, Accounted, Covered, Holds, Wrapped, pow_vars
<1> QED  BY <1>1
         DEF PowInv, PowTypeOK, Chunked, Found, Contending, Ahead, Wrapped, GaveUp, Results, pow_vars

LEMMA NextPowInv == PowInv /\ [PowNext]_pow_vars => PowInv'
<1> SUFFICES ASSUME PowInv, [PowNext]_pow_vars PROVE PowInv'
  OBVIOUS
<1>1. ASSUME NEW t \in Task, Step(t) PROVE PowInv'
  <2>1. CASE SearchChunk(t)
    BY <2>1, SearchChunkStep
  <2>2. CASE LoadLowest(t)
    BY <2>2, LoadLowestStep
  <2>3. CASE CompareExchange(t)
    BY <2>3, CompareExchangeStep
  <2>4. CASE FetchAdd(t)
    BY <2>4, FetchAddStep
  <2>5. CASE TestLoop(t)
    BY <2>5, TestLoopStep
  <2> QED  BY <1>1, <2>1, <2>2, <2>3, <2>4, <2>5 DEF Step
<1>2. CASE Finish
  BY <1>2, FinishStep
<1>3. CASE UNCHANGED pow_vars
  BY <1>3, StutterStep
<1> QED  BY <1>1, <1>2, <1>3 DEF PowNext, Terminated

LEMMA Invariance == PowSpec => []PowInv
  BY InitPowInv, NextPowInv, PTL DEF PowSpec

-----------------------------------------------------------------------------
\* When the tasks are done, no nonce they search is lower than the lowest found.
LEMMA NoneLower ==
  ASSUME PowInv, result # "running", NEW n \in valid \cap Searched
  PROVE  lowest_nonce_found <= n
<1> USE Sizes
<1>1. \A t \in Task : pc[t] = "done"
  BY DEF PowInv, Results
<1>2. Covered(n)
  BY DEF PowInv, Accounted
<1>3. CASE ~Wrapped /\ next_chunk_to_search <= n
  <2>1. /\ nonce_start[0] \in Word /\ next_chunk_to_search \in Word
        /\ lowest_nonce_found \in Word
    BY DEF PowInv, PowTypeOK
  <2>2. nonce_start[0] >= nonce_bound /\ nonce_start[0] < next_chunk_to_search
    BY <1>1, <1>3, <2>1 DEF PowInv, Wrapped, Ahead, Word
  <2>3. lowest_nonce_found <= nonce_start[0]
    BY <1>1, <2>2 DEF PowInv, GaveUp
  <2> QED  BY <1>3, <2>1, <2>2, <2>3 DEF Searched, Word
<1> QED  BY <1>1, <1>2, <1>3 DEF Covered, Holds

LEMMA NothingMissed ==
  ASSUME PowInv, result # "running", lowest_nonce_found = MaxWord
  PROVE  valid \cap Searched = {}
<1> SUFFICES ASSUME NEW n \in valid \cap Searched PROVE FALSE
  OBVIOUS
<1>1. MaxWord <= n
  BY NoneLower
<1> QED  BY <1>1, Sizes DEF MaxWord, Searched

\* The nonce of ProofOfWorkProver::Prove is the lowest valid one under every
\* schedule of its tasks, for every number of tasks and every chunk size.
THEOREM ResultTheorem == PowSpec => []ResultIsLowestNonce
<1>1. PowInv => ResultIsLowestNonce
  <2> SUFFICES ASSUME PowInv, result = "nonce" PROVE IsLowest(lowest_nonce_found, valid)
    BY DEF ResultIsLowestNonce, Verify, IsLowest
  <2> USE Sizes
  <2>1. lowest_nonce_found \in valid \cap Searched
    BY DEF PowInv, Results, Found
  <2>2. ASSUME NEW m \in valid PROVE lowest_nonce_found <= m
    <3>1. m \in Word
      BY PowAssumption DEF PowInv, PowTypeOK, Word
    <3>2. CASE m \in Searched
      BY <3>2, NoneLower
    <3>3. CASE m \notin Searched
      BY <2>1, <3>1, <3>3 DEF Searched, Word
    <3> QED  BY <3>2, <3>3
  <2> QED  BY <2>1, <2>2 DEF IsLowest
<1> QED  BY <1>1, Invariance, PTL

\* The assertion "No nonce was found." fails only if no chunk but the last,
\* which the loop of SearchChunk never enters, holds a valid nonce.
THEOREM FailureTheorem == PowSpec => []FailureIsJustified
<1>1. PowInv => FailureIsJustified
  <2> SUFFICES ASSUME PowInv, result = "No nonce was found." PROVE valid \cap Searched = {}
    BY DEF FailureIsJustified, PowInv
  <2>1. result # "running" /\ lowest_nonce_found = MaxWord
    BY DEF PowInv, Results
  <2> QED  BY <2>1, NothingMissed
<1> QED  BY <1>1, Invariance, PTL

-----------------------------------------------------------------------------
\* HashChain.
Digest == Seq({0, 1} \X (Messages \cup Nat))
LastIncrement(digest) == digest[Len(digest)][1]

\* The seed's history has one hash per mix, the last one with the increment; a
\* digest used so far is shorter, or its last hash had no increment.
Seeds ==
  /\ hash_ \in Digest
  /\ hash_ # <<>> => LastIncrement(hash_) = 1
  /\ \A digest \in digests :
       /\ digest \in Digest
       /\ Len(digest) < Len(hash_) \/ (digest # <<>> /\ LastIncrement(digest) = 0)

\* The invariants of the module are inductive together: that the bytes given by
\* a step are new follows from what was given and what is spare being disjoint.
IInv == TypeOK /\ SpareFits /\ NoByteTwice /\ EveryByteAccounted /\ Seeds

\* Hashing makes a history one longer.
LEMMA HashLast ==
  ASSUME NEW digest \in Digest, NEW increment \in {0, 1}, NEW appended \in Messages \cup Nat
  PROVE  /\ Hash(digest, increment, appended) \in Digest
         /\ Len(Hash(digest, increment, appended)) = Len(digest) + 1
         /\ Hash(digest, increment, appended) # <<>>
         /\ Hash(digest, increment, appended)[Len(digest) + 1] = <<increment, appended>>
  BY AppendProperties DEF Hash, Digest

\* The digest of the next counter is none of those generated.
LEMMA DigestIsFresh ==
  ASSUME TypeOK, Seeds, NEW i
  PROVE  <<HashWithCounter(hash_, counter_), i>> \notin Generated
<1>1. HashWithCounter(hash_, counter_) \notin
        {HashWithCounter(hash_, c) : c \in 0 .. counter_ - 1}
  <2>1. counter_ \notin 0 .. counter_ - 1
    BY HashChainAssumption DEF TypeOK
  <2>2. ASSUME NEW c \in Nat, HashWithCounter(hash_, counter_) = HashWithCounter(hash_, c)
        PROVE  counter_ = c
    <3>1. counter_ \in Nat
      BY DEF TypeOK
    <3>2. QED
      BY <2>2, <3>1, HashLast DEF Seeds, HashWithCounter
  <2>3. QED
    BY <2>1, <2>2
<1>2. QED
  BY <1>1 DEF Generated

\* A mix and the initial state: nothing generated, nothing given.
LEMMA StartOver ==
  ASSUME counter_ = 0, num_spare_bytes_ = 0, out = NoBytes, given = {}
  PROVE  NoByteTwice /\ EveryByteAccounted
<1>1. Written = {} /\ Spare = {} /\ Generated = {} /\ DOMAIN out = {}
  BY SMT DEF Written, Spare, Generated, NoBytes
<1>2. QED
  BY <1>1 DEF NoByteTwice, EveryByteAccounted

\* What a call of GetMoreRandomBytes adds to each of the sets of bytes.
LEMMA AddedByDigest ==
  ASSUME TypeOK, SpareFits, NEW n \in 0 .. DigestNumBytes, GetMoreRandomBytes(n),
         NEW digest, digest = HashWithCounter(hash_, counter_)
  PROVE  /\ Written' = {<<digest, i>> : i \in 0 .. n - 1}
         /\ given' = given \cup Written
         /\ Spare' = Spare \cup {<<digest, i>> : i \in n .. DigestNumBytes - 1}
         /\ Generated' = Generated \cup {<<digest, i>> : i \in 0 .. DigestNumBytes - 1}
         /\ \A k \in 0 .. num_spare_bytes_ - 1 : spare_bytes_'[k] = spare_bytes_[k]
         /\ \A k \in num_spare_bytes_ .. num_spare_bytes_' - 1 :
              spare_bytes_'[k] = <<digest, n + k - num_spare_bytes_>>
         /\ num_spare_bytes_' = num_spare_bytes_ + DigestNumBytes - n
<1> DEFINE D == DigestNumBytes
           num == num_spare_bytes_
<1>1. D \in Nat \ {0} /\ n \in Nat /\ n <= D /\ num \in Nat /\ num < D /\ counter_ \in Nat
  BY HashChainAssumption DEF TypeOK, SpareFits
<1>2. out' = [i \in 0 .. n - 1 |-> <<digest, i>>] /\ given' = given \cup Written
  BY DEF GetMoreRandomBytes, Write
<1>3. num' = num + D - n
  BY <1>1 DEF GetMoreRandomBytes, SpareAndRest
<1>4. spare_bytes_' = [k \in DOMAIN spare_bytes_ |->
          IF k \in num .. num + D - n - 1
          THEN <<digest, n + k - num>> ELSE spare_bytes_[k]]
  BY DEF GetMoreRandomBytes, RestOfDigest
<1>5. DOMAIN spare_bytes_ = 0 .. 2 * D - 1
  BY DEF TypeOK
<1>6. \A k \in 0 .. num - 1 : spare_bytes_'[k] = spare_bytes_[k]
  BY <1>1, <1>4, <1>5
<1>7. \A k \in num .. num' - 1 : spare_bytes_'[k] = <<digest, n + k - num>>
  BY <1>1, <1>3, <1>4, <1>5
<1>8. Written' = {<<digest, i>> : i \in 0 .. n - 1}
  BY <1>2 DEF Written
<1>9. Spare' = Spare \cup {<<digest, i>> : i \in n .. D - 1}
  <2>1. ASSUME NEW b \in Spare' PROVE b \in Spare \cup {<<digest, i>> : i \in n .. D - 1}
    <3>1. PICK k \in 0 .. num' - 1 : b = spare_bytes_'[k]
      BY DEF Spare
    <3>2. CASE k < num
      BY <1>1, <1>3, <1>6, <3>1, <3>2 DEF Spare
    <3>3. CASE k >= num
      <4>1. n + k - num \in n .. D - 1 /\ b = <<digest, n + k - num>>
        BY <1>1, <1>3, <1>7, <3>1, <3>3
      <4>2. QED
        BY <4>1
    <3>4. QED
      BY <1>1, <1>3, <3>2, <3>3
  <2>2. ASSUME NEW b \in Spare PROVE b \in Spare'
    <3>1. PICK k \in 0 .. num - 1 : b = spare_bytes_[k]
      BY DEF Spare
    <3>2. k \in 0 .. num' - 1 /\ b = spare_bytes_'[k]
      BY <1>1, <1>3, <1>6, <3>1
    <3>3. QED
      BY <3>2 DEF Spare
  <2>3. ASSUME NEW i \in n .. D - 1 PROVE <<digest, i>> \in Spare'
    <3>1. i + num - n \in 0 .. num' - 1 /\ i + num - n \in num .. num' - 1
      BY <1>1, <1>3
    <3>2. n + (i + num - n) - num = i
      BY <1>1
    <3>3. spare_bytes_'[i + num - n] = <<digest, i>>
      BY <1>7, <3>1, <3>2
    <3>4. QED
      BY <3>1, <3>3 DEF Spare
  <2>4. QED
    BY <2>1, <2>2, <2>3
<1>10. Generated' = Generated \cup {<<digest, i>> : i \in 0 .. D - 1}
  <2>1. counter_' = counter_ + 1 /\ hash_' = hash_
    BY DEF GetMoreRandomBytes
  <2>2. 0 .. counter_' - 1 = (0 .. counter_ - 1) \cup {counter_}
    BY <1>1, <2>1
  <2>3. {HashWithCounter(hash_', c) : c \in 0 .. counter_' - 1} =
          {HashWithCounter(hash_, c) : c \in 0 .. counter_ - 1} \cup {digest}
    BY <2>1, <2>2
  <2>4. QED
    BY <2>3 DEF Generated
<1>11. QED
  BY <1>2, <1>3, <1>6, <1>7, <1>8, <1>9, <1>10

\* A new digest, given in part and kept for the rest.
LEMMA MoreBytes ==
  ASSUME IInv, NEW n \in 0 .. DigestNumBytes, GetMoreRandomBytes(n)
  PROVE  NoByteTwice' /\ EveryByteAccounted'
<1> DEFINE D == DigestNumBytes
           digest == HashWithCounter(hash_, counter_)
           num == num_spare_bytes_
<1>1. /\ Written' = {<<digest, i>> : i \in 0 .. n - 1}
      /\ given' = given \cup Written
      /\ Spare' = Spare \cup {<<digest, i>> : i \in n .. D - 1}
      /\ Generated' = Generated \cup {<<digest, i>> : i \in 0 .. D - 1}
      /\ \A k \in 0 .. num - 1 : spare_bytes_'[k] = spare_bytes_[k]
      /\ \A k \in num .. num' - 1 : spare_bytes_'[k] = <<digest, n + k - num>>
      /\ num' = num + D - n
  BY AddedByDigest DEF IInv
<1>2. \A i : <<digest, i>> \notin Generated
  BY DigestIsFresh DEF IInv
<1>3. \A i : <<digest, i>> \notin given \cup Written \cup Spare
  BY <1>2 DEF IInv, EveryByteAccounted
<1>4. D \in Nat /\ n \in Nat /\ n <= D /\ num \in Nat
  BY HashChainAssumption DEF IInv, TypeOK
<1>5. NoByteTwice'
  <2>1. out' = [i \in 0 .. n - 1 |-> <<digest, i>>]
    BY DEF GetMoreRandomBytes, Write
  <2>2. \A i, j \in DOMAIN out' : out'[i] = out'[j] => i = j
    BY <2>1
  <2>3. Written' \cap given' = {}
    BY <1>1, <1>3
  <2>4. QED
    BY <2>2, <2>3 DEF NoByteTwice
<1>6. EveryByteAccounted'
  <2>1. {<<digest, i>> : i \in 0 .. D - 1} =
          {<<digest, i>> : i \in 0 .. n - 1} \cup {<<digest, i>> : i \in n .. D - 1}
    BY <1>4
  <2>2. (given \cup Written \cup Spare)' = Generated'
    BY <1>1, <2>1 DEF IInv, EveryByteAccounted
  <2>3. Spare' \cap (given \cup Written)' = {}
    <3>1. {<<digest, i>> : i \in n .. D - 1} \cap {<<digest, i>> : i \in 0 .. n - 1} = {}
      BY <1>4
    <3>2. Spare \cap (given \cup Written) = {}
      BY DEF IInv, EveryByteAccounted
    <3>3. QED
      BY <1>1, <1>3, <3>1, <3>2
  <2>4. ASSUME NEW j \in 0 .. num' - 1, NEW k \in 0 .. num' - 1,
               spare_bytes_'[j] = spare_bytes_'[k]
        PROVE  j = k
    <3>1. ASSUME NEW x \in 0 .. num - 1, NEW y \in num .. num' - 1
          PROVE  spare_bytes_'[x] # spare_bytes_'[y]
      BY <1>1, <1>3 DEF Spare
    <3>2. CASE j < num /\ k < num
      <4>1. j \in 0 .. num - 1 /\ k \in 0 .. num - 1
        BY <1>1, <1>4, <3>2
      <4>2. QED
        BY <1>1, <2>4, <4>1 DEF IInv, EveryByteAccounted
    <3>3. CASE j >= num /\ k >= num
      BY <1>1, <1>4, <2>4, <3>3
    <3>4. CASE j < num /\ k >= num
      BY <1>1, <1>4, <2>4, <3>1, <3>4
    <3>5. CASE j >= num /\ k < num
      BY <1>1, <1>4, <2>4, <3>1, <3>5
    <3>6. QED
      BY <1>1, <1>4, <3>2, <3>3, <3>4, <3>5
  <2>5. QED
    BY <2>2, <2>3, <2>4 DEF EveryByteAccounted
<1>7. QED
  BY <1>5, <1>6

\* Spare bytes handed out, and the rest of them moved to the front.
LEMMA BytesFromSpare ==
  ASSUME IInv, TailFromSpare
  PROVE  NoByteTwice' /\ EveryByteAccounted'
<1> DEFINE r == requested
           num == num_spare_bytes_
           D == DigestNumBytes
<1>1. r \in Nat /\ num \in Nat /\ r <= num /\ num < D /\ D \in Nat
  BY HashChainAssumption DEF IInv, TypeOK, SpareFits, TailFromSpare, TailFitsSpare
<1>2. DOMAIN spare_bytes_ = 0 .. 2 * D - 1
  BY DEF IInv, TypeOK
<1>3. out' = [i \in 0 .. r - 1 |-> spare_bytes_[i]] /\ given' = given \cup Written
  BY DEF TailFromSpare, Write
<1>4. num' = num - r /\ counter_' = counter_ /\ hash_' = hash_
  BY DEF TailFromSpare
<1>5. \A k \in 0 .. num' - 1 : k + r \in 0 .. num - 1 /\ spare_bytes_'[k] = spare_bytes_[k + r]
  <2>1. \A k \in 0 .. num' - 1 : k \in 0 .. 2 * D - 1 /\ k + r \in 0 .. 2 * D - 1
                                 /\ k + r \in 0 .. num - 1
    BY <1>1, <1>4
  <2>2. spare_bytes_' = [k \in DOMAIN spare_bytes_ |->
          IF k + r \in DOMAIN spare_bytes_ THEN spare_bytes_[k + r] ELSE spare_bytes_[k]]
    BY DEF TailFromSpare, SpareShifted
  <2>3. QED
    BY <1>2, <2>1, <2>2
<1>6. \A j, k \in 0 .. num - 1 : spare_bytes_[j] = spare_bytes_[k] => j = k
  BY DEF IInv, EveryByteAccounted
<1>7. Written' = {spare_bytes_[i] : i \in 0 .. r - 1}
  BY <1>3 DEF Written
<1>8. Spare' = {spare_bytes_[i] : i \in r .. num - 1}
  <2>1. ASSUME NEW b \in Spare' PROVE b \in {spare_bytes_[i] : i \in r .. num - 1}
    <3>1. PICK k \in 0 .. num' - 1 : b = spare_bytes_'[k]
      BY DEF Spare
    <3>2. k + r \in r .. num - 1 /\ b = spare_bytes_[k + r]
      BY <1>1, <1>4, <1>5, <3>1
    <3>3. QED
      BY <3>2
  <2>2. ASSUME NEW i \in r .. num - 1 PROVE spare_bytes_[i] \in Spare'
    <3>1. i - r \in 0 .. num' - 1 /\ (i - r) + r = i
      BY <1>1, <1>4
    <3>2. spare_bytes_[i] = spare_bytes_'[i - r]
      BY <1>5, <3>1
    <3>3. QED
      BY <3>1, <3>2 DEF Spare
  <2>3. QED
    BY <2>1, <2>2
<1>9. Spare = Written' \cup Spare' /\ Written' \cap Spare' = {}
  <2>1. 0 .. num - 1 = (0 .. r - 1) \cup (r .. num - 1)
    BY <1>1
  <2>2. Spare = {spare_bytes_[i] : i \in 0 .. num - 1}
    BY DEF Spare
  <2>3. Spare = Written' \cup Spare'
    BY <1>7, <1>8, <2>1, <2>2
  <2>4. \A i \in 0 .. r - 1, j \in r .. num - 1 : spare_bytes_[i] # spare_bytes_[j]
    BY <1>1, <1>6
  <2>5. QED
    BY <1>7, <1>8, <2>3, <2>4
<1>10. Spare \cap (given \cup Written) = {} /\ given \cup Written \cup Spare = Generated
  BY DEF IInv, EveryByteAccounted
<1>11. NoByteTwice'
  <2>1. \A i, j \in DOMAIN out' : out'[i] = out'[j] => i = j
    BY <1>1, <1>3, <1>6
  <2>2. QED
    BY <1>3, <1>9, <1>10, <2>1 DEF NoByteTwice
<1>12. EveryByteAccounted'
  <2>1. Generated' = Generated
    BY <1>4 DEF Generated
  <2>2. \A j, k \in 0 .. num' - 1 : spare_bytes_'[j] = spare_bytes_'[k] => j = k
    <3> SUFFICES ASSUME NEW j \in 0 .. num' - 1, NEW k \in 0 .. num' - 1,
                        spare_bytes_'[j] = spare_bytes_'[k]
                 PROVE  j = k
      OBVIOUS
    <3>1. j + r = k + r
      BY <1>5, <1>6
    <3>2. QED
      BY <1>1, <1>4, <3>1
  <2>3. QED
    BY <1>3, <1>9, <1>10, <2>1, <2>2 DEF EveryByteAccounted
<1>13. QED
  BY <1>11, <1>12

\* The bounds that each step keeps, SpareFits among them: a tail taken from a new
\* digest is longer than what was spare, so the two rests together are shorter
\* than a digest.
LEMMA StepBounds ==
  ASSUME IInv, Next
  PROVE  TypeOK' /\ SpareFits'
<1> DEFINE D == DigestNumBytes
<1>1. /\ D \in Nat \ {0} /\ MaxRequest \in Nat /\ MaxCounter \in Nat /\ MaxMixes \in Nat
      /\ Idle \notin Nat
      /\ num_spare_bytes_ \in Nat /\ num_spare_bytes_ < D
  BY HashChainAssumption DEF IInv, TypeOK, SpareFits
<1>2. ASSUME NEW n \in 0 .. MaxRequest, GetRandomBytes(n) PROVE TypeOK' /\ SpareFits'
  BY <1>2 DEF IInv, TypeOK, SpareFits, GetRandomBytes
<1>3. ASSUME NEW n \in 0 .. D, GetMoreRandomBytes(n),
             requested' \in 0 .. MaxRequest \cup {Idle},
             n = D \/ num_spare_bytes_ < n
      PROVE  TypeOK' /\ SpareFits'
  <2>1. num_spare_bytes_' = num_spare_bytes_ + (D - n) /\ counter_' = counter_ + 1
        /\ counter_ < MaxCounter /\ mixes' = mixes
    BY <1>3 DEF GetMoreRandomBytes, SpareAndRest
  <2>2. DOMAIN out' = 0 .. n - 1
    BY <1>3 DEF GetMoreRandomBytes, Write
  <2>3. DOMAIN spare_bytes_' = DOMAIN spare_bytes_
    BY <1>3 DEF GetMoreRandomBytes, RestOfDigest
  <2>4. num_spare_bytes_' < D /\ num_spare_bytes_' \in 0 .. 2 * D
    BY <1>1, <1>3, <2>1
  <2>5. counter_' \in 0 .. MaxCounter
    BY <1>1, <2>1 DEF IInv, TypeOK
  <2>6. QED
    BY <1>3, <2>1, <2>2, <2>3, <2>4, <2>5 DEF IInv, TypeOK, SpareFits
<1>4. CASE FullBlock
  <2>1. requested \in 0 .. MaxRequest /\ requested >= D
    BY <1>1, <1>4 DEF IInv, TypeOK, FullBlock
  <2>2. requested' \in 0 .. MaxRequest
    BY <1>1, <1>4, <2>1 DEF FullBlock
  <2>3. GetMoreRandomBytes(D) /\ D \in 0 .. D
    BY <1>1, <1>4 DEF FullBlock
  <2>4. QED
    BY <1>3, <2>2, <2>3
<1>5. CASE TailFromSpare
  <2>1. requested \in Nat /\ requested <= num_spare_bytes_
    BY <1>1, <1>5 DEF IInv, TypeOK, TailFromSpare, TailFitsSpare
  <2>2. DOMAIN out' = 0 .. requested - 1 /\ requested \in 0 .. D
    BY <1>1, <1>5, <2>1 DEF TailFromSpare, Write
  <2>3. num_spare_bytes_' \in 0 .. 2 * D /\ num_spare_bytes_' < D
    BY <1>1, <1>5, <2>1 DEF TailFromSpare
  <2>4. DOMAIN spare_bytes_' = DOMAIN spare_bytes_
    BY <1>5 DEF TailFromSpare, SpareShifted
  <2>5. QED
    BY <1>5, <2>2, <2>3, <2>4 DEF IInv, TypeOK, SpareFits, TailFromSpare
<1>6. CASE TailFromDigest
  <2>1. requested \in 0 .. MaxRequest /\ requested < D
    BY <1>1, <1>6 DEF IInv, TypeOK, TailFromDigest
  <2>2. requested \in 0 .. D /\ num_spare_bytes_ < requested
    BY <1>1, <1>6, <2>1 DEF TailFromDigest, TailFitsSpare
  <2>3. QED
    BY <1>3, <1>6, <2>2 DEF TailFromDigest
<1>7. ASSUME NEW message \in Messages, MixSeedWithBytes(message)
      PROVE  TypeOK' /\ SpareFits'
  <2>1. DOMAIN out' = 0 .. 0 - 1 /\ 0 \in 0 .. D
    BY <1>1, <1>7 DEF MixSeedWithBytes, NoBytes
  <2>2. QED
    BY <1>1, <1>7, <2>1 DEF IInv, TypeOK, SpareFits, MixSeedWithBytes
<1>8. CASE OutOfDigests
  BY <1>8 DEF IInv, TypeOK, SpareFits, OutOfDigests, vars
<1>9. QED
  BY <1>2, <1>4, <1>5, <1>6, <1>7, <1>8 DEF Next

\* Whoever changes nothing of the bytes keeps what is said of them.
LEMMA BytesUnchanged ==
  ASSUME IInv,
         UNCHANGED <<hash_, counter_, num_spare_bytes_, spare_bytes_, out, given>>
  PROVE  NoByteTwice' /\ EveryByteAccounted'
BY DEF IInv, NoByteTwice, EveryByteAccounted, Written, Spare, Generated

LEMMA StepBytes ==
  ASSUME IInv, Next
  PROVE  NoByteTwice' /\ EveryByteAccounted'
<1>1. ASSUME NEW n \in 0 .. MaxRequest, GetRandomBytes(n)
      PROVE  NoByteTwice' /\ EveryByteAccounted'
  BY <1>1, BytesUnchanged DEF GetRandomBytes
<1>2. CASE FullBlock
  <2>1. DigestNumBytes \in 0 .. DigestNumBytes
    BY HashChainAssumption
  <2>2. QED
    BY <1>2, <2>1, MoreBytes DEF FullBlock
<1>3. CASE TailFromSpare
  BY <1>3, BytesFromSpare
<1>4. CASE TailFromDigest
  <2>1. requested \in 0 .. DigestNumBytes
    BY <1>4, HashChainAssumption DEF TailFromDigest, IInv, TypeOK
  <2>2. QED
    BY <1>4, <2>1, MoreBytes DEF TailFromDigest
<1>5. ASSUME NEW message \in Messages, MixSeedWithBytes(message)
      PROVE  NoByteTwice' /\ EveryByteAccounted'
  <2>1. counter_' = 0 /\ num_spare_bytes_' = 0 /\ out' = NoBytes /\ given' = {}
    BY <1>5 DEF MixSeedWithBytes
  <2>2. Written' = {} /\ Spare' = {} /\ Generated' = {} /\ DOMAIN out' = {}
    BY <2>1, SMT DEF Written, Spare, Generated, NoBytes
  <2>3. QED
    BY <2>1, <2>2 DEF NoByteTwice, EveryByteAccounted
<1>6. CASE OutOfDigests
  BY <1>6, BytesUnchanged DEF OutOfDigests, vars
<1>7. QED
  BY <1>1, <1>2, <1>3, <1>4, <1>5, <1>6 DEF Next

LEMMA MoreSeeds ==
  ASSUME IInv, NEW n, GetMoreRandomBytes(n)
  PROVE  Seeds'
<1> DEFINE digest == Hash(hash_, 0, counter_)
<1>1. hash_ \in Digest /\ counter_ \in Nat
  BY DEF IInv, Seeds, TypeOK
<1>2. Len(hash_) \in Nat
  BY <1>1, LenProperties DEF Digest
<1>3. digest \in Digest /\ digest # <<>> /\ LastIncrement(digest) = 0
  <2>1. /\ digest \in Digest /\ digest # <<>>
        /\ Len(digest) = Len(hash_) + 1 /\ digest[Len(hash_) + 1] = <<0, counter_>>
    BY <1>1, HashLast
  <2> HIDE DEF digest
  <2>2. QED
    BY <2>1 DEF LastIncrement
<1>4. hash_' = hash_ /\ digests' = digests \cup {digest}
  BY DEF GetMoreRandomBytes, HashWithCounter
<1> HIDE DEF digest
<1>5. QED
  BY <1>3, <1>4 DEF IInv, Seeds

LEMMA MixSeeds ==
  ASSUME IInv, NEW message \in Messages, MixSeedWithBytes(message)
  PROVE  Seeds'
<1> DEFINE seed == Hash(hash_, 1, message)
<1>1. hash_ \in Digest
  BY DEF IInv, Seeds
<1>2. Len(hash_) \in Nat
  BY <1>1, LenProperties DEF Digest
<1>3. /\ seed \in Digest /\ Len(seed) = Len(hash_) + 1
      /\ LastIncrement(seed) = 1
  <2>1. /\ seed \in Digest /\ Len(seed) = Len(hash_) + 1
        /\ seed[Len(hash_) + 1] = <<1, message>>
    BY <1>1, HashLast
  <2> HIDE DEF seed
  <2>2. QED
    BY <2>1 DEF LastIncrement
<1>4. hash_' = seed /\ digests' = digests \cup {hash_}
  BY DEF MixSeedWithBytes, SeedIncrement
<1> HIDE DEF seed
<1>5. ASSUME NEW d \in digests'
      PROVE  /\ d \in Digest
             /\ Len(d) < Len(seed) \/ (d # <<>> /\ LastIncrement(d) = 0)
  <2>1. CASE d = hash_
    BY <1>1, <1>2, <1>3, <2>1
  <2>2. CASE d \in digests
    <3>1. Len(d) \in Nat
      BY <2>2, LenProperties DEF IInv, Seeds, Digest
    <3>2. QED
      BY <1>2, <1>3, <2>2, <3>1 DEF IInv, Seeds
  <2>3. QED
    BY <1>4, <1>5, <2>1, <2>2
<1>6. QED
  BY <1>3, <1>4, <1>5 DEF Seeds

LEMMA StepSeeds ==
  ASSUME IInv, Next
  PROVE  Seeds'
<1>1. CASE FullBlock \/ TailFromDigest
  BY <1>1, MoreSeeds DEF FullBlock, TailFromDigest
<1>2. CASE \E message \in Messages : MixSeedWithBytes(message)
  BY <1>2, MixSeeds
<1>3. CASE UNCHANGED <<hash_, digests>>
  BY <1>3 DEF IInv, Seeds
<1>4. QED
  BY <1>1, <1>2, <1>3 DEF Next, GetRandomBytes, TailFromSpare, OutOfDigests, vars

LEMMA IInvTheorem == Spec => []IInv
<1>1. Init => IInv
  <2> SUFFICES ASSUME Init PROVE IInv
    OBVIOUS
  <2>1. NoByteTwice /\ EveryByteAccounted
    BY StartOver DEF Init
  <2>2. DOMAIN out = 0 .. 0 - 1 /\ 0 \in 0 .. DigestNumBytes
    BY HashChainAssumption DEF Init, NoBytes
  <2>3. TypeOK /\ SpareFits
    BY HashChainAssumption, <2>2 DEF Init, TypeOK, SpareFits
  <2>4. Seeds
    BY EmptySeq DEF Init, Seeds, PublicSeed, Digest
  <2>5. QED
    BY <2>1, <2>3, <2>4 DEF IInv
<1>2. IInv /\ [Next]_vars => IInv'
  <2> SUFFICES ASSUME IInv, [Next]_vars PROVE IInv'
    OBVIOUS
  <2>1. CASE Next
    BY <2>1, StepBounds, StepBytes, StepSeeds DEF IInv
  <2>2. CASE UNCHANGED vars
    BY <2>2, BytesUnchanged DEF IInv, TypeOK, SpareFits, Seeds, vars
  <2>3. QED
    BY <2>1, <2>2
<1>3. QED
  BY <1>1, <1>2, PTL DEF Spec

\* The counters stay in their ranges and the array is never written past its end.
THEOREM TypeOKTheorem == Spec => []TypeOK
BY IInvTheorem, PTL DEF IInv

\* hash_chain.cc:102: the assertion "Not enough room in spare bytes buffer" never
\* fails, for any digest size and any sequence of requests.
THEOREM SpareFitsTheorem == Spec => []SpareFits
BY IInvTheorem, PTL DEF IInv

\* No byte of randomness is handed out twice under a seed.
THEOREM NoByteTwiceTheorem == Spec => []NoByteTwice
BY IInvTheorem, PTL DEF IInv

\* Every byte generated under a seed is given or spare, and not both.
THEOREM EveryByteAccountedTheorem == Spec => []EveryByteAccounted
BY IInvTheorem, PTL DEF IInv

\* hash_chain.h: the increment separates seeds from the digests whose bytes are
\* handed out.  A seed is none of them and no earlier seed, whatever is mixed in.
THEOREM SeedIsNewTheorem == Spec => []SeedIsNew
<1>1. IInv => SeedIsNew
  <2> SUFFICES ASSUME IInv, hash_ \in digests PROVE FALSE
    BY DEF SeedIsNew
  <2>1. Len(hash_) \in Nat
    BY LenProperties DEF IInv, Seeds, Digest
  <2>2. QED
    BY <2>1 DEF IInv, Seeds
<1>2. QED
  BY <1>1, IInvTheorem, PTL
=============================================================================
