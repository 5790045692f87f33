------------------------------ MODULE TracePools ------------------------------
(***************************************************************************)
(* The memory pool and the range-check pool of CpuAir::GetTrace            *)
(* (air/cpu/board/cpu_air.inl): the concurrent writes of the CPU steps,    *)
(* the public memory, the range-check builtin, the two Finalize methods    *)
(* that fill the holes (memory_cell.inl, range_check_cell.inl), the sorted *)
(* columns (memory.inl, perm_range_check.inl) and the products that the    *)
(* interaction trace ends with (permutation.inl).                          *)
(*                                                                         *)
(* A step makes one memory access and one range-check write where the      *)
(* code's steps interleave several, and the memory has every address they  *)
(* access.  A field element is a number and a 64-bit word one up to        *)
(* MaxWord.  A product over random interaction elements is the bag of its  *)
(* factors.                                                                *)
(***************************************************************************)
EXTENDS Integers, Sequences, FiniteSets

CONSTANTS
  MaxWord,        \* 2^64 - 1 in the code
  n_steps,
  PublicSize,     \* of the virtual column orig/public_memory
  n_instances, n_parts, PartBase,    \* of the range-check builtin; PartBase is 2^shift_bits_
  begin_addr,     \* of its memory segment
  MemVacant, RcVacant,               \* cells of the pools that no component writes
  Inputs,         \* the statements
  Empty           \* a cell of a pool whose is_initialized_ is false

NoOne == 0      \* holds no lock

Steps == 1..n_steps
PublicIndex(i) == n_steps + i                        \* i counts from 1
InstanceIndex(i) == n_steps + PublicSize + i + 1     \* i counts from 0
PartIndex(i, part) == n_steps + i * n_parts + part + 1
MemIndices == 1 .. (n_steps + PublicSize + n_instances + MemVacant)
RcIndices == 1 .. (n_steps + n_instances * n_parts + RcVacant)
Instances == 0 .. (n_instances - 1)

ASSUME PoolsAssumption ==
  /\ MaxWord \in Nat /\ n_steps \in Nat \ {0} /\ PublicSize \in Nat
  /\ n_instances \in Nat /\ n_parts \in Nat \ {0} /\ PartBase \in Nat \ {0, 1}
  /\ PartBase <= MaxWord /\ begin_addr \in 0..MaxWord /\ MemVacant \in Nat /\ RcVacant \in Nat
  /\ \A in \in Inputs :
       /\ in.access \in [Steps -> 0..MaxWord] /\ in.memory \in [0..MaxWord -> Nat]
       /\ in.offset \in [Steps -> Nat]
       /\ in.public \in Seq((0..MaxWord) \X Nat) /\ Len(in.public) > 0
       /\ in.rc_min \in Nat /\ in.rc_max \in Nat
       /\ in.rc_min <= in.rc_max /\ in.rc_max < PartBase    \* CpuAir's constructor
       /\ DOMAIN in.private \subseteq Instances /\ \A i \in DOMAIN in.private : in.private[i] \in Nat
  /\ Empty \notin Nat \cup (Nat \X Nat)

VARIABLES
  in,             \* the memory, the CPU trace, the public input and the private input
  pc,             \* what each CPU step has done
  write_trace_lock_,                 \* of the memory pool
  read_range,     \* the address range as a step under the lock has read it
  cell,           \* address_, value_ and is_initialized_, by index
  column,         \* the pool's virtual columns in the trace
  public_input_indices_,
  address_min_, address_max_,
  rc,             \* values_ and is_initialized_ of the range-check pool
  stage, next,    \* of GetTrace, and the loop counter in it
  used,           \* value_set or address_set: what the pool held before it is filled
  last_hole, orig_address_max,
  sorted,         \* the indices in the order of the sorted columns
  aborted         \* the assertion or exception that ended the run

range == <<address_min_, address_max_>>
memory == <<cell, column, public_input_indices_, range>>
scan == <<used, last_hole, orig_address_max>>
control == <<stage, next, scan>>
vars == <<in, pc, write_trace_lock_, read_range, memory, rc, control, sorted, aborted>>

Smaller(a, b) == IF a < b THEN a ELSE b
Larger(a, b) == IF a > b THEN a ELSE b
Word(n) == n % (MaxWord + 1)

Init ==
  /\ in \in Inputs
  /\ pc = [t \in Steps |-> "start"]
  /\ write_trace_lock_ = NoOne
  /\ read_range = [t \in Steps |-> <<0, 0>>]
  /\ cell = [i \in MemIndices |-> Empty]
  /\ column = [i \in MemIndices |-> <<0, 0>>]
  /\ public_input_indices_ = {}
  /\ address_min_ = MaxWord /\ address_max_ = 0
  /\ rc = [i \in RcIndices |-> Empty]
  /\ stage = "cpu" /\ next = 1
  /\ used = {} /\ last_hole = 0 /\ orig_address_max = 0
  /\ sorted = <<>>
  /\ aborted = "no"

Running == aborted = "no"
Abort(why) ==
  /\ aborted' = why
  /\ UNCHANGED <<in, pc, write_trace_lock_, read_range, memory, rc, control, sorted>>

GoTo(s) == stage' = s /\ next' = 1

(***************************************************************************)
(* The CPU steps, each in a task of its own.                               *)
(***************************************************************************)

\* What a step reads of the memory file at the address it accesses.
Access(t) == <<in.access[t], in.memory[in.access[t]]>>

\* Slip: the range is read and written without the lock.
CanEnter(t) == pc[t] = "start"

CanLock(t) == write_trace_lock_ = NoOne

\* MemoryCell::WriteTrace of a step, up to its reading of the address range.
EnterWrite(t) ==
  /\ Running /\ stage = "cpu" /\ pc[t] = "start" /\ CanLock(t)
  /\ IF cell[t] # Empty THEN Abort("already written") ELSE
       /\ write_trace_lock_' = t
       /\ cell' = [cell EXCEPT ![t] = Access(t)]
       /\ read_range' = [read_range EXCEPT ![t] = range]
       /\ pc' = [pc EXCEPT ![t] = "locked"]
       /\ UNCHANGED <<in, column, public_input_indices_, range, rc, control, sorted, aborted>>

\* ... and from there to the unlock.
LeaveWrite(t) ==
  /\ Running /\ pc[t] = "locked"
  /\ address_min_' = Smaller(Access(t)[1], read_range[t][1])
  /\ address_max_' = Larger(Access(t)[1], read_range[t][2])
  /\ column' = [column EXCEPT ![t] = Access(t)]
  /\ write_trace_lock_' = IF write_trace_lock_ = t THEN NoOne ELSE write_trace_lock_
  /\ pc' = [pc EXCEPT ![t] = "accessed"]
  /\ UNCHANGED <<in, read_range, cell, public_input_indices_, rc, control, sorted, aborted>>

\* TableCheckCell::WriteTrace of a step: all of it is under that pool's lock.
WriteOffset(t) ==
  /\ Running /\ pc[t] = "accessed"
  /\ IF rc[t] # Empty THEN Abort("already written") ELSE
       /\ rc' = [rc EXCEPT ![t] = in.offset[t]]
       /\ pc' = [pc EXCEPT ![t] = "done"]
       /\ UNCHANGED <<in, write_trace_lock_, read_range, memory, control, sorted, aborted>>

\* ParallelFor returns.
StepsDone ==
  /\ Running /\ stage = "cpu" /\ \A t \in Steps : pc[t] = "done"
  /\ GoTo("public")
  /\ UNCHANGED <<in, pc, write_trace_lock_, read_range, memory, rc, scan, sorted, aborted>>

(***************************************************************************)
(* The rest of GetTrace is one thread.                                     *)
(***************************************************************************)

\* Slip: the trace shows the public memory.
WriteCellShown(i, address, value, is_public) ==
  /\ cell' = [cell EXCEPT ![i] = <<address, value>>]
  /\ address_min_' = Smaller(address, address_min_)
  /\ address_max_' = Larger(address, address_max_)
  /\ column' = [column EXCEPT ![i] = <<address, value>>]
  /\ public_input_indices_' = public_input_indices_ \union (IF is_public THEN {i} ELSE {})

\* MemoryCell::WriteTrace when nobody else holds the lock.
WriteCell(i, address, value, is_public) ==
  /\ cell' = [cell EXCEPT ![i] = <<address, value>>]
  /\ address_min_' = Smaller(address, address_min_)
  /\ address_max_' = Larger(address, address_max_)
  /\ column' = [column EXCEPT ![i] = IF is_public THEN <<0, 0>> ELSE <<address, value>>]
  /\ public_input_indices_' = public_input_indices_ \union (IF is_public THEN {i} ELSE {})

rest == <<in, pc, write_trace_lock_, read_range, sorted, aborted>>

\* Entry i of the public memory, or its first entry as padding.
PublicEntry(i) == IF i <= Len(in.public) THEN in.public[i] ELSE in.public[1]

WritePublicMemory ==
  /\ Running /\ stage = "public"
  /\ IF Len(in.public) > PublicSize THEN Abort("public memory too large")
     ELSE IF next > PublicSize
     THEN /\ GoTo("builtin") /\ UNCHANGED <<rest, memory, rc, scan>>
     ELSE IF cell[PublicIndex(next)] # Empty THEN Abort("already written") ELSE
       /\ WriteCell(PublicIndex(next), PublicEntry(next)[1], PublicEntry(next)[2], TRUE)
       /\ next' = next + 1
       /\ UNCHANGED <<rest, rc, stage, scan>>

\* Powers of PartBase.
Power[k \in 0..n_parts] == IF k = 0 THEN 1 ELSE PartBase * Power[k - 1]
\* Part number part of a value, the most significant first.
PartOf(value, part) == (value \div Power[n_parts - 1 - part]) % PartBase
FromParts(parts) ==
  LET sum[k \in 0..n_parts] == IF k = 0 THEN 0 ELSE sum[k - 1] * PartBase + parts[k - 1]
  IN  sum[n_parts]
PartIndices(i) == {PartIndex(i, part) : part \in 0 .. (n_parts - 1)}

TooLarge(i) == in.private[i] >= Power[n_parts]
\* The instances with a private input whose parts are written, in their order:
\* the value's size is checked after its parts.
Reached == {i \in DOMAIN in.private : \A j \in DOMAIN in.private : j < i => ~TooLarge(j)}

\* RangeCheckBuiltinProverContext::WriteTrace.
BuiltinWrite ==
  /\ Running /\ stage = "builtin"
  /\ rc' = [k \in RcIndices |->
              IF \E i \in Reached : k \in PartIndices(i)
              THEN LET i == CHOOSE i \in Reached : k \in PartIndices(i)
                   IN  PartOf(in.private[i], k - PartIndex(i, 0))
              ELSE rc[k]]
  /\ IF \E i \in DOMAIN in.private : TooLarge(i)
     THEN /\ aborted' = "too large value"
          /\ UNCHANGED <<in, pc, write_trace_lock_, read_range, memory, control, sorted>>
     ELSE GoTo("rc finalize") /\ UNCHANGED <<rest, memory, scan>>

(***************************************************************************)
(* RangeCheckCell::Finalize.                                               *)
(***************************************************************************)
Contents(pool) == {pool[i] : i \in DOMAIN pool} \ {Empty}

BeginRcFinalize ==
  /\ Running /\ stage = "rc finalize"
  /\ IF in.rc_min >= in.rc_max THEN Abort("rc_min must be smaller")
     ELSE IF ~(Contents(rc) \subseteq in.rc_min .. in.rc_max) THEN Abort("out of range value")
     ELSE /\ GoTo("rc fill")
          /\ used' = Contents(rc)
          /\ last_hole' = Word(in.rc_min - 1)
          /\ UNCHANGED <<rest, memory, rc, orig_address_max>>

\* The next hole above h, or rc_max; nothing is above rc_max.
NextRcHole(h) ==
  IF h = in.rc_max THEN h
  ELSE LET above == {v \in Word(h + 1) .. in.rc_max : v \notin used \/ v = in.rc_max}
       IN  CHOOSE v \in above : \A w \in above : v <= w

FillRc ==
  /\ Running /\ stage = "rc fill" /\ next \in RcIndices
  /\ IF rc[next] # Empty THEN UNCHANGED <<rc, last_hole>>
     ELSE /\ last_hole' = NextRcHole(last_hole)
          /\ rc' = [rc EXCEPT ![next] = last_hole']
  /\ next' = next + 1
  /\ UNCHANGED <<rest, memory, stage, used, orig_address_max>>

EndRcFinalize ==
  /\ Running /\ stage = "rc fill" /\ next \notin RcIndices
  /\ IF \E v \in Word(last_hole + 1) .. in.rc_max : v \notin used
     THEN Abort("range-check holes remain")
     ELSE GoTo("builtin finalize") /\ UNCHANGED <<rest, memory, rc, scan>>

\* RangeCheckBuiltinProverContext::Finalize: every instance, those that had no
\* private input included, whose parts are what Finalize of the pool gave them.
BuiltinFinalize ==
  /\ Running /\ stage = "builtin finalize"
  /\ LET i == next - 1
         parts == [part \in 0 .. (n_parts - 1) |-> rc[PartIndex(i, part)]]
     IN  IF i \notin Instances
         THEN GoTo("mem finalize") /\ UNCHANGED <<rest, memory, rc, scan>>
         ELSE IF \E k \in PartIndices(i) : rc[k] = Empty THEN Abort("uninitialized value")
         ELSE IF cell[InstanceIndex(i)] # Empty THEN Abort("already written")
         ELSE /\ WriteCell(InstanceIndex(i), Word(begin_addr + i), FromParts(parts), FALSE)
              /\ next' = next + 1
              /\ UNCHANGED <<rest, rc, stage, scan>>

(***************************************************************************)
(* MemoryCell::Finalize.  The sizes and positions of address_set are words *)
(* too: the whole address space has size 0, and at() throws.               *)
(***************************************************************************)
Addresses == {c[1] : c \in Contents(cell)}
SetSize == Word(address_max_ - address_min_ + 1)

BeginMemFinalize ==
  /\ Running /\ stage = "mem finalize"
  /\ IF address_min_ > address_max_ THEN Abort("address_min_ must be smaller")
     ELSE IF ~(Addresses \subseteq address_min_ .. address_max_) THEN Abort("out of range address")
     ELSE IF SetSize = 0 THEN Abort("at() out of range")
     ELSE /\ GoTo("mem fill")
          /\ used' = Addresses
          /\ last_hole' = address_min_ /\ orig_address_max' = address_max_
          /\ UNCHANGED <<rest, memory, rc>>

\* Unused addresses from h on.
HolesFrom(h) == (h .. orig_address_max) \ used
\* The scan for a hole passes orig_address_max unless that is the last word:
\* then it starts over at 0, which is no position of address_set.
PassesTheEnd(h) == HolesFrom(h) = {} /\ orig_address_max = MaxWord
NextHole(h) ==
  IF HolesFrom(h) = {} THEN orig_address_max + 1
  ELSE CHOOSE a \in HolesFrom(h) : \A b \in HolesFrom(h) : a <= b

FillMem ==
  /\ Running /\ stage = "mem fill" /\ next \in MemIndices
  /\ IF cell[next] # Empty
     THEN /\ next' = next + 1
          /\ UNCHANGED <<rest, memory, rc, stage, scan>>
     ELSE IF PassesTheEnd(last_hole) THEN Abort("at() out of range")
     ELSE /\ WriteCell(next, NextHole(last_hole), 0, FALSE)
          /\ last_hole' = IF NextHole(last_hole) <= orig_address_max
                          THEN Word(NextHole(last_hole) + 1) ELSE NextHole(last_hole)
          /\ next' = next + 1
          /\ UNCHANGED <<rest, rc, stage, used, orig_address_max>>

\* The holes that remain are counted by the same scan.
EndMemFinalize ==
  /\ Running /\ stage = "mem fill" /\ next \notin MemIndices
  /\ IF orig_address_max = MaxWord THEN Abort("at() out of range")
     ELSE IF HolesFrom(last_hole) # {} THEN Abort("memory holes remain")
     ELSE GoTo("sort") /\ UNCHANGED <<rest, memory, rc, scan>>

(***************************************************************************)
(* The sorted columns and the products.                                    *)
(***************************************************************************)

\* AddressBasedSort leaves the order of equal addresses open, so that the next
\* row may be any of the cells with the lowest address that is left.
Left == {i \in MemIndices : \A k \in DOMAIN sorted : sorted[k] # i}
Lowest(i) == i \in Left /\ \A j \in Left : cell[i][1] <= cell[j][1]
\* Slip: the values are not compared.
ValidAddresses(i, j) == cell[j][1] \in {cell[i][1], Word(cell[i][1] + 1)}

ValidConsecutive(i, j) ==
  \/ cell[i] = cell[j]
  \/ cell[j][1] = Word(cell[i][1] + 1)

SortMem ==
  /\ Running /\ stage = "sort"
  /\ IF Left = {} THEN GoTo("rc sort") /\ UNCHANGED <<rest, memory, rc, scan>>
     ELSE \E i \in Left :
       /\ Lowest(i)
       /\ IF sorted # <<>> /\ ~ValidConsecutive(sorted[Len(sorted)], i)
          THEN Abort("problem with memory")
          ELSE /\ sorted' = Append(sorted, i)
               /\ UNCHANGED <<in, pc, write_trace_lock_, read_range, memory, rc, control, aborted>>

\* The sorted column of the range-check pool has no gap if its set has none.
SortRc ==
  /\ Running /\ stage = "rc sort"
  /\ IF \E v, w \in Contents(rc) : v < w /\ v + 1 \notin Contents(rc)
     THEN Abort("missing range-check values")
     ELSE GoTo("interaction") /\ UNCHANGED <<rest, memory, rc, scan>>

HowOften(x, S, f(_)) == Cardinality({i \in S : f(i) = x})

\* What the interaction trace takes for the columns of the pool.
Unsorted(i) == IF i \in public_input_indices_ THEN <<0, 0>> ELSE cell[i]

\* GetPublicMemoryProd, from the statement alone: a power of z over the factors
\* of the public memory and its padding.
PublicFactors(x) == HowOften(x, 1..PublicSize, PublicEntry)

\* The last cumulative product, of the unsorted over the sorted factors, is the
\* expected one: the same bag of factors on both sides.
ProductsAgree ==
  \A x \in Contents(cell) \cup {PublicEntry(i) : i \in 1..PublicSize} \cup {<<0, 0>>} :
    HowOften(x, MemIndices, Unsorted) + PublicFactors(x)
      = HowOften(x, DOMAIN sorted, LAMBDA k : cell[sorted[k]])
          + (IF x = <<0, 0>> THEN PublicSize ELSE 0)

Interaction ==
  /\ Running /\ stage = "interaction"
  /\ IF ~ProductsAgree THEN Abort("last value in cum_prod column")
     ELSE GoTo("done") /\ UNCHANGED <<rest, memory, rc, scan>>

Stopped == (aborted # "no" \/ stage = "done") /\ UNCHANGED vars

Next ==
  \/ \E t \in Steps : EnterWrite(t) \/ LeaveWrite(t) \/ WriteOffset(t)
  \/ StepsDone \/ WritePublicMemory \/ BuiltinWrite
  \/ BeginRcFinalize \/ FillRc \/ EndRcFinalize \/ BuiltinFinalize
  \/ BeginMemFinalize \/ FillMem \/ EndMemFinalize
  \/ SortMem \/ SortRc \/ Interaction
  \/ Stopped

Spec == Init /\ [][Next]_vars

-----------------------------------------------------------------------------
(***************************************************************************)
(* What the statement alone says.                                          *)
(***************************************************************************)
Filled == Instances \ DOMAIN in.private     \* instances that get what is left over
GivenPairs ==
  {Access(t) : t \in Steps} \cup {in.public[k] : k \in DOMAIN in.public}
    \cup {<<Word(begin_addr + i), in.private[i]>> : i \in DOMAIN in.private}
GivenAddresses == {p[1] : p \in GivenPairs}
FilledAddresses == {Word(begin_addr + i) : i \in Filled}
IsMemory(pairs) == \A p, q \in pairs : p[1] = q[1] => p = q

Gaps(S) == {a \in 0..MaxWord : /\ \E x \in S : x < a
                               /\ \E x \in S : x > a} \ S
MemFits ==
  /\ MaxWord \notin GivenAddresses \cup FilledAddresses
  /\ Cardinality(Gaps(GivenAddresses \cup FilledAddresses)) <= MemVacant

GivenRc ==
  {in.offset[t] : t \in Steps}
    \cup {PartOf(in.private[i], part) : i \in DOMAIN in.private, part \in 0 .. (n_parts - 1)}
RcFits ==
  /\ in.rc_min < in.rc_max
  /\ GivenRc \subseteq in.rc_min .. in.rc_max
  /\ Cardinality((in.rc_min .. in.rc_max) \ GivenRc) <= RcVacant + n_parts * Cardinality(Filled)

InputsFit ==
  /\ Len(in.public) <= PublicSize
  /\ \A i \in DOMAIN in.private : in.private[i] < Power[n_parts]

TypeOK ==
  /\ write_trace_lock_ \in {NoOne} \cup Steps
  /\ \A i \in MemIndices : cell[i] = Empty \/ cell[i] \in (0..MaxWord) \X Nat
  /\ \A i \in RcIndices : rc[i] = Empty \/ rc[i] \in Nat
  /\ address_min_ \in 0..MaxWord /\ address_max_ \in 0..MaxWord
  /\ last_hole \in 0..MaxWord /\ used \subseteq Contents(rc) \cup 0..MaxWord
  /\ public_input_indices_ \subseteq MemIndices

\* A trace is only made of a memory: the accesses of the CPU, the public memory
\* and the builtin's values have one value per address, though the sort sees
\* equal addresses in any order, no address is left out between the lowest and
\* the highest, and the range-checked values are those the statement claims.
TracesOnlyAMemory ==
  stage = "done" =>
    /\ InputsFit /\ MemFits /\ RcFits
    /\ IsMemory(Contents(cell)) /\ GivenPairs \subseteq Contents(cell)
    /\ Addresses = address_min_ .. address_max_
    /\ Contents(rc) = in.rc_min .. in.rc_max

\* And GetTrace stops for no other reason than the statement: whatever the order
\* in which the steps write, with whichever cells left to be filled, no assertion
\* fails if the pools have room for the holes and the inputs agree.  (What a
\* builtin instance without private input gets is of no use as memory.)
StopsOnlyForTheStatement ==
  /\ TypeOK
  /\ aborted # "no" =>
       \/ ~InputsFit \/ ~MemFits \/ ~RcFits
       \/ ~IsMemory(GivenPairs)
       \/ FilledAddresses \cap GivenAddresses # {}

\* The trace holds what the interaction trace is made from: the columns written
\* step by step, with zeros for the public memory, and the public memory of the
\* statement, padding included, are together a permutation of the sorted columns
\* and as many zeros; and a builtin instance's memory value is the number that
\* its range-checked parts spell.
ColumnsAddUp ==
  stage = "done" =>
    /\ \A x \in Contents(cell) \cup {<<0, 0>>} :
         HowOften(x, MemIndices, LAMBDA i : column[i]) + PublicFactors(x)
           = HowOften(x, DOMAIN sorted, LAMBDA k : cell[sorted[k]])
               + (IF x = <<0, 0>> THEN PublicSize ELSE 0)
    /\ \A i \in Instances :
         cell[InstanceIndex(i)][2] = FromParts([part \in 0 .. (n_parts - 1) |-> rc[PartIndex(i, part)]])
===============================================================================
