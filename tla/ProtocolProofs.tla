---------------------------- MODULE ProtocolProofs ----------------------------
(***************************************************************************)
(* Proofs about Protocol, for every list of FRI steps and every number of  *)
(* interaction elements, queries and out-of-domain values.                 *)
(*                                                                         *)
(* The proof rests on the script of the protocol: which message is the     *)
(* i-th, how many have been sent when a function is entered, and in which  *)
(* state of the PRNG each challenge is drawn.                              *)
(***************************************************************************)
EXTENDS Protocol, SequenceTheorems, TLAPS

-----------------------------------------------------------------------------
\* The script.

NumTraces == IF Interactive THEN 3 ELSE 2
LastMask == NumTraces + mask_size
LastOods == LastMask + n_breaks
LastCommitment == LastOods + n_layers
QueryStart == LastCommitment + (IF proof_of_work_bits > 0 THEN 1 ELSE 0)
LastTrace == QueryStart + NumTraces
Total == LastTrace + n_layers - 1

\* The name of the i-th message.
NameAt(i) ==
  CASE i = 1 -> Root(1)
    [] i > 1 /\ i < NumTraces -> Root(2)
    [] i = NumTraces -> Root(3)
    [] i > NumTraces /\ i <= LastMask -> <<"mask", i - NumTraces>>
    [] i > LastMask /\ i <= LastOods -> <<"break", i - LastMask>>
    [] i > LastOods /\ i < LastCommitment -> <<"fri root", i - LastOods>>
    [] i = LastCommitment -> <<"coefficients", 1>>
    [] i > LastCommitment /\ i <= QueryStart -> <<"POW", 1>>
    [] i > QueryStart /\ i <= LastTrace -> <<"trace", Traces[i - QueryStart]>>
    [] i > LastTrace -> <<"layer", i - LastTrace>>

\* How many have been sent or read when a function is entered.
Count(function, k) ==
  CASE function = "root 1" -> 0
    [] function \in {"interaction", "root 2"} -> 1
    [] function \in {"composition", "root 3"} -> NumTraces - 1
    [] function \in {"oods point", "oods values"} -> NumTraces
    [] function = "oods composition" -> LastOods
    [] function \in {"fri point", "fri root"} -> LastOods + k - 1
    [] function = "last layer" -> LastCommitment - 1
    [] function = "pow" -> LastCommitment
    [] function \in {"queries", "begin", "open traces"} -> QueryStart
    [] function = "open layers" -> LastTrace + k - 1
    [] function = "done" -> Total

\* The round in which a function sends or draws.
Stage(function, k) ==
  CASE function = "root 1" -> 1
    [] function = "interaction" -> 2
    [] function = "root 2" -> 3
    [] function = "composition" -> 4
    [] function = "root 3" -> 5
    [] function = "oods point" -> 6
    [] function = "oods values" -> 7
    [] function = "oods composition" -> 8
    [] function = "fri point" -> 7 + 2 * k
    [] function = "fri root" -> 8 + 2 * k
    [] function = "last layer" -> 8 + 2 * n_layers
    [] function = "pow" -> 9 + 2 * n_layers
    [] function = "queries" -> 10 + 2 * n_layers
    [] function \in {"begin", "open traces", "open layers", "done"} -> 11 + 2 * n_layers

Folded == IF fri_step_list[1] = 0 THEN 2 .. n_layers ELSE 1 .. n_layers
Challenges ==
  ({"interaction"} \X (1 .. n_interaction_elements))
    \cup ({"composition", "point", "oods"} \X {1})
    \cup ({"fri"} \X Folded) \cup ({"query"} \X (1 .. n_queries))

\* The messages before a challenge, and how many draws after the last of them it is.
Before(c) ==
  CASE c[1] = "interaction" -> 1
    [] c[1] = "composition" -> NumTraces - 1
    [] c[1] = "point" -> NumTraces
    [] c[1] = "oods" -> LastOods
    [] c[1] = "fri" -> LastOods + c[2] - 1
    [] c[1] = "query" -> QueryStart
Turn(c) ==
  CASE c[1] \in {"interaction", "query"} -> c[2]
    [] c[1] \in {"composition", "point", "oods"} -> 1
    [] c[1] = "fri" -> IF c[2] = 1 THEN 2 ELSE 1

SeedOf(side) == Seed(fault = "statement" /\ side = "verifier")[1]
BytesAt(side, i) == IF side = "prover" THEN <<NameAt(i), FALSE>> ELSE Bytes(proof[i])
Transcript(side, n) ==
  [i \in 1 .. n + 1 |-> IF i = 1 THEN SeedOf(side) ELSE BytesAt(side, i - 1)]
Challenge(side, c) == [mixed |-> Transcript(side, Before(c)), counter |-> Turn(c)]

\* What the contents of a message answer.
OfAt(i) ==
  CASE i <= LastCommitment -> <<>>
    [] i > LastCommitment /\ i <= QueryStart -> Transcript("prover", LastCommitment)
    [] i > QueryStart -> [j \in 1 .. n_queries |-> Challenge("prover", <<"query", j>>)]

-----------------------------------------------------------------------------
\* The invariant.

Live == verdict \in {"none", "accept"}
Sent == IF Side = "prover" THEN Len(proof) ELSE Len(reads)

Placed ==
  /\ fri_step_list \in StepLists /\ n_interaction_elements \in InteractionElements
  /\ proof_of_work_bits \in PowBits
  /\ pc \in Sides \X Functions /\ layer \in 1 .. n_layers
  /\ verdict \in Verdicts /\ (verdict = "none" <=> ~At("done"))
  /\ fault \in {"none", "altered", "cut", "swapped", "longer", "statement"}
  /\ At("interaction") \/ At("root 2") => Interactive
  /\ At("fri root") => layer < n_layers
  /\ At("open traces") => layer = 1

Formed ==
  /\ proof \in Seq(ToSet(proof)) /\ reads \in Seq(ToSet(reads)) /\ Len(reads) <= Len(proof)
  /\ DOMAIN prng = Sides /\ DOMAIN drawn = Sides /\ in_query_phase_ \in [Sides -> BOOLEAN]
  /\ \A s \in Sides : /\ prng[s] = [mixed |-> prng[s].mixed, counter |-> prng[s].counter]
                      /\ drawn[s] = [c \in DOMAIN drawn[s] |-> drawn[s][c]]

VerifierWaits ==
  Side = "prover" =>
    /\ fault = "none" /\ reads = <<>> /\ DOMAIN drawn["verifier"] = {}
    /\ prng["verifier"] = [mixed |-> Seed(FALSE), counter |-> 0]
    /\ ~in_query_phase_["verifier"]

\* The messages and the names they are read under.
Scripted ==
  /\ Live => Sent = Count(pc[2], layer)
  /\ Side = "prover" => Len(proof) <= Total
  /\ \A i \in 1 .. Len(reads) : i <= Total /\ reads[i] = NameAt(i)
  /\ fault \in {"none", "longer", "statement"} =>
       \A i \in 1 .. Len(proof) : i <= Total => proof[i] = Message(NameAt(i), OfAt(i))
  /\ Side = "verifier" =>
       /\ fault # "cut" => Len(proof) >= Total
       /\ fault = "none" => Len(proof) = Total

\* What became of the script on the way.
Faulted ==
  /\ fault = "altered" => \E i \in 1 .. Total : proof[i].altered
  /\ fault = "swapped" => \E i \in 1 .. Total : proof[i].name # NameAt(i)
  /\ fault = "cut" => Len(proof) < Total

Challenged ==
  /\ \A s \in Sides : \A c \in DOMAIN drawn[s] :
       c \in Challenges /\ drawn[s][c] = Challenge(s, c)
  /\ Live => DOMAIN drawn[Side] = {c \in Challenges : Round(c) < Stage(pc[2], layer)}
  /\ Side = "verifier" => DOMAIN drawn["prover"] = Challenges

QueryPhase == {"open traces", "open layers"}
Drawing == {"interaction", "composition", "oods point", "oods composition", "fri point",
            "pow", "queries"}

Seeded ==
  /\ ~At("done") => (in_query_phase_[Side] <=> pc[2] \in QueryPhase)
  /\ pc[2] \notin QueryPhase \cup {"done"} =>
       prng[Side].mixed = Transcript(Side, Count(pc[2], layer))
  /\ pc[2] \in Drawing =>
       prng[Side].counter = IF At("fri point") /\ layer = 1 THEN 1 ELSE 0

\* The messages that the verifier has checked when it enters a function.
Good(i) == proof[i].name = NameAt(i) /\ ~proof[i].altered
AfterPow == {"queries", "begin", "open traces", "open layers", "done"}
AfterOods == {"oods composition", "fri point", "fri root", "last layer", "pow"} \cup AfterPow
CheckedBy(function, k) ==
  {i \in 1 .. Total :
     \/ function \in AfterOods /\ NumTraces < i /\ i <= LastOods
     \/ function \in AfterPow /\ LastCommitment < i /\ i <= QueryStart
     \/ function = "open layers" /\ (i <= NumTraces \/ (QueryStart < i /\ i <= LastTrace))
     \/ function = "open layers" /\ LastOods < i /\ i < LastOods + k
     \/ function = "open layers" /\ LastTrace < i /\ i < LastTrace + k
     \/ function = "done"}
Checked ==
  Side = "verifier" /\ Live =>
    /\ \A i \in CheckedBy(pc[2], layer) : Good(i)
    /\ pc[2] \in AfterOods => fault # "statement"

Stopped ==
  /\ Side = "prover" /\ At("done") => verdict = "fri step is zero"
  /\ verdict = "fri step is zero" => /\ Side = "prover"
                                     /\ \E i \in 2 .. n_layers : fri_step_list[i] = 0
  /\ verdict # "randomness after query phase"
  /\ Side = "verifier" /\ fault = "none" => Live

IInv == /\ Placed /\ Formed /\ VerifierWaits /\ Scripted /\ Faulted /\ Challenged
        /\ Seeded /\ Checked /\ Stopped

-----------------------------------------------------------------------------
\* Numbers and names of the script.

LEMMA Positions ==
  ASSUME Placed
  PROVE  /\ n_layers \in Nat /\ n_layers >= 1
         /\ NumTraces \in 2 .. 3 /\ (Interactive <=> NumTraces = 3)
         /\ LastMask \in Nat /\ LastMask = NumTraces + mask_size /\ mask_size >= 1
         /\ LastOods \in Nat /\ LastOods = LastMask + n_breaks /\ n_breaks >= 1
         /\ LastCommitment = LastOods + n_layers
         /\ QueryStart \in LastCommitment .. LastCommitment + 1
         /\ (proof_of_work_bits > 0 <=> QueryStart = LastCommitment + 1)
         /\ LastTrace = QueryStart + NumTraces
         /\ Total = LastTrace + n_layers - 1
         /\ {LastCommitment, QueryStart, LastTrace, Total} \subseteq Nat
         /\ n_interaction_elements \in Nat /\ proof_of_work_bits \in Nat
         /\ mask_size \in Nat /\ n_breaks \in Nat /\ n_queries \in Nat \ {0}
<1>1. /\ n_layers \in Nat /\ n_layers >= 1
      /\ n_interaction_elements \in Nat /\ proof_of_work_bits \in Nat
  <2>1. fri_step_list \in Seq(Nat) /\ Len(fri_step_list) > 0
    BY ProtocolAssumption DEF Placed
  <2>2. Len(fri_step_list) \in Nat
    BY <2>1, LenProperties
  <2>3. n_interaction_elements \in Nat /\ proof_of_work_bits \in Nat
    BY ProtocolAssumption DEF Placed
  <2>4. QED
    BY <2>1, <2>2, <2>3 DEF n_layers
<1>2. mask_size \in Nat \ {0} /\ n_breaks \in Nat \ {0} /\ n_queries \in Nat \ {0}
  BY ProtocolAssumption
<1>3. QED
  BY <1>1, <1>2 DEF NumTraces, LastMask, LastOods, LastCommitment, QueryStart, LastTrace,
                    Total, Interactive

LEMMA ParametersKept ==
  ASSUME UNCHANGED parameters
  PROVE  /\ NumTraces' = NumTraces /\ LastMask' = LastMask /\ LastOods' = LastOods
         /\ LastCommitment' = LastCommitment /\ QueryStart' = QueryStart
         /\ LastTrace' = LastTrace /\ Total' = Total /\ n_layers' = n_layers
         /\ Interactive' = Interactive /\ Challenges' = Challenges
         /\ \A i : NameAt(i)' = NameAt(i) /\ OfAt(i)' = OfAt(i)
         /\ \A f, k : /\ Count(f, k)' = Count(f, k) /\ Stage(f, k)' = Stage(f, k)
                      /\ CheckedBy(f, k)' = CheckedBy(f, k)
         /\ Count(pc[2], layer)' = Count(pc'[2], layer')
         /\ Stage(pc[2], layer)' = Stage(pc'[2], layer')
         /\ CheckedBy(pc[2], layer)' = CheckedBy(pc'[2], layer')
         /\ \A c : Round(c)' = Round(c) /\ Before(c)' = Before(c)
         /\ \A n : Transcript("prover", n)' = Transcript("prover", n)
         /\ \A c : Challenge("prover", c)' = Challenge("prover", c)
<1>1. n_layers' = n_layers /\ Interactive' = Interactive
  BY DEF parameters, n_layers, Interactive
<1>2. /\ NumTraces' = NumTraces /\ LastMask' = LastMask /\ LastOods' = LastOods
      /\ LastCommitment' = LastCommitment /\ QueryStart' = QueryStart
      /\ LastTrace' = LastTrace /\ Total' = Total /\ Traces' = Traces
  BY <1>1 DEF NumTraces, LastMask, LastOods, LastCommitment, QueryStart, LastTrace, Total,
              parameters, Traces
<1>3. Challenges' = Challenges
  BY <1>1 DEF Challenges, Folded, parameters
<1>4. \A i : NameAt(i)' = NameAt(i)
  BY <1>1, <1>2 DEF NameAt
<1>5. \A f, k : Count(f, k)' = Count(f, k)
  BY <1>1, <1>2 DEF Count
<1>6. \A f, k : Stage(f, k)' = Stage(f, k)
  BY <1>1 DEF Stage
<1>7. ASSUME NEW f, NEW k PROVE CheckedBy(f, k)' = CheckedBy(f, k)
  BY <1>1, <1>2 DEF CheckedBy
<1>8. \A c : Round(c)' = Round(c) /\ Before(c)' = Before(c)
  BY <1>1, <1>2 DEF Round, Before
<1>9. \A n : Transcript("prover", n)' = Transcript("prover", n)
  BY <1>4 DEF Transcript, BytesAt, SeedOf, Seed
<1>10. \A i : OfAt(i)' = OfAt(i)
  BY <1>2, <1>8, <1>9 DEF OfAt, Challenge
<1>11. \A c : Challenge("prover", c)' = Challenge("prover", c)
  BY <1>8, <1>9 DEF Challenge
<1>12. Count(pc[2], layer)' = Count(pc'[2], layer') /\ Stage(pc[2], layer)' = Stage(pc'[2], layer')
  BY <1>1, <1>2 DEF Count, Stage
<1>13. CheckedBy(pc[2], layer)' = CheckedBy(pc'[2], layer')
  BY <1>1, <1>2 DEF CheckedBy
<1>14. QED
  BY <1>1, <1>2, <1>3, <1>4, <1>5, <1>6, <1>7, <1>8, <1>9, <1>10, <1>11, <1>12, <1>13

LEMMA MessagesKept ==
  ASSUME UNCHANGED <<parameters, proof, fault>>
  PROVE  /\ \A side, n : Transcript(side, n)' = Transcript(side, n)
         /\ \A side, c : Challenge(side, c)' = Challenge(side, c)
         /\ \A i : Good(i)' = Good(i)
<1>1. UNCHANGED parameters
  OBVIOUS
<1>2. (\A i : NameAt(i)' = NameAt(i)) /\ (\A c : Before(c)' = Before(c))
  BY <1>1, ParametersKept
<1>3. \A side, n : Transcript(side, n)' = Transcript(side, n)
  BY <1>2 DEF Transcript, BytesAt, SeedOf
<1>4. \A side, c : Challenge(side, c)' = Challenge(side, c)
  BY <1>2, <1>3 DEF Challenge
<1>5. \A i : Good(i)' = Good(i)
  BY <1>2 DEF Good
<1>6. QED
  BY <1>3, <1>4, <1>5

LEMMA ChallengeKinds ==
  ASSUME Placed, NEW c \in Challenges
  PROVE  /\ c = <<c[1], c[2]>> /\ c[2] \in Nat
         /\ \/ /\ c[1] = "interaction" /\ c[2] \in 1 .. n_interaction_elements
               /\ Round(c) = 2 /\ Before(c) = 1 /\ Turn(c) = c[2]
            \/ /\ c[1] = "composition" /\ c[2] = 1
               /\ Round(c) = 4 /\ Before(c) = NumTraces - 1 /\ Turn(c) = 1
            \/ /\ c[1] = "point" /\ c[2] = 1
               /\ Round(c) = 6 /\ Before(c) = NumTraces /\ Turn(c) = 1
            \/ /\ c[1] = "oods" /\ c[2] = 1
               /\ Round(c) = 8 /\ Before(c) = LastOods /\ Turn(c) = 1
            \/ /\ c[1] = "fri" /\ c[2] \in Folded /\ Round(c) = 7 + 2 * c[2]
               /\ Before(c) = LastOods + c[2] - 1 /\ Turn(c) = (IF c[2] = 1 THEN 2 ELSE 1)
            \/ /\ c[1] = "query" /\ c[2] \in 1 .. n_queries
               /\ Round(c) = 10 + 2 * n_layers /\ Before(c) = QueryStart /\ Turn(c) = c[2]
<1>1. PICK kind, k : /\ c = <<kind, k>>
                     /\ \/ kind = "interaction" /\ k \in 1 .. n_interaction_elements
                        \/ kind \in {"composition", "point", "oods"} /\ k = 1
                        \/ kind = "fri" /\ k \in Folded
                        \/ kind = "query" /\ k \in 1 .. n_queries
  BY DEF Challenges
<1>2. c[1] = kind /\ c[2] = k /\ k \in Nat
  BY <1>1, Positions DEF Folded
<1>3. c # Root(1) /\ c # Root(2) /\ c # Root(3)
  BY <1>1 DEF Root
<1>4. n_layers \in Nat
  BY Positions
<1>5. CASE kind = "interaction"
  BY <1>1, <1>2, <1>3, <1>5 DEF Round, Before, Turn
<1>6. CASE kind \in {"composition", "point", "oods"}
  BY <1>1, <1>2, <1>3, <1>6 DEF Round, Before, Turn
<1>7. CASE kind = "fri"
  BY <1>1, <1>2, <1>3, <1>7 DEF Round, Before, Turn
<1>8. CASE kind = "query"
  BY <1>1, <1>2, <1>3, <1>4, <1>8 DEF Round, Before, Turn
<1>9. QED
  BY <1>1, <1>2, <1>5, <1>6, <1>7, <1>8

-----------------------------------------------------------------------------
\* Sequences.

LEMMA SequenceOf ==
  ASSUME NEW n \in Nat, NEW f, DOMAIN f = 1 .. n, f = [i \in 1 .. n |-> f[i]]
  PROVE  f \in Seq(ToSet(f)) /\ Len(f) = n
<1>1. f \in [1 .. n -> ToSet(f)]
  BY DEF ToSet
<1>2. QED
  BY <1>1, IsASeq, LenProperties

LEMMA MessageBytes ==
  \A name, of : LET m == Message(name, of)
                IN Bytes(m) = <<name, FALSE>> /\ m.name = name /\ m.of = of /\ m.altered = FALSE
BY DEF Message, Bytes

\* A draw's effect on one side's PRNG.
LEMMA CounterAdded ==
  ASSUME Formed, Side \in Sides
  PROVE  \A n : [prng[Side] EXCEPT !.counter = @ + n] =
                   [mixed |-> prng[Side].mixed, counter |-> prng[Side].counter + n]
<1>1. prng[Side] = [mixed |-> prng[Side].mixed, counter |-> prng[Side].counter]
  BY DEF Formed
<1> SUFFICES ASSUME NEW n
             PROVE [prng[Side] EXCEPT !.counter = @ + n] =
                     [mixed |-> prng[Side].mixed, counter |-> prng[Side].counter + n]
  OBVIOUS
<1>2. QED
  BY ONLY <1>1

LEMMA CounterOnly ==
  ASSUME NEW n, prng'[Side] = [mixed |-> prng[Side].mixed, counter |-> prng[Side].counter + n]
  PROVE  prng'[Side].mixed = prng[Side].mixed /\ prng'[Side].counter = prng[Side].counter + n
OBVIOUS

LEMMA FunctionOf ==
  \A f, S : f \in [S -> {f[x] : x \in S}] => f = [x \in DOMAIN f |-> f[x]]
OBVIOUS

LEMMA Appended ==
  \A s, t : s \in Seq(ToSet(s)) /\ t \in Seq(ToSet(t)) =>
    /\ s \o t \in Seq(ToSet(s \o t))
    /\ Len(s \o t) = Len(s) + Len(t) /\ Len(s) \in Nat /\ Len(t) \in Nat
    /\ \A i \in 1 .. Len(s) : (s \o t)[i] = s[i]
    /\ \A i \in 1 .. Len(t) : (s \o t)[Len(s) + i] = t[i]
<1> SUFFICES ASSUME NEW s, s \in Seq(ToSet(s)), NEW t, t \in Seq(ToSet(t))
             PROVE  /\ s \o t \in Seq(ToSet(s \o t))
                    /\ Len(s \o t) = Len(s) + Len(t) /\ Len(s) \in Nat /\ Len(t) \in Nat
                    /\ \A i \in 1 .. Len(s) : (s \o t)[i] = s[i]
                    /\ \A i \in 1 .. Len(t) : (s \o t)[Len(s) + i] = t[i]
  OBVIOUS
<1> DEFINE S == ToSet(s) \cup ToSet(t)
<1>1. s \in Seq(S) /\ t \in Seq(S)
  BY SeqMonotonic
<1> HIDE DEF S
<1>2. /\ s \o t \in Seq(S) /\ Len(s \o t) = Len(s) + Len(t)
      /\ \A i \in 1 .. Len(s) + Len(t) :
           (s \o t)[i] = IF i <= Len(s) THEN s[i] ELSE t[i - Len(s)]
  BY <1>1, ConcatProperties
<1>3. Len(s) \in Nat /\ Len(t) \in Nat
  BY LenProperties
<1>4. s \o t \in [1 .. Len(s) + Len(t) -> S]
  BY <1>2, LenProperties
<1>5. s \o t \in Seq(ToSet(s \o t))
  <2>1. ASSUME NEW n \in Nat, NEW u \in [1 .. n -> S] PROVE u \in Seq(ToSet(u))
    <3>1. DOMAIN u = 1 .. n /\ u = [i \in 1 .. n |-> u[i]]
      OBVIOUS
    <3>2. QED
      BY <3>1, SequenceOf
  <2>2. Len(s) + Len(t) \in Nat
    BY <1>3
  <2>3. QED
    BY <1>4, <2>1, <2>2
<1>6. QED
  BY <1>2, <1>3, <1>5

LEMMA TranscriptIsSequence ==
  ASSUME NEW side, NEW n \in Nat
  PROVE  /\ Transcript(side, n) \in Seq(ToSet(Transcript(side, n)))
         /\ Len(Transcript(side, n)) = n + 1
<1> DEFINE f == Transcript(side, n)
<1>1. DOMAIN f = 1 .. n + 1 /\ f = [i \in 1 .. n + 1 |-> f[i]] /\ n + 1 \in Nat
  BY DEF Transcript
<1> HIDE DEF f
<1>2. f \in Seq(ToSet(f)) /\ Len(f) = n + 1
  BY <1>1, SequenceOf
<1>3. QED
  BY <1>2 DEF f

LEMMA ExtendedTranscript ==
  ASSUME NEW side, NEW n \in Nat, NEW t, t \in Seq(ToSet(t)),
         \A i \in 1 .. Len(t) : Bytes(t[i]) = BytesAt(side, n + i)
  PROVE  Transcript(side, n) \o [i \in DOMAIN t |-> Bytes(t[i])] = Transcript(side, n + Len(t))
<1> DEFINE f == Transcript(side, n)
           g == [i \in DOMAIN t |-> Bytes(t[i])]
           h == Transcript(side, n + Len(t))
<1>1. Len(t) \in Nat /\ DOMAIN t = 1 .. Len(t)
  BY LenProperties
<1>2. g \in Seq(ToSet(g)) /\ Len(g) = Len(t)
  <2>1. DOMAIN g = 1 .. Len(t) /\ g = [i \in 1 .. Len(t) |-> g[i]]
    BY <1>1
  <2> HIDE DEF g
  <2>2. QED
    BY <1>1, <2>1, SequenceOf
<1>3. f \in Seq(ToSet(f)) /\ Len(f) = n + 1
  BY TranscriptIsSequence
<1>4. h \in Seq(ToSet(h)) /\ Len(h) = n + Len(t) + 1
  <2>1. n + Len(t) \in Nat
    BY <1>1
  <2>2. QED
    BY <2>1, TranscriptIsSequence
<1>5. \A i \in 1 .. n + 1 : f[i] = h[i]
  BY <1>1 DEF Transcript
<1>6. \A i \in 1 .. Len(t) : g[i] = h[n + 1 + i]
  <2> SUFFICES ASSUME NEW i \in 1 .. Len(t) PROVE g[i] = h[n + 1 + i]
    OBVIOUS
  <2>1. g[i] = BytesAt(side, n + i)
    BY <1>1
  <2>2. n + 1 + i \in 1 .. n + Len(t) + 1 /\ n + 1 + i # 1 /\ (n + 1 + i) - 1 = n + i
    BY <1>1
  <2>3. h[n + 1 + i] = BytesAt(side, (n + 1 + i) - 1)
    BY <2>2 DEF Transcript
  <2>4. QED
    BY <2>1, <2>2, <2>3
<1> HIDE DEF f, g, h
<1>7. /\ f \o g \in Seq(ToSet(f \o g)) /\ Len(f \o g) = n + 1 + Len(t)
      /\ \A i \in 1 .. n + 1 : (f \o g)[i] = f[i]
      /\ \A i \in 1 .. Len(t) : (f \o g)[n + 1 + i] = g[i]
  <2>1. /\ f \o g \in Seq(ToSet(f \o g)) /\ Len(f \o g) = Len(f) + Len(g)
        /\ \A i \in 1 .. Len(f) : (f \o g)[i] = f[i]
        /\ \A i \in 1 .. Len(g) : (f \o g)[Len(f) + i] = g[i]
    <3>1. f \in Seq(ToSet(f)) /\ g \in Seq(ToSet(g))
      BY ONLY <1>2, <1>3
    <3>2. QED
      BY ONLY <3>1, Appended
  <2>2. QED
    BY <1>1, <1>2, <1>3, <2>1
<1>8. \A i \in 1 .. n + 1 + Len(t) : (f \o g)[i] = h[i]
  <2> SUFFICES ASSUME NEW i \in 1 .. n + 1 + Len(t) PROVE (f \o g)[i] = h[i]
    OBVIOUS
  <2>1. CASE i <= n + 1
    <3>1. i \in 1 .. n + 1
      BY <1>1, <2>1
    <3>2. QED
      BY <1>5, <1>7, <3>1
  <2>2. CASE i > n + 1
    <3>1. PICK j \in 1 .. Len(t) : i = n + 1 + j
      <4>1. i - (n + 1) \in 1 .. Len(t) /\ i = n + 1 + (i - (n + 1))
        BY <1>1, <2>2
      <4>2. QED
        BY <4>1
    <3>2. QED
      BY <1>6, <1>7, <3>1
  <2>3. i <= n + 1 \/ i > n + 1
    BY <1>1
  <2>4. QED
    BY <2>1, <2>2, <2>3
<1>9. f \o g = h
  <2>1. f \o g \in [1 .. Len(f \o g) -> ToSet(f \o g)]
    BY <1>7, LenProperties
  <2>2. h \in [1 .. Len(h) -> ToSet(h)]
    BY <1>4, LenProperties
  <2>3. Len(f \o g) = n + 1 + Len(t) /\ Len(h) = n + 1 + Len(t)
    BY <1>1, <1>4, <1>7
  <2>4. QED
    BY <1>8, <2>1, <2>2, <2>3
<1>10. QED
  BY <1>9 DEF f, g, h

-----------------------------------------------------------------------------
\* One step that draws.

\* A side draws the next challenges of the script.
DrawsNext(names, function) ==
  /\ pc[2] \in Functions \ (QueryPhase \cup {"done"})
  /\ function \in Functions \ (QueryPhase \cup {"done", "interaction"})
  /\ layer' \in 1 .. n_layers
  /\ function = "root 2" => Interactive
  /\ function = "fri root" => layer' < n_layers
  /\ \A c \in ToSet(names) : c \in Challenges
  /\ \A c \in Challenges : Round(c) < Stage(function, layer') <=>
                              Round(c) < Stage(pc[2], layer) \/ c \in ToSet(names)
  /\ \A i \in DOMAIN names : /\ Before(names[i]) = Count(pc[2], layer)
                             /\ Turn(names[i]) = prng[Side].counter + i
  /\ Count(function, layer') = Count(pc[2], layer)
  /\ function \in Drawing =>
       prng[Side].counter + Len(names) = IF function = "fri point" /\ layer' = 1 THEN 1 ELSE 0
  /\ CheckedBy(function, layer') = CheckedBy(pc[2], layer)
  /\ function \in AfterOods => pc[2] \in AfterOods

LEMMA DrawStep ==
  ASSUME IInv, NEW names, NEW function, Draw(Side, names, function), DrawsNext(names, function)
  PROVE  IInv'
<1> USE DEF Side, At, DrawsNext
<1>0. Placed /\ Formed /\ Seeded /\ Challenged
  BY DEF IInv
<1>1. Side \in Sides /\ Live /\ ~in_query_phase_[Side]
  BY <1>0 DEF Placed, Seeded, Sides, Live
<1>2. /\ pc' = <<Side, function>> /\ UNCHANGED verdict
      /\ prng' = [prng EXCEPT ![Side].counter = @ + Len(names)]
      /\ drawn' = [drawn EXCEPT ![Side] =
           [c \in DOMAIN @ \cup ToSet(names) |->
              IF c \in ToSet(names)
              THEN [prng[Side] EXCEPT !.counter = @ + (CHOOSE i \in DOMAIN names : names[i] = c)]
              ELSE @[c]]]
      /\ UNCHANGED <<parameters, in_query_phase_, proof, reads, fault>>
  BY <1>1 DEF Draw, Go
<1>3. UNCHANGED parameters /\ UNCHANGED <<parameters, proof, fault>>
  BY <1>2
<1>4. Side' = Side /\ pc'[2] = function /\ Live'
  BY <1>1, <1>2 DEF Live
<1>5. /\ prng'[Side] = [mixed |-> prng[Side].mixed, counter |-> prng[Side].counter + Len(names)]
      /\ DOMAIN prng' = Sides /\ \A s \in Sides \ {Side} : prng'[s] = prng[s]
  <2>1. DOMAIN prng = Sides
        /\ prng[Side] = [mixed |-> prng[Side].mixed, counter |-> prng[Side].counter]
    BY <1>0, <1>1 DEF Formed
  <2>2. prng' = [prng EXCEPT ![Side] = [prng[Side] EXCEPT !.counter = @ + Len(names)]]
    BY <1>2
  <2>3. [prng[Side] EXCEPT !.counter = @ + Len(names)] =
          [mixed |-> prng[Side].mixed, counter |-> prng[Side].counter + Len(names)]
    BY <1>0, <1>1, CounterAdded
  <2>4. QED
    BY <1>1, <2>1, <2>2, <2>3
<1>6. /\ DOMAIN drawn'[Side] = DOMAIN drawn[Side] \cup ToSet(names)
      /\ \A c \in ToSet(names) : drawn'[Side][c] = Challenge(Side, c)
      /\ \A c \in DOMAIN drawn[Side] \ ToSet(names) : drawn'[Side][c] = drawn[Side][c]
      /\ drawn'[Side] = [c \in DOMAIN drawn'[Side] |-> drawn'[Side][c]]
      /\ DOMAIN drawn' = Sides /\ \A s \in Sides \ {Side} : drawn'[s] = drawn[s]
  <2> DEFINE D == [c \in DOMAIN drawn[Side] \cup ToSet(names) |->
              IF c \in ToSet(names)
              THEN [prng[Side] EXCEPT !.counter = @ + (CHOOSE i \in DOMAIN names : names[i] = c)]
              ELSE drawn[Side][c]]
  <2>1. drawn'[Side] = D /\ DOMAIN drawn' = Sides /\ \A s \in Sides \ {Side} : drawn'[s] = drawn[s]
    BY <1>1, <1>2 DEF IInv, Formed
  <2>2. ASSUME NEW c \in ToSet(names) PROVE D[c] = Challenge(Side, c)
    <3> DEFINE n == CHOOSE i \in DOMAIN names : names[i] = c
    <3>1. n \in DOMAIN names /\ names[n] = c
      BY DEF ToSet
    <3>2. D[c] = [prng[Side] EXCEPT !.counter = @ + n]
      OBVIOUS
    <3> HIDE DEF n, D
    <3>3. Turn(c) = prng[Side].counter + n /\ Before(c) = Count(pc[2], layer)
      BY <3>1
    <3>4. prng[Side] = [mixed |-> prng[Side].mixed, counter |-> prng[Side].counter]
      BY <1>0, <1>1 DEF Formed
    <3>5. prng[Side].mixed = Transcript(Side, Before(c))
      BY <1>0, <3>3 DEF Seeded
    <3>6. [prng[Side] EXCEPT !.counter = @ + n] =
            [mixed |-> prng[Side].mixed, counter |-> prng[Side].counter + n]
      BY <1>0, <1>1, CounterAdded
    <3>7. QED
      BY <3>2, <3>3, <3>5, <3>6 DEF Challenge
  <2>3. DOMAIN D = DOMAIN drawn[Side] \cup ToSet(names)
    OBVIOUS
  <2>4. \A c \in DOMAIN drawn[Side] \ ToSet(names) : D[c] = drawn[Side][c]
    OBVIOUS
  <2>5. D \in [DOMAIN drawn[Side] \cup ToSet(names) ->
               {D[x] : x \in DOMAIN drawn[Side] \cup ToSet(names)}]
    OBVIOUS
  <2> HIDE DEF D
  <2>6. D = [c \in DOMAIN D |-> D[c]]
    BY <2>5, FunctionOf
  <2>7. QED
    BY <2>1, <2>2, <2>3, <2>4, <2>6
<1>7. /\ Count(pc[2], layer)' = Count(pc[2], layer) /\ Stage(pc[2], layer)' = Stage(function, layer')
      /\ CheckedBy(pc[2], layer)' = CheckedBy(pc[2], layer) /\ Total' = Total
      /\ Interactive' = Interactive /\ n_layers' = n_layers /\ Challenges' = Challenges
      /\ \A i : NameAt(i)' = NameAt(i) /\ OfAt(i)' = OfAt(i)
      /\ \A c : Round(c)' = Round(c)
  <2>1. /\ Count(pc[2], layer)' = Count(pc'[2], layer') /\ Stage(pc[2], layer)' = Stage(pc'[2], layer')
        /\ CheckedBy(pc[2], layer)' = CheckedBy(pc'[2], layer') /\ Total' = Total
        /\ Interactive' = Interactive /\ n_layers' = n_layers /\ Challenges' = Challenges
        /\ \A i : NameAt(i)' = NameAt(i) /\ OfAt(i)' = OfAt(i)
        /\ \A c : Round(c)' = Round(c)
    BY <1>3, ParametersKept
  <2>2. QED
    BY <1>4, <2>1
<1>8. /\ \A side, n : Transcript(side, n)' = Transcript(side, n)
      /\ \A side, c : Challenge(side, c)' = Challenge(side, c)
      /\ \A i : Good(i)' = Good(i)
  BY <1>3, MessagesKept
<1>9. Placed'
  <2>1. pc'[1] = Side /\ pc'[2] = function /\ pc' \in Sides \X Functions
    BY <1>1, <1>2
  <2>2. verdict' = verdict /\ verdict = "none"
    BY <1>2 DEF IInv, Placed
  <2>3. UNCHANGED <<fri_step_list, n_interaction_elements, proof_of_work_bits, fault>>
    BY <1>2 DEF parameters
  <2>4. QED
    BY <1>7, <2>1, <2>2, <2>3 DEF IInv, Placed, QueryPhase, Verdicts
<1>10. Formed'
  <2>1. UNCHANGED <<proof, reads, in_query_phase_>>
    BY <1>2
  <2>2. \A s \in Sides : /\ prng'[s] = [mixed |-> prng'[s].mixed, counter |-> prng'[s].counter]
                         /\ drawn'[s] = [c \in DOMAIN drawn'[s] |-> drawn'[s][c]]
    <3> SUFFICES ASSUME NEW s \in Sides
                 PROVE  /\ prng'[s] = [mixed |-> prng'[s].mixed, counter |-> prng'[s].counter]
                        /\ drawn'[s] = [c \in DOMAIN drawn'[s] |-> drawn'[s][c]]
      OBVIOUS
    <3>1. CASE s = Side
      BY ONLY <1>5, <1>6, <3>1, Zenon
    <3>2. CASE s # Side
      <4>1. prng'[s] = prng[s] /\ drawn'[s] = drawn[s]
        BY ONLY <1>5, <1>6, <3>2, s \in Sides
      <4>2. /\ prng[s] = [mixed |-> prng[s].mixed, counter |-> prng[s].counter]
            /\ drawn[s] = [c \in DOMAIN drawn[s] |-> drawn[s][c]]
        BY DEF IInv, Formed
      <4>3. QED
        BY ONLY <4>1, <4>2
    <3>3. QED
      BY <3>1, <3>2
  <2>3. QED
    BY <1>5, <1>6, <2>1, <2>2 DEF IInv, Formed
<1>11. VerifierWaits'
  BY <1>1, <1>2, <1>4, <1>5, <1>6 DEF IInv, VerifierWaits, Sides
<1>12. Scripted'
  <2>1. Sent' = Sent
    BY <1>2, <1>4 DEF Sent
  <2>2. QED
    BY <1>1, <1>2, <1>4, <1>7, <2>1 DEF IInv, Scripted
<1>13. Faulted'
  BY <1>2, <1>7 DEF IInv, Faulted
<1>14. Challenged'
  <2>1. ASSUME NEW s \in Sides, NEW c \in DOMAIN drawn'[s]
        PROVE  c \in Challenges /\ drawn'[s][c] = Challenge(s, c)
    <3>1. CASE s # Side
      <4>1. drawn'[s] = drawn[s]
        BY <1>6, <3>1
      <4>2. QED
        BY <1>0, <4>1 DEF Challenged
    <3>2. CASE s = Side /\ c \in ToSet(names)
      BY <1>6, <3>2
    <3>3. CASE s = Side /\ c \notin ToSet(names)
      BY <1>6, <3>3 DEF IInv, Challenged
    <3>4. QED
      BY <3>1, <3>2, <3>3
  <2>2. DOMAIN drawn'[Side] = {c \in Challenges : Round(c) < Stage(function, layer')}
    BY <1>1, <1>6 DEF IInv, Challenged
  <2>3. Side = "verifier" => DOMAIN drawn'["prover"] = Challenges
    BY <1>6 DEF IInv, Challenged, Sides
  <2>4. QED
    BY <1>4, <1>7, <1>8, <2>1, <2>2, <2>3 DEF Challenged
<1>15. Seeded'
  <2>1. prng'[Side].mixed = prng[Side].mixed /\ prng'[Side].counter = prng[Side].counter + Len(names)
    BY <1>5, CounterOnly
  <2>2. prng[Side].mixed = Transcript(Side, Count(pc[2], layer))
    BY <1>0 DEF Seeded
  <2>3. in_query_phase_' = in_query_phase_
    BY <1>2
  <2>4. QED
    BY <1>1, <1>4, <1>7, <1>8, <2>1, <2>2, <2>3 DEF Seeded
<1>16. Checked'
  <2>1. fault' = fault /\ CheckedBy(pc[2], layer)' = CheckedBy(pc[2], layer)
    BY <1>2, <1>7
  <2>2. QED
    BY <1>1, <1>4, <1>7, <1>8, <2>1 DEF IInv, Checked
<1>17. Stopped'
  BY <1>2, <1>4 DEF IInv, Stopped, parameters, n_layers
<1>18. QED
  BY <1>9, <1>10, <1>11, <1>12, <1>13, <1>14, <1>15, <1>16, <1>17 DEF IInv

-----------------------------------------------------------------------------
\* One step that reads.

LEMMA OwnElements ==
  \A S, u : u \in Seq(S) => u \in Seq(ToSet(u)) /\ Len(u) \in Nat /\ DOMAIN u = 1 .. Len(u)
<1> SUFFICES ASSUME NEW S, NEW u, u \in Seq(S)
             PROVE  u \in Seq(ToSet(u)) /\ Len(u) \in Nat /\ DOMAIN u = 1 .. Len(u)
  OBVIOUS
<1>1. Len(u) \in Nat /\ DOMAIN u = 1 .. Len(u) /\ u \in [1 .. Len(u) -> S]
  BY LenProperties
<1>2. u = [i \in 1 .. Len(u) |-> u[i]]
  BY <1>1
<1>3. QED
  BY <1>1, <1>2, SequenceOf

\* The messages at the positions that the verifier reads next.
LEMMA ReceivedMessages ==
  ASSUME Formed, NEW names, names \in Seq(ToSet(names)),
         Len(reads) + Len(names) <= Len(proof)
  PROVE  /\ Received(names) \in Seq(ToSet(Received(names))) /\ Len(Received(names)) = Len(names)
         /\ \A i \in 1 .. Len(names) : Received(names)[i] = proof[Len(reads) + i]
<1> DEFINE m == Len(reads) + 1
           n == Len(reads) + Len(names)
           S == {proof[i] : i \in m .. n}
<1>1. Len(reads) \in Nat /\ Len(names) \in Nat
  BY OwnElements DEF Formed
<1>2. m \in Int /\ n \in Int /\ n - m + 1 = Len(names) /\ \A i \in m .. n : proof[i] \in S
  BY <1>1
<1>3. /\ m <= n => n - m + 1 = Len(names)
      /\ ~(m <= n) => Len(names) = 0
      /\ \A i : m + i - 1 = Len(reads) + i \/ i \notin 1 .. Len(names)
  BY <1>1
<1> HIDE DEF m, n, S
<1>4. /\ SubSeq(proof, m, n) \in Seq(S)
      /\ Len(SubSeq(proof, m, n)) = IF m <= n THEN n - m + 1 ELSE 0
      /\ \A i \in 1 .. n - m + 1 : SubSeq(proof, m, n)[i] = proof[m + i - 1]
  BY <1>2, SubSeqProperties
<1>5. Received(names) = SubSeq(proof, m, n)
  BY DEF Received, proof_read_index_, m, n
<1>6. Received(names) \in Seq(ToSet(Received(names)))
  BY <1>4, <1>5, OwnElements
<1>7. QED
  BY <1>2, <1>3, <1>4, <1>5, <1>6

\* The PRNG of one side after a message is mixed in.
LEMMA Mixed ==
  ASSUME Formed, NEW side \in Sides, NEW messages, Mix(side, messages)
  PROVE  /\ DOMAIN prng' = Sides
         /\ \A s \in Sides : prng'[s] = [mixed |-> prng'[s].mixed, counter |-> prng'[s].counter]
         /\ \A s \in Sides \ {side} : prng'[s] = prng[s]
         /\ ~in_query_phase_[side] =>
              prng'[side].counter = 0 /\ prng'[side].mixed =
                 prng[side].mixed \o [i \in DOMAIN messages |-> Bytes(messages[i])]
<1>1. CASE in_query_phase_[side]
  BY <1>1 DEF Mix, Formed
<1>2. CASE ~in_query_phase_[side]
  <2> DEFINE g == prng[side].mixed \o [i \in DOMAIN messages |-> Bytes(messages[i])]
  <2>1. prng' = [prng EXCEPT ![side] = [mixed |-> g, counter |-> 0]]
    BY <1>2 DEF Mix, MixSeedWithBytes
  <2> HIDE DEF g
  <2>2. /\ DOMAIN prng' = Sides /\ prng'[side] = [mixed |-> g, counter |-> 0]
        /\ \A s \in Sides \ {side} : prng'[s] = prng[s]
    BY <2>1 DEF Formed
  <2>3. prng'[side].mixed = g /\ prng'[side].counter = 0
    BY ONLY <2>2
  <2>4. ASSUME NEW s \in Sides
        PROVE  prng'[s] = [mixed |-> prng'[s].mixed, counter |-> prng'[s].counter]
    <3>1. CASE s = side
      BY <2>2, <2>3, <3>1
    <3>2. CASE s # side
      BY <2>2, <3>2 DEF Formed
    <3>3. QED
      BY <3>1, <3>2
  <2>5. QED
    BY <1>2, <2>2, <2>3, <2>4 DEF g
<1>3. QED
  BY <1>1, <1>2

Rejections == {"proof too short", "out of domain sampling", "wrong proof of work",
               "trace decommitment", "layer decommitment", "last layer"}

\* The verifier stops, whatever it has read of the script.
LEMMA RejectStep ==
  ASSUME IInv, Side = "verifier", pc' = <<"verifier", "done">>, verdict' \in Rejections,
         fault # "none", layer' \in 1 .. n_layers,
         UNCHANGED <<parameters, in_query_phase_, drawn, proof, fault>>,
         reads' \in Seq(ToSet(reads')), Len(reads') <= Len(proof),
         \A i \in 1 .. Len(reads') : i <= Total /\ reads'[i] = NameAt(i),
         DOMAIN prng' = Sides,
         \A s \in Sides : prng'[s] = [mixed |-> prng'[s].mixed, counter |-> prng'[s].counter]
  PROVE  IInv'
<1> USE DEF Side, At
<1>0. Placed /\ Formed /\ Scripted /\ Faulted /\ Challenged /\ Stopped
  BY DEF IInv
<1>1. Side' = "verifier" /\ pc'[2] = "done" /\ ~Live' /\ verdict' \in Verdicts \ {"none", "accept"}
      /\ verdict' # "fri step is zero" /\ verdict' # "randomness after query phase"
  BY DEF Live, Rejections, Verdicts
<1>2. UNCHANGED <<fri_step_list, n_interaction_elements, proof_of_work_bits>>
      /\ UNCHANGED <<proof, fault, drawn, in_query_phase_>>
      /\ UNCHANGED parameters /\ UNCHANGED <<parameters, proof, fault>>
  BY DEF parameters
<1>3. /\ Total' = Total /\ n_layers' = n_layers /\ Challenges' = Challenges
      /\ \A i : NameAt(i)' = NameAt(i) /\ OfAt(i)' = OfAt(i)
  BY <1>2, ParametersKept
<1>4. \A side, c : Challenge(side, c)' = Challenge(side, c)
  BY <1>2, MessagesKept
<1>5. Placed'
  <2>1. pc' \in Sides \X Functions
    BY DEF Sides, Functions
  <2>2. QED
    BY <1>0, <1>1, <1>2, <1>3, <2>1 DEF Placed
<1>6. Formed'
  BY <1>0, <1>2 DEF Formed
<1>7. VerifierWaits' /\ Checked'
  BY <1>1 DEF VerifierWaits, Checked
<1>8. Scripted'
  BY <1>0, <1>1, <1>2, <1>3 DEF Scripted
<1>9. Faulted'
  BY <1>0, <1>2, <1>3 DEF Faulted
<1>10. Challenged'
  <2>1. \A s \in Sides : \A c \in DOMAIN drawn'[s] :
          c \in Challenges /\ drawn'[s][c] = Challenge(s, c)
    BY <1>0, <1>2 DEF Challenged
  <2>2. DOMAIN drawn'["prover"] = Challenges
    BY <1>0, <1>2 DEF Challenged
  <2>3. QED
    BY <1>1, <1>3, <1>4, <2>1, <2>2 DEF Challenged
<1>11. Seeded'
  BY <1>1 DEF Seeded, Drawing
<1>12. Stopped'
  BY <1>1, <1>2 DEF Stopped
<1>13. QED
  BY <1>5, <1>6, <1>7, <1>8, <1>9, <1>10, <1>11, <1>12 DEF IInv

\* The verifier reads the next messages of the script.
ReadsNext(names, ok, reason, function) ==
  /\ pc[2] \in Functions \ {"done"} /\ function \in Functions \ {"done", "fri root"}
  /\ function \in QueryPhase <=> pc[2] \in QueryPhase
  /\ layer' \in 1 .. n_layers /\ (function = "open traces" => layer' = 1)
  /\ function = "fri point" => layer' # 1
  /\ function = "interaction" \/ function = "root 2" => Interactive
  /\ names \in Seq(ToSet(names)) /\ \A i \in 1 .. Len(names) : names[i] = NameAt(Len(reads) + i)
  /\ Len(reads) + Len(names) = Count(function, layer') /\ Count(function, layer') <= Total
  /\ \A c \in Challenges :
       Round(c) < Stage(function, layer') <=> Round(c) < Stage(pc[2], layer)
  /\ ok \in BOOLEAN /\ (ok \/ reason \in Rejections) /\ (fault = "none" => ok)
  /\ ok => \A i \in CheckedBy(function, layer') \ CheckedBy(pc[2], layer) :
             Len(reads) + Len(names) <= Len(proof) => Good(i)
  /\ ok /\ function \in AfterOods => fault # "statement"

LEMMA ReceiveStep ==
  ASSUME IInv, NEW names, NEW ok, NEW reason, NEW function, Side = "verifier",
         ReceiveBytes(names, ok, reason, function), ReadsNext(names, ok, reason, function)
  PROVE  IInv'
<1> USE DEF Side, At
<1>0. Placed /\ Formed /\ Scripted /\ Faulted /\ Challenged /\ Seeded /\ Checked /\ Stopped
  BY DEF IInv
<1>1. /\ Live /\ verdict = "none" /\ (in_query_phase_[Side] <=> pc[2] \in QueryPhase)
      /\ pc[2] \in Functions \ {"done"} /\ function \in Functions \ {"done", "fri root"}
      /\ (function \in QueryPhase <=> pc[2] \in QueryPhase)
      /\ layer' \in 1 .. n_layers /\ (function = "open traces" => layer' = 1)
      /\ (function = "fri point" => layer' # 1)
      /\ (function = "interaction" \/ function = "root 2" => Interactive)
  BY <1>0 DEF Placed, Seeded, Live, ReadsNext
<1>2. UNCHANGED <<parameters, in_query_phase_, drawn, proof, fault>>
  BY DEF ReceiveBytes
<1>a. /\ names \in Seq(ToSet(names)) /\ \A i \in 1 .. Len(names) : names[i] = NameAt(Len(reads) + i)
      /\ Len(reads) + Len(names) = Count(function, layer') /\ Count(function, layer') <= Total
  BY DEF ReadsNext
<1>b. ok \in BOOLEAN /\ (ok \/ reason \in Rejections) /\ (fault = "none" => ok)
      /\ (ok /\ function \in AfterOods => fault # "statement")
  BY DEF ReadsNext
<1>3. Len(reads) \in Nat /\ Len(names) \in Nat /\ Len(proof) \in Nat /\ Total \in Nat
  <2>1. Len(reads) \in Nat /\ Len(names) \in Nat /\ Len(proof) \in Nat
    BY <1>0, <1>a, OwnElements DEF Formed
  <2>2. Total \in Nat
    BY <1>0, Positions
  <2>3. QED
    BY <2>1, <2>2
<1>4. \A i \in 1 .. Len(reads) : i <= Total /\ reads[i] = NameAt(i)
  BY <1>0 DEF Scripted
<1>5. CASE Len(reads) + Len(names) > Len(proof)
  <2>1. fault # "none"
    BY <1>0, <1>3, <1>5, <1>a DEF Scripted
  <2>2. pc' = <<"verifier", "done">> /\ verdict' = "proof too short" /\ UNCHANGED <<reads, prng>>
    BY <1>5 DEF ReceiveBytes, proof_read_index_, Stop
  <2>3. reads' \in Seq(ToSet(reads')) /\ Len(reads') <= Len(proof)
        /\ \A i \in 1 .. Len(reads') : i <= Total /\ reads'[i] = NameAt(i)
    BY <1>0, <1>4, <2>2 DEF Formed
  <2>4. DOMAIN prng' = Sides
        /\ \A s \in Sides : prng'[s] = [mixed |-> prng'[s].mixed, counter |-> prng'[s].counter]
    BY <1>0, <2>2 DEF Formed
  <2>5. verdict' \in Rejections
    BY <2>2 DEF Rejections
  <2>6. QED
    BY <1>1, <1>2, <2>1, <2>2, <2>3, <2>4, <2>5, RejectStep
<1>6. CASE Len(reads) + Len(names) <= Len(proof)
  <2>1. /\ reads' = reads \o names /\ Mix("verifier", Received(names))
        /\ IF ok THEN Go(function) ELSE Stop(reason)
    <3>1. ~(Len(reads) + Len(names) > Len(proof))
      BY <1>3, <1>6
    <3>2. QED
      BY <3>1 DEF ReceiveBytes, proof_read_index_
  <2>2. /\ reads' \in Seq(ToSet(reads')) /\ Len(reads') = Len(reads) + Len(names)
        /\ \A i \in 1 .. Len(reads) : reads'[i] = reads[i]
        /\ \A i \in 1 .. Len(names) : reads'[Len(reads) + i] = names[i]
    BY <1>0, <1>a, <2>1, Appended DEF Formed
  <2>3. \A i \in 1 .. Len(reads') : i <= Total /\ reads'[i] = NameAt(i)
    <3> SUFFICES ASSUME NEW i \in 1 .. Len(reads') PROVE i <= Total /\ reads'[i] = NameAt(i)
      OBVIOUS
    <3>1. i \in 1 .. Len(reads) + Len(names) /\ i <= Total
      BY <1>3, <1>a, <2>2
    <3>2. CASE i <= Len(reads)
      <4>1. i \in 1 .. Len(reads)
        BY <1>3, <3>1, <3>2
      <4>2. QED
        BY <1>4, <2>2, <3>1, <4>1
    <3>3. CASE i > Len(reads)
      <4>1. PICK j \in 1 .. Len(names) : i = Len(reads) + j
        <5>1. i - Len(reads) \in 1 .. Len(names) /\ i = Len(reads) + (i - Len(reads))
          BY <1>3, <3>1, <3>3
        <5>2. QED
          BY <5>1
      <4>2. QED
        BY <1>a, <2>2, <3>1, <4>1
    <3>4. QED
      BY <1>3, <3>1, <3>2, <3>3
  <2>4. /\ DOMAIN prng' = Sides
        /\ \A s \in Sides : prng'[s] = [mixed |-> prng'[s].mixed, counter |-> prng'[s].counter]
        /\ ~in_query_phase_["verifier"] =>
             prng'["verifier"].counter = 0 /\ prng'["verifier"].mixed =
               prng["verifier"].mixed \o [i \in DOMAIN Received(names) |-> Bytes(Received(names)[i])]
    BY <1>0, <2>1, Mixed DEF Sides
  <2>5. CASE ~ok
    <3>1. pc' = <<"verifier", "done">> /\ verdict' = reason /\ reason \in Rejections
      BY <1>b, <2>1, <2>5 DEF Stop
    <3>2. fault # "none" /\ Len(reads') <= Len(proof)
      BY <1>6, <1>b, <2>2, <2>5
    <3>3. QED
      BY <1>1, <1>2, <2>2, <2>3, <2>4, <3>1, <3>2, RejectStep
  <2>6. CASE ok
    <3>1. pc' = <<"verifier", function>> /\ verdict' = verdict
      BY <2>1, <2>6 DEF Go
    <3>2. Side' = "verifier" /\ pc'[2] = function /\ Live'
      BY <1>1, <3>1 DEF Live
    <3>3. UNCHANGED <<fri_step_list, n_interaction_elements, proof_of_work_bits>>
          /\ UNCHANGED <<proof, fault, drawn, in_query_phase_>>
          /\ UNCHANGED parameters /\ UNCHANGED <<parameters, proof, fault>>
      BY <1>2 DEF parameters
    <3>4. /\ Count(pc[2], layer)' = Count(function, layer')
          /\ Stage(pc[2], layer)' = Stage(function, layer')
          /\ CheckedBy(pc[2], layer)' = CheckedBy(function, layer')
          /\ Total' = Total /\ n_layers' = n_layers /\ Challenges' = Challenges
          /\ Interactive' = Interactive
          /\ \A i : NameAt(i)' = NameAt(i) /\ OfAt(i)' = OfAt(i)
          /\ \A c : Round(c)' = Round(c)
      <4>1. /\ Count(pc[2], layer)' = Count(pc'[2], layer')
            /\ Stage(pc[2], layer)' = Stage(pc'[2], layer')
            /\ CheckedBy(pc[2], layer)' = CheckedBy(pc'[2], layer')
            /\ Total' = Total /\ n_layers' = n_layers /\ Challenges' = Challenges
            /\ Interactive' = Interactive
            /\ \A i : NameAt(i)' = NameAt(i) /\ OfAt(i)' = OfAt(i)
            /\ \A c : Round(c)' = Round(c)
            /\ \A f, k : /\ Count(f, k)' = Count(f, k) /\ Stage(f, k)' = Stage(f, k)
                         /\ CheckedBy(f, k)' = CheckedBy(f, k)
        BY <3>3, ParametersKept
      <4>2. Count(pc'[2], layer') = Count(function, layer')
            /\ Stage(pc'[2], layer') = Stage(function, layer')
            /\ CheckedBy(pc'[2], layer') = CheckedBy(function, layer')
        BY <3>2
      <4>3. QED
        BY <4>1, <4>2
    <3>5. /\ \A side, n : Transcript(side, n)' = Transcript(side, n)
          /\ \A side, c : Challenge(side, c)' = Challenge(side, c)
          /\ \A i : Good(i)' = Good(i)
      BY <3>3, MessagesKept
    <3>6. Placed'
      <4>1. pc' \in Sides \X Functions
        BY <1>1, <3>1 DEF Sides
      <4>2. QED
        BY <1>0, <1>1, <3>1, <3>2, <3>3, <3>4, <4>1 DEF Placed
    <3>7. Formed'
      BY <1>0, <1>6, <2>2, <2>4, <3>3 DEF Formed
    <3>8. VerifierWaits'
      BY <3>2 DEF VerifierWaits
    <3>9. Scripted'
      <4>1. Sent' = Count(pc[2], layer)'
        BY <1>a, <2>2, <3>2, <3>4 DEF Sent
      <4>2. QED
        BY <1>0, <2>3, <3>2, <3>3, <3>4, <4>1 DEF Scripted
    <3>10. Faulted'
      BY <1>0, <3>3, <3>4 DEF Faulted
    <3>11. Challenged'
      <4>1. DOMAIN drawn["verifier"] = {c \in Challenges : Round(c) < Stage(function, layer')}
        BY <1>0, <1>1 DEF Challenged, ReadsNext
      <4>2. DOMAIN drawn'[Side'] = {c \in Challenges : Round(c) < Stage(pc[2], layer)}'
        BY <3>2, <3>3, <3>4, <4>1
      <4>3. QED
        BY <1>0, <3>2, <3>3, <3>4, <3>5, <4>2 DEF Challenged
    <3>12. Seeded'
      <4>1. function \notin QueryPhase =>
              /\ prng'["verifier"].mixed = Transcript("verifier", Count(function, layer'))
              /\ prng'["verifier"].counter = 0
        <5> SUFFICES ASSUME function \notin QueryPhase
                     PROVE /\ prng'["verifier"].mixed = Transcript("verifier", Count(function, layer'))
                           /\ prng'["verifier"].counter = 0
          OBVIOUS
        <5> DEFINE t == Received(names)
        <5>1. t \in Seq(ToSet(t)) /\ Len(t) = Len(names)
              /\ \A i \in 1 .. Len(names) : t[i] = proof[Len(reads) + i]
          BY <1>0, <1>6, <1>a, ReceivedMessages
        <5>2. prng["verifier"].mixed = Transcript("verifier", Len(reads))
          BY <1>0, <1>1 DEF Seeded, Scripted, Sent
        <5> HIDE DEF t
        <5>3. \A i \in 1 .. Len(t) : Bytes(t[i]) = BytesAt("verifier", Len(reads) + i)
          BY <5>1 DEF BytesAt
        <5>4. Transcript("verifier", Len(reads)) \o [i \in DOMAIN t |-> Bytes(t[i])] =
                Transcript("verifier", Len(reads) + Len(t))
          BY <1>3, <5>1, <5>3, ExtendedTranscript
        <5>5. QED
          BY <1>1, <1>a, <2>4, <5>1, <5>2, <5>4 DEF t
      <4>2. Transcript(Side, Count(pc[2], layer))' = Transcript("verifier", Count(function, layer'))
        BY <3>2, <3>4, <3>5
      <4>3. ~(function = "fri point" /\ layer' = 1)
        BY <1>1
      <4>4. in_query_phase_' = in_query_phase_ /\ pc'[1] = "verifier"
        BY <3>2, <3>3
      <4>5. (prng[Side].mixed)' = prng'["verifier"].mixed
            /\ (prng[Side].counter)' = prng'["verifier"].counter
            /\ (in_query_phase_[Side])' = in_query_phase_["verifier"]
        BY <4>4
      <4>6. ~At("done")' => ((in_query_phase_[Side])' <=> pc'[2] \in QueryPhase)
        BY <1>1, <3>2, <4>5
      <4>7. pc'[2] \notin QueryPhase \cup {"done"} =>
              (prng[Side].mixed)' = Transcript(Side, Count(pc[2], layer))'
        BY <3>2, <4>1, <4>2, <4>5
      <4>8. pc'[2] \in Drawing => (prng[Side].counter)' = 0 /\ ~(At("fri point")' /\ layer' = 1)
        BY <3>2, <4>1, <4>3, <4>5 DEF Drawing, QueryPhase
      <4>9. QED
        BY <4>6, <4>7, <4>8 DEF Seeded
    <3>13. Checked'
      <4>1. \A i \in CheckedBy(function, layer') : Good(i)
        BY <1>0, <1>1, <1>6, <2>6 DEF Checked, ReadsNext
      <4>2. QED
        BY <1>b, <2>6, <3>2, <3>3, <3>4, <3>5, <4>1 DEF Checked
    <3>14. Stopped'
      BY <1>0, <3>1, <3>2, <3>3 DEF Stopped
    <3>15. QED
      BY <3>6, <3>7, <3>8, <3>9, <3>10, <3>11, <3>12, <3>13, <3>14 DEF IInv
  <2>7. QED
    BY <1>b, <2>5, <2>6
<1>7. QED
  BY <1>3, <1>5, <1>6

-----------------------------------------------------------------------------
\* One step that sends: the prover's next messages of the script.

SendsNext(messages, function) ==
  /\ pc[2] \in Functions \ {"done"} /\ function \in Functions \ {"done", "fri root"}
  /\ function \in QueryPhase <=> pc[2] \in QueryPhase
  /\ layer' \in 1 .. n_layers /\ (function = "open traces" => layer' = 1)
  /\ function = "fri point" => layer' # 1
  /\ function = "interaction" \/ function = "root 2" => Interactive
  /\ messages \in Seq(ToSet(messages))
  /\ \A i \in 1 .. Len(messages) :
       messages[i] = Message(NameAt(Len(proof) + i), OfAt(Len(proof) + i))
  /\ Len(proof) + Len(messages) = Count(function, layer') /\ Count(function, layer') <= Total
  /\ \A c \in Challenges :
       Round(c) < Stage(function, layer') <=> Round(c) < Stage(pc[2], layer)

LEMMA SendStep ==
  ASSUME IInv, NEW messages, NEW function, Side = "prover",
         SendBytes(messages, function), SendsNext(messages, function)
  PROVE  IInv'
<1> USE DEF Side, At
<1>0. Placed /\ Formed /\ VerifierWaits /\ Scripted /\ Challenged /\ Seeded /\ Stopped
  BY DEF IInv
<1>1. /\ Live /\ verdict = "none" /\ (in_query_phase_[Side] <=> pc[2] \in QueryPhase)
      /\ pc[2] \in Functions \ {"done"} /\ function \in Functions \ {"done", "fri root"}
      /\ (function \in QueryPhase <=> pc[2] \in QueryPhase)
      /\ layer' \in 1 .. n_layers /\ (function = "open traces" => layer' = 1)
      /\ (function = "fri point" => layer' # 1)
      /\ (function = "interaction" \/ function = "root 2" => Interactive)
  BY <1>0 DEF Placed, Seeded, Live, SendsNext
<1>2. /\ proof' = proof \o messages /\ Mix("prover", messages)
      /\ UNCHANGED <<parameters, in_query_phase_, drawn, reads, fault, verdict>>
      /\ pc' = <<"prover", function>>
  BY DEF SendBytes, Go
<1>3. /\ messages \in Seq(ToSet(messages))
      /\ \A i \in 1 .. Len(messages) :
           messages[i] = Message(NameAt(Len(proof) + i), OfAt(Len(proof) + i))
      /\ Len(proof) + Len(messages) = Count(function, layer') /\ Count(function, layer') <= Total
  BY DEF SendsNext
<1>4. Len(proof) \in Nat /\ Len(messages) \in Nat /\ Total \in Nat /\ Len(reads) = 0
  <2>1. Len(proof) \in Nat /\ Len(messages) \in Nat
    BY <1>0, <1>3, OwnElements DEF Formed
  <2>2. Total \in Nat
    BY <1>0, Positions
  <2>3. Len(reads) = 0
    BY <1>0 DEF VerifierWaits
  <2>4. QED
    BY <2>1, <2>2, <2>3
<1>5. /\ fault = "none" /\ reads = <<>> /\ DOMAIN drawn["verifier"] = {}
      /\ prng["verifier"] = [mixed |-> Seed(FALSE), counter |-> 0]
      /\ ~in_query_phase_["verifier"]
  BY <1>0 DEF VerifierWaits
<1>6. /\ proof' \in Seq(ToSet(proof')) /\ Len(proof') = Len(proof) + Len(messages)
      /\ \A i \in 1 .. Len(proof) : proof'[i] = proof[i]
      /\ \A i \in 1 .. Len(messages) : proof'[Len(proof) + i] = messages[i]
  BY <1>0, <1>2, <1>3, Appended DEF Formed
<1>7. \A i \in 1 .. Len(proof') : proof'[i] = Message(NameAt(i), OfAt(i))
  <2> SUFFICES ASSUME NEW i \in 1 .. Len(proof') PROVE proof'[i] = Message(NameAt(i), OfAt(i))
    OBVIOUS
  <2>1. i \in 1 .. Len(proof) + Len(messages) /\ i <= Total
    BY <1>3, <1>4, <1>6
  <2>2. CASE i <= Len(proof)
    <3>1. i \in 1 .. Len(proof)
      BY <1>4, <2>1, <2>2
    <3>2. QED
      BY <1>0, <1>5, <1>6, <2>1, <3>1 DEF Scripted
  <2>3. CASE i > Len(proof)
    <3>1. PICK j \in 1 .. Len(messages) : i = Len(proof) + j
      <4>1. i - Len(proof) \in 1 .. Len(messages) /\ i = Len(proof) + (i - Len(proof))
        BY <1>4, <2>1, <2>3
      <4>2. QED
        BY <4>1
    <3>2. QED
      BY <1>3, <1>6, <3>1
  <2>4. QED
    BY <1>4, <2>1, <2>2, <2>3
<1>8. /\ DOMAIN prng' = Sides /\ prng'["verifier"] = prng["verifier"]
      /\ \A s \in Sides : prng'[s] = [mixed |-> prng'[s].mixed, counter |-> prng'[s].counter]
      /\ ~in_query_phase_["prover"] =>
           prng'["prover"].counter = 0 /\ prng'["prover"].mixed =
             prng["prover"].mixed \o [i \in DOMAIN messages |-> Bytes(messages[i])]
  BY <1>0, <1>2, Mixed DEF Sides
<1>9. /\ UNCHANGED <<fri_step_list, n_interaction_elements, proof_of_work_bits>>
      /\ UNCHANGED <<fault, drawn, in_query_phase_, reads, verdict>> /\ UNCHANGED parameters
      /\ Side' = "prover" /\ pc'[2] = function /\ Live'
  BY <1>1, <1>2 DEF parameters, Live
<1>10. /\ Count(pc[2], layer)' = Count(function, layer')
       /\ Stage(pc[2], layer)' = Stage(function, layer')
       /\ Total' = Total /\ n_layers' = n_layers /\ Challenges' = Challenges
       /\ Interactive' = Interactive
       /\ \A i : NameAt(i)' = NameAt(i) /\ OfAt(i)' = OfAt(i)
       /\ \A c : Round(c)' = Round(c) /\ Challenge("prover", c)' = Challenge("prover", c)
       /\ \A n : Transcript("prover", n)' = Transcript("prover", n)
  <2>1. /\ Count(pc[2], layer)' = Count(pc'[2], layer')
        /\ Stage(pc[2], layer)' = Stage(pc'[2], layer')
        /\ Total' = Total /\ n_layers' = n_layers /\ Challenges' = Challenges
        /\ Interactive' = Interactive
        /\ \A i : NameAt(i)' = NameAt(i) /\ OfAt(i)' = OfAt(i)
        /\ \A c : Round(c)' = Round(c) /\ Challenge("prover", c)' = Challenge("prover", c)
        /\ \A n : Transcript("prover", n)' = Transcript("prover", n)
    BY <1>9, ParametersKept
  <2>2. QED
    BY <1>9, <2>1
<1>11. Placed'
  <2>1. pc' \in Sides \X Functions
    BY <1>1, <1>2 DEF Sides
  <2>2. QED
    BY <1>0, <1>1, <1>9, <1>10, <2>1 DEF Placed
<1>12. Formed'
  <2>1. Len(reads') <= Len(proof')
    BY <1>3, <1>4, <1>6, <1>9
  <2>2. QED
    BY <1>0, <1>6, <1>8, <1>9, <2>1 DEF Formed
<1>13. VerifierWaits'
  BY <1>5, <1>8, <1>9 DEF VerifierWaits
<1>14. Scripted'
  <2>1. Sent' = Count(pc[2], layer)' /\ Len(proof') <= Total
    BY <1>3, <1>6, <1>9, <1>10 DEF Sent
  <2>2. \A i \in 1 .. Len(reads') : i <= Total /\ reads'[i] = NameAt(i)
    BY <1>4, <1>9
  <2>3. QED
    BY <1>5, <1>7, <1>9, <1>10, <2>1, <2>2 DEF Scripted, Message
<1>15. Faulted'
  BY <1>5, <1>9 DEF Faulted
<1>16. Challenged'
  <2>1. \A s \in Sides : \A c \in DOMAIN drawn[s] :
          c \in Challenges /\ drawn[s][c] = Challenge("prover", c)
    BY <1>0, <1>5 DEF Challenged, Sides
  <2>2. DOMAIN drawn["prover"] = {c \in Challenges : Round(c) < Stage(function, layer')}
    BY <1>0, <1>1 DEF Challenged, SendsNext
  <2>3. DOMAIN drawn'[Side'] = {c \in Challenges : Round(c) < Stage(pc[2], layer)}'
    BY <1>9, <1>10, <2>2
  <2>4. \A s \in Sides : \A c \in DOMAIN drawn[s] : s = "prover"
    BY <1>5 DEF Sides
  <2>5. QED
    BY <1>9, <1>10, <2>1, <2>3, <2>4 DEF Challenged
<1>17. Seeded'
  <2>1. function \notin QueryPhase =>
          /\ prng'["prover"].mixed = Transcript("prover", Count(function, layer'))
          /\ prng'["prover"].counter = 0
    <3> SUFFICES ASSUME function \notin QueryPhase
                 PROVE /\ prng'["prover"].mixed = Transcript("prover", Count(function, layer'))
                       /\ prng'["prover"].counter = 0
      OBVIOUS
    <3>1. prng["prover"].mixed = Transcript("prover", Len(proof))
      BY <1>0, <1>1 DEF Seeded, Scripted, Sent
    <3>2. ASSUME NEW i \in 1 .. Len(messages)
          PROVE  Bytes(messages[i]) = BytesAt("prover", Len(proof) + i)
      <4>1. PICK of : messages[i] = Message(NameAt(Len(proof) + i), of)
        BY <1>3, Zenon
      <4>2. Bytes(messages[i]) = <<NameAt(Len(proof) + i), FALSE>>
        BY <4>1, MessageBytes
      <4>3. QED
        BY <4>2 DEF BytesAt
    <3>3. Transcript("prover", Len(proof)) \o [i \in DOMAIN messages |-> Bytes(messages[i])] =
            Transcript("prover", Len(proof) + Len(messages))
      BY <1>3, <1>4, <3>2, ExtendedTranscript
    <3>4. QED
      BY <1>1, <1>3, <1>8, <3>1, <3>3
  <2>2. Transcript(Side, Count(pc[2], layer))' = Transcript("prover", Count(function, layer'))
    BY <1>9, <1>10
  <2>3. ~(function = "fri point" /\ layer' = 1)
    BY <1>1
  <2>4. (prng[Side].mixed)' = prng'["prover"].mixed
        /\ (prng[Side].counter)' = prng'["prover"].counter
        /\ (in_query_phase_[Side])' = in_query_phase_["prover"]
    BY <1>9
  <2>5. ~At("done")' => ((in_query_phase_[Side])' <=> pc'[2] \in QueryPhase)
    BY <1>1, <1>9, <2>4
  <2>6. pc'[2] \notin QueryPhase \cup {"done"} =>
          (prng[Side].mixed)' = Transcript(Side, Count(pc[2], layer))'
    BY <1>9, <2>1, <2>2, <2>4
  <2>7. pc'[2] \in Drawing => (prng[Side].counter)' = 0 /\ ~(At("fri point")' /\ layer' = 1)
    BY <1>9, <2>1, <2>3, <2>4 DEF Drawing, QueryPhase
  <2>8. QED
    BY <2>5, <2>6, <2>7 DEF Seeded
<1>18. Checked' /\ Stopped'
  BY <1>0, <1>1, <1>9 DEF Checked, Stopped
<1>19. QED
  BY <1>11, <1>12, <1>13, <1>14, <1>15, <1>16, <1>17, <1>18 DEF IInv

-----------------------------------------------------------------------------
\* The names of the script, their positions and their rounds.

LEMMA TraceNames ==
  ASSUME Placed, NEW j \in 1 .. NumTraces
  PROVE  /\ DOMAIN Traces = 1 .. NumTraces /\ Len(Traces) = NumTraces
         /\ Traces[j] = (IF j = NumTraces THEN 3 ELSE j) /\ Traces[j] \in 1 .. 3
         /\ Traces[j] = 2 => Interactive
<1>1. NumTraces \in 2 .. 3 /\ (Interactive <=> NumTraces = 3)
  BY Positions
<1>2. CASE NumTraces = 2
  <2>1. Traces = <<1, 3>> /\ j \in {1, 2}
    BY <1>1, <1>2 DEF Traces
  <2>2. DOMAIN Traces = 1 .. 2 /\ Len(Traces) = 2 /\ Traces[1] = 1 /\ Traces[2] = 3
    BY <2>1
  <2>3. QED
    BY <1>1, <1>2, <2>1, <2>2
<1>3. CASE NumTraces = 3
  <2>1. Traces = <<1, 2, 3>> /\ j \in {1, 2, 3}
    BY <1>1, <1>3 DEF Traces
  <2>2. DOMAIN Traces = 1 .. 3 /\ Len(Traces) = 3
        /\ Traces[1] = 1 /\ Traces[2] = 2 /\ Traces[3] = 3
    BY <2>1
  <2>3. QED
    BY <1>1, <1>3, <2>1, <2>2
<1>4. QED
  BY <1>1, <1>2, <1>3

LEMMA KindRounds ==
  /\ Round(Root(1)) = 1 /\ Round(Root(2)) = 3 /\ Round(Root(3)) = 5
  /\ \A k \in Int : /\ Round(<<"mask", k>>) = 7 /\ Round(<<"break", k>>) = 7
                    /\ Round(<<"fri root", k>>) = 8 + 2 * k
                    /\ Round(<<"coefficients", k>>) = 8 + 2 * n_layers
                    /\ Round(<<"POW", k>>) = 9 + 2 * n_layers
                    /\ Round(<<"trace", k>>) = 11 + 2 * n_layers
                    /\ Round(<<"layer", k>>) = 11 + 2 * n_layers
BY DEF Round, Root

LEMMA ScriptNames ==
  ASSUME Placed, NEW i \in 1 .. Total
  PROVE  /\ i = 1 => NameAt(i) = Root(1)
         /\ i = 2 /\ Interactive => NameAt(i) = Root(2)
         /\ i = NumTraces => NameAt(i) = Root(3)
         /\ NumTraces < i /\ i <= LastMask => NameAt(i) = <<"mask", i - NumTraces>>
         /\ LastMask < i /\ i <= LastOods => NameAt(i) = <<"break", i - LastMask>>
         /\ LastOods < i /\ i < LastCommitment => NameAt(i) = <<"fri root", i - LastOods>>
         /\ i = LastCommitment => NameAt(i) = <<"coefficients", 1>>
         /\ LastCommitment < i /\ i <= QueryStart => NameAt(i) = <<"POW", 1>>
         /\ QueryStart < i /\ i <= LastTrace => NameAt(i) = <<"trace", Traces[i - QueryStart]>>
         /\ LastTrace < i => NameAt(i) = <<"layer", i - LastTrace>>
<1>0. /\ n_layers \in Nat /\ n_layers >= 1
      /\ NumTraces \in 2 .. 3 /\ (Interactive <=> NumTraces = 3)
      /\ LastMask \in Nat /\ LastMask >= NumTraces + 1
      /\ LastOods \in Nat /\ LastOods >= LastMask + 1
      /\ LastCommitment = LastOods + n_layers
      /\ QueryStart \in LastCommitment .. LastCommitment + 1
      /\ LastTrace = QueryStart + NumTraces /\ Total = LastTrace + n_layers - 1
  BY Positions
<1>1. ASSUME i = 1 PROVE NameAt(i) = Root(1)
  <2>1. /\ i = 1 /\ ~(i > 1 /\ i < NumTraces) /\ i # NumTraces
        /\ ~(i > NumTraces /\ i <= LastMask) /\ ~(i > LastMask /\ i <= LastOods)
        /\ ~(i > LastOods /\ i < LastCommitment) /\ i # LastCommitment
        /\ ~(i > LastCommitment /\ i <= QueryStart) /\ ~(i > QueryStart /\ i <= LastTrace)
        /\ ~(i > LastTrace)
    BY <1>0, <1>1
  <2>2. QED
    BY <2>1, Zenon DEF NameAt
<1>2. ASSUME i = 2 /\ Interactive PROVE NameAt(i) = Root(2)
  <2>1. /\ i # 1 /\ i > 1 /\ i < NumTraces /\ i # NumTraces
        /\ ~(i > NumTraces /\ i <= LastMask) /\ ~(i > LastMask /\ i <= LastOods)
        /\ ~(i > LastOods /\ i < LastCommitment) /\ i # LastCommitment
        /\ ~(i > LastCommitment /\ i <= QueryStart) /\ ~(i > QueryStart /\ i <= LastTrace)
        /\ ~(i > LastTrace)
    BY <1>0, <1>2
  <2>2. QED
    BY <2>1, Zenon DEF NameAt
<1>3. ASSUME i = NumTraces PROVE NameAt(i) = Root(3)
  <2>1. /\ i # 1 /\ ~(i > 1 /\ i < NumTraces) /\ i = NumTraces
        /\ ~(i > NumTraces /\ i <= LastMask) /\ ~(i > LastMask /\ i <= LastOods)
        /\ ~(i > LastOods /\ i < LastCommitment) /\ i # LastCommitment
        /\ ~(i > LastCommitment /\ i <= QueryStart) /\ ~(i > QueryStart /\ i <= LastTrace)
        /\ ~(i > LastTrace)
    BY <1>0, <1>3
  <2>2. QED
    BY <2>1, Zenon DEF NameAt
<1>4. ASSUME NumTraces < i /\ i <= LastMask PROVE NameAt(i) = <<"mask", i - NumTraces>>
  <2>1. /\ i # 1 /\ ~(i > 1 /\ i < NumTraces) /\ i # NumTraces
        /\ i > NumTraces /\ i <= LastMask /\ ~(i > LastMask /\ i <= LastOods)
        /\ ~(i > LastOods /\ i < LastCommitment) /\ i # LastCommitment
        /\ ~(i > LastCommitment /\ i <= QueryStart) /\ ~(i > QueryStart /\ i <= LastTrace)
        /\ ~(i > LastTrace)
    BY <1>0, <1>4
  <2>2. QED
    BY <2>1, Zenon DEF NameAt
<1>5. ASSUME LastMask < i /\ i <= LastOods PROVE NameAt(i) = <<"break", i - LastMask>>
  <2>1. /\ i # 1 /\ ~(i > 1 /\ i < NumTraces) /\ i # NumTraces
        /\ ~(i > NumTraces /\ i <= LastMask) /\ i > LastMask /\ i <= LastOods
        /\ ~(i > LastOods /\ i < LastCommitment) /\ i # LastCommitment
        /\ ~(i > LastCommitment /\ i <= QueryStart) /\ ~(i > QueryStart /\ i <= LastTrace)
        /\ ~(i > LastTrace)
    BY <1>0, <1>5
  <2>2. QED
    BY <2>1, Zenon DEF NameAt
<1>6. ASSUME LastOods < i /\ i < LastCommitment PROVE NameAt(i) = <<"fri root", i - LastOods>>
  <2>1. /\ i # 1 /\ ~(i > 1 /\ i < NumTraces) /\ i # NumTraces
        /\ ~(i > NumTraces /\ i <= LastMask) /\ ~(i > LastMask /\ i <= LastOods)
        /\ i > LastOods /\ i < LastCommitment /\ i # LastCommitment
        /\ ~(i > LastCommitment /\ i <= QueryStart) /\ ~(i > QueryStart /\ i <= LastTrace)
        /\ ~(i > LastTrace)
    BY <1>0, <1>6
  <2>2. QED
    BY <2>1, Zenon DEF NameAt
<1>7. ASSUME i = LastCommitment PROVE NameAt(i) = <<"coefficients", 1>>
  <2>1. /\ i # 1 /\ ~(i > 1 /\ i < NumTraces) /\ i # NumTraces
        /\ ~(i > NumTraces /\ i <= LastMask) /\ ~(i > LastMask /\ i <= LastOods)
        /\ ~(i > LastOods /\ i < LastCommitment) /\ i = LastCommitment
        /\ ~(i > LastCommitment /\ i <= QueryStart) /\ ~(i > QueryStart /\ i <= LastTrace)
        /\ ~(i > LastTrace)
    BY <1>0, <1>7
  <2>2. QED
    BY <2>1, Zenon DEF NameAt
<1>8. ASSUME LastCommitment < i /\ i <= QueryStart PROVE NameAt(i) = <<"POW", 1>>
  <2>1. /\ i # 1 /\ ~(i > 1 /\ i < NumTraces) /\ i # NumTraces
        /\ ~(i > NumTraces /\ i <= LastMask) /\ ~(i > LastMask /\ i <= LastOods)
        /\ ~(i > LastOods /\ i < LastCommitment) /\ i # LastCommitment
        /\ i > LastCommitment /\ i <= QueryStart /\ ~(i > QueryStart /\ i <= LastTrace)
        /\ ~(i > LastTrace)
    BY <1>0, <1>8
  <2>2. QED
    BY <2>1, Zenon DEF NameAt
<1>9. ASSUME QueryStart < i /\ i <= LastTrace PROVE NameAt(i) = <<"trace", Traces[i - QueryStart]>>
  <2>1. /\ i # 1 /\ ~(i > 1 /\ i < NumTraces) /\ i # NumTraces
        /\ ~(i > NumTraces /\ i <= LastMask) /\ ~(i > LastMask /\ i <= LastOods)
        /\ ~(i > LastOods /\ i < LastCommitment) /\ i # LastCommitment
        /\ ~(i > LastCommitment /\ i <= QueryStart) /\ i > QueryStart /\ i <= LastTrace
        /\ ~(i > LastTrace)
    BY <1>0, <1>9
  <2>2. QED
    BY <2>1, Zenon DEF NameAt
<1>10. ASSUME LastTrace < i PROVE NameAt(i) = <<"layer", i - LastTrace>>
  <2>1. /\ i # 1 /\ ~(i > 1 /\ i < NumTraces) /\ i # NumTraces
        /\ ~(i > NumTraces /\ i <= LastMask) /\ ~(i > LastMask /\ i <= LastOods)
        /\ ~(i > LastOods /\ i < LastCommitment) /\ i # LastCommitment
        /\ ~(i > LastCommitment /\ i <= QueryStart) /\ ~(i > QueryStart /\ i <= LastTrace)
        /\ i > LastTrace
    BY <1>0, <1>10
  <2>2. QED
    BY <2>1, Zenon DEF NameAt
<1>11. QED
  BY <1>1, <1>2, <1>3, <1>4, <1>5, <1>6, <1>7, <1>8, <1>9, <1>10, Zenon

LEMMA ScriptKinds ==
  ASSUME Placed, NEW i \in 1 .. Total
  PROVE  \/ /\ i = 1 /\ NameAt(i) = Root(1) /\ Round(NameAt(i)) = 1
         \/ /\ i = 2 /\ Interactive /\ NameAt(i) = Root(2) /\ Round(NameAt(i)) = 3
         \/ /\ i = NumTraces /\ NameAt(i) = Root(3) /\ Round(NameAt(i)) = 5
         \/ /\ NumTraces < i /\ i <= LastMask
            /\ NameAt(i) = <<"mask", i - NumTraces>> /\ Round(NameAt(i)) = 7
         \/ /\ LastMask < i /\ i <= LastOods
            /\ NameAt(i) = <<"break", i - LastMask>> /\ Round(NameAt(i)) = 7
         \/ /\ LastOods < i /\ i < LastCommitment
            /\ NameAt(i) = <<"fri root", i - LastOods>>
            /\ Round(NameAt(i)) = 8 + 2 * (i - LastOods)
         \/ /\ i = LastCommitment /\ NameAt(i) = <<"coefficients", 1>>
            /\ Round(NameAt(i)) = 8 + 2 * n_layers
         \/ /\ i = LastCommitment + 1 /\ i = QueryStart /\ NameAt(i) = <<"POW", 1>>
            /\ Round(NameAt(i)) = 9 + 2 * n_layers
         \/ /\ QueryStart < i /\ i <= LastTrace /\ i - QueryStart \in 1 .. NumTraces
            /\ NameAt(i) = <<"trace", Traces[i - QueryStart]>>
            /\ Round(NameAt(i)) = 11 + 2 * n_layers
         \/ /\ LastTrace < i /\ NameAt(i) = <<"layer", i - LastTrace>>
            /\ Round(NameAt(i)) = 11 + 2 * n_layers
<1>0. /\ n_layers \in Nat /\ n_layers >= 1
      /\ NumTraces \in 2 .. 3 /\ (Interactive <=> NumTraces = 3)
      /\ LastMask \in Nat /\ LastMask >= NumTraces + 1
      /\ LastOods \in Nat /\ LastOods >= LastMask + 1
      /\ LastCommitment = LastOods + n_layers
      /\ QueryStart \in LastCommitment .. LastCommitment + 1
      /\ LastTrace = QueryStart + NumTraces /\ Total = LastTrace + n_layers - 1
  BY Positions
<1>1. CASE i = 1
  <2>2. NameAt(i) = Root(1)
    BY <1>1, ScriptNames, Zenon
  <2>3. QED
    BY <1>1, <2>2, KindRounds
<1>2. CASE i = 2 /\ Interactive
  <2>2. NameAt(i) = Root(2)
    BY <1>2, ScriptNames, Zenon
  <2>3. QED
    BY <1>2, <2>2, KindRounds
<1>3. CASE i = NumTraces
  <2>2. NameAt(i) = Root(3)
    BY <1>3, ScriptNames, Zenon
  <2>3. QED
    BY <1>3, <2>2, KindRounds
<1>4. CASE NumTraces < i /\ i <= LastMask
  <2>2. NameAt(i) = <<"mask", i - NumTraces>>
    BY <1>4, ScriptNames, Zenon
  <2>3. i - NumTraces \in Int
    BY <1>0, <1>4
  <2>4. Round(NameAt(i)) = 7
    BY <2>2, <2>3, KindRounds
  <2>5. QED
    BY <1>0, <1>4, <2>2, <2>4
<1>5. CASE LastMask < i /\ i <= LastOods
  <2>2. NameAt(i) = <<"break", i - LastMask>>
    BY <1>5, ScriptNames, Zenon
  <2>3. i - LastMask \in Int
    BY <1>0, <1>5
  <2>4. Round(NameAt(i)) = 7
    BY <2>2, <2>3, KindRounds
  <2>5. QED
    BY <1>0, <1>5, <2>2, <2>4
<1>6. CASE LastOods < i /\ i < LastCommitment
  <2>2. NameAt(i) = <<"fri root", i - LastOods>>
    BY <1>6, ScriptNames, Zenon
  <2>3. i - LastOods \in Int
    BY <1>0, <1>6
  <2>4. Round(NameAt(i)) = 8 + 2 * (i - LastOods)
    BY <2>2, <2>3, KindRounds
  <2>5. QED
    BY <1>0, <1>6, <2>2, <2>4
<1>7. CASE i = LastCommitment
  <2>2. NameAt(i) = <<"coefficients", 1>>
    BY <1>7, ScriptNames, Zenon
  <2>3. 1 \in Int
    BY <1>0, <1>7
  <2>4. Round(NameAt(i)) = 8 + 2 * n_layers
    BY <2>2, <2>3, KindRounds
  <2>5. QED
    BY <1>0, <1>7, <2>2, <2>4
<1>8. CASE LastCommitment < i /\ i <= QueryStart
  <2>2. NameAt(i) = <<"POW", 1>>
    BY <1>8, ScriptNames, Zenon
  <2>3. 1 \in Int
    BY <1>0, <1>8
  <2>4. Round(NameAt(i)) = 9 + 2 * n_layers
    BY <2>2, <2>3, KindRounds
  <2>5. QED
    BY <1>0, <1>8, <2>2, <2>4
<1>9. CASE QueryStart < i /\ i <= LastTrace
  <2>2. NameAt(i) = <<"trace", Traces[i - QueryStart]>>
    BY <1>9, ScriptNames, Zenon
  <2>3. i - QueryStart \in 1 .. NumTraces
    BY <1>0, <1>9
  <2>4. Traces[i - QueryStart] \in Int
    BY <2>3, TraceNames
  <2>5. Round(NameAt(i)) = 11 + 2 * n_layers
    BY <2>2, <2>4, KindRounds
  <2>6. QED
    BY <1>9, <2>2, <2>3, <2>5
<1>10. CASE LastTrace < i
  <2>2. NameAt(i) = <<"layer", i - LastTrace>>
    BY <1>10, ScriptNames, Zenon
  <2>3. i - LastTrace \in Int
    BY <1>0, <1>10
  <2>4. Round(NameAt(i)) = 11 + 2 * n_layers
    BY <2>2, <2>3, KindRounds
  <2>5. QED
    BY <1>0, <1>10, <2>2, <2>4
<1>11. \/ i = 1 \/ (i = 2 /\ Interactive) \/ i = NumTraces
       \/ (NumTraces < i /\ i <= LastMask) \/ (LastMask < i /\ i <= LastOods)
       \/ (LastOods < i /\ i < LastCommitment) \/ i = LastCommitment
       \/ (LastCommitment < i /\ i <= QueryStart) \/ (QueryStart < i /\ i <= LastTrace)
       \/ LastTrace < i
  BY <1>0
<1>12. QED
  BY <1>1, <1>2, <1>3, <1>4, <1>5, <1>6, <1>7, <1>8, <1>9, <1>10, <1>11

PositionOf(name) ==
  CASE name[1] = "root" -> IF name[2] = 3 THEN NumTraces ELSE name[2]
    [] name[1] = "mask" -> NumTraces + name[2]
    [] name[1] = "break" -> LastMask + name[2]
    [] name[1] = "fri root" -> LastOods + name[2]
    [] name[1] = "coefficients" -> LastCommitment
    [] name[1] = "POW" -> QueryStart
    [] name[1] = "trace" -> QueryStart + (IF name[2] = 3 THEN NumTraces ELSE name[2])
    [] name[1] = "layer" -> LastTrace + name[2]

LEMMA KindPositions ==
  ASSUME NEW k \in Int
  PROVE  /\ PositionOf(<<"root", k>>) = IF k = 3 THEN NumTraces ELSE k
         /\ PositionOf(<<"mask", k>>) = NumTraces + k
         /\ PositionOf(<<"break", k>>) = LastMask + k
         /\ PositionOf(<<"fri root", k>>) = LastOods + k
         /\ PositionOf(<<"coefficients", k>>) = LastCommitment
         /\ PositionOf(<<"POW", k>>) = QueryStart
         /\ PositionOf(<<"trace", k>>) = QueryStart + (IF k = 3 THEN NumTraces ELSE k)
         /\ PositionOf(<<"layer", k>>) = LastTrace + k
BY DEF PositionOf

LEMMA PositionOfName ==
  ASSUME Placed, NEW i \in 1 .. Total
  PROVE  PositionOf(NameAt(i)) = i
<1> DEFINE name == NameAt(i)
           p == PositionOf(name)
<1>0. /\ n_layers \in Nat /\ NumTraces \in 2 .. 3 /\ LastMask \in Nat /\ LastOods \in Nat
      /\ {LastCommitment, QueryStart, LastTrace, Total} \subseteq Nat
  BY Positions
<1>1. ASSUME i = 1, name = Root(1) PROVE p = i
  <2>1. 1 \in Int
    BY <1>0
  <2>2. p = IF 1 = 3 THEN NumTraces ELSE 1
    BY <1>1, <2>1, KindPositions, Zenon DEF Root
  <2>3. QED
    BY <1>0, <1>1, <2>2
<1>2. ASSUME i = 2, name = Root(2) PROVE p = i
  <2>1. 2 \in Int
    BY <1>0
  <2>2. p = IF 2 = 3 THEN NumTraces ELSE 2
    BY <1>2, <2>1, KindPositions, Zenon DEF Root
  <2>3. QED
    BY <1>0, <1>2, <2>2
<1>3. ASSUME i = NumTraces, name = Root(3) PROVE p = i
  <2>1. 3 \in Int
    BY <1>0
  <2>2. p = IF 3 = 3 THEN NumTraces ELSE 3
    BY <1>3, <2>1, KindPositions, Zenon DEF Root
  <2>3. QED
    BY <1>0, <1>3, <2>2
<1>4. ASSUME name = <<"mask", i - NumTraces>> PROVE p = i
  <2>1. i - NumTraces \in Int
    BY <1>0
  <2>2. p = NumTraces + (i - NumTraces)
    BY <1>4, <2>1, KindPositions, Zenon
  <2>3. QED
    BY <1>0, <1>4, <2>2
<1>5. ASSUME name = <<"break", i - LastMask>> PROVE p = i
  <2>1. i - LastMask \in Int
    BY <1>0
  <2>2. p = LastMask + (i - LastMask)
    BY <1>5, <2>1, KindPositions, Zenon
  <2>3. QED
    BY <1>0, <1>5, <2>2
<1>6. ASSUME name = <<"fri root", i - LastOods>> PROVE p = i
  <2>1. i - LastOods \in Int
    BY <1>0
  <2>2. p = LastOods + (i - LastOods)
    BY <1>6, <2>1, KindPositions, Zenon
  <2>3. QED
    BY <1>0, <2>2
<1>7. ASSUME i = LastCommitment, name = <<"coefficients", 1>> PROVE p = i
  <2>1. 1 \in Int
    BY <1>0
  <2>2. p = LastCommitment
    BY <1>7, <2>1, KindPositions, Zenon
  <2>3. QED
    BY <1>0, <1>7, <2>2
<1>8. ASSUME i = QueryStart, name = <<"POW", 1>> PROVE p = i
  <2>1. 1 \in Int
    BY <1>0
  <2>2. p = QueryStart
    BY <1>8, <2>1, KindPositions, Zenon
  <2>3. QED
    BY <1>0, <1>8, <2>2
<1>9. ASSUME i - QueryStart \in 1 .. NumTraces, name = <<"trace", Traces[i - QueryStart]>> PROVE p = i
  <2>1. Traces[i - QueryStart] = (IF i - QueryStart = NumTraces THEN 3 ELSE i - QueryStart)
        /\ Traces[i - QueryStart] \in Int
    BY <1>9, TraceNames
  <2>2. p = QueryStart + (IF Traces[i - QueryStart] = 3 THEN NumTraces ELSE Traces[i - QueryStart])
    BY <1>9, <2>1, KindPositions
  <2>3. QED
    BY <1>0, <1>9, <2>1, <2>2
<1>10. ASSUME name = <<"layer", i - LastTrace>> PROVE p = i
  <2>1. i - LastTrace \in Int
    BY <1>0
  <2>2. p = LastTrace + (i - LastTrace)
    BY <1>10, <2>1, KindPositions, Zenon
  <2>3. QED
    BY <1>0, <1>10, <2>2
<1> HIDE DEF p
<1>11. QED
  BY <1>1, <1>2, <1>3, <1>4, <1>5, <1>6, <1>7, <1>8, <1>9, <1>10, ScriptKinds DEF p

LEMMA NamesDiffer ==
  ASSUME Placed, NEW i \in 1 .. Total, NEW j \in 1 .. Total, NameAt(i) = NameAt(j)
  PROVE  i = j
BY PositionOfName

\* The rounds of FRI's points.
LEMMA FoldedLayers ==
  ASSUME Placed
  PROVE  Folded \subseteq 1 .. n_layers /\ \A k \in 2 .. n_layers : k \in Folded
BY Positions DEF Folded

\* A challenge follows every message of the rounds before its own.
LEMMA RoundsInOrder ==
  ASSUME Placed, NEW i \in 1 .. Total, NEW c \in Challenges, Round(NameAt(i)) < Round(c)
  PROVE  i <= Before(c)
<1> DEFINE r == Round(NameAt(i))
           q == Round(c)
           k == c[2]
           b == Before(c)
<1>0. /\ n_layers \in Nat /\ n_layers >= 1 /\ n_interaction_elements \in Nat
      /\ NumTraces \in 2 .. 3 /\ (Interactive <=> NumTraces = 3)
      /\ LastMask \in Nat /\ LastMask >= NumTraces + 1
      /\ LastOods \in Nat /\ LastOods >= LastMask + 1
      /\ LastCommitment = LastOods + n_layers
      /\ QueryStart \in LastCommitment .. LastCommitment + 1 /\ r < q
      /\ (Interactive <=> n_interaction_elements > 0)
  BY Positions DEF Interactive
<1>1. \/ q = 2 /\ b = 1
      \/ q = 4 /\ b = NumTraces - 1
      \/ q = 6 /\ b = NumTraces
      \/ q = 8 /\ b = LastOods
      \/ q = 7 + 2 * k /\ b = LastOods + k - 1 /\ k \in 1 .. n_layers
      \/ q = 10 + 2 * n_layers /\ b = QueryStart
  <2>1. k \in Folded => k \in 1 .. n_layers
    BY FoldedLayers
  <2>2. QED
    BY <2>1, ChallengeKinds
<1>2. \/ i = 1 /\ r = 1
      \/ i = 2 /\ Interactive /\ r = 3
      \/ i = NumTraces /\ r = 5
      \/ NumTraces < i /\ i <= LastMask /\ r = 7
      \/ LastMask < i /\ i <= LastOods /\ r = 7
      \/ LastOods < i /\ i < LastCommitment /\ r = 8 + 2 * (i - LastOods)
      \/ i = LastCommitment /\ r = 8 + 2 * n_layers
      \/ i = QueryStart /\ r = 9 + 2 * n_layers
      \/ r = 11 + 2 * n_layers
  BY ScriptKinds, ZenonT(60)
<1> HIDE DEF r, q, b, k
<1>3. i <= b
  BY <1>0, <1>1, <1>2
<1>4. QED
  BY <1>3 DEF b

\* No two challenges of a side are the same draw.
LEMMA DrawsDiffer ==
  ASSUME Placed, NEW c \in Challenges, NEW d \in Challenges, NEW side,
         Challenge(side, c) = Challenge(side, d)
  PROVE  c = d
<1>0. /\ n_layers \in Nat /\ n_layers >= 1 /\ n_interaction_elements \in Nat
      /\ NumTraces \in 2 .. 3 /\ (Interactive <=> NumTraces = 3)
      /\ LastMask \in Nat /\ LastMask >= NumTraces + 1
      /\ LastOods \in Nat /\ LastOods >= LastMask + 1
      /\ LastCommitment = LastOods + n_layers
      /\ QueryStart \in LastCommitment .. LastCommitment + 1
      /\ (Interactive <=> n_interaction_elements > 0)
  BY Positions DEF Interactive
<1>1. Before(c) \in Nat /\ Before(d) \in Nat
  <2>1. ASSUME NEW e \in Challenges PROVE Before(e) \in Nat
    <3>1. e[2] \in Folded => e[2] \in 1 .. n_layers
      BY FoldedLayers
    <3>2. QED
      BY <1>0, <3>1, ChallengeKinds
  <2>2. QED
    BY <2>1
<1>2. Transcript(side, Before(c)) = Transcript(side, Before(d)) /\ Turn(c) = Turn(d)
  BY DEF Challenge
<1>3. Len(Transcript(side, Before(c))) = Before(c) + 1
      /\ Len(Transcript(side, Before(d))) = Before(d) + 1
  BY <1>1, TranscriptIsSequence
<1>4. Before(c) = Before(d)
  BY <1>1, <1>2, <1>3
<1>5. c = <<c[1], c[2]>> /\ d = <<d[1], d[2]>> /\ c[2] \in Nat /\ d[2] \in Nat
  BY ChallengeKinds
<1> DEFINE Kind(e) ==
      \/ /\ e[1] = "interaction" /\ e[2] \in 1 .. n_interaction_elements
         /\ Before(e) = 1 /\ Turn(e) = e[2]
      \/ e[1] = "composition" /\ e[2] = 1 /\ Before(e) = NumTraces - 1 /\ Turn(e) = 1
      \/ e[1] = "point" /\ e[2] = 1 /\ Before(e) = NumTraces /\ Turn(e) = 1
      \/ e[1] = "oods" /\ e[2] = 1 /\ Before(e) = LastOods /\ Turn(e) = 1
      \/ /\ e[1] = "fri" /\ e[2] \in 1 .. n_layers
         /\ Before(e) = LastOods + e[2] - 1 /\ Turn(e) = (IF e[2] = 1 THEN 2 ELSE 1)
      \/ e[1] = "query" /\ e[2] \in 1 .. n_queries /\ Before(e) = QueryStart /\ Turn(e) = e[2]
<1>6. ASSUME NEW e \in Challenges PROVE Kind(e)
  <2>1. e[2] \in Folded => e[2] \in 1 .. n_layers
    BY FoldedLayers
  <2>2. QED
    BY <2>1, ChallengeKinds
<1>7. Kind(c) /\ Kind(d)
  BY <1>6
<1>8. c[1] = d[1] /\ c[2] = d[2]
  BY <1>0, <1>2, <1>4, <1>5, <1>7
<1>9. QED
  BY <1>5, <1>8

\* Where the challenges stand in the script.
LEMMA ChallengePlaces ==
  ASSUME Placed, NEW c \in Challenges
  PROVE  /\ Before(c) \in Nat /\ Before(c) <= Total
         /\ Round(c) \in 2 .. 10 + 2 * n_layers
         /\ \A k : Round(c) < Stage("done", k) /\ Round(c) < Stage("open layers", k)
<1>0. /\ n_layers \in Nat /\ n_layers >= 1 /\ NumTraces \in 2 .. 3
      /\ LastMask \in Nat /\ LastMask >= NumTraces + 1
      /\ LastOods \in Nat /\ LastOods >= LastMask + 1
      /\ LastCommitment = LastOods + n_layers
      /\ QueryStart \in LastCommitment .. LastCommitment + 1
      /\ LastTrace = QueryStart + NumTraces /\ Total = LastTrace + n_layers - 1
  BY Positions
<1>1. c[2] \in Folded => c[2] \in 1 .. n_layers
  BY FoldedLayers
<1>2. /\ Before(c) \in Nat /\ Before(c) <= Total
      /\ Round(c) \in 2 .. 10 + 2 * n_layers
  BY <1>0, <1>1, ChallengeKinds
<1>3. \A k : Stage("done", k) = 11 + 2 * n_layers /\ Stage("open layers", k) = 11 + 2 * n_layers
  BY DEF Stage
<1>4. Round(c) < 11 + 2 * n_layers
  BY <1>0, <1>2
<1>5. QED
  BY <1>2, <1>3, <1>4

-----------------------------------------------------------------------------
\* What follows from the invariant.

\* With nothing altered, the two sides have the same transcripts and challenges.
LEMMA SidesAgree ==
  ASSUME IInv, fault = "none", Side = "verifier"
  PROVE  /\ \A n \in Nat : n <= Total => Transcript("prover", n) = Transcript("verifier", n)
         /\ \A c \in Challenges : Challenge("prover", c) = Challenge("verifier", c)
         /\ SameChallenges(DOMAIN drawn["verifier"])
<1>0. Placed /\ Scripted /\ Challenged
  BY DEF IInv
<1>1. Total \in Nat /\ \A i \in 1 .. Total : proof[i] = Message(NameAt(i), OfAt(i))
  <2>1. Total \in Nat
    BY <1>0, Positions
  <2>2. QED
    BY <1>0, <2>1 DEF Scripted
<1>2. ASSUME NEW i \in 1 .. Total PROVE BytesAt("prover", i) = BytesAt("verifier", i)
  <2>1. proof[i] = Message(NameAt(i), OfAt(i))
    BY ONLY <1>1
  <2>2. Bytes(Message(NameAt(i), OfAt(i))) = <<NameAt(i), FALSE>>
    BY MessageBytes, Zenon
  <2>3. BytesAt("verifier", i) = Bytes(proof[i])
    BY DEF BytesAt
  <2>4. BytesAt("prover", i) = <<NameAt(i), FALSE>>
    BY DEF BytesAt
  <2>5. QED
    BY ONLY <2>1, <2>2, <2>3, <2>4
<1>3. ASSUME NEW n \in Nat, n <= Total PROVE Transcript("prover", n) = Transcript("verifier", n)
  <2>1. SeedOf("prover") = SeedOf("verifier")
    BY DEF SeedOf, Seed
  <2>2. \A i \in 1 .. n + 1 : i # 1 => BytesAt("prover", i - 1) = BytesAt("verifier", i - 1)
    BY <1>1, <1>2, <1>3
  <2>3. QED
    BY <2>1, <2>2 DEF Transcript
<1>4. ASSUME NEW c \in Challenges PROVE Challenge("prover", c) = Challenge("verifier", c)
  <2>1. Before(c) \in Nat /\ Before(c) <= Total
    BY <1>0, ChallengePlaces
  <2>2. QED
    BY <1>3, <2>1 DEF Challenge
<1>5. SameChallenges(DOMAIN drawn["verifier"])
  BY <1>0, <1>4 DEF Challenged, SameChallenges, Sides
<1>6. QED
  BY <1>3, <1>4, <1>5

LEMMA BindingHolds ==
  ASSUME IInv
  PROVE  ChallengesBindTheTranscript
<1>0. Placed /\ Formed /\ VerifierWaits /\ Scripted /\ Challenged
  BY DEF IInv
<1>1. Side \in Sides /\ Total \in Nat
  BY <1>0, Positions DEF Placed, Sides, Side
<1>2. SUFFICES ASSUME NEW c \in DOMAIN drawn[Side]
      PROVE  /\ drawn[Side][c].mixed[1] = Seed(fault = "statement" /\ Side = "verifier")[1]
             /\ \A i \in DOMAIN (IF Side = "prover" THEN proof ELSE reads) :
                  LET name == IF Side = "prover" THEN proof[i].name ELSE reads[i]
                  IN Round(name) < Round(c) => Bytes(proof[i]) \in ToSet(drawn[Side][c].mixed)
             /\ \A d \in DOMAIN drawn[Side] \ {c} : drawn[Side][d] # drawn[Side][c]
  BY DEF ChallengesBindTheTranscript
<1>3. c \in Challenges /\ drawn[Side][c] = Challenge(Side, c)
      /\ drawn[Side][c].mixed = Transcript(Side, Before(c))
      /\ Before(c) \in Nat
  <2>1. c \in Challenges /\ drawn[Side][c] = Challenge(Side, c)
    BY <1>0, <1>1 DEF Challenged
  <2>2. Challenge(Side, c).mixed = Transcript(Side, Before(c))
    BY DEF Challenge
  <2>3. QED
    BY <1>0, <2>1, <2>2, ChallengePlaces
<1>4. drawn[Side][c].mixed[1] = Seed(fault = "statement" /\ Side = "verifier")[1]
  <2>1. Transcript(Side, Before(c))[1] = SeedOf(Side)
    BY <1>3 DEF Transcript
  <2>2. QED
    BY <1>3, <2>1 DEF SeedOf
<1>5. ASSUME NEW i, NEW name, Round(name) < Round(c), i \in 1 .. Total, name = NameAt(i),
             Bytes(proof[i]) = BytesAt(Side, i)
      PROVE  Bytes(proof[i]) \in ToSet(drawn[Side][c].mixed)
  <2>1. i <= Before(c)
    BY <1>0, <1>3, <1>5, RoundsInOrder
  <2>2. i + 1 \in 1 .. Before(c) + 1 /\ i + 1 # 1 /\ (i + 1) - 1 = i
    BY <1>1, <1>3, <1>5, <2>1
  <2>3. Transcript(Side, Before(c))[i + 1] = BytesAt(Side, i)
        /\ i + 1 \in DOMAIN Transcript(Side, Before(c))
    BY <2>2 DEF Transcript
  <2>4. QED
    BY <1>3, <1>5, <2>3 DEF ToSet
<1>6. ASSUME Side = "prover", NEW i \in DOMAIN proof, Round(proof[i].name) < Round(c)
      PROVE  Bytes(proof[i]) \in ToSet(drawn[Side][c].mixed)
  <2>1. Len(proof) \in Nat /\ DOMAIN proof = 1 .. Len(proof)
    BY <1>0, OwnElements DEF Formed
  <2>2. Len(proof) <= Total /\ fault = "none"
    BY <1>0, <1>6 DEF Scripted, VerifierWaits
  <2>3. i \in 1 .. Total /\ i \in 1 .. Len(proof) /\ i <= Total
    BY <1>1, <2>1, <2>2
  <2>4. proof[i] = Message(NameAt(i), OfAt(i))
    BY <1>0, <2>2, <2>3 DEF Scripted
  <2>5. proof[i].name = NameAt(i) /\ Bytes(proof[i]) = BytesAt(Side, i)
    BY <1>6, <2>4, MessageBytes DEF BytesAt
  <2>6. QED
    BY <1>5, <1>6, <2>3, <2>5
<1>7. ASSUME Side # "prover", NEW i \in DOMAIN reads, Round(reads[i]) < Round(c)
      PROVE  Bytes(proof[i]) \in ToSet(drawn[Side][c].mixed)
  <2>1. Len(reads) \in Nat /\ DOMAIN reads = 1 .. Len(reads)
    BY <1>0, OwnElements DEF Formed
  <2>2. i <= Total /\ reads[i] = NameAt(i)
    BY <1>0, <2>1 DEF Scripted
  <2>3. i \in 1 .. Total
    BY <1>1, <2>1, <2>2
  <2>4. Bytes(proof[i]) = BytesAt(Side, i)
    BY <1>7 DEF BytesAt
  <2>5. QED
    BY <1>5, <1>7, <2>2, <2>3, <2>4
<1>8. ASSUME NEW d \in DOMAIN drawn[Side] \ {c} PROVE drawn[Side][d] # drawn[Side][c]
  <2>1. d \in Challenges /\ drawn[Side][d] = Challenge(Side, d)
    BY <1>0, <1>1 DEF Challenged
  <2>2. QED
    BY <1>0, <1>3, <2>1, DrawsDiffer
<1>9. QED
  BY <1>4, <1>6, <1>7, <1>8

LEMMA HonestHolds ==
  ASSUME IInv
  PROVE  HonestProofAccepted
<1>0. Placed /\ Formed /\ VerifierWaits /\ Scripted /\ Challenged /\ Stopped
  BY DEF IInv
<1>1. Side \in Sides /\ Total \in Nat
  BY <1>0, Positions DEF Placed, Sides, Side
<1>2. TypeOK
  BY <1>0 DEF Placed, Formed, TypeOK, proof_read_index_
<1>3. /\ verdict = "fri step is zero" <=> Side = "prover" /\ At("done")
      /\ verdict = "fri step is zero" => \E i \in 2 .. n_layers : fri_step_list[i] = 0
      /\ verdict # "randomness after query phase"
  BY <1>0 DEF Stopped, Placed
<1>4. fault = "none" => verdict \in {"none", "accept", "fri step is zero"}
  BY <1>0, <1>1 DEF Stopped, Placed, Live, Sides
<1>5. ASSUME fault = "none", NEW i \in DOMAIN reads PROVE reads[i] = proof[i].name
  <2>1. Len(reads) \in Nat /\ DOMAIN reads = 1 .. Len(reads)
        /\ Len(proof) \in Nat /\ Len(reads) <= Len(proof)
    BY <1>0, OwnElements DEF Formed
  <2>2. i <= Total /\ reads[i] = NameAt(i) /\ i \in 1 .. Len(proof)
    BY <1>0, <2>1 DEF Scripted
  <2>3. proof[i] = Message(NameAt(i), OfAt(i))
    BY <1>0, <1>5, <2>2 DEF Scripted
  <2>4. QED
    BY <2>2, <2>3, MessageBytes
<1>6. ASSUME fault = "none", verdict = "accept"
      PROVE  proof_read_index_ = Len(proof) /\ drawn["prover"] = drawn["verifier"]
  <2>1. Side = "verifier" /\ At("done") /\ Live
    BY <1>0, <1>1, <1>6 DEF Stopped, Placed, Sides, Live
  <2>2. Len(reads) = Total /\ Len(proof) = Total
    BY <1>0, <1>6, <2>1 DEF Scripted, Sent, Count, At
  <2>3. DOMAIN drawn["prover"] = Challenges /\ DOMAIN drawn["verifier"] = Challenges
    <3>1. DOMAIN drawn["verifier"] = {c \in Challenges : Round(c) < Stage("done", layer)}
      BY <1>0, <2>1 DEF Challenged, At
    <3>2. \A c \in Challenges : Round(c) < Stage("done", layer)
      BY <1>0, ChallengePlaces
    <3>3. QED
      BY <1>0, <2>1, <3>1, <3>2 DEF Challenged
  <2>4. \A c \in Challenges : drawn["prover"][c] = drawn["verifier"][c]
    BY <1>0, <1>6, <2>1, <2>3, SidesAgree DEF Challenged, Sides
  <2>5. drawn["prover"] = [c \in Challenges |-> drawn["prover"][c]]
        /\ drawn["verifier"] = [c \in Challenges |-> drawn["verifier"][c]]
    BY <1>0, <2>3 DEF Formed, Sides
  <2>6. drawn["prover"] = drawn["verifier"]
    BY <2>4, <2>5
  <2>7. QED
    BY <2>2, <2>6 DEF proof_read_index_
<1>7. fault = "none" => (Side = "verifier" => SameChallenges(DOMAIN drawn["verifier"]))
  BY SidesAgree
<1>8. QED
  BY <1>2, <1>3, <1>4, <1>5, <1>6, <1>7 DEF HonestProofAccepted

LEMMA AcceptanceHolds ==
  ASSUME IInv
  PROVE  AcceptsOnlyTheProof
<1>0. Placed /\ Formed /\ Scripted /\ Faulted /\ Checked /\ Stopped
  BY DEF IInv
<1>1. SUFFICES ASSUME verdict = "accept" PROVE fault \in {"none", "longer"}
  BY DEF AcceptsOnlyTheProof
<1>2. Side = "verifier" /\ At("done") /\ Live
  BY <1>0, <1>1 DEF Stopped, Placed, Sides, Live, Side
<1>3. Total \in Nat /\ n_layers \in Nat
  BY <1>0, Positions
<1>4. \A i \in 1 .. Total : Good(i)
  BY <1>0, <1>2 DEF Checked, CheckedBy, At
<1>5. fault # "statement"
  <2>1. pc[2] \in AfterOods
    BY <1>2 DEF AfterOods, AfterPow, At
  <2>2. QED
    BY <1>0, <1>2, <2>1 DEF Checked
<1>6. Len(proof) >= Total
  <2>1. Len(reads) = Total /\ Len(reads) <= Len(proof) /\ Len(proof) \in Nat
    BY <1>0, <1>2, OwnElements DEF Scripted, Sent, Count, At, Formed
  <2>2. QED
    BY <1>3, <2>1
<1>7. fault # "altered" /\ fault # "swapped" /\ fault # "cut"
  <2>1. Len(proof) \in Nat
    BY <1>0, OwnElements DEF Formed
  <2>2. QED
    BY <1>0, <1>3, <1>4, <1>6, <2>1 DEF Faulted, Good
<1>8. QED
  BY <1>0, <1>5, <1>7 DEF Placed

-----------------------------------------------------------------------------
\* The initial states.

LEMMA FirstTranscript ==
  ASSUME NEW side
  PROVE  Transcript(side, 0) = Seed(fault = "statement" /\ side = "verifier")
<1> DEFINE b == fault = "statement" /\ side = "verifier"
<1>1. DOMAIN Seed(b) = 1 .. 1 /\ Seed(b) = [i \in 1 .. 1 |-> Seed(b)[i]]
  BY DEF Seed
<1>2. Transcript(side, 0) = [i \in 1 .. 1 |-> Seed(b)[1]]
  BY DEF Transcript, SeedOf
<1>3. QED
  BY <1>1, <1>2

LEMMA EmptySequence ==
  /\ Len(<<>>) = 0 /\ DOMAIN <<>> = {} /\ <<>> \in Seq(ToSet(<<>>))
  /\ <<>> = [c \in DOMAIN <<>> |-> <<>>[c]]
<1>1. <<>> \in Seq({})
  OBVIOUS
<1>2. Len(<<>>) = 0
  OBVIOUS
<1>3. <<>> \in Seq(ToSet(<<>>)) /\ DOMAIN <<>> = 1 .. 0
  BY <1>1, <1>2, OwnElements
<1>4. DOMAIN <<>> = {}
  BY <1>3
<1>5. <<>> \in [{} -> {<<>>[x] : x \in {}}]
  BY <1>1, <1>2, <1>4, LenProperties
<1>6. QED
  BY <1>2, <1>3, <1>4, <1>5, FunctionOf

LEMMA InitHolds ==
  Init => IInv
<1> SUFFICES ASSUME Init PROVE IInv
  OBVIOUS
<1> USE DEF Side, At
<1>1. /\ fri_step_list \in StepLists
      /\ n_interaction_elements \in InteractionElements /\ proof_of_work_bits \in PowBits
      /\ pc = <<"prover", "root 1">> /\ layer = 1
      /\ prng = [s \in Sides |-> [mixed |-> Seed(FALSE), counter |-> 0]]
      /\ in_query_phase_ = [s \in Sides |-> FALSE]
      /\ drawn = [s \in Sides |-> <<>>]
      /\ proof = <<>> /\ reads = <<>> /\ fault = "none" /\ verdict = "none"
  BY DEF Init
<1>2. Side = "prover" /\ pc[2] = "root 1" /\ Live
  BY <1>1 DEF Live
<1>3. n_layers \in Nat /\ n_layers > 0
  <2>1. fri_step_list \in Seq(Nat) /\ Len(fri_step_list) > 0
    BY <1>1, ProtocolAssumption
  <2>2. QED
    BY <2>1, OwnElements DEF n_layers
<1>4. Placed
  <2>1. pc \in Sides \X Functions
    BY <1>1 DEF Sides, Functions
  <2>2. layer \in 1 .. n_layers
    <3>1. layer = 1
      BY <1>1
    <3>2. QED
      BY <1>3, <3>1
  <2>3. QED
    BY <1>1, <2>1, <2>2 DEF Placed, Verdicts
<1>5. Formed
  <2>1. proof \in Seq(ToSet(proof)) /\ reads \in Seq(ToSet(reads)) /\ Len(reads) = 0 /\ Len(proof) = 0
    BY <1>1, EmptySequence
  <2>2. /\ DOMAIN prng = Sides /\ DOMAIN drawn = Sides /\ in_query_phase_ \in [Sides -> BOOLEAN]
        /\ \A s \in Sides : prng[s] = [mixed |-> Seed(FALSE), counter |-> 0] /\ drawn[s] = <<>>
    BY <1>1
  <2>3. \A s \in Sides : drawn[s] = [c \in DOMAIN drawn[s] |-> drawn[s][c]]
    BY <2>2, EmptySequence
  <2>4. ASSUME NEW s \in Sides
        PROVE prng[s] = [mixed |-> prng[s].mixed, counter |-> prng[s].counter]
    <3>1. prng[s] = [mixed |-> Seed(FALSE), counter |-> 0]
      BY <2>2
    <3>2. QED
      BY ONLY <3>1
  <2>5. QED
    BY <2>1, <2>2, <2>3, <2>4 DEF Formed
<1>6. DOMAIN drawn["verifier"] = {} /\ DOMAIN drawn["prover"] = {} /\ \A s \in Sides : DOMAIN drawn[s] = {}
  BY <1>1, EmptySequence DEF Sides
<1>7. VerifierWaits
  BY <1>1, <1>2, <1>6 DEF VerifierWaits, Sides
<1>8. Count("root 1", 1) = 0 /\ Stage("root 1", 1) = 1
  BY DEF Count, Stage
<1>9. Scripted
  <2>1. Total \in Nat
    BY <1>4, Positions
  <2>2. Len(reads) = 0 /\ Len(proof) = 0
    BY <1>1, EmptySequence
  <2>3. Sent = 0 /\ Sent = Count(pc[2], layer)
    <3>1. Side = "prover" /\ pc[2] = "root 1" /\ layer = 1
      BY <1>1
    <3>2. QED
      BY <1>8, <2>2, <3>1 DEF Sent
  <2>4. \A i \in 1 .. 0 : FALSE
    OBVIOUS
  <2>5. fault = "none" /\ Side = "prover"
    BY <1>1
  <2>6. QED
    BY <2>1, <2>2, <2>3, <2>4, <2>5 DEF Scripted
<1>10. Faulted
  BY <1>1 DEF Faulted
<1>11. Challenged
  <2>1. ASSUME NEW c \in Challenges PROVE ~(Round(c) < 1)
    <3>1. Round(c) \in 2 .. 10 + 2 * n_layers
      BY <1>4, ChallengePlaces
    <3>2. QED
      BY <1>3, <3>1
  <2>2. QED
    BY <1>1, <1>2, <1>6, <1>8, <2>1 DEF Challenged
<1>12. Seeded
  <2>1. Transcript("prover", 0) = Seed(FALSE)
    <3>1. (fault = "statement" /\ "prover" = "verifier") = FALSE
      OBVIOUS
    <3>2. QED
      BY <3>1, FirstTranscript
  <2>2. prng["prover"].mixed = Seed(FALSE) /\ in_query_phase_["prover"] = FALSE
    BY <1>1 DEF Sides
  <2>3. QED
    BY <1>1, <1>2, <1>8, <2>1, <2>2 DEF Seeded, QueryPhase, Drawing
<1>13. Checked /\ Stopped
  BY <1>1, <1>2 DEF Checked, Stopped
<1>14. QED
  BY <1>4, <1>5, <1>7, <1>9, <1>10, <1>11, <1>12, <1>13 DEF IInv

-----------------------------------------------------------------------------
\* The actions that draw.

LEMMA NamedNames ==
  ASSUME NEW kind, NEW n \in Nat
  PROVE  /\ DOMAIN Named(kind, n) = 1 .. n /\ Len(Named(kind, n)) = n
         /\ \A i \in 1 .. n : Named(kind, n)[i] = <<kind, i>>
         /\ \A c : c \in ToSet(Named(kind, n)) <=> \E i \in 1 .. n : c = <<kind, i>>
         /\ Named(kind, n) \in Seq(ToSet(Named(kind, n)))
<1> DEFINE f == Named(kind, n)
<1>1. DOMAIN f = 1 .. n /\ f = [i \in 1 .. n |-> f[i]] /\ \A i \in 1 .. n : f[i] = <<kind, i>>
  BY DEF Named
<1> HIDE DEF f
<1>2. f \in Seq(ToSet(f)) /\ Len(f) = n
  BY <1>1, SequenceOf
<1>3. \A c : c \in ToSet(f) <=> \E i \in 1 .. n : c = <<kind, i>>
  BY <1>1 DEF ToSet
<1>4. QED
  BY <1>1, <1>2, <1>3 DEF f

LEMMA OneName ==
  \A x : /\ DOMAIN <<x>> = 1 .. 1 /\ Len(<<x>>) = 1 /\ <<x>>[1] = x
         /\ ToSet(<<x>>) = {x} /\ <<x>> \in Seq(ToSet(<<x>>))
<1> SUFFICES ASSUME NEW x
             PROVE  /\ DOMAIN <<x>> = 1 .. 1 /\ Len(<<x>>) = 1 /\ <<x>>[1] = x
                    /\ ToSet(<<x>>) = {x} /\ <<x>> \in Seq(ToSet(<<x>>))
  OBVIOUS
<1>1. DOMAIN <<x>> = 1 .. 1 /\ <<x>>[1] = x
  OBVIOUS
<1>2. ToSet(<<x>>) = {x}
  BY <1>1 DEF ToSet
<1>3. <<x>> \in Seq({x}) /\ Len(<<x>>) = 1
  OBVIOUS
<1>4. QED
  BY <1>1, <1>2, <1>3

LEMMA InteractionStep ==
  ASSUME IInv, GetInteractionElements
  PROVE  IInv'
<1> DEFINE names == Named("interaction", n_interaction_elements)
<1>0. PICK function : function = "root 2"
  OBVIOUS
<1>1. pc[2] = "interaction" /\ Draw(Side, names, function) /\ layer' = layer
  BY <1>0 DEF GetInteractionElements, At
<1>2. Placed /\ Seeded
  BY DEF IInv
<1>3. n_layers \in Nat /\ n_layers >= 1 /\ n_interaction_elements \in Nat /\ layer \in 1 .. n_layers
      /\ Interactive
  BY <1>1, <1>2, Positions DEF Placed, At
<1>4. prng[Side].counter = 0
  BY <1>1, <1>2 DEF Seeded, Drawing, At
<1>5. /\ Stage(pc[2], layer) = 2 /\ Stage(function, layer') = 3
      /\ Count(pc[2], layer) = 1 /\ Count(function, layer') = 1
  BY <1>0, <1>1 DEF Stage, Count
<1>6. /\ DOMAIN names = 1 .. n_interaction_elements
      /\ \A i \in 1 .. n_interaction_elements : names[i] = <<"interaction", i>>
      /\ \A c : c \in ToSet(names) <=> \E i \in 1 .. n_interaction_elements : c = <<"interaction", i>>
  BY <1>3, NamedNames
<1> HIDE DEF names
<1>7. \A c \in ToSet(names) : c \in Challenges
  BY <1>6 DEF Challenges
<1>8. ASSUME NEW c \in Challenges
      PROVE Round(c) < Stage(function, layer') <=> Round(c) < Stage(pc[2], layer) \/ c \in ToSet(names)
  <2>1. c[2] \in Folded => c[2] \in 1 .. n_layers
    BY <1>2, FoldedLayers
  <2>2. c = <<c[1], c[2]>> /\ (Round(c) < 3 <=> c[1] = "interaction") /\ ~(Round(c) < 2)
        /\ (c[1] = "interaction" => c[2] \in 1 .. n_interaction_elements)
    BY <1>2, <1>3, <2>1, ChallengeKinds
  <2>3. c \in ToSet(names) <=> c[1] = "interaction"
    BY <1>6, <2>2
  <2>4. QED
    BY <1>5, <2>2, <2>3
<1>9. ASSUME NEW i \in DOMAIN names
      PROVE Before(names[i]) = 1 /\ Turn(names[i]) = 0 + i
  BY <1>3, <1>6 DEF Before, Turn
<1>10. CheckedBy(function, layer') = CheckedBy(pc[2], layer)
  <2>1. /\ function \notin {"open layers", "done"} /\ pc[2] \notin {"open layers", "done"}
        /\ function \notin AfterOods /\ pc[2] \notin AfterOods
        /\ function \notin AfterPow /\ pc[2] \notin AfterPow
    BY <1>0, <1>1 DEF AfterOods, AfterPow
  <2>2. QED
    BY <2>1 DEF CheckedBy
<1>11. /\ pc[2] \in Functions \ (QueryPhase \cup {"done"})
       /\ function \in Functions \ (QueryPhase \cup {"done", "interaction"})
       /\ function # "fri root" /\ function \notin Drawing /\ function \notin AfterOods
  BY <1>0, <1>1 DEF Functions, QueryPhase, Drawing, AfterOods, AfterPow
<1>12. DrawsNext(names, function)
  BY <1>1, <1>3, <1>4, <1>5, <1>7, <1>8, <1>9, <1>10, <1>11 DEF DrawsNext
<1>13. QED
  BY <1>1, <1>12, DrawStep

LEMMA CompositionStep ==
  ASSUME IInv, CreateCompositionPolynomial
  PROVE  IInv'
<1> DEFINE names == <<<<"composition", 1>>>>
<1>0. PICK function : function = "root 3"
  OBVIOUS
<1>1. pc[2] = "composition" /\ Draw(Side, names, function) /\ layer' = layer
  BY <1>0 DEF CreateCompositionPolynomial, At
<1>2. Placed /\ Seeded
  BY DEF IInv
<1>3. /\ n_layers \in Nat /\ n_layers >= 1 /\ layer' \in 1 .. n_layers
      /\ NumTraces \in Nat /\ LastOods \in Nat
  <2>1. layer \in 1 .. n_layers
    BY <1>2 DEF Placed
  <2>2. n_layers \in Nat /\ n_layers >= 1 /\ NumTraces \in Nat /\ LastOods \in Nat
    BY <1>2, Positions
  <2>3. QED
    BY <1>1, <2>1, <2>2
<1>4. prng[Side].counter = 0
  BY <1>1, <1>2 DEF Seeded, Drawing, At
<1>5. /\ Stage(pc[2], layer) = 4 /\ Stage(function, layer') = 5
      /\ Count(pc[2], layer) = NumTraces - 1 /\ Count(function, layer') = NumTraces - 1
  BY <1>0, <1>1, <1>3 DEF Stage, Count
<1>6. /\ DOMAIN names = 1 .. 1 /\ Len(names) = 1 /\ names[1] = <<"composition", 1>>
      /\ \A c : c \in ToSet(names) <=> c = <<"composition", 1>>
  BY OneName
<1> HIDE DEF names
<1>7. \A c \in ToSet(names) : c \in Challenges
  BY <1>6 DEF Challenges
<1>8. ASSUME NEW c \in Challenges
      PROVE Round(c) < Stage(function, layer') <=> Round(c) < Stage(pc[2], layer) \/ c \in ToSet(names)
  <2>1. c[2] \in Folded => c[2] \in 1 .. n_layers
    BY <1>2, FoldedLayers
  <2>2. /\ c = <<c[1], c[2]>> /\ (c[1] = "composition" => c[2] = 1)
        /\ Round(c) < 5 <=> Round(c) < 4 \/ c[1] = "composition"
    BY <1>2, <1>3, <2>1, ChallengeKinds
  <2>3. c \in ToSet(names) <=> c[1] = "composition"
    BY <1>6, <2>2
  <2>4. QED
    BY <1>5, <2>2, <2>3
<1>9. ASSUME NEW i \in DOMAIN names
      PROVE Before(names[i]) = NumTraces - 1 /\ Turn(names[i]) = 0 + i
  <2>1. i = 1
    BY <1>6
  <2>2. QED
    BY <1>6, <2>1 DEF Before, Turn
<1>10. CheckedBy(function, layer') = CheckedBy(pc[2], layer)
  <2>1. /\ function \notin {"open layers", "done"} /\ pc[2] \notin {"open layers", "done"}
        /\ function \in AfterOods <=> pc[2] \in AfterOods
        /\ function \in AfterPow <=> pc[2] \in AfterPow
    BY <1>0, <1>1 DEF AfterOods, AfterPow
  <2>2. QED
    BY <2>1 DEF CheckedBy
<1>11. /\ pc[2] \in Functions \ (QueryPhase \cup {"done"})
       /\ function \in Functions \ (QueryPhase \cup {"done", "interaction"})
       /\ function # "root 2" /\ function # "fri root"
       /\ (function \in AfterOods => pc[2] \in AfterOods)
       /\ function \notin Drawing
  BY <1>0, <1>1 DEF Functions, QueryPhase, Drawing, AfterOods, AfterPow
<1>12. DrawsNext(names, function)
  BY <1>1, <1>3, <1>4, <1>5, <1>7, <1>8, <1>9, <1>10, <1>11 DEF DrawsNext
<1>13. QED
  BY <1>1, <1>12, DrawStep

LEMMA PointStep ==
  ASSUME IInv, OodsPoint
  PROVE  IInv'
<1> DEFINE names == <<<<"point", 1>>>>
<1>0. PICK function : function = "oods values"
  OBVIOUS
<1>1. pc[2] = "oods point" /\ Draw(Side, names, function) /\ layer' = layer
  BY <1>0 DEF OodsPoint, At
<1>2. Placed /\ Seeded
  BY DEF IInv
<1>3. /\ n_layers \in Nat /\ n_layers >= 1 /\ layer' \in 1 .. n_layers
      /\ NumTraces \in Nat /\ LastOods \in Nat
  <2>1. layer \in 1 .. n_layers
    BY <1>2 DEF Placed
  <2>2. n_layers \in Nat /\ n_layers >= 1 /\ NumTraces \in Nat /\ LastOods \in Nat
    BY <1>2, Positions
  <2>3. QED
    BY <1>1, <2>1, <2>2
<1>4. prng[Side].counter = 0
  BY <1>1, <1>2 DEF Seeded, Drawing, At
<1>5. /\ Stage(pc[2], layer) = 6 /\ Stage(function, layer') = 7
      /\ Count(pc[2], layer) = NumTraces /\ Count(function, layer') = NumTraces
  BY <1>0, <1>1, <1>3 DEF Stage, Count
<1>6. /\ DOMAIN names = 1 .. 1 /\ Len(names) = 1 /\ names[1] = <<"point", 1>>
      /\ \A c : c \in ToSet(names) <=> c = <<"point", 1>>
  BY OneName
<1> HIDE DEF names
<1>7. \A c \in ToSet(names) : c \in Challenges
  BY <1>6 DEF Challenges
<1>8. ASSUME NEW c \in Challenges
      PROVE Round(c) < Stage(function, layer') <=> Round(c) < Stage(pc[2], layer) \/ c \in ToSet(names)
  <2>1. c[2] \in Folded => c[2] \in 1 .. n_layers
    BY <1>2, FoldedLayers
  <2>2. /\ c = <<c[1], c[2]>> /\ (c[1] = "point" => c[2] = 1)
        /\ Round(c) < 7 <=> Round(c) < 6 \/ c[1] = "point"
    BY <1>2, <1>3, <2>1, ChallengeKinds
  <2>3. c \in ToSet(names) <=> c[1] = "point"
    BY <1>6, <2>2
  <2>4. QED
    BY <1>5, <2>2, <2>3
<1>9. ASSUME NEW i \in DOMAIN names
      PROVE Before(names[i]) = NumTraces /\ Turn(names[i]) = 0 + i
  <2>1. i = 1
    BY <1>6
  <2>2. QED
    BY <1>6, <2>1 DEF Before, Turn
<1>10. CheckedBy(function, layer') = CheckedBy(pc[2], layer)
  <2>1. /\ function \notin {"open layers", "done"} /\ pc[2] \notin {"open layers", "done"}
        /\ function \in AfterOods <=> pc[2] \in AfterOods
        /\ function \in AfterPow <=> pc[2] \in AfterPow
    BY <1>0, <1>1 DEF AfterOods, AfterPow
  <2>2. QED
    BY <2>1 DEF CheckedBy
<1>11. /\ pc[2] \in Functions \ (QueryPhase \cup {"done"})
       /\ function \in Functions \ (QueryPhase \cup {"done", "interaction"})
       /\ function # "root 2" /\ function # "fri root"
       /\ (function \in AfterOods => pc[2] \in AfterOods)
       /\ function \notin Drawing
  BY <1>0, <1>1 DEF Functions, QueryPhase, Drawing, AfterOods, AfterPow
<1>12. DrawsNext(names, function)
  BY <1>1, <1>3, <1>4, <1>5, <1>7, <1>8, <1>9, <1>10, <1>11 DEF DrawsNext
<1>13. QED
  BY <1>1, <1>12, DrawStep

LEMMA OodsStep ==
  ASSUME IInv, CreateOodsCompositionPolynomial
  PROVE  IInv'
<1> DEFINE names == <<<<"oods", 1>>>>
<1>0. PICK function : function = "fri point"
  OBVIOUS
<1>1. pc[2] = "oods composition" /\ Draw(Side, names, function) /\ layer' = 1
  BY <1>0 DEF CreateOodsCompositionPolynomial, At
<1>2. Placed /\ Seeded
  BY DEF IInv
<1>3. /\ n_layers \in Nat /\ n_layers >= 1 /\ layer' \in 1 .. n_layers
      /\ NumTraces \in Nat /\ LastOods \in Nat
  <2>1. layer \in 1 .. n_layers
    BY <1>2 DEF Placed
  <2>2. n_layers \in Nat /\ n_layers >= 1 /\ NumTraces \in Nat /\ LastOods \in Nat
    BY <1>2, Positions
  <2>3. layer' = 1
    BY <1>1
  <2>4. layer' \in 1 .. n_layers
    BY <2>2, <2>3
  <2>5. QED
    BY <2>2, <2>4
<1>4. prng[Side].counter = 0
  BY <1>1, <1>2 DEF Seeded, Drawing, At
<1>5. /\ Stage(pc[2], layer) = 8 /\ Stage(function, layer') = 9
      /\ Count(pc[2], layer) = LastOods /\ Count(function, layer') = LastOods
  <2>1. Stage(function, layer') = 7 + 2 * 1 /\ Count(function, layer') = LastOods + 1 - 1
    BY <1>0, <1>1 DEF Stage, Count
  <2>2. Stage(pc[2], layer) = 8 /\ Count(pc[2], layer) = LastOods
    BY <1>1 DEF Stage, Count
  <2>3. QED
    BY <1>3, <2>1, <2>2
<1>6. /\ DOMAIN names = 1 .. 1 /\ Len(names) = 1 /\ names[1] = <<"oods", 1>>
      /\ \A c : c \in ToSet(names) <=> c = <<"oods", 1>>
  BY OneName
<1> HIDE DEF names
<1>7. \A c \in ToSet(names) : c \in Challenges
  BY <1>6 DEF Challenges
<1>8. ASSUME NEW c \in Challenges
      PROVE Round(c) < Stage(function, layer') <=> Round(c) < Stage(pc[2], layer) \/ c \in ToSet(names)
  <2>1. c[2] \in Folded => c[2] \in 1 .. n_layers
    BY <1>2, FoldedLayers
  <2>2. /\ c = <<c[1], c[2]>> /\ (c[1] = "oods" => c[2] = 1)
        /\ Round(c) < 9 <=> Round(c) < 8 \/ c[1] = "oods"
    BY <1>2, <1>3, <2>1, ChallengeKinds
  <2>3. c \in ToSet(names) <=> c[1] = "oods"
    BY <1>6, <2>2
  <2>4. QED
    BY <1>5, <2>2, <2>3
<1>9. ASSUME NEW i \in DOMAIN names
      PROVE Before(names[i]) = LastOods /\ Turn(names[i]) = 0 + i
  <2>1. i = 1
    BY <1>6
  <2>2. QED
    BY <1>6, <2>1 DEF Before, Turn
<1>10. CheckedBy(function, layer') = CheckedBy(pc[2], layer)
  <2>1. /\ function \notin {"open layers", "done"} /\ pc[2] \notin {"open layers", "done"}
        /\ function \in AfterOods <=> pc[2] \in AfterOods
        /\ function \in AfterPow <=> pc[2] \in AfterPow
    BY <1>0, <1>1 DEF AfterOods, AfterPow
  <2>2. QED
    BY <2>1 DEF CheckedBy
<1>11. /\ pc[2] \in Functions \ (QueryPhase \cup {"done"})
       /\ function \in Functions \ (QueryPhase \cup {"done", "interaction"})
       /\ function # "root 2" /\ function # "fri root"
       /\ (function \in AfterOods => pc[2] \in AfterOods)
       /\ function = "fri point"
  BY <1>0, <1>1 DEF Functions, QueryPhase, Drawing, AfterOods, AfterPow
<1>12. prng[Side].counter + Len(names) = IF function = "fri point" /\ layer' = 1 THEN 1 ELSE 0
  <2>1. layer' = 1 /\ function = "fri point"
    BY <1>1, <1>11
  <2>2. prng[Side].counter + Len(names) = 1
    BY ONLY <1>4, <1>6
  <2>3. QED
    BY <2>1, <2>2
<1>13. DrawsNext(names, function)
  BY <1>1, <1>3, <1>4, <1>5, <1>7, <1>8, <1>9, <1>10, <1>11, <1>12 DEF DrawsNext
<1>14. QED
  BY <1>1, <1>13, DrawStep

LEMMA QueriesStep ==
  ASSUME IInv, ChooseQueryIndices
  PROVE  IInv'
<1> DEFINE names == Queries
<1>0. PICK function : function = "begin"
  OBVIOUS
<1>1. pc[2] = "queries" /\ Draw(Side, names, function) /\ layer' = layer
  BY <1>0 DEF ChooseQueryIndices, At
<1>2. Placed /\ Seeded
  BY DEF IInv
<1>3. /\ n_layers \in Nat /\ n_layers >= 1 /\ layer' \in 1 .. n_layers
      /\ NumTraces \in Nat /\ LastOods \in Nat /\ n_queries \in Nat
  <2>1. layer \in 1 .. n_layers
    BY <1>2 DEF Placed
  <2>2. n_layers \in Nat /\ n_layers >= 1 /\ NumTraces \in Nat /\ LastOods \in Nat /\ n_queries \in Nat
    BY <1>2, Positions
  <2>3. QED
    BY <1>1, <2>1, <2>2
<1>4. prng[Side].counter = 0
  BY <1>1, <1>2 DEF Seeded, Drawing, At
<1>5. /\ Stage(pc[2], layer) = 10 + 2 * n_layers /\ Stage(function, layer') = 11 + 2 * n_layers
      /\ Count(pc[2], layer) = QueryStart /\ Count(function, layer') = QueryStart
  BY <1>0, <1>1, <1>3 DEF Stage, Count
<1>6. /\ DOMAIN names = 1 .. n_queries /\ \A i \in 1 .. n_queries : names[i] = <<"query", i>>
      /\ \A c : c \in ToSet(names) <=> \E i \in 1 .. n_queries : c = <<"query", i>>
  BY <1>3, NamedNames DEF Queries
<1> HIDE DEF names
<1>7. \A c \in ToSet(names) : c \in Challenges
  BY <1>6 DEF Challenges
<1>8. ASSUME NEW c \in Challenges
      PROVE Round(c) < Stage(function, layer') <=> Round(c) < Stage(pc[2], layer) \/ c \in ToSet(names)
  <2>1. c[2] \in Folded => c[2] \in 1 .. n_layers
    BY <1>2, FoldedLayers
  <2>2. /\ c = <<c[1], c[2]>> /\ (c[1] = "query" => c[2] \in 1 .. n_queries)
        /\ Round(c) < 11 + 2 * n_layers <=> Round(c) < 10 + 2 * n_layers \/ c[1] = "query"
    BY <1>2, <1>3, <2>1, ChallengeKinds
  <2>3. c \in ToSet(names) <=> c[1] = "query"
    BY <1>6, <2>2
  <2>4. QED
    BY <1>5, <2>2, <2>3
<1>9. ASSUME NEW i \in DOMAIN names
      PROVE Before(names[i]) = QueryStart /\ Turn(names[i]) = 0 + i
  BY <1>3, <1>6 DEF Before, Turn
<1>10. CheckedBy(function, layer') = CheckedBy(pc[2], layer)
  <2>1. /\ function \notin {"open layers", "done"} /\ pc[2] \notin {"open layers", "done"}
        /\ function \in AfterOods <=> pc[2] \in AfterOods
        /\ function \in AfterPow <=> pc[2] \in AfterPow
    BY <1>0, <1>1 DEF AfterOods, AfterPow
  <2>2. QED
    BY <2>1 DEF CheckedBy
<1>11. /\ pc[2] \in Functions \ (QueryPhase \cup {"done"})
       /\ function \in Functions \ (QueryPhase \cup {"done", "interaction"})
       /\ function # "root 2" /\ function # "fri root"
       /\ (function \in AfterOods => pc[2] \in AfterOods)
       /\ function \notin Drawing
  BY <1>0, <1>1 DEF Functions, QueryPhase, Drawing, AfterOods, AfterPow
<1>12. DrawsNext(names, function)
  BY <1>1, <1>3, <1>4, <1>5, <1>7, <1>8, <1>9, <1>10, <1>11 DEF DrawsNext
<1>13. QED
  BY <1>1, <1>12, DrawStep

LEMMA LastOf ==
  \A n \in Nat : \A k \in 1 .. n : /\ k \in Nat /\ (~(k < n) => k = n)
                                 /\ (k > 1 => k \in 2 .. n) /\ (k # 1 => k \in 2 .. n)
OBVIOUS

AfterPoint == IF layer < n_layers THEN "fri root" ELSE "last layer"
DrawsPoint(function) ==
  /\ pc[2] = "fri point" /\ layer' = layer /\ function = AfterPoint
  /\ Draw(Side, PointNames(layer), function)

\* A side draws a layer's point, but for a first fold of no step.
LEMMA PointDraw ==
  ASSUME IInv, NEW function, DrawsPoint(function)
  PROVE  IInv'
<1> DEFINE names == PointNames(layer)
<1>1. pc[2] = "fri point" /\ Draw(Side, names, function) /\ layer' = layer
  BY DEF DrawsPoint
<1>0. function = AfterPoint
  BY DEF DrawsPoint
<1>2. Placed /\ Seeded
  BY DEF IInv
<1>3. /\ n_layers \in Nat /\ layer \in 1 .. n_layers /\ layer' \in 1 .. n_layers /\ LastOods \in Nat
      /\ LastCommitment = LastOods + n_layers
  <2>1. layer \in 1 .. n_layers
    BY <1>2 DEF Placed
  <2>2. n_layers \in Nat /\ LastOods \in Nat /\ LastCommitment = LastOods + n_layers
    BY <1>2, Positions
  <2>3. QED
    BY <1>1, <2>1, <2>2
<1>4. prng[Side].counter = IF layer = 1 THEN 1 ELSE 0
  BY <1>1, <1>2 DEF Seeded, Drawing, At
<1>5. /\ Stage(pc[2], layer) = 7 + 2 * layer /\ Stage(function, layer') = 8 + 2 * layer
      /\ Count(pc[2], layer) = LastOods + layer - 1
      /\ Count(function, layer') = LastOods + layer - 1
  <2>1. Stage(pc[2], layer) = 7 + 2 * layer /\ Count(pc[2], layer) = LastOods + layer - 1
    BY <1>1 DEF Stage, Count
  <2>2. CASE layer < n_layers
    <3>1. function = "fri root"
      BY <1>0, <2>2 DEF AfterPoint
    <3>2. QED
      BY <1>1, <2>1, <3>1 DEF Stage, Count
  <2>3. CASE ~(layer < n_layers)
    <3>1. function = "last layer"
      BY <1>0, <2>3 DEF AfterPoint
    <3>4. layer = n_layers
      BY <1>3, <2>3, LastOf
    <3>2. Stage(function, layer') = 8 + 2 * n_layers /\ Count(function, layer') = LastCommitment - 1
      BY <3>1 DEF Stage, Count
    <3>3. QED
      BY <1>3, <2>1, <3>4, <3>2
  <2>4. QED
    BY <2>2, <2>3
<1>6. /\ \A c : c \in ToSet(names) <=> c = <<"fri", layer>> /\ layer \in Folded
      /\ \A i \in DOMAIN names : i = 1 /\ names[i] = <<"fri", layer>>
  <2>1. CASE layer = 1 /\ fri_step_list[1] = 0
    <3>1. names = <<>> /\ layer \notin Folded
      BY <1>3, <2>1 DEF PointNames, Folded
    <3>2. ToSet(<<>>) = {} /\ DOMAIN <<>> = {}
      BY EmptySequence DEF ToSet
    <3>3. QED
      BY <3>1, <3>2
  <2>2. CASE ~(layer = 1 /\ fri_step_list[1] = 0)
    <3>1. names = <<<<"fri", layer>>>>
      BY <2>2 DEF PointNames
    <3>2. layer \in Folded
      <4>1. layer # 1 => layer \in 2 .. n_layers
        BY <1>3, LastOf
      <4>2. QED
        BY <1>3, <2>2, <4>1 DEF Folded
    <3>3. QED
      BY <3>1, <3>2, OneName
  <2>3. QED
    BY <2>1, <2>2
<1> HIDE DEF names
<1>7. \A c \in ToSet(names) : c \in Challenges
  BY <1>6 DEF Challenges
<1>8. ASSUME NEW c \in Challenges
      PROVE Round(c) < Stage(function, layer') <=> Round(c) < Stage(pc[2], layer) \/ c \in ToSet(names)
  <2>1. c[2] \in Folded => c[2] \in 1 .. n_layers
    BY <1>2, FoldedLayers
  <2>2. /\ c = <<c[1], c[2]>> /\ (c[1] = "fri" => c[2] \in Folded)
        /\ Round(c) < 8 + 2 * layer <=> Round(c) < 7 + 2 * layer \/ (c[1] = "fri" /\ c[2] = layer)
    BY <1>2, <1>3, <2>1, ChallengeKinds
  <2>3. c \in ToSet(names) <=> c[1] = "fri" /\ c[2] = layer
    BY <1>6, <2>2
  <2>4. QED
    BY <1>5, <2>2, <2>3
<1>9. ASSUME NEW i \in DOMAIN names
      PROVE  /\ Before(names[i]) = Count(pc[2], layer)
             /\ Turn(names[i]) = prng[Side].counter + i
  <2>1. i = 1 /\ names[i] = <<"fri", layer>>
    BY <1>6
  <2>2. /\ Before(names[i]) = LastOods + layer - 1
        /\ Turn(names[i]) = IF layer = 1 THEN 2 ELSE 1
    BY <2>1 DEF Before, Turn
  <2>3. prng[Side].counter + i = IF layer = 1 THEN 2 ELSE 1
    BY ONLY <1>4, <2>1
  <2>4. QED
    BY <1>5, <2>2, <2>3
<1>10. function \in {"fri root", "last layer"} /\ (function = "fri root" => layer' < n_layers)
  BY <1>0, <1>1 DEF AfterPoint
<1>11. CheckedBy(function, layer') = CheckedBy(pc[2], layer)
  <2>1. /\ function \notin {"open layers", "done"} /\ pc[2] \notin {"open layers", "done"}
        /\ function \in AfterOods <=> pc[2] \in AfterOods
        /\ function \in AfterPow <=> pc[2] \in AfterPow
    BY <1>1, <1>10 DEF AfterOods, AfterPow
  <2>2. QED
    BY <2>1 DEF CheckedBy
<1>12. /\ pc[2] \in Functions \ (QueryPhase \cup {"done"})
       /\ function \in Functions \ (QueryPhase \cup {"done", "interaction"})
       /\ function # "root 2" /\ pc[2] \in AfterOods /\ function \notin Drawing
  BY <1>1, <1>10 DEF Functions, QueryPhase, Drawing, AfterOods, AfterPow
<1>13. DrawsNext(names, function)
  BY <1>1, <1>3, <1>5, <1>7, <1>8, <1>9, <1>10, <1>11, <1>12 DEF DrawsNext
<1>14. QED
  BY <1>1, <1>13, DrawStep

LEMMA DrawLayerPointStep ==
  ASSUME IInv, DrawLayerPoint
  PROVE  IInv'
<1>1. PICK function : function = AfterPoint
  OBVIOUS
<1>2. pc[2] = "fri point" /\ layer' = layer /\ Draw(Side, PointNames(layer), function)
  BY <1>1 DEF DrawLayerPoint, At, AfterPoint
<1>3. QED
  BY <1>1, <1>2, PointDraw DEF DrawsPoint

\* The prover ends where a layer after the first folds nothing.
LEMMA ZeroStepStop ==
  ASSUME IInv, Side = "prover", pc[2] = "fri point", fri_step_list[layer] = 0, layer > 1,
         Stop("fri step is zero"),
         UNCHANGED <<parameters, layer, prng, in_query_phase_, drawn, proof, reads, fault>>
  PROVE  IInv'
<1> USE DEF Side, At
<1>0. Placed /\ Formed /\ VerifierWaits /\ Scripted /\ Faulted /\ Challenged /\ Stopped
  BY DEF IInv
<1>1. pc' = <<"prover", "done">> /\ verdict' = "fri step is zero"
  BY DEF Stop
<1>2. Side' = "prover" /\ pc'[2] = "done" /\ ~Live'
  BY <1>1 DEF Live
<1>3. /\ UNCHANGED <<fri_step_list, n_interaction_elements, proof_of_work_bits>>
      /\ UNCHANGED <<layer, prng, in_query_phase_, drawn, proof, reads, fault>>
      /\ UNCHANGED parameters /\ UNCHANGED <<parameters, proof, fault>>
  BY DEF parameters
<1>4. /\ Total' = Total /\ n_layers' = n_layers /\ Challenges' = Challenges
      /\ \A i : NameAt(i)' = NameAt(i) /\ OfAt(i)' = OfAt(i)
  BY <1>3, ParametersKept
<1>5. \A side, c : Challenge(side, c)' = Challenge(side, c)
  BY <1>3, MessagesKept
<1>6. Placed'
  <2>1. pc' \in Sides \X Functions
    BY <1>1 DEF Sides, Functions
  <2>2. QED
    BY <1>0, <1>1, <1>2, <1>3, <1>4, <2>1 DEF Placed, Verdicts
<1>7. Formed'
  BY <1>0, <1>3 DEF Formed
<1>8. VerifierWaits'
  BY <1>0, <1>3 DEF VerifierWaits
<1>9. Scripted' /\ Faulted'
  BY <1>0, <1>2, <1>3, <1>4 DEF Scripted, Faulted
<1>10. Challenged'
  <2>1. \A s \in Sides : \A c \in DOMAIN drawn'[s] :
          c \in Challenges /\ drawn'[s][c] = Challenge(s, c)
    BY <1>0, <1>3 DEF Challenged
  <2>2. QED
    BY <1>2, <1>4, <1>5, <2>1 DEF Challenged
<1>11. Seeded' /\ Checked'
  BY <1>2 DEF Seeded, Drawing, Checked
<1>12. Stopped'
  <2>1. layer \in 2 .. n_layers
    <3>1. n_layers \in Nat /\ layer \in 1 .. n_layers
      BY <1>0, Positions DEF Placed
    <3>2. layer > 1 => layer \in 2 .. n_layers
      BY <3>1, LastOf
    <3>3. QED
      BY <3>2
  <2>2. QED
    BY <1>1, <1>2, <1>3, <1>4, <2>1 DEF Stopped
<1>13. QED
  BY <1>6, <1>7, <1>8, <1>9, <1>10, <1>11, <1>12 DEF IInv

LEMMA CreateNextFriLayerStep ==
  ASSUME IInv, CreateNextFriLayer
  PROVE  IInv'
<1>1. Side = "prover" /\ pc[2] = "fri point" /\ layer' = layer
  BY DEF CreateNextFriLayer, At
<1>2. CASE fri_step_list[layer] = 0 /\ layer > 1
  <2>1. Stop("fri step is zero")
        /\ UNCHANGED <<parameters, layer, prng, in_query_phase_, drawn, proof, reads, fault>>
    BY <1>2 DEF CreateNextFriLayer
  <2>2. QED
    BY <1>1, <1>2, <2>1, ZeroStepStop
<1>3. CASE ~(fri_step_list[layer] = 0 /\ layer > 1)
  <2>1. PICK function : function = AfterPoint
    OBVIOUS
  <2>2. Draw("prover", IF fri_step_list[layer] = 0 THEN <<>> ELSE <<<<"fri", layer>>>>, function)
    BY <1>3, <2>1 DEF CreateNextFriLayer, AfterPoint
  <2>3. (IF fri_step_list[layer] = 0 THEN <<>> ELSE <<<<"fri", layer>>>>) = PointNames(layer)
    <3>4. Placed
      BY DEF IInv
    <3>1. n_layers \in Nat /\ layer \in 1 .. n_layers
      BY <3>4, Positions DEF Placed
    <3>5. ~(layer > 1) => layer = 1
      BY ONLY <3>1
    <3>2. fri_step_list[layer] = 0 => layer = 1
      BY <1>3, <3>5
    <3>3. QED
      BY <3>2 DEF PointNames
  <2>4. Draw(Side, PointNames(layer), function)
    BY <1>1, <2>2, <2>3
  <2>5. QED
    BY <1>1, <2>1, <2>4, PointDraw DEF DrawsPoint
<1>4. QED
  BY <1>2, <1>3

-----------------------------------------------------------------------------
\* The messages that a function sends or reads.

\* These names are the script's next, and after them it goes on in this function.
Follows(names, function) ==
  /\ pc[2] \in Functions \ {"done"} /\ function \in Functions \ {"done", "fri root"}
  /\ function \in QueryPhase <=> pc[2] \in QueryPhase
  /\ layer' \in 1 .. n_layers /\ (function = "open traces" => layer' = 1)
  /\ function = "fri point" => layer' # 1
  /\ function = "interaction" \/ function = "root 2" => Interactive
  /\ names \in Seq(ToSet(names))
  /\ \A i \in 1 .. Len(names) : names[i] = NameAt(Count(pc[2], layer) + i)
  /\ Count(pc[2], layer) + Len(names) = Count(function, layer') /\ Count(function, layer') <= Total
  /\ \A c \in Challenges :
       Round(c) < Stage(function, layer') <=> Round(c) < Stage(pc[2], layer)

\* What the messages answer is what the script has for them.
Answers(names, messages) ==
  messages = [i \in DOMAIN names |-> Message(names[i], OfAt(Count(pc[2], layer) + i))]

LEMMA AnswersSequence ==
  \A names, messages : names \in Seq(ToSet(names)) /\ Answers(names, messages) =>
    /\ DOMAIN messages = 1 .. Len(names)
    /\ messages \in Seq(ToSet(messages)) /\ Len(messages) = Len(names)
<1> SUFFICES ASSUME NEW names, NEW messages, names \in Seq(ToSet(names)), Answers(names, messages)
             PROVE  /\ DOMAIN messages = 1 .. Len(names)
                    /\ messages \in Seq(ToSet(messages)) /\ Len(messages) = Len(names)
  OBVIOUS
<1>1. Len(names) \in Nat /\ DOMAIN names = 1 .. Len(names)
  BY OwnElements
<1> DEFINE f == [i \in 1 .. Len(names) |-> Message(names[i], OfAt(Count(pc[2], layer) + i))]
<1>2. messages = f
  BY <1>1 DEF Answers
<1>3. DOMAIN f = 1 .. Len(names) /\ f = [i \in 1 .. Len(names) |-> f[i]]
  OBVIOUS
<1> HIDE DEF f
<1>4. f \in Seq(ToSet(f)) /\ Len(f) = Len(names)
  BY <1>1, <1>3, SequenceOf
<1>5. QED
  BY <1>2, <1>3, <1>4

LEMMA SendScript ==
  ASSUME IInv, NEW names, NEW messages, NEW function, Side = "prover",
         SendBytes(messages, function), Follows(names, function), Answers(names, messages)
  PROVE  IInv'
<1>1. Len(proof) = Count(pc[2], layer)
  <2>1. Scripted /\ Live
    BY DEF IInv, Placed, Follows, Live, At
  <2>2. QED
    BY <2>1 DEF Scripted, Sent
<1>2. DOMAIN names = 1 .. Len(names) /\ Len(names) \in Nat
  BY OwnElements DEF Follows
<1>3. DOMAIN messages = 1 .. Len(names)
      /\ \A i \in 1 .. Len(names) : messages[i] = Message(names[i], OfAt(Count(pc[2], layer) + i))
  BY <1>2 DEF Answers
<1>4. messages \in Seq(ToSet(messages)) /\ Len(messages) = Len(names)
  BY AnswersSequence DEF Follows
<1>5. SendsNext(messages, function)
  BY <1>1, <1>3, <1>4 DEF Follows, SendsNext
<1>6. QED
  BY <1>5, SendStep

LEMMA PlainAnswers ==
  ASSUME Placed, NEW i \in Nat, i <= LastCommitment
  PROVE  OfAt(i) = <<>>
<1>1. LastCommitment \in Nat /\ QueryStart \in LastCommitment .. LastCommitment + 1
  BY Positions
<1>2. ~(i > LastCommitment /\ i <= QueryStart) /\ ~(i > QueryStart)
  BY <1>1
<1>3. QED
  BY <1>2, Zenon DEF OfAt

LEMMA PlainSend ==
  ASSUME IInv, NEW names, NEW function, Side = "prover",
         SendBytes(Plain(names), function), Follows(names, function),
         Count(function, layer') <= LastCommitment
  PROVE  IInv'
<1>1. DOMAIN names = 1 .. Len(names) /\ Len(names) \in Nat
  BY OwnElements DEF Follows
<1>2. Count(pc[2], layer) + Len(names) = Count(function, layer')
  BY DEF Follows
<1>3. Count(pc[2], layer) \in Nat /\ LastCommitment \in Nat
  <2>1. Scripted /\ Live /\ Formed /\ Placed
    BY DEF IInv, Placed, Follows, Live, At
  <2>2. QED
    BY <2>1, OwnElements, Positions DEF Scripted, Sent, Formed
<1>4. \A i \in 1 .. Len(names) :
         Count(pc[2], layer) + i \in Nat /\ Count(pc[2], layer) + i <= LastCommitment
  BY <1>1, <1>2, <1>3
<1>5. \A i \in 1 .. Len(names) : OfAt(Count(pc[2], layer) + i) = <<>>
  BY <1>4, PlainAnswers DEF IInv
<1>6. Answers(names, Plain(names))
  BY <1>1, <1>5 DEF Answers, Plain
<1>7. QED
  BY <1>6, SendScript

\* What the verifier's check lets it say of the messages.
Justified(names, ok, reason, function) ==
  /\ ok \in BOOLEAN /\ (ok \/ reason \in Rejections) /\ (fault = "none" => ok)
  /\ ok => \A i \in CheckedBy(function, layer') \ CheckedBy(pc[2], layer) :
             Len(reads) + Len(names) <= Len(proof) => Good(i)
  /\ ok /\ function \in AfterOods => fault # "statement"

LEMMA ReadScript ==
  ASSUME IInv, NEW names, NEW ok, NEW reason, NEW function, Side = "verifier",
         ReceiveBytes(names, ok, reason, function), Follows(names, function),
         Justified(names, ok, reason, function)
  PROVE  IInv'
<1>1. Len(reads) = Count(pc[2], layer)
  <2>1. Scripted /\ Live
    BY DEF IInv, Placed, Follows, Live, At
  <2>2. QED
    BY <2>1 DEF Scripted, Sent
<1>2. ReadsNext(names, ok, reason, function)
  BY <1>1 DEF ReadsNext, Follows, Justified
<1>3. QED
  BY <1>2, ReceiveStep

LEMMA RootCounts ==
  \A k : /\ Count("root 1", k) = 0 /\ Stage("root 1", k) = 1
        /\ Count("interaction", k) = 1 /\ Stage("interaction", k) = 2
        /\ Count("root 2", k) = 1 /\ Stage("root 2", k) = 3
        /\ Count("composition", k) = NumTraces - 1 /\ Stage("composition", k) = 4
        /\ Count("root 3", k) = NumTraces - 1 /\ Stage("root 3", k) = 5
        /\ Count("oods point", k) = NumTraces /\ Stage("oods point", k) = 6
BY DEF Count, Stage

AtRoot(t) == pc[2] = <<"root 1", "root 2", "root 3">>[t] /\ layer' = layer

LEMMA RootFollows ==
  ASSUME IInv, NEW t \in 1 .. 3, AtRoot(t)
  PROVE  /\ Follows(<<Root(t)>>, AfterRoot(t))
         /\ Count(AfterRoot(t), layer') <= LastCommitment
         /\ AfterRoot(t) \notin AfterOods /\ CheckedBy(AfterRoot(t), layer') = {}
<1>0. Placed
  BY DEF IInv
<1>1. PICK before, after :
        /\ pc[2] = before /\ AfterRoot(t) = after /\ t \in {1, 2, 3}
        /\ \/ t = 1 /\ Interactive /\ before = "root 1" /\ after = "interaction"
           \/ t = 1 /\ ~Interactive /\ before = "root 1" /\ after = "composition"
           \/ t = 2 /\ Interactive /\ before = "root 2" /\ after = "composition"
           \/ t = 3 /\ before = "root 3" /\ after = "oods point"
  <2>1. t \in {1, 2, 3}
    OBVIOUS
  <2>2. /\ AfterRoot(1) = IF Interactive THEN "interaction" ELSE "composition"
        /\ AfterRoot(2) = "composition" /\ AfterRoot(3) = "oods point"
    BY DEF AfterRoot
  <2>3. LET f == <<"root 1", "root 2", "root 3">>
        IN f[1] = "root 1" /\ f[2] = "root 2" /\ f[3] = "root 3"
    OBVIOUS
  <2>4. CASE t = 1
    BY <2>1, <2>2, <2>3, <2>4, Zenon DEF AtRoot
  <2>5. CASE t = 2
    <3>1. pc[2] = "root 2"
      BY <2>3, <2>5, Zenon DEF AtRoot
    <3>2. Interactive
      BY <1>0, <3>1 DEF Placed, At
    <3>3. QED
      BY <2>1, <2>2, <2>5, <3>1, <3>2, Zenon
  <2>6. CASE t = 3
    BY <2>1, <2>2, <2>3, <2>6, Zenon DEF AtRoot
  <2>7. QED
    BY <2>1, <2>4, <2>5, <2>6
<1>2. /\ NumTraces \in 2 .. 3 /\ (Interactive <=> NumTraces = 3)
      /\ n_layers \in Nat /\ n_layers >= 1 /\ LastCommitment \in Nat /\ LastCommitment > NumTraces
      /\ Total \in Nat /\ LastCommitment <= Total /\ layer \in 1 .. n_layers /\ layer' = layer
  <2>1. layer \in 1 .. n_layers /\ layer' = layer
    BY <1>0 DEF Placed, AtRoot
  <2>2. QED
    BY <1>0, <2>1, Positions
<1>3. \/ /\ t = 1 /\ Interactive /\ Count(before, layer) = 0 /\ Count(after, layer') = 1
         /\ Stage(before, layer) = 1 /\ Stage(after, layer') = 2
      \/ /\ t = 1 /\ ~Interactive /\ Count(before, layer) = 0 /\ Count(after, layer') = NumTraces - 1
         /\ Stage(before, layer) = 1 /\ Stage(after, layer') = 4
      \/ /\ t = 2 /\ Interactive /\ Count(before, layer) = 1 /\ Count(after, layer') = NumTraces - 1
         /\ Stage(before, layer) = 3 /\ Stage(after, layer') = 4
      \/ /\ t = 3 /\ Count(before, layer) = NumTraces - 1 /\ Count(after, layer') = NumTraces
         /\ Stage(before, layer) = 5 /\ Stage(after, layer') = 6
  BY <1>1, RootCounts, Zenon
<1>4. t \in {1, 2, 3}
  BY <1>1
<1>5. Count(before, layer) + 1 = Count(after, layer') /\ Count(after, layer') <= LastCommitment
      /\ Count(after, layer') <= Total
      /\ Count(before, layer) + 1 = (IF t = 1 THEN 1 ELSE IF t = 2 THEN 2 ELSE NumTraces)
      /\ (t = 2 => NumTraces = 3)
  BY ONLY <1>2, <1>3
<1>6. NameAt(Count(before, layer) + 1) = Root(t)
  <2>1. /\ 1 \in 1 .. Total /\ 2 \in 1 .. Total /\ NumTraces \in 1 .. Total
        /\ NumTraces # 1 /\ (NumTraces = 3 => NumTraces # 2)
    BY ONLY <1>2
  <2>2. NameAt(1) = Root(1)
    BY <1>0, <2>1, ScriptNames, Zenon
  <2>3. NumTraces = 3 => NameAt(2) = Root(2)
    BY <1>0, <1>2, <2>1, ScriptNames, Zenon
  <2>4. NameAt(NumTraces) = Root(3)
    BY <1>0, <2>1, ScriptNames, Zenon
  <2>5. QED
    BY <1>4, <1>5, <2>2, <2>3, <2>4
<1>7. ASSUME NEW c \in Challenges
      PROVE  Round(c) < Stage(after, layer') <=> Round(c) < Stage(before, layer)
  <2>1. c[2] \in Folded => c[2] \in 1 .. n_layers
    BY <1>0, FoldedLayers
  <2>2. n_interaction_elements \in Nat
    BY <1>0, Positions
  <2>3. /\ Round(c) = 2 \/ Round(c) = 4 \/ Round(c) = 6 \/ Round(c) >= 8
        /\ Round(c) \in Int /\ (Round(c) = 2 => Interactive)
    BY <1>0, <1>2, <2>1, <2>2, ChallengeKinds DEF Interactive
  <2>4. QED
    BY ONLY <1>3, <2>3
<1>8. /\ before \in Functions \ {"done"} /\ after \in Functions \ {"done", "fri root"}
      /\ after \notin QueryPhase /\ before \notin QueryPhase
      /\ after \notin {"open traces", "fri point", "root 2", "open layers", "done"}
      /\ (after = "interaction" => Interactive)
      /\ after \notin AfterOods /\ after \notin AfterPow
  BY <1>1 DEF Functions, QueryPhase, AfterOods, AfterPow
<1>9. CheckedBy(after, layer') = {}
  BY <1>8 DEF CheckedBy
<1> DEFINE names == <<Root(t)>>
<1>10. Len(names) = 1 /\ names[1] = Root(t) /\ names \in Seq(ToSet(names))
  BY OneName
<1> HIDE DEF names
<1>11. \A i \in 1 .. Len(names) : names[i] = NameAt(Count(before, layer) + i)
  BY ONLY <1>6, <1>10
<1>12. layer' \in 1 .. n_layers
  BY <1>2
<1>13. Follows(names, after)
  BY <1>1, <1>5, <1>7, <1>8, <1>10, <1>11, <1>12 DEF Follows
<1>14. QED
  BY <1>1, <1>5, <1>8, <1>9, <1>13 DEF names

LEMMA CommitOnTraceStep ==
  ASSUME IInv, NEW t \in 1 .. 3, CommitOnTrace(t)
  PROVE  IInv'
<1>1. /\ Side = "prover" /\ AtRoot(t)
      /\ SendBytes(Plain(<<Root(t)>>), AfterRoot(t))
  BY DEF CommitOnTrace, At, AtRoot
<1>2. QED
  BY <1>1, RootFollows, PlainSend

LEMMA ReadCommitmentStep ==
  ASSUME IInv, NEW t \in 1 .. 3, ReadCommitment(t)
  PROVE  IInv'
<1>1. /\ Side = "verifier" /\ AtRoot(t)
      /\ ReceiveBytes(<<Root(t)>>, TRUE, "", AfterRoot(t))
  BY DEF ReadCommitment, At, AtRoot
<1>2. Follows(<<Root(t)>>, AfterRoot(t)) /\ AfterRoot(t) \notin AfterOods
      /\ CheckedBy(AfterRoot(t), layer') = {}
  BY <1>1, RootFollows
<1>3. Justified(<<Root(t)>>, TRUE, "", AfterRoot(t))
  BY <1>2 DEF Justified
<1>4. QED
  BY <1>1, <1>2, <1>3, ReadScript

LEMMA PlacesInOrder ==
  ASSUME Placed
  PROVE  /\ n_layers \in Nat /\ n_layers >= 1 /\ layer \in 1 .. n_layers /\ NumTraces \in 2 .. 3
         /\ mask_size \in Nat /\ n_breaks \in Nat
         /\ LastMask \in Nat /\ LastMask = NumTraces + mask_size
         /\ LastOods \in Nat /\ LastOods = LastMask + n_breaks /\ LastMask <= LastOods
         /\ LastCommitment \in Nat /\ LastCommitment = LastOods + n_layers
         /\ QueryStart \in Nat /\ QueryStart = LastCommitment + IF proof_of_work_bits > 0 THEN 1 ELSE 0
         /\ LastTrace \in Nat /\ LastTrace = QueryStart + NumTraces
         /\ Total \in Nat /\ Total = LastTrace + n_layers - 1
         /\ LastOods < LastCommitment /\ LastCommitment <= QueryStart /\ QueryStart <= Total
         /\ LastTrace <= Total /\ LastOods <= Total /\ LastCommitment <= Total
<1>1. layer \in 1 .. n_layers
  BY DEF Placed
<1>2. /\ n_layers \in Nat /\ n_layers >= 1 /\ NumTraces \in 2 .. 3
      /\ mask_size \in Nat /\ n_breaks \in Nat /\ LastMask \in Nat /\ LastMask = NumTraces + mask_size
      /\ LastOods \in Nat /\ LastOods = LastMask + n_breaks
      /\ LastCommitment \in Nat /\ LastCommitment = LastOods + n_layers
      /\ QueryStart \in Nat /\ LastTrace \in Nat /\ LastTrace = QueryStart + NumTraces
      /\ Total \in Nat /\ Total = LastTrace + n_layers - 1
  BY Positions
<1>3. QueryStart = LastCommitment + IF proof_of_work_bits > 0 THEN 1 ELSE 0
  BY DEF QueryStart
<1>4. QED
  BY ONLY <1>1, <1>2, <1>3

LEMMA LaterCounts ==
  \A k : /\ Count("oods values", k) = NumTraces /\ Stage("oods values", k) = 7
         /\ Count("oods composition", k) = LastOods /\ Stage("oods composition", k) = 8
         /\ Count("fri point", k) = LastOods + k - 1 /\ Stage("fri point", k) = 7 + 2 * k
         /\ Count("fri root", k) = LastOods + k - 1 /\ Stage("fri root", k) = 8 + 2 * k
         /\ Count("last layer", k) = LastCommitment - 1 /\ Stage("last layer", k) = 8 + 2 * n_layers
         /\ Count("pow", k) = LastCommitment /\ Stage("pow", k) = 9 + 2 * n_layers
         /\ Count("queries", k) = QueryStart /\ Stage("queries", k) = 10 + 2 * n_layers
         /\ Count("begin", k) = QueryStart /\ Stage("begin", k) = 11 + 2 * n_layers
         /\ Count("open traces", k) = QueryStart /\ Stage("open traces", k) = 11 + 2 * n_layers
         /\ Count("open layers", k) = LastTrace + k - 1 /\ Stage("open layers", k) = 11 + 2 * n_layers
         /\ Count("done", k) = Total /\ Stage("done", k) = 11 + 2 * n_layers
BY DEF Count, Stage

\* The rounds of the challenges.
LEMMA ChallengeRounds ==
  ASSUME Placed, NEW c \in Challenges
  PROVE  /\ Round(c) \in Int
         /\ \/ Round(c) \in {2, 4, 6, 8} \/ Round(c) = 10 + 2 * n_layers
            \/ c[2] \in 1 .. n_layers /\ Round(c) = 7 + 2 * c[2]
<1>1. c[2] \in Folded => c[2] \in 1 .. n_layers
  BY FoldedLayers
<1>2. n_layers \in Nat
  BY Positions
<1>3. QED
  BY <1>1, <1>2, ChallengeKinds

LEMMA OodsNames ==
  ASSUME Placed
  PROVE  /\ OodsValues \in Seq(ToSet(OodsValues)) /\ Len(OodsValues) = mask_size + n_breaks
         /\ \A i \in 1 .. Len(OodsValues) : OodsValues[i] = NameAt(NumTraces + i)
<1> DEFINE f == Named("mask", mask_size)
           g == Named("break", n_breaks)
<1>1. /\ n_layers \in Nat /\ n_layers >= 1 /\ NumTraces \in 2 .. 3
      /\ LastMask \in Nat /\ LastMask = NumTraces + mask_size /\ mask_size \in Nat
      /\ LastOods \in Nat /\ LastOods = LastMask + n_breaks /\ n_breaks \in Nat
      /\ Total \in Nat /\ LastOods <= Total
  BY Positions
<1>2. /\ f \in Seq(ToSet(f)) /\ Len(f) = mask_size
      /\ \A i \in 1 .. mask_size : f[i] = <<"mask", i>>
  BY <1>1, NamedNames
<1>3. /\ g \in Seq(ToSet(g)) /\ Len(g) = n_breaks
      /\ \A i \in 1 .. n_breaks : g[i] = <<"break", i>>
  BY <1>1, NamedNames
<1>4. OodsValues = f \o g
  BY DEF OodsValues
<1> HIDE DEF f, g
<1>5. /\ f \o g \in Seq(ToSet(f \o g)) /\ Len(f \o g) = mask_size + n_breaks
      /\ \A i \in 1 .. mask_size : (f \o g)[i] = f[i]
      /\ \A i \in 1 .. n_breaks : (f \o g)[mask_size + i] = g[i]
  <2>1. /\ f \o g \in Seq(ToSet(f \o g)) /\ Len(f \o g) = Len(f) + Len(g)
        /\ \A i \in 1 .. Len(f) : (f \o g)[i] = f[i]
        /\ \A i \in 1 .. Len(g) : (f \o g)[Len(f) + i] = g[i]
    <3>1. f \in Seq(ToSet(f)) /\ g \in Seq(ToSet(g))
      BY <1>2, <1>3
    <3>2. QED
      BY ONLY <3>1, Appended
  <2>2. QED
    BY <1>2, <1>3, <2>1
<1>6. ASSUME NEW i \in 1 .. mask_size + n_breaks PROVE (f \o g)[i] = NameAt(NumTraces + i)
  <2>1. NumTraces + i \in 1 .. Total /\ (NumTraces + i) - NumTraces = i
    BY <1>1
  <2>2. CASE i <= mask_size
    <3>1. NumTraces < NumTraces + i /\ NumTraces + i <= LastMask /\ i \in 1 .. mask_size
      BY <1>1, <2>2
    <3>2. NameAt(NumTraces + i) = <<"mask", i>>
      BY <2>1, <3>1, ScriptNames
    <3>3. QED
      BY <1>2, <1>5, <3>1, <3>2
  <2>3. CASE i > mask_size
    <3>1. PICK j \in 1 .. n_breaks : i = mask_size + j
      <4>1. i - mask_size \in 1 .. n_breaks /\ i = mask_size + (i - mask_size)
        BY <1>1, <2>3
      <4>2. QED
        BY <4>1
    <3>2. LastMask < NumTraces + i /\ NumTraces + i <= LastOods /\ (NumTraces + i) - LastMask = j
      BY <1>1, <3>1
    <3>3. NameAt(NumTraces + i) = <<"break", j>>
      BY <2>1, <3>2, ScriptNames
    <3>4. (f \o g)[i] = g[j] /\ g[j] = <<"break", j>>
      BY <1>3, <1>5, <3>1
    <3>5. QED
      BY <3>3, <3>4
  <2>4. i <= mask_size \/ i > mask_size
    BY <1>1
  <2>5. QED
    BY <2>2, <2>3, <2>4
<1>7. QED
  BY <1>4, <1>5, <1>6

LEMMA TracesNames ==
  ASSUME Placed, NEW names, names = [i \in DOMAIN Traces |-> <<"trace", Traces[i]>>]
  PROVE  /\ names \in Seq(ToSet(names)) /\ Len(names) = NumTraces /\ DOMAIN names = 1 .. NumTraces
         /\ \A i \in 1 .. Len(names) : names[i] = NameAt(QueryStart + i)
<1>1. /\ n_layers \in Nat /\ n_layers >= 1 /\ NumTraces \in 2 .. 3 /\ QueryStart \in Nat
      /\ LastTrace = QueryStart + NumTraces /\ Total \in Nat /\ LastTrace <= Total
  BY Positions
<1>2. DOMAIN Traces = 1 .. NumTraces
  <2>1. 1 \in 1 .. NumTraces
    BY <1>1
  <2>2. QED
    BY <2>1, TraceNames
<1>3. DOMAIN names = 1 .. NumTraces /\ names = [i \in 1 .. NumTraces |-> names[i]]
      /\ \A i \in 1 .. NumTraces : names[i] = <<"trace", Traces[i]>>
  BY <1>2
<1>4. names \in Seq(ToSet(names)) /\ Len(names) = NumTraces
  BY <1>1, <1>3, SequenceOf
<1>5. ASSUME NEW i \in 1 .. NumTraces PROVE names[i] = NameAt(QueryStart + i)
  <2>1. /\ QueryStart + i \in 1 .. Total /\ QueryStart < QueryStart + i
        /\ QueryStart + i <= LastTrace /\ (QueryStart + i) - QueryStart = i
    BY <1>1
  <2>2. NameAt(QueryStart + i) = <<"trace", Traces[(QueryStart + i) - QueryStart]>>
    BY <2>1, ScriptNames, Zenon
  <2>3. QED
    BY <1>3, <2>1, <2>2
<1>6. QED
  BY <1>3, <1>4, <1>5

AtOodsValues == pc[2] = "oods values" /\ layer' = layer

LEMMA OodsFollows ==
  ASSUME IInv, AtOodsValues, NEW function, function = "oods composition"
  PROVE  /\ Follows(OodsValues, function) /\ Count(function, layer') <= LastCommitment
         /\ \A i \in CheckedBy(function, layer') \ CheckedBy(pc[2], layer) :
              NumTraces < i /\ i <= LastOods
         /\ Count(pc[2], layer) = NumTraces
<1>0. Placed
  BY DEF IInv
<1>1. PICK before : pc[2] = before /\ before = "oods values" /\ layer' = layer
  BY DEF AtOodsValues
<1>2. /\ Count(before, layer) = NumTraces /\ Stage(before, layer) = 7
      /\ Count(function, layer') = LastOods /\ Stage(function, layer') = 8
  BY <1>1, LaterCounts, Zenon
<1>3. /\ n_layers \in Nat /\ n_layers >= 1 /\ layer \in 1 .. n_layers
      /\ NumTraces \in Nat /\ LastOods \in Nat /\ LastOods = NumTraces + (mask_size + n_breaks)
      /\ LastOods <= LastCommitment /\ LastOods <= Total
  <2>1. /\ n_layers \in Nat /\ n_layers >= 1 /\ layer \in 1 .. n_layers /\ NumTraces \in 2 .. 3
        /\ mask_size \in Nat /\ n_breaks \in Nat /\ LastMask = NumTraces + mask_size
        /\ LastOods \in Nat /\ LastOods = LastMask + n_breaks
        /\ LastCommitment \in Nat /\ LastOods < LastCommitment /\ LastOods <= Total
    BY <1>0, PlacesInOrder, Zenon
  <2>2. QED
    BY ONLY <2>1
<1>4. ASSUME NEW c \in Challenges
      PROVE  Round(c) < Stage(function, layer') <=> Round(c) < Stage(before, layer)
  <2>1. /\ Round(c) \in Int
        /\ \/ Round(c) \in {2, 4, 6, 8} \/ Round(c) = 10 + 2 * n_layers
           \/ c[2] \in 1 .. n_layers /\ Round(c) = 7 + 2 * c[2]
    BY <1>0, ChallengeRounds
  <2>2. QED
    BY ONLY <1>2, <1>3, <2>1
<1>5. /\ before \in Functions \ {"done"} /\ function \in Functions \ {"done", "fri root"}
      /\ function \notin QueryPhase /\ before \notin QueryPhase
      /\ function \notin {"open traces", "fri point", "interaction", "root 2", "open layers", "done"}
      /\ function \notin AfterPow
  BY <1>1 DEF Functions, QueryPhase, AfterPow
<1>6. /\ OodsValues \in Seq(ToSet(OodsValues)) /\ Len(OodsValues) = mask_size + n_breaks
      /\ \A i \in 1 .. Len(OodsValues) : OodsValues[i] = NameAt(NumTraces + i)
  BY <1>0, OodsNames
<1>7. layer' \in 1 .. n_layers
  BY <1>1, <1>3
<1>8. Count(before, layer) + Len(OodsValues) = Count(function, layer')
      /\ Count(function, layer') <= Total
  BY ONLY <1>2, <1>3, <1>6
<1>9. \A i \in 1 .. Len(OodsValues) : OodsValues[i] = NameAt(Count(before, layer) + i)
  BY <1>2, <1>6
<1>10. Follows(OodsValues, function)
  BY <1>1, <1>4, <1>5, <1>6, <1>7, <1>8, <1>9 DEF Follows
<1>11. \A i \in CheckedBy(function, layer') : NumTraces < i /\ i <= LastOods
  BY <1>5 DEF CheckedBy
<1>12. QED
  BY <1>1, <1>2, <1>3, <1>10, <1>11

-----------------------------------------------------------------------------
\* The functions from FRI's commitments on.

LEMMA OnlyOne == \A i \in 1 .. 1 : i = 1
OBVIOUS

AtFriRoot == pc[2] = "fri root" /\ layer' = layer + 1

LEMMA FriRootFollows ==
  ASSUME IInv, AtFriRoot, NEW function, function = "fri point"
  PROVE  /\ Follows(<<<<"fri root", layer>>>>, function) /\ Count(function, layer') <= Total
         /\ Count(function, layer') <= LastCommitment
         /\ CheckedBy(function, layer') = CheckedBy(pc[2], layer)
         /\ pc[2] \in AfterOods
<1>0. Placed
  BY DEF IInv
<1>1. PICK before : pc[2] = before /\ before = "fri root" /\ layer' = layer + 1
  BY DEF AtFriRoot
<1>2. n_layers \in Nat /\ n_layers >= 1 /\ layer \in 1 .. n_layers
  BY <1>0, PlacesInOrder, Zenon
<1>3. /\ layer < n_layers /\ layer' = layer + 1 /\ LastOods \in Nat /\ Total \in Nat
      /\ LastCommitment = LastOods + n_layers /\ LastCommitment <= Total /\ LastCommitment \in Nat
  <2>1. layer < n_layers
    BY <1>0, <1>1 DEF Placed, At
  <2>2. QED
    BY <1>0, <1>1, <2>1, PlacesInOrder, Zenon
<1>4. /\ Count(before, layer) = LastOods + layer - 1 /\ Stage(before, layer) = 8 + 2 * layer
      /\ Count(function, layer') = LastOods + layer' - 1 /\ Stage(function, layer') = 7 + 2 * layer'
  BY <1>1, LaterCounts, Zenon
<1>5. ASSUME NEW c \in Challenges
      PROVE  Round(c) < Stage(function, layer') <=> Round(c) < Stage(before, layer)
  <2>1. /\ Round(c) \in Int
        /\ \/ Round(c) \in {2, 4, 6, 8} \/ Round(c) = 10 + 2 * n_layers
           \/ c[2] \in 1 .. n_layers /\ Round(c) = 7 + 2 * c[2]
    BY <1>0, ChallengeRounds
  <2>2. QED
    BY ONLY <1>2, <1>3, <1>4, <2>1
<1>6. /\ before \in Functions \ {"done"} /\ function \in Functions \ {"done", "fri root"}
      /\ function \in QueryPhase <=> before \in QueryPhase
      /\ function \notin {"open traces", "interaction", "root 2"}
      /\ function \in AfterOods /\ before \in AfterOods
      /\ function \notin AfterPow /\ before \notin AfterPow
      /\ function \notin {"open layers", "done"} /\ before \notin {"open layers", "done"}
  BY <1>1 DEF Functions, QueryPhase, AfterOods, AfterPow
<1> DEFINE names == <<<<"fri root", layer>>>>
<1>7. Len(names) = 1 /\ names[1] = <<"fri root", layer>> /\ names \in Seq(ToSet(names))
  BY OneName
<1>8. NameAt(Count(before, layer) + 1) = <<"fri root", layer>>
  <2>1. /\ LastOods + layer \in 1 .. Total /\ Count(before, layer) + 1 = LastOods + layer
        /\ LastOods < LastOods + layer /\ LastOods + layer < LastCommitment
        /\ (LastOods + layer) - LastOods = layer
    BY ONLY <1>2, <1>3, <1>4
  <2>2. NameAt(LastOods + layer) = <<"fri root", (LastOods + layer) - LastOods>>
    BY <1>0, <2>1, ScriptNames, Zenon
  <2>3. QED
    BY <2>1, <2>2
<1> HIDE DEF names
<1>9. /\ Count(before, layer) + Len(names) = Count(function, layer')
      /\ Count(function, layer') <= Total
  <2>1. Len(names) = 1
    BY <1>7, Zenon
  <2>2. QED
    BY ONLY <1>2, <1>3, <1>4, <2>1
<1>10. \A i \in 1 .. Len(names) : names[i] = NameAt(Count(before, layer) + i)
  <2>1. Len(names) = 1 /\ names[1] = NameAt(Count(before, layer) + 1)
    BY <1>7, <1>8, Zenon
  <2>2. QED
    BY <2>1, OnlyOne, Zenon
<1>11. layer' \in 1 .. n_layers /\ (function = "fri point" => layer' # 1)
  <2>1. layer' \in 1 .. n_layers /\ (layer' = layer + 1 => layer' # 1)
    BY ONLY <1>2, <1>3
  <2>2. QED
    BY <1>1, <1>6, <2>1
<1>12. Follows(names, function)
  BY <1>1, <1>5, <1>6, <1>7, <1>9, <1>10, <1>11 DEF Follows
<1>13. CheckedBy(function, layer') = CheckedBy(before, layer)
  BY <1>6 DEF CheckedBy
<1>14. Count(function, layer') <= LastCommitment
  BY ONLY <1>2, <1>3, <1>4
<1>15. QED
  BY <1>1, <1>6, <1>9, <1>12, <1>13, <1>14 DEF names

AtLastLayer == pc[2] = "last layer" /\ layer' = layer

LEMMA CoefficientsFollow ==
  ASSUME IInv, AtLastLayer, NEW function, function = "pow"
  PROVE  /\ Follows(<<<<"coefficients", 1>>>>, function) /\ Count(function, layer') <= Total
         /\ Count(function, layer') <= LastCommitment
         /\ CheckedBy(function, layer') = CheckedBy(pc[2], layer)
         /\ pc[2] \in AfterOods
<1>0. Placed
  BY DEF IInv
<1>1. PICK before : pc[2] = before /\ before = "last layer" /\ layer' = layer
  BY DEF AtLastLayer
<1>2. n_layers \in Nat /\ n_layers >= 1 /\ layer \in 1 .. n_layers
  BY <1>0, PlacesInOrder, Zenon
<1>3. /\ layer' = layer /\ LastOods \in Nat /\ Total \in Nat
      /\ LastCommitment = LastOods + n_layers /\ LastCommitment <= Total /\ LastCommitment \in Nat
  BY <1>0, <1>1, PlacesInOrder, Zenon
<1>4. /\ Count(before, layer) = LastCommitment - 1 /\ Stage(before, layer) = 8 + 2 * n_layers
      /\ Count(function, layer') = LastCommitment /\ Stage(function, layer') = 9 + 2 * n_layers
  BY <1>1, LaterCounts, Zenon
<1>5. ASSUME NEW c \in Challenges
      PROVE  Round(c) < Stage(function, layer') <=> Round(c) < Stage(before, layer)
  <2>1. /\ Round(c) \in Int
        /\ \/ Round(c) \in {2, 4, 6, 8} \/ Round(c) = 10 + 2 * n_layers
           \/ c[2] \in 1 .. n_layers /\ Round(c) = 7 + 2 * c[2]
    BY <1>0, ChallengeRounds
  <2>2. QED
    BY ONLY <1>2, <1>3, <1>4, <2>1
<1>6. /\ before \in Functions \ {"done"} /\ function \in Functions \ {"done", "fri root"}
      /\ function \in QueryPhase <=> before \in QueryPhase
      /\ function \notin {"open traces", "interaction", "root 2"}
      /\ function \in AfterOods /\ before \in AfterOods /\ function # "fri point"
      /\ function \notin AfterPow /\ before \notin AfterPow
      /\ function \notin {"open layers", "done"} /\ before \notin {"open layers", "done"}
  BY <1>1 DEF Functions, QueryPhase, AfterOods, AfterPow
<1> DEFINE names == <<<<"coefficients", 1>>>>
<1>7. Len(names) = 1 /\ names[1] = <<"coefficients", 1>> /\ names \in Seq(ToSet(names))
  BY OneName
<1>8. NameAt(Count(before, layer) + 1) = <<"coefficients", 1>>
  <2>1. LastCommitment \in 1 .. Total /\ Count(before, layer) + 1 = LastCommitment
    BY ONLY <1>2, <1>3, <1>4
  <2>2. NameAt(LastCommitment) = <<"coefficients", 1>>
    BY <1>0, <2>1, ScriptNames, Zenon
  <2>3. QED
    BY <2>1, <2>2
<1> HIDE DEF names
<1>9. /\ Count(before, layer) + Len(names) = Count(function, layer')
      /\ Count(function, layer') <= Total
  <2>1. Len(names) = 1
    BY <1>7, Zenon
  <2>2. QED
    BY ONLY <1>2, <1>3, <1>4, <2>1
<1>10. \A i \in 1 .. Len(names) : names[i] = NameAt(Count(before, layer) + i)
  <2>1. Len(names) = 1 /\ names[1] = NameAt(Count(before, layer) + 1)
    BY <1>7, <1>8, Zenon
  <2>2. QED
    BY <2>1, OnlyOne, Zenon
<1>11. layer' \in 1 .. n_layers /\ (function = "fri point" => layer' # 1)
  <2>1. layer' \in 1 .. n_layers /\ (layer' = layer + 1 => layer' # 1)
    BY ONLY <1>2, <1>3
  <2>2. QED
    BY <1>1, <1>6, <2>1
<1>12. Follows(names, function)
  BY <1>1, <1>5, <1>6, <1>7, <1>9, <1>10, <1>11 DEF Follows
<1>13. CheckedBy(function, layer') = CheckedBy(before, layer)
  BY <1>6 DEF CheckedBy
<1>14. Count(function, layer') <= LastCommitment
  BY ONLY <1>2, <1>3, <1>4
<1>15. QED
  BY <1>1, <1>6, <1>9, <1>12, <1>13, <1>14 DEF names

AtPow == pc[2] = "pow" /\ layer' = layer /\ proof_of_work_bits > 0

LEMMA NonceFollows ==
  ASSUME IInv, AtPow, NEW function, function = "queries"
  PROVE  /\ Follows(<<<<"POW", 1>>>>, function) /\ Count(function, layer') <= Total
         /\ Count(pc[2], layer) + 1 = QueryStart /\ Count(pc[2], layer) = LastCommitment
         /\ \A i \in CheckedBy(function, layer') \ CheckedBy(pc[2], layer) : i = QueryStart
         /\ pc[2] \in AfterOods
<1>0. Placed
  BY DEF IInv
<1>1. PICK before : pc[2] = before /\ before = "pow" /\ layer' = layer
  BY DEF AtPow
<1>2. n_layers \in Nat /\ n_layers >= 1 /\ layer \in 1 .. n_layers
  BY <1>0, PlacesInOrder, Zenon
<1>3. /\ layer' = layer /\ LastOods \in Nat /\ Total \in Nat /\ QueryStart = LastCommitment + 1
      /\ LastCommitment \in Nat /\ QueryStart <= Total
  <2>1. QueryStart = LastCommitment + 1
    BY DEF AtPow, QueryStart
  <2>2. QED
    BY <1>0, <1>1, <2>1, PlacesInOrder, Zenon
<1>4. /\ Count(before, layer) = LastCommitment /\ Stage(before, layer) = 9 + 2 * n_layers
      /\ Count(function, layer') = QueryStart /\ Stage(function, layer') = 10 + 2 * n_layers
  BY <1>1, LaterCounts, Zenon
<1>5. ASSUME NEW c \in Challenges
      PROVE  Round(c) < Stage(function, layer') <=> Round(c) < Stage(before, layer)
  <2>1. /\ Round(c) \in Int
        /\ \/ Round(c) \in {2, 4, 6, 8} \/ Round(c) = 10 + 2 * n_layers
           \/ c[2] \in 1 .. n_layers /\ Round(c) = 7 + 2 * c[2]
    BY <1>0, ChallengeRounds
  <2>2. QED
    BY ONLY <1>2, <1>3, <1>4, <2>1
<1>6. /\ before \in Functions \ {"done"} /\ function \in Functions \ {"done", "fri root"}
      /\ function \in QueryPhase <=> before \in QueryPhase
      /\ function \notin {"open traces", "interaction", "root 2"}
      /\ function \in AfterOods /\ before \in AfterOods /\ function # "fri point"
      /\ function \in AfterPow
      /\ function \notin {"open layers", "done"} /\ before \notin {"open layers", "done"}
  BY <1>1 DEF Functions, QueryPhase, AfterOods, AfterPow
<1> DEFINE names == <<<<"POW", 1>>>>
<1>7. Len(names) = 1 /\ names[1] = <<"POW", 1>> /\ names \in Seq(ToSet(names))
  BY OneName
<1>8. NameAt(Count(before, layer) + 1) = <<"POW", 1>>
  <2>1. /\ QueryStart \in 1 .. Total /\ Count(before, layer) + 1 = QueryStart
        /\ LastCommitment < QueryStart /\ QueryStart <= QueryStart
    BY ONLY <1>2, <1>3, <1>4
  <2>2. NameAt(QueryStart) = <<"POW", 1>>
    BY <1>0, <2>1, ScriptNames, Zenon
  <2>3. QED
    BY <2>1, <2>2
<1> HIDE DEF names
<1>9. /\ Count(before, layer) + Len(names) = Count(function, layer')
      /\ Count(function, layer') <= Total
  <2>1. Len(names) = 1
    BY <1>7, Zenon
  <2>2. QED
    BY ONLY <1>2, <1>3, <1>4, <2>1
<1>10. \A i \in 1 .. Len(names) : names[i] = NameAt(Count(before, layer) + i)
  <2>1. Len(names) = 1 /\ names[1] = NameAt(Count(before, layer) + 1)
    BY <1>7, <1>8, Zenon
  <2>2. QED
    BY <2>1, OnlyOne, Zenon
<1>11. layer' \in 1 .. n_layers /\ (function = "fri point" => layer' # 1)
  <2>1. layer' \in 1 .. n_layers /\ (layer' = layer + 1 => layer' # 1)
    BY ONLY <1>2, <1>3
  <2>2. QED
    BY <1>1, <1>6, <2>1
<1>12. Follows(names, function)
  BY <1>1, <1>5, <1>6, <1>7, <1>9, <1>10, <1>11 DEF Follows
<1>13. ASSUME NEW i \in CheckedBy(function, layer') \ CheckedBy(before, layer) PROVE i = QueryStart
  <2>1. i \in 1 .. Total /\ LastCommitment < i /\ i <= QueryStart
    BY <1>6 DEF CheckedBy
  <2>2. QED
    BY ONLY <1>3, <2>1
<1>14. Count(before, layer) + 1 = QueryStart
  BY ONLY <1>3, <1>4
<1>15. QED
  BY <1>1, <1>4, <1>6, <1>9, <1>12, <1>13, <1>14 DEF names

AtOpenLayers == pc[2] = "open layers" /\ layer' = layer + 1 /\ layer < n_layers

LEMMA LayerFollows ==
  ASSUME IInv, AtOpenLayers, NEW function, function = "open layers"
  PROVE  /\ Follows(<<<<"layer", layer>>>>, function) /\ Count(function, layer') <= Total
         /\ Count(pc[2], layer) + 1 = LastTrace + layer
         /\ \A i \in CheckedBy(function, layer') \ CheckedBy(pc[2], layer) :
              i = LastOods + layer \/ i = LastTrace + layer
         /\ pc[2] \in AfterOods
<1>0. Placed
  BY DEF IInv
<1>1. PICK before : pc[2] = before /\ before = "open layers" /\ layer' = layer + 1
  BY DEF AtOpenLayers
<1>2. n_layers \in Nat /\ n_layers >= 1 /\ layer \in 1 .. n_layers
  BY <1>0, PlacesInOrder, Zenon
<1>3. /\ layer < n_layers /\ layer' = layer + 1 /\ LastTrace \in Nat /\ LastOods \in Nat
      /\ Total = LastTrace + n_layers - 1 /\ Total \in Nat
  <2>1. layer < n_layers
    BY DEF AtOpenLayers
  <2>2. QED
    BY <1>0, <1>1, <2>1, PlacesInOrder, Zenon
<1>4. /\ Count(before, layer) = LastTrace + layer - 1 /\ Stage(before, layer) = 11 + 2 * n_layers
      /\ Count(function, layer') = LastTrace + layer' - 1 /\ Stage(function, layer') = 11 + 2 * n_layers
  BY <1>1, LaterCounts, Zenon
<1>5. ASSUME NEW c \in Challenges
      PROVE  Round(c) < Stage(function, layer') <=> Round(c) < Stage(before, layer)
  <2>1. /\ Round(c) \in Int
        /\ \/ Round(c) \in {2, 4, 6, 8} \/ Round(c) = 10 + 2 * n_layers
           \/ c[2] \in 1 .. n_layers /\ Round(c) = 7 + 2 * c[2]
    BY <1>0, ChallengeRounds
  <2>2. QED
    BY ONLY <1>2, <1>3, <1>4, <2>1
<1>6. /\ before \in Functions \ {"done"} /\ function \in Functions \ {"done", "fri root"}
      /\ function \in QueryPhase <=> before \in QueryPhase
      /\ function \notin {"open traces", "interaction", "root 2"}
      /\ function \in AfterOods /\ before \in AfterOods /\ function # "fri point"
      /\ function \in AfterPow /\ before \in AfterPow
      /\ function = "open layers" /\ before = "open layers"
  BY <1>1 DEF Functions, QueryPhase, AfterOods, AfterPow
<1> DEFINE names == <<<<"layer", layer>>>>
<1>7. Len(names) = 1 /\ names[1] = <<"layer", layer>> /\ names \in Seq(ToSet(names))
  BY OneName
<1>8. NameAt(Count(before, layer) + 1) = <<"layer", layer>>
  <2>1. /\ LastTrace + layer \in 1 .. Total /\ Count(before, layer) + 1 = LastTrace + layer
        /\ LastTrace < LastTrace + layer /\ (LastTrace + layer) - LastTrace = layer
    BY ONLY <1>2, <1>3, <1>4
  <2>2. NameAt(LastTrace + layer) = <<"layer", (LastTrace + layer) - LastTrace>>
    BY <1>0, <2>1, ScriptNames, Zenon
  <2>3. QED
    BY <2>1, <2>2
<1> HIDE DEF names
<1>9. /\ Count(before, layer) + Len(names) = Count(function, layer')
      /\ Count(function, layer') <= Total
  <2>1. Len(names) = 1
    BY <1>7, Zenon
  <2>2. QED
    BY ONLY <1>2, <1>3, <1>4, <2>1
<1>10. \A i \in 1 .. Len(names) : names[i] = NameAt(Count(before, layer) + i)
  <2>1. Len(names) = 1 /\ names[1] = NameAt(Count(before, layer) + 1)
    BY <1>7, <1>8, Zenon
  <2>2. QED
    BY <2>1, OnlyOne, Zenon
<1>11. layer' \in 1 .. n_layers /\ (function = "fri point" => layer' # 1)
  <2>1. layer' \in 1 .. n_layers /\ (layer' = layer + 1 => layer' # 1)
    BY ONLY <1>2, <1>3
  <2>2. QED
    BY <1>1, <1>6, <2>1
<1>12. Follows(names, function)
  BY <1>1, <1>5, <1>6, <1>7, <1>9, <1>10, <1>11 DEF Follows
<1>13. ASSUME NEW i \in CheckedBy(function, layer') \ CheckedBy(before, layer)
       PROVE  i = LastOods + layer \/ i = LastTrace + layer
  <2>1. /\ i \in 1 .. Total
        /\ \/ LastOods < i /\ i < LastOods + layer' /\ ~(i < LastOods + layer)
           \/ LastTrace < i /\ i < LastTrace + layer' /\ ~(i < LastTrace + layer)
    BY <1>6 DEF CheckedBy
  <2>2. QED
    BY ONLY <1>2, <1>3, <2>1
<1>14. Count(before, layer) + 1 = LastTrace + layer
  BY ONLY <1>2, <1>3, <1>4
<1>15. QED
  BY <1>1, <1>6, <1>9, <1>12, <1>13, <1>14 DEF names

AtOpenTraces == pc[2] = "open traces" /\ layer' = layer

LEMMA TracesFollow ==
  ASSUME IInv, AtOpenTraces, NEW function, function = "open layers",
         NEW names, names = [i \in DOMAIN Traces |-> <<"trace", Traces[i]>>]
  PROVE  /\ Follows(names, function)
         /\ Len(names) = NumTraces /\ DOMAIN names = 1 .. NumTraces
         /\ Count(pc[2], layer) = QueryStart
         /\ \A i \in CheckedBy(function, layer') \ CheckedBy(pc[2], layer) :
              i <= NumTraces \/ (QueryStart < i /\ i <= LastTrace)
         /\ pc[2] \in AfterOods
<1>0. Placed
  BY DEF IInv
<1>1. PICK before : pc[2] = before /\ before = "open traces" /\ layer' = layer
  BY DEF AtOpenTraces
<1>2. layer = 1 /\ layer' = 1
  BY <1>0, <1>1 DEF Placed, At
<1>3. /\ n_layers \in Nat /\ n_layers >= 1 /\ LastOods \in Nat /\ LastTrace \in Nat
      /\ LastTrace = QueryStart + NumTraces /\ NumTraces \in 2 .. 3 /\ QueryStart \in Nat
      /\ Total \in Nat /\ LastTrace <= Total
  BY <1>0, PlacesInOrder, Zenon
<1>4. /\ Count(before, layer) = QueryStart /\ Stage(before, layer) = 11 + 2 * n_layers
      /\ Count(function, layer') = LastTrace + layer' - 1 /\ Stage(function, layer') = 11 + 2 * n_layers
  BY <1>1, LaterCounts, Zenon
<1>5. /\ before \in Functions \ {"done"} /\ function \in Functions \ {"done", "fri root"}
      /\ function \in QueryPhase /\ before \in QueryPhase
      /\ function \notin {"open traces", "interaction", "root 2", "fri point"}
      /\ before \in AfterOods /\ before \in AfterPow /\ before \notin {"open layers", "done"}
      /\ function # "done"
  BY <1>1 DEF Functions, QueryPhase, AfterOods, AfterPow
<1>6. /\ names \in Seq(ToSet(names)) /\ Len(names) = NumTraces /\ DOMAIN names = 1 .. NumTraces
      /\ \A i \in 1 .. Len(names) : names[i] = NameAt(QueryStart + i)
  BY <1>0, TracesNames
<1>7. Count(before, layer) + Len(names) = Count(function, layer') /\ Count(function, layer') <= Total
      /\ layer' \in 1 .. n_layers
  BY ONLY <1>2, <1>3, <1>4, <1>6
<1>8. \A i \in 1 .. Len(names) : names[i] = NameAt(Count(before, layer) + i)
  BY <1>4, <1>6, Zenon
<1>9. Follows(names, function)
  BY <1>1, <1>2, <1>4, <1>5, <1>6, <1>7, <1>8 DEF Follows
<1>10. ASSUME NEW i \in CheckedBy(function, layer') \ CheckedBy(before, layer)
       PROVE  i <= NumTraces \/ (QueryStart < i /\ i <= LastTrace)
  <2>1. /\ i \in 1 .. Total
        /\ \/ i <= NumTraces \/ (QueryStart < i /\ i <= LastTrace)
           \/ LastOods < i /\ i < LastOods + layer'
           \/ LastTrace < i /\ i < LastTrace + layer'
    <3>1. /\ i \in 1 .. Total
          /\ \/ function = "open layers" /\ (i <= NumTraces \/ (QueryStart < i /\ i <= LastTrace))
             \/ function = "open layers" /\ LastOods < i /\ i < LastOods + layer'
             \/ function = "open layers" /\ LastTrace < i /\ i < LastTrace + layer'
             \/ function = "done"
      BY <1>5, Zenon DEF CheckedBy
    <3>2. QED
      BY <1>5, <3>1
  <2>2. QED
    BY ONLY <1>2, <1>3, <2>1
<1>11. QED
  BY <1>1, <1>4, <1>5, <1>6, <1>9, <1>10

-----------------------------------------------------------------------------
\* The prover's messages.

LEMMA ProveOodsStep ==
  ASSUME IInv, ProveOods
  PROVE  IInv'
<1>1. PICK function : function = "oods composition"
  OBVIOUS
<1>2. Side = "prover" /\ AtOodsValues /\ SendBytes(Plain(OodsValues), function)
  BY <1>1 DEF ProveOods, At, AtOodsValues
<1>3. QED
  BY <1>1, <1>2, OodsFollows, PlainSend

LEMMA CommitLayerStep ==
  ASSUME IInv, CommitLayer
  PROVE  IInv'
<1>1. PICK function : function = "fri point"
  OBVIOUS
<1>2. Side = "prover" /\ AtFriRoot /\ SendBytes(Plain(<<<<"fri root", layer>>>>), function)
  BY <1>1 DEF CommitLayer, At, AtFriRoot
<1>3. QED
  BY <1>1, <1>2, FriRootFollows, PlainSend

LEMMA SendLastLayerStep ==
  ASSUME IInv, SendLastLayer
  PROVE  IInv'
<1>1. PICK function : function = "pow"
  OBVIOUS
<1>2. Side = "prover" /\ AtLastLayer /\ SendBytes(Plain(<<<<"coefficients", 1>>>>), function)
  BY <1>1 DEF SendLastLayer, At, AtLastLayer
<1>3. QED
  BY <1>1, <1>2, CoefficientsFollow, PlainSend

\* What a nonce, and a decommitment, of the script answer.
LEMMA NonceAnswers ==
  ASSUME Placed, NEW i, LastCommitment < i, i <= QueryStart, i \in Nat
  PROVE  OfAt(i) = Transcript("prover", LastCommitment)
<1>1. LastCommitment \in Nat /\ QueryStart \in Nat
  BY PlacesInOrder
<1>2. ~(i <= LastCommitment) /\ i > LastCommitment /\ ~(i > QueryStart)
  BY <1>1
<1>3. QED
  BY <1>2, Zenon DEF OfAt

Asked(side) == [j \in 1 .. n_queries |-> Challenge(side, <<"query", j>>)]

LEMMA OpeningAnswers ==
  ASSUME Placed, NEW i, QueryStart < i, i \in Nat
  PROVE  OfAt(i) = Asked("prover")
<1>1. LastCommitment \in Nat /\ QueryStart \in Nat /\ LastCommitment <= QueryStart
  BY PlacesInOrder
<1>2. ~(i <= LastCommitment) /\ ~(i <= QueryStart) /\ i > QueryStart
  BY <1>1
<1>3. QED
  BY <1>2, Zenon DEF OfAt, Asked

\* In the query phase a side has drawn the queries.
LEMMA AskedValues ==
  ASSUME IInv, pc[2] \in QueryPhase
  PROVE  Values(Side, Queries) = Asked(Side)
<1>0. Placed /\ Challenged
  BY DEF IInv
<1>1. n_queries \in Nat /\ n_layers \in Nat
  BY <1>0, Positions
<1>2. DOMAIN Queries = 1 .. n_queries /\ \A j \in 1 .. n_queries : Queries[j] = <<"query", j>>
  BY <1>1, NamedNames DEF Queries
<1>3. Side \in Sides /\ Live
  BY <1>0 DEF Placed, Side, At, Live, QueryPhase
<1>4. Stage(pc[2], layer) = 11 + 2 * n_layers
  BY LaterCounts, Zenon DEF QueryPhase
<1>5. ASSUME NEW j \in 1 .. n_queries
      PROVE  drawn[Side][<<"query", j>>] = Challenge(Side, <<"query", j>>)
  <2>1. <<"query", j>> \in Challenges
    BY DEF Challenges
  <2>2. <<"query", j>>[1] = "query"
    OBVIOUS
  <2>3. Round(<<"query", j>>) < Stage(pc[2], layer)
    BY <1>0, <1>1, <1>4, <2>1, ChallengePlaces DEF Stage
  <2>4. <<"query", j>> \in DOMAIN drawn[Side]
    BY <1>0, <1>3, <2>1, <2>3 DEF Challenged
  <2>5. QED
    BY <1>0, <1>3, <2>4 DEF Challenged
<1>6. QED
  BY <1>2, <1>5 DEF Values, Asked

LEMMA ProvePowStep ==
  ASSUME IInv, ProvePow
  PROVE  IInv'
<1> DEFINE names == <<<<"POW", 1>>>>
           messages == <<Message(<<"POW", 1>>, prng["prover"].mixed)>>
<1>0. Placed /\ Seeded
  BY DEF IInv
<1>1. PICK function : function = "queries"
  OBVIOUS
<1>2. Side = "prover" /\ AtPow /\ SendBytes(messages, function)
  BY <1>1 DEF ProvePow, At, AtPow
<1>3. /\ Follows(names, function) /\ Count(pc[2], layer) + 1 = QueryStart
      /\ Count(pc[2], layer) = LastCommitment
  BY <1>1, <1>2, NonceFollows
<1>4. prng["prover"].mixed = Transcript("prover", LastCommitment)
  BY <1>0, <1>2, <1>3 DEF AtPow, Seeded, QueryPhase
<1>5. OfAt(Count(pc[2], layer) + 1) = Transcript("prover", LastCommitment)
  <2>1. LastCommitment \in Nat /\ QueryStart \in Nat /\ LastCommitment < QueryStart
        /\ QueryStart <= QueryStart
    <3>1. LastCommitment \in Nat /\ QueryStart \in Nat
      BY <1>0, PlacesInOrder, Zenon
    <3>2. QED
      BY ONLY <1>3, <3>1
  <2>2. OfAt(QueryStart) = Transcript("prover", LastCommitment)
    BY <1>0, <2>1, NonceAnswers
  <2>3. QED
    BY <1>3, <2>2
<1>6. DOMAIN names = 1 .. 1 /\ names[1] = <<"POW", 1>> /\ DOMAIN messages = 1 .. 1
      /\ messages[1] = Message(<<"POW", 1>>, prng["prover"].mixed)
      /\ messages = [i \in 1 .. 1 |-> messages[i]]
  OBVIOUS
<1> HIDE DEF names, messages
<1>7. \A i \in 1 .. 1 : messages[i] = Message(names[i], OfAt(Count(pc[2], layer) + i))
  BY <1>4, <1>5, <1>6, OnlyOne, Zenon
<1>8. Answers(names, messages)
  BY <1>6, <1>7 DEF Answers
<1>9. QED
  BY <1>2, <1>3, <1>8, SendScript

\* Names of the script after the queries, with the side's queries as what they answer.
LEMMA Openings ==
  ASSUME IInv, Side = "prover", pc[2] \in QueryPhase, NEW names, NEW function,
         Follows(names, function), Count(pc[2], layer) \in Nat, QueryStart <= Count(pc[2], layer)
  PROVE  Answers(names, [i \in DOMAIN names |-> Message(names[i], Values("prover", Queries))])
<1>0. Placed
  BY DEF IInv
<1>1. Values("prover", Queries) = Asked("prover")
  BY AskedValues
<1>2. DOMAIN names = 1 .. Len(names) /\ Len(names) \in Nat
  BY OwnElements DEF Follows
<1>3. QueryStart \in Nat
  BY <1>0, PlacesInOrder, Zenon
<1>4. ASSUME NEW i \in DOMAIN names PROVE OfAt(Count(pc[2], layer) + i) = Asked("prover")
  <2>1. i \in 1 .. Len(names)
    BY <1>2
  <2>2. QueryStart < Count(pc[2], layer) + i /\ Count(pc[2], layer) + i \in Nat
    BY <1>2, <1>3, <2>1
  <2>3. QED
    BY <1>0, <2>2, OpeningAnswers
<1>5. QED
  BY <1>1, <1>4 DEF Answers

LEMMA DecommitTracesStep ==
  ASSUME IInv, DecommitTraces
  PROVE  IInv'
<1> DEFINE names == [i \in DOMAIN Traces |-> <<"trace", Traces[i]>>]
           messages == [i \in DOMAIN names |-> Message(names[i], Values("prover", Queries))]
<1>0. Placed
  BY DEF IInv
<1>1. PICK function : function = "open layers"
  OBVIOUS
<1>2. Side = "prover" /\ AtOpenTraces /\ SendBytes(messages, function)
  BY <1>1 DEF DecommitTraces, At, AtOpenTraces
<1>3. names = [i \in DOMAIN Traces |-> <<"trace", Traces[i]>>]
  OBVIOUS
<1> HIDE DEF names
<1>4. Follows(names, function) /\ Count(pc[2], layer) = QueryStart
  BY <1>1, <1>2, <1>3, TracesFollow
<1>5. pc[2] \in QueryPhase
  BY <1>2 DEF AtOpenTraces, QueryPhase
<1>6. QueryStart \in Nat /\ QueryStart <= QueryStart
  BY <1>0, PlacesInOrder
<1>7. Answers(names, messages)
  BY <1>2, <1>4, <1>5, <1>6, Openings
<1> HIDE DEF messages
<1>8. QED
  BY <1>2, <1>4, <1>7, SendScript

LEMMA DecommitLayerStep ==
  ASSUME IInv, DecommitLayer
  PROVE  IInv'
<1> DEFINE names == <<<<"layer", layer>>>>
           messages == [i \in DOMAIN names |-> Message(names[i], Values("prover", Queries))]
<1>0. Placed
  BY DEF IInv
<1>1. PICK function : function = "open layers"
  OBVIOUS
<1>2. /\ Side = "prover" /\ AtOpenLayers
      /\ SendBytes(<<Message(<<"layer", layer>>, Values("prover", Queries))>>, function)
  BY <1>1 DEF DecommitLayer, At, AtOpenLayers
<1>3. <<Message(<<"layer", layer>>, Values("prover", Queries))>> = messages
  OBVIOUS
<1>4. Follows(names, function) /\ Count(pc[2], layer) + 1 = LastTrace + layer
  BY <1>1, <1>2, LayerFollows
<1> HIDE DEF names, messages
<1>5. pc[2] \in QueryPhase
  BY <1>2 DEF AtOpenLayers, QueryPhase
<1>6. Count(pc[2], layer) \in Nat /\ QueryStart <= Count(pc[2], layer)
  <2>1. /\ n_layers \in Nat /\ layer \in 1 .. n_layers /\ QueryStart \in Nat /\ NumTraces \in 2 .. 3
        /\ LastTrace = QueryStart + NumTraces
    BY <1>0, PlacesInOrder, Zenon
  <2>2. Count(pc[2], layer) = LastTrace + layer - 1
    BY <1>2, LaterCounts, Zenon DEF AtOpenLayers
  <2>3. QED
    BY ONLY <2>1, <2>2
<1>7. Answers(names, messages)
  BY <1>2, <1>4, <1>5, <1>6, Openings DEF messages
<1>8. QED
  BY <1>2, <1>3, <1>4, <1>7, SendScript

-----------------------------------------------------------------------------
\* What the verifier's checks say of the messages.

LEMMA GenuineNames ==
  ASSUME IInv, NEW names, names \in Seq(ToSet(names)), Len(reads) + Len(names) <= Len(proof),
         \A i \in 1 .. Len(names) : names[i] = NameAt(Len(reads) + i)
  PROVE  /\ Genuine(names) => \A i \in 1 .. Len(names) : Good(Len(reads) + i)
         /\ Opened(names) => \A i \in 1 .. Len(names) : Good(Len(reads) + i)
<1>0. Formed
  BY DEF IInv
<1>1. DOMAIN names = 1 .. Len(names)
  BY OwnElements
<1>2. \A i \in 1 .. Len(names) : Received(names)[i] = proof[Len(reads) + i]
  BY <1>0, ReceivedMessages
<1>3. ASSUME Genuine(names), NEW i \in 1 .. Len(names) PROVE Good(Len(reads) + i)
  BY <1>1, <1>2, <1>3 DEF Genuine, Good
<1>4. ASSUME Opened(names), NEW i \in 1 .. Len(names) PROVE Good(Len(reads) + i)
  <2>1. Received(names)[i] = Message(names[i], Values("verifier", Queries))
    BY <1>1, <1>4 DEF Opened
  <2>2. proof[Len(reads) + i].name = names[i] /\ proof[Len(reads) + i].altered = FALSE
    BY <1>2, <2>1, MessageBytes
  <2>3. QED
    BY <2>2 DEF Good
<1>5. QED
  BY <1>3, <1>4

\* A message kept under a name of the script is the one of that place.
LEMMA KeptIsGood ==
  ASSUME IInv, NEW i \in 1 .. Total, Kept(NameAt(i))
  PROVE  Good(i)
<1>0. Placed /\ Scripted /\ Formed
  BY DEF IInv
<1>1. PICK j \in DOMAIN reads : reads[j] = NameAt(i) /\ proof[j].name = NameAt(i) /\ ~proof[j].altered
  BY DEF Kept
<1>2. j \in 1 .. Len(reads) /\ Len(reads) \in Nat
  BY <1>0, OwnElements DEF Formed
<1>3. j \in 1 .. Total /\ reads[j] = NameAt(j)
  <2>1. Total \in Nat
    BY <1>0, Positions
  <2>2. QED
    BY <1>0, <1>2, <2>1 DEF Scripted
<1>4. j = i
  BY <1>0, <1>1, <1>3, NamesDiffer
<1>5. QED
  BY <1>1, <1>4 DEF Good

\* With nothing altered, the verifier keeps what it has read.
LEMMA HonestProof ==
  ASSUME IInv, fault = "none", Side = "verifier"
  PROVE  /\ Len(proof) = Total
         /\ \A i \in 1 .. Total : proof[i] = Message(NameAt(i), OfAt(i))
         /\ \A i \in 1 .. Total : i <= Len(reads) => Kept(NameAt(i))
<1>0. Placed /\ Scripted /\ Formed
  BY DEF IInv
<1>1. Total \in Nat /\ Len(proof) = Total
      /\ \A i \in 1 .. Total : proof[i] = Message(NameAt(i), OfAt(i))
  <2>1. Total \in Nat
    BY <1>0, Positions
  <2>2. QED
    BY <1>0, <2>1 DEF Scripted
<1>2. ASSUME NEW i \in 1 .. Total, i <= Len(reads) PROVE Kept(NameAt(i))
  <2>1. i \in 1 .. Len(reads) /\ DOMAIN reads = 1 .. Len(reads)
    <3>1. Len(reads) \in Nat /\ DOMAIN reads = 1 .. Len(reads)
      BY <1>0, OwnElements DEF Formed
    <3>2. QED
      BY <1>1, <1>2, <3>1
  <2>2. reads[i] = NameAt(i)
    BY <1>0, <2>1 DEF Scripted
  <2>3. proof[i].name = NameAt(i) /\ proof[i].altered = FALSE
    BY <1>1, MessageBytes
  <2>4. QED
    BY <2>1, <2>2, <2>3 DEF Kept
<1>3. QED
  BY <1>1, <1>2

LEMMA HonestOpened ==
  ASSUME IInv, fault = "none", Side = "verifier", pc[2] \in QueryPhase,
         NEW names, names \in Seq(ToSet(names)), Len(reads) + Len(names) <= Total,
         QueryStart <= Len(reads),
         \A i \in 1 .. Len(names) : names[i] = NameAt(Len(reads) + i)
  PROVE  Opened(names)
<1>0. Placed /\ Formed
  BY DEF IInv
<1>1. Len(proof) = Total /\ \A i \in 1 .. Total : proof[i] = Message(NameAt(i), OfAt(i))
  BY HonestProof
<1>2. DOMAIN names = 1 .. Len(names) /\ Len(names) \in Nat /\ Len(reads) \in Nat
      /\ QueryStart \in Nat /\ Total \in Nat
  BY <1>0, OwnElements, PlacesInOrder DEF Formed
<1> DEFINE received == Received(names)
           value == Values("verifier", Queries)
<1>3. /\ received \in Seq(ToSet(received)) /\ Len(received) = Len(names)
      /\ \A i \in 1 .. Len(names) : received[i] = proof[Len(reads) + i]
  BY <1>0, <1>1, ReceivedMessages
<1>4. value = Asked("prover")
  <2>1. value = Asked("verifier")
    BY AskedValues
  <2>2. ASSUME NEW j \in 1 .. n_queries
        PROVE  Challenge("verifier", <<"query", j>>) = Challenge("prover", <<"query", j>>)
    <3>1. <<"query", j>> \in Challenges
      BY DEF Challenges
    <3>2. QED
      BY <3>1, SidesAgree
  <2>3. Asked("verifier") = Asked("prover")
    BY <2>2 DEF Asked
  <2>4. QED
    BY <2>1, <2>3
<1> HIDE DEF received, value
<1>5. ASSUME NEW i \in 1 .. Len(names) PROVE received[i] = Message(names[i], value)
  <2>1. Len(reads) + i \in 1 .. Total /\ QueryStart < Len(reads) + i /\ Len(reads) + i \in Nat
    BY <1>2
  <2>2. OfAt(Len(reads) + i) = Asked("prover")
    BY <1>0, <2>1, OpeningAnswers
  <2>3. QED
    BY <1>1, <1>3, <1>4, <2>1, <2>2
<1>6. received = [i \in 1 .. Len(names) |-> Message(names[i], value)]
  <2>1. DOMAIN received = 1 .. Len(names)
    BY <1>3, OwnElements
  <2>2. received = [i \in DOMAIN received |-> received[i]]
    <3>1. received \in [1 .. Len(received) -> ToSet(received)]
      BY <1>3, LenProperties
    <3>2. QED
      BY <3>1
  <2>3. QED
    BY <1>5, <2>1, <2>2
<1>7. QED
  BY <1>2, <1>6 DEF Opened, received, value

LEMMA ReadsSoFar ==
  ASSUME IInv, Side = "verifier", pc[2] # "done"
  PROVE  /\ Len(reads) = Count(pc[2], layer) /\ Len(reads) \in Nat /\ Live
         /\ (pc[2] \in AfterOods => fault # "statement")
<1>0. Placed /\ Scripted /\ Formed /\ Checked
  BY DEF IInv
<1>1. Live
  BY <1>0 DEF Placed, Live, At
<1>2. QED
  BY <1>0, <1>1, OwnElements DEF Scripted, Sent, Formed, Checked

LEMMA ReadLayerCommitmentStep ==
  ASSUME IInv, ReadLayerCommitment
  PROVE  IInv'
<1> DEFINE names == <<<<"fri root", layer>>>>
<1>1. PICK function : function = "fri point"
  OBVIOUS
<1>2. Side = "verifier" /\ AtFriRoot /\ ReceiveBytes(names, TRUE, "", function)
  BY <1>1 DEF ReadLayerCommitment, At, AtFriRoot
<1> HIDE DEF names
<1>3. /\ Follows(names, function) /\ CheckedBy(function, layer') = CheckedBy(pc[2], layer)
      /\ pc[2] \in AfterOods
  BY <1>1, <1>2, FriRootFollows DEF names
<1>4. fault # "statement"
  BY <1>2, <1>3, ReadsSoFar DEF AtFriRoot
<1>5. Justified(names, TRUE, "", function)
  BY <1>3, <1>4 DEF Justified
<1>6. QED
  BY <1>2, <1>3, <1>5, ReadScript

LEMMA ReadLastLayerCoefficientsStep ==
  ASSUME IInv, ReadLastLayerCoefficients
  PROVE  IInv'
<1> DEFINE names == <<<<"coefficients", 1>>>>
<1>1. PICK function : function = "pow"
  OBVIOUS
<1>2. Side = "verifier" /\ AtLastLayer /\ ReceiveBytes(names, TRUE, "", function)
  BY <1>1 DEF ReadLastLayerCoefficients, At, AtLastLayer
<1> HIDE DEF names
<1>3. /\ Follows(names, function) /\ CheckedBy(function, layer') = CheckedBy(pc[2], layer)
      /\ pc[2] \in AfterOods
  BY <1>1, <1>2, CoefficientsFollow DEF names
<1>4. fault # "statement"
  BY <1>2, <1>3, ReadsSoFar DEF AtLastLayer
<1>5. Justified(names, TRUE, "", function)
  BY <1>3, <1>4 DEF Justified
<1>6. QED
  BY <1>2, <1>3, <1>5, ReadScript

\* Challenges of another statement are not the prover's.
LEMMA StatementDiffers ==
  ASSUME IInv, fault = "statement", Side = "verifier", pc[2] = "oods values"
  PROVE  ~SameChallenges(DOMAIN drawn["verifier"])
<1> DEFINE c == <<"point", 1>>
<1>0. Placed /\ Challenged
  BY DEF IInv
<1>1. c \in Challenges /\ c[1] = "point"
  BY DEF Challenges
<1> HIDE DEF c
<1>2. Round(c) = 6 /\ Before(c) = NumTraces /\ NumTraces \in Nat
  <2>1. NumTraces \in 2 .. 3
    BY <1>0, PlacesInOrder, Zenon
  <2>2. Round(c) = 6 /\ Before(c) = NumTraces
    BY <1>0, <1>1, ChallengeKinds, Zenon
  <2>3. QED
    BY ONLY <2>1, <2>2
<1>3. Stage(pc[2], layer) = 7 /\ Live
  BY <1>0, LaterCounts, Zenon DEF Placed, At, Live
<1>4. c \in DOMAIN drawn["verifier"] /\ drawn["verifier"][c] = Challenge("verifier", c)
  <2>1. Round(c) < Stage(pc[2], layer)
    BY ONLY <1>2, <1>3
  <2>2. QED
    BY <1>0, <1>1, <1>3, <2>1 DEF Challenged, Sides
<1>5. c \in DOMAIN drawn["prover"] /\ drawn["prover"][c] = Challenge("prover", c)
  BY <1>0, <1>1 DEF Challenged, Sides
<1>6. Transcript("verifier", NumTraces)[1] = SeedOf("verifier")
      /\ Transcript("prover", NumTraces)[1] = SeedOf("prover")
  <2>1. 1 \in 1 .. NumTraces + 1
    BY ONLY <1>2
  <2>2. QED
    BY <2>1 DEF Transcript
<1>7. SeedOf("verifier") # SeedOf("prover")
  BY DEF SeedOf, Seed
<1>8. Challenge("verifier", c).mixed = Transcript("verifier", NumTraces)
      /\ Challenge("prover", c).mixed = Transcript("prover", NumTraces)
  BY <1>2 DEF Challenge
<1>9. drawn["prover"][c] # drawn["verifier"][c]
  BY <1>4, <1>5, <1>6, <1>7, <1>8
<1>10. QED
  BY <1>4, <1>9 DEF SameChallenges

LEMMA VerifyOodsStep ==
  ASSUME IInv, VerifyOods
  PROVE  IInv'
<1> DEFINE ok == Genuine(OodsValues) /\ SameChallenges(DOMAIN drawn["verifier"])
           reason == "out of domain sampling"
<1>0. Placed
  BY DEF IInv
<1>1. PICK function : function = "oods composition"
  OBVIOUS
<1>2. Side = "verifier" /\ AtOodsValues /\ ReceiveBytes(OodsValues, ok, reason, function)
  BY <1>1 DEF VerifyOods, At, AtOodsValues
<1>3. /\ Follows(OodsValues, function)
      /\ \A i \in CheckedBy(function, layer') \ CheckedBy(pc[2], layer) :
           NumTraces < i /\ i <= LastOods
      /\ Count(pc[2], layer) = NumTraces
  BY <1>1, <1>2, OodsFollows
<1>4. Len(reads) = NumTraces /\ Len(reads) \in Nat
  BY <1>2, <1>3, ReadsSoFar DEF AtOodsValues
<1>5. /\ OodsValues \in Seq(ToSet(OodsValues)) /\ Len(OodsValues) = mask_size + n_breaks
      /\ \A i \in 1 .. Len(OodsValues) : OodsValues[i] = NameAt(Len(reads) + i)
      /\ mask_size \in Nat /\ n_breaks \in Nat /\ LastMask = NumTraces + mask_size
      /\ LastOods = LastMask + n_breaks /\ LastOods <= Total /\ Total \in Nat
  BY <1>0, <1>4, OodsNames, PlacesInOrder, Zenon
<1>6. ASSUME fault = "none" PROVE ok
  <2>1. Len(proof) = Total /\ \A i \in 1 .. Total : proof[i] = Message(NameAt(i), OfAt(i))
    BY <1>2, <1>6, HonestProof
  <2>2. Len(reads) + Len(OodsValues) <= Len(proof)
    BY ONLY <1>4, <1>5, <2>1
  <2>3. \A i \in 1 .. Len(OodsValues) : Received(OodsValues)[i] = proof[Len(reads) + i]
    BY <1>5, <2>2, ReceivedMessages DEF IInv
  <2>4. DOMAIN OodsValues = 1 .. Len(OodsValues)
    BY <1>5, OwnElements
  <2>5. ASSUME NEW i \in 1 .. Len(OodsValues)
        PROVE  proof[Len(reads) + i].name = OodsValues[i] /\ ~proof[Len(reads) + i].altered
    <3>1. Len(reads) + i \in 1 .. Total
      <4>1. /\ Len(OodsValues) = mask_size + n_breaks /\ mask_size \in Nat /\ n_breaks \in Nat
            /\ LastMask = NumTraces + mask_size /\ LastOods = LastMask + n_breaks
            /\ LastOods <= Total /\ Total \in Nat
        BY ONLY <1>5, Zenon
      <4>2. QED
        BY ONLY <1>4, <2>5, <4>1
    <3>2. QED
      BY <1>5, <2>1, <3>1, MessageBytes
  <2>6. Genuine(OodsValues)
    BY <2>3, <2>4, <2>5 DEF Genuine
  <2>7. SameChallenges(DOMAIN drawn["verifier"])
    BY <1>2, <1>6, SidesAgree
  <2>8. QED
    BY <2>6, <2>7
<1>7. ASSUME ok, NEW i \in CheckedBy(function, layer') \ CheckedBy(pc[2], layer),
             Len(reads) + Len(OodsValues) <= Len(proof)
      PROVE  Good(i)
  <2>1. NumTraces < i /\ i <= LastOods /\ i \in 1 .. Total
    BY <1>3 DEF CheckedBy
  <2>2. i - NumTraces \in 1 .. Len(OodsValues) /\ Len(reads) + (i - NumTraces) = i
    BY ONLY <1>4, <1>5, <2>1
  <2>3. Genuine(OodsValues)
    BY <1>7
  <2>4. \A j \in 1 .. Len(OodsValues) : Good(Len(reads) + j)
    BY <1>5, <1>7, <2>3, GenuineNames
  <2>5. Good(Len(reads) + (i - NumTraces))
    BY <2>2, <2>4
  <2>6. QED
    BY <2>2, <2>5
<1>8. ok => fault # "statement"
  BY <1>2, StatementDiffers DEF AtOodsValues
<1>9. ok \in BOOLEAN /\ reason \in Rejections
  BY DEF Rejections
<1> HIDE DEF ok, reason
<1>10. Justified(OodsValues, ok, reason, function)
  BY <1>6, <1>7, <1>8, <1>9 DEF Justified
<1>11. QED
  BY <1>2, <1>3, <1>10, ReadScript

LEMMA VerifyPowStep ==
  ASSUME IInv, VerifyPow
  PROVE  IInv'
<1> DEFINE nonce == <<"POW", 1>>
           names == <<nonce>>
           ok == Received(names)[1] = Message(nonce, PrevState)
           reason == "wrong proof of work"
<1>0. Placed /\ Seeded
  BY DEF IInv
<1>1. PICK function : function = "queries"
  OBVIOUS
<1>2. Side = "verifier" /\ AtPow /\ ReceiveBytes(names, ok, reason, function)
  BY <1>1 DEF VerifyPow, At, AtPow
<1>3. Len(names) = 1 /\ names[1] = nonce /\ names \in Seq(ToSet(names))
  BY OneName
<1> HIDE DEF names
<1>4. /\ Follows(names, function) /\ Count(pc[2], layer) + 1 = QueryStart
      /\ Count(pc[2], layer) = LastCommitment
      /\ \A i \in CheckedBy(function, layer') \ CheckedBy(pc[2], layer) : i = QueryStart
      /\ pc[2] \in AfterOods
  BY <1>1, <1>2, NonceFollows DEF names
<1>5. /\ Len(reads) = LastCommitment /\ Len(reads) \in Nat /\ Len(reads) + 1 = QueryStart
      /\ fault # "statement"
  BY <1>2, <1>4, ReadsSoFar DEF AtPow
<1>6. QueryStart \in 1 .. Total /\ Total \in Nat
  <2>1. QueryStart \in Nat /\ QueryStart <= Total /\ Total \in Nat
    BY <1>0, PlacesInOrder, Zenon
  <2>2. QED
    BY ONLY <1>5, <2>1
<1>7. NameAt(QueryStart) = nonce
  <2>1. LastCommitment < QueryStart /\ QueryStart <= QueryStart
    BY ONLY <1>5, <1>6
  <2>2. QED
    BY <1>0, <1>6, <2>1, ScriptNames, Zenon
<1>8. PrevState = Transcript("verifier", LastCommitment)
  <2>1. pc[2] \notin QueryPhase \cup {"done"}
    BY <1>2 DEF AtPow, QueryPhase
  <2>2. QED
    BY <1>0, <1>2, <1>4, <2>1 DEF Seeded, PrevState
<1>9. Len(reads) + Len(names) <= Len(proof) => Received(names)[1] = proof[QueryStart]
  <2>1. 1 \in 1 .. Len(names)
    BY ONLY <1>3
  <2>2. Len(reads) + Len(names) <= Len(proof) => Received(names)[1] = proof[Len(reads) + 1]
    BY <1>3, <2>1, ReceivedMessages DEF IInv
  <2>3. QED
    BY <1>5, <2>2
<1>10. ASSUME fault = "none" PROVE ok
  <2>1. Len(proof) = Total /\ proof[QueryStart] = Message(nonce, OfAt(QueryStart))
    BY <1>2, <1>6, <1>7, <1>10, HonestProof
  <2>2. Len(reads) + Len(names) <= Len(proof)
    BY ONLY <1>3, <1>5, <1>6, <2>1
  <2>3. OfAt(QueryStart) = Transcript("prover", LastCommitment)
    <3>1. LastCommitment < QueryStart /\ QueryStart <= QueryStart /\ QueryStart \in Nat
      BY ONLY <1>5, <1>6
    <3>2. QED
      BY <1>0, <3>1, NonceAnswers
  <2>4. Transcript("prover", LastCommitment) = Transcript("verifier", LastCommitment)
    <3>1. LastCommitment \in Nat /\ LastCommitment <= Total
      BY <1>0, PlacesInOrder, Zenon
    <3>2. QED
      BY <1>2, <1>10, <3>1, SidesAgree
  <2>5. QED
    BY <1>8, <1>9, <2>1, <2>2, <2>3, <2>4
<1>11. ASSUME ok, NEW i \in CheckedBy(function, layer') \ CheckedBy(pc[2], layer),
              Len(reads) + Len(names) <= Len(proof)
       PROVE  Good(i)
  <2>1. i = QueryStart /\ proof[QueryStart] = Message(nonce, PrevState)
    BY <1>4, <1>9, <1>11
  <2>2. proof[QueryStart].name = nonce /\ proof[QueryStart].altered = FALSE
    BY <2>1, MessageBytes
  <2>3. QED
    BY <1>7, <2>1, <2>2 DEF Good
<1>12. ok \in BOOLEAN /\ reason \in Rejections
  BY DEF Rejections
<1> HIDE DEF ok, reason
<1>13. Justified(names, ok, reason, function)
  BY <1>5, <1>10, <1>11, <1>12 DEF Justified
<1>14. QED
  BY <1>2, <1>4, <1>13, ReadScript

LEMMA VerifyTracesStep ==
  ASSUME IInv, VerifyTraces
  PROVE  IInv'
<1> DEFINE names == [i \in DOMAIN Traces |-> <<"trace", Traces[i]>>]
           kept == \A i \in DOMAIN Traces : Kept(Root(Traces[i]))
           ok == Opened(names) /\ kept
           reason == "trace decommitment"
<1>0. Placed
  BY DEF IInv
<1>1. PICK function : function = "open layers"
  OBVIOUS
<1>2. Side = "verifier" /\ AtOpenTraces /\ ReceiveBytes(names, ok, reason, function)
  BY <1>1 DEF VerifyTraces, At, AtOpenTraces
<1>3. names = [i \in DOMAIN Traces |-> <<"trace", Traces[i]>>]
  OBVIOUS
<1> HIDE DEF names
<1>4. /\ Follows(names, function) /\ Len(names) = NumTraces /\ Count(pc[2], layer) = QueryStart
      /\ \A i \in CheckedBy(function, layer') \ CheckedBy(pc[2], layer) :
           i <= NumTraces \/ (QueryStart < i /\ i <= LastTrace)
      /\ pc[2] \in AfterOods
  BY <1>1, <1>2, <1>3, TracesFollow
<1>5. Len(reads) = QueryStart /\ Len(reads) \in Nat /\ fault # "statement" /\ pc[2] \in QueryPhase
  BY <1>2, <1>4, ReadsSoFar DEF AtOpenTraces, QueryPhase
<1>6. /\ QueryStart \in Nat /\ NumTraces \in 2 .. 3 /\ LastTrace = QueryStart + NumTraces
      /\ LastTrace <= Total /\ Total \in Nat /\ LastCommitment <= QueryStart /\ LastCommitment \in Nat
      /\ LastOods \in Nat /\ LastOods < LastCommitment /\ LastMask <= LastOods
      /\ LastMask = NumTraces + mask_size /\ mask_size \in Nat
  BY <1>0, PlacesInOrder, Zenon
<1>7. names \in Seq(ToSet(names)) /\ \A i \in 1 .. Len(names) : names[i] = NameAt(Len(reads) + i)
  BY <1>4, <1>5 DEF Follows
<1>8. DOMAIN Traces = 1 .. NumTraces
  <2>1. 1 \in 1 .. NumTraces
    BY ONLY <1>6
  <2>2. QED
    BY <1>0, <2>1, TraceNames
<1>9. ASSUME NEW i \in 1 .. NumTraces PROVE i \in 1 .. Total /\ NameAt(i) = Root(Traces[i])
  <2>1. i \in 1 .. Total /\ (i = 1 \/ (i = 2 /\ NumTraces = 3) \/ i = NumTraces) /\ 1 # NumTraces
    BY ONLY <1>6, <1>9
  <2>2. Traces[i] = (IF i = NumTraces THEN 3 ELSE i) /\ (Interactive <=> NumTraces = 3)
    BY <1>0, TraceNames, Positions
  <2>3. /\ i = 1 => NameAt(i) = Root(1)
        /\ i = 2 /\ Interactive => NameAt(i) = Root(2)
        /\ i = NumTraces => NameAt(i) = Root(3)
    BY <1>0, <2>1, ScriptNames, Zenon
  <2>4. QED
    BY <2>1, <2>2, <2>3
<1>10. ASSUME fault = "none" PROVE ok
  <2>1. \A i \in 1 .. Total : i <= Len(reads) => Kept(NameAt(i))
    BY <1>2, <1>10, HonestProof
  <2>2. \A i \in 1 .. NumTraces : i <= Len(reads)
    BY ONLY <1>5, <1>6
  <2>3. kept
    BY <1>8, <1>9, <2>1, <2>2
  <2>4. Len(reads) + Len(names) <= Total /\ QueryStart <= Len(reads)
    BY ONLY <1>4, <1>5, <1>6
  <2>5. Opened(names)
    BY <1>2, <1>5, <1>7, <1>10, <2>4, HonestOpened
  <2>6. QED
    BY <2>3, <2>5
<1>11. ASSUME ok, NEW i \in CheckedBy(function, layer') \ CheckedBy(pc[2], layer),
              Len(reads) + Len(names) <= Len(proof)
       PROVE  Good(i)
  <2>1. i \in 1 .. Total /\ (i <= NumTraces \/ (QueryStart < i /\ i <= LastTrace))
    BY <1>4 DEF CheckedBy
  <2>2. CASE i <= NumTraces
    <3>1. i \in 1 .. NumTraces
      BY ONLY <1>6, <2>1, <2>2
    <3>2. Kept(NameAt(i))
      BY <1>8, <1>9, <1>11, <3>1
    <3>3. QED
      BY <2>1, <3>2, KeptIsGood
  <2>3. CASE QueryStart < i /\ i <= LastTrace
    <3>1. i - QueryStart \in 1 .. Len(names) /\ Len(reads) + (i - QueryStart) = i
      BY ONLY <1>4, <1>5, <1>6, <2>1, <2>3
    <3>2. Opened(names)
      BY <1>11
    <3>3. \A j \in 1 .. Len(names) : Good(Len(reads) + j)
      BY <1>7, <1>11, <3>2, GenuineNames
    <3>4. Good(Len(reads) + (i - QueryStart))
      BY <3>1, <3>3
    <3>5. QED
      BY <3>1, <3>4
  <2>4. QED
    BY <2>1, <2>2, <2>3
<1>12. ok \in BOOLEAN /\ reason \in Rejections
  BY DEF Rejections
<1> HIDE DEF ok, reason
<1>13. Justified(names, ok, reason, function)
  BY <1>5, <1>10, <1>11, <1>12 DEF Justified
<1>14. QED
  BY <1>2, <1>4, <1>13, ReadScript

\* With nothing altered, the folds of the two sides are the same.
LEMMA HonestFolds ==
  ASSUME IInv, fault = "none", Side = "verifier", pc[2] \in QueryPhase, NEW k \in 1 .. n_layers
  PROVE  SameFolds(k)
<1>0. Placed /\ Challenged
  BY DEF IInv
<1>1. SameChallenges(DOMAIN drawn["verifier"])
  BY SidesAgree
<1>2. n_layers \in Nat /\ Live
  BY <1>0, PlacesInOrder DEF Placed, At, Live, QueryPhase
<1>3. Stage(pc[2], layer) = 11 + 2 * n_layers
  BY LaterCounts, Zenon DEF QueryPhase
<1>4. Challenges \subseteq DOMAIN drawn["verifier"]
  <2>1. ASSUME NEW c \in Challenges PROVE Round(c) < Stage(pc[2], layer)
    <3>1. Round(c) \in 2 .. 10 + 2 * n_layers
      BY <1>0, ChallengePlaces
    <3>2. QED
      BY ONLY <1>2, <1>3, <3>1
  <2>2. QED
    BY <1>0, <1>2, <2>1 DEF Challenged
<1>5. <<"oods", 1>> \in Challenges
  BY DEF Challenges
<1>6. ASSUME NEW i \in 1 .. k, NEW c \in ToSet(PointNames(i)) PROVE c \in Challenges
  <2>1. ToSet(<<>>) = {}
    BY EmptySequence DEF ToSet
  <2>2. ~(i = 1 /\ fri_step_list[1] = 0) /\ c = <<"fri", i>>
    <3>1. CASE i = 1 /\ fri_step_list[1] = 0
      BY <2>1, <3>1 DEF PointNames
    <3>2. CASE ~(i = 1 /\ fri_step_list[1] = 0)
      BY <3>2, OneName DEF PointNames
    <3>3. QED
      BY <3>1, <3>2
  <2>3. i \in 1 .. n_layers
    BY ONLY <1>2, <1>6
  <2>4. i # 1 => i \in 2 .. n_layers
    BY <1>2, <2>3, LastOf
  <2>5. i \in Folded
    BY <2>2, <2>3, <2>4 DEF Folded
  <2>6. QED
    BY <2>2, <2>5 DEF Challenges
<1>7. QED
  BY <1>1, <1>4, <1>5, <1>6 DEF SameFolds, SameChallenges

LEMMA VerifyLayerStep ==
  ASSUME IInv, VerifyLayer
  PROVE  IInv'
<1> DEFINE names == <<<<"layer", layer>>>>
           root == <<"fri root", layer>>
           ok == Opened(names) /\ Kept(root) /\ SameFolds(layer)
           reason == "layer decommitment"
<1>0. Placed
  BY DEF IInv
<1>1. PICK function : function = "open layers"
  OBVIOUS
<1>2. Side = "verifier" /\ AtOpenLayers /\ ReceiveBytes(names, ok, reason, function)
  BY <1>1 DEF VerifyLayer, At, AtOpenLayers
<1>3. Len(names) = 1
  BY OneName
<1>4. /\ Follows(names, function) /\ Count(pc[2], layer) + 1 = LastTrace + layer
      /\ \A i \in CheckedBy(function, layer') \ CheckedBy(pc[2], layer) :
           i = LastOods + layer \/ i = LastTrace + layer
      /\ pc[2] \in AfterOods
  BY <1>1, <1>2, LayerFollows
<1> HIDE DEF names
<1>5. /\ Len(reads) = Count(pc[2], layer) /\ Len(reads) \in Nat /\ fault # "statement"
      /\ pc[2] \in QueryPhase /\ layer < n_layers
  BY <1>2, <1>4, ReadsSoFar DEF AtOpenLayers, QueryPhase
<1>6. /\ QueryStart \in Nat /\ NumTraces \in 2 .. 3 /\ LastTrace = QueryStart + NumTraces
      /\ Total = LastTrace + n_layers - 1 /\ Total \in Nat /\ LastCommitment <= QueryStart
      /\ LastOods \in Nat /\ LastCommitment = LastOods + n_layers /\ n_layers \in Nat
      /\ LastCommitment \in Nat /\ layer \in 1 .. n_layers
  BY <1>0, PlacesInOrder, Zenon
<1>7. names \in Seq(ToSet(names)) /\ \A i \in 1 .. Len(names) : names[i] = NameAt(Len(reads) + i)
  BY <1>4, <1>5 DEF Follows
<1>8. LastOods + layer \in 1 .. Total /\ LastOods + layer <= Len(reads)
      /\ NameAt(LastOods + layer) = root
  <2>1. /\ LastOods + layer \in 1 .. Total /\ LastOods < LastOods + layer
        /\ LastOods + layer < LastCommitment /\ (LastOods + layer) - LastOods = layer
        /\ LastOods + layer <= Len(reads)
    BY ONLY <1>4, <1>5, <1>6
  <2>2. NameAt(LastOods + layer) = <<"fri root", (LastOods + layer) - LastOods>>
    BY <1>0, <2>1, ScriptNames, Zenon
  <2>3. QED
    BY <2>1, <2>2
<1>9. ASSUME fault = "none" PROVE ok
  <2>1. Kept(root)
    BY <1>2, <1>8, <1>9, HonestProof
  <2>2. Len(reads) + Len(names) <= Total /\ QueryStart <= Len(reads)
    BY ONLY <1>3, <1>4, <1>5, <1>6
  <2>3. Opened(names)
    BY <1>2, <1>5, <1>7, <1>9, <2>2, HonestOpened
  <2>4. SameFolds(layer)
    BY <1>2, <1>5, <1>6, <1>9, HonestFolds
  <2>5. QED
    BY <2>1, <2>3, <2>4
<1>10. ASSUME ok, NEW i \in CheckedBy(function, layer') \ CheckedBy(pc[2], layer),
              Len(reads) + Len(names) <= Len(proof)
       PROVE  Good(i)
  <2>1. i = LastOods + layer \/ i = LastTrace + layer
    BY <1>4
  <2>2. CASE i = LastOods + layer
    <3>1. Kept(root)
      BY <1>10
    <3>2. QED
      BY <1>8, <2>2, <3>1, KeptIsGood
  <2>3. CASE i = LastTrace + layer
    <3>1. Opened(names)
      BY <1>10
    <3>2. 1 \in 1 .. Len(names) /\ Len(reads) + 1 = i
      BY ONLY <1>3, <1>4, <1>5, <2>3
    <3>3. \A j \in 1 .. Len(names) : Good(Len(reads) + j)
      BY <1>7, <1>10, <3>1, GenuineNames
    <3>4. QED
      BY <3>2, <3>3
  <2>4. QED
    BY <2>1, <2>2, <2>3
<1>11. ok \in BOOLEAN /\ reason \in Rejections
  BY DEF Rejections
<1> HIDE DEF ok, reason
<1>12. Justified(names, ok, reason, function)
  BY <1>5, <1>9, <1>10, <1>11 DEF Justified
<1>13. QED
  BY <1>2, <1>4, <1>12, ReadScript

-----------------------------------------------------------------------------
\* The steps that neither draw, send nor read.

LEMMA NoProofOfWorkStep ==
  ASSUME IInv, NoProofOfWork
  PROVE  IInv'
<1> USE DEF Side, At
<1>0. Placed /\ Formed /\ VerifierWaits /\ Scripted /\ Faulted /\ Challenged /\ Seeded /\ Checked
      /\ Stopped
  BY DEF IInv
<1>1. PICK function, before : /\ function = "queries" /\ before = "pow" /\ pc[2] = before
                              /\ pc' = <<Side, function>> /\ verdict' = verdict
  BY DEF NoProofOfWork, Go
<1>2. /\ UNCHANGED <<parameters, layer, prng, in_query_phase_, drawn, proof, reads, fault>>
      /\ UNCHANGED <<layer, prng, in_query_phase_, drawn, proof, reads, fault>>
      /\ UNCHANGED parameters /\ UNCHANGED <<parameters, proof, fault>>
      /\ UNCHANGED <<fri_step_list, n_interaction_elements, proof_of_work_bits>>
  BY DEF NoProofOfWork, parameters
<1>3. Side \in Sides /\ Side' = Side /\ pc'[2] = function /\ Live /\ Live'
  BY <1>0, <1>1 DEF Placed, Live
<1>4. /\ n_layers \in Nat /\ LastCommitment \in Nat /\ QueryStart = LastCommitment /\ Total \in Nat
  <2>1. QueryStart = LastCommitment + 0
    BY DEF QueryStart, NoProofOfWork
  <2>2. n_layers \in Nat /\ LastCommitment \in Nat /\ Total \in Nat
    BY <1>0, PlacesInOrder, Zenon
  <2>3. QED
    BY ONLY <2>1, <2>2
<1>5. /\ Count(before, layer) = LastCommitment /\ Stage(before, layer) = 9 + 2 * n_layers
      /\ Count(function, layer') = QueryStart /\ Stage(function, layer') = 10 + 2 * n_layers
  BY <1>1, LaterCounts, Zenon
<1>6. CheckedBy(function, layer') = CheckedBy(before, layer) /\ before \in AfterOods
  <2>1. /\ function \in AfterOods /\ before \in AfterOods
        /\ function \in AfterPow /\ before \notin AfterPow
        /\ function \notin {"open layers", "done"} /\ before \notin {"open layers", "done"}
    BY <1>1 DEF AfterOods, AfterPow
  <2>2. \A i \in 1 .. Total : ~(LastCommitment < i /\ i <= QueryStart)
    BY ONLY <1>4
  <2>3. QED
    BY <2>1, <2>2 DEF CheckedBy
<1>7. /\ Count(pc[2], layer)' = Count(before, layer)
      /\ Stage(pc[2], layer)' = Stage(function, layer')
      /\ CheckedBy(pc[2], layer)' = CheckedBy(before, layer)
      /\ Total' = Total /\ n_layers' = n_layers /\ Challenges' = Challenges
      /\ Interactive' = Interactive
      /\ \A i : NameAt(i)' = NameAt(i) /\ OfAt(i)' = OfAt(i)
      /\ \A c : Round(c)' = Round(c)
  <2>1. /\ Count(pc[2], layer)' = Count(pc'[2], layer')
        /\ Stage(pc[2], layer)' = Stage(pc'[2], layer')
        /\ CheckedBy(pc[2], layer)' = CheckedBy(pc'[2], layer')
        /\ Total' = Total /\ n_layers' = n_layers /\ Challenges' = Challenges
        /\ Interactive' = Interactive
        /\ \A i : NameAt(i)' = NameAt(i) /\ OfAt(i)' = OfAt(i)
        /\ \A c : Round(c)' = Round(c)
    BY <1>2, ParametersKept, Zenon
  <2>2. /\ Count(pc'[2], layer') = Count(function, layer')
        /\ Stage(pc'[2], layer') = Stage(function, layer')
        /\ CheckedBy(pc'[2], layer') = CheckedBy(function, layer')
    BY <1>3, Zenon
  <2>3. QED
    BY <1>4, <1>5, <1>6, <2>1, <2>2, Zenon
<1>8. /\ \A side, n : Transcript(side, n)' = Transcript(side, n)
      /\ \A side, c : Challenge(side, c)' = Challenge(side, c)
      /\ \A i : Good(i)' = Good(i)
  BY <1>2, MessagesKept
<1>9. Placed'
  <2>1. pc' \in Sides \X Functions
    BY <1>1, <1>3 DEF Functions
  <2>2. QED
    BY <1>0, <1>1, <1>2, <1>3, <1>7, <2>1 DEF Placed
<1>10. Formed'
  BY <1>0, <1>2 DEF Formed
<1>11. VerifierWaits'
  BY <1>0, <1>2, <1>3 DEF VerifierWaits
<1>12. Scripted'
  <2>1. Sent' = Count(pc[2], layer)'
    BY <1>0, <1>1, <1>2, <1>3, <1>7 DEF Scripted, Sent
  <2>2. QED
    BY <1>0, <1>2, <1>3, <1>7, <2>1 DEF Scripted
<1>13. Faulted'
  BY <1>0, <1>2, <1>7 DEF Faulted
<1>14. Challenged'
  <2>1. ASSUME NEW c \in Challenges
        PROVE  Round(c) < Stage(function, layer') <=> Round(c) < Stage(before, layer)
    <3>1. /\ Round(c) \in Int
          /\ \/ Round(c) \in {2, 4, 6, 8} \/ Round(c) = 10 + 2 * n_layers
             \/ c[2] \in 1 .. n_layers /\ Round(c) = 7 + 2 * c[2]
      BY <1>0, ChallengeRounds
    <3>2. QED
      BY ONLY <1>4, <1>5, <3>1
  <2>2. DOMAIN drawn[Side] = {c \in Challenges : Round(c) < Stage(before, layer)}
    BY <1>0, <1>1, <1>3 DEF Challenged
  <2>3. DOMAIN drawn'[Side'] = {c \in Challenges : Round(c) < Stage(pc[2], layer)}'
    BY <1>2, <1>3, <1>7, <2>1, <2>2
  <2>4. QED
    BY <1>0, <1>2, <1>3, <1>7, <1>8, <2>3 DEF Challenged
<1>15. Seeded'
  <2>1. /\ prng[Side].mixed = Transcript(Side, LastCommitment) /\ prng[Side].counter = 0
        /\ ~in_query_phase_[Side] /\ function \notin QueryPhase /\ function # "fri point"
    BY <1>0, <1>1, <1>5 DEF Seeded, QueryPhase, Drawing
  <2>2. (prng[Side])' = prng[Side] /\ (in_query_phase_[Side])' = in_query_phase_[Side]
        /\ Transcript(Side, Count(pc[2], layer))' = Transcript(Side, LastCommitment)
    BY <1>2, <1>3, <1>5, <1>7, <1>8
  <2>3. QED
    BY <1>3, <2>1, <2>2 DEF Seeded
<1>16. Checked'
  BY <1>0, <1>1, <1>2, <1>3, <1>6, <1>7, <1>8 DEF Checked
<1>17. Stopped'
  <2>1. pc'[2] # "done" /\ verdict = "none"
    BY <1>0, <1>1, <1>3 DEF Placed
  <2>2. QED
    BY <1>0, <1>1, <1>2, <1>3, <2>1 DEF Stopped
<1>18. QED
  BY <1>9, <1>10, <1>11, <1>12, <1>13, <1>14, <1>15, <1>16, <1>17 DEF IInv

LEMMA BeginQueryPhaseStep ==
  ASSUME IInv, BeginQueryPhase
  PROVE  IInv'
<1> USE DEF Side, At
<1>0. Placed /\ Formed /\ VerifierWaits /\ Scripted /\ Faulted /\ Challenged /\ Checked /\ Stopped
  BY DEF IInv
<1>1. PICK function, before : /\ function = "open traces" /\ before = "begin" /\ pc[2] = before
                              /\ pc' = <<Side, function>> /\ verdict' = verdict
  BY DEF BeginQueryPhase, Go
<1>2. /\ in_query_phase_' = [in_query_phase_ EXCEPT ![Side] = TRUE] /\ layer' = 1
      /\ UNCHANGED <<parameters, prng, drawn, proof, reads, fault>>
      /\ UNCHANGED parameters /\ UNCHANGED <<parameters, proof, fault>>
      /\ UNCHANGED <<fri_step_list, n_interaction_elements, proof_of_work_bits>>
  BY DEF BeginQueryPhase, parameters
<1>3. Side \in Sides /\ Side' = Side /\ pc'[2] = function /\ Live /\ Live'
  BY <1>0, <1>1 DEF Placed, Live
<1>4. /\ Count(before, layer) = QueryStart /\ Stage(before, layer) = 11 + 2 * n_layers
      /\ Count(function, layer') = QueryStart /\ Stage(function, layer') = 11 + 2 * n_layers
  BY <1>1, LaterCounts, Zenon
<1>5. CheckedBy(function, layer') = CheckedBy(before, layer) /\ before \in AfterOods
  <2>1. /\ function \in AfterOods /\ before \in AfterOods
        /\ function \in AfterPow /\ before \in AfterPow
        /\ function \notin {"open layers", "done"} /\ before \notin {"open layers", "done"}
    BY <1>1 DEF AfterOods, AfterPow
  <2>2. QED
    BY <2>1 DEF CheckedBy
<1>6. /\ Count(pc[2], layer)' = Count(before, layer) /\ Stage(pc[2], layer)' = Stage(before, layer)
      /\ CheckedBy(pc[2], layer)' = CheckedBy(before, layer)
      /\ Total' = Total /\ n_layers' = n_layers /\ Challenges' = Challenges
      /\ Interactive' = Interactive
      /\ \A i : NameAt(i)' = NameAt(i) /\ OfAt(i)' = OfAt(i)
      /\ \A c : Round(c)' = Round(c)
  <2>1. /\ Count(pc[2], layer)' = Count(pc'[2], layer')
        /\ Stage(pc[2], layer)' = Stage(pc'[2], layer')
        /\ CheckedBy(pc[2], layer)' = CheckedBy(pc'[2], layer')
        /\ Total' = Total /\ n_layers' = n_layers /\ Challenges' = Challenges
        /\ Interactive' = Interactive
        /\ \A i : NameAt(i)' = NameAt(i) /\ OfAt(i)' = OfAt(i)
        /\ \A c : Round(c)' = Round(c)
    BY <1>2, ParametersKept, Zenon
  <2>2. /\ Count(pc'[2], layer') = Count(function, layer')
        /\ Stage(pc'[2], layer') = Stage(function, layer')
        /\ CheckedBy(pc'[2], layer') = CheckedBy(function, layer')
    BY <1>3, Zenon
  <2>3. QED
    BY <1>4, <1>5, <2>1, <2>2, Zenon
<1>7. /\ \A side, c : Challenge(side, c)' = Challenge(side, c)
      /\ \A i : Good(i)' = Good(i)
  BY <1>2, MessagesKept
<1>8. Placed'
  <2>1. pc' \in Sides \X Functions
    BY <1>1, <1>3 DEF Functions
  <2>2. layer' \in 1 .. n_layers
    <3>1. n_layers \in Nat /\ n_layers >= 1 /\ layer' = 1
      BY <1>0, <1>2, PlacesInOrder, Zenon
    <3>2. QED
      BY ONLY <3>1
  <2>3. QED
    BY <1>0, <1>1, <1>2, <1>3, <1>6, <2>1, <2>2 DEF Placed
<1>9. Formed' /\ VerifierWaits'
  <2>1. /\ in_query_phase_' \in [Sides -> BOOLEAN]
        /\ Side = "prover" => in_query_phase_'["verifier"] = in_query_phase_["verifier"]
    BY <1>0, <1>2, <1>3 DEF Formed, Sides
  <2>2. Formed'
    BY <1>0, <1>2, <2>1 DEF Formed
  <2>3. VerifierWaits'
    BY <1>0, <1>2, <1>3, <2>1 DEF VerifierWaits
  <2>4. QED
    BY <2>2, <2>3
<1>10. Scripted'
  BY <1>0, <1>1, <1>2, <1>3, <1>6 DEF Scripted, Sent
<1>11. Faulted'
  BY <1>0, <1>2, <1>6 DEF Faulted
<1>12. Challenged'
  <2>1. DOMAIN drawn[Side] = {c \in Challenges : Round(c) < Stage(before, layer)}
    BY <1>0, <1>1, <1>3 DEF Challenged
  <2>2. DOMAIN drawn'[Side'] = {c \in Challenges : Round(c) < Stage(pc[2], layer)}'
    BY <1>2, <1>3, <1>6, <2>1
  <2>3. QED
    BY <1>0, <1>2, <1>3, <1>6, <1>7, <2>2 DEF Challenged
<1>13. Seeded'
  <2>1. (in_query_phase_[Side])' = TRUE /\ function \in QueryPhase /\ function \notin Drawing
    BY <1>0, <1>1, <1>2, <1>3 DEF Formed, QueryPhase, Drawing
  <2>2. QED
    BY <1>3, <2>1 DEF Seeded
<1>14. Checked'
  BY <1>0, <1>1, <1>2, <1>3, <1>5, <1>6, <1>7 DEF Checked
<1>15. Stopped'
  <2>1. pc'[2] # "done" /\ verdict = "none"
    BY <1>0, <1>1, <1>3 DEF Placed
  <2>2. QED
    BY <1>0, <1>1, <1>2, <1>3, <2>1 DEF Stopped
<1>16. QED
  BY <1>8, <1>9, <1>10, <1>11, <1>12, <1>13, <1>14, <1>15 DEF IInv

LEMMA VerifyLastLayerStep ==
  ASSUME IInv, VerifyLastLayer
  PROVE  IInv'
<1> USE DEF Side, At
<1> DEFINE ok == Kept(<<"coefficients", 1>>) /\ SameFolds(n_layers)
<1>0. Placed /\ Formed /\ Scripted /\ Faulted /\ Challenged /\ Checked /\ Stopped
  BY DEF IInv
<1>1. PICK before, after : /\ before = "open layers" /\ after = "done" /\ pc[2] = before
                           /\ pc' = <<Side, after>> /\ Side = "verifier" /\ layer = n_layers
                           /\ verdict' = IF ok THEN "accept" ELSE "last layer"
  BY DEF VerifyLastLayer, Stop
<1>2. /\ UNCHANGED <<parameters, in_query_phase_, drawn, proof, fault>>
      /\ UNCHANGED <<layer, prng, in_query_phase_, drawn, proof, reads, fault>>
      /\ UNCHANGED parameters /\ UNCHANGED <<parameters, proof, fault>>
      /\ UNCHANGED <<fri_step_list, n_interaction_elements, proof_of_work_bits>>
  BY DEF VerifyLastLayer, parameters
<1> HIDE DEF ok
<1>3. Side' = "verifier" /\ pc'[2] = after /\ pc' = <<"verifier", "done">> /\ layer' \in 1 .. n_layers
  BY <1>0, <1>1, <1>2 DEF Placed
<1>4. /\ n_layers \in Nat /\ n_layers >= 1 /\ NumTraces \in 2 .. 3 /\ LastOods \in Nat
      /\ LastCommitment \in Nat /\ LastCommitment = LastOods + n_layers
      /\ QueryStart \in Nat /\ LastCommitment <= QueryStart
      /\ LastTrace = QueryStart + NumTraces /\ Total \in Nat /\ Total = LastTrace + n_layers - 1
      /\ LastMask \in Nat /\ LastMask <= LastOods
  BY <1>0, PlacesInOrder, Zenon
<1>5. Len(reads) = Count(before, layer) /\ Len(reads) \in Nat /\ Live
      /\ (before \in AfterOods => fault # "statement")
  BY <1>1, ReadsSoFar
<1>6. Len(reads) = Total /\ Stage(before, layer) = 11 + 2 * n_layers
      /\ Count(after, layer') = Total /\ Stage(after, layer') = 11 + 2 * n_layers
  <2>1. /\ Count(before, layer) = LastTrace + layer - 1 /\ Stage(before, layer) = 11 + 2 * n_layers
        /\ Count(after, layer') = Total /\ Stage(after, layer') = 11 + 2 * n_layers
    BY <1>1, LaterCounts, Zenon
  <2>2. Count(before, layer) = Total
    BY <1>1, <1>4, <2>1
  <2>3. QED
    BY <1>5, <2>1, <2>2
<1>7. LastCommitment \in 1 .. Total /\ NameAt(LastCommitment) = <<"coefficients", 1>>
  <2>1. LastCommitment \in 1 .. Total
    BY ONLY <1>4
  <2>2. QED
    BY <1>0, <2>1, ScriptNames, Zenon
<1>8. fault = "none" => ok
  <2> SUFFICES ASSUME fault = "none" PROVE ok
    OBVIOUS
  <2>1. LastCommitment <= Len(reads)
    BY ONLY <1>4, <1>6
  <2>2. Kept(NameAt(LastCommitment))
    BY <1>1, <1>7, <2>1, HonestProof
  <2>3. n_layers \in 1 .. n_layers
    BY ONLY <1>4
  <2>5. pc[2] \in QueryPhase
    BY <1>1 DEF QueryPhase
  <2>4. SameFolds(n_layers)
    BY <1>1, <2>3, <2>5, HonestFolds
  <2>6. QED
    BY <1>7, <2>2, <2>4 DEF ok
<1>9. CASE ~ok
  <2>1. verdict' \in Rejections /\ fault # "none"
    BY <1>1, <1>8, <1>9 DEF Rejections
  <2>2. /\ reads' \in Seq(ToSet(reads')) /\ Len(reads') <= Len(proof)
        /\ \A i \in 1 .. Len(reads') : i <= Total /\ reads'[i] = NameAt(i)
    BY <1>0, <1>2 DEF Formed, Scripted
  <2>3. /\ DOMAIN prng' = Sides
        /\ \A s \in Sides : prng'[s] = [mixed |-> prng'[s].mixed, counter |-> prng'[s].counter]
    BY <1>0, <1>2 DEF Formed
  <2>4. QED
    BY <1>1, <1>2, <1>3, <2>1, <2>2, <2>3, RejectStep
<1>10. CASE ok
  <2>1. verdict' = "accept" /\ Live'
    BY <1>1, <1>10 DEF Live
  <2>2. \A i \in 1 .. Total : Good(i)
    <3> SUFFICES ASSUME NEW i \in 1 .. Total PROVE Good(i)
      OBVIOUS
    <3>1. CASE i = LastCommitment
      BY <1>7, <1>10, <3>1, KeptIsGood DEF ok
    <3>2. CASE i # LastCommitment
      <4>1. \/ NumTraces < i /\ i <= LastOods
            \/ LastCommitment < i /\ i <= QueryStart
            \/ i <= NumTraces \/ (QueryStart < i /\ i <= LastTrace)
            \/ LastOods < i /\ i < LastOods + layer
            \/ LastTrace < i /\ i < LastTrace + layer
        <5>1. i \in 1 .. Total /\ i # LastCommitment /\ layer = n_layers
          BY <1>1, <3>2
        <5>2. QED
          BY ONLY <1>4, <5>1
      <4>2. before \in AfterOods /\ before \in AfterPow /\ before = "open layers"
        BY <1>1 DEF AfterOods, AfterPow
      <4>3. i \in CheckedBy(before, layer)
        BY <4>1, <4>2 DEF CheckedBy
      <4>4. QED
        BY <1>0, <1>1, <1>5, <4>3 DEF Checked
    <3>3. QED
      BY <3>1, <3>2
  <2>3. /\ Count(pc[2], layer)' = Total /\ Stage(pc[2], layer)' = 11 + 2 * n_layers
        /\ CheckedBy(pc[2], layer)' \subseteq 1 .. Total
        /\ Total' = Total /\ n_layers' = n_layers /\ Challenges' = Challenges
        /\ Interactive' = Interactive
        /\ \A i : NameAt(i)' = NameAt(i) /\ OfAt(i)' = OfAt(i)
        /\ \A c : Round(c)' = Round(c)
    <3>1. /\ Count(pc[2], layer)' = Count(pc'[2], layer')
          /\ Stage(pc[2], layer)' = Stage(pc'[2], layer')
          /\ CheckedBy(pc[2], layer)' = CheckedBy(pc'[2], layer')
          /\ Total' = Total /\ n_layers' = n_layers /\ Challenges' = Challenges
          /\ Interactive' = Interactive
          /\ \A i : NameAt(i)' = NameAt(i) /\ OfAt(i)' = OfAt(i)
          /\ \A c : Round(c)' = Round(c)
      BY <1>2, ParametersKept, Zenon
    <3>2. /\ Count(pc'[2], layer') = Count(after, layer')
          /\ Stage(pc'[2], layer') = Stage(after, layer')
      BY <1>3, Zenon
    <3>3. CheckedBy(pc'[2], layer') \subseteq 1 .. Total
      BY DEF CheckedBy
    <3>4. QED
      BY <1>6, <3>1, <3>2, <3>3, Zenon
  <2>4. /\ \A side, c : Challenge(side, c)' = Challenge(side, c)
        /\ \A i : Good(i)' = Good(i)
    BY <1>2, MessagesKept
  <2>5. Placed'
    <3>1. pc' \in Sides \X Functions /\ verdict' \in Verdicts /\ verdict' # "none"
      BY <1>3, <2>1 DEF Sides, Functions, Verdicts
    <3>2. QED
      BY <1>0, <1>1, <1>2, <1>3, <2>3, <3>1 DEF Placed
  <2>6. Formed' /\ VerifierWaits'
    BY <1>0, <1>2, <1>3 DEF Formed, VerifierWaits
  <2>7. Scripted'
    <3>1. Sent' = Total
      BY <1>2, <1>3, <1>6 DEF Sent
    <3>2. QED
      BY <1>0, <1>1, <1>2, <1>3, <2>3, <3>1 DEF Scripted
  <2>8. Faulted'
    BY <1>0, <1>2, <2>3 DEF Faulted
  <2>9. Challenged'
    <3>1. DOMAIN drawn[Side] = {c \in Challenges : Round(c) < 11 + 2 * n_layers}
      BY <1>0, <1>1, <1>5, <1>6 DEF Challenged
    <3>2. DOMAIN drawn'[Side'] = {c \in Challenges : Round(c) < Stage(pc[2], layer)}'
      BY <1>1, <1>2, <1>3, <2>3, <3>1
    <3>3. QED
      BY <1>0, <1>1, <1>2, <1>3, <2>3, <2>4, <3>2 DEF Challenged
  <2>10. Seeded'
    BY <1>1, <1>3 DEF Seeded, Drawing
  <2>11. Checked'
    <3>1. fault' = fault /\ fault # "statement"
      BY <1>1, <1>2, <1>5 DEF AfterOods, AfterPow
    <3>2. QED
      BY <2>2, <2>3, <2>4, <3>1 DEF Checked
  <2>12. Stopped'
    BY <1>0, <1>1, <1>2, <1>3, <2>1, <2>3 DEF Stopped
  <2>13. QED
    BY <2>5, <2>6, <2>7, <2>8, <2>9, <2>10, <2>11, <2>12 DEF IInv
<1>11. QED
  BY <1>9, <1>10

LEMMA StutteringStep ==
  ASSUME IInv, UNCHANGED vars
  PROVE  IInv'
<1>1. /\ UNCHANGED <<pc, layer, prng, in_query_phase_, drawn, proof, reads, fault, verdict>>
      /\ UNCHANGED parameters /\ UNCHANGED <<parameters, proof, fault>>
      /\ UNCHANGED <<fri_step_list, n_interaction_elements, proof_of_work_bits>>
  BY DEF vars, parameters
<1>2. /\ Count(pc[2], layer)' = Count(pc[2], layer)
      /\ Stage(pc[2], layer)' = Stage(pc[2], layer)
      /\ CheckedBy(pc[2], layer)' = CheckedBy(pc[2], layer)
      /\ Total' = Total /\ n_layers' = n_layers /\ Challenges' = Challenges
      /\ Interactive' = Interactive
      /\ \A i : NameAt(i)' = NameAt(i) /\ OfAt(i)' = OfAt(i)
      /\ \A c : Round(c)' = Round(c)
  <2>1. /\ Count(pc[2], layer)' = Count(pc'[2], layer')
        /\ Stage(pc[2], layer)' = Stage(pc'[2], layer')
        /\ CheckedBy(pc[2], layer)' = CheckedBy(pc'[2], layer')
        /\ Total' = Total /\ n_layers' = n_layers /\ Challenges' = Challenges
        /\ Interactive' = Interactive
        /\ \A i : NameAt(i)' = NameAt(i) /\ OfAt(i)' = OfAt(i)
        /\ \A c : Round(c)' = Round(c)
    BY <1>1, ParametersKept, Zenon
  <2>2. QED
    BY <1>1, <2>1, Zenon
<1>3. /\ \A side, n : Transcript(side, n)' = Transcript(side, n)
      /\ \A side, c : Challenge(side, c)' = Challenge(side, c)
      /\ \A i : Good(i)' = Good(i)
  BY <1>1, MessagesKept
<1> USE <1>1, <1>2, <1>3 DEF Side, At
<1>4. Placed' /\ Formed'
  BY DEF IInv, Placed, Formed
<1>5. VerifierWaits'
  BY DEF IInv, VerifierWaits
<1>6. Scripted' /\ Faulted'
  <2>1. Live' = Live /\ Sent' = Sent
    BY DEF Live, Sent
  <2>2. Scripted /\ Faulted
    BY DEF IInv
  <2>3. QED
    BY <2>1, <2>2 DEF Scripted, Faulted
<1>7. Challenged'
  BY DEF IInv, Challenged, Live
<1>8. Seeded'
  BY DEF IInv, Seeded
<1>9. Checked'
  BY DEF IInv, Checked, Live
<1>10. Stopped'
  BY DEF IInv, Stopped, Live
<1>11. QED
  BY <1>4, <1>5, <1>6, <1>7, <1>8, <1>9, <1>10 DEF IInv

-----------------------------------------------------------------------------
\* The transport.

\* What arrives, against the script.
Arrives ==
  /\ fault' \in {"none", "altered", "cut", "swapped", "longer", "statement"}
  /\ proof' \in Seq(ToSet(proof'))
  /\ fault' \in {"none", "longer", "statement"} =>
       \A i \in 1 .. Len(proof') : i <= Total => proof'[i] = Message(NameAt(i), OfAt(i))
  /\ fault' # "cut" => Len(proof') >= Total
  /\ fault' = "none" => Len(proof') = Total
  /\ fault' = "altered" => \E i \in 1 .. Total : proof'[i].altered
  /\ fault' = "swapped" => \E i \in 1 .. Total : proof'[i].name # NameAt(i)
  /\ fault' = "cut" => Len(proof') < Total

\* The verifier's channel starts from the statement that it is given.
ArrivesFor(another) ==
  /\ fault' = "statement" <=> another
  /\ DOMAIN prng' = Sides /\ prng'["prover"] = prng["prover"]
  /\ prng'["verifier"] = [mixed |-> Seed(another), counter |-> 0]

LEMMA ArrivalStep ==
  ASSUME IInv, Deliver, Arrives, NEW another \in BOOLEAN, ArrivesFor(another)
  PROVE  IInv'
<1> USE DEF Side, At
<1>0. Placed /\ Formed /\ VerifierWaits /\ Scripted /\ Challenged /\ Stopped
  BY DEF IInv
<1>1. PICK function, before :
        /\ function = "root 1" /\ before = "open layers" /\ pc[2] = before
        /\ pc' = <<"verifier", function>> /\ Side = "prover"
  BY DEF Deliver
<1>2. /\ UNCHANGED <<parameters, in_query_phase_, drawn, reads, verdict>>
      /\ layer' = 1 /\ UNCHANGED parameters
      /\ UNCHANGED <<fri_step_list, n_interaction_elements, proof_of_work_bits>>
  BY DEF Deliver, parameters
<1>3. Side' = "verifier" /\ pc'[2] = function /\ verdict = "none" /\ Live /\ Live'
  BY <1>0, <1>1, <1>2 DEF Placed, Live
<1>4. n_layers \in Nat /\ n_layers >= 1 /\ Total \in Nat
  BY <1>0, PlacesInOrder, Zenon
<1>5. /\ Count(function, layer') = 0 /\ Stage(function, layer') = 1
      /\ Stage(before, layer) = 11 + 2 * n_layers
  <2>1. Count(function, layer') = 0 /\ Stage(function, layer') = 1
    BY <1>1, RootCounts, Zenon
  <2>2. Stage(before, layer) = 11 + 2 * n_layers
    BY <1>1, LaterCounts, Zenon
  <2>3. QED
    BY <2>1, <2>2
<1>6. CheckedBy(function, layer') = {} /\ function \notin AfterOods
  BY <1>1 DEF CheckedBy, AfterOods, AfterPow
<1>7. /\ Count(pc[2], layer)' = 0 /\ Stage(pc[2], layer)' = 1
      /\ CheckedBy(pc[2], layer)' = {}
      /\ Total' = Total /\ n_layers' = n_layers /\ Challenges' = Challenges
      /\ Interactive' = Interactive
      /\ \A i : NameAt(i)' = NameAt(i) /\ OfAt(i)' = OfAt(i)
      /\ \A c : Round(c)' = Round(c) /\ Challenge("prover", c)' = Challenge("prover", c)
  <2>1. /\ Count(pc[2], layer)' = Count(pc'[2], layer')
        /\ Stage(pc[2], layer)' = Stage(pc'[2], layer')
        /\ CheckedBy(pc[2], layer)' = CheckedBy(pc'[2], layer')
        /\ Total' = Total /\ n_layers' = n_layers /\ Challenges' = Challenges
        /\ Interactive' = Interactive
        /\ \A i : NameAt(i)' = NameAt(i) /\ OfAt(i)' = OfAt(i)
        /\ \A c : Round(c)' = Round(c) /\ Challenge("prover", c)' = Challenge("prover", c)
    BY <1>2, ParametersKept, Zenon
  <2>2. /\ Count(pc'[2], layer') = Count(function, layer')
        /\ Stage(pc'[2], layer') = Stage(function, layer')
        /\ CheckedBy(pc'[2], layer') = CheckedBy(function, layer')
    BY <1>3, Zenon
  <2>3. QED
    BY <1>5, <1>6, <2>1, <2>2, Zenon
<1>8. reads = <<>> /\ Len(reads) = 0 /\ reads \in Seq(ToSet(reads)) /\ DOMAIN drawn["verifier"] = {}
      /\ ~in_query_phase_["verifier"]
  BY <1>0, <1>1, EmptySequence DEF VerifierWaits
<1>9. Len(proof') \in Nat
  BY OwnElements DEF Arrives
<1>10. Placed'
  <2>1. pc' \in Sides \X Functions
    BY <1>1 DEF Sides, Functions
  <2>2. layer' \in 1 .. n_layers
    BY <1>2, <1>4
  <2>3. QED
    BY <1>0, <1>1, <1>2, <1>3, <1>7, <2>1, <2>2 DEF Placed, Arrives
<1>11. Formed'
  <2>1. ASSUME NEW s \in Sides
        PROVE  prng'[s] = [mixed |-> prng'[s].mixed, counter |-> prng'[s].counter]
    <3>1. CASE s = "prover"
      BY <1>0, <3>1 DEF Formed, ArrivesFor, Sides
    <3>2. CASE s = "verifier"
      <4>1. prng'[s] = [mixed |-> Seed(another), counter |-> 0]
        BY <3>2 DEF ArrivesFor
      <4>2. QED
        BY ONLY <4>1
    <3>3. QED
      BY <3>1, <3>2 DEF Sides
  <2>2. \A s \in Sides : drawn'[s] = [c \in DOMAIN drawn'[s] |-> drawn'[s][c]]
    BY <1>0, <1>2 DEF Formed
  <2>3. Len(reads') <= Len(proof') /\ reads' \in Seq(ToSet(reads'))
    BY <1>2, <1>8, <1>9
  <2>4. QED
    BY <1>0, <1>2, <2>1, <2>2, <2>3 DEF Formed, Arrives, ArrivesFor
<1>12. VerifierWaits'
  BY <1>3 DEF VerifierWaits
<1>13. Scripted'
  <2>1. Sent' = 0
    BY <1>2, <1>3, <1>8 DEF Sent
  <2>2. Len(reads') = 0 /\ \A i \in 1 .. 0 : FALSE
    BY <1>2, <1>8
  <2>3. QED
    BY <1>3, <1>7, <2>1, <2>2 DEF Scripted, Arrives
<1>14. Faulted'
  BY <1>7 DEF Faulted, Arrives
<1>15. Challenged'
  <2>1. ASSUME NEW s \in Sides, NEW c \in DOMAIN drawn'[s]
        PROVE  c \in Challenges /\ drawn'[s][c] = Challenge(s, c)'
    <3>1. s = "prover" /\ drawn' = drawn
      BY <1>2, <1>8 DEF Sides
    <3>2. c \in Challenges /\ drawn[s][c] = Challenge(s, c)
      BY <1>0, <3>1 DEF Challenged
    <3>3. QED
      BY <1>7, <3>1, <3>2
  <2>2. DOMAIN drawn'[Side'] = {c \in Challenges : Round(c) < Stage(pc[2], layer)}'
    <3>1. ASSUME NEW c \in Challenges PROVE ~(Round(c) < 1)
      <4>1. Round(c) \in 2 .. 10 + 2 * n_layers
        BY <1>0, ChallengePlaces
      <4>2. QED
        BY <1>4, <4>1
    <3>2. {c \in Challenges : Round(c) < 1} = {}
      BY <3>1
    <3>3. QED
      BY <1>2, <1>3, <1>7, <1>8, <3>2
  <2>3. DOMAIN drawn'["prover"] = Challenges
    <3>1. DOMAIN drawn["prover"] = {c \in Challenges : Round(c) < 11 + 2 * n_layers}
      BY <1>0, <1>1, <1>3, <1>5 DEF Challenged
    <3>2. ASSUME NEW c \in Challenges PROVE Round(c) < 11 + 2 * n_layers
      <4>1. Round(c) \in 2 .. 10 + 2 * n_layers
        BY <1>0, ChallengePlaces
      <4>2. QED
        BY <1>4, <4>1
    <3>3. QED
      BY <1>2, <3>1, <3>2
  <2>4. QED
    BY <1>7, <2>1, <2>2, <2>3 DEF Challenged
<1>16. Seeded'
  <2>1. Transcript("verifier", 0)' = Seed(another)
    <3>1. DOMAIN Seed(another) = 1 .. 1 /\ Seed(another) = [i \in 1 .. 1 |-> Seed(another)[i]]
      BY DEF Seed
    <3>2. SeedOf("verifier")' = Seed(another)[1]
      BY DEF SeedOf, Seed, ArrivesFor
    <3>3. Transcript("verifier", 0)' = [i \in 1 .. 1 |-> Seed(another)[1]]
      BY <3>2 DEF Transcript
    <3>4. QED
      BY <3>1, <3>3
  <2>2. prng'["verifier"].mixed = Seed(another)
    BY DEF ArrivesFor
  <2>3. ~in_query_phase_'["verifier"] /\ function \notin QueryPhase /\ function \notin Drawing
    BY <1>1, <1>2, <1>8 DEF QueryPhase, Drawing
  <2>4. Transcript(Side, Count(pc[2], layer))' = Transcript("verifier", 0)'
    BY <1>3, <1>7
  <2>5. QED
    BY <1>3, <2>1, <2>2, <2>3, <2>4 DEF Seeded
<1>17. Checked'
  BY <1>3, <1>6, <1>7 DEF Checked
<1>18. Stopped'
  BY <1>2, <1>3 DEF Stopped
<1>19. QED
  BY <1>10, <1>11, <1>12, <1>13, <1>14, <1>15, <1>16, <1>17, <1>18 DEF IInv

\* At its end the prover has sent the whole script.
LEMMA WholeProof ==
  ASSUME IInv, Deliver
  PROVE  /\ Len(proof) = Total /\ Total \in Nat /\ Total >= 1 /\ DOMAIN proof = 1 .. Total
         /\ proof \in Seq(ToSet(proof)) /\ proof = [i \in 1 .. Total |-> proof[i]]
         /\ \A i \in 1 .. Total : proof[i] = Message(NameAt(i), OfAt(i))
         /\ prng["verifier"] = [mixed |-> Seed(FALSE), counter |-> 0] /\ DOMAIN prng = Sides
<1>0. Placed /\ Formed /\ VerifierWaits /\ Scripted
  BY DEF IInv
<1>1. Side = "prover" /\ pc[2] = "open layers" /\ layer = n_layers
  BY DEF Deliver, At
<1>2. /\ n_layers \in Nat /\ n_layers >= 1 /\ Total \in Nat /\ Total = LastTrace + n_layers - 1
      /\ LastTrace = QueryStart + NumTraces /\ QueryStart \in Nat /\ NumTraces \in 2 .. 3
  BY <1>0, PlacesInOrder, Zenon
<1>3. Len(proof) = Total
  <2>1. Live
    BY <1>0, <1>1 DEF Placed, Live, At
  <2>2. Len(proof) = Count(pc[2], layer)
    BY <1>0, <1>1, <2>1 DEF Scripted, Sent
  <2>3. Count("open layers", layer) = LastTrace + layer - 1
    BY LaterCounts, Zenon
  <2>4. QED
    BY <1>1, <1>2, <2>2, <2>3
<1>4. proof \in Seq(ToSet(proof)) /\ DOMAIN proof = 1 .. Total
  BY <1>0, <1>3, OwnElements DEF Formed
<1>5. proof = [i \in 1 .. Total |-> proof[i]]
  <2>1. proof \in [1 .. Total -> ToSet(proof)]
    BY <1>3, <1>4, LenProperties
  <2>2. QED
    BY <2>1
<1>6. \A i \in 1 .. Total : proof[i] = Message(NameAt(i), OfAt(i))
  <2>1. fault = "none"
    BY <1>0, <1>1 DEF VerifierWaits
  <2>2. \A i \in 1 .. Len(proof) : i <= Total => proof[i] = Message(NameAt(i), OfAt(i))
    BY <1>0, <2>1 DEF Scripted
  <2>3. \A i \in 1 .. Total : i <= Total
    BY ONLY <1>2
  <2>4. QED
    BY <1>3, <2>2, <2>3
<1>7. prng["verifier"] = [mixed |-> Seed(FALSE), counter |-> 0] /\ DOMAIN prng = Sides
  BY <1>0, <1>1 DEF VerifierWaits, Formed
<1>8. Total >= 1
  BY ONLY <1>2
<1>9. QED
  BY <1>2, <1>3, <1>4, <1>5, <1>6, <1>7, <1>8

LEMMA DeliverStep ==
  ASSUME IInv, Deliver
  PROVE  IInv'
<1>0. Placed
  BY DEF IInv
<1>1. /\ Len(proof) = Total /\ Total \in Nat /\ Total >= 1 /\ DOMAIN proof = 1 .. Total
      /\ proof \in Seq(ToSet(proof)) /\ proof = [i \in 1 .. Total |-> proof[i]]
      /\ \A i \in 1 .. Total : proof[i] = Message(NameAt(i), OfAt(i))
      /\ prng["verifier"] = [mixed |-> Seed(FALSE), counter |-> 0] /\ DOMAIN prng = Sides
  BY WholeProof
<1>2. ASSUME UNCHANGED prng, fault' # "statement" PROVE ArrivesFor(FALSE)
  BY <1>1, <1>2 DEF ArrivesFor
<1>3. ASSUME fault' = "none", UNCHANGED <<proof, prng>> PROVE Arrives
  <2>1. proof' \in Seq(ToSet(proof'))
    BY <1>1, <1>3
  <2>2. /\ Len(proof') = Total
        /\ \A i \in 1 .. Len(proof') : i <= Total => proof'[i] = Message(NameAt(i), OfAt(i))
    BY <1>1, <1>3
  <2>3. QED
    BY <1>1, <1>3, <2>1, <2>2 DEF Arrives
<1>4. ASSUME fault' = "altered", UNCHANGED prng, NEW i \in DOMAIN proof, proof' = Altered(i)
      PROVE  Arrives
  <2>2. proof' = [j \in 1 .. Total |-> IF j = i THEN [proof[i] EXCEPT !.altered = TRUE] ELSE proof[j]]
    BY <1>1, <1>4 DEF Altered
  <2>3. DOMAIN proof' = 1 .. Total /\ proof' = [j \in 1 .. Total |-> proof'[j]]
    BY <2>2
  <2>4. proof' \in Seq(ToSet(proof')) /\ Len(proof') = Total
    BY <1>1, <2>3, SequenceOf
  <2>5. i \in 1 .. Total /\ proof'[i].altered
    <3>1. proof[i] = Message(NameAt(i), OfAt(i))
      BY <1>1, <1>4
    <3>2. [proof[i] EXCEPT !.altered = TRUE].altered = TRUE
      BY <3>1 DEF Message
    <3>3. QED
      BY <1>1, <1>4, <2>2, <3>2
  <2>6. QED
    BY <1>1, <1>4, <2>4, <2>5 DEF Arrives
<1>5. ASSUME fault' = "cut", UNCHANGED prng, NEW n \in 0 .. Len(proof) - 1, proof' = SubSeq(proof, 1, n)
      PROVE  Arrives
  <2>2. n \in Nat /\ n < Total
    BY <1>1, <1>5
  <2>3. proof' = [j \in 1 .. n |-> proof[j]]
    BY <1>1, <1>5, <2>2
  <2>4. DOMAIN proof' = 1 .. n /\ proof' = [j \in 1 .. n |-> proof'[j]]
    BY <2>3
  <2>5. proof' \in Seq(ToSet(proof')) /\ Len(proof') = n
    BY <2>2, <2>4, SequenceOf
  <2>6. QED
    BY <1>1, <1>5, <2>2, <2>5 DEF Arrives
<1>6. ASSUME fault' = "swapped", UNCHANGED prng, NEW i \in 1 .. Len(proof) - 1, proof' = Swapped(i)
      PROVE  Arrives
  <2>2. i \in 1 .. Total /\ i + 1 \in 1 .. Total /\ i # i + 1
    BY <1>1, <1>6
  <2>3. proof' = [j \in 1 .. Total |->
                    IF j = i + 1 THEN proof[i] ELSE IF j = i THEN proof[i + 1] ELSE proof[j]]
    BY <1>1, <1>6, <2>2 DEF Swapped
  <2>4. DOMAIN proof' = 1 .. Total /\ proof' = [j \in 1 .. Total |-> proof'[j]]
    BY <2>3
  <2>5. proof' \in Seq(ToSet(proof')) /\ Len(proof') = Total
    BY <1>1, <2>4, SequenceOf
  <2>6. proof'[i].name # NameAt(i)
    <3>1. proof'[i] = proof[i + 1]
      BY <2>2, <2>3
    <3>2. proof[i + 1].name = NameAt(i + 1)
      BY <1>1, <2>2, MessageBytes
    <3>3. NameAt(i + 1) # NameAt(i)
      BY <1>0, <2>2, NamesDiffer
    <3>4. QED
      BY <3>1, <3>2, <3>3
  <2>7. QED
    BY <1>1, <1>6, <2>2, <2>5, <2>6 DEF Arrives
<1>7. ASSUME fault' = "longer", UNCHANGED prng, proof' = proof \o Plain(<<<<"more", 1>>>>)
      PROVE  Arrives
  <2>2. Plain(<<<<"more", 1>>>>) \in Seq(ToSet(Plain(<<<<"more", 1>>>>)))
        /\ Len(Plain(<<<<"more", 1>>>>)) = 1
    <3> DEFINE names == <<<<"more", 1>>>>
               f == [i \in 1 .. 1 |-> Message(names[i], <<>>)]
    <3>1. DOMAIN names = 1 .. 1
      BY OneName
    <3>2. Plain(names) = f
      BY <3>1 DEF Plain
    <3>3. DOMAIN f = 1 .. 1 /\ f = [i \in 1 .. 1 |-> f[i]]
      OBVIOUS
    <3> HIDE DEF f, names
    <3>4. f \in Seq(ToSet(f)) /\ Len(f) = 1
      BY <3>3, SequenceOf
    <3>5. QED
      BY <3>2, <3>4 DEF names
  <2>3. /\ proof' \in Seq(ToSet(proof')) /\ Len(proof') = Total + 1
        /\ \A i \in 1 .. Total : proof'[i] = proof[i]
    <3>1. PICK more : more = Plain(<<<<"more", 1>>>>)
      OBVIOUS
    <3>2. more \in Seq(ToSet(more)) /\ Len(more) = 1 /\ proof' = proof \o more
      BY <1>7, <2>2, <3>1
    <3>3. /\ proof \o more \in Seq(ToSet(proof \o more)) /\ Len(proof \o more) = Len(proof) + Len(more)
          /\ \A i \in 1 .. Len(proof) : (proof \o more)[i] = proof[i]
      <4>1. proof \in Seq(ToSet(proof))
        BY ONLY <1>1
      <4>2. QED
        BY ONLY <3>2, <4>1, Appended, Zenon
    <3>4. QED
      BY <1>1, <3>2, <3>3
  <2>4. \A i \in 1 .. Len(proof') : i <= Total => proof'[i] = Message(NameAt(i), OfAt(i))
    BY <1>1, <2>3
  <2>5. Len(proof') >= Total
    BY <1>1, <2>3
  <2>6. QED
    BY <1>7, <2>3, <2>4, <2>5 DEF Arrives
<1>8. ASSUME fault' = "statement", UNCHANGED proof,
             prng' = [prng EXCEPT !["verifier"].mixed = Seed(TRUE)]
      PROVE  Arrives /\ ArrivesFor(TRUE)
  <2>2. prng'["verifier"] = [mixed |-> Seed(TRUE), counter |-> 0]
    <3>1. prng' = [prng EXCEPT !["verifier"] = [prng["verifier"] EXCEPT !.mixed = Seed(TRUE)]]
      BY <1>8
    <3>2. [prng["verifier"] EXCEPT !.mixed = Seed(TRUE)] = [mixed |-> Seed(TRUE), counter |-> 0]
      <4>1. prng["verifier"] = [mixed |-> Seed(FALSE), counter |-> 0]
        BY <1>1
      <4>2. \A g, a, b : g = [mixed |-> a, counter |-> 0] =>
                            [g EXCEPT !.mixed = b] = [mixed |-> b, counter |-> 0]
        OBVIOUS
      <4>3. QED
        BY <4>1, <4>2
    <3>3. QED
      BY <1>1, <3>1, <3>2 DEF Sides
  <2>3. DOMAIN prng' = Sides /\ prng'["prover"] = prng["prover"]
    BY <1>1, <1>8 DEF Sides
  <2>4. proof' \in Seq(ToSet(proof'))
    BY <1>1, <1>8
  <2>5. /\ Len(proof') = Total
        /\ \A i \in 1 .. Len(proof') : i <= Total => proof'[i] = Message(NameAt(i), OfAt(i))
    BY <1>1, <1>8
  <2>6. Arrives
    BY <1>1, <1>8, <2>4, <2>5 DEF Arrives
  <2>7. QED
    BY <1>8, <2>2, <2>3, <2>6 DEF ArrivesFor
<1>9. Arrives /\ (ArrivesFor(FALSE) \/ ArrivesFor(TRUE))
  <2>1. CASE fault' = "none" /\ UNCHANGED <<proof, prng>>
    BY <1>2, <1>3, <2>1
  <2>2. CASE fault' = "altered" /\ UNCHANGED prng /\ \E i \in DOMAIN proof : proof' = Altered(i)
    BY <1>2, <1>4, <2>2
  <2>3. CASE fault' = "cut" /\ UNCHANGED prng
             /\ \E n \in 0 .. Len(proof) - 1 : proof' = SubSeq(proof, 1, n)
    BY <1>2, <1>5, <2>3
  <2>4. CASE fault' = "swapped" /\ UNCHANGED prng
             /\ \E i \in 1 .. Len(proof) - 1 : proof' = Swapped(i)
    BY <1>2, <1>6, <2>4
  <2>5. CASE fault' = "longer" /\ UNCHANGED prng /\ proof' = proof \o Plain(<<<<"more", 1>>>>)
    BY <1>2, <1>7, <2>5
  <2>6. CASE fault' = "statement" /\ UNCHANGED proof
             /\ prng' = [prng EXCEPT !["verifier"].mixed = Seed(TRUE)]
    BY <1>8, <2>6
  <2>7. QED
    BY <2>1, <2>2, <2>3, <2>4, <2>5, <2>6, Zenon DEF Deliver
<1>10. QED
  BY <1>9, ArrivalStep

-----------------------------------------------------------------------------
\* The theorems.

LEMMA NextHolds ==
  IInv /\ [Next]_vars => IInv'
<1> SUFFICES ASSUME IInv, [Next]_vars PROVE IInv'
  OBVIOUS
<1>1. CASE GetInteractionElements
  BY <1>1, InteractionStep
<1>2. CASE CreateCompositionPolynomial
  BY <1>2, CompositionStep
<1>3. CASE OodsPoint
  BY <1>3, PointStep
<1>4. CASE CreateOodsCompositionPolynomial
  BY <1>4, OodsStep
<1>5. CASE NoProofOfWork
  BY <1>5, NoProofOfWorkStep
<1>6. CASE ChooseQueryIndices
  BY <1>6, QueriesStep
<1>7. CASE BeginQueryPhase
  BY <1>7, BeginQueryPhaseStep
<1>8. ASSUME NEW trace \in 1 .. 3, CommitOnTrace(trace) PROVE IInv'
  BY <1>8, CommitOnTraceStep
<1>9. CASE ProveOods
  BY <1>9, ProveOodsStep
<1>10. CASE CreateNextFriLayer
  BY <1>10, CreateNextFriLayerStep
<1>11. CASE CommitLayer
  BY <1>11, CommitLayerStep
<1>12. CASE SendLastLayer
  BY <1>12, SendLastLayerStep
<1>13. CASE ProvePow
  BY <1>13, ProvePowStep
<1>14. CASE DecommitTraces
  BY <1>14, DecommitTracesStep
<1>15. CASE DecommitLayer
  BY <1>15, DecommitLayerStep
<1>16. CASE Deliver
  BY <1>16, DeliverStep
<1>17. ASSUME NEW trace \in 1 .. 3, ReadCommitment(trace) PROVE IInv'
  BY <1>17, ReadCommitmentStep
<1>18. CASE VerifyOods
  BY <1>18, VerifyOodsStep
<1>19. CASE DrawLayerPoint
  BY <1>19, DrawLayerPointStep
<1>20. CASE ReadLayerCommitment
  BY <1>20, ReadLayerCommitmentStep
<1>21. CASE ReadLastLayerCoefficients
  BY <1>21, ReadLastLayerCoefficientsStep
<1>22. CASE VerifyPow
  BY <1>22, VerifyPowStep
<1>23. CASE VerifyTraces
  BY <1>23, VerifyTracesStep
<1>24. CASE VerifyLayer
  BY <1>24, VerifyLayerStep
<1>25. CASE VerifyLastLayer
  BY <1>25, VerifyLastLayerStep
<1>26. CASE UNCHANGED vars
  BY <1>26, StutteringStep
<1>27. QED
  BY <1>1, <1>2, <1>3, <1>4, <1>5, <1>6, <1>7, <1>8, <1>9, <1>10, <1>11, <1>12, <1>13, <1>14,
     <1>15, <1>16, <1>17, <1>18, <1>19, <1>20, <1>21, <1>22, <1>23, <1>24, <1>25, <1>26,
     Zenon DEF Next, Done

\* In every run, whatever the parameters and whatever happens to the proof on its way,
\* the script is followed: the messages, the seeds and the checks made are those of the
\* place that the running side is at.
THEOREM InvariantTheorem == Spec => []IInv
<1>1. IInv /\ [Next]_vars => IInv'
  BY NextHolds
<1>2. QED
  BY InitHolds, <1>1, PTL DEF Spec

\* Fiat-Shamir: every challenge that NoninteractiveProverChannel or
\* NoninteractiveVerifierChannel draws comes from a seed that holds the statement and
\* every message of the rounds before, and no two are the same draw.
THEOREM BindingTheorem == Spec => []ChallengesBindTheTranscript
<1>1. IInv => ChallengesBindTheTranscript
  BY BindingHolds
<1>2. QED
  BY InvariantTheorem, <1>1, PTL

\* Completeness: StarkVerifier::VerifyStark rejects no proof that arrives as
\* StarkProver::ProveStark sent it, reads it to its end, and the prover stops only at
\* a fold of no step.
THEOREM HonestTheorem == Spec => []HonestProofAccepted
<1>1. IInv => HonestProofAccepted
  BY HonestHolds
<1>2. QED
  BY InvariantTheorem, <1>1, PTL

\* A proof altered, cut short, reordered or made for another statement is not accepted.
THEOREM AcceptanceTheorem == Spec => []AcceptsOnlyTheProof
<1>1. IInv => AcceptsOnlyTheProof
  BY AcceptanceHolds
<1>2. QED
  BY InvariantTheorem, <1>1, PTL
===============================================================================
