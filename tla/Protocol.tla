------------------------------- MODULE Protocol -------------------------------
(***************************************************************************)
(* The non-interactive STARK: the order of the messages and challenges of  *)
(* StarkProver::ProveStark and StarkVerifier::VerifyStark (stark/stark.cc, *)
(* stark/oods.cc), of FriProver and FriVerifier (fri/), and the channels   *)
(* that derive the challenges from the messages (channel/).                *)
(*                                                                         *)
(* A message is its name, whether it was altered on its way, and what its  *)
(* contents answer: the state that a nonce was ground for, the queries     *)
(* that a decommitment opens.  A PRNG is what was mixed into its seed and  *)
(* the number of draws since (HashChain); a challenge is the state it was  *)
(* drawn in.  An algebraic check passes if the messages it reads are the   *)
(* prover's and were made with the same challenges.                        *)
(***************************************************************************)
EXTENDS Integers, Sequences, FiniteSets, SequencesExt

CONSTANTS
  StepLists,      \* the values of fri_step_list
  InteractionElements,               \* of n_interaction_elements, 0 for no interaction
  PowBits,        \* of proof_of_work_bits
  n_queries, mask_size, n_breaks

ASSUME ProtocolAssumption ==
  /\ StepLists \subseteq Seq(Nat) /\ \A s \in StepLists : Len(s) > 0
  /\ InteractionElements \subseteq Nat /\ PowBits \subseteq Nat
  /\ {n_queries, mask_size, n_breaks} \subseteq Nat \ {0}

VARIABLES
  fri_step_list, n_interaction_elements, proof_of_work_bits,
  pc,             \* which side runs, and the function it is in
  layer,          \* of FRI, from 1, or the commitment to open
  prng,           \* of each side
  in_query_phase_,
  drawn,          \* each side's challenges, by name
  proof,
  reads,          \* the names under which the verifier has read the messages
  fault,          \* of the transport
  verdict

Sides == {"prover", "verifier"}
parameters == <<fri_step_list, n_interaction_elements, proof_of_work_bits>>
vars == <<parameters, pc, layer, prng, in_query_phase_, drawn, proof, reads, fault, verdict>>

proof_read_index_ == Len(reads)

n_layers == Len(fri_step_list)
Interactive == n_interaction_elements > 0
Traces == IF Interactive THEN <<1, 2, 3>> ELSE <<1, 3>>    \* first, interaction, broken
Named(kind, n) == [i \in 1 .. n |-> <<kind, i>>]
Root(trace) == <<"root", trace>>
OodsValues == Named("mask", mask_size) \o Named("break", n_breaks)
Queries == Named("query", n_queries)

Message(name, of) == [name |-> name, altered |-> FALSE, of |-> of]
Bytes(message) == <<message.name, message.altered>>
Plain(names) == [i \in DOMAIN names |-> Message(names[i], <<>>)]
\* What a side draws under these names, and has drawn.
Values(side, names) == [i \in DOMAIN names |-> drawn[side][names[i]]]
SameChallenges(names) ==
  \A c \in names : /\ c \in DOMAIN drawn["prover"]
                   /\ drawn["prover"][c] = drawn["verifier"][c]

-----------------------------------------------------------------------------
\* The channels.

\* Each message's bytes are mixed into the seed, and the counter starts anew.
MixSeedWithBytes(g, messages) ==
  [mixed |-> g.mixed \o [i \in DOMAIN messages |-> Bytes(messages[i])], counter |-> 0]

\* Slip: of a list of values only the first is mixed in.
MixFirst(side, messages) ==
  prng' = IF in_query_phase_[side] THEN prng
          ELSE [prng EXCEPT ![side] = MixSeedWithBytes(@, SubSeq(messages, 1, 1))]
Mix(side, messages) ==
  prng' = IF in_query_phase_[side] THEN prng
          ELSE [prng EXCEPT ![side] = MixSeedWithBytes(@, messages)]

\* The seed is made of the statement, or of another; which fields of it
\* GetInitialHashChainSeed serialises is not told apart.  Slip: not of the statement.
SeedOfNothing(another) == <<<<<<"statement", 1>>, FALSE>>>>
Seed(another) == <<<<<<"statement", 1>>, another>>>>

Stop(reason) == pc' = <<pc[1], "done">> /\ verdict' = reason
Go(function) == pc' = <<pc[1], function>> /\ UNCHANGED verdict

\* Challenges, of either side.
Draw(side, names, function) ==
  /\ IF in_query_phase_[side]
     THEN Stop("randomness after query phase") /\ UNCHANGED <<prng, drawn>>
     ELSE /\ Go(function)
          /\ prng' = [prng EXCEPT ![side].counter = @ + Len(names)]
          /\ drawn' = [drawn EXCEPT ![side] =
               [c \in DOMAIN @ \cup ToSet(names) |->
                  IF c \in ToSet(names)
                  THEN [prng[side] EXCEPT !.counter = @ + (CHOOSE i \in DOMAIN names : names[i] = c)]
                  ELSE @[c]]]
  /\ UNCHANGED <<parameters, in_query_phase_, proof, reads, fault>>

SendBytes(messages, function) ==
  /\ proof' = proof \o messages
  /\ Mix("prover", messages)
  /\ Go(function)
  /\ UNCHANGED <<parameters, in_query_phase_, drawn, reads, fault>>

\* The verifier reads as many bytes as these messages have, whatever was sent.
Received(names) == SubSeq(proof, proof_read_index_ + 1, proof_read_index_ + Len(names))
Genuine(names) ==
  \A i \in DOMAIN names :
    LET m == Received(names)[i] IN m.name = names[i] /\ ~m.altered
\* A message that it has kept.
Kept(name) ==
  \E i \in DOMAIN reads : reads[i] = name /\ proof[i].name = name /\ ~proof[i].altered

ReceiveBytes(names, ok, reason, function) ==
  /\ IF proof_read_index_ + Len(names) > Len(proof)
     THEN Stop("proof too short") /\ UNCHANGED <<reads, prng>>
     ELSE /\ reads' = reads \o names
          /\ Mix("verifier", Received(names))
          /\ IF ok THEN Go(function) ELSE Stop(reason)
  /\ UNCHANGED <<parameters, in_query_phase_, drawn, proof, fault>>

-----------------------------------------------------------------------------
\* What the two sides share, each with its own channel.

Side == pc[1]
At(function) == pc[2] = function

GetInteractionElements ==
  /\ At("interaction")
  /\ Draw(Side, Named("interaction", n_interaction_elements), "root 2")
  /\ UNCHANGED layer

\* CreateCompositionPolynomial: one element, of which the coefficients are powers.
CreateCompositionPolynomial ==
  /\ At("composition")
  /\ Draw(Side, <<<<"composition", 1>>>>, "root 3")
  /\ UNCHANGED layer

OodsPoint ==
  /\ At("oods point")
  /\ Draw(Side, <<<<"point", 1>>>>, "oods values")
  /\ UNCHANGED layer

CreateOodsCompositionPolynomial ==
  /\ At("oods composition")
  /\ Draw(Side, <<<<"oods", 1>>>>, "fri point")
  /\ layer' = 1

\* ApplyProofOfWork of either channel.
NoProofOfWork ==
  /\ At("pow") /\ proof_of_work_bits = 0
  /\ Go("queries")
  /\ UNCHANGED <<parameters, layer, prng, in_query_phase_, drawn, proof, reads, fault>>

\* ChooseQueryIndices, after its proof of work.
ChooseQueryIndices ==
  /\ At("queries")
  /\ Draw(Side, Queries, "begin")
  /\ UNCHANGED layer

BeginQueryPhase ==
  /\ At("begin")
  /\ in_query_phase_' = [in_query_phase_ EXCEPT ![Side] = TRUE]
  /\ layer' = 1
  /\ Go("open traces")
  /\ UNCHANGED <<parameters, prng, drawn, proof, reads, fault>>

AfterRoot(trace) ==
  CASE trace = 1 -> IF Interactive THEN "interaction" ELSE "composition"
    [] trace = 2 -> "composition"
    [] trace = 3 -> "oods point"

-----------------------------------------------------------------------------
\* StarkProver.

CommitOnTrace(trace) ==
  /\ Side = "prover" /\ At(<<"root 1", "root 2", "root 3">>[trace])
  /\ SendBytes(Plain(<<Root(trace)>>), AfterRoot(trace))
  /\ UNCHANGED layer

ProveOods ==
  /\ Side = "prover" /\ At("oods values")
  /\ SendBytes(Plain(OodsValues), "oods composition")
  /\ UNCHANGED layer

\* FriProver::CommitmentPhase, CreateNextFriLayer and the commitment to the layer.
CreateNextFriLayer ==
  /\ Side = "prover" /\ At("fri point")
  /\ IF fri_step_list[layer] = 0 /\ layer > 1
     THEN Stop("fri step is zero") /\ UNCHANGED <<prng, drawn>>
          /\ UNCHANGED <<parameters, in_query_phase_, proof, reads, fault>>
     ELSE Draw("prover", IF fri_step_list[layer] = 0 THEN <<>> ELSE <<<<"fri", layer>>>>,
               IF layer < n_layers THEN "fri root" ELSE "last layer")
  /\ UNCHANGED layer

CommitLayer ==
  /\ Side = "prover" /\ At("fri root")
  /\ SendBytes(Plain(<<<<"fri root", layer>>>>), "fri point")
  /\ layer' = layer + 1

SendLastLayer ==
  /\ Side = "prover" /\ At("last layer")
  /\ SendBytes(Plain(<<<<"coefficients", 1>>>>), "pow")
  /\ UNCHANGED layer

ProvePow ==
  /\ Side = "prover" /\ At("pow") /\ proof_of_work_bits > 0
  /\ SendBytes(<<Message(<<"POW", 1>>, prng["prover"].mixed)>>, "queries")
  /\ UNCHANGED layer

\* Layer 0's callback decommits every trace, then every committed layer follows.
DecommitTraces ==
  /\ Side = "prover" /\ At("open traces")
  /\ SendBytes([i \in DOMAIN Traces |-> Message(<<"trace", Traces[i]>>, Values("prover", Queries))],
               "open layers")
  /\ UNCHANGED layer

DecommitLayer ==
  /\ Side = "prover" /\ At("open layers") /\ layer < n_layers
  /\ SendBytes(<<Message(<<"layer", layer>>, Values("prover", Queries))>>, "open layers")
  /\ layer' = layer + 1

-----------------------------------------------------------------------------
\* The transport: the proof arrives, or with one message altered, cut short, with
\* two messages of a kind swapped, with one appended, or for another statement.

Altered(i) == [proof EXCEPT ![i].altered = TRUE]
Swapped(i) == [proof EXCEPT ![i] = proof[i + 1], ![i + 1] = proof[i]]

Deliver ==
  /\ Side = "prover" /\ At("open layers") /\ layer = n_layers
  /\ pc' = <<"verifier", "root 1">> /\ layer' = 1
  /\ \/ fault' = "none" /\ UNCHANGED <<proof, prng>>
     \/ fault' = "altered" /\ UNCHANGED prng
        /\ \E i \in DOMAIN proof : proof' = Altered(i)
     \/ fault' = "cut" /\ UNCHANGED prng
        /\ \E n \in 0 .. Len(proof) - 1 : proof' = SubSeq(proof, 1, n)
     \/ fault' = "swapped" /\ UNCHANGED prng
        /\ \E i \in 1 .. Len(proof) - 1 :
             proof[i].name[1] = proof[i + 1].name[1] /\ proof' = Swapped(i)
     \/ fault' = "longer" /\ UNCHANGED prng
        /\ proof' = proof \o Plain(<<<<"more", 1>>>>)
     \/ fault' = "statement" /\ UNCHANGED proof
        /\ prng' = [prng EXCEPT !["verifier"].mixed = Seed(TRUE)]
  /\ UNCHANGED <<parameters, in_query_phase_, drawn, reads, verdict>>

-----------------------------------------------------------------------------
\* StarkVerifier.

ReadCommitment(trace) ==
  /\ Side = "verifier" /\ At(<<"root 1", "root 2", "root 3">>[trace])
  /\ ReceiveBytes(<<Root(trace)>>, TRUE, "", AfterRoot(trace))
  /\ UNCHANGED layer

\* The two sides of the out-of-domain sample; no root is looked at here.
VerifyOods ==
  /\ Side = "verifier" /\ At("oods values")
  /\ ReceiveBytes(OodsValues, Genuine(OodsValues) /\ SameChallenges(DOMAIN drawn["verifier"]),
                  "out of domain sampling", "oods composition")
  /\ UNCHANGED layer

\* FriVerifier::CommitmentPhase.
PointNames(i) == IF i = 1 /\ fri_step_list[1] = 0 THEN <<>> ELSE <<<<"fri", i>>>>
DrawLayerPoint ==
  /\ Side = "verifier" /\ At("fri point")
  /\ Draw("verifier", PointNames(layer), IF layer < n_layers THEN "fri root" ELSE "last layer")
  /\ UNCHANGED layer

ReadLayerCommitment ==
  /\ Side = "verifier" /\ At("fri root")
  /\ ReceiveBytes(<<<<"fri root", layer>>>>, TRUE, "", "fri point")
  /\ layer' = layer + 1

ReadLastLayerCoefficients ==
  /\ Side = "verifier" /\ At("last layer")
  /\ ReceiveBytes(<<<<"coefficients", 1>>>>, TRUE, "", "pow")
  /\ UNCHANGED layer

\* prev_state is taken before the nonce is read.  Slip: after.
StateAfterNonce == Append(prng["verifier"].mixed, Bytes(proof[proof_read_index_ + 1]))
PrevState == prng["verifier"].mixed
VerifyPow ==
  /\ Side = "verifier" /\ At("pow") /\ proof_of_work_bits > 0
  /\ LET nonce == <<"POW", 1>>
     IN ReceiveBytes(<<nonce>>, Received(<<nonce>>)[1] = Message(nonce, PrevState),
                     "wrong proof of work", "queries")
  /\ UNCHANGED layer

\* The messages open these commitments at the verifier's queries.
Opened(names) ==
  Received(names) = [i \in DOMAIN names |-> Message(names[i], Values("verifier", Queries))]
\* The folds down to a layer: of the virtual oracle's values, by each layer's point.
SameFolds(k) ==
  SameChallenges({<<"oods", 1>>} \cup UNION {ToSet(PointNames(i)) : i \in 1 .. k})

\* VerifyFirstLayer: the elements of the traces against their roots.
VerifyTraces ==
  /\ Side = "verifier" /\ At("open traces")
  /\ LET names == [i \in DOMAIN Traces |-> <<"trace", Traces[i]>>]
     IN ReceiveBytes(names, Opened(names) /\ \A i \in DOMAIN Traces : Kept(Root(Traces[i])),
                     "trace decommitment", "open layers")
  /\ UNCHANGED layer

\* VerifyInnerLayers: what was folded from the layer before against the layer's root.
VerifyLayer ==
  /\ Side = "verifier" /\ At("open layers") /\ layer < n_layers
  /\ LET names == <<<<"layer", layer>>>>
     IN ReceiveBytes(names, Opened(names) /\ Kept(<<"fri root", layer>>) /\ SameFolds(layer),
                     "layer decommitment", "open layers")
  /\ layer' = layer + 1

\* The proof's end is not looked for.
VerifyLastLayer ==
  /\ Side = "verifier" /\ At("open layers") /\ layer = n_layers
  /\ Stop(IF Kept(<<"coefficients", 1>>) /\ SameFolds(n_layers) THEN "accept" ELSE "last layer")
  /\ UNCHANGED <<parameters, layer, prng, in_query_phase_, drawn, proof, reads, fault>>

-----------------------------------------------------------------------------
Functions == {"root 1", "interaction", "root 2", "composition", "root 3", "oods point",
              "oods values", "oods composition", "fri point", "fri root", "last layer", "pow",
              "queries", "begin", "open traces", "open layers", "done"}
Verdicts == {"none", "accept", "randomness after query phase", "fri step is zero",
             "proof too short", "out of domain sampling", "wrong proof of work",
             "trace decommitment", "layer decommitment", "last layer"}

TypeOK ==
  /\ pc \in Sides \X Functions /\ layer \in 1 .. n_layers
  /\ verdict \in Verdicts /\ (verdict = "none") = ~At("done")
  /\ in_query_phase_ \in [Sides -> BOOLEAN]
  /\ fault \in {"none", "altered", "cut", "swapped", "longer", "statement"}
  /\ proof_read_index_ <= Len(proof)

Init ==
  /\ fri_step_list \in StepLists
  /\ n_interaction_elements \in InteractionElements /\ proof_of_work_bits \in PowBits
  /\ pc = <<"prover", "root 1">> /\ layer = 1
  /\ prng = [s \in Sides |-> [mixed |-> Seed(FALSE), counter |-> 0]]
  /\ in_query_phase_ = [s \in Sides |-> FALSE]
  /\ drawn = [s \in Sides |-> <<>>]
  /\ proof = <<>> /\ reads = <<>> /\ fault = "none" /\ verdict = "none"

Done == At("done") /\ UNCHANGED vars

Next ==
  \/ GetInteractionElements \/ CreateCompositionPolynomial \/ OodsPoint
  \/ CreateOodsCompositionPolynomial \/ NoProofOfWork \/ ChooseQueryIndices \/ BeginQueryPhase
  \/ \E trace \in 1 .. 3 : CommitOnTrace(trace)
  \/ ProveOods \/ CreateNextFriLayer \/ CommitLayer \/ SendLastLayer \/ ProvePow
  \/ DecommitTraces \/ DecommitLayer
  \/ Deliver
  \/ \E trace \in 1 .. 3 : ReadCommitment(trace)
  \/ VerifyOods \/ DrawLayerPoint \/ ReadLayerCommitment \/ ReadLastLayerCoefficients
  \/ VerifyPow \/ VerifyTraces \/ VerifyLayer \/ VerifyLastLayer
  \/ Done

Spec == Init /\ [][Next]_vars

-----------------------------------------------------------------------------
\* The rounds of the interactive protocol, which the hash chain replaces: a message
\* or challenge of an earlier round was sent before one of a later.
Round(name) ==
  CASE name = Root(1) -> 1
    [] name[1] = "interaction" -> 2
    [] name = Root(2) -> 3
    [] name[1] = "composition" -> 4
    [] name = Root(3) -> 5
    [] name[1] = "point" -> 6
    [] name[1] \in {"mask", "break"} -> 7
    [] name[1] = "oods" -> 8
    [] name[1] = "fri" -> 7 + 2 * name[2]
    [] name[1] = "fri root" -> 8 + 2 * name[2]
    [] name[1] = "coefficients" -> 8 + 2 * n_layers
    [] name[1] = "POW" -> 9 + 2 * n_layers
    [] name[1] = "query" -> 10 + 2 * n_layers
    [] OTHER -> 11 + 2 * n_layers

\* Fiat-Shamir: each challenge of a side is drawn from a seed that holds, as that
\* side has them, the statement and every message of the rounds before, and no two
\* challenges are the same draw.
ChallengesBindTheTranscript ==
  \A c \in DOMAIN drawn[Side] :
    LET g == drawn[Side][c]
    IN /\ g.mixed[1] = Seed(fault = "statement" /\ Side = "verifier")[1]
       /\ \A i \in DOMAIN (IF Side = "prover" THEN proof ELSE reads) :
            LET name == IF Side = "prover" THEN proof[i].name ELSE reads[i]
            IN Round(name) < Round(c) => Bytes(proof[i]) \in ToSet(g.mixed)
       /\ \A d \in DOMAIN drawn[Side] \ {c} : drawn[Side][d] # g

\* A proof that arrives as it was sent is accepted: each message is read as what it
\* was sent as, to the last, both sides draw the same challenges in the same phase,
\* and neither stops; but the prover stops at a fold of no step after the first.
HonestProofAccepted ==
  /\ TypeOK
  /\ verdict = "fri step is zero" <=> Side = "prover" /\ At("done")
  /\ verdict = "fri step is zero" => \E i \in 2 .. n_layers : fri_step_list[i] = 0
  /\ verdict # "randomness after query phase"
  /\ fault = "none" =>
       /\ verdict \in {"none", "accept", "fri step is zero"}
       /\ \A i \in DOMAIN reads : reads[i] = proof[i].name
       /\ Side = "verifier" => SameChallenges(DOMAIN drawn["verifier"])
       /\ verdict = "accept" =>
            proof_read_index_ = Len(proof) /\ drawn["prover"] = drawn["verifier"]

\* A proof with a message altered, swapped or missing, or one made for another
\* statement, is not accepted; what follows a proof is not looked at.
AcceptsOnlyTheProof == verdict = "accept" => fault \in {"none", "longer"}
===============================================================================
