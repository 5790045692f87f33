------------------------------ MODULE HashChain ------------------------------
(***************************************************************************)
(* starkware/randomness/hash_chain.{h,cc} as randomness/prng.h uses it:    *)
(* random bytes are digests of a seed and a counter; what a request leaves *)
(* of its last digest is kept for later ones; mixing bytes into the seed   *)
(* starts over.                                                            *)
(*                                                                         *)
(* A digest is its history since the digest of the public input: for each  *)
(* hash what was added to the digest before and what was appended to it.   *)
(* Hashing without collisions is then equality of histories.  A byte is a  *)
(* digest and an index into it.                                            *)
(***************************************************************************)
EXTENDS Integers, Sequences

CONSTANTS
  DigestNumBytes,     \* HashT::kDigestNumBytes
  Messages,           \* the byte strings that may be mixed in; a number n is
                      \* the string that spells the counter n, padded
  Zero,               \* a byte of the array that no digest was copied to
  Idle,               \* no request is being served
  MaxRequest, MaxCounter, MaxMixes   \* bounds

ASSUME HashChainAssumption ==
  /\ DigestNumBytes \in Nat \ {0}
  /\ MaxRequest \in Nat /\ MaxCounter \in Nat /\ MaxMixes \in Nat
  /\ Idle \notin Nat

PublicSeed == <<>>      \* the digest of the public input
Hash(digest, increment, appended) == Append(digest, <<increment, appended>>)
HashWithCounter(digest, counter) == Hash(digest, 0, counter)

VARIABLES
  hash_, counter_, num_spare_bytes_, spare_bytes_,
  requested,      \* bytes that GetRandomBytes has yet to write, or Idle
  mixes,          \* the number of mixes, which MaxMixes bounds
  out,            \* the bytes it wrote last
  given,          \* those it wrote before, since the last mix
  digests         \* every digest used so far, as a seed or for bytes

vars == <<hash_, counter_, num_spare_bytes_, spare_bytes_, requested, mixes, out,
          given, digests>>

Written == {out[i] : i \in DOMAIN out}
NoBytes == [i \in 0 .. -1 |-> Zero]

TypeOK ==
  /\ counter_ \in 0 .. MaxCounter
  /\ num_spare_bytes_ \in 0 .. 2 * DigestNumBytes
  /\ DOMAIN spare_bytes_ = 0 .. 2 * DigestNumBytes - 1
  /\ requested \in 0 .. MaxRequest \cup {Idle}
  /\ mixes \in 0 .. MaxMixes
  /\ \E n \in 0 .. DigestNumBytes : DOMAIN out = 0 .. n - 1

\* PrngImpl(bytes): the seed is the digest of the public input.
Init ==
  /\ hash_ = PublicSeed
  /\ counter_ = 0
  /\ num_spare_bytes_ = 0
  /\ spare_bytes_ = [k \in 0 .. 2 * DigestNumBytes - 1 |-> Zero]
  /\ requested = Idle /\ mixes = 0
  /\ out = NoBytes /\ given = {} /\ digests = {}

Write(bytes) == out' = bytes /\ given' = given \cup Written

-----------------------------------------------------------------------------
\* GetMoreRandomBytesUsingHashWithCounter(counter_++, n bytes): the rest of the
\* digest is appended to the spare bytes.  The slip keeps its beginning.
RestOfDigestFromStart(digest, n) ==
  [k \in DOMAIN spare_bytes_ |->
     IF k \in num_spare_bytes_ .. num_spare_bytes_ + DigestNumBytes - n - 1
     THEN <<digest, k - num_spare_bytes_>> ELSE spare_bytes_[k]]
RestOfDigest(digest, n) ==
  [k \in DOMAIN spare_bytes_ |->
     IF k \in num_spare_bytes_ .. num_spare_bytes_ + DigestNumBytes - n - 1
     THEN <<digest, n + k - num_spare_bytes_>> ELSE spare_bytes_[k]]
SpareAndRest(n) == num_spare_bytes_ + (DigestNumBytes - n)

GetMoreRandomBytes(n) ==
  LET digest == HashWithCounter(hash_, counter_) IN
  /\ counter_ < MaxCounter
  /\ Write([i \in 0 .. n - 1 |-> <<digest, i>>])
  /\ spare_bytes_' = RestOfDigest(digest, n)
  /\ num_spare_bytes_' = SpareAndRest(n)
  /\ counter_' = counter_ + 1
  /\ digests' = digests \cup {digest}
  /\ UNCHANGED <<hash_, mixes>>

GetRandomBytes(n) ==
  /\ requested = Idle
  /\ requested' = n
  /\ UNCHANGED <<hash_, counter_, num_spare_bytes_, spare_bytes_, mixes, out, given,
                 digests>>

\* The loop over full blocks does not touch the spare bytes: a request is not
\* served in the order of the digests.
FullBlock ==
  /\ requested # Idle /\ requested >= DigestNumBytes
  /\ GetMoreRandomBytes(DigestNumBytes)
  /\ requested' = requested - DigestNumBytes

\* The slip takes a new digest when the spare bytes are just enough.
TailBelowSpare == requested < num_spare_bytes_
TailFitsSpare == requested <= num_spare_bytes_

\* The whole array moves down, what is beyond the spare bytes too.
SpareShifted ==
  [k \in DOMAIN spare_bytes_ |->
     IF k + requested \in DOMAIN spare_bytes_
     THEN spare_bytes_[k + requested] ELSE spare_bytes_[k]]

TailFromSpare ==
  /\ requested # Idle /\ requested < DigestNumBytes /\ TailFitsSpare
  /\ Write([i \in 0 .. requested - 1 |-> spare_bytes_[i]])
  /\ spare_bytes_' = SpareShifted
  /\ num_spare_bytes_' = num_spare_bytes_ - requested
  /\ requested' = Idle
  /\ UNCHANGED <<hash_, counter_, mixes, digests>>

TailFromDigest ==
  /\ requested # Idle /\ requested < DigestNumBytes /\ ~TailFitsSpare
  /\ GetMoreRandomBytes(requested)
  /\ requested' = Idle

\* PrngImpl::MixSeedWithBytes; UpdateHashChain, which adds 0, is the slip.
NoIncrement == 0
SeedIncrement == 1

MixSeedWithBytes(message) ==
  /\ requested = Idle /\ mixes < MaxMixes
  /\ hash_' = Hash(hash_, SeedIncrement, message)
  /\ digests' = digests \cup {hash_}
  /\ num_spare_bytes_' = 0 /\ counter_' = 0
  /\ out' = NoBytes /\ given' = {}
  /\ mixes' = mixes + 1
  /\ UNCHANGED <<spare_bytes_, requested>>

\* The bound on the counter stops a behaviour that asks for too much.
OutOfDigests == requested # Idle /\ counter_ = MaxCounter /\ UNCHANGED vars

Next ==
  \/ \E n \in 0 .. MaxRequest : GetRandomBytes(n)
  \/ FullBlock \/ TailFromSpare \/ TailFromDigest
  \/ \E message \in Messages : MixSeedWithBytes(message)
  \/ OutOfDigests

Spec == Init /\ [][Next]_vars

-----------------------------------------------------------------------------
Spare == {spare_bytes_[k] : k \in 0 .. num_spare_bytes_ - 1}
Generated ==
  {HashWithCounter(hash_, c) : c \in 0 .. counter_ - 1} \X (0 .. DigestNumBytes - 1)

\* What is kept is never as much as a digest, so that the rest of another one
\* always finds room in an array of two ("Not enough room in spare bytes
\* buffer"), whatever the sizes of the requests.
SpareFits == num_spare_bytes_ < DigestNumBytes

\* Since the last mix, no byte of a digest has been handed out twice: not within
\* a request, not by a later one, not as a spare byte after having been given.
NoByteTwice ==
  /\ \A i, j \in DOMAIN out : out[i] = out[j] => i = j
  /\ Written \cap given = {}

\* Every byte of the digests of this seed is given or spare, and never both: the
\* spare bytes are neither stale ones of an earlier seed nor the array's garbage,
\* and no randomness is dropped.
EveryByteAccounted ==
  /\ given \cup Written \cup Spare = Generated
  /\ Spare \cap (given \cup Written) = {}
  /\ \A j, k \in 0 .. num_spare_bytes_ - 1 :
       spare_bytes_[j] = spare_bytes_[k] => j = k

\* hash_chain.h: the seed is incremented "to create domain seperation between
\* MixSeedWithBytes and GetRandomBytes".  A seed is new: it is no digest whose
\* bytes were handed out, whatever was mixed in, and no earlier seed.
SeedIsNew == hash_ \notin digests
=============================================================================
