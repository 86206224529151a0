---------------------------- MODULE ValueMutator ----------------------------
(***************************************************************************)
(* The value mutator of movy-fuzz (src/crates/movy-fuzz/src/mutators/      *)
(* mutation_utils.rs): MutableValue::mutate and                            *)
(* MutableValue::sample_magic_number applied, one after another, to a      *)
(* single InputArgument, together with the little-endian byte round trip   *)
(* sync/commit that both of them go through.                               *)
(*                                                                         *)
(* Integers keep their declared byte width; a byte is ByteBits bits wide   *)
(* (8 in the code), so the encoding, the width checks of commit and the    *)
(* power-of-two ranges are those of the code at a smaller byte.  The       *)
(* random draws of the code are nondeterministic choices.                  *)
(***************************************************************************)
EXTENDS Integers, Sequences, SequencesExt

CONSTANTS
  ByteBits,         \* bits in one byte (8 in the code)
  SmallIntBound,    \* exclusive bound of the 4-byte resample (443636)
  IntTags,          \* the integer tags the initial values are drawn from
  VecElemTags,      \* the element tags of the initial vectors
  MaxVecLen,        \* the longest initial vector
  Addresses,        \* what HasCaller::get_rand_address may return
  Callers,          \* what HasCaller::get_rand_caller may return
  MagicCandidates   \* byte strings the constant harvester may put in the pool

VARIABLES
  value,       \* MutableValue.value, the InputArgument under mutation
  result,      \* the MutationResult of the last call
  panicked,    \* an unwrap in commit has aborted the fuzzer
  magicPool    \* the magic_number_pool handed to every call

vars == <<value, result, panicked, magicPool>>

AllIntTags == {"U8", "U16", "U32", "U64", "U128", "U256"}

\* The byte width of each integer tag (to_le_bytes::<N>, the chunk sizes).
Width == [U8 |-> 1, U16 |-> 2, U32 |-> 4, U64 |-> 8, U128 |-> 16, U256 |-> 32]

Base == 2 ^ ByteBits
MaxOf(t) == Base ^ Width[t] - 1

ASSUME /\ IntTags \subseteq AllIntTags /\ VecElemTags \subseteq AllIntTags
       /\ SmallIntBound \in 1 .. Base ^ 4

IntArg(t, n) == [tag |-> t, v |-> n]
VecArg(t, s) == [tag |-> "Vector", elem |-> t, vs |-> s]

IsInt(x) == x.tag \in AllIntTags /\ x.v \in 0 .. MaxOf(x.tag)
IsVec(x) == /\ x.tag = "Vector" /\ x.elem \in AllIntTags
            /\ \A i \in DOMAIN x.vs : IsInt(x.vs[i]) /\ x.vs[i].tag = x.elem

(***************************************************************************)
(* The byte round trip.  LE is to_le_bytes at a width, FromLE is           *)
(* from_le_bytes.                                                          *)
(***************************************************************************)
\* Mutant forms: a big-endian encoder, a big-endian decoder, and a chunk
\* size table with a wrong arm for U16.
LE_BigEndian(n, w) == [i \in 1 .. w |-> (n \div Base ^ (w - i)) % Base]

RECURSIVE FromBE(_)
FromBE(b) == IF b = <<>> THEN 0 ELSE b[Len(b)] + Base * FromBE(Front(b))

ChunkSize_U16AsByte(t) == IF t = "U16" THEN 1 ELSE Width[t]

LE(n, w) == [i \in 1 .. w |-> (n \div Base ^ (i - 1)) % Base]

RECURSIVE FromLE(_)
FromLE(b) == IF b = <<>> THEN 0 ELSE Head(b) + Base * FromLE(Tail(b))

\* sync: an integer is its little-endian bytes, a vector the concatenation
\* of its elements' bytes.
RECURSIVE sync(_)
sync(x) == IF x.tag = "Vector"
           THEN FlattenSeq([i \in DOMAIN x.vs |-> sync(x.vs[i])])
           ELSE LE(x.v, Width[x.tag])

\* The chunk size commit cuts a vector's bytes into, from its element tag.
ChunkSize(t) == Width[t]

\* commit: decode bytes back into a value of x's tag; element i of a vector
\* is decoded from bytes[i*chunk .. (i+1)*chunk) (0-based in the code).
RECURSIVE commit(_, _)
commit(bytes, x) ==
  IF x.tag = "Vector"
  THEN LET cs == ChunkSize(x.elem)
       IN [x EXCEPT !.vs = [i \in DOMAIN x.vs |->
              commit(SubSeq(bytes, (i - 1) * cs + 1, i * cs), x.vs[i])]]
  ELSE [x EXCEPT !.v = FromLE(bytes)]

\* bytes.try_into().unwrap() fails on a length other than the tag's width;
\* slicing a vector's chunk fails past the end of the bytes.
CommitPanics(bytes, x) ==
  IF x.tag = "Vector"
  THEN Len(x.vs) * ChunkSize(x.elem) > Len(bytes)
  ELSE Len(bytes) # Width[x.tag]

(***************************************************************************)
(* Initial values: every tag at 0, 1 and its maximum, booleans, addresses  *)
(* and short vectors.                                                      *)
(***************************************************************************)
InitInts(t) == {IntArg(t, n) : n \in {0, 1, MaxOf(t)}}

InitValues ==
  {[tag |-> "Bool", v |-> b] : b \in BOOLEAN}
  \cup {[tag |-> "Address", v |-> a] : a \in Addresses \cup Callers}
  \cup UNION {InitInts(t) : t \in IntTags}
  \cup UNION {{VecArg(t, s) :
                 s \in UNION {[1 .. n -> {IntArg(t, 0), IntArg(t, MaxOf(t))}] :
                                n \in 0 .. MaxVecLen}} : t \in VecElemTags}

TypeOK ==
  /\ \/ value.tag = "Bool" /\ value.v \in BOOLEAN
     \/ value.tag = "Address" /\ value.v \in Addresses \cup Callers
     \/ IsInt(value)
     \/ IsVec(value)
  /\ result \in {"None", "Mutated", "Skipped"}
  /\ panicked \in BOOLEAN
  /\ magicPool \subseteq MagicCandidates

Init ==
  /\ value \in InitValues
  /\ result = "None"
  /\ panicked = FALSE
  /\ magicPool \in SUBSET MagicCandidates

\* Write bytes back with commit and report res; commit's unwrap may panic.
Store(bytes, res) ==
  IF CommitPanics(bytes, value)
  THEN panicked' = TRUE /\ UNCHANGED <<value, result>>
  ELSE value' = commit(bytes, value) /\ result' = res /\ UNCHANGED panicked

(***************************************************************************)
(* MagicNumberMutator::mutate on a byte buffer: the pairs <<bytes, result>> *)
(* it may leave.  The pool is filtered to entries of the input's length,   *)
(* so both padding branches copy the entry itself.                         *)
(***************************************************************************)
MagicNumberMutator(input) ==
  LET fit == {m \in magicPool : Len(m) = Len(input)}
  IN IF fit = {} THEN {<<input, "Skipped">>}
     ELSE {<<m, "Mutated">> : m \in fit}

(***************************************************************************)
(* mutate, one arm per tag.                                                *)
(***************************************************************************)
MutateBool ==
  /\ value.tag = "Bool"
  /\ \E b \in BOOLEAN : value' = [value EXCEPT !.v = b]
  /\ result' = "Mutated"
  /\ UNCHANGED <<panicked, magicPool>>

\* Mutant form: a draw range two past u8::MAX.
U8Draws_Wide == 0 .. MaxOf("U8") + 1

\* below_or_zero(u8::MAX as usize): 0 .. MAX - 1.
U8Draws == 0 .. MaxOf("U8") - 1

\* mutate_u!: resample until the value differs.
MutateU8 ==
  /\ value.tag = "U8"
  /\ \E n \in U8Draws \ {value.v} :
        value' = [value EXCEPT !.v = n]
  /\ result' = "Mutated"
  /\ UNCHANGED <<panicked, magicPool>>

(***************************************************************************)
(* mutate_by, for U16 .. U256.  The havoc MagicNumberMutator runs on       *)
(* MutableValue.bytes, which MutableValue::new leaves empty and nothing    *)
(* fills, while the width branches work on the local bytes = sync(value).  *)
(* The DwordInterestingMutator of the last branch also runs on the empty   *)
(* buffer, which libafl skips.  4, 8 and 16 byte values are resampled with *)
(* a probability, or keep their bytes and the havoc result.                *)
(***************************************************************************)
MutateBy(split) ==
  /\ value.tag \in AllIntTags \ {"U8"}
  /\ LET bytes == sync(value)
         w == Len(bytes)
     IN \E h \in MagicNumberMutator(<<>>) :
          \/ w \in {4, 8, 16} /\ Store(bytes, h[2])
          \/ w = 4 /\ \E r \in 0 .. SmallIntBound - 1 : Store(LE(r, 4), "Mutated")
          \/ w = 8 /\ \E k \in 0 .. 8 * ByteBits - 1 : Store(LE(2 ^ k, 8), "Mutated")
          \/ w = 16 /\ \E k \in 0 .. 16 * ByteBits - 1 : Store(LE(2 ^ k, 16), "Mutated")
          \/ w \notin {4, 8, 16} /\ split /\ magicPool = {}
             /\ Store(LE(0, 8), "Mutated")
          \/ w \notin {4, 8, 16} /\ ~(split /\ magicPool = {})
             /\ Store(bytes, "Skipped")
  /\ UNCHANGED magicPool

MutateAddress ==
  /\ value.tag = "Address"
  /\ \E a \in Addresses \cup Callers : value' = [value EXCEPT !.v = a]
  /\ result' = "Mutated"
  /\ UNCHANGED <<panicked, magicPool>>

\* Vectors fall through the match of mutate and are skipped.
MutateOther ==
  /\ value.tag = "Vector"
  /\ result' = "Skipped"
  /\ UNCHANGED <<value, panicked, magicPool>>

Mutate ==
  \/ MutateBool \/ MutateU8 \/ MutateAddress \/ MutateOther
  \/ \E split \in BOOLEAN : MutateBy(split)

(***************************************************************************)
(* sample_magic_number: integers and integer vectors are overwritten with  *)
(* a pool entry of their byte length; anything else is skipped.            *)
(***************************************************************************)
Sampleable(x) == x.tag \in AllIntTags \/ x.tag = "Vector"

SampleMagicNumber ==
  /\ LET fit == {m \in magicPool : Len(m) = Len(sync(value))}
     IN \/ ~Sampleable(value)
           /\ result' = "Skipped" /\ UNCHANGED <<value, panicked>>
        \/ Sampleable(value) /\ fit = {}
           /\ result' = "Skipped" /\ UNCHANGED <<value, panicked>>
        \/ Sampleable(value) /\ \E m \in fit : Store(m, "Mutated")
  /\ UNCHANGED magicPool

Next == ~panicked /\ (Mutate \/ SampleMagicNumber)

Spec == Init /\ [][Next]_vars

(***************************************************************************)
(* Properties.                                                             *)
(***************************************************************************)

\* Round trip law of sync and commit (spec section 8): whatever value the
\* mutator holds after any sequence of mutate and sample_magic_number
\* calls, committing the bytes sync produces for it gives back the same
\* value; for an integer within its width and for every integer vector.
RoundTrip ==
  value.tag \notin {"Bool", "Address"} => commit(sync(value), value) = value

\* A call of mutate or sample_magic_number that reports Skipped has left the
\* value as it was: mutate_by writes commit(sync(value)) back even on the
\* paths where nothing was mutated, so this rests on the round trip.
SkippedLeavesValue == [][result' = "Skipped" => value' = value]_vars

\* A successful sample_magic_number leaves a value whose bytes are exactly
\* the pool entry it drew: commit cuts a vector into the right chunks.
SampledValueIsPoolEntry ==
  [][SampleMagicNumber /\ result' = "Mutated" => sync(value') \in magicPool]_vars

\* The value mutator never aborts the fuzzer: no mutation leaves bytes of a
\* length commit cannot decode (spec 4.2: never corrupting the declared width).
NoPanic == ~panicked

=============================================================================
