------------------------------- MODULE Equihash -------------------------------
(***************************************************************************)
(* The proof of work of a share: the native library verifies the Equihash  *)
(* solution (equi210.cpp), then AionJob compares the hash of the header    *)
(* with the target of the difficulty (AionUtils.diffToTarget).  The        *)
(* parameters are constants; the code has 210 and 9, bytes of 8 bits and   *)
(* words of 32.  Bytes, words and the pieces of a hash are functions from  *)
(* positions to bits, the highest first; indices are numbers, where the    *)
(* code has big-endian byte strings of fixed width.                        *)
(***************************************************************************)
EXTENDS Integers, Sequences, FiniteSets, SequencesExt

CONSTANTS
    K,
    CollisionBitLength,     \* N / (K + 1)
    IndicesPerHashOutput, HashLen,
    ByteBits, WordBits,
    GenerateHash,           \* the possible blake2b states: functions from an input to bytes
    DigestBits,             \* bits of the hash of a header, and of a target
    Difficulties            \* of workers, rounded down

Pow2[n \in 0 .. K + DigestBits] == IF n = 0 THEN 1 ELSE 2 * Pow2[n - 1]

Bit == {0, 1}
Byte == [1 .. ByteBits -> Bit]

\* The number that these bits are.
Value(bits) ==
    LET value[n \in 0 .. Len(bits)] == IF n = 0 THEN 0 ELSE 2 * value[n - 1] + bits[n]
    IN value[Len(bits)]

Indices == Pow2[K]
SolutionWidth == (Indices * (CollisionBitLength + 1)) \div ByteBits
MinimalSolutions == [1 .. SolutionWidth -> Byte]

\* A byte yields one piece at most, and what is left of the pieces fits a word;
\* every index has a hash.
ASSUME EquihashAssumption ==
    /\ {K, IndicesPerHashOutput, HashLen, ByteBits, WordBits, DigestBits} \subseteq Nat \ {0}
    /\ CollisionBitLength \in Nat
    /\ CollisionBitLength >= ByteBits /\ CollisionBitLength + ByteBits <= WordBits
    /\ SolutionWidth * ByteBits = Indices * (CollisionBitLength + 1)
    /\ HashLen * ByteBits >= (K + 1) * CollisionBitLength
    /\ \A b \in GenerateHash, index \in [1 .. CollisionBitLength + 1 -> Bit] :
          b[Value(index) \div IndicesPerHashOutput] \in [1 .. IndicesPerHashOutput * HashLen -> Byte]
    /\ Difficulties \subseteq Nat \ {0}

VARIABLES
    base, soln,     \* arguments of IsValidSolution
    X,              \* its rows
    phase,          \* "new", "rows", "solved", "invalid", "low", "accepted"
    difficulty, digest  \* of the worker, and of the header with the solution

equihashVars == <<base, soln, X, phase, difficulty, digest>>

EquihashInit ==
    /\ base = <<>> /\ soln = <<>> /\ X = <<>> /\ phase = "new"
    /\ difficulty = 0 /\ digest = 0

-----------------------------------------------------------------------------
(* The verifier.                                                           *)

\* The accumulator, shifted to the left by a byte.
ShiftIn(acc, byte) ==
    [k \in 1 .. WordBits |-> IF k <= WordBits - ByteBits THEN acc[k + ByteBits]
                             ELSE byte[k - (WordBits - ByteBits)]]

\* One turn of the loop of ExpandArray: a piece is written when the accumulator has one.
Expanded(turn, byte, bitLen) ==
    LET acc == ShiftIn(turn.acc, byte)
        bits == turn.bits + ByteBits
    IN IF bits >= bitLen
       THEN [acc |-> acc, bits |-> bits - bitLen,
             out |-> Append(turn.out, [k \in 1 .. bitLen |-> acc[WordBits - bits + k]])]
       ELSE [acc |-> acc, bits |-> bits, out |-> turn.out]

\* Cuts a string of bytes into pieces of bitLen bits.
ExpandArray(in, bitLen) ==
    LET turn[n \in 0 .. Len(in)] ==
            IF n = 0 THEN [acc |-> [k \in 1 .. WordBits |-> 0], bits |-> 0, out |-> <<>>]
            ELSE Expanded(turn[n - 1], in[n], bitLen)
    IN turn[Len(in)].out

GetIndicesFromMinimal(minimal) ==
    LET pieces == ExpandArray(minimal, CollisionBitLength + 1)
    IN [n \in 1 .. Len(pieces) |-> Value(pieces[n])]

\* The hash of an index: its part of the output of GenerateHash.
HashOf(b, i) ==
    LET at == (i % IndicesPerHashOutput) * HashLen
    IN SubSeq(b[i \div IndicesPerHashOutput], at + 1, at + HashLen)

FullStepRow(b, i) ==
    [hash |-> SubSeq(ExpandArray(HashOf(b, i), CollisionBitLength), 1, K + 1), indices |-> <<i>>]

HasCollision(a, b) == a.hash[1] = b.hash[1]

IndicesBefore(a, b) ==
    \E n \in DOMAIN a.indices : /\ a.indices[n] < b.indices[n]
                                /\ \A m \in 1 .. n - 1 : a.indices[m] = b.indices[m]

\* Mutant: only the first indices of the rows are compared.
DistinctIndices_First(a, b) == a.indices[1] # b.indices[1]

DistinctIndices(a, b) == ToSet(a.indices) \cap ToSet(b.indices) = {}

Xor(c, d) == [k \in DOMAIN c |-> IF c[k] = d[k] THEN 0 ELSE 1]

Merge(a, b) ==
    [hash |-> [n \in 1 .. Len(a.hash) - 1 |-> Xor(a.hash[n + 1], b.hash[n + 1])],
     indices |-> IF IndicesBefore(a, b) THEN a.indices \o b.indices ELSE b.indices \o a.indices]

\* IsValidSolution, up to the first rows.
Unpack(b, s) ==
    /\ phase = "new"
    /\ base' = b /\ soln' = s
    /\ LET indices == GetIndicesFromMinimal(s) IN
       X' = [n \in 1 .. Len(indices) |-> FullStepRow(b, indices[n])]
    /\ phase' = "rows"
    /\ UNCHANGED <<difficulty, digest>>

Pairs == 1 .. Len(X) \div 2
Left(p) == X[2 * p - 1]
Right(p) == X[2 * p]

Round ==
    /\ phase = "rows" /\ Len(X) > 1
    /\ IF \A p \in Pairs : /\ HasCollision(Left(p), Right(p))
                           /\ ~IndicesBefore(Right(p), Left(p))
                           /\ DistinctIndices(Left(p), Right(p))
       THEN X' = [p \in Pairs |-> Merge(Left(p), Right(p))] /\ UNCHANGED phase
       ELSE phase' = "invalid" /\ UNCHANGED X
    /\ UNCHANGED <<base, soln, difficulty, digest>>

IsZero(row) == \A n \in DOMAIN row.hash : \A k \in DOMAIN row.hash[n] : row.hash[n][k] = 0

Finish ==
    /\ phase = "rows" /\ Len(X) = 1
    /\ phase' = IF IsZero(X[1]) THEN "solved" ELSE "invalid"
    /\ UNCHANGED <<base, soln, X, difficulty, digest>>

-----------------------------------------------------------------------------
(* The target.                                                             *)

\* A target that does not fit is sent as 0 ("bug").
DiffToTarget(d) ==
    LET target == Pow2[DigestBits] \div d IN IF target < Pow2[DigestBits] THEN target ELSE 0

\* new BigInteger(byte[]): the highest bit is the sign.
ToSigned(n) == IF n < Pow2[DigestBits - 1] THEN n ELSE n - Pow2[DigestBits]

\* The digest is read with a 0 appended, the target without.  What becomes of a
\* low share is in AionJobs.
CompareDigest(d, h) ==
    /\ phase = "solved"
    /\ difficulty' = d /\ digest' = h
    /\ phase' = IF ToSigned(DiffToTarget(d)) <= h THEN "low" ELSE "accepted"
    /\ UNCHANGED <<base, soln, X>>

EquihashNext ==
    \/ \E b \in GenerateHash, s \in MinimalSolutions : Unpack(b, s)
    \/ Round \/ Finish
    \/ \E d \in Difficulties, h \in 0 .. Pow2[DigestBits] - 1 : CompareDigest(d, h)

EquihashSpec == EquihashInit /\ [][EquihashNext]_equihashVars

-----------------------------------------------------------------------------
(* What a proof of work is, by definition.                                 *)

\* The k-th bit of these bytes, and the n-th of their slices of w bits.
BitAt(bytes, k) == bytes[((k - 1) \div ByteBits) + 1][((k - 1) % ByteBits) + 1]
Slice(bytes, w, n) == [k \in 1 .. w |-> BitAt(bytes, w * (n - 1) + k)]

\* The n-th index of solution s, and a slice of its hash.
Leaf(s, n) == Value(Slice(s, CollisionBitLength + 1, n))
HashSlice(b, s, n, level) == Slice(HashOf(b, Leaf(s, n)), CollisionBitLength, level)

\* The leaves of the t-th tree with 2^level leaves.
Tree(level, t) == Pow2[level] * t + 1 .. Pow2[level] * (t + 1)
Trees(level) == 0 .. Pow2[K - level] - 1

Ordered(s, level, t) == Leaf(s, Pow2[level] * t + 1) < Leaf(s, Pow2[level] * t + Pow2[level - 1] + 1)

\* The exclusive or of these slices is 0: each bit is set an even number of times.
Collides(b, s, leaves, level) ==
    \A bit \in 1 .. CollisionBitLength :
        Cardinality({n \in leaves : HashSlice(b, s, n, level)[bit] = 1}) % 2 = 0

IsProof(b, s) ==
    /\ \A m, n \in 1 .. Indices : Leaf(s, m) = Leaf(s, n) => m = n
    /\ \A level \in 1 .. K : \A t \in Trees(level) :
          Ordered(s, level, t) /\ Collides(b, s, Tree(level, t), level)
    /\ Collides(b, s, Tree(K, 0), K + 1)

\* A share is found valid exactly when its indices are distinct and ordered and
\* their hashes collide on every level of the tree (Equihash.IsValidSolution),
\* and passes exactly if its digest is below 2^256 divided by the difficulty; at
\* difficulties below 3 none does (AionJob.ProcessShareInternal, 129-144).
VerdictIsRight ==
    /\ phase = "invalid" => ~IsProof(base, soln)
    /\ phase \in {"solved", "low", "accepted"} => IsProof(base, soln)
    /\ phase \in {"low", "accepted"} =>
          (phase = "accepted" <=> difficulty >= 3 /\ (digest + 1) * difficulty <= Pow2[DigestBits])
=============================================================================
