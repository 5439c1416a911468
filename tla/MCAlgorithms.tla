----------------------------- MODULE MCAlgorithms -----------------------------
(* The three algorithms that share no state with anything: the ring buffer,   *)
(* the line buffer and the proof of work.  A behaviour is one of one of them. *)
EXTENDS CircularBuffer, LineBuffer, Equihash

CONSTANTS a, b, nl, zero

VARIABLE part                                        \* the one that moves

\* A rented array may be longer than the chunk by one byte of another client.
MCLeftovers == {<<>>, <<nl>>, <<b>>}

\* Bytes of two bits: four indices of three bits fill six of them, and a hash of
\* three pieces three.  Hashes of even and odd indices differ by the same value,
\* so that all pairs of such pairs are proofs;
Even == << <<0, 0, 0, 0, 1, 2>>, <<1, 0, 0, 1, 1, 2>>,
           <<2, 0, 0, 2, 1, 2>>, <<3, 0, 0, 3, 1, 2>> >>
\* or they are 0 and miss 0 on one level.
Near == << <<0, 0, 0, 0, 0, 0>>, <<0, 0, 0, 0, 0, 0>>,
           <<1, 2, 3, 1, 2, 0>>, <<2, 1, 1, 2, 3, 1>> >>

MCHashes ==
    {[g \in 0 .. 3 |-> [n \in 1 .. 6 |-> <<table[g + 1][n] \div 2, table[g + 1][n] % 2>>]] :
        table \in {Even, Near}}

PartsInit == part \in {"buffer", "lines", "proof"} /\ BufferInit /\ LineInit /\ EquihashInit

PartsNext ==
    \/ part = "buffer" /\ BufferNext /\ UNCHANGED <<part, lineVars, equihashVars>>
    \/ part = "lines" /\ LineNext /\ UNCHANGED <<part, bufferVars, equihashVars>>
    \/ part = "proof" /\ EquihashNext /\ UNCHANGED <<part, bufferVars, lineVars>>

PartsSpec == PartsInit /\ [][PartsNext]_<<part, bufferVars, lineVars, equihashVars>>
=============================================================================
