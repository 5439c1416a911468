------------------------------ MODULE LineBuffer ------------------------------
(***************************************************************************)
(* Util.PooledLineBuffer: the bytes a stratum client sends arrive in       *)
(* chunks, and the buffer makes lines of them.  A chunk is copied into a   *)
(* rented array, which may be longer and holds whatever its last user left *)
(* in it.  Each turn of the loop of Receive is a step.  forceNewLine,      *)
(* which only the daemon's websocket uses, is left out.                    *)
(***************************************************************************)
EXTENDS Integers, Sequences, FiniteSets, SequencesExt

CONSTANTS
    Bytes,        \* bytes other than the newline
    NL,           \* 0xa
    Zero,         \* what Array.Clear writes
    MaxLength,
    MaxChunk,     \* longest chunk a read yields
    MaxInput,     \* bound: bytes received in all
    Leftovers     \* what may follow the chunk in a rented array

ASSUME LineBufferAssumption ==
    /\ NL \notin Bytes /\ Zero # NL
    /\ MaxLength \in Nat /\ MaxChunk \in Nat /\ MaxInput \in Nat
    /\ Leftovers \subseteq Seq(Bytes \cup {NL})

VARIABLES
    recvQueue,              \* the segments of the line that is not complete
    lines,                  \* history: what onNext was called with
    error,                  \* onError was called
    input,                  \* history: the bytes received
    buf, bufferSize,        \* the rented array, and the length of the chunk in it
    prevIndex, remaining    \* how far the loop is in it

lineVars == <<recvQueue, lines, error, input, buf, bufferSize, prevIndex, remaining>>

LineInit ==
    /\ recvQueue = <<>> /\ lines = <<>> /\ error = FALSE /\ input = <<>>
    /\ buf = <<>> /\ bufferSize = 0 /\ prevIndex = 0 /\ remaining = 0

\* Mutant: the rest of the rented array is not cleared.
Rented_Dirty(chunk, left) == chunk \o left

Rented(chunk, left) == chunk \o [i \in DOMAIN left |-> Zero]

\* After an error the client is disconnected, but a read may come before that.
Receive(chunk, left) ==
    /\ buf = <<>>
    /\ input' = input \o chunk
    /\ IF Len(chunk) > MaxLength
       THEN error' = TRUE /\ UNCHANGED <<buf, bufferSize, remaining>>
       ELSE /\ buf' = Rented(chunk, left)
            /\ bufferSize' = Len(chunk) /\ remaining' = Len(chunk)
            /\ UNCHANGED error
    /\ UNCHANGED <<recvQueue, lines, prevIndex>>

\* buf.IndexOf, in all of the array.
Newlines == {i \in prevIndex + 1 .. Len(buf) : buf[i] = NL}
Index == CHOOSE i \in Newlines : \A j \in Newlines : i <= j
Found == remaining > 0 /\ Newlines # {}
Piece == SubSeq(buf, prevIndex + 1, Index - 1)

Emit(line) == lines' = IF line = <<>> THEN lines ELSE Append(lines, line)

Leave == buf' = <<>> /\ bufferSize' = 0 /\ prevIndex' = 0 /\ remaining' = 0

\* The chunk ends with the line, and nothing is queued.
AtEnd == Index = bufferSize /\ recvQueue = <<>>

FastPath ==
    /\ Found /\ AtEnd
    /\ Emit(Piece) /\ Leave
    /\ UNCHANGED <<recvQueue, error, input>>

Assemble ==
    /\ Found /\ ~AtEnd
    /\ Emit(FlattenSeq(recvQueue) \o Piece)
    /\ recvQueue' = <<>>
    /\ prevIndex' = Index /\ remaining' = remaining - Len(Piece) - 1
    /\ UNCHANGED <<error, input, buf, bufferSize>>

TooMuch(segments) == Len(FlattenSeq(segments)) > MaxLength

Store ==
    /\ remaining > 0 /\ Newlines = {}
    /\ recvQueue' = Append(recvQueue, SubSeq(buf, prevIndex + 1, bufferSize))
    /\ error' = (error \/ TooMuch(recvQueue'))
    /\ Leave
    /\ UNCHANGED <<lines, input>>

\* The loop has come to the end of the chunk.
Done ==
    /\ buf # <<>> /\ remaining <= 0
    /\ Leave
    /\ UNCHANGED <<recvQueue, lines, error, input>>

LineNext ==
    \/ \E n \in 1 .. MaxChunk : \E chunk \in [1 .. n -> Bytes \cup {NL}], left \in Leftovers :
          Len(input) + n <= MaxInput /\ Receive(chunk, left)
    \/ FastPath \/ Assemble \/ Store \/ Done

LineSpec == LineInit /\ [][LineNext]_lineVars

-----------------------------------------------------------------------------
(* What was sent, by definition.                                           *)

\* The bytes from i to j are a line: no newline is in them, one ends them, and
\* one, or nothing, is before them.
IsLine(i, j) ==
    /\ \A k \in i .. j : input[k] # NL
    /\ input[j + 1] = NL
    /\ i = 1 \/ input[i - 1] = NL

\* Where lines end that are not empty, and how many end up to there.
LineEnds == {j \in 1 .. Len(input) - 1 : input[j] # NL /\ input[j + 1] = NL}
LineNumber(j) == Cardinality({k \in LineEnds : k <= j})

LastNewline == Max({0} \cup {i \in DOMAIN input : input[i] = NL})
Unfinished == SubSeq(input, LastNewline + 1, Len(input))

\* However the stream is cut into chunks, the lines passed on are the lines that
\* were sent, without the empty ones, and the rest waits in the queue; nothing
\* of another client's bytes is in them.  "Prevent flooding": what waits is no
\* longer than MaxLength, and what is passed on is short of twice that
\* (PooledLineBuffer.Receive).
LinesAreSent ==
    ~error /\ buf = <<>> =>
        /\ Len(lines) = Cardinality(LineEnds)
        /\ \A j \in LineEnds : \A i \in 1 .. j :
              IsLine(i, j) => lines[LineNumber(j)] = SubSeq(input, i, j)
        /\ FlattenSeq(recvQueue) = Unfinished
        /\ ~TooMuch(recvQueue)
        /\ \A k \in DOMAIN lines : Len(lines[k]) < 2 * MaxLength
=============================================================================
