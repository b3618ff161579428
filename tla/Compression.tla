----------------------------- MODULE Compression -----------------------------
(***************************************************************************)
(* zlibDecompress and lzoDecompress (compression.cpp): the loops around    *)
(* the libraries' decoders.  What a byte of decoded data is does not       *)
(* matter, only where it belongs: output is a function from the places     *)
(* written to the places in the decoded extent that they should have.      *)
(***************************************************************************)
EXTENDS Integers, Sequences, FiniteSetsExt

CONSTANTS
    LzoExtents,     \* lzo data by its address: [total, segments]
    ZlibExtents,    \* zlib data by its address: a sequence of calls
    HeaderSize,     \* the size of a length in lzo data, 4 in the code
    OutLens         \* what lzoOutLen may hold before it is first assigned

(***************************************************************************)
(* lzo data is a length of all of it, total, and then segments, each with  *)
(* a length of its own.  A segment is [at, inLen, from, outLen]: at is the *)
(* place of its length, from the place where its decoded data belongs.     *)
(* Between two segments there may be padding.                              *)
(*                                                                         *)
(* zlib data is described by what the calls of inflate do when they are    *)
(* given one byte and room for one byte: each is a set, with "in" if the   *)
(* byte is taken and "out" if one is produced.  The last one returns       *)
(* Z_STREAM_END.                                                           *)
(***************************************************************************)

ASSUME LzoLengths == HeaderSize \in Nat \ {0} /\ OutLens \subseteq Nat

(* What Btrfs writes: in order, the segments are the n bytes of a decoded  *)
(* extent cut into pieces, none larger than the one before (all are a page *)
(* but the last), and the data ends where the last one does, within the    *)
(* extent's cSize bytes.                                                   *)
Behind(g) == g.at + HeaderSize + g.inLen

LzoInOrder(x, s, cSize, n) ==
    LET m == Cardinality(x.segments)
    IN  /\ \A g \in x.segments : \E k \in 1 .. m : s[k] = g
        /\ s[1].at = HeaderSize /\ s[1].from = 0
        /\ \A k \in 1 .. m - 1 :
              /\ s[k + 1].at >= Behind(s[k])
              /\ s[k + 1].from = s[k].from + s[k].outLen
              /\ s[k + 1].outLen <= s[k].outLen
        /\ x.total = Behind(s[m]) /\ x.total <= cSize
        /\ n = s[m].from + s[m].outLen

LzoWritten(x, cSize, n) ==
    /\ IsFiniteSet(x.segments) /\ x.segments # {}
    /\ x.segments \subseteq [at : Nat, inLen : Nat, from : Nat, outLen : Nat]
    /\ \E s \in [1 .. Cardinality(x.segments) -> x.segments] : LzoInOrder(x, s, cSize, n)

(* The variables of lzoDecompress before its loop; compressed is counted   *)
(* from the start of the extent.                                           *)
LzoStart(outLen) ==
    [lzoBytesRead |-> 0, compressed |-> HeaderSize, lzoBytesWritten |-> 0,
     lzoOutLen |-> outLen, output |-> <<>>, error |-> FALSE]

(* lzo1x_decompress_safe takes lzoOutLen as the room there is.  A length   *)
(* read from the wrong place makes it fail.                                *)
Decodable(x, t) ==
    {g \in x.segments : g.at = t.compressed /\ g.outLen <= t.lzoOutLen}

(* A turn that decodes the segment g: the pointers and the counters.       *)
TakeSegment(t, g, read, written) ==
    LET target == t.lzoBytesWritten .. t.lzoBytesWritten + g.outLen - 1
    IN  [lzoBytesRead |-> t.lzoBytesRead + read,
         compressed |-> t.compressed + HeaderSize + g.inLen,
         lzoBytesWritten |-> t.lzoBytesWritten + written,
         lzoOutLen |-> g.outLen,
         output |-> [p \in DOMAIN t.output \cup target |->
                       IF p \in target THEN g.from + (p - t.lzoBytesWritten)
                       ELSE t.output[p]],
         error |-> FALSE]

(* Seeded faults: the length of a segment is not counted, or the output    *)
(* advances by the room there was.                                         *)
UncountedTurn(x, t) ==
    IF Decodable(x, t) = {} THEN [t EXCEPT !.error = TRUE]
    ELSE LET g == CHOOSE h \in Decodable(x, t) : TRUE
         IN  TakeSegment(t, g, g.inLen, g.outLen)

TurnByRoom(x, t) ==
    IF Decodable(x, t) = {} THEN [t EXCEPT !.error = TRUE]
    ELSE LET g == CHOOSE h \in Decodable(x, t) : TRUE
         IN  TakeSegment(t, g, g.inLen + HeaderSize, t.lzoOutLen)

(* One turn of the loop. *)
LzoTurn(x, t) ==
    IF Decodable(x, t) = {} THEN [t EXCEPT !.error = TRUE]
    ELSE LET g == CHOOSE h \in Decodable(x, t) : TRUE
         IN  TakeSegment(t, g, g.inLen + HeaderSize, g.outLen)

LzoLoops(x, t) == ~t.error /\ t.lzoBytesRead < x.total - HeaderSize

(* The variables after each turn, and after the loop, which takes a turn   *)
(* per segment or ends.                                                    *)
LzoTurns(x, outLen) ==
    LET after[k \in 0 .. Cardinality(x.segments) + 1] ==
            IF k = 0 THEN LzoStart(outLen)
            ELSE IF LzoLoops(x, after[k - 1]) THEN LzoTurn(x, after[k - 1])
            ELSE after[k - 1]
    IN  after

LzoEnd(x, outLen) == LzoTurns(x, outLen)[Cardinality(x.segments) + 1]

(* The size of the output is compared with the room after the loop.        *)
lzoDecompress(x, cSize, dSize, outLen) ==
    LET t == LzoEnd(x, outLen)
    IN  IF cSize < HeaderSize
        THEN [failed |-> TRUE, output |-> <<>>]
        ELSE [failed |-> t.error \/ t.lzoBytesWritten > dSize, output |-> t.output]

(* total_in and total_out after k calls. *)
Total(calls, k, way) == Cardinality({j \in 1 .. k : way \in calls[j]})

(* A stream has produced the n bytes when it ends, and before the extent   *)
(* does: it ends with a checksum of them.                                  *)
ZlibWritten(calls, cSize, n) ==
    /\ Len(calls) \in Nat
    /\ \A k \in 0 .. Len(calls) :
          k = Len(calls) \/ Total(calls, k, "in") >= cSize => Total(calls, k, "out") >= n

(* The loop ends when the input or the room is used up, or the stream ends. *)
zlibDecompress(calls, cSize, dSize) ==
    LET ends == {k \in 0 .. Len(calls) :
                    \/ Total(calls, k, "in") >= cSize
                    \/ Total(calls, k, "out") >= dSize
                    \/ k = Len(calls)}
    IN  [failed |-> FALSE,
         output |-> [p \in 0 .. Total(calls, Min(ends), "out") - 1 |-> p]]

=============================================================================
