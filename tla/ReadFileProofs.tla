--------------------------- MODULE ReadFileProofs ---------------------------
(***************************************************************************)
(* Read requests, for any volume, any files whose inline data is in their  *)
(* last extent, and any request: the caller's buffer is respected; what it *)
(* gets of a file that was written once are the file's bytes; decoding     *)
(* keeps to its buffers and fails only for cause.                          *)
(***************************************************************************)
EXTENDS ReadFile, ChunkMapProofs, FiniteSetTheorems

(* While the loop runs, the request is what remains of the caller's, and   *)
(* what has been read is what lies before it; an inline extent breaks the  *)
(* latter, but is the last one.                                            *)
LoopInv ==
    pc = "loop" =>
        /\ file \in Files
        /\ offset + numberOfBytesToRead = readEnd
        /\ i <= Len(file.extents) => numberOfBytesRead = offset - readBegin

RequestSize == readEnd - readBegin \in 0 .. DWORDs - 1

ReadInv == TypeOK /\ LoopInv /\ RequestSize /\ BufferRespected

----------------------------------------------------------------------------

(* What the loop knows of the extent it is at.                             *)
LEMMA ExtentFacts ==
    ASSUME ReadInv, AtExtent
    PROVE  /\ extent.key \in Nat /\ extent.n \in Nat
           /\ Len(file.extents) \in Nat /\ i \in 1 .. Len(file.extents)
           /\ extent.type = "inline" => i = Len(file.extents)
<1>1. file \in Files
  BY DEF ReadInv, LoopInv, AtExtent
<1>2. Len(file.extents) \in Nat /\ DOMAIN file.extents = 1 .. Len(file.extents)
  BY <1>1, FilesDescribed
<1>3. i \in DOMAIN file.extents
  BY <1>2 DEF ReadInv, TypeOK, AtExtent
<1> QED
  BY <1>1, <1>2, <1>3, FilesDescribed DEF extent

(* The part of the request an extent serves is no more than what remains   *)
(* of the request.                                                         *)
LEMMA LengthBounded ==
    ASSUME ReadInv, AtExtent, Touched(extent)
    PROVE  Length(extent) \in 0 .. numberOfBytesToRead
<1>1. /\ offset \in Nat /\ numberOfBytesToRead \in Nat
      /\ extent.key \in Nat /\ extent.n \in Nat
  BY ExtentFacts, DWordsNatural DEF ReadInv, TypeOK
<1>2. ASSUME NEW x, x.key \in Nat, x.n \in Nat, Touched(x)
      PROVE  Length(x) \in 0 .. numberOfBytesToRead
  <2>1. CASE span(x)
    BY <1>1, <1>2, <2>1 DEF span, hasFirst, hasLast, InRequest, Length
  <2>2. CASE ~ span(x) /\ within(x)
    BY <1>1, <2>2 DEF Length
  <2>3. CASE ~ span(x) /\ ~ within(x) /\ first(x)
    BY <1>1, <1>2, <2>3 DEF first, hasFirst, hasLast, InRequest, Length
  <2>4. CASE ~ span(x) /\ ~ within(x) /\ ~ first(x)
    <3>1. last(x)
      BY <1>2, <2>4 DEF Touched
    <3>2. Length(x) = offset + numberOfBytesToRead - x.key
      BY <2>4 DEF Length
    <3> QED
      BY <1>1, <1>2, <3>1, <3>2 DEF last, hasFirst, hasLast, InRequest
  <2> QED
    BY <2>1, <2>2, <2>3, <2>4
<1> QED
  BY <1>1, <1>2

(* The last lines of the loop, after a copy that stays in the buffer.      *)
LEMMA AdvanceKeeps ==
    ASSUME ReadInv, AtExtent, Touched(extent), NEW read \in Int, Advance(read),
           extent.type # "inline" => read = numberOfBytesRead,
           UNCHANGED mapVars, BufferRespected'
    PROVE  ReadInv'
<1> DEFINE len == Length(extent)
<1>1. len \in 0 .. numberOfBytesToRead
  BY LengthBounded
<1>2. /\ pc = "loop" /\ pc' = pc
      /\ UNCHANGED <<file, readBegin, readEnd, result>>
      /\ numberOfBytesToRead' = numberOfBytesToRead - len
      /\ numberOfBytesRead' = (read + len) % DWORDs
      /\ offset' = offset + len
      /\ i' = IF last(extent) \/ within(extent) THEN Len(file.extents) + 1 ELSE i + 1
  BY DEF Advance, AtExtent, call
<1> HIDE DEF len
<1>3. /\ readBegin \in Nat /\ readEnd \in Nat /\ offset \in readBegin .. readEnd
      /\ numberOfBytesToRead \in 0 .. DWORDs - 1
      /\ offset + numberOfBytesToRead = readEnd /\ file \in Files
      /\ numberOfBytesRead = offset - readBegin
      /\ readEnd - readBegin \in 0 .. DWORDs - 1
      /\ DWORDs \in Nat \ {0}
  BY <1>2, ExtentFacts, DWordsNatural DEF ReadInv, TypeOK, LoopInv, RequestSize
<1>4. Len(file.extents) \in Nat /\ i \in 1 .. Len(file.extents)
      /\ (extent.type = "inline" => i = Len(file.extents))
  BY ExtentFacts
<1>5. numberOfBytesRead' \in 0 .. DWORDs - 1
  BY <1>1, <1>2, <1>3
<1>6. TypeOK'
  <2>1. MapTypeOK'
    BY DEF ReadInv, TypeOK, MapTypeOK, mapVars
  <2>2. i' \in 1 .. Len(file'.extents) + 1
    BY <1>2, <1>4
  <2>3. offset' \in readBegin' .. readEnd' /\ numberOfBytesToRead' \in 0 .. DWORDs - 1
    BY <1>1, <1>2, <1>3
  <2> QED
    BY <1>2, <1>3, <1>5, <2>1, <2>2, <2>3 DEF ReadInv, TypeOK
<1>7. LoopInv'
  <2>1. offset' + numberOfBytesToRead' = readEnd'
    BY <1>1, <1>2, <1>3
  <2>2. ASSUME i' <= Len(file'.extents)
        PROVE  numberOfBytesRead' = offset' - readBegin'
    <3>1. read = numberOfBytesRead
      BY <1>2, <1>4, <2>2
    <3>2. read + len \in 0 .. DWORDs - 1
      BY <1>1, <1>3, <3>1
    <3>3. (read + len) % DWORDs = read + len
      BY <1>3, <3>2
    <3> QED
      BY <1>1, <1>2, <1>3, <3>1, <3>3
  <2> QED
    BY <1>2, <1>3, <2>1, <2>2 DEF LoopInv
<1>8. RequestSize'
  BY <1>2, <1>3 DEF RequestSize
<1> QED
  BY <1>6, <1>7, <1>8 DEF ReadInv

(* A request begins with a buffer of its length.                           *)
LEMMA ReadFileKeeps ==
    ASSUME ReadInv, NEW f \in Files, NEW o \in Offsets, NEW n \in Lengths,
           ReadFile(f, o, n), UNCHANGED mapVars
    PROVE  ReadInv'
<1>1. o \in Nat /\ n \in 0 .. DWORDs - 1 /\ DWORDs \in Nat \ {0}
  BY RequestsFit, DWordsNatural
<1>2. Len(f.extents) \in Nat
  BY FilesDescribed
<1>3. MapTypeOK'
  BY DEF ReadInv, TypeOK, MapTypeOK, mapVars
<1>4. TypeOK'
  BY <1>1, <1>2, <1>3 DEF ReadFile, TypeOK, Results
<1>5. LoopInv'
  BY <1>1, <1>2 DEF ReadFile, LoopInv
<1>6. RequestSize'
  BY <1>1 DEF ReadFile, RequestSize
<1>7. BufferRespected'
  <2>1. DOMAIN buffer' = 0 .. n - 1 /\ readEnd' - readBegin' = n
    BY <1>1 DEF ReadFile
  <2> QED
    BY <2>1 DEF BufferRespected
<1> QED
  BY <1>4, <1>5, <1>6, <1>7 DEF ReadInv

(* A turn of the loop that copies writes behind what has been read and not *)
(* past the end of what is left of the request.                            *)
LEMMA CopyKeeps ==
    ASSUME ReadInv, CopyExtent, UNCHANGED mapVars
    PROVE  ReadInv'
<1> DEFINE target == numberOfBytesRead .. numberOfBytesRead + Length(extent) - 1
           read == IF extent.type = "inline" THEN numberOfBytesToRead - Length(extent)
                   ELSE numberOfBytesRead
<1>1. AtExtent /\ Touched(extent) /\ Advance(read)
  BY DEF CopyExtent
<1>2. DOMAIN buffer' = DOMAIN buffer \cup target
  BY DEF CopyExtent
<1>3. Length(extent) \in 0 .. numberOfBytesToRead
  BY <1>1, LengthBounded
<1>4. /\ readBegin \in Nat /\ readEnd \in Nat /\ offset \in readBegin .. readEnd
      /\ numberOfBytesToRead \in Nat /\ numberOfBytesRead \in Nat
      /\ offset + numberOfBytesToRead = readEnd
      /\ numberOfBytesRead = offset - readBegin
  BY <1>1, ExtentFacts, DWordsNatural DEF ReadInv, TypeOK, LoopInv, AtExtent
<1>5. target \subseteq 0 .. readEnd - readBegin - 1
  BY <1>3, <1>4
<1>6. BufferRespected'
  <2>1. UNCHANGED <<readBegin, readEnd>>
    BY <1>1 DEF Advance, call
  <2> QED
    BY <1>2, <1>5, <2>1 DEF ReadInv, BufferRespected
<1>7. read \in Int
  BY <1>3, <1>4
<1> HIDE DEF read
<1> QED
  BY <1>1, <1>6, <1>7, AdvanceKeeps DEF read

(* Every other turn of the loop, and every way to leave it.                *)
LEMMA LoopKeeps ==
    ASSUME ReadInv, UNCHANGED mapVars,
           \/ SkipExtent \/ UnsupportedCompression \/ ReadLogicalFails
           \/ DecompressionFails \/ SkipCopy \/ CorrectReadSize
    PROVE  ReadInv'
<1>1. MapTypeOK'
  BY DEF ReadInv, TypeOK, MapTypeOK, mapVars
<1>2. CASE SkipExtent
  <2>1. i \in 1 .. Len(file.extents) /\ Len(file.extents) \in Nat
    BY <1>2, ExtentFacts DEF SkipExtent
  <2>2. i' = i + 1 /\ i' \in 1 .. Len(file.extents) + 1
    BY <1>2, <2>1 DEF SkipExtent
  <2> QED
    BY <1>1, <1>2, <2>1, <2>2
    DEF SkipExtent, call, ReadInv, TypeOK, LoopInv, RequestSize, BufferRespected
<1>3. CASE UnsupportedCompression \/ ReadLogicalFails \/ DecompressionFails
  BY <1>1, <1>3
  DEF UnsupportedCompression, ReadLogicalFails, DecompressionFails, Return, Results, call,
      ReadInv, TypeOK, LoopInv, RequestSize, BufferRespected
<1>4. CASE SkipCopy
  <2>1. BufferRespected'
    BY <1>4 DEF SkipCopy, Advance, call, ReadInv, BufferRespected
  <2>2. numberOfBytesRead \in Int
    BY DWordsNatural DEF ReadInv, TypeOK
  <2> QED
    BY <1>4, <2>1, <2>2, AdvanceKeeps DEF SkipCopy
<1>5. CASE CorrectReadSize
  <2>1. file \in Files
    BY <1>5 DEF CorrectReadSize, ReadInv, LoopInv
  <2>2. file.size \in Nat /\ readEnd \in Nat /\ DWORDs \in Nat \ {0}
        /\ numberOfBytesRead \in 0 .. DWORDs - 1
    BY <2>1, FilesDescribed, DWordsNatural DEF ReadInv, TypeOK
  <2>3. numberOfBytesRead' \in 0 .. DWORDs - 1
    <3>1. \A k \in Int : k % DWORDs \in 0 .. DWORDs - 1
      BY <2>2
    <3>2. numberOfBytesRead - (readEnd - file.size) \in Int
      BY <2>2
    <3> QED
      BY <1>5, <2>2, <3>1, <3>2 DEF CorrectReadSize
  <2> QED
    BY <1>1, <1>5, <2>3
    DEF CorrectReadSize, Return, Results, call, ReadInv, TypeOK, LoopInv, RequestSize,
        BufferRespected
<1> QED
  BY <1>2, <1>3, <1>4, <1>5

----------------------------------------------------------------------------

(* The invariant holds from before the volume is loaded.                   *)
LEMMA ReadInvHolds == Spec => []ReadInv
<1>1. Init => ReadInv
  <2> SUFFICES ASSUME Init PROVE ReadInv
    OBVIOUS
  <2>1. MapTypeOK
    BY MapInitTypes DEF Init
  <2>2. Len(file.extents) = 0
    BY EmptySeq DEF Init, NoCall
  <2>3. DWORDs \in Nat \ {0}
    BY DWordsNatural
  <2>4. DOMAIN buffer = {}
    BY DEF Init
  <2> QED
    BY <2>1, <2>2, <2>3, <2>4
    DEF Init, ReadInv, TypeOK, Results, LoopInv, RequestSize, BufferRespected
<1>2. ReadInv /\ [Next]_vars => ReadInv'
  <2> SUFFICES ASSUME ReadInv, [Next]_vars PROVE ReadInv'
    OBVIOUS
  <2>1. CASE MapNext /\ UNCHANGED readVars
    <3>1. MapTypeOK'
      BY <2>1, MapTypesKept DEF ReadInv, TypeOK
    <3> QED
      BY <2>1, <3>1
      DEF readVars, call, ReadInv, TypeOK, LoopInv, RequestSize, BufferRespected
  <2>2. CASE Request /\ UNCHANGED mapVars
    BY <2>2, ReadFileKeeps, CopyKeeps, LoopKeeps DEF Request
  <2>3. CASE UNCHANGED vars
    BY <2>3
    DEF vars, mapVars, readVars, call, ReadInv, TypeOK, MapTypeOK, LoopInv, RequestSize,
        BufferRespected
  <2> QED
    BY <2>1, <2>2, <2>3 DEF Next
<1> QED
  BY <1>1, <1>2, PTL DEF Spec

(* Requests and the map keep their types; in particular the DWORDs wrap.   *)
THEOREM ReadTypes == Spec => []TypeOK
<1>1. ReadInv => TypeOK
  BY DEF ReadInv
<1> QED
  BY ReadInvHolds, <1>1, PTL

(* No read writes outside the buffer it was given, whatever the extents    *)
(* of the file are and however they overlap.                               *)
THEOREM BufferIsRespected == Spec => []BufferRespected
<1>1. ReadInv => BufferRespected
  BY DEF ReadInv
<1> QED
  BY ReadInvHolds, <1>1, PTL

(* What a read gets from the devices is what is stored for the logical     *)
(* addresses it asked for, for every layout of the chunks.                 *)
THEOREM ReadsTranslateRight == Spec => []TranslationRight
<1>1. ReadInv => TranslationRight
  BY TypesTranslate DEF ReadInv, TypeOK
<1> QED
  BY ReadInvHolds, <1>1, PTL

----------------------------------------------------------------------------
(***************************************************************************)
(* Decoding                                                                *)
(***************************************************************************)

(* The segments of lzo data, in order: they do not overlap, neither where  *)
(* they are nor in what they decode to, and stay in the extent.            *)
LEMMA SegmentsInOrder ==
    ASSUME NEW x, NEW cSize \in Nat, NEW n, LzoWritten(x, cSize, n)
    PROVE  LET m == Cardinality(x.segments)
           IN  /\ m \in Nat \ {0} /\ n \in Nat
               /\ \E s \in [1 .. m -> x.segments] :
                     /\ LzoInOrder(x, s, cSize, n)
                     /\ \A k \in 1 .. m :
                           /\ s[k].at \in Nat /\ s[k].inLen \in Nat
                           /\ s[k].from \in Nat /\ s[k].outLen \in Nat
                     /\ \A j, k \in 1 .. m : j < k => Behind(s[j]) <= s[k].at
                     /\ \A k \in 1 .. m :
                           /\ HeaderSize <= s[k].at
                           /\ Behind(s[k]) <= x.total
                           /\ s[k].from + s[k].outLen <= n
                           /\ k < m => Behind(s[k]) < x.total
<1> DEFINE m == Cardinality(x.segments)
<1>1. m \in Nat \ {0} /\ HeaderSize \in Nat \ {0}
  <2>1. IsFiniteSet(x.segments) /\ x.segments # {}
    BY DEF LzoWritten
  <2> QED
    BY <2>1, FS_CardinalityType, FS_EmptySet, LzoLengths
<1>2. PICK s \in [1 .. m -> x.segments] : LzoInOrder(x, s, cSize, n)
  BY DEF LzoWritten
<1>3. \A k \in 1 .. m : /\ s[k].at \in Nat /\ s[k].inLen \in Nat
                        /\ s[k].from \in Nat /\ s[k].outLen \in Nat
  <2>1. \A k \in 1 .. m : s[k] \in [at : Nat, inLen : Nat, from : Nat, outLen : Nat]
    BY <1>2 DEF LzoWritten
  <2> QED
    BY <2>1
<1> HIDE DEF m
<1>4. /\ s[1].at = HeaderSize /\ s[1].from = 0
      /\ \A k \in 1 .. m - 1 :
            /\ s[k + 1].at >= Behind(s[k])
            /\ s[k + 1].from = s[k].from + s[k].outLen
      /\ x.total = Behind(s[m])
      /\ n = s[m].from + s[m].outLen
  BY <1>2 DEF LzoInOrder, m
<1>5. \A k \in 1 .. m : Behind(s[k]) \in Nat /\ Behind(s[k]) > s[k].at
  BY <1>1, <1>3 DEF Behind
<1>6. ASSUME NEW j \in 1 .. m
      PROVE  \A k \in 1 .. m :
                j < k => /\ Behind(s[j]) <= s[k].at
                         /\ s[j].from + s[j].outLen <= s[k].from
  <2> DEFINE S == {k \in 0 .. m :
                      j < k => /\ Behind(s[j]) <= s[k].at
                               /\ s[j].from + s[j].outLen <= s[k].from}
  <2>1. 0 \in S
    BY <1>1
  <2>2. ASSUME NEW k \in 1 .. m, k - 1 \in S
        PROVE  k \in S
    <3>1. CASE j < k - 1
      <4>1. k - 1 \in 1 .. m - 1 /\ k - 1 + 1 = k
        BY <1>1, <3>1
      <4>2. s[k].at >= Behind(s[k - 1]) /\ s[k].from = s[k - 1].from + s[k - 1].outLen
        BY <1>4, <4>1
      <4> DEFINE b == s[k - 1]
                 c == s[k]
                 e == s[j]
      <4>3. Behind(e) <= b.at /\ e.from + e.outLen <= b.from
        BY <2>2, <3>1
      <4>4. /\ b.at \in Nat /\ b.from \in Nat /\ b.outLen \in Nat
            /\ Behind(b) \in Nat /\ Behind(b) > b.at
            /\ c.at \in Nat /\ c.from \in Nat /\ Behind(e) \in Nat
            /\ e.from \in Nat /\ e.outLen \in Nat
        <5>1. k - 1 \in 1 .. m
          BY <4>1, <1>1
        <5> QED
          BY <1>3, <1>5, <5>1
      <4> HIDE DEF b, c, e
      <4>5. Behind(e) <= c.at /\ e.from + e.outLen <= c.from
        <5>1. c.at >= Behind(b) /\ c.from = b.from + b.outLen
          BY <4>2 DEF b, c
        <5> DEFINE ends == Behind(e)
                   starts == b.at
                   stops == Behind(b)
                   begins == c.at
        <5>2. /\ ends \in Nat /\ starts \in Nat /\ stops \in Nat /\ begins \in Nat
              /\ ends <= starts /\ starts < stops /\ stops <= begins
          BY <4>3, <4>4, <5>1
        <5> HIDE DEF ends, starts, stops, begins
        <5>3. ends <= begins
          BY <5>2
        <5>4. e.from + e.outLen <= c.from
          <6> DEFINE p == e.from
                     q == e.outLen
                     r == b.from
                     t == b.outLen
                     v == c.from
          <6>1. /\ p \in Nat /\ q \in Nat /\ r \in Nat /\ t \in Nat /\ v \in Nat
                /\ p + q <= r /\ v = r + t
            BY <4>3, <4>4, <5>1
          <6> HIDE DEF p, q, r, t, v
          <6>2. p + q <= v
            BY <6>1
          <6> QED
            BY <6>2 DEF p, q, v
        <5> QED
          BY <5>3, <5>4 DEF ends, begins
      <4> QED
        BY <4>5 DEF c, e
    <3>2. CASE j = k - 1
      <4>1. j \in 1 .. m - 1 /\ j + 1 = k
        BY <1>1, <3>2
      <4>2. s[k].at >= Behind(s[j]) /\ s[k].from = s[j].from + s[j].outLen
        BY <1>4, <4>1
      <4> QED
        BY <1>3, <1>5, <4>2
    <3>3. CASE ~(j < k)
      BY <3>3
    <3>4. j < k - 1 \/ j = k - 1 \/ ~(j < k)
      BY <1>1
    <3> QED
      BY <3>1, <3>2, <3>3, <3>4
  <2>3. 0 .. m \subseteq S
    <3> HIDE DEF S
    <3> QED
      BY <1>1, <2>1, <2>2, UpTo
  <2>4. \A k \in 1 .. m : k \in 0 .. m
    BY <1>1
  <2> QED
    BY <2>3, <2>4
<1>7. ASSUME NEW k \in 1 .. m
      PROVE  /\ HeaderSize <= s[k].at
             /\ Behind(s[k]) <= x.total
             /\ s[k].from + s[k].outLen <= n
             /\ k < m => Behind(s[k]) < x.total
  <2>1. m \in 1 .. m /\ 1 \in 1 .. m
    BY <1>1
  <2>2. HeaderSize <= s[k].at
    <3>1. CASE k = 1
      BY <1>1, <1>4, <3>1
    <3>2. CASE 1 < k
      <4>1. Behind(s[1]) <= s[k].at
        BY <1>6, <2>1, <3>2
      <4> QED
        BY <1>1, <1>3, <1>4, <1>5, <2>1, <4>1
    <3> QED
      BY <3>1, <3>2
  <2>3. CASE k = m
    BY <1>1, <1>3, <1>4, <1>5, <2>1, <2>2, <2>3
  <2>4. CASE k < m
    <3>1. Behind(s[k]) <= s[m].at /\ s[k].from + s[k].outLen <= s[m].from
      BY <1>6, <2>1, <2>4
    <3>2. Behind(s[k]) < x.total
      BY <1>4, <1>5, <1>3, <2>1, <3>1
    <3>3. s[k].from + s[k].outLen <= n
      <4> DEFINE part == s[k].from + s[k].outLen
                 begins == s[m].from
                 size == s[m].outLen
      <4>1. part \in Nat
        BY <1>3, <2>1
      <4>2. /\ begins \in Nat /\ size \in Nat
            /\ part <= begins /\ n = begins + size
        BY <1>3, <1>4, <2>1, <3>1
      <4> HIDE DEF part, begins, size
      <4>3. part <= n
        BY <4>1, <4>2
      <4> QED
        BY <4>3 DEF part
    <3> QED
      BY <1>4, <1>5, <2>1, <2>2, <3>2, <3>3
  <2>5. k = m \/ k < m
    BY <1>1
  <2> QED
    BY <2>3, <2>4, <2>5
<1>8. n \in Nat
  <2>1. m \in 1 .. m
    BY <1>1
  <2> QED
    BY <1>3, <1>4, <2>1
<1> QED
  BY <1>1, <1>2, <1>3, <1>6, <1>7, <1>8 DEF m

(* m segments in order, none overlapping another.                          *)
Orderly(x, s, m) ==
    /\ s \in [1 .. m -> x.segments]
    /\ \A g \in x.segments : \E k \in 1 .. m : s[k] = g
    /\ \A k \in 1 .. m : /\ s[k].at \in Nat /\ s[k].inLen \in Nat
                         /\ s[k].from \in Nat /\ s[k].outLen \in Nat
    /\ \A j, k \in 1 .. m : j < k => Behind(s[j]) <= s[k].at
    /\ \A k \in 1 .. m : HeaderSize <= s[k].at
    /\ s[1].at = HeaderSize /\ s[1].from = 0
    /\ \A k \in 1 .. m - 1 :
          /\ s[k + 1].from = s[k].from + s[k].outLen
          /\ s[k + 1].outLen <= s[k].outLen

(* The variables of lzoDecompress when it has decoded the first k segments *)
(* without an error.                                                       *)
Place(s, k) == IF k = 0 THEN HeaderSize ELSE Behind(s[k])
Written(s, k) == IF k = 0 THEN 0 ELSE s[k].from + s[k].outLen
Room(s, k, outLen) == IF k = 0 THEN outLen ELSE s[k].outLen

Taken(s, k, outLen) ==
    [lzoBytesRead |-> Place(s, k) - HeaderSize, compressed |-> Place(s, k),
     lzoBytesWritten |-> Written(s, k), lzoOutLen |-> Room(s, k, outLen),
     output |-> [p \in 0 .. Written(s, k) - 1 |-> p], error |-> FALSE]

(* The next segment is where the last ended, and there is room for it.     *)
Continues(s, k, outLen) ==
    s[k + 1].at = Place(s, k) /\ s[k + 1].outLen <= Room(s, k, outLen)

LEMMA TakenStart ==
    ASSUME NEW s, NEW outLen
    PROVE  LzoStart(outLen) = Taken(s, 0, outLen)
<1> DEFINE none == [p \in 0 .. Written(s, 0) - 1 |-> p]
<1>1. Written(s, 0) = 0 /\ Place(s, 0) = HeaderSize /\ Room(s, 0, outLen) = outLen
  BY DEF Written, Place, Room
<1>2. 0 .. Written(s, 0) - 1 = {}
  BY <1>1
<1>3. none = <<>>
  BY <1>2
<1>4. HeaderSize - HeaderSize = 0
  BY LzoLengths
<1> QED
  BY <1>1, <1>3, <1>4 DEF LzoStart, Taken

(* A turn decodes the next segment, if it can be decoded.                  *)
LEMMA TurnTakes ==
    ASSUME NEW x, NEW s, NEW m \in Nat \ {0}, Orderly(x, s, m), NEW outLen \in Nat, NEW k \in 0 .. m - 1
    PROVE  LzoTurn(x, Taken(s, k, outLen)) =
               IF Continues(s, k, outLen) THEN Taken(s, k + 1, outLen)
               ELSE [Taken(s, k, outLen) EXCEPT !.error = TRUE]
<1> USE DEF Orderly
<1>0. \A e \in 1 .. m : Behind(s[e]) \in Nat /\ s[e].at < Behind(s[e])
  BY LzoLengths DEF Behind
<1> DEFINE t == Taken(s, k, outLen)
           g == s[k + 1]
           H == HeaderSize
<1>1. /\ k + 1 \in 1 .. m /\ g \in x.segments /\ H \in Nat \ {0}
      /\ g.at \in Nat /\ g.inLen \in Nat /\ g.from \in Nat /\ g.outLen \in Nat
  BY LzoLengths
<1>2. /\ t.compressed = Place(s, k) /\ t.lzoOutLen = Room(s, k, outLen)
      /\ t.lzoBytesRead = Place(s, k) - H
      /\ t.lzoBytesWritten = Written(s, k)
      /\ t.output = [p \in 0 .. Written(s, k) - 1 |-> p]
  BY DEF Taken
<1>3. g.from = Written(s, k) /\ Written(s, k) \in Nat /\ Place(s, k) \in Nat
  <2>1. CASE k = 0
    BY <1>1, <2>1 DEF Written, Place
  <2>2. CASE k # 0
    <3>1. k \in 1 .. m - 1 /\ k \in 1 .. m
      BY <2>2
    <3>2. Behind(s[k]) \in Nat
      BY <1>0, <3>1
    <3>3. Place(s, k) = Behind(s[k]) /\ Written(s, k) = s[k].from + s[k].outLen
      BY <2>2 DEF Written, Place
    <3>4. g.from = s[k].from + s[k].outLen /\ s[k].from \in Nat /\ s[k].outLen \in Nat
      BY <3>1
    <3> QED
      BY <3>2, <3>3, <3>4
  <2> QED
    BY <2>1, <2>2
<1>4. Decodable(x, t) = IF Continues(s, k, outLen) THEN {g} ELSE {}
  <2>1. ASSUME NEW h \in x.segments, h.at = Place(s, k)
        PROVE  h = g
    <3>1. PICK j \in 1 .. m : s[j] = h
      OBVIOUS
    <3>2. CASE j = k + 1
      BY <3>1, <3>2
    <3>3. CASE j <= k
      <4>1. k # 0 /\ k \in 1 .. m /\ Place(s, k) = Behind(s[k])
        BY <3>3 DEF Place
      <4>3. s[j].at < Behind(s[k])
        <5>1. CASE j = k
          BY <1>0, <4>1, <5>1
        <5>2. CASE j < k
          <6>1. Behind(s[j]) <= s[k].at
            BY <4>1, <5>2
          <6> DEFINE a == s[j].at
                     b == Behind(s[j])
                     c == s[k].at
                     e == Behind(s[k])
          <6>2. a \in Nat /\ b \in Nat /\ c \in Nat /\ e \in Nat /\ a < b /\ b <= c /\ c < e
            BY <1>0, <4>1, <6>1
          <6> HIDE DEF a, b, c, e
          <6>3. a < e
            BY <6>2
          <6> QED
            BY <6>3 DEF a, e
        <5> QED
          BY <3>3, <5>1, <5>2
      <4> QED
        BY <1>0, <2>1, <3>1, <4>1, <4>3
    <3>4. CASE k + 1 < j
      <4>1. Behind(g) <= s[j].at /\ g.at < Behind(g) /\ Behind(g) \in Nat
        BY <1>0, <1>1, <3>4
      <4>2. Place(s, k) <= g.at
        <5>1. CASE k = 0
          BY <1>1, <5>1 DEF Place
        <5>2. CASE k # 0
          BY <1>1, <5>2 DEF Place
        <5> QED
          BY <5>1, <5>2
      <4>3. s[j].at = Place(s, k) /\ s[j].at \in Nat
        BY <2>1, <3>1
      <4> HIDE DEF g
      <4> QED
        BY <1>1, <1>3, <4>1, <4>2, <4>3
    <3>5. j = k + 1 \/ j <= k \/ k + 1 < j
      OBVIOUS
    <3> QED
      BY <3>2, <3>3, <3>4, <3>5
  <2> HIDE DEF t, g
  <2>2. Continues(s, k, outLen) <=> g.at = Place(s, k) /\ g.outLen <= Room(s, k, outLen)
    BY DEF Continues, g
  <2> QED
    BY <1>1, <1>2, <2>1, <2>2 DEF Decodable
<1>5. CASE ~Continues(s, k, outLen)
  <2> HIDE DEF t
  <2>1. LzoTurn(x, t) = [t EXCEPT !.error = TRUE]
    BY <1>4, <1>5 DEF LzoTurn
  <2> QED
    BY <1>5, <2>1 DEF t
<1>6. CASE Continues(s, k, outLen)
  <2> DEFINE w == Written(s, k)
             target == w .. w + g.outLen - 1
  <2>1. LzoTurn(x, t) = TakeSegment(t, g, g.inLen + H, g.outLen)
    <3> HIDE DEF t, g
    <3>1. (CHOOSE h \in Decodable(x, t) : TRUE) = g
      BY <1>4, <1>6
    <3> QED
      BY <1>4, <1>6, <3>1 DEF LzoTurn
  <2>2. TakeSegment(t, g, g.inLen + H, g.outLen) =
          [lzoBytesRead |-> t.lzoBytesRead + (g.inLen + H),
           compressed |-> t.compressed + H + g.inLen,
           lzoBytesWritten |-> w + g.outLen,
           lzoOutLen |-> g.outLen,
           output |-> [p \in (DOMAIN t.output) \cup target |->
                         IF p \in target THEN g.from + (p - w) ELSE t.output[p]],
           error |-> FALSE]
    <3> HIDE DEF t, g
    <3> QED
      BY <1>2 DEF TakeSegment
  <2>3. /\ Place(s, k + 1) = Behind(g) /\ Written(s, k + 1) = g.from + g.outLen
        /\ Room(s, k + 1, outLen) = g.outLen
    BY DEF Place, Written, Room
  <2>4. t.compressed + H + g.inLen = Place(s, k + 1)
    <3>1. g.at = Place(s, k)
      BY <1>6 DEF Continues
    <3> QED
      BY <1>2, <2>3, <3>1 DEF Behind
  <2>5. t.lzoBytesRead + (g.inLen + H) = Place(s, k + 1) - H
    <3>1. g.at = Place(s, k)
      BY <1>6 DEF Continues
    <3>2. t.lzoBytesRead = g.at - H
      BY <1>2, <3>1
    <3>3. Behind(g) = g.at + H + g.inLen
      BY DEF Behind
    <3> HIDE DEF t, g
    <3> QED
      BY <1>1, <2>3, <3>2, <3>3
  <2>6. w + g.outLen = Written(s, k + 1)
    BY <1>3, <2>3
  <2>7. [p \in (DOMAIN t.output) \cup target |->
           IF p \in target THEN g.from + (p - w) ELSE t.output[p]]
          = [p \in 0 .. Written(s, k + 1) - 1 |-> p]
    <3> HIDE DEF t, g, w
    <3>1. /\ w \in Nat /\ g.outLen \in Nat /\ g.from = w
          /\ t.output = [p \in 0 .. w - 1 |-> p]
      BY <1>1, <1>2, <1>3 DEF w
    <3>2. DOMAIN t.output = 0 .. w - 1 /\ \A p \in 0 .. w - 1 : t.output[p] = p
      BY <3>1
    <3>3. (0 .. w - 1) \cup target = 0 .. w + g.outLen - 1
      BY <3>1
    <3>4. \A p \in 0 .. w + g.outLen - 1 :
             (IF p \in target THEN g.from + (p - w) ELSE t.output[p]) = p
      BY <3>1, <3>2
    <3>5. Written(s, k + 1) = w + g.outLen
      BY <2>6
    <3> DEFINE A == (DOMAIN t.output) \cup target
               B == 0 .. Written(s, k + 1) - 1
    <3>6. A = B /\ \A p \in B :
             (IF p \in target THEN g.from + (p - w) ELSE t.output[p]) = p
      <4>1. B = 0 .. w + g.outLen - 1
        BY <3>1, <3>5
      <4>2. A = B
        BY <3>2, <3>3, <4>1, Zenon
      <4> HIDE DEF B, target
      <4> QED
        BY <3>4, <4>1, <4>2
    <3> HIDE DEF A, B, target
    <3>7. [p \in A |-> IF p \in target THEN g.from + (p - w) ELSE t.output[p]]
            = [p \in B |-> p]
      BY <3>6
    <3> QED
      BY <3>7 DEF A, B
  <2>8. LzoTurn(x, t) = Taken(s, k + 1, outLen)
    <3> HIDE DEF t, g, target
    <3> QED
      BY <2>1, <2>2, <2>3, <2>4, <2>5, <2>6, <2>7 DEF Taken
  <2> QED
    BY <1>6, <2>8
<1> QED
  BY <1>5, <1>6

(* Why the next segment cannot be decoded.                                 *)
LEMMA TurnStops ==
    ASSUME NEW x, NEW s, NEW m \in Nat \ {0}, Orderly(x, s, m), NEW outLen \in Nat, NEW k \in 0 .. m - 1, ~Continues(s, k, outLen)
    PROVE  \/ HasPadding(x)
           \/ \E g \in x.segments : g.at = HeaderSize /\ g.outLen > outLen
<1> USE DEF Orderly
<1>1. ASSUME NEW e \in 1 .. m
      PROVE  Behind(s[e]) \in Nat /\ s[e].at < Behind(s[e])
  <2> DEFINE a == s[e].at
             b == s[e].inLen
  <2>1. a \in Nat /\ b \in Nat
    OBVIOUS
  <2>2. Behind(s[e]) = a + HeaderSize + b
    BY DEF Behind
  <2>3. HeaderSize \in Nat \ {0}
    BY LzoLengths
  <2> HIDE DEF a, b
  <2>4. a + HeaderSize + b \in Nat /\ a < a + HeaderSize + b
    BY <2>1, <2>3
  <2> QED
    BY <2>2, <2>4 DEF a
<1>2. CASE k = 0
  <2>1. ~(s[1].outLen <= outLen) /\ 1 \in 1 .. m
    BY <1>2 DEF Continues, Place, Room
  <2>2. s[1] \in x.segments /\ s[1].outLen > outLen
    BY <2>1
  <2> QED
    BY <2>2
<1>3. CASE k # 0
  <2>1. k \in 1 .. m - 1 /\ k \in 1 .. m /\ k + 1 \in 1 .. m
    BY <1>3
  <2> DEFINE g == s[k + 1]
  <2>2. g.at # Behind(s[k]) /\ Behind(s[k]) <= g.at
    BY <1>3, <2>1 DEF Continues, Place, Room
  <2>3. g.at # HeaderSize
    BY <1>1, <2>1, <2>2, LzoLengths
  <2>4. ASSUME NEW h \in x.segments
        PROVE  Behind(h) # g.at
    <3>1. PICK e \in 1 .. m : s[e] = h
      OBVIOUS
    <3>2. CASE e < k
      <4>1. Behind(s[e]) <= s[k].at
        BY <2>1, <3>2
      <4> DEFINE a == Behind(s[e])
                 b == s[k].at
                 c == Behind(s[k])
                 d == g.at
      <4>2. a \in Nat /\ b \in Nat /\ c \in Nat /\ d \in Nat /\ a <= b /\ b < c /\ c <= d
        BY <1>1, <2>1, <2>2, <4>1
      <4> HIDE DEF a, b, c, d
      <4>3. a # d
        BY <4>2
      <4> QED
        BY <3>1, <4>3 DEF a, d
    <3>3. CASE e = k
      BY <2>2, <3>1, <3>3
    <3>4. CASE e = k + 1
      <4>1. h = g /\ g.at \in Nat /\ g.at < Behind(g) /\ Behind(g) \in Nat
        BY <1>1, <2>1, <3>1, <3>4
      <4> HIDE DEF g
      <4> QED
        BY <4>1
    <3>5. CASE k + 1 < e
      <4>1. Behind(g) <= s[e].at
        BY <2>1, <3>5
      <4> DEFINE a == g.at
                 b == Behind(g)
                 c == s[e].at
                 d == Behind(s[e])
      <4>2. a \in Nat /\ b \in Nat /\ c \in Nat /\ d \in Nat /\ a < b /\ b <= c /\ c < d
        BY <1>1, <2>1, <4>1
      <4> HIDE DEF a, b, c, d
      <4>3. a # d
        BY <4>2
      <4> QED
        BY <3>1, <4>3 DEF a, d
    <3>6. e < k \/ e = k \/ e = k + 1 \/ k + 1 < e
      OBVIOUS
    <3> QED
      BY <3>2, <3>3, <3>4, <3>5, <3>6
  <2>5. g \in x.segments
    BY <2>1
  <2> HIDE DEF g
  <2> QED
    BY <2>3, <2>4, <2>5 DEF HasPadding, Behind
<1> QED
  BY <1>2, <1>3

(* How the loop ends on such data: what it has read lies in the extent and *)
(* what it has written among the n bytes; without an error it is all of    *)
(* them, and an error has one of two causes.                               *)
DecodesWell(x, cSize, n, outLen) ==
    LET t == LzoEnd(x, outLen)
    IN  /\ n \in Nat /\ HeaderSize <= cSize
        /\ t.compressed <= cSize
        /\ DOMAIN t.output \subseteq 0 .. n - 1
        /\ t.lzoBytesWritten \in 0 .. n
        /\ ~t.error => t.output = [p \in 0 .. n - 1 |-> p]
        /\ t.error => \/ HasPadding(x)
                      \/ \E g \in x.segments :
                            g.at = HeaderSize /\ g.outLen > outLen

(* The loop of lzoDecompress, over data as Btrfs writes it: it stays in    *)
(* the buffers, and ends with everything decoded unless there is padding   *)
(* or the room was too small.                                              *)
LEMMA LzoDecodes ==
    ASSUME NEW x, NEW cSize \in Nat, NEW n, LzoWritten(x, cSize, n), NEW outLen \in Nat
    PROVE  DecodesWell(x, cSize, n, outLen)
<1> DEFINE m == Cardinality(x.segments)
<1>1. m \in Nat \ {0} /\ n \in Nat
  BY SegmentsInOrder
<1>2. PICK s \in [1 .. m -> x.segments] :
         /\ LzoInOrder(x, s, cSize, n)
         /\ \A k \in 1 .. m :
               /\ s[k].at \in Nat /\ s[k].inLen \in Nat
               /\ s[k].from \in Nat /\ s[k].outLen \in Nat
         /\ \A j, k \in 1 .. m : j < k => Behind(s[j]) <= s[k].at
         /\ \A k \in 1 .. m :
               /\ HeaderSize <= s[k].at
               /\ Behind(s[k]) <= x.total
               /\ s[k].from + s[k].outLen <= n
               /\ k < m => Behind(s[k]) < x.total
  BY SegmentsInOrder
<1>3. /\ \A g \in x.segments : \E k \in 1 .. m : s[k] = g
      /\ s[1].at = HeaderSize /\ s[1].from = 0
      /\ \A k \in 1 .. m - 1 : s[k + 1].from = s[k].from + s[k].outLen
      /\ \A k \in 1 .. m - 1 : s[k + 1].outLen <= s[k].outLen
      /\ x.total = Behind(s[m]) /\ x.total <= cSize
      /\ n = s[m].from + s[m].outLen
  BY <1>2 DEF LzoInOrder
<1> HIDE DEF m
<1>3a. Orderly(x, s, m)
  BY <1>2, <1>3 DEF Orderly
<1>4. \A k \in 1 .. m : Behind(s[k]) \in Nat /\ s[k].at < Behind(s[k])
  BY <1>2, LzoLengths DEF Behind
<1>5. HeaderSize \in Nat \ {0} /\ x.total \in Nat /\ HeaderSize < x.total
  <2>1. m \in 1 .. m
    BY <1>1
  <2> QED
    BY <1>2, <1>3, <1>4, <2>1, LzoLengths
<1> DEFINE Good(k) == Taken(s, k, outLen)
           Err(k) == [Good(k) EXCEPT !.error = TRUE]
           next(t) == IF LzoLoops(x, t) THEN LzoTurn(x, t) ELSE t
           V == {Good(k) : k \in 0 .. m} \cup {Err(k) : k \in 0 .. m}
<1>6. ASSUME NEW k \in 0 .. m
      PROVE  /\ Place(s, k) \in Nat /\ Place(s, k) <= x.total
             /\ k < m => Place(s, k) < x.total
             /\ k = m => Place(s, k) = x.total /\ Written(s, k) = n
             /\ Written(s, k) \in Nat /\ Written(s, k) <= n
  <2>1. CASE k = 0
    BY <1>1, <1>5, <2>1 DEF Place, Written
  <2>2. CASE k # 0
    <3>1. k \in 1 .. m
      BY <1>1, <2>2
    <3> QED
      BY <1>2, <1>3, <1>4, <2>2, <3>1 DEF Place, Written
  <2> QED
    BY <2>1, <2>2
<1>7. ASSUME NEW k \in 0 .. m
      PROVE  /\ Good(k).error = FALSE /\ Good(k).compressed = Place(s, k)
             /\ Good(k).lzoBytesRead = Place(s, k) - HeaderSize
             /\ Good(k).lzoBytesWritten = Written(s, k)
             /\ Good(k).output = [p \in 0 .. Written(s, k) - 1 |-> p]
             /\ Err(k).error = TRUE /\ Err(k).compressed = Place(s, k)
             /\ Err(k).lzoBytesWritten = Written(s, k)
             /\ Err(k).output = [p \in 0 .. Written(s, k) - 1 |-> p]
  BY DEF Taken
<1> HIDE DEF Good, Err
<1>8. ASSUME NEW k \in 0 .. m
      PROVE  /\ next(Err(k)) = Err(k)
             /\ k = m => next(Good(k)) = Good(k)
             /\ k < m => next(Good(k)) = LzoTurn(x, Good(k))
  <2>1. ~LzoLoops(x, Err(k))
    BY <1>7 DEF LzoLoops
  <2>2. LzoLoops(x, Good(k)) <=> k < m
    <3>1. LzoLoops(x, Good(k)) <=> Place(s, k) - HeaderSize < x.total - HeaderSize
      BY <1>7 DEF LzoLoops
    <3>2. Place(s, k) < x.total <=> k < m
      BY <1>1, <1>5, <1>6
    <3>3. Place(s, k) \in Nat
      BY <1>6
    <3> QED
      BY <1>5, <3>1, <3>2, <3>3
  <2> QED
    BY <1>1, <2>1, <2>2
<1> DEFINE Stuck == {k \in 0 .. m - 1 : ~Continues(s, k, outLen)}
<1>9. ASSUME NEW k \in 0 .. m - 1
      PROVE  LzoTurn(x, Good(k)) = IF k \in Stuck THEN Err(k) ELSE Good(k + 1)
  <2>1. LzoTurn(x, Good(k)) = IF Continues(s, k, outLen) THEN Taken(s, k + 1, outLen)
                              ELSE [Good(k) EXCEPT !.error = TRUE]
    <3>1. LzoTurn(x, Taken(s, k, outLen)) =
              IF Continues(s, k, outLen) THEN Taken(s, k + 1, outLen)
              ELSE [Taken(s, k, outLen) EXCEPT !.error = TRUE]
      BY <1>1, <1>3a, TurnTakes
    <3> QED
      BY <3>1 DEF Good
  <2> QED
    BY <2>1 DEF Good, Err
<1> HIDE DEF next, Stuck
<1>10. \A t \in V : next(t) \in V
  <2>1. ASSUME NEW k \in 0 .. m PROVE next(Good(k)) \in V
    <3>1. CASE k = m
      BY <1>8, <3>1
    <3>2. CASE k < m
      <4>1. k \in 0 .. m - 1 /\ k + 1 \in 0 .. m
        BY <1>1, <3>2
      <4> QED
        BY <1>8, <1>9, <3>2, <4>1
    <3> QED
      BY <1>1, <3>1, <3>2
  <2>2. ASSUME NEW k \in 0 .. m PROVE next(Err(k)) \in V
    BY <1>8
  <2> QED
    BY <2>1, <2>2
<1>11. Good(0) \in V /\ LzoStart(outLen) = Good(0)
  BY <1>1, TakenStart DEF Good
<1> HIDE DEF V
<1> DEFINE after == LzoTurns(x, outLen)
<1>12. /\ after[0] = Good(0)
       /\ \A k \in 1 .. m + 1 : after[k] = next(after[k - 1])
  <2> DEFINE step == [y \in (1 .. m + 1) \X V |-> next(y[2])]
  <2>1. step \in [(1 .. m + 1) \X V -> V] /\ m + 1 \in Nat
    BY <1>1, <1>10
  <2>2. \A k \in 1 .. m + 1, t \in V : step[<<k, t>>] = next(t)
    OBVIOUS
  <2> HIDE DEF step
  <2>3. PICK g : g \in [0 .. m + 1 -> V] /\ g[0] = Good(0)
                 /\ \A k \in 1 .. m + 1 : g[k] = step[<<k, g[k - 1]>>]
    <3>1. \E g : ValuesOf(g, V, m + 1, Good(0), step)
      <4>1. step \in LoopOver(V, m + 1)
        BY <2>1 DEF LoopOver
      <4> QED
        BY <1>11, <2>1, <4>1, LoopValues
    <3> QED
      BY <3>1 DEF ValuesOf
  <2>4. \A k \in 1 .. m + 1 : g[k] = next(g[k - 1])
    <3> TAKE k \in 1 .. m + 1
    <3>1. k - 1 \in 0 .. m + 1
      BY <1>1
    <3> QED
      BY <2>2, <2>3, <3>1
  <2>5. g = [k \in 0 .. m + 1 |->
               IF k = 0 THEN LzoStart(outLen)
               ELSE IF LzoLoops(x, g[k - 1]) THEN LzoTurn(x, g[k - 1]) ELSE g[k - 1]]
    <3>1. \A k \in 0 .. m + 1 : k # 0 => k \in 1 .. m + 1
      BY <1>1
    <3>2. \A k \in 0 .. m + 1 :
             g[k] = IF k = 0 THEN LzoStart(outLen)
                    ELSE IF LzoLoops(x, g[k - 1]) THEN LzoTurn(x, g[k - 1]) ELSE g[k - 1]
      BY <1>11, <2>3, <2>4, <3>1, Zenon DEF next
    <3> QED
      BY <2>3, <3>2, Zenon
  <2>6. after = [k \in 0 .. m + 1 |->
               IF k = 0 THEN LzoStart(outLen)
               ELSE IF LzoLoops(x, after[k - 1]) THEN LzoTurn(x, after[k - 1])
               ELSE after[k - 1]]
    BY <2>5, Zenon DEF LzoTurns, m
  <2>7. 0 \in 0 .. m + 1 /\ \A k \in 1 .. m + 1 : k \in 0 .. m + 1 /\ k # 0
    BY <1>1
  <2> HIDE DEF after
  <2> QED
    BY <1>11, <2>6, <2>7, Zenon DEF next
<1> DEFINE Errs == {Err(j) : j \in Stuck}
           upTo(k) == IF k < m THEN k ELSE m
           S == {k \in 0 .. m + 1 : after[k] \in Errs \/ after[k] = Good(upTo(k))}
<1> HIDE DEF after
<1>13. 0 \in S
  BY <1>1, <1>12
<1>14. ASSUME NEW k \in 1 .. m + 1, k - 1 \in S
       PROVE  k \in S
  <2>1. after[k] = next(after[k - 1]) /\ k \in 0 .. m + 1
    BY <1>1, <1>12
  <2>2. CASE after[k - 1] \in Errs
    <3>1. PICK j \in Stuck : after[k - 1] = Err(j)
      BY <2>2
    <3>2. j \in 0 .. m
      BY <1>1, <3>1 DEF Stuck
    <3>3. after[k] = Err(j)
      BY <1>8, <2>1, <3>1, <3>2
    <3> QED
      BY <2>1, <3>1, <3>3
  <2>3. CASE after[k - 1] = Good(upTo(k - 1))
    <3>1. CASE k - 1 < m
      <4>1. k - 1 \in 0 .. m - 1 /\ k - 1 \in 0 .. m /\ upTo(k - 1) = k - 1 /\ upTo(k) = k
            /\ k - 1 + 1 = k
        BY <1>1, <3>1
      <4>2. after[k] = IF k - 1 \in Stuck THEN Err(k - 1) ELSE Good(k)
        <5>1. after[k] = LzoTurn(x, Good(k - 1))
          BY <1>8, <2>1, <2>3, <3>1, <4>1
        <5> QED
          BY <1>9, <4>1, <5>1
      <4> QED
        BY <2>1, <4>1, <4>2
    <3>2. CASE ~(k - 1 < m)
      <4>1. upTo(k - 1) = m /\ upTo(k) = m /\ m \in 0 .. m
        BY <1>1, <3>2
      <4> QED
        BY <1>8, <2>1, <2>3, <4>1
    <3> QED
      BY <3>1, <3>2
  <2> QED
    BY <1>14, <2>2, <2>3
<1>15. m + 1 \in S
  <2>1. m + 1 \in Nat /\ m + 1 \in 0 .. m + 1
    BY <1>1
  <2> HIDE DEF S
  <2>2. 0 .. m + 1 \subseteq S
    BY <1>13, <1>14, <2>1, UpTo
  <2> QED
    BY <2>1, <2>2
<1> DEFINE t == LzoEnd(x, outLen)
<1>16. t = after[m + 1]
  BY DEF LzoEnd, after, m
<1> HIDE DEF t
<1>17. t \in Errs \/ t = Good(m)
  BY <1>1, <1>15, <1>16
<1>18. CASE t = Good(m)
  <2>1. /\ t.error = FALSE /\ t.compressed = x.total /\ t.lzoBytesWritten = n
        /\ t.output = [p \in 0 .. n - 1 |-> p]
    <3>1. m \in 0 .. m
      BY <1>1
    <3>2. Place(s, m) = x.total /\ Written(s, m) = n
      BY <1>6, <3>1
    <3>3. /\ t.error = FALSE /\ t.compressed = Place(s, m) /\ t.lzoBytesWritten = Written(s, m)
          /\ t.output = [p \in 0 .. Written(s, m) - 1 |-> p]
      BY <1>7, <1>18, <3>1
    <3> QED
      BY <3>2, <3>3
  <2> QED
    BY <1>1, <1>3, <1>5, <2>1 DEF t, DecodesWell
<1>19. CASE t \in Errs
  <2>1. PICK j \in Stuck : t = Err(j)
    BY <1>19
  <2>2. j \in 0 .. m /\ j \in 0 .. m - 1 /\ ~Continues(s, j, outLen)
    BY <1>1 DEF Stuck
  <2>3. /\ t.error = TRUE /\ t.compressed = Place(s, j)
        /\ t.lzoBytesWritten = Written(s, j)
        /\ t.output = [p \in 0 .. Written(s, j) - 1 |-> p]
    BY <1>7, <2>1, <2>2
  <2>4. /\ Place(s, j) \in Nat /\ Place(s, j) <= x.total
        /\ Written(s, j) \in Nat /\ Written(s, j) <= n
    BY <1>6, <2>2
  <2>5. DOMAIN t.output = 0 .. Written(s, j) - 1
    BY <2>3
  <2>6. 0 .. Written(s, j) - 1 \subseteq 0 .. n - 1
    BY <1>1, <2>4
  <2>7. \/ HasPadding(x)
        \/ \E g \in x.segments : g.at = HeaderSize /\ g.outLen > outLen
    BY <1>1, <1>3a, <2>2, TurnStops
  <2>8. t.compressed <= cSize /\ HeaderSize <= cSize /\ t.lzoBytesWritten \in 0 .. n
    BY <1>1, <1>3, <1>5, <2>3, <2>4
  <2> QED
    BY <1>1, <2>3, <2>5, <2>6, <2>7, <2>8 DEF t, DecodesWell
<1> QED
  BY <1>17, <1>18, <1>19

----------------------------------------------------------------------------
(***************************************************************************)
(* What a request delivers                                                 *)
(***************************************************************************)

(* A request that is being served, or has failed: it has not told its      *)
(* caller that it succeeded.                                               *)
Unfinished == pc \in {"loop", "aborted"} \/ (pc = "done" /\ result # "ERROR_SUCCESS")

(* The buffer holds the file's bytes as far as the request has got, and    *)
(* zeroes beyond; only the whole of an inline extent is counted as more.   *)
DataInv ==
    Plain(file) /\ Unfinished =>
        /\ file \in Files /\ readBegin < file.size
        /\ DOMAIN buffer = 0 .. readEnd - readBegin - 1
        /\ Delivered(offset - readBegin)
        /\ \A p \in offset - readBegin .. readEnd - readBegin - 1 : buffer[p] = Zero
        /\ \/ numberOfBytesRead = offset - readBegin
           \/ numberOfBytesRead = readEnd - readBegin /\ file.size <= offset

(* No extent has been passed by that the request needed.                   *)
PositionInv ==
    Plain(file) /\ pc = "loop" =>
        /\ i = 1 => offset = readBegin
        /\ i <= Len(file.extents) => extent.key <= offset
        /\ i > Len(file.extents) => offset = readEnd \/ ReachOf(file) <= offset

IdleInv == pc = "idle" => file = NoCall

ServedInv ==
    IdleInv /\ DataInv /\ PositionInv /\ PlainReadsRight /\ DecodingFailsForCause

(* zlib data as Btrfs writes it decodes in full.                           *)
LEMMA ZlibDecodes ==
    ASSUME NEW calls, NEW cSize, NEW n \in Nat, ZlibWritten(calls, cSize, n)
    PROVE  /\ zlibDecompress(calls, cSize, n).failed = FALSE
           /\ 0 .. n - 1 \subseteq DOMAIN zlibDecompress(calls, cSize, n).output
           /\ \A p \in 0 .. n - 1 : zlibDecompress(calls, cSize, n).output[p] = p
<1> DEFINE ends == {k \in 0 .. Len(calls) :
                       \/ Total(calls, k, "in") >= cSize
                       \/ Total(calls, k, "out") >= n
                       \/ k = Len(calls)}
           e == Min(ends)
           out == Total(calls, e, "out")
<1>1. Len(calls) \in Nat
  BY DEF ZlibWritten
<1>2. Len(calls) \in ends /\ ends \subseteq Nat
  BY <1>1
<1> HIDE DEF ends
<1>3. e \in ends
  BY <1>2, MinIsLeast
<1>4. e \in 0 .. Len(calls)
      /\ (Total(calls, e, "in") >= cSize \/ out >= n \/ e = Len(calls))
  BY <1>3 DEF ends
<1>5. out >= n
  BY <1>4 DEF ZlibWritten
<1>6. out \in Nat
  <2> DEFINE S == {j \in 1 .. e : "out" \in calls[j]}
  <2>1. IsFiniteSet(1 .. e) /\ S \subseteq 1 .. e
    BY <1>4, FS_Interval
  <2>2. IsFiniteSet(S)
    BY <2>1, FS_Subset
  <2> QED
    BY <2>2, FS_CardinalityType DEF Total
<1>7. zlibDecompress(calls, cSize, n) = [failed |-> FALSE, output |-> [p \in 0 .. out - 1 |-> p]]
  BY DEF zlibDecompress, ends
<1> HIDE DEF out
<1>8. 0 .. n - 1 \subseteq 0 .. out - 1
  BY <1>5, <1>6
<1> DEFINE f == [p \in 0 .. out - 1 |-> p]
<1>9. DOMAIN f = 0 .. out - 1 /\ \A p \in 0 .. out - 1 : f[p] = p
  OBVIOUS
<1>10. /\ zlibDecompress(calls, cSize, n).failed = FALSE
       /\ zlibDecompress(calls, cSize, n).output = f
  BY <1>7
<1> HIDE DEF f
<1> QED
  BY <1>8, <1>9, <1>10

(* What is known of the extents of a file that is plain.                   *)
LEMMA PlainExtent ==
    ASSUME NEW f \in Files, Plain(f), NEW j \in DOMAIN f.extents
    PROVE  LET x == f.extents[j]
           IN  /\ Len(f.extents) \in Nat /\ DOMAIN f.extents = 1 .. Len(f.extents)
               /\ x.key \in Nat /\ x.n \in Nat \ {0} /\ x.offset = 0
               /\ x.bytesInFile = x.n /\ InFile(x) = x.n
               /\ x.type = "inline" => j = 1 /\ Len(f.extents) = 1 /\ x.compression = "none"
               /\ x.key = IF j = 1 THEN 0 ELSE f.extents[j - 1].key + f.extents[j - 1].n
<1>1. Len(f.extents) \in Nat /\ DOMAIN f.extents = 1 .. Len(f.extents)
  BY FilesDescribed
<1>2. \A k \in DOMAIN f.extents :
         /\ f.extents[k].offset = 0 /\ f.extents[k].bytesInFile = f.extents[k].n
         /\ f.extents[k].type = "inline" => f.extents[k].compression = "none"
         /\ InFile(f.extents[k]) = f.extents[k].n
  BY DEF Plain, InFile
<1>3. /\ f.extents[j].key \in Nat /\ f.extents[j].n \in Nat
      /\ f.extents[j].type = "inline" => j = Len(f.extents)
  BY FilesDescribed
<1>4. /\ f.extents[j].n # 0
      /\ f.extents[j].key = IF j = 1 THEN 0
                            ELSE f.extents[j - 1].key + InFile(f.extents[j - 1])
      /\ f.extents[j].type = "inline" => j = 1
  BY FilesTiled
<1>5. j # 1 => j - 1 \in DOMAIN f.extents
  BY <1>1
<1> QED
  BY <1>1, <1>2, <1>3, <1>4, <1>5

(* The extents follow one another, so a byte is in no more than one.       *)
LEMMA ExtentsApart ==
    ASSUME NEW f \in Files, Plain(f), NEW j \in DOMAIN f.extents,
           NEW k \in DOMAIN f.extents, j < k
    PROVE  f.extents[j].key + f.extents[j].n <= f.extents[k].key
<1> DEFINE m == Len(f.extents)
           x(e) == f.extents[e]
<1>1. m \in Nat /\ DOMAIN f.extents = 1 .. m
  BY FilesDescribed
<1>2. \A e \in 1 .. m : /\ x(e).key \in Nat /\ x(e).n \in Nat
                        /\ e # 1 => x(e).key = x(e - 1).key + x(e - 1).n
  BY <1>1, PlainExtent
<1> HIDE DEF m, x
<1> DEFINE S == {e \in 0 .. m : j < e => x(j).key + x(j).n <= x(e).key}
<1>3. 0 \in S
  BY <1>1
<1>4. ASSUME NEW e \in 1 .. m, e - 1 \in S
      PROVE  e \in S
  <2>1. CASE j < e - 1
    <3>1. e - 1 \in 1 .. m /\ e # 1 /\ j \in 1 .. m
      BY <1>1, <2>1
    <3>2. x(j).key + x(j).n <= x(e - 1).key
      BY <1>4, <2>1
    <3>3. /\ x(e).key = x(e - 1).key + x(e - 1).n /\ x(e - 1).n \in Nat
          /\ x(e - 1).key \in Nat /\ x(j).key \in Nat /\ x(j).n \in Nat /\ x(e).key \in Nat
      BY <1>2, <3>1
    <3>4. x(j).key + x(j).n <= x(e).key
      BY <3>2, <3>3
    <3> QED
      BY <1>1, <3>4
  <2>2. CASE j = e - 1
    <3>1. e # 1 /\ e - 1 \in 1 .. m
      BY <1>1, <2>2
    <3>2. x(e).key = x(j).key + x(j).n /\ x(e).key \in Nat
      BY <1>2, <2>2, <3>1
    <3>3. x(j).key + x(j).n <= x(e).key
      BY <3>2
    <3> QED
      BY <1>1, <3>3
  <2>3. CASE ~(j < e)
    BY <1>1, <2>3
  <2>4. j < e - 1 \/ j = e - 1 \/ ~(j < e)
    BY <1>1
  <2> QED
    BY <2>1, <2>2, <2>3, <2>4
<1>5. 0 .. m \subseteq S
  <2> HIDE DEF S
  <2> QED
    BY <1>1, <1>3, <1>4, UpTo
<1>6. k \in S
  BY <1>1, <1>5
<1> QED
  BY <1>6 DEF x

(* The byte of a file at a position that an extent covers.                 *)
LEMMA FileByteIs ==
    ASSUME NEW f \in Files, Plain(f), NEW j \in DOMAIN f.extents, NEW p \in Nat,
           f.extents[j].key <= p, p < f.extents[j].key + f.extents[j].n
    PROVE  LET x == f.extents[j]
           IN  FileByte(f, p) =
                 CASE x.type = "inline" -> <<"item", p - x.key>>
                   [] x.type # "inline" /\ x.extAddr = 0 -> Zero
                   [] x.compression = "none" /\ OnDevice(x) -> <<"disk", x.extAddr + (p - x.key)>>
                   [] OTHER -> <<"decoded", x.extAddr, p - x.key>>
<1> DEFINE x == f.extents[j]
<1>1. DOMAIN f.extents = 1 .. Len(f.extents) /\ Len(f.extents) \in Nat
  BY PlainExtent
<1>2. \A e \in DOMAIN f.extents :
         /\ f.extents[e].key \in Nat /\ f.extents[e].n \in Nat
         /\ InFile(f.extents[e]) = f.extents[e].n
  BY PlainExtent
<1>3. Covers(x, p)
  BY <1>2 DEF Covers
<1>4. ASSUME NEW e \in DOMAIN f.extents, Covers(f.extents[e], p)
      PROVE  e = j
  <2>1. f.extents[e].key <= p /\ p < f.extents[e].key + f.extents[e].n
    BY <1>2, <1>4 DEF Covers
  <2>2. ~(e < j)
    <3>1. SUFFICES ASSUME e < j PROVE FALSE
      OBVIOUS
    <3>2. f.extents[e].key + f.extents[e].n <= x.key
      BY <3>1, ExtentsApart
    <3> QED
      BY <1>2, <2>1, <3>2
  <2>3. ~(j < e)
    <3>1. SUFFICES ASSUME j < e PROVE FALSE
      OBVIOUS
    <3>2. x.key + x.n <= f.extents[e].key
      BY <3>1, ExtentsApart
    <3> QED
      BY <1>2, <2>1, <3>2
  <2> QED
    BY <1>1, <2>2, <2>3
<1>5. (CHOOSE e \in DOMAIN f.extents : Covers(f.extents[e], p)) = j
  BY <1>3, <1>4
<1>6. x.offset = 0 /\ x.key \in Nat
  BY PlainExtent
<1>7. x.offset + p - x.key = p - x.key
  BY <1>6
<1>8. FileByte(f, p) =
         CASE x.type = "inline" -> <<"item", x.offset + p - x.key>>
           [] x.type # "inline" /\ x.extAddr = 0 -> Zero
           [] x.compression = "none" /\ OnDevice(x)
                -> <<"disk", x.extAddr + (x.offset + p - x.key)>>
           [] OTHER -> <<"decoded", x.extAddr, x.offset + p - x.key>>
  BY <1>5 DEF FileByte
<1> HIDE DEF x
<1> QED
  BY <1>7, <1>8 DEF x

(* What is copied from: the bytes of the extent, all of them.              *)
LEMMA SourceRight ==
    ASSUME MapTypeOK, NEW f \in Files, Plain(f), NEW j \in DOMAIN f.extents,
           NEW outLen \in OutLens, f.extents[j].compression # "unknown",
           \/ f.extents[j].type = "inline"
           \/ /\ OnDevice(f.extents[j]) /\ Readable(f.extents[j])
              /\ ~DecompressFails(f.extents[j], outLen)
    PROVE  LET x == f.extents[j]
               source == decompressed(x, outLen)
           IN  \A k \in 0 .. x.n - 1 :
                  /\ k \in DOMAIN source
                  /\ source[k] = IF x.type = "inline" THEN <<"item", k>>
                                 ELSE IF x.compression = "none" THEN <<"disk", x.extAddr + k>>
                                 ELSE <<"decoded", x.extAddr, k>>
<1> DEFINE x == f.extents[j]
           source == decompressed(x, outLen)
<1>1. /\ x.n \in Nat \ {0} /\ x.offset = 0 /\ x.bytesInFile = x.n
      /\ x.type = "inline" => x.compression = "none"
  BY PlainExtent
<1>2. /\ x.compression \in {"none", "zlib", "lzo"}
      /\ OnDevice(x) => x.extAddr \in Nat /\ x.extSize \in Nat \ {0}
      /\ x.compression = "none" /\ (x.type = "inline" \/ OnDevice(x))
            => x.extSize \in Nat /\ x.n <= x.extSize
      /\ OnDevice(x) /\ x.extAddr \notin Damaged /\ x.compression = "lzo"
            => LzoWritten(LzoExtents[x.extAddr], x.extSize, x.n)
      /\ OnDevice(x) /\ x.extAddr \notin Damaged /\ x.compression = "zlib"
            => ZlibWritten(ZlibExtents[x.extAddr], x.extSize, x.n)
  BY ExtentsWritten
<1>3. \/ x.type = "inline"
      \/ OnDevice(x) /\ Readable(x) /\ ~DecompressFails(x, outLen)
  OBVIOUS
<1> HIDE DEF x
<1>4. CASE x.type = "inline"
  <2>1. source = [k \in 0 .. x.extSize - 1 |-> <<"item", k>>]
    BY <1>1, <1>4 DEF decompressed, compressed
  <2>2. x.extSize \in Nat /\ x.n <= x.extSize
    BY <1>1, <1>2, <1>4
  <2>3. \A k \in 0 .. x.n - 1 : k \in 0 .. x.extSize - 1
    BY <1>1, <2>2
  <2> HIDE DEF source
  <2>4. \A k \in 0 .. x.n - 1 : k \in DOMAIN source /\ source[k] = <<"item", k>>
    BY <2>1, <2>3
  <2> QED
    BY <1>4, <2>4 DEF source, x
<1>5. ASSUME x.type # "inline"
      PROVE  /\ OnDevice(x) /\ Readable(x) /\ ~DecompressFails(x, outLen)
             /\ x.extAddr \in Nat /\ x.extSize \in Nat \ {0}
             /\ compressed(x) = [k \in 0 .. x.extSize - 1 |-> <<"disk", x.extAddr + k>>]
  <2>1. OnDevice(x) /\ Readable(x) /\ ~DecompressFails(x, outLen)
    BY <1>3, <1>5
  <2>2. x.extAddr \in Nat /\ x.extSize \in Nat \ {0}
    BY <1>2, <2>1
  <2>3. readLogical(x.extAddr, x.extSize)
           = [k \in 0 .. x.extSize - 1 |-> <<"disk", x.extAddr + k>>]
    BY <2>1, <2>2, ReadIsRight DEF Readable
  <2> QED
    BY <1>5, <2>1, <2>2, <2>3 DEF compressed
<1>6. CASE x.type # "inline" /\ x.compression = "none"
  <2>1. source = [k \in 0 .. x.extSize - 1 |-> <<"disk", x.extAddr + k>>]
    BY <1>5, <1>6 DEF decompressed
  <2>2. x.extSize \in Nat /\ x.n <= x.extSize
    BY <1>2, <1>5, <1>6
  <2>3. \A k \in 0 .. x.n - 1 : k \in 0 .. x.extSize - 1
    BY <1>1, <2>2
  <2> HIDE DEF source
  <2>4. \A k \in 0 .. x.n - 1 : k \in DOMAIN source /\ source[k] = <<"disk", x.extAddr + k>>
    BY <2>1, <2>3
  <2> QED
    BY <1>6, <2>4 DEF source, x
<1>7. CASE x.type # "inline" /\ x.compression # "none"
  <2> DEFINE output == Decoded(x, outLen).output
  <2>1. x.extAddr \notin Damaged /\ ~Decoded(x, outLen).failed
    BY <1>2, <1>5, <1>7 DEF DecompressFails
  <2>2. \A k \in 0 .. x.n - 1 : k \in DOMAIN output /\ output[k] = k
    <3>1. CASE x.compression = "zlib"
      <4>1. ZlibWritten(ZlibExtents[x.extAddr], x.extSize, x.n)
        BY <1>2, <1>5, <1>7, <2>1, <3>1
      <4>2. output = zlibDecompress(ZlibExtents[x.extAddr], x.extSize, x.n).output
        BY <1>1, <3>1 DEF Decoded
      <4> DEFINE z == zlibDecompress(ZlibExtents[x.extAddr], x.extSize, x.n).output
      <4>3. x.n \in Nat
        BY <1>1
      <4>4. 0 .. x.n - 1 \subseteq DOMAIN z /\ \A p \in 0 .. x.n - 1 : z[p] = p
        <5> DEFINE c == ZlibExtents[x.extAddr]
                   e == x.extSize
                   n == x.n
        <5>1. ZlibWritten(c, e, n) /\ n \in Nat
          BY <4>1, <4>3
        <5> HIDE DEF c, e, n
        <5>2. /\ zlibDecompress(c, e, n).failed = FALSE
              /\ 0 .. n - 1 \subseteq DOMAIN zlibDecompress(c, e, n).output
              /\ \A p \in 0 .. n - 1 : zlibDecompress(c, e, n).output[p] = p
          BY <5>1, ZlibDecodes, ZenonT(60)
        <5> QED
          BY <5>2 DEF c, e, n
      <4> HIDE DEF output, z
      <4> QED
        BY <4>2, <4>4 DEF z
    <3>2. CASE x.compression = "lzo"
      <4> DEFINE d == LzoExtents[x.extAddr]
                 t == LzoEnd(d, outLen)
      <4>1. LzoWritten(d, x.extSize, x.n) /\ x.extSize \in Nat /\ outLen \in Nat
        BY <1>2, <1>5, <1>7, <2>1, <3>2, LzoLengths
      <4>2. /\ x.n \in Nat /\ HeaderSize <= x.extSize
            /\ ~t.error => t.output = [p \in 0 .. x.n - 1 |-> p]
        <5> DEFINE e == x.extSize
                   n == x.n
        <5>1. LzoWritten(d, e, n) /\ e \in Nat
          BY <4>1
        <5> HIDE DEF d, e, n
        <5>2. DecodesWell(d, e, n, outLen)
          BY <4>1, <5>1, LzoDecodes
        <5> QED
          BY <5>2 DEF DecodesWell, e, n
      <4>3. Decoded(x, outLen) = lzoDecompress(d, x.extSize, x.n, outLen)
        BY <1>1, <3>2 DEF Decoded
      <4> HIDE DEF t, d
      <4>4. Decoded(x, outLen) =
               [failed |-> t.error \/ t.lzoBytesWritten > x.n, output |-> t.output]
        <5>1. ~(x.extSize < HeaderSize)
          BY <4>1, <4>2, LzoLengths
        <5> QED
          BY <4>3, <5>1 DEF lzoDecompress, t
      <4>5. ~t.error /\ output = t.output
        <5>1. /\ Decoded(x, outLen).failed = (t.error \/ t.lzoBytesWritten > x.n)
              /\ Decoded(x, outLen).output = t.output
          BY <4>4
        <5> QED
          BY <2>1, <5>1, Zenon
      <4>6. output = [p \in 0 .. x.n - 1 |-> p]
        BY <4>2, <4>5
      <4> HIDE DEF output
      <4> QED
        BY <4>6
    <3> QED
      BY <1>2, <1>7, <3>1, <3>2
  <2>3. \A k \in 0 .. x.extSize - 1 : compressed(x)[k] = <<"disk", x.extAddr + k>>
    BY <1>5, <1>7
  <2>4. source = [k \in DOMAIN output |-> <<"decoded", x.extAddr, output[k]>>]
    BY <1>7, <2>3 DEF decompressed
  <2> HIDE DEF output, source
  <2>5. \A k \in 0 .. x.n - 1 : k \in DOMAIN source /\ source[k] = <<"decoded", x.extAddr, k>>
    BY <2>2, <2>4
  <2> QED
    BY <1>7, <2>5 DEF source, x
<1> QED
  BY <1>4, <1>6, <1>7

(* Whatever way an extent meets the rest of a request that has got to it,  *)
(* the part that is taken of it starts where the request is, stays in the  *)
(* extent, and ends with the request or with the extent; and an extent     *)
(* that is skipped lies before.                                            *)
LEMMA PartOfExtent ==
    ASSUME ReadInv, AtExtent, Plain(file), extent.key <= offset
    PROVE  /\ file \in Files /\ i \in DOMAIN file.extents /\ extent.n \in Nat \ {0}
           /\ ~Touched(extent) => extent.key + extent.n <= offset
           /\ Touched(extent) =>
                 /\ From(extent) = offset - extent.key
                 /\ Length(extent) \in 0 .. numberOfBytesToRead
                 /\ offset - extent.key + Length(extent) <= extent.n
                 /\ IF last(extent) \/ within(extent)
                    THEN offset + Length(extent) = readEnd
                    ELSE offset + Length(extent) = extent.key + extent.n
<1>1. file \in Files /\ offset + numberOfBytesToRead = readEnd
  BY DEF ReadInv, LoopInv, AtExtent
<1>2. i \in DOMAIN file.extents
  BY <1>1, ExtentFacts, FilesDescribed
<1>3. extent.n \in Nat \ {0} /\ extent.key \in Nat
  BY <1>1, <1>2, PlainExtent DEF extent
<1>4. offset \in Nat /\ numberOfBytesToRead \in Nat
  BY DWordsNatural DEF ReadInv, TypeOK
<1>5. Touched(extent) => Length(extent) \in 0 .. numberOfBytesToRead
  BY LengthBounded
<1> DEFINE x == extent
<1>6. /\ hasFirst(x) <=> x.key >= offset /\ x.key < offset + numberOfBytesToRead
      /\ hasLast(x) <=> /\ x.key + x.n - 1 >= offset
                        /\ x.key + x.n - 1 < offset + numberOfBytesToRead
      /\ within(x) <=> offset >= x.key /\ offset + numberOfBytesToRead <= x.key + x.n
  BY DEF hasFirst, hasLast, InRequest, within
<1> HIDE DEF x
<1>7. x.key <= offset /\ x.key \in Nat /\ x.n \in Nat \ {0}
  BY <1>3 DEF x
<1>8. hasFirst(x) => x.key = offset
  BY <1>4, <1>6, <1>7
<1>9. CASE ~Touched(x)
  <2>1. ~within(x) /\ ~hasLast(x)
    BY <1>9 DEF Touched, first, last, span
  <2>2. x.key + x.n <= offset
    BY <1>4, <1>6, <1>7, <2>1
  <2> QED
    BY <1>1, <1>2, <1>3, <1>9, <2>2 DEF x
<1>10. CASE Touched(x)
  <2>1. /\ From(x) = offset - x.key
        /\ offset - x.key + Length(x) <= x.n
        /\ IF last(x) \/ within(x) THEN offset + Length(x) = readEnd
           ELSE offset + Length(x) = x.key + x.n
    <3>1. CASE span(x)
      <4>1. x.key = offset /\ hasLast(x) /\ Length(x) = x.n /\ From(x) = 0 /\ ~last(x)
        BY <1>8, <3>1 DEF span, Length, From, last
      <4> QED
        BY <1>1, <1>4, <1>6, <1>7, <4>1
    <3>2. CASE ~span(x) /\ within(x)
      <4>1. Length(x) = numberOfBytesToRead /\ From(x) = offset - x.key
        BY <3>2 DEF Length, From
      <4> QED
        BY <1>1, <1>4, <1>6, <1>7, <3>2, <4>1
    <3>3. CASE ~span(x) /\ ~within(x) /\ first(x)
      <4>1. Length(x) = x.n - (offset - x.key) /\ From(x) = offset - x.key /\ ~last(x)
        BY <3>3 DEF Length, From, last, first
      <4> QED
        BY <1>1, <1>4, <1>6, <1>7, <3>3, <4>1
    <3>4. CASE ~span(x) /\ ~within(x) /\ ~first(x)
      <4>1. last(x)
        BY <1>10, <3>4 DEF Touched
      <4>2. hasFirst(x) /\ ~hasLast(x) /\ x.key = offset
        BY <1>8, <4>1 DEF last
      <4>3. Length(x) = offset + numberOfBytesToRead - x.key /\ From(x) = 0
        BY <3>4 DEF Length, From
      <4> QED
        BY <1>1, <1>4, <1>6, <1>7, <4>1, <4>2, <4>3
    <3> QED
      BY <3>1, <3>2, <3>3, <3>4
  <2> QED
    BY <1>1, <1>2, <1>3, <1>5, <1>10, <2>1 DEF x
<1> QED
  BY <1>9, <1>10 DEF x

(* Data that does not decode, and is not damaged, is lzo data of one of    *)
(* two kinds.                                                              *)
LEMMA FailureHasCause ==
    ASSUME NEW f \in Files, Plain(f), NEW j \in DOMAIN f.extents,
           NEW outLen \in OutLens, OnDevice(f.extents[j]),
           f.extents[j].extAddr \notin Damaged, DecompressFails(f.extents[j], outLen)
    PROVE  /\ f.extents[j].compression = "lzo"
           /\ \/ HasPadding(LzoExtents[f.extents[j].extAddr])
              \/ \E g \in LzoExtents[f.extents[j].extAddr].segments :
                    g.at = HeaderSize /\ g.outLen > outLen
<1> DEFINE x == f.extents[j]
<1>1. x.n \in Nat \ {0} /\ x.bytesInFile = x.n
  BY PlainExtent
<1>2. /\ x.extSize \in Nat \ {0}
      /\ x.compression = "lzo" => LzoWritten(LzoExtents[x.extAddr], x.extSize, x.n)
      /\ x.compression = "zlib" => ZlibWritten(ZlibExtents[x.extAddr], x.extSize, x.n)
  BY ExtentsWritten
<1>3. x.compression \in {"zlib", "lzo"} /\ Decoded(x, outLen).failed
  BY DEF DecompressFails
<1> HIDE DEF x
<1> DEFINE e == x.extSize
           n == x.n
<1>4. n \in Nat /\ e \in Nat
  BY <1>1, <1>2
<1>5. CASE x.compression = "zlib"
  <2> DEFINE c == ZlibExtents[x.extAddr]
  <2>1. ZlibWritten(c, e, n)
    BY <1>2, <1>5
  <2>2. Decoded(x, outLen) = zlibDecompress(c, e, n)
    BY <1>1, <1>5 DEF Decoded
  <2> HIDE DEF c, e, n
  <2>3. zlibDecompress(c, e, n).failed = FALSE
    BY <1>4, <2>1, ZlibDecodes
  <2> QED
    BY <1>3, <2>2, <2>3
<1>6. CASE x.compression = "lzo"
  <2> DEFINE d == LzoExtents[x.extAddr]
             t == LzoEnd(d, outLen)
  <2>1. LzoWritten(d, e, n) /\ outLen \in Nat
    BY <1>2, <1>6, LzoLengths
  <2>2. Decoded(x, outLen) = lzoDecompress(d, e, n, outLen)
    BY <1>1, <1>6 DEF Decoded
  <2> HIDE DEF d, e, n
  <2>3. DecodesWell(d, e, n, outLen)
    BY <1>4, <2>1, LzoDecodes
  <2>4. HeaderSize <= e /\ t.lzoBytesWritten \in 0 .. n
    BY <2>3 DEF DecodesWell
  <2>5. t.error => \/ HasPadding(d)
                   \/ \E g \in d.segments : g.at = HeaderSize /\ g.outLen > outLen
    BY <2>3 DEF DecodesWell
  <2> HIDE DEF t
  <2>6. Decoded(x, outLen) =
           [failed |-> t.error \/ t.lzoBytesWritten > n, output |-> t.output]
    <3>1. ~(e < HeaderSize)
      BY <1>4, <2>4, LzoLengths
    <3> QED
      BY <2>2, <3>1 DEF lzoDecompress, t
  <2>7. ~(t.lzoBytesWritten > n)
    BY <1>4, <2>4
  <2>8. t.error
    <3>1. Decoded(x, outLen).failed = (t.error \/ t.lzoBytesWritten > n)
      BY <2>6
    <3> QED
      BY <1>3, <2>7, <3>1, Zenon
  <2> QED
    BY <1>6, <2>5, <2>8 DEF d, x
<1> QED
  BY <1>3, <1>5, <1>6

(* DecodingInBuffers at an extent.                                         *)
LEMMA DecodesInBuffers ==
    ASSUME NEW f \in Files, Plain(f), NEW j \in DOMAIN f.extents,
           NEW outLen \in OutLens, OnDevice(f.extents[j]),
           f.extents[j].extAddr \notin Damaged, f.extents[j].compression = "lzo"
    PROVE  LET t == LzoEnd(LzoExtents[f.extents[j].extAddr], outLen)
           IN  /\ t.compressed <= f.extents[j].extSize
               /\ DOMAIN t.output \subseteq 0 .. f.extents[j].bytesInFile - 1
<1> DEFINE x == f.extents[j]
           d == LzoExtents[x.extAddr]
           e == x.extSize
           n == x.n
<1>1. n \in Nat /\ x.bytesInFile = n
  BY PlainExtent
<1>2. e \in Nat /\ LzoWritten(d, e, n)
  BY ExtentsWritten
<1>3. outLen \in Nat
  BY LzoLengths
<1> HIDE DEF d, e, n
<1>4. DecodesWell(d, e, n, outLen)
  BY <1>1, <1>2, <1>3, LzoDecodes
<1>5. /\ LzoEnd(d, outLen).compressed <= e
      /\ DOMAIN LzoEnd(d, outLen).output \subseteq 0 .. n - 1
  BY <1>4 DEF DecodesWell
<1> QED
  BY <1>1, <1>5 DEF d, e

(* ServedInv is about the variables of a request, which the chunk map's    *)
(* loading leaves alone.                                                   *)
LEMMA QuietServes ==
    ASSUME ServedInv, UNCHANGED readVars
    PROVE  ServedInv'
<1>1. UNCHANGED <<pc, file, readBegin, readEnd, i, offset, numberOfBytesRead,
                  buffer, result>>
  BY DEF readVars, call
<1>2. IdleInv'
  BY <1>1 DEF ServedInv, IdleInv
<1>3. DataInv'
  BY <1>1 DEF ServedInv, DataInv, Unfinished, Delivered
<1>4. PositionInv'
  BY <1>1 DEF ServedInv, PositionInv, extent
<1>5. PlainReadsRight'
  BY <1>1 DEF ServedInv, PlainReadsRight, Delivered, BytesWanted
<1>6. DecodingFailsForCause'
  BY <1>1 DEF ServedInv, DecodingFailsForCause, extent
<1> QED
  BY <1>2, <1>3, <1>4, <1>5, <1>6 DEF ServedInv

(* A request starts at its beginning with nothing read.                    *)
LEMMA ReadFileServes ==
    ASSUME NEW f \in Files, NEW o \in Offsets, NEW n \in Lengths, ReadFile(f, o, n)
    PROVE  ServedInv'
<1>1. o \in Nat /\ n \in Nat /\ f.size \in Nat
  BY RequestsFit, FilesDescribed
<1>2. /\ file' = f /\ readBegin' = o /\ readEnd' = o + n /\ i' = 1 /\ offset' = o
      /\ numberOfBytesRead' = 0 /\ buffer' = [p \in 0 .. n - 1 |-> Zero]
      /\ pc' = (IF o < f.size THEN "loop" ELSE "done") /\ result' = "ERROR_SUCCESS"
  BY DEF ReadFile
<1>3. offset' - readBegin' = 0 /\ readEnd' - readBegin' = n
  BY <1>1, <1>2
<1>4. IdleInv'
  BY <1>2 DEF IdleInv
<1>5. DataInv'
  <2>1. SUFFICES ASSUME Plain(f), Unfinished'
        PROVE  /\ readBegin' < file'.size
               /\ DOMAIN buffer' = 0 .. n - 1
               /\ \A p \in 0 .. 0 - 1 : buffer'[p] = FileByte(f, readBegin' + p)
               /\ \A p \in 0 .. n - 1 : buffer'[p] = Zero
    BY <1>2, <1>3 DEF DataInv, Delivered
  <2>2. o < f.size
    BY <1>2, <2>1 DEF Unfinished
  <2> QED
    BY <1>2, <2>2
<1>6. PositionInv'
  <2>1. SUFFICES ASSUME Plain(f)
        PROVE  /\ 1 <= Len(f.extents) => f.extents[1].key <= o
               /\ 1 > Len(f.extents) => ReachOf(f) <= o
    BY <1>2 DEF PositionInv, extent
  <2>2. Len(f.extents) \in Nat /\ DOMAIN f.extents = 1 .. Len(f.extents)
    BY FilesDescribed
  <2>3. ASSUME 1 <= Len(f.extents) PROVE f.extents[1].key <= o
    <3>1. 1 \in DOMAIN f.extents
      BY <2>2, <2>3
    <3>2. f.extents[1].key = 0
      BY <2>1, <3>1, PlainExtent
    <3> QED
      BY <1>1, <3>2
  <2>4. ASSUME 1 > Len(f.extents) PROVE ReachOf(f) <= o
    <3>1. f.size <= ReachOf(f)
      BY FilesTiled
    <3>2. Len(f.extents) = 0
      BY <2>2, <2>4
    <3> QED
      BY <1>1, <3>2 DEF ReachOf
  <2> QED
    BY <2>3, <2>4
<1>7. PlainReadsRight'
  <2>1. SUFFICES ASSUME pc' = "done"
        PROVE  numberOfBytesRead' = BytesWanted' /\ Delivered(BytesWanted)'
    BY DEF PlainReadsRight
  <2>2. BytesWanted' = 0
    BY <1>1, <1>2, <2>1 DEF BytesWanted
  <2> QED
    BY <1>2, <2>2 DEF Delivered
<1>8. DecodingFailsForCause'
  BY <1>2 DEF DecodingFailsForCause
<1> QED
  BY <1>4, <1>5, <1>6, <1>7, <1>8 DEF ServedInv

(* What is known of a request in its loop.                                 *)
LEMMA RequestFacts ==
    ASSUME ReadInv, pc = "loop"
    PROVE  /\ file \in Files /\ offset + numberOfBytesToRead = readEnd
           /\ readBegin \in Nat /\ readEnd \in Nat /\ offset \in readBegin .. readEnd
           /\ numberOfBytesToRead \in Nat /\ numberOfBytesRead \in 0 .. DWORDs - 1
           /\ readEnd - readBegin \in 0 .. DWORDs - 1 /\ DWORDs \in Nat \ {0}
           /\ file.size \in Nat /\ file.size <= ReachOf(file)
           /\ Len(file.extents) \in Nat /\ DOMAIN file.extents = 1 .. Len(file.extents)
           /\ i \in 1 .. Len(file.extents) + 1
<1>1. file \in Files /\ offset + numberOfBytesToRead = readEnd
  BY DEF ReadInv, LoopInv
<1>2. /\ readBegin \in Nat /\ readEnd \in Nat /\ offset \in readBegin .. readEnd
      /\ numberOfBytesToRead \in 0 .. DWORDs - 1 /\ numberOfBytesRead \in 0 .. DWORDs - 1
      /\ i \in 1 .. Len(file.extents) + 1
  BY DEF ReadInv, TypeOK
<1>3. readEnd - readBegin \in 0 .. DWORDs - 1 /\ DWORDs \in Nat \ {0}
  BY DWordsNatural DEF ReadInv, RequestSize
<1>4. /\ file.size \in Nat /\ Len(file.extents) \in Nat
      /\ DOMAIN file.extents = 1 .. Len(file.extents)
  BY <1>1, FilesDescribed
<1>5. file.size <= ReachOf(file)
  BY <1>1, FilesTiled
<1> QED
  BY <1>1, <1>2, <1>3, <1>4, <1>5

(* An extent that is done with leaves the next one to start where the      *)
(* request has got to, or nothing to be read.                              *)
LEMMA NextStarts ==
    ASSUME ReadInv, AtExtent, Plain(file)
    PROVE  /\ i + 1 <= Len(file.extents)
                 => file.extents[i + 1].key = extent.key + extent.n
           /\ i + 1 > Len(file.extents) => ReachOf(file) = extent.key + extent.n
<1>1. /\ file \in Files /\ i \in 1 .. Len(file.extents)
      /\ Len(file.extents) \in Nat /\ DOMAIN file.extents = 1 .. Len(file.extents)
  BY RequestFacts DEF AtExtent
<1>2. ASSUME i + 1 <= Len(file.extents)
      PROVE  file.extents[i + 1].key = extent.key + extent.n
  <2> DEFINE j == i + 1
  <2>1. j \in DOMAIN file.extents /\ j # 1 /\ j - 1 = i
    BY <1>1, <1>2
  <2> HIDE DEF j
  <2>2. file.extents[j].key = file.extents[j - 1].key + file.extents[j - 1].n
    BY <1>1, <2>1, PlainExtent
  <2> QED
    BY <2>1, <2>2 DEF j, extent
<1>3. ASSUME i + 1 > Len(file.extents)
      PROVE  ReachOf(file) = extent.key + extent.n
  <2>1. i = Len(file.extents) /\ Len(file.extents) # 0
    BY <1>1, <1>3
  <2> QED
    BY <2>1 DEF ReachOf, extent
<1> QED
  BY <1>2, <1>3

LEMMA SkipServes ==
    ASSUME ReadInv, ServedInv, SkipExtent
    PROVE  ServedInv'
<1>1. /\ AtExtent /\ pc = "loop" /\ ~Touched(extent) /\ i' = i + 1
      /\ UNCHANGED <<pc, file, readBegin, readEnd, offset, numberOfBytesRead,
                     buffer, result>>
  BY DEF SkipExtent, AtExtent, call
<1>2. IdleInv'
  BY <1>1 DEF IdleInv
<1>3. DataInv'
  BY <1>1 DEF ServedInv, DataInv, Unfinished, Delivered
<1>4. PositionInv'
  <2>1. SUFFICES ASSUME Plain(file)
        PROVE  /\ i' # 1
               /\ i' <= Len(file.extents) => file.extents[i + 1].key <= offset
               /\ i' > Len(file.extents) => ReachOf(file) <= offset
    BY <1>1 DEF PositionInv, extent
  <2>2. i \in Nat /\ i # 0
    <3>1. i \in 1 .. Len(file.extents) + 1 /\ Len(file.extents) \in Nat
      BY <1>1, RequestFacts, Zenon
    <3> QED
      BY <3>1
  <2>3. extent.key <= offset
    BY <1>1, <2>1 DEF ServedInv, PositionInv, AtExtent
  <2>4. extent.key + extent.n <= offset
    BY <1>1, <2>1, <2>3, PartOfExtent
  <2> QED
    BY <1>1, <2>1, <2>2, <2>4, NextStarts
<1>5. PlainReadsRight'
  BY <1>1 DEF PlainReadsRight
<1>6. DecodingFailsForCause'
  BY <1>1 DEF DecodingFailsForCause
<1> QED
  BY <1>2, <1>3, <1>4, <1>5, <1>6 DEF ServedInv

(* A request that fails leaves what it has delivered.                      *)
LEMMA FailureServes ==
    ASSUME ServedInv, pc = "loop",
           UNCHANGED <<call, i, offset, numberOfBytesToRead, numberOfBytesRead, buffer>>,
           pc' = "aborted" \/ (pc' = "done" /\ result' # "ERROR_SUCCESS"),
           DecodingFailsForCause'
    PROVE  ServedInv'
<1>1. UNCHANGED <<file, readBegin, readEnd, i, offset, numberOfBytesRead, buffer>>
  BY DEF call
<1>2. IdleInv'
  BY DEF IdleInv
<1>3. DataInv'
  BY <1>1 DEF ServedInv, DataInv, Unfinished, Delivered
<1>4. PositionInv'
  BY DEF PositionInv
<1>5. PlainReadsRight'
  BY DEF PlainReadsRight
<1> QED
  BY <1>2, <1>3, <1>4, <1>5 DEF ServedInv

LEMMA DecompressionFailsServes ==
    ASSUME ReadInv, ServedInv, DecompressionFails
    PROVE  ServedInv'
<1>1. PICK outLen \in OutLens : DecompressFails(extent, outLen)
  BY DEF DecompressionFails
<1>2. /\ AtExtent /\ OnDevice(extent) /\ pc = "loop"
      /\ pc' = "done" /\ result' = "PLA_E_CABAPI_FAILURE"
      /\ UNCHANGED <<call, i, offset, numberOfBytesToRead, numberOfBytesRead, buffer>>
  BY DEF DecompressionFails, Return, AtExtent
<1>3. DecodingFailsForCause'
  <2>1. SUFFICES ASSUME Plain(file), extent.extAddr \notin Damaged
        PROVE  /\ extent.compression = "lzo"
               /\ \/ HasPadding(LzoExtents[extent.extAddr])
                  \/ \E g \in LzoExtents[extent.extAddr].segments, o \in OutLens :
                        g.at = HeaderSize /\ g.outLen > o
    BY <1>2, Zenon DEF DecodingFailsForCause, extent, call
  <2>2. file \in Files /\ i \in DOMAIN file.extents
    <3>1. file \in Files
      BY <1>2, RequestFacts
    <3>2. /\ Len(file.extents) \in Nat /\ DOMAIN file.extents = 1 .. Len(file.extents)
          /\ i \in 1 .. Len(file.extents) + 1
      BY <1>2, RequestFacts
    <3>3. i <= Len(file.extents)
      BY <1>2 DEF AtExtent
    <3> QED
      BY <3>1, <3>2, <3>3
  <2>3. /\ extent.compression = "lzo"
        /\ \/ HasPadding(LzoExtents[extent.extAddr])
           \/ \E g \in LzoExtents[extent.extAddr].segments :
                 g.at = HeaderSize /\ g.outLen > outLen
    BY <1>1, <1>2, <2>1, <2>2, FailureHasCause DEF extent
  <2> QED
    BY <1>1, <2>3
<1> QED
  BY <1>2, <1>3, FailureServes

(* A turn that serves its part of the request: what it writes are the      *)
(* file's bytes, and the rest of the buffer stays.                         *)
Serves(len) ==
    /\ DOMAIN buffer' = DOMAIN buffer
    /\ \A p \in DOMAIN buffer :
          buffer'[p] = IF p \in offset - readBegin .. offset - readBegin + len - 1
                       THEN FileByte(file, readBegin + p) ELSE buffer[p]

LEMMA AdvanceServes ==
    ASSUME ReadInv, ServedInv, AtExtent, Touched(extent), NEW read \in Int, Advance(read),
           read = (IF extent.type = "inline" THEN numberOfBytesToRead - Length(extent)
                   ELSE numberOfBytesRead),
           Plain(file) => Serves(Length(extent))
    PROVE  ServedInv'
<1> DEFINE len == Length(extent)
<1>1. /\ pc = "loop" /\ pc' = pc /\ UNCHANGED <<file, readBegin, readEnd, result>>
      /\ numberOfBytesRead' = (read + len) % DWORDs
      /\ offset' = offset + len
      /\ i' = IF last(extent) \/ within(extent) THEN Len(file.extents) + 1 ELSE i + 1
  BY DEF Advance, AtExtent, call
<1>2. /\ file \in Files /\ offset + numberOfBytesToRead = readEnd
      /\ readBegin \in Nat /\ readEnd \in Nat /\ offset \in readBegin .. readEnd
      /\ numberOfBytesToRead \in Nat /\ readEnd - readBegin \in 0 .. DWORDs - 1
      /\ DWORDs \in Nat \ {0} /\ file.size \in Nat /\ file.size <= ReachOf(file)
      /\ Len(file.extents) \in Nat /\ DOMAIN file.extents = 1 .. Len(file.extents)
      /\ i \in 1 .. Len(file.extents)
  BY <1>1, RequestFacts DEF AtExtent
<1>3. len \in 0 .. numberOfBytesToRead
  BY LengthBounded
<1>4. IdleInv'
  BY <1>1 DEF IdleInv
<1>5. ASSUME Plain(file)
      PROVE  /\ extent.key <= offset /\ extent.key \in Nat /\ extent.n \in Nat
             /\ extent.type = "inline" => i = 1 /\ Len(file.extents) = 1 /\ extent.key = 0
             /\ IF last(extent) \/ within(extent) THEN offset + len = readEnd
                ELSE offset + len = extent.key + extent.n
  <2>1. extent.key <= offset
    BY <1>1, <1>5 DEF ServedInv, PositionInv, AtExtent
  <2>2. i \in DOMAIN file.extents
    BY <1>2
  <2>3. /\ extent.key \in Nat /\ extent.n \in Nat
        /\ extent.type = "inline" => i = 1 /\ Len(file.extents) = 1
        /\ i = 1 => extent.key = 0
    BY <1>2, <1>5, <2>2, PlainExtent DEF extent
  <2>4. IF last(extent) \/ within(extent) THEN offset + len = readEnd
        ELSE offset + len = extent.key + extent.n
    BY <1>5, <2>1, PartOfExtent
  <2> QED
    BY <2>1, <2>3, <2>4
<1> HIDE DEF len
<1>6. PositionInv'
  <2>1. SUFFICES ASSUME Plain(file)
        PROVE  /\ i' # 1
               /\ i' <= Len(file.extents) => file.extents[i'].key <= offset'
               /\ i' > Len(file.extents) => offset' = readEnd \/ ReachOf(file) <= offset'
    BY <1>1 DEF PositionInv, extent
  <2>2. CASE last(extent) \/ within(extent)
    <3>1. i' = Len(file.extents) + 1 /\ offset' = readEnd
      BY <1>1, <1>5, <2>1, <2>2
    <3>2. i' # 1 /\ ~(i' <= Len(file.extents))
      <4>1. Len(file.extents) \in Nat /\ i \in 1 .. Len(file.extents)
        BY <1>2
      <4> DEFINE count == Len(file.extents)
      <4> HIDE DEF count
      <4>2. count + 1 # 1 /\ ~(count + 1 <= count)
        BY <4>1 DEF count
      <4> QED
        BY <3>1, <4>2 DEF count
    <3> QED
      BY <3>1, <3>2
  <2>3. CASE ~(last(extent) \/ within(extent))
    <3>1. i' = i + 1 /\ offset' = extent.key + extent.n
      BY <1>1, <1>5, <2>1, <2>3
    <3>2. offset' \in Nat
      BY <1>5, <2>1, <3>1
    <3> QED
      BY <1>2, <2>1, <3>1, <3>2, NextStarts
  <2> QED
    BY <2>2, <2>3
<1>7. DataInv'
  <2>1. SUFFICES ASSUME Plain(file)
        PROVE  /\ file \in Files /\ readBegin < file.size
               /\ DOMAIN buffer' = 0 .. readEnd - readBegin - 1
               /\ \A p \in 0 .. offset' - readBegin - 1 :
                     buffer'[p] = FileByte(file, readBegin + p)
               /\ \A p \in offset' - readBegin .. readEnd - readBegin - 1 : buffer'[p] = Zero
               /\ \/ numberOfBytesRead' = offset' - readBegin
                  \/ numberOfBytesRead' = readEnd - readBegin /\ file.size <= offset'
    BY <1>1 DEF DataInv, Delivered
  <2>2. /\ readBegin < file.size
        /\ DOMAIN buffer = 0 .. readEnd - readBegin - 1
        /\ \A p \in 0 .. offset - readBegin - 1 : buffer[p] = FileByte(file, readBegin + p)
        /\ \A p \in offset - readBegin .. readEnd - readBegin - 1 : buffer[p] = Zero
    BY <1>1, <2>1 DEF ServedInv, DataInv, Unfinished, Delivered
  <2>3. numberOfBytesRead = offset - readBegin
    BY <1>2, AtExtent DEF ReadInv, LoopInv, AtExtent
  <2> DEFINE b == offset - readBegin
             e == readEnd - readBegin
             Byte(p) == FileByte(file, readBegin + p)
  <2>4. b \in Nat /\ e \in Nat /\ b + len <= e /\ offset' - readBegin = b + len /\ len \in Nat
    <3>1. /\ offset \in Nat /\ readBegin \in Nat /\ readEnd \in Nat /\ len \in Nat
          /\ readBegin <= offset /\ offset <= readEnd /\ offset + len <= readEnd
      BY <1>2, <1>3
    <3>2. offset' = offset + len
      BY <1>1
    <3> QED
      BY <3>1, <3>2
  <2>5. /\ DOMAIN buffer' = DOMAIN buffer
        /\ \A p \in DOMAIN buffer :
              buffer'[p] = IF p \in b .. b + len - 1 THEN Byte(p) ELSE buffer[p]
    BY <2>1 DEF Serves, len
  <2>6. /\ DOMAIN buffer = 0 .. e - 1
        /\ \A p \in 0 .. b - 1 : buffer[p] = Byte(p)
        /\ \A p \in b .. e - 1 : buffer[p] = Zero
    BY <2>2
  <2> HIDE DEF b, e, Byte
  <2>7. \A p \in 0 .. b + len - 1 : buffer'[p] = Byte(p)
    BY <2>4, <2>5, <2>6
  <2>8. \A p \in b + len .. e - 1 : buffer'[p] = Zero
    BY <2>4, <2>5, <2>6
  <2>9. \/ numberOfBytesRead' = offset' - readBegin
        \/ numberOfBytesRead' = readEnd - readBegin /\ file.size <= offset'
    <3>1. CASE extent.type # "inline"
      <4>1. read + len = b + len
        BY <2>3, <3>1 DEF b
      <4>2. b + len \in 0 .. DWORDs - 1
        BY <1>2, <2>4 DEF e
      <4> DEFINE sum == b + len
      <4> HIDE DEF sum
      <4>3. sum % DWORDs = sum
        BY <4>2, DWordsNatural DEF sum
      <4>4. (read + len) % DWORDs = b + len
        BY <4>1, <4>3 DEF sum
      <4> QED
        BY <1>1, <2>4, <4>4
    <3>2. CASE extent.type = "inline"
      <4>1. i = 1 /\ Len(file.extents) = 1 /\ extent.key = 0 /\ offset = readBegin
        BY <1>1, <1>5, <2>1, <3>2 DEF ServedInv, PositionInv
      <4>2. read + len = e /\ e \in 0 .. DWORDs - 1
        BY <1>2, <1>3, <3>2, <4>1 DEF len, e
      <4>3. numberOfBytesRead' = e
        <5>1. e % DWORDs = e
          BY <4>2, DWordsNatural
        <5> QED
          BY <1>1, <4>2, <5>1
      <4>4. CASE last(extent) \/ within(extent)
        <5>1. offset' = readEnd
          BY <1>1, <1>5, <2>1, <4>4
        <5> QED
          BY <4>3, <5>1 DEF e
      <4>5. CASE ~(last(extent) \/ within(extent))
        <5>1. offset' = extent.n
          BY <1>1, <1>5, <2>1, <4>1, <4>5
        <5>2. ReachOf(file) = extent.n
          BY <1>5, <2>1, <4>1 DEF ReachOf, extent
        <5> QED
          BY <1>2, <4>3, <5>1, <5>2 DEF e
      <4> QED
        BY <4>4, <4>5
    <3> QED
      BY <3>1, <3>2
  <2> QED
    BY <1>2, <2>2, <2>4, <2>5, <2>6, <2>7, <2>8, <2>9 DEF e, Byte
<1>8. PlainReadsRight'
  BY <1>1 DEF PlainReadsRight
<1>9. DecodingFailsForCause'
  BY <1>1 DEF DecodingFailsForCause
<1> QED
  BY <1>4, <1>6, <1>7, <1>8, <1>9 DEF ServedInv

(* Where a byte that a turn serves is in the buffer, in the extent and in  *)
(* what is copied from.                                                    *)
LEMMA ServedBytes ==
    ASSUME ReadInv, ServedInv, AtExtent, Touched(extent), Plain(file)
    PROVE  /\ file \in Files /\ i \in DOMAIN file.extents
           /\ numberOfBytesRead = offset - readBegin /\ numberOfBytesRead \in Nat
           /\ Length(extent) \in Nat
           /\ DOMAIN buffer = 0 .. readEnd - readBegin - 1
           /\ \A p \in offset - readBegin .. offset - readBegin + Length(extent) - 1 :
                 /\ p \in DOMAIN buffer /\ buffer[p] = Zero
                 /\ readBegin + p \in Nat
                 /\ extent.key <= readBegin + p /\ readBegin + p < extent.key + extent.n
                 /\ (readBegin + p) - extent.key \in 0 .. extent.n - 1
                 /\ From(extent) + p - numberOfBytesRead = (readBegin + p) - extent.key
<1> DEFINE len == Length(extent)
<1>1. /\ file \in Files /\ offset + numberOfBytesToRead = readEnd
      /\ readBegin \in Nat /\ readEnd \in Nat /\ offset \in Nat /\ readBegin <= offset
      /\ numberOfBytesToRead \in Nat
      /\ i \in DOMAIN file.extents /\ i <= Len(file.extents)
  <2>1. /\ file \in Files /\ offset + numberOfBytesToRead = readEnd
        /\ readBegin \in Nat /\ readEnd \in Nat /\ offset \in readBegin .. readEnd
        /\ numberOfBytesToRead \in Nat
        /\ Len(file.extents) \in Nat /\ DOMAIN file.extents = 1 .. Len(file.extents)
        /\ i \in 1 .. Len(file.extents) + 1 /\ i <= Len(file.extents)
    BY RequestFacts, Zenon DEF AtExtent
  <2>2. offset \in Nat /\ readBegin <= offset
    BY <2>1
  <2>3. i \in DOMAIN file.extents
    BY <2>1
  <2> QED
    BY <2>1, <2>2, <2>3
<1>2. extent.key \in Nat /\ extent.n \in Nat
  BY ExtentFacts
<1>3. extent.key <= offset
  BY <1>1 DEF ServedInv, PositionInv, AtExtent
<1>4. /\ From(extent) = offset - extent.key
      /\ len \in 0 .. numberOfBytesToRead
      /\ offset - extent.key + len <= extent.n
  BY <1>3, PartOfExtent
<1>5. numberOfBytesRead = offset - readBegin
  BY <1>1 DEF ReadInv, LoopInv, AtExtent
<1>6. /\ DOMAIN buffer = 0 .. readEnd - readBegin - 1
      /\ \A p \in offset - readBegin .. readEnd - readBegin - 1 : buffer[p] = Zero
  BY DEF ServedInv, DataInv, Unfinished, AtExtent
<1> HIDE DEF len
<1>7. ASSUME NEW p \in offset - readBegin .. offset - readBegin + len - 1
      PROVE  /\ p \in DOMAIN buffer /\ buffer[p] = Zero
             /\ readBegin + p \in Nat
             /\ extent.key <= readBegin + p /\ readBegin + p < extent.key + extent.n
             /\ (readBegin + p) - extent.key \in 0 .. extent.n - 1
             /\ From(extent) + p - numberOfBytesRead = (readBegin + p) - extent.key
  <2>1. /\ p \in Nat /\ offset - readBegin <= p /\ p < offset - readBegin + len
    BY <1>1, <1>4
  <2>2. p \in offset - readBegin .. readEnd - readBegin - 1
    BY <1>1, <1>4, <2>1
  <2>3. p \in DOMAIN buffer /\ buffer[p] = Zero
    BY <1>1, <1>6, <2>1, <2>2
  <2>4. /\ readBegin + p \in Nat /\ extent.key <= readBegin + p
        /\ readBegin + p < extent.key + extent.n
    BY <1>1, <1>2, <1>3, <1>4, <2>1
  <2>5. (readBegin + p) - extent.key \in 0 .. extent.n - 1
    BY <1>2, <2>4
  <2>6. From(extent) + p - numberOfBytesRead = (readBegin + p) - extent.key
    BY <1>1, <1>2, <1>4, <1>5, <2>1
  <2> QED
    BY <2>3, <2>4, <2>5, <2>6
<1>8. numberOfBytesRead \in Nat /\ len \in Nat
  BY <1>1, <1>4, <1>5
<1> QED
  BY <1>1, <1>5, <1>6, <1>7, <1>8 DEF len

LEMMA SkipCopyServes ==
    ASSUME ReadInv, ServedInv, SkipCopy
    PROVE  ServedInv'
<1>1. /\ AtExtent /\ Touched(extent) /\ Advance(numberOfBytesRead) /\ buffer' = buffer
      /\ extent.type # "inline" /\ extent.extAddr = 0
  BY DEF SkipCopy
<1>2. ASSUME Plain(file)
      PROVE  Serves(Length(extent))
  <2> DEFINE run == offset - readBegin .. offset - readBegin + Length(extent) - 1
  <2>1. /\ file \in Files /\ i \in DOMAIN file.extents
        /\ \A p \in run :
              /\ buffer[p] = Zero /\ readBegin + p \in Nat
              /\ extent.key <= readBegin + p /\ readBegin + p < extent.key + extent.n
    BY <1>1, <1>2, ServedBytes
  <2> HIDE DEF run
  <2>2. ASSUME NEW p \in run
        PROVE  FileByte(file, readBegin + p) = Zero
    <3> DEFINE q == readBegin + p
    <3>1. q \in Nat /\ extent.key <= q /\ q < extent.key + extent.n
      BY <2>1, <2>2
    <3> HIDE DEF q
    <3>2. FileByte(file, q) = Zero
      <4>1. FileByte(file, q) =
             CASE extent.type = "inline" -> <<"item", q - extent.key>>
               [] extent.type # "inline" /\ extent.extAddr = 0 -> Zero
               [] extent.compression = "none" /\ OnDevice(extent)
                    -> <<"disk", extent.extAddr + (q - extent.key)>>
               [] OTHER -> <<"decoded", extent.extAddr, q - extent.key>>
        BY <1>2, <2>1, <3>1, FileByteIs DEF extent
      <4> QED
        BY <1>1, <4>1 DEF OnDevice
    <3> QED
      BY <3>2 DEF q
  <2>3. \A p \in DOMAIN buffer :
           buffer'[p] = IF p \in run THEN FileByte(file, readBegin + p) ELSE buffer[p]
    BY <1>1, <2>1, <2>2
  <2> QED
    BY <1>1, <2>3 DEF Serves, run
<1>3. numberOfBytesRead \in Int
  BY DWordsNatural DEF ReadInv, TypeOK
<1> QED
  BY <1>1, <1>2, <1>3, AdvanceServes

LEMMA CopyServes ==
    ASSUME ReadInv, ServedInv, CopyExtent
    PROVE  ServedInv'
<1> DEFINE target == numberOfBytesRead .. numberOfBytesRead + Length(extent) - 1
           read == IF extent.type = "inline" THEN numberOfBytesToRead - Length(extent)
                   ELSE numberOfBytesRead
           source(o) == decompressed(extent, o)
           Copied(o, p) == LET k == From(extent) + p - numberOfBytesRead
                           IN  IF k \in DOMAIN source(o) THEN source(o)[k] ELSE Garbage
<1>1. /\ AtExtent /\ Touched(extent) /\ Advance(read)
      /\ extent.compression # "unknown"
  BY DEF CopyExtent
<1>2. PICK outLen \in OutLens :
         /\ \/ extent.type = "inline"
            \/ /\ OnDevice(extent) /\ Readable(extent)
               /\ ~DecompressFails(extent, outLen)
         /\ buffer' = [p \in DOMAIN buffer \cup target |->
                          IF p \in target THEN Copied(outLen, p) ELSE buffer[p]]
  BY Zenon DEF CopyExtent
<1>3. ASSUME Plain(file)
      PROVE  Serves(Length(extent))
  <2>1. /\ file \in Files /\ i \in DOMAIN file.extents
        /\ numberOfBytesRead = offset - readBegin
        /\ \A p \in target :
              /\ p \in DOMAIN buffer /\ readBegin + p \in Nat
              /\ extent.key <= readBegin + p /\ readBegin + p < extent.key + extent.n
              /\ (readBegin + p) - extent.key \in 0 .. extent.n - 1
              /\ From(extent) + p - numberOfBytesRead = (readBegin + p) - extent.key
    BY <1>1, <1>3, ServedBytes
  <2>2. \A k \in 0 .. extent.n - 1 :
           /\ k \in DOMAIN source(outLen)
           /\ source(outLen)[k] =
                 IF extent.type = "inline" THEN <<"item", k>>
                 ELSE IF extent.compression = "none" THEN <<"disk", extent.extAddr + k>>
                 ELSE <<"decoded", extent.extAddr, k>>
    BY <1>1, <1>2, <1>3, <2>1, SourceRight DEF extent, ReadInv, TypeOK
  <2>3. target = offset - readBegin .. offset - readBegin + Length(extent) - 1
    BY <2>1
  <2> HIDE DEF target, source
  <2>4. ASSUME NEW p \in target
        PROVE  Copied(outLen, p) = FileByte(file, readBegin + p)
    <3> DEFINE q == readBegin + p
               k == q - extent.key
    <3>1. /\ q \in Nat /\ extent.key <= q /\ q < extent.key + extent.n
          /\ k \in 0 .. extent.n - 1
          /\ From(extent) + p - numberOfBytesRead = k
      BY <2>1, <2>4
    <3>2. Copied(outLen, p) = source(outLen)[k] /\
          source(outLen)[k] = IF extent.type = "inline" THEN <<"item", k>>
                 ELSE IF extent.compression = "none" THEN <<"disk", extent.extAddr + k>>
                 ELSE <<"decoded", extent.extAddr, k>>
      <4> HIDE DEF k
      <4>1. k \in DOMAIN source(outLen)
        BY <2>2, <3>1
      <4>2. Copied(outLen, p) = source(outLen)[k]
        BY <3>1, <4>1
      <4> QED
        BY <2>2, <3>1, <4>2
    <3> HIDE DEF q, Copied
    <3>3. FileByte(file, q) =
             CASE extent.type = "inline" -> <<"item", k>>
               [] extent.type # "inline" /\ extent.extAddr = 0 -> Zero
               [] extent.compression = "none" /\ OnDevice(extent) -> <<"disk", extent.extAddr + k>>
               [] OTHER -> <<"decoded", extent.extAddr, k>>
      BY <1>3, <2>1, <3>1, FileByteIs DEF extent
    <3>4. extent.type = "inline" \/ (OnDevice(extent) /\ extent.extAddr # 0)
      BY <1>2 DEF OnDevice
    <3> HIDE DEF k
    <3>5. Copied(outLen, p) = FileByte(file, q)
      <4>1. CASE extent.type = "inline"
        BY <3>2, <3>3, <4>1 DEF OnDevice
      <4>2. CASE extent.type # "inline" /\ extent.compression = "none"
        <5>1. FileByte(file, q) = <<"disk", extent.extAddr + k>>
          BY <3>3, <3>4, <4>2
        <5> QED
          BY <3>2, <4>2, <5>1
      <4>3. CASE extent.type # "inline" /\ extent.compression # "none"
        <5>1. FileByte(file, q) = <<"decoded", extent.extAddr, k>>
          BY <3>3, <3>4, <4>3
        <5> QED
          BY <3>2, <4>3, <5>1
      <4> QED
        BY <4>1, <4>2, <4>3
    <3> QED
      BY <3>5 DEF q
  <2> HIDE DEF Copied
  <2>5. DOMAIN buffer \cup target = DOMAIN buffer
    BY <2>1
  <2>6. /\ DOMAIN buffer' = DOMAIN buffer
        /\ \A p \in DOMAIN buffer :
              buffer'[p] = IF p \in target THEN FileByte(file, readBegin + p) ELSE buffer[p]
    BY <1>2, <2>4, <2>5
  <2> QED
    BY <2>3, <2>6 DEF Serves
<1>4. read \in Int
  <2>1. numberOfBytesRead \in Int /\ numberOfBytesToRead \in Int
    BY DWordsNatural DEF ReadInv, TypeOK
  <2>2. Length(extent) \in Int
    BY <1>1, <2>1, LengthBounded
  <2> QED
    BY <2>1, <2>2
<1> QED
  BY <1>1, <1>3, <1>4, AdvanceServes

(* The reach of a file is a position.                                      *)
LEMMA ReachIsNatural ==
    ASSUME NEW f \in Files
    PROVE  ReachOf(f) \in Nat
<1>1. Len(f.extents) \in Nat /\ DOMAIN f.extents = 1 .. Len(f.extents)
  BY FilesDescribed
<1>2. CASE Len(f.extents) # 0
  <2>1. Len(f.extents) \in DOMAIN f.extents
    BY <1>1, <1>2
  <2>2. f.extents[Len(f.extents)].key \in Nat /\ f.extents[Len(f.extents)].n \in Nat
    BY <2>1, FilesDescribed
  <2> QED
    BY <1>2, <2>2 DEF ReachOf
<1> QED
  BY <1>2 DEF ReachOf

(* The end of a successful request: the buffer is right as far as it is    *)
(* wanted, and the count comes out right modulo DWORDs.                    *)
LEMMA CorrectServes ==
    ASSUME ReadInv, ServedInv, CorrectReadSize
    PROVE  ServedInv'
<1>1. /\ pc = "loop" /\ i > Len(file.extents) /\ pc' = "done" /\ result' = "ERROR_SUCCESS"
      /\ UNCHANGED <<file, readBegin, readEnd, i, offset, buffer>>
      /\ numberOfBytesRead' = IF readEnd > file.size
            THEN (numberOfBytesRead - (readEnd - file.size)) % DWORDs
            ELSE numberOfBytesRead
  BY DEF CorrectReadSize, Return, call
<1>2. IdleInv' /\ DataInv' /\ PositionInv' /\ DecodingFailsForCause'
  BY <1>1 DEF IdleInv, DataInv, Unfinished, PositionInv, DecodingFailsForCause
<1>3. PlainReadsRight'
  <2>1. SUFFICES ASSUME Plain(file), readEnd <= ReachOf(file)
        PROVE  /\ numberOfBytesRead' = BytesWanted
               /\ \A p \in 0 .. BytesWanted - 1 : buffer[p] = FileByte(file, readBegin + p)
    BY <1>1 DEF PlainReadsRight, BytesWanted, Delivered
  <2>2. /\ readBegin \in Nat /\ readEnd \in Nat /\ offset \in readBegin .. readEnd
        /\ readEnd - readBegin \in 0 .. DWORDs - 1 /\ DWORDs \in Nat \ {0}
        /\ file.size \in Nat /\ file.size <= ReachOf(file)
    BY <1>1, RequestFacts
  <2>3. /\ readBegin < file.size
        /\ \A p \in 0 .. offset - readBegin - 1 : buffer[p] = FileByte(file, readBegin + p)
        /\ \/ numberOfBytesRead = offset - readBegin
           \/ numberOfBytesRead = readEnd - readBegin
    BY <1>1, <2>1 DEF ServedInv, DataInv, Unfinished, Delivered
  <2>4. offset = readEnd \/ ReachOf(file) <= offset
    BY <1>1, <2>1 DEF ServedInv, PositionInv
  <2>5. offset = readEnd
    <3>1. CASE ReachOf(file) <= offset
      <4> DEFINE r == ReachOf(file)
      <4> HIDE DEF r
      <4>1. offset \in Nat /\ offset <= readEnd /\ readEnd <= r /\ r <= offset
        BY <2>1, <2>2, <3>1 DEF r
      <4>2. r \in Int
        BY <1>1, RequestFacts, ReachIsNatural DEF r
      <4> QED
        BY <2>2, <4>1, <4>2
    <3> QED
      BY <2>4, <3>1
  <2>6. numberOfBytesRead = readEnd - readBegin
    BY <2>3, <2>5
  <2>7. CASE readEnd > file.size
    <3> DEFINE w == file.size - readBegin
    <3>1. numberOfBytesRead - (readEnd - file.size) = w /\ w \in 0 .. DWORDs - 1
      BY <2>2, <2>3, <2>6, <2>7
    <3> HIDE DEF w
    <3>2. w % DWORDs = w
      BY <3>1, DWordsNatural
    <3>3. numberOfBytesRead' = w
      BY <1>1, <2>7, <3>1, <3>2
    <3>4. BytesWanted = w
      BY <2>2, <2>3, <2>7 DEF BytesWanted, w
    <3>5. 0 .. w - 1 \subseteq 0 .. offset - readBegin - 1
      BY <2>2, <2>5, <2>7 DEF w
    <3> QED
      BY <2>3, <3>3, <3>4, <3>5
  <2>8. CASE ~(readEnd > file.size)
    <3>1. BytesWanted = readEnd - readBegin
      BY <2>2, <2>3, <2>8 DEF BytesWanted
    <3> QED
      BY <1>1, <2>3, <2>5, <2>6, <2>8, <3>1
  <2> QED
    BY <2>7, <2>8
<1> QED
  BY <1>2, <1>3 DEF ServedInv

(* Every step of a request, and of loading the map, keeps ServedInv.       *)
LEMMA ServedInvKept == ReadInv /\ ServedInv /\ [Next]_vars => ServedInv'
<1> SUFFICES ASSUME ReadInv, ServedInv, [Next]_vars PROVE ServedInv'
  OBVIOUS
<1>1. CASE UNCHANGED readVars
  BY <1>1, QuietServes
<1>2. ASSUME NEW f \in Files, NEW o \in Offsets, NEW n \in Lengths, ReadFile(f, o, n)
      PROVE  ServedInv'
  BY <1>2, ReadFileServes
<1>3. CASE SkipExtent
  BY <1>3, SkipServes
<1>4. CASE UnsupportedCompression
  <2>1. DecodingFailsForCause'
    BY <1>4 DEF UnsupportedCompression, Return, DecodingFailsForCause
  <2> QED
    BY <1>4, <2>1, FailureServes DEF UnsupportedCompression, Return, AtExtent
<1>5. CASE ReadLogicalFails
  <2>1. DecodingFailsForCause'
    BY <1>5 DEF ReadLogicalFails, DecodingFailsForCause
  <2> QED
    BY <1>5, <2>1, FailureServes DEF ReadLogicalFails, AtExtent
<1>6. CASE DecompressionFails
  BY <1>6, DecompressionFailsServes
<1>7. CASE SkipCopy
  BY <1>7, SkipCopyServes
<1>8. CASE CopyExtent
  BY <1>8, CopyServes
<1>9. CASE CorrectReadSize
  BY <1>9, CorrectServes
<1>10. UNCHANGED readVars \/ Request
  BY DEF Next, vars
<1> QED
  BY <1>1, <1>2, <1>3, <1>4, <1>5, <1>6, <1>7, <1>8, <1>9, <1>10 DEF Request

LEMMA ServedInvHolds == Spec => [](ReadInv /\ ServedInv)
<1>1. Init => ServedInv
  <2> SUFFICES ASSUME Init PROVE ServedInv
    OBVIOUS
  <2>1. pc = "idle" /\ file = NoCall
    BY DEF Init
  <2> QED
    BY <2>1
    DEF ServedInv, IdleInv, DataInv, Unfinished, PositionInv, PlainReadsRight,
        DecodingFailsForCause
<1> QED
  BY <1>1, ServedInvKept, ReadInvHolds, PTL DEF Spec

(* However a request is cut up by the extents, and also when it fails on a *)
(* later one, what is counted as read has been read right.                 *)
THEOREM PrefixIsRight == Spec => []PrefixRight
<1>1. ReadInv /\ ServedInv => PrefixRight
  <2> DEFINE m == IF numberOfBytesRead < BytesWanted THEN numberOfBytesRead
                  ELSE BytesWanted
  <2> SUFFICES ASSUME ReadInv, ServedInv, Plain(file), pc # "done" \/ result # "ERROR_SUCCESS"
               PROVE  \A p \in 0 .. m - 1 : buffer[p] = FileByte(file, readBegin + p)
    BY DEF PrefixRight, Delivered
  <2>1. /\ readBegin \in Nat /\ readEnd \in Nat /\ offset \in readBegin .. readEnd
        /\ numberOfBytesRead \in Nat /\ pc \in {"idle", "loop", "done", "aborted"}
    BY DWordsNatural DEF ReadInv, TypeOK
  <2>2. CASE pc = "idle"
    <3>1. BytesWanted = 0
      BY <2>1, <2>2 DEF ServedInv, IdleInv, NoCall, BytesWanted
    <3>2. m - 1 \in Int /\ m - 1 < 0
      BY <2>1, <3>1
    <3> HIDE DEF m
    <3> QED
      BY <3>2
  <2>3. CASE pc # "idle"
    <3>1. Unfinished
      BY <2>1, <2>3 DEF Unfinished
    <3>2. /\ file \in Files /\ readBegin < file.size
          /\ \A p \in 0 .. offset - readBegin - 1 : buffer[p] = FileByte(file, readBegin + p)
          /\ \/ numberOfBytesRead = offset - readBegin
             \/ numberOfBytesRead = readEnd - readBegin /\ file.size <= offset
      BY <3>1 DEF ServedInv, DataInv, Delivered
    <3>3. file.size \in Nat
      BY <3>2, FilesDescribed
    <3>4. BytesWanted = IF readEnd > file.size THEN file.size - readBegin
                        ELSE readEnd - readBegin
      BY <2>1, <3>2, <3>3 DEF BytesWanted
    <3>5. m \in Nat /\ m <= offset - readBegin
      BY <2>1, <3>2, <3>3, <3>4
    <3>6. 0 .. m - 1 \subseteq 0 .. offset - readBegin - 1
      <4> HIDE DEF m
      <4> QED
        BY <2>1, <3>5
    <3> QED
      BY <3>2, <3>6
  <2> QED
    BY <2>2, <2>3
<1> QED
  BY <1>1, ServedInvHolds, PTL

(* A successful read returns the bytes of the file and how many there are, *)
(* whatever extents they are in and however these are stored.              *)
THEOREM PlainReadsAreRight == Spec => []PlainReadsRight
<1>1. ServedInv => PlainReadsRight
  BY DEF ServedInv
<1> QED
  BY <1>1, ServedInvHolds, PTL

(* Sound data fails to decode only for the two causes the code has.        *)
THEOREM DecodingFailuresHaveCause == Spec => []DecodingFailsForCause
<1>1. ServedInv => DecodingFailsForCause
  BY DEF ServedInv
<1> QED
  BY <1>1, ServedInvHolds, PTL

(* lzoDecompress keeps to its buffers on sound data, for any segments.     *)
THEOREM DecodingKeepsToBuffers == Spec => []DecodingInBuffers
<1>1. ReadInv => DecodingInBuffers
  <2> SUFFICES ASSUME ReadInv, AtExtent, OnDevice(extent), extent.compression = "lzo",
                      extent.extAddr \notin Damaged, Plain(file), NEW outLen \in OutLens
               PROVE  LET t == LzoEnd(LzoExtents[extent.extAddr], outLen)
                      IN  /\ t.compressed <= extent.extSize
                          /\ DOMAIN t.output \subseteq 0 .. extent.bytesInFile - 1
    BY DEF DecodingInBuffers
  <2>1. file \in Files /\ i \in DOMAIN file.extents
    BY RequestFacts DEF AtExtent
  <2> QED
    BY <2>1, DecodesInBuffers DEF extent
<1> QED
  BY <1>1, ReadInvHolds, PTL

----------------------------------------------------------------------------

(* The chunk map a read goes through is loaded first, and stays.           *)
LEMMA MapInvHolds == Spec => []MapInv
<1>1. Init => MapInv
  BY MapInitInv DEF Init
<1>2. MapInv /\ [Next]_vars => MapInv'
  <2>1. [Next]_vars => [MapNext]_mapVars
    BY DEF Next, vars
  <2> QED
    BY <2>1, MapInvKept
<1> QED
  BY <1>1, <1>2, PTL DEF Spec

(* Whatever the chunk tree's shape, its nodes can be read through what of  *)
(* the map is there when they are needed.                                  *)
THEOREM TreeIsReadable == Spec => []TreeReadable
<1>1. MapInv => TreeReadable
  BY DEF MapInv, TreeReadable
<1> QED
  BY <1>1, MapInvHolds, PTL

(* Once the map is loaded, an address of a chunk that is stored directly   *)
(* is refused only where its device cannot be read.                        *)
THEOREM RefusalHasCause == Spec => []RefusedForCause
<1> QED
  BY MapRefuses, MapInvHolds, PTL

=============================================================================
