------------------------------ MODULE ReadFile ------------------------------
(***************************************************************************)
(* btrfsReadFile (dokan_callbacks.cpp:216-408): how a read request is put  *)
(* together from the extents of a file.                                    *)
(*                                                                         *)
(* One action is one turn of the loop over the extents, so a request that  *)
(* fails on its third extent leaves what the first two have done.  The     *)
(* extents are read through the chunk map.  A byte is named by what it is: *)
(* <<"disk", l>> is stored for logical address l, <<"item", k>> is byte k  *)
(* of an inline extent, and <<"decoded", l, k>> byte k of what the         *)
(* compressed data that starts at l decodes to (Compression).              *)
(*                                                                         *)
(* The model is of the Debug build, in which a failed assert ends the      *)
(* driver (the Release build, which defines NDEBUG, does not even evaluate *)
(* the calls in the asserts of loadNode and cannot mount a volume).        *)
(***************************************************************************)
EXTENDS ChunkMap, Compression

CONSTANTS
    Files,      \* [size, extents]: stSize and the EXTENT_DATA items in order
    Offsets,    \* the offsets requests have
    Lengths,    \* the lengths requests have
    DWORDs,     \* the number of DWORD values, 2^32 in the code
    Damaged,    \* addresses of compressed data that does not decompress
    Zero,       \* a byte of zeroes
    Packed      \* a byte of compressed inline data

ASSUME DWordsNatural == DWORDs \in Nat \ {0}
ASSUME RequestsFit ==
    Offsets \subseteq Nat /\ Lengths \subseteq 0 .. DWORDs - 1

(* Btrfs keeps data inline only in the last, in fact the only, extent.     *)
ASSUME FilesDescribed ==
    \A f \in Files :
        /\ f.size \in Nat
        /\ Len(f.extents) \in Nat /\ DOMAIN f.extents = 1 .. Len(f.extents)
        /\ \A j \in DOMAIN f.extents :
              /\ f.extents[j].key \in Nat /\ f.extents[j].n \in Nat
              /\ f.extents[j].type = "inline" => j = Len(f.extents)

VARIABLES
    pc,         \* "idle", "loop", "done" or "aborted"
    file,       \* the FilePkg the request is for
    readBegin, readEnd,
    i,          \* the loop variable, from 1
    offset, numberOfBytesToRead, numberOfBytesRead,
    buffer,     \* the caller's buffer, and what is written past its end
    result

call == <<file, readBegin, readEnd>>
readVars == <<pc, call, i, offset, numberOfBytesToRead, numberOfBytesRead,
              buffer, result>>
vars == <<mapVars, readVars>>

NoCall == [size |-> 0, extents |-> <<>>]

Results == {"ERROR_SUCCESS", "PLA_E_CABAPI_FAILURE",
            "ERROR_UNSUPPORTED_COMPRESSION"}

TypeOK ==
    /\ MapTypeOK
    /\ pc \in {"idle", "loop", "done", "aborted"}
    /\ file \in Files \cup {NoCall}
    /\ readBegin \in Nat /\ readEnd \in Nat
    /\ i \in 1 .. Len(file.extents) + 1
    /\ offset \in readBegin .. readEnd
    /\ numberOfBytesToRead \in 0 .. DWORDs - 1
    /\ numberOfBytesRead \in 0 .. DWORDs - 1
    /\ result \in Results

Init ==
    /\ MapInit
    /\ pc = "idle"
    /\ file = NoCall
    /\ readBegin = 0 /\ readEnd = 0
    /\ i = 1
    /\ offset = 0 /\ numberOfBytesToRead = 0 /\ numberOfBytesRead = 0
    /\ buffer = <<>>
    /\ result = "ERROR_SUCCESS"

----------------------------------------------------------------------------
(***************************************************************************)
(* What an extent has to do with the rest of the request.  n is the size   *)
(* of the decoded extent, whichever part of it belongs to the file.        *)
(***************************************************************************)
InRequest(p) == p >= offset /\ p < offset + numberOfBytesToRead

hasFirst(x) == InRequest(x.key)
hasLast(x) == InRequest(x.key + x.n - 1)

first(x) == ~hasFirst(x) /\ hasLast(x)
last(x) == hasFirst(x) /\ ~hasLast(x)
span(x) == hasFirst(x) /\ hasLast(x)
within(x) == offset >= x.key /\ offset + numberOfBytesToRead <= x.key + x.n

Touched(x) == first(x) \/ last(x) \/ span(x) \/ within(x)

(* Seeded fault: a request inside an extent is copied from its start. *)
FromStart(x) == IF ~span(x) /\ first(x) THEN offset - x.key ELSE 0

From(x) == IF ~span(x) /\ (within(x) \/ first(x)) THEN offset - x.key ELSE 0

(* Seeded fault: a request inside an extent gets the rest of the extent. *)
LengthToEnd(x) ==
    CASE span(x) -> x.n
      [] ~span(x) /\ (within(x) \/ first(x)) -> x.n - (offset - x.key)
      [] OTHER -> offset + numberOfBytesToRead - x.key

Length(x) ==
    CASE span(x) -> x.n
      [] ~span(x) /\ within(x) -> numberOfBytesToRead
      [] ~span(x) /\ ~within(x) /\ first(x) -> x.n - (offset - x.key)
      [] OTHER -> offset + numberOfBytesToRead - x.key

(* What compressed points to: a piece of the item, or what has been read.  *)
compressed(x) ==
    IF x.type = "inline"
    THEN [k \in 0 .. x.extSize - 1 |->
            IF x.compression = "none" THEN <<"item", k>> ELSE Packed]
    ELSE readLogical(x.extAddr, x.extSize)

(* What the decoder of an extent returns and writes; outLen is what its    *)
(* uninitialised variable holds.                                           *)
Decoded(x, outLen) ==
    IF x.compression = "zlib"
    THEN zlibDecompress(ZlibExtents[x.extAddr], x.extSize, x.bytesInFile)
    ELSE lzoDecompress(LzoExtents[x.extAddr], x.extSize, x.bytesInFile, outLen)

DecompressFails(x, outLen) ==
    /\ x.compression \in {"zlib", "lzo"}
    /\ x.extAddr \in Damaged \/ Decoded(x, outLen).failed

(* What decompressed points to; data is decoded right if it was read right. *)
decompressed(x, outLen) ==
    IF x.type = "inline" \/ x.compression = "none" THEN compressed(x)
    ELSE LET output == Decoded(x, outLen).output
             intact == \A k \in 0 .. x.extSize - 1 :
                          compressed(x)[k] = <<"disk", x.extAddr + k>>
         IN  [k \in DOMAIN output |->
                IF intact THEN <<"decoded", x.extAddr, output[k]>> ELSE Garbage]

OnDevice(x) == x.type # "inline" /\ x.extAddr # 0

Readable(x) == ReadSucceeds(x.extAddr, x.extSize)

----------------------------------------------------------------------------

Return(code) == pc' = "done" /\ result' = code

(* A new request, after a failed assert one to a driver started again. *)
ReadFile(f, o, n) ==
    /\ load = "loaded" /\ pc # "loop"
    /\ file' = f
    /\ readBegin' = o /\ readEnd' = o + n
    /\ i' = 1
    /\ offset' = o /\ numberOfBytesToRead' = n /\ numberOfBytesRead' = 0
    /\ buffer' = [p \in 0 .. n - 1 |-> Zero]
    /\ pc' = IF o < f.size THEN "loop" ELSE "done"
    /\ result' = "ERROR_SUCCESS"

extent == file.extents[i]

AtExtent == pc = "loop" /\ i <= Len(file.extents)

SkipExtent ==
    /\ AtExtent
    /\ ~Touched(extent)
    /\ i' = i + 1
    /\ UNCHANGED <<pc, call, offset, numberOfBytesToRead, numberOfBytesRead,
                   buffer, result>>

UnsupportedCompression ==
    /\ AtExtent
    /\ Touched(extent)
    /\ extent.compression = "unknown"
    /\ Return("ERROR_UNSUPPORTED_COMPRESSION")
    /\ UNCHANGED <<call, i, offset, numberOfBytesToRead, numberOfBytesRead,
                   buffer>>

(* assert(result == 0) after readLogical *)
ReadLogicalFails ==
    /\ AtExtent
    /\ Touched(extent)
    /\ extent.compression # "unknown"
    /\ OnDevice(extent) /\ ~Readable(extent)
    /\ pc' = "aborted"
    /\ UNCHANGED <<call, i, offset, numberOfBytesToRead, numberOfBytesRead,
                   buffer, result>>

DecompressionFails ==
    /\ AtExtent
    /\ Touched(extent)
    /\ OnDevice(extent) /\ Readable(extent)
    /\ \E outLen \in OutLens : DecompressFails(extent, outLen)
    /\ Return("PLA_E_CABAPI_FAILURE")
    /\ UNCHANGED <<call, i, offset, numberOfBytesToRead, numberOfBytesRead,
                   buffer>>

(* The last lines of the loop; read is *numberOfBytesRead after the copy.  *)
Advance(read) ==
    LET len == Length(extent)
    IN  /\ numberOfBytesToRead' = numberOfBytesToRead - len
        /\ numberOfBytesRead' = (read + len) % DWORDs
        /\ offset' = offset + len
        /\ i' = IF last(extent) \/ within(extent)
                THEN Len(file.extents) + 1 ELSE i + 1
        /\ UNCHANGED <<pc, call, result>>

(* skipCopy: the zeroes are already in the buffer. *)
SkipCopy ==
    /\ AtExtent
    /\ Touched(extent)
    /\ extent.compression # "unknown"
    /\ extent.type # "inline" /\ extent.extAddr = 0
    /\ Advance(numberOfBytesRead)
    /\ UNCHANGED buffer

CopyExtent ==
    /\ AtExtent
    /\ Touched(extent)
    /\ extent.compression # "unknown"
    /\ \E outLen \in OutLens :
          /\ \/ extent.type = "inline"
             \/ /\ OnDevice(extent) /\ Readable(extent)
                /\ ~DecompressFails(extent, outLen)
          /\ LET source == decompressed(extent, outLen)
                 target == numberOfBytesRead .. numberOfBytesRead + Length(extent) - 1
                 Copied(p) == LET k == From(extent) + p - numberOfBytesRead
                              IN  IF k \in DOMAIN source THEN source[k] ELSE Garbage
             IN  buffer' = [p \in DOMAIN buffer \cup target |->
                               IF p \in target THEN Copied(p) ELSE buffer[p]]
    /\ Advance(IF extent.type = "inline"
               THEN numberOfBytesToRead - Length(extent)
               ELSE numberOfBytesRead)

(* Seeded faults: no correction at the end of the file, or a signed one. *)
NoCorrection ==
    /\ pc = "loop"
    /\ i > Len(file.extents)
    /\ Return("ERROR_SUCCESS")
    /\ UNCHANGED <<call, i, offset, numberOfBytesToRead, numberOfBytesRead,
                   buffer>>

SignedCorrection ==
    /\ pc = "loop"
    /\ i > Len(file.extents)
    /\ numberOfBytesRead' = IF readEnd > file.size
          THEN numberOfBytesRead - (readEnd - file.size) ELSE numberOfBytesRead
    /\ Return("ERROR_SUCCESS")
    /\ UNCHANGED <<call, i, offset, numberOfBytesToRead, buffer>>

CorrectReadSize ==
    /\ pc = "loop"
    /\ i > Len(file.extents)
    /\ numberOfBytesRead' = IF readEnd > file.size
          THEN (numberOfBytesRead - (readEnd - file.size)) % DWORDs
          ELSE numberOfBytesRead
    /\ Return("ERROR_SUCCESS")
    /\ UNCHANGED <<call, i, offset, numberOfBytesToRead, buffer>>

(* Requests come once init has loaded the chunk map. *)
Request ==
    \/ \E f \in Files, o \in Offsets, n \in Lengths : ReadFile(f, o, n)
    \/ SkipExtent
    \/ UnsupportedCompression
    \/ ReadLogicalFails
    \/ DecompressionFails
    \/ SkipCopy
    \/ CopyExtent
    \/ CorrectReadSize

Next ==
    \/ MapNext /\ UNCHANGED readVars
    \/ Request /\ UNCHANGED mapVars

Spec == Init /\ [][Next]_vars

----------------------------------------------------------------------------
(***************************************************************************)
(* Properties                                                              *)
(***************************************************************************)

(* The part of the file an extent item stands for. *)
InFile(x) == IF x.type = "inline" THEN x.n ELSE x.bytesInFile

Covers(x, p) == x.key <= p /\ p < x.key + InFile(x)

(* The byte at position p of a file, as the on-disk format defines it. *)
FileByte(f, p) ==
    LET x == f.extents[CHOOSE j \in DOMAIN f.extents : Covers(f.extents[j], p)]
        k == x.offset + p - x.key
    IN  CASE x.type = "inline" -> <<"item", k>>
          [] x.type # "inline" /\ x.extAddr = 0 -> Zero
          [] x.compression = "none" /\ OnDevice(x) -> <<"disk", x.extAddr + k>>
          [] OTHER -> <<"decoded", x.extAddr, k>>

(* Files whose items stand for whole extents and whose inline data is not  *)
(* compressed: no part of them has been overwritten since.                 *)
Plain(f) ==
    \A j \in DOMAIN f.extents :
        LET x == f.extents[j]
        IN  /\ x.offset = 0 /\ x.bytesInFile = x.n
            /\ x.type = "inline" => x.compression = "none"

(* How far the extents of a file reach. *)
ReachOf(f) ==
    IF Len(f.extents) = 0 THEN 0
    ELSE LET x == f.extents[Len(f.extents)] IN x.key + x.n

(* What Btrfs writes: the items of a file follow one another, with an item *)
(* for a hole, as far as the file goes; data that is not compressed is     *)
(* there in full, and data that is has been written by the compressor.     *)
ASSUME FilesTiled ==
    \A f \in Files :
        /\ f.size <= ReachOf(f)
        /\ \A j \in DOMAIN f.extents :
              LET x == f.extents[j]
              IN  /\ x.n # 0 /\ InFile(x) \in Nat
                  /\ x.key = IF j = 1 THEN 0
                             ELSE f.extents[j - 1].key + InFile(f.extents[j - 1])
                  /\ x.type = "inline" => j = 1

ASSUME ExtentsWritten ==
    \A f \in Files : \A j \in DOMAIN f.extents :
        LET x == f.extents[j]
            sound == OnDevice(x) /\ x.extAddr \notin Damaged
        IN  /\ x.compression \in {"none", "zlib", "lzo", "unknown"}
            /\ OnDevice(x) => x.extAddr \in Nat /\ x.extSize \in Nat \ {0}
            /\ x.compression = "none" /\ (x.type = "inline" \/ OnDevice(x))
                  => x.extSize \in Nat /\ x.n <= x.extSize
            /\ sound /\ x.compression = "lzo"
                  => LzoWritten(LzoExtents[x.extAddr], x.extSize, x.n)
            /\ sound /\ x.compression = "zlib"
                  => ZlibWritten(ZlibExtents[x.extAddr], x.extSize, x.n)

BytesWanted ==
    IF readBegin >= file.size THEN 0
    ELSE IF readEnd > file.size THEN file.size - readBegin
    ELSE readEnd - readBegin

(* The bytes from the first to the n-th of the buffer are the file's. *)
Delivered(n) == \A p \in 0 .. n - 1 : buffer[p] = FileByte(file, readBegin + p)

(* Whatever extent a request has got to, and also when it fails on a later *)
(* one, the bytes counted in *numberOfBytesRead are the right ones at the  *)
(* right place: the four ways an extent can meet a request                 *)
(* (dokan_callbacks.cpp:264-279, 350-369) fit together without a gap.      *)
PrefixRight ==
    Plain(file) /\ (pc # "done" \/ result # "ERROR_SUCCESS") =>
        Delivered(IF numberOfBytesRead < BytesWanted
                  THEN numberOfBytesRead ELSE BytesWanted)

(* A successful read of a file that was written once, of no more than the  *)
(* extents reach, returns the file's bytes and the number of them, at the  *)
(* end of the file too (dokan_callbacks.cpp:397-404).                      *)
PlainReadsRight ==
    /\ pc = "done" /\ result = "ERROR_SUCCESS"
    /\ Plain(file)
    /\ readEnd <= ReachOf(file)
    => numberOfBytesRead = BytesWanted /\ Delivered(BytesWanted)

(* No copy goes past the end of the caller's buffer, whatever the layout   *)
(* of the file, also when extents overlap (dokan_callbacks.cpp:373).       *)
BufferRespected == DOMAIN buffer \subseteq 0 .. readEnd - readBegin - 1

(* A segment of lzo data that does not start where the one before ends. *)
HasPadding(d) ==
    \E g \in d.segments :
        /\ g.at # HeaderSize
        /\ \A h \in d.segments : h.at + HeaderSize + h.inLen # g.at

(* Compressed data that is not damaged decodes (README.txt:35), unless it  *)
(* is lzo data with padding between its segments, or lzoOutLen happened to *)
(* hold less than the first segment needs (compression.cpp:24, :34-48).    *)
DecodingFailsForCause ==
    pc = "done" /\ result = "PLA_E_CABAPI_FAILURE" /\ Plain(file) =>
        \/ extent.extAddr \in Damaged
        \/ /\ extent.compression = "lzo"
           /\ LET d == LzoExtents[extent.extAddr]
              IN  \/ HasPadding(d)
                 \/ \E g \in d.segments, outLen \in OutLens :
                       g.at = HeaderSize /\ g.outLen > outLen

(* While it decodes an extent that is not damaged, and none of which has   *)
(* been overwritten, the decoder reads no length from beyond the extent    *)
(* and writes nothing beyond the extent's bytes, although the room is only *)
(* compared with what was written at the end (compression.cpp:34-50).      *)
DecodingInBuffers ==
    /\ AtExtent /\ OnDevice(extent) /\ extent.compression = "lzo"
    /\ extent.extAddr \notin Damaged
    /\ Plain(file)
    =>
        \A outLen \in OutLens :
            LET t == LzoEnd(LzoExtents[extent.extAddr], outLen)
            IN  /\ t.compressed <= extent.extSize
                /\ DOMAIN t.output \subseteq 0 .. extent.bytesInFile - 1

(* "if the moronic application requested more data than the file contains, *)
(* report a smaller read size to correct them" (dokan_callbacks.cpp:397).  *)
ReadSizeCorrected ==
    pc = "done" /\ result = "ERROR_SUCCESS" => numberOfBytesRead = BytesWanted

(* "Reading file contents" (README.txt:33): a successful read inside a     *)
(* file without compressed data returns its bytes.                         *)
FileContentsRead ==
    /\ pc = "done" /\ result = "ERROR_SUCCESS"
    /\ readEnd <= file.size
    /\ \A j \in DOMAIN file.extents : file.extents[j].compression = "none"
    => Delivered(BytesWanted)

=============================================================================
