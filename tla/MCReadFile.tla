----------------------------- MODULE MCReadFile -----------------------------
(***************************************************************************)
(* Volumes that keep the same logical addresses on different devices, and  *)
(* files with one extent layout each, in units small enough that every     *)
(* request that starts or ends at, before or after a boundary is tried.    *)
(* The chunks are sys [100, 106), a [106, 120), b [120, 160), c [160, 164).*)
(***************************************************************************)
EXTENDS ReadFile, TLC

Chunk(at, size, flags, stripes) ==
    [type |-> "CHUNK_ITEM", offset |-> at, size |-> size, flags |-> flags,
     stripes |-> [k \in DOMAIN stripes |->
                    [devID |-> stripes[k][1], offset |-> stripes[k][2]]]]

DevItem(id) == [type |-> "DEV_ITEM", offset |-> id]

Leaf(items) == [level |-> 0, items |-> items]
Inner(addrs) == [level |-> 1, items |-> addrs]

(* One device, as mkfs.btrfs leaves it; one place of it cannot be read. *)
one ==
    LET sys == Chunk(100, 6, {"dup"}, <<<<1, 10>>, <<1, 20>>>>)
    IN  [supers |-> <<1>>, system |-> <<sys>>, ctRoot |-> 100,
         nodes |-> 100 :> Leaf(<<DevItem(1), sys,
                        Chunk(106, 14, {}, <<<<1, 40>>>>),
                        Chunk(120, 40, {}, <<<<1, 60>>>>),
                        Chunk(160, 4, {}, <<<<1, 30>>>>)>>),
         bad |-> {<<1, 30>>}]

(* Two devices, given in the wrong order, and a tree of three nodes. *)
two ==
    LET sys == Chunk(100, 6, {"raid1"}, <<<<1, 10>>, <<2, 20>>>>)
    IN  [supers |-> <<2, 1>>, system |-> <<sys>>, ctRoot |-> 102,
         nodes |-> (100 :> Leaf(<<DevItem(1), DevItem(2), sys>>)) @@
                   (102 :> Inner(<<100, 104>>)) @@
                   (104 :> Leaf(<<Chunk(106, 14, {}, <<<<2, 40>>>>),
                                  Chunk(120, 40, {"raid1"}, <<<<2, 60>>, <<1, 40>>>>),
                                  Chunk(160, 4, {}, <<<<1, 30>>>>)>>)),
         bad |-> {}]

(* Two system chunks, and data that is striped. *)
striped(level, stripes) ==
    LET sys1 == Chunk(100, 2, {"dup"}, <<<<3, 0>>, <<3, 8>>>>)
        sys2 == Chunk(102, 4, {"raid1"}, <<<<4, 0>>, <<3, 2>>>>)
    IN  [supers |-> <<3, 4, 5, 6>>, system |-> <<sys1, sys2>>, ctRoot |-> 104,
         nodes |-> (104 :> Inner(<<100, 102>>)) @@
                   (100 :> Leaf(<<DevItem(3), DevItem(4), DevItem(5), DevItem(6),
                                  sys1, sys2>>)) @@
                   (102 :> Leaf(<<Chunk(106, 14, {}, <<<<5, 0>>>>),
                                  Chunk(120, 40, {"raid1"}, <<<<6, 0>>, <<3, 40>>>>),
                                  Chunk(160, 4, level, stripes)>>)),
         bad |-> {}]

MCDisks ==
    {one, two, striped({"raid0"}, <<<<5, 80>>, <<6, 80>>>>),
     striped({"raid10"}, <<<<5, 80>>, <<6, 80>>, <<3, 80>>, <<4, 80>>>>)}

----------------------------------------------------------------------------

(* Lengths take one unit; a segment decodes to at most two, but for one.   *)
Segment(at, from, outLen) ==
    [at |-> at, inLen |-> 1, from |-> from, outLen |-> outLen]

MCLzoExtents ==
    (128 :> [total |-> 5, segments |-> {Segment(1, 0, 2), Segment(3, 2, 2)}]) @@
    (143 :> [total |-> 5, segments |-> {Segment(1, 0, 2), Segment(3, 2, 1)}]) @@
    (148 :> [total |-> 6, segments |-> {Segment(1, 0, 2), Segment(4, 2, 2)}]) @@
    (154 :> [total |-> 3, segments |-> {Segment(1, 0, 4)}])

(* The stream's trailer is taken without producing anything. *)
MCZlibExtents ==
    (110 :> <<{"in"}, {"in", "out"}, {"out"}, {"out"}, {"in", "out"}, {"in"}>>) @@
    (141 :> <<{"in", "out"}, {"in", "out"}>>)

MCOutLens == {2, 255}

ExtSize(n, addr) ==
    CASE addr \in DOMAIN MCLzoExtents -> MCLzoExtents[addr].total
      [] addr \in DOMAIN MCZlibExtents ->
            Cardinality({k \in DOMAIN MCZlibExtents[addr] :
                            "in" \in MCZlibExtents[addr][k]})
      [] OTHER -> n

Whole(key, n, compression, addr) ==
    [key |-> key, n |-> n, type |-> "regular", compression |-> compression,
     extAddr |-> addr, extSize |-> ExtSize(n, addr),
     offset |-> 0, bytesInFile |-> n]

Inline(n, compression) ==
    [Whole(0, n, compression, 0)
        EXCEPT !.type = "inline", !.extSize = IF compression = "none" THEN n ELSE 1]

(* The part [from, from + bytes) of an extent of n decoded bytes. *)
Part(key, n, compression, addr, from, bytes) ==
    [Whole(key, n, compression, addr)
        EXCEPT !.offset = from, !.bytesInFile = bytes]

(* Three extents, the second a hole, the last compressed and ending after  *)
(* the file does.                                                          *)
mixed == [size |-> 9, extents |->
    <<Whole(0, 4, "none", 106), Whole(4, 2, "none", 0), Whole(6, 4, "zlib", 110)>>]
small == [size |-> 3, extents |-> <<Inline(3, "none")>>]
packed == [size |-> 8, extents |->
    <<Whole(0, 3, "lzo", 143), Whole(3, 5, "none", 114)>>]
smallPacked == [size |-> 4, extents |-> <<Inline(4, "zlib")>>]

(* The middle of an extent of six bytes was overwritten. *)
overwritten == [size |-> 6, extents |->
    <<Part(0, 6, "none", 120, 0, 2), Whole(2, 2, "none", 126),
      Part(4, 6, "none", 120, 4, 2)>>]
packedOverwritten == [size |-> 4, extents |->
    <<Part(0, 4, "lzo", 128, 0, 2), Whole(2, 2, "none", 133)>>]

(* The first extent ends at the end of a chunk, the second starts one. *)
edge == [size |-> 4, extents |->
    <<Whole(0, 2, "none", 118), Whole(2, 2, "none", 160)>>]
newer == [size |-> 4, extents |->
    <<Whole(0, 2, "none", 135), Whole(2, 2, "unknown", 137)>>]
damaged == [size |-> 4, extents |->
    <<Whole(0, 2, "none", 139), Whole(2, 2, "zlib", 141)>>]
padded == [size |-> 4, extents |-> <<Whole(0, 4, "lzo", 148)>>]
longSegment == [size |-> 4, extents |-> <<Whole(0, 4, "lzo", 154)>>]
empty == [size |-> 0, extents |-> <<>>]

MCFiles == {mixed, small, packed, smallPacked, overwritten, packedOverwritten,
            edge, newer, damaged, padded, longSegment, empty}
MCDamaged == {141}

=============================================================================
