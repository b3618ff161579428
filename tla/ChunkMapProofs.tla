--------------------------- MODULE ChunkMapProofs ---------------------------
(***************************************************************************)
(* The chunk map, for any number of devices, given in any order, and any   *)
(* layout of chunks on them: a read that succeeds is of the right bytes,   *)
(* and the chunk tree can be read through the map while it fills it.       *)
(***************************************************************************)
EXTENDS ChunkMap, ListLemmas

----------------------------------------------------------------------------
(***************************************************************************)
(* Types                                                                   *)
(***************************************************************************)

(* What the assumption on the volumes says of the one that is mounted.     *)
LEMMA DiskDescribed ==
    ASSUME MapTypeOK
    PROVE  /\ disk.supers \in Seq(Nat)
           /\ disk.system \in Seq(ChunksOf(disk))
           /\ disk.ctRoot \in DOMAIN disk.nodes
           /\ \A a \in DOMAIN disk.nodes :
                 disk.nodes[a].items \in Seq(IF disk.nodes[a].level = 0
                                            THEN ItemsOf(disk) ELSE DOMAIN disk.nodes)
           /\ \A x \in ChunksOf(disk) :
                 /\ x.offset \in Nat /\ x.size \in Nat
                 /\ x.stripes \in Seq(Stripes(x))
                 /\ \A s \in Stripes(x) : s.devID \in Nat /\ s.offset \in Nat
           /\ \A x, y \in ChunksOf(disk) :
                 \A s \in Stripes(x), t \in Stripes(y) : Apart(x, s, y, t)
  BY DisksDescribed DEF MapTypeOK

(* No chunk of a volume has too few stripes for readLogical's assertions.  *)
LEMMA StripesEnough ==
    ASSUME disk \in Disks, NEW x \in ChunksOf(disk)
    PROVE  Len(x.stripes) >= MinStripes(x.flags)
<1>1. /\ Len(x.stripes) >= 1
      /\ x.flags # {} => Len(x.stripes) >= 2
      /\ x.flags = {"raid10"} => Len(x.stripes) >= 4
  BY ChunksDescribed
<1>2. CASE x.flags = {}
  BY <1>1, <1>2 DEF MinStripes
<1>3. CASE x.flags = {"raid10"}
  <2>1. {"raid10"} # {}
    OBVIOUS
  <2> QED
    BY <1>1, <1>3, <2>1 DEF MinStripes
<1>4. CASE x.flags # {} /\ x.flags # {"raid10"}
  BY <1>1, <1>4 DEF MinStripes
<1> QED
  BY <1>2, <1>3, <1>4

(* The end of a sequence that is not empty, and the rest of it.            *)
LEMMA SequenceEnd ==
    ASSUME NEW T, NEW w \in Seq(T), w # <<>>
    PROVE  /\ Len(w) = 1 \/ Len(w) > 1
           /\ Len(w) \in DOMAIN w /\ w[Len(w)] \in T
           /\ Len(w) > 1 => /\ SubSeq(w, 1, Len(w) - 1) \in Seq(T)
                            /\ SubSeq(w, 1, Len(w) - 1) # <<>>
<1>1. Len(w) \in Nat \ {0}
  BY EmptySeq
<1>2. Len(w) \in DOMAIN w /\ w[Len(w)] \in T
  BY <1>1
<1>3. \A n \in Nat \ {0} : n = 1 \/ n > 1
  OBVIOUS
<1>4. ASSUME Len(w) > 1
      PROVE  SubSeq(w, 1, Len(w) - 1) \in Seq(T) /\ SubSeq(w, 1, Len(w) - 1) # <<>>
  <2> DEFINE n == Len(w)
             r == SubSeq(w, 1, n - 1)
  <2>1. n \in Nat /\ n > 1 /\ \A k \in 1 .. n - 1 : w[k] \in T
    BY <1>1, <1>4
  <2> HIDE DEF n
  <2>2. r \in Seq(T) /\ Len(r) = n - 1
    BY <2>1, SubSeqProperties
  <2> HIDE DEF r
  <2>3. Len(r) # 0
    BY <2>1, <2>2
  <2>4. Len(<<>>) = 0
    BY EmptySeq
  <2>5. r # <<>>
    BY <2>3, <2>4, Zenon
  <2> QED
    BY <2>2, <2>5 DEF r, n
<1> QED
  BY <1>1, <1>2, <1>3, <1>4, Zenon

(* The walk of the chunk tree, one activation longer or shorter.           *)
LEMMA WalkTypes ==
    ASSUME MapTypeOK, walk # <<>>
    PROVE  /\ top \in [addr : DOMAIN disk.nodes, i : Nat]
           /\ NextItem(walk) \in Seq([addr : DOMAIN disk.nodes, i : Nat])
           /\ Len(walk) > 1 =>
                 NextItem(SubSeq(walk, 1, Len(walk) - 1))
                     \in Seq([addr : DOMAIN disk.nodes, i : Nat])
<1> DEFINE T == [addr : DOMAIN disk.nodes, i : Nat]
<1>1. walk \in Seq(T)
  BY DEF MapTypeOK
<1>2. \A w \in Seq(T) : w # <<>> => NextItem(w) \in Seq(T)
  <2> SUFFICES ASSUME NEW w \in Seq(T), w # <<>> PROVE NextItem(w) \in Seq(T)
    OBVIOUS
  <2>1. Len(w) \in DOMAIN w /\ w[Len(w)] \in T
    BY SequenceEnd
  <2>2. [w[Len(w)] EXCEPT !.i = @ + 1] \in T
    <3>1. ASSUME NEW e \in T PROVE [e EXCEPT !.i = @ + 1] \in T
      <4>1. e.addr \in DOMAIN disk.nodes /\ e.i + 1 \in Nat
        OBVIOUS
      <4>2. [e EXCEPT !.i = @ + 1] = [addr |-> e.addr, i |-> e.i + 1]
        OBVIOUS
      <4> QED
        BY <4>1, <4>2
    <3> QED
      BY <2>1, <3>1
  <2>3. NextItem(w) = [w EXCEPT ![Len(w)] = [w[Len(w)] EXCEPT !.i = @ + 1]]
    BY <2>1 DEF NextItem
  <2> HIDE DEF T
  <2> QED
    BY <2>1, <2>2, <2>3
<1>3. top \in T
  BY <1>1, SequenceEnd DEF top
<1>4. Len(walk) > 1 => /\ SubSeq(walk, 1, Len(walk) - 1) \in Seq(T)
                       /\ SubSeq(walk, 1, Len(walk) - 1) # <<>>
  BY <1>1, SequenceEnd
<1> QED
  BY <1>1, <1>2, <1>3, <1>4

(* Every step of loading the map keeps the types.                          *)
LEMMA MapTypesKept == MapTypeOK /\ [MapNext]_mapVars => MapTypeOK'
<1> SUFFICES ASSUME MapTypeOK, [MapNext]_mapVars PROVE MapTypeOK'
  OBVIOUS
<1> DEFINE T == [addr : DOMAIN disk.nodes, i : Nat]
<1>1. /\ disk.system \in Seq(ChunksOf(disk))
      /\ [addr |-> disk.ctRoot, i |-> 0] \in T
  BY DiskDescribed
<1>2. <<[addr |-> disk.ctRoot, i |-> 0]>> \in Seq(T) /\ <<>> \in Seq(T)
  <2> HIDE DEF T
  <2> QED
    BY <1>1
<1>3. CASE UNCHANGED mapVars
  BY <1>3 DEF MapTypeOK, mapVars
<1>4. CASE loadSBChunks
  BY <1>1, <1>2, <1>4 DEF loadSBChunks, MapTypeOK
<1>5. CASE LoadNode
  BY <1>5, WalkTypes DEF LoadNode, Walking, MapTypeOK
<1>6. CASE LoadItem
  <2>1. node.items[top.i] \in ItemsOf(disk)
    BY <1>6, WalkTypes, DiskDescribed DEF LoadItem, Walking, node
  <2>2. Append(chunkTree, node.items[top.i]) \in Seq(ItemsOf(disk))
    BY <2>1 DEF MapTypeOK
  <2> QED
    BY <1>6, <2>2, WalkTypes DEF LoadItem, Walking, MapTypeOK
<1>7. CASE RecurseChunkTree
  <2>1. node.items \in Seq(DOMAIN disk.nodes) /\ top.i \in DOMAIN node.items
    BY <1>7, WalkTypes, DiskDescribed, SMTT(30) DEF RecurseChunkTree, Walking, node
  <2>2. [addr |-> node.items[top.i], i |-> 0] \in T
    BY <2>1
  <2>3. walk \in Seq(T)
    BY DEF MapTypeOK
  <2> HIDE DEF T
  <2>4. Append(walk, [addr |-> node.items[top.i], i |-> 0]) \in Seq(T)
    BY <2>2, <2>3
  <2> QED
    BY <1>7, <2>4 DEF RecurseChunkTree, MapTypeOK, T
<1>8. CASE LeaveNode
  <2>1. Len(walk) = 1 \/ Len(walk) > 1
    BY <1>8, SequenceEnd DEF LeaveNode, Walking, MapTypeOK
  <2>2. walk' \in Seq(T)
    BY <1>2, <1>8, <2>1, WalkTypes DEF LeaveNode, Walking
  <2> QED
    BY <1>8, <2>2 DEF LeaveNode, MapTypeOK
<1>9. CASE EndChunkTree
  BY <1>2, <1>9 DEF EndChunkTree, MapTypeOK
<1> QED
  BY <1>3, <1>4, <1>5, <1>6, <1>7, <1>8, <1>9 DEF MapNext

(* The map begins empty.                                                   *)
LEMMA MapInitTypes == MapInit => MapTypeOK
<1> SUFFICES ASSUME MapInit PROVE MapTypeOK
  OBVIOUS
<1>1. \A S : <<>> \in Seq(S)
  OBVIOUS
<1> QED
  BY <1>1 DEF MapInit, MapTypeOK

----------------------------------------------------------------------------
(***************************************************************************)
(* Translation                                                             *)
(***************************************************************************)

(* Whatever has been loaded of it, the map consists of items of the volume.*)
LEMMA SearchedItems ==
    ASSUME MapTypeOK, NEW k \in DOMAIN searched
    PROVE  searched[k] \in ItemsOf(disk)
<1>1. sbChunks \in Seq(ItemsOf(disk)) /\ chunkTree \in Seq(ItemsOf(disk))
  BY DEF MapTypeOK, ChunksOf
<1>2. sbChunks \o chunkTree \in Seq(ItemsOf(disk))
  BY <1>1
<1> QED
  BY <1>2 DEF searched

(* A chunk that is found is one of the volume, and the address is in it.   *)
LEMMA ChunkFound ==
    ASSUME MapTypeOK, NEW addr, NEW len, Fitting(addr, len) # {}
    PROVE  logiToPhys(addr, len) \in ChunksOf(disk) /\ Fits(logiToPhys(addr, len), addr, len)
<1> DEFINE F == Fitting(addr, len)
<1>1. searched \in Seq(ItemsOf(disk))
  <2>1. sbChunks \in Seq(ItemsOf(disk)) /\ chunkTree \in Seq(ItemsOf(disk))
    BY DEF MapTypeOK, ChunksOf
  <2> QED
    BY <2>1 DEF searched
<1>2. F \subseteq Nat /\ F # {}
  BY <1>1 DEF Fitting
<1>3. Min(F) \in F
  BY <1>2, MinIsLeast
<1>4. Min(F) \in DOMAIN searched /\ Fits(searched[Min(F)], addr, len)
  BY <1>3 DEF Fitting
<1> QED
  BY <1>4, SearchedItems DEF logiToPhys, ChunksOf, Fits

(* The block reader that is chosen is of the device with the ID.           *)
LEMMA ReaderFound ==
    ASSUME MapTypeOK, NEW devID, Readers(devID) # {}
    PROVE  disk.supers[getBlockReader(devID)] = devID
<1>1. Readers(devID) \subseteq Nat
  BY DiskDescribed DEF Readers
<1>2. Min(Readers(devID)) \in Readers(devID)
  BY <1>1, MinIsLeast
<1> QED
  BY <1>2 DEF Readers, getBlockReader

(* The only thing that is stored in a stripe is the stripe's chunk.        *)
LEMMA StripeHolds ==
    ASSUME MapTypeOK, NEW x \in ChunksOf(disk), Direct(x), NEW s \in Stripes(x),
           NEW n \in Nat, n < x.size
    PROVE  ByteAt(s.devID, s.offset + n) = <<"disk", x.offset + n>>
<1> DEFINE dev == s.devID
           off == s.offset + n
           holds(y) == {t \in Stripes(y) :
                           t.devID = dev /\ t.offset <= off /\ off < t.offset + y.size}
           here == {y \in ChunksOf(disk) : holds(y) # {}}
<1>1. \A y \in ChunksOf(disk) :
         /\ y.offset \in Nat /\ y.size \in Nat
         /\ \A t \in Stripes(y) : t.offset \in Nat
  BY DiskDescribed
<1>2. \A y \in ChunksOf(disk) : \A t \in Stripes(y) : Apart(x, s, y, t)
  BY DiskDescribed
<1>3. ASSUME NEW y \in ChunksOf(disk), NEW t \in holds(y)
      PROVE  y = x /\ t = s
  BY <1>1, <1>2, <1>3 DEF Apart
<1>4. s \in holds(x)
  BY <1>1
<1> HIDE DEF holds
<1>5. here = {x} /\ holds(x) = {s}
  BY <1>3, <1>4
<1>6. ByteAt(dev, off) = <<"disk", StoredFor(x, s, off)>>
  <2>1. ByteAt(dev, off) =
            IF here = {} THEN Garbage
            ELSE LET y == CHOOSE z \in here : TRUE
                 IN  IF Direct(y)
                     THEN <<"disk", StoredFor(y, CHOOSE t \in holds(y) : TRUE, off)>>
                     ELSE Garbage
    BY DEF ByteAt, holds
  <2>2. (CHOOSE z \in here : TRUE) = x /\ (CHOOSE t \in holds(x) : TRUE) = s
    BY <1>5
  <2> HIDE DEF here
  <2> QED
    BY <1>5, <2>1, <2>2
<1>7. StoredFor(x, s, off) = x.offset + n
  BY <1>1 DEF StoredFor
<1> QED
  BY <1>6, <1>7

(* A read that succeeds, of any length, is of the bytes stored for the     *)
(* addresses.                                                              *)
LEMMA ReadIsRight ==
    ASSUME MapTypeOK, NEW addr \in Nat, NEW len \in Nat \ {0}, ReadSucceeds(addr, len)
    PROVE  readLogical(addr, len) = [k \in 0 .. len - 1 |-> <<"disk", addr + k>>]
<1> DEFINE x == logiToPhys(addr, len)
           s == x.stripes[1]
<1>1. x \in ChunksOf(disk) /\ Fits(x, addr, len)
  BY ChunkFound DEF ReadSucceeds
<1>2. Direct(x) /\ Len(x.stripes) >= MinStripes(x.flags) /\ Readers(s.devID) # {}
  BY DEF ReadSucceeds
<1>3. disk.supers[getBlockReader(s.devID)] = s.devID
  BY <1>2, ReaderFound
<1>4. readLogical(addr, len) = [k \in 0 .. len - 1 |-> ByteAt(s.devID, PhysAddr(x, addr) + k)]
  BY <1>3 DEF readLogical
<1> HIDE DEF x
<1>5. s \in Stripes(x)
  <2>1. x.stripes \in Seq(Stripes(x))
    BY <1>1, DiskDescribed
  <2>2. Len(x.stripes) >= 1
    BY <1>2, <2>1 DEF MinStripes
  <2> QED
    BY <2>1, <2>2 DEF Stripes
<1>6. x.offset \in Nat /\ x.size \in Nat /\ s.offset \in Nat
  BY <1>1, <1>5, DiskDescribed
<1>7. addr >= x.offset /\ addr + len <= x.offset + x.size
  BY <1>1 DEF Fits
<1> HIDE DEF s
<1>8. ASSUME NEW k \in 0 .. len - 1
      PROVE  ByteAt(s.devID, PhysAddr(x, addr) + k) = <<"disk", addr + k>>
  <2> DEFINE n == addr - x.offset + k
  <2>1. n \in Nat /\ n < x.size /\ x.offset + n = addr + k
        /\ PhysAddr(x, addr) + k = s.offset + n
    BY <1>6, <1>7 DEF PhysAddr, s
  <2> HIDE DEF n
  <2> QED
    BY <1>1, <1>2, <1>5, <2>1, StripeHolds
<1> QED
  BY <1>4, <1>8

(* The types suffice for the translation to be right: nothing has to be    *)
(* known of how much of the map has been loaded.                           *)
LEMMA TypesTranslate == MapTypeOK => TranslationRight
<1> SUFFICES ASSUME MapTypeOK, NEW r \in Ranges, ReadSucceeds(r[1], r[2])
             PROVE  readLogical(r[1], r[2]) = [k \in 0 .. r[2] - 1 |-> <<"disk", r[1] + k>>]
  BY DEF TranslationRight
<1>1. PICK x \in ChunksOf(disk) :
          r \in {<<a, n>> : a \in x.offset .. x.offset + x.size - 1, n \in {1, 2, x.size}}
  BY DEF Ranges
<1>2. x.offset \in Nat /\ x.size \in Nat
  BY DiskDescribed
<1>3. r[1] \in x.offset .. x.offset + x.size - 1 /\ r[2] \in {1, 2, x.size}
  BY <1>1
<1>4. r[1] \in Nat /\ r[2] \in Nat \ {0}
  BY <1>2, <1>3
<1> QED
  BY <1>4, ReadIsRight

(* Whenever readLogical succeeds, at any point of loading the map, it is   *)
(* with the bytes stored for the addresses.                                *)
THEOREM MapTranslatesRight == MapSpec => []TranslationRight
  BY MapInitTypes, MapTypesKept, TypesTranslate, PTL DEF MapSpec

----------------------------------------------------------------------------
(***************************************************************************)
(* The walk of the chunk tree, when it is loaded: what has been visited is *)
(* in the map.  d is the volume, T the items loaded and w the activations. *)
(***************************************************************************)
Loaded == {chunkTree[m] : m \in DOMAIN chunkTree}

Records(d) == [addr : DOMAIN d.nodes, i : Nat]

(* The items of a node before the i-th are dealt with: a leaf's are in the *)
(* map, and the nodes below an inner one have been walked.                 *)
Served(d, T, C, a, i) ==
    \A k \in DOMAIN d.nodes[a].items :
        k < i => d.nodes[a].items[k] \in (IF d.nodes[a].level = 0 THEN T ELSE C)

(* The nodes that have been walked, C, are dealt with.                     *)
Closed(d, T, C) ==
    \A a \in C : \A k \in DOMAIN d.nodes[a].items :
        d.nodes[a].items[k] \in (IF d.nodes[a].level = 0 THEN T ELSE C)

(* One activation is for the child that the one above it is at, and the    *)
(* first is for the root.                                                  *)
Chain(d, w) ==
    /\ w # <<>> => w[1].addr = d.ctRoot
    /\ \A n \in 1 .. Len(w) - 1 :
          /\ d.nodes[w[n].addr].level # 0
          /\ w[n].i \in DOMAIN d.nodes[w[n].addr].items
          /\ d.nodes[w[n].addr].items[w[n].i] = w[n + 1].addr

Walked(d, T, C, w) ==
    /\ C \subseteq DOMAIN d.nodes
    /\ Closed(d, T, C)
    /\ \A n \in 1 .. Len(w) : Served(d, T, C, w[n].addr, w[n].i)
    /\ w = <<>> => d.ctRoot \in C

Progressed(d, T, w) == \E C \in SUBSET DOMAIN d.nodes : Walked(d, T, C, w)

MapInv ==
    /\ MapTypeOK
    /\ load # "aborted"
    /\ load # "sbChunks" => sbChunks = disk.system
    /\ Chain(disk, walk)
    /\ load = "loaded" => operation = "CTOP_LOAD" /\ walk = <<>>
    /\ load # "sbChunks" /\ operation = "CTOP_LOAD" => Progressed(disk, Loaded, walk)

----------------------------------------------------------------------------

(* The activations after the top one has gone on to its next item.         *)
LEMMA NextItemElements ==
    ASSUME NEW d, NEW w \in Seq(Records(d)), w # <<>>
    PROVE  /\ NextItem(w) \in Seq(Records(d)) /\ Len(NextItem(w)) = Len(w)
           /\ NextItem(w) # <<>>
           /\ \A n \in 1 .. Len(w) - 1 : NextItem(w)[n] = w[n]
           /\ NextItem(w)[Len(w)].addr = w[Len(w)].addr
           /\ NextItem(w)[Len(w)].i = w[Len(w)].i + 1
<1>1. Len(w) \in DOMAIN w /\ w[Len(w)] \in Records(d) /\ Len(w) \in Nat \ {0}
  BY SequenceEnd, EmptySeq
<1> DEFINE e == [w[Len(w)] EXCEPT !.i = @ + 1]
<1>2. e \in Records(d) /\ e.addr = w[Len(w)].addr /\ e.i = w[Len(w)].i + 1
  <2>1. ASSUME NEW r \in Records(d)
        PROVE  /\ [r EXCEPT !.i = @ + 1] \in Records(d)
               /\ [r EXCEPT !.i = @ + 1].addr = r.addr
               /\ [r EXCEPT !.i = @ + 1].i = r.i + 1
    <3>1. r.addr \in DOMAIN d.nodes /\ r.i + 1 \in Nat
      BY DEF Records
    <3>2. [r EXCEPT !.i = @ + 1] = [addr |-> r.addr, i |-> r.i + 1]
      BY DEF Records
    <3> QED
      BY <3>1, <3>2 DEF Records
  <2> QED
    BY <1>1, <2>1
<1>3. NextItem(w) = [w EXCEPT ![Len(w)] = e]
  BY <1>1 DEF NextItem
<1> HIDE DEF e
<1>4. NextItem(w) \in Seq(Records(d)) /\ Len(NextItem(w)) = Len(w)
  BY <1>1, <1>2, <1>3
<1>5. NextItem(w) # <<>>
  BY <1>1, <1>4, EmptySeq
<1>6. NextItem(w)[Len(w)] = e /\ \A n \in 1 .. Len(w) - 1 : NextItem(w)[n] = w[n]
  BY <1>1, <1>3
<1> QED
  BY <1>2, <1>4, <1>5, <1>6

(* Going on to the next item of a node leaves the chain what it was.       *)
LEMMA ChainGoesOn ==
    ASSUME NEW d, NEW w \in Seq(Records(d)), w # <<>>, Chain(d, w)
    PROVE  Chain(d, NextItem(w))
<1> DEFINE v == NextItem(w)
<1>1. /\ Len(v) = Len(w) /\ v # <<>>
      /\ \A n \in 1 .. Len(w) - 1 : v[n] = w[n]
      /\ v[Len(w)].addr = w[Len(w)].addr
  BY NextItemElements
<1> HIDE DEF v
<1>2. Len(w) \in Nat \ {0}
  BY SequenceEnd, EmptySeq
<1>3. \A n \in 1 .. Len(w) : v[n].addr = w[n].addr
  <2>1. \A n \in 1 .. Len(w) : n = Len(w) \/ n \in 1 .. Len(w) - 1
    BY <1>2
  <2> QED
    BY <1>1, <2>1
<1>4. v[1].addr = d.ctRoot
  BY <1>2, <1>3 DEF Chain
<1>5. ASSUME NEW n \in 1 .. Len(w) - 1
      PROVE  /\ d.nodes[v[n].addr].level # 0
             /\ v[n].i \in DOMAIN d.nodes[v[n].addr].items
             /\ d.nodes[v[n].addr].items[v[n].i] = v[n + 1].addr
  <2>1. n + 1 \in 1 .. Len(w) /\ v[n] = w[n]
    BY <1>1, <1>2
  <2>2. v[n + 1].addr = w[n + 1].addr
    BY <1>3, <2>1
  <2> QED
    BY <2>1, <2>2 DEF Chain
<1> QED
  BY <1>1, <1>4, <1>5 DEF Chain, v

(* Going on to the next item when the one before it is dealt with.         *)
LEMMA ItemServed ==
    ASSUME NEW d, NEW w \in Seq(Records(d)), w # <<>>, NEW T, NEW U, T \subseteq U,
           NEW C, NEW D, C \subseteq D, D \subseteq DOMAIN d.nodes, Closed(d, U, D),
           \A n \in 1 .. Len(w) : Served(d, T, C, w[n].addr, w[n].i),
           LET x == d.nodes[w[Len(w)].addr]
               k == w[Len(w)].i
           IN  k \in DOMAIN x.items => x.items[k] \in (IF x.level = 0 THEN U ELSE D),
           \A k \in DOMAIN d.nodes[w[Len(w)].addr].items : k \in Nat
    PROVE  Walked(d, U, D, NextItem(w))
<1> DEFINE v == NextItem(w)
<1>1. /\ v \in Seq(Records(d)) /\ Len(v) = Len(w) /\ v # <<>>
      /\ \A n \in 1 .. Len(w) - 1 : v[n] = w[n]
      /\ v[Len(w)].addr = w[Len(w)].addr
      /\ v[Len(w)].i = w[Len(w)].i + 1
  BY NextItemElements
<1> HIDE DEF v
<1>2. Len(w) \in Nat \ {0} /\ w[Len(w)].i \in Nat
  <2>1. Len(w) \in Nat \ {0} /\ w[Len(w)] \in Records(d)
    BY SequenceEnd, EmptySeq
  <2> QED
    BY <2>1 DEF Records
<1>3. ASSUME NEW n \in 1 .. Len(w)
      PROVE  Served(d, U, D, v[n].addr, v[n].i)
  <2>1. Served(d, U, D, w[n].addr, w[n].i)
    BY DEF Served
  <2>2. CASE n = Len(w)
    <3> DEFINE a == w[n].addr
    <3>1. ASSUME NEW k \in DOMAIN d.nodes[a].items, k < w[n].i + 1
          PROVE  d.nodes[a].items[k] \in (IF d.nodes[a].level = 0 THEN U ELSE D)
      <4>1. k < w[n].i \/ k = w[n].i
        BY <1>2, <2>2, <3>1
      <4> QED
        BY <2>1, <2>2, <4>1 DEF Served
    <3> QED
      BY <1>1, <2>2, <3>1 DEF Served
  <2>3. CASE n # Len(w)
    <3>1. v[n] = w[n]
      BY <1>1, <1>2, <2>3
    <3> QED
      BY <2>1, <3>1
  <2> QED
    BY <2>2, <2>3
<1>4. Walked(d, U, D, v)
  BY <1>1, <1>3 DEF Walked
<1> QED
  BY <1>4 DEF v

(* The walk without its last activation.                                   *)
LEMMA ChainShortened ==
    ASSUME NEW d, NEW w \in Seq(Records(d)), w # <<>>, Len(w) > 1, Chain(d, w)
    PROVE  LET v == SubSeq(w, 1, Len(w) - 1)
           IN  /\ v \in Seq(Records(d)) /\ v # <<>> /\ Len(v) = Len(w) - 1
               /\ \A n \in 1 .. Len(w) - 1 : v[n] = w[n]
               /\ Chain(d, v)
<1> DEFINE n == Len(w) - 1
           v == SubSeq(w, 1, n)
<1>1. n \in Nat \ {0} /\ Len(w) = n + 1 /\ \A k \in 1 .. n : w[k] \in Records(d)
  <2>1. Len(w) \in Nat /\ \A k \in 1 .. Len(w) : w[k] \in Records(d)
    OBVIOUS
  <2>2. n \in Nat \ {0} /\ Len(w) = n + 1
    BY <2>1
  <2>3. \A k \in 1 .. n : k \in 1 .. Len(w)
    BY <2>2
  <2> QED
    BY <2>1, <2>2, <2>3
<1> HIDE DEF n
<1>2. v \in Seq(Records(d)) /\ Len(v) = n /\ \A k \in 1 .. n : v[k] = w[k]
  BY <1>1, SubSeqProperties
<1> HIDE DEF v
<1>3. v # <<>>
  BY <1>1, <1>2, EmptySeq
<1>4. Chain(d, v)
  <2>1. v[1].addr = d.ctRoot
    BY <1>1, <1>2 DEF Chain
  <2>2. ASSUME NEW k \in 1 .. n - 1
        PROVE  /\ d.nodes[v[k].addr].level # 0
               /\ v[k].i \in DOMAIN d.nodes[v[k].addr].items
               /\ d.nodes[v[k].addr].items[v[k].i] = v[k + 1].addr
    <3>1. k \in 1 .. Len(w) - 1 /\ v[k] = w[k] /\ v[k + 1] = w[k + 1]
      BY <1>1, <1>2
    <3> QED
      BY <3>1 DEF Chain
  <2> QED
    BY <1>2, <2>1, <2>2 DEF Chain
<1> QED
  BY <1>2, <1>3, <1>4 DEF v, n

(* Each activation of the walk is for a node of the tree.                  *)
LEMMA TopTyped ==
    ASSUME MapTypeOK, walk # <<>>
    PROVE  /\ walk \in Seq(Records(disk)) /\ top = walk[Len(walk)]
           /\ top.addr \in DOMAIN disk.nodes /\ top.i \in Nat
           /\ node.level \in Nat
           /\ Len(node.items) \in Nat /\ DOMAIN node.items = 1 .. Len(node.items)
<1>1. walk \in Seq(Records(disk))
  BY DEF MapTypeOK, Records
<1>2. top \in Records(disk)
  BY <1>1, SequenceEnd DEF top
<1>3. top.addr \in DOMAIN disk.nodes /\ top.i \in Nat
  BY <1>2 DEF Records
<1>4. node.level \in Nat
  BY <1>3, TreeDescribed DEF node, MapTypeOK
<1>5. \E S : node.items \in Seq(S)
  BY <1>3, DiskDescribed, Zenon DEF node
<1> QED
  BY <1>1, <1>3, <1>4, <1>5 DEF top

(* The items of a node are numbered from 1.                                *)
LEMMA ItemsNumbered ==
    ASSUME MapTypeOK, NEW a \in DOMAIN disk.nodes
    PROVE  \A k \in DOMAIN disk.nodes[a].items : k \in Nat \ {0}
<1>1. PICK S : disk.nodes[a].items \in Seq(S)
  BY DiskDescribed, Zenon
<1> DEFINE s == disk.nodes[a].items
<1>2. s \in Seq(S)
  BY <1>1
<1> HIDE DEF s
<1>3. \A k \in DOMAIN s : k \in Nat \ {0}
  BY <1>2
<1> QED
  BY <1>3 DEF s

(* The address of a node is in no other chunk than that of the superblock, *)
(* which can be read: loadNode succeeds for every node, at every point of  *)
(* loading the map.                                                        *)
LEMMA NodesAreRead ==
    ASSUME MapTypeOK, sbChunks = disk.system, NEW a \in DOMAIN disk.nodes
    PROVE  NodeRead(a)
<1>1. /\ disk \in Disks /\ a \in Nat
      /\ NodeSize \in Nat \ {0}
  BY TreeDescribed, NodesTakeSpace DEF MapTypeOK
<1>2. PICK k \in DOMAIN disk.system :
         /\ Fits(disk.system[k], a, NodeSize) /\ Direct(disk.system[k])
         /\ \A m \in 0 .. NodeSize - 1 :
               <<disk.system[k].stripes[1].devID, PhysAddr(disk.system[k], a) + m>>
                   \notin disk.bad
  BY <1>1, TreeDescribed, Zenon
<1> DEFINE x == disk.system[k]
           y == logiToPhys(a, NodeSize)
<1>3. x \in ChunksOf(disk)
  BY DiskDescribed
<1>4. k \in Fitting(a, NodeSize)
  <2>1. /\ disk.system \in Seq(ItemsOf(disk)) /\ chunkTree \in Seq(ItemsOf(disk))
        /\ searched = disk.system \o chunkTree
    BY DEF MapTypeOK, ChunksOf, searched
  <2>2. k \in DOMAIN searched /\ searched[k] = disk.system[k]
    BY <2>1
  <2> QED
    BY <1>2, <2>2 DEF Fitting
<1>5. y \in ChunksOf(disk) /\ Fits(y, a, NodeSize)
  BY <1>4, ChunkFound
<1> HIDE DEF x, y
<1>6. x = y
  <2>1. /\ x.offset \in Nat /\ x.size \in Nat /\ y.offset \in Nat /\ y.size \in Nat
    BY <1>3, <1>5, DiskDescribed
  <2>2. x.offset < y.offset + y.size /\ y.offset < x.offset + x.size
    BY <1>1, <1>2, <1>5, <2>1 DEF Fits, x
  <2> QED
    BY <1>1, <1>3, <1>5, <2>2, ChunksDescribed
<1>7. /\ Len(x.stripes) >= MinStripes(x.flags) /\ Direct(x)
      /\ x.stripes[1] \in Stripes(x) /\ Readers(x.stripes[1].devID) # {}
  <2>1. Len(x.stripes) >= MinStripes(x.flags) /\ Direct(x)
    BY <1>1, <1>2, <1>3, StripesEnough DEF x
  <2>2. x.stripes \in Seq(Stripes(x))
    BY <1>3, DiskDescribed
  <2>3. Len(x.stripes) >= 1
    BY <2>1, <2>2 DEF MinStripes
  <2>4. x.stripes[1] \in Stripes(x)
    BY <2>2, <2>3 DEF Stripes
  <2>5. Readers(x.stripes[1].devID) # {}
    BY <1>1, <1>3, <2>4, ChunksDescribed DEF Readers
  <2> QED
    BY <2>1, <2>4, <2>5
<1>8. disk.supers[getBlockReader(x.stripes[1].devID)] = x.stripes[1].devID
  BY <1>7, ReaderFound
<1>9. ReadSucceeds(a, NodeSize)
  <2>1. Fitting(a, NodeSize) # {} /\ logiToPhys(a, NodeSize) = x
    BY <1>4, <1>6 DEF y
  <2>2. \A m \in 0 .. NodeSize - 1 :
           <<disk.supers[getBlockReader(x.stripes[1].devID)], PhysAddr(x, a) + m>>
               \notin disk.bad
    BY <1>2, <1>8 DEF x
  <2> QED
    BY <1>7, <2>1, <2>2, Zenon DEF ReadSucceeds
<1> QED
  BY <1>1, <1>9, ReadIsRight DEF NodeRead

(* A walk starts with nothing dealt with.                                  *)
LEMMA WalkStarts ==
    ASSUME NEW d, NEW T, d.ctRoot \in DOMAIN d.nodes,
           \A k \in DOMAIN d.nodes[d.ctRoot].items : k \in Nat \ {0}
    PROVE  LET w == <<[addr |-> d.ctRoot, i |-> 0]>>
           IN  Chain(d, w) /\ Progressed(d, T, w)
<1> DEFINE e == [addr |-> d.ctRoot, i |-> 0]
           w == <<e>>
<1>1. e.addr = d.ctRoot /\ e.i = 0
  OBVIOUS
<1> HIDE DEF e
<1>2. Len(w) = 1 /\ w[1] = e /\ w # <<>>
  OBVIOUS
<1> HIDE DEF w
<1>3. Chain(d, w)
  BY <1>1, <1>2 DEF Chain
<1>4. Walked(d, T, {}, w)
  <2>1. \A n \in 1 .. Len(w) : w[n] = e
    BY <1>2
  <2>2. Served(d, T, {}, e.addr, e.i)
    BY <1>1 DEF Served
  <2> QED
    BY <1>2, <2>1, <2>2 DEF Walked, Closed
<1> QED
  BY <1>3, <1>4 DEF Progressed, w, e

(* Starting to load the node that the walk is at.                          *)
LEMMA LoadNodeKeeps == MapInv /\ LoadNode => MapInv'
<1> SUFFICES ASSUME MapInv, LoadNode PROVE MapInv'
  OBVIOUS
<1>1. MapTypeOK /\ load = "chunkTree" /\ walk # <<>> /\ top.i = 0
  BY DEF MapInv, LoadNode, Walking
<1>2. NodeRead(top.addr)
  BY <1>1, TopTyped, NodesAreRead DEF MapInv
<1>3. walk' = NextItem(walk) /\ UNCHANGED <<disk, load, operation, sbChunks, chunkTree>>
  BY <1>2 DEF LoadNode
<1>4. MapTypeOK'
  BY <1>1, MapTypesKept DEF MapNext
<1>5. walk \in Seq(Records(disk)) /\ Chain(disk, NextItem(walk))
  BY <1>1, TopTyped, ChainGoesOn DEF MapInv
<1>6. ASSUME NEW C, Walked(disk, Loaded, C, walk)
      PROVE  Walked(disk, Loaded, C, NextItem(walk))
  <2>1. \A k \in DOMAIN node.items : k \in Nat \ {0}
    BY <1>1, TopTyped
  <2>2. node = disk.nodes[walk[Len(walk)].addr] /\ walk[Len(walk)].i = 0
    BY <1>1 DEF node, top
  <2> QED
    BY <1>1, <1>5, <1>6, <2>1, <2>2, ItemServed DEF Walked
<1>7. Loaded' = Loaded
  BY <1>3 DEF Loaded
<1> QED
  BY <1>1, <1>3, <1>4, <1>5, <1>6, <1>7 DEF MapInv, Progressed

(* An item of a leaf is put into the map, or printed.                      *)
LEMMA LoadItemKeeps == MapInv /\ LoadItem => MapInv'
<1> SUFFICES ASSUME MapInv, LoadItem PROVE MapInv'
  OBVIOUS
<1>1. /\ MapTypeOK /\ load = "chunkTree" /\ walk # <<>>
      /\ top.i \in DOMAIN node.items /\ node.level = 0
      /\ walk' = NextItem(walk) /\ UNCHANGED <<disk, load, operation, sbChunks>>
  BY DEF MapInv, LoadItem, Walking
<1>2. MapTypeOK'
  BY <1>1, MapTypesKept DEF MapNext
<1>3. walk \in Seq(Records(disk)) /\ Chain(disk, NextItem(walk)) /\ NextItem(walk) # <<>>
  BY <1>1, TopTyped, ChainGoesOn, NextItemElements DEF MapInv
<1> DEFINE x == node.items[top.i]
<1>4. ASSUME operation = "CTOP_LOAD"
      PROVE  Loaded \subseteq Loaded' /\ x \in Loaded'
  <2>1. chunkTree' = Append(chunkTree, x) /\ chunkTree \in Seq(ItemsOf(disk))
    BY <1>1, <1>4 DEF LoadItem, MapTypeOK
  <2>2. x \in ItemsOf(disk)
    BY <1>1, TopTyped, DiskDescribed DEF node
  <2> HIDE DEF x
  <2>3. /\ Len(chunkTree') = Len(chunkTree) + 1 /\ DOMAIN chunkTree' = 1 .. Len(chunkTree')
        /\ \A m \in 1 .. Len(chunkTree) : chunkTree'[m] = chunkTree[m]
        /\ chunkTree'[Len(chunkTree) + 1] = x
    BY <2>1, <2>2
  <2>4. Len(chunkTree) \in Nat /\ DOMAIN chunkTree = 1 .. Len(chunkTree)
    BY <2>1
  <2> QED
    BY <2>3, <2>4 DEF Loaded
<1>5. ASSUME operation = "CTOP_LOAD", NEW C, Walked(disk, Loaded, C, walk)
      PROVE  Walked(disk, Loaded', C, NextItem(walk))
  <2>1. \A k \in DOMAIN node.items : k \in Nat
    BY <1>1, TopTyped
  <2>2. node = disk.nodes[walk[Len(walk)].addr] /\ top = walk[Len(walk)]
    BY DEF node, top
  <2>3. Loaded \subseteq Loaded' /\ x \in Loaded'
    BY <1>4, <1>5
  <2> DEFINE U == Loaded'
  <2> HIDE DEF U
  <2>4. Loaded \subseteq U /\ x \in U
    BY <2>3 DEF U
  <2>5. Closed(disk, U, C)
    BY <1>5, <2>4 DEF Walked, Closed
  <2>6. Walked(disk, U, C, NextItem(walk))
    BY <1>1, <1>3, <1>5, <2>1, <2>2, <2>4, <2>5, ItemServed DEF Walked
  <2> QED
    BY <2>6 DEF U
<1>6. operation = "CTOP_LOAD" => Progressed(disk, Loaded', NextItem(walk))
  BY <1>1, <1>5 DEF MapInv, Progressed
<1> QED
  BY <1>1, <1>2, <1>3, <1>6 DEF MapInv

(* Going down to a child.                                                  *)
LEMMA RecurseKeeps == MapInv /\ RecurseChunkTree => MapInv'
<1> SUFFICES ASSUME MapInv, RecurseChunkTree PROVE MapInv'
  OBVIOUS
<1> DEFINE e == [addr |-> node.items[top.i], i |-> 0]
<1>1. /\ MapTypeOK /\ load = "chunkTree" /\ walk # <<>>
      /\ top.i \in DOMAIN node.items /\ node.level > 0
      /\ walk' = Append(walk, e)
      /\ UNCHANGED <<disk, load, operation, sbChunks, chunkTree>>
  BY DEF MapInv, RecurseChunkTree, Walking
<1>2. MapTypeOK'
  BY <1>1, MapTypesKept DEF MapNext
<1>3. walk \in Seq(Records(disk)) /\ node.level # 0 /\ top = walk[Len(walk)]
      /\ top.addr \in DOMAIN disk.nodes
  BY <1>1, TopTyped
<1>4. e \in Records(disk) /\ e.addr = node.items[top.i] /\ e.i = 0
  <2>1. node.items \in Seq(DOMAIN disk.nodes)
    BY <1>1, <1>3, DiskDescribed DEF node
  <2> QED
    BY <1>1, <2>1 DEF Records
<1>5. \A k \in DOMAIN disk.nodes[e.addr].items : k \in Nat \ {0}
  <2>1. e.addr \in DOMAIN disk.nodes
    BY <1>4 DEF Records
  <2> QED
    BY <1>1, <2>1, ItemsNumbered
<1> HIDE DEF e
<1> DEFINE v == Append(walk, e)
           n == Len(walk)
<1>6. /\ n \in Nat \ {0} /\ Len(v) = n + 1
      /\ \A k \in 1 .. n : v[k] = walk[k]
      /\ v[n + 1] = e
  <2>1. n \in Nat \ {0}
    BY <1>1, <1>3, SequenceEnd, EmptySeq
  <2>2. Len(v) = n + 1 /\ (\A k \in 1 .. n : v[k] = walk[k]) /\ v[n + 1] = e
    BY <1>3, <1>4
  <2> QED
    BY <2>1, <2>2
<1>7. v # <<>>
  BY <1>6, EmptySeq
<1> HIDE DEF v
<1>8. Chain(disk, v)
  <2>1. v[1].addr = disk.ctRoot
    BY <1>1, <1>6 DEF MapInv, Chain
  <2>2. ASSUME NEW k \in 1 .. n
        PROVE  /\ disk.nodes[v[k].addr].level # 0
               /\ v[k].i \in DOMAIN disk.nodes[v[k].addr].items
               /\ disk.nodes[v[k].addr].items[v[k].i] = v[k + 1].addr
    <3>1. CASE k = n
      BY <1>1, <1>3, <1>4, <1>6, <3>1 DEF node
    <3>2. CASE k # n
      <4>1. k \in 1 .. n - 1 /\ k + 1 \in 1 .. n
        BY <1>6, <3>2
      <4>2. v[k] = walk[k] /\ v[k + 1] = walk[k + 1]
        BY <1>6, <4>1
      <4> QED
        BY <4>1, <4>2 DEF MapInv, Chain
    <3> QED
      BY <3>1, <3>2
  <2>3. 1 .. Len(v) - 1 = 1 .. n
    BY <1>6
  <2> QED
    BY <2>1, <2>2, <2>3 DEF Chain
<1>9. ASSUME NEW C, Walked(disk, Loaded, C, walk)
      PROVE  Walked(disk, Loaded, C, v)
  <2>1. Served(disk, Loaded, C, e.addr, e.i)
    BY <1>4, <1>5 DEF Served
  <2>2. ASSUME NEW k \in 1 .. Len(v)
        PROVE  Served(disk, Loaded, C, v[k].addr, v[k].i)
    <3>1. k = n + 1 \/ k \in 1 .. n
      BY <1>6
    <3> QED
      BY <1>6, <1>9, <2>1, <3>1 DEF Walked
  <2> QED
    BY <1>7, <1>9, <2>2 DEF Walked
<1>10. Loaded' = Loaded
  BY <1>1 DEF Loaded
<1>11. walk' = v
  BY <1>1 DEF v
<1> QED
  BY <1>1, <1>2, <1>8, <1>9, <1>10, <1>11 DEF MapInv, Progressed

(* Leaving a node: it has been walked.                                     *)
LEMMA LeaveKeeps == MapInv /\ LeaveNode => MapInv'
<1> SUFFICES ASSUME MapInv, LeaveNode PROVE MapInv'
  OBVIOUS
<1>1. /\ MapTypeOK /\ load = "chunkTree" /\ walk # <<>> /\ top.i > Len(node.items)
      /\ walk' = IF Len(walk) = 1 THEN <<>>
                 ELSE NextItem(SubSeq(walk, 1, Len(walk) - 1))
      /\ UNCHANGED <<disk, load, operation, sbChunks, chunkTree>>
  BY DEF MapInv, LeaveNode, Walking
<1>2. MapTypeOK'
  BY <1>1, MapTypesKept DEF MapNext
<1>3. /\ walk \in Seq(Records(disk)) /\ top = walk[Len(walk)] /\ top.addr \in DOMAIN disk.nodes
      /\ top.i \in Nat /\ Len(node.items) \in Nat
      /\ DOMAIN node.items = 1 .. Len(node.items)
      /\ node = disk.nodes[top.addr] /\ Chain(disk, walk)
  BY <1>1, TopTyped DEF node, MapInv
<1>4. Loaded' = Loaded
  BY <1>1 DEF Loaded
<1>5. Len(walk) \in Nat \ {0}
  BY <1>1, <1>3, SequenceEnd, EmptySeq
<1>6. ASSUME NEW C, Walked(disk, Loaded, C, walk)
      PROVE  LET D == C \cup {top.addr}
             IN  D \subseteq DOMAIN disk.nodes /\ Closed(disk, Loaded, D)
  <2>1. Served(disk, Loaded, C, top.addr, top.i)
    BY <1>3, <1>5, <1>6 DEF Walked
  <2>2. \A k \in DOMAIN node.items : k < top.i
    BY <1>1, <1>3
  <2>3. \A k \in DOMAIN node.items :
           node.items[k] \in (IF node.level = 0 THEN Loaded ELSE C)
    BY <1>3, <2>1, <2>2 DEF Served
  <2> QED
    BY <1>3, <1>6, <2>3 DEF Walked, Closed
<1>7. CASE Len(walk) = 1
  <2>1. walk' = <<>> /\ top.addr = disk.ctRoot
    BY <1>1, <1>3, <1>7 DEF Chain
  <2>2. Len(<<>>) = 0
    BY EmptySeq
  <2>3. Chain(disk, <<>>)
    BY <2>2 DEF Chain
  <2>4. ASSUME NEW C, Walked(disk, Loaded, C, walk)
        PROVE  Walked(disk, Loaded, C \cup {top.addr}, <<>>)
    BY <1>6, <2>1, <2>2, <2>4 DEF Walked
  <2>5. Progressed(disk, Loaded, walk) => Progressed(disk, Loaded, <<>>)
    <3>1. \A C : Walked(disk, Loaded, C \cup {top.addr}, <<>>) => Progressed(disk, Loaded, <<>>)
      BY DEF Progressed, Walked
    <3> QED
      BY <2>4, <3>1 DEF Progressed
  <2> QED
    BY <1>1, <1>2, <1>4, <2>1, <2>3, <2>5 DEF MapInv
<1>8. CASE Len(walk) > 1
  <2> DEFINE v == SubSeq(walk, 1, Len(walk) - 1)
  <2>1. /\ v \in Seq(Records(disk)) /\ v # <<>> /\ Len(v) = Len(walk) - 1
        /\ \A n \in 1 .. Len(walk) - 1 : v[n] = walk[n]
        /\ Chain(disk, v)
    BY <1>1, <1>3, <1>8, ChainShortened
  <2>2. walk' = NextItem(v)
    <3>1. Len(walk) # 1
      BY <1>5, <1>8
    <3> QED
      BY <1>1, <3>1, Zenon
  <2> HIDE DEF v
  <2>3. Chain(disk, NextItem(v)) /\ NextItem(v) # <<>>
    BY <2>1, ChainGoesOn, NextItemElements
  <2> DEFINE m == Len(walk) - 1
  <2>4. m \in 1 .. Len(walk) - 1 /\ m + 1 = Len(walk) /\ Len(v) = m
    BY <1>5, <1>8, <2>1
  <2>5. /\ v[m] = walk[m]
        /\ disk.nodes[walk[m].addr].level # 0
        /\ disk.nodes[walk[m].addr].items[walk[m].i] = top.addr
    <3>1. disk.nodes[walk[m].addr].items[walk[m].i] = walk[m + 1].addr
          /\ disk.nodes[walk[m].addr].level # 0
      BY <1>3, <2>4 DEF Chain
    <3> QED
      BY <1>3, <2>1, <2>4, <3>1
  <2>6. \A k \in DOMAIN disk.nodes[v[m].addr].items : k \in Nat
    <3>1. v[m] \in Records(disk)
      BY <2>1, <2>4
    <3>2. v[m].addr \in DOMAIN disk.nodes
      BY <3>1 DEF Records
    <3> QED
      BY <1>1, <3>2, ItemsNumbered
  <2>7. ASSUME NEW C, Walked(disk, Loaded, C, walk)
        PROVE  Walked(disk, Loaded, C \cup {top.addr}, NextItem(v))
    <3> DEFINE D == C \cup {top.addr}
    <3>1. D \subseteq DOMAIN disk.nodes /\ Closed(disk, Loaded, D) /\ C \subseteq D
          /\ top.addr \in D
      BY <1>6, <2>7
    <3> HIDE DEF D
    <3>2. \A n \in 1 .. Len(v) : Served(disk, Loaded, C, v[n].addr, v[n].i)
      <4>1. \A n \in 1 .. Len(v) : n \in 1 .. Len(walk) /\ v[n] = walk[n]
        BY <1>5, <2>1
      <4> QED
        BY <2>7, <4>1 DEF Walked
    <3>3. LET x == disk.nodes[v[m].addr]
              k == v[m].i
          IN  k \in DOMAIN x.items => x.items[k] \in (IF x.level = 0 THEN Loaded ELSE D)
      BY <2>5, <3>1
    <3> HIDE DEF m
    <3>4. Walked(disk, Loaded, D, NextItem(v))
      BY <2>1, <2>4, <2>6, <3>1, <3>2, <3>3, ItemServed
    <3> QED
      BY <3>4 DEF D
  <2>8. Progressed(disk, Loaded, walk) => Progressed(disk, Loaded, NextItem(v))
    <3>1. \A C : Walked(disk, Loaded, C \cup {top.addr}, NextItem(v))
                    => Progressed(disk, Loaded, NextItem(v))
      BY DEF Progressed, Walked
    <3> QED
      BY <2>7, <3>1 DEF Progressed
  <2> QED
    BY <1>1, <1>2, <1>4, <2>2, <2>3, <2>8 DEF MapInv
<1>9. Len(walk) = 1 \/ Len(walk) > 1
  BY <1>1, <1>3, SequenceEnd
<1> QED
  BY <1>7, <1>8, <1>9

(* Loading begins, or goes on from the dump, or ends.                      *)
LEMMA MapTurnsKeep == MapInv /\ (loadSBChunks \/ EndChunkTree) => MapInv'
<1> SUFFICES ASSUME MapInv, loadSBChunks \/ EndChunkTree PROVE MapInv'
  OBVIOUS
<1>1. MapTypeOK
  BY DEF MapInv
<1>2. MapTypeOK'
  BY <1>1, MapTypesKept DEF MapNext
<1> DEFINE w == <<[addr |-> disk.ctRoot, i |-> 0]>>
<1>3. \A T : Chain(disk, w) /\ Progressed(disk, T, w)
  <2>1. disk.ctRoot \in DOMAIN disk.nodes
    BY <1>1, DiskDescribed
  <2>3. \A k \in DOMAIN disk.nodes[disk.ctRoot].items : k \in Nat \ {0}
    BY <1>1, <2>1, ItemsNumbered
  <2> QED
    BY <2>1, <2>3, WalkStarts
<1>4. CASE loadSBChunks
  <2>1. /\ sbChunks' = disk.system /\ load' = "chunkTree" /\ walk' = w
        /\ UNCHANGED <<disk, chunkTree>>
    BY <1>4 DEF loadSBChunks
  <2> HIDE DEF w
  <2> QED
    BY <1>2, <1>3, <2>1 DEF MapInv
<1>5. CASE EndChunkTree /\ operation = "CTOP_DUMP_TREE"
  <2>1. /\ load = "chunkTree" /\ walk' = w
        /\ UNCHANGED <<disk, load, chunkTree, sbChunks>>
    BY <1>5 DEF EndChunkTree
  <2> HIDE DEF w
  <2> QED
    BY <1>2, <1>3, <2>1 DEF MapInv
<1>6. CASE EndChunkTree /\ operation # "CTOP_DUMP_TREE"
  <2>1. /\ load = "chunkTree" /\ load' = "loaded" /\ operation = "CTOP_LOAD" /\ walk = <<>>
        /\ UNCHANGED <<disk, operation, walk, chunkTree, sbChunks>>
    BY <1>1, <1>6 DEF EndChunkTree, MapTypeOK
  <2>2. Loaded' = Loaded
    BY <2>1 DEF Loaded
  <2> QED
    BY <1>2, <2>1, <2>2 DEF MapInv
<1> QED
  BY <1>4, <1>5, <1>6

(* The invariant of loading the map.                                       *)
LEMMA MapInvKept == MapInv /\ [MapNext]_mapVars => MapInv'
<1> SUFFICES ASSUME MapInv, [MapNext]_mapVars PROVE MapInv'
  OBVIOUS
<1>1. CASE UNCHANGED mapVars
  <2>1. Loaded' = Loaded
    BY <1>1 DEF mapVars, Loaded
  <2> QED
    BY <1>1, <2>1 DEF mapVars, MapInv, MapTypeOK
<1>2. CASE MapNext
  BY <1>2, LoadNodeKeeps, LoadItemKeeps, RecurseKeeps, LeaveKeeps, MapTurnsKeep DEF MapNext
<1> QED
  BY <1>1, <1>2

LEMMA MapInitInv == MapInit => MapInv
<1> SUFFICES ASSUME MapInit PROVE MapInv
  OBVIOUS
<1>1. MapTypeOK
  BY MapInitTypes
<1>2. walk = <<>> /\ Len(<<>>) = 0 /\ load = "sbChunks"
  BY EmptySeq DEF MapInit
<1> QED
  BY <1>1, <1>2 DEF MapInv, Chain

(* Once the chunk tree is loaded, the map holds every chunk of the volume: *)
(* a set of nodes that has the root and, with a node, its children, has    *)
(* them all.                                                               *)
LEMMA AllLoaded ==
    ASSUME MapInv, load = "loaded"
    PROVE  ChunksOf(disk) \subseteq Loaded
<1>1. PICK C : Walked(disk, Loaded, C, <<>>)
  BY DEF MapInv, Progressed
<1>2. disk \in Disks /\ C \in SUBSET DOMAIN disk.nodes /\ disk.ctRoot \in C
      /\ Closed(disk, Loaded, C)
  BY <1>1 DEF Walked, MapInv, MapTypeOK
<1>3. \A a \in C : disk.nodes[a].level > 0 =>
         \A k \in DOMAIN disk.nodes[a].items : disk.nodes[a].items[k] \in C
  <2>1. \A a \in C : disk.nodes[a].level \in Nat
    BY <1>2, TreeDescribed
  <2> QED
    BY <1>2, <2>1 DEF Closed
<1>4. C = DOMAIN disk.nodes
  BY <1>2, <1>3, TreeDescribed
<1> QED
  BY <1>2, <1>4 DEF Closed, ChunksOf, ItemsOf

(* What is refused then is refused for its chunk or for its device.        *)
LEMMA MapRefuses == MapInv => RefusedForCause
<1> SUFFICES ASSUME MapInv, load = "loaded", NEW x \in ChunksOf(disk),
                    NEW a \in x.offset .. x.offset + x.size - 1,
                    Direct(x), ~ReadSucceeds(a, 1)
             PROVE  \E b \in disk.bad : ByteAt(b[1], b[2]) = <<"disk", a>>
  BY DEF RefusedForCause
<1>1. MapTypeOK /\ disk \in Disks
  BY DEF MapInv, MapTypeOK
<1>2. x.offset \in Nat /\ x.size \in Nat /\ x.type = "CHUNK_ITEM"
      /\ x.stripes \in Seq(Stripes(x))
  BY <1>1, DiskDescribed DEF ChunksOf
<1>3. Fitting(a, 1) # {}
  <2>1. PICK m \in DOMAIN chunkTree : chunkTree[m] = x
    BY AllLoaded DEF Loaded
  <2>2. sbChunks \in Seq(ItemsOf(disk)) /\ chunkTree \in Seq(ItemsOf(disk))
    BY <1>1 DEF MapTypeOK, ChunksOf
  <2>3. Len(sbChunks) + m \in DOMAIN searched /\ searched[Len(sbChunks) + m] = x
    <3>1. m \in 1 .. Len(chunkTree) /\ Len(sbChunks) \in Nat /\ Len(chunkTree) \in Nat
      BY <2>2
    <3> DEFINE n == Len(sbChunks) + m
    <3>2. n \in 1 .. Len(sbChunks) + Len(chunkTree) /\ ~(n <= Len(sbChunks))
          /\ n - Len(sbChunks) = m
      BY <3>1
    <3>3. /\ Len(sbChunks \o chunkTree) = Len(sbChunks) + Len(chunkTree)
          /\ DOMAIN (sbChunks \o chunkTree) = 1 .. Len(sbChunks) + Len(chunkTree)
          /\ \A k \in 1 .. Len(sbChunks) + Len(chunkTree) :
                (sbChunks \o chunkTree)[k] =
                    IF k <= Len(sbChunks) THEN sbChunks[k] ELSE chunkTree[k - Len(sbChunks)]
      BY <2>2, ConcatProperties
    <3> HIDE DEF n
    <3>4. n \in DOMAIN searched /\ searched[n] = chunkTree[m]
      BY <3>2, <3>3 DEF searched
    <3> QED
      BY <2>1, <3>4 DEF n
  <2>4. Fits(x, a, 1)
    BY <1>2 DEF Fits
  <2> QED
    BY <2>3, <2>4 DEF Fitting
<1> DEFINE y == logiToPhys(a, 1)
<1>4. y \in ChunksOf(disk) /\ Fits(y, a, 1)
  BY <1>1, <1>3, ChunkFound
<1> HIDE DEF y
<1>5. x = y
  <2>1. y.offset \in Nat /\ y.size \in Nat
    BY <1>1, <1>4, DiskDescribed
  <2>2. x.offset < y.offset + y.size /\ y.offset < x.offset + x.size
    <3> DEFINE p == x.offset
               q == x.size
               r == y.offset
               t == y.size
    <3>1. p \in Nat /\ q \in Nat /\ a \in Nat /\ p <= a /\ a < p + q
      BY <1>2
    <3>2. r \in Nat /\ t \in Nat /\ a >= r /\ a + 1 <= r + t
      BY <1>4, <2>1 DEF Fits
    <3> HIDE DEF p, q, r, t
    <3>3. p < r + t /\ r < p + q
      BY <3>1, <3>2
    <3> QED
      BY <3>3 DEF p, q, r, t
  <2> QED
    BY <1>1, <1>4, <2>2, ChunksDescribed
<1> DEFINE s == x.stripes[1]
<1>6. Len(x.stripes) >= MinStripes(x.flags) /\ s \in Stripes(x)
  <2>1. Len(x.stripes) >= MinStripes(x.flags)
    BY <1>1, StripesEnough
  <2>2. Len(x.stripes) >= 1
    BY <1>2, <2>1 DEF MinStripes
  <2> QED
    BY <1>2, <2>1, <2>2 DEF Stripes
<1>7. Readers(s.devID) # {} /\ disk.supers[getBlockReader(s.devID)] = s.devID
  <2>1. Readers(s.devID) # {}
    BY <1>1, <1>6, ChunksDescribed DEF Readers
  <2> QED
    BY <1>1, <2>1, ReaderFound
<1>8. logiToPhys(a, 1) = x
  BY <1>5 DEF y
<1>9. PICK m \in 0 .. 1 - 1 : <<s.devID, PhysAddr(x, a) + m>> \in disk.bad
  BY <1>3, <1>6, <1>7, <1>8 DEF ReadSucceeds
<1>10. ByteAt(s.devID, PhysAddr(x, a) + m) = <<"disk", a>>
  <2> DEFINE n == a - x.offset
  <2>1. n \in Nat /\ n < x.size /\ x.offset + n = a /\ s.offset \in Nat /\ m = 0
    <3>1. s.offset \in Nat
      BY <1>1, <1>6, DiskDescribed
    <3>2. n \in Nat /\ n < x.size /\ x.offset + n = a /\ m = 0
      BY <1>2
    <3> QED
      BY <3>1, <3>2
  <2>2. PhysAddr(x, a) + m = s.offset + n
    BY <1>2, <2>1 DEF PhysAddr
  <2> HIDE DEF n, s
  <2> QED
    BY <1>1, <1>6, <2>1, <2>2, StripeHolds
<1> DEFINE b == <<s.devID, PhysAddr(x, a) + m>>
<1>11. b \in disk.bad /\ b[1] = s.devID /\ b[2] = PhysAddr(x, a) + m
  BY <1>9
<1> HIDE DEF b, s
<1> QED
  BY <1>10, <1>11

(* At every point of loading the map the chunk tree can be read.           *)
THEOREM ChunkTreeIsReadable == MapSpec => []TreeReadable
<1>1. MapInv => TreeReadable
  BY DEF MapInv, TreeReadable
<1> QED
  BY MapInitInv, MapInvKept, <1>1, PTL DEF MapSpec

=============================================================================
