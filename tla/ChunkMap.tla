------------------------------ MODULE ChunkMap ------------------------------
(***************************************************************************)
(* Logical addresses: loadSBChunks, logiToPhys, getBlockReader, readLogical*)
(* and loadNode (btrfs_system.cpp), and parseChunkTree                     *)
(* (chunktree_parser.cpp), which reads the chunk tree through the very map *)
(* that it is filling.                                                     *)
(*                                                                         *)
(* A byte on a device is named by the logical address it is stored for:    *)
(* <<"disk", l>>.  What is stored where, ByteAt, follows from the chunks   *)
(* the volume has, not from what the driver has loaded of them.            *)
(***************************************************************************)
EXTENDS Integers, Sequences, FiniteSetsExt

CONSTANTS
    Disks,      \* the volumes that may be mounted, see below
    NodeSize,   \* nodeSize of the superblock
    Garbage     \* a byte nobody has written

(***************************************************************************)
(* A volume is a record                                                    *)
(*   supers    the device IDs in the superblocks, in the order in which    *)
(*             the devices were given; supers[k] belongs to device k       *)
(*   system    the CHUNK_ITEMs in the first superblock                     *)
(*   ctRoot    the address of the root of the chunk tree                   *)
(*   nodes     the nodes of the chunk tree by address: [level, items],     *)
(*             items being addresses unless level is 0                     *)
(*   bad       places <<device ID, offset>> that cannot be read            *)
(* and an item [type, offset, size, flags, stripes], where offset is that  *)
(* of the key, flags are the striping levels in the chunk's type and a     *)
(* stripe is [devID, offset].                                              *)
(***************************************************************************)
ItemsOf(d) ==
    UNION {{d.nodes[a].items[k] : k \in DOMAIN d.nodes[a].items} :
              a \in {b \in DOMAIN d.nodes : d.nodes[b].level = 0}}

ChunksOf(d) == {x \in ItemsOf(d) : x.type = "CHUNK_ITEM"}

Stripes(x) == {x.stripes[k] : k \in DOMAIN x.stripes}

(* A stripe is the size of its chunk, and no two stripes overlap. *)
Apart(x, s, y, t) ==
    s.devID = t.devID /\ s.offset < t.offset + y.size /\ t.offset < s.offset + x.size
        => x = y /\ s = t

(* Volumes are well-formed: the tree's nodes exist and its items make      *)
(* sense, but which chunks there are, and where, is open.                  *)
ASSUME DisksDescribed ==
    \A d \in Disks :
        /\ d.supers \in Seq(Nat)
        /\ d.system \in Seq(ChunksOf(d))
        /\ d.ctRoot \in DOMAIN d.nodes
        /\ \A a \in DOMAIN d.nodes :
              d.nodes[a].items \in Seq(IF d.nodes[a].level = 0
                                      THEN ItemsOf(d) ELSE DOMAIN d.nodes)
        /\ \A x \in ChunksOf(d) :
              /\ x.offset \in Nat /\ x.size \in Nat
              /\ x.stripes \in Seq(Stripes(x))
              /\ \A s \in Stripes(x) : s.devID \in Nat /\ s.offset \in Nat
        /\ \A x, y \in ChunksOf(d) :
              \A s \in Stripes(x), t \in Stripes(y) : Apart(x, s, y, t)

VARIABLES
    disk,       \* the volume
    load,       \* "sbChunks", "chunkTree", "loaded" or "aborted"
    operation,  \* CTOP_DUMP_TREE, unless --no-dump was given, then CTOP_LOAD
    walk,       \* the activations of parseChunkTreeRec: [addr, i]
    sbChunks, chunkTree

mapVars == <<disk, load, operation, walk, sbChunks, chunkTree>>

MapInit ==
    /\ disk \in Disks
    /\ load = "sbChunks"
    /\ operation = "CTOP_DUMP_TREE"
    /\ walk = <<>>
    /\ sbChunks = <<>> /\ chunkTree = <<>>

----------------------------------------------------------------------------
(***************************************************************************)
(* The map                                                                 *)
(***************************************************************************)

Fits(x, addr, len) ==
    x.type = "CHUNK_ITEM" /\ addr >= x.offset /\ addr + len <= x.offset + x.size

(* Seeded fault: only the chunk tree is searched. *)
treeOnly == chunkTree

(* The chunks in the order of the search. *)
searched == sbChunks \o chunkTree

Fitting(addr, len) == {k \in DOMAIN searched : Fits(searched[k], addr, len)}

logiToPhys(addr, len) == searched[Min(Fitting(addr, len))]

(* Seeded fault: devices are given in the order of their IDs. *)
byNumber(devID) == IF devID \in DOMAIN disk.supers THEN {devID} ELSE {}

(* The positions of the block readers whose superblock has the device ID.  *)
Readers(devID) == {k \in DOMAIN disk.supers : disk.supers[k] = devID}

getBlockReader(devID) == Min(Readers(devID))

(* Seeded fault: chunks of one stripe are not accepted. *)
mirrored(flags) == IF flags = {"raid10"} THEN 4 ELSE 2

MinStripes(flags) ==
    CASE flags = {} -> 1
      [] flags = {"raid10"} -> 4
      [] OTHER -> 2

(* Chunks that are read as if they had one stripe. *)
Direct(x) == x.flags \in {{}, {"raid1"}, {"dup"}}

(* The address on the device. *)
PhysAddr(x, addr) == x.stripes[1].offset + (addr - x.offset)

(* What mkfs.btrfs sees to, and whoever mounts the volume.  No two chunks  *)
(* share a logical address; a chunk has stripes enough for its level; all  *)
(* its devices are given.  The whole chunk tree is in chunks that are in   *)
(* the superblock and can be read, and hangs together.                     *)
ASSUME NodesTakeSpace == NodeSize \in Nat \ {0}

ASSUME ChunksDescribed ==
    \A d \in Disks : \A x \in ChunksOf(d) :
        /\ \A y \in ChunksOf(d) :
              x.offset < y.offset + y.size /\ y.offset < x.offset + x.size => x = y
        /\ Len(x.stripes) >= 1
        /\ x.flags # {} => Len(x.stripes) >= 2
        /\ x.flags = {"raid10"} => Len(x.stripes) >= 4
        /\ \A s \in Stripes(x) : \E k \in DOMAIN d.supers : d.supers[k] = s.devID

ASSUME TreeDescribed ==
    \A d \in Disks :
        /\ \A a \in DOMAIN d.nodes :
              /\ a \in Nat /\ d.nodes[a].level \in Nat
              /\ \E k \in DOMAIN d.system :
                    LET x == d.system[k]
                    IN  /\ Fits(x, a, NodeSize) /\ Direct(x)
                        /\ \A m \in 0 .. NodeSize - 1 :
                              <<x.stripes[1].devID, PhysAddr(x, a) + m>> \notin d.bad
        /\ \A S \in SUBSET DOMAIN d.nodes :
              /\ d.ctRoot \in S
              /\ \A a \in S : d.nodes[a].level > 0 =>
                    \A k \in DOMAIN d.nodes[a].items : d.nodes[a].items[k] \in S
              => S = DOMAIN d.nodes

(* readLogical returns ERROR_SUCCESS.  It returns another code for striped *)
(* chunks and when the device cannot be read, and asserts that the address *)
(* is in a chunk with stripes enough and the device is there: its callers  *)
(* assert that it has succeeded, so the driver ends all the same.  A bad   *)
(* place is one for which the device reports an error: directRead would    *)
(* report success only for a read that comes up short without one, past    *)
(* the end of the device, and no stripe reaches there (see Superblocks).   *)
ReadSucceeds(addr, len) ==
    /\ Fitting(addr, len) # {}
    /\ LET x == logiToPhys(addr, len)
       IN  /\ Direct(x)
           /\ Len(x.stripes) >= MinStripes(x.flags)
           /\ Readers(x.stripes[1].devID) # {}
           /\ LET id == disk.supers[getBlockReader(x.stripes[1].devID)]
              IN  \A k \in 0 .. len - 1 :
                     <<id, PhysAddr(x, addr) + k>> \notin disk.bad

(* What a device holds: a byte of each chunk with a stripe there.  Which   *)
(* bytes a stripe of a raid0 or raid10 chunk holds is left open.           *)
StoredFor(x, s, off) == x.offset + (off - s.offset)

ByteAt(devID, off) ==
    LET holds(x) == {s \in Stripes(x) :
                        /\ s.devID = devID
                        /\ s.offset <= off /\ off < s.offset + x.size}
        here == {x \in ChunksOf(disk) : holds(x) # {}}
    IN  IF here = {} THEN Garbage
        ELSE LET x == CHOOSE y \in here : TRUE
             IN  IF Direct(x)
                 THEN <<"disk", StoredFor(x, CHOOSE s \in holds(x) : TRUE, off)>>
                 ELSE Garbage

(* The bytes a successful readLogical leaves in dest. *)
readLogical(addr, len) ==
    LET x == logiToPhys(addr, len)
        id == disk.supers[getBlockReader(x.stripes[1].devID)]
    IN  [k \in 0 .. len - 1 |-> ByteAt(id, PhysAddr(x, addr) + k)]

----------------------------------------------------------------------------
(***************************************************************************)
(* Loading it                                                              *)
(***************************************************************************)

loadSBChunks ==
    /\ load = "sbChunks"
    /\ sbChunks' = disk.system
    /\ load' = "chunkTree"
    /\ operation' \in {"CTOP_DUMP_TREE", "CTOP_LOAD"}
    /\ walk' = <<[addr |-> disk.ctRoot, i |-> 0]>>
    /\ UNCHANGED <<disk, chunkTree>>

top == walk[Len(walk)]
node == disk.nodes[top.addr]

Walking == load = "chunkTree" /\ walk # <<>>

(* What loadNode needs: the bytes of the node. *)
NodeRead(addr) ==
    /\ ReadSucceeds(addr, NodeSize)
    /\ readLogical(addr, NodeSize) = [k \in 0 .. NodeSize - 1 |-> <<"disk", addr + k>>]

NextItem(w) == [w EXCEPT ![Len(w)].i = @ + 1]

LoadNode ==
    /\ Walking /\ top.i = 0
    /\ IF NodeRead(top.addr)
       THEN walk' = NextItem(walk) /\ UNCHANGED load
       ELSE load' = "aborted" /\ UNCHANGED walk
    /\ UNCHANGED <<disk, operation, sbChunks, chunkTree>>

(* DEV_ITEMs are loaded too.  The dump only prints: it compares with       *)
(* RTOP_DUMP_TREE, which is another number, and prints that it does not    *)
(* know the operation.                                                     *)
LoadItem ==
    /\ Walking /\ top.i \in DOMAIN node.items /\ node.level = 0
    /\ chunkTree' = IF operation = "CTOP_LOAD"
                    THEN Append(chunkTree, node.items[top.i]) ELSE chunkTree
    /\ walk' = NextItem(walk)
    /\ UNCHANGED <<disk, load, operation, sbChunks>>

RecurseChunkTree ==
    /\ Walking /\ top.i \in DOMAIN node.items /\ node.level > 0
    /\ walk' = Append(walk, [addr |-> node.items[top.i], i |-> 0])
    /\ UNCHANGED <<disk, load, operation, sbChunks, chunkTree>>

LeaveNode ==
    /\ Walking /\ top.i > Len(node.items)
    /\ walk' = IF Len(walk) = 1 THEN <<>>
               ELSE NextItem(SubSeq(walk, 1, Len(walk) - 1))
    /\ UNCHANGED <<disk, load, operation, sbChunks, chunkTree>>

(* The next call of parseChunkTree, or the rest of init. *)
EndChunkTree ==
    /\ load = "chunkTree" /\ walk = <<>>
    /\ IF operation = "CTOP_DUMP_TREE"
       THEN /\ operation' = "CTOP_LOAD"
            /\ walk' = <<[addr |-> disk.ctRoot, i |-> 0]>>
            /\ UNCHANGED load
       ELSE load' = "loaded" /\ UNCHANGED <<operation, walk>>
    /\ UNCHANGED <<disk, sbChunks, chunkTree>>

MapNext ==
    \/ loadSBChunks
    \/ LoadNode
    \/ LoadItem
    \/ RecurseChunkTree
    \/ LeaveNode
    \/ EndChunkTree

MapSpec == MapInit /\ [][MapNext]_mapVars

----------------------------------------------------------------------------
(***************************************************************************)
(* Properties                                                              *)
(***************************************************************************)
MapTypeOK ==
    /\ disk \in Disks
    /\ load \in {"sbChunks", "chunkTree", "loaded", "aborted"}
    /\ operation \in {"CTOP_DUMP_TREE", "CTOP_LOAD"}
    /\ walk \in Seq([addr : DOMAIN disk.nodes, i : Nat])
    /\ sbChunks \in Seq(ChunksOf(disk))
    /\ chunkTree \in Seq(ItemsOf(disk))

(* The ranges that are tried: those that start in a chunk. *)
Ranges ==
    UNION {{<<a, n>> : a \in x.offset .. x.offset + x.size - 1,
                       n \in {1, 2, x.size}} : x \in ChunksOf(disk)}

(* Whenever readLogical succeeds, while the map is being loaded as well as *)
(* afterwards, the bytes are those stored for the logical addresses: from  *)
(* the device with the stripe's ID, wherever it came on the command line,  *)
(* and never past the end of a chunk (btrfs_system.cpp:65, :88, :389-400). *)
TranslationRight ==
    \A r \in Ranges :
        ReadSucceeds(r[1], r[2]) =>
            readLogical(r[1], r[2]) = [k \in 0 .. r[2] - 1 |-> <<"disk", r[1] + k>>]

(* The chunk tree can be read with no more than the chunks of the          *)
(* superblock, in the dump before it has been loaded and while it is being *)
(* loaded (chunktree_parser.cpp:34): loadNode's asserts hold.              *)
TreeReadable == load # "aborted"

(* Once the chunk tree is loaded, what is refused is in a striped chunk or *)
(* has a copy that cannot be read (btrfs_system.cpp:422-457).              *)
RefusedForCause ==
    load = "loaded" =>
        \A x \in ChunksOf(disk) : \A a \in x.offset .. x.offset + x.size - 1 :
            \/ ReadSucceeds(a, 1)
            \/ ~Direct(x)
            \/ \E b \in disk.bad : ByteAt(b[1], b[2]) = <<"disk", a>>

=============================================================================
