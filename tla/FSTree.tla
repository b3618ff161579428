------------------------------- MODULE FSTree -------------------------------
(***************************************************************************)
(* parseFSTree (fstree_parser.cpp): the depth-first walk over a filesystem *)
(* tree that every lookup of the driver is one of the operations of.  The  *)
(* walk visits every item in key order until an operation short-circuits   *)
(* it; what an operation finds depends on that order.                      *)
(*                                                                         *)
(* One action is one turn of a loop of parseFSTreeRec: an item of a leaf,  *)
(* a key pointer of an inner node, or the return from a node.  Items other *)
(* than inodes, directory items and extents interest no operation and are  *)
(* left out, FSOP_DUMP_TREE, which only prints, too.                       *)
(***************************************************************************)
EXTENDS Integers, FiniteSets, SequencesExt

CONSTANTS
    Volumes,      \* the trees that may be mounted, see below
    Names,        \* file names
    Hash(_),      \* the name hash that is the offset of a DIR_ITEM's key
    OBJID_ROOT_DIR,
    NoInode       \* an inode that has not been filled in

(***************************************************************************)
(* A tree is a record                                                      *)
(*   tree      its object ID                                               *)
(*   ids       the object IDs of its inodes, dirs those of directories     *)
(*   root      the address of its root node                                *)
(*   nodes     its nodes by address: [level, items], items being the       *)
(*             addresses in the key pointers unless level is 0             *)
(* an item [objectID, type, offset, entries], the first three being the    *)
(* key, and an entry of a DIR_ITEM [name, child, isSubvolume].  An inode is *)
(* known by its tree and its object ID.                                    *)
(***************************************************************************)
Inode(tree, id) == <<tree, id>>

Children(v, a) == IF v.nodes[a].level = 0 THEN {} ELSE ToSet(v.nodes[a].items)

(* A node and those below it: whatever is in every set of nodes that has   *)
(* the node and, with any node, its children.                              *)
NodesFrom(v, a) ==
    {b \in DOMAIN v.nodes :
        \A S \in SUBSET DOMAIN v.nodes :
            a \in S /\ (\A c \in S : Children(v, c) \subseteq S) => b \in S}

LeafItems(v, a) ==
    UNION {ToSet(v.nodes[b].items) :
              b \in {c \in NodesFrom(v, a) : v.nodes[c].level = 0}}

(* Keys are compared by object ID, then by type, then by offset. *)
TypeRank == [INODE_ITEM |-> 1, DIR_ITEM |-> 84, EXTENT_DATA |-> 108]

KeyBefore(x, y) ==
    \/ x.objectID < y.objectID
    \/ /\ x.objectID = y.objectID
       /\ \/ TypeRank[x.type] < TypeRank[y.type]
          \/ x.type = y.type /\ x.offset < y.offset

ItemRecords ==
    [objectID : Nat, type : DOMAIN TypeRank, offset : Nat,
     entries : Seq([name : Names, child : Nat, isSubvolume : BOOLEAN])]

(* The nodes make a tree with all leaves at level 0, and what comes first  *)
(* in a node has the smaller keys.                                         *)
NodesDescribed(v) ==
    /\ v.root \in DOMAIN v.nodes
    /\ \A a \in DOMAIN v.nodes :
          LET n == v.nodes[a]
          IN  /\ n.level \in Nat
              /\ n.items \in Seq(IF n.level = 0 THEN ItemRecords
                                ELSE {b \in DOMAIN v.nodes :
                                         v.nodes[b].level = n.level - 1})
              /\ \A j, k \in DOMAIN n.items : j < k =>
                    IF n.level = 0 THEN KeyBefore(n.items[j], n.items[k])
                    ELSE \A x \in LeafItems(v, n.items[j]), y \in LeafItems(v, n.items[k]) :
                             KeyBefore(x, y)

(* Every object has its inode; an entry is stored under the hash of its    *)
(* name, which is the only one of the directory; a subvolume has a tree of *)
(* its own.                                                                *)
ItemsDescribed(v) ==
    LET items == LeafItems(v, v.root)
    IN  /\ v.tree \in Nat
        /\ v.ids = {x.objectID : x \in {y \in items : y.type = "INODE_ITEM"}}
        /\ v.dirs \subseteq v.ids
        /\ \A id \in v.ids : Inode(v.tree, id) # NoInode
        /\ \A x \in items :
              /\ x.type = "INODE_ITEM" => x.offset = 0
              /\ x.type = "DIR_ITEM" =>
                    \A e \in ToSet(x.entries) :
                        /\ x.offset = Hash(e.name)
                        /\ e.isSubvolume => /\ e.child # v.tree
                                            /\ Inode(e.child, OBJID_ROOT_DIR) # NoInode
        /\ \A x, y \in {z \in items : z.type = "DIR_ITEM"} :
              x.objectID = y.objectID =>
                  \A j \in DOMAIN x.entries, k \in DOMAIN y.entries :
                      x.entries[j].name = y.entries[k].name => x = y /\ j = k

Described(v) == NodesDescribed(v) /\ ItemsDescribed(v)

(* Volumes are well-formed: the order of the items is that of their keys,  *)
(* but which objects there are, how they are linked and how the items are  *)
(* spread over nodes is open.                                              *)
ASSUME VolumesDescribed == \A v \in Volumes : Described(v)
ASSUME RootDirNatural == OBJID_ROOT_DIR \in Nat

VARIABLES
    volume,       \* the tree that is walked
    pc,           \* "idle", "walk" or "done"
    call,         \* the operation and its inputs
    stack,        \* the activations of parseFSTreeRec: [addr, i]
    returnCode, shortCircuit,
    childID,      \* output of FSOP_NAME_TO_ID: [objectID, isSubvolume]
    inode,        \* output of FSOP_GET_INODE and part of FSOP_GET_FILE_PKG
    name, extents, \* the rest of the FilePkg of FSOP_GET_FILE_PKG
    entries       \* the DirList of FSOP_DIR_LIST

output == <<childID, inode, name, extents, entries>>
vars == <<volume, pc, call, stack, returnCode, shortCircuit, output>>

----------------------------------------------------------------------------

NoChild == [objectID |-> 0, isSubvolume |-> FALSE]
NoCall == [op |-> "none"]
NoName == ""

(* An activation at the first item or key pointer of its node; the node    *)
(* the last activation has loaded, and its loop variable.                  *)
Activation(a) == [addr |-> a, i |-> 1]
header == volume.nodes[Last(stack).addr]
i == Last(stack).i

AtNode == pc = "walk" /\ stack # <<>> /\ ~shortCircuit
AtLeaf == AtNode /\ header.level = 0 /\ i <= Len(header.items)
AtKeyPtr == AtNode /\ header.level > 0 /\ i <= Len(header.items)
item == header.items[i]

NextIndex(s) == [s EXCEPT ![Len(s)].i = @ + 1]

(* returnCode &= ~bit *)
Clear(code, bit) == code - bit * ((code \div bit) % 2)

Init ==
    /\ volume \in Volumes
    /\ pc = "idle" /\ call = NoCall
    /\ stack = <<>>
    /\ returnCode = 0 /\ shortCircuit = FALSE
    /\ childID = NoChild /\ inode = NoInode
    /\ name = NoName /\ extents = <<>> /\ entries = <<>>

----------------------------------------------------------------------------
(***************************************************************************)
(* parseFSTree: the tasks before the walk                                  *)
(***************************************************************************)

Enter(v, c, code) ==
    /\ pc # "walk"
    /\ volume' = v
    /\ pc' = "walk" /\ call' = c
    /\ stack' = <<Activation(v.root)>>
    /\ returnCode' = code /\ shortCircuit' = FALSE
    /\ childID' = NoChild /\ inode' = NoInode /\ extents' = <<>>

NameToID(v, parent, n) ==
    /\ Enter(v, [op |-> "NAME_TO_ID", parentID |-> parent, name |-> n], 1)
    /\ name' = NoName /\ entries' = <<>>

GetInode(id) ==
    /\ Enter(volume, [op |-> "GET_INODE", objectID |-> id], 1)
    /\ name' = NoName /\ entries' = <<>>

GetFilePkg(id) ==
    /\ Enter(volume, [op |-> "GET_FILE_PKG", objectID |-> id],
             IF id = OBJID_ROOT_DIR THEN 1 ELSE 3)
    /\ name' = IF id = OBJID_ROOT_DIR THEN "ROOT_DIR" ELSE NoName
    /\ entries' = <<>>

Entry(tree, id, n, ino) ==
    [treeID |-> tree, objectID |-> id, name |-> n, inode |-> ino]

(* '.' and '..' come from the FilePkg of the directory. *)
Dots(id, parent) ==
    <<Entry(volume.tree, id, ".", Inode(volume.tree, id)),
      Entry(volume.tree, parent, "..", Inode(volume.tree, parent))>>

DirListOf(id, parent, root) ==
    /\ Enter(volume, [op |-> "DIR_LIST", objectID |-> id,
              skip |-> IF root THEN 0 ELSE 2], 0)
    /\ name' = NoName
    /\ entries' = IF root THEN <<>> ELSE Dots(id, parent)

----------------------------------------------------------------------------
(***************************************************************************)
(* parseFSTreeRec: the items of a leaf                                     *)
(***************************************************************************)

(* Seeded fault: the first entry under the hash is taken. *)
FirstUnderHash(n) == {1}

(* Entries under one hash are told apart by their names. *)
SameName(n) == {j \in DOMAIN item.entries : item.entries[j].name = n}

NameToIDItem ==
    /\ AtLeaf /\ call.op = "NAME_TO_ID"
    /\ LET match == item.type = "DIR_ITEM" /\ item.objectID = call.parentID
                    /\ item.offset = Hash(call.name)
           found == IF match THEN SameName(call.name) ELSE {}
       IN  IF found # {}
           THEN LET e == item.entries[Min(found)]
                IN  /\ childID' = [objectID |-> e.child,
                                   isSubvolume |-> e.isSubvolume]
                    /\ returnCode' = 0
                    /\ shortCircuit' = TRUE
                    /\ UNCHANGED stack
           ELSE /\ stack' = NextIndex(stack)
                /\ UNCHANGED <<returnCode, shortCircuit, childID>>
    /\ UNCHANGED <<volume, pc, call, inode, name, extents, entries>>

(* Seeded faults: the walk is left at the object ID instead of past it, or *)
(* at its second extent.                                                   *)
Reached(id) == item.objectID >= id
PassedFirstExtent(id) ==
    \/ item.objectID > id
    \/ item.objectID = id /\ item.type = "EXTENT_DATA" /\ item.offset > 0

Passed(id) == item.objectID > id

JumpOut ==
    /\ AtLeaf /\ call.op \in {"GET_FILE_PKG", "GET_INODE"}
    /\ Passed(call.objectID)
    /\ shortCircuit' = TRUE
    /\ UNCHANGED <<volume, pc, call, stack, returnCode, output>>

(* A file is named by any entry with its object ID, the last one visited. *)
NamesOf(id) == {j \in DOMAIN item.entries : item.entries[j].child = id}

(* Bit 2 of returnCode, which the inode of a directory clears, is never    *)
(* set: parseFSTree asks for the inode (bit 0) and the name (bit 1) only.  *)
GetFilePkgItem ==
    /\ AtLeaf /\ call.op = "GET_FILE_PKG"
    /\ ~Passed(call.objectID)
    /\ LET own == item.objectID = call.objectID
           named == IF item.type = "DIR_ITEM" THEN NamesOf(call.objectID) ELSE {}
       IN  /\ inode' = IF item.type = "INODE_ITEM" /\ own
                       THEN Inode(volume.tree, item.objectID) ELSE inode
           /\ name' = IF named # {} THEN item.entries[Max(named)].name ELSE name
           /\ extents' = IF item.type = "EXTENT_DATA" /\ own
                         THEN Append(extents, item.offset) ELSE extents
           /\ returnCode' = IF item.type = "INODE_ITEM" /\ own
                            THEN Clear(Clear(returnCode, 1), 4)
                            ELSE IF named # {} THEN Clear(returnCode, 2)
                            ELSE returnCode
    /\ stack' = NextIndex(stack)
    /\ UNCHANGED <<volume, pc, call, shortCircuit, childID, entries>>

(* The entries allocated so far that refer to an inode of this tree. *)
Awaiting(id) ==
    {j \in DOMAIN entries : j > call.skip
        /\ entries[j].treeID = volume.tree /\ entries[j].objectID = id}

(* Seeded fault: a subvolume is listed as an object of this tree. *)
EntryHere(e) == Entry(volume.tree, e.child, e.name, NoInode)

(* A subvolume is listed as the root directory of its own tree. *)
NewEntry(e) ==
    IF e.isSubvolume THEN Entry(e.child, OBJID_ROOT_DIR, e.name, NoInode)
    ELSE Entry(volume.tree, e.child, e.name, NoInode)

DirListItem ==
    /\ AtLeaf /\ call.op = "DIR_LIST"
    /\ LET awaiting == IF item.type = "INODE_ITEM"
                       THEN Awaiting(item.objectID) ELSE {}
           new == IF item.type = "DIR_ITEM" /\ item.objectID = call.objectID
                  THEN [j \in DOMAIN item.entries |-> NewEntry(item.entries[j])]
                  ELSE <<>>
       IN  /\ entries' = [j \in DOMAIN entries |->
                 IF j \in awaiting
                 THEN [entries[j] EXCEPT !.inode = Inode(volume.tree, item.objectID)]
                 ELSE entries[j]] \o new
           /\ returnCode' = returnCode + Len(new) - Cardinality(awaiting)
    /\ stack' = NextIndex(stack)
    /\ UNCHANGED <<volume, pc, call, shortCircuit, childID, inode, name, extents>>

GetInodeItem ==
    /\ AtLeaf /\ call.op = "GET_INODE"
    /\ ~Passed(call.objectID)
    /\ IF item.type = "INODE_ITEM" /\ item.objectID = call.objectID
       THEN /\ inode' = Inode(volume.tree, item.objectID)
            /\ returnCode' = 0
            /\ shortCircuit' = TRUE
            /\ UNCHANGED stack
       ELSE /\ stack' = NextIndex(stack)
            /\ UNCHANGED <<inode, returnCode, shortCircuit>>
    /\ UNCHANGED <<volume, pc, call, childID, name, extents, entries>>

----------------------------------------------------------------------------
(***************************************************************************)
(* parseFSTreeRec: inner nodes and returning                               *)
(***************************************************************************)

Recurse ==
    /\ AtKeyPtr
    /\ stack' = Append(stack, Activation(header.items[i]))
    /\ UNCHANGED <<volume, pc, call, returnCode, shortCircuit, output>>

(* A node is freed on every way out of it; its parent moves on unless the  *)
(* walk has been short-circuited.                                          *)
ReturnFromNode ==
    /\ pc = "walk" /\ stack # <<>>
    /\ ~AtLeaf /\ ~AtKeyPtr
    /\ stack' = IF Len(stack) = 1 THEN <<>> ELSE
                IF shortCircuit THEN Front(stack) ELSE NextIndex(Front(stack))
    /\ UNCHANGED <<volume, pc, call, returnCode, shortCircuit, output>>

(***************************************************************************)
(* parseFSTree: the tasks after the walk.  The inodes of subvolumes come   *)
(* from a walk of their own trees, whose result nobody looks at.           *)
(* The `hidden' flags, which follow from names already found, are left out.*)
(***************************************************************************)
Elsewhere == {j \in DOMAIN entries : j > call.skip
                                     /\ entries[j].treeID # volume.tree}

Finish ==
    /\ pc = "walk" /\ stack = <<>>
    /\ pc' = "done"
    /\ IF call.op = "DIR_LIST"
       THEN LET code == returnCode - Cardinality(Elsewhere)
            IN  /\ returnCode' = code
                /\ entries' = IF code # 0 THEN <<>>    \* freed
                      ELSE [j \in DOMAIN entries |->
                              IF j \in Elsewhere
                              THEN [entries[j] EXCEPT !.inode =
                                      Inode(entries[j].treeID, OBJID_ROOT_DIR)]
                              ELSE entries[j]]
       ELSE UNCHANGED <<returnCode, entries>>
    /\ UNCHANGED <<volume, call, stack, shortCircuit, childID, inode, name, extents>>

----------------------------------------------------------------------------
(***************************************************************************)
(* What the tree holds, whatever order it is stored in                     *)
(***************************************************************************)
Items == LeafItems(volume, volume.root)
HasInode(id) == \E x \in Items : x.type = "INODE_ITEM" /\ x.objectID = id
ExtentsOf(id) ==
    {x.offset : x \in {y \in Items : y.type = "EXTENT_DATA" /\ y.objectID = id}}

(* The directory entries: <<directory, entry>>. *)
LinksOf(tree) ==
    UNION {{<<x.objectID, e>> : e \in ToSet(x.entries)} :
              x \in {y \in LeafItems(tree, tree.root) : y.type = "DIR_ITEM"}}

Links == LinksOf(volume)

LinksTo(id) == {l \in Links : l[2].child = id /\ ~l[2].isSubvolume}

(* Where '..' may lead from a directory; the root directory is its own. *)
Parents(id) ==
    IF id = OBJID_ROOT_DIR THEN {id} ELSE {l[1] : l \in LinksTo(id)}

(* The paths that lead to inodes of this tree were looked up before, so    *)
(* the object IDs asked for exist; the names may not.                      *)
Call ==
    \/ \E id \in volume.ids, n \in Names : NameToID(volume, id, n)
    \/ \E id \in volume.ids : GetInode(id) \/ GetFilePkg(id)
    \/ \E id \in volume.dirs, root \in BOOLEAN :
          /\ root => id = OBJID_ROOT_DIR
          /\ \E parent \in Parents(id) : DirListOf(id, parent, root)

Walk ==
    \/ NameToIDItem
    \/ JumpOut
    \/ GetFilePkgItem
    \/ DirListItem
    \/ GetInodeItem
    \/ Recurse
    \/ ReturnFromNode
    \/ Finish

Next == Call \/ Walk

Spec == Init /\ [][Next]_vars /\ WF_vars(Walk)

----------------------------------------------------------------------------
(***************************************************************************)
(* Properties                                                              *)
(***************************************************************************)
Done(op) == pc = "done" /\ call.op = op
Found(op) == Done(op) /\ returnCode = 0

TypeOK ==
    /\ pc \in {"idle", "walk", "done"}
    /\ stack # <<>> => header.level = volume.nodes[volume.root].level + 1 - Len(stack)
    /\ returnCode \in Nat
    /\ shortCircuit \in BOOLEAN
    /\ inode \in {Inode(volume.tree, id) : id \in volume.ids} \cup {NoInode}
    /\ name \in Names \cup {NoName, "ROOT_DIR"}

(* FSOP_NAME_TO_ID finds a name exactly when the directory has it, and the *)
(* right child also when two names share a hash and so an item             *)
(* (fstree_parser.cpp:51-83).                                              *)
NameFound ==
    Done("NAME_TO_ID") =>
        LET children == {l[2] : l \in {k \in Links :
                            k[1] = call.parentID /\ k[2].name = call.name}}
        IN  IF children = {} THEN returnCode # 0
            ELSE /\ returnCode = 0
                 /\ \E e \in children :
                       childID = [objectID |-> e.child,
                                  isSubvolume |-> e.isSubvolume]

(* A FilePkg that is reported complete has the inode asked for and all the *)
(* file's extents in file order, which btrfsReadFile relies on             *)
(* (dokan_callbacks.cpp:385), wherever in the tree they are.               *)
FilePkgComplete ==
    Found("GET_FILE_PKG") =>
        /\ inode = Inode(volume.tree, call.objectID)
        /\ ToSet(extents) = ExtentsOf(call.objectID)
        /\ \A j, k \in DOMAIN extents : j < k => extents[j] < extents[k]

(* The name in a complete FilePkg is that of a link to the file, provided  *)
(* no subvolume has the number of the file: the walk compares the child's  *)
(* object ID, but not what kind of child it is (fstree_parser.cpp:253).    *)
FilePkgNamed ==
    /\ Found("GET_FILE_PKG") /\ call.objectID # OBJID_ROOT_DIR
    /\ \A l \in Links : l[2].isSubvolume => l[2].child # call.objectID
    => \E l \in LinksTo(call.objectID) : l[2].name = name

(* A FilePkg that is reported complete is about one file: its inode, all   *)
(* its extents and one of its names (fstree_parser.cpp:223-286).           *)
FilePkgRight == FilePkgComplete /\ FilePkgNamed

(* FSOP_GET_INODE finds every inode of the tree: leaving the walk past the *)
(* object ID (fstree_parser.cpp:365-370) loses none.                       *)
InodeFound ==
    Done("GET_INODE") =>
        returnCode = 0 /\ inode = Inode(volume.tree, call.objectID)

(* What a link should look like in a listing. *)
Listed(e) ==
    LET t == IF e.isSubvolume THEN e.child ELSE volume.tree
        id == IF e.isSubvolume THEN OBJID_ROOT_DIR ELSE e.child
    IN  Entry(t, id, e.name, Inode(t, id))

(* A listing that is reported complete has one entry for each entry of the *)
(* directory, in any of its items, and the right inode in each: the count  *)
(* in returnCode comes out as zero only when every one was filled in       *)
(* (fstree_parser.cpp:297-345, 507-536).                                   *)
ListingComplete ==
    Found("DIR_LIST") =>
        LET listed == SubSeq(entries, call.skip + 1, Len(entries))
            links == {l \in Links : l[1] = call.objectID}
        IN  /\ Len(listed) = Cardinality(links)
            /\ ToSet(listed) = {Listed(l[2]) : l \in links}

(* Every operation ends: nothing in the walk waits or turns back. *)
WalkEnds == (pc = "walk") ~> (pc = "done")

(* "it's safe to jump out once we pass the object ID in question"          *)
(* (fstree_parser.cpp:228): nothing FSOP_GET_FILE_PKG looks for is past    *)
(* it, so the package of a file that exists is always found.               *)
SafeToJumpOut == Done("GET_FILE_PKG") => returnCode = 0

(* "Directory listings" (README.txt:31): a directory of the volume can be  *)
(* listed.                                                                 *)
DirectoriesListed == Done("DIR_LIST") => returnCode = 0

=============================================================================
