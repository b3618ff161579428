----------------------------- MODULE PathLookup -----------------------------
(***************************************************************************)
(* getPathID (btrfs_operations.cpp): from a path to the ID of the object   *)
(* it names, with one walk over a filesystem tree for each component.  The *)
(* walks are those of FSTree, of the tree of whatever subvolume the path   *)
(* has led into.                                                           *)
(*                                                                         *)
(* A path is a sequence of names and backslashes, a name being one element *)
(* however long it is.                                                     *)
(***************************************************************************)
EXTENDS FSTree

CONSTANTS
    Paths,       \* the paths Dokan asks for
    Subvolumes   \* the trees of the other subvolumes, by tree ID

Sep == "\\"

(* The subvolumes are well-formed too, and entries lead to the ones that   *)
(* there are.                                                              *)
ASSUME SubvolumesDescribed ==
    /\ \A t \in DOMAIN Subvolumes : Described(Subvolumes[t]) /\ Subvolumes[t].tree = t
    /\ \A v \in Volumes \cup {Subvolumes[t] : t \in DOMAIN Subvolumes} :
          \A l \in LinksOf(v) : l[2].isSubvolume => l[2].child \in DOMAIN Subvolumes

(* Dokan's paths start with a backslash, and there is one between any two  *)
(* names; a name is not empty and has none in it.                          *)
ASSUME PathsDescribed ==
    \A p \in Paths :
        /\ p \in Seq(Names \cup {Sep})
        /\ p # <<>> /\ p[1] = Sep
        /\ \A k \in 2 .. Len(p) : p[k] = Sep \/ p[k - 1] = Sep

ASSUME NamesDescribed == Sep \notin Names /\ NoName \notin Names

VARIABLES
    mountedSubvol,  \* the tree of the mounted subvolume
    lookup          \* the locals of getPathID, see NewLookup

lookupVars == <<vars, mountedSubvol, lookup>>

----------------------------------------------------------------------------
(***************************************************************************)
(* Taking paths apart                                                      *)
(***************************************************************************)

Doubled(p, k) == k > 1 /\ p[k] = Sep /\ p[k - 1] = Sep

(* The loop of validatePath, which also leaves "" for the root. *)
CopiedFrom(p) ==
    LET copied[k \in 0 .. Len(p)] ==
            IF k = 0 THEN IF p[1] = Sep THEN <<>> ELSE <<Sep>>
            ELSE IF Doubled(p, k) THEN copied[k - 1] ELSE Append(copied[k - 1], p[k])
    IN  copied

validatePath(p) ==
    LET copied == CopiedFrom(p)[Len(p)]
    IN  IF p = <<>> THEN <<Sep>>
        ELSE IF Last(copied) = Sep THEN Front(copied) ELSE copied

(* The paths componentizePath is made for. *)
Validated(p) == p = <<Sep>> \/ validatePath(p) = p

(* The part of a path from one backslash to the next or to the end, which  *)
(* is empty when there is nothing between them.                            *)
PartAfter(p, k) == IF k < Len(p) /\ p[k + 1] # Sep THEN p[k + 1] ELSE NoName

(* As many components as there are backslashes, but none in the root. *)
PartsOf(p) ==
    LET parts[k \in 0 .. Len(p)] ==
            IF k = 0 THEN <<>>
            ELSE IF p[k] = Sep THEN Append(parts[k - 1], PartAfter(p, k))
            ELSE parts[k - 1]
    IN  parts

componentizePath(p) == IF p = <<Sep>> THEN <<>> ELSE PartsOf(p)[Len(p)]

----------------------------------------------------------------------------
(***************************************************************************)
(* getPathID                                                               *)
(***************************************************************************)
FileID(tree, id) == [treeID |-> tree, objectID |-> id]

TreeOf(id) == IF id = mountedSubvol.tree THEN mountedSubvol ELSE Subvolumes[id]

(* state is "components" between two walks, "walk" during one, and "found" *)
(* or "failed" at the end.  The path is used, not what validatePath made   *)
(* of it.                                                                  *)
NoLookup == [state |-> "none"]

NewLookup(p) ==
    LET root == FileID(mountedSubvol.tree, OBJID_ROOT_DIR)
    IN  [path |-> p, components |-> componentizePath(p), i |-> 1,
         fileID |-> root, childID |-> root, state |-> "components"]

InLookup == lookup.state \in {"components", "walk"}

LookupInit ==
    /\ Init
    /\ mountedSubvol = volume
    /\ lookup = NoLookup

(* What an operation before it has found belongs to its own caller. *)
GetPathID(p) ==
    /\ ~InLookup /\ pc # "walk"
    /\ lookup' = NewLookup(p)
    /\ volume' = mountedSubvol
    /\ pc' = "idle" /\ call' = NoCall /\ stack' = <<>>
    /\ returnCode' = 0 /\ shortCircuit' = FALSE
    /\ childID' = NoChild /\ inode' = NoInode
    /\ name' = NoName /\ extents' = <<>> /\ entries' = <<>>
    /\ UNCHANGED mountedSubvol

(* Seeded fault: the parent is not ratcheted up. *)
LookUpWithoutRatchet ==
    /\ lookup.state = "components" /\ lookup.i <= Len(lookup.components)
    /\ NameToID(TreeOf(lookup.childID.treeID), lookup.childID.objectID,
                lookup.components[lookup.i])
    /\ lookup' = [lookup EXCEPT !.state = "walk"]
    /\ UNCHANGED mountedSubvol

(* The call of parseFSTree for the next component. *)
LookUpComponent ==
    /\ lookup.state = "components" /\ lookup.i <= Len(lookup.components)
    /\ NameToID(TreeOf(lookup.childID.treeID), lookup.childID.objectID,
                lookup.components[lookup.i])
    /\ lookup' = [lookup EXCEPT !.state = "walk", !.fileID = lookup.childID]
    /\ UNCHANGED mountedSubvol

(* Seeded fault: the IDs are swapped. *)
ChildSwapped(c, tree) ==
    IF c.isSubvolume THEN FileID(OBJID_ROOT_DIR, c.objectID)
    ELSE FileID(tree, c.objectID)

ChildOf(c, tree) ==
    IF c.isSubvolume THEN FileID(c.objectID, OBJID_ROOT_DIR)
    ELSE FileID(tree, c.objectID)

(* Seeded fault: a component that is not found is looked up again. *)
TakeChildOrRetry ==
    /\ lookup.state = "walk" /\ pc = "done"
    /\ lookup' =
          IF returnCode # 0 THEN [lookup EXCEPT !.state = "components"]
          ELSE [lookup EXCEPT !.state = "components", !.i = @ + 1,
                              !.childID = ChildOf(childID, lookup.fileID.treeID)]
    /\ UNCHANGED <<vars, mountedSubvol>>

(* The return from parseFSTree. *)
TakeChild ==
    /\ lookup.state = "walk" /\ pc = "done"
    /\ lookup' =
          IF returnCode # 0 THEN [lookup EXCEPT !.state = "failed"]
          ELSE [lookup EXCEPT !.state = "components", !.i = @ + 1,
                              !.childID = ChildOf(childID, lookup.fileID.treeID)]
    /\ UNCHANGED <<vars, mountedSubvol>>

ReturnIDs ==
    /\ lookup.state = "components" /\ lookup.i > Len(lookup.components)
    /\ lookup' = [lookup EXCEPT !.state = "found"]
    /\ UNCHANGED <<vars, mountedSubvol>>

LookupStep ==
    \/ Walk /\ UNCHANGED <<mountedSubvol, lookup>>
    \/ LookUpComponent
    \/ TakeChild
    \/ ReturnIDs

LookupNext ==
    \/ ~InLookup /\ Call /\ lookup' = NoLookup /\ UNCHANGED mountedSubvol
    \/ \E p \in Paths : GetPathID(p)
    \/ LookupStep

LookupSpec ==
    LookupInit /\ [][LookupNext]_lookupVars /\ WF_lookupVars(LookupStep)

----------------------------------------------------------------------------
(***************************************************************************)
(* Properties                                                              *)
(***************************************************************************)
LookupTypeOK ==
    /\ TypeOK
    /\ lookup.state \in {"none", "components", "walk", "found", "failed"}
    /\ InLookup => lookup.i \in 1 .. Len(lookup.components) + 1
    /\ InLookup => lookup.childID.treeID \in {mountedSubvol.tree} \cup DOMAIN Subvolumes

(* Where one entry of a directory leads, and where a sequence of names     *)
(* does, by what the trees hold.                                           *)
Nowhere == FileID(-1, -1)

Follow(id, n) ==
    LET named == {l[2] : l \in {k \in LinksOf(TreeOf(id.treeID)) :
                                  k[1] = id.objectID /\ k[2].name = n}}
        entry == CHOOSE e \in named : TRUE
    IN  CASE id = Nowhere \/ named = {} -> Nowhere
          [] id # Nowhere /\ named # {} ->
                IF entry.isSubvolume THEN FileID(entry.child, OBJID_ROOT_DIR)
                ELSE FileID(id.treeID, entry.child)

Followed(names) ==
    LET ids[k \in 0 .. Len(names)] ==
            IF k = 0 THEN FileID(mountedSubvol.tree, OBJID_ROOT_DIR)
            ELSE Follow(ids[k - 1], names[k])
    IN  ids

Resolve(names) == Followed(names)[Len(names)]

NamesUpTo(p) ==
    LET names[k \in 0 .. Len(p)] ==
            IF k = 0 THEN <<>>
            ELSE IF p[k] = Sep THEN names[k - 1] ELSE Append(names[k - 1], p[k])
    IN  names

NamesIn(p) == NamesUpTo(p)[Len(p)]

(* A path as validatePath leaves it, or that of the root, leads to the     *)
(* object it names, with the directory of its last name as the parent, and *)
(* through any number of subvolumes, whose object IDs repeat those of the  *)
(* tree outside; if a name is missing the lookup fails                     *)
(* (btrfs_operations.cpp:119-143).  Whatever the path looks like, also     *)
(* with doubled or trailing backslashes, an ID that is returned is that of *)
(* the object the names in the path lead to (:53-106).                     *)
LookupRight ==
    lookup.state \in {"found", "failed"} =>
        LET names == NamesIn(lookup.path)
            target == Resolve(names)
            parent == IF names = <<>> THEN target ELSE Resolve(Front(names))
        IN  /\ Validated(lookup.path) =>
                  (lookup.state = "found" <=> target # Nowhere)
            /\ lookup.state = "found" =>
                  /\ lookup.childID = target
                  /\ Validated(lookup.path) => lookup.fileID = parent

(* Walks and lookups end: a lookup takes as many walks as the path has     *)
(* components, and no walk waits or turns back (fstree_parser.cpp:386-419).*)
LookupEnds == WalkEnds /\ (InLookup ~> ~InLookup)

=============================================================================
