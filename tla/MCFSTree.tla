------------------------------ MODULE MCFSTree ------------------------------
(***************************************************************************)
(* All trees of the root directory (1) and two more objects, each a file   *)
(* or a directory anywhere below the root: directories are older or newer  *)
(* than what they hold, as renames and links leave them.  One of the files *)
(* may have a second link, and the root a subvolume that has the number of *)
(* an object.  The items are in one leaf or spread over two at any place.  *)
(***************************************************************************)
EXTENDS FSTree, TLC

OBJID == 1 .. 3
MCNames == {"n2", "n3", "link", "subvol", "absent"}

(* n2, n3 and absent collide. *)
MCHash(n) == IF n \in {"n2", "n3", "absent"} THEN 1 ELSE 2

NameOf == <<"", "n2", "n3">>

Shapes ==
    {s \in [kind : [{2, 3} -> {"file", "dir"}], parent : [{2, 3} -> OBJID],
            linked : {0, 2, 3}, linkDir : OBJID, subvol : BOOLEAN] :
        LET IsDir(d) == d = 1 \/ s.kind[d] = "dir"
        IN  /\ \A o \in {2, 3} : s.parent[o] # o /\ IsDir(s.parent[o])
            /\ \E o \in {2, 3} : s.parent[o] = 1
            /\ IF s.linked = 0 THEN s.linkDir = 1
               ELSE s.kind[s.linked] = "file" /\ IsDir(s.linkDir)}

Dirs(s) == {1} \cup {o \in {2, 3} : s.kind[o] = "dir"}

EntriesOf(s, d) ==
    {[name |-> NameOf[o], child |-> o, isSubvolume |-> FALSE] :
        o \in {p \in {2, 3} : s.parent[p] = d}}
    \cup (IF s.linked # 0 /\ s.linkDir = d
          THEN {[name |-> "link", child |-> s.linked, isSubvolume |-> FALSE]}
          ELSE {})
    \cup (IF s.subvol /\ d = 1
          THEN {[name |-> "subvol", child |-> 3, isSubvolume |-> TRUE]} ELSE {})

Item(id, type, off, ents) ==
    [objectID |-> id, type |-> type, offset |-> off, entries |-> ents]

ItemsOf(s, o) ==
    LET Under(h) == SetToSeq({e \in EntriesOf(s, o) : MCHash(e.name) = h})
        DirItem(h) == IF Under(h) = <<>> THEN <<>>
                      ELSE <<Item(o, "DIR_ITEM", h, Under(h))>>
    IN  <<Item(o, "INODE_ITEM", 0, <<>>)>> \o
        IF o \in Dirs(s) THEN DirItem(1) \o DirItem(2)
        ELSE <<Item(o, "EXTENT_DATA", 0, <<>>), Item(o, "EXTENT_DATA", 4, <<>>)>>

Leaf(s) == [level |-> 0, items |-> s]

AllItems(s) == ItemsOf(s, 1) \o ItemsOf(s, 2) \o ItemsOf(s, 3)

Nodes(all, k) ==
    IF k = 0 THEN <<Leaf(all)>>
    ELSE <<[level |-> 1, items |-> <<2, 3>>],
           Leaf(SubSeq(all, 1, k)), Leaf(SubSeq(all, k + 1, Len(all)))>>

MCVolumes ==
    {[tree |-> 5, ids |-> OBJID, dirs |-> Dirs(v[1]),
      root |-> 1,
      nodes |-> Nodes(AllItems(v[1]), v[2])] :
        v \in {w \in Shapes \X (0 .. 7) : w[2] < Len(AllItems(w[1]))}}

=============================================================================
