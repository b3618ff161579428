---------------------------- MODULE MCPathLookup ----------------------------
(***************************************************************************)
(* Paths on the volumes of MCFSTree.  The subvolume in their root has      *)
(* tree ID 3, which is also the ID of an object, and uses the names and    *)
(* object IDs of the tree outside for other things; it has a subvolume of  *)
(* its own.                                                                *)
(***************************************************************************)
EXTENDS PathLookup, MCFSTree

Link(n, id) == [name |-> n, child |-> id, isSubvolume |-> FALSE]

(* n3 is a directory that has no object of this number outside.  The tree  *)
(* has three levels.                                                       *)
inner ==
    [tree |-> 3, ids |-> {1, 2}, dirs |-> {1, 2},
     root |-> 1,
     nodes |-> <<[level |-> 2, items |-> <<2, 3>>],
                 [level |-> 1, items |-> <<4, 5>>],
                 [level |-> 1, items |-> <<6>>],
                 Leaf(<<Item(1, "INODE_ITEM", 0, <<>>)>>),
                 Leaf(<<Item(1, "DIR_ITEM", 1, <<Link("n3", 2)>>),
                        Item(2, "INODE_ITEM", 0, <<>>)>>),
                 Leaf(<<Item(2, "DIR_ITEM", 2,
                          <<[Link("subvol", 4) EXCEPT !.isSubvolume = TRUE]>>)>>)>>]

innermost ==
    [tree |-> 4, ids |-> {1, 3}, dirs |-> {1},
     root |-> 1,
     nodes |-> <<Leaf(<<Item(1, "INODE_ITEM", 0, <<>>),
                     Item(1, "DIR_ITEM", 1, <<Link("n2", 3)>>),
                     Item(3, "INODE_ITEM", 0, <<>>)>>)>>]

MCSubvolumes == (3 :> inner) @@ (4 :> innermost)

MCPaths ==
    {<<Sep>>, <<Sep, "n2">>, <<Sep, "n3", Sep, "n2">>, <<Sep, "n2", Sep, "n3">>,
     <<Sep, "link">>, <<Sep, "n2", Sep, "link">>, <<Sep, "subvol">>,
     <<Sep, "subvol", Sep, "n3">>, <<Sep, "subvol", Sep, "n2">>,
     <<Sep, "subvol", Sep, "n3", Sep, "subvol", Sep, "n2">>,
     <<Sep, "absent", Sep, "n2">>,
     <<Sep, "n2", Sep>>, <<Sep, Sep, "n2">>}

=============================================================================
