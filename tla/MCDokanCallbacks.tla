-------------------------- MODULE MCDokanCallbacks --------------------------
(***************************************************************************)
(* A small volume for TLC.  The root (1) holds the file 2, the directory 3 *)
(* and the file 4, which FSOP_GET_FILE_PKG cannot load; 3 holds a second   *)
(* link to 2, and an entry of a directory (5) that has no inode.           *)
(***************************************************************************)
EXTENDS DokanCallbacks, TLC

MCFileIDs == 1 .. 5

MCPaths == {"root", "file", "link", "dir", "unloadable", "orphan", "missing"}

MCIDOf == [p \in MCPaths |->
    CASE p = "root" -> 1
      [] p \in {"file", "link"} -> 2
      [] p \in {"dir", "orphan"} -> 3
      [] p = "unloadable" -> 4
      [] p = "missing" -> NoFile]

MCParentOf == [p \in MCPaths |->
    CASE p = "link" -> 3
      [] p = "orphan" -> 5
      [] OTHER -> 1]

MCPackableIDs == {1, 2, 3}
MCInodeIDs == {1, 2, 3, 4}
MCDirs == {1, 3, 5}
MCListableIDs == {1}

Symmetry == Permutations(Handles) \cup Permutations(Blocks)

=============================================================================
