---------------------------- MODULE MCFileTable ----------------------------
(***************************************************************************)
(* Three file objects, and two files of two records each.                  *)
(***************************************************************************)
EXTENDS FileTable

CONSTANTS f1, f2

MCRecords == [node : {1, 2}, fileID : {f1, f2}]

=============================================================================
