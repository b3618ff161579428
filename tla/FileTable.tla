----------------------------- MODULE FileTable -----------------------------
(***************************************************************************)
(* What the pair of linked lists of dokan_callbacks.cpp is meant to be: a  *)
(* multimap from file IDs to FilePkg records.  TODO.txt asks for that      *)
(* container, and the comment at dokan_callbacks.cpp:105-107 explains that *)
(* until then any record of a file may stand for any other one.            *)
(*                                                                         *)
(* Every open file object (handle) owns one record of its file, though not *)
(* a particular one.  Cleanup retires some record of the handle's file and *)
(* Close discards some retired record of that file.  The promise is that   *)
(* neither ever comes up empty.                                            *)
(***************************************************************************)
EXTENDS Naturals, FiniteSets

CONSTANTS
    Handles,    \* the file objects Windows may hold
    Records,    \* FilePkg records; each has a field fileID
    NoFile      \* what a handle without a file refers to

ASSUME HandlesFinite == IsFiniteSet(Handles)
ASSUME NoFileIsNoFile == \A p \in Records : p.fileID # NoFile

VARIABLES
    opened,     \* records of files that have not been cleaned up
    cleaned,    \* records between Cleanup and Close
    phase,      \* what has happened to each handle so far
    file        \* the file ID of each handle

vars == <<opened, cleaned, phase, file>>

Phases == {"closed", "open", "cleaned"}

IDs == {p.fileID : p \in Records}

TypeOK ==
    /\ opened \subseteq Records
    /\ cleaned \subseteq Records
    /\ phase \in [Handles -> Phases]
    /\ file \in [Handles -> IDs \cup {NoFile}]

Init ==
    /\ opened = {}
    /\ cleaned = {}
    /\ phase = [h \in Handles |-> "closed"]
    /\ file = [h \in Handles |-> NoFile]

----------------------------------------------------------------------------

(* Seeded fault: a record of another file is retired for the handle. *)
CleanupAny(h, p) ==
    /\ phase[h] = "open"
    /\ p \in opened
    /\ opened' = opened \ {p}
    /\ cleaned' = cleaned \cup {p}
    /\ phase' = [phase EXCEPT ![h] = "cleaned"]
    /\ UNCHANGED file

(***************************************************************************)
(* A handle is opened with a fresh record of its file.                     *)
(***************************************************************************)
Open(h, p) ==
    /\ phase[h] = "closed"
    /\ p \notin opened \cup cleaned
    /\ opened' = opened \cup {p}
    /\ phase' = [phase EXCEPT ![h] = "open"]
    /\ file' = [file EXCEPT ![h] = p.fileID]
    /\ UNCHANGED cleaned

(***************************************************************************)
(* Some opened record p of the handle's file is retired.                   *)
(***************************************************************************)
Cleanup(h, p) ==
    /\ phase[h] = "open"
    /\ p \in opened
    /\ p.fileID = file[h]
    /\ opened' = opened \ {p}
    /\ cleaned' = cleaned \cup {p}
    /\ phase' = [phase EXCEPT ![h] = "cleaned"]
    /\ UNCHANGED file

(***************************************************************************)
(* Some retired record p of the handle's file is discarded.                *)
(***************************************************************************)
Close(h, p) ==
    /\ phase[h] = "cleaned"
    /\ p \in cleaned
    /\ p.fileID = file[h]
    /\ cleaned' = cleaned \ {p}
    /\ phase' = [phase EXCEPT ![h] = "closed"]
    /\ file' = [file EXCEPT ![h] = NoFile]
    /\ UNCHANGED opened

Next ==
    \E h \in Handles, p \in Records :
        Open(h, p) \/ Cleanup(h, p) \/ Close(h, p)

Spec == Init /\ [][Next]_vars

----------------------------------------------------------------------------

RecordsOf(S, f) == {p \in S : p.fileID = f}

HandlesIn(ph, f) == {h \in Handles : phase[h] = ph /\ file[h] = f}

(***************************************************************************)
(* The table is balanced: a file has as many opened records as it has open *)
(* handles and as many retired records as cleaned-up handles.  This is why *)
(* no search of btrfsCleanup, btrfsCloseFile, btrfsReadFile or             *)
(* btrfsGetFileInformation comes up empty however opens of one file are    *)
(* interleaved with cleanups and closes of its other handles.              *)
(***************************************************************************)
Balanced ==
    \A f \in IDs :
        /\ Cardinality(RecordsOf(opened, f)) = Cardinality(HandlesIn("open", f))
        /\ Cardinality(RecordsOf(cleaned, f))
               = Cardinality(HandlesIn("cleaned", f))

=============================================================================
