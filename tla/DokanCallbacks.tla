--------------------------- MODULE DokanCallbacks ---------------------------
(***************************************************************************)
(* The file table behind the Dokan callbacks (dokan_callbacks.cpp): the    *)
(* lists openFiles and cleanedUpFiles, the FilePkg records in them with    *)
(* their heap-allocated extents, the Big Dokan Lock, and the callbacks     *)
(* that search and change them.                                            *)
(*                                                                         *)
(* A callback is a sequence of steps, cut where it waits, calls into the   *)
(* tree parser, or keeps a list iterator from one access of a list to the  *)
(* next.  Dokan itself (which callback runs when, for which file object)   *)
(* is external: a handle is created, then read and queried at will, then   *)
(* cleaned up once, then perhaps read again, then closed once.             *)
(*                                                                         *)
(* The volume is mounted read-only, so what the tree parser answers for a  *)
(* path or an ID never changes: it is given by the constants.              *)
(***************************************************************************)
EXTENDS Naturals, FiniteSets, SequencesExt

CONSTANTS
    Handles,      \* the file objects Windows may hold on the volume
    Paths,        \* the paths they may be opened by
    FileIDs,      \* (treeID, objectID) pairs, as naturals in list order
    IDOf,         \* IDOf[path]: the ID getPathID finds, or NoFile
    ParentOf,     \* ParentOf[path]: the ID of the directory it was found in
    PackableIDs,  \* IDs for which FSOP_GET_FILE_PKG succeeds
    InodeIDs,     \* IDs for which FSOP_GET_INODE succeeds
    Dirs,         \* IDs whose inode is a directory
    ListableIDs,  \* directories for which FSOP_DIR_LIST succeeds
    Blocks,       \* heap addresses an extents array can have
    MaxLeaked,    \* bound: opens that may leak an extents array
    NoFile, NoThread, NoHandle,
    NullMutex     \* what CreateMutex returns when it fails

ASSUME HandlesFinite == IsFiniteSet(Handles) /\ NoHandle \notin Handles
ASSUME IDsNatural == FileIDs \subseteq Nat
ASSUME NoFileNotID == NoFile \notin FileIDs
ASSUME PathsResolve ==
    /\ IDOf \in [Paths -> FileIDs \cup {NoFile}]
    /\ ParentOf \in [Paths -> FileIDs]
ASSUME LockValues == NoThread \notin Nat /\ NullMutex \notin Nat \cup {NoThread}

VARIABLES
    openFiles,      \* std::list<FilePkg>
    cleanedUpFiles, \* std::list<FilePkg>
    heap,           \* the extents arrays that are allocated
    hBigDokanLock,  \* the owner of the mutex, NoThread, or NullMutex
    pc,             \* where in a callback each thread is
    cur,            \* the handle its callback is for
    path,           \* the fileName parameter of its callback
    filePkg,        \* the local FilePkg of btrfsCreateFileCommon
    it,             \* its list iterator
    result,         \* what its last callback returned
    phase,          \* how far Dokan is with each handle
    context         \* PDOKAN_FILE_INFO Context: the handle's FileID

tables == <<openFiles, cleanedUpFiles, heap>>
dokan == <<phase, context>>
locals == <<cur, path, filePkg>>
vars == <<tables, hBigDokanLock, pc, locals, it, result, dokan>>

----------------------------------------------------------------------------

(***************************************************************************)
(* The dispatcher threads the driver asks Dokan for.                       *)
(***************************************************************************)
ThreadPool == 2      \* seeded fault: more than one dispatcher thread
ThreadCount == 1
Threads == 1 .. ThreadCount

FilePkg == [fileID : FileIDs, parentID : FileIDs, extents : Blocks]
NoPkg == [fileID |-> NoFile]

(***************************************************************************)
(* An iterator denotes a node of one of the lists.  At most one node of a  *)
(* list carries a given extents array, so that identifies the node.        *)
(***************************************************************************)
ListEnd == [list |-> "end"]
Iterators == [list : {"openFiles", "cleanedUpFiles"}, node : Blocks]
                 \cup {ListEnd}

CreatePCs == {"create_lock", "create_load", "create_parent", "create_insert"}
PCs == {"idle", "cleanup_move", "close_free", "read_extents", "info_convert",
        "find_lock", "find_list"} \cup CreatePCs

Results == {"ERROR_SUCCESS", "-ERROR_SEM_TIMEOUT", "-ERROR_FILE_NOT_FOUND",
            "-ERROR_DIRECTORY", "-ERROR_PATH_NOT_FOUND"}

Phases == {"closed", "open", "cleaned"}

TypeOK ==
    /\ openFiles \in Seq(FilePkg)
    /\ cleanedUpFiles \in Seq(FilePkg)
    /\ heap \subseteq Blocks
    /\ hBigDokanLock \in Threads \cup {NoThread, NullMutex}
    /\ pc \in [Threads -> PCs]
    /\ cur \in [Threads -> Handles \cup {NoHandle}]
    /\ path \in [Threads -> Paths \cup {"none"}]
    /\ filePkg \in [Threads -> FilePkg \cup {NoPkg}]
    /\ it \in [Threads -> Iterators]
    /\ result \in [Threads -> Results]
    /\ phase \in [Handles -> Phases]
    /\ context \in [Handles -> FileIDs \cup {NoFile}]

(***************************************************************************)
(* setupBigDokanLock compares with INVALID_HANDLE_VALUE, but CreateMutex   *)
(* fails with NULL: the driver also starts without a mutex.                *)
(***************************************************************************)
setupBigDokanLock == hBigDokanLock \in {NoThread, NullMutex}

Init ==
    /\ setupBigDokanLock
    /\ openFiles = <<>>
    /\ cleanedUpFiles = <<>>
    /\ heap = {}
    /\ pc = [t \in Threads |-> "idle"]
    /\ cur = [t \in Threads |-> NoHandle]
    /\ path = [t \in Threads |-> "none"]
    /\ filePkg = [t \in Threads |-> NoPkg]
    /\ it = [t \in Threads |-> ListEnd]
    /\ result = [t \in Threads |-> "ERROR_SUCCESS"]
    /\ phase = [h \in Handles |-> "closed"]
    /\ context = [h \in Handles |-> NoFile]

----------------------------------------------------------------------------
(***************************************************************************)
(* Lists and iterators                                                     *)
(***************************************************************************)

(* The positions of a file's records, and of the records of later files. *)
Matches(s, f) == {i \in DOMAIN s : s[i].fileID = f}
Later(s, f) == {i \in DOMAIN s : s[i].fileID > f}

(* Seeded fault: the iterator is a position instead of a node. *)
PositionAt(list, s, S) ==
    IF S = {} THEN ListEnd ELSE [list |-> list, node |-> Min(S)]

(* A loop that stops at the first of the positions S of the list. *)
FirstAt(list, s, S) ==
    IF S = {} THEN ListEnd ELSE [list |-> list, node |-> s[Min(S)].extents]

(* The position in list s of the node an iterator denotes, if it exists. *)
NodeAt(s, name, iter) ==
    {i \in DOMAIN s : iter.list = name /\ s[i].extents = iter.node}

(* Seeded fault: a list takes one record per file. *)
InsertNoDupes(s, S, p) ==
    IF Matches(s, p.fileID) # {} THEN s
    ELSE InsertAt(s, IF S = {} THEN Len(s) + 1 ELSE Min(S), p)

(* Inserts p before the first of the positions S, or at the end. *)
Insert(s, S, p) == InsertAt(s, IF S = {} THEN Len(s) + 1 ELSE Min(S), p)

(* Seeded faults: nothing or the last node is erased. *)
EraseNothing(s, i) == s
EraseLast(s, i) == RemoveAt(s, Len(s))

Erase(s, i) == RemoveAt(s, i)

ExtentsIn(s) == {s[i].extents : i \in DOMAIN s}

(* Extents arrays nobody refers to any more. *)
Leaked ==
    heap \ (ExtentsIn(openFiles) \cup ExtentsIn(cleanedUpFiles)
            \cup {filePkg[t].extents : t \in {u \in Threads : filePkg[u] # NoPkg}})

(* Seeded fault: the extents are not freed. *)
NotFreed(p) == heap

Freed(p) == heap \ {p.extents}

(***************************************************************************)
(* ReleaseMutex fails, changing nothing, for a thread that is not the      *)
(* owner.                                                                  *)
(***************************************************************************)
Release(t) ==
    hBigDokanLock' = IF hBigDokanLock = t THEN NoThread ELSE hBigDokanLock

(***************************************************************************)
(* WaitForSingleObject with a timeout fails when another thread owns the   *)
(* mutex for too long, and on NULL.                                        *)
(***************************************************************************)
Acquire(t) == hBigDokanLock \in {NoThread, t} /\ hBigDokanLock' = t
WaitFails(t) == hBigDokanLock \notin {NoThread, t}

(***************************************************************************)
(* Dokan calls back for handle h on a thread of its pool.                  *)
(***************************************************************************)
Dispatch(t, h, entry) ==
    /\ pc[t] = "idle"
    /\ \A u \in Threads : cur[u] # h
    /\ pc' = [pc EXCEPT ![t] = entry]
    /\ cur' = [cur EXCEPT ![t] = h]

Return(t, code) ==
    /\ pc' = [pc EXCEPT ![t] = "idle"]
    /\ cur' = [cur EXCEPT ![t] = NoHandle]
    /\ path' = [path EXCEPT ![t] = "none"]
    /\ filePkg' = [filePkg EXCEPT ![t] = NoPkg]
    /\ it' = [it EXCEPT ![t] = ListEnd]
    /\ result' = [result EXCEPT ![t] = code]

Continue(t, label) == pc' = [pc EXCEPT ![t] = label]

----------------------------------------------------------------------------
(***************************************************************************)
(* btrfsCreateFile and btrfsOpenDirectory                                  *)
(***************************************************************************)

(* The bound on leaks: an open that will leak starts only below MaxLeaked. *)
MayLeak(p) ==
    /\ IDOf[p] \in FileIDs
    /\ IDOf[p] \notin PackableIDs \/ ParentOf[p] \notin InodeIDs

CreateFile(t, h, p) ==
    /\ phase[h] = "closed"
    /\ MayLeak(p) => Cardinality(Leaked) < MaxLeaked
    /\ Dispatch(t, h, "create_lock")
    /\ path' = [path EXCEPT ![t] = p]
    /\ context' = [context EXCEPT ![h] = NoFile]
    /\ UNCHANGED <<tables, hBigDokanLock, filePkg, it, result, phase>>

CreateTimeout(t) ==
    /\ pc[t] = "create_lock"
    /\ WaitFails(t)
    /\ Return(t, "-ERROR_SEM_TIMEOUT")
    /\ UNCHANGED <<tables, hBigDokanLock, dokan>>

CreateLock(t) ==
    /\ pc[t] = "create_lock"
    /\ Acquire(t)
    /\ Continue(t, "create_load")
    /\ UNCHANGED <<tables, locals, it, result, dokan>>

(* Seeded fault: returns without releasing the lock. *)
CreateNoPathKeepLock(t) ==
    /\ pc[t] = "create_load"
    /\ IDOf[path[t]] = NoFile
    /\ Return(t, "-ERROR_FILE_NOT_FOUND")
    /\ UNCHANGED <<tables, hBigDokanLock, dokan>>

CreateNoPath(t) ==
    /\ pc[t] = "create_load"
    /\ IDOf[path[t]] = NoFile
    /\ Release(t)
    /\ Return(t, "-ERROR_FILE_NOT_FOUND")
    /\ UNCHANGED <<tables, dokan>>

(* parseFSTree allocates filePkg.extents before it walks the tree. *)
CreateNoPkg(t) ==
    /\ pc[t] = "create_load"
    /\ IDOf[path[t]] \in FileIDs \ PackableIDs
    /\ \E b \in Blocks \ heap : heap' = heap \cup {b}
    /\ Release(t)
    /\ Return(t, "-ERROR_FILE_NOT_FOUND")
    /\ UNCHANGED <<openFiles, cleanedUpFiles, dokan>>

CreateLoad(t) ==
    /\ pc[t] = "create_load"
    /\ IDOf[path[t]] \in FileIDs \cap PackableIDs
    /\ \E b \in Blocks \ heap :
          /\ heap' = heap \cup {b}
          /\ filePkg' = [filePkg EXCEPT ![t] =
                [fileID |-> IDOf[path[t]], parentID |-> ParentOf[path[t]],
                 extents |-> b]]
    /\ Release(t)
    /\ Continue(t, "create_parent")
    /\ UNCHANGED <<openFiles, cleanedUpFiles, cur, path, it, result, dokan>>

CreateNoParent(t) ==
    /\ pc[t] = "create_parent"
    /\ filePkg[t].parentID \notin InodeIDs
    /\ Release(t)
    /\ Return(t, "-ERROR_FILE_NOT_FOUND")
    /\ UNCHANGED <<tables, dokan>>

(* Finds where the record belongs; openFiles is changed one step later. *)
CreateParent(t) ==
    /\ pc[t] = "create_parent"
    /\ filePkg[t].parentID \in InodeIDs
    /\ it' = [it EXCEPT ![t] =
          FirstAt("openFiles", openFiles, Later(openFiles, filePkg[t].fileID))]
    /\ Continue(t, "create_insert")
    /\ UNCHANGED <<tables, hBigDokanLock, locals, result, dokan>>

CreateInsert(t) ==
    /\ pc[t] = "create_insert"
    /\ it[t] = ListEnd \/ NodeAt(openFiles, "openFiles", it[t]) # {}
    /\ openFiles' = Insert(openFiles,
          NodeAt(openFiles, "openFiles", it[t]), filePkg[t])
    /\ context' = [context EXCEPT ![cur[t]] = filePkg[t].fileID]
    /\ phase' = [phase EXCEPT ![cur[t]] = "open"]
    /\ Return(t, "ERROR_SUCCESS")
    /\ UNCHANGED <<cleanedUpFiles, heap, hBigDokanLock>>

----------------------------------------------------------------------------
(***************************************************************************)
(* btrfsCleanup and btrfsCloseFile                                         *)
(***************************************************************************)

Cleanup(t, h) ==
    /\ phase[h] = "open"
    /\ Dispatch(t, h, "cleanup_move")
    /\ it' = [it EXCEPT ![t] =
          FirstAt("openFiles", openFiles, Matches(openFiles, context[h]))]
    /\ UNCHANGED <<tables, hBigDokanLock, path, filePkg, result, dokan>>

(* A copy of the record goes in front of the records of the same file in   *)
(* cleanedUpFiles, or to the end of it if there are none.                  *)
CleanupMove(t) ==
    /\ pc[t] = "cleanup_move"
    /\ \E i \in NodeAt(openFiles, "openFiles", it[t]) :
          /\ openFiles' = Erase(openFiles, i)
          /\ cleanedUpFiles' = Insert(cleanedUpFiles,
                Matches(cleanedUpFiles, context[cur[t]]), openFiles[i])
    /\ phase' = [phase EXCEPT ![cur[t]] = "cleaned"]
    /\ Return(t, "ERROR_SUCCESS")
    /\ UNCHANGED <<heap, hBigDokanLock, context>>

CloseFile(t, h) ==
    /\ phase[h] = "cleaned"
    /\ Dispatch(t, h, "close_free")
    /\ it' = [it EXCEPT ![t] =
          FirstAt("cleanedUpFiles", cleanedUpFiles,
                  Matches(cleanedUpFiles, context[h]))]
    /\ UNCHANGED <<tables, hBigDokanLock, path, filePkg, result, dokan>>

(* Frees the record's extents, the record and the handle's FileID. *)
CloseFree(t) ==
    /\ pc[t] = "close_free"
    /\ \E i \in NodeAt(cleanedUpFiles, "cleanedUpFiles", it[t]) :
          /\ heap' = Freed(cleanedUpFiles[i])
          /\ cleanedUpFiles' = Erase(cleanedUpFiles, i)
    /\ context' = [context EXCEPT ![cur[t]] = NoFile]
    /\ phase' = [phase EXCEPT ![cur[t]] = "closed"]
    /\ Return(t, "ERROR_SUCCESS")
    /\ UNCHANGED <<openFiles, hBigDokanLock>>

----------------------------------------------------------------------------
(***************************************************************************)
(* btrfsReadFile, btrfsGetFileInformation and btrfsFindFiles only look at  *)
(* the record they find, but keep a pointer to it while they do.           *)
(***************************************************************************)

(* "this may be called AFTER Cleanup in some cases" *)
ReadFile(t, h) ==
    /\ phase[h] \in {"open", "cleaned"}
    /\ Dispatch(t, h, "read_extents")
    /\ it' = [it EXCEPT ![t] =
          LET found == Matches(openFiles, context[h])
          IN  IF found # {}
              THEN FirstAt("openFiles", openFiles, found)
              ELSE FirstAt("cleanedUpFiles", cleanedUpFiles,
                           Matches(cleanedUpFiles, context[h]))]
    /\ UNCHANGED <<tables, hBigDokanLock, path, filePkg, result, dokan>>

ReadExtents(t) ==
    /\ pc[t] = "read_extents"
    /\ Return(t, "ERROR_SUCCESS")
    /\ UNCHANGED <<tables, hBigDokanLock, dokan>>

GetFileInformation(t, h) ==
    /\ phase[h] = "open"
    /\ Dispatch(t, h, "info_convert")
    /\ it' = [it EXCEPT ![t] =
          FirstAt("openFiles", openFiles, Matches(openFiles, context[h]))]
    /\ UNCHANGED <<tables, hBigDokanLock, path, filePkg, result, dokan>>

ConvertMetadata(t) ==
    /\ pc[t] = "info_convert"
    /\ Return(t, "ERROR_SUCCESS")
    /\ UNCHANGED <<tables, hBigDokanLock, dokan>>

FindFiles(t, h) ==
    /\ phase[h] = "open"
    /\ context[h] \in Dirs
    /\ Dispatch(t, h, "find_lock")
    /\ it' = [it EXCEPT ![t] =
          FirstAt("openFiles", openFiles, Matches(openFiles, context[h]))]
    /\ UNCHANGED <<tables, hBigDokanLock, path, filePkg, result, dokan>>

(* The search loop itself returns when the record is not a directory. *)
FindFilesOfFile(t, h) ==
    /\ phase[h] = "open"
    /\ pc[t] = "idle"
    /\ \A u \in Threads : cur[u] # h
    /\ context[h] \notin Dirs
    /\ Matches(openFiles, context[h]) # {}
    /\ Return(t, "-ERROR_DIRECTORY")
    /\ UNCHANGED <<tables, hBigDokanLock, dokan>>

(* The error return of this wait (480-484) cannot be reached: the handle   *)
(* was opened, hence with a mutex, and no other thread competes for it.    *)
FindLock(t) ==
    /\ pc[t] = "find_lock"
    /\ Acquire(t)
    /\ Continue(t, "find_list")
    /\ UNCHANGED <<tables, locals, it, result, dokan>>

FindList(t) ==
    /\ pc[t] = "find_list"
    /\ Release(t)
    /\ Return(t, IF context[cur[t]] \in ListableIDs
                 THEN "ERROR_SUCCESS" ELSE "-ERROR_PATH_NOT_FOUND")
    /\ UNCHANGED <<tables, dokan>>

----------------------------------------------------------------------------

Callback(t, h) ==
    \/ \E p \in Paths : CreateFile(t, h, p)
    \/ Cleanup(t, h)
    \/ CloseFile(t, h)
    \/ ReadFile(t, h)
    \/ GetFileInformation(t, h)
    \/ FindFiles(t, h)
    \/ FindFilesOfFile(t, h)

CreateStep(t) ==
    \/ CreateTimeout(t)
    \/ CreateLock(t)
    \/ CreateNoPath(t)
    \/ CreateNoPkg(t)
    \/ CreateLoad(t)
    \/ CreateNoParent(t)
    \/ CreateParent(t)
    \/ CreateInsert(t)

Step(t) ==
    \/ CreateStep(t)
    \/ CleanupMove(t)
    \/ CloseFree(t)
    \/ ReadExtents(t)
    \/ ConvertMetadata(t)
    \/ FindLock(t)
    \/ FindList(t)

Next ==
    \E t \in Threads :
        \/ Step(t)
        \/ \E h \in Handles : Callback(t, h)

Spec == Init /\ [][Next]_vars

----------------------------------------------------------------------------
(***************************************************************************)
(* Properties                                                              *)
(***************************************************************************)

Searching == {"cleanup_move", "close_free", "read_extents", "info_convert",
              "find_lock", "find_list"}

(* The assertions of the callbacks that search a list for the record of    *)
(* their handle (dokan_callbacks.cpp:169, 200, 242, 439, 476): the search  *)
(* always finds one, whichever handles of the file came and went before.   *)
AssertsHold == \A t \in Threads : pc[t] \in Searching => it[t] # ListEnd

(* The node under an iterator is still in the list, and the extents of its *)
(* record still allocated, when the iterator is used again.  This is what  *)
(* "Big Dokan Lock not needed here" (dokan_callbacks.cpp:223, 429) rests   *)
(* on: one dispatcher thread.                                              *)
IteratorsValid ==
    \A t \in Threads :
        /\ pc[t] \in Searching =>
              \/ it[t] = ListEnd
              \/ \E i \in NodeAt(openFiles, "openFiles", it[t]) :
                    /\ openFiles[i].fileID = context[cur[t]]
                    /\ openFiles[i].extents \in heap
              \/ \E i \in NodeAt(cleanedUpFiles, "cleanedUpFiles", it[t]) :
                    /\ cleanedUpFiles[i].fileID = context[cur[t]]
                    /\ cleanedUpFiles[i].extents \in heap
        /\ pc[t] = "create_insert" =>
              it[t] = ListEnd \/ NodeAt(openFiles, "openFiles", it[t]) # {}

(* Every record in the lists has an extents array of its own that is still *)
(* allocated, so btrfsCloseFile frees each array exactly once although it  *)
(* may pick the record another handle of the file was opened with.         *)
Distinct(s) == \A i, j \in DOMAIN s : s[i].extents = s[j].extents => i = j

ExtentsOwnedOnce ==
    /\ Distinct(openFiles)
    /\ Distinct(cleanedUpFiles)
    /\ ExtentsIn(openFiles) \cap ExtentsIn(cleanedUpFiles) = {}
    /\ ExtentsIn(openFiles) \cup ExtentsIn(cleanedUpFiles) \subseteq heap

(* openFiles is in ascending order of file ID, as the insertion loop of    *)
(* btrfsCreateFileCommon (dokan_callbacks.cpp:100-115) is meant to keep    *)
(* it.                                                                     *)
Ascending(s) == \A i, j \in DOMAIN s : i < j => s[i].fileID <= s[j].fileID

OpenFilesSorted == Ascending(openFiles)

(* Where a callback that takes the Big Dokan Lock is in the tree parser.   *)
InParser == {"create_load", "create_parent", "find_list"}

(* Such a callback owns the lock exactly while it is in the parser, except *)
(* for the one parse that btrfsCreateFileCommon makes after it has let the *)
(* lock go, that of the parent's inode (dokan_callbacks.cpp:84, 91): every *)
(* return path releases it, also the one that does so twice (:94), and     *)
(* nobody gets to the parser without it, even where there is no mutex.     *)
LockHeldButForParent ==
    \A t \in Threads :
        hBigDokanLock = t <=> pc[t] \in InParser \ {"create_parent"}

(* With one dispatcher thread nobody competes for the lock: a callback     *)
(* reports a semaphore timeout only when the mutex was never created.      *)
TimeoutMeansNoMutex ==
    \A t \in Threads :
        result[t] = "-ERROR_SEM_TIMEOUT" => hBigDokanLock = NullMutex

(* The Big Dokan Lock is held for every parse but one and for nothing      *)
(* else, and nobody waits for it in vain if it is there.                   *)
LockSafe == LockHeldButForParent /\ TimeoutMeansNoMutex

(* Only an open that fails after FSOP_GET_FILE_PKG has started loses an    *)
(* extents array (dokan_callbacks.cpp:76-98); no sequence of successful    *)
(* opens, cleanups and closes does, and nothing lost is found again.       *)
OnlyFailedOpensLeak ==
    [][Leaked' # Leaked =>
          /\ Leaked \subseteq Leaked'
          /\ \E t \in Threads :
                /\ pc[t] \in {"create_load", "create_parent"}
                /\ pc'[t] = "idle"
                /\ result'[t] = "-ERROR_FILE_NOT_FOUND"]_vars

(* The two lists implement the multimap of FileTable.                      *)
Table == INSTANCE FileTable WITH
    Records <- FilePkg,
    opened <- ToSet(openFiles),
    cleaned <- ToSet(cleanedUpFiles),
    phase <- phase,
    file <- context

(* Every step of a callback is a step of the multimap or leaves it alone:  *)
(* a callback moves or discards a record of its own file only, and only    *)
(* in the order Create, Cleanup, Close.                                    *)
ImplementsTable == Table!Spec

(* A file has as many records in openFiles as open handles, and as many in *)
(* cleanedUpFiles as cleaned-up handles, also when several handles of the  *)
(* file share its "dupes" (dokan_callbacks.cpp:105-107).                   *)
RecordsMatchHandles == Table!Balanced

=============================================================================
