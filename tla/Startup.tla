------------------------------ MODULE Startup ------------------------------
(***************************************************************************)
(* A run of the driver from its command line to its exit: handleArgs       *)
(* (WinBtrfsCLI/main.cpp), init (init.cpp) with the superblocks of         *)
(* Superblocks, the subvolume that is looked for in the root tree          *)
(* (roottree_parser.cpp), DokanMain, and the two ways to clean up: init's  *)
(* own and terminate (WinBtrfsLib.cpp), which the console calls on a       *)
(* thread of its own when Ctrl+C is pressed.                               *)
(*                                                                         *)
(* Three threads use the block readers: the main thread, the thread of     *)
(* Dokan's callbacks and the console's.  A reader that has been destroyed  *)
(* leaves its pointer behind (slots); using that pointer fails or crashes. *)
(*                                                                         *)
(* IDs above the signed half of their 64 bits are written as negative.     *)
(***************************************************************************)
EXTENDS Superblocks, Integers, SequencesExt

CONSTANTS
    Starts,             \* what the driver may be started on, see StartupInit
    OBJID_FS_TREE,      \* the tree of the volume's own files
    FirstSubvolume,     \* 0x100, the first ID subvolumes are given
    OBJID_ROOT_TREE_DIR \* the superblock's rootDirObjectID

ASSUME FSTreeIsNoSubvolume ==
    /\ OBJID_FS_TREE \in Nat /\ FirstSubvolume \in Nat
    /\ OBJID_FS_TREE < FirstSubvolume

ASSUME ArgsListed ==
    \A s \in Starts : Len(s.args) \in Nat /\ DOMAIN s.args = 1 .. Len(s.args)

(* Some device is given; and the root tree has the root of every tree that *)
(* it refers to.                                                           *)
ASSUME RootTreesComplete ==
    \A s \in Starts :
        LET items == ToSet(s.rootTree)
            HasRoot(id) == \E x \in items : x.type = "ROOT_ITEM" /\ x.objectID = id
        IN  /\ s.devices # <<>>
            /\ Len(s.rootTree) \in Nat /\ DOMAIN s.rootTree = 1 .. Len(s.rootTree)
            /\ HasRoot(OBJID_FS_TREE)
            /\ \A x \in items :
                  /\ x.type = "DIR_ITEM" => HasRoot(x.child)
                  /\ x.type = "ROOT_REF" => HasRoot(x.offset)
                  /\ x.type = "ROOT_BACKREF" => HasRoot(x.objectID) /\ HasRoot(x.offset)

Threads == {"main", "console"}
NotCleaning == -1

VARIABLES
    start,          \* [args, devices, rootTree, ctrlC]
    volumeInfo,     \* what the arguments ask for
    mountedSubvol,
    mounted,        \* Dokan: the mount point exists
    console,        \* "idle", "cleanUp", "remove" or "exit"
    callback,       \* the pointer a callback is about to read through, or 0
    left,           \* the counter of cleanUp on each thread
    half,           \* the threads between delete and pop_back
    misused,        \* a destroyed reader has been used, or destroyed again
    process         \* "runs", "crashed", or what it has exited with

startVars == <<start, volumeInfo, mountedSubvol, mounted, console, callback,
               left, half, misused, process>>
allVars == <<vars, startVars>>

----------------------------------------------------------------------------
(***************************************************************************)
(* handleArgs                                                              *)
(***************************************************************************)
UsageError == [ok |-> FALSE]

NoArgs == [ok |-> TRUE, noDump |-> FALSE, dumpOnly |-> FALSE, paths |-> 0,
           use |-> "nothing", subvol |-> 0]

(* A subvolume option has a value that is missing, bad or ok. *)
TakeArg(info, arg) ==
    CASE ~info.ok -> info
      [] info.ok /\ arg.opt = "no-dump" -> [info EXCEPT !.noDump = TRUE]
      [] info.ok /\ arg.opt = "dump-only" -> [info EXCEPT !.dumpOnly = TRUE]
      [] info.ok /\ arg.opt = "path" -> [info EXCEPT !.paths = @ + 1]
      [] info.ok /\ arg.opt \in {"subvol", "subvol-id"} ->
            IF arg.value = "ok" /\ info.use = "nothing"
            THEN [info EXCEPT !.use = arg.opt, !.subvol = arg.subvol]
            ELSE UsageError
      [] OTHER -> UsageError

(* What is known after each of the arguments. *)
Taken(args) ==
    LET after[k \in 0 .. Len(args)] ==
            IF k = 0 THEN NoArgs ELSE TakeArg(after[k - 1], args[k])
    IN  after

(* The first path is the mount point. *)
handleArgs(args) ==
    LET info == Taken(args)[Len(args)]
    IN  IF ~info.ok THEN info
        ELSE IF (info.noDump /\ info.dumpOnly) \/ info.paths < 2 THEN UsageError
        ELSE info

----------------------------------------------------------------------------
(***************************************************************************)
(* parseRootTree: each operation stops at the first item it is looking for *)
(* in the order of the keys.  Of a leaf's items those that no operation    *)
(* looks at are left out; inner nodes are walked as in FSTree.             *)
(***************************************************************************)
rootTree == start.rootTree

DEFAULT_SUBVOL ==
    SelectInSeq(rootTree, LAMBDA x : /\ x.type = "DIR_ITEM"
                                     /\ x.objectID = OBJID_ROOT_TREE_DIR)
GET_SUBVOL_ID(n) ==
    SelectInSeq(rootTree, LAMBDA x : x.type = "ROOT_BACKREF" /\ x.name = n)
SUBVOL_EXISTS(id) ==
    SelectInSeq(rootTree, LAMBDA x : x.type = "ROOT_BACKREF" /\ x.offset = id)
GET_ADDR(id) ==
    SelectInSeq(rootTree, LAMBDA x : x.type = "ROOT_ITEM" /\ x.objectID = id)

(* RTOP_DUMP_SUBVOLS dumps these trees after the volume's own. *)
DumpedTrees ==
    {OBJID_FS_TREE} \cup
    {x.offset : x \in {y \in ToSet(rootTree) :
                         y.type = "ROOT_REF" /\ y.offset >= FirstSubvolume}}

Impossible(id) ==
    \/ id > 0 /\ id < FirstSubvolume
    \/ id > -FirstSubvolume /\ id < -1

NotFound == [found |-> FALSE]
Subvol(id) == [found |-> TRUE, id |-> id]

(* Seeded fault: the reference is read the wrong way round. *)
NamedParent(n) ==
    IF GET_SUBVOL_ID(n) = 0 THEN NotFound
    ELSE Subvol(rootTree[GET_SUBVOL_ID(n)].offset)

Named(n) ==
    IF GET_SUBVOL_ID(n) = 0 THEN NotFound
    ELSE Subvol(rootTree[GET_SUBVOL_ID(n)].objectID)

(* The subvolume init mounts.  That an ID exists is seen from a subvolume   *)
(* that has it as its parent.                                              *)
ChosenSubvol ==
    LET asked == volumeInfo.subvol
    IN  CASE volumeInfo.use = "nothing" ->
                IF DEFAULT_SUBVOL = 0 THEN NotFound
                ELSE Subvol(rootTree[DEFAULT_SUBVOL].child)
          [] volumeInfo.use = "subvol" ->
                IF asked = "default" THEN Subvol(OBJID_FS_TREE) ELSE Named(asked)
          [] OTHER ->
                IF Impossible(asked) \/ SUBVOL_EXISTS(asked) = 0 THEN NotFound
                ELSE Subvol(IF asked = 0 THEN OBJID_FS_TREE ELSE asked)

----------------------------------------------------------------------------

StartupInit ==
    /\ start \in Starts
    /\ devices = start.devices
    /\ Init
    /\ volumeInfo = UsageError
    /\ mountedSubvol = 0
    /\ mounted = FALSE
    /\ console = "idle" /\ callback = 0
    /\ left = [t \in Threads |-> NotCleaning] /\ half = {}
    /\ misused = FALSE
    /\ process = "runs"

(* A thread goes through the pointer to a reader: Goes if the reader still *)
(* exists, a crash otherwise.                                              *)
Crash ==
    /\ process' = "crashed"
    /\ UNCHANGED <<vars, start, volumeInfo, mountedSubvol, mounted, console,
                   callback, left, half>>

Through(reader, Goes) ==
    IF reader \in deleted THEN Crash /\ misused' = TRUE ELSE Goes

----------------------------------------------------------------------------
(***************************************************************************)
(* The main thread: main, init                                             *)
(***************************************************************************)
ParseArgs ==
    /\ volumeInfo = UsageError
    /\ volumeInfo' = handleArgs(start.args)
    /\ process' = IF volumeInfo'.ok THEN "runs" ELSE "usage"
    /\ UNCHANGED <<vars, start, mountedSubvol, mounted, console, callback, left,
                   half, misused>>

LoadsThroughDestroyed == pc = "loadSBs" /\ slots[Len(supers) + 1] \in deleted

(* The actions of Superblocks: a read through a destroyed reader fails, or *)
(* it crashes.                                                             *)
LoadVolume ==
    /\ volumeInfo # UsageError
    /\ Next
    /\ misused' = (misused \/ LoadsThroughDestroyed)
    /\ UNCHANGED <<start, volumeInfo, mountedSubvol, mounted, console, callback,
                   left, half, process>>

LoadCrashes ==
    \/ LoadsThroughDestroyed /\ Crash /\ misused' = TRUE
    \/ pc = "verifyDevices" /\ supers = <<>> /\ Crash /\ UNCHANGED misused

(* A step of init that reads the trees, through any of the readers. *)
Reads(from, Goes) ==
    /\ pc = from
    /\ \E k \in DOMAIN supers : Through(slots[k], Goes)

GoTo(to) ==
    /\ pc' = to
    /\ UNCHANGED <<devices, sb, copy, sbBest, lastError, supers, readerVars>>
    /\ UNCHANGED <<start, volumeInfo, mounted, console, callback, left, half,
                   misused, process>>

(* Every tree that is dumped is looked up, which is asserted to succeed. *)
LoadChunkTreeAndDump ==
    Reads("done",
          IF ~volumeInfo.noDump /\ \E t \in DumpedTrees : GET_ADDR(t) = 0
          THEN Crash /\ UNCHANGED misused
          ELSE /\ GoTo(IF volumeInfo.dumpOnly THEN "exit" ELSE "subvolume")
               /\ UNCHANGED mountedSubvol)

ChooseSubvol ==
    Reads("subvolume",
          /\ GoTo(IF ChosenSubvol.found THEN "mount" ELSE "exit")
          /\ mountedSubvol' = IF ChosenSubvol.found THEN ChosenSubvol.id
                              ELSE mountedSubvol)

(* DokanMain comes back at once if it cannot mount. *)
DokanMain ==
    /\ pc = "mount"
    /\ \E ok \in BOOLEAN :
          /\ mounted' = ok
          /\ pc' = IF ok THEN "mounted" ELSE "exit"
    /\ UNCHANGED <<devices, sb, copy, sbBest, lastError, supers, readerVars>>
    /\ UNCHANGED <<start, volumeInfo, mountedSubvol, console, callback, left,
                   half, misused, process>>

(* Or when the volume has been unmounted and its thread has come back. *)
DokanMainReturns ==
    /\ pc = "mounted" /\ ~mounted /\ callback = 0
    /\ GoTo("exit")
    /\ UNCHANGED <<mountedSubvol>>

(* init cleans up, then exits with 1, 0 or what DokanMain has returned. *)
ExitProcess(t) ==
    /\ left[t] = 0
    /\ process' = "exited"
    /\ UNCHANGED <<vars, start, volumeInfo, mountedSubvol, mounted, console,
                   callback, left, half, misused>>

----------------------------------------------------------------------------
(***************************************************************************)
(* cleanUp, on the main thread or the console's                            *)
(***************************************************************************)
CleansUp(t) == IF t = "main" THEN pc = "exit" ELSE console = "cleanUp"

cleanUpUnchanged ==
    UNCHANGED <<pc, devices, sb, copy, sbBest, lastError, supers, slots, start,
                volumeInfo, mountedSubvol, mounted, console, callback>>

(* Seeded fault: the loop stops before the first reader. *)
ButTheFirst(s) == IF s = <<>> THEN 0 ELSE Len(s) - 1

ReadersToDelete(s) == Len(s)

EnterCleanUp(t) ==
    /\ CleansUp(t) /\ left[t] = NotCleaning
    /\ left' = [left EXCEPT ![t] = ReadersToDelete(blockReaders)]
    /\ UNCHANGED <<blockReaders, deleted, half, misused, process>>
    /\ cleanUpUnchanged

(* delete blockReaders.back(), which is not there if the other thread has  *)
(* taken the last one, and may be what the other thread has just deleted.  *)
DeleteReader(t) ==
    /\ left[t] > 0 /\ t \notin half
    /\ IF blockReaders = <<>> THEN Crash /\ misused' = TRUE
       ELSE IF Last(blockReaders) \in deleted
       THEN /\ misused' = TRUE
            /\ \/ Crash
               \/ /\ half' = half \cup {t}
                  /\ UNCHANGED <<blockReaders, deleted, left, process>>
                  /\ cleanUpUnchanged
       ELSE /\ deleted' = deleted \cup {Last(blockReaders)}
            /\ half' = half \cup {t}
            /\ UNCHANGED <<blockReaders, left, misused, process>>
            /\ cleanUpUnchanged

(* Seeded fault: nothing is popped. *)
KeepReader(t) ==
    /\ t \in half
    /\ half' = half \ {t} /\ left' = [left EXCEPT ![t] = @ - 1]
    /\ UNCHANGED <<blockReaders, deleted, misused, process>>
    /\ cleanUpUnchanged

PopReader(t) ==
    /\ t \in half
    /\ IF blockReaders = <<>> THEN Crash /\ misused' = TRUE
       ELSE /\ blockReaders' = Front(blockReaders)
            /\ half' = half \ {t} /\ left' = [left EXCEPT ![t] = @ - 1]
            /\ UNCHANGED <<deleted, misused, process>>
            /\ cleanUpUnchanged

CleanUp(t) == EnterCleanUp(t) \/ DeleteReader(t) \/ PopReader(t)

----------------------------------------------------------------------------
(***************************************************************************)
(* The console's thread: ctrlHandler, terminate                            *)
(***************************************************************************)
consoleUnchanged ==
    UNCHANGED <<vars, start, volumeInfo, mountedSubvol, callback, left, half,
                misused>>

CtrlC ==
    /\ start.ctrlC
    /\ console = "idle"
    /\ console' = "cleanUp"
    /\ UNCHANGED <<mounted, process>>
    /\ consoleUnchanged

(* Seeded fault: the mount point is left to the process's end. *)
KeepMountPoint ==
    /\ console = "cleanUp" /\ left["console"] = 0
    /\ console' = "exit"
    /\ UNCHANGED <<mounted, process>>
    /\ consoleUnchanged

DokanRemoveMountPoint ==
    /\ console = "cleanUp" /\ left["console"] = 0
    /\ console' = "exit"
    /\ mounted' = FALSE
    /\ UNCHANGED process
    /\ consoleUnchanged

(* Seeded fault: the end is left to the main thread. *)
ReturnToConsole ==
    /\ console = "exit"
    /\ console' = "returned"
    /\ UNCHANGED <<mounted, process>>
    /\ consoleUnchanged

TerminateExits ==
    /\ console = "exit"
    /\ process' = "exited"
    /\ UNCHANGED <<mounted, console>>
    /\ consoleUnchanged

----------------------------------------------------------------------------
(***************************************************************************)
(* Dokan's thread, and whoever else unmounts                               *)
(***************************************************************************)
callbackUnchanged ==
    UNCHANGED <<vars, start, volumeInfo, mountedSubvol, mounted, console, left,
                half>>

(* A callback looks up the mounted tree, which is asserted to succeed, and *)
(* getBlockReader gives it a pointer.                                      *)
CallbackGetsReader ==
    /\ mounted /\ callback = 0
    /\ IF GET_ADDR(mountedSubvol) = 0 THEN Crash /\ UNCHANGED misused
       ELSE /\ \E k \in DOMAIN supers : callback' = slots[k]
            /\ UNCHANGED <<misused, process>>
            /\ callbackUnchanged

(* It reads a node or file contents, and goes on without the contents. *)
CallbackReads ==
    /\ callback # 0
    /\ misused' = (misused \/ callback \in deleted)
    /\ \/ /\ callback' = 0
          /\ UNCHANGED process
          /\ callbackUnchanged
       \/ callback \in deleted /\ Crash

Unmount ==
    /\ mounted
    /\ mounted' = FALSE
    /\ UNCHANGED <<console, process>>
    /\ consoleUnchanged

----------------------------------------------------------------------------

MainStep ==
    \/ ParseArgs
    \/ LoadVolume
    \/ LoadCrashes
    \/ LoadChunkTreeAndDump
    \/ ChooseSubvol
    \/ DokanMain
    \/ DokanMainReturns
    \/ CleanUp("main")
    \/ ExitProcess("main")

ConsoleStep ==
    \/ CleanUp("console")
    \/ DokanRemoveMountPoint
    \/ TerminateExits

StartupNext ==
    /\ process = "runs"
    /\ \/ MainStep
       \/ CtrlC
       \/ ConsoleStep
       \/ CallbackGetsReader
       \/ CallbackReads
       \/ Unmount

(* Threads are scheduled; nobody need press Ctrl+C, unmount or read.  (A   *)
(* callback that has begun ends.)                                          *)
StartupSpec ==
    /\ StartupInit
    /\ [][StartupNext]_allVars
    /\ WF_allVars(process = "runs" /\ MainStep)
    /\ WF_allVars(process = "runs" /\ ConsoleStep)
    /\ WF_allVars(process = "runs" /\ CallbackReads)

----------------------------------------------------------------------------
(***************************************************************************)
(* Properties                                                              *)
(***************************************************************************)
InStartup == {"exit", "done", "subvolume", "mount", "mounted"}

StartTypeOK ==
    /\ pc \notin InStartup => TypeOK
    /\ blockReaders \in Seq(DOMAIN devices) /\ slots \in Seq(DOMAIN devices)
    /\ deleted \subseteq DOMAIN devices
    /\ callback \in {0} \cup DOMAIN devices
    /\ left \in [Threads -> {NotCleaning} \cup 0 .. Len(devices)]
    /\ \A t \in half : left[t] > 0
    /\ process \in {"runs", "usage", "crashed", "exited"}
    /\ pc \in {"mount", "mounted"} => GET_ADDR(mountedSubvol) # 0

(* The subvolume that is mounted is the one the arguments ask for, in any  *)
(* order they come in: the one of that ID, 0 being the volume's own tree;  *)
(* one of that name, the volume's own tree being called "default"; or the  *)
(* one the volume names as its default (init.cpp:113-167,                  *)
(* roottree_parser.cpp:157-204).                                           *)
AskedForMounted ==
    mounted =>
        LET items == ToSet(rootTree)
            given == {a \in ToSet(start.args) : a.opt \in {"subvol", "subvol-id"}}
            HasName(id, n) ==
                \E x \in items : x.type = "ROOT_BACKREF" /\ x.objectID = id /\ x.name = n
            IsDefault(id) ==
                \E x \in items : /\ x.type = "DIR_ITEM"
                                 /\ x.objectID = OBJID_ROOT_TREE_DIR
                                 /\ x.child = id
        IN  \/ given = {} /\ IsDefault(mountedSubvol)
            \/ \E a \in given :
                  /\ given = {a} /\ a.value = "ok"
                  /\ \/ /\ a.opt = "subvol-id"
                        /\ mountedSubvol =
                              IF a.subvol = 0 THEN OBJID_FS_TREE ELSE a.subvol
                     \/ a.opt = "subvol" /\ HasName(mountedSubvol, a.subvol)
                     \/ /\ a.opt = "subvol" /\ a.subvol = "default"
                        /\ mountedSubvol = OBJID_FS_TREE

(* The driver never crashes, fails an assertion, or uses a block reader    *)
(* after it is destroyed or destroys it again, on any way through init and *)
(* out of it, unless Ctrl+C has been pressed: cleanUp, "very thread-       *)
(* unsafe" (btrfs_system.cpp:44), runs alone then.                         *)
OnlyCtrlCIsUnsafe ==
    misused \/ process = "crashed" => console # "idle"

(* Every way out of the driver after the devices have been opened closes   *)
(* all of them, also when the volume is refused, only dumped, has no such  *)
(* subvolume, or cannot be mounted (init.cpp:74-185).                      *)
ClosedOnExit ==
    process = "exited" /\ console = "idle" =>
        deleted = DOMAIN devices /\ blockReaders = <<>>

(* A mount point that is there before terminate removes it does not        *)
(* outlive the process (WinBtrfsLib.cpp:31-36, init.cpp:179-185).          *)
UnmountedAtExit ==
    [](pc = "mounted" /\ console # "exit" => [](process = "exited" => ~mounted))

(* The driver does not hang: it comes to a mounted volume or an end, and   *)
(* to its end when the volume is unmounted.                                *)
MountsOrEnds ==
    (process = "runs" /\ ~mounted) ~> (process # "runs" \/ mounted)

(* "terminating gracefully" (WinBtrfsCLI/main.cpp:21): Ctrl+C ends the     *)
(* driver, wherever it is.                                                 *)
CtrlCEnds == console # "idle" ~> process # "runs"

=============================================================================
