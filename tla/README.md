# A verification development for WinBtrfs

WinBtrfs (2011) is a read-only Btrfs driver for Windows. It mounts a volume
through Dokan, which calls the driver back for each file operation; a Windows
service is meant to mount volumes on behalf of clients that talk to it through a
named pipe. This directory holds TLA+ models of the driver and the service,
their TLC configurations, and proofs checked by TLAPS. Paths below are relative
to the repository's root; `dokan_callbacks.cpp:206` means
`src/WinBtrfsLib/dokan_callbacks.cpp`, line 206.

1. [The system](#1-the-system)
2. [The modules](#2-the-modules)
3. [The runs](#3-the-runs)
4. [Disagreements found](#4-disagreements-found)
5. [What is proved](#5-what-is-proved)
6. [Assumptions](#6-assumptions)
7. [What is not modelled](#7-what-is-not-modelled)

## 1. The system

| Component | State it keeps | Operations | What makes it correct |
|---|---|---|---|
| Open-file table and lock (`dokan_callbacks.cpp`) | lists `openFiles` and `cleanedUpFiles` of `FilePkg` records, each with a heap array of extents; the mutex `hBigDokanLock`; a `FileID` in Dokan's `Context` of each handle | the callbacks CreateFile/OpenDirectory, Cleanup, CloseFile, ReadFile, GetFileInformation, FindFiles | a search for a handle's record never fails; iterators stay valid; extents are freed once; the lock is released on every path |
| Reading (`btrfsReadFile`, `compression.cpp`) | loop counters, the caller's buffer, the decoders' pointers | one read request over the extents, lzoDecompress, zlibDecompress | the right bytes at the right place, the right count, nothing outside a buffer |
| Tree walk (`fstree_parser.cpp`) | `returnCode`, `shortCircuit`, the recursion, the outputs | NAME_TO_ID, GET_FILE_PKG, DIR_LIST, GET_INODE, DUMP_TREE | success means the outputs are complete and about the right object; the walk ends |
| Superblocks and devices (`btrfs_system.cpp`, `block_reader.cpp`) | `supers`, one per device; `blockReaders`, with file pointer and mutex | allocateBlockReaders, loadSBs, validateSB, verifyDevices, directRead | the newest valid copy of each device; only a complete volume is mounted |
| Chunk map (`btrfs_system.cpp`, `chunktree_parser.cpp`) | `sbChunks`, `chunkTree` | logiToPhys, readLogical, loadSBChunks, parseChunkTree | each logical byte comes from where its chunk puts it; the chunk tree can be read through the map it fills |
| Root tree (`roottree_parser.cpp`) | `mountedSubvol` | DEFAULT_SUBVOL, GET_SUBVOL_ID, SUBVOL_EXISTS, GET_ADDR, DUMP_SUBVOLS | the subvolume asked for is the one mounted |
| Path lookup (`btrfs_operations.cpp`) | none | validatePath, componentizePath, getPathID | a path leads to the object it names, through subvolumes too |
| Start and exit (`init.cpp`, `WinBtrfsLib.cpp`) | `volumeInfo` | init, DokanMain, terminate, cleanUp | every way out cleans up; nothing is used after clean-up; the driver ends |
| Service (`service.cpp`, `ipc.cpp`, `log.cpp`, `volume_mgr.cpp`) | `status`, four events, the pipe, a thread | start, stop, connection, request, response | requests are answered, a stop completes, handles outlive the thread that uses them |
| Test client (`PipeClient`) | its end of the pipe | connect, request, response | it is answered |
| Command line (`WinBtrfsCLI`) | the arguments | parse, start, Ctrl+C handler | the subvolume asked for is the one mounted |

How they interact. `init` (`init.cpp:60`) opens the devices, makes the lock,
loads and verifies the superblocks, loads the chunk tree, dumps the others, picks
the subvolume in the root tree, and calls `DokanMain`, which runs the callbacks on its own
threads: one, since `ThreadCount = 1` (`init.cpp:174`). A callback that opens a
file asks `getPathID` for its ID, which walks a tree per path component with
`parseFSTree`; that loads nodes through `readLogical`, `logiToPhys` and
`directRead`. Another thread enters the driver through Ctrl+C
(`WinBtrfsCLI`), which calls `terminate`: that cleans up, removes the mount point
and exits, whatever the other threads are doing. The service is a separate process with
three threads: `serviceMain`, the control handler that the service control
manager (SCM) calls, and `watchIPC`, which polls the pipe every 100 ms; its
`mount` is still a stub (`volume_mgr.cpp:19-46`).

What is hard. Callbacks of many handles of one file interleave and share
records; asserts (`dokan_callbacks.cpp:169, 200, 242, 439, 476`) depend on their
order. The tree walk depends on the order in which object IDs happen to be
stored. Reads meet extents in four ways. Superblocks come from a system that may
have crashed between copies. The chunk map is loaded through itself. `terminate`
races everything. The service has three threads, two time-outs, and a
pipe instance that clients use in turn and may drop at any point.
`PROJECT.json` lists these hazards at their lines, with the properties that
cover each.

Debug and Release. `Release` defines `NDEBUG` (`WinBtrfsLib.vcxproj:144`), so
asserts exist only in the other build. The models follow the Debug build: a
failed assert ends the program.

## 2. The modules

| Module | Models | EXTENDS / composes |
|---|---|---|
| `FileTable` | the abstract specification: a multimap from file IDs to records, which `TODO.txt:58` asks for | |
| `DokanCallbacks` | the callbacks, step by step, with the two lists, the heap and the lock | instantiates `FileTable` |
| `ChunkMap` | loading and using the map from logical to physical addresses | |
| `Compression` | the loops of `lzoDecompress` and `zlibDecompress` | |
| `ReadFile` | `btrfsReadFile` between finding the record and returning | `ChunkMap`, `Compression` |
| `FSTree` | `parseFSTree` and `parseFSTreeRec`, an action per kind of item | |
| `PathLookup` | `validatePath`, `componentizePath`, `getPathID` | `FSTree` |
| `Superblocks` | `allocateBlockReaders`, `loadSBs`, `validateSB`, `directRead`, `verifyDevices` | |
| `Startup` | `handleArgs`, `init`, the root tree's operations, `DokanMain`, `terminate`, `cleanUp` | `Superblocks` |
| `Service` | the service's three threads, the pipe and clients | |
| `MC<module>` | the constants of the small instance TLC checks | the module |
| `FileTableProofs`, `DokanCallbacksProofs`, `ChunkMapProofs`, `ReadFileProofs`, `StartupProofs`, `ServiceProofs` | theorems | the module, `TLAPS` |
| `FSTreeProofs` | theorems about `FSTree` and `PathLookup` | `PathLookup`, `TLAPS` |
| `ListLemmas` | facts about `InsertAt`, `RemoveAt`, `Min` and loops | |

`PROJECT.json` maps every definition that models code to its lines. Each module also holds, before
some definitions, a variant marked as a *seeded fault*: a plausible bug
(`InsertNoDupes`, `JoinGivesUp`, ...) that, put in the place of the definition
after it, makes one property fail. They are not part of the specification.

**DokanCallbacks.** A list is a sequence of records, in which a record's
`extents` is the address of its heap array; `heap` is the set of addresses that
are allocated. Since no two records share an array, that address also stands for
the list node, and an iterator is `[list, node]` or `ListEnd`. A callback is cut
into steps where it waits for the lock, calls the tree parser, or keeps an
iterator from one access of a list to the next: `Cleanup` finds the record,
`CleanupMove` moves it. With one dispatcher thread those cuts change nothing;
they are there so that the seeded fault `ThreadPool` (two threads) shows what
TODO.txt's "Concurrent callback support" would meet. Records of files are told
apart by `fileID`, a natural that stands for (treeID, objectID) in list order.
What the tree parser answers is constant, because the volume is mounted
read-only: `IDOf`, `ParentOf`, `PackableIDs` and so on. Dokan is external: it
opens a handle, then reads and queries, cleans up once, may read again, closes
once. `Release` follows `ReleaseMutex`: a thread that does not own the mutex
changes nothing, as in the second release at line 94.

**ChunkMap.** A volume says which device IDs its superblocks have, in the order of
the command line, which chunks the superblock and the chunk tree hold, and which
places cannot be read. `sbChunks` and `chunkTree` are the driver's lists;
`logiToPhys` searches them in the code's order, `getBlockReader` pairs the n-th
superblock with the n-th reader, and `readLogical` gives the bytes found there.
`ByteAt`, what a device really holds, is defined from the volume's chunks and not
from what the driver has loaded, so a wrong translation shows. `walk` holds the
activations of `parseChunkTreeRec`; a node that cannot be read through the map
as it is at that moment fails an assert (`LoadNode`).

**Compression.** lzo data is a set of segments at places; `lzoDecompress` follows
the pointers and counters of the loop, and a length read from a place where no
segment starts makes the library's decoder fail. `lzoOutLen`, which the code does not
initialise, starts as any member of `OutLens`. zlib data is a sequence of calls
of `inflate`, each taking or producing a byte or both. Data is only told apart by
where it belongs in the decoded extent.

**ReadFile.** Counters and the four flags are the code's, with `DWORDs` values
in place of 2^32. A byte is named by what it is: stored for a logical address, of
an inline item, or decoded; `Garbage` is a byte nobody has written. The buffer is
a function, and a copy past its end extends its domain. Requests start when the
chunk map has been loaded.

**FSTree.** A tree is a function from addresses to nodes of any level; a node above
the leaves holds the addresses of those below it. `stack` holds an activation
`[addr, i]` for each active call of `parseFSTreeRec`; `header` is the node of the last.
`JumpOut` is the early exit, which only leaves the innermost loop: callers stop
through `shortCircuit`. `returnCode` is kept as the code keeps it: bits to clear
for GET_FILE_PKG, a countdown for DIR_LIST.

**PathLookup.** A path is a sequence of names and backslashes. `lookup` holds the
locals of `getPathID`; each component is one whole walk of `FSTree`, over the tree
of the subvolume the path has led into (`volume`). `GetPathID` takes the path as it
came: the code validates it into `vPath` and then uses the original.

**Superblocks.** The last-error code and the local variables `sb1` to `sb4`,
which survive from one device to the next in the same stack slot, are state,
because a short read leaves both alone (`block_reader.cpp:56-60`). `blockReaders` is the
vector, `slots` what its memory still holds after a pop, `deleted` the readers that
are gone.

**Startup.** `pc` is the main thread's place in `init`, `console` that of the thread
on which the console calls `ctrlHandler`, `callback` the reader that a callback on
Dokan's thread has got hold of. `cleanUp` is cut where the two threads that may be
in it can meet: reading the size, `delete back()`, `pop_back()`. Going through the
pointer of a destroyed reader fails or crashes and sets `misused`. The operations on
the root tree are what they find: the first matching item in key order. The recursion
over its inner nodes is the same as `FSTree`'s and not repeated.

**Service.** `serviceMain`, `setUpIPC`, `handleIPC` and `cleanUpIPC` run on one
thread whose place is `main`; `watch` is the place of `watchIPC`, `handler` that
of the control handler. The pipe instance goes through listening, connected,
closing (the client has gone) and disconnected. An event is `"none"` before it is created
and when CreateEvent has failed; a wait for it then fails, and so does setting it.
`status` is the global, `reported` what the SCM was last told. `log` holds a mutex and, inside
`printf`, the C library's lock on stdout; `TerminateThread` gives back the former
and not the latter. `BeginPrint` and `EndPrint` are the two ends of watchIPC's `printf`.

## 3. The runs

| Run | Instance | States | Shows |
|---|---|---|---|
| `FileTable` | 3 handles, 2 files of 2 records | 301 | `Balanced` |
| `DokanCallbacks` | 3 handles, 4 blocks, 7 paths | 11,849 | six invariants, `OnlyFailedOpensLeak`, and that it implements `FileTable` |
| `ReadFile` | 4 volumes, 12 files, 9 offsets, 8 lengths | 7,524 | nine invariants of the map, the decoders and the request |
| `FSTree` | all trees of the root and two objects, 13 paths | 183,750 | six invariants, `LookupEnds` |
| `Superblocks` | volumes of 1 to 3 devices, 25 command lines, 3 root trees | 183,267 | six invariants, `UnmountedAtExit`, `MountsOrEnds`, `CtrlCEnds` |
| `Service` | 2 clients, any event may be missing | 344,073 | three invariants and three temporal properties |

The runs `FSTree` and `Superblocks` are of the composed modules `MCPathLookup`
and `MCStartup`. The other runs each show one disagreement (section 4), on
`MCReadFile`, `MCFSTree`, `MCSuperblocks` and `MCService`.

*DokanCallbacks.*
`AssertsHold`: none of the five search asserts fails. `IteratorsValid`: an
iterator that will be used points to a record of its handle's file.
`ExtentsOwnedOnce`: no array belongs to two records, every record's array is
allocated, so nothing is freed twice. `OpenFilesSorted`. `LockSafe`: a callback that
takes the lock holds it for every parse but one, that of the parent's inode, and
nobody holds it anywhere else (section 4); a callback can only time out on it if the
mutex was never made.
`OnlyFailedOpensLeak`: no step but a failed open loses the last
reference to an array. `ImplementsTable`: refinement, with the lists mapped to
the sets of their elements and `context` to the abstract `file`; with `Balanced`
this gives each list as many records of a file as handles in that phase.
The volume has a hard link, so two handles of one file can have different
parents; a path that is not found; an object whose FilePkg cannot be loaded; and a
parent without an inode, which makes the last step of an open fail. Three handles
are the least with which a duplicate can be inserted between two others, and a
close can take the record of a handle that is neither the first nor the last.
Four blocks leave one for a leak; `MaxLeaked = 1` bounds leaks, which the code does
not. Handles and blocks are symmetric.

*ReadFile.* The volumes have one device; two, given in the wrong order; and four,
with striped data. The system chunk is alone in the superblock or one of two, dup or
raid1; the chunk tree is one leaf or three nodes; chunks with successive addresses lie
on different devices; one place cannot be read. `TranslationRight` tries every
range that starts in a chunk, in every state of the loading. `TreeReadable`: no node of
the chunk tree is out of the map's reach when it is needed, with or without a dump.
`RefusedForCause`: what cannot be read is striped or unreadable.
Offsets and lengths start and end requests before, at and after every
boundary of every layout: three extents with a hole and a compressed end, inline
data, compressed and plain, overwritten extents, extents at a chunk's end, an
unreadable one, damaged and unknown compression, lzo data with padding and with one
long segment, and an empty file. `DWORDs = 256` is more than any
counter reaches unless it underflows; `HeaderSize = 1` is the unit in which lengths
of lzo data are counted; `OutLens` has a value that is too small for the long segment and
one that is enough. `PrefixRight` speaks of every moment of a
request and of failed ones, `PlainReadsRight` of successful ones.
`DecodingFailsForCause` and `DecodingInBuffers` say when decoding may fail and that
it neither reads lengths nor writes beyond its buffers if the extent is whole and not
damaged.

*FSTree.* Each of two objects is a file or a directory anywhere under the root; one
file may have a second link; the root may hold a subvolume whose tree has the
number of an object; two names collide with each other and with one that is
absent; items are in one leaf or split over two at any place. The split is what
makes the early exit interesting: an exit in the first leaf must not visit the
second. The tree that holds the subvolumes has three levels. The properties say that a
walk that *reports success* has found: the named child (`NameFound`, in both
directions), the inode, all extents and one of the object's
own names (`FilePkgRight`), the inode (`InodeFound`), every entry of the directory
and its inode (`ListingComplete`). The comments in the module say what of this the
code does not promise.
The lookups go through a subvolume in the root, whose object IDs and names repeat those
outside for other things, and a subvolume in that; through files, missing names and
second links; and along paths with doubled and trailing backslashes. `LookupRight`:
a proper path leads to its object, with the right parent, or fails if there is none;
any other path fails or leads to the object too. `LookupEnds`: every walk and every
lookup ends. `FSTree`'s own call
of each operation stays part of the run.

*Superblocks.* Copies are old, new, newest, damaged, unreadable, or beyond the end
of the device; all lists of devices are started plainly, and one or two good devices with
every kind of argument: none, too few, contradictory, unknown, bad, a subvolume twice,
each of the ways to name one, and IDs at the ends of the impossible ranges. The root
tree has two subvolumes of one name, one called "default", a deleted one, another default
subvolume, or nothing. Ctrl+C may come at any moment (only
for the good devices: the flag `ctrlC` bounds the run, since pressing it does not
depend on what the superblocks hold). `NewestChosen`: each accepted superblock is at
least as new as every valid copy of its device. `AcceptedAreOwn`: a volume that passes
verifyDevices has one superblock of each device's own, although a single device's may
be another's (`PrimaryMustValidate`, below). `AskedForMounted`, said in terms of the
arguments and the root tree. `OnlyCtrlCIsUnsafe`: no crash, failed assert, use after
destruction or double destruction unless Ctrl+C has been pressed; after it there are
behaviours with each (section 4). `ClosedOnExit`, `UnmountedAtExit`, `MountsOrEnds`,
`CtrlCEnds`. Deadlock checking is off: the driver ends.

*Service.* Each of the four events may fail to be created, which nothing asks about;
clients may be killed at any point. `HandlesOutliveThread`, with the one exception it
names: a missing `threadDoneEvent`. `OwnResponse`: a client receives the response to its own
request or to that of a client that was killed or was itself given another's, and
no response reaches two clients. With two clients nobody can follow
one that was given another's; for any number the theorem of section 5 speaks.
`StatusForward`: what the SCM is told, by either thread, moves forward, and STOPPED
is reported only when everything has been closed; where `stopEvent` or `ipcEvent` is
missing STOPPED may follow RUNNING, and the late report of the control handler may follow
STOPPED (section 4). The handler and `serviceMain` set the global `status` and report it in two
steps each where they can meet. `RequestAnswered`, a client that waits is answered or told, though
ResetEvent may drop a signal, since watchIPC sets it again at its next poll;
`StopCompletes`: STOPPED is reported, unless a watcher was terminated inside
`printf` or, an event being missing, the handler's late report comes last; then
`serviceMain` has returned all the same. Deadlock checking is off: the service stops.

## 4. Disagreements found

Each of these has a run in which TLC finds a behaviour that breaks the claim.

| Run | The claim | What the code does |
|---|---|---|
| `ReadSizeCorrected` | "report a smaller read size to correct them" (`dokan_callbacks.cpp:397-398`) | subtracts even when the extents ended first; can underflow |
| `FileContentsRead` | "Reading file contents" (`README.txt:33`) | ignores an item's offset into, and length of, a partly overwritten extent |
| `SafeToJumpOut` | "it's safe to jump out once we pass the object ID in question" (`fstree_parser.cpp:228`) | the name is stored under the directory, which may have a higher ID |
| `DirectoriesListed` | "Directory listings" (`README.txt:31`) | an inode stored before the entry is missed and the listing fails |
| `PrimaryMustValidate` | "each device's primary superblock MUST validate" (`btrfs_system.cpp:128`) | after a short read it validates the buffer of the device before |
| `FinishesCleanly` | "give the thread a full second to finish cleanly" (`ipc.cpp:56`) | ipcEvent is closed first, and the thread may still signal it |

More show in the models, or were met while they were written, and have no run of their own:

- `cleanedUpFiles` is not "sorted in ascending object ID order"
  (`dokan_callbacks.cpp:181`): `CleanupMove` inserts before the first *equal*
  record, otherwise at the end.
- Duplicate records do not "contain exactly the same information" (`:105-106`):
  with hard links parentID and parentInode differ.
- "failed to setup the Big Dokan Lock!" (`init.cpp:75-80`) is never reported:
  CreateMutex fails with NULL and `dokan_callbacks.cpp:38` compares with
  INVALID_HANDLE_VALUE. In the models the mutex may be `NullMutex`, and every
  open then times out.
- `btrfsCreateFileCommon` releases the Big Dokan Lock (`dokan_callbacks.cpp:84`) before it parses
  the tree for the parent's inode (`:91`), and when that fails releases it again (`:94`).
  With one dispatcher thread that does no harm; `LockSafe` says that it is the only such parse.
- A client that is killed after it has sent its request leaves it with the service:
  handleIPC answers the pipe (`ipc.cpp:104`), that is, whoever is connected by then, and the next
  client takes that for its own answer, as may the one after it (`OwnResponse`).
- No call of CreateEvent is checked (`service.cpp:67-68`, `ipc.cpp:48-49`). Without `stopEvent` or
  `ipcEvent` WaitForMultipleObjects fails, and the service stops from RUNNING without STOP_PENDING
  (`service.cpp:91-98`); a control handler at work then reports STOP_PENDING beside the
  clean-up or after STOPPED, and the SCM may be left with STOP_PENDING (`StatusForward`,
  `StopCompletes`). Without `threadDoneEvent` the wait of cleanUpIPC fails at once, which is not
  WAIT_TIMEOUT (`ipc.cpp:58`), and the pipe is closed under a running watchIPC
  (`HandlesOutliveThread`).
- Compressed inline data is not decompressed (`:293-294`), although compressed files
  are supported (`README.txt:35`).
- Data of raid0 and raid10 chunks makes `assert(result == 0)` (`:310`) fail
  (`ReadLogicalFails`); the second copy of raid1 and dup chunks is never tried.
- lzo-compressed files are supported (`README.txt:35`), but `lzoOutLen`
  is not initialised (`compression.cpp:24`) and taken as the room there is
  (`minilzo.c:4147`), later as left by the segment before; and padding between
  segments is not skipped. Either makes the read fail (`DecodingFailsForCause` excludes
  both). `lzoDecompress` compares sizes after it has written (`:50`): an extent that
  was partly overwritten is decoded as a whole into a buffer of `bytesInFile`
  bytes (`DecodingInBuffers` speaks of whole extents). After an error
  `zlibDecompress` returns without `inflateEnd`.
- "path MUST be validated for this to work properly" (`btrfs_operations.cpp:52`):
  `getPathID` validates into `vPath` and passes `path` (`:116-117`), so paths
  with doubled or trailing backslashes are not found. The validated root would be
  "", which `componentizePath` does not expect either.
- "Mounting subvolumes by name or ID" (`README.txt:30`): RTOP_SUBVOL_EXISTS compares
  the key's offset, the parent, with the ID (`roottree_parser.cpp:198`), so a subvolume
  without a subvolume in it is refused, and the special value 0 (`init.cpp:168`) is never
  reached. By name, the first subvolume of that name anywhere is taken, and one
  called "default" cannot be asked for.
- "ensure that Ctrl+C and other things will terminate the driver gracefully"
  (`WinBtrfsCLI/main.cpp:149`): `cleanUp` runs before the mount point is removed and beside
  the other threads, so a callback or `init` may use destroyed readers, two
  `cleanUp`s may delete one reader twice, and a volume that `init` mounts after
  DokanRemoveMountPoint leaves its mount point behind. `cleanUp` itself warns that it "may be very
  thread-unsafe" (`btrfs_system.cpp:46`).
- `supers[0]` is used for all trees, "it doesn't really matter" (`btrfs_system.cpp:244`);
  when devices have different generations verifyDevices only warns.
- The dump of the chunk tree compares with RTOP_DUMP_TREE (`chunktree_parser.cpp:82`), which
  is another number than CTOP_DUMP_TREE, and only says that it does not know the operation.
- `loadNode` reads, and `getTreeRootAddr` looks a tree up, inside `assert`
  (`btrfs_system.cpp:291, 306`): a Release build does neither and cannot mount a volume.
- "Btrfs seems to mark all files as symlinks" (`util.cpp:158`) and as sockets (`:163`):
  the file types of `stMode` are numbers, not bits, and testing their bits singly
  takes regular files for both, and directories for block devices (`:47`).

## 5. What is proved

**FileTable** (`FileTableProofs`). `AlwaysBalanced` says that in every behaviour, for
every finite set of handles, a file has as many opened records as open handles and as
many cleaned records as cleaned-up handles. `Balanced` is not inductive: moving a
record must not count it twice, and a handle's file must be a record's. The
invariant is

    Inv == TypeOK /\ Separate /\ Attached /\ Balanced

where `Separate` says that no record is both opened and cleaned, and `Attached`
that a handle in use refers to a file. Two lemmas, `GrowAlike` and `ShrinkAlike`,
carry the counting: equal finite cardinalities stay equal when both sets gain, or
lose, one element. `NeverEmpty` draws the consequence the code's asserts rely on.
`TableTypeCorrect` is a corollary.

**DokanCallbacks** (`DokanCallbacksProofs`). The inductive invariant is

    IInv == Local /\ Shared
    Local == TypeOK /\ Control /\ Pending /\ Iterating
    Shared == ExtentsOwnedOnce /\ Unattached /\ TableP!Inv

`Control` relates a thread's place to the phase of its handle, `Pending` says that
a record under construction has an array no list has, `Iterating` that the iterator
in use is at a record of the handle's file. `Shared` contains the abstract
invariant under the refinement mapping, which is why a search succeeds: the handle
is open, so by `Balanced` its file has a record. The proof takes the assumption
that there is one thread from the definition of `ThreadCount`. Steps that leave the
tables alone keep `Shared` by `SharedKept`; the three that change them
(`CreateInsertStep`, `CleanupMoveStep`, `CloseFreeStep`) are shown to be `Open`,
`Cleanup` and `Close` of the table, and keep `TableP!Inv` through its `NextInv`.
From `Invariance` follow `TypeCorrect`, `ExtentsSafe`, `SearchesSucceed`,
`IteratorsSafe`, `RecordsMatch`, and with the same three steps `Implementation`:
the specification implements `FileTable`.
The lists are handled through `ListLemmas` (what `InsertAt` and `RemoveAt` do to a
list's elements) and `InsertFresh` and `EraseOwn` (what the code's insert and erase
do to lists whose arrays are distinct).
`LockSafe` is inductive by itself (`LockIsSafe`): a step takes the lock on the way into the
parser and lets it go on the way out, or before the parent's inode is parsed, or finds the
mutex missing. `ListStaysSorted`: a new record
goes before the first that is larger, so `InsertAt` keeps the order, and
`RemoveAt` cannot break it.
`OnlyFailuresLose` is an action property: it follows each array through a step. `CreateLoad`
gives a new one to the record under construction, `CreateInsert` and `CleanupMove` pass it
on, `CloseFree` frees the one it drops; by `Control` no other return has a record to lose.

**ChunkMap** (`ChunkMapProofs`). `MapTranslatesRight`: for
any volumes that satisfy `DisksDescribed`, at every moment of loading and after. The
invariant is that every loaded item is one of the volume's
(`sbChunks` and `chunkTree` are sequences over its items, part of `MapTypeOK`). That is
enough: a range that fits in a chunk of the volume lies, on the device, in a stripe of
it, and since no two stripes overlap nothing else can be there (`Apart`).
`ChunkTreeIsReadable` needs to know what has been loaded so far. In `MapInv` each
activation is for the child that the one above it is at (`Chain`), and there is a set of
walked nodes that contains the children of each of its inner nodes and has all chunks of its
leaves in the map, while the items an activation has passed are dealt with (`Progressed`).
A node is read through the system chunks, which are complete before the walk begins, or a
chunk of the tree, which cannot disagree with them. When the walk ends the root is in that
set, so every chunk of the volume is in the map, which gives `RefusedForCause`.

**ReadFile** (`ReadFileProofs`). `ReadsTranslateRight`, `TreeIsReadable` and `RefusalHasCause`
carry the map's results over to requests, which leave it alone. `ReadTypes` and
`BufferIsRespected` rest on one invariant of the counters (`LoopInv`): while the loop runs, what
remains to be read is what lies between `offset` and `readEnd`, and what has been read
is `offset - readBegin`. An inline extent breaks the latter, because it counts in
another way than the others, and so inline data has to come last (`FilesDescribed`).
The contents follow from `ServedInv`: the buffer holds the file's bytes up to `offset` and
zeroes beyond (`DataInv`), and the extent the loop is at begins no later than `offset`,
so that none has been passed by that was needed (`PositionInv`). The proof takes the four ways an
extent meets a request one by one, and gives `PrefixIsRight` and `PlainReadsAreRight`.
For the decoders, `LzoDecodes` follows the loop: after k turns without an error all
variables are those of the first k segments (`Taken`), and the loop stops where the next
segment is not at the end of the last or is larger than the room; `ZlibDecodes` says
that the calls of `inflate` give the extent's bytes. From them come
`DecodingFailuresHaveCause` and `DecodingKeepsToBuffers`, for any number of segments.

**FSTree and PathLookup** (`FSTreeProofs`), for trees of any depth, any names, paths of any length
and any sequence of operations. The inductive invariant is

    LookupIInv == WalkIInv /\ mountedSubvol \in Volumes /\ LookupInv

`WalkIInv` is about the walk. The stack is a path down from the root (`StackOK`), and `Rest` is
the set of items it has yet to come to. `Recurse` and `ReturnFromNode` leave `Rest` as it is,
and a step at an item takes this item out of it and nothing else; what remains has greater keys. So what an operation has
found so far can be said in terms of `Rest`: NAME_TO_ID has passed no item with the name
(`NameInv`), GET_INODE still has the inode ahead (`InodeInv`), the extents of a FilePkg and
those ahead are together all of the file's (`PkgInv`), and DIR_LIST has one entry per link in the
items behind it, and as many without an inode as `returnCode` says (`ListInv`). The early exit is
right because keys ascend: once the walk is past an object ID nothing of it is in `Rest`.
At the end `Rest` is empty or the walk has been cut short, and `NameIsFound`, `InodeIsFound`, `FilePkgIsRight` and
`ListingIsComplete` follow.
`LookupInv` is about `getPathID`: the components before `i` are names and lead to
`childID` (`Progress`), and the walk under way is the one for the component at `i`
(`Walking`). For `LookupIsRight` that has to be said of the path and not of its components, so
the path lemmas (`PartsOfPath`, `CopiedOfPath`, `ValidatedComponents`, ...) relate what
`componentizePath` and `validatePath` make of a path to the names in it.
`LookupTypes` is a corollary.

**Startup** (`StartupProofs`). `NewestIsChosen` and `AcceptedAreTheirOwn` come from the
invariant of the loading: `sbBest` is at least as new as every valid copy read
so far (`BestSoFar`), and each accepted superblock is of its own device, unless two of them
have one device UUID (`OwnOrDuplicate`), so that `NoDuplicates` leaves only the former.
`SafeWithoutCtrlC` and `ExitClosesDevices` come from an invariant of the time before
Ctrl+C: the readers in the vector are those of the first devices, and the
others have been destroyed once `cleanUp` has begun (`ReadersLeft`), nobody holds a pointer to another, and what is mounted has a root (`QuietInv`). It needs
`RootTreesComplete`: an assert does fail on a root tree that refers to a root it does not have.
`StartTypes`, which Ctrl+C does not spare, adds the bounds on the vectors and on the two
threads' `cleanUp`s (`Loading`, `Cleaning`). `AskedIsMounted`: after each argument
`handleArgs` knows the one subvolume option so far or reports an error (`KnownAfter`),
and after the choice nothing changes what is asked for or found (`Asked`). `UnmountedInTheEnd` is a temporal
formula: once the volume has been mounted before `terminate` has removed the mount point,
it stays so or the mount point is gone for good (`Unmounting`), and the process exits only when
either thread has come to its end (`Ending`).

**Service** (`ServiceProofs`). `HandlesSafe`: for any set of clients and any
interleaving of the three threads and the time-outs, the pipe is closed only after
watchIPC has ended, unless threadDoneEvent is missing. The strengthening says that the thread has not started before
`create_events` (`NotStarted`), that threadDoneEvent is set only when the thread has
nothing left to do (`DoneIsLast`), and that past the join it has ended (`Joined`).

`ServiceTypes` and `TypeCorrect` give the types. `StatusMovesForward`: `status` and what
has been reported follow from where serviceMain is (`Phases`), which has closed everything
before it writes STOPPED (`Closing`); and when no event of the main loop is missing
serviceMain leaves that loop only after the handler has returned (`Asked`).
`ResponsesAreOwn`: each client's request is in one place at most, before the
service, in it, on the way back or received (`InOnePlace`); whoever has something on its way
either waits for it at the other end of the pipe or was killed or given another's
(`AllKept`); and the pipe is disconnected only when the client at its end is gone (`OnePeer`). A
killed client's request may outlive its connection in `serving`, so nothing can be said of
the peer alone.

All safety properties of the runs that pass are proved. Only model-checked: the
liveness properties `LookupEnds`, `MountsOrEnds`, `CtrlCEnds`, `RequestAnswered` and
`StopCompletes`, which the prover does not reach (it has no rules for ENABLED and
fairness), and the six disagreements, each of which is one behaviour.

No theorem uses induction over data with an operator as its predicate, which the provers
cannot instantiate. Where a loop of the code is a recursive function (`CopiedFrom`,
`PartsOf`, `LzoTurns`, `Followed`, `handleArgs`) or a walk goes through a tree, the
proof takes the least element of the set of turns at which the claim fails (`UpTo`
in `ListLemmas`), and `LoopValues` gives that such a function has the values its definition says.

## 6. Assumptions

*Constants.* `HandlesFinite`, `IDsNatural`, `NoFileNotID`, `PathsResolve` and
`LockValues` in `DokanCallbacks`; `HandlesFinite` and `NoFileIsNoFile` in `FileTable`;
`RequestsFit` and `DWordsNatural` in `ReadFile`; `NoClientIsNone` in `Service`;
`FSTreeIsNoSubvolume` and `ArgsListed` in `Startup`; `RootDirNatural` in `FSTree`;
`NodesTakeSpace` in `ChunkMap`; `LzoLengths` in `Compression`. They
say that marker values are not ordinary ones, that sizes and IDs are numbers, and that
paths lead to IDs. Others describe well-formed input, which the driver does not check:

- `DevicesDescribed`: the copies on one device have its UUID. `RootTreesComplete`: what the root
  tree refers to has a root.
- `DisksDescribed`: the chunk tree's nodes exist and stripes do not overlap.
  `ChunksDescribed`: chunks do not overlap, have the stripes of their kind, and these are on devices that
  are there. `TreeDescribed`: each node of the chunk tree is in a
  system chunk of the superblock that is not striped and can be read.
- `VolumesDescribed`: a tree's nodes are one level apart and its keys ascend; each object has its inode; an
  entry is under the hash of its name, and a directory has a name once.
  `SubvolumesDescribed`: an entry for a subvolume leads to a tree of this kind.
- `PathsDescribed`, `NamesDescribed`: Dokan's paths start with a backslash, and a name has
  none in it.
- `FilesDescribed`: inline data is last. `FilesTiled`: extents follow each other without a gap (a hole
  is an extent) as far as the file's size. `ExtentsWritten`: undamaged
  compressed data decodes to its extent; lzo data is cut into segments of which none is
  larger than the one before (`LzoWritten`), zlib data makes `inflate` progress (`ZlibWritten`).
  The theorems about types, the buffer's bounds and the map do not use the last two.

Each is used where the theorem would be false without it, and TLC evaluates all of them in
the runs, on the instances of section 3.

*Fairness.* `FSTree` and `PathLookup`: a walk or lookup that can go on does (it is a
function call). `Startup`: the main thread, the console's thread once Ctrl+C is pressed, and
a callback that has begun are scheduled; nobody need press Ctrl+C, unmount or call.
`Service`: watchIPC is scheduled (weak fairness);
serviceMain and the control handler are scheduled and, when they wait for the log's
mutex, get it although watchIPC keeps taking it, because Windows queues waiters
(strong fairness); a client whose read can complete completes it. Nothing makes
clients connect or the SCM stop the service. `DokanCallbacks`, `FileTable`, `ChunkMap` and
`ReadFile` claim safety only and assume no fairness.

*The environment.* The volume does not change while it is mounted. Dokan never uses
a handle after closing it and cleans up before it closes. `assert` ends the program.
Windows' mutexes, events and pipes behave as documented. WaitForMultipleObjects fails exactly
when one of its handles is no event's. A bad place of a disk is one for which the device
reports an error; reads come up short without one only beyond the end of a device, which
`Superblocks` models, and no stripe reaches there. While superblocks are loaded one
thread reads, so the wait for a block reader's mutex does not time out.

## 7. What is not modelled

- *Vendored code.* About 90% of the repository's lines are zlib (with minizip) and
  minilzo, which the driver calls through `inflate` and `lzo1x_decompress_safe`
  only; the models say what those calls do (`Compression`). The project's own source is some 5,200
  lines with headers and tools, of which the map names about 2,400.
- *Printing.* Most of what is left: FSOP_DUMP_TREE, RTOP_DUMP_TREE, the chunk tree's
  dump, and the strings of `util.cpp`. A dump reads the same nodes in
  the same order as the other operations and changes nothing.
- *Conversions without state*: the volume information callbacks, `convertMetadata`
  and `convertTime`, `crc32c` (a checksum is right or wrong, a hash may collide).
- *The recursion in the root tree*, which is that of `FSTree`'s walk; `Startup` takes
  the leaves' items in key order.
- *A device that cannot be opened* fails an assert at once (`block_reader.cpp:23`).
- *The error response* of `handleIPC` (`ipc.cpp:109-123`), unreachable while `mount` is a
  stub that returns 0.
- *Symbolic links, writing, locking*: callbacks that do nothing.
- The empty GUI; the test utilities.
