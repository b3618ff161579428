----------------------------- MODULE Superblocks -----------------------------
(***************************************************************************)
(* How the driver decides what volume it has been given: BlockReader       *)
(* (block_reader.cpp), allocateBlockReaders, loadSBs and verifyDevices     *)
(* (btrfs_system.cpp), in the order init.cpp calls them.                   *)
(*                                                                         *)
(* directRead reports the thread's last error when a read comes up short.  *)
(* A read that ends at the end of a device does not fail, so it does not   *)
(* set the last error, and what is reported is left over from some earlier *)
(* call: it may well be ERROR_SUCCESS.  The superblock the caller then     *)
(* looks at is whatever was in its local variable, which the previous turn *)
(* of the loop has used for the previous device.                           *)
(*                                                                         *)
(* All of this runs on the one thread that has started the driver.  What   *)
(* another thread may meanwhile do to the block readers is in Startup; a   *)
(* destroyed one has closed its handles, and reading through them fails.   *)
(***************************************************************************)
EXTENDS Naturals, Sequences

CONSTANTS
    DeviceLists,    \* the lists of devices the driver may be started with
    Short,          \* a copy the device has no room for: nothing is read
    Unreadable,     \* a copy the device reports an error for
    Uninitialised   \* a local variable nobody has written

(***************************************************************************)
(* A device is a function from 1..4 to its superblock copies; a copy is    *)
(* Short, Unreadable or a record                                           *)
(*     [valid, device, fsUUID, generation, numDevices].                    *)
(***************************************************************************)
Copies == 1 .. 4

IsSuperblock(s) == s \notin {Short, Unreadable, Uninitialised}

(* mkfs gives the copies on one device the same device UUID. *)
ASSUME DevicesDescribed ==
    \A list \in DeviceLists :
        /\ Len(list) \in Nat /\ DOMAIN list = 1 .. Len(list)
        /\ \A k \in DOMAIN list, c, d \in Copies :
              IsSuperblock(list[k][c]) =>
                  /\ list[k][c].generation \in Nat
                  /\ IsSuperblock(list[k][d]) => list[k][c].device = list[k][d].device

VARIABLES
    pc,         \* "allocate", "loadSBs", "verifyDevices", "done" or "exit"
    devices,    \* the devices, in the order of the command line
    sb,         \* the local variables sb1 to sb4
    copy,       \* the copy that is read next
    sbBest,     \* the best copy so far of this device
    lastError,  \* the thread's last-error code, "ERROR_SUCCESS" or another
    supers,     \* one superblock for each device
    blockReaders, \* the vector of readers, each known by its device's number
    slots,      \* its elements as they were put there, popped or not
    deleted     \* the readers that have been destroyed

readerVars == <<blockReaders, slots, deleted>>
vars == <<pc, devices, sb, copy, sbBest, lastError, supers, readerVars>>

Init ==
    /\ pc = "allocate"
    /\ devices \in DeviceLists
    /\ sb = [c \in Copies |-> Uninitialised]
    /\ copy = 1
    /\ sbBest = Uninitialised
    /\ lastError \in {"ERROR_SUCCESS", "ERROR_OTHER"}
    /\ supers = <<>>
    /\ blockReaders = <<>> /\ slots = <<>> /\ deleted = {}

(* Through the reader the iterator of loadSBs has reached. *)
Read(c) ==
    LET reader == slots[Len(supers) + 1]
    IN  IF reader \in deleted THEN Unreadable ELSE devices[reader][c]

(* Seeded fault: the checksum is not compared. *)
validMagic(s) == IsSuperblock(s)

validateSB(s) == IsSuperblock(s) /\ s.valid

----------------------------------------------------------------------------

(* One turn of the loop. *)
allocateBlockReader ==
    /\ pc = "allocate" /\ Len(slots) < Len(devices)
    /\ LET reader == Len(slots) + 1
       IN  /\ blockReaders' = Append(blockReaders, reader)
           /\ slots' = Append(slots, reader)
    /\ UNCHANGED <<pc, devices, sb, copy, sbBest, lastError, supers, deleted>>

(* loadSBs takes begin() and end() of the vector as it is now. *)
EnterLoadSBs ==
    /\ pc = "allocate" /\ Len(slots) = Len(devices)
    /\ slots' = blockReaders
    /\ pc' = IF blockReaders = <<>> THEN "verifyDevices" ELSE "loadSBs"
    /\ UNCHANGED <<devices, sb, copy, sbBest, lastError, supers, blockReaders, deleted>>

(* What directRead leaves in dest and in the last error, and returns.  Its *)
(* wait for the reader's mutex does not time out: while the superblocks    *)
(* are loaded no other thread reads.                                       *)
directRead(c) ==
    /\ sb' = [sb EXCEPT ![c] = IF IsSuperblock(Read(c)) THEN Read(c) ELSE @]
    /\ lastError' = IF Read(c) = Unreadable THEN "ERROR_OTHER" ELSE lastError

ReadSucceeds(c) == IsSuperblock(Read(c)) \/ lastError' = "ERROR_SUCCESS"

(* Seeded fault: the latest valid copy is taken, however old it is. *)
Later(s, best) == TRUE

Newer(s, best) == s.generation > best.generation

Exit == pc' = "exit" /\ UNCHANGED <<copy, sbBest, supers>>

LoadPrimary ==
    /\ pc = "loadSBs" /\ copy = 1
    /\ directRead(1)
    /\ IF ReadSucceeds(1) /\ validateSB(sb'[1])
       THEN /\ sbBest' = sb'[1]
            /\ copy' = 2
            /\ UNCHANGED <<pc, supers>>
       ELSE Exit
    /\ UNCHANGED <<devices, readerVars>>

(* Seeded fault: a copy that cannot be read is tried again. *)
RetrySecondary ==
    /\ pc = "loadSBs" /\ copy \in {2, 3}
    /\ directRead(copy)
    /\ sbBest' =
          IF ReadSucceeds(copy) /\ validateSB(sb'[copy]) /\ Newer(sb'[copy], sbBest)
          THEN sb'[copy] ELSE sbBest
    /\ copy' = IF ReadSucceeds(copy) THEN copy + 1 ELSE copy
    /\ UNCHANGED <<pc, devices, supers, readerVars>>

LoadSecondary ==
    /\ pc = "loadSBs" /\ copy \in {2, 3}
    /\ directRead(copy)
    /\ sbBest' =
          IF ReadSucceeds(copy) /\ validateSB(sb'[copy]) /\ Newer(sb'[copy], sbBest)
          THEN sb'[copy] ELSE sbBest
    /\ copy' = copy + 1
    /\ UNCHANGED <<pc, devices, supers, readerVars>>

(* The fourth copy; then the best one is added to the array. *)
LoadLast ==
    /\ pc = "loadSBs" /\ copy = 4
    /\ directRead(4)
    /\ LET best ==
             IF ReadSucceeds(4) /\ validateSB(sb'[4]) /\ Newer(sb'[4], sbBest)
             THEN sb'[4] ELSE sbBest
       IN  supers' = Append(supers, best)
    /\ sbBest' = Uninitialised
    /\ copy' = 1
    /\ pc' = IF Len(supers') = Len(slots) THEN "verifyDevices" ELSE pc
    /\ UNCHANGED <<devices, readerVars>>

----------------------------------------------------------------------------

SameVolume == \A i \in DOMAIN supers : supers[i].fsUUID = supers[1].fsUUID

(* Seeded fault: only neighbours are compared. *)
NoNeighbours ==
    \A i \in DOMAIN supers :
        i + 1 \in DOMAIN supers => supers[i].device # supers[i + 1].device

NoDuplicates ==
    \A i, j \in DOMAIN supers : supers[i].device = supers[j].device => i = j

NumDevicesAgree ==
    \A i \in DOMAIN supers : supers[i].numDevices = supers[1].numDevices

(* "must have at least one SB loaded" is asserted. *)
verifyDevices ==
    /\ pc = "verifyDevices" /\ supers # <<>>
    /\ pc' = IF /\ SameVolume
                /\ NoDuplicates
                /\ NumDevicesAgree
                /\ Len(blockReaders) = supers[1].numDevices
             THEN "done" ELSE "exit"
    /\ UNCHANGED <<devices, sb, copy, sbBest, lastError, supers, readerVars>>

Next ==
    \/ allocateBlockReader
    \/ EnterLoadSBs
    \/ LoadPrimary
    \/ LoadSecondary
    \/ LoadLast
    \/ verifyDevices

Spec == Init /\ [][Next]_vars /\ WF_vars(Next)

----------------------------------------------------------------------------
(***************************************************************************)
(* Properties                                                              *)
(***************************************************************************)
Superblock(s) == IsSuperblock(s) /\ s.valid

TypeOK ==
    /\ pc \in {"allocate", "loadSBs", "verifyDevices", "done", "exit"}
    /\ copy \in Copies
    /\ lastError \in {"ERROR_SUCCESS", "ERROR_OTHER"}
    /\ Len(supers) <= Len(devices)
    /\ \A i \in DOMAIN supers : Superblock(supers[i])
    /\ sbBest = Uninitialised \/ Superblock(sbBest)
    /\ blockReaders \in Seq(DOMAIN devices) /\ slots \in Seq(DOMAIN devices)

(* The superblocks found on the device behind the i-th reader. *)
OwnCopies(i) ==
    LET device == devices[slots[i]]
    IN  {device[c] : c \in {d \in Copies : IsSuperblock(device[d])}}

(* No superblock is older than one of the device's own copies that could   *)
(* be read and is valid (btrfs_system.cpp:148-172): an interrupted commit  *)
(* does not take the driver back to the state before it.                   *)
NewestChosen ==
    deleted = {} =>
        \A i \in DOMAIN supers :
            \A s \in OwnCopies(i) : s.valid => supers[i].generation >= s.generation

(* Devices that verifyDevices has accepted are each described by a         *)
(* superblock of their own, so that getBlockReader (btrfs_system.cpp:389-  *)
(* 400) takes a device ID to the right device: a superblock left over from *)
(* an earlier device always shows up as a duplicate.                       *)
AcceptedAreOwn ==
    pc = "done" => \A i \in DOMAIN supers : supers[i] \in OwnCopies(i)

(* "each device's primary superblock MUST validate" (btrfs_system.cpp:128) *)
(* before the driver goes on to the next device.                           *)
PrimaryMustValidate ==
    \A i \in DOMAIN supers : Superblock(devices[slots[i]][1])

=============================================================================
