---------------------------- MODULE StartupProofs ----------------------------
(***************************************************************************)
(* The superblocks the driver goes on with, the subvolume it mounts and    *)
(* the mount point it leaves, for any devices, arguments and root tree and *)
(* whenever Ctrl+C is pressed; and that without Ctrl+C no block reader is  *)
(* misused.                                                                *)
(***************************************************************************)
EXTENDS Startup, ListLemmas

AllCopies == {devices[k][c] : k \in DOMAIN devices, c \in Copies}

(* A superblock of the device being loaded, or of one loaded before. *)
Seen(s) ==
    /\ IsSuperblock(s)
    /\ \E j \in DOMAIN slots : j <= Len(supers) + 1 /\ s \in OwnCopies(j)

Types ==
    /\ devices \in DeviceLists
    /\ blockReaders \in Seq(DOMAIN devices) /\ slots \in Seq(DOMAIN devices)
    /\ supers \in Seq(AllCopies)
    /\ copy \in Copies
    /\ DOMAIN sb = Copies
    /\ sb = [c \in Copies |-> sb[c]]

(* Nothing is loaded before loadSBs, and nothing past the last reader. *)
Progress ==
    /\ pc = "allocate" =>
          supers = <<>> /\ copy = 1 /\ \A c \in Copies : sb[c] = Uninitialised
    /\ pc = "loadSBs" => Len(supers) < Len(slots)

(* What is in a local variable comes from this device or an earlier one. *)
Locals ==
    /\ \A c \in Copies : sb[c] = Uninitialised \/ Seen(sb[c])
    /\ pc = "loadSBs" /\ copy > 1 => Seen(sbBest)

(* As soon as one left over from an earlier device is taken, there are two *)
(* with the same device UUID.                                              *)
OwnOrDuplicate ==
    \/ \A k \in DOMAIN supers : IsSuperblock(supers[k]) /\ supers[k] \in OwnCopies(k)
    \/ \E j, k \in DOMAIN supers : j # k /\ supers[j].device = supers[k].device

(* The best copy so far is not older than those that have been read. *)
BestSoFar ==
    pc = "loadSBs" /\ deleted = {} =>
        \A c \in 1 .. copy - 1 :
            LET s == devices[slots[Len(supers) + 1]][c]
            IN  IsSuperblock(s) /\ s.valid => sbBest.generation >= s.generation

Accepted == pc = "done" => \A k \in DOMAIN supers : supers[k] \in OwnCopies(k)

LoadInv ==
    Types /\ Progress /\ Locals /\ OwnOrDuplicate /\ BestSoFar /\ NewestChosen
    /\ Accepted

----------------------------------------------------------------------------

(* What is known of a superblock that has been seen.                       *)
LEMMA SeenFacts ==
    ASSUME Types, NEW s, Seen(s)
    PROVE  s \in AllCopies /\ s.generation \in Nat
<1>1. PICK j \in DOMAIN slots : s \in OwnCopies(j)
  BY DEF Seen
<1>2. slots[j] \in DOMAIN devices
  BY DEF Types
<1>3. PICK c \in Copies : s = devices[slots[j]][c]
  BY <1>1 DEF OwnCopies
<1> QED
  BY <1>2, <1>3, DevicesDescribed DEF Types, Seen, AllCopies

(* The copies on one device have the same device UUID.                     *)
LEMMA OneDevice ==
    ASSUME Types, NEW j \in DOMAIN slots, NEW s \in OwnCopies(j), NEW t \in OwnCopies(j)
    PROVE  s.device = t.device
<1>1. slots[j] \in DOMAIN devices
  BY DEF Types
<1>2. PICK c \in Copies : s = devices[slots[j]][c] /\ IsSuperblock(s)
  BY DEF OwnCopies
<1>3. PICK d \in Copies : t = devices[slots[j]][d] /\ IsSuperblock(t)
  BY DEF OwnCopies
<1> QED
  BY <1>1, <1>2, <1>3, DevicesDescribed DEF Types

(* The invariant holds before the first reader is allocated.               *)
LEMMA InitLoadInv == StartupInit => LoadInv
<1> SUFFICES ASSUME StartupInit PROVE LoadInv
  OBVIOUS
<1>1. Types
  BY DEF StartupInit, Init, Types, Copies
<1> QED
  BY <1>1 DEF StartupInit, Init, LoadInv, Progress, Locals, OwnOrDuplicate,
              BestSoFar, NewestChosen, Accepted, Copies

(* What a read leaves in the local variables has been seen, and is the     *)
(* copy on the device if that is a superblock.                             *)
LEMMA ReadSeen ==
    ASSUME LoadInv, pc = "loadSBs", directRead(copy)
    PROVE  /\ DOMAIN sb' = Copies /\ sb' = [c \in Copies |-> sb'[c]]
           /\ \A c \in Copies : sb'[c] = Uninitialised \/ Seen(sb'[c])
           /\ IsSuperblock(Read(copy)) => sb'[copy] = Read(copy)
           /\ deleted = {} => Read(copy) = devices[slots[Len(supers) + 1]][copy]
<1>1. Len(supers) + 1 \in DOMAIN slots
  BY DEF LoadInv, Progress, Types
<1>2. IsSuperblock(Read(copy)) => Seen(Read(copy))
  <2> SUFFICES ASSUME IsSuperblock(Read(copy)) PROVE Seen(Read(copy))
    OBVIOUS
  <2>1. Read(copy) = devices[slots[Len(supers) + 1]][copy]
    BY DEF Read, IsSuperblock
  <2>2. Read(copy) \in OwnCopies(Len(supers) + 1)
    BY <2>1 DEF OwnCopies, LoadInv, Types
  <2> QED
    BY <1>1, <2>2 DEF Seen, LoadInv, Types
<1>3. sb' = [sb EXCEPT ![copy] = IF IsSuperblock(Read(copy)) THEN Read(copy) ELSE @]
  BY DEF directRead
<1>4. copy \in Copies /\ DOMAIN sb = Copies
      /\ \A c \in Copies : sb[c] = Uninitialised \/ Seen(sb[c])
  BY DEF LoadInv, Types, Locals
<1>5. deleted = {} => Read(copy) = devices[slots[Len(supers) + 1]][copy]
  BY DEF Read
<1> QED
  BY <1>2, <1>3, <1>4, <1>5, Zenon

(* Of the best copy so far and one more that has been read, the newer is   *)
(* kept if it can be.                                                      *)
LEMMA BestOfCopy ==
    ASSUME LoadInv, pc = "loadSBs", copy > 1, directRead(copy), NEW best,
           best = IF /\ ReadSucceeds(copy) /\ validateSB(sb'[copy])
                     /\ Newer(sb'[copy], sbBest)
                  THEN sb'[copy] ELSE sbBest
    PROVE  /\ Seen(best)
           /\ deleted = {} =>
                 \A c \in 1 .. copy :
                    LET s == devices[slots[Len(supers) + 1]][c]
                    IN  IsSuperblock(s) /\ s.valid => best.generation >= s.generation
<1>1. Types /\ copy \in Copies /\ Seen(sbBest)
  BY DEF LoadInv, Types, Locals
<1>2. validateSB(sb'[copy]) => Seen(sb'[copy])
  BY <1>1, ReadSeen DEF validateSB, IsSuperblock
<1>3. Seen(best)
  BY <1>1, <1>2
<1>4. best.generation \in Nat /\ sbBest.generation \in Nat
  BY <1>1, <1>3, SeenFacts
<1>5. best.generation >= sbBest.generation
  <2>1. CASE best = sbBest
    BY <2>1, <1>4
  <2>2. CASE best = sb'[copy] /\ Newer(sb'[copy], sbBest)
    BY <2>2, <1>4 DEF Newer
  <2> QED
    BY <2>1, <2>2
<1>6. ASSUME deleted = {}, NEW c \in 1 .. copy,
             IsSuperblock(devices[slots[Len(supers) + 1]][c]),
             devices[slots[Len(supers) + 1]][c].valid
      PROVE  best.generation >= devices[slots[Len(supers) + 1]][c].generation
  <2> DEFINE s == devices[slots[Len(supers) + 1]][c]
  <2>1. s.generation \in Nat
    <3>1. Len(supers) + 1 \in DOMAIN slots /\ c \in Copies
      BY <1>1 DEF LoadInv, Progress, Types, Copies
    <3>2. slots[Len(supers) + 1] \in DOMAIN devices
      BY <3>1, <1>1 DEF Types
    <3> QED
      BY <1>6, <3>1, <3>2, <1>1, DevicesDescribed DEF Types
  <2>2. CASE c < copy
    <3>1. sbBest.generation >= s.generation
      BY <1>1, <1>6, <2>2 DEF LoadInv, BestSoFar, Copies
    <3> QED
      BY <3>1, <2>1, <1>4, <1>5
  <2>3. CASE c = copy
    <3>1. sb'[copy] = s /\ ReadSucceeds(copy) /\ validateSB(s)
      BY <1>6, <2>3, ReadSeen DEF ReadSucceeds, validateSB
    <3>2. CASE Newer(s, sbBest)
      BY <3>1, <3>2, <2>1
    <3>3. CASE ~Newer(s, sbBest)
      BY <3>1, <3>3, <2>1, <1>4 DEF Newer
    <3> QED
      BY <3>2, <3>3
  <2> QED
    BY <2>2, <2>3, <1>1 DEF Copies
<1> QED
  BY <1>3, <1>6

(* A superblock that has been seen remains so, for what the readers and    *)
(* the superblocks become.                                                 *)
LEMMA SeenRemains ==
    ASSUME Types, NEW s, Seen(s), UNCHANGED <<devices, slots>>,
           Len(supers') \in Nat, Len(supers') >= Len(supers)
    PROVE  Seen(s)'
<1>1. PICK j \in DOMAIN slots : j <= Len(supers) + 1 /\ s \in OwnCopies(j)
  BY DEF Seen
<1>2. j \in Nat /\ Len(supers) \in Nat
  BY DEF Types
<1>3. j <= Len(supers') + 1
  BY <1>1, <1>2
<1>4. OwnCopies(j)' = OwnCopies(j)
  BY DEF OwnCopies
<1> QED
  BY <1>1, <1>3, <1>4 DEF Seen

(* allocateBlockReaders keeps the invariant: nothing has been loaded.      *)
LEMMA AllocateKeeps ==
    ASSUME LoadInv, allocateBlockReader \/ EnterLoadSBs PROVE LoadInv'
<1>1. pc = "allocate" /\ UNCHANGED <<devices, sb, copy, sbBest, supers, deleted>>
  BY DEF allocateBlockReader, EnterLoadSBs
<1>2. Types'
  <2>1. CASE allocateBlockReader
    <3>1. Len(devices) \in Nat /\ DOMAIN devices = 1 .. Len(devices)
      BY DevicesDescribed DEF LoadInv, Types
    <3>2. Len(slots) + 1 \in DOMAIN devices
      BY <2>1, <3>1 DEF allocateBlockReader, LoadInv, Types
    <3> QED
      BY <1>1, <2>1, <3>2 DEF allocateBlockReader, LoadInv, Types, AllCopies
  <2>2. CASE EnterLoadSBs
    BY <1>1, <2>2 DEF EnterLoadSBs, LoadInv, Types, AllCopies
  <2> QED
    BY <2>1, <2>2
<1>3. supers = <<>> /\ copy = 1 /\ \A c \in Copies : sb[c] = Uninitialised
  BY <1>1 DEF LoadInv, Progress
<1>4. Progress'
  <2>1. CASE allocateBlockReader
    BY <1>1, <1>3, <2>1 DEF allocateBlockReader, Progress
  <2>2. CASE EnterLoadSBs
    BY <1>1, <1>3, <2>2 DEF EnterLoadSBs, Progress, LoadInv, Types
  <2> QED
    BY <2>1, <2>2
<1>5. pc' # "done"
  BY DEF allocateBlockReader, EnterLoadSBs
<1>6. (Locals /\ OwnOrDuplicate /\ BestSoFar /\ NewestChosen /\ Accepted)'
  BY <1>1, <1>3, <1>5 DEF Locals, OwnOrDuplicate, BestSoFar, NewestChosen, Accepted
<1> QED
  BY <1>2, <1>4, <1>6 DEF LoadInv

(* Reading the first three copies keeps the invariant.                     *)
LEMMA CopyKeeps ==
    ASSUME LoadInv, LoadPrimary \/ LoadSecondary PROVE LoadInv'
<1>1. /\ pc = "loadSBs" /\ directRead(copy)
      /\ UNCHANGED <<devices, supers, readerVars>>
      /\ pc' \in {"loadSBs", "exit"}
  BY DEF LoadPrimary, LoadSecondary, Exit
<1>2. copy \in Copies /\ copy' \in Copies
  BY DEF LoadPrimary, LoadSecondary, Exit, LoadInv, Types, Copies
<1>3. Types'
  BY <1>1, <1>2, ReadSeen DEF LoadInv, Types, AllCopies, readerVars
<1>4. Progress'
  BY <1>1 DEF LoadInv, Progress, readerVars
<1>5. \A s : Seen(s) => Seen(s)'
  BY <1>1, SeenRemains DEF LoadInv, Types, readerVars
<1>6. CASE LoadPrimary /\ pc' = "loadSBs"
  <2>1. copy = 1 /\ copy' = 2 /\ sbBest' = sb'[1] /\ validateSB(sb'[1])
    BY <1>6 DEF LoadPrimary, Exit
  <2>2. Seen(sbBest')
    BY <1>1, <2>1, ReadSeen DEF validateSB, IsSuperblock, Copies
  <2>3. Locals'
    BY <1>1, <1>5, <2>2, ReadSeen DEF Locals
  <2>4. BestSoFar'
    <3> SUFFICES ASSUME deleted = {},
                        IsSuperblock(devices[slots[Len(supers) + 1]][1])
                 PROVE  sbBest'.generation >=
                           devices[slots[Len(supers) + 1]][1].generation
      BY <1>1, <2>1 DEF BestSoFar, readerVars
    <3>1. sbBest' = devices[slots[Len(supers) + 1]][1]
      BY <1>1, <2>1, ReadSeen
    <3> QED
      BY <2>2, <3>1, SeenFacts DEF LoadInv
  <2> QED
    BY <1>1, <1>3, <1>4, <2>3, <2>4
    DEF LoadInv, OwnOrDuplicate, NewestChosen, Accepted, OwnCopies, readerVars
<1>7. CASE LoadSecondary
  <2>1. copy \in {2, 3} /\ copy' = copy + 1
    BY <1>7 DEF LoadSecondary
  <2>2. /\ Seen(sbBest')
        /\ deleted = {} =>
              \A c \in 1 .. copy :
                 LET s == devices[slots[Len(supers) + 1]][c]
                 IN  IsSuperblock(s) /\ s.valid => sbBest'.generation >= s.generation
    BY <1>1, <1>7, <2>1, BestOfCopy DEF LoadSecondary
  <2>3. Locals'
    BY <1>1, <1>5, <2>2, ReadSeen DEF Locals
  <2>4. BestSoFar'
    BY <1>1, <2>1, <2>2 DEF BestSoFar, readerVars
  <2> QED
    BY <1>1, <1>3, <1>4, <2>3, <2>4
    DEF LoadInv, OwnOrDuplicate, NewestChosen, Accepted, OwnCopies, readerVars
<1>8. CASE pc' = "exit"
  <2>1. Locals'
    BY <1>1, <1>5, <1>8, ReadSeen DEF Locals
  <2> QED
    BY <1>1, <1>3, <1>4, <1>8, <2>1
    DEF LoadInv, OwnOrDuplicate, BestSoFar, NewestChosen, Accepted, OwnCopies,
        readerVars
<1> QED
  BY <1>1, <1>6, <1>7, <1>8

(* So does adding the best copy of a device to the array: one left over    *)
(* from an earlier device has the UUID of the superblock of that device.   *)
LEMMA LastKeeps ==
    ASSUME LoadInv, LoadLast PROVE LoadInv'
<1>1. /\ pc = "loadSBs" /\ copy = 4 /\ directRead(copy)
      /\ UNCHANGED <<devices, readerVars>>
      /\ sbBest' = Uninitialised /\ copy' = 1
      /\ pc' = IF Len(supers') = Len(slots) THEN "verifyDevices" ELSE "loadSBs"
  BY DEF LoadLast
<1>2. PICK best : /\ supers' = Append(supers, best)
                  /\ best = IF /\ ReadSucceeds(copy) /\ validateSB(sb'[copy])
                               /\ Newer(sb'[copy], sbBest)
                            THEN sb'[copy] ELSE sbBest
  BY <1>1 DEF LoadLast
<1>3. /\ Seen(best)
      /\ deleted = {} =>
            \A c \in 1 .. copy :
               LET s == devices[slots[Len(supers) + 1]][c]
               IN  IsSuperblock(s) /\ s.valid => best.generation >= s.generation
  BY <1>1, <1>2, BestOfCopy
<1>4. Types /\ Len(supers) < Len(slots) /\ Len(supers) \in Nat
  BY <1>1 DEF LoadInv, Types, Progress
<1>5. supers' \in Seq(AllCopies) /\ Len(supers') = Len(supers) + 1
      /\ \A k \in DOMAIN supers' :
            supers'[k] = IF k = Len(supers) + 1 THEN best ELSE supers[k]
  BY <1>2, <1>3, <1>4, SeenFacts DEF Types
<1>6. DOMAIN supers' = DOMAIN supers \cup {Len(supers) + 1}
  BY <1>2, <1>4, <1>5 DEF Types
<1>7. Types'
  BY <1>1, <1>4, <1>5, ReadSeen DEF Types, AllCopies, readerVars, Copies
<1>8. Progress'
  BY <1>1, <1>4, <1>5 DEF Progress, readerVars, Types
<1>9. Locals'
  <2>1. \A s : Seen(s) => Seen(s)'
    BY <1>1, <1>4, <1>5, SeenRemains DEF readerVars
  <2> QED
    BY <1>1, <2>1, ReadSeen DEF Locals
<1>10. OwnOrDuplicate'
  <2>1. \A k : OwnCopies(k)' = OwnCopies(k)
    BY <1>1 DEF OwnCopies, readerVars
  <2>2. CASE \E j, k \in DOMAIN supers : j # k /\ supers[j].device = supers[k].device
    <3>1. PICK j, k \in DOMAIN supers : j # k /\ supers[j].device = supers[k].device
      BY <2>2
    <3>2. supers'[j] = supers[j] /\ supers'[k] = supers[k]
      BY <1>4, <1>5, <1>6 DEF Types
    <3> QED
      BY <1>6, <3>1, <3>2 DEF OwnOrDuplicate
  <2>3. CASE \A k \in DOMAIN supers : IsSuperblock(supers[k]) /\ supers[k] \in OwnCopies(k)
    <3>1. PICK j \in DOMAIN slots : j <= Len(supers) + 1 /\ best \in OwnCopies(j)
      BY <1>3 DEF Seen
    <3>2. CASE j = Len(supers) + 1
      BY <1>3, <1>5, <1>6, <2>1, <2>3, <3>1, <3>2 DEF OwnOrDuplicate, Seen
    <3>3. CASE j # Len(supers) + 1
      <4>1. j \in DOMAIN supers
        BY <1>4, <3>1, <3>3 DEF Types
      <4>2. supers[j].device = best.device
        BY <1>4, <2>3, <3>1, <4>1, OneDevice
      <4>3. supers'[j] = supers[j] /\ supers'[Len(supers) + 1] = best
        BY <1>5, <1>6, <3>3, <4>1
      <4> QED
        BY <1>6, <3>3, <4>1, <4>2, <4>3 DEF OwnOrDuplicate
    <3> QED
      BY <3>2, <3>3
  <2> QED
    BY <2>2, <2>3 DEF LoadInv, OwnOrDuplicate
<1>11. NewestChosen'
  <2> SUFFICES ASSUME deleted = {}, NEW k \in DOMAIN supers', NEW s \in OwnCopies(k),
                      s.valid
               PROVE  supers'[k].generation >= s.generation
    BY <1>1 DEF NewestChosen, OwnCopies, readerVars
  <2>1. CASE k \in DOMAIN supers
    <3>1. supers'[k] = supers[k]
      BY <1>4, <1>5, <1>6, <2>1 DEF Types
    <3> QED
      BY <2>1, <3>1 DEF LoadInv, NewestChosen
  <2>2. CASE k = Len(supers) + 1
    BY <1>1, <1>3, <1>5, <1>6, <2>2 DEF OwnCopies, Copies
  <2> QED
    BY <1>6, <2>1, <2>2
<1>12. BestSoFar' /\ Accepted'
  BY <1>1 DEF BestSoFar, Accepted
<1> QED
  BY <1>7, <1>8, <1>9, <1>10, <1>11, <1>12 DEF LoadInv

(* verifyDevices lets nothing pass that has two superblocks of one device. *)
LEMMA VerifyKeeps ==
    ASSUME LoadInv, verifyDevices PROVE LoadInv'
<1>1. /\ pc' \in {"done", "exit"}
      /\ pc' = "done" => NoDuplicates
      /\ UNCHANGED <<devices, sb, copy, sbBest, lastError, supers, readerVars>>
  BY DEF verifyDevices
<1>2. NoDuplicates => \A k \in DOMAIN supers : supers[k] \in OwnCopies(k)
  BY DEF LoadInv, OwnOrDuplicate, NoDuplicates
<1>3. Types'
  BY <1>1 DEF LoadInv, Types, AllCopies, readerVars
<1>4. (Progress /\ Locals /\ OwnOrDuplicate /\ BestSoFar /\ NewestChosen)'
  BY <1>1 DEF LoadInv, Progress, Locals, Seen, OwnOrDuplicate, BestSoFar,
              NewestChosen, OwnCopies, readerVars
<1>5. Accepted'
  BY <1>1, <1>2 DEF Accepted, OwnCopies, readerVars
<1> QED
  BY <1>3, <1>4, <1>5 DEF LoadInv

(* The rest of the driver does not touch the superblocks; it destroys      *)
(* readers, but brings none back.                                          *)
RestOfDriver ==
    /\ UNCHANGED <<devices, sb, copy, sbBest, supers, slots>>
    /\ blockReaders' \in Seq(DOMAIN devices)
    /\ deleted' = {} => deleted = {}
    /\ pc' = pc \/ pc' \notin {"allocate", "loadSBs", "done"}

LEMMA RestKeeps ==
    ASSUME LoadInv, RestOfDriver PROVE LoadInv'
<1>1. Types'
  BY DEF LoadInv, RestOfDriver, Types, AllCopies
<1>2. (Progress /\ Locals /\ OwnOrDuplicate)'
  BY DEF LoadInv, RestOfDriver, Progress, Locals, Seen, OwnOrDuplicate, OwnCopies
<1>3. (BestSoFar /\ NewestChosen /\ Accepted)'
  BY DEF LoadInv, RestOfDriver, BestSoFar, NewestChosen, Accepted, OwnCopies
<1> QED
  BY <1>1, <1>2, <1>3 DEF LoadInv

(* Every action but those of Superblocks is one of the rest.               *)
LEMMA StepKeeps == LoadInv /\ [StartupNext]_allVars => LoadInv'
<1> SUFFICES ASSUME LoadInv, [StartupNext]_allVars PROVE LoadInv'
  OBVIOUS
<1>1. CASE LoadVolume
  BY <1>1, AllocateKeeps, CopyKeeps, LastKeeps, VerifyKeeps DEF LoadVolume, Next
<1> SUFFICES ASSUME ~LoadVolume PROVE RestOfDriver
  BY <1>1, RestKeeps
<1>2. blockReaders \in Seq(DOMAIN devices)
  BY DEF LoadInv, Types
<1>3. CASE \/ ParseArgs \/ LoadCrashes \/ CtrlC \/ DokanRemoveMountPoint
           \/ TerminateExits \/ CallbackGetsReader \/ CallbackReads \/ Unmount
           \/ ExitProcess("main") \/ UNCHANGED allVars
  BY <1>2, <1>3
  DEF ParseArgs, LoadCrashes, Crash, CtrlC, DokanRemoveMountPoint, TerminateExits,
      consoleUnchanged, CallbackGetsReader, CallbackReads, callbackUnchanged, Unmount,
      ExitProcess, RestOfDriver, vars, allVars, readerVars
<1>4. CASE LoadChunkTreeAndDump \/ ChooseSubvol
  BY <1>2, <1>4
  DEF LoadChunkTreeAndDump, ChooseSubvol, Reads, Through, Crash, GoTo, RestOfDriver,
      vars, readerVars
<1>5. CASE DokanMain \/ DokanMainReturns
  BY <1>2, <1>5 DEF DokanMain, DokanMainReturns, GoTo, RestOfDriver, readerVars
<1>6. ASSUME NEW t \in Threads, CleanUp(t)
      PROVE  RestOfDriver
  <2>1. CASE EnterCleanUp(t)
    BY <1>2, <2>1 DEF EnterCleanUp, cleanUpUnchanged, RestOfDriver
  <2>2. CASE DeleteReader(t)
    BY <1>2, <2>2 DEF DeleteReader, Crash, cleanUpUnchanged, RestOfDriver, vars, readerVars
  <2>3. CASE PopReader(t)
    <3>1. blockReaders # <<>> => Front(blockReaders) \in Seq(DOMAIN devices)
      BY <1>2 DEF Front
    <3> QED
      BY <1>2, <2>3, <3>1
      DEF PopReader, Crash, cleanUpUnchanged, RestOfDriver, vars, readerVars
  <2> QED
    BY <1>6, <2>1, <2>2, <2>3 DEF CleanUp
<1> QED
  BY <1>3, <1>4, <1>5, <1>6 DEF StartupNext, MainStep, ConsoleStep, Threads

(* The volume is not taken back to an older state: no superblock the       *)
(* driver has loaded is older than a valid copy on its device, for any     *)
(* number of devices.                                                      *)
THEOREM NewestIsChosen == StartupSpec => []NewestChosen
<1>1. LoadInv => NewestChosen
  BY DEF LoadInv
<1> QED
  BY InitLoadInv, StepKeeps, <1>1, PTL DEF StartupSpec

(* Every device the driver goes on with is described by a superblock of    *)
(* its own, although one left over from an earlier device may have been    *)
(* looked at in its place.                                                 *)
THEOREM AcceptedAreTheirOwn == StartupSpec => []AcceptedAreOwn
<1>1. LoadInv => AcceptedAreOwn
  BY DEF LoadInv, Accepted, AcceptedAreOwn
<1> QED
  BY InitLoadInv, StepKeeps, <1>1, PTL DEF StartupSpec

----------------------------------------------------------------------------
(***************************************************************************)
(* Without Ctrl+C                                                          *)
(***************************************************************************)
HasRoot(id) == \E x \in ToSet(rootTree) : x.type = "ROOT_ITEM" /\ x.objectID = id

(* The reader r has been destroyed by main's cleanUp.                       *)
Gone(r) ==
    r > Len(blockReaders) \/ (r = Len(blockReaders) /\ "main" \in half)

(* The readers in the vector are those of the first devices; the others    *)
(* have been destroyed, once cleanUp has begun.                            *)
ReadersLeft ==
    /\ Len(blockReaders) <= Len(devices)
    /\ \A k \in DOMAIN blockReaders : blockReaders[k] = k
    /\ pc = "allocate" => slots = blockReaders
    /\ pc \notin {"allocate", "exit"} => Len(blockReaders) = Len(devices)
    /\ pc # "exit" => deleted = {} /\ half = {} /\ left["main"] = NotCleaning
    /\ pc = "exit" => deleted = {r \in DOMAIN devices : Gone(r)}
    /\ left["main"] = NotCleaning => half = {}
    /\ left["main"] = NotCleaning /\ pc = "exit" => Len(blockReaders) = Len(devices)
    /\ left["main"] # NotCleaning => left["main"] = Len(blockReaders)
    /\ "main" \in half => blockReaders # <<>>

Quiet ==
    console = "idle" =>
        /\ ~misused /\ process # "crashed"
        /\ ReadersLeft
        /\ left["console"] = NotCleaning /\ "console" \notin half
        /\ process = "exited" => left["main"] = 0 /\ pc = "exit"
        /\ pc = "verifyDevices" => supers # <<>>

(* A callback runs while the volume is mounted, and its tree exists. *)
Mounted ==
    /\ start \in Starts /\ devices = start.devices
    /\ DOMAIN left = Threads /\ half \subseteq Threads
    /\ mounted \/ callback # 0 => pc = "mounted"
    /\ pc \in {"mount", "mounted"} => HasRoot(mountedSubvol)

QuietInv == LoadInv /\ Quiet /\ Mounted

(* getTreeRootAddr finds the tree of every ID that has a root.             *)
LEMMA AddrFound ==
    ASSUME Mounted, NEW id, HasRoot(id) PROVE GET_ADDR(id) # 0
<1> DEFINE I == {k \in 1 .. Len(rootTree) :
                    rootTree[k].type = "ROOT_ITEM" /\ rootTree[k].objectID = id}
<1>1. Len(rootTree) \in Nat /\ DOMAIN rootTree = 1 .. Len(rootTree)
  BY RootTreesComplete DEF Mounted, rootTree
<1>2. I # {}
  BY <1>1 DEF HasRoot, ToSet
<1>3. I \subseteq Nat
  BY <1>1
<1>4. Min(I) \in I
  <2> HIDE DEF I
  <2> QED
    BY <1>2, <1>3, MinIsLeast
<1>5. GET_ADDR(id) = Min(I)
  BY <1>2 DEF GET_ADDR, SelectInSeq
<1> QED
  BY <1>4, <1>5

(* The subvolume init finds has a root.                                    *)
LEMMA ChosenHasRoot ==
    ASSUME Mounted, ChosenSubvol.found PROVE HasRoot(ChosenSubvol.id)
<1>1. Len(rootTree) \in Nat /\ DOMAIN rootTree = 1 .. Len(rootTree)
  BY RootTreesComplete DEF Mounted, rootTree
<1>2. /\ HasRoot(OBJID_FS_TREE)
      /\ \A x \in ToSet(rootTree) :
            /\ x.type = "DIR_ITEM" => HasRoot(x.child)
            /\ x.type = "ROOT_BACKREF" => HasRoot(x.objectID) /\ HasRoot(x.offset)
  BY RootTreesComplete DEF Mounted, rootTree, HasRoot
<1>3. ASSUME DEFAULT_SUBVOL # 0
      PROVE  HasRoot(rootTree[DEFAULT_SUBVOL].child)
  <2> DEFINE I == {k \in 1 .. Len(rootTree) :
                      rootTree[k].type = "DIR_ITEM"
                      /\ rootTree[k].objectID = OBJID_ROOT_TREE_DIR}
  <2>1. DEFAULT_SUBVOL = IF I # {} THEN Min(I) ELSE 0
    BY DEF DEFAULT_SUBVOL, SelectInSeq
  <2>2. DEFAULT_SUBVOL \in I
    BY <1>1, <1>3, <2>1, MinIsLeast
  <2> QED
    BY <1>1, <1>2, <2>2 DEF ToSet
<1>4. ASSUME NEW n, GET_SUBVOL_ID(n) # 0
      PROVE  HasRoot(rootTree[GET_SUBVOL_ID(n)].objectID)
  <2> DEFINE I == {k \in 1 .. Len(rootTree) :
                      rootTree[k].type = "ROOT_BACKREF" /\ rootTree[k].name = n}
  <2>1. GET_SUBVOL_ID(n) = IF I # {} THEN Min(I) ELSE 0
    BY DEF GET_SUBVOL_ID, SelectInSeq
  <2>2. GET_SUBVOL_ID(n) \in I
    BY <1>1, <1>4, <2>1, MinIsLeast
  <2> QED
    BY <1>1, <1>2, <2>2 DEF ToSet
<1>5. ASSUME NEW id, SUBVOL_EXISTS(id) # 0
      PROVE  HasRoot(id)
  <2> DEFINE I == {k \in 1 .. Len(rootTree) :
                      rootTree[k].type = "ROOT_BACKREF" /\ rootTree[k].offset = id}
  <2>1. SUBVOL_EXISTS(id) = IF I # {} THEN Min(I) ELSE 0
    BY DEF SUBVOL_EXISTS, SelectInSeq
  <2>2. SUBVOL_EXISTS(id) \in I
    BY <1>1, <1>5, <2>1, MinIsLeast
  <2> QED
    BY <1>1, <1>2, <2>2 DEF ToSet
<1> QED
  BY <1>2, <1>3, <1>4, <1>5 DEF ChosenSubvol, Named, NotFound, Subvol

(* Before the driver starts nothing has been opened.                       *)
LEMMA InitQuietInv == StartupInit => QuietInv
<1> SUFFICES ASSUME StartupInit PROVE QuietInv
  OBVIOUS
<1>1. LoadInv
  BY InitLoadInv
<1>2. Len(devices) \in Nat
  BY <1>1, DevicesDescribed DEF LoadInv, Types
<1>3. Quiet
  BY <1>2 DEF StartupInit, Init, Quiet, ReadersLeft, Gone, NotCleaning, Threads
<1>4. Mounted
  BY DEF StartupInit, Init, Mounted
<1> QED
  BY <1>1, <1>3, <1>4 DEF QuietInv

(* The superblocks' actions only read through readers that exist.          *)
LEMMA LoadVolumeQuiet ==
    ASSUME QuietInv, LoadVolume, process = "runs" PROVE Quiet' /\ Mounted'
<1>1. /\ UNCHANGED <<start, volumeInfo, mountedSubvol, mounted, console, callback,
                     left, half, process, devices, deleted>>
      /\ misused' = (misused \/ LoadsThroughDestroyed)
  BY DEF LoadVolume, Next, allocateBlockReader, EnterLoadSBs, LoadPrimary,
         LoadSecondary, LoadLast, verifyDevices, readerVars, Exit
<1>2. pc \in {"allocate", "loadSBs", "verifyDevices"}
      /\ pc' \in {"allocate", "loadSBs", "verifyDevices", "done", "exit"}
  BY DEF LoadVolume, Next, allocateBlockReader, EnterLoadSBs, LoadPrimary,
         LoadSecondary, LoadLast, verifyDevices, readerVars, Exit
<1>3. Mounted'
  BY <1>1, <1>2 DEF QuietInv, Mounted, HasRoot, rootTree
<1>4. Types /\ Len(devices) \in Nat /\ DOMAIN devices = 1 .. Len(devices) /\ devices # <<>>
  BY DevicesDescribed, RootTreesComplete DEF QuietInv, LoadInv, Types, Mounted
<1>5. ASSUME console = "idle"
      PROVE  ReadersLeft /\ deleted = {} /\ half = {} /\ left["main"] = NotCleaning
  BY <1>2, <1>5 DEF QuietInv, Quiet, ReadersLeft, Gone
<1>6. CASE allocateBlockReader
  <2> SUFFICES ASSUME console = "idle" PROVE Quiet'
    BY <1>1, <1>3 DEF Quiet
  <2>1. /\ pc = "allocate" /\ pc' = "allocate" /\ Len(slots) < Len(devices)
        /\ blockReaders' = Append(blockReaders, Len(slots) + 1)
        /\ slots' = Append(slots, Len(slots) + 1)
    BY <1>6 DEF allocateBlockReader
  <2>2. slots = blockReaders /\ blockReaders \in Seq(DOMAIN devices)
    BY <1>4, <1>5, <2>1 DEF ReadersLeft, Gone, Types
  <2>3. /\ blockReaders' = slots' /\ Len(blockReaders') = Len(blockReaders) + 1
        /\ \A k \in DOMAIN blockReaders' : blockReaders'[k] = k
    BY <1>4, <1>5, <2>1, <2>2 DEF ReadersLeft, Gone
  <2>4. ReadersLeft'
    BY <1>1, <1>4, <1>5, <2>1, <2>2, <2>3 DEF ReadersLeft, Gone
  <2> QED
    BY <1>1, <2>1, <2>4 DEF QuietInv, Quiet, LoadsThroughDestroyed
<1>7. CASE EnterLoadSBs
  <2> SUFFICES ASSUME console = "idle" PROVE Quiet'
    BY <1>1, <1>3 DEF Quiet
  <2>1. /\ pc = "allocate" /\ Len(slots) = Len(devices)
        /\ UNCHANGED blockReaders
        /\ pc' = IF blockReaders = <<>> THEN "verifyDevices" ELSE "loadSBs"
    BY <1>7 DEF EnterLoadSBs
  <2>2. slots = blockReaders /\ Len(devices) # 0
    BY <1>4, <1>5, <2>1, RootTreesComplete DEF ReadersLeft, Gone, QuietInv, Mounted
  <2>3. pc' = "loadSBs"
    BY <1>4, <2>1, <2>2 DEF Types
  <2> QED
    BY <1>1, <1>4, <1>5, <2>1, <2>2, <2>3
    DEF QuietInv, Quiet, ReadersLeft, Gone, LoadsThroughDestroyed
<1>8. CASE LoadPrimary \/ LoadSecondary \/ LoadLast \/ verifyDevices
  <2> SUFFICES ASSUME console = "idle" PROVE Quiet'
    BY <1>1, <1>3 DEF Quiet
  <2>1. UNCHANGED blockReaders /\ pc # "allocate" /\ pc' # "allocate"
    BY <1>8 DEF LoadPrimary, LoadSecondary, LoadLast, verifyDevices, readerVars, Exit
  <2>2. pc' = "verifyDevices" => supers' # <<>>
    <3>1. CASE LoadLast
      <4>1. PICK best : supers' = Append(supers, best)
        BY <3>1 DEF LoadLast
      <4>2. supers \in Seq(AllCopies \cup {best})
        BY <1>4 DEF Types
      <4> QED
        BY <4>1, <4>2
    <3>2. CASE ~LoadLast
      BY <1>8, <3>2 DEF LoadPrimary, LoadSecondary, verifyDevices, Exit
    <3> QED
      BY <3>1, <3>2
  <2>3. Len(blockReaders) = Len(devices)
    BY <1>2, <1>5, <2>1 DEF ReadersLeft, Gone
  <2>4. ReadersLeft'
    BY <1>1, <1>4, <1>5, <2>1, <2>3 DEF ReadersLeft, Gone
  <2> QED
    BY <1>1, <1>2, <1>5, <2>2, <2>4 DEF QuietInv, Quiet, LoadsThroughDestroyed
<1> QED
  BY <1>3, <1>6, <1>7, <1>8 DEF LoadVolume, Next

(* init and Dokan go through readers that exist, too, and look up trees    *)
(* that have roots.                                                        *)
LEMMA RunQuiet ==
    ASSUME QuietInv, process = "runs",
           \/ ParseArgs \/ LoadCrashes \/ LoadChunkTreeAndDump \/ ChooseSubvol
           \/ DokanMain \/ DokanMainReturns
           \/ CallbackGetsReader \/ CallbackReads \/ Unmount
    PROVE  Quiet' /\ Mounted'
<1>1. /\ UNCHANGED <<start, devices, blockReaders, slots, deleted, left, half, console,
                     supers>>
      /\ process' # "exited"
  BY DEF ParseArgs, LoadCrashes, LoadChunkTreeAndDump, ChooseSubvol, Reads, Through, GoTo,
         DokanMain, DokanMainReturns, CallbackGetsReader, CallbackReads,
         callbackUnchanged, Unmount, consoleUnchanged, Crash, vars, readerVars
<1>2. \A id : HasRoot(id)' = HasRoot(id)
  BY <1>1 DEF HasRoot, rootTree
<1>3. \/ pc' = pc /\ UNCHANGED mountedSubvol
      \/ pc = "done" /\ pc' \in {"exit", "subvolume"}
      \/ pc = "subvolume" /\ pc' = "exit"
      \/ pc = "subvolume" /\ pc' = "mount" /\ ChosenSubvol.found
         /\ mountedSubvol' = ChosenSubvol.id
      \/ pc = "mount" /\ pc' \in {"mounted", "exit"} /\ UNCHANGED mountedSubvol
      \/ pc = "mounted" /\ pc' = "exit"
  BY DEF ParseArgs, LoadCrashes, LoadChunkTreeAndDump, ChooseSubvol, Reads, Through, GoTo,
         DokanMain, DokanMainReturns, CallbackGetsReader, CallbackReads,
         callbackUnchanged, Unmount, consoleUnchanged, Crash, vars, readerVars
<1>4. pc' \in {"mount", "mounted"} => HasRoot(mountedSubvol')
  BY <1>3, ChosenHasRoot DEF QuietInv, Mounted
<1>5. mounted' \/ callback' # 0 => pc' = "mounted"
  BY DEF ParseArgs, LoadCrashes, LoadChunkTreeAndDump, ChooseSubvol, Reads, Through, GoTo,
         DokanMain, DokanMainReturns, CallbackGetsReader, CallbackReads,
         callbackUnchanged, Unmount, consoleUnchanged, Crash, vars, readerVars,
         QuietInv, Mounted
<1>6. Mounted'
  BY <1>1, <1>2, <1>4, <1>5 DEF QuietInv, Mounted
<1>7. ASSUME console = "idle"
      PROVE  ~misused' /\ process' # "crashed"
  <2>1. ~misused /\ process # "crashed" /\ (pc # "exit" => deleted = {})
    BY <1>7 DEF QuietInv, Quiet, ReadersLeft, Gone
  <2>2. callback # 0 => deleted = {}
    BY <2>1 DEF QuietInv, Mounted
  <2>3. CASE ParseArgs \/ DokanMain \/ DokanMainReturns \/ Unmount
    BY <2>1, <2>3 DEF ParseArgs, DokanMain, DokanMainReturns, GoTo, Unmount,
                      consoleUnchanged
  <2>4. ~LoadCrashes
    BY <1>7, <2>1 DEF QuietInv, Quiet, LoadCrashes, LoadsThroughDestroyed
  <2>5. CASE LoadChunkTreeAndDump
    <3>1. \A t \in DumpedTrees : GET_ADDR(t) # 0
      <4>1. \A t \in DumpedTrees : HasRoot(t)
        BY RootTreesComplete DEF QuietInv, Mounted, HasRoot, rootTree, DumpedTrees
      <4> QED
        BY <4>1, AddrFound DEF QuietInv
    <3> QED
      BY <2>1, <2>5, <3>1 DEF LoadChunkTreeAndDump, Reads, Through, GoTo
  <2>6. CASE ChooseSubvol
    BY <2>1, <2>6 DEF ChooseSubvol, Reads, Through, GoTo
  <2>7. CASE CallbackGetsReader
    <3>1. GET_ADDR(mountedSubvol) # 0
      BY <2>7, AddrFound DEF CallbackGetsReader, QuietInv, Mounted
    <3> QED
      BY <2>1, <2>7, <3>1 DEF CallbackGetsReader
  <2>8. CASE CallbackReads
    BY <2>1, <2>2, <2>8 DEF CallbackReads
  <2> QED
    BY <2>3, <2>4, <2>5, <2>6, <2>7, <2>8
<1>8. Quiet'
  <2> SUFFICES ASSUME console = "idle" PROVE Quiet'
    BY <1>1 DEF Quiet
  <2>1. ReadersLeft
    BY DEF QuietInv, Quiet
  <2>2. CASE pc' = pc
    BY <1>1, <1>7, <2>1, <2>2 DEF QuietInv, Quiet, ReadersLeft, Gone
  <2>3. CASE pc' # pc
    <3>1. /\ pc \in {"done", "subvolume", "mount", "mounted"}
          /\ pc' \in {"subvolume", "mount", "mounted", "exit"}
      BY <1>3, <2>3
    <3>2. Len(blockReaders) = Len(devices) /\ deleted = {} /\ half = {}
          /\ left["main"] = NotCleaning
      BY <2>1, <3>1 DEF ReadersLeft, Gone
    <3>3. {r \in DOMAIN devices : Gone(r)} = {}
      BY <3>2, DevicesDescribed DEF Gone, QuietInv, LoadInv, Types
    <3>4. ReadersLeft'
      BY <1>1, <2>1, <3>1, <3>2, <3>3 DEF ReadersLeft, Gone
    <3> QED
      BY <1>1, <1>7, <3>1, <3>4 DEF QuietInv, Quiet
  <2> QED
    BY <2>2, <2>3
<1> QED
  BY <1>6, <1>8

(* cleanUp on the main thread takes the readers from the last to the first *)
(* and destroys each of them once.                                         *)
LEMMA CleanUpQuiet ==
    ASSUME QuietInv, process = "runs", NEW t \in Threads,
           CleanUp(t) \/ (t = "main" /\ ExitProcess(t))
    PROVE  Quiet' /\ Mounted'
<1>1. /\ UNCHANGED <<start, devices, console, pc, supers, mounted, mountedSubvol,
                     callback, slots>>
  BY DEF CleanUp, EnterCleanUp, DeleteReader, PopReader, ExitProcess, Crash,
         cleanUpUnchanged, vars, readerVars
<1>2. Mounted'
  BY <1>1 DEF QuietInv, Mounted, HasRoot, rootTree, CleanUp, EnterCleanUp, DeleteReader,
              PopReader, ExitProcess, Crash, cleanUpUnchanged, vars
<1> SUFFICES ASSUME console = "idle" PROVE Quiet'
  BY <1>1, <1>2 DEF Quiet
<1>3. /\ ReadersLeft /\ ~misused /\ left["console"] = NotCleaning /\ "console" \notin half
      /\ DOMAIN left = Threads /\ half \subseteq Threads
  BY DEF QuietInv, Quiet, Mounted
<1>4. /\ blockReaders \in Seq(DOMAIN devices)
      /\ Len(devices) \in Nat /\ DOMAIN devices = 1 .. Len(devices)
  BY DevicesDescribed DEF QuietInv, LoadInv, Types
<1>5. t = "main" /\ pc = "exit"
  <2>1. left["main"] # NotCleaning => pc = "exit"
    BY <1>3 DEF ReadersLeft, Gone
  <2>2. left[t] > 0 \/ t \in half \/ CleansUp(t) \/ (t = "main" /\ left[t] = 0)
    BY DEF CleanUp, EnterCleanUp, DeleteReader, PopReader, ExitProcess
  <2> QED
    BY <1>3, <2>1, <2>2 DEF CleansUp, Threads, ReadersLeft, Gone, NotCleaning
<1>6. CASE EnterCleanUp(t)
  BY <1>1, <1>3, <1>4, <1>5, <1>6
  DEF EnterCleanUp, ReadersToDelete, QuietInv, Quiet, ReadersLeft, Gone, NotCleaning, Threads
<1>7. CASE DeleteReader(t)
  <2>1. left["main"] = Len(blockReaders) /\ blockReaders # <<>> /\ "main" \notin half
    BY <1>3, <1>4, <1>5, <1>7 DEF DeleteReader, ReadersLeft, Gone, NotCleaning
  <2>2. Last(blockReaders) = Len(blockReaders) /\ Len(blockReaders) \in DOMAIN devices
    BY <1>3, <1>4, <2>1 DEF Last, ReadersLeft, Gone
  <2>3. deleted = {r \in DOMAIN devices : r > Len(blockReaders)}
    <3>1. deleted = {r \in DOMAIN devices : Gone(r)}
      BY <1>3, <1>5 DEF ReadersLeft, Gone
    <3>2. \A r : r \in deleted <=> r \in DOMAIN devices /\ r > Len(blockReaders)
      BY <2>1, <3>1 DEF Gone
    <3> QED
      BY <3>1, <3>2
  <2>4. Last(blockReaders) \notin deleted
    BY <1>4, <2>2, <2>3
  <2>5. /\ deleted' = deleted \cup {Len(blockReaders)} /\ half' = half \cup {"main"}
        /\ UNCHANGED <<blockReaders, left, misused, process>>
    BY <1>5, <1>7, <2>1, <2>2, <2>4 DEF DeleteReader
  <2>6. deleted' = {r \in DOMAIN devices : r >= Len(blockReaders)}
    BY <1>4, <2>2, <2>3, <2>5
  <2>7. ReadersLeft'
    BY <1>1, <1>3, <1>4, <1>5, <2>1, <2>5, <2>6 DEF ReadersLeft, Gone, NotCleaning
  <2> QED
    BY <1>1, <1>3, <1>5, <2>5, <2>7 DEF QuietInv, Quiet
<1>8. CASE PopReader(t)
  <2>1. "main" \in half /\ blockReaders # <<>>
    BY <1>3, <1>5, <1>8 DEF PopReader, ReadersLeft, Gone
  <2>2. /\ blockReaders' = Front(blockReaders)
        /\ half' = half \ {"main"} /\ left' = [left EXCEPT !["main"] = @ - 1]
        /\ UNCHANGED <<deleted, misused, process>>
    BY <1>5, <1>8, <2>1 DEF PopReader
  <2>3. /\ Len(blockReaders') = Len(blockReaders) - 1
        /\ \A k \in DOMAIN blockReaders' : blockReaders'[k] = k
    <3>1. Len(blockReaders) \in Nat \ {0}
      BY <1>4, <2>1
    <3>2. Front(blockReaders) = [k \in 1 .. Len(blockReaders) - 1 |-> blockReaders[k]]
      BY <1>4, <3>1 DEF Front
    <3>3. \A k \in DOMAIN blockReaders : blockReaders[k] = k
      BY <1>3 DEF ReadersLeft, Gone
    <3>4. Len(Front(blockReaders)) = Len(blockReaders) - 1
      BY <3>1, <3>2
    <3> QED
      BY <1>4, <2>2, <3>1, <3>2, <3>3, <3>4
  <2>4. left["main"] = Len(blockReaders) /\ half = {"main"}
    BY <1>3, <2>1 DEF ReadersLeft, Gone, Threads
  <2>5. deleted = {r \in DOMAIN devices : r > Len(blockReaders')}
    <3>1. deleted = {r \in DOMAIN devices : Gone(r)}
      BY <1>3, <1>5 DEF ReadersLeft, Gone
    <3> QED
      BY <1>4, <2>1, <2>3, <3>1 DEF Gone
  <2>6. left'["main"] = Len(blockReaders') /\ half' = {} /\ left'["console"] = NotCleaning
    BY <1>3, <2>2, <2>3, <2>4 DEF Threads
  <2>7. Len(blockReaders') \in Nat /\ Len(blockReaders') <= Len(devices)
    <3>1. Len(blockReaders) \in Nat \ {0} /\ Len(blockReaders) <= Len(devices)
      BY <1>3, <1>4, <2>1 DEF ReadersLeft, Gone
    <3> QED
      BY <1>4, <2>3, <3>1
  <2>8. ReadersLeft'
    <3>1. left'["main"] # NotCleaning
      BY <2>6, <2>7 DEF NotCleaning
    <3>2. deleted' = {r \in DOMAIN devices : Gone(r)'}
      BY <1>4, <2>2, <2>5, <2>6, <2>7 DEF Gone
    <3> QED
      BY <1>1, <1>5, <2>3, <2>6, <2>7, <3>1, <3>2 DEF ReadersLeft, Gone
  <2> QED
    BY <1>1, <1>3, <1>5, <2>2, <2>6, <2>8 DEF QuietInv, Quiet
<1>9. CASE ExitProcess(t)
  BY <1>1, <1>3, <1>5, <1>9
  DEF ExitProcess, QuietInv, Quiet, ReadersLeft, Gone, vars, readerVars
<1> QED
  BY <1>5, <1>6, <1>7, <1>8, <1>9 DEF CleanUp

(* Once Ctrl+C has been pressed nothing of this is promised.               *)
LEMMA ConsoleQuiet ==
    ASSUME QuietInv, CtrlC \/ DokanRemoveMountPoint \/ TerminateExits
    PROVE  Quiet' /\ Mounted'
  BY DEF QuietInv, Quiet, Mounted, HasRoot, rootTree, CtrlC, DokanRemoveMountPoint,
         TerminateExits, consoleUnchanged, vars, readerVars

(* The invariant is kept by every step.                                    *)
LEMMA StepQuiet == QuietInv /\ [StartupNext]_allVars => QuietInv'
<1> SUFFICES ASSUME QuietInv, [StartupNext]_allVars PROVE Quiet' /\ Mounted'
  BY StepKeeps DEF QuietInv
<1>1. CASE UNCHANGED allVars
  BY <1>1 DEF allVars, startVars, vars, readerVars, QuietInv, Quiet, ReadersLeft, Gone, Mounted,
              HasRoot, rootTree
<1>2. CASE StartupNext
  BY <1>2, LoadVolumeQuiet, RunQuiet, CleanUpQuiet, ConsoleQuiet
  DEF StartupNext, MainStep, ConsoleStep, Threads
<1> QED
  BY <1>1, <1>2

(* Whatever the devices, the arguments and the root tree are, the driver   *)
(* does not crash, nor fail an assertion, nor use or destroy a reader that *)
(* has been destroyed, unless Ctrl+C has been pressed.                     *)
THEOREM SafeWithoutCtrlC == StartupSpec => []OnlyCtrlCIsUnsafe
<1>1. QuietInv => OnlyCtrlCIsUnsafe
  BY DEF QuietInv, Quiet, OnlyCtrlCIsUnsafe
<1> QED
  BY InitQuietInv, StepQuiet, <1>1, PTL DEF StartupSpec

(* When it exits, it has closed every device it had opened.                *)
THEOREM ExitClosesDevices == StartupSpec => []ClosedOnExit
<1>1. QuietInv => ClosedOnExit
  <2> SUFFICES ASSUME QuietInv, process = "exited", console = "idle"
               PROVE  deleted = DOMAIN devices /\ blockReaders = <<>>
    BY DEF ClosedOnExit
  <2>1. ReadersLeft /\ left["main"] = 0 /\ pc = "exit"
    BY DEF QuietInv, Quiet
  <2>2. blockReaders \in Seq(DOMAIN devices) /\ DOMAIN devices = 1 .. Len(devices)
        /\ Len(devices) \in Nat
    BY DevicesDescribed DEF QuietInv, LoadInv, Types
  <2>3. Len(blockReaders) = 0 /\ blockReaders = <<>>
    BY <2>1, <2>2 DEF ReadersLeft, Gone, NotCleaning
  <2> QED
    <3>1. deleted = {r \in DOMAIN devices : Gone(r)}
      BY <2>1 DEF ReadersLeft, Gone
    <3>2. \A r : r \in deleted <=> r \in DOMAIN devices
      BY <2>2, <2>3, <3>1 DEF Gone
    <3>3. deleted = DOMAIN devices
      BY <2>2, <3>1, <3>2
    <3> QED
      BY <2>3, <3>3
<1> QED
  BY InitQuietInv, StepQuiet, <1>1, PTL DEF StartupSpec

----------------------------------------------------------------------------
(***************************************************************************)
(* Types, whatever Ctrl+C does                                             *)
(***************************************************************************)

(* The superblocks that are taken have been validated, and there are never *)
(* more of them, or of readers, than there are devices.                    *)
Loading ==
    /\ pc \in {"allocate", "loadSBs", "verifyDevices"} \cup InStartup
    /\ lastError \in {"ERROR_SUCCESS", "ERROR_OTHER"}
    /\ Len(blockReaders) <= Len(slots) /\ Len(slots) <= Len(devices)
    /\ Len(supers) <= Len(slots)
    /\ \A k \in DOMAIN supers : Superblock(supers[k])
    /\ sbBest = Uninitialised \/ Superblock(sbBest)

(* Each thread's cleanUp counts down from at most the number of devices,   *)
(* and takes readers and pointers to them from the vector only.            *)
Cleaning ==
    /\ deleted \subseteq DOMAIN devices
    /\ callback \in {0} \cup DOMAIN devices
    /\ left \in [Threads -> {NotCleaning} \cup 0 .. Len(devices)]
    /\ \A t \in half : left[t] > 0
    /\ process \in {"runs", "usage", "crashed", "exited"}

TypesInv == QuietInv /\ Loading /\ Cleaning

LEMMA InitTypes == StartupInit => TypesInv
<1> SUFFICES ASSUME StartupInit PROVE TypesInv
  OBVIOUS
<1>1. QuietInv
  BY InitQuietInv
<1>2. Len(devices) \in Nat /\ devices = start.devices /\ supers = <<>>
      /\ blockReaders = <<>> /\ slots = <<>> /\ deleted = {}
  BY <1>1, DevicesDescribed DEF QuietInv, LoadInv, Types, StartupInit, Init
<1>3. Len(<<>>) = 0 /\ DOMAIN <<>> = {}
  BY EmptySeq
<1>4. Loading
  BY <1>2, <1>3 DEF StartupInit, Init, Loading
<1>5. Cleaning
  BY <1>2 DEF StartupInit, Cleaning
<1> QED
  BY <1>1, <1>4, <1>5 DEF TypesInv

(* What the superblocks' actions do to the types.                          *)
LEMMA LoadVolumeTyped ==
    ASSUME TypesInv, LoadVolume
    PROVE  Loading' /\ Cleaning'
<1>1. /\ UNCHANGED <<devices, deleted, callback, left, half, process>>
      /\ Next
  BY DEF LoadVolume, Next, allocateBlockReader, EnterLoadSBs, LoadPrimary,
         LoadSecondary, LoadLast, verifyDevices, readerVars, Exit
<1>2. Cleaning'
  BY <1>1 DEF TypesInv, Cleaning
<1>3. /\ Len(devices) \in Nat
      /\ blockReaders \in Seq(DOMAIN devices) /\ slots \in Seq(DOMAIN devices)
      /\ supers \in Seq(AllCopies)
  BY DevicesDescribed DEF TypesInv, QuietInv, LoadInv, Types
<1>4. Len(slots) \in Nat /\ Len(blockReaders) \in Nat /\ Len(supers) \in Nat
  BY <1>3
<1>5. CASE allocateBlockReader
  <2>1. /\ pc' = pc /\ pc = "allocate" /\ UNCHANGED <<lastError, supers, sbBest, devices>>
        /\ Len(slots) < Len(devices)
        /\ blockReaders' = Append(blockReaders, Len(slots) + 1)
        /\ slots' = Append(slots, Len(slots) + 1)
    BY <1>5 DEF allocateBlockReader
  <2>2. Len(blockReaders') = Len(blockReaders) + 1 /\ Len(slots') = Len(slots) + 1
    BY <1>3, <2>1
  <2> QED
    BY <1>2, <1>4, <1>3, <2>1, <2>2 DEF TypesInv, Loading
<1>6. CASE EnterLoadSBs
  <2>1. /\ pc' \in {"verifyDevices", "loadSBs"} /\ pc = "allocate"
        /\ UNCHANGED <<lastError, supers, sbBest, devices, blockReaders>>
        /\ slots' = blockReaders
    BY <1>6 DEF EnterLoadSBs
  <2>2. Len(supers) = 0
    BY <2>1, EmptySeq DEF TypesInv, QuietInv, LoadInv, Progress
  <2> QED
    BY <1>2, <1>3, <1>4, <2>1, <2>2 DEF TypesInv, Loading
<1>7. CASE LoadPrimary \/ LoadSecondary
  <2>1. /\ pc = "loadSBs" /\ pc' \in {"loadSBs", "exit"}
        /\ UNCHANGED <<supers, devices, blockReaders, slots>>
        /\ lastError' \in {lastError, "ERROR_OTHER"}
        /\ sbBest' = sbBest \/ \E c \in Copies : sbBest' = sb'[c] /\ validateSB(sb'[c])
    BY <1>7 DEF LoadPrimary, LoadSecondary, directRead, readerVars, Exit, Copies
  <2>2. sbBest' = Uninitialised \/ Superblock(sbBest')
    BY <2>1 DEF TypesInv, Loading, validateSB, Superblock
  <2> QED
    BY <1>2, <2>1, <2>2 DEF TypesInv, Loading, InStartup
<1>8. CASE LoadLast
  <2>1. PICK best : /\ supers' = Append(supers, best)
                    /\ best = IF ReadSucceeds(4) /\ validateSB(sb'[4]) /\ Newer(sb'[4], sbBest)
                              THEN sb'[4] ELSE sbBest
    BY <1>8 DEF LoadLast
  <2>2. /\ pc = "loadSBs" /\ copy = 4 /\ pc' \in {"loadSBs", "verifyDevices"}
        /\ UNCHANGED <<devices, blockReaders, slots>>
        /\ lastError' \in {lastError, "ERROR_OTHER"}
        /\ sbBest' = Uninitialised
    BY <1>8 DEF LoadLast, directRead, readerVars
  <2>3. Superblock(best)
    <3>1. IsSuperblock(sbBest)
      BY <2>2 DEF TypesInv, QuietInv, LoadInv, Locals, Seen
    <3>2. Superblock(sbBest)
      BY <3>1 DEF TypesInv, Loading, IsSuperblock
    <3> QED
      BY <2>1, <3>2 DEF validateSB, Superblock
  <2>4. Len(supers) < Len(slots)
    BY <2>2 DEF TypesInv, QuietInv, LoadInv, Progress
  <2>5. /\ Len(supers') = Len(supers) + 1
        /\ \A k \in DOMAIN supers' : supers'[k] = best \/ (k \in DOMAIN supers /\ supers'[k] = supers[k])
    <3>1. supers \in Seq(AllCopies \cup {best})
      BY <1>3
    <3> QED
      BY <2>1, <3>1
  <2> QED
    BY <1>2, <1>4, <2>2, <2>3, <2>4, <2>5 DEF TypesInv, Loading
<1>9. CASE verifyDevices
  BY <1>2, <1>9 DEF verifyDevices, readerVars, TypesInv, Loading, InStartup
<1> QED
  BY <1>1, <1>5, <1>6, <1>7, <1>8, <1>9 DEF Next

(* What the rest of the run does to the types.                             *)
LEMMA RunTyped ==
    ASSUME TypesInv,
           \/ ParseArgs \/ LoadCrashes \/ LoadChunkTreeAndDump \/ ChooseSubvol
           \/ DokanMain \/ DokanMainReturns \/ ExitProcess("main")
           \/ CtrlC \/ DokanRemoveMountPoint \/ TerminateExits
           \/ CallbackGetsReader \/ CallbackReads \/ Unmount \/ UNCHANGED allVars
    PROVE  Loading' /\ Cleaning'
<1>1. /\ UNCHANGED <<devices, lastError, blockReaders, slots, supers, sbBest, deleted,
                     left, half>>
      /\ pc' = pc \/ pc' \in InStartup
      /\ process' \in {process, "usage", "runs", "crashed", "exited"}
      /\ callback' \in {callback, 0} \cup {slots[k] : k \in DOMAIN supers}
  <2>1. CASE ParseArgs \/ LoadCrashes \/ ExitProcess("main")
    BY <2>1 DEF ParseArgs, LoadCrashes, Crash, ExitProcess, vars, readerVars
  <2>2. CASE LoadChunkTreeAndDump \/ ChooseSubvol
    BY <2>2 DEF LoadChunkTreeAndDump, ChooseSubvol, Reads, Through, Crash, GoTo, vars,
                readerVars, InStartup
  <2>3. CASE DokanMain \/ DokanMainReturns
    BY <2>3 DEF DokanMain, DokanMainReturns, GoTo, readerVars, InStartup
  <2>4. CASE CtrlC \/ DokanRemoveMountPoint \/ TerminateExits \/ Unmount
    BY <2>4 DEF CtrlC, DokanRemoveMountPoint, TerminateExits, Unmount, consoleUnchanged,
                vars, readerVars
  <2>5. CASE CallbackGetsReader \/ CallbackReads
    BY <2>5 DEF CallbackGetsReader, CallbackReads, callbackUnchanged, Crash, vars, readerVars
  <2>6. CASE UNCHANGED allVars
    BY <2>6 DEF allVars, startVars, vars, readerVars
  <2> QED
    BY <2>1, <2>2, <2>3, <2>4, <2>5, <2>6
<1>2. \A k \in DOMAIN supers : slots[k] \in DOMAIN devices
  BY DEF TypesInv, Loading, QuietInv, LoadInv, Types
<1>3. Loading'
  BY <1>1 DEF TypesInv, Loading
<1>4. Cleaning'
  BY <1>1, <1>2 DEF TypesInv, Cleaning
<1> QED
  BY <1>3, <1>4

(* What cleanUp does to them, on either thread.                            *)
LEMMA CleanUpTyped ==
    ASSUME TypesInv, NEW t \in Threads, CleanUp(t)
    PROVE  Loading' /\ Cleaning'
<1>1. /\ UNCHANGED <<devices, pc, lastError, slots, supers, sbBest, callback>>
      /\ process' \in {process, "crashed"}
  BY DEF CleanUp, EnterCleanUp, DeleteReader, PopReader, Crash, cleanUpUnchanged, vars,
         readerVars
<1>2. /\ Len(devices) \in Nat /\ DOMAIN devices = 1 .. Len(devices)
      /\ blockReaders \in Seq(DOMAIN devices) /\ slots \in Seq(DOMAIN devices)
      /\ Len(blockReaders) <= Len(slots) /\ Len(slots) <= Len(devices)
      /\ left \in [Threads -> {NotCleaning} \cup 0 .. Len(devices)]
      /\ \A u \in half : left[u] > 0
      /\ deleted \subseteq DOMAIN devices /\ half \subseteq Threads
  BY DevicesDescribed DEF TypesInv, QuietInv, LoadInv, Types, Loading, Cleaning, Mounted
<1>3. Len(blockReaders) \in Nat /\ Len(slots) \in Nat
  BY <1>2
<1>4. CASE EnterCleanUp(t)
  <2>1. /\ left[t] = NotCleaning /\ left' = [left EXCEPT ![t] = Len(blockReaders)]
        /\ UNCHANGED <<blockReaders, deleted, half>>
    BY <1>4 DEF EnterCleanUp, ReadersToDelete
  <2>2. t \notin half
    BY <1>2, <2>1 DEF NotCleaning
  <2>3. /\ left' \in [Threads -> {NotCleaning} \cup 0 .. Len(devices)]
        /\ \A u \in half : left'[u] > 0
    BY <1>2, <1>3, <2>1, <2>2
  <2> QED
    BY <1>1, <2>1, <2>3 DEF TypesInv, Loading, Cleaning
<1>5. CASE DeleteReader(t)
  <2>1. /\ left[t] > 0 /\ UNCHANGED <<blockReaders, left>>
        /\ half' \in {half, half \cup {t}}
        /\ \/ deleted' = deleted
           \/ blockReaders # <<>> /\ deleted' = deleted \cup {Last(blockReaders)}
    BY <1>5 DEF DeleteReader, Crash, vars, readerVars
  <2>2. blockReaders # <<>> => Last(blockReaders) \in DOMAIN devices
    BY <1>2 DEF Last
  <2> QED
    BY <1>1, <1>2, <2>1, <2>2 DEF TypesInv, Loading, Cleaning
<1>6. CASE PopReader(t)
  <2>1. CASE blockReaders = <<>>
    <3>1. UNCHANGED <<blockReaders, deleted, half, left>>
      BY <1>6, <2>1 DEF PopReader, Crash, vars, readerVars
    <3> QED
      BY <1>1, <3>1 DEF TypesInv, Loading, Cleaning
  <2>2. CASE blockReaders # <<>>
    <3>1. /\ t \in half /\ deleted' = deleted /\ blockReaders' = Front(blockReaders)
          /\ half' = half \ {t} /\ left' = [left EXCEPT ![t] = @ - 1]
      BY <1>6, <2>2 DEF PopReader
    <3>2. Len(blockReaders') = Len(blockReaders) - 1
      <4>1. Len(blockReaders) \in Nat \ {0}
        BY <1>2, <2>2
      <4>2. Front(blockReaders) = [k \in 1 .. Len(blockReaders) - 1 |-> blockReaders[k]]
        BY <1>2, <4>1 DEF Front
      <4> QED
        BY <3>1, <4>1, <4>2
    <3>3. left[t] - 1 \in 0 .. Len(devices)
      <4>1. left[t] \in {NotCleaning} \cup 0 .. Len(devices) /\ left[t] > 0
        BY <1>2, <3>1
      <4> QED
        BY <1>2, <4>1 DEF NotCleaning
    <3>4. /\ left' \in [Threads -> {NotCleaning} \cup 0 .. Len(devices)]
          /\ \A u \in half' : left'[u] > 0
      BY <1>2, <3>1, <3>3
    <3>5. Len(blockReaders') <= Len(slots)
      BY <1>2, <1>3, <3>2
    <3>6. Loading'
      BY <1>1, <3>5 DEF TypesInv, Loading
    <3>7. Cleaning'
      BY <1>1, <3>1, <3>4 DEF TypesInv, Cleaning
    <3> QED
      BY <3>6, <3>7
  <2> QED
    BY <2>1, <2>2
<1> QED
  BY <1>4, <1>5, <1>6 DEF CleanUp

LEMMA StepTyped == TypesInv /\ [StartupNext]_allVars => TypesInv'
<1> SUFFICES ASSUME TypesInv, [StartupNext]_allVars PROVE Loading' /\ Cleaning'
  BY StepQuiet DEF TypesInv
<1> QED
  BY LoadVolumeTyped, RunTyped, CleanUpTyped DEF StartupNext, MainStep, ConsoleStep, Threads

(* The driver's variables keep their types, with Ctrl+C too: the vector    *)
(* and cleanUp's counters stay within the devices, every superblock that   *)
(* is taken is valid, and the tree that is mounted has a root.             *)
THEOREM StartTypes == StartupSpec => []StartTypeOK
<1>1. TypesInv => StartTypeOK
  <2> SUFFICES ASSUME TypesInv PROVE StartTypeOK
    OBVIOUS
  <2>1. pc \in {"mount", "mounted"} => GET_ADDR(mountedSubvol) # 0
    BY AddrFound DEF TypesInv, QuietInv, Mounted
  <2>2. ASSUME pc \notin InStartup PROVE TypeOK
    <3>1. Len(supers) \in Nat /\ Len(slots) \in Nat /\ Len(devices) \in Nat
      BY DevicesDescribed DEF TypesInv, QuietInv, LoadInv, Types
    <3>2. Len(supers) <= Len(devices)
      BY <3>1 DEF TypesInv, Loading
    <3> QED
      BY <2>2, <3>2 DEF TypesInv, Loading, QuietInv, LoadInv, Types, TypeOK
  <2> QED
    BY <2>1, <2>2 DEF TypesInv, Loading, Cleaning, QuietInv, LoadInv, Types, StartTypeOK
<1> QED
  BY InitTypes, StepTyped, <1>1, PTL DEF StartupSpec

----------------------------------------------------------------------------
(***************************************************************************)
(* The subvolume                                                           *)
(***************************************************************************)

(* The arguments are parsed before anything else, and what they ask for is *)
(* not changed by what comes after the choice.                             *)
Asked ==
    /\ volumeInfo = UsageError \/ volumeInfo = handleArgs(start.args)
    /\ pc # "allocate" => volumeInfo # UsageError
    /\ pc \in {"mount", "mounted"} =>
          ChosenSubvol.found /\ mountedSubvol = ChosenSubvol.id

Options == {"subvol", "subvol-id"}

(* What handleArgs knows after k arguments: of one subvolume option among  *)
(* them, if there is one.                                                  *)
KnownAfter(args, k, info) ==
    \/ info = UsageError
    \/ /\ info.use = "nothing" /\ \A j \in 1 .. k : args[j].opt \notin Options
    \/ \E j \in 1 .. k :
          /\ args[j].opt \in Options /\ args[j].value = "ok"
          /\ info.use = args[j].opt /\ info.subvol = args[j].subvol
          /\ \A l \in 1 .. k : args[l].opt \in Options => l = j

Infos(args) ==
    {UsageError} \cup
    [ok : {TRUE}, noDump : BOOLEAN, dumpOnly : BOOLEAN, paths : Nat,
     use : {"nothing", "subvol", "subvol-id"},
     subvol : {0} \cup {args[k].subvol : k \in 1 .. Len(args)}]

(* One argument, in any state of the parsing.                              *)
LEMMA TakeArgKnows ==
    ASSUME NEW args, Len(args) \in Nat, NEW k \in 1 .. Len(args), NEW info \in Infos(args)
    PROVE  /\ TakeArg(info, args[k]) \in Infos(args)
           /\ KnownAfter(args, k - 1, info) => KnownAfter(args, k, TakeArg(info, args[k]))
<1> DEFINE arg == args[k]
           took == TakeArg(info, arg)
<1>1. k \in Nat /\ k - 1 \in Nat /\ 1 .. k = (1 .. k - 1) \cup {k} /\ k \notin 1 .. k - 1
  OBVIOUS
<1>2. UsageError \in Infos(args) /\ ~UsageError.ok /\ KnownAfter(args, k, UsageError)
  BY DEF Infos, UsageError, KnownAfter
<1>3. CASE took = UsageError
  BY <1>2, <1>3
<1>4. CASE took # UsageError
  <2>1. info.ok
    <3>1. SUFFICES ASSUME ~info.ok PROVE took = UsageError
      BY <1>4
    <3>2. info = UsageError
      BY <3>1 DEF Infos
    <3> QED
      BY <3>1, <3>2 DEF TakeArg
  <2>2. info # UsageError /\ info \in
          [ok : {TRUE}, noDump : BOOLEAN, dumpOnly : BOOLEAN, paths : Nat,
           use : {"nothing", "subvol", "subvol-id"},
           subvol : {0} \cup {args[j].subvol : j \in 1 .. Len(args)}]
    BY <1>2, <2>1 DEF Infos
  <2>3. CASE arg.opt \notin Options
    <3>1. \/ took = [info EXCEPT !.noDump = TRUE]
          \/ took = [info EXCEPT !.dumpOnly = TRUE]
          \/ took = [info EXCEPT !.paths = @ + 1]
      BY <1>4, <2>1, <2>3 DEF TakeArg, Options
    <3>2. took \in Infos(args) /\ took.use = info.use /\ took.subvol = info.subvol
      <4> DEFINE subvols == {0} \cup {args[j].subvol : j \in 1 .. Len(args)}
                 R == [ok : {TRUE}, noDump : BOOLEAN, dumpOnly : BOOLEAN, paths : Nat,
                       use : {"nothing", "subvol", "subvol-id"}, subvol : subvols]
      <4>1. info \in R
        BY <2>2
      <4> HIDE DEF subvols, took
      <4>2. took \in R /\ took.use = info.use /\ took.subvol = info.subvol
        <5>1. CASE took = [info EXCEPT !.noDump = TRUE]
          BY <4>1, <5>1
        <5>2. CASE took = [info EXCEPT !.dumpOnly = TRUE]
          BY <4>1, <5>2
        <5>3. CASE took = [info EXCEPT !.paths = @ + 1]
          <6> DEFINE w == info.paths + 1
          <6>1. w \in Nat /\ took = [info EXCEPT !.paths = w]
            BY <4>1, <5>3
          <6> HIDE DEF w
          <6> QED
            BY <4>1, <6>1
        <5> QED
          BY <3>1, <5>1, <5>2, <5>3
      <4> QED
        BY <4>2 DEF Infos, subvols
    <3>3. ASSUME KnownAfter(args, k - 1, info) PROVE KnownAfter(args, k, took)
      <4> HIDE DEF took
      <4>1. CASE info.use = "nothing" /\ \A j \in 1 .. k - 1 : args[j].opt \notin Options
        BY <1>1, <2>3, <3>2, <4>1 DEF KnownAfter
      <4>2. ASSUME NEW j \in 1 .. k - 1,
                   /\ args[j].opt \in Options /\ args[j].value = "ok"
                   /\ info.use = args[j].opt /\ info.subvol = args[j].subvol
                   /\ \A l \in 1 .. k - 1 : args[l].opt \in Options => l = j
            PROVE  KnownAfter(args, k, took)
        <5>1. j \in 1 .. k /\ \A l \in 1 .. k : args[l].opt \in Options => l = j
          BY <1>1, <2>3, <4>2
        <5> QED
          BY <3>2, <4>2, <5>1 DEF KnownAfter
      <4> QED
        BY <2>2, <3>3, <4>1, <4>2 DEF KnownAfter
    <3> QED
      BY <3>2, <3>3
  <2>4. CASE arg.opt \in Options
    <3>1. /\ arg.value = "ok" /\ info.use = "nothing"
          /\ took = [info EXCEPT !.use = arg.opt, !.subvol = arg.subvol]
      BY <1>4, <2>1, <2>4 DEF TakeArg, Options
    <3>2. took \in Infos(args) /\ took.use = arg.opt /\ took.subvol = arg.subvol
      <4>1. arg.subvol \in {0} \cup {args[j].subvol : j \in 1 .. Len(args)}
        OBVIOUS
      <4>2. arg.opt \in {"nothing", "subvol", "subvol-id"}
        BY <2>4 DEF Options
      <4> HIDE DEF arg
      <4> QED
        BY <2>2, <3>1, <4>1, <4>2 DEF Infos
    <3>3. ASSUME KnownAfter(args, k - 1, info) PROVE KnownAfter(args, k, took)
      <4> HIDE DEF took
      <4>1. \A j \in 1 .. k - 1 : args[j].opt \notin Options
        BY <2>2, <3>1, <3>3 DEF KnownAfter, Options
      <4>2. \A l \in 1 .. k : args[l].opt \in Options => l = k
        BY <1>1, <4>1
      <4> QED
        BY <1>1, <2>4, <3>1, <3>2, <4>2 DEF KnownAfter
    <3> QED
      BY <3>2, <3>3
  <2> QED
    BY <2>3, <2>4
<1> QED
  BY <1>3, <1>4

(* What handleArgs returns, for any number of arguments.                   *)
LEMMA ArgsKnown ==
    ASSUME NEW args, Len(args) \in Nat
    PROVE  KnownAfter(args, Len(args), handleArgs(args))
<1> DEFINE n == Len(args)
           V == Infos(args)
           step == [y \in (1 .. n) \X V |-> TakeArg(y[2], args[y[1]])]
           after == Taken(args)
<1>1. step \in [(1 .. n) \X V -> V]
  BY TakeArgKnows
<1>2. \A k \in 1 .. n, info \in V : step[<<k, info>>] = TakeArg(info, args[k])
  OBVIOUS
<1>3. NoArgs \in V /\ KnownAfter(args, 0, NoArgs)
  BY DEF NoArgs, Infos, KnownAfter
<1> HIDE DEF step, V
<1>4. PICK g : g \in [0 .. n -> V] /\ g[0] = NoArgs
               /\ \A k \in 1 .. n : g[k] = step[<<k, g[k - 1]>>]
  <2>1. step \in LoopOver(V, n) /\ n \in Nat
    BY <1>1 DEF LoopOver
  <2> HIDE DEF n
  <2>2. \E g : ValuesOf(g, V, n, NoArgs, step)
    BY <1>3, <2>1, LoopValues
  <2> QED
    BY <2>2 DEF ValuesOf
<1>5. \A k \in 1 .. n : k - 1 \in 0 .. n /\ k \in 0 .. n /\ k # 0
  OBVIOUS
<1>6. \A k \in 1 .. n : g[k] = TakeArg(g[k - 1], args[k])
  BY <1>2, <1>4, <1>5
<1>7. g = [k \in 0 .. n |-> IF k = 0 THEN NoArgs ELSE TakeArg(g[k - 1], args[k])]
  <2>1. \A k \in 0 .. n : k # 0 => k \in 1 .. n
    OBVIOUS
  <2>2. \A k \in 0 .. n :
           g[k] = IF k = 0 THEN NoArgs ELSE TakeArg(g[k - 1], args[k])
    BY <1>4, <1>6, <2>1, Zenon
  <2> QED
    BY <1>4, <2>2, Zenon
<1>8. after = [k \in 0 .. n |-> IF k = 0 THEN NoArgs ELSE TakeArg(after[k - 1], args[k])]
  BY <1>7, Zenon DEF Taken
<1> HIDE DEF after
<1>9. after[0] = NoArgs /\ \A k \in 1 .. n : after[k] = TakeArg(after[k - 1], args[k])
  BY <1>5, <1>8, 0 \in 0 .. n, Zenon
<1> DEFINE S == {k \in 0 .. n : after[k] \in V /\ KnownAfter(args, k, after[k])}
<1>10. 0 \in S
  BY <1>3, <1>9
<1>11. ASSUME NEW k \in 1 .. n, k - 1 \in S PROVE k \in S
  <2>1. after[k - 1] \in V /\ KnownAfter(args, k - 1, after[k - 1])
    BY <1>11
  <2>2. after[k] = TakeArg(after[k - 1], args[k])
    BY <1>9
  <2>3. after[k] \in V /\ KnownAfter(args, k, after[k])
    BY <2>1, <2>2, TakeArgKnows DEF V
  <2> QED
    BY <1>5, <2>3
<1>12. n \in S
  <2>1. n \in 0 .. n
    OBVIOUS
  <2> HIDE DEF S, n
  <2>2. 0 .. n \subseteq S
    BY <1>10, <1>11, UpTo DEF n
  <2> QED
    BY <2>1, <2>2
<1>13. handleArgs(args) \in {after[n], UsageError}
  BY Zenon DEF handleArgs, after
<1> QED
  BY <1>12, <1>13 DEF KnownAfter

LEMMA AskedKept == QuietInv /\ Asked /\ [StartupNext]_allVars => Asked'
<1> SUFFICES ASSUME QuietInv, Asked, [StartupNext]_allVars PROVE Asked'
  OBVIOUS
<1>1. start' = start
  BY DEF StartupNext, MainStep, ConsoleStep, ParseArgs, LoadVolume, LoadCrashes,
         LoadChunkTreeAndDump, ChooseSubvol, Reads, Through, Crash, GoTo, DokanMain,
         DokanMainReturns, CleanUp, EnterCleanUp, DeleteReader, PopReader, cleanUpUnchanged,
         ExitProcess, DokanRemoveMountPoint, TerminateExits, consoleUnchanged, CtrlC,
         CallbackGetsReader, CallbackReads, callbackUnchanged, Unmount, allVars, startVars
<1>2. CASE ParseArgs
  BY <1>1, <1>2 DEF ParseArgs, Asked, vars
<1>3. CASE ChooseSubvol
  <2>1. /\ pc = "subvolume" /\ UNCHANGED volumeInfo
        /\ \/ pc' = pc
           \/ pc' = "exit"
           \/ /\ pc' = "mount" /\ ChosenSubvol.found /\ mountedSubvol' = ChosenSubvol.id
    BY <1>3 DEF ChooseSubvol, Reads, Through, Crash, GoTo, vars
  <2>2. ChosenSubvol' = ChosenSubvol
    BY <1>1, <2>1
    DEF ChosenSubvol, DEFAULT_SUBVOL, GET_SUBVOL_ID, SUBVOL_EXISTS, Named, rootTree,
        SelectInSeq
  <2> QED
    BY <1>1, <2>1, <2>2 DEF Asked
<1>4. CASE ~ParseArgs /\ ~ChooseSubvol
  <2>1. /\ UNCHANGED <<volumeInfo, mountedSubvol>>
        /\ pc' # pc => pc # "allocate" \/ volumeInfo # UsageError
        /\ pc' \in {"mount", "mounted"} => pc \in {"mount", "mounted"}
    <3>1. CASE UNCHANGED allVars
      BY <3>1 DEF allVars, startVars, vars
    <3>2. CASE LoadVolume
      BY <3>2 DEF LoadVolume, Next, allocateBlockReader, EnterLoadSBs, LoadPrimary,
                  LoadSecondary, LoadLast, verifyDevices, Exit
    <3>3. CASE LoadCrashes \/ ExitProcess("main")
      BY <3>3 DEF LoadCrashes, Crash, ExitProcess, vars
    <3>4. CASE LoadChunkTreeAndDump
      BY <3>4 DEF LoadChunkTreeAndDump, Reads, Through, Crash, GoTo, vars
    <3>5. CASE DokanMain \/ DokanMainReturns
      BY <3>5 DEF DokanMain, DokanMainReturns, GoTo
    <3>6. CASE \E t \in Threads : CleanUp(t)
      BY <3>6 DEF CleanUp, EnterCleanUp, DeleteReader, PopReader, Crash, cleanUpUnchanged, vars
    <3>7. CASE CtrlC \/ DokanRemoveMountPoint \/ TerminateExits \/ Unmount
      BY <3>7 DEF CtrlC, DokanRemoveMountPoint, TerminateExits, Unmount, consoleUnchanged, vars
    <3>8. CASE CallbackGetsReader \/ CallbackReads
      BY <3>8 DEF CallbackGetsReader, CallbackReads, callbackUnchanged, Crash, vars
    <3> QED
      BY <1>4, <3>1, <3>2, <3>3, <3>4, <3>5, <3>6, <3>7, <3>8
      DEF StartupNext, MainStep, ConsoleStep, Threads
  <2>2. ChosenSubvol' = ChosenSubvol
    BY <1>1, <2>1
    DEF ChosenSubvol, DEFAULT_SUBVOL, GET_SUBVOL_ID, SUBVOL_EXISTS, Named, rootTree,
        SelectInSeq
  <2> QED
    BY <1>1, <2>1, <2>2 DEF Asked
<1> QED
  BY <1>2, <1>3, <1>4

(* Where the three ways to choose a subvolume take it from.                *)
LEMMA ChosenFrom ==
    ASSUME Mounted, ChosenSubvol.found
    PROVE  LET id == ChosenSubvol.id
               asked == volumeInfo.subvol
           IN  /\ volumeInfo.use = "nothing" =>
                     \E x \in ToSet(rootTree) : /\ x.type = "DIR_ITEM"
                                                /\ x.objectID = OBJID_ROOT_TREE_DIR
                                                /\ x.child = id
               /\ volumeInfo.use = "subvol" =>
                     \/ asked = "default" /\ id = OBJID_FS_TREE
                     \/ \E x \in ToSet(rootTree) :
                           x.type = "ROOT_BACKREF" /\ x.objectID = id /\ x.name = asked
               /\ volumeInfo.use \notin {"nothing", "subvol"} =>
                     id = IF asked = 0 THEN OBJID_FS_TREE ELSE asked
<1>1. Len(rootTree) \in Nat /\ DOMAIN rootTree = 1 .. Len(rootTree)
  BY RootTreesComplete DEF Mounted, rootTree
<1>2. CASE volumeInfo.use = "nothing"
  <2> DEFINE I == {k \in 1 .. Len(rootTree) :
                      rootTree[k].type = "DIR_ITEM"
                      /\ rootTree[k].objectID = OBJID_ROOT_TREE_DIR}
  <2>1. DEFAULT_SUBVOL = IF I # {} THEN Min(I) ELSE 0
    BY DEF DEFAULT_SUBVOL, SelectInSeq
  <2>2. DEFAULT_SUBVOL # 0 /\ ChosenSubvol.id = rootTree[DEFAULT_SUBVOL].child
    BY <1>2 DEF ChosenSubvol, NotFound, Subvol
  <2>3. DEFAULT_SUBVOL \in I
    <3>1. I \subseteq Nat /\ I # {} /\ DEFAULT_SUBVOL = Min(I)
      BY <1>1, <2>1, <2>2
    <3> HIDE DEF I
    <3> QED
      BY <3>1, MinIsLeast
  <2>4. DEFAULT_SUBVOL \in DOMAIN rootTree
    BY <1>1, <2>3
  <2> QED
    BY <1>2, <2>2, <2>3, <2>4 DEF ToSet
<1>3. CASE volumeInfo.use = "subvol" /\ volumeInfo.subvol # "default"
  <2> DEFINE n == volumeInfo.subvol
             I == {k \in 1 .. Len(rootTree) :
                      rootTree[k].type = "ROOT_BACKREF" /\ rootTree[k].name = n}
  <2>1. GET_SUBVOL_ID(n) = IF I # {} THEN Min(I) ELSE 0
    BY DEF GET_SUBVOL_ID, SelectInSeq
  <2>2. GET_SUBVOL_ID(n) # 0 /\ ChosenSubvol.id = rootTree[GET_SUBVOL_ID(n)].objectID
    BY <1>3 DEF ChosenSubvol, Named, NotFound, Subvol
  <2>3. GET_SUBVOL_ID(n) \in I
    <3>1. I \subseteq Nat /\ I # {} /\ GET_SUBVOL_ID(n) = Min(I)
      BY <1>1, <2>1, <2>2
    <3> HIDE DEF I
    <3> QED
      BY <3>1, MinIsLeast
  <2>4. GET_SUBVOL_ID(n) \in DOMAIN rootTree
    BY <1>1, <2>3
  <2> QED
    BY <1>3, <2>2, <2>3, <2>4 DEF ToSet
<1>4. CASE volumeInfo.use = "subvol" /\ volumeInfo.subvol = "default"
  BY <1>4 DEF ChosenSubvol, Subvol
<1>5. CASE volumeInfo.use \notin {"nothing", "subvol"}
  BY <1>5 DEF ChosenSubvol, NotFound, Subvol
<1> QED
  BY <1>2, <1>3, <1>4, <1>5

(* Whatever the arguments are, and in whatever order, the subvolume that   *)
(* is mounted is the one they ask for.                                     *)
THEOREM AskedIsMounted == StartupSpec => []AskedForMounted
<1>1. StartupInit => Asked
  BY DEF StartupInit, Init, Asked
<1>2. QuietInv /\ Asked => AskedForMounted
  <2> DEFINE O == {"subvol", "subvol-id"}
             given == {a \in ToSet(start.args) : a.opt \in O}
             args == start.args
  <2> SUFFICES ASSUME QuietInv, Asked, mounted
               PROVE  \/ /\ given = {}
                         /\ \E x \in ToSet(rootTree) :
                               /\ x.type = "DIR_ITEM" /\ x.objectID = OBJID_ROOT_TREE_DIR
                               /\ x.child = mountedSubvol
                      \/ \E a \in given :
                            /\ given = {a} /\ a.value = "ok"
                            /\ \/ /\ a.opt = "subvol-id"
                                  /\ mountedSubvol =
                                        IF a.subvol = 0 THEN OBJID_FS_TREE ELSE a.subvol
                               \/ /\ a.opt = "subvol"
                                  /\ \E x \in ToSet(rootTree) :
                                        /\ x.type = "ROOT_BACKREF"
                                        /\ x.objectID = mountedSubvol /\ x.name = a.subvol
                               \/ /\ a.opt = "subvol" /\ a.subvol = "default"
                                  /\ mountedSubvol = OBJID_FS_TREE
    BY Zenon DEF AskedForMounted
  <2>1. /\ Mounted /\ start \in Starts /\ pc = "mounted" /\ ChosenSubvol.found
        /\ mountedSubvol = ChosenSubvol.id
        /\ volumeInfo # UsageError /\ volumeInfo = handleArgs(args)
    BY DEF QuietInv, Mounted, Asked
  <2>2. Len(args) \in Nat /\ DOMAIN args = 1 .. Len(args)
    BY <2>1, ArgsListed
  <2>3. KnownAfter(args, Len(args), volumeInfo)
    BY <2>1, <2>2, ArgsKnown
  <2>4. \A a : a \in given <=> \E j \in 1 .. Len(args) : a = args[j] /\ args[j].opt \in O
    BY <2>2 DEF ToSet
  <2> HIDE DEF given, args
  <2>5. CASE volumeInfo.use = "nothing" /\ \A j \in 1 .. Len(args) : args[j].opt \notin Options
    <3>1. given = {}
      BY <2>4, <2>5 DEF Options
    <3> QED
      BY <2>1, <2>5, <3>1, ChosenFrom
  <2>6. ASSUME NEW j \in 1 .. Len(args),
               /\ args[j].opt \in Options /\ args[j].value = "ok"
               /\ volumeInfo.use = args[j].opt /\ volumeInfo.subvol = args[j].subvol
               /\ \A l \in 1 .. Len(args) : args[l].opt \in Options => l = j
        PROVE  \E a \in given :
                  /\ given = {a} /\ a.value = "ok"
                  /\ \/ /\ a.opt = "subvol-id"
                        /\ mountedSubvol = IF a.subvol = 0 THEN OBJID_FS_TREE ELSE a.subvol
                     \/ /\ a.opt = "subvol"
                        /\ \E x \in ToSet(rootTree) :
                              /\ x.type = "ROOT_BACKREF"
                              /\ x.objectID = mountedSubvol /\ x.name = a.subvol
                     \/ /\ a.opt = "subvol" /\ a.subvol = "default"
                        /\ mountedSubvol = OBJID_FS_TREE
    <3> DEFINE a == args[j]
    <3>1. a \in given /\ given = {a}
      BY <2>4, <2>6 DEF Options
    <3>2. a.opt = "subvol" \/ a.opt = "subvol-id"
      BY <2>6 DEF Options
    <3>3. CASE a.opt = "subvol"
      BY <2>1, <2>6, <3>1, <3>3, ChosenFrom
    <3>4. CASE a.opt = "subvol-id"
      <4>1. volumeInfo.use \notin {"nothing", "subvol"}
        BY <2>6, <3>4
      <4>2. mountedSubvol = IF a.subvol = 0 THEN OBJID_FS_TREE ELSE a.subvol
        BY <2>1, <2>6, <4>1, ChosenFrom
      <4> QED
        BY <2>6, <3>1, <3>4, <4>2
    <3> QED
      BY <3>2, <3>3, <3>4
  <2> QED
    BY <2>1, <2>3, <2>5, <2>6 DEF KnownAfter
<1> QED
  BY InitQuietInv, StepQuiet, AskedKept, <1>1, <1>2, PTL DEF StartupSpec

----------------------------------------------------------------------------
(***************************************************************************)
(* The mount point                                                         *)
(***************************************************************************)

(* The main thread only counts readers at the end, and only a thread that  *)
(* has cleaned up ends the process.                                        *)
Ending ==
    /\ pc # "exit" => left["main"] = NotCleaning
    /\ process = "exited" => pc = "exit" \/ console = "exit"

(* From the moment the volume is mounted, if terminate has not tried to    *)
(* remove the mount point before that, it is only taken away.              *)
Unmounting ==
    \/ pc = "mounted" /\ console # "exit" /\ process # "exited"
    \/ pc \in {"mounted", "exit"} /\ ~mounted

(* What the steps that are not cleanUp's do to the variables this is about. *)
LEMMA EndSteps ==
    ASSUME [StartupNext]_allVars, \A t \in Threads : ~CleanUp(t)
    PROVE  /\ left' = left
           /\ pc = "exit" => pc' = "exit"
           /\ process' = "exited" /\ process # "exited" =>
                 pc' = pc /\ console' = console /\ (left["main"] = 0 \/ console = "exit")
           /\ process = "exited" => UNCHANGED <<pc, console, process, mounted>>
           /\ console = "exit" => console' = "exit"
           /\ pc = "mounted" =>
                 /\ pc' = "mounted" \/ (pc' = "exit" /\ ~mounted')
                 /\ mounted' => mounted
                 /\ console' = "exit" => console = "exit" \/ ~mounted'
           /\ pc = "exit" => (mounted' => mounted)
<1>1. CASE UNCHANGED allVars
  BY <1>1 DEF allVars, startVars, vars
<1> SUFFICES ASSUME StartupNext PROVE
           /\ left' = left
           /\ pc = "exit" => pc' = "exit"
           /\ process' = "exited" =>
                 pc' = pc /\ console' = console /\ (left["main"] = 0 \/ console = "exit")
           /\ console = "exit" => console' = "exit"
           /\ pc = "mounted" =>
                 /\ pc' = "mounted" \/ (pc' = "exit" /\ ~mounted')
                 /\ mounted' => mounted
                 /\ console' = "exit" => console = "exit" \/ ~mounted'
           /\ pc = "exit" => (mounted' => mounted)
  BY <1>1 DEF StartupNext
<1>2. process = "runs"
  BY DEF StartupNext
<1>3. CASE ParseArgs
  BY <1>2, <1>3 DEF ParseArgs, vars
<1>4. CASE LoadVolume
  BY <1>2, <1>4 DEF LoadVolume, Next, allocateBlockReader, EnterLoadSBs, LoadPrimary,
                    LoadSecondary, LoadLast, verifyDevices, Exit
<1>5. CASE LoadCrashes \/ ExitProcess("main")
  BY <1>2, <1>5 DEF LoadCrashes, Crash, ExitProcess, vars
<1>6. CASE LoadChunkTreeAndDump \/ ChooseSubvol
  BY <1>2, <1>6 DEF LoadChunkTreeAndDump, ChooseSubvol, Reads, Through, Crash, GoTo, vars
<1>7. CASE DokanMain \/ DokanMainReturns
  BY <1>2, <1>7 DEF DokanMain, DokanMainReturns, GoTo
<1>8. CASE CtrlC \/ DokanRemoveMountPoint \/ TerminateExits \/ Unmount
  BY <1>2, <1>8
  DEF CtrlC, DokanRemoveMountPoint, TerminateExits, Unmount, consoleUnchanged, vars
<1>9. CASE CallbackGetsReader \/ CallbackReads
  BY <1>2, <1>9 DEF CallbackGetsReader, CallbackReads, callbackUnchanged, Crash, vars
<1> QED
  BY <1>3, <1>4, <1>5, <1>6, <1>7, <1>8, <1>9 DEF StartupNext, MainStep, ConsoleStep, Threads

(* What cleanUp's steps do to them.                                        *)
LEMMA CleanUpEnds ==
    ASSUME TypesInv, Ending, NEW t \in Threads, CleanUp(t)
    PROVE  /\ UNCHANGED <<pc, console, mounted>> /\ (process' = process \/ process' = "crashed")
           /\ pc # "exit" => left'["main"] = left["main"]
<1>1. /\ UNCHANGED <<pc, console, mounted>> /\ (process' = process \/ process' = "crashed")
      /\ left' = left \/ \E k : left' = [left EXCEPT ![t] = k]
  BY DEF CleanUp, EnterCleanUp, DeleteReader, PopReader, Crash, cleanUpUnchanged, vars
<1>2. DOMAIN left = Threads /\ left = [u \in Threads |-> left[u]]
  BY DEF TypesInv, QuietInv, Mounted, Cleaning
<1>3. ASSUME pc # "exit" PROVE t # "main"
  <2>1. left["main"] = NotCleaning /\ "main" \notin half
    BY <1>3 DEF Ending, TypesInv, Cleaning, NotCleaning
  <2> QED
    BY <1>3, <2>1
    DEF CleanUp, EnterCleanUp, DeleteReader, PopReader, CleansUp, NotCleaning
<1> QED
  BY <1>1, <1>2, <1>3 DEF Threads

LEMMA EndingKept == TypesInv /\ Ending /\ [StartupNext]_allVars => Ending'
<1> SUFFICES ASSUME TypesInv, Ending, [StartupNext]_allVars PROVE Ending'
  OBVIOUS
<1>1. CASE \E t \in Threads : CleanUp(t)
  BY <1>1, CleanUpEnds DEF Ending
<1>2. CASE \A t \in Threads : ~CleanUp(t)
  BY <1>2, EndSteps DEF Ending, NotCleaning
<1> QED
  BY <1>1, <1>2

LEMMA UnmountingKept ==
    TypesInv /\ Ending /\ Unmounting /\ [StartupNext]_allVars => Unmounting'
<1> SUFFICES ASSUME TypesInv, Ending, Unmounting, [StartupNext]_allVars PROVE Unmounting'
  OBVIOUS
<1>1. CASE \E t \in Threads : CleanUp(t)
  BY <1>1, CleanUpEnds DEF Unmounting
<1>2. CASE \A t \in Threads : ~CleanUp(t)
  BY <1>2, EndSteps DEF Unmounting, Ending, NotCleaning
<1> QED
  BY <1>1, <1>2

(* A mount point that is there before terminate removes it does not        *)
(* outlive the process, whichever thread ends it, and in whatever order    *)
(* the volume is unmounted, Ctrl+C is pressed and readers are destroyed.   *)
THEOREM UnmountedInTheEnd == StartupSpec => UnmountedAtExit
<1>1. StartupInit => Ending
  BY DEF StartupInit, Init, Ending, Threads
<1>2. Ending /\ pc = "mounted" /\ console # "exit" => Unmounting
  BY DEF Ending, Unmounting
<1>3. Ending /\ Unmounting => (process = "exited" => ~mounted)
  BY DEF Ending, Unmounting
<1> QED
  BY InitTypes, StepTyped, EndingKept, UnmountingKept, <1>1, <1>2, <1>3, PTL
  DEF StartupSpec, UnmountedAtExit

=============================================================================
