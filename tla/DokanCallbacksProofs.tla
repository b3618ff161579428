------------------------ MODULE DokanCallbacksProofs ------------------------
(***************************************************************************)
(* The callbacks of DokanCallbacks keep the file table consistent and      *)
(* implement the multimap of FileTable, for every number of handles, every *)
(* volume and every heap, given the single dispatcher thread.              *)
(***************************************************************************)
EXTENDS DokanCallbacks, ListLemmas, FiniteSetTheorems, TLAPS

TableP == INSTANCE FileTableProofs WITH
    Records <- FilePkg,
    opened <- ToSet(openFiles),
    cleaned <- ToSet(cleanedUpFiles),
    phase <- phase,
    file <- context

----------------------------------------------------------------------------
(***************************************************************************)
(* Lists of records                                                        *)
(***************************************************************************)

(* A search ends at a node of the list that is one of those looked for, or *)
(* at the end if there is none.                                            *)
LEMMA FirstAtFinds ==
    ASSUME NEW s \in Seq(FilePkg), NEW S, S \subseteq DOMAIN s, S # {},
           NEW name \in {"openFiles", "cleanedUpFiles"}
    PROVE  /\ FirstAt(name, s, S) \in Iterators
           /\ \E i \in S : i \in NodeAt(s, name, FirstAt(name, s, S))
<1>1. Min(S) \in S
  <2>1. S \subseteq Nat  OBVIOUS
  <2> QED  BY <2>1, MinIsLeast
<1>2. s[Min(S)] \in FilePkg  BY <1>1
<1>3. s[Min(S)].extents \in Blocks  BY <1>2 DEF FilePkg
<1>4. FirstAt(name, s, S) = [list |-> name, node |-> s[Min(S)].extents]
  BY DEF FirstAt
<1>5. Min(S) \in NodeAt(s, name, FirstAt(name, s, S))
  BY <1>1, <1>4 DEF NodeAt
<1> QED  BY <1>1, <1>3, <1>4, <1>5 DEF Iterators

(* A search that matches nothing ends at the end of the list it searched.  *)
LEMMA FirstAtEnd ==
    ASSUME NEW s, NEW name
    PROVE  FirstAt(name, s, {}) = ListEnd
BY DEF FirstAt

(* Inserting a record with extents of its own.                             *)
LEMMA InsertFresh ==
    ASSUME NEW s \in Seq(FilePkg), NEW S, S \subseteq DOMAIN s,
           NEW p \in FilePkg, Distinct(s), p.extents \notin ExtentsIn(s)
    PROVE  /\ Insert(s, S, p) \in Seq(FilePkg)
           /\ ToSet(Insert(s, S, p)) = ToSet(s) \cup {p}
           /\ ExtentsIn(Insert(s, S, p)) = ExtentsIn(s) \cup {p.extents}
           /\ Distinct(Insert(s, S, p))
<1>1. PICK k \in 1 .. Len(s) + 1 : Insert(s, S, p) = InsertAt(s, k, p)
  <2>1. CASE S = {}  BY <2>1 DEF Insert
  <2>2. CASE S # {}
    <3>1. S \subseteq Nat  OBVIOUS
    <3>2. Min(S) \in DOMAIN s  BY <2>2, <3>1, MinIsLeast
    <3>3. Min(S) \in 1 .. Len(s) + 1  BY <3>2
    <3> QED  BY <2>2, <3>3 DEF Insert
  <2> QED  BY <2>1, <2>2
<1> DEFINE r == InsertAt(s, k, p)
<1>2. /\ r \in Seq(FilePkg) /\ Len(r) = Len(s) + 1
      /\ \A i \in 1 .. Len(s) + 1 :
            r[i] = IF i < k THEN s[i] ELSE IF i = k THEN p ELSE s[i - 1]
  BY InsertAtElements
<1>3. ToSet(r) = ToSet(s) \cup {p}  BY InsertAtSet
<1> HIDE DEF r
<1>4. \A q : ExtentsIn(q) = {x.extents : x \in ToSet(q)}
  BY DEF ExtentsIn, ToSet
<1>5. ExtentsIn(r) = ExtentsIn(s) \cup {p.extents}
  BY <1>3, <1>4
<1>6. Distinct(r)
  <2> SUFFICES ASSUME NEW i \in 1 .. Len(s) + 1, NEW j \in 1 .. Len(s) + 1,
                      r[i].extents = r[j].extents, i < j
               PROVE  FALSE
    BY <1>2 DEF Distinct
  <2>1. \A m \in 1 .. Len(s) : s[m].extents # p.extents  BY DEF ExtentsIn
  <2>2. \A m, n \in 1 .. Len(s) : s[m].extents = s[n].extents => m = n
    BY DEF Distinct
  <2>3. CASE i = k
    <3>1. r[i] = p /\ r[j] = s[j - 1] /\ j - 1 \in 1 .. Len(s)
      BY <1>2, <2>3
    <3> QED  BY <2>1, <3>1
  <2>4. CASE j = k
    <3>1. r[j] = p /\ r[i] = s[i] /\ i \in 1 .. Len(s)  BY <1>2, <2>4
    <3> QED  BY <2>1, <3>1
  <2>5. CASE i # k /\ j # k
    <3> DEFINE From(n) == IF n < k THEN n ELSE n - 1
    <3>1. \A n \in 1 .. Len(s) + 1 :
             n # k => From(n) \in 1 .. Len(s) /\ r[n] = s[From(n)]
      BY <1>2
    <3>2. From(i) # From(j)  BY <2>5
    <3> HIDE DEF From
    <3>3. /\ From(i) \in 1 .. Len(s) /\ r[i] = s[From(i)]
          /\ From(j) \in 1 .. Len(s) /\ r[j] = s[From(j)]
      BY <2>5, <3>1
    <3> QED  BY <2>2, <3>2, <3>3
  <2> QED  BY <2>3, <2>4, <2>5
<1> QED  BY <1>1, <1>2, <1>3, <1>5, <1>6 DEF r

(* Erasing a record whose extents are its own.                             *)
LEMMA EraseOwn ==
    ASSUME NEW s \in Seq(FilePkg), NEW k \in DOMAIN s, Distinct(s)
    PROVE  /\ s[k] \in FilePkg /\ s[k] \in ToSet(s)
           /\ Erase(s, k) \in Seq(FilePkg)
           /\ ToSet(Erase(s, k)) = ToSet(s) \ {s[k]}
           /\ ExtentsIn(Erase(s, k)) = ExtentsIn(s) \ {s[k].extents}
           /\ Distinct(Erase(s, k))
<1> DEFINE r == RemoveAt(s, k)
<1>1. k \in 1 .. Len(s)  OBVIOUS
<1>2. /\ r \in Seq(FilePkg) /\ Len(r) = Len(s) - 1
      /\ \A i \in 1 .. Len(s) - 1 : r[i] = IF i < k THEN s[i] ELSE s[i + 1]
  BY <1>1, RemoveAtElements
<1>3. \A i, j \in 1 .. Len(s) : s[i].extents = s[j].extents => i = j
  BY DEF Distinct
<1>4. ToSet(r) = ToSet(s) \ {s[k]}  BY <1>1, <1>3, RemoveAtSet
<1> HIDE DEF r
<1>5. s[k] \in FilePkg /\ s[k] \in ToSet(s)  BY DEF ToSet
<1>6. \A q : ExtentsIn(q) = {x.extents : x \in ToSet(q)}
  BY DEF ExtentsIn, ToSet
<1>7. \A x, y \in ToSet(s) : x.extents = y.extents => x = y
  BY <1>3 DEF ToSet
<1>8. ExtentsIn(r) = ExtentsIn(s) \ {s[k].extents}
  BY <1>4, <1>5, <1>6, <1>7
<1>9. Distinct(r)
  <2> SUFFICES ASSUME NEW i \in 1 .. Len(s) - 1, NEW j \in 1 .. Len(s) - 1,
                      r[i].extents = r[j].extents, i < j
               PROVE  FALSE
    BY <1>2 DEF Distinct
  <2> DEFINE From(n) == IF n < k THEN n ELSE n + 1
  <2>1. \A n \in 1 .. Len(s) - 1 :
           From(n) \in 1 .. Len(s) /\ r[n] = s[From(n)]
    BY <1>1, <1>2
  <2>2. From(i) # From(j)  BY <1>1
  <2> HIDE DEF From
  <2>3. /\ From(i) \in 1 .. Len(s) /\ r[i] = s[From(i)]
        /\ From(j) \in 1 .. Len(s) /\ r[j] = s[From(j)]
    BY <2>1
  <2> QED  BY <1>3, <2>2, <2>3
<1> QED  BY <1>2, <1>4, <1>5, <1>8, <1>9 DEF Erase, r

----------------------------------------------------------------------------
(***************************************************************************)
(* The inductive invariant                                                 *)
(***************************************************************************)

OnOpenFiles == {"cleanup_move", "info_convert", "find_lock", "find_list"}

(* What a thread's place in a callback says about its handle and locals.   *)
Control ==
    \A t \in Threads :
        /\ pc[t] = "idle" <=> cur[t] = NoHandle
        /\ pc[t] \in CreatePCs => path[t] \in Paths /\ phase[cur[t]] = "closed"
        /\ pc[t] \in {"create_parent", "create_insert"} <=> filePkg[t] # NoPkg
        /\ pc[t] \in OnOpenFiles => phase[cur[t]] = "open"
        /\ pc[t] = "close_free" => phase[cur[t]] = "cleaned"

(* A record under construction has an extents array of its own.            *)
Pending ==
    \A t \in Threads :
        filePkg[t] # NoPkg =>
            /\ filePkg[t].extents \in heap
            /\ filePkg[t].extents \notin ExtentsIn(openFiles)
            /\ filePkg[t].extents \notin ExtentsIn(cleanedUpFiles)

(* A closed handle has no FileID.                                          *)
Unattached == \A h \in Handles : phase[h] = "closed" => context[h] = NoFile

(* Where the iterator of a callback points.                                *)
At(s, name, t) ==
    \E i \in NodeAt(s, name, it[t]) : s[i].fileID = context[cur[t]]

Iterating ==
    \A t \in Threads :
        /\ pc[t] \in OnOpenFiles => At(openFiles, "openFiles", t)
        /\ pc[t] = "close_free" => At(cleanedUpFiles, "cleanedUpFiles", t)
        /\ pc[t] = "read_extents" =>
              \/ At(openFiles, "openFiles", t)
              \/ At(cleanedUpFiles, "cleanedUpFiles", t)
        /\ pc[t] = "create_insert" =>
              it[t] = ListEnd \/ NodeAt(openFiles, "openFiles", it[t]) # {}

Local == TypeOK /\ Control /\ Pending /\ Iterating
Shared == ExtentsOwnedOnce /\ Unattached /\ TableP!Inv

IInv == Local /\ Shared

----------------------------------------------------------------------------

(* init.cpp sets ThreadCount to 1: the callbacks run on one thread.        *)
LEMMA OneThread == Threads = {1}
BY DEF Threads, ThreadCount

(* The assumptions of FileTable hold of the records of the lists.          *)
LEMMA Assumptions ==
    /\ TableP!IsFiniteSet(Handles)
    /\ \A p \in FilePkg : p.fileID # NoFile
<1>1. TableP!IsFiniteSet(Handles)
  BY HandlesFinite DEF IsFiniteSet, TableP!IsFiniteSet
<1> QED  BY <1>1, NoFileNotID DEF FilePkg

(* The invariant holds of the empty lists that the mount starts with.      *)
LEMMA InitIInv ==
    ASSUME Init
    PROVE  IInv
<1>0. /\ openFiles = <<>> /\ cleanedUpFiles = <<>>
      /\ <<>> \in Seq(FilePkg) /\ DOMAIN <<>> = {}
  <2>1. <<>> \in Seq(FilePkg) /\ Len(<<>>) = 0  BY EmptySeq
  <2>2. \A q \in Seq(FilePkg) : Len(q) = 0 => DOMAIN q = {}
    BY LenProperties
  <2>3. DOMAIN <<>> = {}  BY <2>1, <2>2, Zenon
  <2> QED  BY <2>1, <2>3, Zenon DEF Init
<1>1. ToSet(openFiles) = {} /\ ToSet(cleanedUpFiles) = {}
  BY <1>0 DEF ToSet
<1>2. ExtentsIn(openFiles) = {} /\ ExtentsIn(cleanedUpFiles) = {}
  BY <1>0 DEF ExtentsIn
<1>3. TypeOK
  BY <1>0
     DEF Init, setupBigDokanLock, TypeOK, PCs, Results, Phases, Iterators
<1>4. Control  BY DEF Init, Control, CreatePCs, OnOpenFiles
<1>5. Pending  BY DEF Init, Pending
<1>6. Iterating  BY DEF Init, Iterating, OnOpenFiles
<1>7. ExtentsOwnedOnce  BY <1>0, <1>2 DEF Init, ExtentsOwnedOnce, Distinct
<1>8. Unattached  BY DEF Init, Unattached
<1>9. TableP!Init  BY <1>1 DEF Init, TableP!Init
<1>10. TableP!Inv  BY <1>9, Assumptions, TableP!InitInv
<1> QED
  BY <1>3, <1>4, <1>5, <1>6, <1>7, <1>8, <1>10 DEF IInv, Local, Shared

(* A step that leaves the lists and the handles alone keeps what is shared.*)
LEMMA SharedKept ==
    ASSUME Shared, UNCHANGED <<openFiles, cleanedUpFiles, phase, context>>,
           heap \subseteq heap'
    PROVE  Shared'
<1>1. UNCHANGED TableP!vars  BY DEF TableP!vars, ToSet
<1>2. TableP!Inv'  BY <1>1, Assumptions, TableP!NextInv DEF Shared
<1> QED
  BY <1>2 DEF Shared, ExtentsOwnedOnce, Distinct, ExtentsIn, Unattached

----------------------------------------------------------------------------
(***************************************************************************)
(* The steps that leave the lists alone                                    *)
(***************************************************************************)

(* A callback that returns without having changed the lists.               *)
LEMMA ReturnKeeps ==
    ASSUME IInv, NEW t \in Threads, NEW code \in Results, Return(t, code),
           hBigDokanLock' \in Threads \cup {NoThread, NullMutex},
           UNCHANGED <<openFiles, cleanedUpFiles, phase, context>>,
           heap \subseteq heap', heap' \subseteq Blocks
    PROVE  IInv'
<1> USE OneThread DEF IInv, Local
<1>1. TypeOK'  BY DEF Return, TypeOK, PCs, Iterators
<1>2. Control'  BY DEF Return, TypeOK, Control, CreatePCs, OnOpenFiles
<1>3. Pending'  BY DEF Return, TypeOK, Pending
<1>4. Iterating'  BY DEF Return, TypeOK, Iterating, OnOpenFiles
<1>5. Shared'  BY SharedKept
<1> QED  BY <1>1, <1>2, <1>3, <1>4, <1>5

(* A callback that returns before it has touched the lists, or only reads  *)
(* a record, keeps the invariant: its thread is done and nothing else      *)
(* changes.                                                                *)
LEMMA EarlyReturns ==
    ASSUME IInv, NEW t \in Threads,
           \/ CreateTimeout(t) \/ CreateNoPath(t) \/ CreateNoPkg(t)
           \/ CreateNoParent(t)
           \/ ReadExtents(t) \/ ConvertMetadata(t)
           \/ FindList(t)
           \/ \E h \in Handles : FindFilesOfFile(t, h)
    PROVE  IInv'
<1> DEFINE Done(code) ==
       /\ Return(t, code)
       /\ hBigDokanLock' \in Threads \cup {NoThread, NullMutex}
       /\ UNCHANGED <<openFiles, cleanedUpFiles, phase, context>>
       /\ heap \subseteq heap' /\ heap' \subseteq Blocks
<1>0. TypeOK  BY DEF IInv, Local
<1>1. ASSUME NEW code \in Results, Done(code)
      PROVE  IInv'
  BY <1>1, ReturnKeeps
<1> USE <1>0 DEF TypeOK, Results, Release, tables, dokan
<1>2. CASE CreateTimeout(t)
  <2>1. Done("-ERROR_SEM_TIMEOUT")  BY <1>2 DEF CreateTimeout
  <2> QED  BY <1>1, <2>1
<1>3. CASE CreateNoPath(t)
  <2>1. Done("-ERROR_FILE_NOT_FOUND")  BY <1>3 DEF CreateNoPath
  <2> QED  BY <1>1, <2>1
<1>4. CASE CreateNoParent(t)
  <2>1. Done("-ERROR_FILE_NOT_FOUND")  BY <1>4 DEF CreateNoParent
  <2> QED  BY <1>1, <2>1
<1>5. CASE ReadExtents(t)
  <2>1. Done("ERROR_SUCCESS")  BY <1>5 DEF ReadExtents
  <2> QED  BY <1>1, <2>1
<1>6. CASE ConvertMetadata(t)
  <2>1. Done("ERROR_SUCCESS")  BY <1>6 DEF ConvertMetadata
  <2> QED  BY <1>1, <2>1
<1>7. CASE FindList(t)
  <2>1. PICK code \in {"ERROR_SUCCESS", "-ERROR_PATH_NOT_FOUND"} :
            Return(t, code)
    BY <1>7 DEF FindList
  <2>2. Done(code)  BY <1>7, <2>1 DEF FindList
  <2> QED  BY <1>1, <2>2
<1>8. CASE \E h \in Handles : FindFilesOfFile(t, h)
  <2>1. Done("-ERROR_DIRECTORY")  BY <1>8 DEF FindFilesOfFile
  <2> QED  BY <1>1, <2>1
<1>9. CASE CreateNoPkg(t)
  <2>1. Done("-ERROR_FILE_NOT_FOUND")  BY <1>9 DEF CreateNoPkg
  <2> QED  BY <1>1, <2>1
<1> QED
  BY <1>2, <1>3, <1>4, <1>5, <1>6, <1>7, <1>8, <1>9

(* Getting the Big Dokan Lock.                                             *)
LEMMA LockSteps ==
    ASSUME IInv, NEW t \in Threads, CreateLock(t) \/ FindLock(t)
    PROVE  IInv'
<1> USE OneThread
        DEF IInv, Local, CreateLock, FindLock, Acquire, Continue, tables,
            locals, dokan
<1>1. TypeOK'  BY DEF TypeOK, PCs, CreatePCs
<1>2. Control'
  <2>1. CASE CreateLock(t)
    BY <2>1 DEF TypeOK, Control, CreatePCs, OnOpenFiles
  <2>2. CASE FindLock(t)
    BY <2>2 DEF TypeOK, Control, CreatePCs, OnOpenFiles
  <2> QED  BY <2>1, <2>2
<1>3. Pending'  BY DEF TypeOK, Pending
<1>4. Iterating'
  <2>1. CASE CreateLock(t)  BY <2>1 DEF TypeOK, Iterating, At, OnOpenFiles
  <2>2. CASE FindLock(t)  BY <2>2 DEF TypeOK, Iterating, At, OnOpenFiles
  <2> QED  BY <2>1, <2>2
<1>5. Shared'  BY SharedKept
<1> QED  BY <1>1, <1>2, <1>3, <1>4, <1>5

(* The searches at the start of a callback, which find a record because    *)
(* the table is balanced.                                                  *)
LEMMA SearchFinds ==
    ASSUME IInv, NEW h \in Handles
    PROVE  /\ phase[h] = "open" => Matches(openFiles, context[h]) # {}
           /\ phase[h] = "cleaned" => Matches(cleanedUpFiles, context[h]) # {}
<1>1. /\ phase[h] = "open" =>
            \E p \in ToSet(openFiles) : p.fileID = context[h]
      /\ phase[h] = "cleaned" =>
            \E p \in ToSet(cleanedUpFiles) : p.fileID = context[h]
  BY Assumptions, TableP!NeverEmpty DEF IInv, Shared
<1>2. ASSUME NEW s, NEW f, \E p \in ToSet(s) : p.fileID = f
      PROVE  Matches(s, f) # {}
  BY <1>2 DEF ToSet, Matches
<1> QED  BY <1>1, <1>2

(* A callback that begins by searching the lists keeps the invariant: the  *)
(* iterator it leaves is at the record it looked for.                      *)
LEMMA SearchSteps ==
    ASSUME IInv, NEW t \in Threads, NEW h \in Handles,
           \/ Cleanup(t, h) \/ CloseFile(t, h) \/ ReadFile(t, h)
           \/ GetFileInformation(t, h) \/ FindFiles(t, h)
    PROVE  IInv'
<1> DEFINE mine(s) == Matches(s, context[h])
           opn == FirstAt("openFiles", openFiles, mine(openFiles))
           cln == FirstAt("cleanedUpFiles", cleanedUpFiles,
                          mine(cleanedUpFiles))
<1>0. TypeOK /\ Control /\ Pending /\ Iterating /\ Shared
  BY DEF IInv, Local
<1>1. ASSUME phase[h] = "open" \/ mine(openFiles) # {}
      PROVE  /\ opn \in Iterators
             /\ \E i \in NodeAt(openFiles, "openFiles", opn) :
                   openFiles[i].fileID = context[h]
  <2>1. mine(openFiles) # {}  BY <1>1, SearchFinds
  <2>2. mine(openFiles) \subseteq DOMAIN openFiles  BY DEF Matches
  <2>3. openFiles \in Seq(FilePkg)  BY <1>0 DEF TypeOK
  <2> HIDE DEF mine
  <2>4. /\ opn \in Iterators
        /\ \E i \in mine(openFiles) : i \in NodeAt(openFiles, "openFiles", opn)
    BY <2>1, <2>2, <2>3, FirstAtFinds
  <2>5. \A i \in mine(openFiles) : openFiles[i].fileID = context[h]
    BY DEF mine, Matches
  <2> QED  BY <2>4, <2>5
<1>2. ASSUME phase[h] = "cleaned"
      PROVE  /\ cln \in Iterators
             /\ \E i \in NodeAt(cleanedUpFiles, "cleanedUpFiles", cln) :
                   cleanedUpFiles[i].fileID = context[h]
  <2>1. mine(cleanedUpFiles) # {}  BY <1>2, SearchFinds
  <2>2. mine(cleanedUpFiles) \subseteq DOMAIN cleanedUpFiles  BY DEF Matches
  <2>3. cleanedUpFiles \in Seq(FilePkg)  BY <1>0 DEF TypeOK
  <2> HIDE DEF mine
  <2>4. /\ cln \in Iterators
        /\ \E i \in mine(cleanedUpFiles) :
              i \in NodeAt(cleanedUpFiles, "cleanedUpFiles", cln)
    BY <2>1, <2>2, <2>3, FirstAtFinds
  <2>5. \A i \in mine(cleanedUpFiles) :
            cleanedUpFiles[i].fileID = context[h]
    BY DEF mine, Matches
  <2> QED  BY <2>4, <2>5
<1>3. PICK entry \in OnOpenFiles \cup {"close_free", "read_extents"} :
          /\ Dispatch(t, h, entry)
          /\ it' = [it EXCEPT ![t] =
                IF entry = "close_free" THEN cln
                ELSE IF entry = "read_extents" /\ mine(openFiles) = {} THEN cln
                ELSE opn]
          /\ entry \in OnOpenFiles => phase[h] = "open"
          /\ entry = "close_free" => phase[h] = "cleaned"
          /\ entry = "read_extents" => phase[h] \in {"open", "cleaned"}
          /\ UNCHANGED <<openFiles, cleanedUpFiles, heap, hBigDokanLock, path,
                         filePkg, result, phase, context>>
  <2> HIDE DEF mine, opn, cln
  <2> USE DEF tables, dokan, OnOpenFiles
  <2>1. CASE Cleanup(t, h)  BY <2>1 DEF Cleanup, opn, mine
  <2>2. CASE CloseFile(t, h)  BY <2>2 DEF CloseFile, cln, mine
  <2>3. CASE ReadFile(t, h)  BY <2>3 DEF ReadFile, opn, cln, mine
  <2>4. CASE GetFileInformation(t, h)
    BY <2>4 DEF GetFileInformation, opn, mine
  <2>5. CASE FindFiles(t, h)  BY <2>5 DEF FindFiles, opn, mine
  <2> QED  BY <2>1, <2>2, <2>3, <2>4, <2>5
<1> DEFINE found == IF entry = "close_free" THEN cln
                    ELSE IF entry = "read_extents" /\ mine(openFiles) = {}
                         THEN cln
                         ELSE opn
<1>4. /\ found \in Iterators
      /\ entry \in OnOpenFiles =>
            \E i \in NodeAt(openFiles, "openFiles", found) :
                openFiles[i].fileID = context[h]
      /\ entry = "close_free" =>
            \E i \in NodeAt(cleanedUpFiles, "cleanedUpFiles", found) :
                cleanedUpFiles[i].fileID = context[h]
      /\ entry = "read_extents" =>
            \/ \E i \in NodeAt(openFiles, "openFiles", found) :
                   openFiles[i].fileID = context[h]
            \/ \E i \in NodeAt(cleanedUpFiles, "cleanedUpFiles", found) :
                   cleanedUpFiles[i].fileID = context[h]
  <2>1. phase[h] = "open" => mine(openFiles) # {}  BY SearchFinds
  <2> HIDE DEF mine, opn, cln
  <2> QED  BY <1>1, <1>2, <1>3, <2>1 DEF OnOpenFiles
<1> HIDE DEF found, mine, opn, cln
<1>5. it' = [it EXCEPT ![t] = found]  BY <1>3 DEF found
<1> USE <1>0, <1>3, <1>4, <1>5, OneThread
<1>6. TypeOK'
  <2>1. entry \in PCs  BY DEF OnOpenFiles, PCs
  <2>2. pc' \in [Threads -> PCs]  BY <2>1 DEF Dispatch, TypeOK
  <2>3. cur' \in [Threads -> Handles \cup {NoHandle}]  BY DEF Dispatch, TypeOK
  <2>4. it' \in [Threads -> Iterators]  BY DEF TypeOK
  <2> QED  BY <2>2, <2>3, <2>4 DEF Dispatch, TypeOK
<1>7. Control'
  BY HandlesFinite DEF Dispatch, TypeOK, Control, CreatePCs, OnOpenFiles
<1>8. Pending'  BY DEF TypeOK, Pending
<1>9. Iterating'
  BY DEF Dispatch, TypeOK, Iterating, At, OnOpenFiles
<1>10. Shared'  BY SharedKept
<1> QED  BY <1>6, <1>7, <1>8, <1>9, <1>10 DEF IInv, Local

(* An open begins: the handle it is for had no FileID.                     *)
LEMMA CreateFileKeeps ==
    ASSUME IInv, NEW t \in Threads, NEW h \in Handles, NEW p \in Paths,
           CreateFile(t, h, p)
    PROVE  IInv'
<1> USE OneThread DEF IInv, Local, CreateFile, tables
<1>1. context' = context  BY DEF TypeOK, Shared, Unattached
<1>2. TypeOK'  BY <1>1 DEF Dispatch, TypeOK, PCs, CreatePCs
<1>3. Control'
  BY HandlesFinite DEF Dispatch, TypeOK, Control, CreatePCs, OnOpenFiles
<1>4. Pending'  BY DEF TypeOK, Pending
<1>5. Iterating'  BY <1>1 DEF Dispatch, TypeOK, Iterating, OnOpenFiles
<1>6. Shared'  BY <1>1, SharedKept
<1> QED  BY <1>2, <1>3, <1>4, <1>5, <1>6

(* The record that is loaded gets an extents array that was free.          *)
LEMMA CreateLoadKeeps ==
    ASSUME IInv, NEW t \in Threads, CreateLoad(t)
    PROVE  IInv'
<1> USE OneThread DEF IInv, Local
<1>0. pc[t] = "create_load" /\ path[t] \in Paths
  BY DEF CreateLoad, Control, CreatePCs
<1>1. PICK b \in Blocks \ heap :
          /\ heap' = heap \cup {b}
          /\ filePkg' = [filePkg EXCEPT ![t] =
                [fileID |-> IDOf[path[t]], parentID |-> ParentOf[path[t]],
                 extents |-> b]]
  BY DEF CreateLoad
<1>2. /\ filePkg'[t] \in FilePkg /\ filePkg'[t].extents = b
      /\ filePkg'[t] # NoPkg
  <2>1. IDOf[path[t]] \in FileIDs /\ ParentOf[path[t]] \in FileIDs
    BY <1>0, PathsResolve DEF CreateLoad
  <2>2. filePkg'[t] = [fileID |-> IDOf[path[t]],
                       parentID |-> ParentOf[path[t]], extents |-> b]
    BY <1>1 DEF TypeOK
  <2>3. filePkg'[t].fileID # NoPkg.fileID
    BY <2>1, <2>2, NoFileNotID DEF NoPkg
  <2> QED  BY <2>1, <2>2, <2>3 DEF FilePkg
<1>3. TypeOK'
  <2>1. filePkg' \in [Threads -> FilePkg \cup {NoPkg}]
    BY <1>1, <1>2 DEF TypeOK
  <2>2. hBigDokanLock' \in Threads \cup {NoThread, NullMutex}
    BY DEF CreateLoad, Release, TypeOK
  <2>3. pc' \in [Threads -> PCs]
    BY DEF CreateLoad, Continue, TypeOK, PCs, CreatePCs
  <2> QED  BY <1>1, <2>1, <2>2, <2>3 DEF CreateLoad, TypeOK, dokan
<1>4. Control'
  <2>1. pc'[t] = "create_parent"  BY DEF CreateLoad, Continue, TypeOK
  <2>2. phase' = phase /\ cur' = cur /\ path' = path
    BY DEF CreateLoad, dokan
  <2>3. \A u \in Threads : u = t  BY OneThread
  <2>4. cur[t] # NoHandle /\ phase[cur[t]] = "closed"
    BY <1>0 DEF Control, CreatePCs
  <2> HIDE DEF IInv, Local
  <2> QED  BY <1>0, <1>2, <2>1, <2>2, <2>3, <2>4 DEF Control, CreatePCs, OnOpenFiles
<1>5. Pending'
  <2>1. b \notin ExtentsIn(openFiles) /\ b \notin ExtentsIn(cleanedUpFiles)
    BY <1>1 DEF Shared, ExtentsOwnedOnce
  <2> QED  BY <1>1, <1>2, <2>1 DEF CreateLoad, Pending
<1>6. Iterating'
  BY DEF CreateLoad, Continue, dokan, TypeOK, Iterating, OnOpenFiles
<1>7. Shared'  BY <1>1, SharedKept DEF CreateLoad, dokan
<1> QED  BY <1>3, <1>4, <1>5, <1>6, <1>7

(* The insertion loop stops at a node of openFiles or at the end.          *)
LEMMA CreateParentKeeps ==
    ASSUME IInv, NEW t \in Threads, CreateParent(t)
    PROVE  IInv'
<1> USE OneThread DEF IInv, Local
<1> DEFINE later == Later(openFiles, filePkg[t].fileID)
           point == FirstAt("openFiles", openFiles, later)
<1>1. point \in Iterators
      /\ (point = ListEnd \/ NodeAt(openFiles, "openFiles", point) # {})
  <2>1. CASE later = {}  BY <2>1, FirstAtEnd DEF Iterators
  <2>2. CASE later # {}
    <3>1. later \subseteq DOMAIN openFiles  BY DEF Later
    <3>2. openFiles \in Seq(FilePkg)  BY DEF TypeOK
    <3> HIDE DEF later
    <3> QED  BY <2>2, <3>1, <3>2, FirstAtFinds
  <2> QED  BY <2>1, <2>2
<1> HIDE DEF point
<1>2. it' = [it EXCEPT ![t] = point]  BY DEF CreateParent, point
<1> USE DEF CreateParent, Continue, tables, locals, dokan
<1>3. TypeOK'
  <2>1. it' \in [Threads -> Iterators]  BY <1>1, <1>2 DEF TypeOK
  <2>2. pc' \in [Threads -> PCs]  BY DEF TypeOK, PCs, CreatePCs
  <2> QED  BY <2>1, <2>2 DEF TypeOK
<1>4. Control'  BY DEF TypeOK, Control, CreatePCs, OnOpenFiles
<1>5. Pending'  BY DEF TypeOK, Pending
<1>6. Iterating'  BY <1>1, <1>2 DEF TypeOK, Iterating, OnOpenFiles
<1>7. Shared'  BY SharedKept
<1> QED  BY <1>3, <1>4, <1>5, <1>6, <1>7

----------------------------------------------------------------------------
(***************************************************************************)
(* The steps that change the lists: each is a step of the multimap         *)
(***************************************************************************)

(* A return that may change handles and lists: what it means for the       *)
(* returning thread, which is the only one.                                *)
LEMMA ReturnLocal ==
    ASSUME IInv, NEW t \in Threads, NEW code \in Results, Return(t, code),
           openFiles' \in Seq(FilePkg), cleanedUpFiles' \in Seq(FilePkg),
           heap' \subseteq Blocks, hBigDokanLock' = hBigDokanLock,
           phase' \in [Handles -> Phases],
           context' \in [Handles -> FileIDs \cup {NoFile}]
    PROVE  Local'
<1> USE OneThread DEF IInv, Local
<1>1. TypeOK'  BY DEF Return, TypeOK, PCs, Iterators
<1>2. Control'  BY DEF Return, TypeOK, Control, CreatePCs, OnOpenFiles
<1>3. Pending'  BY DEF Return, TypeOK, Pending
<1>4. Iterating'  BY DEF Return, TypeOK, Iterating, OnOpenFiles
<1> QED  BY <1>1, <1>2, <1>3, <1>4

(* The invariant of the multimap after one of its steps.                   *)
LEMMA TableStep ==
    ASSUME IInv, NEW h \in Handles, NEW p \in FilePkg,
           \/ TableP!Open(h, p) \/ TableP!Cleanup(h, p) \/ TableP!Close(h, p)
    PROVE  TableP!Inv'
<1>1. TableP!Next  BY DEF TableP!Next
<1> QED  BY <1>1, Assumptions, TableP!NextInv DEF IInv, Shared

(* A thread in a callback has a handle.                                    *)
LEMMA Busy ==
    ASSUME IInv, NEW t \in Threads, pc[t] # "idle"
    PROVE  cur[t] \in Handles
<1>1. cur[t] # NoHandle  BY DEF IInv, Local, Control
<1>2. cur[t] \in Handles \cup {NoHandle}  BY DEF IInv, Local, TypeOK
<1> QED  BY <1>1, <1>2

(* The sorted insert of btrfsCreateFileCommon keeps the invariant and is   *)
(* an Open of the file table.                                              *)
LEMMA CreateInsertStep ==
    ASSUME IInv, NEW t \in Threads, CreateInsert(t)
    PROVE  IInv' /\ cur[t] \in Handles /\ filePkg[t] \in FilePkg
           /\ TableP!Open(cur[t], filePkg[t])
<1> DEFINE h == cur[t]
           p == filePkg[t]
           S == NodeAt(openFiles, "openFiles", it[t])
<1> USE DEF IInv, Local
<1>1. pc[t] = "create_insert"  BY DEF CreateInsert
<1>2. h \in Handles /\ phase[h] = "closed"
  <2>1. phase[h] = "closed"  BY <1>1 DEF Control, CreatePCs
  <2> QED  BY <1>1, <2>1, Busy
<1>3. p # NoPkg /\ p \in FilePkg
  <2>1. p # NoPkg  BY <1>1 DEF Control
  <2>2. p \in FilePkg \cup {NoPkg}  BY DEF TypeOK
  <2> QED  BY <2>1, <2>2
<1>4. /\ p.extents \in heap
      /\ p.extents \notin ExtentsIn(openFiles)
      /\ p.extents \notin ExtentsIn(cleanedUpFiles)
  BY <1>3 DEF Pending
<1>5. openFiles \in Seq(FilePkg) /\ Distinct(openFiles)
  BY DEF TypeOK, Shared, ExtentsOwnedOnce
<1>6. S \subseteq DOMAIN openFiles  BY DEF NodeAt
<1>7. openFiles' = Insert(openFiles, S, p)  BY DEF CreateInsert
<1> HIDE DEF S, h, p
<1>8. /\ openFiles' \in Seq(FilePkg)
      /\ ToSet(openFiles') = ToSet(openFiles) \cup {p}
      /\ ExtentsIn(openFiles') = ExtentsIn(openFiles) \cup {p.extents}
      /\ Distinct(openFiles')
  <2>1. /\ Insert(openFiles, S, p) \in Seq(FilePkg)
        /\ ToSet(Insert(openFiles, S, p)) = ToSet(openFiles) \cup {p}
        /\ ExtentsIn(Insert(openFiles, S, p))
               = ExtentsIn(openFiles) \cup {p.extents}
        /\ Distinct(Insert(openFiles, S, p))
    BY <1>3, <1>4, <1>5, <1>6, InsertFresh, Zenon
  <2> QED  BY <1>7, <2>1
<1>9. /\ context' = [context EXCEPT ![h] = p.fileID]
      /\ phase' = [phase EXCEPT ![h] = "open"]
      /\ Return(t, "ERROR_SUCCESS")
      /\ UNCHANGED <<cleanedUpFiles, heap, hBigDokanLock>>
  BY DEF CreateInsert, h, p
<1>10. p \notin ToSet(openFiles) /\ p \notin ToSet(cleanedUpFiles)
  BY <1>4 DEF ExtentsIn, ToSet
<1>11. TableP!Open(h, p)
  BY <1>2, <1>8, <1>9, <1>10 DEF TableP!Open
<1>12. Local'
  <2>1. context' \in [Handles -> FileIDs \cup {NoFile}]
    BY <1>2, <1>3, <1>9 DEF TypeOK, FilePkg
  <2>2. phase' \in [Handles -> Phases]  BY <1>2, <1>9 DEF TypeOK, Phases
  <2> QED  BY <1>8, <1>9, <2>1, <2>2, ReturnLocal DEF TypeOK, Results
<1>13. ExtentsOwnedOnce'
  BY <1>4, <1>8, <1>9 DEF Shared, ExtentsOwnedOnce
<1>14. Unattached'  BY <1>2, <1>9 DEF Shared, Unattached, TypeOK
<1>15. TableP!Inv'  BY <1>2, <1>3, <1>11, TableStep
<1> QED
  BY <1>2, <1>3, <1>11, <1>12, <1>13, <1>14, <1>15 DEF Shared, h, p

(* Moving a record from openFiles to cleanedUpFiles keeps the invariant    *)
(* and is a Cleanup of the file table.                                     *)
LEMMA CleanupMoveStep ==
    ASSUME IInv, NEW t \in Threads, CleanupMove(t)
    PROVE  IInv' /\ cur[t] \in Handles
           /\ \E p \in FilePkg : TableP!Cleanup(cur[t], p)
<1> DEFINE h == cur[t]
           M == Matches(cleanedUpFiles, context[h])
<1> USE DEF IInv, Local
<1>1. pc[t] = "cleanup_move"  BY DEF CleanupMove
<1>2. h \in Handles /\ phase[h] = "open"
  <2>1. phase[h] = "open"  BY <1>1 DEF Control, OnOpenFiles
  <2> QED  BY <1>1, <2>1, Busy
<1>3. PICK i \in NodeAt(openFiles, "openFiles", it[t]) :
          /\ openFiles' = Erase(openFiles, i)
          /\ cleanedUpFiles' = Insert(cleanedUpFiles, M, openFiles[i])
  BY DEF CleanupMove
<1> DEFINE p == openFiles[i]
<1>4. /\ openFiles \in Seq(FilePkg) /\ Distinct(openFiles)
      /\ cleanedUpFiles \in Seq(FilePkg) /\ Distinct(cleanedUpFiles)
      /\ ExtentsIn(openFiles) \cap ExtentsIn(cleanedUpFiles) = {}
      /\ ExtentsIn(openFiles) \cup ExtentsIn(cleanedUpFiles) \subseteq heap
  BY DEF TypeOK, Shared, ExtentsOwnedOnce
<1>5. i \in DOMAIN openFiles /\ p.extents = it[t].node  BY DEF NodeAt
<1>6. p.fileID = context[h]
  <2>1. PICK j \in NodeAt(openFiles, "openFiles", it[t]) :
            openFiles[j].fileID = context[h]
    BY <1>1 DEF Iterating, At, OnOpenFiles
  <2>2. j = i  BY <1>4, <1>5, <2>1 DEF NodeAt, Distinct
  <2> QED  BY <2>1, <2>2
<1>7. /\ p \in FilePkg /\ p \in ToSet(openFiles)
      /\ openFiles' \in Seq(FilePkg)
      /\ ToSet(openFiles') = ToSet(openFiles) \ {p}
      /\ ExtentsIn(openFiles') = ExtentsIn(openFiles) \ {p.extents}
      /\ Distinct(openFiles')
  BY <1>3, <1>4, <1>5, EraseOwn
<1>8. p.extents \in ExtentsIn(openFiles)  BY <1>5 DEF ExtentsIn
<1>9. M \subseteq DOMAIN cleanedUpFiles  BY DEF Matches
<1> HIDE DEF M
<1>10. /\ cleanedUpFiles' \in Seq(FilePkg)
       /\ ToSet(cleanedUpFiles') = ToSet(cleanedUpFiles) \cup {p}
       /\ ExtentsIn(cleanedUpFiles')
              = ExtentsIn(cleanedUpFiles) \cup {p.extents}
       /\ Distinct(cleanedUpFiles')
  <2>1. p.extents \notin ExtentsIn(cleanedUpFiles)  BY <1>4, <1>8
  <2>2. cleanedUpFiles' = Insert(cleanedUpFiles, M, p)  BY <1>3
  <2> HIDE DEF p
  <2>3. /\ Insert(cleanedUpFiles, M, p) \in Seq(FilePkg)
        /\ ToSet(Insert(cleanedUpFiles, M, p)) = ToSet(cleanedUpFiles) \cup {p}
        /\ ExtentsIn(Insert(cleanedUpFiles, M, p))
               = ExtentsIn(cleanedUpFiles) \cup {p.extents}
        /\ Distinct(Insert(cleanedUpFiles, M, p))
    BY <1>4, <1>7, <1>9, <2>1, InsertFresh, Zenon
  <2> QED  BY <2>2, <2>3
<1>11. /\ phase' = [phase EXCEPT ![h] = "cleaned"]
       /\ Return(t, "ERROR_SUCCESS")
       /\ UNCHANGED <<heap, hBigDokanLock, context>>
  BY DEF CleanupMove
<1> HIDE DEF h, p
<1>12. TableP!Cleanup(h, p)
  BY <1>2, <1>6, <1>7, <1>10, <1>11 DEF TableP!Cleanup
<1>13. Local'
  <2>1. phase' \in [Handles -> Phases]  BY <1>2, <1>11 DEF TypeOK, Phases
  <2> QED  BY <1>7, <1>10, <1>11, <2>1, ReturnLocal DEF TypeOK, Results
<1>14. ExtentsOwnedOnce'
  BY <1>4, <1>7, <1>8, <1>10, <1>11 DEF ExtentsOwnedOnce
<1>15. Unattached'  BY <1>2, <1>11 DEF Shared, Unattached, TypeOK
<1>16. TableP!Inv'  BY <1>2, <1>7, <1>12, TableStep
<1> QED  BY <1>2, <1>7, <1>12, <1>13, <1>14, <1>15, <1>16 DEF Shared, h

(* Freeing the extents and erasing the record keeps the invariant and is a *)
(* Close of the file table.                                                *)
LEMMA CloseFreeStep ==
    ASSUME IInv, NEW t \in Threads, CloseFree(t)
    PROVE  IInv' /\ cur[t] \in Handles
           /\ \E p \in FilePkg : TableP!Close(cur[t], p)
<1> DEFINE h == cur[t]
<1> USE DEF IInv, Local
<1>1. pc[t] = "close_free"  BY DEF CloseFree
<1>2. h \in Handles /\ phase[h] = "cleaned"
  <2>1. phase[h] = "cleaned"  BY <1>1 DEF Control
  <2> QED  BY <1>1, <2>1, Busy
<1>3. PICK i \in NodeAt(cleanedUpFiles, "cleanedUpFiles", it[t]) :
          /\ heap' = Freed(cleanedUpFiles[i])
          /\ cleanedUpFiles' = Erase(cleanedUpFiles, i)
  BY DEF CloseFree
<1> DEFINE p == cleanedUpFiles[i]
<1>4. /\ cleanedUpFiles \in Seq(FilePkg) /\ Distinct(cleanedUpFiles)
      /\ openFiles \in Seq(FilePkg) /\ Distinct(openFiles)
      /\ ExtentsIn(openFiles) \cap ExtentsIn(cleanedUpFiles) = {}
      /\ ExtentsIn(openFiles) \cup ExtentsIn(cleanedUpFiles) \subseteq heap
  BY DEF TypeOK, Shared, ExtentsOwnedOnce
<1>5. i \in DOMAIN cleanedUpFiles /\ p.extents = it[t].node  BY DEF NodeAt
<1>6. p.fileID = context[h]
  <2>1. PICK j \in NodeAt(cleanedUpFiles, "cleanedUpFiles", it[t]) :
            cleanedUpFiles[j].fileID = context[h]
    BY <1>1 DEF Iterating, At
  <2>2. j = i  BY <1>4, <1>5, <2>1 DEF NodeAt, Distinct
  <2> QED  BY <2>1, <2>2
<1>7. /\ p \in FilePkg /\ p \in ToSet(cleanedUpFiles)
      /\ cleanedUpFiles' \in Seq(FilePkg)
      /\ ToSet(cleanedUpFiles') = ToSet(cleanedUpFiles) \ {p}
      /\ ExtentsIn(cleanedUpFiles')
             = ExtentsIn(cleanedUpFiles) \ {p.extents}
      /\ Distinct(cleanedUpFiles')
  BY <1>3, <1>4, <1>5, EraseOwn
<1>8. p.extents \in ExtentsIn(cleanedUpFiles)  BY <1>5 DEF ExtentsIn
<1>9. heap' = heap \ {p.extents}  BY <1>3 DEF Freed
<1>10. /\ context' = [context EXCEPT ![h] = NoFile]
       /\ phase' = [phase EXCEPT ![h] = "closed"]
       /\ Return(t, "ERROR_SUCCESS")
       /\ UNCHANGED <<openFiles, hBigDokanLock>>
  BY DEF CloseFree
<1> HIDE DEF h, p
<1>11. TableP!Close(h, p)
  BY <1>2, <1>6, <1>7, <1>10 DEF TableP!Close
<1>12. Local'
  <2>1. phase' \in [Handles -> Phases]  BY <1>2, <1>10 DEF TypeOK, Phases
  <2>2. context' \in [Handles -> FileIDs \cup {NoFile}]
    BY <1>2, <1>10 DEF TypeOK
  <2>3. heap' \subseteq Blocks  BY <1>9 DEF TypeOK
  <2> QED  BY <1>4, <1>7, <1>10, <2>1, <2>2, <2>3, ReturnLocal DEF Results
<1>13. ExtentsOwnedOnce'
  BY <1>4, <1>7, <1>8, <1>9, <1>10 DEF ExtentsOwnedOnce
<1>14. Unattached'  BY <1>2, <1>10 DEF Shared, Unattached, TypeOK
<1>15. TableP!Inv'  BY <1>2, <1>7, <1>11, TableStep
<1> QED  BY <1>2, <1>7, <1>11, <1>12, <1>13, <1>14, <1>15 DEF Shared, h

----------------------------------------------------------------------------
(***************************************************************************)
(* The theorems                                                            *)
(***************************************************************************)

(* Every step keeps the invariant and is a step of the multimap, or leaves *)
(* the multimap alone.                                                     *)
LEMMA NextStep ==
    ASSUME IInv, Next
    PROVE  IInv' /\ (TableP!Next \/ UNCHANGED TableP!vars)
<1>1. PICK t \in Threads : Step(t) \/ \E h \in Handles : Callback(t, h)
  BY DEF Next
<1>2. ASSUME CreateTimeout(t) \/ CreateNoPath(t) \/ CreateNoPkg(t)
             \/ CreateNoParent(t) \/ ReadExtents(t) \/ ConvertMetadata(t)
             \/ FindList(t)
             \/ \E h \in Handles : FindFilesOfFile(t, h)
      PROVE  IInv' /\ UNCHANGED TableP!vars
  <2>1. UNCHANGED <<openFiles, cleanedUpFiles, phase, context>>
    BY <1>2 DEF CreateTimeout, CreateNoPath, CreateNoPkg, CreateNoParent,
                ReadExtents, ConvertMetadata, FindList,
                FindFilesOfFile, tables, dokan
  <2> QED  BY <1>2, <2>1, EarlyReturns DEF TableP!vars
<1>3. ASSUME CreateLock(t) \/ FindLock(t)
      PROVE  IInv' /\ UNCHANGED TableP!vars
  <2>1. UNCHANGED <<openFiles, cleanedUpFiles, phase, context>>
    BY <1>3 DEF CreateLock, FindLock, tables, dokan
  <2> QED  BY <1>3, <2>1, LockSteps DEF TableP!vars
<1>4. ASSUME NEW h \in Handles,
             \/ Cleanup(t, h) \/ CloseFile(t, h) \/ ReadFile(t, h)
             \/ GetFileInformation(t, h) \/ FindFiles(t, h)
      PROVE  IInv' /\ UNCHANGED TableP!vars
  <2>1. UNCHANGED <<openFiles, cleanedUpFiles, phase, context>>
    BY <1>4 DEF Cleanup, CloseFile, ReadFile, GetFileInformation, FindFiles,
                tables, dokan
  <2> QED  BY <1>4, <2>1, SearchSteps DEF TableP!vars
<1>5. ASSUME NEW h \in Handles, NEW p \in Paths, CreateFile(t, h, p)
      PROVE  IInv' /\ UNCHANGED TableP!vars
  <2>1. context' = context
    BY <1>5 DEF CreateFile, IInv, Local, TypeOK, Shared, Unattached
  <2>2. UNCHANGED <<openFiles, cleanedUpFiles, phase>>
    BY <1>5 DEF CreateFile, tables
  <2> QED  BY <1>5, <2>1, <2>2, CreateFileKeeps DEF TableP!vars
<1>6. ASSUME CreateLoad(t)
      PROVE  IInv' /\ UNCHANGED TableP!vars
  BY <1>6, CreateLoadKeeps DEF CreateLoad, dokan, TableP!vars
<1>7. ASSUME CreateParent(t)
      PROVE  IInv' /\ UNCHANGED TableP!vars
  BY <1>7, CreateParentKeeps DEF CreateParent, tables, dokan, TableP!vars
<1>8. ASSUME CreateInsert(t) \/ CleanupMove(t) \/ CloseFree(t)
      PROVE  IInv' /\ TableP!Next
  BY <1>8, CreateInsertStep, CleanupMoveStep, CloseFreeStep DEF TableP!Next
<1>9. CASE Step(t)
  BY <1>2, <1>3, <1>6, <1>7, <1>8, <1>9 DEF Step, CreateStep
<1>10. CASE \E h \in Handles : Callback(t, h)
  BY <1>2, <1>4, <1>5, <1>10 DEF Callback
<1> QED  BY <1>1, <1>9, <1>10

(* Every step keeps the invariant and is a step of the file table or       *)
(* leaves it alone.                                                        *)
LEMMA StepKeeps ==
    ASSUME IInv, [Next]_vars
    PROVE  IInv' /\ [TableP!Next]_(TableP!vars)
<1>1. CASE Next  BY <1>1, NextStep
<1>2. CASE UNCHANGED vars
  <2> USE <1>2 DEF vars, tables, locals, dokan
  <2>1. Local'
    BY DEF IInv, Local, TypeOK, Control, Pending, Iterating, At
  <2>2. Shared'  BY SharedKept DEF IInv
  <2>3. UNCHANGED TableP!vars  BY DEF TableP!vars
  <2> QED  BY <2>1, <2>2, <2>3 DEF IInv
<1> QED  BY <1>1, <1>2

(* The invariant holds in every state of every run.                        *)
THEOREM Invariance == Spec => []IInv
<1>1. Init => IInv  BY InitIInv
<1>2. IInv /\ [Next]_vars => IInv'  BY StepKeeps
<1> QED  BY <1>1, <1>2, PTL DEF Spec

(* The state of the callbacks always has its type.                         *)
THEOREM TypeCorrect == Spec => []TypeOK
<1>1. IInv => TypeOK  BY DEF IInv, Local
<1> QED  BY <1>1, Invariance, PTL

(* No record shares its extents array, and none that is in a list has lost *)
(* it.                                                                     *)
THEOREM ExtentsSafe == Spec => []ExtentsOwnedOnce
<1>1. IInv => ExtentsOwnedOnce  BY DEF IInv, Shared
<1> QED  BY <1>1, Invariance, PTL

(* No assertion of a search fails.                                         *)
THEOREM SearchesSucceed == Spec => []AssertsHold
<1>1. ASSUME IInv
      PROVE  AssertsHold
  <2> SUFFICES ASSUME NEW t \in Threads, pc[t] \in Searching
               PROVE  it[t] # ListEnd
    BY DEF AssertsHold
  <2>1. At(openFiles, "openFiles", t)
        \/ At(cleanedUpFiles, "cleanedUpFiles", t)
    BY <1>1 DEF IInv, Local, Iterating, Searching, OnOpenFiles
  <2> QED  BY <2>1 DEF At, NodeAt, ListEnd
<1> QED  BY <1>1, Invariance, PTL

(* No iterator dangles, and no record is looked at after its extents have  *)
(* been freed.                                                             *)
THEOREM IteratorsSafe == Spec => []IteratorsValid
<1>1. ASSUME IInv
      PROVE  IteratorsValid
  <2> SUFFICES ASSUME NEW t \in Threads, pc[t] \in Searching
               PROVE  \/ \E i \in NodeAt(openFiles, "openFiles", it[t]) :
                            /\ openFiles[i].fileID = context[cur[t]]
                            /\ openFiles[i].extents \in heap
                      \/ \E i \in NodeAt(cleanedUpFiles, "cleanedUpFiles",
                                         it[t]) :
                            /\ cleanedUpFiles[i].fileID = context[cur[t]]
                            /\ cleanedUpFiles[i].extents \in heap
    BY <1>1 DEF IteratorsValid, IInv, Local, Iterating
  <2>1. At(openFiles, "openFiles", t)
        \/ At(cleanedUpFiles, "cleanedUpFiles", t)
    BY <1>1 DEF IInv, Local, Iterating, Searching, OnOpenFiles
  <2>2. /\ \A i \in DOMAIN openFiles : openFiles[i].extents \in heap
        /\ \A i \in DOMAIN cleanedUpFiles : cleanedUpFiles[i].extents \in heap
    BY <1>1 DEF IInv, Shared, ExtentsOwnedOnce, ExtentsIn
  <2> QED  BY <2>1, <2>2 DEF At, NodeAt
<1> QED  BY <1>1, Invariance, PTL

(* The two lists implement the multimap that TODO.txt wants in their place.*)
THEOREM Implementation == Spec => ImplementsTable
<1>1. Init => Table!Init
  <2> SUFFICES ASSUME Init PROVE Table!Init  OBVIOUS
  <2>1. openFiles = <<>> /\ cleanedUpFiles = <<>>  BY DEF Init
  <2>2. ToSet(<<>>) = {}
    <3>1. <<>> \in Seq(FilePkg) /\ Len(<<>>) = 0  BY EmptySeq
    <3>2. \A q \in Seq(FilePkg) : Len(q) = 0 => DOMAIN q = {}
      BY LenProperties
    <3>3. DOMAIN <<>> = {}  BY <3>1, <3>2, Zenon
    <3> QED  BY <3>3 DEF ToSet
  <2> QED  BY <2>1, <2>2 DEF Init, Table!Init
<1>2. IInv /\ [Next]_vars => [Table!Next]_(Table!vars)
  <2> SUFFICES ASSUME IInv, [Next]_vars PROVE [Table!Next]_(Table!vars)
    OBVIOUS
  <2>1. [TableP!Next]_(TableP!vars)  BY StepKeeps
  <2> QED
    BY <2>1 DEF TableP!Next, TableP!Open, TableP!Cleanup, TableP!Close,
                TableP!vars, Table!Next, Table!Open, Table!Cleanup,
                Table!Close, Table!vars
<1> QED  BY <1>1, <1>2, Invariance, PTL DEF Spec, ImplementsTable, Table!Spec

(* The records in the lists match the handles, file by file.               *)
THEOREM RecordsMatch == Spec => []RecordsMatchHandles
<1>1. ASSUME IInv
      PROVE  RecordsMatchHandles
  <2>1. TableP!Balanced  BY <1>1 DEF IInv, Shared, TableP!Inv
  <2>2. \A S : TableP!Cardinality(S) = Table!Cardinality(S)
    BY DEF Table!Cardinality, TableP!Cardinality
  <2> QED
    BY <2>1, <2>2 DEF RecordsMatchHandles, TableP!Balanced, Table!Balanced,
                      TableP!RecordsOf, Table!RecordsOf, TableP!HandlesIn,
                      Table!HandlesIn, TableP!IDs, Table!IDs
<1> QED  BY <1>1, Invariance, PTL

----------------------------------------------------------------------------
(***************************************************************************)
(* The Big Dokan Lock                                                      *)
(***************************************************************************)
(* No owner and no mutex are told apart from the thread and each other.    *)
LEMMA LockValuesDiffer == NoThread # 1 /\ NullMutex # 1 /\ NullMutex # NoThread
<1>1. 1 \in Nat  OBVIOUS
<1> QED  BY <1>1, LockValues, Zenon

(* Every step takes the lock on the way into the parser and lets it go on  *)
(* the way out, or finds the mutex missing and leaves it so.               *)
LEMMA LockKept ==
    ASSUME TypeOK, LockSafe, [Next]_vars
    PROVE  LockSafe'
<1> USE OneThread, LockValuesDiffer
        DEF TypeOK, LockSafe, LockHeldButForParent, InParser, TimeoutMeansNoMutex
<1>1. CASE UNCHANGED vars
  BY <1>1 DEF vars
<1>2. ASSUME NEW t \in Threads, NEW h \in Handles, Callback(t, h)
      PROVE  LockSafe'
  <2>1. CASE FindFilesOfFile(t, h)
    BY <2>1 DEF FindFilesOfFile, Return
  <2>2. CASE ~ FindFilesOfFile(t, h)
    <3>1. PICK entry \in {"create_lock", "cleanup_move", "close_free", "read_extents",
                          "info_convert", "find_lock"} :
              Dispatch(t, h, entry) /\ UNCHANGED <<hBigDokanLock, result>>
      BY <1>2, <2>2 DEF Callback, CreateFile, Cleanup, CloseFile, ReadFile,
                        GetFileInformation, FindFiles
    <3> QED  BY <3>1 DEF Dispatch
  <2> QED  BY <2>1, <2>2
<1>3. ASSUME NEW t \in Threads, Step(t)
      PROVE  LockSafe'
  <2>1. CASE CreateTimeout(t)
    BY <2>1 DEF CreateTimeout, WaitFails, Return
  <2>2. CASE CreateLock(t) \/ FindLock(t)
    BY <2>2 DEF CreateLock, FindLock, Acquire, Continue
  <2>3. CASE CreateNoPath(t) \/ CreateNoPkg(t) \/ CreateNoParent(t) \/ FindList(t)
    BY <2>3 DEF CreateNoPath, CreateNoPkg, CreateNoParent, FindList, Release, Return
  <2>4. CASE CreateLoad(t)
    BY <2>4 DEF CreateLoad, Release, Continue
  <2>5. CASE CreateParent(t)
    BY <2>5 DEF CreateParent, Continue
  <2>6. CASE CreateInsert(t) \/ CleanupMove(t) \/ CloseFree(t)
    BY <2>6 DEF CreateInsert, CleanupMove, CloseFree, Return
  <2>7. CASE ReadExtents(t) \/ ConvertMetadata(t)
    BY <2>7 DEF ReadExtents, ConvertMetadata, Return
  <2> QED
    BY <1>3, <2>1, <2>2, <2>3, <2>4, <2>5, <2>6, <2>7 DEF Step, CreateStep
<1> QED
  BY <1>1, <1>2, <1>3 DEF Next

(* A callback that takes the lock owns it for every parse but that of the  *)
(* parent's inode, every path out of it has let the lock go, and a         *)
(* time-out is reported only when there is no mutex                        *)
(* (dokan_callbacks.cpp:60-98, 480-484).                                   *)
THEOREM LockIsSafe == Spec => []LockSafe
<1>1. Init => LockSafe
  BY OneThread, LockValuesDiffer
  DEF Init, setupBigDokanLock, LockSafe, LockHeldButForParent, InParser,
      TimeoutMeansNoMutex
<1>2. TypeOK /\ LockSafe /\ [Next]_vars => LockSafe'
  BY LockKept
<1> QED
  BY <1>1, <1>2, TypeCorrect, PTL DEF Spec

----------------------------------------------------------------------------
(***************************************************************************)
(* The order of openFiles                                                  *)
(***************************************************************************)

(* The iterator of an insertion is where the loop left it.                 *)
InsertionPoint ==
    \A t \in Threads :
        pc[t] = "create_insert" =>
            it[t] = FirstAt("openFiles", openFiles,
                            Later(openFiles, filePkg[t].fileID))

SortedInv == OpenFilesSorted /\ InsertionPoint

(* A record inserted before the first record of a later file, or at the    *)
(* end if there is none, leaves the list in order.                         *)
LEMMA InsertKeepsOrder ==
    ASSUME NEW s \in Seq(FilePkg), Ascending(s), Distinct(s), NEW p \in FilePkg,
           NEW i, i = FirstAt("openFiles", s, Later(s, p.fileID))
    PROVE  Ascending(Insert(s, NodeAt(s, "openFiles", i), p))
<1> DEFINE late == Later(s, p.fileID)
<1>0. p.fileID \in Nat /\ \A k \in DOMAIN s : s[k] \in FilePkg /\ s[k].fileID \in Nat
  <2>1. \A q \in FilePkg : q.fileID \in Nat  BY IDsNatural DEF FilePkg
  <2>2. \A k \in DOMAIN s : s[k] \in FilePkg  OBVIOUS
  <2> QED  BY <2>1, <2>2
<1>1. PICK m \in 1 .. Len(s) + 1 :
          /\ Insert(s, NodeAt(s, "openFiles", i), p) = InsertAt(s, m, p)
          /\ \A k \in 1 .. Len(s) : k < m => s[k].fileID <= p.fileID
          /\ \A k \in 1 .. Len(s) : k >= m => s[k].fileID >= p.fileID
  <2>1. CASE late = {}
    <3>1. NodeAt(s, "openFiles", i) = {}
      BY <2>1, FirstAtEnd DEF NodeAt, ListEnd
    <3>2. Insert(s, NodeAt(s, "openFiles", i), p) = InsertAt(s, Len(s) + 1, p)
      BY <3>1 DEF Insert
    <3>3. \A k \in 1 .. Len(s) : s[k].fileID <= p.fileID
      BY <1>0, <2>1 DEF Later
    <3>4. Len(s) + 1 \in 1 .. Len(s) + 1 /\ \A k \in 1 .. Len(s) : ~ (k >= Len(s) + 1)
      OBVIOUS
    <3> QED  BY <3>2, <3>3, <3>4
  <2>2. CASE late # {}
    <3>1. late \subseteq Nat /\ late \subseteq DOMAIN s  BY DEF Later
    <3>2. Min(late) \in late /\ \A k \in late : Min(late) <= k
      BY <2>2, <3>1, MinIsLeast
    <3> DEFINE m == Min(late)
    <3>3. m \in DOMAIN s /\ s[m].fileID > p.fileID  BY <3>2 DEF Later
    <3>4. i = [list |-> "openFiles", node |-> s[m].extents]
      BY <2>2 DEF FirstAt
    <3>5. \A k \in late : m <= k  BY <3>2
    <3> HIDE DEF m
    <3>6. NodeAt(s, "openFiles", i) = {m}
      BY <3>3, <3>4 DEF NodeAt, Distinct
    <3>7. Min({m}) = m
      <4>1. m \in Nat  BY <3>3
      <4> QED  BY <4>1, MinIsLeast
    <3>8. Insert(s, NodeAt(s, "openFiles", i), p) = InsertAt(s, m, p)
      BY <3>6, <3>7 DEF Insert
    <3>9. \A k \in 1 .. Len(s) : k < m => s[k].fileID <= p.fileID
      BY <1>0, <3>3, <3>5 DEF Later
    <3>10. \A k \in 1 .. Len(s) : k >= m => s[k].fileID >= p.fileID
      <4> SUFFICES ASSUME NEW k \in 1 .. Len(s), k >= m
                   PROVE  s[k].fileID >= p.fileID
        OBVIOUS
      <4>1. k = m \/ s[m].fileID <= s[k].fileID  BY <3>3 DEF Ascending
      <4> QED  BY <1>0, <3>3, <4>1
    <3> QED  BY <3>3, <3>8, <3>9, <3>10
  <2> QED  BY <2>1, <2>2
<1> DEFINE r == InsertAt(s, m, p)
<1>2. /\ r \in Seq(FilePkg) /\ Len(r) = Len(s) + 1
      /\ \A k \in 1 .. Len(s) + 1 :
            r[k] = IF k < m THEN s[k] ELSE IF k = m THEN p ELSE s[k - 1]
  BY InsertAtElements
<1> HIDE DEF r
<1>3. ASSUME NEW j \in 1 .. Len(s) + 1, NEW k \in 1 .. Len(s) + 1, j < k
      PROVE  r[j].fileID <= r[k].fileID
  <2>1. \A x, y \in 1 .. Len(s) : x < y => s[x].fileID <= s[y].fileID
    BY DEF Ascending
  <2>2. CASE k < m
    <3>1. r[j] = s[j] /\ r[k] = s[k] /\ j \in 1 .. Len(s) /\ k \in 1 .. Len(s)
      BY <1>2, <1>3, <2>2
    <3> QED  BY <1>3, <2>1, <3>1
  <2>3. CASE k = m
    <3>1. r[j] = s[j] /\ r[k] = p /\ j \in 1 .. Len(s) /\ j < m  BY <1>2, <1>3, <2>3
    <3> QED  BY <1>1, <3>1
  <2>4. CASE k > m /\ j < m
    <3>1. /\ r[j] = s[j] /\ r[k] = s[k - 1] /\ j \in 1 .. Len(s)
          /\ k - 1 \in 1 .. Len(s) /\ k - 1 >= m
      BY <1>2, <2>4
    <3>2. s[j].fileID <= p.fileID /\ p.fileID <= s[k - 1].fileID
      BY <1>1, <2>4, <3>1
    <3> QED  BY <1>0, <3>1, <3>2
  <2>5. CASE k > m /\ j = m
    <3>1. r[j] = p /\ r[k] = s[k - 1] /\ k - 1 \in 1 .. Len(s) /\ k - 1 >= m
      BY <1>2, <2>5
    <3> QED  BY <1>0, <1>1, <3>1
  <2>6. CASE k > m /\ j > m
    <3>1. /\ r[j] = s[j - 1] /\ r[k] = s[k - 1] /\ j - 1 < k - 1
          /\ j - 1 \in 1 .. Len(s) /\ k - 1 \in 1 .. Len(s)
      BY <1>2, <1>3, <2>6
    <3> QED  BY <2>1, <3>1
  <2> QED  BY <2>2, <2>3, <2>4, <2>5, <2>6
<1>4. DOMAIN r = 1 .. Len(s) + 1  BY <1>2
<1> QED  BY <1>1, <1>3, <1>4 DEF Ascending, r

(* An erasure leaves the list in order.                                    *)
LEMMA EraseKeepsOrder ==
    ASSUME NEW s \in Seq(FilePkg), Ascending(s), NEW i \in DOMAIN s
    PROVE  Ascending(Erase(s, i))
<1> DEFINE r == RemoveAt(s, i)
<1>1. /\ i \in 1 .. Len(s)
      /\ r \in Seq(FilePkg) /\ Len(r) = Len(s) - 1
      /\ \A k \in 1 .. Len(s) - 1 : r[k] = IF k < i THEN s[k] ELSE s[k + 1]
  BY RemoveAtElements
<1> HIDE DEF r
<1> DEFINE From(n) == IF n < i THEN n ELSE n + 1
<1>2. \A n \in 1 .. Len(s) - 1 : From(n) \in 1 .. Len(s) /\ r[n] = s[From(n)]
  BY <1>1
<1>3. \A j, k \in 1 .. Len(s) - 1 : j < k => From(j) < From(k)
  BY <1>1
<1> HIDE DEF From
<1>4. \A j, k \in 1 .. Len(s) - 1 : j < k => r[j].fileID <= r[k].fileID
  BY <1>2, <1>3 DEF Ascending
<1>5. DOMAIN r = 1 .. Len(s) - 1  BY <1>1
<1> QED  BY <1>4, <1>5 DEF Ascending, Erase, r

(* Every step keeps the order and, while an insertion is under way, its    *)
(* iterator in place.                                                      *)
LEMMA OrderKept ==
    ASSUME IInv, SortedInv, [Next]_vars
    PROVE  SortedInv'
<1>0. TypeOK  BY DEF IInv, Local
<1>1. CASE UNCHANGED vars
  BY <1>1 DEF vars, tables, locals, SortedInv, OpenFilesSorted, InsertionPoint
<1>2. ASSUME NEW t \in Threads, NEW h \in Handles, Callback(t, h)
      PROVE  SortedInv'
  <2>1. openFiles' = openFiles /\ pc'[t] # "create_insert"
    BY <1>0, <1>2 DEF Callback, CreateFile, Cleanup, CloseFile, ReadFile, GetFileInformation,
                      FindFiles, FindFilesOfFile, Dispatch, Return, tables, TypeOK
  <2> QED  BY <2>1, OneThread DEF SortedInv, OpenFilesSorted, InsertionPoint
<1>3. ASSUME NEW t \in Threads, Step(t)
      PROVE  SortedInv'
  <2>1. CASE CreateInsert(t)
    <3>1. /\ pc[t] = "create_insert" /\ pc'[t] = "idle"
          /\ openFiles' = Insert(openFiles, NodeAt(openFiles, "openFiles", it[t]), filePkg[t])
      BY <1>0, <2>1 DEF CreateInsert, Return, TypeOK
    <3>2. filePkg[t] \in FilePkg
      <4>1. filePkg[t] # NoPkg  BY <3>1 DEF IInv, Local, Control
      <4>2. filePkg[t] \in FilePkg \cup {NoPkg}  BY <1>0 DEF TypeOK
      <4> QED  BY <4>1, <4>2
    <3>3. Ascending(openFiles')
      BY <1>0, <3>1, <3>2, InsertKeepsOrder
      DEF IInv, Shared, ExtentsOwnedOnce, SortedInv, OpenFilesSorted, InsertionPoint, TypeOK
    <3> QED  BY <3>1, <3>3, OneThread DEF SortedInv, OpenFilesSorted, InsertionPoint
  <2>2. CASE CleanupMove(t)
    <3>1. PICK i \in DOMAIN openFiles : openFiles' = Erase(openFiles, i)
      BY <2>2 DEF CleanupMove, NodeAt
    <3>2. Ascending(openFiles')
      BY <1>0, <3>1, EraseKeepsOrder DEF SortedInv, OpenFilesSorted, TypeOK
    <3>3. pc'[t] = "idle"  BY <1>0, <2>2 DEF CleanupMove, Return, TypeOK
    <3> QED  BY <3>2, <3>3, OneThread DEF SortedInv, OpenFilesSorted, InsertionPoint
  <2>3. CASE CreateParent(t)
    BY <1>0, <2>3, OneThread
    DEF CreateParent, Continue, tables, locals, TypeOK, SortedInv, OpenFilesSorted,
        InsertionPoint
  <2>4. CASE ~ (CreateInsert(t) \/ CleanupMove(t) \/ CreateParent(t))
    <3>1. openFiles' = openFiles /\ pc'[t] # "create_insert"
      BY <1>0, <1>3, <2>4
      DEF Step, CreateStep, CreateTimeout, CreateLock, CreateNoPath, CreateNoPkg, CreateLoad,
          CreateNoParent, CloseFree, ReadExtents, ConvertMetadata, FindLock, FindList,
          Continue, Return, tables, TypeOK
    <3> QED  BY <3>1, OneThread DEF SortedInv, OpenFilesSorted, InsertionPoint
  <2> QED  BY <2>1, <2>2, <2>3, <2>4
<1> QED
  BY <1>1, <1>2, <1>3 DEF Next

(* openFiles is in ascending order of file ID, always.                     *)
THEOREM ListStaysSorted == Spec => []OpenFilesSorted
<1>1. Init => SortedInv
  <2> SUFFICES ASSUME Init PROVE SortedInv  OBVIOUS
  <2>1. DOMAIN openFiles = {}
    <3>1. openFiles \in Seq(FilePkg) /\ Len(openFiles) = 0
      BY EmptySeq DEF Init
    <3> QED  BY <3>1, LenProperties
  <2>2. \A t \in Threads : pc[t] = "idle"  BY DEF Init
  <2> QED  BY <2>1, <2>2 DEF SortedInv, OpenFilesSorted, Ascending, InsertionPoint
<1>2. IInv /\ SortedInv /\ [Next]_vars => SortedInv'
  BY OrderKept
<1>3. SortedInv => OpenFilesSorted
  BY DEF SortedInv
<1> QED
  BY <1>1, <1>2, <1>3, Invariance, PTL DEF Spec

----------------------------------------------------------------------------
(***************************************************************************)
(* What is lost                                                            *)
(***************************************************************************)

Lost(h, o, c, f) ==
    h \ (ExtentsIn(o) \cup ExtentsIn(c)
         \cup {f[t].extents : t \in {u \in Threads : f[u] # NoPkg}})

LostBefore == Lost(heap, openFiles, cleanedUpFiles, filePkg)
LostAfter == Lost(heap', openFiles', cleanedUpFiles', filePkg')

(* With one thread there is at most one record under construction.         *)
LEMMA LostIs ==
    ASSUME NEW h, NEW o, NEW c, NEW f
    PROVE  Lost(h, o, c, f) =
               h \ (ExtentsIn(o) \cup ExtentsIn(c)
                    \cup (IF f[1] = NoPkg THEN {} ELSE {f[1].extents}))
BY OneThread DEF Lost

(* An open in or after the tree parser fails, as if the file were missing. *)
OpenFails(t) ==
    /\ pc[t] \in {"create_load", "create_parent"}
    /\ pc'[t] = "idle"
    /\ result'[t] = "-ERROR_FILE_NOT_FOUND"

(* A step that leaves the heap, the lists and the record alone loses       *)
(* nothing, and neither does a return without a record.                    *)
LEMMA NothingLost ==
    ASSUME IInv, NEW t \in Threads, UNCHANGED <<heap, openFiles, cleanedUpFiles>>,
           \/ filePkg' = filePkg
           \/ /\ pc[t] \notin {"create_parent", "create_insert"}
              /\ filePkg' = [filePkg EXCEPT ![t] = NoPkg]
    PROVE  LostAfter = LostBefore
<1>1. filePkg' = filePkg
  BY OneThread DEF IInv, Local, TypeOK, Control
<1> QED  BY <1>1 DEF LostAfter, LostBefore

(* An open that fails loses the array it allocated and no other.           *)
LEMMA FailedOpenLoses ==
    ASSUME IInv, NEW t \in Threads, CreateNoPkg(t) \/ CreateNoParent(t)
    PROVE  LostBefore \subseteq LostAfter /\ OpenFails(t)
<1>1. TypeOK  BY DEF IInv, Local
<1>2. /\ filePkg'[1] = NoPkg /\ heap \subseteq heap'
      /\ UNCHANGED <<openFiles, cleanedUpFiles>>
  BY <1>1, OneThread DEF CreateNoPkg, CreateNoParent, Return, TypeOK, tables
<1>3. LostBefore \subseteq LostAfter
  BY <1>2, LostIs DEF LostBefore, LostAfter
<1>4. OpenFails(t)
  BY <1>1 DEF CreateNoPkg, CreateNoParent, Return, TypeOK, OpenFails
<1> QED  BY <1>3, <1>4

(* The array of a loaded record is new, and the record has it.             *)
LEMMA LoadLosesNothing ==
    ASSUME IInv, NEW t \in Threads, CreateLoad(t)
    PROVE  LostAfter = LostBefore
<1>1. TypeOK /\ t = 1 /\ filePkg[1] = NoPkg
  BY OneThread DEF IInv, Local, Control, CreateLoad
<1>2. PICK b \in Blocks \ heap :
          /\ heap' = heap \cup {b}
          /\ filePkg' = [filePkg EXCEPT ![t] =
                [fileID |-> IDOf[path[t]], parentID |-> ParentOf[path[t]],
                 extents |-> b]]
  BY DEF CreateLoad
<1>3. filePkg'[1].extents = b
  BY <1>1, <1>2, OneThread DEF TypeOK
<1>4. filePkg'[1] # NoPkg
  <2>1. filePkg'[1].parentID = ParentOf[path[t]] /\ filePkg'[1].fileID \in FileIDs
    BY <1>1, <1>2, OneThread DEF TypeOK, CreateLoad
  <2>2. NoPkg.fileID \notin FileIDs  BY NoFileNotID DEF NoPkg
  <2> QED  BY <2>1, <2>2
<1>5. UNCHANGED <<openFiles, cleanedUpFiles>>  BY DEF CreateLoad
<1> QED  BY <1>1, <1>2, <1>3, <1>4, <1>5, LostIs DEF LostBefore, LostAfter

(* The array of a record under construction goes into openFiles with it.   *)
LEMMA InsertLosesNothing ==
    ASSUME IInv, NEW t \in Threads, CreateInsert(t)
    PROVE  LostAfter = LostBefore
<1> DEFINE S == NodeAt(openFiles, "openFiles", it[t])
<1>1. TypeOK /\ t = 1 /\ filePkg[1] # NoPkg
  BY OneThread DEF IInv, Local, Control, CreateInsert
<1>2. filePkg[1] \in FilePkg  BY <1>1, OneThread DEF TypeOK
<1>3. filePkg[1].extents \notin ExtentsIn(openFiles)
  BY <1>1, OneThread DEF IInv, Local, Pending
<1>4. openFiles \in Seq(FilePkg) /\ Distinct(openFiles) /\ S \subseteq DOMAIN openFiles
  BY <1>1 DEF TypeOK, IInv, Shared, ExtentsOwnedOnce, NodeAt
<1>5. openFiles' = Insert(openFiles, S, filePkg[1])  BY <1>1 DEF CreateInsert
<1> DEFINE p == filePkg[1]
<1> HIDE DEF S, p
<1>6. ExtentsIn(Insert(openFiles, S, p)) = ExtentsIn(openFiles) \cup {p.extents}
  <2>1. p \in FilePkg /\ p.extents \notin ExtentsIn(openFiles)  BY <1>2, <1>3 DEF p
  <2>2. /\ Insert(openFiles, S, p) \in Seq(FilePkg)
        /\ ToSet(Insert(openFiles, S, p)) = ToSet(openFiles) \cup {p}
        /\ ExtentsIn(Insert(openFiles, S, p)) = ExtentsIn(openFiles) \cup {p.extents}
        /\ Distinct(Insert(openFiles, S, p))
    BY <1>4, <2>1, InsertFresh, Zenon
  <2> QED  BY <2>2
<1>7. filePkg'[1] = NoPkg /\ UNCHANGED <<heap, cleanedUpFiles>>
  BY <1>1, OneThread DEF CreateInsert, Return, TypeOK
<1>8. ExtentsIn(openFiles') = ExtentsIn(openFiles) \cup {filePkg[1].extents}
  BY <1>5, <1>6 DEF p
<1> QED  BY <1>1, <1>7, <1>8, LostIs DEF LostBefore, LostAfter

(* The array of a record goes from one list to the other with it.          *)
LEMMA MoveLosesNothing ==
    ASSUME IInv, NEW t \in Threads, CleanupMove(t)
    PROVE  LostAfter = LostBefore
<1> DEFINE M == Matches(cleanedUpFiles, context[cur[t]])
<1>1. TypeOK /\ t = 1 /\ filePkg[1] = NoPkg
  BY OneThread DEF IInv, Local, Control, CleanupMove
<1>2. PICK i \in DOMAIN openFiles :
          /\ openFiles' = Erase(openFiles, i)
          /\ cleanedUpFiles' = Insert(cleanedUpFiles, M, openFiles[i])
  BY DEF CleanupMove, NodeAt
<1>3. /\ openFiles \in Seq(FilePkg) /\ Distinct(openFiles)
      /\ cleanedUpFiles \in Seq(FilePkg) /\ Distinct(cleanedUpFiles)
      /\ ExtentsIn(openFiles) \cap ExtentsIn(cleanedUpFiles) = {}
      /\ M \subseteq DOMAIN cleanedUpFiles
  BY <1>1 DEF TypeOK, IInv, Shared, ExtentsOwnedOnce, Matches
<1> DEFINE p == openFiles[i]
<1>4. /\ p \in FilePkg /\ p.extents \in ExtentsIn(openFiles)
      /\ ExtentsIn(openFiles') = ExtentsIn(openFiles) \ {p.extents}
  <2>1. p.extents \in ExtentsIn(openFiles)  BY <1>2 DEF ExtentsIn
  <2> QED  BY <1>2, <1>3, <2>1, EraseOwn
<1> HIDE DEF M, p
<1>5. p.extents \notin ExtentsIn(cleanedUpFiles)  BY <1>3, <1>4
<1>6. ExtentsIn(Insert(cleanedUpFiles, M, p)) = ExtentsIn(cleanedUpFiles) \cup {p.extents}
  <2>1. /\ Insert(cleanedUpFiles, M, p) \in Seq(FilePkg)
        /\ ToSet(Insert(cleanedUpFiles, M, p)) = ToSet(cleanedUpFiles) \cup {p}
        /\ ExtentsIn(Insert(cleanedUpFiles, M, p))
               = ExtentsIn(cleanedUpFiles) \cup {p.extents}
        /\ Distinct(Insert(cleanedUpFiles, M, p))
    BY <1>3, <1>4, <1>5, InsertFresh, Zenon
  <2> QED  BY <2>1
<1>7. filePkg'[1] = NoPkg /\ heap' = heap
  BY <1>1, OneThread DEF CleanupMove, Return, TypeOK
<1>8. cleanedUpFiles' = Insert(cleanedUpFiles, M, p)  BY <1>2 DEF p
<1> QED  BY <1>1, <1>4, <1>6, <1>7, <1>8, LostIs DEF LostBefore, LostAfter

(* The array of a record that goes out of cleanedUpFiles is freed.         *)
LEMMA CloseLosesNothing ==
    ASSUME IInv, NEW t \in Threads, CloseFree(t)
    PROVE  LostAfter = LostBefore
<1>1. TypeOK /\ t = 1 /\ filePkg[1] = NoPkg
  BY OneThread DEF IInv, Local, Control, CloseFree
<1>2. PICK i \in DOMAIN cleanedUpFiles :
          /\ heap' = Freed(cleanedUpFiles[i])
          /\ cleanedUpFiles' = Erase(cleanedUpFiles, i)
  BY DEF CloseFree, NodeAt
<1>3. /\ cleanedUpFiles \in Seq(FilePkg) /\ Distinct(cleanedUpFiles)
      /\ ExtentsIn(openFiles) \cap ExtentsIn(cleanedUpFiles) = {}
  BY <1>1 DEF TypeOK, IInv, Shared, ExtentsOwnedOnce
<1>4. /\ cleanedUpFiles[i].extents \in ExtentsIn(cleanedUpFiles)
      /\ ExtentsIn(cleanedUpFiles')
             = ExtentsIn(cleanedUpFiles) \ {cleanedUpFiles[i].extents}
  <2>1. cleanedUpFiles[i].extents \in ExtentsIn(cleanedUpFiles)
    BY <1>2 DEF ExtentsIn
  <2> QED  BY <1>2, <1>3, <2>1, EraseOwn
<1>5. filePkg'[1] = NoPkg /\ openFiles' = openFiles
  BY <1>1, OneThread DEF CloseFree, Return, TypeOK
<1> QED  BY <1>1, <1>2, <1>3, <1>4, <1>5, LostIs DEF LostBefore, LostAfter, Freed

(* A step loses something only if it is an open that fails.                *)
LEMMA StepLoses ==
    ASSUME IInv, [Next]_vars
    PROVE  \/ LostAfter = LostBefore
           \/ LostBefore \subseteq LostAfter /\ \E t \in Threads : OpenFails(t)
<1>1. CASE UNCHANGED vars
  BY <1>1 DEF vars, tables, locals, LostAfter, LostBefore
<1>2. ASSUME NEW t \in Threads, NEW h \in Handles, Callback(t, h)
      PROVE  LostAfter = LostBefore
  <2>1. CASE FindFilesOfFile(t, h)
    <3>1. /\ UNCHANGED <<heap, openFiles, cleanedUpFiles>>
          /\ pc[t] \notin {"create_parent", "create_insert"}
          /\ filePkg' = [filePkg EXCEPT ![t] = NoPkg]
      BY <2>1 DEF FindFilesOfFile, Return, tables
    <3> QED  BY <3>1, NothingLost
  <2>2. CASE ~ FindFilesOfFile(t, h)
    <3>1. UNCHANGED <<heap, openFiles, cleanedUpFiles, filePkg>>
      BY <1>2, <2>2 DEF Callback, CreateFile, Cleanup, CloseFile, ReadFile,
                        GetFileInformation, FindFiles, tables
    <3> QED  BY <3>1, NothingLost
  <2> QED  BY <2>1, <2>2
<1>3. ASSUME NEW t \in Threads,
             \/ CreateTimeout(t) \/ CreateNoPath(t) \/ ReadExtents(t)
             \/ ConvertMetadata(t) \/ FindList(t)
      PROVE  LostAfter = LostBefore
  <2>1. /\ UNCHANGED <<heap, openFiles, cleanedUpFiles>>
        /\ pc[t] \notin {"create_parent", "create_insert"}
        /\ filePkg' = [filePkg EXCEPT ![t] = NoPkg]
    BY <1>3 DEF CreateTimeout, CreateNoPath, ReadExtents, ConvertMetadata, FindList,
                Return, tables
  <2> QED  BY <2>1, NothingLost
<1>4. ASSUME NEW t \in Threads, CreateLock(t) \/ FindLock(t) \/ CreateParent(t)
      PROVE  LostAfter = LostBefore
  <2>1. UNCHANGED <<heap, openFiles, cleanedUpFiles, filePkg>>
    BY <1>4 DEF CreateLock, FindLock, CreateParent, tables, locals
  <2> QED  BY <2>1, NothingLost
<1>5. ASSUME NEW t \in Threads, Step(t)
      PROVE  \/ LostAfter = LostBefore
             \/ LostBefore \subseteq LostAfter /\ OpenFails(t)
  BY <1>3, <1>4, <1>5, FailedOpenLoses, LoadLosesNothing, InsertLosesNothing,
     MoveLosesNothing, CloseLosesNothing DEF Step, CreateStep
<1> QED  BY <1>1, <1>2, <1>5 DEF Next

(* Extents arrays are lost only by opens that fail after they were         *)
(* allocated, and for good (dokan_callbacks.cpp:76-98).                    *)
THEOREM OnlyFailuresLose == Spec => OnlyFailedOpensLeak
<1>1. IInv /\ [Next]_vars =>
          [Leaked' # Leaked =>
              /\ Leaked \subseteq Leaked'
              /\ \E t \in Threads :
                    /\ pc[t] \in {"create_load", "create_parent"}
                    /\ pc'[t] = "idle"
                    /\ result'[t] = "-ERROR_FILE_NOT_FOUND"]_vars
  <2> SUFFICES ASSUME IInv, [Next]_vars, Leaked' # Leaked
               PROVE  /\ Leaked \subseteq Leaked'
                      /\ \E t \in Threads :
                            /\ pc[t] \in {"create_load", "create_parent"}
                            /\ pc'[t] = "idle"
                            /\ result'[t] = "-ERROR_FILE_NOT_FOUND"
    OBVIOUS
  <2>1. Leaked = LostBefore /\ Leaked' = LostAfter
    BY DEF Leaked, LostBefore, LostAfter, Lost
  <2> QED  BY <2>1, StepLoses DEF OpenFails
<1> QED  BY <1>1, Invariance, PTL DEF Spec, OnlyFailedOpensLeak

=============================================================================
