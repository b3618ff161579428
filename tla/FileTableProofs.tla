-------------------------- MODULE FileTableProofs --------------------------
(***************************************************************************)
(* The multimap is balanced, for every set of handles and records: no      *)
(* Cleanup and no Close comes up empty.                                    *)
(***************************************************************************)
EXTENDS FileTable, FiniteSetTheorems, TLAPS

(* What Balanced needs to be inductive: the table is finite, and a retired *)
(* record is no longer an opened one.                                      *)
Separate ==
    /\ IsFiniteSet(opened)
    /\ IsFiniteSet(cleaned)
    /\ opened \cap cleaned = {}

(* A handle that is not closed has a file.                                 *)
Attached == \A h \in Handles : phase[h] # "closed" => file[h] \in IDs

Inv == TypeOK /\ Separate /\ Attached /\ Balanced

----------------------------------------------------------------------------
(* Two finite sets of one size stay of one size when each gains a new      *)
(* element, or each loses one of its own.                                  *)
LEMMA GrowAlike ==
    ASSUME NEW S, NEW T, NEW x, NEW y,
           IsFiniteSet(S), IsFiniteSet(T), Cardinality(S) = Cardinality(T),
           x \notin S, y \notin T
    PROVE  Cardinality(S \cup {x}) = Cardinality(T \cup {y})
<1>1. Cardinality(S \cup {x}) = Cardinality(S) + 1  BY FS_AddElement
<1>2. Cardinality(T \cup {y}) = Cardinality(T) + 1  BY FS_AddElement
<1> QED  BY <1>1, <1>2

(* Removing one element from each of two sets of the same size leaves two  *)
(* sets of the same size.                                                  *)
LEMMA ShrinkAlike ==
    ASSUME NEW S, NEW T, NEW x, NEW y,
           IsFiniteSet(S), IsFiniteSet(T), Cardinality(S) = Cardinality(T),
           x \in S, y \in T
    PROVE  Cardinality(S \ {x}) = Cardinality(T \ {y})
<1>1. Cardinality(S \ {x}) = Cardinality(S) - 1  BY FS_RemoveElement
<1>2. Cardinality(T \ {y}) = Cardinality(T) - 1  BY FS_RemoveElement
<1> QED  BY <1>1, <1>2

(* The sets that Balanced counts are finite.                               *)
LEMMA CountedFinite ==
    ASSUME Separate, NEW f, NEW ph
    PROVE  /\ IsFiniteSet(RecordsOf(opened, f))
           /\ IsFiniteSet(RecordsOf(cleaned, f))
           /\ IsFiniteSet(HandlesIn(ph, f))
<1>1. RecordsOf(opened, f) \subseteq opened  BY DEF RecordsOf
<1>2. RecordsOf(cleaned, f) \subseteq cleaned  BY DEF RecordsOf
<1>3. HandlesIn(ph, f) \subseteq Handles  BY DEF HandlesIn
<1> QED  BY <1>1, <1>2, <1>3, HandlesFinite, FS_Subset DEF Separate

----------------------------------------------------------------------------
(* The initial table is empty and every handle is closed.                  *)
LEMMA InitInv ==
    ASSUME Init
    PROVE  Inv
<1>1. TypeOK  BY DEF Init, TypeOK, Phases
<1>2. Separate  BY FS_EmptySet DEF Init, Separate
<1>3. ASSUME NEW f \in IDs
      PROVE  /\ RecordsOf(opened, f) = {} /\ HandlesIn("open", f) = {}
             /\ RecordsOf(cleaned, f) = {} /\ HandlesIn("cleaned", f) = {}
  BY DEF Init, RecordsOf, HandlesIn
<1>4. Balanced  BY <1>3 DEF Balanced
<1>5. Attached  BY DEF Init, Attached
<1> QED  BY <1>1, <1>2, <1>4, <1>5 DEF Inv

(* An opened handle and its fresh record are counted together.             *)
LEMMA OpenInv ==
    ASSUME Inv, NEW h \in Handles, NEW p \in Records, Open(h, p)
    PROVE  Inv'
<1> USE DEF Inv
<1>1. TypeOK'  BY DEF Open, TypeOK, Phases, IDs
<1>2. Separate'
  BY FS_AddElement DEF Open, Separate
<1>3. ASSUME NEW f \in IDs
      PROVE  /\ Cardinality(RecordsOf(opened, f)')
                    = Cardinality(HandlesIn("open", f)')
             /\ Cardinality(RecordsOf(cleaned, f)')
                    = Cardinality(HandlesIn("cleaned", f)')
  <2>1. RecordsOf(cleaned, f)' = RecordsOf(cleaned, f)
    BY DEF Open, RecordsOf
  <2>2. HandlesIn("cleaned", f)' = HandlesIn("cleaned", f)
    BY DEF Open, HandlesIn, TypeOK
  <2>3. CASE f = p.fileID
    <3>1. RecordsOf(opened, f)' = RecordsOf(opened, f) \cup {p}
      BY <2>3 DEF Open, RecordsOf
    <3>2. HandlesIn("open", f)' = HandlesIn("open", f) \cup {h}
      BY <2>3 DEF Open, HandlesIn, TypeOK
    <3>3. p \notin RecordsOf(opened, f)  BY DEF Open, RecordsOf
    <3>4. h \notin HandlesIn("open", f)  BY DEF Open, HandlesIn
    <3> QED
      BY <2>1, <2>2, <3>1, <3>2, <3>3, <3>4, CountedFinite, GrowAlike
         DEF Balanced
  <2>4. CASE f # p.fileID
    <3>1. RecordsOf(opened, f)' = RecordsOf(opened, f)
      BY <2>4 DEF Open, RecordsOf
    <3>2. HandlesIn("open", f)' = HandlesIn("open", f)
      BY <2>4 DEF Open, HandlesIn, TypeOK
    <3> QED  BY <2>1, <2>2, <3>1, <3>2 DEF Balanced
  <2> QED  BY <2>3, <2>4
<1>4. IDs' = IDs  BY DEF IDs
<1>5. Balanced'  BY <1>3, <1>4 DEF Balanced, RecordsOf, HandlesIn
<1>6. Attached'  BY DEF Open, Attached, TypeOK, IDs
<1> QED  BY <1>1, <1>2, <1>5, <1>6

(* A cleaned-up handle and some record of its file move over together.     *)
LEMMA CleanupInv ==
    ASSUME Inv, NEW h \in Handles, NEW p \in Records, Cleanup(h, p)
    PROVE  Inv'
<1> USE DEF Inv
<1>1. TypeOK'  BY DEF Cleanup, TypeOK, Phases
<1>2. Separate'
  BY FS_AddElement, FS_RemoveElement DEF Cleanup, Separate
<1>3. ASSUME NEW f \in IDs
      PROVE  /\ Cardinality(RecordsOf(opened, f)')
                    = Cardinality(HandlesIn("open", f)')
             /\ Cardinality(RecordsOf(cleaned, f)')
                    = Cardinality(HandlesIn("cleaned", f)')
  <2>1. CASE f = p.fileID
    <3>1. RecordsOf(opened, f)' = RecordsOf(opened, f) \ {p}
      BY DEF Cleanup, RecordsOf
    <3>2. HandlesIn("open", f)' = HandlesIn("open", f) \ {h}
      BY DEF Cleanup, HandlesIn, TypeOK
    <3>3. RecordsOf(cleaned, f)' = RecordsOf(cleaned, f) \cup {p}
      BY <2>1 DEF Cleanup, RecordsOf
    <3>4. HandlesIn("cleaned", f)' = HandlesIn("cleaned", f) \cup {h}
      BY <2>1 DEF Cleanup, HandlesIn, TypeOK
    <3>5. p \in RecordsOf(opened, f) /\ p \notin RecordsOf(cleaned, f)
      BY <2>1 DEF Cleanup, RecordsOf, Separate
    <3>6. h \in HandlesIn("open", f) /\ h \notin HandlesIn("cleaned", f)
      BY <2>1 DEF Cleanup, HandlesIn
    <3>7. Cardinality(RecordsOf(opened, f)')
              = Cardinality(HandlesIn("open", f)')
      BY <3>1, <3>2, <3>5, <3>6, CountedFinite, ShrinkAlike DEF Balanced
    <3>8. Cardinality(RecordsOf(cleaned, f)')
              = Cardinality(HandlesIn("cleaned", f)')
      BY <3>3, <3>4, <3>5, <3>6, CountedFinite, GrowAlike DEF Balanced
    <3> QED  BY <3>7, <3>8
  <2>2. CASE f # p.fileID
    <3>1. /\ RecordsOf(opened, f)' = RecordsOf(opened, f)
          /\ RecordsOf(cleaned, f)' = RecordsOf(cleaned, f)
      BY <2>2 DEF Cleanup, RecordsOf
    <3>2. /\ HandlesIn("open", f)' = HandlesIn("open", f)
          /\ HandlesIn("cleaned", f)' = HandlesIn("cleaned", f)
      BY <2>2 DEF Cleanup, HandlesIn, TypeOK
    <3> QED  BY <3>1, <3>2 DEF Balanced
  <2> QED  BY <2>1, <2>2
<1>4. IDs' = IDs  BY DEF IDs
<1>5. Balanced'  BY <1>3, <1>4 DEF Balanced, RecordsOf, HandlesIn
<1>6. Attached'  BY DEF Cleanup, Attached, TypeOK, IDs
<1> QED  BY <1>1, <1>2, <1>5, <1>6

(* A closed handle takes a retired record of its file with it.             *)
LEMMA CloseInv ==
    ASSUME Inv, NEW h \in Handles, NEW p \in Records, Close(h, p)
    PROVE  Inv'
<1> USE DEF Inv
<1>1. TypeOK'  BY DEF Close, TypeOK, Phases
<1>2. Separate'
  BY FS_RemoveElement DEF Close, Separate
<1>3. ASSUME NEW f \in IDs
      PROVE  /\ Cardinality(RecordsOf(opened, f)')
                    = Cardinality(HandlesIn("open", f)')
             /\ Cardinality(RecordsOf(cleaned, f)')
                    = Cardinality(HandlesIn("cleaned", f)')
  <2>1. RecordsOf(opened, f)' = RecordsOf(opened, f)
    BY DEF Close, RecordsOf
  <2>2. HandlesIn("open", f)' = HandlesIn("open", f)
    BY DEF Close, HandlesIn, TypeOK
  <2>3. CASE f = p.fileID
    <3>1. RecordsOf(cleaned, f)' = RecordsOf(cleaned, f) \ {p}
      BY DEF Close, RecordsOf
    <3>2. HandlesIn("cleaned", f)' = HandlesIn("cleaned", f) \ {h}
      BY DEF Close, HandlesIn, TypeOK
    <3>3. p \in RecordsOf(cleaned, f)  BY <2>3 DEF Close, RecordsOf
    <3>4. h \in HandlesIn("cleaned", f)  BY <2>3 DEF Close, HandlesIn
    <3> QED
      BY <2>1, <2>2, <3>1, <3>2, <3>3, <3>4, CountedFinite, ShrinkAlike
         DEF Balanced
  <2>4. CASE f # p.fileID
    <3>1. RecordsOf(cleaned, f)' = RecordsOf(cleaned, f)
      BY <2>4 DEF Close, RecordsOf
    <3>2. HandlesIn("cleaned", f)' = HandlesIn("cleaned", f)
      BY <2>4 DEF Close, HandlesIn, TypeOK
    <3> QED  BY <2>1, <2>2, <3>1, <3>2 DEF Balanced
  <2> QED  BY <2>3, <2>4
<1>4. IDs' = IDs  BY DEF IDs
<1>5. Balanced'  BY <1>3, <1>4 DEF Balanced, RecordsOf, HandlesIn
<1>6. Attached'  BY DEF Close, Attached, TypeOK, IDs
<1> QED  BY <1>1, <1>2, <1>5, <1>6

(* Every step keeps the invariant, and so does leaving the table alone.    *)
LEMMA NextInv ==
    ASSUME Inv, [Next]_vars
    PROVE  Inv'
<1>1. CASE Next
  <2>1. PICK h \in Handles, p \in Records :
            Open(h, p) \/ Cleanup(h, p) \/ Close(h, p)
    BY <1>1 DEF Next
  <2> QED  BY <2>1, OpenInv, CleanupInv, CloseInv
<1>2. CASE UNCHANGED vars
  BY <1>2
     DEF vars, Inv, TypeOK, Separate, Attached, Balanced, RecordsOf, HandlesIn,
         IDs
<1> QED  BY <1>1, <1>2

(* The table always has its type.                                          *)
THEOREM TableTypeCorrect == Spec => []TypeOK
<1>1. Init => Inv  BY InitInv
<1>2. Inv /\ [Next]_vars => Inv'  BY NextInv
<1>3. Inv => TypeOK  BY DEF Inv
<1> QED  BY <1>1, <1>2, <1>3, PTL DEF Spec

(* A file has as many opened records as open handles and as many retired   *)
(* records as cleaned-up handles, always.                                  *)
THEOREM AlwaysBalanced == Spec => []Balanced
<1>1. Init => Inv  BY InitInv
<1>2. Inv /\ [Next]_vars => Inv'  BY NextInv
<1>3. Inv => Balanced  BY DEF Inv
<1> QED  BY <1>1, <1>2, <1>3, PTL DEF Spec

(* The searches of Cleanup and Close never come up empty.                  *)
LEMMA NeverEmpty ==
    ASSUME Inv, NEW h \in Handles
    PROVE  /\ phase[h] = "open" => \E p \in opened : p.fileID = file[h]
           /\ phase[h] = "cleaned" => \E p \in cleaned : p.fileID = file[h]
<1> DEFINE f == file[h]
<1>1. ASSUME NEW S, NEW ph \in {"open", "cleaned"}, phase[h] = ph,
             IsFiniteSet(RecordsOf(S, f)),
             Cardinality(RecordsOf(S, f)) = Cardinality(HandlesIn(ph, f))
      PROVE  \E p \in S : p.fileID = f
  <2>1. h \in HandlesIn(ph, f)  BY <1>1 DEF HandlesIn
  <2>2. IsFiniteSet(HandlesIn(ph, f))  BY CountedFinite DEF Inv
  <2>3. Cardinality(HandlesIn(ph, f)) # 0  BY <2>1, <2>2, FS_EmptySet
  <2>4. RecordsOf(S, f) # {}  BY <1>1, <2>3, FS_EmptySet
  <2> QED  BY <2>4 DEF RecordsOf
<1>2. phase[h] # "closed" => f \in IDs  BY DEF Inv, Attached
<1>3. IsFiniteSet(RecordsOf(opened, f)) /\ IsFiniteSet(RecordsOf(cleaned, f))
  BY CountedFinite DEF Inv
<1>4. CASE phase[h] = "open"
  BY <1>1, <1>2, <1>3, <1>4 DEF Inv, Balanced
<1>5. CASE phase[h] = "cleaned"
  BY <1>1, <1>2, <1>3, <1>5 DEF Inv, Balanced
<1> QED  BY <1>4, <1>5
=============================================================================
