----------------------------- MODULE ListLemmas -----------------------------
(***************************************************************************)
(* What inserting into and erasing from a linked list, modelled by a       *)
(* sequence, do to its elements; and that a loop over a list stops at the  *)
(* first position it looks for.                                            *)
(***************************************************************************)
EXTENDS SequencesExt, SequenceTheorems, WellFoundedInduction, TLAPS

(* A nonempty set of natural numbers has a least element.                  *)
LEMMA MinIsLeast ==
    ASSUME NEW S, S \subseteq Nat, S # {}
    PROVE  Min(S) \in S /\ \A x \in S : Min(S) <= x
<1> DEFINE Less == {ss \in Nat \X Nat : ss[1] < ss[2]}
<1>1. OpToRel(<, Nat) = Less  BY Zenon DEF OpToRel
<1>2. IsWellFoundedOn(Less, Nat)  BY <1>1, NatLessThanWellFounded, Zenon
<1>3. PICK m \in S : \A y \in S : ~ (<<y, m>> \in Less)
  <2> HIDE DEF Less
  <2> QED  BY <1>2, WFMin
<1>4. ASSUME NEW y \in S
      PROVE  m <= y
  <2>1. m \in Nat /\ y \in Nat  OBVIOUS
  <2>2. <<y, m>> \notin Less  BY <1>3
  <2>3. ~ (y < m)  BY <2>1, <2>2
  <2> QED  BY <2>1, <2>3
<1> QED  BY <1>4 DEF Min

(* A bounded one has a greatest element.                                   *)
LEMMA MaxIsGreatest ==
    ASSUME NEW S, NEW n \in Nat, S \subseteq 0 .. n, S # {}
    PROVE  Max(S) \in S /\ \A x \in S : x <= Max(S)
<1> DEFINE M == {n - x : x \in S}
<1>1. \A x \in S : x \in Nat /\ x <= n /\ n - x \in Nat /\ n - x \in M
  OBVIOUS
<1>2. Min(M) \in M /\ \A y \in M : Min(M) <= y
  <2>1. M \subseteq Nat /\ M # {}
    BY <1>1
  <2> QED
    BY <2>1, MinIsLeast
<1>3. PICK m \in S : Min(M) = n - m
  BY <1>2
<1>4. ASSUME NEW x \in S
      PROVE  x <= m
  <2>1. n - m <= n - x
    BY <1>1, <1>2, <1>3
  <2> QED
    BY <1>1, <2>1
<1> QED  BY <1>4 DEF Max

(* Induction up to a bound, over a set of numbers.                         *)
LEMMA UpTo ==
    ASSUME NEW n \in Nat, NEW S, 0 \in S, \A k \in 1 .. n : k - 1 \in S => k \in S
    PROVE  0 .. n \subseteq S
<1> DEFINE Bad == (0 .. n) \ S
<1>1. SUFFICES ASSUME Bad # {}
               PROVE  FALSE
  OBVIOUS
<1>2. Min(Bad) \in Bad /\ \A x \in Bad : Min(Bad) <= x
  <2>1. Bad \subseteq Nat
    OBVIOUS
  <2> QED
    BY <1>1, <2>1, MinIsLeast
<1>3. PICK m \in Bad : \A x \in Bad : m <= x
  BY <1>2
<1>4. m \in 1 .. n /\ m - 1 \in 0 .. n
  BY <1>3
<1>5. m - 1 \notin Bad
  BY <1>3, <1>4
<1> QED
  BY <1>4, <1>5

(* A loop of n turns with values in V; the values g of one that starts     *)
(* from b.                                                                 *)
LoopOver(V, n) == [(1 .. n) \X V -> V]
ValuesOf(g, V, n, b, step) ==
    /\ g \in [0 .. n -> V] /\ g[0] = b
    /\ \A k \in 1 .. n : g[k] = step[<<k, g[k - 1]>>]

(* A loop that goes from one value to the next has the values it should.   *)
LEMMA LoopValues ==
    ASSUME NEW V, NEW n \in Nat, NEW b \in V, NEW step \in LoopOver(V, n)
    PROVE  \E g : ValuesOf(g, V, n, b, step)
<1> DEFINE Runs(m, g) == /\ g \in [0 .. m -> V] /\ g[0] = b
                         /\ \A k \in 1 .. m : g[k] = step[<<k, g[k - 1]>>]
           S == {m \in 0 .. n : \E g : Runs(m, g)}
<1>0. step \in [(1 .. n) \X V -> V]
  BY DEF LoopOver
<1>1. 0 \in S
  <2> DEFINE start == [k \in 0 .. 0 |-> b]
  <2>1. start \in [0 .. 0 -> V] /\ start[0] = b /\ 1 .. 0 = {}
    OBVIOUS
  <2> HIDE DEF start
  <2>2. Runs(0, start)
    BY <2>1
  <2> QED
    BY <2>2
<1>2. ASSUME NEW m \in 1 .. n, m - 1 \in S
      PROVE  m \in S
  <2>1. PICK g : Runs(m - 1, g)
    BY <1>2
  <2> DEFINE h == [k \in 0 .. m |-> IF k = m THEN step[<<m, g[m - 1]>>] ELSE g[k]]
  <2>2. \A k \in 0 .. m : k = m \/ k \in 0 .. m - 1
    OBVIOUS
  <2>3. g[m - 1] \in V /\ \A k \in 0 .. m - 1 : g[k] \in V
    BY <2>1
  <2>4. step[<<m, g[m - 1]>>] \in V
    BY <1>0, <2>3
  <2>5. h \in [0 .. m -> V]
    BY <2>2, <2>3, <2>4
  <2>6. h[0] = b
    BY <2>1
  <2>7. \A k \in 1 .. m : h[k] = step[<<k, h[k - 1]>>]
    <3> TAKE k \in 1 .. m
    <3>1. h[k - 1] = g[k - 1]
      OBVIOUS
    <3>2. CASE k = m
      <4>1. h[m] = step[<<m, g[m - 1]>>]
        OBVIOUS
      <4> QED
        BY <3>1, <3>2, <4>1, Zenon
    <3>3. CASE k # m
      <4>1. k \in 1 .. m - 1 /\ h[k] = g[k]
        BY <3>3
      <4> QED
        BY <2>1, <3>1, <4>1
    <3> QED
      BY <3>2, <3>3
  <2> HIDE DEF h
  <2> QED
    BY <2>5, <2>6, <2>7
<1>3. 0 .. n \subseteq S
  <2> HIDE DEF S
  <2> QED
    BY <1>1, <1>2, UpTo
<1>4. \E g : Runs(n, g)
  BY <1>3
<1> QED
  BY <1>4 DEF ValuesOf

(* The elements of a list after an insertion, by position.                 *)
LEMMA InsertAtElements ==
    ASSUME NEW T, NEW s \in Seq(T), NEW e \in T, NEW i \in 1 .. Len(s) + 1
    PROVE  /\ InsertAt(s, i, e) \in Seq(T)
           /\ Len(InsertAt(s, i, e)) = Len(s) + 1
           /\ \A k \in 1 .. Len(s) + 1 :
                 InsertAt(s, i, e)[k] = IF k < i THEN s[k]
                                        ELSE IF k = i THEN e ELSE s[k - 1]
<1> DEFINE a == SubSeq(s, 1, i - 1)
           b == SubSeq(s, i, Len(s))
<1>1. a \in Seq(T) /\ Len(a) = i - 1 /\ \A k \in 1 .. i - 1 : a[k] = s[k]
  OBVIOUS
<1>2. /\ b \in Seq(T) /\ Len(b) = Len(s) + 1 - i
      /\ \A k \in 1 .. Len(s) + 1 - i : b[k] = s[k + i - 1]
  OBVIOUS
<1>3. InsertAt(s, i, e) = a \o <<e>> \o b  BY DEF InsertAt
<1> HIDE DEF a, b
<1>4. /\ a \o <<e>> \in Seq(T)
      /\ Len(a \o <<e>>) = i
      /\ \A k \in 1 .. i : (a \o <<e>>)[k] = IF k < i THEN s[k] ELSE e
  BY <1>1
<1> DEFINE c == a \o <<e>>
<1>5. c \in Seq(T) /\ Len(c) = i
      /\ \A k \in 1 .. i : c[k] = IF k < i THEN s[k] ELSE e
  BY <1>4
<1> HIDE DEF c
<1>6. /\ c \o b \in Seq(T) /\ Len(c \o b) = Len(s) + 1
      /\ \A k \in 1 .. Len(s) + 1 :
            (c \o b)[k] = IF k <= i THEN c[k] ELSE b[k - i]
  <2>1. c \o b \in Seq(T)  BY <1>2, <1>5, ConcatProperties
  <2>2. Len(c \o b) = Len(c) + Len(b)
    BY <1>2, <1>5, ConcatProperties
  <2>3. \A k \in 1 .. Len(c) + Len(b) :
            (c \o b)[k] = IF k <= Len(c) THEN c[k] ELSE b[k - Len(c)]
    BY <1>2, <1>5, ConcatProperties
  <2>4. Len(c) + Len(b) = Len(s) + 1  BY <1>2, <1>5
  <2> QED  BY <1>5, <2>1, <2>2, <2>3, <2>4
<1>7. ASSUME NEW k \in 1 .. Len(s) + 1
      PROVE  (c \o b)[k] = IF k < i THEN s[k]
                           ELSE IF k = i THEN e ELSE s[k - 1]
  <2>1. CASE k <= i  BY <1>5, <1>6, <2>1
  <2>2. CASE ~ (k <= i)
    <3>1. (c \o b)[k] = b[k - i]  BY <1>6, <2>2
    <3>2. k - i \in 1 .. Len(s) + 1 - i /\ k - i + i - 1 = k - 1  BY <2>2
    <3>3. b[k - i] = s[k - 1]  BY <1>2, <3>2
    <3> QED  BY <2>2, <3>1, <3>3
  <2> QED  BY <2>1, <2>2, Zenon
<1> QED  BY <1>3, <1>6, <1>7 DEF c

(* The elements of a list after an erasure, by position.                   *)
LEMMA RemoveAtElements ==
    ASSUME NEW T, NEW s \in Seq(T), NEW i \in 1 .. Len(s)
    PROVE  /\ RemoveAt(s, i) \in Seq(T)
           /\ Len(RemoveAt(s, i)) = Len(s) - 1
           /\ \A k \in 1 .. Len(s) - 1 :
                 RemoveAt(s, i)[k] = IF k < i THEN s[k] ELSE s[k + 1]
<1> DEFINE a == SubSeq(s, 1, i - 1)
           b == SubSeq(s, i + 1, Len(s))
<1>1. a \in Seq(T) /\ Len(a) = i - 1 /\ \A k \in 1 .. i - 1 : a[k] = s[k]
  OBVIOUS
<1>2. /\ b \in Seq(T) /\ Len(b) = Len(s) - i
      /\ \A k \in 1 .. Len(s) - i : b[k] = s[k + i]
  OBVIOUS
<1>3. RemoveAt(s, i) = a \o b  BY DEF RemoveAt
<1> HIDE DEF a, b
<1>4. /\ a \o b \in Seq(T) /\ Len(a \o b) = Len(s) - 1
      /\ \A k \in 1 .. Len(s) - 1 :
            (a \o b)[k] = IF k < i THEN a[k] ELSE b[k - i + 1]
  <2>1. a \o b \in Seq(T)  BY <1>1, <1>2, ConcatProperties
  <2>2. Len(a \o b) = Len(a) + Len(b)
    BY <1>1, <1>2, ConcatProperties
  <2>3. \A k \in 1 .. Len(a) + Len(b) :
            (a \o b)[k] = IF k <= Len(a) THEN a[k] ELSE b[k - Len(a)]
    BY <1>1, <1>2, ConcatProperties
  <2>4. Len(a) + Len(b) = Len(s) - 1 /\ Len(a) = i - 1  BY <1>1, <1>2
  <2>5. \A k \in 1 .. Len(s) - 1 : k - (i - 1) = k - i + 1  OBVIOUS
  <2> QED  BY <2>1, <2>2, <2>3, <2>4, <2>5
<1>5. ASSUME NEW k \in 1 .. Len(s) - 1
      PROVE  (a \o b)[k] = IF k < i THEN s[k] ELSE s[k + 1]
  <2>1. CASE k < i  BY <1>1, <1>4, <2>1
  <2>2. CASE ~ (k < i)
    <3>1. (a \o b)[k] = b[k - i + 1]  BY <1>4, <2>2
    <3>2. k - i + 1 \in 1 .. Len(s) - i /\ k - i + 1 + i = k + 1  BY <2>2
    <3>3. b[k - i + 1] = s[k + 1]  BY <1>2, <3>2
    <3> QED  BY <2>2, <3>1, <3>3
  <2> QED  BY <2>1, <2>2, Zenon
<1> QED  BY <1>3, <1>4, <1>5

(* An insertion adds exactly the new element to the elements of a list.    *)
LEMMA InsertAtSet ==
    ASSUME NEW T, NEW s \in Seq(T), NEW e \in T, NEW i \in 1 .. Len(s) + 1
    PROVE  ToSet(InsertAt(s, i, e)) = ToSet(s) \cup {e}
<1> DEFINE r == InsertAt(s, i, e)
<1>1. /\ r \in Seq(T) /\ Len(r) = Len(s) + 1
      /\ \A k \in 1 .. Len(s) + 1 :
            r[k] = IF k < i THEN s[k] ELSE IF k = i THEN e ELSE s[k - 1]
  BY InsertAtElements
<1> HIDE DEF r
<1>2. ToSet(r) \subseteq ToSet(s) \cup {e}
  <2> SUFFICES ASSUME NEW k \in 1 .. Len(s) + 1
               PROVE  r[k] \in ToSet(s) \cup {e}
    BY <1>1 DEF ToSet
  <2>1. CASE k < i  BY <1>1, <2>1 DEF ToSet
  <2>2. CASE k = i  BY <1>1, <2>2
  <2>3. CASE k > i
    <3>1. k - 1 \in 1 .. Len(s) /\ r[k] = s[k - 1]  BY <1>1, <2>3
    <3> QED  BY <3>1 DEF ToSet
  <2> QED  BY <2>1, <2>2, <2>3
<1>3. e \in ToSet(r)  BY <1>1 DEF ToSet
<1>4. ASSUME NEW k \in 1 .. Len(s)
      PROVE  s[k] \in ToSet(r)
  <2>1. CASE k < i  BY <1>1, <2>1 DEF ToSet
  <2>2. CASE k >= i
    <3>1. k + 1 \in 1 .. Len(s) + 1 /\ ~ (k + 1 < i) /\ k + 1 # i
          /\ k + 1 - 1 = k
      BY <2>2
    <3>2. r[k + 1] = s[k]  BY <1>1, <3>1
    <3>3. k + 1 \in DOMAIN r  BY <1>1, <3>1
    <3> QED  BY <3>2, <3>3 DEF ToSet
  <2> QED  BY <2>1, <2>2
<1>5. ToSet(s) \subseteq ToSet(r)
  <2>1. ToSet(s) = {s[k] : k \in 1 .. Len(s)}  BY DEF ToSet
  <2> QED  BY <1>4, <2>1
<1> QED  BY <1>2, <1>3, <1>5 DEF r

(* An erasure takes away exactly the erased element, if it occurs once.    *)
LEMMA RemoveAtSet ==
    ASSUME NEW T, NEW s \in Seq(T), NEW i \in 1 .. Len(s),
           \A j \in 1 .. Len(s) : s[j] = s[i] => j = i
    PROVE  ToSet(RemoveAt(s, i)) = ToSet(s) \ {s[i]}
<1> DEFINE r == RemoveAt(s, i)
<1>1. /\ r \in Seq(T) /\ Len(r) = Len(s) - 1
      /\ \A k \in 1 .. Len(s) - 1 : r[k] = IF k < i THEN s[k] ELSE s[k + 1]
  BY RemoveAtElements
<1> HIDE DEF r
<1>2. ToSet(r) = {r[k] : k \in 1 .. Len(s) - 1}
      /\ ToSet(s) = {s[k] : k \in 1 .. Len(s)}
  BY <1>1 DEF ToSet
<1>3. ASSUME NEW k \in 1 .. Len(s) - 1
      PROVE  r[k] \in ToSet(s) \ {s[i]}
  <2>1. CASE k < i
    <3>1. r[k] = s[k] /\ k \in 1 .. Len(s) /\ k # i  BY <1>1, <2>1
    <3> QED  BY <1>2, <3>1
  <2>2. CASE k >= i
    <3>1. r[k] = s[k + 1] /\ k + 1 \in 1 .. Len(s) /\ k + 1 # i
      BY <1>1, <2>2
    <3> QED  BY <1>2, <3>1
  <2> QED  BY <2>1, <2>2
<1>4. ASSUME NEW k \in 1 .. Len(s), k # i
      PROVE  s[k] \in ToSet(r)
  <2>1. CASE k < i
    <3>1. k \in 1 .. Len(s) - 1 /\ r[k] = s[k]  BY <1>1, <2>1
    <3> QED  BY <1>2, <3>1
  <2>2. CASE k > i
    <3>1. k - 1 \in 1 .. Len(s) - 1 /\ r[k - 1] = s[k]  BY <1>1, <2>2
    <3> QED  BY <1>2, <3>1
  <2> QED  BY <1>4, <2>1, <2>2
<1>5. ASSUME NEW x \in ToSet(s) \ {s[i]}
      PROVE  x \in ToSet(r)
  BY <1>2, <1>4
<1> QED  BY <1>2, <1>3, <1>5 DEF r
=============================================================================
