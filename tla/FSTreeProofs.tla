---------------------------- MODULE FSTreeProofs ----------------------------
(***************************************************************************)
(* The walk over a tree and the lookup of a path, for trees of any depth,  *)
(* with any number of items spread over the nodes in any way, and paths of *)
(* any length.                                                             *)
(***************************************************************************)
EXTENDS PathLookup, ListLemmas, FiniteSetTheorems

----------------------------------------------------------------------------
(***************************************************************************)
(* Trees                                                                   *)
(***************************************************************************)

(* The elements of a sequence, one by one.                                 *)
LEMMA SeqElements ==
    ASSUME NEW S, NEW s \in Seq(S)
    PROVE  /\ Len(s) \in Nat /\ DOMAIN s = 1 .. Len(s)
           /\ \A k \in 1 .. Len(s) : s[k] \in S
  OBVIOUS

(* What a node holds: items in a leaf, else nodes one level below.         *)
LEMMA NodeFacts ==
    ASSUME NEW v, NodesDescribed(v), NEW a \in DOMAIN v.nodes
    PROVE  LET n == v.nodes[a]
           IN  /\ n.level \in Nat
               /\ Len(n.items) \in Nat /\ DOMAIN n.items = 1 .. Len(n.items)
               /\ n.level = 0 => \A k \in 1 .. Len(n.items) : n.items[k] \in ItemRecords
               /\ n.level # 0 => \A k \in 1 .. Len(n.items) :
                     /\ n.items[k] \in DOMAIN v.nodes
                     /\ v.nodes[n.items[k]].level = n.level - 1
<1> DEFINE n == v.nodes[a]
           below == {b \in DOMAIN v.nodes : v.nodes[b].level = n.level - 1}
<1>1. n.level \in Nat /\ n.items \in Seq(IF n.level = 0 THEN ItemRecords ELSE below)
  BY DEF NodesDescribed
<1> HIDE DEF below, n
<1>2. n.level = 0 => n.items \in Seq(ItemRecords)
  BY <1>1
<1>3. n.level # 0 => n.items \in Seq(below)
  BY <1>1
<1>4. Len(n.items) \in Nat /\ DOMAIN n.items = 1 .. Len(n.items)
  BY <1>2, <1>3, SeqElements
<1>5. n.level = 0 => \A k \in 1 .. Len(n.items) : n.items[k] \in ItemRecords
  BY <1>2, SeqElements
<1>6. n.level # 0 => \A k \in 1 .. Len(n.items) : n.items[k] \in below
  BY <1>3, SeqElements
<1>7. n.level # 0 => \A k \in 1 .. Len(n.items) :
         /\ n.items[k] \in DOMAIN v.nodes
         /\ v.nodes[n.items[k]].level = n.level - 1
  BY <1>6 DEF below
<1> QED
  BY <1>1, <1>4, <1>5, <1>7 DEF n

(* A node's children are nodes.                                            *)
LEMMA ChildrenAreNodes ==
    ASSUME NEW v, NodesDescribed(v), NEW a \in DOMAIN v.nodes
    PROVE  Children(v, a) \subseteq DOMAIN v.nodes
<1> DEFINE n == v.nodes[a]
<1>1. CASE n.level = 0
  BY <1>1 DEF Children
<1>2. CASE n.level # 0
  <2>1. ToSet(n.items) = {n.items[k] : k \in 1 .. Len(n.items)}
    BY NodeFacts DEF ToSet
  <2>2. \A k \in 1 .. Len(n.items) : n.items[k] \in DOMAIN v.nodes
    BY <1>2, NodeFacts
  <2> QED
    BY <1>2, <2>1, <2>2 DEF Children
<1> QED
  BY <1>1, <1>2

(* The nodes from a node on are itself and those from its children on.     *)
LEMMA NodesFromNode ==
    ASSUME NEW v, NodesDescribed(v), NEW a \in DOMAIN v.nodes
    PROVE  NodesFrom(v, a) = {a} \cup UNION {NodesFrom(v, c) : c \in Children(v, a)}
<1> DEFINE U == {a} \cup UNION {NodesFrom(v, c) : c \in Children(v, a)}
           Closed(S) == \A c \in S : Children(v, c) \subseteq S
<1>1. Children(v, a) \subseteq DOMAIN v.nodes
  BY ChildrenAreNodes
<1>2. U \subseteq NodesFrom(v, a)
  <2>1. a \in NodesFrom(v, a)
    BY DEF NodesFrom
  <2>2. ASSUME NEW c \in Children(v, a), NEW b \in NodesFrom(v, c)
        PROVE  b \in NodesFrom(v, a)
    BY <2>2 DEF NodesFrom
  <2> QED
    BY <2>1, <2>2
<1>3. U \in SUBSET DOMAIN v.nodes
  BY <1>1 DEF NodesFrom
<1>4. Closed(U)
  <2> SUFFICES ASSUME NEW b \in U, NEW c \in Children(v, b)
               PROVE  c \in U
    OBVIOUS
  <2>1. c \in DOMAIN v.nodes
    BY <1>3, ChildrenAreNodes
  <2>2. CASE b = a
    <3>1. c \in NodesFrom(v, c)
      BY <2>1 DEF NodesFrom
    <3> QED
      BY <2>2, <3>1
  <2>3. CASE b # a
    <3>1. PICK d \in Children(v, a) : b \in NodesFrom(v, d)
      BY <2>3
    <3>2. c \in NodesFrom(v, d)
      BY <2>1, <3>1 DEF NodesFrom
    <3> QED
      BY <3>1, <3>2
  <2> QED
    BY <2>2, <2>3
<1>5. NodesFrom(v, a) \subseteq U
  BY <1>3, <1>4 DEF NodesFrom
<1> QED
  BY <1>2, <1>5

(* The items of a leaf, and those below an inner node.                     *)
LEMMA ItemsOfLeaf ==
    ASSUME NEW v, NodesDescribed(v), NEW a \in DOMAIN v.nodes, v.nodes[a].level = 0
    PROVE  LeafItems(v, a) = ToSet(v.nodes[a].items)
<1>1. NodesFrom(v, a) = {a}
  BY NodesFromNode DEF Children
<1> QED
  BY <1>1 DEF LeafItems

LEMMA ItemsOfInner ==
    ASSUME NEW v, NodesDescribed(v), NEW a \in DOMAIN v.nodes, v.nodes[a].level # 0
    PROVE  LeafItems(v, a) = UNION {LeafItems(v, c) : c \in ToSet(v.nodes[a].items)}
<1>1. NodesFrom(v, a) = {a} \cup UNION {NodesFrom(v, c) : c \in ToSet(v.nodes[a].items)}
  BY NodesFromNode DEF Children
<1> QED
  BY <1>1 DEF LeafItems

----------------------------------------------------------------------------
(***************************************************************************)
(* The stack of the walk                                                   *)
(***************************************************************************)

(* The items a node holds from its k-th item or key pointer on.            *)
From(v, a, k) ==
    LET n == v.nodes[a]
    IN  IF n.level = 0 THEN {n.items[j] : j \in k .. Len(n.items)}
        ELSE UNION {LeafItems(v, n.items[j]) : j \in k .. Len(n.items)}

(* The items the walk has yet to come to: in the nodes above behind the    *)
(* key pointer it has followed, and in the one it is at from i on.         *)
Above(v, s) == UNION {From(v, s[d].addr, s[d].i + 1) : d \in 1 .. Len(s) - 1}
RestOf(v, s) ==
    IF s = <<>> THEN {}
    ELSE From(v, s[Len(s)].addr, s[Len(s)].i) \cup Above(v, s)

Activations(v) == [addr : DOMAIN v.nodes, i : Nat \ {0}]

(* Each activation has called the next one for the key pointer it is at,   *)
(* and what is below is below that key pointer.                            *)
StackOK(v, s) ==
    /\ s \in Seq(Activations(v))
    /\ \A d \in 1 .. Len(s) :
          /\ v.nodes[s[d].addr].level = v.nodes[v.root].level + 1 - d
          /\ LeafItems(v, s[d].addr) \subseteq LeafItems(v, v.root)
    /\ \A d \in 1 .. Len(s) - 1 :
          LET n == v.nodes[s[d].addr]
          IN  /\ s[d].i \in 1 .. Len(n.items)
              /\ \A e \in d + 1 .. Len(s) :
                    LeafItems(v, s[e].addr) \subseteq LeafItems(v, n.items[s[d].i])

TopOf(v, s) == v.nodes[s[Len(s)].addr]

(* From its first item on, a node holds all that is below it.              *)
LEMMA FromStart ==
    ASSUME NEW v, NodesDescribed(v), NEW a \in DOMAIN v.nodes
    PROVE  From(v, a, 1) = LeafItems(v, a)
<1> DEFINE n == v.nodes[a]
<1>1. ToSet(n.items) = {n.items[k] : k \in 1 .. Len(n.items)}
  BY NodeFacts DEF ToSet
<1>2. CASE n.level = 0
  BY <1>1, <1>2, ItemsOfLeaf DEF From
<1>3. CASE n.level # 0
  BY <1>1, <1>3, ItemsOfInner DEF From
<1> QED
  BY <1>2, <1>3

(* One item, or what is below one key pointer, comes before the rest.      *)
LEMMA FromNext ==
    ASSUME NEW v, NodesDescribed(v), NEW a \in DOMAIN v.nodes,
           NEW k \in 1 .. Len(v.nodes[a].items)
    PROVE  LET n == v.nodes[a]
               here == IF n.level = 0 THEN {n.items[k]} ELSE LeafItems(v, n.items[k])
           IN  /\ From(v, a, k) = here \cup From(v, a, k + 1)
               /\ \A x \in here, y \in From(v, a, k + 1) : KeyBefore(x, y)
<1> DEFINE n == v.nodes[a]
<1>1. Len(n.items) \in Nat /\ DOMAIN n.items = 1 .. Len(n.items)
  BY NodeFacts
<1>2. k .. Len(n.items) = {k} \cup (k + 1 .. Len(n.items))
  BY <1>1
<1>3. \A j, l \in DOMAIN n.items : j < l =>
         IF n.level = 0 THEN KeyBefore(n.items[j], n.items[l])
         ELSE \A x \in LeafItems(v, n.items[j]), y \in LeafItems(v, n.items[l]) :
                  KeyBefore(x, y)
  BY DEF NodesDescribed
<1>4. \A l \in k + 1 .. Len(n.items) : k \in DOMAIN n.items /\ l \in DOMAIN n.items /\ k < l
  BY <1>1
<1> HIDE DEF n
<1>5. CASE n.level = 0
  BY <1>2, <1>3, <1>4, <1>5 DEF From, n
<1>6. CASE n.level # 0
  BY <1>2, <1>3, <1>4, <1>6 DEF From, n
<1> QED
  BY <1>5, <1>6 DEF n

(* The activations after the walk has moved on in the last one.            *)
LEMMA NextElements ==
    ASSUME NEW v, NEW s \in Seq(Activations(v)), s # <<>>
    PROVE  /\ NextIndex(s) \in Seq(Activations(v))
           /\ Len(NextIndex(s)) = Len(s)
           /\ \A d \in 1 .. Len(s) :
                 /\ NextIndex(s)[d].addr = s[d].addr
                 /\ d # Len(s) => NextIndex(s)[d].i = s[d].i
                 /\ d = Len(s) => NextIndex(s)[d].i = s[d].i + 1
<1> DEFINE n == Len(s)
           after(e) == [addr |-> e.addr, i |-> e.i + 1]
<1>1. \A e \in Activations(v) :
         /\ after(e) \in Activations(v)
         /\ [e EXCEPT !.i = @ + 1] = after(e)
         /\ after(e).addr = e.addr /\ after(e).i = e.i + 1
  BY DEF Activations
<1> HIDE DEF after
<1>2. n \in Nat /\ \A d \in 1 .. n : s[d] \in Activations(v)
  BY SeqElements
<1>3. n # 0
  BY EmptySeq
<1>4. n \in 1 .. n /\ s[n] \in Activations(v)
  BY <1>2, <1>3
<1>5. NextIndex(s) = [s EXCEPT ![n] = after(s[n])]
  <2>1. NextIndex(s) = [s EXCEPT ![n] = [s[n] EXCEPT !.i = @ + 1]]
    BY DEF NextIndex
  <2> QED
    BY <1>1, <1>4, <2>1
<1>6. /\ NextIndex(s) \in Seq(Activations(v)) /\ Len(NextIndex(s)) = n
      /\ \A d \in 1 .. n : NextIndex(s)[d] = IF d = n THEN after(s[d]) ELSE s[d]
  BY <1>1, <1>2, <1>4, <1>5
<1> QED
  BY <1>1, <1>2, <1>6

(* What StackOK says of one activation.                                    *)
LEMMA StackElements ==
    ASSUME NEW v, NodesDescribed(v), NEW s, StackOK(v, s)
    PROVE  /\ Len(s) \in Nat
           /\ \A d \in 1 .. Len(s) :
                 /\ s[d].addr \in DOMAIN v.nodes /\ s[d].i \in Nat \ {0}
                 /\ v.nodes[s[d].addr].level \in Nat
                 /\ v.nodes[s[d].addr].level = v.nodes[v.root].level + 1 - d
                 /\ v.nodes[v.root].level \in Nat
                 /\ Len(v.nodes[s[d].addr].items) \in Nat
                 /\ LeafItems(v, s[d].addr) \subseteq LeafItems(v, v.root)
           /\ s # <<>> => Len(s) # 0 /\ Last(s) = s[Len(s)]
           /\ s = <<>> => Len(s) = 0
<1>1. s \in Seq(Activations(v))
  BY DEF StackOK
<1>2. \A e \in Activations(v) : e.addr \in DOMAIN v.nodes /\ e.i \in Nat \ {0}
  BY DEF Activations
<1>3. Len(s) \in Nat /\ \A d \in 1 .. Len(s) : s[d] \in Activations(v)
  BY <1>1, SeqElements
<1>4. /\ s # <<>> => Len(s) # 0
      /\ s = <<>> => Len(s) = 0
  BY <1>1, EmptySeq
<1>5. v.root \in DOMAIN v.nodes
  BY DEF NodesDescribed
<1>6. \A a \in DOMAIN v.nodes : v.nodes[a].level \in Nat /\ Len(v.nodes[a].items) \in Nat
  BY NodeFacts
<1> QED
  BY <1>2, <1>3, <1>4, <1>5, <1>6 DEF StackOK, Last

(* An inner node is above every node that is below another one.            *)
LEMMA AboveIsInner ==
    ASSUME NEW v, NodesDescribed(v), NEW s, StackOK(v, s), NEW d \in 1 .. Len(s) - 1
    PROVE  v.nodes[s[d].addr].level # 0
<1>1. Len(s) \in Nat /\ d \in 1 .. Len(s) /\ Len(s) \in 1 .. Len(s) /\ d < Len(s)
  BY StackElements
<1>2. v.nodes[s[d].addr].level = v.nodes[v.root].level + 1 - d
  BY <1>1, StackElements
<1>3. /\ v.nodes[s[Len(s)].addr].level = v.nodes[v.root].level + 1 - Len(s)
      /\ v.nodes[s[Len(s)].addr].level \in Nat /\ v.nodes[v.root].level \in Nat
  BY <1>1, StackElements
<1> QED
  BY <1>1, <1>2, <1>3

(* Everything the walk comes to after a node comes after it in key order.  *)
LEMMA AboveAfterNode ==
    ASSUME NEW v, NodesDescribed(v), NEW s, StackOK(v, s), s # <<>>,
           NEW x \in LeafItems(v, s[Len(s)].addr), NEW y \in Above(v, s)
    PROVE  KeyBefore(x, y)
<1>1. PICK d \in 1 .. Len(s) - 1 : y \in From(v, s[d].addr, s[d].i + 1)
  BY DEF Above
<1>2. Len(s) \in Nat /\ d \in 1 .. Len(s) /\ Len(s) \in d + 1 .. Len(s)
  BY StackElements
<1> DEFINE n == v.nodes[s[d].addr]
<1>3. n.level # 0
  BY AboveIsInner
<1>4. s[d].i \in 1 .. Len(n.items) /\ x \in LeafItems(v, n.items[s[d].i])
  BY <1>2 DEF StackOK
<1>5. s[d].addr \in DOMAIN v.nodes
  BY <1>2, StackElements
<1> QED
  BY <1>1, <1>3, <1>4, <1>5, FromNext

(* A node past its last item holds nothing more.                           *)
LEMMA FromPastEnd ==
    ASSUME NEW v, NodesDescribed(v), NEW a \in DOMAIN v.nodes,
           NEW k \in Nat, k > Len(v.nodes[a].items)
    PROVE  From(v, a, k) = {}
<1>1. Len(v.nodes[a].items) \in Nat
  BY NodeFacts
<1>2. k .. Len(v.nodes[a].items) = {}
  BY <1>1
<1> QED
  BY <1>2 DEF From

(* The walk begins with all of the tree before it.                         *)
LEMMA StartStack ==
    ASSUME NEW v, NodesDescribed(v)
    PROVE  /\ StackOK(v, <<Activation(v.root)>>)
           /\ RestOf(v, <<Activation(v.root)>>) = LeafItems(v, v.root)
<1> DEFINE s == <<Activation(v.root)>>
<1>1. v.root \in DOMAIN v.nodes /\ v.nodes[v.root].level \in Nat
  BY DEF NodesDescribed
<1>2. Activation(v.root) \in Activations(v)
  BY <1>1 DEF Activation, Activations
<1>3. Activation(v.root).addr = v.root /\ Activation(v.root).i = 1
  BY DEF Activation
<1>4. Len(s) = 1 /\ s[1] = Activation(v.root) /\ s # <<>>
  OBVIOUS
<1>5. s \in Seq(Activations(v))
  BY <1>2
<1> HIDE DEF s
<1>6. StackOK(v, s)
  <2>1. \A d \in 1 .. Len(s) : d = 1
    BY <1>4
  <2>2. 1 .. Len(s) - 1 = {}
    BY <1>4
  <2> QED
    BY <1>1, <1>3, <1>4, <1>5, <2>1, <2>2 DEF StackOK
<1>7. Above(v, s) = {}
  BY <1>4 DEF Above
<1>8. From(v, v.root, 1) = LeafItems(v, v.root)
  BY <1>1, FromStart
<1> QED
  BY <1>3, <1>4, <1>6, <1>7, <1>8 DEF RestOf, s

(* Moving on behind what the last activation is at.                        *)
LEMMA MoveOn ==
    ASSUME NEW v, NodesDescribed(v), NEW s, StackOK(v, s), s # <<>>
    PROVE  /\ StackOK(v, NextIndex(s)) /\ NextIndex(s) # <<>>
           /\ RestOf(v, NextIndex(s)) =
                  From(v, s[Len(s)].addr, s[Len(s)].i + 1) \cup Above(v, s)
<1> DEFINE n == Len(s)
           r == NextIndex(s)
<1>1. n \in Nat \ {0} /\ n \in 1 .. n
  BY StackElements
<1>2. /\ r \in Seq(Activations(v)) /\ Len(r) = n
      /\ \A d \in 1 .. n : r[d].addr = s[d].addr
      /\ \A d \in 1 .. n - 1 : r[d].i = s[d].i
      /\ r[n].i = s[n].i + 1
  <2>1. s \in Seq(Activations(v))
    BY DEF StackOK
  <2>2. \A d \in 1 .. n - 1 : d \in 1 .. n /\ d # n
    BY <1>1
  <2> QED
    BY <1>1, <2>1, <2>2, NextElements
<1> HIDE DEF r
<1>3. StackOK(v, r)
  <2>1. /\ \A d \in 1 .. n : r[d].addr = s[d].addr
        /\ \A d \in 1 .. n - 1 : d \in 1 .. n /\ r[d].addr = s[d].addr /\ r[d].i = s[d].i
        /\ \A d \in 1 .. n - 1 : \A e \in d + 1 .. n : r[e].addr = s[e].addr
    BY <1>1, <1>2
  <2>2. \A d \in 1 .. n :
           /\ v.nodes[r[d].addr].level = v.nodes[v.root].level + 1 - d
           /\ LeafItems(v, r[d].addr) \subseteq LeafItems(v, v.root)
    BY <2>1 DEF StackOK
  <2>3. ASSUME NEW d \in 1 .. n - 1
        PROVE  /\ r[d].i \in 1 .. Len(v.nodes[r[d].addr].items)
               /\ \A e \in d + 1 .. n :
                     LeafItems(v, r[e].addr) \subseteq
                         LeafItems(v, v.nodes[r[d].addr].items[r[d].i])
    BY <2>1 DEF StackOK
  <2> QED
    BY <1>2, <2>2, <2>3 DEF StackOK
<1>4. Above(v, r) = Above(v, s)
  <2>1. \A d \in 1 .. n - 1 : From(v, r[d].addr, r[d].i + 1) = From(v, s[d].addr, s[d].i + 1)
    BY <1>1, <1>2
  <2>2. Above(v, r) = UNION {From(v, r[d].addr, r[d].i + 1) : d \in 1 .. n - 1}
    BY <1>2 DEF Above
  <2>3. Above(v, s) = UNION {From(v, s[d].addr, s[d].i + 1) : d \in 1 .. n - 1}
    BY DEF Above
  <2> HIDE DEF n
  <2> QED
    BY <2>1, <2>2, <2>3
<1>5. r # <<>>
  BY <1>1, <1>2, EmptySeq
<1> QED
  BY <1>1, <1>2, <1>3, <1>4, <1>5 DEF RestOf, r

(* Behind the item the walk is at comes the rest, in key order.            *)
LEMMA NextStack ==
    ASSUME NEW v, NodesDescribed(v), NEW s, StackOK(v, s), s # <<>>,
           TopOf(v, s).level = 0, Last(s).i <= Len(TopOf(v, s).items)
    PROVE  LET it == TopOf(v, s).items[Last(s).i]
           IN  /\ it \in ItemRecords /\ it \in LeafItems(v, v.root)
               /\ StackOK(v, NextIndex(s)) /\ NextIndex(s) # <<>>
               /\ RestOf(v, s) = {it} \cup RestOf(v, NextIndex(s))
               /\ \A y \in RestOf(v, NextIndex(s)) : KeyBefore(it, y)
<1> DEFINE n == Len(s)
           a == s[n].addr
           k == s[n].i
           it == TopOf(v, s).items[k]
<1>1. n \in Nat \ {0} /\ n \in 1 .. n /\ Last(s) = s[n]
  BY StackElements
<1>2. /\ a \in DOMAIN v.nodes /\ k \in Nat \ {0} /\ Len(v.nodes[a].items) \in Nat
      /\ LeafItems(v, a) \subseteq LeafItems(v, v.root)
  BY <1>1, StackElements
<1>3. k \in 1 .. Len(v.nodes[a].items) /\ v.nodes[a].level = 0 /\ it = v.nodes[a].items[k]
  BY <1>1, <1>2 DEF TopOf
<1> HIDE DEF a, k, it
<1>4. it \in ItemRecords
  BY <1>2, <1>3, NodeFacts
<1>5. /\ From(v, a, k) = {it} \cup From(v, a, k + 1)
      /\ \A y \in From(v, a, k + 1) : KeyBefore(it, y)
  BY <1>2, <1>3, FromNext
<1>6. it \in LeafItems(v, a)
  <2>1. LeafItems(v, a) = From(v, a, 1)
    BY <1>2, FromStart
  <2> QED
    BY <1>3, <2>1 DEF From
<1>7. /\ StackOK(v, NextIndex(s)) /\ NextIndex(s) # <<>>
      /\ RestOf(v, NextIndex(s)) = From(v, a, k + 1) \cup Above(v, s)
  BY MoveOn DEF a, k
<1>8. RestOf(v, s) = From(v, a, k) \cup Above(v, s)
  BY DEF RestOf, a, k
<1>9. \A y \in Above(v, s) : KeyBefore(it, y)
  BY <1>6, AboveAfterNode DEF a
<1> QED
  BY <1>1, <1>2, <1>4, <1>5, <1>6, <1>7, <1>8, <1>9 DEF it, k

(* Following the key pointer it is at takes nothing from what is before    *)
(* the walk.                                                               *)
LEMMA PushStack ==
    ASSUME NEW v, NodesDescribed(v), NEW s, StackOK(v, s), s # <<>>,
           TopOf(v, s).level # 0, Last(s).i <= Len(TopOf(v, s).items)
    PROVE  LET r == Append(s, Activation(TopOf(v, s).items[Last(s).i]))
           IN  StackOK(v, r) /\ r # <<>> /\ RestOf(v, r) = RestOf(v, s)
<1> DEFINE n == Len(s)
           a == s[n].addr
           k == s[n].i
           c == TopOf(v, s).items[k]
           r == Append(s, Activation(c))
<1>1. n \in Nat \ {0} /\ n \in 1 .. n /\ Last(s) = s[n]
  BY StackElements
<1>2. /\ a \in DOMAIN v.nodes /\ k \in Nat \ {0} /\ Len(v.nodes[a].items) \in Nat
      /\ LeafItems(v, a) \subseteq LeafItems(v, v.root)
      /\ v.nodes[a].level = v.nodes[v.root].level + 1 - n /\ v.nodes[v.root].level \in Nat
  BY <1>1, StackElements
<1>3. k \in 1 .. Len(v.nodes[a].items) /\ v.nodes[a].level # 0 /\ c = v.nodes[a].items[k]
  BY <1>1, <1>2 DEF TopOf
<1> HIDE DEF c
<1>4. c \in DOMAIN v.nodes /\ v.nodes[c].level = v.nodes[a].level - 1
  BY <1>2, <1>3, NodeFacts
<1>5. Activation(c) \in Activations(v) /\ Activation(c).addr = c /\ Activation(c).i = 1
  BY <1>4 DEF Activation, Activations
<1>6. s \in Seq(Activations(v))
  BY DEF StackOK
<1>7. /\ r \in Seq(Activations(v)) /\ Len(r) = n + 1
      /\ \A d \in 1 .. n : r[d] = s[d]
      /\ r[n + 1] = Activation(c)
  BY <1>1, <1>5, <1>6
<1> HIDE DEF r
<1>8. r # <<>>
  BY <1>1, <1>7, EmptySeq
<1>9. From(v, a, k) = LeafItems(v, c) \cup From(v, a, k + 1)
  BY <1>2, <1>3, FromNext, SMTT(30)
<1>10. LeafItems(v, c) \subseteq LeafItems(v, a)
  <2>1. LeafItems(v, a) = From(v, a, 1)
    BY <1>2, FromStart
  <2> QED
    BY <1>3, <2>1 DEF From
<1>11. StackOK(v, r)
  <2>1. ASSUME NEW d \in 1 .. n + 1
        PROVE  /\ v.nodes[r[d].addr].level = v.nodes[v.root].level + 1 - d
               /\ LeafItems(v, r[d].addr) \subseteq LeafItems(v, v.root)
    <3>1. CASE d \in 1 .. n
      BY <1>7, <3>1 DEF StackOK
    <3>2. CASE d = n + 1
      BY <1>1, <1>2, <1>4, <1>5, <1>7, <1>10, <3>2
    <3> QED
      BY <1>1, <3>1, <3>2
  <2>2. ASSUME NEW d \in 1 .. n
        PROVE  /\ r[d].i \in 1 .. Len(v.nodes[r[d].addr].items)
               /\ \A e \in d + 1 .. n + 1 :
                     LeafItems(v, r[e].addr) \subseteq
                         LeafItems(v, v.nodes[r[d].addr].items[r[d].i])
    <3>1. CASE d = n
      <4>1. r[d] = s[n] /\ d + 1 .. n + 1 = {n + 1} /\ r[n + 1].addr = c
        BY <1>1, <1>5, <1>7, <3>1
      <4> QED
        BY <1>3, <4>1
    <3>2. CASE d # n
      <4>1. d \in 1 .. n - 1 /\ r[d] = s[d] /\ n \in d + 1 .. n
        BY <1>1, <1>7, <3>2
      <4>2. /\ s[d].i \in 1 .. Len(v.nodes[s[d].addr].items)
            /\ \A e \in d + 1 .. n :
                  LeafItems(v, s[e].addr) \subseteq
                      LeafItems(v, v.nodes[s[d].addr].items[s[d].i])
        BY <4>1 DEF StackOK
      <4>3. \A e \in d + 1 .. n + 1 : \/ e \in d + 1 .. n /\ r[e] = s[e]
                                      \/ e = n + 1 /\ r[e].addr = c
        BY <1>1, <1>5, <1>7, <4>1, SMTT(30)
      <4> QED
        BY <1>10, <4>1, <4>2, <4>3
    <3> QED
      BY <3>1, <3>2
  <2> QED
    <3>1. Len(r) = n + 1 /\ Len(r) - 1 = n
      BY <1>1, <1>7
    <3>2. /\ \A d \in 1 .. Len(r) :
                /\ v.nodes[r[d].addr].level = v.nodes[v.root].level + 1 - d
                /\ LeafItems(v, r[d].addr) \subseteq LeafItems(v, v.root)
          /\ \A d \in 1 .. Len(r) - 1 :
                /\ r[d].i \in 1 .. Len(v.nodes[r[d].addr].items)
                /\ \A e \in d + 1 .. Len(r) :
                      LeafItems(v, r[e].addr) \subseteq
                          LeafItems(v, v.nodes[r[d].addr].items[r[d].i])
      BY <2>1, <2>2, <3>1
    <3> QED
      BY <1>7, <3>2 DEF StackOK
<1>12. Above(v, r) = Above(v, s) \cup From(v, a, k + 1)
  <2>1. \A d \in 1 .. n - 1 : From(v, r[d].addr, r[d].i + 1) = From(v, s[d].addr, s[d].i + 1)
    BY <1>1, <1>7
  <2>2. From(v, r[n].addr, r[n].i + 1) = From(v, a, k + 1)
    BY <1>1, <1>7
  <2>3. Above(v, r) = UNION {From(v, r[d].addr, r[d].i + 1) : d \in 1 .. n}
    BY <1>1, <1>7 DEF Above
  <2>4. Above(v, s) = UNION {From(v, s[d].addr, s[d].i + 1) : d \in 1 .. n - 1}
    BY DEF Above
  <2>5. 1 .. n = (1 .. n - 1) \cup {n}
    BY <1>1
  <2> HIDE DEF n, a, k
  <2> QED
    BY <2>1, <2>2, <2>3, <2>4, <2>5
<1>13. RestOf(v, r) = LeafItems(v, c) \cup Above(v, r)
  <2>1. From(v, c, 1) = LeafItems(v, c)
    BY <1>4, FromStart
  <2>2. Len(r) = n + 1 /\ r[n + 1].addr = c /\ r[n + 1].i = 1
    BY <1>5, <1>7
  <2> QED
    BY <1>8, <2>1, <2>2 DEF RestOf
<1>14. RestOf(v, s) = From(v, a, k) \cup Above(v, s)
  BY DEF RestOf
<1> QED
  BY <1>1, <1>8, <1>9, <1>11, <1>12, <1>13, <1>14 DEF r, c

(* Neither does returning from a node of which nothing is left.            *)
LEMMA PopStack ==
    ASSUME NEW v, NodesDescribed(v), NEW s, StackOK(v, s), s # <<>>
    PROVE  /\ Len(s) = 1 /\ Last(s).i > Len(TopOf(v, s).items) => RestOf(v, s) = {}
           /\ Len(s) # 1 =>
                 /\ StackOK(v, Front(s)) /\ Front(s) # <<>>
                 /\ StackOK(v, NextIndex(Front(s)))
                 /\ Last(s).i > Len(TopOf(v, s).items) =>
                       RestOf(v, NextIndex(Front(s))) = RestOf(v, s)
<1> DEFINE n == Len(s)
           a == s[n].addr
           k == s[n].i
           r == Front(s)
<1>1. n \in Nat \ {0} /\ n \in 1 .. n /\ Last(s) = s[n]
  BY StackElements
<1>2. a \in DOMAIN v.nodes /\ k \in Nat \ {0}
  BY <1>1, StackElements
<1>3. RestOf(v, s) = From(v, a, k) \cup Above(v, s)
  BY DEF RestOf
<1>4. Last(s).i > Len(TopOf(v, s).items) => RestOf(v, s) = Above(v, s)
  BY <1>1, <1>2, <1>3, FromPastEnd DEF TopOf
<1>5. n = 1 => Above(v, s) = {}
  BY DEF Above
<1>6. SUFFICES ASSUME n # 1
      PROVE  /\ StackOK(v, r) /\ r # <<>>
             /\ StackOK(v, NextIndex(r))
             /\ RestOf(v, NextIndex(r)) = Above(v, s)
  BY <1>4, <1>5
<1>7. n - 1 \in Nat \ {0}
  BY <1>1, <1>6
<1>8. /\ r \in Seq(Activations(v)) /\ Len(r) = n - 1
      /\ \A d \in 1 .. n - 1 : d \in 1 .. n /\ r[d] = s[d]
  <2>1. s \in Seq(Activations(v))
    BY DEF StackOK
  <2>2. r = SubSeq(s, 1, n - 1)
    BY DEF Front
  <2> HIDE DEF r
  <2>3. \A d \in 1 .. n - 1 : d \in 1 .. n /\ s[d] \in Activations(v)
    BY <1>1, <2>1, SeqElements
  <2> HIDE DEF n
  <2>4. /\ r \in Seq(Activations(v)) /\ Len(r) = (n - 1) - 1 + 1
        /\ \A d \in 1 .. (n - 1) - 1 + 1 : r[d] = s[1 + d - 1]
    BY <1>7, <2>2, <2>3, SubSeqProperties
  <2> QED
    BY <1>7, <2>3, <2>4
<1> HIDE DEF r, a, k
<1>9. r # <<>>
  BY <1>7, <1>8, EmptySeq
<1>10. StackOK(v, r)
  <2>1. \A d \in 1 .. n - 1 :
           /\ v.nodes[r[d].addr].level = v.nodes[v.root].level + 1 - d
           /\ LeafItems(v, r[d].addr) \subseteq LeafItems(v, v.root)
    BY <1>8 DEF StackOK
  <2>2. ASSUME NEW d \in 1 .. n - 2
        PROVE  /\ r[d].i \in 1 .. Len(v.nodes[r[d].addr].items)
               /\ \A e \in d + 1 .. n - 1 :
                     LeafItems(v, r[e].addr) \subseteq
                         LeafItems(v, v.nodes[r[d].addr].items[r[d].i])
    <3>1. /\ d \in 1 .. n - 1 /\ r[d] = s[d]
          /\ \A e \in d + 1 .. n - 1 : e \in d + 1 .. n /\ r[e] = s[e]
      BY <1>7, <1>8
    <3> QED
      BY <3>1 DEF StackOK
  <2>3. Len(r) - 1 = n - 2
    BY <1>7, <1>8
  <2> HIDE DEF n
  <2> QED
    BY <1>8, <2>1, <2>2, <2>3 DEF StackOK
<1>11. /\ StackOK(v, NextIndex(r))
       /\ RestOf(v, NextIndex(r)) =
              From(v, s[n - 1].addr, s[n - 1].i + 1) \cup Above(v, r)
  BY <1>7, <1>8, <1>9, <1>10, MoveOn
<1>12. Above(v, s) = From(v, s[n - 1].addr, s[n - 1].i + 1) \cup Above(v, r)
  <2>1. \A d \in 1 .. n - 2 : From(v, r[d].addr, r[d].i + 1) = From(v, s[d].addr, s[d].i + 1)
    BY <1>7, <1>8
  <2>2. Above(v, r) = UNION {From(v, r[d].addr, r[d].i + 1) : d \in 1 .. n - 2}
    <3>1. Len(r) - 1 = n - 2
      BY <1>7, <1>8
    <3> QED
      BY <3>1 DEF Above
  <2>3. Above(v, s) = UNION {From(v, s[d].addr, s[d].i + 1) : d \in 1 .. n - 1}
    BY DEF Above
  <2> HIDE DEF n
  <2>4. 1 .. n - 1 = (1 .. n - 2) \cup {n - 1}
    BY <1>1, <1>7
  <2> QED
    BY <2>1, <2>2, <2>3, <2>4
<1> QED
  BY <1>9, <1>10, <1>11, <1>12

----------------------------------------------------------------------------
(***************************************************************************)
(* The walk                                                                *)
(***************************************************************************)
Rest == RestOf(volume, stack)

(* The tree is in order, and the stack is that of a walk over it.          *)
WalkInv ==
    /\ Described(volume)
    /\ StackOK(volume, stack)
    /\ pc \in {"idle", "walk", "done"}
    /\ shortCircuit \in BOOLEAN
    /\ pc # "walk" => stack = <<>>

(* The fields of items, and what the order of their keys says of them.     *)
LEMMA ItemFields ==
    ASSUME NEW x \in ItemRecords
    PROVE  /\ x.objectID \in Nat /\ x.offset \in Nat /\ x.type \in DOMAIN TypeRank
           /\ x.entries \in Seq([name : Names, child : Nat, isSubvolume : BOOLEAN])
  BY DEF ItemRecords

LEMMA KeyFields ==
    ASSUME NEW x \in ItemRecords, NEW y \in ItemRecords, KeyBefore(x, y)
    PROVE  /\ x.objectID <= y.objectID
           /\ x.objectID = y.objectID /\ x.type = y.type => x.offset < y.offset
<1>1. \A t \in DOMAIN TypeRank : TypeRank[t] \in Nat
  BY DEF TypeRank
<1> QED
  BY <1>1, ItemFields DEF KeyBefore

(* Whatever is in a tree is an item.                                       *)
LEMMA LeafItemsAreItems ==
    ASSUME NEW v, NodesDescribed(v), NEW a \in DOMAIN v.nodes
    PROVE  LeafItems(v, a) \subseteq ItemRecords
<1> SUFFICES ASSUME NEW x \in LeafItems(v, a)
             PROVE  x \in ItemRecords
  OBVIOUS
<1>1. PICK b \in NodesFrom(v, a) : v.nodes[b].level = 0 /\ x \in ToSet(v.nodes[b].items)
  BY DEF LeafItems
<1>2. b \in DOMAIN v.nodes
  BY <1>1 DEF NodesFrom
<1>3. DOMAIN v.nodes[b].items = 1 .. Len(v.nodes[b].items)
  BY <1>2, NodeFacts
<1>4. \A k \in 1 .. Len(v.nodes[b].items) : v.nodes[b].items[k] \in ItemRecords
  BY <1>1, <1>2, NodeFacts
<1> QED
  BY <1>1, <1>3, <1>4 DEF ToSet

LEMMA ItemsAreItems ==
    ASSUME Described(volume)
    PROVE  Items \subseteq ItemRecords
<1>1. NodesDescribed(volume) /\ volume.root \in DOMAIN volume.nodes
  BY DEF Described, NodesDescribed
<1> QED
  BY <1>1, LeafItemsAreItems DEF Items

(* At a leaf, the item the walk is at comes before the rest.               *)
LEMMA AtItem ==
    ASSUME WalkInv, AtLeaf
    PROVE  /\ item \in ItemRecords /\ item \in Items
           /\ StackOK(volume, NextIndex(stack)) /\ NextIndex(stack) # <<>>
           /\ Rest = {item} \cup RestOf(volume, NextIndex(stack))
           /\ \A y \in RestOf(volume, NextIndex(stack)) : KeyBefore(item, y)
<1>1. NodesDescribed(volume) /\ StackOK(volume, stack) /\ stack # <<>>
  BY DEF WalkInv, Described, AtLeaf, AtNode
<1>2. header = TopOf(volume, stack) /\ i = Last(stack).i
  BY <1>1, StackElements DEF header, i, TopOf
<1>3. header.level = 0 /\ i <= Len(header.items) /\ item = header.items[i]
  BY DEF AtLeaf, item
<1> QED
  BY <1>1, <1>2, <1>3, NextStack DEF Rest, Items

(* What is left is in the tree.                                            *)
LEMMA RestInTree ==
    ASSUME NEW v, NodesDescribed(v), NEW s, StackOK(v, s)
    PROVE  RestOf(v, s) \subseteq LeafItems(v, v.root)
<1>1. CASE s = <<>>
  BY <1>1 DEF RestOf
<1>2. CASE s # <<>>
  <2>1. ASSUME NEW a \in DOMAIN v.nodes, NEW k \in Nat \ {0}
        PROVE  From(v, a, k) \subseteq LeafItems(v, a)
    <3>1. Len(v.nodes[a].items) \in Nat /\ From(v, a, 1) = LeafItems(v, a)
      BY FromStart, NodeFacts
    <3>2. \A j \in k .. Len(v.nodes[a].items) : j \in 1 .. Len(v.nodes[a].items)
      BY <3>1
    <3> QED
      BY <3>1, <3>2 DEF From
  <2>2. \A d \in 1 .. Len(s) :
           /\ s[d].addr \in DOMAIN v.nodes
           /\ s[d].i \in Nat \ {0} /\ s[d].i + 1 \in Nat \ {0}
           /\ LeafItems(v, s[d].addr) \subseteq LeafItems(v, v.root)
    <3>1. \A k \in Nat \ {0} : k + 1 \in Nat \ {0}
      OBVIOUS
    <3> QED
      BY <3>1, StackElements
  <2>3. \A d \in 1 .. Len(s) :
           /\ From(v, s[d].addr, s[d].i) \subseteq LeafItems(v, v.root)
           /\ From(v, s[d].addr, s[d].i + 1) \subseteq LeafItems(v, v.root)
    BY <2>1, <2>2
  <2>4. Len(s) \in Nat \ {0} /\ Len(s) \in 1 .. Len(s)
        /\ \A d \in 1 .. Len(s) - 1 : d \in 1 .. Len(s)
    BY <1>2, StackElements
  <2> QED
    BY <1>2, <2>3, <2>4 DEF RestOf, Above
<1> QED
  BY <1>1, <1>2

(* A call begins with all of the tree before it.                           *)
LEMMA EnterWalk ==
    ASSUME NEW v, NEW c, NEW code, Described(v), Enter(v, c, code)
    PROVE  WalkInv' /\ Rest' = Items'
<1>1. /\ volume' = v /\ stack' = <<Activation(v.root)>>
      /\ pc' = "walk" /\ shortCircuit' = FALSE
  BY DEF Enter
<1>2. NodesDescribed(v)
  BY DEF Described
<1>3. StackOK(v, stack') /\ RestOf(v, stack') = LeafItems(v, v.root)
  BY <1>1, <1>2, StartStack
<1> QED
  BY <1>1, <1>3 DEF WalkInv, Rest, Items

(* Following a key pointer and returning from a node change nothing but    *)
(* where the walk is, and pass over nothing unless it is cut short.        *)
LEMMA MoveBetweenNodes ==
    ASSUME WalkInv, Recurse \/ ReturnFromNode
    PROVE  /\ WalkInv'
           /\ ~shortCircuit => Rest' = Rest
           /\ UNCHANGED <<volume, pc, call, returnCode, shortCircuit, output>>
<1>1. NodesDescribed(volume) /\ StackOK(volume, stack) /\ stack # <<>> /\ pc = "walk"
  BY DEF WalkInv, Described, AtKeyPtr, AtNode, Recurse, ReturnFromNode
<1>2. header = TopOf(volume, stack) /\ i = Last(stack).i
  BY <1>1, StackElements DEF header, i, TopOf
<1>3. UNCHANGED <<volume, pc, call, returnCode, shortCircuit, output>>
  BY Zenon DEF Recurse, ReturnFromNode
<1>4. CASE Recurse
  <2>1. header.level # 0 /\ i <= Len(header.items)
    BY <1>4 DEF Recurse, AtKeyPtr
  <2>2. stack' = Append(stack, Activation(header.items[i]))
    BY <1>4 DEF Recurse
  <2>3. StackOK(volume, stack') /\ RestOf(volume, stack') = Rest
    BY <1>1, <1>2, <2>1, <2>2, PushStack DEF Rest
  <2> QED
    BY <1>1, <1>3, <2>3 DEF WalkInv, Rest
<1>5. CASE ReturnFromNode
  <2>1. stack' = IF Len(stack) = 1 THEN <<>> ELSE
                 IF shortCircuit THEN Front(stack) ELSE NextIndex(Front(stack))
    BY <1>5 DEF ReturnFromNode
  <2>2. ~shortCircuit => Last(stack).i > Len(TopOf(volume, stack).items)
    <3> SUFFICES ASSUME ~shortCircuit
                 PROVE  i > Len(header.items)
      BY <1>2
    <3>1. ~(header.level = 0 /\ i <= Len(header.items))
          /\ ~(header.level > 0 /\ i <= Len(header.items))
      BY <1>1, <1>5 DEF ReturnFromNode, AtLeaf, AtKeyPtr, AtNode
    <3>2. header.level \in Nat /\ i \in Nat /\ Len(header.items) \in Nat
      BY <1>1, <1>2, StackElements DEF TopOf
    <3> QED
      BY <3>1, <3>2
  <2>3. StackOK(volume, stack') /\ (~shortCircuit => RestOf(volume, stack') = Rest)
    <3>1. CASE Len(stack) = 1
      <4>1. StackOK(volume, <<>>)
        BY EmptySeq DEF StackOK
      <4> QED
        BY <1>1, <2>1, <2>2, <3>1, <4>1, PopStack DEF Rest, RestOf
    <3>2. CASE Len(stack) # 1
      BY <1>1, <2>1, <2>2, <3>2, PopStack DEF Rest
    <3> QED
      BY <3>1, <3>2
  <2> QED
    BY <1>1, <1>3, <2>3 DEF WalkInv, Rest
<1> QED
  BY <1>3, <1>4, <1>5

(* At an item the walk goes on to the next or stays to be cut short.       *)
LEMMA StepAtItem ==
    ASSUME WalkInv, AtLeaf, UNCHANGED <<volume, pc>>, shortCircuit' \in BOOLEAN,
           stack' = stack \/ stack' = NextIndex(stack)
    PROVE  WalkInv' /\ Items' = Items /\ Links' = Links
<1>1. StackOK(volume, stack) /\ StackOK(volume, NextIndex(stack))
  BY AtItem DEF WalkInv
<1>2. pc = "walk"
  BY DEF AtLeaf, AtNode
<1> QED
  BY <1>1, <1>2 DEF WalkInv, Items, Links

(* After the walk nothing is left.                                         *)
LEMMA NothingLeft ==
    ASSUME WalkInv, pc = "done" \/ stack = <<>>
    PROVE  Rest = {}
  BY DEF WalkInv, Rest, RestOf

LEMMA FinishWalk ==
    ASSUME WalkInv, Finish
    PROVE  /\ WalkInv' /\ Rest' = Rest /\ Rest = {}
           /\ UNCHANGED <<volume, call, shortCircuit, childID, inode, name, extents>>
<1>1. /\ pc = "walk" /\ stack = <<>> /\ pc' = "done"
      /\ UNCHANGED <<volume, call, stack, shortCircuit, childID, inode, name, extents>>
  BY Zenon DEF Finish
<1> QED
  BY <1>1, NothingLeft DEF WalkInv, Rest

----------------------------------------------------------------------------
(***************************************************************************)
(* What each operation has done, given what it has yet to come to          *)
(***************************************************************************)

(* An item with the name that is looked up.                                *)
HasName(x) ==
    /\ x.type = "DIR_ITEM" /\ x.objectID = call.parentID
    /\ \E e \in ToSet(x.entries) : e.name = call.name

NameInv ==
    call.op = "NAME_TO_ID" =>
        IF shortCircuit
        THEN /\ returnCode = 0
             /\ \E l \in Links :
                   /\ l[1] = call.parentID /\ l[2].name = call.name
                   /\ childID = [objectID |-> l[2].child,
                                 isSubvolume |-> l[2].isSubvolume]
        ELSE /\ returnCode = 1
             /\ \A x \in Items : HasName(x) => x \in Rest

IsInode(x, id) == x.type = "INODE_ITEM" /\ x.objectID = id
IsExtent(x, id) == x.type = "EXTENT_DATA" /\ x.objectID = id

InodeInv ==
    call.op = "GET_INODE" =>
        /\ call.objectID \in volume.ids
        /\ IF shortCircuit
           THEN returnCode = 0 /\ inode = Inode(volume.tree, call.objectID)
           ELSE returnCode = 1 /\ \E x \in Rest : IsInode(x, call.objectID)

(* What a FilePkg has yet to get: nothing that is past its object ID.      *)
Pending == IF shortCircuit THEN {} ELSE {x \in Rest : IsExtent(x, call.objectID)}

PkgInv ==
    call.op = "GET_FILE_PKG" =>
        /\ call.objectID \in Nat
        /\ extents \in Seq(Nat)
        /\ ToSet(extents) \cup {x.offset : x \in Pending} = ExtentsOf(call.objectID)
        /\ \A j, k \in DOMAIN extents : j < k => extents[j] < extents[k]
        /\ \A j \in DOMAIN extents : \A x \in Pending : extents[j] < x.offset
        /\ returnCode \in 0 .. 3
        /\ returnCode \in {0, 2} => inode = Inode(volume.tree, call.objectID)
        /\ /\ returnCode \in {0, 1} /\ call.objectID # OBJID_ROOT_DIR
           /\ \A l \in Links : l[2].isSubvolume => l[2].child # call.objectID
           => \E l \in LinksTo(call.objectID) : l[2].name = name

(* The links of the directory that have been visited, and the entries of   *)
(* the listing that have no inode yet.                                     *)
Visited(dir) ==
    {l \in Links : /\ l[1] = dir
                   /\ \E x \in Items \ Rest : /\ x.type = "DIR_ITEM" /\ x.objectID = dir
                                              /\ l[2] \in ToSet(x.entries)}
Listing == {j \in DOMAIN entries : j > call.skip}
Unfilled == {j \in Listing : entries[j].inode = NoInode}

EntryRecords ==
    [treeID : Nat, objectID : Nat, name : Names \cup {".", ".."},
     inode : (Nat \X Nat) \cup {NoInode}]

ListInv ==
    call.op = "DIR_LIST" /\ pc = "walk" =>
        /\ ~shortCircuit
        /\ call.skip \in {0, 2} /\ call.skip <= Len(entries)
        /\ entries \in Seq(EntryRecords)
        /\ IsFiniteSet(Visited(call.objectID))
        /\ Len(entries) - call.skip = Cardinality(Visited(call.objectID))
        /\ returnCode = Cardinality(Unfilled)
        /\ \A j \in Listing : \E l \in Visited(call.objectID) :
              \/ entries[j] = NewEntry(l[2])
              \/ entries[j] = Listed(l[2]) /\ ~l[2].isSubvolume
        /\ \A l \in Visited(call.objectID) : \E j \in Listing :
              \/ entries[j] = NewEntry(l[2])
              \/ entries[j] = Listed(l[2]) /\ ~l[2].isSubvolume
        /\ \A j \in Listing \ Unfilled :
              \A x \in Rest : ~IsInode(x, entries[j].objectID)

AllInv == WalkInv /\ NameInv /\ InodeInv /\ PkgInv /\ ListInv

----------------------------------------------------------------------------
(***************************************************************************)
(* FSOP_NAME_TO_ID                                                         *)
(***************************************************************************)
LEMMA NameCall ==
    ASSUME NEW v, Described(v), NEW parent, NEW n, NameToID(v, parent, n)
    PROVE  AllInv'
<1> DEFINE c == [op |-> "NAME_TO_ID", parentID |-> parent, name |-> n]
<1>1. Enter(v, c, 1)
  BY Zenon DEF NameToID
<1>2. WalkInv' /\ Rest' = Items'
  BY <1>1, EnterWalk
<1>3. call' = c /\ returnCode' = 1 /\ shortCircuit' = FALSE
  BY <1>1 DEF Enter
<1>4. NameInv'
  BY <1>2, <1>3 DEF NameInv
<1>5. call'.op = "NAME_TO_ID"
  BY <1>3
<1> QED
  BY <1>2, <1>4, <1>5 DEF AllInv, InodeInv, PkgInv, ListInv

(* The directory entries are those of the items.                           *)
LEMMA LinkOfItem ==
    ASSUME NEW x \in Items, x.type = "DIR_ITEM", NEW e \in ToSet(x.entries)
    PROVE  <<x.objectID, e>> \in Links
  BY DEF Links, LinksOf, Items

LEMMA ItemOfLink ==
    ASSUME NEW l \in Links
    PROVE  \E x \in Items : /\ x.type = "DIR_ITEM" /\ l[2] \in ToSet(x.entries)
                            /\ l[1] = x.objectID /\ l = <<x.objectID, l[2]>>
<1>1. PICK x \in {y \in Items : y.type = "DIR_ITEM"} :
          l \in {<<x.objectID, e>> : e \in ToSet(x.entries)}
  BY DEF Links, LinksOf, Items
<1> QED
  BY <1>1

(* The positions and the elements of the entries of an item.               *)
LEMMA EntryFields ==
    ASSUME NEW x \in ItemRecords
    PROVE  /\ Len(x.entries) \in Nat /\ DOMAIN x.entries = 1 .. Len(x.entries)
           /\ \A j \in DOMAIN x.entries :
                 /\ x.entries[j] \in ToSet(x.entries)
                 /\ x.entries[j].name \in Names /\ x.entries[j].child \in Nat
                 /\ x.entries[j].isSubvolume \in BOOLEAN
           /\ \A e \in ToSet(x.entries) : \E j \in DOMAIN x.entries : e = x.entries[j]
<1> DEFINE E == [name : Names, child : Nat, isSubvolume : BOOLEAN]
<1>1. x.entries \in Seq(E)
  BY ItemFields
<1>2. \A e \in E : e.name \in Names /\ e.child \in Nat /\ e.isSubvolume \in BOOLEAN
  OBVIOUS
<1> HIDE DEF E
<1>3. /\ Len(x.entries) \in Nat /\ DOMAIN x.entries = 1 .. Len(x.entries)
      /\ \A j \in 1 .. Len(x.entries) : x.entries[j] \in E
  BY <1>1, SeqElements
<1> QED
  BY <1>2, <1>3 DEF ToSet

LEMMA NameStep ==
    ASSUME WalkInv, NameInv, call.op = "NAME_TO_ID", Walk
    PROVE  WalkInv' /\ NameInv' /\ call' = call
<1>1. CASE NameToIDItem
  <2> DEFINE match == /\ item.type = "DIR_ITEM" /\ item.objectID = call.parentID
                      /\ item.offset = Hash(call.name)
             found == IF match THEN SameName(call.name) ELSE {}
  <2>1. AtLeaf /\ UNCHANGED <<volume, pc, call>> /\ ~shortCircuit
    BY <1>1 DEF NameToIDItem, AtLeaf, AtNode
  <2>2. /\ item \in ItemRecords /\ item \in Items
        /\ Rest = {item} \cup RestOf(volume, NextIndex(stack))
    BY <2>1, AtItem
  <2>3. returnCode = 1 /\ \A x \in Items : HasName(x) => x \in Rest
    BY <2>1 DEF NameInv
  <2>4. CASE found # {}
    <3> DEFINE m == Min(found)
               e == item.entries[m]
    <3>1. /\ childID' = [objectID |-> e.child, isSubvolume |-> e.isSubvolume]
          /\ returnCode' = 0 /\ shortCircuit' = TRUE /\ stack' = stack
      BY <1>1, <2>4 DEF NameToIDItem
    <3>2. m \in found
      <4>1. found \subseteq Nat
        BY <2>2, EntryFields DEF SameName
      <4> QED
        BY <2>4, <4>1, MinIsLeast
    <3>3. match /\ m \in DOMAIN item.entries /\ e.name = call.name
      BY <3>2 DEF SameName
    <3>4. e \in ToSet(item.entries)
      BY <2>2, <3>3, EntryFields
    <3> HIDE DEF e, m, found
    <3>5. <<call.parentID, e>> \in Links
      BY <2>2, <3>3, <3>4, LinkOfItem
    <3>6. WalkInv' /\ Links' = Links
      BY <2>1, <3>1, StepAtItem
    <3>7. NameInv'
      BY <2>1, <3>1, <3>3, <3>5, <3>6 DEF NameInv
    <3> QED
      BY <2>1, <3>6, <3>7
  <2>5. CASE found = {}
    <3>1. stack' = NextIndex(stack) /\ UNCHANGED <<returnCode, shortCircuit, childID>>
      BY <1>1, <2>5 DEF NameToIDItem
    <3>2. WalkInv' /\ Items' = Items
      BY <2>1, <3>1, StepAtItem DEF WalkInv
    <3>3. Rest = {item} \cup Rest'
      BY <2>1, <2>2, <3>1 DEF Rest
    <3>4. ~HasName(item)
      <4> SUFFICES ASSUME HasName(item)
                   PROVE  FALSE
        OBVIOUS
      <4>1. PICK e \in ToSet(item.entries) : e.name = call.name
        BY DEF HasName
      <4>2. item.type = "DIR_ITEM" /\ item.objectID = call.parentID
        BY DEF HasName
      <4>3. item.offset = Hash(e.name)
        BY <2>2, <4>2 DEF WalkInv, Described, ItemsDescribed, Items
      <4>4. \E j \in DOMAIN item.entries : item.entries[j].name = call.name
        BY <2>2, <4>1, EntryFields
      <4> QED
        BY <2>5, <4>1, <4>2, <4>3, <4>4 DEF SameName
    <3>5. \A x : HasName(x)' = HasName(x)
      BY <2>1 DEF HasName
    <3>6. NameInv'
      BY <2>1, <2>3, <3>1, <3>2, <3>3, <3>4, <3>5 DEF NameInv
    <3> QED
      BY <2>1, <3>2, <3>6
  <2> QED
    BY <2>4, <2>5
<1>2. CASE Recurse \/ ReturnFromNode
  <2>1. /\ WalkInv' /\ (~shortCircuit => Rest' = Rest)
        /\ UNCHANGED <<volume, call, returnCode, shortCircuit, childID>>
    BY <1>2, MoveBetweenNodes DEF output
  <2>2. \A x : HasName(x)' = HasName(x)
    BY <2>1 DEF HasName
  <2>3. Items' = Items /\ Links' = Links
    BY <2>1 DEF Items, Links
  <2> QED
    BY <2>1, <2>2, <2>3 DEF NameInv
<1>3. CASE Finish
  <2>1. /\ WalkInv' /\ Rest' = Rest
        /\ UNCHANGED <<volume, call, shortCircuit, childID>>
    BY <1>3, FinishWalk
  <2>2. returnCode' = returnCode
    BY <1>3 DEF Finish
  <2>3. \A x : HasName(x)' = HasName(x)
    BY <2>1 DEF HasName
  <2>4. Items' = Items /\ Links' = Links
    BY <2>1 DEF Items, Links
  <2> QED
    BY <2>1, <2>2, <2>3, <2>4 DEF NameInv
<1> QED
  BY <1>1, <1>2, <1>3 DEF Walk, JumpOut, GetFilePkgItem, DirListItem, GetInodeItem

----------------------------------------------------------------------------
(***************************************************************************)
(* FSOP_GET_INODE                                                          *)
(***************************************************************************)

(* The object IDs of a tree are those of its inodes.                       *)
LEMMA IdsHaveInodes ==
    ASSUME Described(volume)
    PROVE  \A id : id \in volume.ids <=> \E x \in Items : IsInode(x, id)
  BY DEF Described, ItemsDescribed, Items, IsInode

LEMMA InodeCall ==
    ASSUME WalkInv, NEW id \in volume.ids, GetInode(id)
    PROVE  AllInv'
<1> DEFINE c == [op |-> "GET_INODE", objectID |-> id]
<1>1. Enter(volume, c, 1)
  BY Zenon DEF GetInode
<1>2. WalkInv' /\ Rest' = Items'
  BY <1>1, EnterWalk DEF WalkInv
<1>3. call' = c /\ returnCode' = 1 /\ shortCircuit' = FALSE /\ volume' = volume
  BY <1>1 DEF Enter
<1>4. PICK x \in Items : IsInode(x, id)
  BY IdsHaveInodes DEF WalkInv
<1>5. x \in Rest'
  BY <1>2, <1>3, <1>4 DEF Items
<1>6. InodeInv'
  BY <1>2, <1>3, <1>4, <1>5 DEF InodeInv, IsInode
<1>7. call'.op = "GET_INODE"
  BY <1>3
<1> QED
  BY <1>2, <1>6, <1>7 DEF AllInv, NameInv, PkgInv, ListInv

(* Whatever comes after an item past the object ID is past it too.         *)
LEMMA PassedForGood ==
    ASSUME WalkInv, AtLeaf, NEW id \in Nat, Passed(id)
    PROVE  \A x \in Rest : x.objectID > id
<1>1. /\ item \in ItemRecords
      /\ StackOK(volume, NextIndex(stack))
      /\ Rest = {item} \cup RestOf(volume, NextIndex(stack))
      /\ \A y \in RestOf(volume, NextIndex(stack)) : KeyBefore(item, y)
  BY AtItem
<1>2. RestOf(volume, NextIndex(stack)) \subseteq ItemRecords
  BY <1>1, RestInTree, ItemsAreItems DEF WalkInv, Described, Items
<1>3. item.objectID > id /\ item.objectID \in Nat
  BY <1>1, ItemFields DEF Passed
<1>4. ASSUME NEW y \in RestOf(volume, NextIndex(stack))
      PROVE  y.objectID > id
  <2>1. item.objectID <= y.objectID /\ y.objectID \in Nat
    BY <1>1, <1>2, KeyFields, ItemFields
  <2> QED
    BY <1>3, <2>1
<1> QED
  BY <1>1, <1>3, <1>4

LEMMA IdsNatural ==
    ASSUME Described(volume)
    PROVE  volume.ids \subseteq Nat
  BY IdsHaveInodes, ItemsAreItems, ItemFields DEF IsInode

LEMMA InodeStep ==
    ASSUME WalkInv, InodeInv, call.op = "GET_INODE", Walk
    PROVE  WalkInv' /\ InodeInv' /\ call' = call
<1> DEFINE id == call.objectID
<1>1. CASE GetInodeItem
  <2>1. AtLeaf /\ UNCHANGED <<volume, pc, call>> /\ ~shortCircuit
    BY <1>1 DEF GetInodeItem, AtLeaf, AtNode
  <2>2. item \in Items /\ Rest = {item} \cup RestOf(volume, NextIndex(stack))
    BY <2>1, AtItem
  <2>3. id \in volume.ids /\ returnCode = 1 /\ \E x \in Rest : IsInode(x, id)
    BY <2>1 DEF InodeInv
  <2>4. CASE IsInode(item, id)
    <3>1. /\ inode' = Inode(volume.tree, item.objectID)
          /\ returnCode' = 0 /\ shortCircuit' = TRUE /\ stack' = stack
      BY <1>1, <2>4 DEF GetInodeItem, IsInode
    <3>2. WalkInv'
      BY <2>1, <3>1, StepAtItem
    <3>3. InodeInv'
      BY <2>1, <2>3, <2>4, <3>1 DEF InodeInv, IsInode
    <3> QED
      BY <2>1, <3>2, <3>3
  <2>5. CASE ~IsInode(item, id)
    <3>1. stack' = NextIndex(stack) /\ UNCHANGED <<inode, returnCode, shortCircuit>>
      BY <1>1, <2>5 DEF GetInodeItem, IsInode
    <3>2. WalkInv'
      BY <2>1, <3>1, StepAtItem DEF WalkInv
    <3>3. Rest = {item} \cup Rest'
      BY <2>1, <2>2, <3>1 DEF Rest
    <3>4. \E x \in Rest' : IsInode(x, id)
      BY <2>3, <2>5, <3>3
    <3>5. InodeInv'
      BY <2>1, <2>3, <3>1, <3>4 DEF InodeInv, IsInode
    <3> QED
      BY <2>1, <3>2, <3>5
  <2> QED
    BY <2>4, <2>5
<1>2. CASE JumpOut
  <2>1. AtLeaf /\ ~shortCircuit /\ Passed(id)
    BY <1>2 DEF JumpOut, AtLeaf, AtNode
  <2>2. id \in Nat /\ \E x \in Rest : x.objectID = id
    BY <2>1, IdsNatural DEF InodeInv, WalkInv, IsInode
  <2> QED
    BY <2>1, <2>2, PassedForGood
<1>3. CASE Recurse \/ ReturnFromNode
  <2>1. /\ WalkInv' /\ (~shortCircuit => Rest' = Rest)
        /\ UNCHANGED <<volume, call, returnCode, shortCircuit, inode>>
    BY <1>3, MoveBetweenNodes DEF output
  <2> QED
    BY <2>1 DEF InodeInv, IsInode
<1>4. CASE Finish
  <2>1. /\ WalkInv' /\ Rest' = Rest
        /\ UNCHANGED <<volume, call, shortCircuit, inode>>
    BY <1>4, FinishWalk
  <2>2. returnCode' = returnCode
    BY <1>4 DEF Finish
  <2> QED
    BY <2>1, <2>2 DEF InodeInv, IsInode
<1> QED
  BY <1>1, <1>2, <1>3, <1>4 DEF Walk, NameToIDItem, GetFilePkgItem, DirListItem

----------------------------------------------------------------------------
(***************************************************************************)
(* FSOP_GET_FILE_PKG                                                       *)
(***************************************************************************)

(* What the extents are while the walk adds to them, apart from the other  *)
(* parts of the package.                                                   *)
ExtentsInv ==
    /\ extents \in Seq(Nat)
    /\ ToSet(extents) \cup {x.offset : x \in Pending} = ExtentsOf(call.objectID)
    /\ \A j, k \in DOMAIN extents : j < k => extents[j] < extents[k]
    /\ \A j \in DOMAIN extents : \A x \in Pending : extents[j] < x.offset

PartsInv ==
    /\ returnCode \in 0 .. 3
    /\ returnCode \in {0, 2} => inode = Inode(volume.tree, call.objectID)
    /\ /\ returnCode \in {0, 1} /\ call.objectID # OBJID_ROOT_DIR
       /\ \A l \in Links : l[2].isSubvolume => l[2].child # call.objectID
       => \E l \in LinksTo(call.objectID) : l[2].name = name

LEMMA PkgParts ==
    PkgInv <=> (call.op = "GET_FILE_PKG" =>
                   call.objectID \in Nat /\ ExtentsInv /\ PartsInv)
  BY DEF PkgInv, ExtentsInv, PartsInv

LEMMA PkgCall ==
    ASSUME WalkInv, NEW id \in volume.ids, GetFilePkg(id)
    PROVE  AllInv'
<1> DEFINE c == [op |-> "GET_FILE_PKG", objectID |-> id]
           code == IF id = OBJID_ROOT_DIR THEN 1 ELSE 3
<1>1. Enter(volume, c, code)
  BY Zenon DEF GetFilePkg
<1>2. WalkInv' /\ Rest' = Items'
  BY <1>1, EnterWalk DEF WalkInv
<1>3. /\ call' = c /\ returnCode' = code /\ shortCircuit' = FALSE
      /\ volume' = volume /\ extents' = <<>>
  BY <1>1 DEF Enter
<1>4. call'.op = "GET_FILE_PKG" /\ call'.objectID = id
  BY <1>3
<1>5. id \in Nat
  BY IdsNatural DEF WalkInv
<1>6. <<>> \in Seq(Nat) /\ DOMAIN <<>> = {} /\ ToSet(<<>>) = {}
  BY EmptySeq DEF ToSet
<1>7. {x.offset : x \in Pending'} = ExtentsOf(id)'
  BY <1>2, <1>3, <1>4 DEF Pending, ExtentsOf, IsExtent
<1>8. ExtentsInv'
  BY <1>3, <1>4, <1>6, <1>7 DEF ExtentsInv
<1>9. PartsInv'
  BY <1>3, <1>4 DEF PartsInv
<1>10. PkgInv'
  BY <1>4, <1>5, <1>8, <1>9 DEF PkgInv, ExtentsInv, PartsInv
<1> QED
  BY <1>2, <1>4, <1>10 DEF AllInv, NameInv, InodeInv, ListInv

(* Bits of the return code.                                                *)
LEMMA ClearBits ==
    \A code \in 0 .. 3 :
        /\ Clear(code, 2) \in {0, 1}
        /\ Clear(code, 2) = 0 => code \in {0, 2}
        /\ Clear(Clear(code, 1), 4) \in {0, 2}
        /\ Clear(Clear(code, 1), 4) = 0 => code \in {0, 1}
  BY DEF Clear

LEMMA AppendSet ==
    ASSUME NEW S, NEW s \in Seq(S), NEW e \in S
    PROVE  /\ Append(s, e) \in Seq(S) /\ Len(Append(s, e)) = Len(s) + 1
           /\ DOMAIN s = 1 .. Len(s) /\ DOMAIN Append(s, e) = 1 .. Len(s) + 1
           /\ \A j \in 1 .. Len(s) : Append(s, e)[j] = s[j]
           /\ Append(s, e)[Len(s) + 1] = e
           /\ ToSet(Append(s, e)) = ToSet(s) \cup {e}
<1> DEFINE r == Append(s, e)
           n == Len(s)
<1>1. /\ r \in Seq(S) /\ Len(r) = n + 1 /\ n \in Nat
      /\ DOMAIN s = 1 .. n /\ DOMAIN r = 1 .. n + 1
      /\ \A j \in 1 .. n : r[j] = s[j]
      /\ r[n + 1] = e
  OBVIOUS
<1> HIDE DEF r, n
<1>2. 1 .. n + 1 = (1 .. n) \cup {n + 1}
  BY <1>1
<1>3. ToSet(r) = ToSet(s) \cup {e}
  BY <1>1, <1>2 DEF ToSet
<1> QED
  BY <1>1, <1>3 DEF r, n

LEMMA ExtentsStep ==
    ASSUME WalkInv, ExtentsInv, call.objectID \in Nat, GetFilePkgItem
    PROVE  ExtentsInv'
<1> DEFINE id == call.objectID
<1>1. AtLeaf /\ UNCHANGED <<volume, call, shortCircuit>> /\ ~shortCircuit
  BY DEF GetFilePkgItem, AtLeaf, AtNode
<1>2. stack' = NextIndex(stack)
  BY DEF GetFilePkgItem
<1>3. /\ item \in ItemRecords
      /\ Rest = {item} \cup Rest'
      /\ \A y \in Rest' : KeyBefore(item, y)
  BY <1>1, <1>2, AtItem DEF Rest
<1>4. Rest' \subseteq ItemRecords
  <2>1. Rest \subseteq Items
    BY RestInTree DEF WalkInv, Described, Rest, Items
  <2> QED
    BY <1>3, <2>1, ItemsAreItems DEF WalkInv
<1>5. ExtentsOf(id)' = ExtentsOf(id)
  BY <1>1 DEF ExtentsOf, Items
<1>6. /\ Pending = {x \in Rest : IsExtent(x, id)}
      /\ Pending' = {x \in Rest' : IsExtent(x, id)}
  BY <1>1 DEF Pending, IsExtent
<1>7. CASE ~IsExtent(item, id)
  <2>1. extents' = extents
    BY <1>7 DEF GetFilePkgItem, IsExtent
  <2>2. Pending' = Pending
    BY <1>3, <1>6, <1>7
  <2> QED
    BY <1>1, <1>5, <2>1, <2>2 DEF ExtentsInv
<1>8. CASE IsExtent(item, id)
  <2>1. extents' = Append(extents, item.offset)
    BY <1>8 DEF GetFilePkgItem, IsExtent
  <2>2. Pending = {item} \cup Pending'
    BY <1>3, <1>6, <1>8
  <2>3. item.offset \in Nat /\ extents \in Seq(Nat)
    BY <1>3, ItemFields DEF ExtentsInv
  <2> DEFINE n == Len(extents)
  <2>4. /\ extents' \in Seq(Nat) /\ n \in Nat
        /\ DOMAIN extents = 1 .. n /\ DOMAIN extents' = 1 .. n + 1
        /\ \A j \in 1 .. n : extents'[j] = extents[j] /\ extents[j] \in Nat
        /\ extents'[n + 1] = item.offset
        /\ ToSet(extents') = ToSet(extents) \cup {item.offset}
    BY <2>1, <2>3, AppendSet
  <2>5. \A x \in Pending' : item.offset < x.offset /\ x.offset \in Nat
    <3> TAKE x \in Pending'
    <3>1. x \in ItemRecords /\ KeyBefore(item, x) /\ IsExtent(x, id)
      BY <1>3, <1>4, <1>6
    <3> QED
      BY <1>3, <1>8, <3>1, KeyFields, ItemFields DEF IsExtent
  <2> HIDE DEF n
  <2>6. \A j \in 1 .. n + 1 : \A x \in Pending' : extents'[j] < x.offset
    <3> TAKE j \in 1 .. n + 1
    <3> TAKE x \in Pending'
    <3>1. CASE j = n + 1
      BY <2>4, <2>5, <3>1
    <3>2. CASE j \in 1 .. n
      BY <2>2, <2>4, <3>2 DEF ExtentsInv
    <3> QED
      BY <2>4, <3>1, <3>2
  <2>7. \A j, k \in 1 .. n + 1 : j < k => extents'[j] < extents'[k]
    <3> SUFFICES ASSUME NEW j \in 1 .. n + 1, NEW k \in 1 .. n + 1, j < k
                 PROVE  extents'[j] < extents'[k]
      OBVIOUS
    <3>1. j \in 1 .. n
      BY <2>4
    <3>2. CASE k = n + 1
      BY <2>2, <2>4, <3>1, <3>2 DEF ExtentsInv
    <3>3. CASE k \in 1 .. n
      BY <2>4, <3>1, <3>3 DEF ExtentsInv
    <3> QED
      BY <2>4, <3>2, <3>3
  <2>8. ToSet(extents') \cup {x.offset : x \in Pending'} = ExtentsOf(id)'
    BY <1>5, <2>2, <2>4 DEF ExtentsInv
  <2> QED
    BY <1>1, <2>4, <2>6, <2>7, <2>8 DEF ExtentsInv
<1> QED
  BY <1>7, <1>8

LEMMA PartsStep ==
    ASSUME WalkInv, PartsInv, call.objectID \in Nat, GetFilePkgItem
    PROVE  PartsInv'
<1> DEFINE id == call.objectID
           named == IF item.type = "DIR_ITEM" THEN NamesOf(id) ELSE {}
<1>1. AtLeaf /\ UNCHANGED <<volume, call>>
  BY DEF GetFilePkgItem
<1>2. item \in ItemRecords /\ item \in Items
  BY <1>1, AtItem
<1>3. Links' = Links /\ LinksTo(id)' = LinksTo(id)
  BY <1>1 DEF Links, LinksTo
<1>4. returnCode \in 0 .. 3
  BY DEF PartsInv
<1>5. CASE IsInode(item, id)
  <2>1. /\ inode' = Inode(volume.tree, id) /\ name' = name
        /\ returnCode' = Clear(Clear(returnCode, 1), 4)
    BY <1>5 DEF GetFilePkgItem, IsInode
  <2>2. returnCode' \in {0, 2} /\ (returnCode' = 0 => returnCode \in {0, 1})
    BY <1>4, <2>1, ClearBits
  <2> QED
    BY <1>1, <1>3, <2>1, <2>2 DEF PartsInv
<1>6. CASE ~IsInode(item, id) /\ named # {}
  <2> DEFINE m == Max(named)
             e == item.entries[m]
  <2>1. inode' = inode /\ name' = e.name /\ returnCode' = Clear(returnCode, 2)
    BY <1>6 DEF GetFilePkgItem, IsInode
  <2>2. returnCode' \in {0, 1} /\ (returnCode' = 0 => returnCode \in {0, 2})
    BY <1>4, <2>1, ClearBits
  <2>3. m \in named
    <3>1. Len(item.entries) \in Nat /\ named \subseteq 0 .. Len(item.entries)
      BY <1>2, EntryFields DEF NamesOf
    <3> QED
      BY <1>6, <3>1, MaxIsGreatest
  <2>4. item.type = "DIR_ITEM" /\ m \in DOMAIN item.entries /\ e.child = id
    BY <2>3 DEF NamesOf
  <2>5. e \in ToSet(item.entries) /\ e.isSubvolume \in BOOLEAN
    BY <1>2, <2>4, EntryFields
  <2> DEFINE l == <<item.objectID, e>>
  <2>6. l \in Links
    BY <1>2, <2>4, <2>5, LinkOfItem
  <2>7. l[2] = e
    OBVIOUS
  <2> HIDE DEF l, e, m
  <2>8. (\A k \in Links : k[2].isSubvolume => k[2].child # id) =>
            \E k \in LinksTo(id) : k[2].name = name'
    BY <2>1, <2>4, <2>6, <2>7 DEF LinksTo
  <2>9. returnCode' \in 0 .. 3
    BY <2>2
  <2>10. returnCode' \in {0, 2} => inode' = Inode(volume.tree, id)
    BY <2>1, <2>2 DEF PartsInv
  <2> QED
    BY <1>1, <1>3, <2>8, <2>9, <2>10 DEF PartsInv
<1>7. CASE ~IsInode(item, id) /\ named = {}
  <2>1. UNCHANGED <<inode, name, returnCode>>
    BY <1>7 DEF GetFilePkgItem, IsInode
  <2> QED
    BY <1>1, <1>3, <2>1 DEF PartsInv
<1> QED
  BY <1>5, <1>6, <1>7

LEMMA PkgStep ==
    ASSUME WalkInv, PkgInv, call.op = "GET_FILE_PKG", Walk
    PROVE  WalkInv' /\ PkgInv' /\ call' = call
<1> DEFINE id == call.objectID
<1>1. id \in Nat /\ ExtentsInv /\ PartsInv
  BY PkgParts
<1>2. ASSUME UNCHANGED <<volume, call, inode, name, returnCode>>
      PROVE  PartsInv'
  BY <1>1, <1>2 DEF PartsInv, Links, LinksTo
<1>3. ASSUME UNCHANGED <<volume, call, extents>>, Pending' = Pending
      PROVE  ExtentsInv'
  BY <1>1, <1>3 DEF ExtentsInv, ExtentsOf, Items
<1>4. ASSUME WalkInv', ExtentsInv', PartsInv', call' = call
      PROVE  WalkInv' /\ PkgInv' /\ call' = call
  BY <1>1, <1>4 DEF PkgInv, ExtentsInv, PartsInv
<1>5. CASE GetFilePkgItem
  <2>1. AtLeaf /\ UNCHANGED <<volume, pc, call, shortCircuit>> /\ stack' = NextIndex(stack)
    BY <1>5 DEF GetFilePkgItem
  <2>2. WalkInv'
    BY <2>1, StepAtItem DEF WalkInv
  <2> QED
    BY <1>1, <1>4, <1>5, <2>1, <2>2, ExtentsStep, PartsStep
<1>6. CASE JumpOut
  <2>1. /\ AtLeaf /\ ~shortCircuit /\ Passed(id) /\ shortCircuit' = TRUE
        /\ UNCHANGED <<volume, pc, call, stack, returnCode, inode, name, extents>>
    BY <1>6 DEF JumpOut, AtLeaf, AtNode, output
  <2>2. WalkInv'
    BY <2>1, StepAtItem
  <2>3. \A x \in Rest : x.objectID > id
    BY <1>1, <2>1, PassedForGood
  <2>4. Pending = {} /\ Pending' = {}
    BY <1>1, <2>1, <2>3 DEF Pending, IsExtent
  <2> QED
    BY <1>2, <1>3, <1>4, <2>1, <2>2, <2>4
<1>7. CASE Recurse \/ ReturnFromNode
  <2>1. /\ WalkInv' /\ (~shortCircuit => Rest' = Rest)
        /\ UNCHANGED <<volume, call, returnCode, shortCircuit, inode, name, extents>>
    BY <1>7, MoveBetweenNodes DEF output
  <2>2. Pending' = Pending
    BY <2>1 DEF Pending, IsExtent
  <2> QED
    BY <1>2, <1>3, <1>4, <2>1, <2>2
<1>8. CASE Finish
  <2>1. /\ WalkInv' /\ Rest' = Rest
        /\ UNCHANGED <<volume, call, shortCircuit, inode, name, extents>>
    BY <1>8, FinishWalk
  <2>2. returnCode' = returnCode
    BY <1>8 DEF Finish
  <2>3. Pending' = Pending
    BY <2>1 DEF Pending, IsExtent
  <2> QED
    BY <1>2, <1>3, <1>4, <2>1, <2>2, <2>3
<1> QED
  BY <1>5, <1>6, <1>7, <1>8 DEF Walk, NameToIDItem, DirListItem, GetInodeItem

----------------------------------------------------------------------------
(***************************************************************************)
(* FSOP_DIR_LIST                                                           *)
(***************************************************************************)

(* The entry that the j-th position of a listing holds is that of a link,  *)
(* with or without its inode.                                              *)
Stands(e, l) == e = NewEntry(l[2]) \/ (e = Listed(l[2]) /\ ~l[2].isSubvolume)

ListParts ==
    /\ ~shortCircuit
    /\ call.skip \in {0, 2} /\ call.skip <= Len(entries)
    /\ entries \in Seq(EntryRecords)

Counted ==
    /\ IsFiniteSet(Visited(call.objectID))
    /\ Len(entries) - call.skip = Cardinality(Visited(call.objectID))
    /\ returnCode = Cardinality(Unfilled)

Corresponds ==
    /\ \A j \in Listing : \E l \in Visited(call.objectID) : Stands(entries[j], l)
    /\ \A l \in Visited(call.objectID) : \E j \in Listing : Stands(entries[j], l)

FilledForGood ==
    \A j \in Listing \ Unfilled : \A x \in Rest : ~IsInode(x, entries[j].objectID)

LEMMA ListInvParts ==
    ListInv <=> (call.op = "DIR_LIST" /\ pc = "walk" =>
                    ListParts /\ Counted /\ Corresponds /\ FilledForGood)
  BY DEF ListInv, ListParts, Counted, Corresponds, FilledForGood, Stands

(* The fields of the entries.                                              *)
LEMMA EntryRecord ==
    ASSUME NEW t, NEW id, NEW n, NEW ino
    PROVE  /\ Entry(t, id, n, ino).treeID = t /\ Entry(t, id, n, ino).objectID = id
           /\ Entry(t, id, n, ino).inode = ino
           /\ \A o : [Entry(t, id, n, ino) EXCEPT !.inode = o] = Entry(t, id, n, o)
           /\ /\ t \in Nat /\ id \in Nat /\ n \in Names \cup {".", ".."}
              /\ ino \in (Nat \X Nat) \cup {NoInode}
              => Entry(t, id, n, ino) \in EntryRecords
  BY DEF Entry, EntryRecords

(* An entry of a listing, from the link it stands for.                     *)
LEMMA StandsFields ==
    ASSUME Described(volume), NEW l \in Links, NEW e, Stands(e, l)
    PROVE  /\ l[2].isSubvolume \in BOOLEAN
           /\ e.treeID = volume.tree <=> ~l[2].isSubvolume
           /\ ~l[2].isSubvolume => e.objectID = l[2].child
           /\ l[2].isSubvolume =>
                 /\ e.inode = NoInode /\ e.treeID = l[2].child
                 /\ \A o : [e EXCEPT !.inode = o] =
                              Entry(l[2].child, OBJID_ROOT_DIR, l[2].name, o)
           /\ ~l[2].isSubvolume =>
                 \A o : [e EXCEPT !.inode = o] =
                              Entry(volume.tree, l[2].child, l[2].name, o)
<1>1. PICK x \in Items : x.type = "DIR_ITEM" /\ l[2] \in ToSet(x.entries)
  BY ItemOfLink
<1>2. l[2].isSubvolume \in BOOLEAN
  BY <1>1, ItemsAreItems, EntryFields
<1>3. l[2].isSubvolume => l[2].child # volume.tree
  BY <1>1 DEF Described, ItemsDescribed, Items
<1>4. CASE l[2].isSubvolume
  <2>1. e = Entry(l[2].child, OBJID_ROOT_DIR, l[2].name, NoInode)
    BY <1>4 DEF Stands, NewEntry
  <2> QED
    BY <1>2, <1>3, <1>4, <2>1, EntryRecord
<1>5. CASE ~l[2].isSubvolume
  <2>1. PICK ino : e = Entry(volume.tree, l[2].child, l[2].name, ino)
    BY <1>5 DEF Stands, NewEntry, Listed
  <2> QED
    BY <1>2, <1>5, <2>1, EntryRecord
<1> QED
  BY <1>2, <1>4, <1>5

LEMMA NewEntryTyped ==
    ASSUME Described(volume), NEW x \in ItemRecords, NEW j \in DOMAIN x.entries
    PROVE  /\ NewEntry(x.entries[j]) \in EntryRecords
           /\ NewEntry(x.entries[j]).inode = NoInode
<1>1. /\ x.entries[j].name \in Names /\ x.entries[j].child \in Nat
      /\ volume.tree \in Nat /\ OBJID_ROOT_DIR \in Nat
  BY EntryFields, RootDirNatural DEF Described, ItemsDescribed
<1> QED
  BY <1>1, EntryRecord DEF NewEntry

(* The links that an item adds to those visited.                           *)
LinksIn(x, dir) ==
    IF x.type = "DIR_ITEM" /\ x.objectID = dir
    THEN {<<dir, e>> : e \in ToSet(x.entries)} ELSE {}

LEMMA NewLinks ==
    ASSUME WalkInv, AtLeaf, volume' = volume, stack' = NextIndex(stack), NEW dir
    PROVE  /\ Visited(dir)' = Visited(dir) \cup LinksIn(item, dir)
           /\ Visited(dir) \cap LinksIn(item, dir) = {}
           /\ LinksIn(item, dir) \subseteq Links
<1>1. /\ item \in ItemRecords /\ item \in Items
      /\ Rest = {item} \cup Rest'
      /\ \A y \in Rest' : KeyBefore(item, y)
  BY AtItem DEF Rest
<1>2. item \notin Rest'
  BY <1>1, KeyFields, ItemFields
<1>3. Items' = Items /\ Links' = Links
  BY DEF Items, Links
<1>4. LinksIn(item, dir) \subseteq Links
  BY <1>1, LinkOfItem DEF LinksIn
<1>5. \A l \in LinksIn(item, dir) :
         /\ item.type = "DIR_ITEM" /\ item.objectID = dir
         /\ l[1] = dir /\ l[2] \in ToSet(item.entries)
  BY DEF LinksIn
<1>6. \A l \in Links : l[1] = dir /\ l[2] \in ToSet(item.entries)
                       /\ item.type = "DIR_ITEM" /\ item.objectID = dir
                       => l \in LinksIn(item, dir)
  BY ItemOfLink DEF LinksIn
<1>7. Visited(dir)' = Visited(dir) \cup LinksIn(item, dir)
  <2>1. Visited(dir)' =
          {l \in Links : /\ l[1] = dir
                         /\ \E x \in Items \ Rest' :
                               /\ x.type = "DIR_ITEM" /\ x.objectID = dir
                               /\ l[2] \in ToSet(x.entries)}
    BY <1>3 DEF Visited
  <2>2. Items \ Rest' = (Items \ Rest) \cup {item}
    BY <1>1, <1>2
  <2> QED
    BY <1>4, <1>5, <1>6, <2>1, <2>2 DEF Visited
<1>8. ASSUME NEW l \in Visited(dir), l \in LinksIn(item, dir)
      PROVE  FALSE
  <2>1. PICK x \in Items \ Rest : /\ x.type = "DIR_ITEM" /\ x.objectID = dir
                                  /\ l[2] \in ToSet(x.entries)
    BY DEF Visited
  <2>2. item.type = "DIR_ITEM" /\ item.objectID = dir /\ l[2] \in ToSet(item.entries)
    BY <1>5, <1>8
  <2>3. PICK j \in DOMAIN x.entries : l[2] = x.entries[j]
    BY <2>1, ItemsAreItems, EntryFields DEF WalkInv
  <2>4. PICK k \in DOMAIN item.entries : l[2] = item.entries[k]
    BY <1>1, <2>2, EntryFields
  <2>5. /\ x \in {z \in LeafItems(volume, volume.root) : z.type = "DIR_ITEM"}
        /\ item \in {z \in LeafItems(volume, volume.root) : z.type = "DIR_ITEM"}
    BY <1>1, <2>1, <2>2 DEF Items
  <2>6. x.objectID = item.objectID /\ x.entries[j].name = item.entries[k].name
    BY <2>1, <2>2, <2>3, <2>4
  <2>7. x = item
    BY <2>5, <2>6 DEF WalkInv, Described, ItemsDescribed
  <2> QED
    BY <1>1, <2>1, <2>7
<1> QED
  BY <1>4, <1>7, <1>8

(* A directory item has as many links as entries, since no name repeats.   *)
LEMMA LinksCounted ==
    ASSUME Described(volume), NEW x \in Items, x.type = "DIR_ITEM"
    PROVE  /\ IsFiniteSet(LinksIn(x, x.objectID))
           /\ Cardinality(LinksIn(x, x.objectID)) = Len(x.entries)
<1> DEFINE n == Len(x.entries)
           L == LinksIn(x, x.objectID)
           f == [j \in 1 .. n |-> <<x.objectID, x.entries[j]>>]
<1>1. /\ x \in ItemRecords /\ n \in Nat /\ DOMAIN x.entries = 1 .. n
      /\ \A j \in 1 .. n : x.entries[j] \in ToSet(x.entries)
      /\ \A e \in ToSet(x.entries) : \E j \in 1 .. n : e = x.entries[j]
  BY ItemsAreItems, EntryFields
<1>2. \A j, k \in 1 .. n : x.entries[j] = x.entries[k] => j = k
  <2>1. x \in {z \in LeafItems(volume, volume.root) : z.type = "DIR_ITEM"}
    BY DEF Items
  <2>2. \A j, k \in DOMAIN x.entries :
           x.entries[j].name = x.entries[k].name => j = k
    BY <2>1 DEF Described, ItemsDescribed
  <2> QED
    BY <1>1, <2>2
<1>3. L = {<<x.objectID, e>> : e \in ToSet(x.entries)}
  BY DEF LinksIn
<1> HIDE DEF n, L
<1>4. f \in [1 .. n -> L]
  BY <1>1, <1>3
<1>5. \A j, k \in 1 .. n : f[j] = f[k] => j = k
  BY <1>2
<1>6. \A l \in L : \E j \in 1 .. n : f[j] = l
  BY <1>1, <1>3
<1> HIDE DEF f
<1>7. ExistsBijection(1 .. n, L)
  <2>1. DOMAIN f = 1 .. n
    BY <1>4
  <2> QED
    BY <1>4, <1>5, <1>6, <2>1
       DEF ExistsBijection, Bijection, Injection, Surjection, IsInjective
<1>8. IsFiniteSet(1 .. n) /\ Cardinality(1 .. n) = n
  BY <1>1, FS_Interval
<1> QED
  BY <1>7, <1>8, FS_Bijection DEF n, L

(* The items of DirListItem: the entries that it fills in and those that   *)
(* it adds.                                                                *)
AwaitingItem == IF item.type = "INODE_ITEM" THEN Awaiting(item.objectID) ELSE {}
NewFromItem ==
    IF item.type = "DIR_ITEM" /\ item.objectID = call.objectID
    THEN [j \in DOMAIN item.entries |-> NewEntry(item.entries[j])] ELSE <<>>
Filled(e) == [e EXCEPT !.inode = Inode(volume.tree, item.objectID)]

LEMMA FilledTyped ==
    ASSUME Described(volume), item \in ItemRecords, NEW e \in EntryRecords
    PROVE  /\ Filled(e) \in EntryRecords
           /\ Filled(e).treeID = e.treeID /\ Filled(e).objectID = e.objectID
           /\ Filled(e).inode = Inode(volume.tree, item.objectID)
<1>1. volume.tree \in Nat /\ item.objectID \in Nat
  BY ItemFields DEF Described, ItemsDescribed
<1>2. Inode(volume.tree, item.objectID) \in (Nat \X Nat) \cup {NoInode}
  BY <1>1 DEF Inode
<1> QED
  BY <1>2 DEF Filled, EntryRecords

(* The listing after an item, position by position.                        *)
LEMMA ListEntries ==
    ASSUME WalkInv, ListParts, DirListItem
    PROVE  LET n == Len(entries)
               m == Len(NewFromItem)
           IN  /\ n \in Nat /\ m \in Nat /\ DOMAIN entries = 1 .. n
               /\ NewFromItem # <<>> => m = Len(item.entries)
               /\ entries' \in Seq(EntryRecords)
               /\ Len(entries') = n + m /\ DOMAIN entries' = 1 .. n + m
               /\ \A j \in 1 .. n :
                     entries'[j] = IF j \in AwaitingItem THEN Filled(entries[j])
                                   ELSE entries[j]
               /\ \A j \in 1 .. m : entries'[n + j] = NewFromItem[j]
               /\ returnCode' = returnCode + m - Cardinality(AwaitingItem)
<1> DEFINE n == Len(entries)
           m == Len(NewFromItem)
           s == [j \in DOMAIN entries |-> IF j \in AwaitingItem THEN Filled(entries[j])
                                          ELSE entries[j]]
<1>1. /\ entries' = s \o NewFromItem
      /\ returnCode' = returnCode + m - Cardinality(AwaitingItem)
  BY DEF DirListItem, NewFromItem, AwaitingItem, Filled
<1>2. item \in ItemRecords
  BY AtItem DEF DirListItem
<1>3. n \in Nat /\ DOMAIN entries = 1 .. n /\ \A j \in 1 .. n : entries[j] \in EntryRecords
  BY SeqElements DEF ListParts
<1>4. \A j \in 1 .. n : s[j] \in EntryRecords
  BY <1>2, <1>3, FilledTyped DEF WalkInv
<1>5. s \in Seq(EntryRecords) /\ Len(s) = n
  <2>1. s = [j \in 1 .. n |-> s[j]]
    BY <1>3
  <2> HIDE DEF s, n
  <2> QED
    BY <1>3, <1>4, <2>1
<1>6. /\ NewFromItem \in Seq(EntryRecords) /\ m \in Nat
      /\ NewFromItem # <<>> => m = Len(item.entries)
  <2>1. CASE item.type = "DIR_ITEM" /\ item.objectID = call.objectID
    <3> DEFINE k == Len(item.entries)
    <3>1. NewFromItem = [j \in 1 .. k |-> NewEntry(item.entries[j])]
      BY <1>2, <2>1, EntryFields DEF NewFromItem
    <3>2. k \in Nat /\ \A j \in 1 .. k : NewEntry(item.entries[j]) \in EntryRecords
      BY <1>2, EntryFields, NewEntryTyped DEF WalkInv
    <3> HIDE DEF k
    <3> QED
      BY <3>1, <3>2 DEF k
  <2>2. CASE ~(item.type = "DIR_ITEM" /\ item.objectID = call.objectID)
    <3>1. NewFromItem = <<>>
      BY <2>2 DEF NewFromItem
    <3> QED
      BY <3>1
  <2> QED
    BY <2>1, <2>2
<1> HIDE DEF m, n, s
<1>7. /\ entries' \in Seq(EntryRecords) /\ Len(entries') = n + m
      /\ \A j \in 1 .. n + m : entries'[j] = IF j <= n THEN s[j] ELSE NewFromItem[j - n]
  <2>1. Len(NewFromItem) = m
    BY DEF m
  <2>2. /\ s \o NewFromItem \in Seq(EntryRecords)
        /\ Len(s \o NewFromItem) = Len(s) + Len(NewFromItem)
        /\ \A j \in 1 .. Len(s) + Len(NewFromItem) :
              (s \o NewFromItem)[j] = IF j <= Len(s) THEN s[j]
                                      ELSE NewFromItem[j - Len(s)]
    BY <1>5, <1>6, ConcatProperties
  <2> QED
    BY <1>1, <1>5, <2>1, <2>2
<1>8. DOMAIN entries' = 1 .. n + m
  BY <1>7, SeqElements
<1>9. \A j \in 1 .. n : entries'[j] = s[j]
  BY <1>3, <1>6, <1>7
<1>10. \A j \in 1 .. m : entries'[n + j] = NewFromItem[j]
  BY <1>3, <1>6, <1>7
<1>11. \A j \in 1 .. n : s[j] = IF j \in AwaitingItem THEN Filled(entries[j])
                                ELSE entries[j]
  BY <1>3 DEF s
<1> QED
  BY <1>1, <1>3, <1>6, <1>7, <1>8, <1>9, <1>10, <1>11 DEF m, n

(* An item that fills entries in has not been visited, so they are         *)
(* unfilled, and it is the only inode item of its object.                  *)
LEMMA AwaitingUnfilled ==
    ASSUME WalkInv, AtLeaf, FilledForGood
    PROVE  AwaitingItem \subseteq Unfilled
<1> SUFFICES ASSUME NEW j \in AwaitingItem
             PROVE  j \in Unfilled
  OBVIOUS
<1>1. item.type = "INODE_ITEM" /\ j \in Listing /\ entries[j].objectID = item.objectID
  BY DEF AwaitingItem, Awaiting, Listing
<1>2. item \in Rest
  BY AtItem
<1> QED
  BY <1>1, <1>2 DEF FilledForGood, IsInode

LEMMA InodeItemsUnique ==
    ASSUME WalkInv, AtLeaf, stack' = NextIndex(stack), volume' = volume,
           item.type = "INODE_ITEM"
    PROVE  \A x \in Rest' : ~IsInode(x, item.objectID)
<1> SUFFICES ASSUME NEW x \in Rest', IsInode(x, item.objectID)
             PROVE  FALSE
  OBVIOUS
<1>1. /\ item \in ItemRecords /\ item \in Items
      /\ Rest = {item} \cup Rest' /\ KeyBefore(item, x)
  BY AtItem DEF Rest
<1>2. Rest \subseteq Items
  BY RestInTree DEF WalkInv, Described, Rest, Items
<1>3. x \in Items /\ x \in ItemRecords
  BY <1>1, <1>2, ItemsAreItems DEF WalkInv
<1>4. item.offset = 0 /\ x.offset = 0
  BY <1>1, <1>3 DEF WalkInv, Described, ItemsDescribed, Items, IsInode
<1> QED
  BY <1>1, <1>3, <1>4, KeyFields DEF IsInode

LEMMA ListingGrows ==
    ASSUME WalkInv, ListParts, FilledForGood, DirListItem
    PROVE  LET n == Len(entries)
               m == Len(NewFromItem)
           IN  /\ ListParts' /\ WalkInv' /\ call' = call
               /\ Listing = call.skip + 1 .. n /\ Listing' = call.skip + 1 .. n + m
               /\ AwaitingItem \subseteq Unfilled
               /\ Unfilled' = (Unfilled \ AwaitingItem) \cup (n + 1 .. n + m)
               /\ \A j \in n + 1 .. n + m : NewFromItem # <<>> /\ entries'[j] = NewFromItem[j - n]
<1> DEFINE n == Len(entries)
           m == Len(NewFromItem)
<1>1. /\ AtLeaf /\ ~shortCircuit /\ stack' = NextIndex(stack)
      /\ UNCHANGED <<volume, pc, call, shortCircuit>>
  BY DEF DirListItem, AtLeaf, AtNode
<1>2. WalkInv'
  BY <1>1, StepAtItem DEF WalkInv
<1>3. /\ n \in Nat /\ m \in Nat /\ DOMAIN entries = 1 .. n
      /\ entries' \in Seq(EntryRecords)
      /\ Len(entries') = n + m /\ DOMAIN entries' = 1 .. n + m
      /\ \A j \in 1 .. n :
            entries'[j] = IF j \in AwaitingItem THEN Filled(entries[j]) ELSE entries[j]
      /\ \A j \in 1 .. m : entries'[n + j] = NewFromItem[j]
  BY ListEntries
<1>4. call.skip \in {0, 2} /\ call.skip <= n
  BY DEF ListParts
<1>5. AwaitingItem \subseteq Unfilled
  BY <1>1, AwaitingUnfilled
<1>6. item \in ItemRecords /\ item \in Items
  BY <1>1, AtItem
<1>7. \A j \in 1 .. n : entries[j] \in EntryRecords
  BY SeqElements DEF ListParts
<1>8. \A j \in 1 .. m : NewFromItem[j].inode = NoInode /\ NewFromItem # <<>>
  <2>1. CASE item.type = "DIR_ITEM" /\ item.objectID = call.objectID
    <3>1. NewFromItem = [j \in DOMAIN item.entries |-> NewEntry(item.entries[j])]
      BY <2>1 DEF NewFromItem
    <3>2. m > 0 => NewFromItem # <<>>
      OBVIOUS
    <3>3. m # 0 => m = Len(item.entries)
      BY <1>3, <3>2, ListEntries
    <3>4. \A j \in 1 .. m : j \in DOMAIN item.entries
      BY <1>3, <1>6, <3>3, EntryFields
    <3>5. \A j \in DOMAIN item.entries : NewEntry(item.entries[j]).inode = NoInode
      BY <1>6, NewEntryTyped DEF WalkInv
    <3> HIDE DEF m
    <3> QED
      BY <1>3, <3>1, <3>2, <3>4, <3>5
  <2>2. CASE ~(item.type = "DIR_ITEM" /\ item.objectID = call.objectID)
    <3>1. m = 0
      BY <2>2 DEF NewFromItem
    <3> QED
      BY <3>1
  <2> QED
    BY <2>1, <2>2
<1> HIDE DEF n, m
<1>9. Listing = call.skip + 1 .. n /\ Listing' = call.skip + 1 .. n + m
  BY <1>1, <1>3, <1>4 DEF Listing
<1>10. \A j \in n + 1 .. n + m : NewFromItem # <<>> /\ entries'[j] = NewFromItem[j - n]
  <2> TAKE j \in n + 1 .. n + m
  <2>1. j - n \in 1 .. m /\ n + (j - n) = j
    BY <1>3
  <2> QED
    BY <1>3, <1>8, <2>1
<1>11. Inode(volume.tree, item.objectID) # NoInode \/ AwaitingItem = {}
  <2>1. item.type = "INODE_ITEM" => item.objectID \in volume.ids
    BY <1>6, IdsHaveInodes DEF WalkInv, IsInode
  <2> QED
    BY <2>1 DEF WalkInv, Described, ItemsDescribed, AwaitingItem
<1>12. Unfilled' = (Unfilled \ AwaitingItem) \cup (n + 1 .. n + m)
  <2>1. ASSUME NEW j \in call.skip + 1 .. n
        PROVE  entries'[j].inode = NoInode <=> j \in Unfilled \ AwaitingItem
    <3>1. j \in 1 .. n /\ entries[j] \in EntryRecords /\ j \in Listing
      BY <1>3, <1>4, <1>7, <1>9
    <3>2. CASE j \in AwaitingItem
      <4>1. entries'[j].inode = Inode(volume.tree, item.objectID)
        BY <1>3, <1>6, <3>1, <3>2, FilledTyped DEF WalkInv
      <4> QED
        BY <1>11, <3>2, <4>1
    <3>3. CASE j \notin AwaitingItem
      BY <1>3, <3>1, <3>3 DEF Unfilled
    <3> QED
      BY <3>2, <3>3
  <2>2. \A j \in n + 1 .. n + m : entries'[j].inode = NoInode
    <3> TAKE j \in n + 1 .. n + m
    <3>1. j - n \in 1 .. m
      BY <1>3
    <3> QED
      BY <1>8, <1>10, <3>1
  <2>3. Unfilled' = {j \in call.skip + 1 .. n + m : entries'[j].inode = NoInode}
    BY <1>9 DEF Unfilled
  <2>4. call.skip + 1 .. n + m = (call.skip + 1 .. n) \cup (n + 1 .. n + m)
    BY <1>3, <1>4
  <2>5. Unfilled \subseteq call.skip + 1 .. n
    BY <1>9 DEF Unfilled
  <2> QED
    BY <2>1, <2>2, <2>3, <2>4, <2>5
<1>13. ListParts'
  BY <1>1, <1>3, <1>4 DEF ListParts
<1> QED
  BY <1>1, <1>2, <1>5, <1>9, <1>10, <1>12, <1>13 DEF n, m

LEMMA CountsGrow ==
    ASSUME WalkInv, ListParts, Counted, FilledForGood, DirListItem
    PROVE  Counted'
<1> DEFINE n == Len(entries)
           m == Len(NewFromItem)
           A == AwaitingItem
<1>0. PICK d : d = call.objectID
  OBVIOUS
<1> DEFINE L == LinksIn(item, d)
<1>1. /\ AtLeaf /\ stack' = NextIndex(stack) /\ volume' = volume /\ call' = call
  BY DEF DirListItem
<1>2. /\ n \in Nat /\ m \in Nat /\ Len(entries') = n + m
      /\ NewFromItem # <<>> => m = Len(item.entries)
      /\ returnCode' = returnCode + m - Cardinality(A)
  BY ListEntries
<1>3. /\ Listing = call.skip + 1 .. n
      /\ A \subseteq Unfilled
      /\ Unfilled' = (Unfilled \ A) \cup (n + 1 .. n + m)
  BY ListingGrows
<1>4. Visited(d)' = Visited(d) \cup L /\ Visited(d) \cap L = {}
  BY <1>1, NewLinks
<1>5. item \in Items /\ item \in ItemRecords
  BY <1>1, AtItem
<1>6. IsFiniteSet(L) /\ Cardinality(L) = m
  <2>1. CASE item.type = "DIR_ITEM" /\ item.objectID = d
    <3>1. IsFiniteSet(L) /\ Cardinality(L) = Len(item.entries)
      BY <1>5, <2>1, LinksCounted DEF WalkInv
    <3>2. CASE NewFromItem # <<>>
      BY <1>2, <3>1, <3>2
    <3>3. CASE NewFromItem = <<>>
      <4>1. NewFromItem = [j \in 1 .. Len(item.entries) |-> NewEntry(item.entries[j])]
            /\ Len(item.entries) \in Nat
        BY <1>0, <1>5, <2>1, EntryFields DEF NewFromItem
      <4>2. m = Len(item.entries)
        BY <4>1
      <4> QED
        BY <3>1, <4>2
    <3> QED
      BY <3>2, <3>3
  <2>2. CASE ~(item.type = "DIR_ITEM" /\ item.objectID = d)
    <3>1. L = {} /\ NewFromItem = <<>>
      BY <1>0, <2>2 DEF LinksIn, NewFromItem
    <3> QED
      BY <3>1, FS_EmptySet
  <2> QED
    BY <2>1, <2>2
<1>7. /\ call.skip \in {0, 2} /\ call.skip <= n
      /\ IsFiniteSet(Visited(d)) /\ n - call.skip = Cardinality(Visited(d))
      /\ returnCode = Cardinality(Unfilled)
  BY <1>0 DEF ListParts, Counted
<1> HIDE DEF n, m, L, A
<1>8. IsFiniteSet(Visited(d)') /\ Cardinality(Visited(d)') = Cardinality(Visited(d)) + m
  <2>1. /\ IsFiniteSet(Visited(d) \cup L)
        /\ Cardinality(Visited(d) \cup L) =
              Cardinality(Visited(d)) + Cardinality(L) - Cardinality(Visited(d) \cap L)
    BY <1>6, <1>7, FS_Union
  <2>2. Cardinality(Visited(d) \cap L) = 0 /\ Cardinality(Visited(d)) \in Nat
    BY <1>4, <1>7, FS_EmptySet, FS_CardinalityType
  <2> QED
    BY <1>2, <1>4, <1>6, <2>1, <2>2
<1>9. IsFiniteSet(Unfilled)
  <2>1. IsFiniteSet(call.skip + 1 .. n)
    <3>1. call.skip + 1 \in Int /\ n \in Int
      BY <1>2, <1>7
    <3> QED
      BY <3>1, FS_Interval
  <2> QED
    BY <1>3, <2>1, FS_Subset DEF Unfilled
<1>10. /\ IsFiniteSet(A) /\ Cardinality(A) \in Nat /\ Cardinality(Unfilled) \in Nat
  BY <1>3, <1>9, FS_Subset, FS_CardinalityType
<1>11. /\ IsFiniteSet(Unfilled \ A)
       /\ Cardinality(Unfilled \ A) = Cardinality(Unfilled) - Cardinality(A)
  <2>1. Unfilled \cap A = A
    BY <1>3
  <2> QED
    BY <1>9, <2>1, FS_Difference
<1>12. IsFiniteSet(n + 1 .. n + m) /\ Cardinality(n + 1 .. n + m) = m
  BY <1>2, FS_Interval
<1>13. Cardinality(Unfilled') = Cardinality(Unfilled) - Cardinality(A) + m
  <2>1. (Unfilled \ A) \cap (n + 1 .. n + m) = {}
    BY <1>2, <1>3, <1>7 DEF Unfilled
  <2>2. Cardinality((Unfilled \ A) \cup (n + 1 .. n + m)) =
            Cardinality(Unfilled \ A) + m - 0
    <3>1. Cardinality((Unfilled \ A) \cap (n + 1 .. n + m)) = 0
      BY <2>1, FS_EmptySet
    <3>2. Cardinality((Unfilled \ A) \cup (n + 1 .. n + m)) =
              Cardinality(Unfilled \ A) + Cardinality(n + 1 .. n + m)
                  - Cardinality((Unfilled \ A) \cap (n + 1 .. n + m))
      BY <1>11, <1>12, FS_Union
    <3> QED
      BY <1>12, <3>1, <3>2
  <2> QED
    BY <1>2, <1>3, <1>10, <1>11, <2>2
<1>14. /\ Len(entries') - call'.skip = Cardinality(Visited(d)')
       /\ returnCode' = Cardinality(Unfilled')
  BY <1>1, <1>2, <1>7, <1>8, <1>10, <1>13, FS_CardinalityType, SMTT(30) DEF A
<1>15. Visited(d)' = Visited(call.objectID)'
  BY <1>0, <1>1 DEF Visited
<1> QED
  BY <1>8, <1>14, <1>15 DEF Counted

(* Filling an entry in makes it what its link should look like.            *)
LEMMA StandsFilled ==
    ASSUME Described(volume), NEW l \in Links, NEW e \in EntryRecords, Stands(e, l),
           item \in ItemRecords, e.treeID = volume.tree, e.objectID = item.objectID
    PROVE  Stands(Filled(e), l)
<1>1. ~l[2].isSubvolume /\ l[2].child = item.objectID
  BY StandsFields
<1>2. Filled(e) = Entry(volume.tree, l[2].child, l[2].name, Inode(volume.tree, l[2].child))
  BY <1>1, StandsFields DEF Filled
<1> QED
  BY <1>1, <1>2 DEF Stands, Listed

LEMMA CorrespondenceGrows ==
    ASSUME WalkInv, ListParts, FilledForGood, Corresponds, DirListItem
    PROVE  Corresponds' /\ FilledForGood'
<1> DEFINE n == Len(entries)
           m == Len(NewFromItem)
           A == AwaitingItem
<1>0. PICK d : d = call.objectID
  OBVIOUS
<1> DEFINE L == LinksIn(item, d)
<1>1. /\ AtLeaf /\ stack' = NextIndex(stack) /\ volume' = volume /\ call' = call
  BY DEF DirListItem
<1>2. /\ n \in Nat /\ m \in Nat
      /\ NewFromItem # <<>> => m = Len(item.entries)
      /\ \A j \in 1 .. n : entries'[j] = IF j \in A THEN Filled(entries[j]) ELSE entries[j]
      /\ \A j \in 1 .. m : entries'[n + j] = NewFromItem[j]
      /\ \A j \in 1 .. n : entries[j] \in EntryRecords
  BY ListEntries, SeqElements DEF ListParts
<1>3. /\ Listing = call.skip + 1 .. n /\ Listing' = call.skip + 1 .. n + m
      /\ A \subseteq Unfilled /\ Unfilled \subseteq Listing
      /\ Unfilled' = (Unfilled \ A) \cup (n + 1 .. n + m)
      /\ \A j \in n + 1 .. n + m : NewFromItem # <<>> /\ entries'[j] = NewFromItem[j - n]
  BY ListingGrows DEF Unfilled
<1>4. /\ Visited(d)' = Visited(d) \cup L /\ L \subseteq Links
      /\ Visited(d) \subseteq Links
  BY <1>1, NewLinks DEF Visited
<1>5. item \in Items /\ item \in ItemRecords
  BY <1>1, AtItem
<1>6. call.skip \in {0, 2} /\ call.skip <= n
  BY DEF ListParts
<1>7. \A e, l : Stands(e, l)' = Stands(e, l)
  BY <1>1 DEF Stands, NewEntry, Listed
<1>8. /\ \A j \in Listing : \E l \in Visited(d) : Stands(entries[j], l)
      /\ \A l \in Visited(d) : \E j \in Listing : Stands(entries[j], l)
  BY <1>0 DEF Corresponds
<1>9. \A j \in A : /\ entries[j].treeID = volume.tree
                   /\ entries[j].objectID = item.objectID /\ item.type = "INODE_ITEM"
  BY DEF AwaitingItem, Awaiting
<1> HIDE DEF n, m, A, L
<1>10. \A j \in Listing : j \in 1 .. n /\ j \in Listing'
  BY <1>2, <1>3, <1>6
<1>11. ASSUME NEW j \in Listing, NEW l \in Visited(d), Stands(entries[j], l)
       PROVE  Stands(entries'[j], l)
  <2>1. j \in 1 .. n /\ entries[j] \in EntryRecords
    BY <1>2, <1>10
  <2>2. CASE j \in A
    <3>1. Stands(Filled(entries[j]), l)
      BY <1>4, <1>5, <1>9, <1>11, <2>1, <2>2, StandsFilled DEF WalkInv
    <3> QED
      BY <1>2, <2>1, <2>2, <3>1
  <2>3. CASE j \notin A
    BY <1>2, <1>11, <2>1, <2>3
  <2> QED
    BY <2>2, <2>3
<1>12. ASSUME NEW j \in n + 1 .. n + m
       PROVE  \E l \in L : Stands(entries'[j], l)
  <2>1. NewFromItem # <<>> /\ entries'[j] = NewFromItem[j - n]
    BY <1>3
  <2>2. /\ item.type = "DIR_ITEM" /\ item.objectID = d
        /\ NewFromItem = [k \in DOMAIN item.entries |-> NewEntry(item.entries[k])]
    BY <1>0, <2>1 DEF NewFromItem
  <2>3. j - n \in DOMAIN item.entries
    BY <1>2, <1>5, <2>1, EntryFields
  <2>4. item.entries[j - n] \in ToSet(item.entries)
    BY <1>5, <2>3, EntryFields
  <2>5. <<d, item.entries[j - n]>> \in L
    BY <2>2, <2>4 DEF L, LinksIn
  <2>6. entries'[j] = NewEntry(item.entries[j - n])
    BY <2>1, <2>2, <2>3
  <2> QED
    BY <2>5, <2>6 DEF Stands
<1>13. ASSUME NEW l \in L
       PROVE  \E j \in Listing' : Stands(entries'[j], l)
  <2>1. /\ item.type = "DIR_ITEM" /\ item.objectID = d
        /\ \E e \in ToSet(item.entries) : l = <<d, e>>
    BY DEF L, LinksIn
  <2>2. PICK k \in DOMAIN item.entries : l = <<d, item.entries[k]>>
    BY <1>5, <2>1, EntryFields
  <2>3. /\ NewFromItem = [j \in DOMAIN item.entries |-> NewEntry(item.entries[j])]
    BY <1>0, <2>1 DEF NewFromItem
  <2>4. /\ k \in 1 .. Len(item.entries) /\ Len(item.entries) \in Nat
        /\ DOMAIN item.entries = 1 .. Len(item.entries)
    BY <1>5, EntryFields
  <2>5. m = Len(item.entries)
    BY <2>3, <2>4 DEF m
  <2>6. n + k \in Listing' /\ k \in 1 .. m
    BY <1>2, <1>3, <1>6, <2>4, <2>5
  <2>7. entries'[n + k] = NewEntry(item.entries[k])
    BY <1>2, <2>2, <2>3, <2>6
  <2> QED
    BY <2>2, <2>6, <2>7 DEF Stands
<1>14. \A j \in Listing' : \E l \in Visited(d)' : Stands(entries'[j], l)
  <2> TAKE j \in Listing'
  <2>1. CASE j \in Listing
    BY <1>4, <1>8, <1>11, <2>1
  <2>2. CASE j \in n + 1 .. n + m
    BY <1>4, <1>12, <2>2
  <2>3. j \in Listing \/ j \in n + 1 .. n + m
    BY <1>2, <1>3, <1>6
  <2> QED
    BY <2>1, <2>2, <2>3
<1>15. \A l \in Visited(d)' : \E j \in Listing' : Stands(entries'[j], l)
  BY <1>4, <1>8, <1>10, <1>11, <1>13
<1>16. Corresponds'
  BY <1>0, <1>1, <1>7, <1>14, <1>15 DEF Corresponds, Visited
<1>17. FilledForGood'
  <2> SUFFICES ASSUME NEW j \in Listing' \ Unfilled', NEW x \in Rest'
               PROVE  ~IsInode(x, entries'[j].objectID)
    BY DEF FilledForGood, IsInode
  <2>1. j \in Listing /\ (j \in A \/ j \notin Unfilled)
    BY <1>2, <1>3, <1>6
  <2>2. j \in 1 .. n /\ entries[j] \in EntryRecords
    BY <1>2, <1>10, <2>1
  <2>3. x \in Rest
    BY <1>1, AtItem DEF Rest
  <2>4. CASE j \in A
    <3>1. entries'[j].objectID = item.objectID
      BY <1>2, <1>5, <1>9, <2>2, <2>4, FilledTyped DEF WalkInv
    <3> QED
      BY <1>1, <1>9, <2>4, <3>1, InodeItemsUnique
  <2>5. CASE j \notin A
    BY <1>2, <2>1, <2>2, <2>3, <2>5 DEF FilledForGood
  <2> QED
    BY <2>4, <2>5
<1> QED
  BY <1>16, <1>17

LEMMA ListCall ==
    ASSUME WalkInv, NEW id \in volume.dirs, NEW root \in BOOLEAN,
           NEW parent \in Parents(id), DirListOf(id, parent, root)
    PROVE  AllInv'
<1> DEFINE skip == IF root THEN 0 ELSE 2
           c == [op |-> "DIR_LIST", objectID |-> id, skip |-> skip]
<1>1. Enter(volume, c, 0) /\ entries' = IF root THEN <<>> ELSE Dots(id, parent)
  BY Zenon DEF DirListOf
<1>2. WalkInv' /\ Rest' = Items'
  BY <1>1, EnterWalk DEF WalkInv
<1>3. /\ call' = c /\ returnCode' = 0 /\ shortCircuit' = FALSE /\ volume' = volume
  BY <1>1 DEF Enter
<1>4. call'.op = "DIR_LIST" /\ call'.objectID = id /\ call'.skip = skip
  BY <1>3
<1>5. id \in Nat /\ volume.tree \in Nat
  BY IdsNatural DEF WalkInv, Described, ItemsDescribed
<1>6. parent \in Nat
  <2>1. CASE parent = id
    BY <1>5, <2>1
  <2>2. CASE parent # id
    <3>1. PICK l \in Links : parent = l[1]
      BY <2>2 DEF Parents, LinksTo
    <3>2. PICK x \in Items : l[1] = x.objectID
      BY ItemOfLink
    <3> QED
      BY <3>1, <3>2, ItemsAreItems, ItemFields DEF WalkInv
  <2> QED
    BY <2>1, <2>2
<1>7. /\ entries' \in Seq(EntryRecords) /\ Len(entries') = skip
      /\ DOMAIN entries' = 1 .. skip
  <2>1. CASE root
    BY <1>1, <2>1
  <2>2. CASE ~root
    <3> DEFINE one == Entry(volume.tree, id, ".", Inode(volume.tree, id))
               two == Entry(volume.tree, parent, "..", Inode(volume.tree, parent))
    <3>1. one \in EntryRecords /\ two \in EntryRecords
      BY <1>5, <1>6, EntryRecord DEF Inode
    <3>2. entries' = <<one, two>>
      BY <1>1, <2>2 DEF Dots
    <3> HIDE DEF one, two
    <3> QED
      BY <2>2, <3>1, <3>2
  <2> QED
    BY <2>1, <2>2
<1>8. skip \in {0, 2}
  OBVIOUS
<1> HIDE DEF skip, c
<1>9. ListParts'
  BY <1>3, <1>4, <1>7, <1>8 DEF ListParts
<1>10. Listing' = {} /\ Unfilled' = {}
  BY <1>4, <1>7, <1>8 DEF Listing, Unfilled
<1>11. Visited(call.objectID)' = {}
  BY <1>2 DEF Visited
<1>12. Counted'
  BY <1>3, <1>4, <1>7, <1>8, <1>10, <1>11, FS_EmptySet DEF Counted
<1>13. Corresponds' /\ FilledForGood'
  BY <1>10, <1>11 DEF Corresponds, FilledForGood
<1>14. ListInv'
  BY <1>9, <1>12, <1>13
     DEF ListInv, ListParts, Counted, Corresponds, FilledForGood, Stands
<1> QED
  BY <1>2, <1>4, <1>14 DEF AllInv, NameInv, InodeInv, PkgInv

(* When nothing is left, the links visited are those of the directory.     *)
LEMMA AllVisited ==
    ASSUME Rest = {}, NEW dir
    PROVE  Visited(dir) = {l \in Links : l[1] = dir}
  BY ItemOfLink DEF Visited

(* At the end the entries are all filled in, or the listing has failed.    *)
LEMMA ListFinish ==
    ASSUME WalkInv, ListParts, Counted, Corresponds, call.op = "DIR_LIST", Finish
    PROVE  ListingComplete' /\ returnCode' \in Nat
<1> DEFINE n == Len(entries)
           code == returnCode - Cardinality(Elsewhere)
<1>0. PICK d : d = call.objectID
  OBVIOUS
<1>1. /\ pc' = "done" /\ UNCHANGED <<volume, call>>
      /\ returnCode' = code
      /\ code = 0 => entries' = [j \in DOMAIN entries |->
                        IF j \in Elsewhere
                        THEN [entries[j] EXCEPT !.inode =
                                Inode(entries[j].treeID, OBJID_ROOT_DIR)]
                        ELSE entries[j]]
  BY DEF Finish
<1>2. Rest = {}
  BY FinishWalk
<1>3. Visited(d) = {l \in Links : l[1] = d}
  BY <1>2, AllVisited
<1>4. /\ n \in Nat /\ DOMAIN entries = 1 .. n
      /\ \A j \in 1 .. n : entries[j] \in EntryRecords
      /\ call.skip \in {0, 2} /\ call.skip <= n
  BY SeqElements DEF ListParts
<1>5. Listing = call.skip + 1 .. n
  BY <1>4 DEF Listing
<1>6. Elsewhere \subseteq Unfilled
  <2> SUFFICES ASSUME NEW j \in Elsewhere
               PROVE  j \in Unfilled
    OBVIOUS
  <2>1. j \in Listing /\ entries[j].treeID # volume.tree
    BY DEF Elsewhere, Listing
  <2>2. PICK l \in Visited(d) : Stands(entries[j], l)
    BY <1>0, <2>1 DEF Corresponds
  <2>3. l[2].isSubvolume /\ entries[j].inode = NoInode
    BY <1>3, <2>1, <2>2, StandsFields DEF WalkInv
  <2> QED
    BY <2>1, <2>3 DEF Unfilled
<1>7. IsFiniteSet(Unfilled)
  <2>1. call.skip + 1 \in Int /\ n \in Int
    BY <1>4
  <2>2. IsFiniteSet(call.skip + 1 .. n)
    BY <2>1, FS_Interval
  <2> QED
    BY <1>5, <2>2, FS_Subset DEF Unfilled
<1>8. /\ Cardinality(Elsewhere) \in Nat /\ Cardinality(Unfilled) \in Nat
      /\ Cardinality(Elsewhere) <= Cardinality(Unfilled)
      /\ Cardinality(Unfilled) = Cardinality(Elsewhere) => Unfilled = Elsewhere
  BY <1>6, <1>7, FS_Subset, FS_CardinalityType
<1>9. code \in Nat /\ (code = 0 => Unfilled = Elsewhere)
  BY <1>8 DEF Counted
<1> HIDE DEF n, code
<1>10. SUFFICES ASSUME code = 0
                PROVE  ListingComplete'
  BY <1>1, <1>9 DEF ListingComplete, Found
<1>11. /\ Len(entries') = n /\ n = Len(entries)
       /\ \A j \in 1 .. n : entries'[j] =
             IF j \in Elsewhere
             THEN [entries[j] EXCEPT !.inode = Inode(entries[j].treeID, OBJID_ROOT_DIR)]
             ELSE entries[j]
  BY <1>1, <1>4, <1>10 DEF n
<1>12. ASSUME NEW j \in Listing, NEW l \in Visited(d), Stands(entries[j], l)
       PROVE  entries'[j] = Listed(l[2])
  <2>1. j \in 1 .. n /\ l \in Links
    BY <1>3, <1>4, <1>5
  <2>2. CASE j \in Elsewhere
    <3>1. entries[j].treeID # volume.tree
      BY <2>2 DEF Elsewhere
    <3>2. l[2].isSubvolume /\ entries[j].treeID = l[2].child
      BY <1>12, <2>1, <3>1, StandsFields DEF WalkInv
    <3>3. entries'[j] = Entry(l[2].child, OBJID_ROOT_DIR, l[2].name,
                              Inode(l[2].child, OBJID_ROOT_DIR))
      <4>1. entries'[j] = [entries[j] EXCEPT !.inode =
                              Inode(l[2].child, OBJID_ROOT_DIR)]
        BY <1>11, <2>1, <2>2, <3>2
      <4>2. \A o : [entries[j] EXCEPT !.inode = o] =
                      Entry(l[2].child, OBJID_ROOT_DIR, l[2].name, o)
        BY <1>12, <2>1, <3>2, StandsFields DEF WalkInv
      <4> QED
        BY <4>1, <4>2
    <3> QED
      BY <3>2, <3>3 DEF Listed
  <2>3. CASE j \notin Elsewhere
    <3>1. entries[j].inode # NoInode /\ entries'[j] = entries[j]
      BY <1>9, <1>10, <1>11, <2>1, <2>3 DEF Unfilled
    <3>2. NewEntry(l[2]).inode = NoInode
      BY EntryRecord DEF NewEntry
    <3> QED
      BY <1>12, <3>1, <3>2 DEF Stands
  <2> QED
    BY <2>2, <2>3
<1> DEFINE listed == SubSeq(entries', call.skip + 1, Len(entries'))
           k == n - call.skip
<1>13. /\ Len(listed) = k /\ DOMAIN listed = 1 .. k
       /\ \A j \in 1 .. k : listed[j] = entries'[call.skip + j]
  <2> DEFINE m == call.skip + 1
             E == {entries'[j] : j \in 1 .. n}
  <2>1. m \in Int /\ n \in Int /\ \A j \in m .. n : entries'[j] \in E
    BY <1>4
  <2> HIDE DEF m, E
  <2>2. /\ SubSeq(entries', m, n) \in Seq(E)
        /\ Len(SubSeq(entries', m, n)) = IF m <= n THEN n - m + 1 ELSE 0
        /\ \A j \in 1 .. n - m + 1 : SubSeq(entries', m, n)[j] = entries'[m + j - 1]
    BY <2>1, SubSeqProperties
  <2>3. n - m + 1 = k /\ (IF m <= n THEN n - m + 1 ELSE 0) = k
        /\ \A j \in 1 .. k : m + j - 1 = call.skip + j
    BY <1>4 DEF m
  <2>4. listed = SubSeq(entries', m, n)
    BY <1>11 DEF m
  <2>5. DOMAIN listed = 1 .. Len(listed)
    BY <2>2, <2>4, SeqElements
  <2> HIDE DEF k, listed
  <2> QED
    BY <2>2, <2>3, <2>4, <2>5
<1> HIDE DEF listed
<1>14. k = Cardinality(Visited(d))
  BY <1>0, <1>11 DEF Counted
<1>15. ToSet(listed) = {entries'[j] : j \in Listing}
  <2>1. \A j \in 1 .. k : call.skip + j \in Listing
    BY <1>4, <1>5
  <2>2. \A j \in Listing : j - call.skip \in 1 .. k /\ call.skip + (j - call.skip) = j
    BY <1>4, <1>5
  <2> HIDE DEF k
  <2>3. ToSet(listed) = {listed[j] : j \in 1 .. k}
    BY <1>13 DEF ToSet
  <2>4. \A j \in Listing : listed[j - call.skip] = entries'[j]
    BY <1>13, <2>2
  <2> QED
    BY <1>13, <2>1, <2>2, <2>3, <2>4
<1>16. {entries'[j] : j \in Listing} = {Listed(l[2]) : l \in Visited(d)}
  <2>1. /\ \A j \in Listing : \E l \in Visited(d) : Stands(entries[j], l)
        /\ \A l \in Visited(d) : \E j \in Listing : Stands(entries[j], l)
    BY <1>0 DEF Corresponds
  <2> QED
    BY <1>12, <2>1
<1>17. /\ Len(listed) = Cardinality(Visited(d))
       /\ ToSet(listed) = {Listed(l[2]) : l \in Visited(d)}
  BY <1>13, <1>14, <1>15, <1>16
<1>18. Links' = Links /\ \A e : Listed(e)' = Listed(e)
  BY <1>1 DEF Links, Listed
<1> QED
  BY <1>0, <1>1, <1>3, <1>17, <1>18 DEF ListingComplete, listed

LEMMA ListStep ==
    ASSUME WalkInv, ListInv, call.op = "DIR_LIST", Walk
    PROVE  /\ WalkInv' /\ ListInv' /\ ListingComplete' /\ call' = call
           /\ pc' = "done" => returnCode' \in Nat
<1>1. pc = "walk" /\ ListParts /\ Counted /\ Corresponds /\ FilledForGood
  <2>1. pc = "walk"
    BY Zenon DEF Walk, NameToIDItem, JumpOut, GetFilePkgItem, DirListItem,
                 GetInodeItem, Recurse, ReturnFromNode, Finish, AtLeaf, AtKeyPtr, AtNode
  <2> QED
    BY <2>1, ListInvParts
<1>2. CASE DirListItem
  <2>1. WalkInv' /\ ListParts' /\ call' = call
    BY <1>1, <1>2, ListingGrows
  <2>2. Counted' /\ Corresponds' /\ FilledForGood'
    BY <1>1, <1>2, CountsGrow, CorrespondenceGrows
  <2>3. pc' = "walk"
    BY <1>1, <1>2 DEF DirListItem
  <2>4. ListInv'
    BY <2>1, <2>2 DEF ListInv, ListParts, Counted, Corresponds, FilledForGood, Stands
  <2> QED
    BY <2>1, <2>3, <2>4 DEF ListingComplete, Found, Done
<1>3. CASE Recurse \/ ReturnFromNode
  <2>1. /\ WalkInv' /\ Rest' = Rest
        /\ UNCHANGED <<volume, pc, call, returnCode, shortCircuit, entries>>
    BY <1>1, <1>3, MoveBetweenNodes DEF output, ListParts
  <2>2. \A e, l : Stands(e, l)' = Stands(e, l)
    BY <2>1 DEF Stands, NewEntry, Listed
  <2>3. Visited(call.objectID)' = Visited(call.objectID)
    BY <2>1 DEF Visited, Links, Items
  <2>4. Listing' = Listing /\ Unfilled' = Unfilled
    BY <2>1 DEF Listing, Unfilled
  <2>5. ListParts' /\ Counted'
    BY <1>1, <2>1, <2>3, <2>4 DEF ListParts, Counted
  <2>6. Corresponds' /\ FilledForGood'
    BY <1>1, <2>1, <2>2, <2>3, <2>4 DEF Corresponds, FilledForGood, IsInode
  <2>7. ListInv'
    BY <2>5, <2>6 DEF ListInv, ListParts, Counted, Corresponds, FilledForGood, Stands
  <2> QED
    BY <1>1, <2>1, <2>7 DEF ListingComplete, Found, Done
<1>4. CASE Finish
  <2>1. ListingComplete' /\ returnCode' \in Nat
    BY <1>1, <1>4, ListFinish
  <2>2. WalkInv' /\ call' = call
    BY <1>4, FinishWalk
  <2>3. pc' = "done"
    BY <1>4 DEF Finish
  <2> QED
    BY <2>1, <2>2, <2>3 DEF ListInv
<1> QED
  BY <1>2, <1>3, <1>4 DEF Walk, NameToIDItem, JumpOut, GetFilePkgItem, GetInodeItem

----------------------------------------------------------------------------
(***************************************************************************)
(* All operations                                                          *)
(***************************************************************************)

(* What the outputs are, whatever operation has left them.                 *)
Outputs ==
    /\ pc = "walk" => call.op \in {"NAME_TO_ID", "GET_INODE", "GET_FILE_PKG", "DIR_LIST"}
    /\ returnCode \in Nat
    /\ inode \in {Inode(volume.tree, id) : id \in volume.ids} \cup {NoInode}
    /\ name \in Names \cup {NoName, "ROOT_DIR"}

WalkIInv == AllInv /\ ListingComplete /\ Outputs

LEMMA InitWalk ==
    ASSUME Init
    PROVE  WalkIInv
<1>1. /\ volume \in Volumes /\ pc = "idle" /\ call = NoCall /\ stack = <<>>
      /\ returnCode = 0 /\ shortCircuit = FALSE /\ inode = NoInode /\ name = NoName
  BY Zenon DEF Init
<1>2. StackOK(volume, <<>>)
  BY EmptySeq DEF StackOK
<1>3. call.op = "none"
  BY <1>1 DEF NoCall
<1>4. WalkInv
  BY <1>1, <1>2, VolumesDescribed DEF WalkInv
<1> QED
  BY <1>1, <1>3, <1>4 DEF WalkIInv, AllInv, NameInv, InodeInv, PkgInv, ListInv,
                          ListingComplete, Found, Done, Outputs

(* A call starts its own operation with nothing put out.                   *)
LEMMA CallOutputs ==
    ASSUME NEW v, NEW c, NEW code \in Nat, Enter(v, c, code),
           c.op \in {"NAME_TO_ID", "GET_INODE", "GET_FILE_PKG", "DIR_LIST"},
           name' \in Names \cup {NoName, "ROOT_DIR"}
    PROVE  ListingComplete' /\ Outputs'
<1>1. pc' = "walk" /\ call' = c /\ returnCode' = code /\ inode' = NoInode
  BY Zenon DEF Enter
<1> QED
  BY <1>1 DEF ListingComplete, Found, Done, Outputs

LEMMA NameCallWalk ==
    ASSUME NEW v, Described(v), NEW parent, NEW n, NameToID(v, parent, n)
    PROVE  WalkIInv'
<1> DEFINE c == [op |-> "NAME_TO_ID", parentID |-> parent, name |-> n]
<1>1. Enter(v, c, 1) /\ name' = NoName
  BY Zenon DEF NameToID
<1>2. c.op = "NAME_TO_ID" /\ 1 \in Nat
  OBVIOUS
<1> HIDE DEF c
<1>3. ListingComplete' /\ Outputs'
  BY <1>1, <1>2, CallOutputs
<1> QED
  BY <1>3, NameCall DEF WalkIInv

LEMMA CallWalk ==
    ASSUME WalkIInv, Call
    PROVE  WalkIInv'
<1>0. WalkInv
  BY DEF WalkIInv, AllInv
<1>1. ASSUME NEW id \in volume.ids, NEW n \in Names, NameToID(volume, id, n)
      PROVE  WalkIInv'
  BY <1>0, <1>1, NameCallWalk DEF WalkInv
<1>2. ASSUME NEW id \in volume.ids, GetInode(id)
      PROVE  WalkIInv'
  <2> DEFINE c == [op |-> "GET_INODE", objectID |-> id]
  <2>1. Enter(volume, c, 1) /\ name' = NoName
    BY <1>2, Zenon DEF GetInode
  <2>2. c.op = "GET_INODE" /\ 1 \in Nat
    OBVIOUS
  <2> HIDE DEF c
  <2>3. ListingComplete' /\ Outputs'
    BY <2>1, <2>2, CallOutputs
  <2> QED
    BY <1>0, <1>2, <2>3, InodeCall DEF WalkIInv
<1>3. ASSUME NEW id \in volume.ids, GetFilePkg(id)
      PROVE  WalkIInv'
  <2> DEFINE c == [op |-> "GET_FILE_PKG", objectID |-> id]
             code == IF id = OBJID_ROOT_DIR THEN 1 ELSE 3
  <2>1. Enter(volume, c, code) /\ name' \in {NoName, "ROOT_DIR"}
    BY <1>3, Zenon DEF GetFilePkg
  <2>2. c.op = "GET_FILE_PKG" /\ code \in Nat
    OBVIOUS
  <2> HIDE DEF c, code
  <2>3. ListingComplete' /\ Outputs'
    BY <2>1, <2>2, CallOutputs
  <2> QED
    BY <1>0, <1>3, <2>3, PkgCall DEF WalkIInv
<1>4. ASSUME NEW id \in volume.dirs, NEW root \in BOOLEAN, NEW parent \in Parents(id),
             DirListOf(id, parent, root)
      PROVE  WalkIInv'
  <2> DEFINE c == [op |-> "DIR_LIST", objectID |-> id, skip |-> IF root THEN 0 ELSE 2]
  <2>1. Enter(volume, c, 0) /\ name' = NoName
    BY <1>4, Zenon DEF DirListOf
  <2>2. c.op = "DIR_LIST" /\ 0 \in Nat
    OBVIOUS
  <2> HIDE DEF c
  <2>3. ListingComplete' /\ Outputs'
    BY <2>1, <2>2, CallOutputs
  <2> QED
    BY <1>0, <1>4, <2>3, ListCall DEF WalkIInv
<1> QED
  BY <1>1, <1>2, <1>3, <1>4 DEF Call

LEMMA StepWalk ==
    ASSUME WalkIInv, Walk
    PROVE  WalkIInv'
<1>0. AllInv /\ WalkInv /\ Outputs
  BY DEF WalkIInv, AllInv
<1>1. pc = "walk" /\ volume' = volume
  BY Zenon DEF Walk, NameToIDItem, JumpOut, GetFilePkgItem, DirListItem,
               GetInodeItem, Recurse, ReturnFromNode, Finish, AtLeaf, AtKeyPtr, AtNode
<1>2. \/ inode' = inode
      \/ /\ AtLeaf /\ item.type = "INODE_ITEM"
         /\ inode' = Inode(volume.tree, item.objectID)
  <2>1. CASE GetFilePkgItem
    BY <2>1 DEF GetFilePkgItem
  <2>2. CASE GetInodeItem
    BY <2>2 DEF GetInodeItem
  <2>3. GetFilePkgItem \/ GetInodeItem \/ inode' = inode
    BY Zenon DEF Walk, NameToIDItem, JumpOut, DirListItem,
                 Recurse, ReturnFromNode, Finish, output
  <2> QED
    BY <2>1, <2>2, <2>3
<1>3. inode' \in {Inode(volume.tree, id) : id \in volume.ids} \cup {NoInode}
  <2>1. AtLeaf /\ item.type = "INODE_ITEM" => item.objectID \in volume.ids
    BY <1>0, AtItem, IdsHaveInodes DEF WalkInv, IsInode
  <2> QED
    BY <1>0, <1>2, <2>1 DEF Outputs
<1>4. name' = name \/ GetFilePkgItem
  BY Zenon DEF Walk, NameToIDItem, JumpOut, DirListItem,
               GetInodeItem, Recurse, ReturnFromNode, Finish, output
<1>5. name' \in Names \cup {NoName, "ROOT_DIR"}
  <2>1. CASE GetFilePkgItem
    <3> DEFINE named == IF item.type = "DIR_ITEM" THEN NamesOf(call.objectID) ELSE {}
    <3>1. AtLeaf /\ name' = IF named # {} THEN item.entries[Max(named)].name ELSE name
      BY <2>1 DEF GetFilePkgItem
    <3>2. item \in ItemRecords
      BY <1>0, <3>1, AtItem
    <3>3. named # {} => Max(named) \in named
      <4>1. Len(item.entries) \in Nat /\ named \subseteq 0 .. Len(item.entries)
        BY <3>2, EntryFields DEF NamesOf
      <4> QED
        BY <4>1, MaxIsGreatest
    <3>4. named \subseteq DOMAIN item.entries
      BY DEF NamesOf
    <3> HIDE DEF named
    <3> QED
      BY <1>0, <3>1, <3>2, <3>3, <3>4, EntryFields DEF Outputs
  <2> QED
    BY <1>0, <1>4, <2>1 DEF Outputs
<1>6. CASE call.op = "NAME_TO_ID"
  <2>1. WalkInv' /\ NameInv' /\ call'.op = "NAME_TO_ID"
    BY <1>0, <1>1, <1>6, NameStep DEF AllInv
  <2>2. returnCode' \in Nat
    BY <2>1 DEF NameInv
  <2>3. AllInv' /\ ListingComplete'
    BY <2>1 DEF AllInv, InodeInv, PkgInv, ListInv, ListingComplete, Found, Done
  <2> QED
    BY <1>1, <1>3, <1>5, <2>1, <2>2, <2>3 DEF WalkIInv, Outputs
<1>7. CASE call.op = "GET_INODE"
  <2>1. WalkInv' /\ InodeInv' /\ call'.op = "GET_INODE"
    BY <1>0, <1>1, <1>7, InodeStep DEF AllInv
  <2>2. returnCode' \in Nat
    BY <2>1 DEF InodeInv
  <2>3. AllInv' /\ ListingComplete'
    BY <2>1 DEF AllInv, NameInv, PkgInv, ListInv, ListingComplete, Found, Done
  <2> QED
    BY <1>1, <1>3, <1>5, <2>1, <2>2, <2>3 DEF WalkIInv, Outputs
<1>8. CASE call.op = "GET_FILE_PKG"
  <2>1. WalkInv' /\ PkgInv' /\ call'.op = "GET_FILE_PKG"
    BY <1>0, <1>1, <1>8, PkgStep DEF AllInv
  <2>2. returnCode' \in Nat
    BY <2>1 DEF PkgInv
  <2>3. AllInv' /\ ListingComplete'
    BY <2>1 DEF AllInv, NameInv, InodeInv, ListInv, ListingComplete, Found, Done
  <2> QED
    BY <1>1, <1>3, <1>5, <2>1, <2>2, <2>3 DEF WalkIInv, Outputs
<1>9. CASE call.op = "DIR_LIST"
  <2>1. /\ WalkInv' /\ ListInv' /\ ListingComplete' /\ call'.op = "DIR_LIST"
        /\ pc' = "done" => returnCode' \in Nat
    BY <1>0, <1>1, <1>9, ListStep DEF AllInv
  <2>2. returnCode' \in Nat
    <3>1. CASE pc' = "walk"
      <4>1. ListParts' /\ Counted'
        BY <2>1, <3>1 DEF ListInv, ListParts, Counted
      <4>2. IsFiniteSet(Unfilled')
        <5>1. Unfilled' \subseteq 1 .. Len(entries')
          BY <4>1, SeqElements DEF ListParts, Unfilled, Listing
        <5>2. Len(entries') \in Int
          BY <4>1, SeqElements DEF ListParts
        <5>3. IsFiniteSet(1 .. Len(entries'))
          BY <5>2, FS_Interval
        <5> QED
          BY <5>1, <5>3, FS_Subset
      <4> QED
        BY <4>1, <4>2, FS_CardinalityType DEF Counted
    <3>2. pc' = "walk" \/ pc' = "done"
      BY <1>1, Zenon DEF Walk, NameToIDItem, JumpOut, GetFilePkgItem, DirListItem,
                         GetInodeItem, Recurse, ReturnFromNode, Finish
    <3> QED
      BY <2>1, <3>1, <3>2
  <2>3. AllInv'
    BY <2>1 DEF AllInv, NameInv, InodeInv, PkgInv
  <2> QED
    BY <1>1, <1>3, <1>5, <2>1, <2>2, <2>3 DEF WalkIInv, Outputs
<1> QED
  BY <1>0, <1>1, <1>6, <1>7, <1>8, <1>9 DEF Outputs

----------------------------------------------------------------------------
(***************************************************************************)
(* Paths                                                                   *)
(***************************************************************************)

(* The components of a path, one position after the other.                 *)
LEMMA PartsOfPath ==
    ASSUME NEW p \in Seq(Names \cup {Sep})
    PROVE  /\ PartsOf(p)[0] = <<>>
           /\ \A k \in 1 .. Len(p) :
                 PartsOf(p)[k] = IF p[k] = Sep THEN Append(PartsOf(p)[k - 1], PartAfter(p, k))
                                 ELSE PartsOf(p)[k - 1]
           /\ \A k \in 0 .. Len(p) : PartsOf(p)[k] \in Seq(Names \cup {NoName})
<1> DEFINE V == Seq(Names \cup {NoName})
           next(k, w) == IF p[k] = Sep THEN Append(w, PartAfter(p, k)) ELSE w
           step == [x \in (1 .. Len(p)) \X V |-> next(x[1], x[2])]
<1>1. Len(p) \in Nat /\ \A k \in 1 .. Len(p) : p[k] \in Names \cup {Sep}
  BY SeqElements
<1>2. \A k \in 1 .. Len(p) : PartAfter(p, k) \in Names \cup {NoName}
  <2> TAKE k \in 1 .. Len(p)
  <2>1. k < Len(p) => k + 1 \in 1 .. Len(p)
    BY <1>1
  <2> QED
    BY <1>1, <2>1 DEF PartAfter
<1>3. \A k \in 1 .. Len(p) : \A w \in V : next(k, w) \in V
  BY <1>2
<1>4. <<>> \in V
  BY EmptySeq
<1> HIDE DEF V, next
<1>5. step \in [(1 .. Len(p)) \X V -> V]
  BY <1>3
<1>6. \A k \in 1 .. Len(p), w \in V : step[<<k, w>>] = next(k, w)
  OBVIOUS
<1> HIDE DEF step
<1>7. PICK g : g \in [0 .. Len(p) -> V] /\ g[0] = <<>>
               /\ \A k \in 1 .. Len(p) : g[k] = step[<<k, g[k - 1]>>]
  <2>1. \E g : ValuesOf(g, V, Len(p), <<>>, step)
    <3>1. step \in LoopOver(V, Len(p))
      BY <1>5 DEF LoopOver
    <3> QED
      BY <1>1, <1>4, <3>1, LoopValues
  <2> QED
    BY <2>1 DEF ValuesOf
<1>8. \A k \in 1 .. Len(p) : g[k] = next(k, g[k - 1])
  <2> TAKE k \in 1 .. Len(p)
  <2>1. k - 1 \in 0 .. Len(p)
    BY <1>1
  <2> QED
    BY <1>6, <1>7, <2>1
<1>9. g = [k \in 0 .. Len(p) |->
             IF k = 0 THEN <<>>
             ELSE IF p[k] = Sep THEN Append(g[k - 1], PartAfter(p, k)) ELSE g[k - 1]]
  <2>1. \A k \in 0 .. Len(p) : k # 0 => k \in 1 .. Len(p)
    BY <1>1
  <2>2. \A k \in 0 .. Len(p) :
          g[k] = IF k = 0 THEN <<>>
                 ELSE IF p[k] = Sep THEN Append(g[k - 1], PartAfter(p, k)) ELSE g[k - 1]
    BY <1>7, <1>8, <2>1, Zenon DEF next
  <2> QED
    BY <1>7, <2>2, Zenon
<1>10. PartsOf(p) = [k \in 0 .. Len(p) |->
             IF k = 0 THEN <<>>
             ELSE IF p[k] = Sep THEN Append(PartsOf(p)[k - 1], PartAfter(p, k))
             ELSE PartsOf(p)[k - 1]]
  BY <1>9, Zenon DEF PartsOf
<1>11. /\ PartsOf(p)[0] = <<>>
       /\ \A k \in 1 .. Len(p) : PartsOf(p)[k] = next(k, PartsOf(p)[k - 1])
  <2>1. 0 \in 0 .. Len(p) /\ \A k \in 1 .. Len(p) : k \in 0 .. Len(p) /\ k # 0
    BY <1>1
  <2> QED
    BY <1>10, <2>1, Zenon DEF next
<1>12. \A k \in 0 .. Len(p) : PartsOf(p)[k] \in V
  <2> DEFINE S == {k \in 0 .. Len(p) : PartsOf(p)[k] \in V}
  <2>1. 0 \in S
    BY <1>1, <1>4, <1>11
  <2>2. \A k \in 1 .. Len(p) : k - 1 \in S => k \in S
    <3>1. \A k \in 1 .. Len(p) : k \in 0 .. Len(p)
      BY <1>1
    <3> QED
      BY <1>3, <1>11, <3>1
  <2>3. 0 .. Len(p) \subseteq S
    <3> HIDE DEF S
    <3> QED
      BY <1>1, <2>1, <2>2, UpTo
  <2> QED
    BY <2>3
<1> QED
  BY <1>11, <1>12, Zenon DEF V, next

(* What validatePath copies of a path, one position after the other.        *)
LEMMA CopiedOfPath ==
    ASSUME NEW p \in Seq(Names \cup {Sep}), p # <<>>, p[1] = Sep
    PROVE  /\ CopiedFrom(p)[0] = <<>>
           /\ \A k \in 1 .. Len(p) :
                 CopiedFrom(p)[k] = IF Doubled(p, k) THEN CopiedFrom(p)[k - 1]
                                    ELSE Append(CopiedFrom(p)[k - 1], p[k])
           /\ \A k \in 0 .. Len(p) : CopiedFrom(p)[k] \in Seq(Names \cup {Sep})
<1> DEFINE V == Seq(Names \cup {Sep})
           next(k, w) == IF Doubled(p, k) THEN w ELSE Append(w, p[k])
           step == [x \in (1 .. Len(p)) \X V |-> next(x[1], x[2])]
<1>1. Len(p) \in Nat /\ \A k \in 1 .. Len(p) : p[k] \in Names \cup {Sep}
  BY SeqElements
<1>3. \A k \in 1 .. Len(p) : \A w \in V : next(k, w) \in V
  BY <1>1
<1>4. <<>> \in V
  BY EmptySeq
<1> HIDE DEF V, next
<1>5. step \in [(1 .. Len(p)) \X V -> V]
  BY <1>3
<1>6. \A k \in 1 .. Len(p), w \in V : step[<<k, w>>] = next(k, w)
  OBVIOUS
<1> HIDE DEF step
<1>7. PICK g : g \in [0 .. Len(p) -> V] /\ g[0] = <<>>
               /\ \A k \in 1 .. Len(p) : g[k] = step[<<k, g[k - 1]>>]
  <2>1. \E g : ValuesOf(g, V, Len(p), <<>>, step)
    <3>1. step \in LoopOver(V, Len(p))
      BY <1>5 DEF LoopOver
    <3> QED
      BY <1>1, <1>4, <3>1, LoopValues
  <2> QED
    BY <2>1 DEF ValuesOf
<1>8. \A k \in 1 .. Len(p) : g[k] = next(k, g[k - 1])
  <2> TAKE k \in 1 .. Len(p)
  <2>1. k - 1 \in 0 .. Len(p)
    BY <1>1
  <2> QED
    BY <1>6, <1>7, <2>1
<1>9. g = [k \in 0 .. Len(p) |->
             IF k = 0 THEN <<>>
             ELSE IF Doubled(p, k) THEN g[k - 1] ELSE Append(g[k - 1], p[k])]
  <2>1. \A k \in 0 .. Len(p) : k # 0 => k \in 1 .. Len(p)
    BY <1>1
  <2>2. \A k \in 0 .. Len(p) :
          g[k] = IF k = 0 THEN <<>>
                 ELSE IF Doubled(p, k) THEN g[k - 1] ELSE Append(g[k - 1], p[k])
    BY <1>7, <1>8, <2>1, Zenon DEF next
  <2> QED
    BY <1>7, <2>2, Zenon
<1>10. CopiedFrom(p) = [k \in 0 .. Len(p) |->
             IF k = 0 THEN <<>>
             ELSE IF Doubled(p, k) THEN CopiedFrom(p)[k - 1]
             ELSE Append(CopiedFrom(p)[k - 1], p[k])]
  <2>1. (IF p[1] = Sep THEN <<>> ELSE <<Sep>>) = <<>>
    OBVIOUS
  <2> QED
    BY <1>9, <2>1, Zenon DEF CopiedFrom
<1>11. /\ CopiedFrom(p)[0] = <<>>
       /\ \A k \in 1 .. Len(p) : CopiedFrom(p)[k] = next(k, CopiedFrom(p)[k - 1])
  <2>1. 0 \in 0 .. Len(p) /\ \A k \in 1 .. Len(p) : k \in 0 .. Len(p) /\ k # 0
    BY <1>1
  <2> QED
    BY <1>10, <2>1, Zenon DEF next
<1>12. \A k \in 0 .. Len(p) : CopiedFrom(p)[k] \in V
  <2> DEFINE S == {k \in 0 .. Len(p) : CopiedFrom(p)[k] \in V}
  <2>1. 0 \in S
    BY <1>1, <1>4, <1>11
  <2>2. \A k \in 1 .. Len(p) : k - 1 \in S => k \in S
    <3>1. \A k \in 1 .. Len(p) : k \in 0 .. Len(p)
      BY <1>1
    <3> QED
      BY <1>3, <1>11, <3>1
  <2>3. 0 .. Len(p) \subseteq S
    <3> HIDE DEF S
    <3> QED
      BY <1>1, <2>1, <2>2, UpTo
  <2> QED
    BY <2>3
<1> QED
  BY <1>11, <1>12, Zenon DEF V, next

(* The names in a path, one position after the other.                       *)
LEMMA NamesOfPath ==
    ASSUME NEW p \in Seq(Names \cup {Sep})
    PROVE  /\ NamesUpTo(p)[0] = <<>>
           /\ \A k \in 1 .. Len(p) :
                 NamesUpTo(p)[k] = IF p[k] = Sep THEN NamesUpTo(p)[k - 1]
                                   ELSE Append(NamesUpTo(p)[k - 1], p[k])
           /\ \A k \in 0 .. Len(p) : NamesUpTo(p)[k] \in Seq(Names)
<1> DEFINE V == Seq(Names)
           next(k, w) == IF p[k] = Sep THEN w ELSE Append(w, p[k])
           step == [x \in (1 .. Len(p)) \X V |-> next(x[1], x[2])]
<1>1. Len(p) \in Nat /\ \A k \in 1 .. Len(p) : p[k] \in Names \cup {Sep}
  BY SeqElements
<1>3. \A k \in 1 .. Len(p) : \A w \in V : next(k, w) \in V
  BY <1>1
<1>4. <<>> \in V
  BY EmptySeq
<1> HIDE DEF V, next
<1>5. step \in [(1 .. Len(p)) \X V -> V]
  BY <1>3
<1>6. \A k \in 1 .. Len(p), w \in V : step[<<k, w>>] = next(k, w)
  OBVIOUS
<1> HIDE DEF step
<1>7. PICK g : g \in [0 .. Len(p) -> V] /\ g[0] = <<>>
               /\ \A k \in 1 .. Len(p) : g[k] = step[<<k, g[k - 1]>>]
  <2>1. \E g : ValuesOf(g, V, Len(p), <<>>, step)
    <3>1. step \in LoopOver(V, Len(p))
      BY <1>5 DEF LoopOver
    <3> QED
      BY <1>1, <1>4, <3>1, LoopValues
  <2> QED
    BY <2>1 DEF ValuesOf
<1>8. \A k \in 1 .. Len(p) : g[k] = next(k, g[k - 1])
  <2> TAKE k \in 1 .. Len(p)
  <2>1. k - 1 \in 0 .. Len(p)
    BY <1>1
  <2> QED
    BY <1>6, <1>7, <2>1
<1>9. g = [k \in 0 .. Len(p) |->
             IF k = 0 THEN <<>>
             ELSE IF p[k] = Sep THEN g[k - 1] ELSE Append(g[k - 1], p[k])]
  <2>1. \A k \in 0 .. Len(p) : k # 0 => k \in 1 .. Len(p)
    BY <1>1
  <2>2. \A k \in 0 .. Len(p) :
          g[k] = IF k = 0 THEN <<>>
                 ELSE IF p[k] = Sep THEN g[k - 1] ELSE Append(g[k - 1], p[k])
    BY <1>7, <1>8, <2>1, Zenon DEF next
  <2> QED
    BY <1>7, <2>2, Zenon
<1>10. NamesUpTo(p) = [k \in 0 .. Len(p) |->
             IF k = 0 THEN <<>>
             ELSE IF p[k] = Sep THEN NamesUpTo(p)[k - 1]
             ELSE Append(NamesUpTo(p)[k - 1], p[k])]
  BY <1>9, Zenon DEF NamesUpTo
<1>11. /\ NamesUpTo(p)[0] = <<>>
       /\ \A k \in 1 .. Len(p) : NamesUpTo(p)[k] = next(k, NamesUpTo(p)[k - 1])
  <2>1. 0 \in 0 .. Len(p) /\ \A k \in 1 .. Len(p) : k \in 0 .. Len(p) /\ k # 0
    BY <1>1
  <2> QED
    BY <1>10, <2>1, Zenon DEF next
<1>12. \A k \in 0 .. Len(p) : NamesUpTo(p)[k] \in V
  <2> DEFINE S == {k \in 0 .. Len(p) : NamesUpTo(p)[k] \in V}
  <2>1. 0 \in S
    BY <1>1, <1>4, <1>11
  <2>2. \A k \in 1 .. Len(p) : k - 1 \in S => k \in S
    <3>1. \A k \in 1 .. Len(p) : k \in 0 .. Len(p)
      BY <1>1
    <3> QED
      BY <1>3, <1>11, <3>1
  <2>3. 0 .. Len(p) \subseteq S
    <3> HIDE DEF S
    <3> QED
      BY <1>1, <2>1, <2>2, UpTo
  <2> QED
    BY <2>3
<1> QED
  BY <1>11, <1>12, Zenon DEF V, next

----------------------------------------------------------------------------
(***************************************************************************)
(* Following names through the trees                                       *)
(***************************************************************************)
Trees == {mountedSubvol.tree} \cup DOMAIN Subvolumes
IDs == [treeID : Trees, objectID : Nat]

(* Every subvolume that is known has a tree in order.                      *)
LEMMA TreeKnown ==
    ASSUME mountedSubvol \in Volumes, NEW t \in Trees
    PROVE  /\ Described(TreeOf(t)) /\ TreeOf(t).tree = t
           /\ TreeOf(t) \in Volumes \cup {Subvolumes[s] : s \in DOMAIN Subvolumes}
<1>1. CASE t = mountedSubvol.tree
  BY <1>1, VolumesDescribed DEF TreeOf
<1>2. CASE t # mountedSubvol.tree
  BY <1>2, SubvolumesDescribed DEF TreeOf, Trees
<1> QED
  BY <1>1, <1>2

(* The directory entries of a tree are those of its items, one for a name. *)
LEMMA LinkFields ==
    ASSUME NEW v, Described(v), NEW l \in LinksOf(v)
    PROVE  \E x \in LeafItems(v, v.root) :
              /\ x \in ItemRecords /\ x.type = "DIR_ITEM" /\ l[1] = x.objectID
              /\ \E j \in DOMAIN x.entries : l[2] = x.entries[j]
<1>1. PICK x \in {y \in LeafItems(v, v.root) : y.type = "DIR_ITEM"} :
          l \in {<<x.objectID, e>> : e \in ToSet(x.entries)}
  BY DEF LinksOf
<1>2. x \in ItemRecords
  <2>1. NodesDescribed(v) /\ v.root \in DOMAIN v.nodes
    BY DEF Described, NodesDescribed
  <2> QED
    BY <1>1, <2>1, LeafItemsAreItems
<1>3. PICK e \in ToSet(x.entries) : l = <<x.objectID, e>>
  BY <1>1
<1>4. \E j \in DOMAIN x.entries : e = x.entries[j]
  BY <1>2, <1>3, EntryFields
<1> QED
  BY <1>1, <1>2, <1>3, <1>4

LEMMA LinkTyped ==
    ASSUME NEW v, Described(v), NEW l \in LinksOf(v)
    PROVE  l[2].child \in Nat /\ l[2].isSubvolume \in BOOLEAN
  BY LinkFields, EntryFields

LEMMA OneLink ==
    ASSUME NEW v, Described(v), NEW l \in LinksOf(v), NEW m \in LinksOf(v),
           l[1] = m[1], l[2].name = m[2].name
    PROVE  l[2] = m[2]
<1>1. PICK x \in LeafItems(v, v.root) :
          /\ x.type = "DIR_ITEM" /\ l[1] = x.objectID
          /\ \E j \in DOMAIN x.entries : l[2] = x.entries[j]
  BY LinkFields
<1>2. PICK y \in LeafItems(v, v.root) :
          /\ y.type = "DIR_ITEM" /\ m[1] = y.objectID
          /\ \E j \in DOMAIN y.entries : m[2] = y.entries[j]
  BY LinkFields
<1>3. PICK j \in DOMAIN x.entries : l[2] = x.entries[j]
  BY <1>1
<1>4. PICK k \in DOMAIN y.entries : m[2] = y.entries[k]
  BY <1>2
<1>5. /\ x \in {z \in LeafItems(v, v.root) : z.type = "DIR_ITEM"}
      /\ y \in {z \in LeafItems(v, v.root) : z.type = "DIR_ITEM"}
      /\ x.objectID = y.objectID /\ x.entries[j].name = y.entries[k].name
  BY <1>1, <1>2, <1>3, <1>4
<1>6. x = y /\ j = k
  BY <1>5 DEF Described, ItemsDescribed
<1> QED
  BY <1>3, <1>4, <1>6

(* Where an entry leads.                                                   *)
LeadsTo(e, t) ==
    IF e.isSubvolume THEN FileID(e.child, OBJID_ROOT_DIR) ELSE FileID(t, e.child)

LEMMA FollowLink ==
    ASSUME mountedSubvol \in Volumes, NEW d \in IDs, NEW n,
           NEW l \in LinksOf(TreeOf(d.treeID)), l[1] = d.objectID, l[2].name = n
    PROVE  /\ Follow(d, n) = LeadsTo(l[2], d.treeID)
           /\ LeadsTo(l[2], d.treeID) \in IDs
           /\ LeadsTo(l[2], d.treeID) # Nowhere
<1>1. /\ d.treeID \in Trees /\ d.objectID \in Nat
      /\ Described(TreeOf(d.treeID))
      /\ TreeOf(d.treeID) \in Volumes \cup {Subvolumes[s] : s \in DOMAIN Subvolumes}
  BY TreeKnown DEF IDs
<1> DEFINE named == {k[2] : k \in {m \in LinksOf(TreeOf(d.treeID)) :
                                     m[1] = d.objectID /\ m[2].name = n}}
<1>2. l[2] \in named
  OBVIOUS
<1>3. \A e \in named : e = l[2]
  BY <1>1, OneLink
<1>4. (CHOOSE e \in named : TRUE) = l[2]
  BY <1>2, <1>3
<1>5. d # Nowhere
  BY <1>1 DEF Nowhere, FileID
<1>6. Follow(d, n) = LeadsTo(l[2], d.treeID)
  <2>1. named # {}
    BY <1>2
  <2> HIDE DEF named
  <2> QED
    BY <1>4, <1>5, <2>1 DEF Follow, LeadsTo, named
<1>7. LeadsTo(l[2], d.treeID) \in IDs
  <2>1. l[2].child \in Nat /\ (l[2].isSubvolume => l[2].child \in DOMAIN Subvolumes)
    BY <1>1, LinkTyped, SubvolumesDescribed
  <2> QED
    BY <1>1, <2>1, RootDirNatural DEF LeadsTo, FileID, IDs, Trees
<1>8. \A a \in IDs : a # Nowhere
  <2> SUFFICES ASSUME NEW a \in IDs, a = Nowhere
               PROVE  FALSE
    OBVIOUS
  <2>1. a.objectID \in Nat /\ a.objectID = -1
    BY DEF IDs, Nowhere, FileID
  <2> QED
    BY <2>1
<1> QED
  BY <1>6, <1>7, <1>8

LEMMA FollowNone ==
    ASSUME NEW d, NEW n,
           \A l \in LinksOf(TreeOf(d.treeID)) : ~(l[1] = d.objectID /\ l[2].name = n)
    PROVE  Follow(d, n) = Nowhere
<1> DEFINE named == {k[2] : k \in {m \in LinksOf(TreeOf(d.treeID)) :
                                     m[1] = d.objectID /\ m[2].name = n}}
<1>1. named = {}
  OBVIOUS
<1> HIDE DEF named
<1> QED
  BY <1>1 DEF Follow, named

LEMMA FollowNowhere ==
    ASSUME NEW n
    PROVE  Follow(Nowhere, n) = Nowhere
  BY Zenon DEF Follow

LEMMA FollowTyped ==
    ASSUME mountedSubvol \in Volumes, NEW d \in IDs \cup {Nowhere}, NEW n
    PROVE  Follow(d, n) \in IDs \cup {Nowhere}
<1>1. CASE d = Nowhere
  BY <1>1, FollowNowhere
<1>2. CASE d \in IDs
  BY <1>2, FollowNone, FollowLink
<1> QED
  BY <1>1, <1>2

(* Where a sequence of names leads, one name after the other.              *)
LEMMA FollowedNames ==
    ASSUME mountedSubvol \in Volumes, NEW S, NEW names \in Seq(S)
    PROVE  /\ Followed(names)[0] = FileID(mountedSubvol.tree, OBJID_ROOT_DIR)
           /\ \A k \in 1 .. Len(names) :
                 Followed(names)[k] = Follow(Followed(names)[k - 1], names[k])
           /\ \A k \in 0 .. Len(names) : Followed(names)[k] \in IDs \cup {Nowhere}
<1> DEFINE V == IDs \cup {Nowhere}
           root == FileID(mountedSubvol.tree, OBJID_ROOT_DIR)
           step == [x \in (1 .. Len(names)) \X V |-> Follow(x[2], names[x[1]])]
<1>1. Len(names) \in Nat
  OBVIOUS
<1>2. \A n : \A d \in V : Follow(d, n) \in V
  BY FollowTyped
<1>3. root \in V
  BY RootDirNatural DEF FileID, IDs, Trees
<1> HIDE DEF V, root
<1>4. step \in [(1 .. Len(names)) \X V -> V]
  BY <1>2
<1>5. \A k \in 1 .. Len(names), w \in V : step[<<k, w>>] = Follow(w, names[k])
  OBVIOUS
<1> HIDE DEF step
<1>6. PICK g : g \in [0 .. Len(names) -> V] /\ g[0] = root
               /\ \A k \in 1 .. Len(names) : g[k] = step[<<k, g[k - 1]>>]
  <2>1. \E g : ValuesOf(g, V, Len(names), root, step)
    <3>1. step \in LoopOver(V, Len(names))
      BY <1>4 DEF LoopOver
    <3> QED
      BY <1>1, <1>3, <3>1, LoopValues
  <2> QED
    BY <2>1 DEF ValuesOf
<1>7. \A k \in 1 .. Len(names) : g[k] = Follow(g[k - 1], names[k])
  <2> TAKE k \in 1 .. Len(names)
  <2>1. k - 1 \in 0 .. Len(names)
    BY <1>1
  <2> QED
    BY <1>5, <1>6, <2>1
<1>8. g = [k \in 0 .. Len(names) |->
             IF k = 0 THEN root ELSE Follow(g[k - 1], names[k])]
  <2>1. \A k \in 0 .. Len(names) : k # 0 => k \in 1 .. Len(names)
    BY <1>1
  <2>2. \A k \in 0 .. Len(names) :
          g[k] = IF k = 0 THEN root ELSE Follow(g[k - 1], names[k])
    BY <1>6, <1>7, <2>1, Zenon
  <2> QED
    BY <1>6, <2>2, Zenon
<1>9. Followed(names) = [k \in 0 .. Len(names) |->
             IF k = 0 THEN root ELSE Follow(Followed(names)[k - 1], names[k])]
  BY <1>8, Zenon DEF Followed, root
<1>10. /\ Followed(names)[0] = root
       /\ \A k \in 1 .. Len(names) :
             Followed(names)[k] = Follow(Followed(names)[k - 1], names[k])
  <2>1. 0 \in 0 .. Len(names) /\ \A k \in 1 .. Len(names) : k \in 0 .. Len(names) /\ k # 0
    BY <1>1
  <2> QED
    BY <1>9, <2>1, Zenon
<1>11. \A k \in 0 .. Len(names) : Followed(names)[k] \in V
  <2> DEFINE R == {k \in 0 .. Len(names) : Followed(names)[k] \in V}
  <2>1. 0 \in R
    BY <1>1, <1>3, <1>10
  <2>2. \A k \in 1 .. Len(names) : k - 1 \in R => k \in R
    <3>1. \A k \in 1 .. Len(names) : k \in 0 .. Len(names)
      BY <1>1
    <3> QED
      BY <1>2, <1>10, <3>1
  <2>3. 0 .. Len(names) \subseteq R
    <3> HIDE DEF R
    <3> QED
      BY <1>1, <2>1, <2>2, UpTo
  <2> QED
    BY <2>3
<1> QED
  BY <1>10, <1>11, Zenon DEF V, root

(* Once nowhere, always nowhere.                                           *)
LEMMA LostForGood ==
    ASSUME mountedSubvol \in Volumes, NEW S, NEW names \in Seq(S),
           NEW m \in 0 .. Len(names), Followed(names)[m] = Nowhere
    PROVE  Resolve(names) = Nowhere
<1> DEFINE R == {k \in 0 .. Len(names) : k >= m => Followed(names)[k] = Nowhere}
<1>1. Len(names) \in Nat
  OBVIOUS
<1>2. 0 \in R
  BY <1>1
<1>3. ASSUME NEW k \in 1 .. Len(names), k - 1 \in R
      PROVE  k \in R
  <2>1. CASE k - 1 >= m
    <3>1. Followed(names)[k] = Follow(Nowhere, names[k])
      BY <1>3, <2>1, FollowedNames
    <3>2. Followed(names)[k] = Nowhere
      BY <3>1, FollowNowhere
    <3> QED
      BY <3>2
  <2>2. CASE ~ (k - 1 >= m)
    BY <2>2
  <2> QED
    BY <2>1, <2>2
<1>4. 0 .. Len(names) \subseteq R
  <2> HIDE DEF R
  <2> QED
    BY <1>1, <1>2, <1>3, UpTo
<1>5. Len(names) \in R
  BY <1>1, <1>4
<1> QED
  BY <1>1, <1>5 DEF Resolve

(* The names before the last lead as far as they do with it.               *)
LEMMA ResolveFront ==
    ASSUME mountedSubvol \in Volumes, NEW S, NEW names \in Seq(S), names # <<>>
    PROVE  Resolve(Front(names)) = Followed(names)[Len(names) - 1]
<1> DEFINE f == Front(names)
           n == Len(names) - 1
           R == {k \in 0 .. n : Followed(f)[k] = Followed(names)[k]}
<1>1. /\ f \in Seq(S) /\ Len(f) = n /\ n \in Nat
      /\ \A k \in 1 .. n : f[k] = names[k]
  <2>1. Len(names) \in Nat \ {0} /\ \A k \in 1 .. n : names[k] \in S
    OBVIOUS
  <2>2. f = SubSeq(names, 1, n)
    BY DEF Front
  <2> HIDE DEF f
  <2>3. n \in Nat /\ n <= Len(names)
    BY <2>1
  <2> HIDE DEF n
  <2>4. f \in Seq(S) /\ Len(f) = n - 1 + 1 /\ \A k \in 1 .. n - 1 + 1 : f[k] = names[1 + k - 1]
    BY <2>1, <2>2, <2>3, SubSeqProperties
  <2> QED
    BY <2>3, <2>4
<1> HIDE DEF f
<1>2. 0 \in R
  BY <1>1, FollowedNames
<1>3. ASSUME NEW k \in 1 .. n, k - 1 \in R
      PROVE  k \in R
  <2>1. k \in 1 .. Len(f) /\ k \in 1 .. Len(names) /\ f[k] = names[k]
    BY <1>1
  <2>2. Followed(f)[k] = Follow(Followed(f)[k - 1], f[k])
    BY <1>1, <2>1, FollowedNames
  <2>3. Followed(names)[k] = Follow(Followed(names)[k - 1], names[k])
    BY <2>1, FollowedNames
  <2> QED
    BY <1>1, <1>3, <2>1, <2>2, <2>3
<1>4. 0 .. n \subseteq R
  <2> HIDE DEF R, n
  <2> QED
    BY <1>1, <1>2, <1>3, UpTo
<1>5. n \in R
  BY <1>1, <1>4
<1> QED
  BY <1>1, <1>5 DEF Resolve, f

----------------------------------------------------------------------------
(***************************************************************************)
(* The components and the names of a path                                  *)
(***************************************************************************)
LEMMA PathElements ==
    ASSUME NEW p \in Paths
    PROVE  /\ p \in Seq(Names \cup {Sep}) /\ p # <<>> /\ p[1] = Sep
           /\ Len(p) \in Nat \ {0}
           /\ \A k \in 1 .. Len(p) : p[k] \in Names \cup {Sep}
           /\ \A k \in 2 .. Len(p) : p[k] = Sep \/ p[k - 1] = Sep
<1>1. /\ p \in Seq(Names \cup {Sep}) /\ p # <<>> /\ p[1] = Sep
      /\ \A k \in 2 .. Len(p) : p[k] = Sep \/ p[k - 1] = Sep
  BY PathsDescribed
<1>2. Len(p) \in Nat \ {0} /\ \A k \in 1 .. Len(p) : p[k] \in Names \cup {Sep}
  BY <1>1
<1> QED
  BY <1>1, <1>2

(* Every backslash leaves a component.                                     *)
LEMMA PartStays ==
    ASSUME NEW p \in Paths, NEW m \in 1 .. Len(p), p[m] = Sep
    PROVE  \E j \in 1 .. Len(PartsOf(p)[Len(p)]) :
              PartsOf(p)[Len(p)][j] = PartAfter(p, m)
<1> DEFINE n == Len(p)
           C == Names \cup {NoName}
           Has(s, x) == \E j \in 1 .. Len(s) : s[j] = x
           S == {k \in 0 .. n : k >= m => Has(PartsOf(p)[k], PartAfter(p, m))}
<1>1. n \in Nat \ {0} /\ p \in Seq(Names \cup {Sep})
  BY PathElements
<1>2. \A s \in Seq(C) : \A x : Has(Append(s, x), x)
  <2> TAKE s \in Seq(C)
  <2> TAKE x
  <2>1. Len(Append(s, x)) = Len(s) + 1 /\ Append(s, x)[Len(s) + 1] = x /\ Len(s) \in Nat
    OBVIOUS
  <2> QED
    BY <2>1
<1>3. \A s \in Seq(C) : \A x, y : Has(s, x) => Has(Append(s, y), x)
  <2> TAKE s \in Seq(C)
  <2> TAKE x, y
  <2>1. Len(Append(s, y)) = Len(s) + 1 /\ Len(s) \in Nat
        /\ \A j \in 1 .. Len(s) : Append(s, y)[j] = s[j]
    OBVIOUS
  <2> QED
    BY <2>1
<1>4. 0 \in S
  BY <1>1
<1>5. ASSUME NEW k \in 1 .. n, k - 1 \in S
      PROVE  k \in S
  <2>1. /\ PartsOf(p)[k - 1] \in Seq(C)
        /\ PartsOf(p)[k] = IF p[k] = Sep THEN Append(PartsOf(p)[k - 1], PartAfter(p, k))
                           ELSE PartsOf(p)[k - 1]
    <3>1. k - 1 \in 0 .. n
      BY <1>1
    <3> QED
      BY <1>1, <3>1, PartsOfPath
  <2> HIDE DEF Has
  <2>2. CASE k = m
    <3>1. PartsOf(p)[k] = Append(PartsOf(p)[k - 1], PartAfter(p, m))
      BY <2>1, <2>2
    <3>2. Has(PartsOf(p)[k], PartAfter(p, m))
      BY <1>2, <2>1, <3>1, Zenon
    <3> QED
      BY <1>1, <3>2
  <2>3. CASE k > m
    BY <1>3, <1>5, <2>1, <2>3
  <2>4. CASE k < m
    BY <2>4
  <2> QED
    BY <2>2, <2>3, <2>4
<1>6. 0 .. n \subseteq S
  <2> HIDE DEF S, n
  <2> QED
    BY <1>1, <1>4, <1>5, UpTo
<1>7. n \in S
  BY <1>1, <1>6
<1> QED
  BY <1>1, <1>7

(* If no component is empty they are the names in the path.                *)
LEMMA ComponentsAreNames ==
    ASSUME NEW p \in Paths,
           \A j \in 1 .. Len(componentizePath(p)) : componentizePath(p)[j] \in Names
    PROVE  componentizePath(p) = NamesIn(p)
<1> DEFINE n == Len(p)
           parts == PartsOf(p)
           names == NamesUpTo(p)
<1>1. /\ n \in Nat \ {0} /\ p \in Seq(Names \cup {Sep}) /\ p[1] = Sep
      /\ \A k \in 1 .. n : p[k] \in Names \cup {Sep}
      /\ \A k \in 2 .. n : p[k] = Sep \/ p[k - 1] = Sep
  BY PathElements
<1>2. /\ parts[0] = <<>> /\ names[0] = <<>>
      /\ \A k \in 1 .. n :
            /\ parts[k] = IF p[k] = Sep THEN Append(parts[k - 1], PartAfter(p, k))
                          ELSE parts[k - 1]
            /\ names[k] = IF p[k] = Sep THEN names[k - 1] ELSE Append(names[k - 1], p[k])
  BY <1>1, PartsOfPath, NamesOfPath
<1>3. CASE p = <<Sep>>
  <2>1. n = 1 /\ componentizePath(p) = <<>>
    BY <1>3 DEF componentizePath
  <2>2. names[1] = names[0]
    BY <1>1, <1>2, <2>1
  <2> QED
    BY <1>2, <2>1, <2>2 DEF NamesIn
<1>4. CASE p # <<Sep>>
  <2>1. componentizePath(p) = parts[n]
    BY <1>4 DEF componentizePath
  <2>2. \A k \in 1 .. n : p[k] = Sep => k < n /\ p[k + 1] # Sep /\ PartAfter(p, k) = p[k + 1]
    <3> SUFFICES ASSUME NEW k \in 1 .. n, p[k] = Sep
                 PROVE  k < n /\ p[k + 1] # Sep /\ PartAfter(p, k) = p[k + 1]
      OBVIOUS
    <3>1. PartAfter(p, k) \in Names
      BY <2>1, PartStays
    <3> QED
      BY <3>1, NamesDescribed DEF PartAfter
  <2> DEFINE Agree(k) == IF k # 0 /\ p[k] = Sep THEN parts[k] = Append(names[k], p[k + 1])
                         ELSE parts[k] = names[k]
             S == {k \in 0 .. n : Agree(k)}
  <2> HIDE DEF parts, names
  <2>3. 0 \in S
    BY <1>1, <1>2
  <2>4. ASSUME NEW k \in 1 .. n, k - 1 \in S
        PROVE  k \in S
    <3>1. CASE p[k] = Sep
      <4>1. k - 1 = 0 \/ p[k - 1] # Sep
        <5>1. k - 1 # 0 => k - 1 \in 1 .. n /\ k - 1 + 1 = k
          BY <1>1
        <5> QED
          BY <2>2, <3>1, <5>1
      <4>2. parts[k - 1] = names[k - 1]
        BY <2>4, <4>1
      <4>3. parts[k] = Append(parts[k - 1], p[k + 1]) /\ names[k] = names[k - 1]
        BY <1>2, <2>2, <3>1
      <4> QED
        BY <3>1, <4>2, <4>3
    <3>2. CASE p[k] # Sep
      <4>1. k # 1 /\ k \in 2 .. n
        BY <1>1, <3>2
      <4>2. p[k - 1] = Sep /\ k - 1 # 0 /\ k - 1 + 1 = k
        BY <1>1, <3>2, <4>1
      <4>3. parts[k - 1] = Append(names[k - 1], p[k])
        BY <2>4, <4>2
      <4>4. parts[k] = parts[k - 1] /\ names[k] = Append(names[k - 1], p[k])
        BY <1>2, <3>2
      <4>5. parts[k] = names[k]
        BY <4>3, <4>4, Zenon
      <4> QED
        BY <1>1, <3>2, <4>5
    <3> QED
      BY <3>1, <3>2
  <2>5. 0 .. n \subseteq S
    <3> HIDE DEF S, n
    <3> QED
      BY <1>1, <2>3, <2>4, UpTo
  <2>6. n \in S /\ n \in 1 .. n
    BY <1>1, <2>5
  <2>7. p[n] # Sep
    BY <1>1, <2>2, <2>6
  <2>8. parts[n] = names[n]
    BY <1>1, <2>6, <2>7
  <2> QED
    BY <2>1, <2>8 DEF NamesIn, names
<1> QED
  BY <1>3, <1>4

(* What validatePath drops shows in the length.                            *)
LEMMA CopiedLength ==
    ASSUME NEW p \in Paths
    PROVE  LET copied == CopiedFrom(p)[Len(p)]
           IN  /\ copied \in Seq(Names \cup {Sep}) /\ Len(copied) <= Len(p)
               /\ Len(copied) = Len(p) => \A m \in 1 .. Len(p) : ~Doubled(p, m)
<1> DEFINE n == Len(p)
           C == Names \cup {Sep}
           S == {k \in 0 .. n :
                   /\ Len(CopiedFrom(p)[k]) <= k
                   /\ Len(CopiedFrom(p)[k]) = k => \A m \in 1 .. k : ~Doubled(p, m)}
<1>1. n \in Nat \ {0} /\ p \in Seq(C) /\ p # <<>> /\ p[1] = Sep
  BY PathElements
<1>2. /\ CopiedFrom(p)[0] = <<>>
      /\ \A k \in 1 .. n :
            CopiedFrom(p)[k] = IF Doubled(p, k) THEN CopiedFrom(p)[k - 1]
                               ELSE Append(CopiedFrom(p)[k - 1], p[k])
      /\ \A k \in 0 .. n : CopiedFrom(p)[k] \in Seq(C)
  BY <1>1, CopiedOfPath
<1>3. 0 \in S
  BY <1>1, <1>2
<1>4. ASSUME NEW k \in 1 .. n, k - 1 \in S
      PROVE  k \in S
  <2>1. CopiedFrom(p)[k - 1] \in Seq(C) /\ Len(CopiedFrom(p)[k - 1]) \in Nat
    BY <1>2, <1>4
  <2>2. CASE Doubled(p, k)
    <3>1. CopiedFrom(p)[k] = CopiedFrom(p)[k - 1]
      BY <1>2, <2>2
    <3> QED
      BY <1>4, <2>1, <3>1
  <2>3. CASE ~Doubled(p, k)
    <3>1. CopiedFrom(p)[k] = Append(CopiedFrom(p)[k - 1], p[k])
      BY <1>2, <2>3
    <3>2. Len(CopiedFrom(p)[k]) = Len(CopiedFrom(p)[k - 1]) + 1
      BY <2>1, <3>1
    <3>3. \A m \in 1 .. k : m = k \/ m \in 1 .. k - 1
      OBVIOUS
    <3> QED
      BY <1>4, <2>1, <2>3, <3>2, <3>3
  <2> QED
    BY <2>2, <2>3
<1>5. 0 .. n \subseteq S
  <2> HIDE DEF S, n
  <2> QED
    BY <1>1, <1>3, <1>4, UpTo
<1>6. n \in S /\ n \in 0 .. n
  BY <1>1, <1>5
<1> QED
  BY <1>2, <1>6

(* A path that validatePath leaves alone has no empty component.           *)
LEMMA ValidatedComponents ==
    ASSUME NEW p \in Paths, Validated(p)
    PROVE  \A j \in 1 .. Len(componentizePath(p)) : componentizePath(p)[j] \in Names
<1> DEFINE n == Len(p)
           C == Names \cup {Sep}
           copied == CopiedFrom(p)[n]
<1>1. /\ n \in Nat \ {0} /\ p \in Seq(C) /\ p # <<>>
      /\ \A k \in 1 .. n : p[k] \in C
  BY PathElements
<1>2. CASE p = <<Sep>>
  BY <1>2 DEF componentizePath
<1>3. CASE p # <<Sep>>
  <2>1. p = IF Last(copied) = Sep THEN Front(copied) ELSE copied
    BY <1>1, <1>3 DEF Validated, validatePath
  <2>2. copied \in Seq(C) /\ Len(copied) <= n
        /\ (Len(copied) = n => \A m \in 1 .. n : ~Doubled(p, m))
    BY CopiedLength
  <2> HIDE DEF copied
  <2>3. Len(copied) \in Nat
    BY <2>2
  <2>4. Last(copied) # Sep
    <3> SUFFICES ASSUME p = Front(copied)
                 PROVE  FALSE
      BY <2>1
    <3>1. p = SubSeq(copied, 1, Len(copied) - 1)
      BY DEF Front
    <3>2. CASE Len(copied) = 0
      <4>1. p = SubSeq(copied, 1, 0 - 1)
        BY <3>1, <3>2
      <4>2. p = <<>>
        BY <4>1
      <4> QED
        BY <1>1, <4>2
    <3>3. CASE Len(copied) # 0
      <4>1. Len(p) = Len(copied) - 1
        BY <2>2, <2>3, <3>1, <3>3
      <4> QED
        BY <1>1, <2>2, <2>3, <4>1
    <3> QED
      BY <3>2, <3>3
  <2>5. p = copied /\ p[n] # Sep /\ \A m \in 1 .. n : ~Doubled(p, m)
    <3>1. p = copied
      BY <2>1, <2>4
    <3> QED
      BY <2>2, <2>4, <3>1 DEF Last
  <2>6. \A k \in 1 .. n : p[k] = Sep => PartAfter(p, k) \in Names
    <3> SUFFICES ASSUME NEW k \in 1 .. n, p[k] = Sep
                 PROVE  PartAfter(p, k) \in Names
      OBVIOUS
    <3>1. k < n /\ k + 1 \in 1 .. n /\ k + 1 > 1 /\ k + 1 - 1 = k
      BY <1>1, <2>5
    <3>2. p[k + 1] # Sep
      BY <2>5, <3>1 DEF Doubled
    <3> QED
      BY <1>1, <3>1, <3>2 DEF PartAfter
  <2> DEFINE S == {k \in 0 .. n : PartsOf(p)[k] \in Seq(Names)}
  <2>7. /\ PartsOf(p)[0] = <<>>
        /\ \A k \in 1 .. n :
              PartsOf(p)[k] = IF p[k] = Sep THEN Append(PartsOf(p)[k - 1], PartAfter(p, k))
                              ELSE PartsOf(p)[k - 1]
    BY <1>1, PartsOfPath
  <2>8. 0 \in S
    <3>1. PartsOf(p)[0] \in Seq(Names)
      BY <2>7, EmptySeq, Zenon
    <3>2. 0 \in 0 .. n
      BY <1>1
    <3> QED
      BY <3>1, <3>2
  <2>9. ASSUME NEW k \in 1 .. n, k - 1 \in S
        PROVE  k \in S
    <3>1. CASE p[k] = Sep
      <4>1. PartsOf(p)[k] = Append(PartsOf(p)[k - 1], PartAfter(p, k))
        BY <2>7, <3>1
      <4>2. PartsOf(p)[k - 1] \in Seq(Names) /\ PartAfter(p, k) \in Names
        BY <2>6, <2>9, <3>1
      <4>3. PartsOf(p)[k] \in Seq(Names)
        BY <4>1, <4>2, AppendProperties
      <4> QED
        BY <1>1, <4>3
    <3>2. CASE p[k] # Sep
      BY <2>7, <2>9, <3>2
    <3> QED
      BY <3>1, <3>2
  <2>10. 0 .. n \subseteq S
    <3> HIDE DEF S, n
    <3> QED
      BY <1>1, <2>8, <2>9, UpTo
  <2>11. n \in S
    BY <1>1, <2>10
  <2>12. componentizePath(p) \in Seq(Names)
    BY <1>3, <2>11 DEF componentizePath
  <2> QED
    BY <2>12
<1> QED
  BY <1>2, <1>3

----------------------------------------------------------------------------
(***************************************************************************)
(* The lookup of a path                                                    *)
(***************************************************************************)
LookupRecords ==
    [path : Paths, components : Seq(Names \cup {NoName}), i : Nat,
     fileID : IDs, childID : IDs, state : {"components", "walk", "found", "failed"}]

(* How far lookup l has got: the components before l.i are names that led  *)
(* to l.childID.                                                           *)
Progress(l) ==
    LET ids == Followed(l.components)
    IN  /\ l.components = componentizePath(l.path)
        /\ l.i \in 1 .. Len(l.components) + 1
        /\ l.childID = ids[l.i - 1]
        /\ \A k \in 1 .. l.i - 1 : l.components[k] \in Names
        /\ l.fileID = IF l.i = 1 \/ l.state \in {"walk", "failed"} THEN l.childID
                      ELSE ids[l.i - 2]
        /\ l.state = "found" => l.i = Len(l.components) + 1
        /\ l.state = "failed" => l.i <= Len(l.components) /\ ids[l.i] = Nowhere

(* The walk for the next component is the one under way.                   *)
Walking(l) ==
    l.state = "walk" =>
        /\ l.i <= Len(l.components)
        /\ volume = TreeOf(l.fileID.treeID)
        /\ call.op = "NAME_TO_ID" /\ call.parentID = l.fileID.objectID
        /\ call.name = l.components[l.i]

LookupInv ==
    \/ lookup = NoLookup
    \/ \E l \in LookupRecords : lookup = l /\ Progress(l) /\ Walking(l)

LookupIInv == WalkIInv /\ mountedSubvol \in Volumes /\ LookupInv

(* Follow, given the tree.                                                 *)
FollowIn(v, d, n) ==
    LET named == {l[2] : l \in {k \in LinksOf(v) : k[1] = d.objectID /\ k[2].name = n}}
        entry == CHOOSE e \in named : TRUE
    IN  CASE d = Nowhere \/ named = {} -> Nowhere
          [] d # Nowhere /\ named # {} ->
                IF entry.isSubvolume THEN FileID(entry.child, OBJID_ROOT_DIR)
                ELSE FileID(d.treeID, entry.child)

(* What depends on the mounted subvolume only.                             *)
LEMMA Steady ==
    ASSUME mountedSubvol' = mountedSubvol, NEW c
    PROVE  /\ Followed(c)' = Followed(c) /\ TreeOf(c)' = TreeOf(c)
           /\ IDs' = IDs /\ LookupRecords' = LookupRecords
           /\ Progress(c)' = Progress(c)
<1>1. \A d : TreeOf(d)' = TreeOf(d)
  BY DEF TreeOf
<1>2. \A d, n : Follow(d, n)' = Follow(d, n)
  <2> TAKE d, n
  <2>1. Follow(d, n) = FollowIn(TreeOf(d.treeID), d, n)
    BY Zenon DEF Follow, FollowIn
  <2>2. Follow(d, n)' = FollowIn(TreeOf(d.treeID)', d, n)
    BY Zenon DEF Follow, FollowIn
  <2>3. TreeOf(d.treeID)' = TreeOf(d.treeID)
    BY <1>1
  <2> QED
    BY <2>1, <2>2, <2>3, Zenon
<1>3. Followed(c)' = Followed(c)
  BY <1>2 DEF Followed
<1>4. Followed(c.components)' = Followed(c.components)
  BY <1>2 DEF Followed
<1>5. IDs' = IDs
  BY DEF IDs, Trees
<1> QED
  BY <1>1, <1>3, <1>4, <1>5 DEF LookupRecords, Progress

LEMMA LookupStates ==
    ASSUME LookupInv
    PROVE  /\ lookup.state = "none" <=> lookup = NoLookup
           /\ lookup.state \in {"none", "components", "walk", "found", "failed"}
  BY DEF LookupInv, LookupRecords, NoLookup

LEMMA LookupInitInv ==
    ASSUME LookupInit
    PROVE  LookupIInv
<1>1. Init /\ mountedSubvol = volume /\ lookup = NoLookup
  BY DEF LookupInit
<1>2. volume \in Volumes
  BY <1>1 DEF Init
<1> QED
  BY <1>1, <1>2, InitWalk DEF LookupIInv, LookupInv

LEMMA ComponentsTyped ==
    ASSUME NEW p \in Paths
    PROVE  componentizePath(p) \in Seq(Names \cup {NoName})
<1>1. p \in Seq(Names \cup {Sep}) /\ Len(p) \in 0 .. Len(p)
  BY PathElements
<1>2. PartsOf(p)[Len(p)] \in Seq(Names \cup {NoName})
  BY <1>1, PartsOfPath
<1>3. <<>> \in Seq(Names \cup {NoName})
  BY EmptySeq
<1> QED
  BY <1>2, <1>3 DEF componentizePath

(* A lookup starts at the root of the mounted subvolume.                   *)
LEMMA GetPathIDInv ==
    ASSUME LookupIInv, NEW p \in Paths, GetPathID(p)
    PROVE  LookupIInv'
<1>1. /\ lookup' = NewLookup(p) /\ volume' = mountedSubvol
      /\ pc' = "idle" /\ call' = NoCall /\ stack' = <<>>
      /\ returnCode' = 0 /\ shortCircuit' = FALSE /\ inode' = NoInode
      /\ name' = NoName /\ mountedSubvol' = mountedSubvol
  BY Zenon DEF GetPathID
<1>2. WalkIInv'
  <2>1. StackOK(volume', <<>>)
    BY EmptySeq DEF StackOK
  <2>2. Described(volume')
    BY <1>1, VolumesDescribed DEF LookupIInv
  <2>3. call'.op = "none"
    BY <1>1 DEF NoCall
  <2>4. WalkInv'
    BY <1>1, <2>1, <2>2 DEF WalkInv
  <2> QED
    BY <1>1, <2>3, <2>4 DEF WalkIInv, AllInv, NameInv, InodeInv, PkgInv, ListInv,
                            ListingComplete, Found, Done, Outputs
<1> DEFINE root == FileID(mountedSubvol.tree, OBJID_ROOT_DIR)
           c == componentizePath(p)
<1>3. /\ NewLookup(p).path = p /\ NewLookup(p).components = c
      /\ NewLookup(p).i = 1 /\ NewLookup(p).fileID = root /\ NewLookup(p).childID = root
      /\ NewLookup(p).state = "components"
  BY DEF NewLookup
<1>4. root \in IDs /\ c \in Seq(Names \cup {NoName}) /\ Len(c) \in Nat
  BY ComponentsTyped, RootDirNatural DEF IDs, FileID, Trees
<1>5. NewLookup(p) \in LookupRecords
  BY <1>4 DEF NewLookup, LookupRecords
<1>6. Followed(c)[0] = root
  BY <1>4, FollowedNames DEF LookupIInv
<1>7. Progress(NewLookup(p))
  BY <1>3, <1>4, <1>6 DEF Progress
<1>8. \E l \in LookupRecords : l = NewLookup(p) /\ Progress(l) /\ l.state = "components"
  BY <1>3, <1>5, <1>7
<1>9. PICK l \in LookupRecords : l = NewLookup(p) /\ Progress(l) /\ l.state = "components"
  BY <1>8
<1>10. lookup' = l /\ l \in LookupRecords' /\ Progress(l)' /\ Walking(l)'
  BY <1>1, <1>9, Steady DEF Walking
<1>11. LookupInv'
  BY <1>10 DEF LookupInv
<1> QED
  BY <1>1, <1>2, <1>11 DEF LookupIInv

LEMMA RecordFields ==
    ASSUME NEW l \in LookupRecords
    PROVE  /\ l.path \in Paths /\ l.components \in Seq(Names \cup {NoName})
           /\ Len(l.components) \in Nat /\ l.i \in Nat
           /\ l.fileID \in IDs /\ l.childID \in IDs
           /\ l.state \in {"components", "walk", "found", "failed"}
<1>1. /\ l.path \in Paths /\ l.components \in Seq(Names \cup {NoName})
      /\ l.i \in Nat /\ l.fileID \in IDs /\ l.childID \in IDs
      /\ l.state \in {"components", "walk", "found", "failed"}
  BY DEF LookupRecords
<1> QED
  BY <1>1

(* The walk for a component starts in the directory reached so far.        *)
LEMMA LookUpComponentInv ==
    ASSUME LookupIInv, LookUpComponent
    PROVE  LookupIInv'
<1>1. lookup.state = "components" /\ mountedSubvol' = mountedSubvol
  BY Zenon DEF LookUpComponent
<1>2. PICK l \in LookupRecords : lookup = l /\ Progress(l)
  BY <1>1 DEF LookupIInv, LookupInv, NoLookup
<1> DEFINE d == l.childID
           v == TreeOf(d.treeID)
           n == l.components[l.i]
           m == [l EXCEPT !.state = "walk", !.fileID = l.childID]
<1>3. l.i <= Len(l.components) /\ NameToID(v, d.objectID, n) /\ lookup' = m
  BY <1>2, Zenon DEF LookUpComponent
<1>4. d \in IDs /\ d.treeID \in Trees /\ Described(v)
  BY <1>2, RecordFields, TreeKnown DEF IDs, LookupIInv
<1>5. PICK w : w = v
  OBVIOUS
<1>6. NameToID(w, d.objectID, n) /\ Described(w)
  BY <1>3, <1>4, <1>5
<1>7. WalkIInv'
  BY <1>6, NameCallWalk
<1>8. m \in LookupRecords
  BY <1>2 DEF LookupRecords
<1>9. /\ m.path = l.path /\ m.components = l.components /\ m.i = l.i
      /\ m.fileID = d /\ m.childID = d /\ m.state = "walk"
  BY <1>2 DEF LookupRecords
<1>10. Progress(m)
  BY <1>2, <1>9 DEF Progress
<1> HIDE DEF m
<1>11. volume' = v /\ call' = [op |-> "NAME_TO_ID", parentID |-> d.objectID, name |-> n]
  BY <1>3, Zenon DEF NameToID, Enter
<1>12. Walking(m)'
  <2>1. TreeOf(d.treeID)' = TreeOf(d.treeID)
    BY <1>1, Steady
  <2>2. /\ call'.op = "NAME_TO_ID" /\ call'.parentID = d.objectID /\ call'.name = n
        /\ volume' = TreeOf(d.treeID)'
    BY <1>11, <2>1
  <2>3. m.i <= Len(m.components) /\ n = m.components[m.i]
    BY <1>3, <1>9
  <2> QED
    BY <1>9, <2>2, <2>3 DEF Walking
<1>13. m \in LookupRecords' /\ Progress(m)'
  BY <1>1, <1>8, <1>10, Steady
<1> QED
  BY <1>1, <1>3, <1>7, <1>12, <1>13 DEF LookupIInv, LookupInv

(* What the walk found is where the component leads.                       *)
LEMMA WalkFollows ==
    ASSUME WalkIInv, mountedSubvol \in Volumes, NEW l \in LookupRecords,
           Walking(l), l.state = "walk", pc = "done"
    PROVE  LET d == l.fileID
               n == l.components[l.i]
           IN  /\ returnCode # 0 => Follow(d, n) = Nowhere
               /\ returnCode = 0 => /\ n \in Names
                                    /\ ChildOf(childID, d.treeID) = Follow(d, n)
                                    /\ Follow(d, n) \in IDs
<1> DEFINE d == l.fileID
           n == l.components[l.i]
<1>1. /\ volume = TreeOf(d.treeID) /\ call.op = "NAME_TO_ID"
      /\ call.parentID = d.objectID /\ call.name = n
  BY DEF Walking
<1>2. WalkInv /\ NameInv /\ Rest = {} /\ Described(volume)
  BY NothingLeft DEF WalkIInv, AllInv, WalkInv
<1>3. d \in IDs /\ Links = LinksOf(TreeOf(d.treeID))
  BY <1>1, RecordFields DEF Links
<1>4. ASSUME returnCode # 0
      PROVE  Follow(d, n) = Nowhere
  <2>1. \A x \in Items : ~HasName(x)
    BY <1>1, <1>2, <1>4 DEF NameInv
  <2>2. \A k \in Links : ~(k[1] = d.objectID /\ k[2].name = n)
    <3> SUFFICES ASSUME NEW k \in Links, k[1] = d.objectID, k[2].name = n
                 PROVE  FALSE
      OBVIOUS
    <3>1. PICK x \in Items : x.type = "DIR_ITEM" /\ k[2] \in ToSet(x.entries)
                             /\ k[1] = x.objectID
      BY ItemOfLink
    <3>2. HasName(x)
      BY <1>1, <3>1 DEF HasName
    <3> QED
      BY <2>1, <3>2
  <2> QED
    BY <1>3, <2>2, FollowNone
<1>5. ASSUME returnCode = 0
      PROVE  /\ n \in Names /\ ChildOf(childID, d.treeID) = Follow(d, n)
             /\ Follow(d, n) \in IDs
  <2>1. PICK k \in Links : /\ k[1] = d.objectID /\ k[2].name = n
                           /\ childID = [objectID |-> k[2].child,
                                         isSubvolume |-> k[2].isSubvolume]
    BY <1>1, <1>2, <1>5 DEF NameInv
  <2>2. n \in Names
    BY <1>2, <2>1, LinkFields, EntryFields DEF Links
  <2>3. Follow(d, n) = LeadsTo(k[2], d.treeID) /\ LeadsTo(k[2], d.treeID) \in IDs
    BY <1>3, <2>1, FollowLink
  <2>4. ChildOf(childID, d.treeID) = LeadsTo(k[2], d.treeID)
    BY <2>1 DEF ChildOf, LeadsTo
  <2> QED
    BY <2>2, <2>3, <2>4
<1> QED
  BY <1>4, <1>5

(* What the walk has found stays while nothing walks.                      *)
LEMMA WalkSteady ==
    ASSUME WalkIInv, UNCHANGED vars
    PROVE  WalkIInv'
<1>1. /\ volume' = volume /\ pc' = pc /\ call' = call /\ stack' = stack
      /\ returnCode' = returnCode /\ shortCircuit' = shortCircuit
      /\ childID' = childID /\ inode' = inode /\ name' = name
      /\ extents' = extents /\ entries' = entries
  BY Zenon DEF vars, output
<1>2. Rest' = Rest /\ Items' = Items /\ Links' = Links
  BY <1>1 DEF Rest, Items, Links
<1>3. WalkInv' /\ Outputs'
  BY <1>1 DEF WalkIInv, AllInv, WalkInv, Outputs
<1>4. NameInv' /\ InodeInv'
  BY <1>1, <1>2 DEF WalkIInv, AllInv, NameInv, InodeInv, HasName
<1>5. PkgInv'
  <2>1. \A c : ExtentsOf(c)' = ExtentsOf(c) /\ LinksTo(c)' = LinksTo(c)
    BY <1>2 DEF ExtentsOf, LinksTo
  <2>2. Pending' = Pending
    BY <1>1, <1>2 DEF Pending
  <2> QED
    BY <1>1, <1>2, <2>1, <2>2 DEF WalkIInv, AllInv, PkgInv
<1>6. (\A e : NewEntry(e)' = NewEntry(e)) /\ (\A e : Listed(e)' = Listed(e))
  BY <1>1 DEF NewEntry, Listed
<1>7. ListInv'
  <2>1. \A c : Visited(c)' = Visited(c)
    BY <1>2 DEF Visited
  <2>2. Listing' = Listing /\ Unfilled' = Unfilled
    BY <1>1 DEF Listing, Unfilled
  <2> QED
    BY <1>1, <1>2, <1>6, <2>1, <2>2 DEF WalkIInv, AllInv, ListInv
<1>8. ListingComplete'
  BY <1>1, <1>2, <1>6 DEF WalkIInv, ListingComplete, Found, Done
<1> QED
  BY <1>3, <1>4, <1>5, <1>7, <1>8 DEF WalkIInv, AllInv

LEMMA TakeChildInv ==
    ASSUME LookupIInv, TakeChild
    PROVE  LookupIInv'
<1>1. /\ lookup.state = "walk" /\ pc = "done" /\ mountedSubvol' = mountedSubvol
      /\ UNCHANGED vars
  BY Zenon DEF TakeChild
<1>2. PICK l \in LookupRecords : lookup = l /\ Progress(l) /\ Walking(l)
  BY <1>1 DEF LookupIInv, LookupInv, NoLookup
<1> DEFINE d == l.fileID
           n == l.components[l.i]
           ids == Followed(l.components)
           next == ChildOf(childID, d.treeID)
           failed == [l EXCEPT !.state = "failed"]
           moved == [l EXCEPT !.state = "components", !.i = @ + 1, !.childID = next]
           m == IF returnCode # 0 THEN failed ELSE moved
<1>3. lookup' = m
  BY <1>2, Zenon DEF TakeChild
<1>4. l.state = "walk" /\ l.i \in 1 .. Len(l.components) /\ Len(l.components) \in Nat
      /\ l.components \in Seq(Names \cup {NoName}) /\ d \in IDs
  BY <1>1, <1>2, RecordFields DEF Walking, Progress
<1>5. /\ returnCode # 0 => Follow(d, n) = Nowhere
      /\ returnCode = 0 => n \in Names /\ next = Follow(d, n) /\ next \in IDs
  BY <1>1, <1>2, <1>4, WalkFollows DEF LookupIInv
<1>6. ids[l.i] = Follow(d, n) /\ d = ids[l.i - 1] /\ d = l.childID
  <2>1. ids[l.i] = Follow(ids[l.i - 1], l.components[l.i])
    BY <1>4, FollowedNames DEF LookupIInv
  <2>2. d = ids[l.i - 1] /\ d = l.childID
    BY <1>2, <1>4 DEF Progress
  <2> QED
    BY <2>1, <2>2
<1> HIDE DEF next
<1>7. ASSUME returnCode # 0
      PROVE  \E r \in LookupRecords : lookup' = r /\ Progress(r) /\ r.state # "walk"
  <2>1. /\ failed.path = l.path /\ failed.components = l.components /\ failed.i = l.i
        /\ failed.fileID = d /\ failed.childID = l.childID /\ failed.state = "failed"
        /\ failed \in LookupRecords
    BY <1>2 DEF LookupRecords
  <2> HIDE DEF failed
  <2>2. Progress(failed)
    BY <1>2, <1>4, <1>5, <1>6, <1>7, <2>1 DEF Progress
  <2>3. lookup' = failed
    BY <1>3, <1>7
  <2> QED
    BY <2>1, <2>2, <2>3
<1>8. ASSUME returnCode = 0
      PROVE  \E r \in LookupRecords : lookup' = r /\ Progress(r) /\ r.state # "walk"
  <2>1. /\ moved.path = l.path /\ moved.components = l.components /\ moved.i = l.i + 1
        /\ moved.fileID = d /\ moved.childID = next /\ moved.state = "components"
        /\ moved \in LookupRecords
    <3>1. next \in IDs /\ l.i + 1 \in Nat
      BY <1>4, <1>5, <1>8
    <3> QED
      BY <1>2, <3>1 DEF LookupRecords
  <2> HIDE DEF moved
  <2>2. Progress(moved)
    <3>1. \A k \in 1 .. moved.i - 1 : k = l.i \/ k \in 1 .. l.i - 1
      BY <1>4, <2>1
    <3>2. moved.i - 1 = l.i /\ moved.i - 2 = l.i - 1 /\ moved.i # 1
          /\ moved.i \in 1 .. Len(l.components) + 1
      BY <1>4, <2>1
    <3>3. \A k \in 1 .. moved.i - 1 : moved.components[k] \in Names
      BY <1>2, <1>5, <1>8, <2>1, <3>1 DEF Progress
    <3>4. moved.childID = ids[moved.i - 1] /\ moved.fileID = ids[moved.i - 2]
      BY <1>5, <1>6, <1>8, <2>1, <3>2
    <3>5. moved.components = componentizePath(moved.path)
      BY <1>2, <2>1 DEF Progress
    <3> QED
      BY <2>1, <3>2, <3>3, <3>4, <3>5 DEF Progress
  <2>3. lookup' = moved
    BY <1>3, <1>8
  <2> QED
    BY <2>1, <2>2, <2>3
<1>9. PICK r \in LookupRecords : lookup' = r /\ Progress(r) /\ r.state # "walk"
  BY <1>7, <1>8
<1>10. r \in LookupRecords' /\ Progress(r)' /\ Walking(r)'
  BY <1>1, <1>9, Steady DEF Walking
<1>11. LookupInv'
  BY <1>9, <1>10 DEF LookupInv
<1> QED
  BY <1>1, <1>11, WalkSteady DEF LookupIInv

LEMMA ReturnIDsInv ==
    ASSUME LookupIInv, ReturnIDs
    PROVE  LookupIInv'
<1>1. /\ lookup.state = "components" /\ lookup.i > Len(lookup.components)
      /\ lookup' = [lookup EXCEPT !.state = "found"]
      /\ UNCHANGED vars /\ mountedSubvol' = mountedSubvol
  BY Zenon DEF ReturnIDs
<1>2. PICK l \in LookupRecords : lookup = l /\ Progress(l)
  BY <1>1 DEF LookupIInv, LookupInv, NoLookup
<1> DEFINE m == [l EXCEPT !.state = "found"]
<1>3. /\ m \in LookupRecords /\ m.path = l.path /\ m.components = l.components
      /\ m.i = l.i /\ m.fileID = l.fileID /\ m.childID = l.childID /\ m.state = "found"
  BY <1>2 DEF LookupRecords
<1>4. lookup' = m /\ l.i = Len(l.components) + 1 /\ l.state = "components"
  BY <1>1, <1>2, RecordFields DEF Progress
<1> HIDE DEF m
<1>5. Progress(m)
  BY <1>2, <1>3, <1>4 DEF Progress
<1>6. m \in LookupRecords' /\ Progress(m)' /\ Walking(m)'
  BY <1>1, <1>3, <1>5, Steady DEF Walking
<1>7. LookupInv'
  BY <1>4, <1>6 DEF LookupInv
<1> QED
  BY <1>1, <1>7, WalkSteady DEF LookupIInv

LEMMA LookupWalkInv ==
    ASSUME LookupIInv, Walk, UNCHANGED <<mountedSubvol, lookup>>
    PROVE  LookupIInv'
<1>1. volume' = volume /\ call' = call
  BY Zenon DEF Walk, NameToIDItem, JumpOut, GetFilePkgItem, DirListItem,
               GetInodeItem, Recurse, ReturnFromNode, Finish
<1>2. WalkIInv'
  BY StepWalk DEF LookupIInv
<1>3. CASE lookup = NoLookup
  BY <1>2, <1>3 DEF LookupIInv, LookupInv
<1>4. CASE lookup # NoLookup
  <2>1. PICK l \in LookupRecords : lookup = l /\ Progress(l) /\ Walking(l)
    BY <1>4 DEF LookupIInv, LookupInv
  <2>2. TreeOf(l.fileID.treeID)' = TreeOf(l.fileID.treeID)
    BY Steady
  <2>3. l \in LookupRecords' /\ Progress(l)' /\ Walking(l)'
    BY <1>1, <2>1, <2>2, Steady DEF Walking
  <2>4. LookupInv'
    BY <2>1, <2>3 DEF LookupInv
  <2> QED
    BY <1>2, <2>4 DEF LookupIInv
<1> QED
  BY <1>3, <1>4

LEMMA LookupNextInv ==
    ASSUME LookupIInv, [LookupNext]_lookupVars
    PROVE  LookupIInv'
<1>1. CASE Call /\ lookup' = NoLookup /\ UNCHANGED mountedSubvol
  BY <1>1, CallWalk DEF LookupIInv, LookupInv
<1>2. CASE \E p \in Paths : GetPathID(p)
  BY <1>2, GetPathIDInv
<1>3. CASE UNCHANGED lookupVars
  <2>1. UNCHANGED vars /\ mountedSubvol' = mountedSubvol /\ lookup' = lookup
    BY <1>3 DEF lookupVars
  <2>2. volume' = volume /\ call' = call
    BY <2>1 DEF vars
  <2>3. WalkIInv'
    BY <2>1, WalkSteady DEF LookupIInv
  <2>4. LookupInv'
    <3>1. CASE lookup = NoLookup
      BY <2>1, <3>1 DEF LookupInv
    <3>2. CASE lookup # NoLookup
      <4>1. PICK l \in LookupRecords : lookup = l /\ Progress(l) /\ Walking(l)
        BY <3>2 DEF LookupIInv, LookupInv
      <4>2. TreeOf(l.fileID.treeID)' = TreeOf(l.fileID.treeID)
        BY <2>1, Steady
      <4>3. l \in LookupRecords' /\ Progress(l)' /\ Walking(l)'
        BY <2>1, <2>2, <4>1, <4>2, Steady DEF Walking
      <4> QED
        BY <2>1, <4>1, <4>3 DEF LookupInv
    <3> QED
      BY <3>1, <3>2
  <2> QED
    BY <2>1, <2>3, <2>4 DEF LookupIInv
<1> QED
  BY <1>1, <1>2, <1>3, LookUpComponentInv, TakeChildInv, ReturnIDsInv, LookupWalkInv
     DEF LookupNext, LookupStep

----------------------------------------------------------------------------
(***************************************************************************)
(* The theorems                                                            *)
(***************************************************************************)

(* The invariant behind all of them holds of every lookup and every walk.  *)
THEOREM LookupInductive == LookupSpec => []LookupIInv
<1>1. LookupInit => LookupIInv
  BY LookupInitInv
<1>2. LookupIInv /\ [LookupNext]_lookupVars => LookupIInv'
  BY LookupNextInv
<1> QED
  BY <1>1, <1>2, PTL DEF LookupSpec

(* The types of the walk and of the lookup: in particular the depth of the *)
(* stack is that of the node the walk is at, and a lookup never leaves the *)
(* trees that there are (btrfs_operations.cpp:119-143).                    *)
THEOREM LookupTypes == LookupSpec => []LookupTypeOK
<1>1. LookupIInv => LookupTypeOK
  <2> SUFFICES ASSUME LookupIInv
               PROVE  LookupTypeOK
    OBVIOUS
  <2>1. WalkInv /\ Outputs
    BY DEF LookupIInv, WalkIInv, AllInv
  <2>2. stack # <<>> => header.level = volume.nodes[volume.root].level + 1 - Len(stack)
    BY <2>1, StackElements DEF WalkInv, Described, header
  <2>3. TypeOK
    BY <2>1, <2>2 DEF TypeOK, WalkInv, Outputs
  <2>4. InLookup => /\ lookup.i \in 1 .. Len(lookup.components) + 1
                    /\ lookup.childID.treeID \in Trees
    <3> SUFFICES ASSUME InLookup
                 PROVE  /\ lookup.i \in 1 .. Len(lookup.components) + 1
                        /\ lookup.childID.treeID \in Trees
      OBVIOUS
    <3>1. lookup # NoLookup
      BY DEF InLookup, NoLookup
    <3>2. PICK l \in LookupRecords : lookup = l /\ Progress(l)
      BY <3>1 DEF LookupIInv, LookupInv
    <3>3. l.i \in 1 .. Len(l.components) + 1 /\ l.childID.treeID \in Trees
      BY <3>2, RecordFields DEF Progress, IDs
    <3> QED
      BY <3>2, <3>3
  <2>5. lookup.state \in {"none", "components", "walk", "found", "failed"}
    BY LookupStates DEF LookupIInv
  <2> QED
    BY <2>3, <2>4, <2>5 DEF LookupTypeOK, Trees
<1> QED
  BY <1>1, LookupInductive, PTL

(* A name is found exactly when the directory has it                       *)
(* (fstree_parser.cpp:51-83).                                              *)
THEOREM NameIsFound == LookupSpec => []NameFound
<1>1. LookupIInv => NameFound
  <2> SUFFICES ASSUME LookupIInv, Done("NAME_TO_ID")
               PROVE  NameFound
    BY DEF NameFound
  <2>1. WalkInv /\ NameInv /\ Rest = {} /\ call.op = "NAME_TO_ID"
    BY NothingLeft DEF LookupIInv, WalkIInv, AllInv, Done
  <2> DEFINE children == {l[2] : l \in {k \in Links :
                            k[1] = call.parentID /\ k[2].name = call.name}}
  <2>2. CASE shortCircuit
    <3>1. PICK l \in Links :
             /\ l[1] = call.parentID /\ l[2].name = call.name
             /\ childID = [objectID |-> l[2].child, isSubvolume |-> l[2].isSubvolume]
      BY <2>1, <2>2 DEF NameInv
    <3>2. returnCode = 0 /\ l[2] \in children
      BY <2>1, <2>2, <3>1 DEF NameInv
    <3> HIDE DEF children
    <3>3. /\ children # {} /\ returnCode = 0
          /\ \E e \in children :
                childID = [objectID |-> e.child, isSubvolume |-> e.isSubvolume]
      BY <3>1, <3>2
    <3> QED
      BY <3>3 DEF NameFound, children
  <2>3. CASE ~shortCircuit
    <3>1. returnCode = 1 /\ \A x \in Items : ~HasName(x)
      BY <2>1, <2>3 DEF NameInv
    <3>2. children = {}
      <4> SUFFICES ASSUME NEW k \in Links, k[1] = call.parentID, k[2].name = call.name
                   PROVE  FALSE
        OBVIOUS
      <4>1. PICK x \in Items : x.type = "DIR_ITEM" /\ k[2] \in ToSet(x.entries)
                               /\ k[1] = x.objectID
        BY ItemOfLink
      <4> QED
        BY <3>1, <4>1 DEF HasName
    <3> QED
      BY <3>1, <3>2 DEF NameFound
  <2> QED
    BY <2>2, <2>3
<1> QED
  BY <1>1, LookupInductive, PTL

(* Every inode of the tree is found: jumping out past the object ID loses  *)
(* none (fstree_parser.cpp:365-370).                                       *)
THEOREM InodeIsFound == LookupSpec => []InodeFound
<1>1. LookupIInv => InodeFound
  <2> SUFFICES ASSUME LookupIInv, Done("GET_INODE")
               PROVE  InodeFound
    BY DEF InodeFound
  <2>1. WalkInv /\ InodeInv /\ Rest = {} /\ call.op = "GET_INODE"
    BY NothingLeft DEF LookupIInv, WalkIInv, AllInv, Done
  <2> QED
    BY <2>1 DEF InodeFound, InodeInv
<1> QED
  BY <1>1, LookupInductive, PTL

(* A FilePkg that is reported complete is about one file: its inode, all   *)
(* its extents in order and one of its names (fstree_parser.cpp:223-286).  *)
THEOREM FilePkgIsRight == LookupSpec => []FilePkgRight
<1>1. LookupIInv => FilePkgRight
  <2> SUFFICES ASSUME LookupIInv, Found("GET_FILE_PKG")
               PROVE  FilePkgRight
    BY DEF FilePkgRight, FilePkgComplete, FilePkgNamed
  <2>1. /\ WalkInv /\ PkgInv /\ Rest = {} /\ call.op = "GET_FILE_PKG"
        /\ returnCode = 0
    BY NothingLeft DEF LookupIInv, WalkIInv, AllInv, Found, Done
  <2>2. Pending = {}
    BY <2>1 DEF Pending
  <2>3. {x.offset : x \in Pending} = {}
    BY <2>2
  <2>4. FilePkgComplete
    BY <2>1, <2>3 DEF PkgInv, FilePkgComplete
  <2>5. FilePkgNamed
    BY <2>1 DEF PkgInv, FilePkgNamed
  <2> QED
    BY <2>4, <2>5 DEF FilePkgRight
<1> QED
  BY <1>1, LookupInductive, PTL

(* A listing that is reported complete has an entry with the right inode   *)
(* for each entry of the directory, and no other, although only a count of *)
(* what is missing is kept (fstree_parser.cpp:297-345, 507-536).           *)
THEOREM ListingIsComplete == LookupSpec => []ListingComplete
<1>1. LookupIInv => ListingComplete
  BY DEF LookupIInv, WalkIInv
<1> QED
  BY <1>1, LookupInductive, PTL

(* A path leads to the object its names do, through any number of          *)
(* subvolumes, and if a name is missing the lookup fails; for any path     *)
(* Dokan may give and trees of any shape (btrfs_operations.cpp:53-143).    *)
THEOREM LookupIsRight == LookupSpec => []LookupRight
<1>1. LookupIInv => LookupRight
  <2> SUFFICES ASSUME LookupIInv, lookup.state \in {"found", "failed"}
               PROVE  LookupRight
    BY DEF LookupRight
  <2>1. PICK l \in LookupRecords : lookup = l /\ Progress(l)
    BY DEF LookupIInv, LookupInv, NoLookup
  <2> DEFINE names == NamesIn(l.path)
             target == Resolve(names)
             parent == IF names = <<>> THEN target ELSE Resolve(Front(names))
             ids == Followed(l.components)
             n == Len(l.components)
  <2>2. /\ l.path \in Paths /\ l.components \in Seq(Names \cup {NoName}) /\ n \in Nat
        /\ l.childID \in IDs /\ mountedSubvol \in Volumes
        /\ l.components = componentizePath(l.path)
        /\ l.i \in 1 .. n + 1
    BY <2>1, RecordFields DEF Progress, LookupIInv
  <2>3. (\A k \in 1 .. n : l.components[k] \in Names) => l.components = names
    BY <2>2, ComponentsAreNames
  <2>4. Validated(l.path) => l.components = names
    BY <2>2, <2>3, ValidatedComponents
  <2>5. CASE l.state = "found"
    <3>1. l.i = n + 1 /\ l.childID = ids[n] /\ \A k \in 1 .. n : l.components[k] \in Names
      BY <2>1, <2>2, <2>5 DEF Progress
    <3>2. l.components = names /\ l.childID = target
      BY <2>3, <3>1 DEF Resolve
    <3>3. target # Nowhere
      <4>1. l.childID.objectID \in Nat
        BY <2>2 DEF IDs
      <4>2. Nowhere.objectID = -1
        BY DEF Nowhere, FileID
      <4> QED
        BY <3>2, <4>1, <4>2
    <3>4. l.fileID = parent
      <4>1. CASE n = 0
        <5>1. l.fileID = l.childID /\ names = <<>>
          BY <2>1, <2>2, <3>1, <3>2, <4>1 DEF Progress
        <5> QED
          BY <3>2, <5>1
      <4>2. CASE n # 0
        <5>1. l.i # 1 /\ l.i - 2 = n - 1 /\ names # <<>>
          BY <2>2, <3>1, <3>2, <4>2
        <5>2. l.fileID = ids[n - 1]
          BY <2>1, <2>5, <5>1 DEF Progress
        <5>3. Resolve(Front(names)) = ids[n - 1]
          BY <2>2, <3>2, <5>1, ResolveFront
        <5> QED
          BY <5>1, <5>2, <5>3
      <4> QED
        BY <4>1, <4>2
    <3> HIDE DEF names, target, parent
    <3> QED
      BY <2>1, <2>5, <3>2, <3>3, <3>4 DEF LookupRight, names, target, parent
  <2>6. CASE l.state = "failed"
    <3>1. l.i \in 1 .. n /\ ids[l.i] = Nowhere
      BY <2>1, <2>2, <2>6 DEF Progress
    <3>2. Resolve(l.components) = Nowhere
      BY <2>2, <3>1, LostForGood
    <3>3. Validated(l.path) => target = Nowhere
      BY <2>4, <3>2
    <3> HIDE DEF names, target, parent
    <3> QED
      BY <2>1, <2>6, <3>3 DEF LookupRight, names, target, parent
  <2> QED
    BY <2>1, <2>5, <2>6
<1> QED
  BY <1>1, LookupInductive, PTL

=============================================================================
