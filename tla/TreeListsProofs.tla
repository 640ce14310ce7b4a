--------------------------- MODULE TreeListsProofs ---------------------------
(***************************************************************************)
(* Proofs about TreeLists and what follows its calls.  The two overlays     *)
(* agree, the loops of the handlers do what DomTree promises, following the *)
(* records of MutationLog rebuilds the lists, and the stamps of             *)
(* StyleGenerations are never too old for what was changed.  The loops are  *)
(* followed as changes of the parents and of the sibling order, not of the  *)
(* lists.                                                                   *)
(***************************************************************************)
EXTENDS MutationLog, StyleGenerations, ListFacts, FiniteSetTheorems

\* A record of both overlays that agree.
Fields == {"parent", "children", "steps"}
Whole(t) == t = [f \in Fields |-> t[f]]

\* The types of the overlays.
Shaped(t) ==
  /\ Whole(t)
  /\ t.parent \in [Node -> Node \cup {None}]
  /\ t.children \in [Node -> Seq(Node)]

\* Those whose parent is p.
KidsOf(t, p) == {c \in Node : t.parent[c] = p}

\* Every child list is one-to-one and lists the children.
Paired(t) ==
  \A p \in Node : IsInjective(t.children[p]) /\ ToSet(t.children[p]) = KidsOf(t, p)

\* Overlays that agree.
Fit(t) == Shaped(t) /\ Paired(t)

\* The sibling order.
Ord(t) == ListOrder(t.children)

\* Two nodes are in order when one list has them in order.
LEMMA OrderIs ==
  ASSUME NEW lists, \A p \in Node : lists[p] \in Seq(Node)
  PROVE  /\ \A a, b : <<a, b>> \in ListOrder(lists) <=> \E p \in Node : Precedes(lists[p], a, b)
         /\ ListOrder(lists) \subseteq Node \X Node
<1> DEFINE Pairs(p) == {ij \in (DOMAIN lists[p]) \X (DOMAIN lists[p]) : ij[1] < ij[2]}
           Of(p) == {<<lists[p][ij[1]], lists[p][ij[2]]>> : ij \in Pairs(p)}
<1>1. ListOrder(lists) = UNION {Of(p) : p \in Node}
  BY DEF ListOrder
<1>2. ASSUME NEW p \in Node, NEW a, NEW b
      PROVE  <<a, b>> \in Of(p) <=> Precedes(lists[p], a, b)
  <2>1. ASSUME <<a, b>> \in Of(p) PROVE Precedes(lists[p], a, b)
    <3>1. PICK ij \in Pairs(p) : <<a, b>> = <<lists[p][ij[1]], lists[p][ij[2]]>>
      BY <2>1
    <3> QED BY <3>1 DEF Precedes
  <2>2. ASSUME Precedes(lists[p], a, b) PROVE <<a, b>> \in Of(p)
    <3>1. PICK i, j \in DOMAIN lists[p] : i < j /\ lists[p][i] = a /\ lists[p][j] = b
      BY <2>2 DEF Precedes
    <3>2. <<i, j>> \in Pairs(p)
      BY <3>1
    <3>3. <<lists[p][<<i, j>>[1]], lists[p][<<i, j>>[2]]>> \in Of(p)
      BY <3>2
    <3> QED BY <3>1, <3>3
  <2> QED BY <2>1, <2>2
<1>3. ASSUME NEW p \in Node PROVE Of(p) \subseteq Node \X Node
  <2>1. \A i \in DOMAIN lists[p] : lists[p][i] \in Node
    OBVIOUS
  <2> QED BY <2>1
<1> HIDE DEF Of
<1> QED
  BY <1>1, <1>2, <1>3

\* The same, of a tree whose overlays agree.
LEMMA TreeOrder ==
  ASSUME NEW t, Fit(t), NEW a, NEW b
  PROVE  <<a, b>> \in Ord(t) <=>
           /\ a \in Node /\ b \in Node /\ t.parent[a] \in Node
           /\ t.parent[b] = t.parent[a] /\ Precedes(t.children[t.parent[a]], a, b)
<1>1. \A p \in Node : t.children[p] \in Seq(Node) /\ ToSet(t.children[p]) = KidsOf(t, p)
  BY DEF Fit, Shaped, Paired
<1>2. <<a, b>> \in Ord(t) <=> \E p \in Node : Precedes(t.children[p], a, b)
  BY <1>1, OrderIs DEF Ord
<1>3. \A p \in Node : Precedes(t.children[p], a, b) => a \in KidsOf(t, p) /\ b \in KidsOf(t, p)
  BY <1>1 DEF Precedes, ToSet
<1> QED
  BY <1>2, <1>3 DEF KidsOf

\* It is one strict order of the children of each parent.
LEMMA OneOrder ==
  ASSUME NEW t, Fit(t)
  PROVE  /\ \A a, b : <<a, b>> \in Ord(t) =>
              /\ a \in Node /\ b \in Node /\ t.parent[a] \in Node /\ t.parent[b] = t.parent[a]
              /\ a # b /\ <<b, a>> \notin Ord(t)
         /\ \A a, b \in Node : a # b /\ t.parent[a] = t.parent[b] /\ t.parent[a] \in Node =>
              <<a, b>> \in Ord(t) \/ <<b, a>> \in Ord(t)
         /\ \A a, b, c : <<a, b>> \in Ord(t) /\ <<b, c>> \in Ord(t) => <<a, c>> \in Ord(t)
         /\ Ord(t) \subseteq Node \X Node
<1> DEFINE L(a) == t.children[t.parent[a]]
<1>1. \A p \in Node : /\ t.children[p] \in Seq(Node) /\ ToSet(t.children[p]) = KidsOf(t, p)
                      /\ IsInjective(t.children[p])
  BY DEF Fit, Shaped, Paired
<1>2. \A p \in Node : DOMAIN t.children[p] \subseteq Nat
  BY <1>1
<1>3. ASSUME NEW p \in Node, NEW a, NEW b, Precedes(t.children[p], a, b)
      PROVE  a # b /\ ~Precedes(t.children[p], b, a)
  <2>1. PICK i, j \in DOMAIN t.children[p] : i < j /\ t.children[p][i] = a /\ t.children[p][j] = b
    BY <1>3 DEF Precedes
  <2>2. i \in Nat /\ j \in Nat /\ i # j /\ ~(j < i)
    BY <1>2, <2>1
  <2>3. \A k \in DOMAIN t.children[p] : /\ t.children[p][k] = a => k = i
                                        /\ t.children[p][k] = b => k = j
    BY <1>1, <2>1 DEF IsInjective
  <2>4. a # b
    BY <2>1, <2>2, <2>3
  <2>5. ASSUME Precedes(t.children[p], b, a) PROVE FALSE
    <3>1. PICK k, l \in DOMAIN t.children[p] : k < l /\ t.children[p][k] = b /\ t.children[p][l] = a
      BY <2>5 DEF Precedes
    <3>2. k = j /\ l = i
      BY <2>3, <3>1
    <3> QED BY <2>2, <3>1, <3>2
  <2> QED BY <2>4, <2>5
<1>4. ASSUME NEW p \in Node, NEW a \in KidsOf(t, p), NEW b \in KidsOf(t, p), a # b
      PROVE  Precedes(t.children[p], a, b) \/ Precedes(t.children[p], b, a)
  <2>1. PICK i, j \in DOMAIN t.children[p] : t.children[p][i] = a /\ t.children[p][j] = b
    BY <1>1, <1>4 DEF ToSet
  <2>2. i \in Nat /\ j \in Nat /\ i # j
    BY <1>2, <1>4, <2>1
  <2>3. i < j \/ j < i
    BY <2>2
  <2> QED BY <2>1, <2>3 DEF Precedes
<1>5. ASSUME NEW p \in Node, NEW a, NEW b, NEW c,
             Precedes(t.children[p], a, b), Precedes(t.children[p], b, c)
      PROVE  Precedes(t.children[p], a, c)
  <2>1. PICK i, j \in DOMAIN t.children[p] : i < j /\ t.children[p][i] = a /\ t.children[p][j] = b
    BY <1>5 DEF Precedes
  <2>2. PICK k, l \in DOMAIN t.children[p] : k < l /\ t.children[p][k] = b /\ t.children[p][l] = c
    BY <1>5 DEF Precedes
  <2>3. j = k
    BY <1>1, <2>1, <2>2 DEF IsInjective
  <2>4. i < l
    BY <1>2, <2>1, <2>2, <2>3
  <2> QED BY <2>1, <2>2, <2>4 DEF Precedes
<1>6. Ord(t) \subseteq Node \X Node
  BY <1>1, OrderIs DEF Ord
<1>7. ASSUME NEW a, NEW b, <<a, b>> \in Ord(t)
      PROVE  /\ a \in Node /\ b \in Node /\ t.parent[a] \in Node /\ t.parent[b] = t.parent[a]
             /\ a # b /\ <<b, a>> \notin Ord(t)
  <2>1. /\ a \in Node /\ b \in Node /\ t.parent[a] \in Node /\ t.parent[b] = t.parent[a]
        /\ Precedes(t.children[t.parent[a]], a, b)
    BY <1>7, TreeOrder
  <2>2. a # b /\ ~Precedes(t.children[t.parent[a]], b, a)
    BY <1>3, <2>1
  <2> QED BY <2>1, <2>2, TreeOrder
<1>8. ASSUME NEW a \in Node, NEW b \in Node, a # b, t.parent[a] = t.parent[b], t.parent[a] \in Node
      PROVE  <<a, b>> \in Ord(t) \/ <<b, a>> \in Ord(t)
  <2>1. a \in KidsOf(t, t.parent[a]) /\ b \in KidsOf(t, t.parent[a])
    BY <1>8 DEF KidsOf
  <2> QED BY <1>4, <1>8, <2>1, TreeOrder
<1>9. ASSUME NEW a, NEW b, NEW c, <<a, b>> \in Ord(t), <<b, c>> \in Ord(t)
      PROVE  <<a, c>> \in Ord(t)
  <2>1. /\ a \in Node /\ t.parent[a] \in Node /\ t.parent[b] = t.parent[a]
        /\ Precedes(t.children[t.parent[a]], a, b)
    BY <1>9, TreeOrder
  <2>2. c \in Node /\ t.parent[c] = t.parent[b] /\ Precedes(t.children[t.parent[b]], b, c)
    BY <1>9, TreeOrder
  <2>3. Precedes(t.children[t.parent[a]], a, c)
    BY <1>5, <2>1, <2>2
  <2> QED BY <2>1, <2>2, <2>3, TreeOrder
<1> QED
  BY <1>6, <1>7, <1>8, <1>9
-----------------------------------------------------------------------------
(* The primitives.                                                          *)

\* u is t after the nodes S have left their parents.
Parted(t, u, S) ==
  /\ Fit(u)
  /\ \A n \in Node : u.parent[n] = IF n \in S THEN None ELSE t.parent[n]
  /\ \A a, b : <<a, b>> \in Ord(u) <=> <<a, b>> \in Ord(t) /\ a \notin S /\ b \notin S

\* What is only noted changes no list.
LEMMA Noted ==
  ASSUME NEW t, Fit(t), NEW step
  PROVE  /\ Fit(Note(t, step)) /\ Ord(Note(t, step)) = Ord(t)
         /\ Note(t, step).parent = t.parent /\ Note(t, step).children = t.children
<1> DEFINE u == Note(t, step)
<1>1. Whole(t)
  BY DEF Fit, Shaped
<1>2. /\ u.parent = t.parent /\ u.children = t.children
      /\ Whole(u)
  BY <1>1 DEF Note, Whole, Fields
<1> HIDE DEF u
<1>3. Fit(u) /\ Ord(u) = Ord(t)
  BY <1>2 DEF Fit, Shaped, Paired, KidsOf, Ord
<1> QED
  BY <1>2, <1>3 DEF u

\* One node changes its parent to q, and the list of p is the one to change.
Rehangs(t, u, c, p, q, list) ==
  /\ c \in Node /\ p \in Node /\ q \in Node \cup {None}
  /\ list \in Seq(Node) /\ IsInjective(list) /\ ToSet(list) = KidsOf(u, p)
  /\ Whole(u)
  /\ u.parent = [t.parent EXCEPT ![c] = q] /\ u.children = [t.children EXCEPT ![p] = list]
  /\ \A o \in Node \ {p} : t.parent[c] # o /\ q # o

\* The overlays still agree when c has moved from p to q in both.
LEMMA Refitted ==
  ASSUME NEW t, Fit(t), NEW u, NEW c, NEW p, NEW q, NEW list, Rehangs(t, u, c, p, q, list)
  PROVE  Fit(u)
<1>1. /\ c \in Node /\ p \in Node /\ q \in Node \cup {None}
      /\ list \in Seq(Node) /\ IsInjective(list) /\ ToSet(list) = KidsOf(u, p)
      /\ Whole(u)
      /\ u.parent = [t.parent EXCEPT ![c] = q] /\ u.children = [t.children EXCEPT ![p] = list]
      /\ \A o \in Node \ {p} : t.parent[c] # o /\ q # o
  BY DEF Rehangs
<1>2. t.parent \in [Node -> Node \cup {None}] /\ t.children \in [Node -> Seq(Node)]
  BY DEF Fit, Shaped
<1>5. u.parent \in [Node -> Node \cup {None}] /\ u.children \in [Node -> Seq(Node)]
  BY <1>1, <1>2
<1>3. Shaped(u)
  BY <1>1, <1>5 DEF Shaped
<1>4. ASSUME NEW o \in Node
      PROVE  IsInjective(u.children[o]) /\ ToSet(u.children[o]) = KidsOf(u, o)
  <2>1. CASE o = p
    <3>1. u.children[o] = list
      BY <1>1, <1>2, <2>1
    <3> QED BY <1>1, <2>1, <3>1
  <2>2. CASE o # p
    <3>1. u.children[o] = t.children[o]
      BY <1>1, <1>2, <2>2
    <3>2. \A x \in Node : u.parent[x] = o <=> t.parent[x] = o
      BY <1>1, <1>2, <2>2
    <3>3. KidsOf(u, o) = KidsOf(t, o)
      BY <3>2 DEF KidsOf
    <3>4. IsInjective(t.children[o]) /\ ToSet(t.children[o]) = KidsOf(t, o)
      BY DEF Fit, Paired
    <3> QED BY <3>1, <3>3, <3>4
  <2> QED BY <2>1, <2>2
<1> QED
  BY <1>3, <1>4 DEF Fit, Paired

\* remove_child takes one node out of one list.
LEMMA UnlinkParts ==
  ASSUME NEW t, Fit(t), NEW p \in Node, NEW c \in Node, t.parent[c] = p, NEW logged
  PROVE  Parted(t, Unlink(t, p, c, logged), {c})
<1> DEFINE list == RemoveFirst(t.children[p], c)
           u == [t EXCEPT !.parent[c] = None, !.children[p] = RemoveFirst(@, c)]
           step == Step("remove", p, <<>>, <<c>>, PreviousSibling(t, c), NextSibling(t, c), logged)
<1>1. /\ Whole(t)
      /\ t.parent \in [Node -> Node \cup {None}] /\ t.children \in [Node -> Seq(Node)]
  BY DEF Fit, Shaped
<1>2. /\ t.children[p] \in Seq(Node) /\ IsInjective(t.children[p])
      /\ ToSet(t.children[p]) = KidsOf(t, p) /\ c \in ToSet(t.children[p])
  BY <1>1 DEF Fit, Paired, KidsOf
<1>4. /\ list \in Seq(Node) /\ IsInjective(list) /\ ToSet(list) = ToSet(t.children[p]) \ {c}
      /\ \A a, b : Precedes(list, a, b) <=> Precedes(t.children[p], a, b) /\ a # c /\ b # c
  BY <1>2, Removed
<1>5. Unlink(t, p, c, logged) = Note(u, step)
  BY DEF Unlink
<1>6. /\ u.parent = [t.parent EXCEPT ![c] = None]
      /\ u.children = [t.children EXCEPT ![p] = RemoveFirst(t.children[p], c)]
      /\ Whole(u)
  BY <1>1 DEF Whole, Fields
<1> HIDE DEF list, u, step
<1>3. u.children = [t.children EXCEPT ![p] = list]
  BY <1>6 DEF list
<1>7. \A n \in Node : u.parent[n] = IF n = c THEN None ELSE t.parent[n]
  BY <1>1, <1>6
<1>8. Fit(u)
  <2>1. ToSet(list) = KidsOf(u, p)
    BY <1>2, <1>4, <1>7, NodeAssumption DEF KidsOf
  <2>2. \A o \in Node \ {p} : t.parent[c] # o /\ None # o
    BY NodeAssumption
  <2>3. Rehangs(t, u, c, p, None, list)
    BY <1>3, <1>4, <1>6, <2>1, <2>2 DEF Rehangs
  <2> QED BY <2>3, Refitted
<1>9. ASSUME NEW a, NEW b
      PROVE  <<a, b>> \in Ord(u) <=> <<a, b>> \in Ord(t) /\ a # c /\ b # c
  <2>1. <<a, b>> \in Ord(u) <=>
           /\ a \in Node /\ b \in Node /\ u.parent[a] \in Node
           /\ u.parent[b] = u.parent[a] /\ Precedes(u.children[u.parent[a]], a, b)
    BY <1>8, TreeOrder
  <2>2. <<a, b>> \in Ord(t) <=>
           /\ a \in Node /\ b \in Node /\ t.parent[a] \in Node
           /\ t.parent[b] = t.parent[a] /\ Precedes(t.children[t.parent[a]], a, b)
    BY TreeOrder
  <2>3. CASE a = c \/ b = c
    <3>1. <<a, b>> \notin Ord(u)
      BY <1>7, <2>1, <2>3, NodeAssumption
    <3> QED BY <2>3, <3>1
  <2>4. CASE a # c /\ b # c /\ a \in Node /\ b \in Node
    <3>1. u.parent[a] = t.parent[a] /\ u.parent[b] = t.parent[b]
      BY <1>7, <2>4
    <3>2. CASE t.parent[a] = p
      <4>1. u.children[p] = list
        BY <1>1, <1>3
      <4> QED BY <1>4, <2>1, <2>2, <2>4, <3>1, <3>2, <4>1
    <3>3. CASE t.parent[a] # p /\ t.parent[a] \in Node
      <4>1. u.children[t.parent[a]] = t.children[t.parent[a]]
        BY <1>1, <1>3, <3>3
      <4> QED BY <2>1, <2>2, <2>4, <3>1, <4>1
    <3> QED BY <2>1, <2>2, <3>1, <3>2, <3>3
  <2> QED BY <2>1, <2>2, <2>3, <2>4
<1>10. Parted(t, u, {c})
  BY <1>7, <1>8, <1>9 DEF Parted
<1> QED
  BY <1>5, <1>8, <1>10, Noted DEF Parted

\* A node without a parent is in no order.
LEMMA NothingParts ==
  ASSUME NEW t, Fit(t), NEW S, \A c \in S : c \in Node => t.parent[c] = None
  PROVE  Parted(t, t, S)
<1>1. \A n \in Node : t.parent[n] = IF n \in S THEN None ELSE t.parent[n]
  OBVIOUS
<1>2. ASSUME NEW a, NEW b, <<a, b>> \in Ord(t) PROVE a \notin S /\ b \notin S
  <2>1. a \in Node /\ b \in Node /\ t.parent[a] \in Node /\ t.parent[b] = t.parent[a]
    BY <1>2, OneOrder
  <2> QED BY <2>1, NodeAssumption
<1> QED
  BY <1>1, <1>2 DEF Parted

\* detach takes one node out of its list and leaves the rest in order.
LEMMA DetachParts ==
  ASSUME NEW t, Fit(t), NEW c \in Node, NEW logged
  PROVE  Parted(t, Detach(t, c, logged), {c})
<1>1. t.parent[c] \in Node \cup {None}
  BY DEF Fit, Shaped
<1>2. CASE t.parent[c] = None
  BY <1>2, NothingParts DEF Detach
<1>3. CASE t.parent[c] # None
  BY <1>1, <1>3, UnlinkParts DEF Detach
<1> QED
  BY <1>2, <1>3

\* Leaving in two steps.
LEMMA PartedTwice ==
  ASSUME NEW t, NEW u, NEW v, NEW S, NEW T, Parted(t, u, S), Parted(u, v, T)
  PROVE  Parted(t, v, S \cup T)
BY DEF Parted
-----------------------------------------------------------------------------
(* The siblings the code reads.                                             *)

\* Position is the place of the first x, or 0.
LEMMA Positioned ==
  ASSUME NEW s \in Seq(Node), NEW x
  PROVE  Place(s, x, Position(s, x))
<1> DEFINE i == Position(s, x)
<1>1. ASSUME x \in ToSet(s) PROVE i \in DOMAIN s /\ s[i] = x
  BY <1>1, Found DEF Position, Place
<1>2. ASSUME x \notin ToSet(s) PROVE i = 0
  <2>1. {k \in 1..Len(s) : s[k] = x} = {}
    BY <1>2 DEF ToSet
  <2> QED BY <2>1 DEF Position, SelectInSeq
<1> QED
  BY <1>1, <1>2 DEF Place

\* The entry after h in a list is the first of those after h.
LEMMA BesideFollows ==
  ASSUME NEW s \in Seq(Node), IsInjective(s), NEW h \in ToSet(s)
  PROVE  LET x == Beside(s, Position(s, h), 1)
         IN  \/ x = None /\ \A y : ~Precedes(s, h, y)
             \/ Precedes(s, h, x) /\ \A y : Precedes(s, h, y) /\ y # x => Precedes(s, x, y)
<1> DEFINE i == Position(s, h)
           x == Beside(s, i, 1)
<1>1. i \in DOMAIN s /\ s[i] = h
  BY Positioned DEF Place
<1>2. DOMAIN s = 1..Len(s) /\ Len(s) \in Nat /\ i \in 1..Len(s)
  BY <1>1
<1> HIDE DEF i
<1>3. \A j \in DOMAIN s : s[j] = h => j = i
  BY <1>1 DEF IsInjective
<1>4. CASE i + 1 \in DOMAIN s
  <2>1. x = s[i + 1]
    BY <1>2, <1>4 DEF Beside
  <2>2. Precedes(s, h, x)
    BY <1>1, <1>2, <1>4, <2>1 DEF Precedes
  <2>3. ASSUME NEW y, Precedes(s, h, y), y # x PROVE Precedes(s, x, y)
    <3>1. PICK j, k \in DOMAIN s : j < k /\ s[j] = h /\ s[k] = y
      BY <2>3 DEF Precedes
    <3>2. j = i /\ k # i + 1
      BY <1>3, <2>1, <2>3, <3>1
    <3>3. i + 1 < k
      BY <1>2, <3>1, <3>2
    <3> QED BY <1>4, <2>1, <3>1, <3>3 DEF Precedes
  <2> QED BY <2>2, <2>3 DEF i
<1>5. CASE i + 1 \notin DOMAIN s
  <2>1. x = None
    BY <1>5 DEF Beside
  <2>2. ASSUME NEW y, Precedes(s, h, y) PROVE FALSE
    <3>1. PICK j, k \in DOMAIN s : j < k /\ s[j] = h /\ s[k] = y
      BY <2>2 DEF Precedes
    <3>2. j = i
      BY <1>3, <3>1
    <3> QED BY <1>2, <1>5, <3>1, <3>2
  <2> QED BY <2>1, <2>2 DEF i
<1> QED
  BY <1>4, <1>5

\* x is the first node of S, or None when S is empty.
IsFirst(t, S, x) ==
  \/ x = None /\ S = {}
  \/ x \in S /\ \A y \in S \ {x} : <<x, y>> \in Ord(t)

\* Those after h among its siblings.
Follow(t, h) == {s \in Node : <<h, s>> \in Ord(t)}

\* next_sibling is the first of those after h.
LEMMA NextIs ==
  ASSUME NEW t, Fit(t), NEW h \in Node
  PROVE  IsFirst(t, Follow(t, h), NextSibling(t, h))
<1> DEFINE p == t.parent[h]
           s == t.children[p]
           x == NextSibling(t, h)
<1>1. p \in Node \cup {None}
  BY DEF Fit, Shaped
<1>2. CASE p = None
  <2>1. x = None
    BY <1>2 DEF NextSibling, Sibling
  <2>2. \A y : <<h, y>> \notin Ord(t)
    BY <1>2, OneOrder, NodeAssumption
  <2> QED BY <2>1, <2>2 DEF IsFirst, Follow
<1>3. CASE p \in Node
  <2>1. s \in Seq(Node) /\ IsInjective(s) /\ h \in ToSet(s)
    BY <1>3 DEF Fit, Shaped, Paired, KidsOf
  <2>2. x = Beside(s, Position(s, h), 1)
    BY <1>3, NodeAssumption DEF NextSibling, Sibling
  <2> HIDE DEF x
  <2>3. \A y : y \in ToSet(s) => y \in Node /\ t.parent[y] = p
    BY <1>3 DEF Fit, Paired, KidsOf
  <2>4. \A a, b : Precedes(s, a, b) => a \in ToSet(s) /\ b \in ToSet(s)
    BY DEF Precedes, ToSet
  <2>5. \A y : <<h, y>> \in Ord(t) <=> Precedes(s, h, y)
    <3>1. SUFFICES ASSUME NEW y PROVE <<h, y>> \in Ord(t) <=> Precedes(s, h, y)
      OBVIOUS
    <3>2. <<h, y>> \in Ord(t) <=>
             /\ h \in Node /\ y \in Node /\ t.parent[h] \in Node
             /\ t.parent[y] = t.parent[h] /\ Precedes(t.children[t.parent[h]], h, y)
      BY TreeOrder
    <3> QED BY <1>3, <2>3, <2>4, <3>2
  <2>6. ASSUME NEW a, NEW b, Precedes(s, a, b) PROVE <<a, b>> \in Ord(t)
    <3>1. <<a, b>> \in Ord(t) <=>
             /\ a \in Node /\ b \in Node /\ t.parent[a] \in Node
             /\ t.parent[b] = t.parent[a] /\ Precedes(t.children[t.parent[a]], a, b)
      BY TreeOrder
    <3> QED BY <1>3, <2>3, <2>4, <2>6, <3>1
  <2> HIDE DEF s, p
  <2>7. \/ x = None /\ \A y : ~Precedes(s, h, y)
        \/ Precedes(s, h, x) /\ \A y : Precedes(s, h, y) /\ y # x => Precedes(s, x, y)
    BY <2>1, <2>2, BesideFollows
  <2>8. \A y : Precedes(s, h, y) <=> y \in Follow(t, h)
    BY <2>5, <2>4, <2>3 DEF Follow
  <2> QED BY <2>6, <2>7, <2>8 DEF IsFirst, x
<1> QED
  BY <1>1, <1>2, <1>3

\* first_child is the first of the children.
LEMMA FirstKid ==
  ASSUME NEW t, Fit(t), NEW p \in Node
  PROVE  IsFirst(t, KidsOf(t, p), FirstOf(t.children[p]))
<1> DEFINE s == t.children[p]
<1>1. s \in Seq(Node) /\ ToSet(s) = KidsOf(t, p) /\ IsInjective(s)
  BY DEF Fit, Shaped, Paired
<1>2. CASE s = <<>>
  <2>1. ToSet(s) = {}
    BY <1>2 DEF ToSet
  <2> QED BY <1>1, <1>2, <2>1 DEF FirstOf, IsFirst
<1>3. CASE s # <<>>
  <2>1. FirstOf(s) = s[1] /\ 1 \in DOMAIN s /\ DOMAIN s \subseteq Nat \ {0}
    BY <1>1, <1>3 DEF FirstOf
  <2>2. s[1] \in KidsOf(t, p)
    BY <1>1, <2>1 DEF ToSet
  <2>3. ASSUME NEW y \in KidsOf(t, p) \ {s[1]} PROVE <<s[1], y>> \in Ord(t)
    <3>1. PICK k \in DOMAIN s : s[k] = y
      BY <1>1 DEF ToSet
    <3>2. Precedes(s, s[1], y)
      BY <2>1, <2>3, <3>1 DEF Precedes
    <3>3. s[1] \in Node /\ t.parent[s[1]] = p /\ y \in Node /\ t.parent[y] = p
      BY <2>2 DEF KidsOf
    <3> QED BY <3>2, <3>3, TreeOrder
  <2> QED BY <2>1, <2>2, <2>3 DEF IsFirst
<1> QED
  BY <1>2, <1>3
-----------------------------------------------------------------------------
(* Inserting one node.                                                      *)

\* u is t after c has entered p, before the nodes `later`.
Placed(t, u, p, c, later) ==
  /\ Fit(u)
  /\ \A n \in Node : u.parent[n] = IF n = c THEN p ELSE t.parent[n]
  /\ \A a, b : <<a, b>> \in Ord(u) <=>
       \/ <<a, b>> \in Ord(t) /\ a # c /\ b # c
       \/ b = c /\ a \in KidsOf(t, p) \ ({c} \cup later)
       \/ a = c /\ b \in later

\* The children of p that c goes before, when it goes before ref.
LaterThan(t, p, c, ref) == {s \in KidsOf(t, p) \ {c} : s = ref \/ <<ref, s>> \in Ord(t)}

\* A parentless node enters right before the reference, or last.
LEMMA EnterPlaces ==
  ASSUME NEW t, Fit(t), NEW p \in Node, NEW c \in Node, t.parent[c] = None, NEW ref, NEW logged
  PROVE  Placed(t, InsertDetached(t, p, c, ref, logged), p, c, LaterThan(t, p, c, ref))
<1> DEFINE i == Position(t.children[p], ref)
           list == IF i = 0 THEN Append(t.children[p], c) ELSE InsertAt(t.children[p], i, c)
           u == Enter(t, p, c, i)
           later == LaterThan(t, p, c, ref)
           step == Step("insert", p, <<c>>, <<>>, PreviousSibling(u, c), NextSibling(u, c), logged)
<1>1. InsertDetached(t, p, c, ref, logged) = Note(u, step)
  BY DEF InsertDetached, NoteInsert
<1>2. /\ Whole(t)
      /\ t.parent \in [Node -> Node \cup {None}] /\ t.children \in [Node -> Seq(Node)]
  BY DEF Fit, Shaped
<1>3. /\ t.children[p] \in Seq(Node) /\ IsInjective(t.children[p])
      /\ ToSet(t.children[p]) = KidsOf(t, p) /\ c \notin ToSet(t.children[p])
  BY <1>2, NodeAssumption DEF Fit, Paired, KidsOf
<1>4. list \in Seq(Node) /\ Joins(list, t.children[p], c, later)
  <2>1. \A a, b : Precedes(t.children[p], a, b) <=> <<a, b>> \in Ord(t) /\ a \in KidsOf(t, p)
    <3>1. SUFFICES ASSUME NEW a, NEW b
                   PROVE  Precedes(t.children[p], a, b) <=> <<a, b>> \in Ord(t) /\ a \in KidsOf(t, p)
      OBVIOUS
    <3>2. <<a, b>> \in Ord(t) <=>
             /\ a \in Node /\ b \in Node /\ t.parent[a] \in Node
             /\ t.parent[b] = t.parent[a] /\ Precedes(t.children[t.parent[a]], a, b)
      BY TreeOrder
    <3>3. Precedes(t.children[p], a, b) => a \in KidsOf(t, p) /\ b \in KidsOf(t, p)
      BY <1>3 DEF Precedes, ToSet
    <3> QED BY <3>2, <3>3 DEF KidsOf
  <2>2. Place(t.children[p], ref, i)
    BY <1>3, Positioned
  <2>3. CASE ref \in KidsOf(t, p)
    <3>1. i \in DOMAIN t.children[p] /\ t.children[p][i] = ref
      BY <1>3, <2>2, <2>3 DEF Place
    <3>2. i # 0
      BY <1>3, <3>1
    <3>3. later = {x \in ToSet(t.children[p]) : x = t.children[p][i] \/ Precedes(t.children[p], t.children[p][i], x)}
      BY <1>3, <2>1, <2>3, <3>1 DEF LaterThan
    <3>4. list = InsertAt(t.children[p], i, c)
      BY <3>2
    <3> HIDE DEF list, i, later
    <3> QED BY <1>3, <3>1, <3>3, <3>4, Inserted
  <2>4. CASE ref \notin KidsOf(t, p)
    <3>1. i = 0
      BY <1>3, <2>2, <2>4 DEF Place
    <3>2. later = {}
      <4>1. ASSUME NEW s \in KidsOf(t, p), <<ref, s>> \in Ord(t) PROVE FALSE
        <5>1. ref \in Node /\ t.parent[s] = t.parent[ref]
          BY <4>1, OneOrder
        <5> QED BY <2>4, <4>1, <5>1 DEF KidsOf
      <4> QED BY <2>4, <4>1 DEF LaterThan
    <3>3. list = Append(t.children[p], c)
      BY <3>1
    <3> HIDE DEF list, i, later
    <3> QED BY <1>3, <3>2, <3>3, Appended
  <2> QED BY <2>3, <2>4
<1>5. u.parent = [t.parent EXCEPT ![c] = p] /\ Whole(u)
  BY <1>2 DEF Enter, Whole, Fields
<1>6. u.children = [t.children EXCEPT ![p] = list]
  BY <1>2 DEF Enter, Whole, Fields
<1> HIDE DEF list, i, u, step, later
<1>7. \A n \in Node : u.parent[n] = IF n = c THEN p ELSE t.parent[n]
  BY <1>2, <1>5
<1>8. Fit(u)
  <2>1. ToSet(list) = KidsOf(u, p) /\ IsInjective(list)
    BY <1>3, <1>4, <1>7 DEF KidsOf, Joins
  <2>2. \A o \in Node \ {p} : t.parent[c] # o /\ p # o
    BY NodeAssumption
  <2>3. Rehangs(t, u, c, p, p, list)
    BY <1>4, <1>5, <1>6, <2>1, <2>2 DEF Rehangs
  <2> QED BY <2>3, Refitted
<1>9. ASSUME NEW a, NEW b
      PROVE  <<a, b>> \in Ord(u) <=> \/ <<a, b>> \in Ord(t) /\ a # c /\ b # c
                                     \/ b = c /\ a \in KidsOf(t, p) \ ({c} \cup later)
                                     \/ a = c /\ b \in later
  <2>1. <<a, b>> \in Ord(u) <=>
           /\ a \in Node /\ b \in Node /\ u.parent[a] \in Node
           /\ u.parent[b] = u.parent[a] /\ Precedes(u.children[u.parent[a]], a, b)
    BY <1>8, TreeOrder
  <2>2. <<a, b>> \in Ord(t) <=>
           /\ a \in Node /\ b \in Node /\ t.parent[a] \in Node
           /\ t.parent[b] = t.parent[a] /\ Precedes(t.children[t.parent[a]], a, b)
    BY TreeOrder
  <2>3. later \subseteq KidsOf(t, p) \ {c} /\ KidsOf(t, p) \subseteq Node /\ c \notin KidsOf(t, p)
    BY <1>3 DEF later, LaterThan, KidsOf
  <2>4. u.children[p] = list
    BY <1>2, <1>6
  <2>5. Precedes(list, a, b) <=> \/ Precedes(t.children[p], a, b)
                                 \/ b = c /\ a \in KidsOf(t, p) \ later
                                 \/ a = c /\ b \in later
    BY <1>3, <1>4 DEF Joins
  <2>6. Precedes(t.children[p], a, b) => a \in KidsOf(t, p) /\ b \in KidsOf(t, p)
    BY <1>3 DEF Precedes, ToSet
  <2>7. \A n \in KidsOf(t, p) : n \in Node /\ u.parent[n] = p /\ t.parent[n] = p
    BY <1>7, <2>3 DEF KidsOf
  <2>8. u.parent[c] = p
    BY <1>7
  <2>9. CASE a \in Node /\ u.parent[a] = p
    <3>1. <<a, b>> \in Ord(u) <=> b \in Node /\ u.parent[b] = p /\ Precedes(list, a, b)
      BY <2>1, <2>4, <2>9
    <3>2. <<a, b>> \in Ord(u) <=> Precedes(list, a, b)
      BY <2>3, <2>5, <2>6, <2>7, <2>8, <3>1
    <3>3. <<a, b>> \in Ord(t) /\ a # c <=> Precedes(t.children[p], a, b)
      <4>1. a # c => t.parent[a] = p
        BY <1>7, <2>9
      <4> QED BY <2>2, <2>3, <2>6, <2>7, <2>9, <4>1
    <3> QED BY <2>3, <2>5, <2>6, <3>2, <3>3
  <2>10. CASE a \in Node /\ u.parent[a] # p
    <3>1. a # c /\ u.parent[a] = t.parent[a] /\ a \notin KidsOf(t, p)
      BY <1>7, <2>7, <2>8, <2>10
    <3>2. t.parent[a] \in Node => u.children[t.parent[a]] = t.children[t.parent[a]]
      BY <1>2, <1>6, <2>10, <3>1
    <3>3. b \in Node /\ b # c => u.parent[b] = t.parent[b]
      BY <1>7
    <3>4. <<a, b>> \in Ord(u) => b # c
      BY <2>1, <2>8, <2>10
    <3> QED BY <2>1, <2>2, <3>1, <3>2, <3>3, <3>4
  <2>11. CASE a \notin Node
    BY <2>1, <2>2, <2>3, <2>11
  <2> QED BY <2>9, <2>10, <2>11
<1>10. Placed(t, u, p, c, later)
  BY <1>7, <1>8, <1>9 DEF Placed
<1>11. Placed(t, Note(u, step), p, c, later)
  BY <1>8, <1>10, Noted DEF Placed
<1> QED
  BY <1>1, <1>11 DEF later

\* append_child and insert_before: a node inserted before itself goes before
\* its next sibling.
LEMMA InsertOnePlaces ==
  ASSUME NEW t, Fit(t), NEW p \in Node, NEW c \in Node, NEW ref, NEW logged,
         ~IsInclusiveAncestor(t, c, p)
  PROVE  Placed(t, InsertOne(t, p, c, ref, logged), p, c, LaterThan(t, p, c, ref))
<1> DEFINE v == Detach(t, c, logged)
           at == IF ref = c THEN NextSibling(t, c) ELSE ref
           u == InsertDetached(v, p, c, at, logged)
           later == LaterThan(t, p, c, ref)
<1>1. InsertOne(t, p, c, ref, logged) = u
  BY DEF InsertOne
<1>2. Parted(t, v, {c})
  BY DetachParts
<1> HIDE DEF v
<1>3. /\ Fit(v) /\ v.parent[c] = None
      /\ \A n \in Node : n # c => v.parent[n] = t.parent[n]
      /\ \A a, b : <<a, b>> \in Ord(v) <=> <<a, b>> \in Ord(t) /\ a # c /\ b # c
  BY <1>2 DEF Parted
<1>4. Placed(v, u, p, c, LaterThan(v, p, c, at))
  BY <1>3, EnterPlaces
<1> HIDE DEF u
<1>5. KidsOf(v, p) \ {c} = KidsOf(t, p) \ {c}
  BY <1>3 DEF KidsOf
<1>6. LaterThan(v, p, c, at) = later
  <2>1. CASE ref # c
    <3>1. at = ref
      BY <2>1
    <3> QED BY <1>3, <1>5, <2>1, <3>1 DEF LaterThan
  <2>2. CASE ref = c
    <3>1. IsFirst(t, Follow(t, c), at)
      BY <2>2, NextIs
    <3> HIDE DEF at
    <3>2. ASSUME NEW s \in KidsOf(t, p) \ {c}
          PROVE  s = at \/ <<at, s>> \in Ord(v) <=> <<c, s>> \in Ord(t)
      <4>1. s \in Node /\ s # c
        BY <3>2 DEF KidsOf
      <4>2. CASE at = None /\ Follow(t, c) = {}
        <5>1. <<c, s>> \notin Ord(t)
          BY <4>1, <4>2 DEF Follow
        <5>2. <<at, s>> \notin Ord(t) /\ s # at
          BY <4>1, <4>2, OneOrder, NodeAssumption
        <5> QED BY <1>3, <5>1, <5>2
      <4>3. CASE at \in Follow(t, c) /\ \A y \in Follow(t, c) \ {at} : <<at, y>> \in Ord(t)
        <5>1. <<c, at>> \in Ord(t) /\ at # c
          BY <4>3, OneOrder DEF Follow
        <5>2. <<at, s>> \in Ord(t) => <<c, s>> \in Ord(t)
          BY <5>1, OneOrder
        <5>3. <<c, s>> \in Ord(t) => s = at \/ <<at, s>> \in Ord(t)
          BY <4>1, <4>3 DEF Follow
        <5> QED BY <1>3, <4>1, <5>1, <5>2, <5>3
      <4> QED BY <3>1, <4>2, <4>3 DEF IsFirst
    <3> QED BY <1>5, <2>2, <3>2 DEF LaterThan
  <2> QED BY <2>1, <2>2
<1> HIDE DEF later, at
<1>7. KidsOf(v, p) \ ({c} \cup later) = KidsOf(t, p) \ ({c} \cup later)
  BY <1>5
<1>8. \A n \in Node : u.parent[n] = IF n = c THEN p ELSE t.parent[n]
  BY <1>3, <1>4 DEF Placed
<1>9. Placed(v, u, p, c, later)
  BY <1>4, <1>6
<1>10. \A a, b : <<a, b>> \in Ord(u) <=>
         \/ <<a, b>> \in Ord(t) /\ a # c /\ b # c
         \/ b = c /\ a \in KidsOf(t, p) \ ({c} \cup later)
         \/ a = c /\ b \in later
  BY <1>3, <1>7, <1>9 DEF Placed
<1>11. Fit(u)
  BY <1>4 DEF Placed
<1> QED
  BY <1>1, <1>8, <1>10, <1>11 DEF Placed, later
-----------------------------------------------------------------------------
(* The loops.  Each is a recursive function, which has a value because it   *)
(* has one for every number of rounds.                                      *)

\* The rounds of UnlinkAll.
UnlinkRounds(t, p, list, f) ==
  /\ f[0] = t
  /\ \A k \in 1..Len(list) : f[k] = Unlink(f[k - 1], p, list[k], FALSE)
  /\ UnlinkAll(t, p, list) = f[Len(list)]

\* UnlinkAll has a run: the trees after each node.
LEMMA UnlinkAllRuns ==
  ASSUME NEW t, NEW p, NEW list, Len(list) \in Nat
  PROVE  \E f : UnlinkRounds(t, p, list, f)
<1> DEFINE Runs(n, f) == /\ f = [k \in 0..n |-> f[k]] /\ f[0] = t
                         /\ \A k \in 1..n : f[k] = Unlink(f[k - 1], p, list[k], FALSE)
           T == {n \in Nat : \E f : Runs(n, f)}
<1>1. 0 \in T
  <2>1. Runs(0, [k \in 0..0 |-> t])
    OBVIOUS
  <2> QED BY <2>1
<1>2. ASSUME NEW n \in Nat, n \in T PROVE n + 1 \in T
  <2>1. PICK f : Runs(n, f)
    BY <1>2
  <2> DEFINE next == Unlink(f[n], p, list[n + 1], FALSE)
             g == [k \in 0..(n + 1) |-> IF k = n + 1 THEN next ELSE f[k]]
  <2> HIDE DEF next
  <2>2. g = [k \in 0..(n + 1) |-> g[k]] /\ g[0] = f[0] /\ g[n + 1] = next /\ g[n] = f[n]
    <3>1. /\ 0 \in 0..(n + 1) /\ n \in 0..(n + 1) /\ n + 1 \in 0..(n + 1)
          /\ 0 # n + 1 /\ n # n + 1
      OBVIOUS
    <3> QED BY <3>1
  <2>3. \A k \in 1..n : g[k] = f[k] /\ g[k - 1] = f[k - 1]
    OBVIOUS
  <2> HIDE DEF g
  <2>4. ASSUME NEW k \in 1..(n + 1) PROVE g[k] = Unlink(g[k - 1], p, list[k], FALSE)
    <3>1. CASE k = n + 1
      <4>1. k - 1 = n
        BY <3>1
      <4> QED BY <2>2, <3>1, <4>1 DEF next
    <3>2. CASE k \in 1..n
      BY <2>1, <2>3, <3>2
    <3>3. k = n + 1 \/ k \in 1..n
      OBVIOUS
    <3> QED BY <3>1, <3>2, <3>3
  <2>5. Runs(n + 1, g)
    BY <2>1, <2>2, <2>4
  <2> HIDE DEF Runs
  <2> QED BY <2>5
<1>3. PICK f : Runs(Len(list), f)
  BY <1>1, <1>2, Counting
<1> DEFINE Def(h) == h = [k \in 0..Len(list) |-> IF k = 0 THEN t ELSE Unlink(h[k - 1], p, list[k], FALSE)]
<1>4. ASSUME NEW k \in 0..Len(list) PROVE f[k] = IF k = 0 THEN t ELSE Unlink(f[k - 1], p, list[k], FALSE)
  <2>1. k = 0 \/ k \in 1..Len(list)
    OBVIOUS
  <2>2. k \in 1..Len(list) => k # 0
    OBVIOUS
  <2> QED BY <1>3, <2>1, <2>2
<1>5. Def(f)
  BY <1>3, <1>4
<1> DEFINE c == CHOOSE h : Def(h)
<1>6. Def(c)
  BY <1>5
<1>7. UnlinkAll(t, p, list) = c[Len(list)]
  BY DEF UnlinkAll
<1>8. c[0] = t /\ \A k \in 1..Len(list) : c[k] = Unlink(c[k - 1], p, list[k], FALSE)
  <2> HIDE DEF c
  <2>1. \A k \in 0..Len(list) : c[k] = IF k = 0 THEN t ELSE Unlink(c[k - 1], p, list[k], FALSE)
    BY <1>6
  <2>2. 0 \in 0..Len(list) /\ \A k \in 1..Len(list) : k \in 0..Len(list) /\ k # 0
    OBVIOUS
  <2> QED BY <2>1, <2>2
<1> QED
  BY <1>7, <1>8 DEF UnlinkRounds

\* The rounds of Gather.
GatherRounds(t, ns, f) ==
  /\ f[0] = [t |-> t, flat |-> <<>>]
  /\ \A k \in 1..Len(ns) : f[k] = Taking(f[k - 1], ns[k])
  /\ Gather(t, ns) = f[Len(ns)]

\* Gather has a run: the trees and the list after each argument.
LEMMA GatherRuns ==
  ASSUME NEW t, NEW ns, Len(ns) \in Nat
  PROVE  \E f : GatherRounds(t, ns, f)
<1> DEFINE Runs(n, f) == /\ f = [k \in 0..n |-> f[k]] /\ f[0] = [t |-> t, flat |-> <<>>]
                         /\ \A k \in 1..n : f[k] = Taking(f[k - 1], ns[k])
           T == {n \in Nat : \E f : Runs(n, f)}
<1>1. 0 \in T
  <2>1. Runs(0, [k \in 0..0 |-> [t |-> t, flat |-> <<>>]])
    OBVIOUS
  <2> QED BY <2>1
<1>2. ASSUME NEW n \in Nat, n \in T PROVE n + 1 \in T
  <2>1. PICK f : Runs(n, f)
    BY <1>2
  <2> DEFINE next == Taking(f[n], ns[n + 1])
             g == [k \in 0..(n + 1) |-> IF k = n + 1 THEN next ELSE f[k]]
  <2> HIDE DEF next
  <2>2. g = [k \in 0..(n + 1) |-> g[k]] /\ g[0] = f[0] /\ g[n + 1] = next /\ g[n] = f[n]
    <3>1. /\ 0 \in 0..(n + 1) /\ n \in 0..(n + 1) /\ n + 1 \in 0..(n + 1)
          /\ 0 # n + 1 /\ n # n + 1
      OBVIOUS
    <3> QED BY <3>1
  <2>3. \A k \in 1..n : g[k] = f[k] /\ g[k - 1] = f[k - 1]
    OBVIOUS
  <2> HIDE DEF g
  <2>4. ASSUME NEW k \in 1..(n + 1) PROVE g[k] = Taking(g[k - 1], ns[k])
    <3>1. CASE k = n + 1
      <4>1. k - 1 = n
        BY <3>1
      <4> QED BY <2>2, <3>1, <4>1 DEF next
    <3>2. CASE k \in 1..n
      BY <2>1, <2>3, <3>2
    <3>3. k = n + 1 \/ k \in 1..n
      OBVIOUS
    <3> QED BY <3>1, <3>2, <3>3
  <2>5. Runs(n + 1, g)
    BY <2>1, <2>2, <2>4
  <2> HIDE DEF Runs
  <2> QED BY <2>5
<1>3. PICK f : Runs(Len(ns), f)
  BY <1>1, <1>2, Counting
<1> DEFINE Def(h) == h = [k \in 0..Len(ns) |-> IF k = 0 THEN [t |-> t, flat |-> <<>>] ELSE Taking(h[k - 1], ns[k])]
<1>4. ASSUME NEW k \in 0..Len(ns) PROVE f[k] = IF k = 0 THEN [t |-> t, flat |-> <<>>] ELSE Taking(f[k - 1], ns[k])
  <2>1. k = 0 \/ k \in 1..Len(ns)
    OBVIOUS
  <2>2. k \in 1..Len(ns) => k # 0
    OBVIOUS
  <2> QED BY <1>3, <2>1, <2>2
<1>5. Def(f)
  BY <1>3, <1>4
<1> DEFINE c == CHOOSE h : Def(h)
<1>6. Def(c)
  BY <1>5
<1>7. Gather(t, ns) = c[Len(ns)]
  BY DEF Gather
<1>8. c[0] = [t |-> t, flat |-> <<>>] /\ \A k \in 1..Len(ns) : c[k] = Taking(c[k - 1], ns[k])
  <2> HIDE DEF c
  <2>1. \A k \in 0..Len(ns) : c[k] = IF k = 0 THEN [t |-> t, flat |-> <<>>] ELSE Taking(c[k - 1], ns[k])
    BY <1>6
  <2>2. 0 \in 0..Len(ns) /\ \A k \in 1..Len(ns) : k \in 0..Len(ns) /\ k # 0
    OBVIOUS
  <2> QED BY <2>1, <2>2
<1> QED
  BY <1>7, <1>8 DEF GatherRounds

\* The rounds of InsertAll.
InsertRounds(t, p, flat, ref, f) ==
  /\ f[0] = t
  /\ \A k \in 1..Len(flat) : f[k] = InsertOne(f[k - 1], p, flat[k], ref, FALSE)
  /\ InsertAll(t, p, flat, ref) = f[Len(flat)]

\* InsertAll has a run: the trees after each node.
LEMMA InsertAllRuns ==
  ASSUME NEW t, NEW p, NEW flat, Len(flat) \in Nat, NEW ref
  PROVE  \E f : InsertRounds(t, p, flat, ref, f)
<1> DEFINE Runs(n, f) == /\ f = [k \in 0..n |-> f[k]] /\ f[0] = t
                         /\ \A k \in 1..n : f[k] = InsertOne(f[k - 1], p, flat[k], ref, FALSE)
           T == {n \in Nat : \E f : Runs(n, f)}
<1>1. 0 \in T
  <2>1. Runs(0, [k \in 0..0 |-> t])
    OBVIOUS
  <2> QED BY <2>1
<1>2. ASSUME NEW n \in Nat, n \in T PROVE n + 1 \in T
  <2>1. PICK f : Runs(n, f)
    BY <1>2
  <2> DEFINE next == InsertOne(f[n], p, flat[n + 1], ref, FALSE)
             g == [k \in 0..(n + 1) |-> IF k = n + 1 THEN next ELSE f[k]]
  <2> HIDE DEF next
  <2>2. g = [k \in 0..(n + 1) |-> g[k]] /\ g[0] = f[0] /\ g[n + 1] = next /\ g[n] = f[n]
    <3>1. /\ 0 \in 0..(n + 1) /\ n \in 0..(n + 1) /\ n + 1 \in 0..(n + 1)
          /\ 0 # n + 1 /\ n # n + 1
      OBVIOUS
    <3> QED BY <3>1
  <2>3. \A k \in 1..n : g[k] = f[k] /\ g[k - 1] = f[k - 1]
    OBVIOUS
  <2> HIDE DEF g
  <2>4. ASSUME NEW k \in 1..(n + 1) PROVE g[k] = InsertOne(g[k - 1], p, flat[k], ref, FALSE)
    <3>1. CASE k = n + 1
      <4>1. k - 1 = n
        BY <3>1
      <4> QED BY <2>2, <3>1, <4>1 DEF next
    <3>2. CASE k \in 1..n
      BY <2>1, <2>3, <3>2
    <3>3. k = n + 1 \/ k \in 1..n
      OBVIOUS
    <3> QED BY <3>1, <3>2, <3>3
  <2>5. Runs(n + 1, g)
    BY <2>1, <2>2, <2>4
  <2> HIDE DEF Runs
  <2> QED BY <2>5
<1>3. PICK f : Runs(Len(flat), f)
  BY <1>1, <1>2, Counting
<1> DEFINE Def(h) == h = [k \in 0..Len(flat) |-> IF k = 0 THEN t ELSE InsertOne(h[k - 1], p, flat[k], ref, FALSE)]
<1>4. ASSUME NEW k \in 0..Len(flat) PROVE f[k] = IF k = 0 THEN t ELSE InsertOne(f[k - 1], p, flat[k], ref, FALSE)
  <2>1. k = 0 \/ k \in 1..Len(flat)
    OBVIOUS
  <2>2. k \in 1..Len(flat) => k # 0
    OBVIOUS
  <2> QED BY <1>3, <2>1, <2>2
<1>5. Def(f)
  BY <1>3, <1>4
<1> DEFINE c == CHOOSE h : Def(h)
<1>6. Def(c)
  BY <1>5
<1>7. InsertAll(t, p, flat, ref) = c[Len(flat)]
  BY DEF InsertAll
<1>8. c[0] = t /\ \A k \in 1..Len(flat) : c[k] = InsertOne(c[k - 1], p, flat[k], ref, FALSE)
  <2> HIDE DEF c
  <2>1. \A k \in 0..Len(flat) : c[k] = IF k = 0 THEN t ELSE InsertOne(c[k - 1], p, flat[k], ref, FALSE)
    BY <1>6
  <2>2. 0 \in 0..Len(flat) /\ \A k \in 1..Len(flat) : k \in 0..Len(flat) /\ k # 0
    OBVIOUS
  <2> QED BY <2>1, <2>2
<1> QED
  BY <1>7, <1>8 DEF InsertRounds

\* The nodes of Climb.
ClimbRounds(t, x, f) ==
  /\ f[0] = x
  /\ \A k \in 1..Cardinality(Node) : f[k] = Up(t, f[k - 1])
  /\ Climb(t, x) = {f[k] : k \in 0..Cardinality(Node)} \ {None}

\* Climb has a run: the sets after each parent.
LEMMA ClimbRuns ==
  ASSUME NEW t, NEW x, Cardinality(Node) \in Nat
  PROVE  \E f : ClimbRounds(t, x, f)
<1> DEFINE Runs(n, f) == /\ f = [k \in 0..n |-> f[k]] /\ f[0] = x
                         /\ \A k \in 1..n : f[k] = Up(t, f[k - 1])
           T == {n \in Nat : \E f : Runs(n, f)}
<1>1. 0 \in T
  <2>1. Runs(0, [k \in 0..0 |-> x])
    OBVIOUS
  <2> QED BY <2>1
<1>2. ASSUME NEW n \in Nat, n \in T PROVE n + 1 \in T
  <2>1. PICK f : Runs(n, f)
    BY <1>2
  <2> DEFINE next == Up(t, f[n])
             g == [k \in 0..(n + 1) |-> IF k = n + 1 THEN next ELSE f[k]]
  <2> HIDE DEF next
  <2>2. g = [k \in 0..(n + 1) |-> g[k]] /\ g[0] = f[0] /\ g[n + 1] = next /\ g[n] = f[n]
    <3>1. /\ 0 \in 0..(n + 1) /\ n \in 0..(n + 1) /\ n + 1 \in 0..(n + 1)
          /\ 0 # n + 1 /\ n # n + 1
      OBVIOUS
    <3> QED BY <3>1
  <2>3. \A k \in 1..n : g[k] = f[k] /\ g[k - 1] = f[k - 1]
    OBVIOUS
  <2> HIDE DEF g
  <2>4. ASSUME NEW k \in 1..(n + 1) PROVE g[k] = Up(t, g[k - 1])
    <3>1. CASE k = n + 1
      <4>1. k - 1 = n
        BY <3>1
      <4> QED BY <2>2, <3>1, <4>1 DEF next
    <3>2. CASE k \in 1..n
      BY <2>1, <2>3, <3>2
    <3>3. k = n + 1 \/ k \in 1..n
      OBVIOUS
    <3> QED BY <3>1, <3>2, <3>3
  <2>5. Runs(n + 1, g)
    BY <2>1, <2>2, <2>4
  <2> HIDE DEF Runs
  <2> QED BY <2>5
<1>3. PICK f : Runs(Cardinality(Node), f)
  BY <1>1, <1>2, Counting
<1> DEFINE Def(h) == h = [k \in 0..Cardinality(Node) |-> IF k = 0 THEN x ELSE Up(t, h[k - 1])]
<1>4. ASSUME NEW k \in 0..Cardinality(Node) PROVE f[k] = IF k = 0 THEN x ELSE Up(t, f[k - 1])
  <2>1. k = 0 \/ k \in 1..Cardinality(Node)
    OBVIOUS
  <2>2. k \in 1..Cardinality(Node) => k # 0
    OBVIOUS
  <2> QED BY <1>3, <2>1, <2>2
<1>5. Def(f)
  BY <1>3, <1>4
<1> DEFINE c == CHOOSE h : Def(h)
<1>6. Def(c)
  BY <1>5
<1>7. Climb(t, x) = {c[k] : k \in 0..Cardinality(Node)} \ {None}
  BY DEF Climb
<1>8. c[0] = x /\ \A k \in 1..Cardinality(Node) : c[k] = Up(t, c[k - 1])
  <2> HIDE DEF c
  <2>1. \A k \in 0..Cardinality(Node) : c[k] = IF k = 0 THEN x ELSE Up(t, c[k - 1])
    BY <1>6
  <2>2. 0 \in 0..Cardinality(Node) /\ \A k \in 1..Cardinality(Node) : k \in 0..Cardinality(Node) /\ k # 0
    OBVIOUS
  <2> QED BY <2>1, <2>2
<1> QED
  BY <1>7, <1>8 DEF ClimbRounds
-----------------------------------------------------------------------------
(* The climb of is_inclusive_ancestor.                                      *)

\* A holds, with a node, the one above it.
Closed(t, A) == \A n \in A : Up(t, n) \in A \cup {None}

\* The climb never leaves a set that holds, with a node, the one above it.
LEMMA ClimbStays ==
  ASSUME NEW t, NEW A, Closed(t, A), NEW p \in A
  PROVE  Climb(t, p) \subseteq A
<1>1. Cardinality(Node) \in Nat
  BY FS_CardinalityType, NodeAssumption
<1>2. PICK f : /\ f[0] = p
               /\ \A k \in 1..Cardinality(Node) : f[k] = Up(t, f[k - 1])
               /\ Climb(t, p) = {f[k] : k \in 0..Cardinality(Node)} \ {None}
  BY <1>1, ClimbRuns DEF ClimbRounds
<1> DEFINE T == {k \in Nat : k <= Cardinality(Node) => f[k] \in A \cup {None}}
<1>3. Up(t, None) = None
  BY DEF Up
<1>4. 0 \in T
  BY <1>2
<1>5. ASSUME NEW k \in Nat, k \in T PROVE k + 1 \in T
  <2>1. SUFFICES ASSUME k + 1 <= Cardinality(Node) PROVE f[k + 1] \in A \cup {None}
    OBVIOUS
  <2>2. k + 1 \in 1..Cardinality(Node) /\ (k + 1) - 1 = k /\ k <= Cardinality(Node)
    BY <1>1, <2>1
  <2>3. f[k + 1] = Up(t, f[k]) /\ f[k] \in A \cup {None}
    BY <1>2, <1>5, <2>2
  <2> QED BY <1>3, <2>3 DEF Closed
<1>6. Nat \subseteq T
  BY <1>4, <1>5, Counting
<1> QED
  BY <1>1, <1>2, <1>6

\* It goes on long enough: as many rounds as there are nodes come back to a
\* node or to the top.
LEMMA ClimbCloses ==
  ASSUME NEW t, t.parent \in [Node -> Node \cup {None}], hostOf \in [Node -> Node \cup {None}],
         NEW p \in Node
  PROVE  p \in Climb(t, p) /\ Climb(t, p) \subseteq Node /\ Closed(t, Climb(t, p))
<1> DEFINE N == Cardinality(Node)
<1>1. N \in Nat
  BY FS_CardinalityType, NodeAssumption
<1>2. PICK f : /\ f[0] = p
               /\ \A k \in 1..N : f[k] = Up(t, f[k - 1])
               /\ Climb(t, p) = {f[k] : k \in 0..N} \ {None}
  BY <1>1, ClimbRuns DEF ClimbRounds
<1> HIDE DEF N
<1>3. Up(t, None) = None /\ \A n \in Node : Up(t, n) \in Node \cup {None}
  BY DEF Up
<1>4. \A k \in Nat : k + 1 <= N => f[k + 1] = Up(t, f[k])
  <2>1. SUFFICES ASSUME NEW k \in Nat, k + 1 <= N PROVE f[k + 1] = Up(t, f[k])
    OBVIOUS
  <2>2. k + 1 \in 1..N /\ (k + 1) - 1 = k
    BY <1>1, <2>1
  <2> QED BY <1>2, <2>2
<1>5. \A k \in 0..N : f[k] \in Node \cup {None}
  <2> DEFINE T == {k \in Nat : k <= N => f[k] \in Node \cup {None}}
  <2>1. 0 \in T
    BY <1>2
  <2>2. ASSUME NEW k \in Nat, k \in T PROVE k + 1 \in T
    <3>1. k + 1 <= N => k <= N
      BY <1>1
    <3> QED BY <1>3, <1>4, <2>2, <3>1
  <2>3. Nat \subseteq T
    BY <2>1, <2>2, Counting
  <2> QED BY <1>1, <2>3
<1>6. ASSUME NEW i \in Nat, NEW j \in Nat, f[i] = f[j]
      PROVE  \A d \in Nat : i + d <= N /\ j + d <= N => f[i + d] = f[j + d]
  <2> DEFINE T == {d \in Nat : i + d <= N /\ j + d <= N => f[i + d] = f[j + d]}
  <2>1. 0 \in T
    BY <1>6
  <2>2. ASSUME NEW d \in Nat, d \in T PROVE d + 1 \in T
    <3>1. SUFFICES ASSUME i + (d + 1) <= N, j + (d + 1) <= N PROVE f[i + (d + 1)] = f[j + (d + 1)]
      OBVIOUS
    <3>2. /\ i + (d + 1) = (i + d) + 1 /\ j + (d + 1) = (j + d) + 1
          /\ i + d <= N /\ j + d <= N /\ i + d \in Nat /\ j + d \in Nat
      BY <1>1, <3>1
    <3>3. f[i + d] = f[j + d]
      BY <2>2, <3>2
    <3>4. f[(i + d) + 1] = Up(t, f[i + d]) /\ f[(j + d) + 1] = Up(t, f[j + d])
      BY <1>4, <3>1, <3>2
    <3> QED BY <3>2, <3>3, <3>4
  <2>3. Nat \subseteq T
    BY <2>1, <2>2, Counting
  <2> QED BY <2>3
<1>7. ASSUME NEW k \in 0..N, f[k] = None PROVE f[N] = None
  <2> DEFINE T == {d \in Nat : k + d <= N => f[k + d] = None}
  <2>1. 0 \in T
    BY <1>7
  <2>2. ASSUME NEW d \in Nat, d \in T PROVE d + 1 \in T
    <3>1. SUFFICES ASSUME k + (d + 1) <= N PROVE f[k + (d + 1)] = None
      OBVIOUS
    <3>2. k + (d + 1) = (k + d) + 1 /\ k + d <= N /\ k + d \in Nat
      BY <1>1, <3>1
    <3> QED BY <1>3, <1>4, <2>2, <3>1, <3>2
  <2>3. Nat \subseteq T
    BY <2>1, <2>2, Counting
  <2>4. N - k \in Nat /\ k + (N - k) = N
    BY <1>1
  <2> QED BY <2>3, <2>4
<1>8. ASSUME NEW k \in 0..N, f[k] # None
      PROVE  \E m \in 0..N : Up(t, f[k]) = f[m]  \/ Up(t, f[k]) = None
  <2>1. CASE k < N
    <3>1. k \in Nat /\ k + 1 <= N /\ k + 1 \in 0..N
      BY <1>1, <2>1
    <3> QED BY <1>4, <3>1
  <2>2. CASE k = N
    <3> DEFINE g == [m \in 0..N |-> f[m]]
    <3>1. g \in [0..N -> Node]
      BY <1>5, <1>7, <1>8, <2>2
    <3>2. IsFiniteSet(0..N) /\ Cardinality(0..N) = N + 1
      BY <1>1, FS_Interval
    <3>3. Cardinality(Node) < Cardinality(0..N)
      BY <1>1, <3>2 DEF N
    <3>9. IsFiniteSet(Node)
      BY NodeAssumption
    <3>10. \A x \in 0..N : g[x] = f[x]
      OBVIOUS
    <3> HIDE DEF g
    <3>4. \E x, y \in 0..N : x # y /\ g[x] = g[y]
      BY <3>1, <3>2, <3>3, <3>9, FS_PigeonHole
    <3>5. PICK i, j \in 0..N : i < j /\ f[i] = f[j]
      <4>1. PICK x, y \in 0..N : x # y /\ f[x] = f[y]
        BY <3>4, <3>10
      <4> QED BY <1>1, <4>1
    <3>6. /\ i \in Nat /\ j \in Nat /\ N - j \in Nat /\ i + (N - j) <= N /\ j + (N - j) = N
          /\ i + (N - j) \in Nat /\ (i + (N - j)) + 1 <= N /\ (i + (N - j)) + 1 \in 0..N
      BY <1>1, <3>5
    <3>7. f[i + (N - j)] = f[N]
      BY <1>6, <3>5, <3>6, <1>1
    <3>8. f[(i + (N - j)) + 1] = Up(t, f[N])
      BY <1>4, <3>6, <3>7
    <3> QED BY <2>2, <3>6, <3>8
  <2> QED BY <1>1, <2>1, <2>2
<1>9. 0 \in 0..N /\ p # None
  BY <1>1, NodeAssumption
<1>10. p \in Climb(t, p)
  BY <1>2, <1>9
<1>11. Climb(t, p) \subseteq Node
  BY <1>2, <1>5
<1>12. ASSUME NEW n \in Climb(t, p) PROVE Up(t, n) \in Climb(t, p) \cup {None}
  <2>1. PICK k \in 0..N : n = f[k] /\ f[k] # None
    BY <1>2
  <2>2. PICK m \in 0..N : Up(t, f[k]) = f[m]  \/ Up(t, f[k]) = None
    BY <1>8, <2>1
  <2> QED BY <1>2, <2>1, <2>2
<1> QED
  BY <1>10, <1>11, <1>12 DEF Closed
-----------------------------------------------------------------------------
(* What the loops take away.                                                *)

\* A loop of remove_child over children of p parts them all from it.
LEMMA UnlinkAllParts ==
  ASSUME NEW t, Fit(t), NEW p \in Node, NEW list \in Seq(Node), ToSet(list) \subseteq KidsOf(t, p)
  PROVE  Parted(t, UnlinkAll(t, p, list), ToSet(list))
<1>1. Len(list) \in Nat /\ DOMAIN list = 1..Len(list) /\ \A k \in 1..Len(list) : list[k] \in Node
  OBVIOUS
<1>2. PICK f : /\ f[0] = t
               /\ \A k \in 1..Len(list) : f[k] = Unlink(f[k - 1], p, list[k], FALSE)
               /\ UnlinkAll(t, p, list) = f[Len(list)]
  <2>1. PICK f : UnlinkRounds(t, p, list, f)
    BY <1>1, UnlinkAllRuns
  <2> QED BY <2>1 DEF UnlinkRounds
<1> DEFINE S(k) == {list[i] : i \in 1..k}
           T == {k \in Nat : k <= Len(list) => Parted(t, f[k], S(k))}
<1>3. 0 \in T
  <2>1. S(0) = {}
    OBVIOUS
  <2>2. Parted(t, t, {})
    BY NothingParts
  <2> QED BY <1>2, <2>1, <2>2
<1>4. ASSUME NEW k \in Nat, k \in T PROVE k + 1 \in T
  <2>1. SUFFICES ASSUME k + 1 <= Len(list) PROVE Parted(t, f[k + 1], S(k + 1))
    OBVIOUS
  <2>2. k + 1 \in 1..Len(list) /\ (k + 1) - 1 = k /\ k <= Len(list)
    BY <1>1, <2>1
  <2> DEFINE c == list[k + 1]
  <2>3. f[k + 1] = Unlink(f[k], p, c, FALSE) /\ Parted(t, f[k], S(k))
    BY <1>2, <1>4, <2>2
  <2>4. S(k + 1) = S(k) \cup {c}
    <3>1. 1..(k + 1) = 1..k \cup {k + 1}
      OBVIOUS
    <3> QED BY <3>1
  <2>5. c \in Node /\ t.parent[c] = p
    BY <1>1, <2>2 DEF ToSet, KidsOf
  <2> HIDE DEF c, S
  <2>6. f[k].parent[c] = p \/ f[k].parent[c] = None
    BY <2>3, <2>5 DEF Parted
  <2>7. Fit(f[k])
    BY <2>3 DEF Parted
  <2>8. CASE f[k].parent[c] = p
    <3>1. Parted(f[k], f[k + 1], {c})
      BY <2>3, <2>5, <2>7, <2>8, UnlinkParts
    <3>2. Parted(t, f[k + 1], S(k) \cup {c})
      BY <2>3, <3>1, PartedTwice
    <3> QED BY <2>4, <3>2
  <2>9. CASE f[k].parent[c] = None
    <3>1. f[k + 1] = f[k]
      BY <2>3, <2>9, NodeAssumption DEF Unlink
    <3>2. Parted(f[k], f[k], {c})
      BY <2>7, <2>9, NothingParts
    <3>3. Parted(t, f[k], S(k) \cup {c})
      BY <2>3, <3>2, PartedTwice
    <3> QED BY <2>4, <3>1, <3>3
  <2> QED BY <2>6, <2>8, <2>9
<1>5. Parted(t, f[Len(list)], S(Len(list)))
  <2>1. Nat \subseteq T
    <3> HIDE DEF T
    <3> QED BY <1>3, <1>4, Counting
  <2> HIDE DEF S
  <2> QED BY <1>1, <2>1
<1>6. S(Len(list)) = ToSet(list)
  BY <1>1 DEF ToSet
<1> QED
  BY <1>2, <1>5, <1>6

\* What an argument brings: a fragment its children, another node itself.
Brings(t, n) == IF n \in Fragment THEN KidsOf(t, n) ELSE {n}

\* One argument is taken: what it brings is in no list and in `flat`.
LEMMA TakingParts ==
  ASSUME NEW g, Fit(g.t), g.flat \in Seq(Node), NEW n \in Node
  PROVE  /\ Parted(g.t, Taking(g, n).t, Brings(g.t, n))
         /\ \E list \in Seq(Node) :
              /\ Taking(g, n).flat = g.flat \o list
              /\ IsInjective(list) /\ ToSet(list) = Brings(g.t, n)
              /\ \A a, b : Precedes(list, a, b) <=> /\ a \in Brings(g.t, n) /\ b \in Brings(g.t, n)
                                                    /\ <<a, b>> \in Ord(g.t)
<1> DEFINE t == g.t
           kids == t.children[n]
<1>1. kids \in Seq(Node) /\ IsInjective(kids) /\ ToSet(kids) = KidsOf(t, n)
  BY DEF Fit, Shaped, Paired
<1>2. CASE n \in Fragment
  <2> DEFINE u == UnlinkAll(t, n, kids)
  <2>1. Parted(t, u, KidsOf(t, n))
    BY <1>1, UnlinkAllParts
  <2> HIDE DEF u
  <2>2. Taking(g, n) = [t |-> NoteEmptied(u, n, kids), flat |-> g.flat \o kids]
    BY <1>2 DEF Taking, u
  <2>3. Parted(t, NoteEmptied(u, n, kids), KidsOf(t, n))
    <3> DEFINE w == NoteEmptied(u, n, kids)
    <3>1. Fit(u)
      BY <2>1 DEF Parted
    <3>2. Fit(w) /\ w.parent = u.parent /\ Ord(w) = Ord(u)
      BY <3>1, Noted DEF NoteEmptied
    <3> HIDE DEF w
    <3>3. Parted(t, w, KidsOf(t, n))
      BY <2>1, <3>2 DEF Parted
    <3> QED BY <3>3 DEF w
  <2>4. ASSUME NEW a, NEW b
        PROVE  Precedes(kids, a, b) <=> a \in KidsOf(t, n) /\ b \in KidsOf(t, n) /\ <<a, b>> \in Ord(t)
    <3>1. Precedes(kids, a, b) => a \in KidsOf(t, n) /\ b \in KidsOf(t, n)
      BY <1>1 DEF Precedes, ToSet
    <3>2. a \in KidsOf(t, n) => a \in Node /\ t.parent[a] = n
      BY DEF KidsOf
    <3>3. b \in KidsOf(t, n) => b \in Node /\ t.parent[b] = n
      BY DEF KidsOf
    <3>4. <<a, b>> \in Ord(t) <=>
             /\ a \in Node /\ b \in Node /\ t.parent[a] \in Node
             /\ t.parent[b] = t.parent[a] /\ Precedes(t.children[t.parent[a]], a, b)
      BY TreeOrder
    <3> QED BY <3>1, <3>2, <3>3, <3>4
  <2>5. Brings(t, n) = KidsOf(t, n)
    BY <1>2 DEF Brings
  <2> HIDE DEF t, kids
  <2>6. Taking(g, n).t = NoteEmptied(u, n, kids) /\ Taking(g, n).flat = g.flat \o kids
    BY <2>2
  <2> QED BY <1>1, <2>3, <2>4, <2>5, <2>6 DEF t
<1>3. CASE n \notin Fragment
  <2>1. Taking(g, n) = [t |-> Detach(t, n, TRUE), flat |-> Append(g.flat, n)]
    BY <1>3 DEF Taking
  <2>2. Brings(t, n) = {n}
    BY <1>3 DEF Brings
  <2>3. Parted(t, Detach(t, n, TRUE), {n})
    BY DetachParts
  <2>4. Append(g.flat, n) = g.flat \o <<n>>
    OBVIOUS
  <2>5. <<n>> \in Seq(Node) /\ IsInjective(<<n>>) /\ ToSet(<<n>>) = {n}
    BY DEF IsInjective, ToSet
  <2>6. \A a, b : ~Precedes(<<n>>, a, b)
    BY DEF Precedes
  <2>7. <<n, n>> \notin Ord(t)
    BY OneOrder
  <2>8. Taking(g, n).t = Detach(t, n, TRUE) /\ Taking(g, n).flat = g.flat \o <<n>>
    BY <2>1, <2>4
  <2>9. \A a, b : Precedes(<<n>>, a, b) <=> a \in {n} /\ b \in {n} /\ <<a, b>> \in Ord(t)
    BY <2>6, <2>7
  <2> HIDE DEF t
  <2> QED BY <2>2, <2>3, <2>5, <2>8, <2>9 DEF t
<1> QED
  BY <1>2, <1>3

\* The nodes the first k arguments bring, and the place at which one counts:
\* the last of its own, or else the first of its fragment.
Brought(t, ns, k) == UNION {Brings(t, ns[i]) : i \in 1..k}

\* a is one of the first k arguments.
Listed(ns, k, a) == \E j \in 1..k : ns[j] = a

\* The argument that brings a: its last mention, or the first of its fragment.
IsPlace(t, ns, k, a, i) ==
  /\ i \in 1..k
  /\ Listed(ns, k, a) => ns[i] = a /\ \A j \in 1..k : ns[j] = a => j <= i
  /\ ~Listed(ns, k, a) => /\ ns[i] \in Fragment /\ ns[i] = t.parent[a]
                          /\ \A j \in 1..k : ns[j] = t.parent[a] => i <= j

\* What the first k rounds of Gather have done: what they brought is out of
\* every list, and flat orders it by places, and by the lists it was in.
Gathered(t, ns, k, g) ==
  LET M == Brought(t, ns, k)
  IN  /\ Parted(t, g.t, M)
      /\ g.flat \in Seq(Node) /\ ToSet(g.flat) = M
      /\ \A a \in M : \E i : IsPlace(t, ns, k, a, i)
      /\ \A a, b \in M : \A i, j :
           a # b /\ IsPlace(t, ns, k, a, i) /\ IsPlace(t, ns, k, b, j) =>
             (Ahead(g.flat, a, b) <=> i < j \/ (i = j /\ <<a, b>> \in Ord(t)))

\* Fragments and the document stay on top.
Tops == Fragment \cup {Document}

\* Documents and fragments have no parent.
Topped(t) == \A n \in Tops : t.parent[n] = None

\* One more round of Gather brings one more argument.
LEMMA GatheredNext ==
  ASSUME NEW t, Fit(t), Topped(t), NEW ns, NEW k \in Nat, \A i \in 1..(k + 1) : ns[i] \in Node,
         NEW g, Gathered(t, ns, k, g)
  PROVE  Gathered(t, ns, k + 1, Taking(g, ns[k + 1]))
<1> DEFINE M == Brought(t, ns, k)
           n == ns[k + 1]
           B == Brings(g.t, n)
           h == Taking(g, n)
<1>1. /\ Parted(t, g.t, M) /\ g.flat \in Seq(Node) /\ ToSet(g.flat) = M
      /\ \A a \in M : \E i : IsPlace(t, ns, k, a, i)
      /\ \A a, b \in M : \A i, j :
           a # b /\ IsPlace(t, ns, k, a, i) /\ IsPlace(t, ns, k, b, j) =>
             (Ahead(g.flat, a, b) <=> i < j \/ (i = j /\ <<a, b>> \in Ord(t)))
  BY DEF Gathered
<1>2. n \in Node /\ \A i \in 1..k : ns[i] \in Node
  OBVIOUS
<1>3. Fit(g.t) /\ \A x \in Node : g.t.parent[x] = IF x \in M THEN None ELSE t.parent[x]
  BY <1>1 DEF Parted
<1>4. PICK list \in Seq(Node) :
        /\ h.flat = g.flat \o list
        /\ IsInjective(list) /\ ToSet(list) = B
        /\ \A a, b : Precedes(list, a, b) <=> a \in B /\ b \in B /\ <<a, b>> \in Ord(g.t)
  BY <1>1, <1>2, <1>3, TakingParts
<1>5. Parted(g.t, h.t, B)
  BY <1>1, <1>2, <1>3, TakingParts
<1> HIDE DEF h
<1>6. n \notin Fragment => B = {n} /\ Brings(t, n) = {n}
  BY DEF Brings
<1>7. n \in Fragment => B = KidsOf(t, n) \ M /\ Brings(t, n) = KidsOf(t, n)
  BY <1>2, <1>3, NodeAssumption DEF Brings, KidsOf
<1>8. \A x \in M : \E i \in 1..k : x \in Brings(t, ns[i])
  BY DEF Brought
<1>9. ASSUME NEW x, NEW i \in 1..k, ns[i] = x, x \notin Fragment PROVE x \in M
  BY <1>9 DEF Brought, Brings
<1>10. ASSUME NEW x \in Node, NEW i \in 1..k, ns[i] \in Fragment, t.parent[x] = ns[i] PROVE x \in M
  BY <1>10 DEF Brought, Brings, KidsOf
<1>11. \A x \in M \cup B : x \in Node /\ x \notin Fragment
  <2>1. \A m, x : m \in Fragment /\ x \in KidsOf(t, m) => x \in Node /\ x \notin Fragment
    BY NodeAssumption DEF KidsOf, Topped, Tops
  <2>2. \A x \in M : x \in Node /\ x \notin Fragment
    BY <1>2, <1>8, <2>1 DEF Brings
  <2> QED BY <1>2, <1>6, <1>7, <2>1, <2>2
<1>12. Brought(t, ns, k + 1) = M \cup B
  <2>1. 1..(k + 1) = 1..k \cup {k + 1}
    OBVIOUS
  <2>2. Brought(t, ns, k + 1) = M \cup Brings(t, n)
    BY <2>1 DEF Brought
  <2> QED BY <1>6, <1>7, <2>2
<1> HIDE DEF M, B
<1>13. Parted(t, h.t, M \cup B)
  BY <1>1, <1>5, PartedTwice
<1>14. \A i : i \in 1..(k + 1) <=> i \in 1..k \/ i = k + 1
  OBVIOUS
<1>15. \A i \in 1..k : i < k + 1 /\ i <= k + 1 /\ i \in Nat /\ ~(k + 1 <= i)
  OBVIOUS
<1>16. ASSUME NEW x \in B, NEW i
       PROVE  IsPlace(t, ns, k + 1, x, i) <=> i = k + 1
  <2>1. CASE n \notin Fragment
    <3>1. x = n /\ Listed(ns, k + 1, x)
      BY <1>6, <1>14, <1>16, <2>1 DEF Listed
    <3> QED BY <1>14, <1>15, <3>1 DEF IsPlace
  <2>2. CASE n \in Fragment
    <3>1. x \in Node /\ t.parent[x] = n /\ x \notin M /\ x # n
      BY <1>7, <1>11, <1>16, <2>2 DEF KidsOf
    <3>2. ~Listed(ns, k + 1, x)
      BY <1>9, <1>11, <1>14, <1>16, <3>1 DEF Listed
    <3>3. \A j \in 1..k : ns[j] # n
      BY <1>10, <2>2, <3>1
    <3> QED BY <1>14, <1>15, <2>2, <3>1, <3>2, <3>3 DEF IsPlace
  <2> QED BY <2>1, <2>2
<1>17. ASSUME NEW x \in M, x \notin B, NEW i
       PROVE  IsPlace(t, ns, k + 1, x, i) <=> IsPlace(t, ns, k, x, i)
  <2>1. n # x
    BY <1>6, <1>11, <1>17
  <2>2. Listed(ns, k + 1, x) <=> Listed(ns, k, x)
    BY <1>14, <2>1 DEF Listed
  <2>3. CASE Listed(ns, k, x)
    BY <1>14, <1>15, <2>1, <2>2, <2>3 DEF IsPlace
  <2>4. CASE ~Listed(ns, k, x)
    <3>1. PICK e : IsPlace(t, ns, k, x, e)
      BY <1>1, <1>17
    <3>2. e \in 1..k /\ ns[e] = t.parent[x]
      BY <2>4, <3>1 DEF IsPlace
    <3>3. IsPlace(t, ns, k + 1, x, i) => i <= e
      BY <1>14, <2>2, <2>4, <3>2 DEF IsPlace
    <3>4. IsPlace(t, ns, k + 1, x, i) => i \in 1..k
      BY <1>14, <1>15, <3>2, <3>3 DEF IsPlace
    <3> QED BY <1>14, <1>15, <2>2, <2>4, <3>4 DEF IsPlace
  <2> QED BY <2>3, <2>4
<1>18. \A a \in M \cup B : \E i : IsPlace(t, ns, k + 1, a, i)
  BY <1>1, <1>16, <1>17
<1>19. /\ h.flat \in Seq(Node) /\ ToSet(h.flat) = M \cup B
  BY <1>1, <1>4, Joined
<1>20. ASSUME NEW a \in M \cup B, NEW b \in M \cup B, NEW i, NEW j, a # b,
              IsPlace(t, ns, k + 1, a, i), IsPlace(t, ns, k + 1, b, j)
       PROVE  Ahead(h.flat, a, b) <=> i < j \/ (i = j /\ <<a, b>> \in Ord(t))
  <2>1. Ahead(h.flat, a, b) <=> \/ b \in B /\ a \in M \ B
                                \/ Precedes(list, a, b)
                                \/ a \notin B /\ b \notin B /\ Ahead(g.flat, a, b)
    BY <1>1, <1>4, <1>20, AheadJoined
  <2>2. CASE b \in B /\ a \notin B
    <3>1. j = k + 1 /\ i \in 1..k
      BY <1>16, <1>17, <1>20, <2>2 DEF IsPlace
    <3> QED BY <1>15, <1>20, <2>1, <2>2, <3>1
  <2>3. CASE b \in B /\ a \in B
    <3>1. i = k + 1 /\ j = k + 1
      BY <1>16, <1>20, <2>3
    <3>2. n \in Fragment /\ a \notin M /\ b \notin M
      BY <1>6, <1>7, <1>20, <2>3
    <3>3. <<a, b>> \in Ord(g.t) <=> <<a, b>> \in Ord(t)
      BY <1>1, <3>2 DEF Parted
    <3> QED BY <1>4, <2>1, <2>3, <3>1, <3>3
  <2>4. CASE b \notin B /\ a \in B
    <3>1. i = k + 1 /\ j \in 1..k
      BY <1>16, <1>17, <1>20, <2>4 DEF IsPlace
    <3>2. ~(i < j) /\ i # j
      BY <1>15, <3>1
    <3> QED BY <1>4, <2>1, <2>4, <3>2
  <2>5. CASE b \notin B /\ a \notin B
    <3>1. a \in M /\ b \in M
      BY <1>20, <2>5
    <3>2. IsPlace(t, ns, k, a, i) /\ IsPlace(t, ns, k, b, j)
      BY <1>17, <1>20, <2>5, <3>1
    <3>3. Ahead(g.flat, a, b) <=> i < j \/ (i = j /\ <<a, b>> \in Ord(t))
      BY <1>1, <1>20, <3>1, <3>2
    <3>4. ~Precedes(list, a, b)
      BY <1>4, <2>5
    <3> QED BY <2>1, <2>5, <3>3, <3>4
  <2> QED BY <2>2, <2>3, <2>4, <2>5
<1>21. Gathered(t, ns, k + 1, h)
  BY <1>12, <1>13, <1>18, <1>19, <1>20 DEF Gathered
<1> QED
  BY <1>21 DEF h

\* Gather as a whole.
LEMMA GatherGathers ==
  ASSUME NEW t, Fit(t), Topped(t), NEW ns \in Seq(Node)
  PROVE  Gathered(t, ns, Len(ns), Gather(t, ns))
<1>1. Len(ns) \in Nat /\ \A k \in 1..Len(ns) : ns[k] \in Node
  OBVIOUS
<1>2. PICK f : GatherRounds(t, ns, f)
  BY <1>1, GatherRuns
<1>3. /\ f[0] = [t |-> t, flat |-> <<>>]
      /\ \A k \in 1..Len(ns) : f[k] = Taking(f[k - 1], ns[k])
      /\ Gather(t, ns) = f[Len(ns)]
  BY <1>2 DEF GatherRounds
<1> DEFINE T == {k \in Nat : k <= Len(ns) => Gathered(t, ns, k, f[k])}
<1>4. 0 \in T
  <2>1. Brought(t, ns, 0) = {}
    BY DEF Brought
  <2>2. f[0].t = t /\ f[0].flat = <<>>
    BY <1>3
  <2>3. Parted(t, t, {})
    BY NothingParts
  <2>4. <<>> \in Seq(Node) /\ ToSet(<<>>) = {}
    BY DEF ToSet
  <2> QED BY <2>1, <2>2, <2>3, <2>4 DEF Gathered
<1>5. ASSUME NEW k \in Nat, k \in T PROVE k + 1 \in T
  <2>1. SUFFICES ASSUME k + 1 <= Len(ns) PROVE Gathered(t, ns, k + 1, f[k + 1])
    OBVIOUS
  <2>2. /\ k + 1 \in 1..Len(ns) /\ (k + 1) - 1 = k /\ k <= Len(ns)
        /\ \A i \in 1..(k + 1) : i \in 1..Len(ns)
    BY <1>1, <2>1
  <2>3. f[k + 1] = Taking(f[k], ns[k + 1]) /\ Gathered(t, ns, k, f[k])
    BY <1>3, <1>5, <2>2
  <2>4. \A i \in 1..(k + 1) : ns[i] \in Node
    BY <1>1, <2>2
  <2> QED BY <2>3, <2>4, GatheredNext
<1>6. Nat \subseteq T
  <2> HIDE DEF T
  <2> QED BY <1>4, <1>5, Counting
<1> QED
  BY <1>1, <1>3, <1>6
-----------------------------------------------------------------------------
(* What the last loop of insert_nodes puts in.                              *)

\* The first k nodes of flat.
First(flat, k) == {flat[i] : i \in 1..k}

\* Among them, the last mention of a comes before b.
AheadUpto(flat, k, a, b) ==
  /\ a \in First(flat, k)
  /\ \E j \in 1..k : flat[j] = b /\ \A i \in 1..k : flat[i] = a => i < j

\* u is t after the first k of flat, parentless in t, have entered p; when ref
\* is not among them, each before ref and after those ahead of it.
InsertedUpto(t, p, flat, ref, k, u) ==
  LET M == First(flat, k)
      K == KidsOf(t, p)
      L == LaterThan(t, p, None, ref)
  IN  /\ Fit(u)
      /\ \A n \in Node : u.parent[n] = IF n \in M THEN p ELSE t.parent[n]
      /\ ref \notin ToSet(flat) =>
           \A a, b : <<a, b>> \in Ord(u) <=>
             \/ <<a, b>> \in Ord(t)
             \/ a \in K \ L /\ b \in M
             \/ a \in M /\ b \in L
             \/ a \in M /\ b \in M /\ AheadUpto(flat, k, a, b)

\* One more: it goes before ref again, and after all that went there.
LEMMA InsertedNext ==
  ASSUME NEW t, Fit(t), NEW p \in Node, NEW A \in SUBSET Node, Closed(t, A), p \in A,
         NEW flat \in Seq(Node), NEW ref,
         \A x \in ToSet(flat) : t.parent[x] = None /\ x \notin A,
         NEW k \in Nat, k + 1 \in DOMAIN flat,
         NEW u, InsertedUpto(t, p, flat, ref, k, u)
  PROVE  InsertedUpto(t, p, flat, ref, k + 1, InsertOne(u, p, flat[k + 1], ref, FALSE))
<1> DEFINE M == First(flat, k)
           c == flat[k + 1]
           K == KidsOf(t, p)
           L == LaterThan(t, p, None, ref)
           v == InsertOne(u, p, c, ref, FALSE)
<1>1. /\ Fit(u)
      /\ \A n \in Node : u.parent[n] = IF n \in M THEN p ELSE t.parent[n]
      /\ ref \notin ToSet(flat) =>
           \A a, b : <<a, b>> \in Ord(u) <=>
             \/ <<a, b>> \in Ord(t)
             \/ a \in K \ L /\ b \in M
             \/ a \in M /\ b \in L
             \/ a \in M /\ b \in M /\ AheadUpto(flat, k, a, b)
  BY DEF InsertedUpto
<1>2. /\ DOMAIN flat = 1..Len(flat) /\ Len(flat) \in Nat /\ c \in Node /\ c \in ToSet(flat)
      /\ \A i \in 1..(k + 1) : i \in DOMAIN flat
  BY DEF ToSet
<1>3. /\ 1..(k + 1) = 1..k \cup {k + 1}
      /\ \A i \in 1..k : i < k + 1 /\ ~(k + 1 < i)
      /\ ~(k + 1 < k + 1)
  OBVIOUS
<1>4. M \subseteq ToSet(flat) /\ ToSet(flat) \subseteq Node
  BY <1>2, <1>3 DEF First, ToSet
<1>5. First(flat, k + 1) = M \cup {c}
  BY <1>3 DEF First
<1>6. \A i \in 1..k : flat[i] \in M
  BY DEF First
<1>7. c # None /\ c \notin K /\ p # None /\ \A x \in ToSet(flat) : x \notin K
  BY <1>2, NodeAssumption DEF KidsOf
<1>8. L \subseteq K /\ K \subseteq Node /\ \A s \in K : s \in L <=> s = ref \/ <<ref, s>> \in Ord(t)
  BY NodeAssumption DEF LaterThan, KidsOf
<1> HIDE DEF M, c, K, L
<1>9. ~IsInclusiveAncestor(u, c, p)
  <2>1. ASSUME NEW n \in A PROVE Up(u, n) \in A \cup {None}
    <3>1. CASE n = None
      BY <3>1 DEF Up
    <3>2. CASE n # None
      <4>1. Up(t, n) \in A \cup {None}
        BY <2>1 DEF Closed
      <4>2. u.parent[n] = t.parent[n]
        BY <1>1, <1>4, <2>1
      <4> QED BY <3>2, <4>1, <4>2 DEF Up
    <3> QED BY <3>1, <3>2
  <2>2. Climb(u, p) \subseteq A
    BY <2>1, ClimbStays DEF Closed
  <2> QED BY <1>2, <2>2 DEF IsInclusiveAncestor
<1>10. Placed(u, v, p, c, LaterThan(u, p, c, ref))
  BY <1>1, <1>2, <1>9, InsertOnePlaces
<1> HIDE DEF v
<1>11. \A n \in Node : v.parent[n] = IF n \in M \cup {c} THEN p ELSE t.parent[n]
  BY <1>1, <1>10 DEF Placed
<1>12. ASSUME ref \notin ToSet(flat), NEW a, NEW b
       PROVE  <<a, b>> \in Ord(v) <=>
                \/ <<a, b>> \in Ord(t)
                \/ a \in K \ L /\ b \in M \cup {c}
                \/ a \in M \cup {c} /\ b \in L
                \/ a \in M \cup {c} /\ b \in M \cup {c} /\ AheadUpto(flat, k + 1, a, b)
  <2>1. KidsOf(u, p) = K \cup M
    BY <1>1, <1>4 DEF KidsOf, K
  <2>2. \A x, y : <<x, y>> \in Ord(t) => x \notin ToSet(flat) /\ y \notin ToSet(flat)
    <3>1. \A x, y : <<x, y>> \in Ord(t) => t.parent[x] \in Node /\ t.parent[y] \in Node
      BY OneOrder
    <3> QED BY <3>1, NodeAssumption
  <2>3. \A s \in K : <<ref, s>> \in Ord(t) => ref \in K
    BY OneOrder DEF K, KidsOf
  <2>4. LaterThan(u, p, c, ref) = L
    <3>1. ASSUME NEW s \in L PROVE s \in LaterThan(u, p, c, ref)
      BY <1>1, <1>7, <1>8, <1>12, <2>1, <3>1 DEF LaterThan
    <3>2. ASSUME NEW s \in LaterThan(u, p, c, ref) PROVE s \in L
      <4>1. s \in K \cup M /\ (s = ref \/ <<ref, s>> \in Ord(u))
        BY <2>1, <3>2 DEF LaterThan
      <4>2. ref \notin M /\ (ref \in K => ref \in L)
        BY <1>4, <1>8, <1>12
      <4>3. CASE s = ref
        BY <4>1, <4>2, <4>3
      <4>4. CASE <<ref, s>> \in Ord(u)
        <5>1. <<ref, s>> \in Ord(t)
          BY <1>1, <1>12, <4>2, <4>4
        <5>2. s \in K
          BY <1>4, <2>2, <4>1, <5>1
        <5> QED BY <1>8, <5>1, <5>2
      <4> QED BY <4>1, <4>3, <4>4
    <3> QED BY <3>1, <3>2
  <2>5. <<a, b>> \in Ord(v) <=>
          \/ <<a, b>> \in Ord(u) /\ a # c /\ b # c
          \/ b = c /\ a \in (K \cup M) \ ({c} \cup L)
          \/ a = c /\ b \in L
    BY <1>10, <2>1, <2>4 DEF Placed
  <2>6. <<a, b>> \in Ord(u) <=>
          \/ <<a, b>> \in Ord(t)
          \/ a \in K \ L /\ b \in M
          \/ a \in M /\ b \in L
          \/ a \in M /\ b \in M /\ AheadUpto(flat, k, a, b)
    BY <1>1, <1>12
  <2>7. c \notin L /\ M \cap L = {} /\ M \cap K = {} /\ c \notin K
    BY <1>4, <1>7, <1>8
  <2>8. CASE a = c
    <3>1. ~AheadUpto(flat, k + 1, a, b)
      BY <1>3, <2>8 DEF AheadUpto, c
    <3>2. <<a, b>> \notin Ord(t)
      BY <1>2, <2>2, <2>8
    <3> QED BY <2>5, <2>7, <2>8, <3>1, <3>2
  <2>9. CASE a # c /\ b = c
    <3>1. AheadUpto(flat, k + 1, a, b) <=> a \in M
      <4>1. a \in M \cup {c} <=> a \in M
        BY <2>9
      <4>2. \A i \in 1..(k + 1) : flat[i] = a => i < k + 1
        BY <1>3, <2>9 DEF c
      <4>3. k + 1 \in 1..(k + 1) /\ flat[k + 1] = b
        BY <1>3, <2>9 DEF c
      <4> QED BY <1>5, <4>1, <4>2, <4>3 DEF AheadUpto
    <3>2. <<a, b>> \notin Ord(t)
      BY <1>2, <2>2, <2>9
    <3> QED BY <2>5, <2>7, <2>9, <3>1, <3>2
  <2>10. CASE a # c /\ b # c
    <3>1. AheadUpto(flat, k + 1, a, b) <=> AheadUpto(flat, k, a, b)
      <4>1. a \in First(flat, k + 1) <=> a \in First(flat, k)
        BY <1>5, <2>10 DEF M
      <4>2. \A i \in 1..(k + 1) : flat[i] = a \/ flat[i] = b => i \in 1..k
        BY <1>3, <2>10 DEF c
      <4>3. \A i \in 1..k : i \in 1..(k + 1)
        BY <1>3
      <4> QED BY <4>1, <4>2, <4>3 DEF AheadUpto
    <3> QED BY <2>5, <2>6, <2>10, <3>1
  <2> QED BY <2>8, <2>9, <2>10
<1>13. Fit(v)
  BY <1>10 DEF Placed
<1>14. InsertedUpto(t, p, flat, ref, k + 1, v)
  BY <1>5, <1>11, <1>12, <1>13 DEF InsertedUpto, K, L
<1> QED
  BY <1>14 DEF v, c

\* The second loop of insert_nodes when the reference is not one of the nodes.
LEMMA InsertAllInserts ==
  ASSUME NEW t, Fit(t), NEW p \in Node, NEW A \in SUBSET Node, Closed(t, A), p \in A,
         NEW flat \in Seq(Node), NEW ref,
         \A x \in ToSet(flat) : t.parent[x] = None /\ x \notin A
  PROVE  InsertedUpto(t, p, flat, ref, Len(flat), InsertAll(t, p, flat, ref))
<1>1. Len(flat) \in Nat /\ DOMAIN flat = 1..Len(flat)
  OBVIOUS
<1>2. PICK f : InsertRounds(t, p, flat, ref, f)
  BY <1>1, InsertAllRuns
<1>3. /\ f[0] = t
      /\ \A k \in 1..Len(flat) : f[k] = InsertOne(f[k - 1], p, flat[k], ref, FALSE)
      /\ InsertAll(t, p, flat, ref) = f[Len(flat)]
  BY <1>2 DEF InsertRounds
<1> DEFINE T == {k \in Nat : k <= Len(flat) => InsertedUpto(t, p, flat, ref, k, f[k])}
<1>4. 0 \in T
  <2>1. First(flat, 0) = {}
    BY DEF First
  <2> QED BY <1>3, <2>1 DEF InsertedUpto
<1>5. ASSUME NEW k \in Nat, k \in T PROVE k + 1 \in T
  <2>1. SUFFICES ASSUME k + 1 <= Len(flat) PROVE InsertedUpto(t, p, flat, ref, k + 1, f[k + 1])
    OBVIOUS
  <2>2. /\ k + 1 \in 1..Len(flat) /\ (k + 1) - 1 = k /\ k <= Len(flat)
    BY <1>1, <2>1
  <2>3. f[k + 1] = InsertOne(f[k], p, flat[k + 1], ref, FALSE)
    BY <1>3, <2>2
  <2>4. InsertedUpto(t, p, flat, ref, k, f[k])
    BY <1>5, <2>2
  <2>5. k + 1 \in DOMAIN flat
    BY <1>1, <2>2
  <2>6. InsertedUpto(t, p, flat, ref, k + 1, InsertOne(f[k], p, flat[k + 1], ref, FALSE))
    BY <2>4, <2>5, InsertedNext
  <2> QED BY <2>3, <2>6
<1>6. Nat \subseteq T
  <2> HIDE DEF T
  <2> QED BY <1>4, <1>5, Counting
<1> QED
  BY <1>1, <1>3, <1>6

\* The same when ref is itself among flat: it enters last, each of the others
\* goes before it once it is in, and what p had before goes first.
OwnUpto(t, p, flat, ref, k, u) ==
  LET M == First(flat, k)
      K == KidsOf(t, p)
  IN  /\ Fit(u)
      /\ \A n \in Node : u.parent[n] = IF n \in M THEN p ELSE t.parent[n]
      /\ \A a, b : <<a, b>> \in Ord(u) <=>
           \/ <<a, b>> \in Ord(t)
           \/ a \in K /\ b \in M
           \/ /\ a \in M /\ b \in M /\ a # b
              /\ b = ref \/ (a # ref /\ AheadUpto(flat, k, a, b))

\* One more round when the reference is one of the nodes.
LEMMA OwnNext ==
  ASSUME NEW t, Fit(t), NEW p \in Node, NEW A \in SUBSET Node, Closed(t, A), p \in A,
         NEW flat \in Seq(Node), NEW ref \in ToSet(flat),
         \A x \in ToSet(flat) : t.parent[x] = None /\ x \notin A,
         NEW k \in Nat, k + 1 \in DOMAIN flat,
         NEW u, OwnUpto(t, p, flat, ref, k, u)
  PROVE  OwnUpto(t, p, flat, ref, k + 1, InsertOne(u, p, flat[k + 1], ref, FALSE))
<1> DEFINE M == First(flat, k)
           c == flat[k + 1]
           K == KidsOf(t, p)
           v == InsertOne(u, p, c, ref, FALSE)
<1>1. /\ Fit(u)
      /\ \A n \in Node : u.parent[n] = IF n \in M THEN p ELSE t.parent[n]
      /\ \A a, b : <<a, b>> \in Ord(u) <=>
           \/ <<a, b>> \in Ord(t)
           \/ a \in K /\ b \in M
           \/ /\ a \in M /\ b \in M /\ a # b
              /\ b = ref \/ (a # ref /\ AheadUpto(flat, k, a, b))
  BY DEF OwnUpto
<1>2. /\ DOMAIN flat = 1..Len(flat) /\ Len(flat) \in Nat /\ c \in Node /\ c \in ToSet(flat)
      /\ \A i \in 1..(k + 1) : i \in DOMAIN flat
  BY DEF ToSet
<1>3. /\ 1..(k + 1) = 1..k \cup {k + 1}
      /\ \A i \in 1..k : i < k + 1 /\ ~(k + 1 < i)
      /\ ~(k + 1 < k + 1)
  OBVIOUS
<1>4. M \subseteq ToSet(flat) /\ ToSet(flat) \subseteq Node
  BY <1>2, <1>3 DEF First, ToSet
<1>5. First(flat, k + 1) = M \cup {c}
  BY <1>3 DEF First
<1>6. \A x \in ToSet(flat) : x \notin K
  BY <1>4, NodeAssumption DEF KidsOf
<1> HIDE DEF M, c, K
<1>7. ~IsInclusiveAncestor(u, c, p)
  <2>1. ASSUME NEW n \in A PROVE Up(u, n) \in A \cup {None}
    <3>1. CASE n = None
      BY <3>1 DEF Up
    <3>2. CASE n # None
      <4>1. Up(t, n) \in A \cup {None}
        BY <2>1 DEF Closed
      <4>2. u.parent[n] = t.parent[n]
        BY <1>1, <1>4, <2>1
      <4> QED BY <3>2, <4>1, <4>2 DEF Up
    <3> QED BY <3>1, <3>2
  <2>2. Climb(u, p) \subseteq A
    BY <2>1, ClimbStays DEF Closed
  <2> QED BY <1>2, <2>2 DEF IsInclusiveAncestor
<1>8. Placed(u, v, p, c, LaterThan(u, p, c, ref))
  BY <1>1, <1>2, <1>7, InsertOnePlaces
<1> HIDE DEF v
<1>9. KidsOf(u, p) = K \cup M
  BY <1>1, <1>4 DEF KidsOf, K
<1>10. \A x, y : <<x, y>> \in Ord(t) => x \notin ToSet(flat) /\ y \notin ToSet(flat)
  <2>1. \A x, y : <<x, y>> \in Ord(t) => t.parent[x] \in Node /\ t.parent[y] \in Node
    BY OneOrder
  <2> QED BY <2>1, NodeAssumption
<1>11. \A s : s \in LaterThan(u, p, c, ref) <=> s = ref /\ ref \in M /\ c # ref
  <2>1. ASSUME NEW s, <<ref, s>> \in Ord(u) PROVE FALSE
    <3>1. <<ref, s>> \notin Ord(t) /\ ref \notin K
      BY <1>6, <1>10
    <3>2. s = ref /\ s # ref
      BY <1>1, <2>1, <3>1
    <3> QED BY <3>2
  <2>2. \A s : s \in LaterThan(u, p, c, ref) <=> s \in K \cup M /\ s # c /\ s = ref
    BY <1>9, <2>1 DEF LaterThan
  <2> QED BY <1>6, <2>2
<1>12. ASSUME NEW a, NEW b
       PROVE  <<a, b>> \in Ord(v) <=>
                \/ <<a, b>> \in Ord(t)
                \/ a \in K /\ b \in M \cup {c}
                \/ /\ a \in M \cup {c} /\ b \in M \cup {c} /\ a # b
                   /\ b = ref \/ (a # ref /\ AheadUpto(flat, k + 1, a, b))
  <2>1. <<a, b>> \in Ord(v) <=>
          \/ <<a, b>> \in Ord(u) /\ a # c /\ b # c
          \/ b = c /\ a \in K \cup M /\ a # c /\ ~(a = ref /\ ref \in M /\ c # ref)
          \/ a = c /\ b = ref /\ ref \in M /\ c # ref
    BY <1>8, <1>9, <1>11 DEF Placed
  <2>2. c \notin K /\ ref \notin K
    BY <1>2, <1>6
  <2>3. CASE a = c
    <3>1. ~AheadUpto(flat, k + 1, a, b)
      BY <1>3, <2>3 DEF AheadUpto, c
    <3>2. <<a, b>> \notin Ord(t)
      BY <1>2, <1>10, <2>3
    <3>3. <<a, b>> \in Ord(v) <=> b = ref /\ ref \in M /\ c # ref
      BY <2>1, <2>3
    <3> QED BY <2>2, <2>3, <3>1, <3>2, <3>3
  <2>4. CASE a # c /\ b = c
    <3>1. AheadUpto(flat, k + 1, a, b) <=> a \in M
      <4>1. a \in M \cup {c} <=> a \in M
        BY <2>4
      <4>2. \A i \in 1..(k + 1) : flat[i] = a => i < k + 1
        BY <1>3, <2>4 DEF c
      <4>3. k + 1 \in 1..(k + 1) /\ flat[k + 1] = b
        BY <1>3, <2>4 DEF c
      <4> QED BY <1>5, <4>1, <4>2, <4>3 DEF AheadUpto
    <3>2. <<a, b>> \notin Ord(t)
      BY <1>2, <1>10, <2>4
    <3>3. <<a, b>> \in Ord(v) <=> a \in K \cup M /\ ~(a = ref /\ ref \in M /\ c # ref)
      BY <2>1, <2>4
    <3> QED BY <2>2, <2>4, <3>1, <3>2, <3>3
  <2>5. CASE a # c /\ b # c
    <3>1. AheadUpto(flat, k + 1, a, b) <=> AheadUpto(flat, k, a, b)
      <4>1. a \in First(flat, k + 1) <=> a \in First(flat, k)
        BY <1>5, <2>5 DEF M
      <4>2. \A i \in 1..(k + 1) : flat[i] = a \/ flat[i] = b => i \in 1..k
        BY <1>3, <2>5 DEF c
      <4>3. \A i \in 1..k : i \in 1..(k + 1)
        BY <1>3
      <4> QED BY <4>1, <4>2, <4>3 DEF AheadUpto
    <3>2. <<a, b>> \in Ord(v) <=> <<a, b>> \in Ord(u)
      BY <2>1, <2>5
    <3> QED BY <1>1, <2>5, <3>1, <3>2
  <2> QED BY <2>3, <2>4, <2>5
<1>13. \A n \in Node : v.parent[n] = IF n \in M \cup {c} THEN p ELSE t.parent[n]
  BY <1>1, <1>8 DEF Placed
<1>14. Fit(v)
  BY <1>8 DEF Placed
<1>15. OwnUpto(t, p, flat, ref, k + 1, v)
  BY <1>5, <1>12, <1>13, <1>14 DEF OwnUpto, K
<1> QED
  BY <1>15 DEF v, c

\* The second loop of insert_nodes when the reference is one of the nodes.
LEMMA InsertAllOwn ==
  ASSUME NEW t, Fit(t), NEW p \in Node, NEW A \in SUBSET Node, Closed(t, A), p \in A,
         NEW flat \in Seq(Node), NEW ref \in ToSet(flat),
         \A x \in ToSet(flat) : t.parent[x] = None /\ x \notin A
  PROVE  OwnUpto(t, p, flat, ref, Len(flat), InsertAll(t, p, flat, ref))
<1>1. Len(flat) \in Nat /\ DOMAIN flat = 1..Len(flat)
  OBVIOUS
<1>2. PICK f : InsertRounds(t, p, flat, ref, f)
  BY <1>1, InsertAllRuns
<1>3. /\ f[0] = t
      /\ \A k \in 1..Len(flat) : f[k] = InsertOne(f[k - 1], p, flat[k], ref, FALSE)
      /\ InsertAll(t, p, flat, ref) = f[Len(flat)]
  BY <1>2 DEF InsertRounds
<1> DEFINE T == {k \in Nat : k <= Len(flat) => OwnUpto(t, p, flat, ref, k, f[k])}
<1>4. 0 \in T
  <2>1. First(flat, 0) = {}
    BY DEF First
  <2> QED BY <1>3, <2>1 DEF OwnUpto
<1>5. ASSUME NEW k \in Nat, k \in T PROVE k + 1 \in T
  <2>1. SUFFICES ASSUME k + 1 <= Len(flat) PROVE OwnUpto(t, p, flat, ref, k + 1, f[k + 1])
    OBVIOUS
  <2>2. /\ k + 1 \in 1..Len(flat) /\ (k + 1) - 1 = k /\ k <= Len(flat)
    BY <1>1, <2>1
  <2>3. f[k + 1] = InsertOne(f[k], p, flat[k + 1], ref, FALSE)
    BY <1>3, <2>2
  <2>4. OwnUpto(t, p, flat, ref, k, f[k])
    BY <1>5, <2>2
  <2>5. k + 1 \in DOMAIN flat
    BY <1>1, <2>2
  <2>6. OwnUpto(t, p, flat, ref, k + 1, InsertOne(f[k], p, flat[k + 1], ref, FALSE))
    BY <2>4, <2>5, OwnNext
  <2> QED BY <2>3, <2>6
<1>6. Nat \subseteq T
  <2> HIDE DEF T
  <2> QED BY <1>4, <1>5, Counting
<1> QED
  BY <1>1, <1>3, <1>6
-----------------------------------------------------------------------------
(* insert_nodes as a whole.                                                 *)

\* What the invariant gives a call: overlays that agree, fragments on top,
\* hosts for fragments only.
Ready(t) ==
  /\ Fit(t) /\ Topped(t)
  /\ hostOf \in [Node -> Node \cup {None}]
  /\ \A n \in Node : hostOf[n] # None => n \in Fragment

\* The arguments do not hold p.
Enters(t, p, ns) == \A i \in DOMAIN ns : ~IsInclusiveAncestor(t, ns[i], p)

\* What they bring is not above p.
LEMMA BroughtStayBelow ==
  ASSUME NEW t, Ready(t), NEW p \in Node, NEW ns \in Seq(Node), Enters(t, p, ns)
  PROVE  \A x \in Brought(t, ns, Len(ns)) : x \in Node /\ x \notin Climb(t, p)
<1>1. /\ t.parent \in [Node -> Node \cup {None}]
      /\ hostOf \in [Node -> Node \cup {None}]
  BY DEF Ready, Fit, Shaped
<1>2. Closed(t, Climb(t, p))
  BY <1>1, ClimbCloses
<1>3. DOMAIN ns = 1..Len(ns) /\ \A i \in DOMAIN ns : ns[i] \in Node
  OBVIOUS
<1>4. SUFFICES ASSUME NEW i \in 1..Len(ns), NEW x \in Brings(t, ns[i])
               PROVE  x \in Node /\ x \notin Climb(t, p)
  BY DEF Brought
<1>5. ns[i] \in Node /\ ns[i] \notin Climb(t, p)
  BY <1>3 DEF Enters, IsInclusiveAncestor
<1>6. CASE ns[i] \notin Fragment
  BY <1>5, <1>6 DEF Brings
<1>7. CASE ns[i] \in Fragment
  <2>1. x \in Node /\ t.parent[x] = ns[i]
    BY <1>7 DEF Brings, KidsOf
  <2>2. Up(t, x) = ns[i]
    BY <1>5, <2>1, NodeAssumption DEF Up
  <2> QED BY <1>2, <1>5, <2>1, <2>2, NodeAssumption DEF Closed
<1> QED
  BY <1>6, <1>7

\* The nodes M have moved to p before ref, in the order `ahead` when ref is
\* none of them, and `gone` have left p.
Moves(t, u, p, M, flat, ref, gone) ==
  LET K == KidsOf(t, p) \ (M \cup gone)
      L == {s \in K : ref \in K /\ (s = ref \/ <<ref, s>> \in Ord(t))}
  IN  /\ Fit(u)
      /\ \A n \in Node : u.parent[n] = IF n \in M THEN p
                                       ELSE IF n \in gone THEN None ELSE t.parent[n]
      /\ ref \notin M =>
           \A a, b : <<a, b>> \in Ord(u) <=>
             \/ <<a, b>> \in Ord(t) /\ a \notin M \cup gone /\ b \notin M \cup gone
             \/ a \in K \ L /\ b \in M
             \/ a \in M /\ b \in L
             \/ a \in M /\ b \in M /\ Ahead(flat, a, b)

\* The tree once the replaced children that no argument moved have left.
Cleared(g, p, replaced) ==
  UnlinkAll(g.t, p, Kept(replaced, {c \in Node : g.t.parent[c] = p}))

\* The last loop of insert_nodes starts with the moved and the replaced nodes
\* out of every list of v, and climbing from p stays in A.
LoopStart(t, p, ns, anchor, replaced, v, A) ==
  LET g == Gather(t, ns)
      M == Brought(t, ns, Len(ns))
      R == ToSet(replaced)
      u == InsertNodes(t, p, ns, anchor, replaced)
      w == InsertAll(v, p, g.flat, Reference(g.t, p, anchor))
  IN  /\ Fit(v)
      /\ \A n \in Node : v.parent[n] = IF n \in M \cup R THEN None ELSE t.parent[n]
      /\ \A a, b : <<a, b>> \in Ord(v) <=> <<a, b>> \in Ord(t) /\ a \notin M \cup R /\ b \notin M \cup R
      /\ A \in SUBSET Node /\ p \in A /\ Closed(v, A)
      /\ \A x \in ToSet(g.flat) : v.parent[x] = None /\ x \notin A
      /\ Fit(w) => Fit(u) /\ u.parent = w.parent /\ Ord(u) = Ord(w)

\* What the first loop leaves is where the second may start.
LEMMA LoopStarts ==
  ASSUME NEW t, Ready(t), NEW p \in Node, NEW ns \in Seq(Node), Enters(t, p, ns),
         NEW anchor, NEW replaced \in Seq(Node), ToSet(replaced) \subseteq KidsOf(t, p)
  PROVE  /\ Gathered(t, ns, Len(ns), Gather(t, ns))
         /\ \E A : LoopStart(t, p, ns, anchor, replaced, Cleared(Gather(t, ns), p, replaced), A)
<1> DEFINE g == Gather(t, ns)
           M == Brought(t, ns, Len(ns))
           ref == Reference(g.t, p, anchor)
           G == Kept(replaced, {c \in Node : g.t.parent[c] = p})
           v == UnlinkAll(g.t, p, G)
           w == InsertAll(v, p, g.flat, ref)
           R == ToSet(replaced)
           u == InsertNodes(t, p, ns, anchor, replaced)
<1>1. Gathered(t, ns, Len(ns), g)
  BY GatherGathers DEF Ready
<1>2. /\ Parted(t, g.t, M) /\ g.flat \in Seq(Node) /\ ToSet(g.flat) = M
  BY <1>1 DEF Gathered
<1>3. M \subseteq Node /\ \A x \in M : x \notin Climb(t, p)
  BY BroughtStayBelow
<1>4. u = NoteNodes(w, p, g.flat, G,
                    IF ref = None THEN LastOf(v.children[p]) ELSE PreviousSibling(v, ref), ref)
  BY DEF InsertNodes, InsertReplacing, InsertGathered, InsertFlat
<1> HIDE DEF g, M, ref, u, R
<1>5. R \subseteq KidsOf(t, p) /\ G \in Seq(Node) /\ ToSet(G) = R \cap KidsOf(g.t, p)
  BY KeptPicks, KeptMembers DEF KidsOf, R
<1>6. Parted(g.t, v, ToSet(G))
  BY <1>2, <1>5, UnlinkAllParts DEF Parted
<1> HIDE DEF G
<1>7. Parted(t, v, M \cup ToSet(G))
  BY <1>2, <1>6, PartedTwice
<1> HIDE DEF v
<1>8. M \cup ToSet(G) = M \cup R
  <2>1. \A n \in R : n \in Node /\ t.parent[n] = p
    BY <1>5 DEF KidsOf
  <2>2. \A n \in R : n \notin M => n \in KidsOf(g.t, p)
    BY <1>2, <2>1 DEF Parted, KidsOf
  <2> QED BY <1>5, <2>2
<1>9. /\ Fit(v)
      /\ \A n \in Node : v.parent[n] = IF n \in M \cup R THEN None ELSE t.parent[n]
      /\ \A a, b : <<a, b>> \in Ord(v) <=> <<a, b>> \in Ord(t) /\ a \notin M \cup R /\ b \notin M \cup R
  BY <1>7, <1>8 DEF Parted
<1> DEFINE A == Climb(t, p)
<1>10. p \in A /\ A \in SUBSET Node /\ Closed(t, A)
  <2>1. /\ t.parent \in [Node -> Node \cup {None}]
        /\ hostOf \in [Node -> Node \cup {None}]
    BY DEF Ready, Fit, Shaped
  <2> QED BY <2>1, ClimbCloses
<1>11. Closed(v, A)
  <2>1. SUFFICES ASSUME NEW n \in A PROVE Up(v, n) \in A \cup {None}
    BY DEF Closed
  <2>2. n \in Node /\ n # None /\ n \notin M /\ Up(t, n) \in A \cup {None}
    BY <1>3, <1>10, NodeAssumption DEF Closed
  <2> HIDE DEF A
  <2>3. CASE n \in R
    <3>1. t.parent[n] = p
      BY <1>5, <2>3 DEF KidsOf
    <3>2. hostOf[n] = None
      BY <2>2, <3>1, NodeAssumption DEF Ready, Topped, Tops
    <3>3. Up(v, n) = None
      BY <1>9, <2>2, <2>3, <3>2 DEF Up
    <3> QED BY <3>3
  <2>4. CASE n \notin R
    <3>1. v.parent[n] = t.parent[n]
      BY <1>9, <2>2, <2>4
    <3> QED BY <2>2, <3>1 DEF Up
  <2> QED BY <2>3, <2>4
<1>12. \A x \in ToSet(g.flat) : v.parent[x] = None /\ x \notin A
  BY <1>2, <1>3, <1>9
<1> HIDE DEF A
<1> HIDE DEF w
<1>13. Fit(w) => Fit(u) /\ u.parent = w.parent /\ Ord(u) = Ord(w)
  BY <1>4, Noted DEF NoteNodes
<1>14. LoopStart(t, p, ns, anchor, replaced, v, A)
  BY <1>9, <1>10, <1>11, <1>12, <1>13 DEF LoopStart, g, M, R, u, w, ref
<1> QED
  BY <1>1, <1>14 DEF g, v, G, Cleared

\* insert_nodes as one change of parents and order.
LEMMA InsertNodesMoves ==
  ASSUME NEW t, Ready(t), NEW p \in Node, NEW ns \in Seq(Node), Enters(t, p, ns),
         NEW anchor, NEW replaced \in Seq(Node), ToSet(replaced) \subseteq KidsOf(t, p)
  PROVE  LET g == Gather(t, ns)
         IN  /\ Gathered(t, ns, Len(ns), g)
             /\ Moves(t, InsertNodes(t, p, ns, anchor, replaced), p,
                      Brought(t, ns, Len(ns)), g.flat, Reference(g.t, p, anchor), ToSet(replaced))
<1> DEFINE g == Gather(t, ns)
           M == Brought(t, ns, Len(ns))
           ref == Reference(g.t, p, anchor)
           R == ToSet(replaced)
           u == InsertNodes(t, p, ns, anchor, replaced)
<1>1. Gathered(t, ns, Len(ns), g)
  BY LoopStarts
<1>2. /\ Parted(t, g.t, M) /\ g.flat \in Seq(Node) /\ ToSet(g.flat) = M
  BY <1>1 DEF Gathered
<1>3. PICK v, A : LoopStart(t, p, ns, anchor, replaced, v, A)
  BY LoopStarts
<1> DEFINE w == InsertAll(v, p, g.flat, ref)
<1>4. /\ Fit(v)
      /\ \A n \in Node : v.parent[n] = IF n \in M \cup R THEN None ELSE t.parent[n]
      /\ \A a, b : <<a, b>> \in Ord(v) <=> <<a, b>> \in Ord(t) /\ a \notin M \cup R /\ b \notin M \cup R
      /\ A \in SUBSET Node /\ p \in A /\ Closed(v, A)
      /\ \A x \in ToSet(g.flat) : v.parent[x] = None /\ x \notin A
      /\ Fit(w) => Fit(u) /\ u.parent = w.parent /\ Ord(u) = Ord(w)
  BY <1>3 DEF LoopStart
<1> HIDE DEF g, M, ref, u, R
<1>5. InsertedUpto(v, p, g.flat, ref, Len(g.flat), w)
  BY <1>2, <1>4, InsertAllInserts
<1> HIDE DEF w
<1> DEFINE K == KidsOf(t, p) \ (M \cup R)
           L == {s \in K : ref \in K /\ (s = ref \/ <<ref, s>> \in Ord(t))}
<1>6. DOMAIN g.flat = 1..Len(g.flat)
  BY <1>2
<1>7. First(g.flat, Len(g.flat)) = M
  BY <1>2, <1>6 DEF First, ToSet
<1>8. \A a, b : AheadUpto(g.flat, Len(g.flat), a, b) <=> Ahead(g.flat, a, b)
  BY <1>2, <1>6, <1>7 DEF AheadUpto, Ahead
<1>9. KidsOf(v, p) = K
  BY <1>4, NodeAssumption DEF KidsOf
<1>10. LaterThan(v, p, None, ref) = L
  <2>1. \A s \in K : s # None
    BY NodeAssumption DEF KidsOf
  <2>2. ASSUME NEW s \in K, <<ref, s>> \in Ord(v) PROVE ref \in K /\ <<ref, s>> \in Ord(t)
    <3>1. <<ref, s>> \in Ord(t)
      BY <1>4, <2>2
    <3>2. ref \in Node /\ v.parent[ref] = v.parent[s] /\ v.parent[s] = p
      <4>1. Fit(v)
        BY <1>4
      <4>2. ref \in Node /\ v.parent[ref] = v.parent[s]
        BY <2>2, <4>1, OneOrder
      <4>3. v.parent[s] = p
        BY <1>9 DEF KidsOf
      <4> QED BY <4>2, <4>3
    <3>3. ref \in KidsOf(v, p)
      BY <3>2 DEF KidsOf
    <3> QED BY <1>9, <3>1, <3>3
  <2>3. ASSUME NEW s \in K, ref \in K, <<ref, s>> \in Ord(t) PROVE <<ref, s>> \in Ord(v)
    BY <1>4, <2>3
  <2>4. \A s : s \in LaterThan(v, p, None, ref) <=> s \in K /\ s # None /\ (s = ref \/ <<ref, s>> \in Ord(v))
    BY <1>9 DEF LaterThan
  <2> HIDE DEF K
  <2> QED BY <2>1, <2>2, <2>3, <2>4
<1> HIDE DEF K, L
<1>11. /\ Fit(w)
       /\ \A n \in Node : w.parent[n] = IF n \in M THEN p ELSE v.parent[n]
       /\ ref \notin M =>
            \A a, b : <<a, b>> \in Ord(w) <=>
              \/ <<a, b>> \in Ord(v)
              \/ a \in K \ L /\ b \in M
              \/ a \in M /\ b \in L
              \/ a \in M /\ b \in M /\ Ahead(g.flat, a, b)
  BY <1>2, <1>5, <1>7, <1>8, <1>9, <1>10 DEF InsertedUpto
<1>12. Fit(u) /\ u.parent = w.parent /\ Ord(u) = Ord(w)
  BY <1>4, <1>11
<1>13. Moves(t, u, p, M, g.flat, ref, R)
  BY <1>4, <1>11, <1>12 DEF Moves, K, L
<1> QED
  BY <1>1, <1>13 DEF g, M, ref, u, R
-----------------------------------------------------------------------------
(* The handlers, each as one Moves.                                         *)

\* remove_child as a change of parents and order.
LEMMA UnlinkMoves ==
  ASSUME NEW t, Fit(t), NEW p \in Node, NEW c \in Node, t.parent[c] = p, NEW logged
  PROVE  Moves(t, Unlink(t, p, c, logged), p, {}, <<>>, None, {c})
<1>1. Parted(t, Unlink(t, p, c, logged), {c})
  BY UnlinkParts
<1> QED
  BY <1>1 DEF Parted, Moves

\* insert_before of one node as a change of parents and order.
LEMMA InsertOneMoves ==
  ASSUME NEW t, Fit(t), NEW p \in Node, NEW c \in Node, NEW ref, NEW logged,
         ~IsInclusiveAncestor(t, c, p)
  PROVE  Moves(t, InsertOne(t, p, c, ref, logged), p, {c}, <<c>>,
               IF ref = c THEN NextSibling(t, c) ELSE ref, {})
<1> DEFINE u == InsertOne(t, p, c, ref, logged)
           at == IF ref = c THEN NextSibling(t, c) ELSE ref
           later == LaterThan(t, p, c, ref)
           K == KidsOf(t, p) \ ({c} \cup {})
           L == {s \in K : at \in K /\ (s = at \/ <<at, s>> \in Ord(t))}
<1>1. Placed(t, u, p, c, later)
  BY InsertOnePlaces
<1> HIDE DEF u
<1>2. later = L
  <2>1. \A s \in K : s \in Node /\ s # c /\ t.parent[s] = p
    BY DEF KidsOf
  <2>2. \A s \in K : \A r : <<r, s>> \in Ord(t) => r \in KidsOf(t, p)
    BY <2>1, OneOrder DEF KidsOf
  <2>3. later = {s \in K : s = ref \/ <<ref, s>> \in Ord(t)}
    BY DEF LaterThan
  <2> HIDE DEF later
  <2>4. CASE ref # c
    <3>1. at = ref
      BY <2>4
    <3>2. \A s \in K : s = ref \/ <<ref, s>> \in Ord(t) => ref \in K
      BY <2>2, <2>4
    <3> HIDE DEF at, K
    <3> QED BY <2>3, <3>1, <3>2
  <2>5. CASE ref = c
    <3>1. IsFirst(t, Follow(t, c), at)
      BY <2>5, NextIs
    <3> HIDE DEF at
    <3>2. ASSUME NEW s \in K
          PROVE  <<c, s>> \in Ord(t) <=> at \in K /\ (s = at \/ <<at, s>> \in Ord(t))
      <4>1. CASE at = None /\ Follow(t, c) = {}
        <5>1. <<c, s>> \notin Ord(t)
          BY <2>1, <4>1 DEF Follow
        <5>2. at \notin K
          BY <2>1, <4>1, NodeAssumption
        <5> QED BY <5>1, <5>2
      <4>2. CASE at \in Follow(t, c) /\ \A y \in Follow(t, c) \ {at} : <<at, y>> \in Ord(t)
        <5>1. <<c, at>> \in Ord(t) /\ at # c
          BY <4>2, OneOrder DEF Follow
        <5>2. <<c, s>> \in Ord(t) => s = at \/ <<at, s>> \in Ord(t)
          BY <2>1, <4>2 DEF Follow
        <5>3. <<at, s>> \in Ord(t) => <<c, s>> \in Ord(t)
          BY <5>1, OneOrder
        <5>4. <<c, s>> \in Ord(t) => at \in K
          <6>1. SUFFICES ASSUME <<c, s>> \in Ord(t) PROVE at \in Node /\ t.parent[at] = p
            BY <5>1 DEF KidsOf
          <6>2. t.parent[c] = t.parent[s] /\ t.parent[at] = t.parent[c] /\ at \in Node
            BY <5>1, <6>1, OneOrder
          <6> QED BY <2>1, <6>2
        <5> QED BY <5>1, <5>2, <5>3, <5>4
      <4> QED BY <3>1, <4>1, <4>2 DEF IsFirst
    <3>3. \A s \in K : s # ref
      BY <2>1, <2>5
    <3> HIDE DEF K
    <3> QED BY <2>3, <2>5, <3>2, <3>3
  <2> QED BY <2>4, <2>5
<1>3. KidsOf(t, p) \ ({c} \cup later) = K \ L
  BY <1>2
<1>4. \A a, b : ~(a \in {c} /\ b \in {c} /\ Ahead(<<c>>, a, b))
  BY DEF Ahead
<1>5. \A n \in Node : u.parent[n] = IF n \in {c} THEN p ELSE IF n \in {} THEN None ELSE t.parent[n]
  BY <1>1 DEF Placed
<1>6. \A a, b : <<a, b>> \in Ord(u) <=>
         \/ <<a, b>> \in Ord(t) /\ a \notin {c} \cup {} /\ b \notin {c} \cup {}
         \/ a \in K \ L /\ b \in {c}
         \/ a \in {c} /\ b \in L
         \/ a \in {c} /\ b \in {c} /\ Ahead(<<c>>, a, b)
  BY <1>1, <1>2, <1>3, <1>4 DEF Placed
<1>7. Fit(u)
  BY <1>1 DEF Placed
<1> QED
  BY <1>5, <1>6, <1>7 DEF Moves, u

\* textContent and innerHTML: the old children leave and new nodes come.
LEMMA RewriteMoves ==
  ASSUME NEW t, Fit(t), NEW h \in Node, NEW new \in Seq(Node), IsInjective(new),
         \A n \in ToSet(new) : t.parent[n] = None
  PROVE  Moves(t, Rewrite(t, h, new), h, ToSet(new), new, None, ToSet(t.children[h]))
<1> DEFINE old == t.children[h]
           N == ToSet(new)
           R == ToSet(old)
           u == [t EXCEPT !.parent = [n \in Node |-> IF n \in ToSet(new) THEN h
                                                     ELSE IF n \in ToSet(old) THEN None
                                                     ELSE @[n]],
                          !.children[h] = new]
           step == Step("rewrite", h, new, old, None, None, new # <<>> \/ old # <<>>)
<1>1. Rewrite(t, h, new) = Note(u, step)
  BY DEF Rewrite
<1>2. /\ Whole(t)
      /\ t.parent \in [Node -> Node \cup {None}] /\ t.children \in [Node -> Seq(Node)]
      /\ \A p \in Node : IsInjective(t.children[p]) /\ ToSet(t.children[p]) = KidsOf(t, p)
  BY DEF Fit, Shaped, Paired
<1>3. /\ u.parent = [n \in Node |-> IF n \in ToSet(new) THEN h
                                    ELSE IF n \in ToSet(old) THEN None
                                    ELSE t.parent[n]]
      /\ u.children = [t.children EXCEPT ![h] = new]
      /\ Whole(u)
  BY <1>2 DEF Whole, Fields
<1> HIDE DEF u, step
<1>4. N \subseteq Node /\ R = KidsOf(t, h)
  BY <1>2 DEF ToSet
<1> HIDE DEF N, R
<1>5. \A n \in Node : u.parent[n] = IF n \in N THEN h ELSE IF n \in R THEN None ELSE t.parent[n]
  BY <1>3 DEF N, R
<1>6. Shaped(u)
  <2>1. u.parent \in [Node -> Node \cup {None}]
    BY <1>2, <1>3
  <2>2. u.children \in [Node -> Seq(Node)]
    BY <1>2, <1>3
  <2> QED BY <1>3, <2>1, <2>2 DEF Shaped
<1>7. \A n \in N : n \in Node /\ t.parent[n] = None /\ n \notin R
  BY <1>4, NodeAssumption DEF N, KidsOf
<1>8. ASSUME NEW p \in Node
      PROVE  IsInjective(u.children[p]) /\ ToSet(u.children[p]) = KidsOf(u, p)
  <2>1. CASE p = h
    <3>1. u.children[p] = new
      BY <1>2, <1>3, <2>1
    <3>2. KidsOf(u, p) = N
      BY <1>4, <1>5, <2>1, NodeAssumption DEF KidsOf
    <3> QED BY <3>1, <3>2 DEF N
  <2>2. CASE p # h
    <3>1. u.children[p] = t.children[p]
      BY <1>2, <1>3, <2>2
    <3>2. \A n \in Node : u.parent[n] = p <=> t.parent[n] = p
      BY <1>4, <1>5, <1>7, <2>2, NodeAssumption DEF KidsOf
    <3>3. KidsOf(u, p) = KidsOf(t, p)
      BY <3>2 DEF KidsOf
    <3> QED BY <1>2, <3>1, <3>3
  <2> QED BY <2>1, <2>2
<1>9. Fit(u)
  BY <1>6, <1>8 DEF Fit, Paired
<1>10. \A a, b : Precedes(new, a, b) <=> a \in N /\ b \in N /\ Ahead(new, a, b)
  <2>1. DOMAIN new = 1..Len(new) /\ Len(new) \in Nat
    OBVIOUS
  <2>2. \A i, j \in DOMAIN new : new[i] = new[j] => i = j
    BY DEF IsInjective
  <2> QED BY <2>1, <2>2 DEF Precedes, Ahead, N, ToSet
<1>11. ASSUME NEW a, NEW b
       PROVE  <<a, b>> \in Ord(u) <=> \/ <<a, b>> \in Ord(t) /\ a \notin N \cup R /\ b \notin N \cup R
                                      \/ a \in N /\ b \in N /\ Ahead(new, a, b)
  <2>1. <<a, b>> \in Ord(u) <=>
           /\ a \in Node /\ b \in Node /\ u.parent[a] \in Node
           /\ u.parent[b] = u.parent[a] /\ Precedes(u.children[u.parent[a]], a, b)
    BY <1>9, TreeOrder
  <2>2. <<a, b>> \in Ord(t) <=>
           /\ a \in Node /\ b \in Node /\ t.parent[a] \in Node
           /\ t.parent[b] = t.parent[a] /\ Precedes(t.children[t.parent[a]], a, b)
    BY TreeOrder
  <2>3. CASE a \in N
    <3>1. u.parent[a] = h /\ a \in Node /\ t.parent[a] = None
      BY <1>5, <1>7, <2>3
    <3>2. u.children[h] = new
      BY <1>2, <1>3
    <3>3. Precedes(new, a, b) => b \in Node /\ u.parent[b] = h
      BY <1>5, <1>7, <1>10
    <3> QED BY <1>10, <2>1, <2>2, <2>3, <3>1, <3>2, <3>3, NodeAssumption
  <2>4. CASE a \in R
    <3>1. a \notin N /\ a \in Node
      BY <1>4, <1>7, <2>4 DEF KidsOf
    <3>2. u.parent[a] = None
      BY <1>5, <2>4, <3>1
    <3> QED BY <2>1, <2>4, <3>1, <3>2, NodeAssumption
  <2>5. CASE a \notin N /\ a \notin R /\ a \in Node
    <3>1. u.parent[a] = t.parent[a] /\ t.parent[a] # h
      BY <1>4, <1>5, <2>5 DEF KidsOf
    <3>2. t.parent[a] \in Node => u.children[t.parent[a]] = t.children[t.parent[a]]
      BY <1>2, <1>3, <3>1
    <3>3. b \in N => u.parent[b] = h /\ t.parent[b] = None
      BY <1>5, <1>7
    <3>4. b \in R /\ b \in Node => t.parent[b] = h /\ u.parent[b] # h /\ (u.parent[b] = None \/ b \in N)
      BY <1>4, <1>5, <1>7, NodeAssumption DEF KidsOf
    <3>5. b \in Node /\ b \notin N /\ b \notin R => u.parent[b] = t.parent[b]
      BY <1>5
    <3> QED BY <2>1, <2>2, <2>5, <3>1, <3>2, <3>3, <3>4, <3>5, NodeAssumption
  <2>6. CASE a \notin Node
    <3>1. a \notin N
      BY <1>7, <2>6
    <3> QED BY <2>1, <2>2, <2>6, <3>1
  <2> QED BY <2>3, <2>4, <2>5, <2>6
<1>12. KidsOf(t, h) \ (N \cup R) = {}
  BY <1>4
<1>13. Moves(t, u, h, N, new, None, R)
  <2> DEFINE K == KidsOf(t, h) \ (N \cup R)
             L == {s \in K : None \in K /\ (s = None \/ <<None, s>> \in Ord(t))}
  <2>1. K = {} /\ L = {}
    BY <1>12
  <2> HIDE DEF K, L
  <2>2. \A a, b : <<a, b>> \in Ord(u) <=>
          \/ <<a, b>> \in Ord(t) /\ a \notin N \cup R /\ b \notin N \cup R
          \/ a \in K \ L /\ b \in N
          \/ a \in N /\ b \in L
          \/ a \in N /\ b \in N /\ Ahead(new, a, b)
    BY <1>11, <2>1
  <2> QED BY <1>5, <1>9, <2>2 DEF Moves, K, L
<1>14. Moves(t, Note(u, step), h, N, new, None, R)
  <2>1. /\ Fit(Note(u, step)) /\ Ord(Note(u, step)) = Ord(u)
        /\ Note(u, step).parent = u.parent
    BY <1>9, Noted
  <2> QED BY <1>13, <2>1 DEF Moves
<1> QED
  BY <1>1, <1>14 DEF N, R
-----------------------------------------------------------------------------
(* The invariant.                                                           *)

\* Beside what a call needs: a handle not handed out yet has no link.
TreeListsInv ==
  /\ created \in SUBSET Node /\ Ready(Tree)
  /\ \A n \in Node : parent[n] # None => n \in created /\ parent[n] \in created
  /\ \A n \in Node : hostOf[n] # None => hostOf[n] \in created

\* The record a handler starts from is as fit as the overlays are.
LEMMA TreeFit ==
  ASSUME NEW t, Fit(t), NEW u, Whole(u), u.parent = t.parent, u.children = t.children
  PROVE  Fit(u) /\ Ord(u) = Ord(t)
BY DEF Fit, Shaped, Paired, KidsOf, Ord

\* The overlays of the state.
LEMMA TreeFields ==
  Tree.parent = parent /\ Tree.children = children /\ Whole(Tree)
BY DEF Tree, Whole, Fields

\* A call that moves nodes keeps the invariant.
LEMMA MovesKeep ==
  ASSUME TreeListsInv, NEW u, NEW p \in created, NEW M, NEW flat, NEW ref, NEW gone,
         Moves(Tree, u, p, M, flat, ref, gone), Do(u),
         created \subseteq created', created' \in SUBSET Node,
         M \subseteq created' \ Tops
  PROVE  TreeListsInv'
<1>1. Fit(u) /\ \A n \in Node : u.parent[n] = IF n \in M THEN p
                                             ELSE IF n \in gone THEN None ELSE parent[n]
  BY TreeFields DEF Moves
<1>2. parent' = u.parent /\ children' = u.children /\ hostOf' = hostOf
  BY DEF Do
<1>3. Tree'.parent = u.parent /\ Tree'.children = u.children /\ Whole(Tree')
  BY <1>2 DEF Tree, Whole, Fields
<1>4. Fit(Tree')
  BY <1>1, <1>3, TreeFit
<1>5. Topped(Tree')
  BY <1>1, <1>3, TreeFields, NodeAssumption DEF TreeListsInv, Ready, Topped, Tops
<1>6. Ready(Tree)'
  <2>1. Fit(Tree)' /\ Topped(Tree)'
    BY <1>4, <1>5 DEF Fit, Shaped, Paired, KidsOf, Topped, Whole, Fields
  <2> QED BY <1>2, <2>1 DEF TreeListsInv, Ready
<1>7. \A n \in Node : parent'[n] # None => n \in created' /\ parent'[n] \in created'
  BY <1>1, <1>2 DEF TreeListsInv
<1> QED
  BY <1>2, <1>6, <1>7 DEF TreeListsInv

\* Argument lists are sequences.
LEMMA BoundedLists ==
  ASSUME NEW S, NEW s \in BoundedSeq(S, MaxArgs)
  PROVE  s \in Seq(S)
<1>1. PICK m \in 0..MaxArgs : s \in [1..m -> S]
  BY DEF BoundedSeq, SeqOf
<1>2. m \in Nat
  BY NodeAssumption
<1> QED
  BY <1>1, <1>2

\* What the arguments bring can be moved.
LEMMA BroughtAreNodes ==
  ASSUME TreeListsInv, NEW ns \in Seq(Node), Document \notin ToSet(ns)
  PROVE  Brought(Tree, ns, Len(ns)) \subseteq (created \cup ToSet(ns)) \ Tops
<1>1. DOMAIN ns = 1..Len(ns) /\ \A i \in DOMAIN ns : ns[i] \in Node /\ ns[i] \in ToSet(ns)
  BY DEF ToSet
<1>2. SUFFICES ASSUME NEW i \in 1..Len(ns), NEW x \in Brings(Tree, ns[i])
               PROVE  x \in (created \cup ToSet(ns)) \ Tops
  BY DEF Brought
<1>3. CASE ns[i] \notin Fragment
  BY <1>1, <1>3 DEF Brings, Tops
<1>4. CASE ns[i] \in Fragment
  <2>1. x \in Node /\ parent[x] = ns[i] /\ ns[i] # None
    BY <1>1, <1>4, TreeFields, NodeAssumption DEF Brings, KidsOf
  <2>2. x \notin Tops
    BY <2>1, TreeFields DEF TreeListsInv, Ready, Topped
  <2> QED BY <2>1, <2>2 DEF TreeListsInv
<1> QED
  BY <1>3, <1>4

\* New nodes hold nothing.
LEMMA FreshEnters ==
  ASSUME TreeListsInv, NEW p \in created, NEW ns \in Seq(Node), ToSet(ns) \cap created = {}
  PROVE  Enters(Tree, p, ns)
<1>1. Closed(Tree, created)
  <2>1. ASSUME NEW n \in created PROVE Up(Tree, n) \in created \cup {None}
    BY <2>1, TreeFields DEF Up, TreeListsInv
  <2> QED BY <2>1 DEF Closed
<1>2. Climb(Tree, p) \subseteq created
  BY <1>1, ClimbStays
<1> QED
  BY <1>2 DEF Enters, IsInclusiveAncestor, ToSet

\* insert_nodes keeps the invariant.
LEMMA InsertNodesKeeps ==
  ASSUME TreeListsInv, NEW p \in created, NEW ns \in Seq(Node), Enters(Tree, p, ns),
         Document \notin ToSet(ns), NEW anchor, NEW replaced \in Seq(Node), ToSet(replaced) \subseteq KidsOf(Tree, p),
         Do(InsertNodes(Tree, p, ns, anchor, replaced)),
         created \subseteq created', created' \in SUBSET Node, ToSet(ns) \subseteq created'
  PROVE  TreeListsInv'
<1>1. p \in Node /\ Ready(Tree)
  BY DEF TreeListsInv
<1> DEFINE g == Gather(Tree, ns)
           M == Brought(Tree, ns, Len(ns))
           u == InsertNodes(Tree, p, ns, anchor, replaced)
           ref == Reference(g.t, p, anchor)
<1>2. Moves(Tree, u, p, M, g.flat, ref, ToSet(replaced))
  BY <1>1, InsertNodesMoves
<1>3. M \subseteq (created \cup ToSet(ns)) \ Tops
  BY BroughtAreNodes
<1>4. Do(u)
  OBVIOUS
<1> HIDE DEF g, M, u, ref
<1>5. M \subseteq created' \ Tops
  BY <1>3
<1> QED
  BY <1>2, <1>4, <1>5, MovesKeep

\* insert_before of a node keeps the invariant.
LEMMA InsertOneKeeps ==
  ASSUME TreeListsInv, NEW p \in created, NEW c \in created, c \notin Tops, NEW ref,
         ~IsInclusiveAncestor(Tree, c, p), Do(InsertOne(Tree, p, c, ref, TRUE)), created' = created
  PROVE  TreeListsInv'
<1>1. p \in Node /\ c \in Node /\ created \in SUBSET Node /\ Fit(Tree)
  BY DEF TreeListsInv, Ready
<1> DEFINE u == InsertOne(Tree, p, c, ref, TRUE)
           at == IF ref = c THEN NextSibling(Tree, c) ELSE ref
<1>2. Moves(Tree, u, p, {c}, <<c>>, at, {})
  BY <1>1, InsertOneMoves
<1>3. Do(u)
  OBVIOUS
<1> HIDE DEF u, at
<1>4. {c} \subseteq created' \ Tops
  OBVIOUS
<1> QED
  BY <1>1, <1>2, <1>3, <1>4, MovesKeep

\* insert_before of a node or a fragment keeps the invariant.
LEMMA InsertTreeKeeps ==
  ASSUME TreeListsInv, NEW p \in created, NEW c \in created, c # Document, NEW ref,
         ~IsInclusiveAncestor(Tree, c, p), Do(InsertTree(p, c, ref)), created' = created
  PROVE  TreeListsInv'
<1>1. created \in SUBSET Node /\ c \in Node
  BY DEF TreeListsInv
<1>2. CASE c \notin Fragment
  BY <1>2, InsertOneKeeps DEF InsertTree, Tops
<1>3. CASE c \in Fragment
  <2>1. <<c>> \in Seq(Node) /\ ToSet(<<c>>) = {c} /\ \A i \in DOMAIN <<c>> : <<c>>[i] = c
    BY <1>1 DEF ToSet
  <2>2. Enters(Tree, p, <<c>>)
    BY <2>1 DEF Enters
  <2>3. <<>> \in Seq(Node) /\ ToSet(<<>>) \subseteq KidsOf(Tree, p)
    BY DEF ToSet
  <2>4. Do(InsertNodes(Tree, p, <<c>>, AnchorBefore(ref), <<>>))
    BY <1>3 DEF InsertTree
  <2> QED BY <1>1, <2>1, <2>2, <2>3, <2>4, InsertNodesKeeps
<1> QED
  BY <1>2, <1>3

\* Replacing all children by fresh nodes keeps the invariant.
LEMMA RewriteKeeps ==
  ASSUME TreeListsInv, NEW h \in created, NEW new \in Seq(Node), IsInjective(new),
         ToSet(new) \subseteq Fresh, Do(Rewrite(Tree, h, new)), created' = created \cup ToSet(new)
  PROVE  TreeListsInv'
<1>1. h \in Node /\ created \in SUBSET Node /\ Fit(Tree)
  BY DEF TreeListsInv, Ready
<1>2. \A n \in ToSet(new) : n \in Node /\ n \notin Tops /\ n \notin created
  BY NodeAssumption DEF Fresh, Tops
<1>3. \A n \in ToSet(new) : Tree.parent[n] = None
  BY <1>2, TreeFields DEF TreeListsInv
<1>4. Moves(Tree, Rewrite(Tree, h, new), h, ToSet(new), new, None, ToSet(Tree.children[h]))
  BY <1>1, <1>3, RewriteMoves
<1>5. created' \in SUBSET Node /\ ToSet(new) \subseteq created' \ Tops
  BY <1>1, <1>2
<1> QED
  BY <1>4, <1>5, MovesKeep

\* attach_shadow keeps the invariant.
LEMMA AttachShadowKeeps ==
  ASSUME TreeListsInv, NEW host \in Element \cap created, NEW root \in Fragment,
         AttachShadow(host, root)
  PROVE  TreeListsInv'
<1>1. /\ root \in Node /\ host \in Node /\ created' = created \cup {root}
      /\ hostOf' = [hostOf EXCEPT ![root] = host] /\ parent' = parent /\ children' = children
  BY NodeAssumption DEF AttachShadow
<1>2. /\ created \in SUBSET Node /\ hostOf \in [Node -> Node \cup {None}]
      /\ \A n \in Node : hostOf[n] # None => n \in Fragment /\ hostOf[n] \in created
      /\ \A n \in Node : parent[n] # None => n \in created /\ parent[n] \in created
      /\ Fit(Tree) /\ Topped(Tree)
  BY DEF TreeListsInv, Ready
<1>3. /\ hostOf' \in [Node -> Node \cup {None}]
      /\ \A n \in Node : hostOf'[n] # None => n \in Fragment /\ hostOf'[n] \in created'
  BY <1>1, <1>2
<1>4. Tree' = Tree
  BY <1>1 DEF Tree
<1>5. Fit(Tree)' /\ Topped(Tree)'
  BY <1>2, <1>4 DEF Fit, Shaped, Paired, KidsOf, Topped, Whole, Fields
<1> QED
  BY <1>1, <1>2, <1>3, <1>5 DEF TreeListsInv, Ready

\* The parsed page satisfies the invariant.
LEMMA InitTreeListsInv == Init => TreeListsInv
<1>1. SUFFICES ASSUME Init PROVE TreeListsInv
  OBVIOUS
<1>2. /\ created = Parsed /\ parent = ParsedParent /\ children = ParsedChildren
      /\ hostOf = [n \in Node |-> None]
  BY <1>1 DEF Init
<1>3. parent \in [Node -> Node \cup {None}] /\ children \in [Node -> Seq(Node)]
  BY <1>2, PageAssumption, NodeAssumption
<1>4. Shaped(Tree)
  BY <1>3, TreeFields DEF Shaped
<1>5. Paired(Tree)
  BY <1>2, TreeFields, PageAssumption DEF Paired, KidsOf
<1>6. Topped(Tree)
  BY <1>2, TreeFields, PageAssumption DEF Topped, Tops
<1>7. hostOf \in [Node -> Node \cup {None}] /\ \A n \in Node : hostOf[n] = None
  BY <1>2
<1>8. \A n \in Node : parent[n] # None => n \in created /\ parent[n] \in created
  BY <1>2, PageAssumption
<1> QED
  BY <1>2, <1>4, <1>5, <1>6, <1>7, <1>8, PageAssumption DEF TreeListsInv, Ready, Fit

\* Every call keeps the invariant.
LEMMA NextKeepsTreeListsInv == TreeListsInv /\ [Next]_vars => TreeListsInv'
<1>1. SUFFICES ASSUME TreeListsInv, [Next]_vars PROVE TreeListsInv'
  OBVIOUS
<1>2. /\ created \in SUBSET Node /\ Fit(Tree)
      /\ \A n \in Node : parent[n] # None => n \in created /\ parent[n] \in created
  BY <1>1 DEF TreeListsInv, Ready
<1>3. ASSUME NEW p \in Node
      PROVE  /\ children[p] \in Seq(Node) /\ ToSet(children[p]) = KidsOf(Tree, p)
             /\ <<>> \in Seq(Node) /\ ToSet(<<>>) \subseteq KidsOf(Tree, p)
             /\ \A c \in Node : parent[c] = p => <<c>> \in Seq(Node) /\ ToSet(<<c>>) \subseteq KidsOf(Tree, p)
  BY <1>2, TreeFields DEF Fit, Shaped, Paired, KidsOf, ToSet
<1>4. ASSUME NEW ns \in ArgLists(Insertable)
      PROVE  ns \in Seq(Node) /\ ToSet(ns) \subseteq created /\ Document \notin ToSet(ns)
  <2>1. ns \in Seq(Insertable)
    BY BoundedLists DEF ArgLists
  <2> QED BY <1>2, <2>1 DEF ToSet, Insertable
<1>5. ASSUME NEW new \in FreshLists
      PROVE  /\ new \in Seq(Node) /\ IsInjective(new) /\ ToSet(new) \subseteq Fresh
             /\ ToSet(new) \cap created = {} /\ Document \notin ToSet(new) /\ created \cup ToSet(new) \in SUBSET Node
  <2>1. new \in Seq(Fresh) /\ IsInjective(new)
    BY BoundedLists DEF FreshLists
  <2>2. Fresh \subseteq Node /\ Fresh \cap created = {} /\ Document \notin Fresh
    BY NodeAssumption DEF Fresh
  <2> QED BY <1>2, <2>1, <2>2 DEF ToSet
<1>6. CASE UNCHANGED vars
  BY <1>1, <1>6 DEF vars, TreeListsInv, Ready, Tree, Fit, Shaped, Paired, KidsOf, Topped, Whole, Fields
<1>7. ASSUME NEW n \in Element \cup Text \cup Fragment, CreateNode(n) PROVE TreeListsInv'
  <2>1. /\ created' = created \cup {n} /\ hostOf' = hostOf /\ parent' = parent /\ children' = children
        /\ n \in Node
    BY <1>7, NodeAssumption DEF CreateNode
  <2>2. Ready(Tree)'
    BY <1>1, <2>1 DEF TreeListsInv, Ready, Tree, Fit, Shaped, Paired, KidsOf, Topped, Whole, Fields
  <2> QED BY <1>1, <2>1, <2>2 DEF TreeListsInv
<1>8. ASSUME NEW p \in Container \cap created, NEW c \in Insertable, NEW r,
             AppendChild(p, c) \/ InsertBefore(p, c, r)
      PROVE  TreeListsInv'
  <2>1. c \in created /\ c # Document
    BY DEF Insertable
  <2> QED BY <1>1, <1>8, <2>1, InsertTreeKeeps DEF AppendChild, InsertBefore
<1>9. ASSUME NEW p \in Container \cap created, NEW c \in created, RemoveChild(p, c)
      PROVE  TreeListsInv'
  <2> DEFINE u == Unlink(Tree, p, c, TRUE)
             none == {}
             list == <<>>
  <2>1. Moves(Tree, u, p, none, list, None, {c})
    BY <1>2, <1>9, TreeFields, UnlinkMoves DEF RemoveChild
  <2>2. Do(u) /\ created' = created /\ p \in created
    BY <1>9 DEF RemoveChild
  <2>3. none \subseteq created' \ Tops /\ created \subseteq created' /\ created' \in SUBSET Node
    BY <1>2, <2>2
  <2> HIDE DEF u, none, list
  <2> QED BY <1>1, <2>1, <2>2, <2>3, MovesKeep
<1>10. ASSUME NEW h \in created, NEW ns \in ArgLists(Insertable),
              Before(h, ns) \/ After(h, ns) \/ ReplaceWith(h, ns)
       PROVE  TreeListsInv'
  <2> DEFINE p == parent[h]
  <2>1. p # None /\ Entering(p, ns) /\ created' = created /\ (Do(BeforeTree(h, ns)) \/ Do(AfterTree(h, ns)) \/ Do(ReplaceTree(h, ns)))
    BY <1>10 DEF Before, After, ReplaceWith
  <2>2. p \in created /\ p \in Node /\ h \in Node
    BY <1>2, <2>1
  <2>3. Enters(Tree, p, ns)
    BY <2>1 DEF Enters, Entering
  <2>4. /\ <<>> \in Seq(Node) /\ ToSet(<<>>) \subseteq KidsOf(Tree, p)
        /\ <<h>> \in Seq(Node) /\ ToSet(<<h>>) \subseteq KidsOf(Tree, p)
    BY <1>3, <2>2
  <2>5. PICK replaced \in {<<>>, <<h>>} : \E anchor : Do(InsertNodes(Tree, p, ns, anchor, replaced))
    <3>1. CASE Do(BeforeTree(h, ns))
      BY <3>1 DEF BeforeTree
    <3>2. CASE Do(AfterTree(h, ns))
      BY <3>2 DEF AfterTree
    <3>3. CASE Do(ReplaceTree(h, ns)) /\ h \in ToSet(ns)
      BY <3>3 DEF ReplaceTree
    <3>4. CASE Do(ReplaceTree(h, ns)) /\ h \notin ToSet(ns)
      BY <3>4 DEF ReplaceTree
    <3> QED BY <2>1, <3>1, <3>2, <3>3, <3>4
  <2>7. PICK anchor : Do(InsertNodes(Tree, p, ns, anchor, replaced))
    BY <2>5
  <2>6. replaced \in Seq(Node) /\ ToSet(replaced) \subseteq KidsOf(Tree, p)
    BY <2>4
  <2> HIDE DEF p
  <2> QED BY <1>1, <1>2, <1>4, <2>1, <2>2, <2>3, <2>6, <2>7, InsertNodesKeeps
<1>11. ASSUME NEW h \in Container \cap created, NEW ns \in ArgLists(Insertable), ReplaceChildren(h, ns)
       PROVE  TreeListsInv'
  <2>1. /\ Enters(Tree, h, ns) /\ created' = created
        /\ Do(InsertNodes(Tree, h, ns, AnchorBefore(None), children[h]))
    BY <1>11 DEF ReplaceChildren, Enters, Entering
  <2>2. children[h] \in Seq(Node) /\ ToSet(children[h]) \subseteq KidsOf(Tree, h)
    BY <1>2, <1>3
  <2> QED BY <1>1, <1>2, <1>4, <2>1, <2>2, InsertNodesKeeps
<1>12. ASSUME NEW h \in (Element \cup Fragment) \cap created, NEW new \in FreshLists,
              SetTextContent(h, new) \/ SetInnerHTML(h, new)
       PROVE  TreeListsInv'
  BY <1>1, <1>5, <1>12, RewriteKeeps DEF SetTextContent, SetInnerHTML
<1>13. ASSUME NEW h \in Element \cap created, NEW new \in FreshLists, InsertAdjacentHTML(h, new)
       PROVE  TreeListsInv'
  <2>1. h \in Node /\ (parent[h] # None => parent[h] \in Node /\ parent[h] \in created)
    BY <1>2
  <2>8. PICK p \in {h, parent[h]} : p # None /\ \E anchor : Do(InsertNodes(Tree, p, new, anchor, <<>>))
    BY <1>13, <2>1, NodeAssumption DEF InsertAdjacentHTML, BeforeTree, AfterTree, Container
  <2>2. PICK anchor : Do(InsertNodes(Tree, p, new, anchor, <<>>))
    BY <2>8
  <2>3. p \in created /\ p \in Node
    BY <2>1, <2>8
  <2>4. Enters(Tree, p, new)
    BY <1>1, <1>5, <2>3, FreshEnters
  <2>5. created' = created \cup ToSet(new)
    BY <1>13 DEF InsertAdjacentHTML
  <2>6. <<>> \in Seq(Node) /\ ToSet(<<>>) \subseteq KidsOf(Tree, p)
    BY <1>3, <2>3
  <2>7. /\ new \in Seq(Node) /\ created \subseteq created' /\ created' \in SUBSET Node
        /\ ToSet(new) \subseteq created' /\ Document \notin ToSet(new)
    BY <1>2, <1>5, <2>5
  <2> QED BY <1>1, <2>2, <2>3, <2>4, <2>6, <2>7, InsertNodesKeeps
<1>14. ASSUME NEW host \in Element \cap created, NEW root \in Fragment, AttachShadow(host, root)
       PROVE  TreeListsInv'
  BY <1>1, <1>14, AttachShadowKeeps
<1> QED
  BY <1>1, <1>6, <1>7, <1>8, <1>9, <1>10, <1>11, <1>12, <1>13, <1>14 DEF Next

\* In every state the overlays agree, fragments have no parent, only fragments
\* have hosts, and no link names a handle that is not handed out.
THEOREM TreeListsInvariant == Spec => []TreeListsInv
BY InitTreeListsInv, NextKeepsTreeListsInv, PTL DEF Spec

\* A node is listed exactly once by its parent and by nobody else, whatever
\* loops of detachments and insertions the handlers of tree.rs went through,
\* arguments repeated or moved on the way included.
THEOREM OverlaysAgree == Spec => []LinksAgree
<1>1. TreeListsInv => LinksAgree
  <2>1. SUFFICES ASSUME TreeListsInv, NEW p \in Node, NEW c \in Node
                 PROVE  Cardinality({i \in DOMAIN children[p] : children[p][i] = c})
                          = IF parent[c] = p THEN 1 ELSE 0
    BY DEF LinksAgree
  <2> DEFINE s == children[p]
             I == {i \in DOMAIN s : s[i] = c}
  <2>2. IsInjective(s) /\ (c \in ToSet(s) <=> parent[c] = p)
    BY <2>1, TreeFields DEF TreeListsInv, Ready, Fit, Paired, KidsOf
  <2>3. CASE parent[c] = p
    <3>1. PICK i \in DOMAIN s : s[i] = c
      BY <2>2, <2>3 DEF ToSet
    <3>2. I = {i}
      BY <2>2, <3>1 DEF IsInjective
    <3> HIDE DEF I
    <3>3. Cardinality(I) = 1
      BY <3>2, FS_Singleton
    <3> QED BY <2>3, <3>3 DEF I
  <2>4. CASE parent[c] # p
    <3>1. I = {}
      BY <2>2, <2>4 DEF ToSet
    <3> HIDE DEF I
    <3>2. Cardinality(I) = 0
      BY <3>1, FS_EmptySet
    <3> QED BY <2>4, <3>2 DEF I
  <2> QED BY <2>3, <2>4
<1> QED
  BY <1>1, TreeListsInvariant, PTL
-----------------------------------------------------------------------------
(* What DomTree says of an argument list, and what the loops do with it.    *)

\* The places of a call's arguments that count.
Counts(ns) ==
  {i \in DOMAIN ns :
     \A j \in DOMAIN ns : ns[j] = ns[i] => IF ns[i] \in Fragment THEN i <= j ELSE j <= i}

\* o lists the arguments that count, which stand at the places e of ns.
Counted(ns, o, e) ==
  /\ o \in Seq(Node) /\ Len(o) \in Nat /\ DOMAIN o = 1..Len(o)
  /\ e \in [DOMAIN o -> DOMAIN ns]
  /\ \A j, k \in DOMAIN o : j < k => e[j] < e[k]
  /\ \A k \in DOMAIN o : e[k] \in Counts(ns) /\ o[k] = ns[e[k]]
  /\ \A i \in Counts(ns) : \E k \in DOMAIN o : e[k] = i

\* Once keeps the last mention of each argument.
LEMMA OnceCounts ==
  ASSUME NEW ns \in Seq(Node)
  PROVE  \E e : Counted(ns, Once(ns), e)
<1> DEFINE C == Counts(ns)
           s == [i \in DOMAIN ns |-> i]
           places == Kept(s, C)
           o == [k \in DOMAIN places |-> ns[places[k]]]
<1>1. Once(ns) = o
  BY DEF Once, Counts
<1>2. s \in Seq(Nat) /\ DOMAIN ns = 1..Len(ns) /\ Len(ns) \in Nat /\ Len(s) = Len(ns)
  OBVIOUS
<1>3. C \subseteq DOMAIN ns
  BY DEF Counts
<1> HIDE DEF C, s
<1>4. places \in Seq(Nat) /\ \E e : Picks(places, s, Len(s), C, e)
  BY <1>2, KeptPicks
<1> HIDE DEF places
<1>5. PICK e : Picks(places, s, Len(s), C, e)
  BY <1>4
<1>6. DOMAIN places = 1..Len(places) /\ Len(places) \in Nat
  BY <1>4
<1>7. \A k \in 1..Len(places) : e[k] \in 1..Len(ns) /\ places[k] = e[k] /\ e[k] \in C
  BY <1>2, <1>5 DEF Picks, s
<1>8. o \in [1..Len(places) -> Node]
  BY <1>2, <1>6, <1>7
<1>9. o \in Seq(Node) /\ Len(o) = Len(places) /\ DOMAIN o = 1..Len(places)
  BY <1>6, <1>8
<1>10. \A i \in C : \E k \in 1..Len(places) : e[k] = i
  <2>1. \A i \in 1..Len(s) : s[i] \in C => \E k \in 1..Len(places) : e[k] = i
    BY <1>5 DEF Picks
  <2> QED BY <2>1, <1>2, <1>3 DEF s
<1>11. e \in [1..Len(places) -> DOMAIN ns] /\ \A j, k \in 1..Len(places) : j < k => e[j] < e[k]
  BY <1>2, <1>5 DEF Picks
<1>12. \A k \in 1..Len(places) : o[k] = ns[e[k]]
  BY <1>6, <1>7
<1> HIDE DEF o
<1>13. Counted(ns, o, e)
  BY <1>6, <1>7, <1>9, <1>10, <1>11, <1>12 DEF Counted, C
<1> QED
  BY <1>1, <1>13

\* They are the arguments, each of them once.
LEMMA OnceIs ==
  ASSUME NEW ns \in Seq(Node), NEW o, NEW e, Counted(ns, o, e)
  PROVE  ToSet(o) = ToSet(ns) /\ IsInjective(o) /\ Len(o) <= Len(ns)
<1> USE DEF Counted
<1>1. DOMAIN ns = 1..Len(ns) /\ Len(ns) \in Nat /\ DOMAIN ns \subseteq Nat
  OBVIOUS
<1>2. ASSUME NEW x \in ToSet(ns) PROVE \E i \in Counts(ns) : ns[i] = x
  <2> DEFINE P == {j \in DOMAIN ns : ns[j] = x}
  <2>1. P # {} /\ P \in SUBSET (0..Len(ns))
    BY <1>1, <1>2 DEF ToSet
  <2>2. \A i \in P : ns[i] = x /\ i \in DOMAIN ns
    OBVIOUS
  <2>3. \A j \in DOMAIN ns : ns[j] = x => j \in P
    OBVIOUS
  <2> HIDE DEF P
  <2>4. /\ Min(P) \in P /\ \A j \in P : Min(P) <= j
        /\ Max(P) \in P /\ \A j \in P : j <= Max(P)
    BY <1>1, <2>1, Extremes
  <2>5. CASE x \in Fragment
    <3>1. Min(P) \in Counts(ns)
      BY <2>2, <2>3, <2>4, <2>5 DEF Counts
    <3> QED BY <2>2, <2>4, <3>1
  <2>6. CASE x \notin Fragment
    <3>1. Max(P) \in Counts(ns)
      BY <2>2, <2>3, <2>4, <2>6 DEF Counts
    <3> QED BY <2>2, <2>4, <3>1
  <2> QED BY <2>5, <2>6
<1>3. ToSet(o) = ToSet(ns)
  <2>1. ASSUME NEW x \in ToSet(ns) PROVE x \in ToSet(o)
    <3>1. PICK i \in Counts(ns) : ns[i] = x
      BY <1>2, <2>1
    <3>2. PICK k \in DOMAIN o : e[k] = i
      BY <3>1
    <3> QED BY <3>1, <3>2 DEF ToSet
  <2>2. ToSet(o) \subseteq ToSet(ns)
    BY DEF ToSet
  <2> QED BY <2>1, <2>2
<1>4. ASSUME NEW j \in DOMAIN o, NEW k \in DOMAIN o, o[j] = o[k] PROVE j = k
  <2>1. e[j] \in DOMAIN ns /\ e[k] \in DOMAIN ns /\ ns[e[j]] = ns[e[k]]
    BY <1>4
  <2>2. e[j] = e[k]
    BY <1>1, <2>1 DEF Counts
  <2>3. ~(j < k) /\ ~(k < j)
    BY <1>1, <2>1, <2>2
  <2> QED BY <2>3
<1>5. Len(o) <= Len(ns)
  <2> DEFINE T == {n \in Nat : n \in DOMAIN o => n <= e[n]}
  <2>1. 0 \in T
    OBVIOUS
  <2>2. ASSUME NEW n \in Nat, n \in T PROVE n + 1 \in T
    <3>1. SUFFICES ASSUME n + 1 \in DOMAIN o PROVE n + 1 <= e[n + 1]
      OBVIOUS
    <3>2. e[n + 1] \in Nat \ {0}
      BY <1>1, <3>1
    <3>3. CASE n = 0
      BY <3>2, <3>3
    <3>4. CASE n # 0
      <4>1. n \in DOMAIN o /\ n < n + 1
        BY <3>1, <3>4
      <4>2. e[n] < e[n + 1] /\ e[n] \in Nat /\ n <= e[n]
        BY <1>1, <2>2, <3>1, <4>1
      <4> QED BY <3>2, <4>2
    <3> QED BY <3>3, <3>4
  <2> HIDE DEF T
  <2>3. Nat \subseteq T
    BY <2>1, <2>2, Counting
  <2> USE DEF T
  <2>4. CASE Len(o) = 0
    BY <1>1, <2>4
  <2>5. CASE Len(o) # 0
    <3>1. Len(o) \in DOMAIN o
      BY <2>5
    <3> QED BY <1>1, <2>3, <3>1
  <2> QED BY <2>4, <2>5
<1> QED
  BY <1>3, <1>4, <1>5 DEF IsInjective

\* Of a node that is brought, DomTree's slot is the place that counts.
LEMMA SlotIs ==
  ASSUME TreeListsInv, NEW ns \in Seq(Node), NEW o, NEW e, Counted(ns, o, e),
         NEW a \in Brought(Tree, ns, Len(ns)), NEW i, IsPlace(Tree, ns, Len(ns), a, i)
  PROVE  Abstract!Slot(o, a) \in DOMAIN o /\ e[Abstract!Slot(o, a)] = i
<1>1. DOMAIN ns = 1..Len(ns) /\ Len(ns) \in Nat /\ DOMAIN ns \subseteq Nat
  OBVIOUS
<1>2. a \notin Fragment
  <2>1. \A n \in Node : n \in Fragment => Tree.parent[n] = None
    BY DEF TreeListsInv, Ready, Topped, Tops
  <2>2. \E j \in 1..Len(ns) : a \in Brings(Tree, ns[j])
    BY DEF Brought
  <2>3. ASSUME NEW n \in Node, a \in Brings(Tree, n) PROVE a \notin Fragment
    BY <2>1, <2>3, NodeAssumption DEF Brings, KidsOf
  <2> QED BY <1>1, <2>2, <2>3
<1>3. ToSet(o) = ToSet(ns) /\ IsInjective(o)
  BY OnceIs
<1>4. Listed(ns, Len(ns), a) <=> a \in Abstract!Args(o)
  BY <1>1, <1>3 DEF Listed, ToSet, Abstract!Args
<1>5. i \in Counts(ns) /\ ns[i] = IF a \in Abstract!Args(o) THEN a ELSE parent[a]
  BY <1>1, <1>2, <1>4 DEF IsPlace, Counts, Tree
<1>6. PICK k \in DOMAIN o : e[k] = i
  BY <1>5 DEF Counted
<1>7. o[k] = IF a \in Abstract!Args(o) THEN a ELSE parent[a]
  BY <1>5, <1>6 DEF Counted
<1>8. \A j \in DOMAIN o : o[j] = o[k] => j = k
  BY <1>3 DEF IsInjective
<1>9. Abstract!Slot(o, a) = k
  BY <1>7, <1>8 DEF Abstract!Slot
<1> QED
  BY <1>6, <1>9

\* So the arguments that count bring what the loop gathers, in its order.
LEMMA ArgsAgree ==
  ASSUME TreeListsInv, NEW ns \in Seq(Node), NEW g, Gathered(Tree, ns, Len(ns), g),
         NEW o, NEW e, Counted(ns, o, e)
  PROVE  /\ Abstract!Moved(o) = Brought(Tree, ns, Len(ns))
         /\ \A a, b \in Brought(Tree, ns, Len(ns)) :
              a # b => (Ahead(g.flat, a, b) <=> Abstract!ArgBefore(o, a, b))
<1> DEFINE M == Brought(Tree, ns, Len(ns))
<1>2. ToSet(o) = ToSet(ns)
  BY OnceIs
<1>3. Abstract!Moved(o) = M
  <2>1. \A n : Abstract!Items(n) = Brings(Tree, n)
    BY DEF Abstract!Items, Abstract!Kids, Brings, KidsOf, Tree
  <2>2. Abstract!Moved(o) = UNION {Brings(Tree, n) : n \in ToSet(o)}
    BY <2>1 DEF Abstract!Moved, ToSet
  <2>3. M = UNION {Brings(Tree, n) : n \in ToSet(ns)}
    <3>1. DOMAIN ns = 1..Len(ns)
      OBVIOUS
    <3> QED BY <3>1 DEF Brought, ToSet
  <2> QED BY <1>2, <2>2, <2>3
<1>4. ASSUME NEW a \in M, NEW b \in M, a # b
      PROVE  Ahead(g.flat, a, b) <=> Abstract!ArgBefore(o, a, b)
  <2>1. PICK i : IsPlace(Tree, ns, Len(ns), a, i)
    BY DEF Gathered
  <2>2. PICK j : IsPlace(Tree, ns, Len(ns), b, j)
    BY DEF Gathered
  <2>3. Ahead(g.flat, a, b) <=> i < j \/ (i = j /\ <<a, b>> \in Ord(Tree))
    BY <1>4, <2>1, <2>2 DEF Gathered
  <2> DEFINE k == Abstract!Slot(o, a)
             l == Abstract!Slot(o, b)
  <2>4. k \in DOMAIN o /\ e[k] = i /\ l \in DOMAIN o /\ e[l] = j
    BY <2>1, <2>2, SlotIs
  <2>5. Ord(Tree) = ListOrder(children)
    BY TreeFields DEF Ord
  <2>6. Abstract!ArgBefore(o, a, b) <=> k < l \/ (k = l /\ <<a, b>> \in ListOrder(children))
    BY DEF Abstract!ArgBefore
  <2> HIDE DEF k, l
  <2>7. /\ DOMAIN o = 1..Len(o) /\ Len(o) \in Nat /\ e[k] \in DOMAIN ns /\ e[l] \in DOMAIN ns
        /\ k < l => e[k] < e[l]
        /\ l < k => e[l] < e[k]
    BY <2>4 DEF Counted
  <2>8. DOMAIN ns \subseteq Nat
    OBVIOUS
  <2>9. (k < l <=> i < j) /\ (k = l <=> i = j)
    BY <2>4, <2>7, <2>8
  <2> QED BY <2>3, <2>5, <2>6, <2>9
<1> QED
  BY <1>3, <1>4

\* A list without repetitions counts as it is.
LEMMA AllCount ==
  ASSUME NEW ns \in Seq(Node), IsInjective(ns)
  PROVE  \E e : Counted(ns, ns, e)
<1> DEFINE e == [k \in DOMAIN ns |-> k]
<1>1. ns \in Seq(Node) /\ Len(ns) \in Nat /\ DOMAIN ns = 1..Len(ns) /\ DOMAIN ns \subseteq Nat
  OBVIOUS
<1>2. \A j, k \in DOMAIN ns : ns[j] = ns[k] => j = k
  BY DEF IsInjective
<1>3. Counts(ns) = DOMAIN ns
  BY <1>1, <1>2 DEF Counts
<1>4. Counted(ns, ns, e)
  BY <1>1, <1>3 DEF Counted
<1> QED
  BY <1>4

\* Where every argument brings itself, the order is that of the list.
LEMMA OwnOrder ==
  ASSUME NEW ns \in Seq(Node), IsInjective(ns), NEW a \in ToSet(ns), NEW b \in ToSet(ns), a # b
  PROVE  Ahead(ns, a, b) <=> Abstract!ArgBefore(ns, a, b)
<1>1. DOMAIN ns \subseteq Nat
  OBVIOUS
<1>2. \A j, k \in DOMAIN ns : ns[j] = ns[k] => j = k
  BY DEF IsInjective
<1>3. PICK i \in DOMAIN ns : ns[i] = a
  BY DEF ToSet
<1>4. PICK j \in DOMAIN ns : ns[j] = b
  BY DEF ToSet
<1>5. a \in Abstract!Args(ns) /\ b \in Abstract!Args(ns)
  BY DEF ToSet, Abstract!Args
<1>6. Abstract!Slot(ns, a) = i /\ Abstract!Slot(ns, b) = j
  BY <1>2, <1>3, <1>4, <1>5 DEF Abstract!Slot
<1>7. Ahead(ns, a, b) <=> i < j
  BY <1>1, <1>2, <1>3, <1>4 DEF Ahead
<1>8. i # j
  BY <1>3, <1>4
<1> QED
  BY <1>1, <1>6, <1>7, <1>8 DEF Abstract!ArgBefore

\* A call that moves what DomTree's splice moves ends as it does.
LEMMA SplicedIs ==
  ASSUME TreeListsInv, NEW u, NEW p \in Node, NEW M \in SUBSET Node, NEW flat, NEW ref, NEW gone,
         Moves(Tree, u, p, M, flat, ref, gone), ref \notin M,
         NEW o, Abstract!Moved(o) = M,
         \A a, b \in M : a # b => (Ahead(flat, a, b) <=> Abstract!ArgBefore(o, a, b)),
         NEW out, \A n \in Node : n \in gone \ M <=> n \in out \ M
  PROVE  Same(u, Abstract!Spliced(p, o, ref, out))
<1> DEFINE s == Abstract!Spliced(p, o, ref, out)
           K == KidsOf(Tree, p) \ (M \cup gone)
           L == {x \in K : ref \in K /\ (x = ref \/ <<ref, x>> \in Ord(Tree))}
           stay == Abstract!Kids(p) \ (M \cup out)
           later == IF ref \in stay
                    THEN {x \in stay : x = ref \/ <<ref, x>> \in ListOrder(children)} ELSE {}
           old == {pair \in ListOrder(children) : /\ pair[1] \notin M \cup out
                                                  /\ pair[2] \notin M \cup out}
           new == {pair \in M \X M : pair[1] # pair[2] /\ Abstract!ArgBefore(o, pair[1], pair[2])}
<1>1. /\ s.parent = [n \in Node |-> IF n \in M THEN p ELSE IF n \in out THEN None ELSE parent[n]]
      /\ s.order = old \cup new \cup (stay \ later) \X M \cup M \X later
  BY DEF Abstract!Spliced
<1>2. /\ Fit(u)
      /\ \A n \in Node : u.parent[n] = IF n \in M THEN p
                                       ELSE IF n \in gone THEN None ELSE Tree.parent[n]
      /\ \A a, b : <<a, b>> \in Ord(u) <=>
             \/ <<a, b>> \in Ord(Tree) /\ a \notin M \cup gone /\ b \notin M \cup gone
             \/ a \in K \ L /\ b \in M
             \/ a \in M /\ b \in L
             \/ a \in M /\ b \in M /\ Ahead(flat, a, b)
  BY DEF Moves
<1>3. Tree.parent = parent /\ Tree.children = children /\ Fit(Tree)
  BY TreeFields DEF TreeListsInv, Ready
<1>4. u.parent = s.parent
  <2>1. u.parent = [n \in Node |-> u.parent[n]]
    BY <1>2 DEF Fit, Shaped
  <2>2. \A n \in Node : u.parent[n] = IF n \in M THEN p ELSE IF n \in out THEN None ELSE parent[n]
    BY <1>2, <1>3
  <2> QED BY <1>1, <2>1, <2>2
<1>5. Ord(Tree) = ListOrder(children) /\ Ord(Tree) \subseteq Node \X Node
  BY <1>3, OneOrder DEF Ord
<1>6. stay = K /\ K \subseteq Node
  BY <1>3 DEF Abstract!Kids, KidsOf
<1>7. later = L
  BY <1>5, <1>6
<1>8. Ord(u) \subseteq Node \X Node /\ \A a : <<a, a>> \notin Ord(u)
  BY <1>2, OneOrder
<1>9. \A a, b : <<a, b>> \in Ord(Tree) => a \in Node /\ b \in Node
  BY <1>5
<1> HIDE DEF s, K, L, stay, later, old, new
<1>10. \A a, b : <<a, b>> \in old <=> <<a, b>> \in Ord(Tree) /\ a \notin M \cup gone /\ b \notin M \cup gone
  <2>1. \A a, b : <<a, b>> \in old <=> <<a, b>> \in Ord(Tree) /\ a \notin M \cup out /\ b \notin M \cup out
    <3>1. \A a, b : <<a, b>>[1] = a /\ <<a, b>>[2] = b
      OBVIOUS
    <3> QED BY <1>5, <3>1 DEF old
  <2> QED BY <1>9, <2>1
<1>11. \A a, b : <<a, b>> \in new <=> a \in M /\ b \in M /\ a # b /\ Ahead(flat, a, b)
  BY DEF new
<1>12. ASSUME NEW a \in M, Ahead(flat, a, a) PROVE FALSE
  <2>1. <<a, a>> \in Ord(u)
    BY <1>2, <1>12
  <2> QED BY <1>8, <2>1
<1>13. \A a, b : <<a, b>> \in (stay \ later) \X M <=> a \in K \ L /\ b \in M
  BY <1>6, <1>7
<1>14. \A a, b : <<a, b>> \in M \X later <=> a \in M /\ b \in L
  BY <1>6, <1>7
<1>15. ASSUME NEW a, NEW b PROVE <<a, b>> \in Ord(u) <=> <<a, b>> \in s.order
  <2>1. <<a, b>> \in s.order <=>
          \/ <<a, b>> \in old \/ <<a, b>> \in new
          \/ <<a, b>> \in (stay \ later) \X M \/ <<a, b>> \in M \X later
    BY <1>1
  <2>2. <<a, b>> \in Ord(u) <=>
          \/ <<a, b>> \in Ord(Tree) /\ a \notin M \cup gone /\ b \notin M \cup gone
          \/ a \in K \ L /\ b \in M
          \/ a \in M /\ b \in L
          \/ a \in M /\ b \in M /\ Ahead(flat, a, b)
    BY <1>2
  <2> QED BY <2>1, <2>2, <1>10, <1>11, <1>12, <1>13, <1>14
<1>16. s.order \subseteq Node \X Node
  <2>1. old \subseteq Node \X Node /\ new \subseteq Node \X Node
    BY <1>5 DEF old, new
  <2>2. L \subseteq K
    BY DEF L
  <2>3. (stay \ later) \X M \subseteq Node \X Node /\ M \X later \subseteq Node \X Node
    BY <1>6, <1>7, <2>2
  <2> QED BY <1>1, <2>1, <2>3
<1>17. Ord(u) = s.order
  <2>1. \A x \in Node \X Node : x = <<x[1], x[2]>>
    OBVIOUS
  <2> QED BY <1>8, <1>15, <1>16, <2>1
<1> QED
  BY <1>4, <1>17 DEF Same, Ord, s
-----------------------------------------------------------------------------
(* What a handler reads before it starts, as DomTree reads it.              *)

\* The loop finds an ancestor just when no set closed upwards avoids it.
LEMMA ClimbIs ==
  ASSUME TreeListsInv, NEW a \in Node, NEW p \in Node
  PROVE  IsInclusiveAncestor(Tree, a, p) <=> Abstract!IsInclusiveAncestor(a, p)
<1>1. \A n \in Node : Up(Tree, n) = Abstract!Up(n)
  BY NodeAssumption DEF Up, Abstract!Up, Tree
<1>2. \A S \in SUBSET Node : Closed(Tree, S) <=> Abstract!UpClosed(S)
  BY <1>1 DEF Closed, Abstract!UpClosed
<1>3. ASSUME a \in Climb(Tree, p), NEW S \in SUBSET (Node \ {a}), p \in S
      PROVE  ~Abstract!UpClosed(S)
  <2>1. SUFFICES ASSUME Abstract!UpClosed(S) PROVE FALSE
    OBVIOUS
  <2>2. Closed(Tree, S)
    BY <1>2, <2>1
  <2>3. Climb(Tree, p) \subseteq S
    BY <1>3, <2>2, ClimbStays
  <2> QED BY <1>3, <2>3
<1>4. ASSUME a \notin Climb(Tree, p) PROVE ~Abstract!IsInclusiveAncestor(a, p)
  <2>1. /\ Tree.parent \in [Node -> Node \cup {None}]
        /\ hostOf \in [Node -> Node \cup {None}]
    BY DEF TreeListsInv, Ready, Fit, Shaped
  <2>2. p \in Climb(Tree, p) /\ Climb(Tree, p) \subseteq Node /\ Closed(Tree, Climb(Tree, p))
    BY <2>1, ClimbCloses
  <2>3. Climb(Tree, p) \in SUBSET (Node \ {a}) /\ Abstract!UpClosed(Climb(Tree, p))
    BY <1>2, <1>4, <2>2
  <2> QED BY <2>2, <2>3 DEF Abstract!IsInclusiveAncestor
<1> QED
  BY <1>3, <1>4 DEF Abstract!IsInclusiveAncestor, IsInclusiveAncestor

\* A first sibling is the one DomTree chooses.
LEMMA FirstAfterIs ==
  ASSUME TreeListsInv, NEW h, NEW out, NEW x, IsFirst(Tree, Follow(Tree, h) \ out, x)
  PROVE  Abstract!FirstAfter(h, out) = x
<1> DEFINE rest == {s \in Node \ out : <<h, s>> \in ListOrder(children)}
<1>1. Fit(Tree) /\ Ord(Tree) = ListOrder(children)
  BY TreeFields DEF TreeListsInv, Ready, Ord
<1>2. rest = Follow(Tree, h) \ out
  BY <1>1 DEF Follow
<1>3. Abstract!FirstAfter(h, out) =
        IF rest = {} THEN None
        ELSE CHOOSE s \in rest : \A t \in rest \ {s} : <<s, t>> \in ListOrder(children)
  BY DEF Abstract!FirstAfter
<1> HIDE DEF rest
<1>4. CASE rest = {}
  BY <1>2, <1>3, <1>4 DEF IsFirst
<1>5. CASE rest # {}
  <2>1. x \in rest /\ \A t \in rest \ {x} : <<x, t>> \in ListOrder(children)
    BY <1>1, <1>2, <1>5 DEF IsFirst
  <2>2. ASSUME NEW s \in rest, \A t \in rest \ {s} : <<s, t>> \in ListOrder(children), s # x
        PROVE  FALSE
    <3>1. <<s, x>> \in Ord(Tree) /\ <<x, s>> \in Ord(Tree)
      BY <1>1, <2>1, <2>2
    <3> QED BY <1>1, <3>1, OneOrder
  <2> QED BY <1>3, <1>5, <2>1, <2>2
<1> QED
  BY <1>4, <1>5

\* The places of a list are its order.
Lines(t, p, s) ==
  /\ s \in Seq(Node) /\ DOMAIN s = 1..Len(s) /\ Len(s) \in Nat
  /\ \A i \in DOMAIN s : s[i] \in KidsOf(t, p)
  /\ \A c \in KidsOf(t, p) : \E i \in DOMAIN s : s[i] = c
  /\ \A i, j \in DOMAIN s : s[i] = s[j] => i = j
  /\ \A i, j \in DOMAIN s : <<s[i], s[j]>> \in Ord(t) <=> i < j

\* A child list lines up the children.
LEMMA Lined ==
  ASSUME NEW t, Fit(t), NEW p \in Node
  PROVE  Lines(t, p, t.children[p])
<1> DEFINE s == t.children[p]
<1>1. s \in Seq(Node) /\ IsInjective(s) /\ ToSet(s) = KidsOf(t, p)
  BY DEF Fit, Shaped, Paired
<1>2. DOMAIN s = 1..Len(s) /\ Len(s) \in Nat
  BY <1>1
<1>3. \A i \in DOMAIN s : s[i] \in KidsOf(t, p)
  BY <1>1 DEF ToSet
<1>4. \A c \in KidsOf(t, p) : \E i \in DOMAIN s : s[i] = c
  BY <1>1 DEF ToSet
<1>5. \A i, j \in DOMAIN s : s[i] = s[j] => i = j
  BY <1>1 DEF IsInjective
<1>6. ASSUME NEW i \in DOMAIN s, NEW j \in DOMAIN s
      PROVE  <<s[i], s[j]>> \in Ord(t) <=> i < j
  <2>1. s[i] \in Node /\ t.parent[s[i]] = p /\ s[j] \in Node /\ t.parent[s[j]] = p
    BY <1>3 DEF KidsOf
  <2>2. <<s[i], s[j]>> \in Ord(t) <=> Precedes(s, s[i], s[j])
    BY <2>1, TreeOrder
  <2>3. Precedes(s, s[i], s[j]) <=> i < j
    BY <1>5 DEF Precedes
  <2> QED BY <2>2, <2>3
<1> QED
  BY <1>1, <1>2, <1>3, <1>4, <1>5, <1>6 DEF Lines

\* The two viable siblings are the nearest on their side that stay.
LEMMA ViableNextIs ==
  ASSUME TreeListsInv, NEW h \in Node, parent[h] \in Node, NEW ns
  PROVE  IsFirst(Tree, Follow(Tree, h) \ ToSet(ns), ViableNext(h, ns))
<1> DEFINE s == Siblings(h)
           i == Position(s, h)
           later == {k \in Staying(h, ns) : k > i}
<1>1. Fit(Tree) /\ Tree.parent = parent /\ Tree.children = children
  BY TreeFields DEF TreeListsInv, Ready
<1>2. Lines(Tree, parent[h], s)
  BY <1>1, Lined DEF Siblings
<1>3. i \in DOMAIN s /\ s[i] = h
  <2>1. h \in ToSet(s)
    BY <1>1, <1>2 DEF Lines, KidsOf, ToSet
  <2>2. s \in Seq(Node)
    BY <1>2 DEF Lines
  <2> QED BY <2>1, <2>2, Positioned DEF Place
<1>4. ViableNext(h, ns) = IF later = {} THEN None ELSE s[Min(later)]
  BY DEF ViableNext
<1>5. later = {k \in DOMAIN s : s[k] \notin ToSet(ns) /\ k > i}
  BY DEF Staying
<1> HIDE DEF s, i, later
<1>6. \A k \in DOMAIN s : s[k] \in Follow(Tree, h) <=> i < k
  BY <1>2, <1>3 DEF Lines, Follow, KidsOf
<1>7. ASSUME NEW y \in Follow(Tree, h) PROVE \E k \in DOMAIN s : s[k] = y
  <2>1. y \in KidsOf(Tree, parent[h])
    BY <1>1, OneOrder DEF Follow, KidsOf
  <2> QED BY <1>2, <2>1 DEF Lines
<1>8. DOMAIN s = 1..Len(s) /\ Len(s) \in Nat
  BY <1>2 DEF Lines
<1>9. \A k \in DOMAIN s : s[k] \in Follow(Tree, h) \ ToSet(ns) <=> k \in later
  BY <1>3, <1>5, <1>6, <1>8
<1>10. CASE later = {}
  BY <1>4, <1>7, <1>9, <1>10 DEF IsFirst
<1>11. CASE later # {}
  <2>1. later \in SUBSET (0..Len(s))
    BY <1>5, <1>8
  <2>2. Min(later) \in later /\ \A k \in later : Min(later) <= k
    BY <1>8, <1>11, <2>1, Extremes
  <2>3. ASSUME NEW y \in (Follow(Tree, h) \ ToSet(ns)) \ {s[Min(later)]}
        PROVE  <<s[Min(later)], y>> \in Ord(Tree)
    <3>1. PICK k \in DOMAIN s : s[k] = y
      BY <1>7, <2>3
    <3>2. k \in later /\ k # Min(later)
      BY <1>9, <2>3, <3>1
    <3>3. Min(later) < k /\ Min(later) \in DOMAIN s
      <4>1. \A j \in later : j \in DOMAIN s /\ j \in Nat
        BY <1>5, <1>8
      <4>2. \A j, m \in Nat : m <= j /\ j # m => m < j
        OBVIOUS
      <4> QED BY <2>2, <3>2, <4>1, <4>2
    <3> QED BY <1>2, <3>1, <3>3 DEF Lines
  <2>4. s[Min(later)] \in Follow(Tree, h) \ ToSet(ns)
    BY <1>5, <1>9, <2>2
  <2> QED BY <1>4, <1>11, <2>3, <2>4 DEF IsFirst
<1> QED
  BY <1>10, <1>11

\* x is the last node of S, or None when S is empty.
IsLast(t, S, x) ==
  \/ x = None /\ S = {}
  \/ x \in S /\ \A y \in S \ {x} : <<y, x>> \in Ord(t)

\* Those before h among its siblings.
Precede(t, h) == {s \in Node : <<s, h>> \in Ord(t)}

\* The viable previous sibling is the last before h that is not an argument.
LEMMA ViablePreviousIs ==
  ASSUME TreeListsInv, NEW h \in Node, parent[h] \in Node, NEW ns
  PROVE  IsLast(Tree, Precede(Tree, h) \ ToSet(ns), ViablePrevious(h, ns))
<1> DEFINE s == Siblings(h)
           i == Position(s, h)
           earlier == {k \in Staying(h, ns) : k < i}
<1>1. Fit(Tree) /\ Tree.parent = parent /\ Tree.children = children
  BY TreeFields DEF TreeListsInv, Ready
<1>2. Lines(Tree, parent[h], s)
  BY <1>1, Lined DEF Siblings
<1>3. i \in DOMAIN s /\ s[i] = h
  <2>1. h \in ToSet(s)
    BY <1>1, <1>2 DEF Lines, KidsOf, ToSet
  <2>2. s \in Seq(Node)
    BY <1>2 DEF Lines
  <2> QED BY <2>1, <2>2, Positioned DEF Place
<1>4. ViablePrevious(h, ns) = IF earlier = {} THEN None ELSE s[Max(earlier)]
  BY DEF ViablePrevious
<1>5. earlier = {k \in DOMAIN s : s[k] \notin ToSet(ns) /\ k < i}
  BY DEF Staying
<1> HIDE DEF s, i, earlier
<1>6. \A k \in DOMAIN s : s[k] \in Precede(Tree, h) <=> k < i
  BY <1>2, <1>3 DEF Lines, Precede, KidsOf
<1>7. ASSUME NEW y \in Precede(Tree, h) PROVE \E k \in DOMAIN s : s[k] = y
  <2>1. y \in KidsOf(Tree, parent[h])
    BY <1>1, OneOrder DEF Precede, KidsOf
  <2> QED BY <1>2, <2>1 DEF Lines
<1>8. DOMAIN s = 1..Len(s) /\ Len(s) \in Nat
  BY <1>2 DEF Lines
<1>9. \A k \in DOMAIN s : s[k] \in Precede(Tree, h) \ ToSet(ns) <=> k \in earlier
  BY <1>3, <1>5, <1>6, <1>8
<1>10. CASE earlier = {}
  BY <1>4, <1>7, <1>9, <1>10 DEF IsLast
<1>11. CASE earlier # {}
  <2>1. earlier \in SUBSET (0..Len(s))
    BY <1>5, <1>8
  <2>2. Max(earlier) \in earlier /\ \A k \in earlier : k <= Max(earlier)
    BY <1>8, <1>11, <2>1, Extremes
  <2>3. ASSUME NEW y \in (Precede(Tree, h) \ ToSet(ns)) \ {s[Max(earlier)]}
        PROVE  <<y, s[Max(earlier)]>> \in Ord(Tree)
    <3>1. PICK k \in DOMAIN s : s[k] = y
      BY <1>7, <2>3
    <3>2. k \in earlier /\ k # Max(earlier)
      BY <1>9, <2>3, <3>1
    <3>3. k < Max(earlier) /\ Max(earlier) \in DOMAIN s
      <4>1. \A j \in earlier : j \in DOMAIN s /\ j \in Nat
        BY <1>5, <1>8
      <4>2. \A j, m \in Nat : j <= m /\ j # m => j < m
        OBVIOUS
      <4> QED BY <2>2, <3>2, <4>1, <4>2
    <3> QED BY <1>2, <3>1, <3>3 DEF Lines
  <2>4. s[Max(earlier)] \in Precede(Tree, h) \ ToSet(ns)
    BY <1>5, <1>9, <2>2
  <2> QED BY <1>4, <1>11, <2>3, <2>4 DEF IsLast
<1> QED
  BY <1>10, <1>11

\* Of the children of p a call moves those that are its arguments.
LEMMA MovedKids ==
  ASSUME TreeListsInv, NEW p \in Node, NEW ns \in Seq(Node), Enters(Tree, p, ns)
  PROVE  \A c \in KidsOf(Tree, p) : c \in Brought(Tree, ns, Len(ns)) <=> c \in ToSet(ns)
<1>1. DOMAIN ns = 1..Len(ns)
  OBVIOUS
<1>2. p \in Climb(Tree, p)
  BY ClimbCloses DEF TreeListsInv, Ready, Fit, Shaped
<1>3. \A n \in Fragment : Tree.parent[n] = None
  BY DEF TreeListsInv, Ready, Topped, Tops
<1>4. SUFFICES ASSUME NEW c \in KidsOf(Tree, p)
               PROVE  c \in Brought(Tree, ns, Len(ns)) <=> c \in ToSet(ns)
  OBVIOUS
<1>5. c \in Node /\ Tree.parent[c] = p /\ c \notin Fragment
  BY <1>3, NodeAssumption DEF KidsOf
<1>6. ASSUME c \in ToSet(ns) PROVE c \in Brought(Tree, ns, Len(ns))
  BY <1>1, <1>5, <1>6 DEF Brought, Brings, ToSet
<1>7. ASSUME NEW i \in DOMAIN ns, c \in Brings(Tree, ns[i]) PROVE c \in ToSet(ns)
  <2>1. ns[i] # p
    BY <1>2 DEF Enters, IsInclusiveAncestor
  <2>2. c = ns[i]
    BY <1>5, <1>7, <2>1 DEF Brings, KidsOf
  <2> QED BY <2>2 DEF ToSet
<1> QED
  BY <1>1, <1>6, <1>7 DEF Brought

\* The place `before` looks for: h, or the next sibling that stays, though it
\* is found after the arguments are gone and from the sibling before h.
LEMMA BeforeReference ==
  ASSUME TreeListsInv, NEW h \in Node, NEW p \in Node, p = parent[h],
         NEW ns \in Seq(Node), Enters(Tree, p, ns),
         NEW g, Gathered(Tree, ns, Len(ns), g)
  PROVE  IsFirst(Tree, {s \in KidsOf(Tree, p) \ ToSet(ns) : s = h \/ <<h, s>> \in Ord(Tree)},
                 Reference(g.t, p, AnchorAfter(ViablePrevious(h, ns))))
<1> DEFINE M == Brought(Tree, ns, Len(ns))
           K == KidsOf(Tree, p)
           out == ToSet(ns)
           W == {s \in K \ out : s = h \/ <<h, s>> \in Ord(Tree)}
           prev == ViablePrevious(h, ns)
           ref == Reference(g.t, p, AnchorAfter(prev))
<1>1. Fit(Tree) /\ Tree.parent = parent
  BY TreeFields DEF TreeListsInv, Ready
<1>2. /\ Fit(g.t)
      /\ \A n \in Node : g.t.parent[n] = IF n \in M THEN None ELSE Tree.parent[n]
      /\ \A a, b : <<a, b>> \in Ord(g.t) <=> <<a, b>> \in Ord(Tree) /\ a \notin M /\ b \notin M
  BY DEF Gathered, Parted
<1>3. \A c \in K : c \in M <=> c \in out
  BY MovedKids
<1>4. KidsOf(g.t, p) = K \ out
  BY <1>2, <1>3, NodeAssumption DEF KidsOf
<1>5. IsLast(Tree, Precede(Tree, h) \ out, prev)
  BY ViablePreviousIs
<1>6. /\ \A a, b : <<a, b>> \in Ord(Tree) =>
              /\ a \in Node /\ b \in Node /\ Tree.parent[a] \in Node /\ Tree.parent[b] = Tree.parent[a]
              /\ a # b /\ <<b, a>> \notin Ord(Tree)
      /\ \A a, b \in Node : a # b /\ Tree.parent[a] = Tree.parent[b] /\ Tree.parent[a] \in Node =>
              <<a, b>> \in Ord(Tree) \/ <<b, a>> \in Ord(Tree)
      /\ \A a, b, c : <<a, b>> \in Ord(Tree) /\ <<b, c>> \in Ord(Tree) => <<a, c>> \in Ord(Tree)
  BY <1>1, OneOrder
<1>7. \A s \in K : s \in Node /\ (s = h \/ <<h, s>> \in Ord(Tree) \/ s \in Precede(Tree, h))
  BY <1>1, <1>6 DEF KidsOf, Precede
<1>8. \A s : <<s, h>> \in Ord(Tree) \/ <<h, s>> \in Ord(Tree) => s \in K
  BY <1>1, <1>6 DEF KidsOf
<1>9. h \in K
  BY <1>1 DEF KidsOf
<1> HIDE DEF M, K, out, prev
<1>10. IsFirst(g.t, W, ref)
  <2>1. CASE prev = None
    <3>1. Precede(Tree, h) \ out = {}
      BY <1>5, <2>1, NodeAssumption DEF IsLast, Precede
    <3>2. ref = FirstOf(g.t.children[p])
      BY <2>1 DEF Reference, AnchorAfter
    <3>3. W = K \ out
      BY <1>7, <3>1
    <3> QED BY <1>2, <1>4, <3>2, <3>3, FirstKid
  <2>2. CASE prev # None
    <3>1. /\ prev \in Precede(Tree, h) \ out
          /\ \A y \in Precede(Tree, h) \ out : y # prev => <<y, prev>> \in Ord(Tree)
      BY <1>5, <2>2 DEF IsLast
    <3>2. ref = NextSibling(g.t, prev)
      BY <2>2 DEF Reference, AnchorAfter
    <3>3. prev \in Node /\ <<prev, h>> \in Ord(Tree) /\ prev \in K /\ prev \notin M
      BY <1>3, <1>8, <3>1 DEF Precede
    <3>4. ASSUME NEW s \in W PROVE s \in Follow(g.t, prev)
      <4>1. <<prev, s>> \in Ord(Tree)
        BY <1>6, <3>3, <3>4
      <4> QED BY <1>2, <1>3, <1>7, <3>3, <3>4, <4>1 DEF Follow
    <3>5. ASSUME NEW s \in Follow(g.t, prev) PROVE s \in W
      <4>1. <<prev, s>> \in Ord(Tree) /\ s \notin M
        BY <1>2, <3>5 DEF Follow
      <4>2. s \in K
        BY <1>1, <1>6, <3>3, <4>1 DEF K, KidsOf
      <4>3. s \notin out
        BY <1>3, <4>1, <4>2
      <4>4. s \notin Precede(Tree, h)
        BY <1>6, <3>1, <4>1, <4>3
      <4> QED BY <1>7, <4>2, <4>3, <4>4
    <3>6. W = Follow(g.t, prev)
      BY <3>4, <3>5
    <3> QED BY <1>2, <3>2, <3>3, <3>6, NextIs
  <2> QED BY <2>1, <2>2
<1>11. IsFirst(Tree, W, ref)
  BY <1>2, <1>10 DEF IsFirst
<1> QED
  BY <1>11 DEF K, out, prev
-----------------------------------------------------------------------------
(* Each handler is a splice of DomTree.                                     *)

\* insert_nodes ends where a Splice of the arguments that count would.
LEMMA InsertNodesIs ==
  ASSUME TreeListsInv, NEW p \in Node, NEW ns \in Seq(Node), Enters(Tree, p, ns),
         NEW o, NEW e, Counted(ns, o, e),
         NEW anchor, NEW replaced \in Seq(Node), ToSet(replaced) \subseteq KidsOf(Tree, p),
         NEW ref, ref = Reference(Gather(Tree, ns).t, p, anchor),
         ref \notin Brought(Tree, ns, Len(ns)),
         NEW out, \A n \in Node : n \in ToSet(replaced) \ Brought(Tree, ns, Len(ns))
                                    <=> n \in out \ Brought(Tree, ns, Len(ns))
  PROVE  Same(InsertNodes(Tree, p, ns, anchor, replaced), Abstract!Spliced(p, o, ref, out))
<1> DEFINE g == Gather(Tree, ns)
           M == Brought(Tree, ns, Len(ns))
           u == InsertNodes(Tree, p, ns, anchor, replaced)
           gone == ToSet(replaced)
<1>1. Ready(Tree)
  BY DEF TreeListsInv
<1>2. Gathered(Tree, ns, Len(ns), g) /\ Moves(Tree, u, p, M, g.flat, ref, gone)
  BY <1>1, InsertNodesMoves
<1>3. M \in SUBSET Node
  BY <1>1, BroughtStayBelow
<1> HIDE DEF g, u, gone
<1>4. Abstract!Moved(o) = M /\ \A a, b \in M : a # b =>
        (Ahead(g.flat, a, b) <=> Abstract!ArgBefore(o, a, b))
  BY <1>2, ArgsAgree
<1>5. \A n \in Node : n \in gone \ M <=> n \in out \ M
  BY DEF gone
<1>6. ref \notin M
  OBVIOUS
<1> HIDE DEF M
<1>7. Same(u, Abstract!Spliced(p, o, ref, out))
  BY <1>2, <1>3, <1>4, <1>5, <1>6, SplicedIs
<1> QED
  BY <1>7 DEF u

\* What HandlersAgree and the abstract handlers say of `before`, `after` and
\* `replaceWith`.
Called(h, p, ns, o, e) ==
  /\ h \in Node /\ p \in Node /\ p = parent[h]
  /\ ns \in Seq(Node) /\ Enters(Tree, p, ns) /\ Counted(ns, o, e)

\* before is a Splice.
LEMMA BeforeIs ==
  ASSUME TreeListsInv, NEW h, NEW p, NEW ns, NEW o, NEW e, Called(h, p, ns, o, e)
  PROVE  Same(BeforeTree(h, ns),
              Abstract!Spliced(p, o, IF h \in ToSet(ns) THEN Abstract!FirstAfter(h, ToSet(ns)) ELSE h, {}))
<1> USE DEF Called
<1> DEFINE anchor == AnchorAfter(ViablePrevious(h, ns))
           g == Gather(Tree, ns)
           M == Brought(Tree, ns, Len(ns))
           x == Reference(g.t, p, anchor)
           W == {s \in KidsOf(Tree, p) \ ToSet(ns) : s = h \/ <<h, s>> \in Ord(Tree)}
           ref == IF h \in ToSet(ns) THEN Abstract!FirstAfter(h, ToSet(ns)) ELSE h
<1>1. Ready(Tree) /\ Fit(Tree) /\ Tree.parent = parent
  BY TreeFields DEF TreeListsInv, Ready
<1>2. Gathered(Tree, ns, Len(ns), g)
  BY <1>1, GatherGathers DEF Ready
<1>3. IsFirst(Tree, W, x)
  BY <1>2, BeforeReference
<1>4. x \notin M
  <2>1. x = None \/ x \in KidsOf(Tree, p) \ ToSet(ns)
    BY <1>3 DEF IsFirst
  <2>2. M \subseteq Node
    BY <1>1, BroughtStayBelow
  <2> QED BY <2>1, <2>2, MovedKids, NodeAssumption
<1>5. x = ref
  <2>1. CASE h \notin ToSet(ns)
    <3>1. h \in W
      BY <1>1, <2>1 DEF KidsOf
    <3>2. x \in W
      BY <1>3, <3>1 DEF IsFirst
    <3>3. ASSUME x # h PROVE FALSE
      <4>1. <<x, h>> \in Ord(Tree) /\ <<h, x>> \in Ord(Tree)
        BY <1>3, <3>1, <3>2, <3>3 DEF IsFirst
      <4> QED BY <1>1, <4>1, OneOrder
    <3> QED BY <2>1, <3>3
  <2>2. CASE h \in ToSet(ns)
    <3>1. \A s : <<h, s>> \in Ord(Tree) => s \in KidsOf(Tree, p)
      BY <1>1, OneOrder DEF KidsOf
    <3>2. W = Follow(Tree, h) \ ToSet(ns)
      BY <2>2, <3>1 DEF Follow, KidsOf
    <3> HIDE DEF W, x
    <3>3. Abstract!FirstAfter(h, ToSet(ns)) = x
      BY <1>3, <3>2, FirstAfterIs
    <3> QED BY <2>2, <3>3
  <2> QED BY <2>1, <2>2
<1>6. <<>> \in Seq(Node) /\ ToSet(<<>>) = {}
  BY DEF ToSet
<1>7. BeforeTree(h, ns) = InsertNodes(Tree, p, ns, anchor, <<>>)
  BY DEF BeforeTree
<1> HIDE DEF anchor, M
<1>8. Same(InsertNodes(Tree, p, ns, anchor, <<>>), Abstract!Spliced(p, o, x, {}))
  BY <1>4, <1>6, InsertNodesIs DEF M
<1> QED
  BY <1>5, <1>7, <1>8

\* What the other two look for.
LEMMA NextReference ==
  ASSUME TreeListsInv, NEW h, NEW p, NEW ns, NEW o, NEW e, Called(h, p, ns, o, e)
  PROVE  LET x == Abstract!FirstAfter(h, ToSet(ns))
         IN  /\ x = ViableNext(h, ns) /\ x # h
             /\ x = None \/ x \in KidsOf(Tree, p)
             /\ x \notin Brought(Tree, ns, Len(ns))
             /\ \A t : Reference(t, p, AnchorBefore(ViableNext(h, ns))) = x
<1> USE DEF Called
<1> DEFINE x == ViableNext(h, ns)
           M == Brought(Tree, ns, Len(ns))
<1>1. Ready(Tree) /\ Fit(Tree) /\ Tree.parent = parent
  BY TreeFields DEF TreeListsInv, Ready
<1>2. IsFirst(Tree, Follow(Tree, h) \ ToSet(ns), x)
  BY ViableNextIs
<1> HIDE DEF x
<1>3. Abstract!FirstAfter(h, ToSet(ns)) = x
  BY <1>2, FirstAfterIs
<1>4. x = None \/ x \in Follow(Tree, h) \ ToSet(ns)
  BY <1>2 DEF IsFirst
<1>5. \A s \in Follow(Tree, h) : s \in KidsOf(Tree, p) /\ s # h
  BY <1>1, OneOrder DEF Follow, KidsOf
<1>6. M \subseteq Node
  BY <1>1, BroughtStayBelow
<1>7. x \notin M
  BY <1>4, <1>5, <1>6, MovedKids, NodeAssumption
<1>8. \A t : Reference(t, p, AnchorBefore(x)) = x
  BY DEF Reference, AnchorBefore
<1> QED
  BY <1>3, <1>4, <1>5, <1>7, <1>8, NodeAssumption DEF x

\* after is a Splice.
LEMMA AfterIs ==
  ASSUME TreeListsInv, NEW h, NEW p, NEW ns, NEW o, NEW e, Called(h, p, ns, o, e)
  PROVE  Same(AfterTree(h, ns), Abstract!Spliced(p, o, Abstract!FirstAfter(h, ToSet(ns)), {}))
<1> DEFINE ref == Abstract!FirstAfter(h, ToSet(ns))
           anchor == AnchorBefore(ViableNext(h, ns))
<1>1. ref \notin Brought(Tree, ns, Len(ns)) /\ \A t : Reference(t, p, anchor) = ref
  BY NextReference
<1>2. <<>> \in Seq(Node) /\ ToSet(<<>>) = {}
  BY DEF ToSet
<1>3. AfterTree(h, ns) = InsertNodes(Tree, p, ns, anchor, <<>>)
  BY DEF AfterTree, Called
<1> HIDE DEF ref, anchor
<1>4. Same(InsertNodes(Tree, p, ns, anchor, <<>>), Abstract!Spliced(p, o, ref, {}))
  BY <1>1, <1>2, InsertNodesIs DEF Called
<1> QED
  BY <1>3, <1>4 DEF ref

\* replace_with is a Splice.
LEMMA ReplaceIs ==
  ASSUME TreeListsInv, NEW h, NEW p, NEW ns, NEW o, NEW e, Called(h, p, ns, o, e)
  PROVE  Same(ReplaceTree(h, ns), Abstract!Spliced(p, o, Abstract!FirstAfter(h, ToSet(ns)), {h}))
<1> DEFINE ref == Abstract!FirstAfter(h, ToSet(ns))
           anchor == AnchorBefore(ViableNext(h, ns))
           replaced == IF h \in ToSet(ns) THEN <<>> ELSE <<h>>
           M == Brought(Tree, ns, Len(ns))
<1>1. ref \notin M /\ \A t : Reference(t, p, anchor) = ref
  BY NextReference
<1>2. h \in KidsOf(Tree, p)
  BY TreeFields DEF Called, KidsOf
<1>3. replaced \in Seq(Node) /\ ToSet(replaced) = IF h \in ToSet(ns) THEN {} ELSE {h}
  <2>1. <<>> \in Seq(Node) /\ ToSet(<<>>) = {}
    BY DEF ToSet
  <2>2. <<h>> \in Seq(Node) /\ DOMAIN <<h>> = {1} /\ <<h>>[1] = h
    BY DEF Called
  <2>3. ToSet(<<h>>) = {h}
    BY <2>2 DEF ToSet
  <2> QED BY <2>1, <2>2, <2>3
<1>4. h \in M <=> h \in ToSet(ns)
  BY <1>2, MovedKids DEF Called
<1>5. ReplaceTree(h, ns) = InsertNodes(Tree, p, ns, anchor, replaced)
  BY DEF ReplaceTree, Called
<1> HIDE DEF ref, anchor, replaced, M
<1>6. \A n \in Node : n \in ToSet(replaced) \ M <=> n \in {h} \ M
  BY <1>3, <1>4
<1>7. ToSet(replaced) \subseteq KidsOf(Tree, p)
  BY <1>2, <1>3
<1>8. Same(InsertNodes(Tree, p, ns, anchor, replaced), Abstract!Spliced(p, o, ref, {h}))
  BY <1>1, <1>3, <1>6, <1>7, InsertNodesIs DEF Called, M
<1> QED
  BY <1>5, <1>8 DEF ref

\* The list of one node.
LEMMA OneArgument ==
  ASSUME NEW c \in Node
  PROVE  /\ <<c>> \in Seq(Node) /\ ToSet(<<c>>) = {c} /\ IsInjective(<<c>>)
         /\ DOMAIN <<c>> = {1} /\ <<c>>[1] = c /\ Len(<<c>>) = 1
  BY DEF ToSet, IsInjective

\* What is no child is no place.
LEMMA NoPlace ==
  ASSUME NEW p, NEW o, NEW ref, ref \notin Abstract!Kids(p), NEW out
  PROVE  Abstract!Spliced(p, o, ref, out) = Abstract!Spliced(p, o, None, out)
<1>1. None \notin Abstract!Kids(p)
  BY NodeAssumption DEF Abstract!Kids
<1> QED
  BY <1>1 DEF Abstract!Spliced

\* append_child and insert_before, of one node or the children of a fragment.
LEMMA InsertTreeIs ==
  ASSUME TreeListsInv, NEW p \in Node, NEW c \in Node, ~IsInclusiveAncestor(Tree, c, p),
         NEW ref, c \in Fragment => ref \notin KidsOf(Tree, c)
  PROVE  Same(InsertTree(p, c, ref),
              Abstract!Spliced(p, <<c>>, IF ref = c THEN Abstract!FirstAfter(c, {}) ELSE ref, {}))
<1>1. Ready(Tree) /\ Fit(Tree) /\ \A n \in Fragment : Tree.parent[n] = None
  BY DEF TreeListsInv, Ready, Topped, Tops
<1>2. /\ <<c>> \in Seq(Node) /\ ToSet(<<c>>) = {c} /\ IsInjective(<<c>>)
      /\ DOMAIN <<c>> = {1} /\ <<c>>[1] = c
  BY OneArgument
<1>3. CASE c \in Fragment
  <2> DEFINE ns == <<c>>
             M == Brought(Tree, ns, Len(ns))
  <2>1. Enters(Tree, p, ns)
    BY <1>2 DEF Enters
  <2>2. PICK e : Counted(ns, ns, e)
    BY <1>2, AllCount
  <2>3. Abstract!Spliced(p, <<c>>, IF ref = c THEN Abstract!FirstAfter(c, {}) ELSE ref, {})
          = Abstract!Spliced(p, <<c>>, ref, {})
    <3>1. SUFFICES ASSUME ref = c
                   PROVE  Abstract!Spliced(p, <<c>>, Abstract!FirstAfter(c, {}), {})
                            = Abstract!Spliced(p, <<c>>, c, {})
      OBVIOUS
    <3>2. Follow(Tree, c) = {} /\ Follow(Tree, c) \ {} = {} /\ c \notin Abstract!Kids(p)
      <4>1. Tree.parent[c] = None /\ parent[c] = None
        BY <1>1, <1>3, TreeFields
      <4>2. \A s : <<c, s>> \notin Ord(Tree)
        <5>1. \A a, b : <<a, b>> \in Ord(Tree) => Tree.parent[a] \in Node
          BY <1>1, OneOrder
        <5> QED BY <4>1, <5>1, NodeAssumption
      <4> QED BY <4>1, <4>2, NodeAssumption DEF Follow, Abstract!Kids
    <3>3. IsFirst(Tree, Follow(Tree, c) \ {}, None)
      BY <3>2 DEF IsFirst
    <3>4. Abstract!FirstAfter(c, {}) = None
      BY <3>3, FirstAfterIs
    <3> QED BY <3>2, <3>4, NoPlace
  <2>4. ref \notin M
    BY <1>2, <1>3 DEF Brought, Brings
  <2>5. Reference(Gather(Tree, ns).t, p, AnchorBefore(ref)) = ref
    BY DEF Reference, AnchorBefore
  <2>6. <<>> \in Seq(Node) /\ ToSet(<<>>) = {}
    BY DEF ToSet
  <2>7. InsertTree(p, c, ref) = InsertNodes(Tree, p, ns, AnchorBefore(ref), <<>>)
    BY <1>3 DEF InsertTree
  <2> HIDE DEF ns
  <2>8. ns \in Seq(Node)
    BY <1>2 DEF ns
  <2>9. Same(InsertNodes(Tree, p, ns, AnchorBefore(ref), <<>>), Abstract!Spliced(p, ns, ref, {}))
    BY <2>1, <2>2, <2>4, <2>5, <2>6, <2>8, InsertNodesIs
  <2> QED BY <2>3, <2>7, <2>9 DEF ns
<1>4. CASE c \notin Fragment
  <2> DEFINE x == IF ref = c THEN NextSibling(Tree, c) ELSE ref
             u == InsertOne(Tree, p, c, ref, TRUE)
  <2>1. Moves(Tree, u, p, {c}, <<c>>, x, {})
    BY <1>1, InsertOneMoves
  <2>2. IsFirst(Tree, Follow(Tree, c), NextSibling(Tree, c))
    BY <1>1, NextIs
  <2>3. NextSibling(Tree, c) # c
    BY <1>1, <2>2, OneOrder, NodeAssumption DEF IsFirst, Follow
  <2>4. Follow(Tree, c) \ {} = Follow(Tree, c)
    OBVIOUS
  <2>5. Abstract!FirstAfter(c, {}) = NextSibling(Tree, c)
    BY <2>2, <2>4, FirstAfterIs
  <2>6. x \notin {c}
    BY <2>3
  <2>7. Abstract!Moved(<<c>>) = {c}
    BY <1>2, <1>4 DEF Abstract!Moved, Abstract!Items
  <2>8. \A a, b \in {c} : a # b => (Ahead(<<c>>, a, b) <=> Abstract!ArgBefore(<<c>>, a, b))
    OBVIOUS
  <2>9. InsertTree(p, c, ref) = u
    BY <1>4 DEF InsertTree
  <2> HIDE DEF u, x
  <2>10. Same(u, Abstract!Spliced(p, <<c>>, x, {}))
    BY <2>1, <2>6, <2>7, <2>8, SplicedIs
  <2> QED BY <2>5, <2>9, <2>10 DEF x
<1> QED
  BY <1>3, <1>4

\* A fragment inserted before one of its own children (no binding lets that
\* through): the child ends up last, as though it had been listed too.
LEMMA OwnReference ==
  ASSUME TreeListsInv, NEW p \in Node, NEW c \in Node, c \in Fragment,
         ~IsInclusiveAncestor(Tree, c, p), NEW ref \in KidsOf(Tree, c)
  PROVE  /\ Same(InsertTree(p, c, ref), Abstract!Spliced(p, <<c, ref>>, None, {}))
         /\ Enters(Tree, p, <<c, ref>>)
<1> DEFINE ns == <<c>>
           two == <<c, ref>>
           M == KidsOf(Tree, c)
           K == KidsOf(Tree, p) \ M
           g == Gather(Tree, ns)
           h == Gather(Tree, two)
           u == InsertNodes(Tree, p, ns, AnchorBefore(ref), <<>>)
           none == {}
<1>1. Ready(Tree) /\ Fit(Tree) /\ Topped(Tree)
  BY DEF TreeListsInv, Ready
<1>2. ref \in Node /\ ref # c /\ ref \notin Fragment /\ Tree.parent[ref] = c /\ ref \in M
  BY <1>1, NodeAssumption DEF KidsOf, Topped, Tops
<1>3. /\ ns \in Seq(Node) /\ Len(ns) = 1 /\ DOMAIN ns = 1..1 /\ ns[1] = c
      /\ two \in Seq(Node) /\ Len(two) = 2 /\ DOMAIN two = 1..2 /\ two[1] = c /\ two[2] = ref
  BY <1>2
<1>4. Brought(Tree, ns, Len(ns)) = M /\ Brought(Tree, two, Len(two)) = M
  <2>1. Brings(Tree, c) = M /\ Brings(Tree, ref) = {ref}
    BY <1>2 DEF Brings
  <2>2. 1..1 = {1} /\ 1..2 = {1, 2}
    OBVIOUS
  <2> HIDE DEF M, ns, two
  <2>3. Brought(Tree, ns, Len(ns)) = Brings(Tree, c)
    BY <1>3, <2>2 DEF Brought
  <2>4. Brought(Tree, two, Len(two)) = Brings(Tree, c) \cup Brings(Tree, ref)
    BY <1>3, <2>2 DEF Brought
  <2> QED BY <1>2, <2>1, <2>3, <2>4
<1>5. h.flat = Append(g.flat, ref)
  <2>1. PICK f : GatherRounds(Tree, ns, f)
    BY <1>3, GatherRuns
  <2>2. PICK f2 : GatherRounds(Tree, two, f2)
    BY <1>3, GatherRuns
  <2> HIDE DEF ns, two
  <2>3. 1 \in 1..1 /\ 1 \in 1..2 /\ 2 \in 1..2 /\ 1 - 1 = 0 /\ 2 - 1 = 1
    OBVIOUS
  <2>4. g = Taking([t |-> Tree, flat |-> <<>>], c)
    BY <1>3, <2>1, <2>3 DEF GatherRounds
  <2>5. h = Taking(Taking([t |-> Tree, flat |-> <<>>], c), ref)
    BY <1>3, <2>2, <2>3 DEF GatherRounds
  <2> HIDE DEF g, h
  <2>6. h = Taking(g, ref)
    BY <2>4, <2>5
  <2> QED BY <1>2, <2>6 DEF Taking
<1>6. Enters(Tree, p, ns) /\ Enters(Tree, p, two)
  <2>1. Enters(Tree, p, ns)
    BY <1>3 DEF Enters
  <2>2. ref \notin Climb(Tree, p)
    <3> HIDE DEF ns, M
    <3> QED BY <1>1, <1>2, <1>3, <1>4, <2>1, BroughtStayBelow
  <2>3. \A i \in DOMAIN two : two[i] = c \/ two[i] = ref
    OBVIOUS
  <2>4. Enters(Tree, p, two)
    <3> HIDE DEF two
    <3> QED BY <2>2, <2>3 DEF Enters, IsInclusiveAncestor
  <2> QED BY <2>1, <2>4
<1>7. <<>> \in Seq(Node) /\ ToSet(<<>>) = {}
  BY DEF ToSet
<1>8. Reference(g.t, p, AnchorBefore(ref)) = ref
  BY DEF Reference, AnchorBefore
<1>9. PICK v, A : LoopStart(Tree, p, ns, AnchorBefore(ref), <<>>, v, A)
  <2> HIDE DEF ns
  <2> QED BY <1>1, <1>3, <1>6, <1>7, LoopStarts
<1> DEFINE w == InsertAll(v, p, g.flat, ref)
<1>10. /\ Fit(v)
       /\ \A n \in Node : v.parent[n] = IF n \in M THEN None ELSE Tree.parent[n]
       /\ \A a, b : <<a, b>> \in Ord(v) <=> <<a, b>> \in Ord(Tree) /\ a \notin M /\ b \notin M
       /\ A \in SUBSET Node /\ p \in A /\ Closed(v, A)
       /\ \A x \in ToSet(g.flat) : v.parent[x] = None /\ x \notin A
       /\ Fit(w) => Fit(u) /\ u.parent = w.parent /\ Ord(u) = Ord(w)
  <2> HIDE DEF ns, M
  <2> QED BY <1>4, <1>7, <1>8, <1>9 DEF LoopStart
<1>11. /\ g.flat \in Seq(Node) /\ ToSet(g.flat) = M
       /\ Gathered(Tree, two, Len(two), h)
  <2> HIDE DEF ns, two, M
  <2>1. Gathered(Tree, ns, Len(ns), g) /\ Gathered(Tree, two, Len(two), h)
    BY <1>1, <1>3, GatherGathers
  <2> QED BY <1>4, <2>1 DEF Gathered
<1>12. \E e : Counted(two, two, e)
  <2>1. \A i, j \in DOMAIN two : two[i] = two[j] => i = j
    BY <1>2
  <2>2. IsInjective(two)
    BY <2>1 DEF IsInjective
  <2> HIDE DEF two
  <2> QED BY <1>3, <2>2, AllCount
<1>13. InsertTree(p, c, ref) = u
  BY DEF InsertTree
<1> HIDE DEF ns, two, M, g, h, u
<1>14. OwnUpto(v, p, g.flat, ref, Len(g.flat), w)
  BY <1>2, <1>10, <1>11, InsertAllOwn
<1> HIDE DEF w
<1>15. DOMAIN g.flat = 1..Len(g.flat)
  BY <1>11
<1>16. First(g.flat, Len(g.flat)) = M
  BY <1>11, <1>15 DEF First, ToSet
<1>17. \A a, b : AheadUpto(g.flat, Len(g.flat), a, b) <=> Ahead(g.flat, a, b)
  BY <1>11, <1>15, <1>16 DEF AheadUpto, Ahead
<1>18. KidsOf(v, p) = K
  BY <1>10, NodeAssumption DEF KidsOf
<1>19. \A a, b : a # b => (Ahead(h.flat, a, b) <=> b = ref \/ (a # ref /\ Ahead(g.flat, a, b)))
         \/ a \notin M \/ b \notin M
  <2>1. <<ref>> \in Seq(Node) /\ IsInjective(<<ref>>) /\ ToSet(<<ref>>) = {ref}
    BY <1>2, OneArgument
  <2>2. h.flat = g.flat \o <<ref>>
    <3>1. ref \in Node /\ g.flat \in Seq(Node)
      BY <1>2, <1>11
    <3> QED BY <1>5, <3>1, AppendIsConcat
  <2>3. \A a, b : ~Precedes(<<ref>>, a, b)
    BY DEF Precedes
  <2>4. ASSUME NEW a \in M, NEW b \in M, a # b
        PROVE  Ahead(h.flat, a, b) <=> b = ref \/ (a # ref /\ Ahead(g.flat, a, b))
    <3>1. Ahead(g.flat \o <<ref>>, a, b) <=>
            \/ b \in ToSet(<<ref>>) /\ a \in ToSet(g.flat) \ ToSet(<<ref>>)
            \/ Precedes(<<ref>>, a, b)
            \/ a \notin ToSet(<<ref>>) /\ b \notin ToSet(<<ref>>) /\ Ahead(g.flat, a, b)
      BY <1>11, <2>1, <2>4, AheadJoined
    <3> QED BY <1>11, <2>1, <2>2, <2>3, <2>4, <3>1
  <2> QED BY <2>4
<1>20. /\ Fit(w)
       /\ \A n \in Node : w.parent[n] = IF n \in M THEN p ELSE v.parent[n]
       /\ \A a, b : <<a, b>> \in Ord(w) <=>
            \/ <<a, b>> \in Ord(v)
            \/ a \in K /\ b \in M
            \/ a \in M /\ b \in M /\ a # b /\ (b = ref \/ (a # ref /\ Ahead(g.flat, a, b)))
  BY <1>14, <1>16, <1>17, <1>18 DEF OwnUpto
<1>21. \A a, b : a = b => ~Ahead(h.flat, a, b)
  <2>1. DOMAIN h.flat \subseteq Nat
    <3>1. h.flat \in Seq(Node)
      BY <1>2, <1>5, <1>11
    <3> QED BY <3>1
  <2> QED BY <2>1 DEF Ahead
<1>22. Moves(Tree, u, p, M, h.flat, None, none)
  <2>1. None \notin K /\ None \notin M
    BY NodeAssumption DEF KidsOf, M
  <2>2. Fit(u) /\ u.parent = w.parent /\ Ord(u) = Ord(w)
    BY <1>10, <1>20
  <2>3. \A n \in Node : u.parent[n] = IF n \in M THEN p
                                      ELSE IF n \in none THEN None ELSE Tree.parent[n]
    BY <1>10, <1>20, <2>2
  <2>4. ASSUME NEW a, NEW b
        PROVE  <<a, b>> \in Ord(u) <=>
                 \/ <<a, b>> \in Ord(Tree) /\ a \notin M \cup none /\ b \notin M \cup none
                 \/ a \in K /\ b \in M
                 \/ a \in M /\ b \in M /\ Ahead(h.flat, a, b)
    BY <1>10, <1>19, <1>20, <1>21, <2>2
  <2> HIDE DEF K
  <2>5. KidsOf(Tree, p) \ (M \cup none) = K
    BY DEF K
  <2> HIDE DEF none
  <2> QED BY <2>1, <2>2, <2>3, <2>4, <2>5 DEF Moves
<1>23. Abstract!Moved(two) = M /\ \A a, b \in M : a # b =>
         (Ahead(h.flat, a, b) <=> Abstract!ArgBefore(two, a, b))
  BY <1>3, <1>4, <1>11, <1>12, ArgsAgree
<1>24. M \in SUBSET Node /\ None \notin M /\ \A n : n \in none \ M <=> n \in {} \ M
  BY NodeAssumption DEF KidsOf, M
<1> HIDE DEF none
<1>25. Same(u, Abstract!Spliced(p, two, None, {}))
  BY <1>22, <1>23, <1>24, SplicedIs
<1> QED
  BY <1>6, <1>13, <1>25 DEF two

\* Of nodes, the created ones that may be inserted.
LEMMA InsertableNodes ==
  ASSUME TreeListsInv, NEW ns \in BoundedSeq(Insertable, MaxArgs)
  PROVE  ns \in Seq(Node) /\ ns \in Seq(created) /\ ToSet(ns) \subseteq Insertable
<1>1. ns \in Seq(Insertable)
  BY BoundedLists
<1>2. Insertable \subseteq created /\ created \subseteq Node
  BY DEF Insertable, TreeListsInv
<1>3. \A i \in DOMAIN ns : ns[i] \in Insertable
  BY <1>1
<1> QED
  BY <1>1, <1>2, <1>3 DEF ToSet

\* In every reachable tree each handler ends where its Splice does.
LEMMA AgreementHolds == TreeListsInv => HandlersAgree
<1> SUFFICES ASSUME TreeListsInv PROVE HandlersAgree
  OBVIOUS
<1>1. created \subseteq Node /\ Insertable \subseteq Node
  BY DEF TreeListsInv, Insertable
<1>2. Tree.parent = parent /\ Tree.children = children
  BY TreeFields
<1>3. ASSUME NEW p \in Container \cap created, NEW c \in Insertable, Entering(p, <<c>>),
             NEW ref \in {None} \cup ToSet(children[p])
      PROVE  Same(InsertTree(p, c, ref),
               Abstract!Spliced(p, <<c>>, IF ref = c THEN Abstract!FirstAfter(c, {}) ELSE ref, {}))
  <2>1. p \in Node /\ c \in Node
    BY <1>1
  <2>2. ToSet(children[p]) = KidsOf(Tree, p)
    BY <1>2, <2>1 DEF TreeListsInv, Ready, Fit, Paired
  <2>3. ~IsInclusiveAncestor(Tree, c, p)
    BY <1>3, <2>1, OneArgument DEF Entering
  <2>4. c \in Fragment => ref \notin KidsOf(Tree, c)
    <3>1. p \in Climb(Tree, p)
      BY <2>1, ClimbCloses DEF TreeListsInv, Ready, Fit, Shaped
    <3> QED BY <2>2, <2>3, <3>1, NodeAssumption DEF KidsOf, IsInclusiveAncestor
  <2> QED BY <2>1, <2>3, <2>4, InsertTreeIs
<1>4. ASSUME NEW h \in created, NEW ns \in BoundedSeq(Insertable, MaxArgs),
             parent[h] # None, Entering(parent[h], ns)
      PROVE  \E o, e : o = Once(ns) /\ Called(h, parent[h], ns, o, e)
  <2>1. parent[h] \in Node
    BY <1>1, <1>2, <1>4 DEF TreeListsInv, Ready, Fit, Shaped
  <2>2. ns \in Seq(Node)
    BY InsertableNodes
  <2>3. Enters(Tree, parent[h], ns)
    BY <1>4 DEF Enters, Entering
  <2>4. PICK e : Counted(ns, Once(ns), e)
    BY <2>2, OnceCounts
  <2> QED BY <1>1, <2>1, <2>2, <2>3, <2>4 DEF Called
<1>5. ASSUME NEW h \in created, NEW ns \in BoundedSeq(Insertable, MaxArgs),
             parent[h] # None, Entering(parent[h], ns)
      PROVE  LET p     == parent[h]
                 out   == ToSet(ns)
                 after == Abstract!FirstAfter(h, out)
             IN  /\ Same(BeforeTree(h, ns), Abstract!Spliced(p, Once(ns), IF h \in out THEN after ELSE h, {}))
                 /\ Same(AfterTree(h, ns), Abstract!Spliced(p, Once(ns), after, {}))
                 /\ Same(ReplaceTree(h, ns), Abstract!Spliced(p, Once(ns), after, {h}))
  <2>1. PICK o, e : o = Once(ns) /\ Called(h, parent[h], ns, o, e)
    BY <1>4, <1>5
  <2> QED BY <2>1, BeforeIs, AfterIs, ReplaceIs
<1> QED
  BY <1>3, <1>5 DEF HandlersAgree

\* For any nodes, any page and any arguments, repeated or on the way or both,
\* every insertion of tree.rs ends where DomTree's one splice puts it.
THEOREM HandlersSplice == Spec => []HandlersAgree
<1>1. TreeListsInv => HandlersAgree
  BY AgreementHolds
<1> QED
  BY <1>1, TreeListsInvariant, PTL
-----------------------------------------------------------------------------
(* The refinement.                                                          *)

\* A tree that is a splice makes the next state one.
LEMMA SpliceSteps ==
  ASSUME NEW u, NEW p, NEW o, NEW ref, NEW out, Same(u, Abstract!Spliced(p, o, ref, out)), Do(u)
  PROVE  Abstract!Splice(p, o, ref, out) /\ UNCHANGED <<hostOf, rootOf>>
<1>1. parent' = u.parent /\ children' = u.children /\ UNCHANGED <<hostOf, rootOf>>
  BY DEF Do
<1>2. ListOrder(children') = Abstract!Spliced(p, o, ref, out).order
  BY <1>1 DEF Same
<1>3. ListOrder(children)' = ListOrder(children')
  BY DEF ListOrder
<1> QED
  BY <1>1, <1>2, <1>3 DEF Same, Abstract!Splice

\* The arguments that count are such a list as DomTree takes.
LEMMA CountedArgs ==
  ASSUME NEW S \in SUBSET Node, NEW ns \in BoundedSeq(S, MaxArgs), NEW o, NEW e, Counted(ns, o, e)
  PROVE  o \in Abstract!ArgLists(S) /\ Abstract!Args(o) = ToSet(ns)
<1>1. PICK m \in 0..MaxArgs : ns \in [1..m -> S]
  BY DEF BoundedSeq, SeqOf
<1>2. ns \in Seq(Node) /\ Len(ns) = m /\ m \in Nat /\ ToSet(ns) \subseteq S /\ MaxArgs \in Nat
  BY <1>1, NodeAssumption DEF ToSet
<1>3. ToSet(o) = ToSet(ns) /\ IsInjective(o) /\ Len(o) <= Len(ns)
  BY <1>2, OnceIs
<1>4. o \in Seq(Node) /\ Len(o) \in Nat /\ DOMAIN o = 1..Len(o) /\ o = [k \in DOMAIN o |-> o[k]]
  BY DEF Counted
<1>5. \A k \in DOMAIN o : o[k] \in S
  BY <1>2, <1>3 DEF ToSet
<1>6. o \in [1..Len(o) -> S] /\ Len(o) \in 0..MaxArgs
  BY <1>1, <1>2, <1>3, <1>4, <1>5
<1>7. \A i, j \in 1..Len(o) : i # j => o[i] # o[j]
  BY <1>3, <1>4 DEF IsInjective
<1>8. o \in Abstract!ArgLists(S)
  BY <1>6, <1>7 DEF Abstract!ArgLists
<1>9. Abstract!Args(o) = ToSet(o)
  BY DEF Abstract!Args, ToSet
<1> QED
  BY <1>3, <1>8, <1>9

\* They may enter where the arguments may.
LEMMA CountedEnter ==
  ASSUME TreeListsInv, NEW p \in Node, NEW ns \in Seq(Node), Enters(Tree, p, ns),
         NEW o, NEW e, Counted(ns, o, e)
  PROVE  Abstract!Entering(p, o)
<1>1. \A k \in DOMAIN o : e[k] \in DOMAIN ns /\ o[k] = ns[e[k]] /\ o[k] \in Node
  BY DEF Counted
<1>2. \A k \in DOMAIN o : ~IsInclusiveAncestor(Tree, o[k], p)
  BY <1>1 DEF Enters
<1> QED
  BY <1>1, <1>2, ClimbIs DEF Abstract!Entering

\* What the call of an action needs to be known by.
LEMMA CallIs ==
  ASSUME TreeListsInv, NEW h \in Node, NEW p \in Node, p = parent[h],
         NEW S \in SUBSET Node, NEW ns \in BoundedSeq(S, MaxArgs), Enters(Tree, p, ns)
  PROVE  \E o \in Abstract!ArgLists(S) :
           /\ Abstract!Args(o) = ToSet(ns) /\ Abstract!Entering(p, o)
           /\ \E e : Called(h, p, ns, o, e)
<1>1. ns \in Seq(Node)
  <2>1. ns \in Seq(S)
    BY BoundedLists
  <2> QED BY <2>1
<1>2. PICK e : Counted(ns, Once(ns), e)
  BY <1>1, OnceCounts
<1>3. Once(ns) \in Abstract!ArgLists(S) /\ Abstract!Args(Once(ns)) = ToSet(ns)
  BY <1>2, CountedArgs
<1>4. Abstract!Entering(p, Once(ns))
  BY <1>1, <1>2, CountedEnter
<1>5. Called(h, p, ns, Once(ns), e)
  BY <1>1, <1>2 DEF Called
<1> QED
  BY <1>3, <1>4, <1>5

\* before, after and replace_with are steps of DomTree.
LEMMA SiblingCallsStep ==
  ASSUME TreeListsInv, NEW h \in created, NEW ns \in ArgLists(Insertable),
         Before(h, ns) \/ After(h, ns) \/ ReplaceWith(h, ns)
  PROVE  Abstract!Next
<1> DEFINE p == parent[h]
<1>1. p # None /\ Entering(p, ns) /\ UNCHANGED created
  BY DEF Before, After, ReplaceWith
<1>2. h \in Node /\ p \in Node /\ Insertable \in SUBSET Node
  BY <1>1, TreeFields DEF TreeListsInv, Insertable
<1>3. Enters(Tree, p, ns)
  BY <1>1 DEF Enters, Entering
<1>4. ns \in BoundedSeq(Insertable, MaxArgs)
  BY DEF ArgLists
<1>5. PICK o \in Abstract!ArgLists(Insertable) :
        /\ Abstract!Args(o) = ToSet(ns) /\ Abstract!Entering(p, o)
        /\ \E e : Called(h, p, ns, o, e)
  <2> HIDE DEF p
  <2>1. p = parent[h]
    BY DEF p
  <2> QED BY <1>2, <1>3, <1>4, <2>1, CallIs
<1>6. PICK e : Called(h, p, ns, o, e)
  BY <1>5
<1> DEFINE after == Abstract!FirstAfter(h, ToSet(ns))
<1>7. ASSUME Before(h, ns) PROVE Abstract!Before(h, o)
  <2> DEFINE ref == IF h \in ToSet(ns) THEN after ELSE h
  <2>1. Do(BeforeTree(h, ns))
    BY <1>7 DEF Before
  <2>2. Same(BeforeTree(h, ns), Abstract!Spliced(p, o, ref, {}))
    BY <1>6, BeforeIs
  <2> HIDE DEF ref
  <2>3. Abstract!Splice(p, o, ref, {}) /\ UNCHANGED <<hostOf, rootOf>>
    BY <2>1, <2>2, SpliceSteps
  <2> QED BY <1>1, <1>5, <2>3 DEF Abstract!Before, ref
<1>8. ASSUME After(h, ns) PROVE Abstract!After(h, o)
  <2>1. Do(AfterTree(h, ns))
    BY <1>8 DEF After
  <2>2. Same(AfterTree(h, ns), Abstract!Spliced(p, o, after, {}))
    BY <1>6, AfterIs
  <2> HIDE DEF after
  <2>3. Abstract!Splice(p, o, after, {}) /\ UNCHANGED <<hostOf, rootOf>>
    BY <2>1, <2>2, SpliceSteps
  <2> QED BY <1>1, <1>5, <2>3 DEF Abstract!After, after
<1>9. ASSUME ReplaceWith(h, ns) PROVE Abstract!ReplaceWith(h, o)
  <2>1. Do(ReplaceTree(h, ns))
    BY <1>9 DEF ReplaceWith
  <2>2. Same(ReplaceTree(h, ns), Abstract!Spliced(p, o, after, {h}))
    BY <1>6, ReplaceIs
  <2> HIDE DEF after
  <2>3. Abstract!Splice(p, o, after, {h}) /\ UNCHANGED <<hostOf, rootOf>>
    BY <2>1, <2>2, SpliceSteps
  <2> QED BY <1>1, <1>5, <2>3 DEF Abstract!ReplaceWith, after
<1>10. Insertable = Abstract!Insertable
  BY DEF Insertable, Abstract!Insertable
<1> QED
  BY <1>5, <1>7, <1>8, <1>9, <1>10 DEF Abstract!Next

\* replace_children is a step of DomTree.
LEMMA ReplaceChildrenSteps ==
  ASSUME TreeListsInv, NEW h \in Container \cap created, NEW ns \in ArgLists(Insertable),
         ReplaceChildren(h, ns)
  PROVE  Abstract!Next
<1> DEFINE u == InsertNodes(Tree, h, ns, AnchorBefore(None), children[h])
<1>1. Entering(h, ns) /\ UNCHANGED created /\ Do(u)
  BY DEF ReplaceChildren
<1>2. h \in Node /\ Insertable \in SUBSET Node /\ ns \in BoundedSeq(Insertable, MaxArgs) /\ Ready(Tree)
  BY DEF TreeListsInv, Insertable, ArgLists
<1>3. ns \in Seq(Node)
  BY <1>2, InsertableNodes
<1>4. Enters(Tree, h, ns)
  BY <1>1 DEF Enters, Entering
<1>5. PICK e : Counted(ns, Once(ns), e)
  BY <1>3, OnceCounts
<1> DEFINE o == Once(ns)
<1>6. o \in Abstract!ArgLists(Insertable) /\ Abstract!Entering(h, o)
  BY <1>2, <1>3, <1>4, <1>5, CountedArgs, CountedEnter
<1>7. children[h] \in Seq(Node) /\ ToSet(children[h]) = KidsOf(Tree, h) /\ KidsOf(Tree, h) = Abstract!Kids(h)
  BY <1>2, TreeFields DEF Ready, Fit, Shaped, Paired, KidsOf, Abstract!Kids
<1>8. None \notin Brought(Tree, ns, Len(ns))
  BY <1>2, <1>3, <1>4, BroughtStayBelow, NodeAssumption
<1>9. Reference(Gather(Tree, ns).t, h, AnchorBefore(None)) = None
  BY DEF Reference, AnchorBefore
<1>10. Same(u, Abstract!Spliced(h, o, None, Abstract!Kids(h)))
  BY <1>2, <1>3, <1>4, <1>5, <1>7, <1>8, <1>9, InsertNodesIs
<1> HIDE DEF u, o
<1>11. Abstract!Splice(h, o, None, Abstract!Kids(h)) /\ UNCHANGED <<hostOf, rootOf>>
  BY <1>1, <1>10, SpliceSteps
<1>12. Abstract!ReplaceChildren(h, o)
  BY <1>1, <1>6, <1>11 DEF Abstract!ReplaceChildren
<1>13. Insertable = Abstract!Insertable /\ Container = Abstract!Container
  BY DEF Insertable, Abstract!Insertable, Container, Abstract!Container
<1> QED
  BY <1>6, <1>12, <1>13 DEF Abstract!Next

\* append_child and insert_before are steps of DomTree.
LEMMA OneNodeSteps ==
  ASSUME TreeListsInv, NEW p \in Container \cap created, NEW c \in Insertable
  PROVE  /\ AppendChild(p, c) => Abstract!Next
         /\ \A r \in created \cup {None} :
              InsertBefore(p, c, r) /\ (c \in Fragment => r \notin KidsOf(Tree, c)) => Abstract!Next
<1>1. p \in Node /\ c \in Node /\ None \notin KidsOf(Tree, c) /\ c # None
  BY NodeAssumption DEF TreeListsInv, Insertable, KidsOf
<1>2. ASSUME ~IsInclusiveAncestor(Tree, c, p) PROVE Abstract!Entering(p, <<c>>)
  <2>1. ~Abstract!IsInclusiveAncestor(c, p)
    BY <1>1, <1>2, ClimbIs
  <2> QED BY <1>1, <2>1, OneArgument DEF Abstract!Entering
<1>3. Insertable = Abstract!Insertable /\ Container = Abstract!Container
  BY DEF Insertable, Abstract!Insertable, Container, Abstract!Container
<1>4. ASSUME AppendChild(p, c) PROVE Abstract!Next
  <2>1. ~IsInclusiveAncestor(Tree, c, p) /\ Do(InsertTree(p, c, None)) /\ UNCHANGED created
    BY <1>4 DEF AppendChild
  <2>2. Same(InsertTree(p, c, None), Abstract!Spliced(p, <<c>>, None, {}))
    BY <1>1, <2>1, InsertTreeIs
  <2>3. Abstract!Splice(p, <<c>>, None, {}) /\ UNCHANGED <<hostOf, rootOf>>
    BY <2>1, <2>2, SpliceSteps
  <2>4. Abstract!AppendChild(p, c)
    BY <1>2, <2>1, <2>3 DEF Abstract!AppendChild
  <2> QED BY <1>3, <2>4 DEF Abstract!Next
<1>5. ASSUME NEW r \in created \cup {None}, InsertBefore(p, c, r),
             c \in Fragment => r \notin KidsOf(Tree, c)
      PROVE  Abstract!Next
  <2> DEFINE ref == IF r = c THEN Abstract!FirstAfter(c, {}) ELSE r
  <2>1. ~IsInclusiveAncestor(Tree, c, p) /\ Do(InsertTree(p, c, r)) /\ UNCHANGED created
    BY <1>5 DEF InsertBefore
  <2>2. Same(InsertTree(p, c, r), Abstract!Spliced(p, <<c>>, ref, {}))
    BY <1>1, <1>5, <2>1, InsertTreeIs
  <2> HIDE DEF ref
  <2>3. Abstract!Splice(p, <<c>>, ref, {}) /\ UNCHANGED <<hostOf, rootOf>>
    BY <2>1, <2>2, SpliceSteps
  <2>4. Abstract!InsertBefore(p, c, r)
    BY <1>2, <2>1, <2>3 DEF Abstract!InsertBefore, ref
  <2> QED BY <1>3, <2>4 DEF Abstract!Next
<1> QED
  BY <1>4, <1>5

\* remove_child is a step of DomTree.
LEMMA RemoveChildSteps ==
  ASSUME TreeListsInv, NEW p \in Container \cap created, NEW c \in created, RemoveChild(p, c)
  PROVE  Abstract!Next
<1> DEFINE u == Unlink(Tree, p, c, TRUE)
           none == {}
           list == <<>>
           gone == {c}
<1>1. p \in Node /\ c \in Node /\ Fit(Tree)
  BY DEF TreeListsInv, Ready
<1>2. parent[c] = p /\ Do(u) /\ UNCHANGED created
  BY DEF RemoveChild
<1>3. Moves(Tree, u, p, none, list, None, gone)
  BY <1>1, <1>2, UnlinkMoves, TreeFields
<1>4. Abstract!Moved(list) = none
  BY DEF Abstract!Moved
<1>5. none \in SUBSET Node /\ None \notin none /\ \A n : n \notin none
  OBVIOUS
<1> HIDE DEF u, none, list, gone
<1>6. Same(u, Abstract!Spliced(p, list, None, gone))
  BY <1>1, <1>3, <1>4, <1>5, SplicedIs
<1>7. Abstract!Splice(p, list, None, gone) /\ UNCHANGED <<hostOf, rootOf>>
  BY <1>2, <1>6, SpliceSteps
<1>8. Abstract!RemoveChild(p, c)
  BY <1>2, <1>7 DEF Abstract!RemoveChild, list, gone
<1>9. Container = Abstract!Container
  BY DEF Container, Abstract!Container
<1> QED
  BY <1>8, <1>9 DEF Abstract!Next

\* What a parser made.
LEMMA FreshCounts ==
  ASSUME TreeListsInv, NEW new \in FreshLists
  PROVE  /\ new \in Seq(Node) /\ IsInjective(new) /\ ToSet(new) \cap created = {}
         /\ \A n \in ToSet(new) : n \in Node /\ n \notin Fragment /\ Tree.parent[n] = None
         /\ new \in Abstract!ArgLists(Abstract!Fresh) /\ Abstract!Args(new) = ToSet(new)
         /\ \E e : Counted(new, new, e)
<1>1. new \in BoundedSeq(Fresh, MaxArgs) /\ IsInjective(new)
  BY DEF FreshLists
<1>2. new \in Seq(Fresh)
  BY <1>1, BoundedLists
<1>3. Fresh \subseteq Node /\ Fresh \cap created = {} /\ Fresh \cap Fragment = {} /\ Fresh = Abstract!Fresh
  BY NodeAssumption DEF Fresh, Abstract!Fresh
<1>4. new \in Seq(Node) /\ ToSet(new) \subseteq Fresh
  BY <1>2, <1>3 DEF ToSet
<1>5. PICK e : Counted(new, new, e)
  BY <1>1, <1>4, AllCount
<1>6. new \in Abstract!ArgLists(Fresh) /\ Abstract!Args(new) = ToSet(new)
  BY <1>1, <1>3, <1>5, CountedArgs
<1>7. \A n \in Fresh : Tree.parent[n] = None
  BY <1>3, TreeFields DEF TreeListsInv
<1> QED
  BY <1>1, <1>3, <1>4, <1>5, <1>6, <1>7

\* The text and markup setters are steps of DomTree.
LEMMA RewriteSteps ==
  ASSUME TreeListsInv, NEW h \in (Element \cup Fragment) \cap created, NEW new \in FreshLists,
         Do(Rewrite(Tree, h, new)), created' = created \cup ToSet(new)
  PROVE  Abstract!Next
<1> DEFINE u == Rewrite(Tree, h, new)
           M == ToSet(new)
           gone == ToSet(Tree.children[h])
<1>1. h \in Node /\ Fit(Tree)
  BY DEF TreeListsInv, Ready
<1>2. /\ new \in Seq(Node) /\ IsInjective(new)
      /\ \A n \in M : n \in Node /\ n \notin Fragment /\ Tree.parent[n] = None
      /\ new \in Abstract!ArgLists(Abstract!Fresh) /\ Abstract!Args(new) = M
  BY FreshCounts
<1>3. Moves(Tree, u, h, M, new, None, gone)
  BY <1>1, <1>2, RewriteMoves
<1>4. Abstract!Moved(new) = M
  <2>1. \A i \in DOMAIN new : new[i] \in M /\ Abstract!Items(new[i]) = {new[i]}
    BY <1>2 DEF ToSet, Abstract!Items
  <2>2. Abstract!Moved(new) = UNION {{new[i]} : i \in DOMAIN new}
    BY <2>1 DEF Abstract!Moved
  <2> QED BY <2>2 DEF ToSet
<1>5. gone = Abstract!Kids(h)
  BY <1>1, TreeFields DEF Fit, Paired, KidsOf, Abstract!Kids
<1>6. \A a, b \in M : a # b => (Ahead(new, a, b) <=> Abstract!ArgBefore(new, a, b))
  BY <1>2, OwnOrder
<1>7. M \in SUBSET Node /\ None \notin M
  BY <1>2, NodeAssumption
<1>8. Do(u)
  OBVIOUS
<1> HIDE DEF u, M, gone
<1>9. Same(u, Abstract!Spliced(h, new, None, gone))
  BY <1>1, <1>3, <1>4, <1>6, <1>7, SplicedIs
<1>10. Abstract!Splice(h, new, None, gone) /\ UNCHANGED <<hostOf, rootOf>>
  BY <1>8, <1>9, SpliceSteps
<1>11. Abstract!ReplaceAll(h, new)
  BY <1>2, <1>5, <1>10 DEF Abstract!ReplaceAll, M
<1> QED
  BY <1>2, <1>11 DEF Abstract!Next

\* Parsed nodes at one of the four places of insertAdjacentHTML.
LEMMA ParsedSteps ==
  ASSUME TreeListsInv, NEW h \in Element \cap created, NEW new \in FreshLists,
         InsertAdjacentHTML(h, new)
  PROVE  Abstract!Next
<1>1. /\ h \in Node /\ Ready(Tree) /\ Fit(Tree) /\ Tree.parent = parent /\ Tree.children = children
      /\ \A n \in Node : parent[n] # None => n \in created /\ parent[n] \in created
      /\ created \subseteq Node
  BY TreeFields DEF TreeListsInv, Ready
<1>2. /\ new \in Seq(Node) /\ ToSet(new) \cap created = {}
      /\ new \in Abstract!ArgLists(Abstract!Fresh) /\ Abstract!Args(new) = ToSet(new)
      /\ \E e : Counted(new, new, e)
  BY FreshCounts
<1>3. PICK e : Counted(new, new, e)
  BY <1>2
<1>4. created' = created \cup ToSet(new)
  BY DEF InsertAdjacentHTML
<1>5. ASSUME NEW p \in Container \cap created, NEW r \in created \cup {None},
             NEW u, Do(u), Same(u, Abstract!Spliced(p, new, r, {}))
      PROVE  Abstract!Next
  <2>1. Abstract!Splice(p, new, r, {}) /\ UNCHANGED <<hostOf, rootOf>>
    BY <1>5, SpliceSteps
  <2>2. Abstract!InsertParsed(p, new, r)
    BY <1>2, <1>4, <2>1 DEF Abstract!InsertParsed
  <2> QED BY <1>2, <1>5, <2>2 DEF Abstract!Next, Container, Abstract!Container
<1>6. ASSUME NEW p \in created PROVE Enters(Tree, p, new)
  BY <1>2, FreshEnters
<1>7. \A p \in Node : \A c \in KidsOf(Tree, p) : p # None => c \in created
  BY <1>1 DEF KidsOf
<1>8. CASE parent[h] \in Container /\ (Do(BeforeTree(h, new)) \/ Do(AfterTree(h, new)))
  <2> DEFINE p == parent[h]
             after == Abstract!FirstAfter(h, ToSet(new))
  <2>1. p \in Container \cap created /\ p \in Node /\ p # None
    BY <1>1, <1>8, NodeAssumption DEF Container
  <2>2. Called(h, p, new, new, e)
    BY <1>1, <1>2, <1>3, <1>6, <2>1 DEF Called
  <2>3. h \notin ToSet(new)
    BY <1>2
  <2>4. Same(BeforeTree(h, new), Abstract!Spliced(p, new, h, {}))
    BY <2>2, <2>3, BeforeIs
  <2>5. Same(AfterTree(h, new), Abstract!Spliced(p, new, after, {}))
    BY <2>2, AfterIs
  <2>6. after \in created \cup {None}
    <3>1. after = None \/ after \in KidsOf(Tree, p)
      BY <2>2, NextReference
    <3> QED BY <1>7, <2>1, <3>1
  <2> HIDE DEF p, after
  <2>7. CASE Do(BeforeTree(h, new))
    BY <1>5, <2>1, <2>4, <2>7
  <2>8. CASE Do(AfterTree(h, new))
    BY <1>5, <2>1, <2>5, <2>6, <2>8
  <2> QED BY <1>8, <2>7, <2>8
<1>9. ASSUME NEW x, x = None \/ x \in KidsOf(Tree, h), Do(InsertNodes(Tree, h, new, AnchorBefore(x), <<>>))
      PROVE  Abstract!Next
  <2> DEFINE u == InsertNodes(Tree, h, new, AnchorBefore(x), <<>>)
  <2>1. Enters(Tree, h, new)
    BY <1>6
  <2>2. x \in created \cup {None}
    BY <1>1, <1>7, <1>9, NodeAssumption
  <2>3. x \notin Brought(Tree, new, Len(new))
    <3>1. Brought(Tree, new, Len(new)) \subseteq Node
      BY <1>1, <1>2, <2>1, BroughtStayBelow
    <3>2. \A c \in KidsOf(Tree, h) : c \in Brought(Tree, new, Len(new)) <=> c \in ToSet(new)
      BY <1>1, <1>2, <2>1, MovedKids
    <3> QED BY <1>2, <1>9, <2>2, <3>1, <3>2, NodeAssumption
  <2>4. <<>> \in Seq(Node) /\ ToSet(<<>>) = {}
    BY DEF ToSet
  <2>5. Reference(Gather(Tree, new).t, h, AnchorBefore(x)) = x
    BY DEF Reference, AnchorBefore
  <2>6. Same(u, Abstract!Spliced(h, new, x, {}))
    BY <1>1, <1>2, <1>3, <2>1, <2>3, <2>4, <2>5, InsertNodesIs
  <2>7. Do(u)
    BY <1>9
  <2> HIDE DEF u
  <2> QED BY <1>5, <2>2, <2>6, <2>7 DEF Container
<1>10. FirstOf(children[h]) = None \/ FirstOf(children[h]) \in KidsOf(Tree, h)
  <2>1. IsFirst(Tree, KidsOf(Tree, h), FirstOf(Tree.children[h]))
    BY <1>1, FirstKid
  <2> QED BY <1>1, <2>1 DEF IsFirst
<1> QED
  BY <1>8, <1>9, <1>10 DEF InsertAdjacentHTML

\* Creating a node or a shadow root is a step of DomTree.
LEMMA CreationSteps ==
  /\ \A n \in Element \cup Text \cup Fragment : CreateNode(n) => Abstract!Next
  /\ \A host \in Element \cap created, root \in Fragment : AttachShadow(host, root) => Abstract!Next
<1>1. ASSUME children' = children PROVE ListOrder(children)' = ListOrder(children)
  BY <1>1 DEF ListOrder
<1>2. ASSUME NEW n \in Element \cup Text \cup Fragment, CreateNode(n) PROVE Abstract!Next
  <2>1. n \in Node /\ n # Document
    BY NodeAssumption
  <2>2. Abstract!CreateNode(n)
    BY <1>1, <1>2, <2>1 DEF CreateNode, Abstract!CreateNode
  <2> QED BY <2>1, <2>2 DEF Abstract!Next
<1>3. ASSUME NEW host \in Element \cap created, NEW root \in Fragment, AttachShadow(host, root)
      PROVE  Abstract!Next
  <2>1. Abstract!AttachShadow(host, root)
    BY <1>1, <1>3 DEF AttachShadow, Abstract!AttachShadow
  <2> QED BY <2>1 DEF Abstract!Next
<1> QED
  BY <1>2, <1>3

\* No node follows the last child.
LEMMA LastKid ==
  ASSUME TreeListsInv, NEW p \in Node, KidsOf(Tree, p) # {}
  PROVE  \E h \in KidsOf(Tree, p) : \A out : Abstract!FirstAfter(h, out) = None
<1> DEFINE s == Tree.children[p]
           h == s[Len(s)]
<1>1. Fit(Tree)
  BY DEF TreeListsInv, Ready
<1>2. s \in Seq(Node) /\ ToSet(s) = KidsOf(Tree, p) /\ IsInjective(s)
  BY <1>1 DEF Fit, Shaped, Paired
<1> HIDE DEF s
<1>3. DOMAIN s = 1..Len(s) /\ Len(s) \in Nat /\ Len(s) # 0
  BY <1>2 DEF ToSet
<1>4. Len(s) \in DOMAIN s /\ h \in KidsOf(Tree, p)
  BY <1>2, <1>3 DEF ToSet
<1>5. ASSUME NEW x, <<h, x>> \in Ord(Tree) PROVE FALSE
  <2>1. Tree.parent[h] = p
    BY <1>4 DEF KidsOf
  <2>2. Precedes(Tree.children[Tree.parent[h]], h, x)
    BY <1>1, <1>5, TreeOrder
  <2>3. Precedes(s, h, x)
    BY <2>1, <2>2 DEF s
  <2>4. PICK i, j \in DOMAIN s : i < j /\ s[i] = h
    BY <2>3 DEF Precedes
  <2>5. i = Len(s)
    BY <1>2, <1>4, <2>4 DEF IsInjective
  <2> QED BY <1>3, <2>4, <2>5
<1>6. ASSUME NEW out PROVE Abstract!FirstAfter(h, out) = None
  <2>1. Follow(Tree, h) \ out = {}
    BY <1>5 DEF Follow
  <2> HIDE DEF h
  <2>2. IsFirst(Tree, Follow(Tree, h) \ out, None)
    BY <2>1 DEF IsFirst
  <2> QED BY <2>2, FirstAfterIs
<1> QED
  BY <1>4, <1>6

\* A fragment that goes before its own child: what happens is `after` of the
\* last child of p with two arguments, the fragment and the child, and
\* `replaceChildren` when p is empty.
LEMMA OwnReferenceSteps ==
  ASSUME TreeListsInv, MaxArgs >= 2, NEW p \in Container \cap created, NEW c \in Insertable,
         c \in Fragment, NEW r \in KidsOf(Tree, c), InsertBefore(p, c, r)
  PROVE  Abstract!Next
<1> DEFINE two == <<c, r>>
           none == {}
<1>1. p \in Node /\ c \in Node /\ c \in created /\ Fit(Tree) /\ Topped(Tree)
  BY DEF TreeListsInv, Ready, Insertable
<1>2. ~IsInclusiveAncestor(Tree, c, p) /\ Do(InsertTree(p, c, r)) /\ UNCHANGED created
  BY DEF InsertBefore
<1>3. Same(InsertTree(p, c, r), Abstract!Spliced(p, two, None, none)) /\ Enters(Tree, p, two)
  BY <1>1, <1>2, OwnReference
<1>4. r \in Node /\ parent[r] = c /\ c # None
  BY <1>1, TreeFields, NodeAssumption DEF KidsOf
<1>5. r # c /\ r \notin Tops
  BY <1>1, <1>4, TreeFields, NodeAssumption DEF Topped, Tops
<1>6. r \in Insertable
  BY <1>4, <1>5 DEF TreeListsInv, Ready, Insertable, Tops
<1>7. two \in [1..2 -> Insertable] /\ DOMAIN two = 1..2 /\ \A i \in 1..2 : two[i] = c \/ two[i] = r
  BY <1>6
<1>8. two \in Abstract!ArgLists(Insertable)
  <2>1. 2 \in 0..MaxArgs
    BY NodeAssumption
  <2>2. \A i, j \in 1..2 : i # j => two[i] # two[j]
    BY <1>5
  <2> HIDE DEF two
  <2> QED BY <1>7, <2>1, <2>2 DEF Abstract!ArgLists
<1>9. Abstract!Entering(p, two)
  <2> HIDE DEF two
  <2> QED BY <1>1, <1>3, <1>4, <1>7, ClimbIs DEF Enters, Abstract!Entering
<1> HIDE DEF two, none
<1>10. Abstract!Splice(p, two, None, none) /\ UNCHANGED <<hostOf, rootOf>>
  BY <1>2, <1>3, SpliceSteps
<1>11. Insertable = Abstract!Insertable /\ Container = Abstract!Container
  BY DEF Insertable, Abstract!Insertable, Container, Abstract!Container
<1>12. Abstract!Kids(p) = KidsOf(Tree, p)
  BY TreeFields DEF Abstract!Kids, KidsOf
<1>13. CASE KidsOf(Tree, p) = {}
  <2>1. Abstract!Kids(p) = none
    BY <1>12, <1>13 DEF none
  <2>2. Abstract!ReplaceChildren(p, two)
    BY <1>2, <1>9, <1>10, <2>1 DEF Abstract!ReplaceChildren
  <2> QED BY <1>8, <1>11, <2>2 DEF Abstract!Next
<1>14. CASE KidsOf(Tree, p) # {}
  <2>1. PICK h \in KidsOf(Tree, p) : \A out : Abstract!FirstAfter(h, out) = None
    BY <1>1, <1>14, LastKid
  <2>2. parent[h] = p /\ p # None /\ h \in created
    BY <1>1, <2>1, TreeFields, NodeAssumption DEF KidsOf, TreeListsInv
  <2>3. Abstract!After(h, two)
    BY <1>2, <1>9, <1>10, <2>1, <2>2 DEF Abstract!After, none
  <2> QED BY <1>8, <1>11, <2>2, <2>3 DEF Abstract!Next
<1> QED
  BY <1>13, <1>14

\* What reaches insertBefore.
LEMMA ReferenceSteps ==
  ASSUME TreeListsInv, Checked \/ MaxArgs >= 2, NEW p \in Container \cap created,
         NEW c \in Insertable, NEW r \in References(p), InsertBefore(p, c, r)
  PROVE  Abstract!Next
<1>1. p \in Node /\ c \in Node /\ Fit(Tree) /\ hostOf \in [Node -> Node \cup {None}]
  BY DEF TreeListsInv, Ready, Insertable
<1>2. ToSet(children[p]) = KidsOf(Tree, p)
  BY <1>1, TreeFields DEF Fit, Paired
<1>3. KidsOf(Tree, p) \subseteq created
  BY <1>1, TreeFields, NodeAssumption DEF TreeListsInv, KidsOf
<1>4. r \in created \cup {None}
  BY <1>2, <1>3 DEF References
<1>5. CASE c \in Fragment => r \notin KidsOf(Tree, c)
  BY <1>4, <1>5, OneNodeSteps
<1>6. CASE c \in Fragment /\ r \in KidsOf(Tree, c)
  <2>1. Tree.parent[r] = c /\ r # None /\ c # None
    BY <1>1, <1>6, NodeAssumption DEF KidsOf
  <2>2. p # c
    <3>1. p \in Climb(Tree, p)
      <4>1. Tree.parent \in [Node -> Node \cup {None}]
        BY <1>1 DEF Fit, Shaped
      <4> QED BY <1>1, <4>1, ClimbCloses
    <3>2. ~IsInclusiveAncestor(Tree, c, p)
      BY DEF InsertBefore
    <3> QED BY <3>1, <3>2 DEF IsInclusiveAncestor
  <2>3. r \notin KidsOf(Tree, p)
    BY <2>1, <2>2 DEF KidsOf
  <2>4. ~Checked
    BY <1>2, <2>1, <2>3 DEF References
  <2> QED BY <1>6, <2>4, OwnReferenceSteps
<1> QED
  BY <1>5, <1>6

\* The parsed page is an initial state of DomTree.
LEMMA InitIsAbstract == Init => Abstract!Init
BY DEF Init, Abstract!Init

\* Every call is a step of DomTree, or changes nothing there.
LEMMA NextIsAbstract ==
  ASSUME Checked \/ MaxArgs >= 2
  PROVE  TreeListsInv /\ [Next]_vars => [Abstract!Next]_(Abstract!vars)
<1> SUFFICES ASSUME TreeListsInv, [Next]_vars PROVE [Abstract!Next]_(Abstract!vars)
  OBVIOUS
<1>1. ASSUME NEW n \in Element \cup Text \cup Fragment, CreateNode(n)
      PROVE  Abstract!Next
  BY <1>1, CreationSteps
<1>2. ASSUME NEW p \in Container \cap created, NEW c \in Insertable, AppendChild(p, c)
      PROVE  Abstract!Next
  BY <1>2, OneNodeSteps
<1>3. ASSUME NEW p \in Container \cap created, NEW c \in Insertable, NEW r \in References(p),
             InsertBefore(p, c, r)
      PROVE  Abstract!Next
  BY <1>3, ReferenceSteps
<1>4. ASSUME NEW p \in Container \cap created, NEW c \in created, RemoveChild(p, c)
      PROVE  Abstract!Next
  BY <1>4, RemoveChildSteps
<1>5. ASSUME NEW h \in created, NEW ns \in ArgLists(Insertable),
             Before(h, ns) \/ After(h, ns) \/ ReplaceWith(h, ns)
      PROVE  Abstract!Next
  BY <1>5, SiblingCallsStep
<1>6. ASSUME NEW h \in Container \cap created, NEW ns \in ArgLists(Insertable),
             ReplaceChildren(h, ns)
      PROVE  Abstract!Next
  BY <1>6, ReplaceChildrenSteps
<1>7. ASSUME NEW h \in (Element \cup Fragment) \cap created, NEW new \in FreshLists,
             SetTextContent(h, new) \/ SetInnerHTML(h, new)
      PROVE  Abstract!Next
  <2>1. Do(Rewrite(Tree, h, new)) /\ created' = created \cup ToSet(new)
    BY <1>7 DEF SetTextContent, SetInnerHTML
  <2> QED BY <2>1, RewriteSteps
<1>8. ASSUME NEW h \in Element \cap created, NEW new \in FreshLists, InsertAdjacentHTML(h, new)
      PROVE  Abstract!Next
  BY <1>8, ParsedSteps
<1>9. ASSUME NEW host \in Element \cap created, NEW root \in Fragment, AttachShadow(host, root)
      PROVE  Abstract!Next
  BY <1>9, CreationSteps
<1>10. CASE Next
  BY <1>1, <1>2, <1>3, <1>4, <1>5, <1>6, <1>7, <1>8, <1>9, <1>10 DEF Next
<1>11. CASE UNCHANGED vars
  <2>1. UNCHANGED <<created, parent, children, hostOf, rootOf>>
    BY <1>11 DEF vars
  <2>2. ListOrder(children)' = ListOrder(children)
    BY <2>1 DEF ListOrder
  <2> QED BY <2>1, <2>2 DEF Abstract!vars
<1> QED
  BY <1>10, <1>11

\* The loops over the lists do what DomTree says in one step, whatever their
\* arguments: a call that repeats a node, lists an ancestor's child or names a
\* moved sibling never stops half-way.  Without checked references a fragment
\* may be told to go before its own child; that is a call with two arguments,
\* so DomTree has to admit two.
THEOREM ListsImplementTree ==
  ASSUME Checked \/ MaxArgs >= 2
  PROVE  Spec => Implements
<1>1. Init => Abstract!Init
  BY InitIsAbstract
<1>2. TreeListsInv /\ [Next]_vars => [Abstract!Next]_(Abstract!vars)
  BY NextIsAbstract
<1> QED
  BY <1>1, <1>2, TreeListsInvariant, PTL DEF Spec, Implements, Abstract!Spec

-----------------------------------------------------------------------------
(* Mutation records: what following them does.                              *)

\* f are the child lists after each of the first n records.
ReplayRounds(L, recs, n, f) ==
  f[0] = L /\ \A k \in 1..n : f[k] = Replayed(f[k - 1], recs[k])

\* Replay has a run: the lists after each record.
LEMMA ReplayRuns ==
  ASSUME NEW L, NEW recs, Len(recs) \in Nat
  PROVE  \E f : ReplayRounds(L, recs, Len(recs), f) /\ Replay(L, recs) = f[Len(recs)]
<1> DEFINE Runs(n, f) == /\ f = [k \in 0..n |-> f[k]] /\ f[0] = L
                         /\ \A k \in 1..n : f[k] = Replayed(f[k - 1], recs[k])
           T == {n \in Nat : \E f : Runs(n, f)}
<1>1. 0 \in T
  <2>1. Runs(0, [k \in 0..0 |-> L])
    OBVIOUS
  <2> QED BY <2>1
<1>2. ASSUME NEW n \in Nat, n \in T PROVE n + 1 \in T
  <2>1. PICK f : Runs(n, f)
    BY <1>2
  <2> DEFINE next == Replayed(f[n], recs[n + 1])
             g == [k \in 0..(n + 1) |-> IF k = n + 1 THEN next ELSE f[k]]
  <2> HIDE DEF next
  <2>2. g = [k \in 0..(n + 1) |-> g[k]] /\ g[0] = f[0] /\ g[n + 1] = next /\ g[n] = f[n]
    <3>1. /\ 0 \in 0..(n + 1) /\ n \in 0..(n + 1) /\ n + 1 \in 0..(n + 1)
          /\ 0 # n + 1 /\ n # n + 1
      OBVIOUS
    <3> QED BY <3>1
  <2>3. \A k \in 1..n : g[k] = f[k] /\ g[k - 1] = f[k - 1]
    OBVIOUS
  <2> HIDE DEF g
  <2>4. ASSUME NEW k \in 1..(n + 1) PROVE g[k] = Replayed(g[k - 1], recs[k])
    <3>1. CASE k = n + 1
      <4>1. k - 1 = n
        BY <3>1
      <4> QED BY <2>2, <3>1, <4>1 DEF next
    <3>2. CASE k \in 1..n
      BY <2>1, <2>3, <3>2
    <3>3. k = n + 1 \/ k \in 1..n
      OBVIOUS
    <3> QED BY <3>1, <3>2, <3>3
  <2>5. Runs(n + 1, g)
    BY <2>1, <2>2, <2>4
  <2> HIDE DEF Runs
  <2> QED BY <2>5
<1>3. PICK f : Runs(Len(recs), f)
  BY <1>1, <1>2, Counting
<1> DEFINE Def(h) == h = [k \in 0..Len(recs) |-> IF k = 0 THEN L ELSE Replayed(h[k - 1], recs[k])]
<1>4. ASSUME NEW k \in 0..Len(recs) PROVE f[k] = IF k = 0 THEN L ELSE Replayed(f[k - 1], recs[k])
  <2>1. k = 0 \/ k \in 1..Len(recs)
    OBVIOUS
  <2>2. k \in 1..Len(recs) => k # 0
    OBVIOUS
  <2> QED BY <1>3, <2>1, <2>2
<1>5. Def(f)
  BY <1>3, <1>4
<1> DEFINE c == CHOOSE h : Def(h)
<1>6. Def(c)
  BY <1>5
<1>7. Replay(L, recs) = c[Len(recs)]
  BY DEF Replay
<1>8. c[0] = L /\ \A k \in 1..Len(recs) : c[k] = Replayed(c[k - 1], recs[k])
  <2> HIDE DEF c
  <2>1. \A k \in 0..Len(recs) : c[k] = IF k = 0 THEN L ELSE Replayed(c[k - 1], recs[k])
    BY <1>6
  <2>2. 0 \in 0..Len(recs) /\ \A k \in 1..Len(recs) : k \in 0..Len(recs) /\ k # 0
    OBVIOUS
  <2> QED BY <2>1, <2>2
<1> QED
  BY <1>7, <1>8 DEF ReplayRounds

\* The lists after each record are determined.
LEMMA OneReplay ==
  ASSUME NEW L, NEW r, NEW s, NEW n \in Nat, \A k \in 1..n : r[k] = s[k],
         NEW f, NEW g, ReplayRounds(L, r, n, f), ReplayRounds(L, s, n, g)
  PROVE  f[n] = g[n]
<1> DEFINE T == {k \in Nat : k <= n => f[k] = g[k]}
<1>1. 0 \in T
  BY DEF ReplayRounds
<1>2. ASSUME NEW k \in Nat, k \in T PROVE k + 1 \in T
  <2>1. SUFFICES ASSUME k + 1 <= n PROVE f[k + 1] = g[k + 1]
    OBVIOUS
  <2>2. k + 1 \in 1..n /\ (k + 1) - 1 = k /\ f[k] = g[k]
    BY <1>2, <2>1
  <2> QED BY <2>2 DEF ReplayRounds
<1>3. Nat \subseteq T
  <2> HIDE DEF T
  <2> QED BY <1>1, <1>2, Counting
<1> QED
  BY <1>3

\* The records are right one after another from L on, and lead to M.
Tells(L, recs, M) ==
  /\ \E R : recs \in Seq(R)
  /\ \E f : /\ ReplayRounds(L, recs, Len(recs), f) /\ f[Len(recs)] = M
            /\ \A k \in 1..Len(recs) : Stands(f[k - 1], recs[k])

\* No records tell that nothing changed.
LEMMA TellsNothing ==
  ASSUME NEW L
  PROVE  Tells(L, <<>>, L)
<1> DEFINE f == [k \in {0} |-> L]
<1>1. Len(<<>>) = 0 /\ 1..0 = {} /\ <<>> \in Seq({}) /\ f[0] = L
  OBVIOUS
<1> HIDE DEF f
<1>2. ReplayRounds(L, <<>>, 0, f)
  BY <1>1 DEF ReplayRounds
<1> QED
  BY <1>1, <1>2 DEF Tells

\* Records that tell the way to M, then those from M on, tell the whole way.
LEMMA TellsOn ==
  ASSUME NEW L, NEW r, NEW M, NEW s, NEW N, Tells(L, r, M), Tells(M, s, N)
  PROVE  Tells(L, r \o s, N)
<1>1. PICK R : r \in Seq(R)
  BY DEF Tells
<1>2. PICK S : s \in Seq(S)
  BY DEF Tells
<1>3. PICK f : /\ ReplayRounds(L, r, Len(r), f) /\ f[Len(r)] = M
               /\ \A k \in 1..Len(r) : Stands(f[k - 1], r[k])
  BY DEF Tells
<1>4. PICK g : /\ ReplayRounds(M, s, Len(s), g) /\ g[Len(s)] = N
               /\ \A k \in 1..Len(s) : Stands(g[k - 1], s[k])
  BY DEF Tells
<1> DEFINE m == Len(r)
           n == Len(s)
           q == r \o s
           h == [k \in 0..(m + n) |-> IF k <= m THEN f[k] ELSE g[k - m]]
<1>5. m \in Nat /\ n \in Nat
  BY <1>1, <1>2
<1>6. /\ q \in Seq(R \cup S) /\ Len(q) = m + n
      /\ \A k \in 1..m : q[k] = r[k]
      /\ \A k \in 1..n : q[k + m] = s[k]
  <2>1. r \in Seq(R \cup S) /\ s \in Seq(R \cup S)
    BY <1>1, <1>2
  <2> QED BY <2>1
<1> HIDE DEF m, n, q
<1>7. /\ \A k \in 0..m : h[k] = f[k]
      /\ \A k \in 0..n : h[k + m] = g[k]
  <2>1. \A k \in 0..m : k \in 0..(m + n) /\ k <= m
    BY <1>5
  <2>2. \A k \in 0..n : /\ k + m \in 0..(m + n) /\ (k + m) - m = k
                        /\ k + m <= m => k = 0 /\ k + m = m
    BY <1>5
  <2>3. f[m] = g[0]
    BY <1>3, <1>4 DEF m, ReplayRounds
  <2> QED BY <2>1, <2>2, <2>3
<1> HIDE DEF h
<1>8. ASSUME NEW k \in 1..(m + n)
      PROVE  h[k] = Replayed(h[k - 1], q[k]) /\ Stands(h[k - 1], q[k])
  <2>1. CASE k \in 1..m
    <3>1. k \in 0..m /\ k - 1 \in 0..m
      BY <1>5, <2>1
    <3> QED BY <1>3, <1>6, <1>7, <2>1, <3>1 DEF ReplayRounds, m
  <2>2. CASE k \notin 1..m
    <3>1. /\ k - m \in 1..n /\ k - m \in 0..n /\ (k - m) - 1 \in 0..n
          /\ (k - m) + m = k /\ ((k - m) - 1) + m = k - 1
      BY <1>5, <2>2
    <3> HIDE DEF Replayed, Stands
    <3>2. h[k] = g[k - m] /\ h[k - 1] = g[(k - m) - 1] /\ q[k] = s[k - m]
      BY <1>6, <1>7, <3>1
    <3> QED BY <1>4, <3>1, <3>2 DEF ReplayRounds, n
  <2> QED BY <2>1, <2>2
<1>9. h[0] = L /\ h[m + n] = N
  <2>1. 0 \in 0..m /\ n \in 0..n /\ n + m = m + n
    BY <1>5
  <2> QED BY <1>3, <1>4, <1>7, <2>1 DEF ReplayRounds, n
<1>10. ReplayRounds(L, q, m + n, h)
  BY <1>8, <1>9 DEF ReplayRounds
<1>11. Tells(L, q, N)
  BY <1>6, <1>8, <1>9, <1>10 DEF Tells
<1> QED
  BY <1>11 DEF q

\* One more record that is right.
LEMMA TellsMore ==
  ASSUME NEW L, NEW r, NEW M, NEW x, Tells(L, r, M), Stands(M, x)
  PROVE  Tells(L, Append(r, x), Replayed(M, x))
<1>1. PICK R : r \in Seq(R)
  BY DEF Tells
<1> DEFINE f == [k \in {0, 1} |-> IF k = 0 THEN M ELSE Replayed(M, x)]
           s == <<x>>
<1>2. f[0] = M /\ f[1] = Replayed(M, x)
  OBVIOUS
<1>3. s \in Seq({x}) /\ Len(s) = 1 /\ s[1] = x /\ \A k \in 1..1 : k = 1 /\ k - 1 = 0
  OBVIOUS
<1> HIDE DEF f, s
<1>4. ReplayRounds(M, s, 1, f)
  BY <1>2, <1>3 DEF ReplayRounds
<1>5. Tells(M, s, Replayed(M, x))
  BY <1>2, <1>3, <1>4 DEF Tells
<1>6. Tells(L, r \o s, Replayed(M, x))
  BY <1>5, TellsOn
<1>7. r \o s = Append(r, x)
  BY <1>1 DEF s
<1> QED
  BY <1>6, <1>7

\* That is what LogReplays asks of the records that wait.
LEMMA TellsIs ==
  ASSUME NEW L, NEW recs, NEW M, Tells(L, recs, M)
  PROVE  AllStand(L, recs) /\ Replay(L, recs) = M
<1>1. PICK R : recs \in Seq(R)
  BY DEF Tells
<1>2. PICK f : /\ ReplayRounds(L, recs, Len(recs), f) /\ f[Len(recs)] = M
               /\ \A k \in 1..Len(recs) : Stands(f[k - 1], recs[k])
  BY DEF Tells
<1>3. Len(recs) \in Nat /\ DOMAIN recs = 1..Len(recs)
  BY <1>1
<1>4. ASSUME NEW n \in 0..Len(recs) PROVE Replay(L, SubSeq(recs, 1, n)) = f[n]
  <2> DEFINE s == SubSeq(recs, 1, n)
  <2>1. n \in Nat /\ Len(s) = n /\ \A k \in 1..n : s[k] = recs[k]
    <3>1. (n + 1) \in 1..(Len(recs) + 1) /\ (n + 1) - 1 = n
      BY <1>3
    <3> QED BY <1>1, <3>1, Upto
  <2> HIDE DEF s
  <2>2. PICK g : ReplayRounds(L, s, n, g) /\ Replay(L, s) = g[n]
    BY <2>1, ReplayRuns
  <2>3. ReplayRounds(L, recs, n, f)
    <3>1. \A k \in 1..n : k \in 1..Len(recs)
      BY <1>3
    <3> QED BY <1>2, <3>1 DEF ReplayRounds
  <2>4. g[n] = f[n]
    BY <2>1, <2>2, <2>3, OneReplay
  <2> QED BY <2>2, <2>4 DEF s
<1>5. Replay(L, recs) = M
  <2>1. SubSeq(recs, 1, Len(recs)) = recs /\ Len(recs) \in 0..Len(recs)
    BY <1>1
  <2> QED BY <1>2, <1>3, <1>4, <2>1
<1>6. AllStand(L, recs)
  <2>1. \A k \in DOMAIN recs : k - 1 \in 0..Len(recs) /\ k \in 1..Len(recs)
    BY <1>3
  <2> QED BY <1>2, <1>4, <2>1 DEF AllStand
<1> QED
  BY <1>5, <1>6

-----------------------------------------------------------------------------
(* The steps that push a record.                                            *)

\* f are the records of each number of first steps.
RecordRounds(steps, n, f) ==
  /\ f[0] = <<>>
  /\ \A k \in 1..n : f[k] = IF steps[k].logged THEN Append(f[k - 1], RecordOf(steps[k]))
                                                ELSE f[k - 1]

\* RecordsOf has a run: the records after each step.
LEMMA RecordsRun ==
  ASSUME NEW steps, Len(steps) \in Nat
  PROVE  \E f : RecordRounds(steps, Len(steps), f) /\ RecordsOf(steps) = f[Len(steps)]
<1> DEFINE G(k, r) == IF steps[k].logged THEN Append(r, RecordOf(steps[k])) ELSE r
           Runs(n, f) == /\ f = [k \in 0..n |-> f[k]] /\ f[0] = <<>>
                         /\ \A k \in 1..n : f[k] = G(k, f[k - 1])
           T == {n \in Nat : \E f : Runs(n, f)}
<1>1. 0 \in T
  <2>1. Runs(0, [k \in 0..0 |-> <<>>])
    OBVIOUS
  <2> QED BY <2>1
<1>2. ASSUME NEW n \in Nat, n \in T PROVE n + 1 \in T
  <2>1. PICK f : Runs(n, f)
    BY <1>2
  <2> DEFINE next == G(n + 1, f[n])
             g == [k \in 0..(n + 1) |-> IF k = n + 1 THEN next ELSE f[k]]
  <2> HIDE DEF next, G
  <2>2. g = [k \in 0..(n + 1) |-> g[k]] /\ g[0] = f[0] /\ g[n + 1] = next /\ g[n] = f[n]
    <3>1. /\ 0 \in 0..(n + 1) /\ n \in 0..(n + 1) /\ n + 1 \in 0..(n + 1)
          /\ 0 # n + 1 /\ n # n + 1
      OBVIOUS
    <3> QED BY <3>1
  <2>3. \A k \in 1..n : g[k] = f[k] /\ g[k - 1] = f[k - 1]
    OBVIOUS
  <2> HIDE DEF g
  <2>4. ASSUME NEW k \in 1..(n + 1) PROVE g[k] = G(k, g[k - 1])
    <3>1. CASE k = n + 1
      <4>1. k - 1 = n
        BY <3>1
      <4> QED BY <2>2, <3>1, <4>1 DEF next
    <3>2. CASE k \in 1..n
      BY <2>1, <2>3, <3>2
    <3>3. k = n + 1 \/ k \in 1..n
      OBVIOUS
    <3> QED BY <3>1, <3>2, <3>3
  <2>5. Runs(n + 1, g)
    BY <2>1, <2>2, <2>4
  <2> HIDE DEF Runs
  <2> QED BY <2>5
<1>3. PICK f : Runs(Len(steps), f)
  BY <1>1, <1>2, Counting
<1> DEFINE Def(h) == h = [k \in 0..Len(steps) |->
                            IF k = 0 THEN <<>>
                            ELSE IF steps[k].logged THEN Append(h[k - 1], RecordOf(steps[k]))
                                                    ELSE h[k - 1]]
<1>4. ASSUME NEW k \in 0..Len(steps) PROVE f[k] = IF k = 0 THEN <<>> ELSE G(k, f[k - 1])
  <2>1. k = 0 \/ k \in 1..Len(steps)
    OBVIOUS
  <2>2. k \in 1..Len(steps) => k # 0
    OBVIOUS
  <2> HIDE DEF G
  <2> QED BY <1>3, <2>1, <2>2
<1>5. Def(f)
  BY <1>3, <1>4
<1> DEFINE c == CHOOSE h : Def(h)
<1>6. Def(c)
  BY <1>5
<1>7. RecordsOf(steps) = c[Len(steps)]
  BY DEF RecordsOf
<1>8. c[0] = <<>> /\ \A k \in 1..Len(steps) : c[k] = G(k, c[k - 1])
  <2> HIDE DEF c
  <2>1. \A k \in 0..Len(steps) : c[k] = IF k = 0 THEN <<>> ELSE G(k, c[k - 1])
    BY <1>6
  <2>2. 0 \in 0..Len(steps) /\ \A k \in 1..Len(steps) : k \in 0..Len(steps) /\ k # 0
    OBVIOUS
  <2> HIDE DEF G
  <2> QED BY <2>1, <2>2
<1>9. RecordRounds(steps, Len(steps), c)
  <2> HIDE DEF c
  <2> QED BY <1>8 DEF RecordRounds
<1> QED
  BY <1>7, <1>9

\* No steps push no records.
LEMMA NoRecords ==
  RecordsOf(<<>>) = <<>>
<1>1. Len(<<>>) = 0
  OBVIOUS
<1> QED
  BY <1>1, RecordsRun DEF RecordRounds

\* What one more step adds.
LEMMA RecordsNext ==
  ASSUME NEW T, NEW steps \in Seq(T), NEW step \in T
  PROVE  RecordsOf(Append(steps, step)) =
           IF step.logged THEN Append(RecordsOf(steps), RecordOf(step)) ELSE RecordsOf(steps)
<1> DEFINE n == Len(steps)
           more == Append(steps, step)
<1>1. /\ n \in Nat /\ Len(more) = n + 1 /\ more[n + 1] = step
      /\ \A k \in 1..n : more[k] = steps[k]
  BY Pushed
<1> HIDE DEF more
<1>2. PICK f : RecordRounds(more, n + 1, f) /\ RecordsOf(more) = f[n + 1]
  BY <1>1, RecordsRun
<1>3. PICK g : RecordRounds(steps, n, g) /\ RecordsOf(steps) = g[n]
  BY <1>1, RecordsRun
<1> HIDE DEF n
<1> DEFINE K == {k \in Nat : k <= n => f[k] = g[k]}
<1>4. 0 \in K
  BY <1>2, <1>3 DEF RecordRounds
<1>5. ASSUME NEW k \in Nat, k \in K PROVE k + 1 \in K
  <2>1. SUFFICES ASSUME k + 1 <= n PROVE f[k + 1] = g[k + 1]
    OBVIOUS
  <2>2. k + 1 \in 1..n /\ k + 1 \in 1..(n + 1) /\ (k + 1) - 1 = k /\ f[k] = g[k]
    BY <1>1, <1>5, <2>1
  <2>3. more[k + 1] = steps[k + 1]
    BY <1>1, <2>2
  <2> QED BY <1>2, <1>3, <2>2, <2>3 DEF RecordRounds
<1>6. Nat \subseteq K
  <2> HIDE DEF K
  <2> QED BY <1>4, <1>5, Counting
<1>7. f[n] = RecordsOf(steps)
  BY <1>1, <1>3, <1>6
<1>8. n + 1 \in 1..(n + 1) /\ (n + 1) - 1 = n
  BY <1>1
<1>9. f[n + 1] = IF step.logged THEN Append(f[n], RecordOf(step)) ELSE f[n]
  BY <1>1, <1>2, <1>8 DEF RecordRounds
<1> QED
  BY <1>2, <1>7, <1>9 DEF more

\* The steps are a list.
Stepped(t) == Whole(t) /\ \E T : t.steps \in Seq(T)

\* u is t after changes that push no record.
Quietly(t, u) == Stepped(u) /\ RecordsOf(u.steps) = RecordsOf(t.steps)

\* The records that a call pushed so far tell what it did so far.
Told(t) == Stepped(t) /\ Tells(children, RecordsOf(t.steps), t.children)

\* A step that is not logged pushes nothing.
LEMMA NoteQuietly ==
  ASSUME NEW t, Stepped(t), NEW step, ~step.logged
  PROVE  Quietly(t, Note(t, step))
<1>1. PICK T : t.steps \in Seq(T)
  BY DEF Stepped
<1>2. t.steps \in Seq(T \cup {step}) /\ step \in T \cup {step}
  BY <1>1
<1>3. Append(t.steps, step) \in Seq(T \cup {step})
  BY <1>2
<1>4. Note(t, step).steps = Append(t.steps, step) /\ Whole(Note(t, step))
  BY DEF Stepped, Whole, Note, Fields
<1>5. RecordsOf(Append(t.steps, step)) = RecordsOf(t.steps)
  BY <1>2, RecordsNext
<1> QED
  BY <1>3, <1>4, <1>5 DEF Quietly, Stepped

\* A logged step tells what changed since the last one.
LEMMA NoteTold ==
  ASSUME NEW t, Told(t), NEW u, Quietly(t, u), NEW step, step.logged,
         Stands(t.children, RecordOf(step)), Replayed(t.children, RecordOf(step)) = u.children
  PROVE  Told(Note(u, step))
<1>1. PICK T : u.steps \in Seq(T)
  BY DEF Quietly, Stepped
<1>2. u.steps \in Seq(T \cup {step}) /\ step \in T \cup {step}
  BY <1>1
<1>3. Append(u.steps, step) \in Seq(T \cup {step})
  BY <1>2
<1>4. /\ Note(u, step).steps = Append(u.steps, step) /\ Whole(Note(u, step))
      /\ Note(u, step).children = u.children
  BY DEF Quietly, Stepped, Whole, Note, Fields
<1>5. RecordsOf(Append(u.steps, step)) = Append(RecordsOf(t.steps), RecordOf(step))
  BY <1>2, RecordsNext DEF Quietly
<1>6. Tells(children, Append(RecordsOf(t.steps), RecordOf(step)), u.children)
  BY TellsMore DEF Told
<1> QED
  BY <1>3, <1>4, <1>5, <1>6 DEF Told, Stepped

\* An unlogged remove_child pushes nothing.
LEMMA UnlinkQuietly ==
  ASSUME NEW t, Stepped(t), NEW p, NEW c
  PROVE  Quietly(t, Unlink(t, p, c, FALSE))
<1> DEFINE v == [t EXCEPT !.parent[c] = None, !.children[p] = RemoveFirst(@, c)]
           step == Step("remove", p, <<>>, <<c>>, PreviousSibling(t, c), NextSibling(t, c), FALSE)
<1>1. v.steps = t.steps /\ Whole(v)
  BY DEF Stepped, Whole, Fields
<1>2. Stepped(v)
  BY <1>1 DEF Stepped
<1>3. ~step.logged
  BY DEF Step
<1>4. Unlink(t, p, c, FALSE) = IF t.parent[c] # p THEN t ELSE Note(v, step)
  BY DEF Unlink
<1> HIDE DEF v, step
<1>5. Quietly(v, Note(v, step))
  BY <1>2, <1>3, NoteQuietly
<1>6. Quietly(t, t)
  BY DEF Quietly
<1> QED
  BY <1>1, <1>4, <1>5, <1>6 DEF Quietly

\* Nor do several.
LEMMA UnlinkAllQuietly ==
  ASSUME NEW t, Stepped(t), NEW p, NEW list, Len(list) \in Nat
  PROVE  Quietly(t, UnlinkAll(t, p, list))
<1>1. PICK f : UnlinkRounds(t, p, list, f)
  BY UnlinkAllRuns
<1> DEFINE T == {k \in Nat : k <= Len(list) => Quietly(t, f[k])}
<1>2. 0 \in T
  BY <1>1 DEF UnlinkRounds, Quietly
<1>3. ASSUME NEW k \in Nat, k \in T PROVE k + 1 \in T
  <2>1. SUFFICES ASSUME k + 1 <= Len(list) PROVE Quietly(t, f[k + 1])
    OBVIOUS
  <2>2. k + 1 \in 1..Len(list) /\ (k + 1) - 1 = k /\ Quietly(t, f[k])
    BY <1>3, <2>1
  <2>3. f[k + 1] = Unlink(f[k], p, list[k + 1], FALSE)
    BY <1>1, <2>2 DEF UnlinkRounds
  <2>4. Quietly(f[k], f[k + 1])
    BY <2>2, <2>3, UnlinkQuietly DEF Quietly
  <2> QED BY <2>2, <2>4 DEF Quietly
<1>4. Nat \subseteq T
  <2> HIDE DEF T
  <2> QED BY <1>2, <1>3, Counting
<1> QED
  BY <1>1, <1>4 DEF UnlinkRounds

\* An unlogged insert_before pushes nothing.
LEMMA InsertOneQuietly ==
  ASSUME NEW t, Stepped(t), NEW p, NEW c, NEW ref
  PROVE  Quietly(t, InsertOne(t, p, c, ref, FALSE))
<1>1. Quietly(t, t)
  BY DEF Quietly
<1> DEFINE d == Detach(t, c, FALSE)
<1>2. Quietly(t, d)
  BY <1>1, UnlinkQuietly DEF Detach
<1> HIDE DEF d
<1>3. ASSUME NEW r PROVE Quietly(t, InsertDetached(d, p, c, r, FALSE))
  <2> DEFINE i == Position(d.children[p], r)
             v == Enter(d, p, c, i)
             step == Step("insert", p, <<c>>, <<>>, PreviousSibling(v, c), NextSibling(v, c), FALSE)
  <2> HIDE DEF i
  <2>1. v.steps = d.steps /\ Whole(v)
    BY <1>2 DEF Quietly, Stepped, Whole, Fields, Enter
  <2>2. Stepped(v) /\ RecordsOf(v.steps) = RecordsOf(t.steps)
    BY <1>2, <2>1 DEF Quietly, Stepped
  <2>3. InsertDetached(d, p, c, r, FALSE) = Note(v, step)
    BY DEF InsertDetached, NoteInsert, i
  <2>4. ~step.logged
    BY DEF Step
  <2> HIDE DEF v, step
  <2>5. Quietly(v, Note(v, step))
    BY <2>2, <2>4, NoteQuietly
  <2> QED BY <2>2, <2>3, <2>5 DEF Quietly
<1> QED
  BY <1>1, <1>3 DEF InsertOne, d

\* Nor do several.
LEMMA InsertAllQuietly ==
  ASSUME NEW t, Stepped(t), NEW p, NEW flat, Len(flat) \in Nat, NEW ref
  PROVE  Quietly(t, InsertAll(t, p, flat, ref))
<1>1. PICK f : InsertRounds(t, p, flat, ref, f)
  BY InsertAllRuns
<1> DEFINE T == {k \in Nat : k <= Len(flat) => Quietly(t, f[k])}
<1>2. 0 \in T
  BY <1>1 DEF InsertRounds, Quietly
<1>3. ASSUME NEW k \in Nat, k \in T PROVE k + 1 \in T
  <2>1. SUFFICES ASSUME k + 1 <= Len(flat) PROVE Quietly(t, f[k + 1])
    OBVIOUS
  <2>2. k + 1 \in 1..Len(flat) /\ (k + 1) - 1 = k /\ Quietly(t, f[k])
    BY <1>3, <2>1
  <2>3. f[k + 1] = InsertOne(f[k], p, flat[k + 1], ref, FALSE)
    BY <1>1, <2>2 DEF InsertRounds
  <2>4. Quietly(f[k], f[k + 1])
    BY <2>2, <2>3, InsertOneQuietly DEF Quietly
  <2> QED BY <2>2, <2>4 DEF Quietly
<1>4. Nat \subseteq T
  <2> HIDE DEF T
  <2> QED BY <1>2, <1>3, Counting
<1> QED
  BY <1>1, <1>4 DEF InsertRounds

\* The order of a child list is the sibling order.
LEMMA KidsOrder ==
  ASSUME NEW t, Fit(t), NEW p \in Node, NEW a, NEW b
  PROVE  Precedes(t.children[p], a, b) <=>
           a \in KidsOf(t, p) /\ b \in KidsOf(t, p) /\ <<a, b>> \in Ord(t)
<1>1. ToSet(t.children[p]) = KidsOf(t, p)
  BY DEF Fit, Paired
<1>2. Precedes(t.children[p], a, b) => a \in KidsOf(t, p) /\ b \in KidsOf(t, p)
  BY <1>1 DEF Precedes, ToSet
<1>3. <<a, b>> \in Ord(t) <=>
        /\ a \in Node /\ b \in Node /\ t.parent[a] \in Node
        /\ t.parent[b] = t.parent[a] /\ Precedes(t.children[t.parent[a]], a, b)
  BY TreeOrder
<1> QED
  BY <1>2, <1>3 DEF KidsOf

\* From t to u the nodes of G leave p, and `added` enter it after prev.
Follows(t, u, p, G, added, prev) ==
  LET A == ToSet(added)
      K == KidsOf(t, p) \ G
      B == {x \in K : x = prev \/ <<x, prev>> \in Ord(t)}
  IN  /\ added \in Seq(Node) /\ IsInjective(added) /\ \A x \in A : t.parent[x] = None
      /\ G \subseteq KidsOf(t, p) /\ prev \in K \cup {None}
      /\ Fit(u)
      /\ \A n \in Node : u.parent[n] = IF n \in A THEN p
                                       ELSE IF n \in G THEN None ELSE t.parent[n]
      /\ \A a, b : <<a, b>> \in Ord(u) <=>
           \/ <<a, b>> \in Ord(t) /\ a \notin G /\ b \notin G
           \/ a \in B /\ b \in A
           \/ a \in A /\ b \in K \ B
           \/ Precedes(added, a, b)

\* Whoever follows the record of such a change comes from t to u.
LEMMA FollowsReplays ==
  ASSUME NEW t, Fit(t), NEW u, NEW p \in Node, NEW G, NEW rec, rec.target = p,
         ToSet(rec.removed) = G, Follows(t, u, p, G, rec.added, rec.prev)
  PROVE  Replayed(t.children, rec) = u.children
<1> DEFINE added == rec.added
           prev == rec.prev
           A == ToSet(added)
           K == KidsOf(t, p) \ G
           B == {x \in K : x = prev \/ <<x, prev>> \in Ord(t)}
           list == t.children[p]
           kept == Kept(list, Node \ G)
           place == IF prev = None THEN 0 ELSE Position(kept, prev)
           x == SubSeq(kept, 1, place)
           y == SubSeq(kept, place + 1, Len(kept))
           r == x \o added \o y
<1>1. /\ t.children \in [Node -> Seq(Node)] /\ u.children \in [Node -> Seq(Node)]
      /\ \A q \in Node : /\ IsInjective(t.children[q]) /\ ToSet(t.children[q]) = KidsOf(t, q)
                         /\ IsInjective(u.children[q]) /\ ToSet(u.children[q]) = KidsOf(u, q)
  BY DEF Follows, Fit, Shaped, Paired
<1>2. /\ added \in Seq(Node) /\ IsInjective(added) /\ \A n \in A : n \in Node /\ t.parent[n] = None
      /\ G \subseteq KidsOf(t, p) /\ prev \in K \cup {None}
      /\ Fit(u)
      /\ \A n \in Node : u.parent[n] = IF n \in A THEN p
                                       ELSE IF n \in G THEN None ELSE t.parent[n]
      /\ \A a, b : <<a, b>> \in Ord(u) <=>
           \/ <<a, b>> \in Ord(t) /\ a \notin G /\ b \notin G
           \/ a \in B /\ b \in A
           \/ a \in A /\ b \in K \ B
           \/ Precedes(added, a, b)
  BY DEF Follows, ToSet
<1>3. Replayed(t.children, rec) = [t.children EXCEPT ![p] = r]
  BY DEF Replayed
<1>4. /\ kept \in Seq(Node) /\ IsInjective(kept) /\ ToSet(kept) = K
      /\ \A a, b : Precedes(kept, a, b) <=> a \in K /\ b \in K /\ <<a, b>> \in Ord(t)
  <2>1. list \in Seq(Node) /\ IsInjective(list) /\ ToSet(list) = KidsOf(t, p)
    BY <1>1
  <2>2. kept \in Seq(Node)
    BY <2>1, KeptPicks
  <2>3. IsInjective(kept)
    BY <2>1, KeptOnceEach
  <2>4. ToSet(kept) = KidsOf(t, p) \cap (Node \ G)
    BY <2>1, KeptMembers
  <2>5. ASSUME NEW a, NEW b
        PROVE  Precedes(kept, a, b) <=> a \in K /\ b \in K /\ <<a, b>> \in Ord(t)
    <3>1. Precedes(kept, a, b) <=> a \in Node \ G /\ b \in Node \ G /\ Precedes(list, a, b)
      BY <2>1, KeptOrder
    <3>2. Precedes(list, a, b) <=> a \in KidsOf(t, p) /\ b \in KidsOf(t, p) /\ <<a, b>> \in Ord(t)
      BY KidsOrder
    <3> QED BY <3>1, <3>2 DEF KidsOf
  <2>6. KidsOf(t, p) \cap (Node \ G) = K
    BY DEF KidsOf
  <2> QED BY <2>2, <2>3, <2>4, <2>5, <2>6
<1> HIDE DEF kept
<1>5. /\ place \in 0..Len(kept)
      /\ prev = None => place = 0
      /\ prev # None => place # 0 /\ kept[place] = prev
  <2>1. Len(kept) \in Nat /\ DOMAIN kept = 1..Len(kept)
    BY <1>4
  <2>2. Place(kept, prev, Position(kept, prev))
    BY <1>4, Positioned
  <2>3. prev # None => Position(kept, prev) \in 1..Len(kept) /\ kept[Position(kept, prev)] = prev
    BY <1>2, <1>4, <2>1, <2>2 DEF Place
  <2> QED BY <2>1, <2>3
<1> HIDE DEF place
<1>6. /\ x \in Seq(Node) /\ y \in Seq(Node) /\ x \o y = kept
      /\ ToSet(x) = B
  <2>1. /\ x \in Seq(Node) /\ y \in Seq(Node) /\ x \o y = kept
        /\ place = 0 => ToSet(x) = {}
        /\ place # 0 => ToSet(x) = {c \in ToSet(kept) : c = kept[place] \/ Precedes(kept, c, kept[place])}
    BY <1>4, <1>5, DividedAt
  <2>2. CASE prev = None
    <3>1. B = {}
      <4>1. None \notin K /\ \A c : <<c, None>> \notin Ord(t)
        BY OneOrder, NodeAssumption DEF KidsOf
      <4> QED BY <2>2, <4>1
    <3> QED BY <1>5, <2>1, <2>2, <3>1
  <2>3. CASE prev # None
    <3> HIDE DEF x, y
    <3>1. ToSet(x) = {c \in K : c = prev \/ Precedes(kept, c, prev)}
      BY <1>4, <1>5, <2>1, <2>3
    <3>2. prev \in K
      BY <1>2, <2>3
    <3>3. \A c \in K : Precedes(kept, c, prev) <=> <<c, prev>> \in Ord(t)
      BY <1>4, <3>2
    <3> QED BY <2>1, <3>1, <3>3
  <2> QED BY <2>1, <2>2, <2>3
<1>7. ToSet(y) = K \ B
  <2> HIDE DEF x, y, B
  <2>1. ToSet(x \o y) = ToSet(x) \cup ToSet(y) /\ (IsInjective(x \o y) => ToSet(x) \cap ToSet(y) = {})
    BY <1>6, JoinOrder
  <2> QED BY <1>4, <1>6, <2>1
<1> HIDE DEF x, y
<1>8. A \cap K = {}
  BY <1>2, NodeAssumption DEF KidsOf
<1>9. /\ r \in Seq(Node) /\ IsInjective(r) /\ ToSet(r) = K \cup A
      /\ \A a, b : Precedes(r, a, b) <=>
           \/ a \in K /\ b \in K /\ <<a, b>> \in Ord(t)
           \/ Precedes(added, a, b)
           \/ a \in B /\ b \in A
           \/ a \in A /\ b \in K \ B
  <2> HIDE DEF A, K, B, r
  <2>1. /\ x \in Seq(Node) /\ y \in Seq(Node) /\ added \in Seq(Node) /\ IsInjective(x \o y)
        /\ IsInjective(added) /\ A \cap ToSet(x \o y) = {}
    BY <1>2, <1>4, <1>6, <1>8
  <2>2. /\ r \in Seq(Node) /\ IsInjective(r) /\ ToSet(r) = ToSet(x \o y) \cup A
        /\ \A a, b : Precedes(r, a, b) <=>
             \/ Precedes(x \o y, a, b) \/ Precedes(added, a, b)
             \/ a \in ToSet(x) /\ b \in A
             \/ a \in A /\ b \in ToSet(y)
    BY <2>1, PutBetween DEF r, A
  <2> QED BY <1>4, <1>6, <1>7, <2>2
<1> HIDE DEF r
<1>10. r = u.children[p]
  <2>1. KidsOf(u, p) = K \cup A
    <3>1. A \subseteq Node /\ K \subseteq Node /\ p # None
      BY <1>2, NodeAssumption DEF KidsOf
    <3>2. ASSUME NEW n \in Node PROVE u.parent[n] = p <=> n \in K \cup A
      <4>1. CASE n \in A
        BY <1>2, <4>1
      <4>2. CASE n \notin A /\ n \in G
        <5>1. u.parent[n] = None
          BY <1>2, <4>2
        <5> QED BY <3>1, <4>2, <5>1
      <4>3. CASE n \notin A /\ n \notin G
        <5>1. u.parent[n] = t.parent[n]
          BY <1>2, <4>3
        <5> QED BY <4>3, <5>1 DEF KidsOf
      <4> QED BY <4>1, <4>2, <4>3
    <3> HIDE DEF A, K
    <3> QED BY <3>1, <3>2 DEF KidsOf
  <2>2. ASSUME NEW a, NEW b PROVE Precedes(r, a, b) <=> Precedes(u.children[p], a, b)
    <3>1. Precedes(u.children[p], a, b) <=>
            a \in KidsOf(u, p) /\ b \in KidsOf(u, p) /\ <<a, b>> \in Ord(u)
      BY <1>2, KidsOrder
    <3>2. Precedes(added, a, b) => a \in A /\ b \in A
      BY DEF Precedes, ToSet
    <3>3. ASSUME NEW n \in A PROVE <<a, n>> \notin Ord(t) /\ <<n, b>> \notin Ord(t)
      <4>1. t.parent[n] = None /\ None \notin Node
        BY <1>2, NodeAssumption
      <4>2. <<a, n>> \in Ord(t) => t.parent[n] = t.parent[a] /\ t.parent[a] \in Node
        BY OneOrder
      <4>3. <<n, b>> \in Ord(t) => t.parent[n] \in Node
        BY OneOrder
      <4> QED BY <4>1, <4>2, <4>3
    <3>4. B \subseteq K
      OBVIOUS
    <3> HIDE DEF A, K, B
    <3>5. K \cap G = {}
      BY DEF K
    <3> QED BY <1>2, <1>9, <2>1, <3>1, <3>2, <3>3, <3>4, <3>5
  <2>3. u.children[p] \in Seq(Node) /\ IsInjective(u.children[p]) /\ ToSet(u.children[p]) = ToSet(r)
    BY <1>1, <1>9, <2>1
  <2> QED BY <1>9, <2>2, <2>3, SameList
<1>11. ASSUME NEW q \in Node, q # p PROVE t.children[q] = u.children[q]
  <2>1. KidsOf(u, q) = KidsOf(t, q) /\ \A n \in KidsOf(t, q) : n \notin A \cup G \cup K
    BY <1>2, <1>11, NodeAssumption DEF KidsOf
  <2>2. ASSUME NEW a, NEW b PROVE Precedes(t.children[q], a, b) <=> Precedes(u.children[q], a, b)
    <3>1. Precedes(u.children[q], a, b) <=>
            a \in KidsOf(u, q) /\ b \in KidsOf(u, q) /\ <<a, b>> \in Ord(u)
      BY <1>2, KidsOrder
    <3>2. Precedes(t.children[q], a, b) <=>
            a \in KidsOf(t, q) /\ b \in KidsOf(t, q) /\ <<a, b>> \in Ord(t)
      BY KidsOrder
    <3>3. Precedes(added, a, b) => a \in A /\ b \in A
      BY DEF Precedes, ToSet
    <3>4. B \subseteq K
      OBVIOUS
    <3> HIDE DEF A, K, B
    <3> QED BY <1>2, <2>1, <3>1, <3>2, <3>3, <3>4
  <2>3. t.children[q] \in Seq(Node) /\ u.children[q] \in Seq(Node)
    BY <1>1
  <2> QED BY <1>1, <2>1, <2>2, <2>3, SameList
<1>12. [t.children EXCEPT ![p] = r] = u.children
  <2> DEFINE w == [t.children EXCEPT ![p] = r]
  <2>1. w \in [Node -> Seq(Node)] /\ \A q \in Node : w[q] = IF q = p THEN r ELSE t.children[q]
    BY <1>1, <1>9
  <2>2. \A q \in Node : w[q] = u.children[q]
    BY <1>10, <1>11, <2>1
  <2>3. u.children \in [Node -> Seq(Node)]
    BY <1>1
  <2> HIDE DEF w
  <2>4. w = u.children
    BY <2>1, <2>2, <2>3
  <2> QED BY <2>4 DEF w
<1> QED
  BY <1>3, <1>12

\* The record stands when the removed nodes are those between its siblings.
LEMMA StandsBetween ==
  ASSUME NEW t, Fit(t), NEW p \in Node, NEW rec, rec.target = p,
         rec.prev \in KidsOf(t, p) \cup {None}, rec.next \in KidsOf(t, p) \cup {None},
         ToSet(rec.removed) \subseteq KidsOf(t, p),
         \A c \in KidsOf(t, p) :
           c \in ToSet(rec.removed) <=> /\ rec.prev = None \/ <<rec.prev, c>> \in Ord(t)
                                        /\ rec.next = None \/ <<c, rec.next>> \in Ord(t)
  PROVE  Stands(t.children, rec)
<1> DEFINE s == t.children[p]
           i == IF rec.prev = None THEN 0 ELSE Position(s, rec.prev)
           j == IF rec.next = None THEN Len(s) + 1 ELSE Position(s, rec.next)
<1>1. Lines(t, p, s)
  BY Lined
<1>2. /\ s \in Seq(Node) /\ DOMAIN s = 1..Len(s) /\ Len(s) \in Nat
      /\ \A k \in 1..Len(s) : s[k] \in KidsOf(t, p)
      /\ \A c \in KidsOf(t, p) : \E k \in 1..Len(s) : s[k] = c
      /\ \A k, l \in 1..Len(s) : <<s[k], s[l]>> \in Ord(t) <=> k < l
  BY <1>1 DEF Lines
<1>3. None \notin KidsOf(t, p)
  BY NodeAssumption DEF KidsOf
<1>4. ToSet(s) = KidsOf(t, p)
  BY <1>2 DEF ToSet
<1> HIDE DEF s
<1>5. ASSUME NEW c \in KidsOf(t, p) PROVE Position(s, c) \in 1..Len(s) /\ s[Position(s, c)] = c
  BY <1>2, <1>4, Positioned DEF Place
<1>6. /\ i \in 0..Len(s)
      /\ rec.prev = None => i = 0
      /\ rec.prev # None => i \in 1..Len(s) /\ s[i] = rec.prev
  BY <1>2, <1>5
<1>7. /\ j \in 1..(Len(s) + 1)
      /\ rec.next = None => j = Len(s) + 1
      /\ rec.next # None => j \in 1..Len(s) /\ s[j] = rec.next
  BY <1>2, <1>5
<1>8. Stands(t.children, rec) <=> ToSet(SubSeq(s, i + 1, j - 1)) = ToSet(rec.removed)
  BY DEF Stands, s
<1> HIDE DEF i, j
<1>9. ToSet(SubSeq(s, i + 1, j - 1)) = {s[k] : k \in {l \in 1..Len(s) : i < l /\ l < j}}
  <2>1. s \in Seq(Node) /\ i \in 0..Len(s) /\ j \in 1..(Len(s) + 1)
    BY <1>2, <1>6, <1>7
  <2> QED BY <2>1, BetweenIs
<1>10. ASSUME NEW k \in 1..Len(s) PROVE s[k] \in ToSet(rec.removed) <=> i < k /\ k < j
  <2>1. (rec.prev = None \/ <<rec.prev, s[k]>> \in Ord(t)) <=> i < k
    BY <1>2, <1>6
  <2>2. (rec.next = None \/ <<s[k], rec.next>> \in Ord(t)) <=> k < j
    BY <1>2, <1>7
  <2> QED BY <1>2, <2>1, <2>2
<1>11. \A c \in ToSet(rec.removed) : \E k \in 1..Len(s) : s[k] = c
  BY <1>2
<1> QED
  BY <1>8, <1>9, <1>10, <1>11

-----------------------------------------------------------------------------
(* The siblings on the other side.                                          *)

\* The entry before h in a list is the last of those before h.
LEMMA BesidePrecedes ==
  ASSUME NEW s \in Seq(Node), IsInjective(s), NEW h \in ToSet(s)
  PROVE  LET x == Beside(s, Position(s, h), -1)
         IN  \/ x = None /\ \A y : ~Precedes(s, y, h)
             \/ Precedes(s, x, h) /\ \A y : Precedes(s, y, h) /\ y # x => Precedes(s, y, x)
<1> DEFINE i == Position(s, h)
           x == Beside(s, i, -1)
<1>1. i \in DOMAIN s /\ s[i] = h
  BY Positioned DEF Place
<1>2. DOMAIN s = 1..Len(s) /\ Len(s) \in Nat /\ i \in 1..Len(s)
  BY <1>1
<1> HIDE DEF i
<1>3. \A j \in DOMAIN s : s[j] = h => j = i
  BY <1>1 DEF IsInjective
<1>4. CASE i - 1 \in DOMAIN s
  <2>1. x = s[i - 1]
    BY <1>2, <1>4 DEF Beside
  <2>2. Precedes(s, x, h)
    BY <1>1, <1>2, <1>4, <2>1 DEF Precedes
  <2>3. ASSUME NEW y, Precedes(s, y, h), y # x PROVE Precedes(s, y, x)
    <3>1. PICK j, k \in DOMAIN s : j < k /\ s[j] = y /\ s[k] = h
      BY <2>3 DEF Precedes
    <3>2. k = i /\ j # i - 1
      BY <1>3, <2>1, <2>3, <3>1
    <3>3. j < i - 1
      BY <1>2, <3>1, <3>2
    <3> QED BY <1>4, <2>1, <3>1, <3>3 DEF Precedes
  <2> QED BY <2>2, <2>3 DEF i
<1>5. CASE i - 1 \notin DOMAIN s
  <2>1. x = None
    BY <1>2, <1>5 DEF Beside
  <2>2. ASSUME NEW y, Precedes(s, y, h) PROVE FALSE
    <3>1. PICK j, k \in DOMAIN s : j < k /\ s[j] = y /\ s[k] = h
      BY <2>2 DEF Precedes
    <3>2. k = i
      BY <1>3, <3>1
    <3> QED BY <1>2, <1>5, <3>1, <3>2
  <2> QED BY <2>1, <2>2 DEF i
<1> QED
  BY <1>4, <1>5

\* previous_sibling is the last of those before h.
LEMMA PreviousIs ==
  ASSUME NEW t, Fit(t), NEW h \in Node
  PROVE  IsLast(t, Precede(t, h), PreviousSibling(t, h))
<1> DEFINE p == t.parent[h]
           s == t.children[p]
           x == PreviousSibling(t, h)
<1>1. p \in Node \cup {None}
  BY DEF Fit, Shaped
<1>2. CASE p = None
  <2>1. x = None
    BY <1>2 DEF PreviousSibling, Sibling
  <2>2. ASSUME NEW y PROVE <<y, h>> \notin Ord(t)
    <3>1. <<y, h>> \in Ord(t) => t.parent[y] \in Node /\ t.parent[h] = t.parent[y]
      BY OneOrder
    <3> QED BY <1>2, <3>1, NodeAssumption
  <2> QED BY <2>1, <2>2 DEF IsLast, Precede
<1>3. CASE p \in Node
  <2>1. s \in Seq(Node) /\ IsInjective(s) /\ ToSet(s) = KidsOf(t, p) /\ h \in KidsOf(t, p)
    BY <1>3 DEF Fit, Shaped, Paired, KidsOf
  <2>2. x = Beside(s, Position(s, h), -1)
    BY <1>3, NodeAssumption DEF PreviousSibling, Sibling
  <2>3. \A a, b : Precedes(s, a, b) <=> a \in KidsOf(t, p) /\ b \in KidsOf(t, p) /\ <<a, b>> \in Ord(t)
    BY <1>3, KidsOrder
  <2>4. ASSUME NEW y PROVE Precedes(s, y, h) <=> y \in Precede(t, h)
    <3>1. <<y, h>> \in Ord(t) => y \in Node /\ t.parent[y] = p
      BY OneOrder
    <3> QED BY <2>1, <2>3, <3>1 DEF Precede, KidsOf
  <2> HIDE DEF x, s, p
  <2>5. \/ x = None /\ \A y : ~Precedes(s, y, h)
        \/ Precedes(s, x, h) /\ \A y : Precedes(s, y, h) /\ y # x => Precedes(s, y, x)
    BY <2>1, <2>2, BesidePrecedes
  <2> QED BY <2>3, <2>4, <2>5 DEF IsLast, x
<1> QED
  BY <1>1, <1>2, <1>3

\* last_child is the last of the children.
LEMMA LastOfKids ==
  ASSUME NEW t, Fit(t), NEW p \in Node
  PROVE  IsLast(t, KidsOf(t, p), LastOf(t.children[p]))
<1>1. PICK s : s = t.children[p] /\ Lines(t, p, s)
  BY Lined
<1>2. /\ s \in Seq(Node) /\ DOMAIN s = 1..Len(s) /\ Len(s) \in Nat
      /\ \A i \in DOMAIN s : s[i] \in KidsOf(t, p)
      /\ \A c \in KidsOf(t, p) : \E i \in DOMAIN s : s[i] = c
      /\ \A i, j \in DOMAIN s : <<s[i], s[j]>> \in Ord(t) <=> i < j
  BY <1>1 DEF Lines
<1>3. CASE s = <<>>
  <2>1. DOMAIN s = {}
    BY <1>3
  <2>2. KidsOf(t, p) = {}
    BY <1>2, <2>1
  <2> QED BY <1>1, <1>3, <2>2 DEF LastOf, IsLast
<1>4. CASE s # <<>>
  <2>1. Len(s) \in DOMAIN s
    BY <1>2, <1>4
  <2>2. LastOf(s) = s[Len(s)]
    BY <1>2, <1>4, Popped DEF LastOf
  <2>3. ASSUME NEW y \in KidsOf(t, p), y # s[Len(s)] PROVE <<y, s[Len(s)]>> \in Ord(t)
    <3>1. PICK k \in DOMAIN s : s[k] = y
      BY <1>2
    <3>2. k < Len(s)
      BY <1>2, <2>3, <3>1
    <3> QED BY <1>2, <2>1, <3>1, <3>2
  <2> QED BY <1>1, <1>2, <2>1, <2>2, <2>3 DEF IsLast
<1> QED
  BY <1>3, <1>4
-----------------------------------------------------------------------------
(* One record.                                                              *)

\* The children of p before ref that a call leaves alone.
Earlier(t, p, G, ref) ==
  {k \in KidsOf(t, p) \ G : ref = None \/ <<k, ref>> \in Ord(t)}

\* The nodes of G are children of p, next to each other and right before ref.
Gap(t, p, G, ref) ==
  /\ G \subseteq KidsOf(t, p)
  /\ ref \in (KidsOf(t, p) \ G) \cup {None}
  /\ \A c \in G : /\ ref = None \/ <<c, ref>> \in Ord(t)
                  /\ \A k \in Earlier(t, p, G, ref) : <<k, c>> \in Ord(t)

\* From t to u the nodes of G leave p, and `added` enter it before ref.
Goes(t, u, p, G, added, ref) ==
  LET A == ToSet(added)
      K == KidsOf(t, p) \ G
      B == Earlier(t, p, G, ref)
  IN  /\ added \in Seq(Node) /\ IsInjective(added) /\ \A x \in A : t.parent[x] = None
      /\ Fit(u)
      /\ \A n \in Node : u.parent[n] = IF n \in A THEN p
                                       ELSE IF n \in G THEN None ELSE t.parent[n]
      /\ \A a, b : <<a, b>> \in Ord(u) <=>
           \/ <<a, b>> \in Ord(t) /\ a \notin G /\ b \notin G
           \/ a \in B /\ b \in A
           \/ a \in A /\ b \in K \ B
           \/ Precedes(added, a, b)

\* A record tells one change: nodes left a gap before next, others came there, and
\* prev is the last before the gap.
LEMMA Recorded ==
  ASSUME NEW t, Fit(t), Told(t), NEW u, Quietly(t, u), NEW p \in Node, NEW step,
         step.logged, step.at = p,
         Gap(t, p, ToSet(step.removed), step.next),
         Goes(t, u, p, ToSet(step.removed), step.added, step.next),
         IsLast(t, Earlier(t, p, ToSet(step.removed), step.next), step.prev)
  PROVE  Told(Note(u, step))
<1> DEFINE G == ToSet(step.removed)
           K == KidsOf(t, p) \ G
           B == Earlier(t, p, G, step.next)
           prev == step.prev
           next == step.next
           rec == RecordOf(step)
<1>1. /\ rec.target = p /\ rec.added = step.added /\ rec.removed = step.removed
      /\ rec.prev = prev /\ rec.next = next
  BY DEF RecordOf
<1> HIDE DEF rec
<1>2. None \notin Node /\ None \notin K /\ B \subseteq K /\ K \subseteq Node
  BY NodeAssumption DEF KidsOf, Earlier
<1>3. /\ \A a, b : <<a, b>> \in Ord(t) => a \in Node /\ b \in Node /\ a # b /\ <<b, a>> \notin Ord(t)
      /\ \A a, b, c : <<a, b>> \in Ord(t) /\ <<b, c>> \in Ord(t) => <<a, c>> \in Ord(t)
      /\ \A a, b \in KidsOf(t, p) : a # b => <<a, b>> \in Ord(t) \/ <<b, a>> \in Ord(t)
  BY OneOrder DEF KidsOf
<1>4. \/ prev = None /\ B = {}
      \/ prev \in B /\ \A y \in B \ {prev} : <<y, prev>> \in Ord(t)
  BY DEF IsLast
<1>5. B = {x \in K : x = prev \/ <<x, prev>> \in Ord(t)}
  <2>1. \A x : x \in B <=> x \in K /\ (next = None \/ <<x, next>> \in Ord(t))
    BY DEF Earlier
  <2>2. \A x : <<x, None>> \notin Ord(t)
    BY <1>2, <1>3
  <2> HIDE DEF B, K, next, prev
  <2>3. ASSUME NEW x PROVE x \in B <=> x \in K /\ (x = prev \/ <<x, prev>> \in Ord(t))
    <3>1. CASE prev = None /\ B = {}
      BY <1>2, <2>2, <3>1
    <3>2. CASE prev \in B /\ \A y \in B \ {prev} : <<y, prev>> \in Ord(t)
      <4>1. x \in B => x = prev \/ <<x, prev>> \in Ord(t)
        BY <3>2
      <4>2. next = None \/ <<prev, next>> \in Ord(t)
        BY <2>1, <3>2
      <4>3. <<x, prev>> \in Ord(t) /\ next # None => <<x, next>> \in Ord(t)
        BY <1>3, <4>2
      <4> QED BY <1>2, <2>1, <3>2, <4>1, <4>2, <4>3
    <3> QED BY <1>4, <3>1, <3>2
  <2> QED BY <2>3
<1>6. Follows(t, u, p, G, step.added, prev)
  <2>1. prev \in K \cup {None}
    BY <1>2, <1>4
  <2>2. G \subseteq KidsOf(t, p)
    BY DEF Gap
  <2> QED BY <1>5, <2>1, <2>2 DEF Goes, Follows
<1>7. Replayed(t.children, rec) = u.children
  BY <1>1, <1>6, FollowsReplays
<1>8. Stands(t.children, rec)
  <2>1. prev \in KidsOf(t, p) \cup {None} /\ next \in KidsOf(t, p) \cup {None} /\ G \subseteq KidsOf(t, p)
    BY <1>2, <1>4 DEF Gap
  <2>2. ASSUME NEW c \in KidsOf(t, p)
        PROVE  c \in G <=> /\ prev = None \/ <<prev, c>> \in Ord(t)
                           /\ next = None \/ <<c, next>> \in Ord(t)
    <3>1. CASE c \in G
      BY <1>2, <1>4, <3>1 DEF Gap
    <3>2. CASE c \notin G
      <4>1. c \in K
        BY <3>2
      <4>2. c \in B <=> next = None \/ <<c, next>> \in Ord(t)
        BY <4>1 DEF Earlier
      <4>3. c \in B => c = prev \/ <<c, prev>> \in Ord(t)
        BY <1>5
      <4>4. c \in B => prev # None
        BY <1>2, <1>4
      <4> HIDE DEF B, K, G, prev, next
      <4> QED BY <1>3, <3>2, <4>2, <4>3, <4>4
    <3> QED BY <3>1, <3>2
  <2> QED BY <1>1, <2>1, <2>2, StandsBetween
<1> QED
  BY <1>7, <1>8, NoteTold DEF rec

\* Fields of a record that only has one overlay changed.
LEMMA SameTold ==
  ASSUME NEW t, NEW u, Stepped(u), u.steps = t.steps
  PROVE  Quietly(t, u)
BY DEF Quietly

\* remove_child.
LEMMA UnlinkTold ==
  ASSUME NEW t, Fit(t), Told(t), NEW p \in Node, NEW c \in Node, t.parent[c] = p
  PROVE  Told(Unlink(t, p, c, TRUE))
<1> DEFINE v == [t EXCEPT !.parent[c] = None, !.children[p] = RemoveFirst(@, c)]
           step == Step("remove", p, <<>>, <<c>>, PreviousSibling(t, c), NextSibling(t, c), TRUE)
           u == Unlink(t, p, c, TRUE)
           prev == PreviousSibling(t, c)
           next == NextSibling(t, c)
<1>1. u = Note(v, step)
  BY DEF Unlink
<1>2. Stepped(t) /\ Whole(t)
  BY DEF Told, Stepped
<1>3. v.steps = t.steps /\ Whole(v)
  BY <1>2 DEF Whole, Fields
<1>4. Stepped(v)
  BY <1>2, <1>3 DEF Stepped
<1>5. /\ step.logged /\ step.at = p /\ step.added = <<>> /\ step.removed = <<c>>
      /\ step.prev = prev /\ step.next = next
  BY DEF Step
<1>6. Parted(t, u, {c})
  BY UnlinkParts
<1> HIDE DEF v, step, u
<1>7. Parted(t, v, {c})
  <2>1. v.parent = u.parent /\ v.children = u.children
    BY <1>1, <1>3 DEF Note, Whole, Fields
  <2>2. Fit(v) /\ Ord(v) = Ord(u)
    BY <1>3, <1>6, <2>1, TreeFit DEF Parted
  <2> QED BY <1>6, <2>1, <2>2 DEF Parted
<1>8. Quietly(t, v)
  BY <1>3, <1>4, SameTold
<1>9. IsLast(t, Precede(t, c), prev) /\ IsFirst(t, Follow(t, c), next)
  BY PreviousIs, NextIs
<1>10. /\ None \notin Node /\ c \in KidsOf(t, p)
       /\ \A a, b : <<a, b>> \in Ord(t) => /\ a \in Node /\ b \in Node /\ a # b
                                           /\ t.parent[a] = t.parent[b] /\ <<b, a>> \notin Ord(t)
       /\ \A a, b, e : <<a, b>> \in Ord(t) /\ <<b, e>> \in Ord(t) => <<a, e>> \in Ord(t)
       /\ \A a, b \in KidsOf(t, p) : a # b => <<a, b>> \in Ord(t) \/ <<b, a>> \in Ord(t)
  BY OneOrder, NodeAssumption DEF KidsOf
<1> HIDE DEF prev, next
<1>11. /\ next = None \/ (next \in KidsOf(t, p) \ {c} /\ <<c, next>> \in Ord(t))
       /\ \A k \in KidsOf(t, p) : <<c, k>> \in Ord(t) => k = next \/ (next # None /\ <<next, k>> \in Ord(t))
  BY <1>9, <1>10 DEF IsFirst, Follow, KidsOf
<1>12. Earlier(t, p, {c}, next) = Precede(t, c)
  <2>1. ASSUME NEW k PROVE k \in Earlier(t, p, {c}, next) <=> k \in Precede(t, c)
    <3>1. k \in Precede(t, c) <=> k \in KidsOf(t, p) /\ <<k, c>> \in Ord(t)
      BY <1>10 DEF Precede, KidsOf
    <3>2. k \in Earlier(t, p, {c}, next) <=>
            k \in KidsOf(t, p) /\ k # c /\ (next = None \/ <<k, next>> \in Ord(t))
      BY DEF Earlier
    <3>3. k \in KidsOf(t, p) /\ <<k, c>> \in Ord(t) =>
            k # c /\ (next = None \/ <<k, next>> \in Ord(t))
      BY <1>10, <1>11
    <3>4. k \in KidsOf(t, p) /\ k # c /\ (next = None \/ <<k, next>> \in Ord(t)) => <<k, c>> \in Ord(t)
      <4>1. SUFFICES ASSUME k \in KidsOf(t, p), k # c, next = None \/ <<k, next>> \in Ord(t),
                            <<c, k>> \in Ord(t)
                     PROVE  FALSE
        BY <1>10
      <4>2. k = next \/ (next # None /\ <<next, k>> \in Ord(t))
        BY <1>11, <4>1
      <4>3. next # None /\ <<k, next>> \in Ord(t)
        BY <1>10, <4>1, <4>2 DEF KidsOf
      <4> QED BY <1>10, <4>2, <4>3
    <3> QED BY <3>1, <3>2, <3>3, <3>4
  <2> QED BY <2>1
<1>13. ToSet(step.removed) = {c} /\ ToSet(step.added) = {}
  BY <1>5 DEF ToSet
<1>14. Gap(t, p, {c}, next)
  BY <1>10, <1>11, <1>12 DEF Gap, Precede
<1>15. Goes(t, v, p, {c}, step.added, next)
  <2>1. step.added \in Seq(Node) /\ IsInjective(step.added)
    BY <1>5 DEF IsInjective
  <2>2. \A a, b : ~Precedes(step.added, a, b)
    BY <1>5 DEF Precedes
  <2> QED BY <1>7, <1>13, <2>1, <2>2 DEF Goes, Parted
<1>16. /\ Gap(t, p, ToSet(step.removed), step.next)
       /\ Goes(t, v, p, ToSet(step.removed), step.added, step.next)
       /\ IsLast(t, Earlier(t, p, ToSet(step.removed), step.next), step.prev)
  BY <1>5, <1>9, <1>12, <1>13, <1>14, <1>15
<1> QED
  BY <1>1, <1>5, <1>8, <1>16, Recorded DEF u

\* detach pushes a record that tells it.
LEMMA DetachTold ==
  ASSUME NEW t, Fit(t), Told(t), NEW c \in Node
  PROVE  Told(Detach(t, c, TRUE))
<1>1. t.parent[c] \in Node \cup {None}
  BY DEF Fit, Shaped
<1> QED
  BY <1>1, UnlinkTold DEF Detach

\* The end of append_child and insert_before.
LEMMA InsertDetachedTold ==
  ASSUME NEW t, Fit(t), Told(t), NEW p \in Node, NEW c \in Node, t.parent[c] = None, NEW ref
  PROVE  Told(InsertDetached(t, p, c, ref, TRUE))
<1> DEFINE i == Position(t.children[p], ref)
           v == Enter(t, p, c, i)
           prev == PreviousSibling(v, c)
           next == NextSibling(v, c)
           step == Step("insert", p, <<c>>, <<>>, prev, next, TRUE)
           u == InsertDetached(t, p, c, ref, TRUE)
           later == LaterThan(t, p, c, ref)
           K == KidsOf(t, p)
<1>1. u = Note(v, step)
  BY DEF InsertDetached, NoteInsert
<1>2. Stepped(t) /\ Whole(t)
  BY DEF Told, Stepped
<1>3. v.steps = t.steps /\ Whole(v)
  <2> HIDE DEF i
  <2> QED BY <1>2 DEF Whole, Fields, Enter
<1>4. Quietly(t, v)
  <2>1. Stepped(v)
    BY <1>2, <1>3 DEF Stepped
  <2> QED BY <1>3, <2>1, SameTold
<1>5. /\ step.logged /\ step.at = p /\ step.added = <<c>> /\ step.removed = <<>>
      /\ step.prev = prev /\ step.next = next
  BY DEF Step
<1>6. Placed(t, u, p, c, later)
  BY EnterPlaces
<1>7. None \notin Node /\ later \subseteq K /\ c \notin K /\ K \subseteq Node
  BY NodeAssumption DEF LaterThan, KidsOf
<1> HIDE DEF v, step, u, later
<1>8. Placed(t, v, p, c, later)
  <2>1. v.parent = u.parent /\ v.children = u.children
    BY <1>1, <1>3 DEF Note, Whole, Fields
  <2>2. Fit(v) /\ Ord(v) = Ord(u)
    BY <1>3, <1>6, <2>1, TreeFit DEF Placed
  <2> QED BY <1>6, <2>1, <2>2 DEF Placed
<1>9. /\ Fit(v) /\ \A n \in Node : v.parent[n] = IF n = c THEN p ELSE t.parent[n]
      /\ \A a, b : <<a, b>> \in Ord(v) <=>
           \/ <<a, b>> \in Ord(t) /\ a # c /\ b # c
           \/ b = c /\ a \in K \ ({c} \cup later)
           \/ a = c /\ b \in later
  BY <1>8 DEF Placed
<1>10. IsLast(v, Precede(v, c), prev) /\ IsFirst(v, Follow(v, c), next)
  BY <1>9, PreviousIs, NextIs
<1> HIDE DEF prev, next
<1>11. Precede(v, c) = K \ later /\ Follow(v, c) = later
  BY <1>7, <1>9 DEF Precede, Follow
<1>12. /\ \A a, b : <<a, b>> \in Ord(t) => a # b /\ <<b, a>> \notin Ord(t) /\ a \in Node /\ b \in Node
       /\ \A a, b, e : <<a, b>> \in Ord(t) /\ <<b, e>> \in Ord(t) => <<a, e>> \in Ord(t)
       /\ \A a, b \in K : a # b => <<a, b>> \in Ord(t) \/ <<b, a>> \in Ord(t)
       /\ \A a, b : <<a, b>> \in Ord(v) => a # b /\ <<b, a>> \notin Ord(v)
       /\ \A a, b, e : <<a, b>> \in Ord(v) /\ <<b, e>> \in Ord(v) => <<a, e>> \in Ord(v)
  BY <1>9, OneOrder DEF KidsOf
<1>13. \A a, b \in K : <<a, b>> \in Ord(v) <=> <<a, b>> \in Ord(t)
  BY <1>7, <1>9
<1>14. Earlier(t, p, {}, next) = K \ later
  <2>1. \A k : k \in Earlier(t, p, {}, next) <=> k \in K /\ (next = None \/ <<k, next>> \in Ord(t))
    BY DEF Earlier
  <2>2. CASE next = None /\ later = {}
    BY <2>1, <2>2
  <2>3. CASE next \in later /\ \A y \in later \ {next} : <<next, y>> \in Ord(v)
    <3>1. next # None /\ next \in K
      BY <1>7, <2>3
    <3>2. ASSUME NEW k \in K PROVE <<k, next>> \in Ord(t) <=> k \notin later
      <4>1. ASSUME k \notin later PROVE <<k, next>> \in Ord(t)
        <5>1. <<k, c>> \in Ord(v) /\ <<c, next>> \in Ord(v)
          BY <1>7, <1>9, <2>3, <4>1
        <5> QED BY <1>12, <1>13, <3>1, <5>1
      <4>2. ASSUME k \in later PROVE <<k, next>> \notin Ord(t)
        <5>1. k = next \/ <<next, k>> \in Ord(t)
          BY <1>13, <2>3, <3>1, <4>2
        <5> QED BY <1>12, <5>1
      <4> QED BY <4>1, <4>2
    <3> QED BY <2>1, <3>1, <3>2
  <2> QED BY <1>10, <1>11, <2>2, <2>3 DEF IsFirst
<1>15. IsLast(t, Earlier(t, p, {}, next), prev)
  <2>1. \/ prev = None /\ K \ later = {}
        \/ prev \in K \ later /\ \A y \in (K \ later) \ {prev} : <<y, prev>> \in Ord(v)
    BY <1>10, <1>11 DEF IsLast
  <2>2. \/ prev = None /\ K \ later = {}
        \/ prev \in K \ later /\ \A y \in (K \ later) \ {prev} : <<y, prev>> \in Ord(t)
    BY <1>13, <2>1
  <2> QED BY <1>14, <2>2 DEF IsLast
<1>16. ToSet(step.removed) = {} /\ ToSet(step.added) = {c}
  BY <1>5, OneArgument DEF ToSet
<1>17. Gap(t, p, {}, next)
  <2>1. next \in K \cup {None}
    BY <1>7, <1>10, <1>11 DEF IsFirst
  <2> QED BY <2>1 DEF Gap
<1>18. Goes(t, v, p, {}, step.added, next)
  <2>1. step.added \in Seq(Node) /\ IsInjective(step.added)
    BY <1>5, OneArgument
  <2>2. \A a, b : ~Precedes(step.added, a, b)
    BY <1>5 DEF Precedes
  <2>3. \A a, b : <<a, b>> \in Ord(t) => a # c /\ b # c
    <3>1. ASSUME NEW a, NEW b, <<a, b>> \in Ord(t) PROVE t.parent[a] \in Node /\ t.parent[b] \in Node
      BY <3>1, OneOrder
    <3> QED BY <1>7, <3>1
  <2>4. \A n \in Node : v.parent[n] = IF n \in {c} THEN p ELSE IF n \in {} THEN None ELSE t.parent[n]
    BY <1>9
  <2>5. K \ (K \ later) = later
    BY <1>7
  <2>6. ASSUME NEW a, NEW b
        PROVE  <<a, b>> \in Ord(v) <=> \/ <<a, b>> \in Ord(t)
                                       \/ a \in K \ later /\ b \in {c}
                                       \/ a \in {c} /\ b \in K \ (K \ later)
    BY <1>7, <1>9, <2>3, <2>5
  <2> HIDE DEF K
  <2> QED BY <1>9, <1>14, <1>16, <2>1, <2>2, <2>4, <2>6 DEF Goes, K
<1>19. /\ Gap(t, p, ToSet(step.removed), step.next)
       /\ Goes(t, v, p, ToSet(step.removed), step.added, step.next)
       /\ IsLast(t, Earlier(t, p, ToSet(step.removed), step.next), step.prev)
  BY <1>5, <1>15, <1>16, <1>17, <1>18
<1> QED
  BY <1>1, <1>4, <1>5, <1>19, Recorded DEF u

\* append_child and insert_before.
LEMMA InsertOneTold ==
  ASSUME NEW t, Fit(t), Told(t), NEW p \in Node, NEW c \in Node, NEW ref
  PROVE  Told(InsertOne(t, p, c, ref, TRUE))
<1>1. Told(Detach(t, c, TRUE)) /\ Parted(t, Detach(t, c, TRUE), {c})
  BY DetachTold, DetachParts
<1>2. Fit(Detach(t, c, TRUE)) /\ Detach(t, c, TRUE).parent[c] = None
  BY <1>1 DEF Parted
<1> QED
  BY <1>1, <1>2, InsertDetachedTold DEF InsertOne

-----------------------------------------------------------------------------
(* The records of insert_nodes and of the text and markup setters.          *)

\* In a list without repetitions there is one way to be ahead.
LEMMA AheadOnce ==
  ASSUME NEW A, NEW s \in Seq(A), IsInjective(s), NEW a, NEW b
  PROVE  /\ Ahead(s, a, b) <=> Precedes(s, a, b)
         /\ AheadUpto(s, Len(s), a, b) <=> Precedes(s, a, b)
<1>1. DOMAIN s = 1..Len(s) /\ \A i, j \in 1..Len(s) : s[i] = s[j] => i = j
  BY DEF IsInjective
<1>2. ToSet(s) = {s[i] : i \in 1..Len(s)} /\ First(s, Len(s)) = {s[i] : i \in 1..Len(s)}
  BY <1>1 DEF ToSet, First
<1>3. Ahead(s, a, b) <=> AheadUpto(s, Len(s), a, b)
  BY <1>1, <1>2 DEF Ahead, AheadUpto
<1>4. Precedes(s, a, b) <=> \E i, j \in 1..Len(s) : i < j /\ s[i] = a /\ s[j] = b
  BY <1>1 DEF Precedes
<1>5. AheadUpto(s, Len(s), a, b) <=> Precedes(s, a, b)
  BY <1>1, <1>2, <1>4 DEF AheadUpto
<1> QED
  BY <1>3, <1>5

\* Nodes that were parentless, put into a gap.
LEMMA MovesGoes ==
  ASSUME NEW t, Fit(t), NEW u, NEW p \in Node, NEW flat \in Seq(Node), IsInjective(flat),
         \A x \in ToSet(flat) : t.parent[x] = None,
         NEW G, NEW ref \in (KidsOf(t, p) \ G) \cup {None},
         Moves(t, u, p, ToSet(flat), flat, ref, G)
  PROVE  Goes(t, u, p, G, flat, ref)
<1> DEFINE M == ToSet(flat)
           K == KidsOf(t, p) \ G
           B == Earlier(t, p, G, ref)
           L == {s \in KidsOf(t, p) \ (M \cup G) :
                   ref \in KidsOf(t, p) \ (M \cup G) /\ (s = ref \/ <<ref, s>> \in Ord(t))}
<1>1. None \notin Node /\ K \subseteq Node /\ \A x \in M : x \notin KidsOf(t, p)
  BY NodeAssumption DEF KidsOf
<1>2. /\ Fit(u)
      /\ \A n \in Node : u.parent[n] = IF n \in M THEN p
                                       ELSE IF n \in G THEN None ELSE t.parent[n]
      /\ ref \notin M =>
           \A a, b : <<a, b>> \in Ord(u) <=>
             \/ <<a, b>> \in Ord(t) /\ a \notin M \cup G /\ b \notin M \cup G
             \/ a \in (KidsOf(t, p) \ (M \cup G)) \ L /\ b \in M
             \/ a \in M /\ b \in L
             \/ a \in M /\ b \in M /\ Ahead(flat, a, b)
  BY DEF Moves
<1>3. KidsOf(t, p) \ (M \cup G) = K
  BY <1>1
<1>4. M \subseteq Node
  BY DEF ToSet
<1>5. ref \notin M
  BY <1>1, <1>4
<1>6. /\ \A a, b : <<a, b>> \in Ord(t) => /\ a \in Node /\ b \in Node /\ a # b /\ <<b, a>> \notin Ord(t)
                                          /\ t.parent[a] \in Node /\ t.parent[b] \in Node
      /\ \A a, b \in KidsOf(t, p) : a # b => <<a, b>> \in Ord(t) \/ <<b, a>> \in Ord(t)
  BY OneOrder DEF KidsOf
<1>7. \A x : x \in L <=> x \in K /\ ref \in K /\ (x = ref \/ <<ref, x>> \in Ord(t))
  BY <1>3
<1>8. \A x : x \in B <=> x \in K /\ (ref = None \/ <<x, ref>> \in Ord(t))
  BY DEF Earlier
<1>9. \A a, b : <<a, b>> \in Ord(t) => a \notin M /\ b \notin M
  <2>1. \A x \in M : t.parent[x] = None
    OBVIOUS
  <2>2. ASSUME NEW a, NEW b, <<a, b>> \in Ord(t)
        PROVE  t.parent[a] \in Node /\ t.parent[b] \in Node
    BY <1>6, <2>2
  <2>3. None \notin Node
    BY <1>1
  <2> HIDE DEF M
  <2> QED BY <2>1, <2>2, <2>3
<1>10. \A a, b : Precedes(flat, a, b) <=> a \in M /\ b \in M /\ Ahead(flat, a, b)
  <2>1. \A a, b : Precedes(flat, a, b) => a \in M /\ b \in M
    BY DEF Precedes, ToSet
  <2>2. \A a, b : Ahead(flat, a, b) <=> Precedes(flat, a, b)
    BY AheadOnce
  <2> QED BY <2>1, <2>2
<1>11. L = K \ B
  <2>1. ref \in K \/ ref = None
    OBVIOUS
  <2> HIDE DEF L, K, B, M
  <2>2. ASSUME NEW x PROVE x \in L <=> x \in K /\ x \notin B
    <3>1. CASE ref = None
      BY <1>1, <1>7, <1>8, <3>1
    <3>2. CASE ref \in K
      <4>1. ref # None
        BY <1>1, <3>2
      <4>2. x \in K /\ x # ref => <<x, ref>> \in Ord(t) \/ <<ref, x>> \in Ord(t)
        BY <1>6, <3>2 DEF K
      <4> QED BY <1>6, <1>7, <1>8, <3>2, <4>1, <4>2
    <3> QED BY <2>1, <3>1, <3>2
  <2> QED BY <2>2
<1>12. K \ L = B
  BY <1>8, <1>11
<1>13. ASSUME NEW a, NEW b
       PROVE  <<a, b>> \in Ord(u) <=> \/ <<a, b>> \in Ord(t) /\ a \notin G /\ b \notin G
                                      \/ a \in B /\ b \in M
                                      \/ a \in M /\ b \in K \ B
                                      \/ Precedes(flat, a, b)
  <2> HIDE DEF L, K, B, M
  <2> QED BY <1>2, <1>3, <1>5, <1>9, <1>10, <1>11, <1>12
<1> QED
  BY <1>2, <1>13 DEF Goes

\* A fragment is emptied, and its record lists what it held.
LEMMA EmptiedTold ==
  ASSUME NEW t, Fit(t), Told(t), NEW n \in Node
  PROVE  Told(NoteEmptied(UnlinkAll(t, n, t.children[n]), n, t.children[n]))
<1> DEFINE kids == t.children[n]
           u == UnlinkAll(t, n, kids)
           step == Step("batch", n, <<>>, kids, None, None, TRUE)
<1>1. /\ kids \in Seq(Node) /\ Len(kids) \in Nat /\ ToSet(kids) = KidsOf(t, n) /\ Stepped(t)
  BY DEF Fit, Shaped, Paired, Told
<1>2. CASE kids = <<>>
  <2>1. PICK f : UnlinkRounds(t, n, kids, f)
    BY <1>1, UnlinkAllRuns
  <2>2. u = t
    BY <1>2, <2>1 DEF UnlinkRounds
  <2> QED BY <1>2, <2>2 DEF NoteEmptied
<1>3. CASE kids # <<>>
  <2>1. Parted(t, u, KidsOf(t, n))
    BY <1>1, UnlinkAllParts
  <2>2. Quietly(t, u)
    BY <1>1, UnlinkAllQuietly
  <2>3. /\ step.logged /\ step.at = n /\ step.added = <<>> /\ step.removed = kids
        /\ step.prev = None /\ step.next = None
    BY DEF Step
  <2>4. Told(NoteEmptied(u, n, kids)) <=> Told(Note(u, step))
    BY <1>3 DEF NoteEmptied
  <2>5. ToSet(step.removed) = KidsOf(t, n) /\ ToSet(step.added) = {}
    <3>1. ToSet(step.removed) = KidsOf(t, n)
      BY <1>1, <2>3
    <3>2. ToSet(<<>>) = {}
      BY DEF ToSet
    <3> QED BY <2>3, <3>1, <3>2
  <2> HIDE DEF u, step, kids
  <2>6. Earlier(t, n, KidsOf(t, n), None) = {}
    BY DEF Earlier
  <2>7. Gap(t, n, KidsOf(t, n), None)
    BY <2>6 DEF Gap
  <2>8. Goes(t, u, n, KidsOf(t, n), step.added, None)
    <3>1. step.added \in Seq(Node) /\ IsInjective(step.added) /\ \A a, b : ~Precedes(step.added, a, b)
      BY <2>3 DEF IsInjective, Precedes
    <3> QED BY <2>1, <2>5, <2>6, <3>1 DEF Goes, Parted
  <2>9. IsLast(t, {}, None)
    BY DEF IsLast
  <2>10. /\ Gap(t, n, ToSet(step.removed), step.next)
         /\ Goes(t, u, n, ToSet(step.removed), step.added, step.next)
         /\ IsLast(t, Earlier(t, n, ToSet(step.removed), step.next), step.prev)
    BY <2>3, <2>5, <2>6, <2>7, <2>8, <2>9
  <2>11. Told(Note(u, step))
    BY <2>2, <2>3, <2>10, Recorded
  <2> QED BY <2>4, <2>11 DEF u, kids
<1> QED
  BY <1>2, <1>3

\* One record tells that all children were replaced.
LEMMA RewriteTold ==
  ASSUME NEW t, Fit(t), Told(t), NEW h \in Node, NEW new \in Seq(Node), IsInjective(new),
         \A n \in ToSet(new) : t.parent[n] = None
  PROVE  Told(Rewrite(t, h, new))
<1> DEFINE old == t.children[h]
           N == ToSet(new)
           R == ToSet(old)
           v == [t EXCEPT !.parent = [n \in Node |-> IF n \in ToSet(new) THEN h
                                                     ELSE IF n \in ToSet(old) THEN None
                                                     ELSE @[n]],
                          !.children[h] = new]
           step == Step("rewrite", h, new, old, None, None, new # <<>> \/ old # <<>>)
           u == Rewrite(t, h, new)
<1>1. u = Note(v, step)
  BY DEF Rewrite
<1>2. /\ Whole(t) /\ Stepped(t)
      /\ t.children \in [Node -> Seq(Node)] /\ R = KidsOf(t, h)
  BY DEF Fit, Shaped, Paired, Told
<1>3. /\ v.steps = t.steps /\ Whole(v) /\ v.children = [t.children EXCEPT ![h] = new]
  BY <1>2 DEF Whole, Fields
<1>4. Quietly(t, v)
  <2>1. Stepped(v)
    BY <1>2, <1>3 DEF Stepped
  <2> QED BY <1>3, <2>1, SameTold
<1>5. /\ step.logged <=> new # <<>> \/ old # <<>>
      /\ step.at = h /\ step.added = new /\ step.removed = old
      /\ step.prev = None /\ step.next = None
  BY DEF Step
<1>6. Moves(t, u, h, N, new, None, R)
  BY RewriteMoves
<1> HIDE DEF v, u, step
<1>7. CASE ~(new # <<>> \/ old # <<>>)
  <2>1. v.children = t.children
    BY <1>2, <1>3, <1>7
  <2>2. Quietly(v, Note(v, step))
    BY <1>4, <1>5, <1>7, NoteQuietly DEF Quietly
  <2>3. Note(v, step).children = v.children
    BY <1>3 DEF Note, Whole, Fields
  <2>4. Tells(children, RecordsOf(t.steps), t.children)
    BY DEF Told
  <2>5. Stepped(Note(v, step)) /\ RecordsOf(Note(v, step).steps) = RecordsOf(t.steps)
    BY <1>4, <2>2 DEF Quietly
  <2> QED BY <1>1, <2>1, <2>3, <2>4, <2>5 DEF Told, u
<1>8. CASE new # <<>> \/ old # <<>>
  <2>1. v.parent = u.parent /\ v.children = u.children
    BY <1>1, <1>3 DEF Note, Whole, Fields
  <2>2. Fit(v) /\ Ord(v) = Ord(u)
    BY <1>3, <1>6, <2>1, TreeFit DEF Moves
  <2>3. Moves(t, v, h, N, new, None, R)
    BY <1>6, <2>1, <2>2 DEF Moves
  <2>4. Goes(t, v, h, R, new, None)
    BY <2>3, MovesGoes
  <2>5. Earlier(t, h, R, None) = {}
    BY <1>2 DEF Earlier
  <2>6. Gap(t, h, R, None) /\ IsLast(t, {}, None)
    BY <1>2, <2>5 DEF Gap, IsLast
  <2>7. /\ Gap(t, h, ToSet(step.removed), step.next)
        /\ Goes(t, v, h, ToSet(step.removed), step.added, step.next)
        /\ IsLast(t, Earlier(t, h, ToSet(step.removed), step.next), step.prev)
    BY <1>5, <2>4, <2>5, <2>6
  <2> HIDE DEF R, N
  <2> QED BY <1>1, <1>4, <1>5, <1>8, <2>7, Recorded DEF u
<1> QED
  BY <1>7, <1>8

\* The last loop of insert_nodes, after the nodes of gone have left.
LEMMA InsertAllGoes ==
  ASSUME NEW t, Fit(t), NEW p \in Node, NEW G, NEW v, Parted(t, v, G),
         NEW A \in SUBSET Node, Closed(v, A), p \in A,
         NEW flat \in Seq(Node), IsInjective(flat),
         \A x \in ToSet(flat) : t.parent[x] = None /\ x \notin A,
         NEW ref \in (KidsOf(t, p) \ G) \cup {None}
  PROVE  Goes(t, InsertAll(v, p, flat, ref), p, G, flat, ref)
<1> DEFINE M == ToSet(flat)
           K == KidsOf(t, p) \ G
           B == Earlier(t, p, G, ref)
           L == LaterThan(v, p, None, ref)
           u == InsertAll(v, p, flat, ref)
<1>1. /\ Fit(v) /\ \A n \in Node : v.parent[n] = IF n \in G THEN None ELSE t.parent[n]
      /\ \A a, b : <<a, b>> \in Ord(v) <=> <<a, b>> \in Ord(t) /\ a \notin G /\ b \notin G
  BY DEF Parted
<1>2. None \notin Node /\ M \subseteq Node /\ KidsOf(v, p) = K
  BY <1>1, NodeAssumption DEF KidsOf, ToSet
<1>3. \A x \in M : v.parent[x] = None /\ x \notin A
  BY <1>1, <1>2
<1>4. InsertedUpto(v, p, flat, ref, Len(flat), u)
  BY <1>1, <1>3, InsertAllInserts
<1> HIDE DEF u
<1>5. First(flat, Len(flat)) = M
  BY DEF First, ToSet
<1>6. /\ Fit(u)
      /\ \A n \in Node : u.parent[n] = IF n \in M THEN p ELSE v.parent[n]
      /\ ref \notin M =>
            \A a, b : <<a, b>> \in Ord(u) <=>
              \/ <<a, b>> \in Ord(v)
              \/ a \in KidsOf(v, p) \ L /\ b \in M
              \/ a \in M /\ b \in L
              \/ a \in M /\ b \in M /\ AheadUpto(flat, Len(flat), a, b)
  BY <1>4, <1>5 DEF InsertedUpto
<1>7. ref \notin M
  BY <1>2 DEF KidsOf
<1>8. /\ \A a, b : <<a, b>> \in Ord(t) => a \in Node /\ b \in Node /\ a # b /\ <<b, a>> \notin Ord(t)
      /\ \A a, b \in KidsOf(t, p) : a # b => <<a, b>> \in Ord(t) \/ <<b, a>> \in Ord(t)
  BY OneOrder DEF KidsOf
<1>9. \A a, b : Precedes(flat, a, b) <=> a \in M /\ b \in M /\ AheadUpto(flat, Len(flat), a, b)
  <2>1. \A a, b : Precedes(flat, a, b) => a \in M /\ b \in M
    BY DEF Precedes, ToSet
  <2>2. \A a, b : AheadUpto(flat, Len(flat), a, b) <=> Precedes(flat, a, b)
    BY AheadOnce
  <2> QED BY <2>1, <2>2
<1>10. L = K \ B /\ K \ L = B
  <2>1. \A x : x \in L <=> x \in K /\ x # None /\ (x = ref \/ <<ref, x>> \in Ord(v))
    BY <1>2 DEF LaterThan
  <2>2. \A x : x \in B <=> x \in K /\ (ref = None \/ <<x, ref>> \in Ord(t))
    BY DEF Earlier
  <2>3. \A x : x \in K <=> x \in KidsOf(t, p) /\ x \notin G
    OBVIOUS
  <2>4. \A x : x \in K => x \in Node
    BY DEF KidsOf
  <2>5. ref \in K \/ ref = None
    OBVIOUS
  <2> HIDE DEF K, B, L
  <2>6. ASSUME NEW x \in K PROVE x \in L <=> x \notin B
    <3>1. CASE ref = None
      BY <1>1, <1>2, <1>8, <2>1, <2>2, <2>4, <2>6, <3>1
    <3>2. CASE ref \in K
      <4>1. ref # None /\ x # None
        BY <1>2, <2>4, <2>6, <3>2
      <4>2. <<ref, x>> \in Ord(v) <=> <<ref, x>> \in Ord(t)
        BY <1>1, <2>3, <2>6, <3>2
      <4>3. x # ref => <<x, ref>> \in Ord(t) \/ <<ref, x>> \in Ord(t)
        BY <1>8, <2>3, <2>6, <3>2
      <4> QED BY <1>8, <2>1, <2>2, <2>6, <4>1, <4>2, <4>3
    <3> QED BY <2>5, <3>1, <3>2
  <2> QED BY <2>1, <2>2, <2>6
<1>11. ASSUME NEW a, NEW b
       PROVE  <<a, b>> \in Ord(u) <=> \/ <<a, b>> \in Ord(t) /\ a \notin G /\ b \notin G
                                      \/ a \in B /\ b \in M
                                      \/ a \in M /\ b \in K \ B
                                      \/ Precedes(flat, a, b)
  <2> HIDE DEF L, K, B, M
  <2> QED BY <1>1, <1>2, <1>6, <1>7, <1>9, <1>10
<1>12. \A n \in Node : u.parent[n] = IF n \in M THEN p ELSE IF n \in G THEN None ELSE t.parent[n]
  BY <1>1, <1>6
<1>13. \A x \in M : t.parent[x] = None
  OBVIOUS
<1> QED
  BY <1>6, <1>11, <1>12, <1>13 DEF Goes, u

\* The second half of insert_nodes: its one record tells the removals and the
\* insertions, though neither pushed one.
LEMMA InsertFlatTold ==
  ASSUME NEW t, Fit(t), Told(t), NEW p \in Node, NEW gone \in Seq(Node),
         NEW A \in SUBSET Node, Closed(UnlinkAll(t, p, gone), A), p \in A,
         NEW flat \in Seq(Node), IsInjective(flat),
         \A x \in ToSet(flat) : t.parent[x] = None /\ x \notin A,
         NEW ref, Gap(t, p, ToSet(gone), ref)
  PROVE  Told(InsertFlat(UnlinkAll(t, p, gone), p, flat, gone, ref))
<1> DEFINE G == ToSet(gone)
           v == UnlinkAll(t, p, gone)
           u == InsertAll(v, p, flat, ref)
           prev == IF ref = None THEN LastOf(v.children[p]) ELSE PreviousSibling(v, ref)
           step == Step("batch", p, flat, gone, prev, ref, TRUE)
<1>1. Len(gone) \in Nat /\ Len(flat) \in Nat /\ G \subseteq KidsOf(t, p) /\ Stepped(t)
      /\ ref \in (KidsOf(t, p) \ G) \cup {None}
  BY DEF Gap, Told
<1>2. InsertFlat(v, p, flat, gone, ref) = IF flat = <<>> /\ gone = <<>> THEN u ELSE Note(u, step)
  BY DEF InsertFlat, NoteNodes
<1>3. Quietly(t, v) /\ Quietly(v, u)
  BY <1>1, UnlinkAllQuietly, InsertAllQuietly DEF Quietly
<1>4. Parted(t, v, G)
  BY <1>1, UnlinkAllParts
<1>5. Goes(t, u, p, G, flat, ref)
  BY <1>1, <1>4, InsertAllGoes
<1>6. CASE flat = <<>> /\ gone = <<>>
  <2>1. PICK f : UnlinkRounds(t, p, gone, f)
    BY <1>1, UnlinkAllRuns
  <2>2. v = t
    BY <1>6, <2>1 DEF UnlinkRounds
  <2>3. PICK e : InsertRounds(v, p, flat, ref, e)
    BY <1>1, InsertAllRuns
  <2>4. u = v
    BY <1>6, <2>3 DEF InsertRounds
  <2> QED BY <1>2, <1>6, <2>2, <2>4
<1>7. CASE ~(flat = <<>> /\ gone = <<>>)
  <2>1. /\ step.logged /\ step.at = p /\ step.added = flat /\ step.removed = gone
        /\ step.prev = prev /\ step.next = ref
    BY DEF Step
  <2> HIDE DEF step, u
  <2>2. /\ Fit(v) /\ \A n \in Node : v.parent[n] = IF n \in G THEN None ELSE t.parent[n]
        /\ \A a, b : <<a, b>> \in Ord(v) <=> <<a, b>> \in Ord(t) /\ a \notin G /\ b \notin G
    BY <1>4 DEF Parted
  <2>3. KidsOf(v, p) = KidsOf(t, p) \ G /\ None \notin Node
    BY <2>2, NodeAssumption DEF KidsOf
  <2> HIDE DEF v
  <2>4. IsLast(v, Earlier(t, p, G, ref), prev)
    <3>1. CASE ref = None
      <4>1. Earlier(t, p, G, ref) = KidsOf(v, p)
        BY <2>3, <3>1 DEF Earlier
      <4> QED BY <2>2, <3>1, <4>1, LastOfKids
    <3>2. CASE ref # None
      <4>1. ref \in KidsOf(t, p) \ G /\ ref \in Node
        BY <1>1, <3>2 DEF KidsOf
      <4>2. ASSUME NEW k PROVE k \in Earlier(t, p, G, ref) <=> k \in Precede(v, ref)
        <5>1. <<k, ref>> \in Ord(t) => k \in KidsOf(t, p)
          <6>1. <<k, ref>> \in Ord(t) => k \in Node /\ t.parent[ref] = t.parent[k]
            BY OneOrder
          <6> QED BY <4>1, <6>1 DEF KidsOf
        <5>2. k \in Earlier(t, p, G, ref) <=> k \in KidsOf(t, p) /\ k \notin G /\ <<k, ref>> \in Ord(t)
          BY <3>2 DEF Earlier
        <5>3. k \in Precede(v, ref) <=> k \in Node /\ <<k, ref>> \in Ord(v)
          BY DEF Precede
        <5>4. k \in KidsOf(t, p) => k \in Node
          BY DEF KidsOf
        <5> HIDE DEF G
        <5> QED BY <2>2, <4>1, <5>1, <5>2, <5>3, <5>4
      <4>3. Earlier(t, p, G, ref) = Precede(v, ref)
        BY <4>2
      <4>4. IsLast(v, Precede(v, ref), PreviousSibling(v, ref))
        BY <2>2, <4>1, PreviousIs
      <4> QED BY <3>2, <4>3, <4>4
    <3> QED BY <3>1, <3>2
  <2>5. IsLast(t, Earlier(t, p, G, ref), prev)
    BY <2>2, <2>4 DEF IsLast
  <2>6. Quietly(t, u)
    BY <1>3 DEF Quietly
  <2>7. /\ Gap(t, p, ToSet(step.removed), step.next)
        /\ Goes(t, u, p, ToSet(step.removed), step.added, step.next)
        /\ IsLast(t, Earlier(t, p, ToSet(step.removed), step.next), step.prev)
    BY <1>5, <2>1, <2>5
  <2>8. Told(Note(u, step))
    <3> HIDE DEF G, prev
    <3> QED BY <2>1, <2>6, <2>7, Recorded
  <2> QED BY <1>2, <1>7, <2>8 DEF v
<1> QED
  BY <1>6, <1>7

-----------------------------------------------------------------------------
(* The first loop of insert_nodes.                                          *)

\* Each round of the first loop tells the removals it made.
LEMMA TakingTold ==
  ASSUME NEW g, Fit(g.t), Told(g.t), NEW n \in Node
  PROVE  Told(Taking(g, n).t)
<1>1. CASE n \in Fragment
  BY <1>1, EmptiedTold DEF Taking
<1>2. CASE n \notin Fragment
  BY <1>2, DetachTold DEF Taking
<1> QED
  BY <1>1, <1>2

\* Of arguments that name no node twice, none brings what an earlier one did.
LEMMA BringsNew ==
  ASSUME TreeListsInv, NEW ns \in Seq(Node), ~Repeats(ns), NEW k \in Nat, k + 1 \in 1..Len(ns),
         NEW g, Gathered(Tree, ns, k, g)
  PROVE  Brings(g.t, ns[k + 1]) \cap ToSet(g.flat) = {}
<1> DEFINE n == ns[k + 1]
           M == Brought(Tree, ns, k)
<1>1. /\ DOMAIN ns = 1..Len(ns) /\ Len(ns) \in Nat /\ n \in Node
      /\ \A i \in 1..k : i \in 1..Len(ns) /\ i < k + 1 /\ i # k + 1
  OBVIOUS
<1>2. ToSet(g.flat) = M /\ \A x \in M : x \in Node => g.t.parent[x] = None
  BY DEF Gathered, Parted
<1>3. Topped(Tree) /\ None \notin Node
  BY NodeAssumption DEF TreeListsInv, Ready
<1>4. /\ \A i \in 1..k : ns[i] # n
      /\ \A i \in 1..k : ns[i] \in Fragment => parent[n] # ns[i]
  <2>1. \A i, j \in DOMAIN ns : ns[i] = ns[j] => i = j
    BY DEF Repeats, IsInjective
  <2>2. \A i, j \in DOMAIN ns : i < j /\ ns[i] \in Fragment => parent[ns[j]] # ns[i]
    BY DEF Repeats
  <2> QED BY <1>1, <2>1, <2>2
<1>5. SUFFICES ASSUME NEW x \in Brings(g.t, n), x \in M PROVE FALSE
  BY <1>2
<1>6. CASE n \in Fragment
  <2>1. x \in Node /\ g.t.parent[x] = n
    BY <1>6 DEF Brings, KidsOf
  <2> QED BY <1>1, <1>2, <1>3, <1>5, <2>1
<1>7. CASE n \notin Fragment
  <2>1. x = n
    BY <1>7 DEF Brings
  <2>2. PICK i \in 1..k : n \in Brings(Tree, ns[i])
    BY <1>5, <2>1 DEF Brought
  <2>3. ns[i] \in Fragment => parent[n] = ns[i]
    BY <2>2, TreeFields DEF Brings, KidsOf
  <2>4. ns[i] \notin Fragment => n = ns[i]
    BY <2>2 DEF Brings
  <2> QED BY <1>4, <2>3, <2>4
<1> QED
  BY <1>6, <1>7

\* Before its first step a call has told everything.
LEMMA TreeTold ==
  Stepped(Tree) /\ Told(Tree)
<1>1. Tree.steps = <<>> /\ Tree.children = children /\ Whole(Tree)
  BY TreeFields DEF Tree
<1>2. Stepped(Tree)
  <2>1. <<>> \in Seq({})
    OBVIOUS
  <2> QED BY <1>1, <2>1 DEF Stepped
<1> QED
  BY <1>1, <1>2, NoRecords, TellsNothing DEF Told

\* The first loop has told everything, and gathers no node twice.
LEMMA GatherTold ==
  ASSUME TreeListsInv, NEW ns \in Seq(Node), ~Repeats(ns)
  PROVE  Told(Gather(Tree, ns).t) /\ IsInjective(Gather(Tree, ns).flat)
<1>1. Len(ns) \in Nat /\ \A k \in 1..Len(ns) : ns[k] \in Node
  OBVIOUS
<1>2. PICK f : GatherRounds(Tree, ns, f)
  BY <1>1, GatherRuns
<1>3. /\ f[0] = [t |-> Tree, flat |-> <<>>]
      /\ \A k \in 1..Len(ns) : f[k] = Taking(f[k - 1], ns[k])
      /\ Gather(Tree, ns) = f[Len(ns)]
  BY <1>2 DEF GatherRounds
<1>4. Fit(Tree) /\ Topped(Tree)
  BY DEF TreeListsInv, Ready
<1> DEFINE T == {k \in Nat : k <= Len(ns) => /\ Gathered(Tree, ns, k, f[k])
                                              /\ Told(f[k].t) /\ IsInjective(f[k].flat)}
<1>5. 0 \in T
  <2>1. Brought(Tree, ns, 0) = {}
    BY DEF Brought
  <2>2. f[0].t = Tree /\ f[0].flat = <<>>
    BY <1>3
  <2>3. Parted(Tree, Tree, {})
    BY <1>4, NothingParts
  <2>4. <<>> \in Seq(Node) /\ ToSet(<<>>) = {} /\ IsInjective(<<>>)
    BY DEF ToSet, IsInjective
  <2>5. Gathered(Tree, ns, 0, f[0])
    BY <2>1, <2>2, <2>3, <2>4 DEF Gathered
  <2> QED BY <2>2, <2>4, <2>5, TreeTold
<1>6. ASSUME NEW k \in Nat, k \in T PROVE k + 1 \in T
  <2>1. SUFFICES ASSUME k + 1 <= Len(ns)
                 PROVE  /\ Gathered(Tree, ns, k + 1, f[k + 1])
                        /\ Told(f[k + 1].t) /\ IsInjective(f[k + 1].flat)
    OBVIOUS
  <2>2. /\ k + 1 \in 1..Len(ns) /\ (k + 1) - 1 = k /\ k <= Len(ns)
        /\ \A i \in 1..(k + 1) : i \in 1..Len(ns)
    BY <1>1, <2>1
  <2>3. /\ f[k + 1] = Taking(f[k], ns[k + 1]) /\ Gathered(Tree, ns, k, f[k])
        /\ Told(f[k].t) /\ IsInjective(f[k].flat)
    BY <1>3, <1>6, <2>2
  <2>4. \A i \in 1..(k + 1) : ns[i] \in Node
    BY <1>1, <2>2
  <2>5. Gathered(Tree, ns, k + 1, f[k + 1])
    BY <1>4, <2>3, <2>4, GatheredNext
  <2>6. Fit(f[k].t) /\ f[k].flat \in Seq(Node)
    BY <2>3 DEF Gathered, Parted
  <2>7. ns[k + 1] \in Node
    BY <1>1, <2>2
  <2>8. Told(f[k + 1].t)
    BY <2>3, <2>6, <2>7, TakingTold
  <2>9. IsInjective(f[k + 1].flat)
    <3>1. PICK list \in Seq(Node) :
            /\ Taking(f[k], ns[k + 1]).flat = f[k].flat \o list
            /\ IsInjective(list) /\ ToSet(list) = Brings(f[k].t, ns[k + 1])
      BY <2>6, <2>7, TakingParts
    <3>2. ToSet(f[k].flat) \cap ToSet(list) = {}
      BY <2>2, <2>3, <3>1, BringsNew
    <3> QED BY <2>3, <2>6, <3>1, <3>2, JoinOrder
  <2> QED BY <2>5, <2>8, <2>9
<1>7. Nat \subseteq T
  <2> HIDE DEF T
  <2> QED BY <1>5, <1>6, Counting
<1> QED
  BY <1>1, <1>3, <1>7
-----------------------------------------------------------------------------
(* insert_nodes.                                                            *)

\* Of the children of p, those of R that M does not hold are next to each
\* other and right before ref.
GapPast(t, p, M, R, ref) ==
  LET K == KidsOf(t, p) \ (M \cup R)
  IN  /\ ref \in K \cup {None}
      /\ \A c \in R \ M : /\ ref = None \/ <<c, ref>> \in Ord(t)
                          /\ \A k \in K : ref = None \/ <<k, ref>> \in Ord(t) => <<k, c>> \in Ord(t)

\* insert_nodes tells all it does, when the replaced nodes end up beside the reference.
LEMMA InsertNodesTold ==
  ASSUME TreeListsInv, NEW p \in Node, NEW ns \in Seq(Node), Enters(Tree, p, ns), ~Repeats(ns),
         NEW anchor, NEW replaced \in Seq(Node), ToSet(replaced) \subseteq KidsOf(Tree, p),
         GapPast(Tree, p, Brought(Tree, ns, Len(ns)), ToSet(replaced),
                 Reference(Gather(Tree, ns).t, p, anchor))
  PROVE  Told(InsertNodes(Tree, p, ns, anchor, replaced))
<1> DEFINE g == Gather(Tree, ns)
           M == Brought(Tree, ns, Len(ns))
           R == ToSet(replaced)
           ref == Reference(g.t, p, anchor)
           gone == Kept(replaced, {c \in Node : g.t.parent[c] = p})
           v == UnlinkAll(g.t, p, gone)
<1>1. Ready(Tree)
  BY DEF TreeListsInv
<1>2. Told(g.t) /\ IsInjective(g.flat)
  BY GatherTold
<1>3. PICK A : LoopStart(Tree, p, ns, anchor, replaced, v, A) /\ Gathered(Tree, ns, Len(ns), g)
  BY <1>1, LoopStarts DEF Cleared
<1>4. /\ Parted(Tree, g.t, M) /\ g.flat \in Seq(Node) /\ ToSet(g.flat) = M
  BY <1>3 DEF Gathered
<1>5. /\ A \in SUBSET Node /\ p \in A /\ Closed(v, A)
      /\ \A x \in ToSet(g.flat) : x \notin A
  BY <1>3 DEF LoopStart
<1>6. InsertNodes(Tree, p, ns, anchor, replaced) = InsertFlat(v, p, g.flat, gone, ref)
  BY DEF InsertNodes, InsertReplacing, InsertGathered
<1>7. GapPast(Tree, p, M, R, ref) /\ R \subseteq KidsOf(Tree, p)
  OBVIOUS
<1> HIDE DEF g, M, ref
<1>8. gone \in Seq(Node) /\ ToSet(gone) = R \cap {c \in Node : g.t.parent[c] = p}
  BY KeptPicks, KeptMembers
<1> HIDE DEF gone, R
<1>9. /\ Fit(g.t) /\ \A n \in Node : g.t.parent[n] = IF n \in M THEN None ELSE Tree.parent[n]
      /\ \A a, b : <<a, b>> \in Ord(g.t) <=> <<a, b>> \in Ord(Tree) /\ a \notin M /\ b \notin M
  BY <1>4 DEF Parted
<1>10. \A x \in ToSet(g.flat) : g.t.parent[x] = None
  <2>1. ToSet(g.flat) \subseteq Node
    BY <1>4 DEF ToSet
  <2> QED BY <1>4, <1>9, <2>1
<1>11. KidsOf(g.t, p) = KidsOf(Tree, p) \ M
  BY <1>9, NodeAssumption DEF KidsOf
<1>12. ToSet(gone) = R \ M
  <2>1. R \subseteq Node
    BY <1>7 DEF KidsOf
  <2>2. ToSet(gone) = R \cap KidsOf(g.t, p)
    BY <1>8 DEF KidsOf
  <2> QED BY <1>7, <1>11, <2>1, <2>2
<1>13. Gap(g.t, p, ToSet(gone), ref)
  <2> DEFINE K == KidsOf(Tree, p) \ (M \cup R)
  <2>1. KidsOf(g.t, p) \ ToSet(gone) = K
    BY <1>11, <1>12
  <2>2. /\ ref \in K \cup {None}
        /\ \A c \in R \ M : /\ ref = None \/ <<c, ref>> \in Ord(Tree)
                            /\ \A k \in K : ref = None \/ <<k, ref>> \in Ord(Tree) => <<k, c>> \in Ord(Tree)
    BY <1>7 DEF GapPast
  <2>3. ToSet(gone) \subseteq KidsOf(g.t, p)
    BY <1>7, <1>11, <1>12
  <2>4. \A k : k \in Earlier(g.t, p, ToSet(gone), ref) <=> k \in K /\ (ref = None \/ <<k, ref>> \in Ord(g.t))
    BY <2>1 DEF Earlier
  <2>5. \A k \in K : k \notin M
    OBVIOUS
  <2> HIDE DEF K
  <2>6. ASSUME NEW c \in ToSet(gone)
        PROVE  /\ ref = None \/ <<c, ref>> \in Ord(g.t)
               /\ \A k \in Earlier(g.t, p, ToSet(gone), ref) : <<k, c>> \in Ord(g.t)
    <3>1. c \in R \ M
      BY <1>12
    <3>2. ref = None \/ <<c, ref>> \in Ord(g.t)
      BY <1>9, <2>2, <2>5, <3>1
    <3>3. ASSUME NEW k \in Earlier(g.t, p, ToSet(gone), ref) PROVE <<k, c>> \in Ord(g.t)
      <4>1. k \in K /\ (ref = None \/ <<k, ref>> \in Ord(g.t))
        BY <2>4
      <4>2. ref = None \/ <<k, ref>> \in Ord(Tree)
        BY <1>9, <4>1
      <4>3. <<k, c>> \in Ord(Tree)
        BY <2>2, <3>1, <4>1, <4>2
      <4> QED BY <1>9, <2>5, <3>1, <4>1, <4>3
    <3> QED BY <3>2, <3>3
  <2> QED BY <2>1, <2>2, <2>3, <2>6 DEF Gap
<1>14. Told(InsertFlat(v, p, g.flat, gone, ref))
  BY <1>2, <1>4, <1>5, <1>8, <1>9, <1>10, <1>13, InsertFlatTold
<1> QED
  BY <1>6, <1>14

-----------------------------------------------------------------------------
(* The handlers.                                                            *)

\* insert_nodes before a child that stays, or at the end.
LEMMA InsertingTold ==
  ASSUME TreeListsInv, NEW p \in Node, NEW ns \in Seq(Node), Enters(Tree, p, ns), ~Repeats(ns),
         NEW anchor, NEW ref, ref = Reference(Gather(Tree, ns).t, p, anchor),
         ref = None \/ ref \in KidsOf(Tree, p) \ ToSet(ns)
  PROVE  Told(InsertNodes(Tree, p, ns, anchor, <<>>))
<1>1. <<>> \in Seq(Node) /\ ToSet(<<>>) = {}
  BY DEF ToSet
<1>2. ref = None \/ ref \in KidsOf(Tree, p) \ Brought(Tree, ns, Len(ns))
  BY MovedKids
<1>3. GapPast(Tree, p, Brought(Tree, ns, Len(ns)), ToSet(<<>>), ref)
  <2> DEFINE M == Brought(Tree, ns, Len(ns))
  <2> HIDE DEF M
  <2>1. GapPast(Tree, p, M, {}, ref)
    BY <1>2 DEF GapPast, M
  <2> QED BY <1>1, <2>1 DEF M
<1> QED
  BY <1>1, <1>3, InsertNodesTold

\* h is a child of p and ns may enter p; no node is named twice.
Asked(h, p, ns) ==
  /\ h \in Node /\ p \in Node /\ p = parent[h]
  /\ ns \in Seq(Node) /\ Enters(Tree, p, ns) /\ ~Repeats(ns)

\* before tells all it does.
LEMMA BeforeTold ==
  ASSUME TreeListsInv, NEW h, NEW p, NEW ns, Asked(h, p, ns)
  PROVE  Told(BeforeTree(h, ns))
<1> DEFINE anchor == AnchorAfter(ViablePrevious(h, ns))
           ref == Reference(Gather(Tree, ns).t, p, anchor)
<1>1. Gathered(Tree, ns, Len(ns), Gather(Tree, ns))
  BY GatherGathers DEF TreeListsInv, Ready, Asked
<1>2. IsFirst(Tree, {s \in KidsOf(Tree, p) \ ToSet(ns) : s = h \/ <<h, s>> \in Ord(Tree)}, ref)
  BY <1>1, BeforeReference DEF Asked
<1>3. BeforeTree(h, ns) = InsertNodes(Tree, p, ns, anchor, <<>>)
  BY DEF BeforeTree, Asked
<1> HIDE DEF anchor
<1>4. ref = None \/ ref \in KidsOf(Tree, p) \ ToSet(ns)
  BY <1>2 DEF IsFirst
<1> QED
  BY <1>3, <1>4, InsertingTold DEF Asked

\* The place that after and replaceWith look for.
LEMMA ViableIs ==
  ASSUME TreeListsInv, NEW h, NEW p, NEW ns, Asked(h, p, ns)
  PROVE  LET x == ViableNext(h, ns)
         IN  /\ IsFirst(Tree, Follow(Tree, h) \ ToSet(ns), x)
             /\ x = None \/ x \in KidsOf(Tree, p) \ ToSet(ns)
             /\ \A t : Reference(t, p, AnchorBefore(x)) = x
<1> DEFINE x == ViableNext(h, ns)
<1>1. IsFirst(Tree, Follow(Tree, h) \ ToSet(ns), x)
  BY ViableNextIs DEF Asked
<1>2. \A s \in Follow(Tree, h) : s \in KidsOf(Tree, p)
  <2>1. Fit(Tree) /\ Tree.parent = parent
    BY TreeFields DEF TreeListsInv, Ready
  <2> QED BY <2>1, OneOrder DEF Follow, KidsOf, Asked
<1> HIDE DEF x
<1>3. x = None \/ x \in KidsOf(Tree, p) \ ToSet(ns)
  BY <1>1, <1>2 DEF IsFirst
<1>4. \A t : Reference(t, p, AnchorBefore(x)) = x
  BY DEF Reference, AnchorBefore
<1> QED
  BY <1>1, <1>3, <1>4 DEF x

\* after tells all it does.
LEMMA AfterTold ==
  ASSUME TreeListsInv, NEW h, NEW p, NEW ns, Asked(h, p, ns)
  PROVE  Told(AfterTree(h, ns))
<1> DEFINE x == ViableNext(h, ns)
           anchor == AnchorBefore(x)
<1>1. /\ x = None \/ x \in KidsOf(Tree, p) \ ToSet(ns)
      /\ Reference(Gather(Tree, ns).t, p, anchor) = x
  BY ViableIs
<1>2. AfterTree(h, ns) = InsertNodes(Tree, p, ns, anchor, <<>>)
  BY DEF AfterTree, Asked
<1> HIDE DEF anchor, x
<1> QED
  BY <1>1, <1>2, InsertingTold DEF Asked

\* replace_with tells all it does.
LEMMA ReplaceTold ==
  ASSUME TreeListsInv, NEW h, NEW p, NEW ns, Asked(h, p, ns)
  PROVE  Told(ReplaceTree(h, ns))
<1> DEFINE x == ViableNext(h, ns)
           anchor == AnchorBefore(x)
           M == Brought(Tree, ns, Len(ns))
<1>1. /\ IsFirst(Tree, Follow(Tree, h) \ ToSet(ns), x)
      /\ x = None \/ x \in KidsOf(Tree, p) \ ToSet(ns)
      /\ Reference(Gather(Tree, ns).t, p, anchor) = x
  BY ViableIs
<1>2. CASE h \in ToSet(ns)
  <2>1. ReplaceTree(h, ns) = InsertNodes(Tree, p, ns, anchor, <<>>)
    BY <1>2 DEF ReplaceTree, Asked
  <2> HIDE DEF anchor, x
  <2> QED BY <1>1, <2>1, InsertingTold DEF Asked
<1>3. CASE h \notin ToSet(ns)
  <2>1. ReplaceTree(h, ns) = InsertNodes(Tree, p, ns, anchor, <<h>>)
    BY <1>3 DEF ReplaceTree, Asked
  <2> HIDE DEF anchor, x
  <2>2. /\ h \in KidsOf(Tree, p) /\ h \in Node /\ None \notin Node /\ Fit(Tree)
        /\ <<h>> \in Seq(Node) /\ ToSet(<<h>>) = {h}
    BY TreeFields, NodeAssumption, OneArgument DEF Asked, KidsOf, TreeListsInv, Ready
  <2>3. \A c \in KidsOf(Tree, p) : c \in M <=> c \in ToSet(ns)
    BY MovedKids DEF Asked
  <2>4. /\ \A a, b : <<a, b>> \in Ord(Tree) => /\ a \in Node /\ b \in Node /\ a # b
                                               /\ <<b, a>> \notin Ord(Tree)
        /\ \A a, b \in KidsOf(Tree, p) : a # b => <<a, b>> \in Ord(Tree) \/ <<b, a>> \in Ord(Tree)
    <3>1. /\ \A a, b : <<a, b>> \in Ord(Tree) => /\ a \in Node /\ b \in Node /\ a # b
                                                 /\ <<b, a>> \notin Ord(Tree)
          /\ \A a, b \in Node : a # b /\ Tree.parent[a] = Tree.parent[b] /\ Tree.parent[a] \in Node =>
               <<a, b>> \in Ord(Tree) \/ <<b, a>> \in Ord(Tree)
      BY <2>2, OneOrder
    <3>2. \A a \in KidsOf(Tree, p) : a \in Node /\ Tree.parent[a] = p
      BY DEF KidsOf
    <3>3. p \in Node
      BY DEF Asked
    <3> QED BY <3>1, <3>2, <3>3
  <2> HIDE DEF M
  <2>5. \/ x = None /\ \A y \in KidsOf(Tree, p) \ ToSet(ns) : <<h, y>> \notin Ord(Tree)
        \/ /\ x \in KidsOf(Tree, p) \ ToSet(ns) /\ <<h, x>> \in Ord(Tree)
           /\ \A y \in KidsOf(Tree, p) \ ToSet(ns) :
                <<h, y>> \in Ord(Tree) => y = x \/ <<x, y>> \in Ord(Tree)
    <3>1. \A y \in KidsOf(Tree, p) : y \in Node
      BY DEF KidsOf
    <3> QED BY <1>1, <2>2, <3>1 DEF IsFirst, Follow
  <2>6. GapPast(Tree, p, M, {h}, x)
    <3> DEFINE K == KidsOf(Tree, p) \ (M \cup {h})
    <3>1. x \in K \cup {None}
      BY <2>3, <2>4, <2>5
    <3>2. x = None \/ <<h, x>> \in Ord(Tree)
      BY <2>5
    <3>3. ASSUME NEW k \in K, x = None \/ <<k, x>> \in Ord(Tree) PROVE <<k, h>> \in Ord(Tree)
      <4>1. k \in KidsOf(Tree, p) \ ToSet(ns) /\ k # h
        BY <2>3, <3>3
      <4>2. <<h, k>> \notin Ord(Tree)
        BY <2>2, <2>4, <2>5, <3>3, <4>1
      <4> QED BY <2>2, <2>4, <4>1, <4>2
    <3> QED BY <3>1, <3>2, <3>3 DEF GapPast
  <2>7. GapPast(Tree, p, M, ToSet(<<h>>), Reference(Gather(Tree, ns).t, p, anchor))
    BY <1>1, <2>2, <2>6
  <2>8. Told(InsertNodes(Tree, p, ns, anchor, <<h>>))
    BY <2>2, <2>7, InsertNodesTold DEF Asked, M
  <2> QED BY <2>1, <2>8
<1> QED
  BY <1>2, <1>3

\* replace_children tells all it does.
LEMMA ReplaceChildrenTold ==
  ASSUME TreeListsInv, NEW h \in Node, NEW ns \in Seq(Node), Enters(Tree, h, ns), ~Repeats(ns)
  PROVE  Told(InsertNodes(Tree, h, ns, AnchorBefore(None), children[h]))
<1> DEFINE M == Brought(Tree, ns, Len(ns))
<1>1. children[h] \in Seq(Node) /\ ToSet(children[h]) = KidsOf(Tree, h)
  BY TreeFields DEF TreeListsInv, Ready, Fit, Shaped, Paired
<1>2. Reference(Gather(Tree, ns).t, h, AnchorBefore(None)) = None
  BY DEF Reference, AnchorBefore
<1>3. GapPast(Tree, h, M, KidsOf(Tree, h), None)
  <2> HIDE DEF M
  <2> QED BY DEF GapPast
<1>4. GapPast(Tree, h, M, ToSet(children[h]), Reference(Gather(Tree, ns).t, h, AnchorBefore(None)))
  BY <1>1, <1>2, <1>3
<1> QED
  BY <1>1, <1>4, InsertNodesTold DEF M

\* insert_before tells all it does, of a fragment too.
LEMMA InsertTreeTold ==
  ASSUME TreeListsInv, NEW p \in Node, NEW c \in Node, ~IsInclusiveAncestor(Tree, c, p),
         NEW ref, ref = None \/ ref \in KidsOf(Tree, p)
  PROVE  Told(InsertTree(p, c, ref))
<1>1. Fit(Tree) /\ Topped(Tree)
  BY DEF TreeListsInv, Ready
<1>2. CASE c \notin Fragment
  BY <1>1, <1>2, TreeTold, InsertOneTold DEF InsertTree
<1>3. CASE c \in Fragment
  <2>1. /\ <<c>> \in Seq(Node) /\ ToSet(<<c>>) = {c} /\ IsInjective(<<c>>)
        /\ DOMAIN <<c>> = {1} /\ <<c>>[1] = c
    BY OneArgument
  <2>2. ~Repeats(<<c>>)
    BY <2>1 DEF Repeats
  <2>3. Enters(Tree, p, <<c>>)
    BY <2>1 DEF Enters
  <2>4. ref = None \/ ref \in KidsOf(Tree, p) \ ToSet(<<c>>)
    BY <1>1, <1>3, <2>1, NodeAssumption DEF Topped, Tops, KidsOf
  <2>5. ref = Reference(Gather(Tree, <<c>>).t, p, AnchorBefore(ref))
    BY DEF Reference, AnchorBefore
  <2>6. Told(InsertNodes(Tree, p, <<c>>, AnchorBefore(ref), <<>>))
    BY <2>1, <2>2, <2>3, <2>4, <2>5, InsertingTold
  <2> QED BY <1>3, <2>6 DEF InsertTree
<1> QED
  BY <1>2, <1>3
-----------------------------------------------------------------------------
(* The records of a call tell what it did.                                  *)

\* What a call told is in the trace.
LEMMA CallTold ==
  ASSUME NEW t, Told(t), Do(t), Traced
  PROVE  Tells(children, RecordsOf(trace'), children')
BY DEF Told, Do

\* Checked calls of before, after and replace_with.
LEMMA SiblingCallsTold ==
  ASSUME TreeListsInv, Checked, NEW h \in created, NEW ns \in ArgLists(Insertable),
         Before(h, ns) \/ After(h, ns) \/ ReplaceWith(h, ns)
  PROVE  \E t : Told(t) /\ Do(t)
<1>1. parent[h] # None /\ Entering(parent[h], ns)
  BY DEF Before, After, ReplaceWith
<1>2. ns \in Seq(Node) /\ ~Repeats(ns)
  BY InsertableNodes DEF ArgLists
<1>3. h \in Node /\ parent[h] \in Node
  BY <1>1, TreeFields DEF TreeListsInv
<1> DEFINE p == parent[h]
<1>4. Asked(h, p, ns)
  BY <1>1, <1>2, <1>3 DEF Asked, Enters, Entering
<1> HIDE DEF p
<1>5. Told(BeforeTree(h, ns)) /\ Told(AfterTree(h, ns)) /\ Told(ReplaceTree(h, ns))
  BY <1>4, BeforeTold, AfterTold, ReplaceTold
<1>6. Do(BeforeTree(h, ns)) \/ Do(AfterTree(h, ns)) \/ Do(ReplaceTree(h, ns))
  BY DEF Before, After, ReplaceWith
<1> QED
  BY <1>5, <1>6

\* insertAdjacentHTML.
LEMMA ParsedTold ==
  ASSUME TreeListsInv, NEW h \in Element \cap created, NEW new \in FreshLists,
         InsertAdjacentHTML(h, new)
  PROVE  \E t : Told(t) /\ Do(t)
<1>1. /\ h \in Node /\ Fit(Tree) /\ Tree.parent = parent /\ Tree.children = children
      /\ \A n \in Node : parent[n] # None => n \in created /\ parent[n] \in created
      /\ created \subseteq Node
  BY TreeFields DEF TreeListsInv, Ready
<1>2. /\ new \in Seq(Node) /\ ToSet(new) \cap created = {} /\ IsInjective(new)
      /\ \A n \in ToSet(new) : n \notin Fragment
  BY FreshCounts
<1>3. ~Repeats(new)
  <2>1. \A i \in DOMAIN new : new[i] \in ToSet(new)
    BY DEF ToSet
  <2> QED BY <1>2, <2>1 DEF Repeats
<1>4. ASSUME NEW p \in created PROVE Enters(Tree, p, new)
  BY <1>2, FreshEnters
<1>5. CASE parent[h] \in Container /\ (Do(BeforeTree(h, new)) \/ Do(AfterTree(h, new)))
  <2> DEFINE p == parent[h]
  <2>1. p \in created /\ p \in Node
    BY <1>1, <1>5, NodeAssumption DEF Container
  <2>2. Asked(h, p, new)
    BY <1>1, <1>2, <1>3, <1>4, <2>1 DEF Asked
  <2> HIDE DEF p
  <2> QED BY <1>5, <2>2, BeforeTold, AfterTold
<1>6. ASSUME NEW x, x = None \/ x \in KidsOf(Tree, h), Do(InsertNodes(Tree, h, new, AnchorBefore(x), <<>>))
      PROVE  \E t : Told(t) /\ Do(t)
  <2>1. x = None \/ x \in KidsOf(Tree, h) \ ToSet(new)
    <3>1. \A c \in KidsOf(Tree, h) : c \in created
      BY <1>1, NodeAssumption DEF KidsOf
    <3> QED BY <1>2, <1>6, <3>1
  <2>2. x = Reference(Gather(Tree, new).t, h, AnchorBefore(x))
    BY DEF Reference, AnchorBefore
  <2>3. Enters(Tree, h, new)
    BY <1>4
  <2>4. Told(InsertNodes(Tree, h, new, AnchorBefore(x), <<>>))
    BY <1>1, <1>2, <1>3, <2>1, <2>2, <2>3, InsertingTold
  <2> QED BY <1>6, <2>4
<1>7. FirstOf(children[h]) = None \/ FirstOf(children[h]) \in KidsOf(Tree, h)
  <2>1. IsFirst(Tree, KidsOf(Tree, h), FirstOf(Tree.children[h]))
    BY <1>1, FirstKid
  <2> QED BY <1>1, <2>1 DEF IsFirst
<1> QED
  BY <1>5, <1>6, <1>7 DEF InsertAdjacentHTML

\* Every checked call tells all it does.
LEMMA NextTold ==
  ASSUME TreeListsInv, Checked, Traced, Next
  PROVE  Tells(children, RecordsOf(trace'), children')
<1>1. ASSUME trace' = <<>>, children' = children
      PROVE  Tells(children, RecordsOf(trace'), children')
  BY <1>1, NoRecords, TellsNothing
<1>2. SUFFICES ASSUME ~(trace' = <<>> /\ children' = children)
               PROVE  \E t : Told(t) /\ Do(t)
  BY <1>1, CallTold
<1>3. created \subseteq Node /\ Fit(Tree) /\ Tree.children = children /\ Tree.parent = parent
  BY TreeFields DEF TreeListsInv, Ready
<1>4. \A p \in Node : ToSet(children[p]) = KidsOf(Tree, p)
  BY <1>3 DEF Fit, Paired
<1>5. ASSUME NEW n \in Element \cup Text \cup Fragment, CreateNode(n) PROVE FALSE
  BY <1>2, <1>5 DEF CreateNode
<1>6. ASSUME NEW host \in Element \cap created, NEW root \in Fragment, AttachShadow(host, root) PROVE FALSE
  BY <1>2, <1>6 DEF AttachShadow
<1>7. ASSUME NEW p \in Container \cap created, NEW c \in Insertable, NEW r \in References(p),
             AppendChild(p, c) \/ InsertBefore(p, c, r)
      PROVE  \E t : Told(t) /\ Do(t)
  <2>1. p \in Node /\ c \in Node
    BY <1>3 DEF Insertable
  <2>2. r = None \/ r \in KidsOf(Tree, p)
    BY <1>4, <2>1 DEF References
  <2>3. ~IsInclusiveAncestor(Tree, c, p) /\ (Do(InsertTree(p, c, None)) \/ Do(InsertTree(p, c, r)))
    BY <1>7 DEF AppendChild, InsertBefore
  <2>4. Told(InsertTree(p, c, None)) /\ Told(InsertTree(p, c, r))
    BY <2>1, <2>2, <2>3, InsertTreeTold
  <2> QED BY <2>3, <2>4
<1>8. ASSUME NEW p \in Container \cap created, NEW c \in created, RemoveChild(p, c)
      PROVE  \E t : Told(t) /\ Do(t)
  <2>1. p \in Node /\ c \in Node /\ Tree.parent[c] = p /\ Do(Unlink(Tree, p, c, TRUE))
    BY <1>3, <1>8 DEF RemoveChild
  <2>2. Told(Unlink(Tree, p, c, TRUE))
    BY <1>3, <2>1, TreeTold, UnlinkTold
  <2> QED BY <2>1, <2>2
<1>9. ASSUME NEW h \in created, NEW ns \in ArgLists(Insertable),
             Before(h, ns) \/ After(h, ns) \/ ReplaceWith(h, ns)
      PROVE  \E t : Told(t) /\ Do(t)
  BY <1>9, SiblingCallsTold
<1>10. ASSUME NEW h \in Container \cap created, NEW ns \in ArgLists(Insertable), ReplaceChildren(h, ns)
       PROVE  \E t : Told(t) /\ Do(t)
  <2>1. ns \in Seq(Node) /\ ~Repeats(ns) /\ h \in Node
    BY <1>3, InsertableNodes DEF ArgLists
  <2>2. Enters(Tree, h, ns) /\ Do(InsertNodes(Tree, h, ns, AnchorBefore(None), children[h]))
    BY <1>10 DEF ReplaceChildren, Enters, Entering
  <2>3. Told(InsertNodes(Tree, h, ns, AnchorBefore(None), children[h]))
    BY <2>1, <2>2, ReplaceChildrenTold
  <2> QED BY <2>2, <2>3
<1>11. ASSUME NEW h \in (Element \cup Fragment) \cap created, NEW new \in FreshLists,
              SetTextContent(h, new) \/ SetInnerHTML(h, new)
       PROVE  \E t : Told(t) /\ Do(t)
  <2>1. Do(Rewrite(Tree, h, new)) /\ h \in Node
    BY <1>3, <1>11 DEF SetTextContent, SetInnerHTML
  <2>2. new \in Seq(Node) /\ IsInjective(new) /\ \A n \in ToSet(new) : Tree.parent[n] = None
    BY FreshCounts
  <2>3. Told(Rewrite(Tree, h, new))
    BY <1>3, <2>1, <2>2, TreeTold, RewriteTold
  <2> QED BY <2>1, <2>3
<1>12. ASSUME NEW h \in Element \cap created, NEW new \in FreshLists, InsertAdjacentHTML(h, new)
       PROVE  \E t : Told(t) /\ Do(t)
  BY <1>12, ParsedTold
<1>13. None \in References(Document)
  BY DEF References
<1>14. ASSUME NEW p, NEW c \in Insertable, p \in Container \cap created,
              AppendChild(p, c) \/ \E r \in References(p) : InsertBefore(p, c, r)
       PROVE  \E t : Told(t) /\ Do(t)
  <2>1. None \in References(p)
    BY DEF References
  <2> QED BY <1>7, <1>14, <2>1
<1> QED
  BY <1>5, <1>6, <1>8, <1>9, <1>10, <1>11, <1>12, <1>14 DEF Next
-----------------------------------------------------------------------------
(* The log.                                                                 *)

\* The waiting records tell what happened since the consumer last looked.
LogInv ==
  /\ TreeListsInv
  /\ recording \in BOOLEAN
  /\ recording => Tells(replica, log, children)
  /\ ~recording => log = <<>> /\ replica = children

\* Nothing waits at first.
LEMMA InitLogInv == LogInit => LogInv
<1>1. LogInit => TreeListsInv
  BY InitTreeListsInv DEF LogInit
<1> QED
  BY <1>1 DEF LogInit, LogInv

\* The invariant is about the tree only.
LEMMA QuietKeeps ==
  ASSUME TreeListsInv, UNCHANGED <<created, parent, children, hostOf, rootOf>>
  PROVE  TreeListsInv'
BY DEF TreeListsInv, Ready, Tree, Fit, Shaped, Paired, KidsOf, Topped, Whole, Fields

\* Every step keeps the replica and the waiting records right.
LEMMA NextKeepsLogInv ==
  ASSUME Checked, Traced
  PROVE  LogInv /\ [LogNext]_logAll => LogInv'
<1>1. SUFFICES ASSUME LogInv, [LogNext]_logAll PROVE LogInv'
  OBVIOUS
<1>2. TreeListsInv /\ recording \in BOOLEAN
  BY <1>1 DEF LogInv
<1>3. CASE UNCHANGED logAll
  <2>1. TreeListsInv'
    BY <1>2, <1>3, QuietKeeps DEF logAll, vars
  <2>2. UNCHANGED <<recording, log, replica, children>>
    BY <1>3 DEF logAll, vars, logVars
  <2> QED BY <1>1, <2>1, <2>2 DEF LogInv
<1>4. CASE Mutate
  <2>1. /\ Next /\ recording' = recording
        /\ log' = IF recording THEN log \o RecordsOf(trace') ELSE log
        /\ replica' = IF recording THEN replica ELSE children'
    BY <1>4 DEF Mutate
  <2>2. TreeListsInv'
    BY <1>2, <2>1, NextKeepsTreeListsInv
  <2>3. CASE recording
    <3>1. Tells(children, RecordsOf(trace'), children')
      BY <1>2, <2>1, NextTold
    <3>2. Tells(replica, log, children)
      BY <1>1, <2>3 DEF LogInv
    <3>3. Tells(replica, log \o RecordsOf(trace'), children')
      BY <3>1, <3>2, TellsOn
    <3> QED BY <1>2, <2>1, <2>2, <2>3, <3>3 DEF LogInv
  <2>4. CASE ~recording
    BY <1>1, <2>1, <2>2, <2>4 DEF LogInv
  <2> QED BY <2>3, <2>4
<1>5. CASE StartRecording
  <2>1. /\ recording' = TRUE /\ UNCHANGED <<log, replica, children>> /\ Quiet
    BY <1>5 DEF StartRecording, Quiet
  <2>2. TreeListsInv'
    BY <1>2, <2>1, QuietKeeps DEF Quiet
  <2>3. Tells(replica, log, children)
    BY <1>1, TellsNothing DEF LogInv
  <2>4. Tells(replica', log', children')
    BY <2>1, <2>3
  <2> QED BY <2>1, <2>2, <2>4 DEF LogInv
<1>6. CASE StopRecording
  <2>1. TreeListsInv'
    BY <1>2, <1>6, QuietKeeps DEF StopRecording, Quiet
  <2> QED BY <1>6, <2>1 DEF StopRecording, Quiet, LogInv
<1>7. CASE TakeEvents
  <2>1. /\ recording /\ recording' = recording /\ log' = <<>> /\ children' = children
        /\ replica' = Replay(replica, log) /\ Quiet
    BY <1>7 DEF TakeEvents, Quiet
  <2>2. TreeListsInv'
    BY <1>2, <2>1, QuietKeeps DEF Quiet
  <2>3. Tells(replica, log, children)
    BY <1>1, <2>1 DEF LogInv
  <2>4. replica' = children
    BY <2>1, <2>3, TellsIs
  <2>5. Tells(children, <<>>, children)
    BY TellsNothing
  <2>6. Tells(replica', log', children')
    BY <2>1, <2>4, <2>5
  <2> QED BY <1>2, <2>1, <2>2, <2>6 DEF LogInv
<1> QED
  BY <1>1, <1>3, <1>4, <1>5, <1>6, <1>7 DEF LogNext

\* The invariant is what LogReplays asks.
LEMMA LogInvTells == LogInv => LogReplays
BY TellsIs DEF LogInv, LogReplays

\* When the bindings check the arguments, whoever follows the records, and
\* nothing else, has the child lists of the tree exactly: no move, replacement
\* or emptied fragment goes unrecorded, and each record names the neighbours
\* its nodes had between the lists the earlier records leave.
THEOREM RecordsReplay ==
  ASSUME Checked, Traced
  PROVE  LogSpec => []LogReplays
<1>1. LogInit => LogInv
  BY InitLogInv
<1>2. LogInv /\ [LogNext]_logAll => LogInv'
  BY NextKeepsLogInv
<1>3. LogInv => LogReplays
  BY LogInvTells
<1> QED
  BY <1>1, <1>2, <1>3, PTL DEF LogSpec
-----------------------------------------------------------------------------
(* The parent chain.                                                        *)

\* The round of UpFrom.
Over(par, x) == IF x = None THEN None ELSE par[x]

\* A set that holds, with a node, its parent.
ParentClosed(par, A) == \A n \in A : Over(par, n) \in A \cup {None}

\* The rounds of UpFrom, as a function.
ChainRounds(par, x, f) ==
  /\ f[0] = x
  /\ \A k \in 1..Cardinality(Node) : f[k] = Over(par, f[k - 1])
  /\ Chain(par, x) = {f[k] : k \in 0..Cardinality(Node)} \ {None}

\* UpFrom has a run.
LEMMA ChainRuns ==
  ASSUME NEW par, NEW x, Cardinality(Node) \in Nat
  PROVE  \E f : ChainRounds(par, x, f)
<1> DEFINE Runs(n, f) == /\ f = [k \in 0..n |-> f[k]] /\ f[0] = x
                         /\ \A k \in 1..n : f[k] = Over(par, f[k - 1])
           T == {n \in Nat : \E f : Runs(n, f)}
<1>1. 0 \in T
  <2>1. Runs(0, [k \in 0..0 |-> x])
    OBVIOUS
  <2> QED BY <2>1
<1>2. ASSUME NEW n \in Nat, n \in T PROVE n + 1 \in T
  <2>1. PICK f : Runs(n, f)
    BY <1>2
  <2> DEFINE next == Over(par, f[n])
             g == [k \in 0..(n + 1) |-> IF k = n + 1 THEN next ELSE f[k]]
  <2> HIDE DEF next
  <2>2. g = [k \in 0..(n + 1) |-> g[k]] /\ g[0] = f[0] /\ g[n + 1] = next /\ g[n] = f[n]
    <3>1. /\ 0 \in 0..(n + 1) /\ n \in 0..(n + 1) /\ n + 1 \in 0..(n + 1)
          /\ 0 # n + 1 /\ n # n + 1
      OBVIOUS
    <3> QED BY <3>1
  <2>3. \A k \in 1..n : g[k] = f[k] /\ g[k - 1] = f[k - 1]
    OBVIOUS
  <2> HIDE DEF g
  <2>4. ASSUME NEW k \in 1..(n + 1) PROVE g[k] = Over(par, g[k - 1])
    <3>1. CASE k = n + 1
      <4>1. k - 1 = n
        BY <3>1
      <4> QED BY <2>2, <3>1, <4>1 DEF next
    <3>2. CASE k \in 1..n
      BY <2>1, <2>3, <3>2
    <3>3. k = n + 1 \/ k \in 1..n
      OBVIOUS
    <3> QED BY <3>1, <3>2, <3>3
  <2>5. Runs(n + 1, g)
    BY <2>1, <2>2, <2>4
  <2> HIDE DEF Runs
  <2> QED BY <2>5
<1>3. PICK f : Runs(Cardinality(Node), f)
  BY <1>1, <1>2, Counting
<1> DEFINE Def(h) == h = [k \in 0..Cardinality(Node) |-> IF k = 0 THEN x ELSE Over(par, h[k - 1])]
<1>4. ASSUME NEW k \in 0..Cardinality(Node) PROVE f[k] = IF k = 0 THEN x ELSE Over(par, f[k - 1])
  <2>1. k = 0 \/ k \in 1..Cardinality(Node)
    OBVIOUS
  <2>2. k \in 1..Cardinality(Node) => k # 0
    OBVIOUS
  <2> QED BY <1>3, <2>1, <2>2
<1>5. Def(f)
  BY <1>3, <1>4
<1> DEFINE c == CHOOSE h : Def(h)
<1>6. Def(c)
  BY <1>5
<1>7. Chain(par, x) = {c[k] : k \in 0..Cardinality(Node)} \ {None}
  BY DEF Chain, UpFrom, Over
<1>8. c[0] = x /\ \A k \in 1..Cardinality(Node) : c[k] = Over(par, c[k - 1])
  <2> HIDE DEF c
  <2>1. \A k \in 0..Cardinality(Node) : c[k] = IF k = 0 THEN x ELSE Over(par, c[k - 1])
    BY <1>6
  <2>2. 0 \in 0..Cardinality(Node) /\ \A k \in 1..Cardinality(Node) : k \in 0..Cardinality(Node) /\ k # 0
    OBVIOUS
  <2> QED BY <2>1, <2>2
<1> QED
  BY <1>7, <1>8 DEF ChainRounds

\* The chain never leaves a set that holds, with a node, the one above it.
LEMMA ChainLeast ==
  ASSUME NEW par, NEW A, ParentClosed(par, A), NEW p \in A
  PROVE  Chain(par, p) \subseteq A
<1>1. Cardinality(Node) \in Nat
  BY FS_CardinalityType, NodeAssumption
<1>2. PICK f : /\ f[0] = p
               /\ \A k \in 1..Cardinality(Node) : f[k] = Over(par, f[k - 1])
               /\ Chain(par, p) = {f[k] : k \in 0..Cardinality(Node)} \ {None}
  BY <1>1, ChainRuns DEF ChainRounds
<1> DEFINE T == {k \in Nat : k <= Cardinality(Node) => f[k] \in A \cup {None}}
<1>3. Over(par, None) = None
  BY DEF Over
<1>4. 0 \in T
  BY <1>2
<1>5. ASSUME NEW k \in Nat, k \in T PROVE k + 1 \in T
  <2>1. SUFFICES ASSUME k + 1 <= Cardinality(Node) PROVE f[k + 1] \in A \cup {None}
    OBVIOUS
  <2>2. k + 1 \in 1..Cardinality(Node) /\ (k + 1) - 1 = k /\ k <= Cardinality(Node)
    BY <1>1, <2>1
  <2>3. f[k + 1] = Over(par, f[k]) /\ f[k] \in A \cup {None}
    BY <1>2, <1>5, <2>2
  <2> QED BY <1>3, <2>3 DEF ParentClosed
<1>6. Nat \subseteq T
  BY <1>4, <1>5, Counting
<1> QED
  BY <1>1, <1>2, <1>6

\* It goes on long enough: as many rounds as there are nodes come back to a
\* node or to the top.
LEMMA ChainCloses ==
  ASSUME NEW par \in [Node -> Node \cup {None}],
         NEW p \in Node
  PROVE  p \in Chain(par, p) /\ Chain(par, p) \subseteq Node /\ ParentClosed(par, Chain(par, p))
<1> DEFINE N == Cardinality(Node)
<1>1. N \in Nat
  BY FS_CardinalityType, NodeAssumption
<1>2. PICK f : /\ f[0] = p
               /\ \A k \in 1..N : f[k] = Over(par, f[k - 1])
               /\ Chain(par, p) = {f[k] : k \in 0..N} \ {None}
  BY <1>1, ChainRuns DEF ChainRounds
<1> HIDE DEF N
<1>3. Over(par, None) = None /\ \A n \in Node : Over(par, n) \in Node \cup {None}
  BY DEF Over
<1>4. \A k \in Nat : k + 1 <= N => f[k + 1] = Over(par, f[k])
  <2>1. SUFFICES ASSUME NEW k \in Nat, k + 1 <= N PROVE f[k + 1] = Over(par, f[k])
    OBVIOUS
  <2>2. k + 1 \in 1..N /\ (k + 1) - 1 = k
    BY <1>1, <2>1
  <2> QED BY <1>2, <2>2
<1>5. \A k \in 0..N : f[k] \in Node \cup {None}
  <2> DEFINE T == {k \in Nat : k <= N => f[k] \in Node \cup {None}}
  <2>1. 0 \in T
    BY <1>2
  <2>2. ASSUME NEW k \in Nat, k \in T PROVE k + 1 \in T
    <3>1. k + 1 <= N => k <= N
      BY <1>1
    <3> QED BY <1>3, <1>4, <2>2, <3>1
  <2>3. Nat \subseteq T
    BY <2>1, <2>2, Counting
  <2> QED BY <1>1, <2>3
<1>6. ASSUME NEW i \in Nat, NEW j \in Nat, f[i] = f[j]
      PROVE  \A d \in Nat : i + d <= N /\ j + d <= N => f[i + d] = f[j + d]
  <2> DEFINE T == {d \in Nat : i + d <= N /\ j + d <= N => f[i + d] = f[j + d]}
  <2>1. 0 \in T
    BY <1>6
  <2>2. ASSUME NEW d \in Nat, d \in T PROVE d + 1 \in T
    <3>1. SUFFICES ASSUME i + (d + 1) <= N, j + (d + 1) <= N PROVE f[i + (d + 1)] = f[j + (d + 1)]
      OBVIOUS
    <3>2. /\ i + (d + 1) = (i + d) + 1 /\ j + (d + 1) = (j + d) + 1
          /\ i + d <= N /\ j + d <= N /\ i + d \in Nat /\ j + d \in Nat
      BY <1>1, <3>1
    <3>3. f[i + d] = f[j + d]
      BY <2>2, <3>2
    <3>4. f[(i + d) + 1] = Over(par, f[i + d]) /\ f[(j + d) + 1] = Over(par, f[j + d])
      BY <1>4, <3>1, <3>2
    <3> QED BY <3>2, <3>3, <3>4
  <2>3. Nat \subseteq T
    BY <2>1, <2>2, Counting
  <2> QED BY <2>3
<1>7. ASSUME NEW k \in 0..N, f[k] = None PROVE f[N] = None
  <2> DEFINE T == {d \in Nat : k + d <= N => f[k + d] = None}
  <2>1. 0 \in T
    BY <1>7
  <2>2. ASSUME NEW d \in Nat, d \in T PROVE d + 1 \in T
    <3>1. SUFFICES ASSUME k + (d + 1) <= N PROVE f[k + (d + 1)] = None
      OBVIOUS
    <3>2. k + (d + 1) = (k + d) + 1 /\ k + d <= N /\ k + d \in Nat
      BY <1>1, <3>1
    <3> QED BY <1>3, <1>4, <2>2, <3>1, <3>2
  <2>3. Nat \subseteq T
    BY <2>1, <2>2, Counting
  <2>4. N - k \in Nat /\ k + (N - k) = N
    BY <1>1
  <2> QED BY <2>3, <2>4
<1>8. ASSUME NEW k \in 0..N, f[k] # None
      PROVE  \E m \in 0..N : Over(par, f[k]) = f[m]  \/ Over(par, f[k]) = None
  <2>1. CASE k < N
    <3>1. k \in Nat /\ k + 1 <= N /\ k + 1 \in 0..N
      BY <1>1, <2>1
    <3> QED BY <1>4, <3>1
  <2>2. CASE k = N
    <3> DEFINE g == [m \in 0..N |-> f[m]]
    <3>1. g \in [0..N -> Node]
      BY <1>5, <1>7, <1>8, <2>2
    <3>2. IsFiniteSet(0..N) /\ Cardinality(0..N) = N + 1
      BY <1>1, FS_Interval
    <3>3. Cardinality(Node) < Cardinality(0..N)
      BY <1>1, <3>2 DEF N
    <3>9. IsFiniteSet(Node)
      BY NodeAssumption
    <3>10. \A x \in 0..N : g[x] = f[x]
      OBVIOUS
    <3> HIDE DEF g
    <3>4. \E x, y \in 0..N : x # y /\ g[x] = g[y]
      BY <3>1, <3>2, <3>3, <3>9, FS_PigeonHole
    <3>5. PICK i, j \in 0..N : i < j /\ f[i] = f[j]
      <4>1. PICK x, y \in 0..N : x # y /\ f[x] = f[y]
        BY <3>4, <3>10
      <4> QED BY <1>1, <4>1
    <3>6. /\ i \in Nat /\ j \in Nat /\ N - j \in Nat /\ i + (N - j) <= N /\ j + (N - j) = N
          /\ i + (N - j) \in Nat /\ (i + (N - j)) + 1 <= N /\ (i + (N - j)) + 1 \in 0..N
      BY <1>1, <3>5
    <3>7. f[i + (N - j)] = f[N]
      BY <1>6, <3>5, <3>6, <1>1
    <3>8. f[(i + (N - j)) + 1] = Over(par, f[N])
      BY <1>4, <3>6, <3>7
    <3> QED BY <2>2, <3>6, <3>8
  <2> QED BY <1>1, <2>1, <2>2
<1>9. 0 \in 0..N /\ p # None
  BY <1>1, NodeAssumption
<1>10. p \in Chain(par, p)
  BY <1>2, <1>9
<1>11. Chain(par, p) \subseteq Node
  BY <1>2, <1>5
<1>12. ASSUME NEW n \in Chain(par, p) PROVE Over(par, n) \in Chain(par, p) \cup {None}
  <2>1. PICK k \in 0..N : n = f[k] /\ f[k] # None
    BY <1>2
  <2>2. PICK m \in 0..N : Over(par, f[k]) = f[m]  \/ Over(par, f[k]) = None
    BY <1>8, <2>1
  <2> QED BY <1>2, <2>1, <2>2
<1> QED
  BY <1>10, <1>11, <1>12 DEF ParentClosed
\* What the later lemmas use of a chain: it starts with its node, goes up,
\* and is the least that does.
LEMMA ChainIs ==
  ASSUME NEW par \in [Node -> Node \cup {None}], NEW n \in Node
  PROVE  /\ n \in Chain(par, n) /\ Chain(par, n) \subseteq Node
         /\ \A m \in Chain(par, n) : par[m] # None => par[m] \in Chain(par, n)
         /\ \A A \in SUBSET Node :
              n \in A /\ (\A m \in A : par[m] \in A \cup {None}) => Chain(par, n) \subseteq A
<1>1. n \in Chain(par, n) /\ Chain(par, n) \subseteq Node /\ ParentClosed(par, Chain(par, n))
  BY ChainCloses
<1>2. \A m \in Node : Over(par, m) = par[m]
  BY NodeAssumption DEF Over
<1>3. ASSUME NEW A \in SUBSET Node, n \in A, \A m \in A : par[m] \in A \cup {None}
      PROVE  Chain(par, n) \subseteq A
  <2>1. ParentClosed(par, A)
    BY <1>2, <1>3 DEF ParentClosed
  <2> QED BY <1>3, <2>1, ChainLeast
<1> QED
  BY <1>1, <1>2, <1>3 DEF ParentClosed

\* Above its start a chain is that of the parent.
LEMMA ChainAbove ==
  ASSUME NEW par \in [Node -> Node \cup {None}], NEW n \in Node, NEW x \in Chain(par, n), x # n
  PROVE  par[n] \in Node /\ x \in Chain(par, par[n])
<1>1. CASE par[n] = None
  <2> DEFINE A == {n}
  <2>1. A \in SUBSET Node /\ n \in A /\ \A m \in A : par[m] \in A \cup {None}
    BY <1>1
  <2>2. A = {n}
    OBVIOUS
  <2> HIDE DEF A
  <2>3. Chain(par, n) \subseteq A
    BY <2>1, ChainIs
  <2> QED BY <2>2, <2>3
<1>2. CASE par[n] \in Node
  <2> DEFINE A == {n} \cup Chain(par, par[n])
  <2>1. A \in SUBSET Node /\ n \in A /\ \A m \in A : par[m] \in A \cup {None}
    BY <1>2, ChainIs
  <2>2. A = {n} \cup Chain(par, par[n])
    OBVIOUS
  <2> HIDE DEF A
  <2>3. Chain(par, n) \subseteq A
    BY <2>1, ChainIs
  <2> QED BY <1>2, <2>2, <2>3
<1> QED
  BY <1>1, <1>2

\* A chain has one end.
LEMMA OneEnd ==
  ASSUME NEW par \in [Node -> Node \cup {None}], NEW n \in Node,
         NEW x \in Chain(par, n), NEW y \in Chain(par, n), par[x] = None, par[y] = None
  PROVE  x = y
<1> DEFINE A == {m \in Node : x \in Chain(par, m)}
<1>1. x \in Node /\ y \in Node /\ n \in A
  BY ChainIs
<1>2. ASSUME NEW m \in A PROVE par[m] \in A \cup {None}
  <2>1. CASE m = x
    BY <2>1
  <2>2. CASE m # x
    <3>1. par[m] \in Node /\ x \in Chain(par, par[m])
      BY <2>2, ChainAbove
    <3> QED BY <3>1
  <2> QED BY <2>1, <2>2
<1>3. Chain(par, n) \subseteq A
  <2> HIDE DEF A
  <2>1. A \in SUBSET Node
    BY DEF A
  <2> QED BY <1>1, <1>2, <2>1, ChainIs
<1>4. x \in Chain(par, y)
  BY <1>3
<1> QED
  BY <1>1, <1>4, ChainAbove, NodeAssumption

\* Two parents that differ only outside a chain have that chain in common.
LEMMA ChainSame ==
  ASSUME NEW par \in [Node -> Node \cup {None}], NEW qar \in [Node -> Node \cup {None}],
         NEW n \in Node, \A m \in Chain(par, n) : qar[m] = par[m]
  PROVE  Chain(qar, n) = Chain(par, n)
<1>1. /\ Chain(par, n) \in SUBSET Node /\ n \in Chain(par, n)
      /\ \A m \in Chain(par, n) : qar[m] \in Chain(par, n) \cup {None}
  BY ChainIs
<1>2. Chain(qar, n) \subseteq Chain(par, n)
  BY <1>1, ChainIs
<1>3. /\ Chain(qar, n) \in SUBSET Node /\ n \in Chain(qar, n)
      /\ \A m \in Chain(qar, n) : qar[m] \in Chain(qar, n) \cup {None}
  BY ChainIs
<1>4. \A m \in Chain(qar, n) : par[m] \in Chain(qar, n) \cup {None}
  BY <1>2, <1>3
<1>5. Chain(par, n) \subseteq Chain(qar, n)
  BY <1>3, <1>4, ChainIs
<1> QED
  BY <1>2, <1>5

\* One parent that changes is on both chains or on neither, and then they are
\* the same.
LEMMA ChainApart ==
  ASSUME NEW par \in [Node -> Node \cup {None}], NEW qar \in [Node -> Node \cup {None}],
         NEW c \in Node, \A m \in Node \ {c} : qar[m] = par[m], NEW n \in Node
  PROVE  /\ c \in Chain(qar, n) <=> c \in Chain(par, n)
         /\ c \notin Chain(par, n) => Chain(qar, n) = Chain(par, n)
<1>1. c \notin Chain(par, n) => Chain(qar, n) = Chain(par, n)
  <2>1. Chain(par, n) \subseteq Node
    BY ChainIs
  <2> QED BY <2>1, ChainSame
<1>2. c \notin Chain(qar, n) => Chain(par, n) = Chain(qar, n)
  <2>1. Chain(qar, n) \subseteq Node
    BY ChainIs
  <2> QED BY <2>1, ChainSame
<1> QED
  BY <1>1, <1>2
-----------------------------------------------------------------------------
(* The generations.                                                         *)

Counters == [sel : Nat, style : [Node -> Nat], kids : [Node -> [any : Nat, forward : Nat]],
             form : Nat, global : Nat, par : [Node -> Node \cup {None}]]

\* No stamp is newer than the selector version.
GensFit(g) ==
  /\ g \in Counters
  /\ g.form <= g.sel /\ g.global <= g.sel
  /\ \A n \in Node : g.style[n] <= g.sel /\ g.kids[n].any <= g.sel /\ g.kids[n].forward <= g.sel

\* No stamp of u is older than that of g.
Later(g, u) ==
  /\ g.sel <= u.sel /\ g.form <= u.form /\ g.global <= u.global
  /\ \A n \in Node : /\ g.style[n] <= u.style[n]
                     /\ g.kids[n].any <= u.kids[n].any /\ g.kids[n].forward <= u.kids[n].forward

\* The stamps one by one.
LEMMA StampsAre ==
  ASSUME NEW g, NEW h, NEW scope \in Scopes, NEW x
  PROVE  x \in StampsRead(g, h, scope) <=>
           \/ x = g.global
           \/ \E n \in Chain(g.par, h) : x = g.style[n]
           \/ scope.forms /\ x = g.form
           \/ scope.siblings = "forward" /\ \E n \in Chain(g.par, h) :
                g.par[n] # None /\ x = g.kids[g.par[n]].forward
           \/ scope.siblings = "both" /\ \E n \in Chain(g.par, h) :
                g.par[n] # None /\ x = g.kids[g.par[n]].any
<1> DEFINE chain == Chain(g.par, h)
           lists == {g.kids[g.par[n]] : n \in {m \in chain : g.par[m] # None}}
           some  == CASE scope.siblings = "none" -> {}
                      [] scope.siblings = "forward" -> {l.forward : l \in lists}
                      [] scope.siblings = "both" -> {l.any : l \in lists}
<1>1. scope.siblings \in {"none", "forward", "both"} /\ scope.forms \in BOOLEAN
  BY StyleAssumption
<1>2. StampsRead(g, h, scope) = {g.global} \cup {g.style[n] : n \in chain}
                                  \cup (IF scope.forms THEN {g.form} ELSE {}) \cup some
  BY DEF StampsRead
<1>3. x \in some <=> \/ scope.siblings = "forward" /\ \E l \in lists : x = l.forward
                     \/ scope.siblings = "both" /\ \E l \in lists : x = l.any
  <2> HIDE DEF lists
  <2> QED BY <1>1
<1>4. /\ (\E l \in lists : x = l.forward) <=>
           \E n \in chain : g.par[n] # None /\ x = g.kids[g.par[n]].forward
      /\ (\E l \in lists : x = l.any) <=>
           \E n \in chain : g.par[n] # None /\ x = g.kids[g.par[n]].any
  <2> HIDE DEF chain
  <2> QED OBVIOUS
<1> HIDE DEF some, lists, chain
<1>5. x \in StampsRead(g, h, scope) <=>
        x = g.global \/ (\E n \in chain : x = g.style[n]) \/ (scope.forms /\ x = g.form) \/ x \in some
  BY <1>1, <1>2
<1> QED
  BY <1>3, <1>4, <1>5 DEF chain

\* The generation is the newest stamp that is read.
LEMMA GenerationIs ==
  ASSUME NEW g, GensFit(g), NEW h \in Node, NEW scope \in Scopes
  PROVE  /\ StyleGeneration(g, h, scope) \in Nat /\ StyleGeneration(g, h, scope) <= g.sel
         /\ StyleGeneration(g, h, scope) \in StampsRead(g, h, scope)
         /\ \A x \in StampsRead(g, h, scope) : x \in Nat /\ x <= StyleGeneration(g, h, scope)
<1> DEFINE S == StampsRead(g, h, scope)
<1>1. /\ g.sel \in Nat /\ g.form \in 0..g.sel /\ g.global \in 0..g.sel
      /\ g.par \in [Node -> Node \cup {None}]
      /\ \A n \in Node : /\ g.style[n] \in 0..g.sel
                         /\ g.kids[n].any \in 0..g.sel /\ g.kids[n].forward \in 0..g.sel
  BY DEF GensFit, Counters
<1>2. \A n \in Chain(g.par, h) : n \in Node /\ (g.par[n] # None => g.par[n] \in Node)
  BY <1>1, ChainIs
<1>3. S \in SUBSET (0..g.sel) /\ S # {}
  <2>1. g.global \in S
    BY StampsAre
  <2>2. ASSUME NEW x \in S PROVE x \in 0..g.sel
    <3>1. \/ x = g.global
          \/ \E n \in Chain(g.par, h) : x = g.style[n]
          \/ scope.forms /\ x = g.form
          \/ \E n \in Chain(g.par, h) : g.par[n] # None /\ x = g.kids[g.par[n]].forward
          \/ \E n \in Chain(g.par, h) : g.par[n] # None /\ x = g.kids[g.par[n]].any
      BY StampsAre
    <3> QED BY <1>1, <1>2, <3>1
  <2> HIDE DEF S
  <2> QED BY <2>1, <2>2
<1>4. StyleGeneration(g, h, scope) = Max(S)
  BY DEF StyleGeneration
<1> HIDE DEF S
<1>5. Max(S) \in S /\ \A x \in S : x <= Max(S)
  BY <1>1, <1>3, Extremes
<1> QED
  BY <1>1, <1>3, <1>4, <1>5 DEF S

\* It grows with the stamps while the chain is the same.
LEMMA GenerationGrows ==
  ASSUME NEW g, GensFit(g), NEW u, GensFit(u), Later(g, u), NEW h \in Node, NEW scope \in Scopes,
         Chain(u.par, h) = Chain(g.par, h), \A n \in Chain(g.par, h) : u.par[n] = g.par[n]
  PROVE  StyleGeneration(g, h, scope) <= StyleGeneration(u, h, scope)
<1> DEFINE x == StyleGeneration(g, h, scope)
           y == StyleGeneration(u, h, scope)
<1>1. /\ g.form \in Nat /\ g.global \in Nat /\ u.form \in Nat /\ u.global \in Nat
      /\ g.par \in [Node -> Node \cup {None}]
      /\ \A n \in Node : /\ g.style[n] \in Nat /\ u.style[n] \in Nat
                         /\ g.kids[n].any \in Nat /\ g.kids[n].forward \in Nat
                         /\ u.kids[n].any \in Nat /\ u.kids[n].forward \in Nat
  BY DEF GensFit, Counters
<1>2. \A n \in Chain(g.par, h) : n \in Node /\ (g.par[n] # None => g.par[n] \in Node)
  BY <1>1, ChainIs
<1>3. x \in Nat /\ y \in Nat /\ x \in StampsRead(g, h, scope)
      /\ \A s \in StampsRead(u, h, scope) : s \in Nat /\ s <= y
  BY GenerationIs
<1>4. SUFFICES \E s \in StampsRead(u, h, scope) : x <= s
  BY <1>3
<1>5. \/ x = g.global
      \/ \E n \in Chain(g.par, h) : x = g.style[n]
      \/ scope.forms /\ x = g.form
      \/ scope.siblings = "forward" /\ \E n \in Chain(g.par, h) :
           g.par[n] # None /\ x = g.kids[g.par[n]].forward
      \/ scope.siblings = "both" /\ \E n \in Chain(g.par, h) :
           g.par[n] # None /\ x = g.kids[g.par[n]].any
  BY <1>3, StampsAre
<1> HIDE DEF x, y
<1>6. CASE x = g.global
  <2>1. u.global \in StampsRead(u, h, scope)
    BY StampsAre
  <2> QED BY <1>6, <2>1 DEF Later
<1>7. CASE \E n \in Chain(g.par, h) : x = g.style[n]
  <2>1. PICK n \in Chain(g.par, h) : x = g.style[n]
    BY <1>7
  <2>2. u.style[n] \in StampsRead(u, h, scope)
    BY StampsAre
  <2> QED BY <1>2, <2>1, <2>2 DEF Later
<1>8. CASE scope.forms /\ x = g.form
  <2>1. u.form \in StampsRead(u, h, scope)
    BY <1>8, StampsAre
  <2> QED BY <1>8, <2>1 DEF Later
<1>9. CASE scope.siblings = "forward" /\ \E n \in Chain(g.par, h) :
             g.par[n] # None /\ x = g.kids[g.par[n]].forward
  <2>1. PICK n \in Chain(g.par, h) : g.par[n] # None /\ x = g.kids[g.par[n]].forward
    BY <1>9
  <2>2. u.par[n] = g.par[n]
    OBVIOUS
  <2>3. u.kids[u.par[n]].forward \in StampsRead(u, h, scope)
    BY <1>9, <2>1, <2>2, StampsAre
  <2> QED BY <1>2, <2>1, <2>2, <2>3 DEF Later
<1>10. CASE scope.siblings = "both" /\ \E n \in Chain(g.par, h) :
              g.par[n] # None /\ x = g.kids[g.par[n]].any
  <2>1. PICK n \in Chain(g.par, h) : g.par[n] # None /\ x = g.kids[g.par[n]].any
    BY <1>10
  <2>2. u.par[n] = g.par[n]
    OBVIOUS
  <2>3. u.kids[u.par[n]].any \in StampsRead(u, h, scope)
    BY <1>10, <2>1, <2>2, StampsAre
  <2> QED BY <1>2, <2>1, <2>2, <2>3 DEF Later
<1> QED
  BY <1>5, <1>6, <1>7, <1>8, <1>9, <1>10

\* One selector version later.
LEMMA UnscopedFits ==
  ASSUME NEW g, GensFit(g)
  PROVE  LET u == Unscoped(g)
         IN  /\ GensFit(u) /\ Later(g, u) /\ u.sel = g.sel + 1 /\ u.par = g.par
             /\ u.style = g.style /\ u.kids = g.kids /\ u.form = g.form
<1> DEFINE u == Unscoped(g)
<1>1. /\ u \in Counters /\ u.sel = g.sel + 1 /\ u.par = g.par /\ u.style = g.style
      /\ u.kids = g.kids /\ u.form = g.form /\ u.global = g.global
  BY DEF GensFit, Counters, Unscoped
<1> HIDE DEF u
<1>2. g \in Counters /\ g.sel \in Nat
  BY DEF GensFit, Counters
<1>3. \A n \in Node : g.style[n] \in Nat /\ g.kids[n].any \in Nat /\ g.kids[n].forward \in Nat
  BY <1>2 DEF Counters
<1>4. g.form \in Nat /\ g.global \in Nat
  BY <1>2 DEF Counters
<1>5. GensFit(u)
  BY <1>1, <1>2, <1>3, <1>4 DEF GensFit
<1>6. Later(g, u)
  BY <1>1, <1>2, <1>3, <1>4 DEF Later
<1> QED
  BY <1>1, <1>5, <1>6 DEF u

\* A node is stamped.
LEMMA StampFits ==
  ASSUME NEW g, GensFit(g), NEW n \in Node
  PROVE  LET u == Stamp(g, n)
         IN  /\ GensFit(u) /\ Later(g, u) /\ u.sel = g.sel /\ u.par = g.par
             /\ u.style[n] = g.sel /\ u.kids = g.kids /\ u.form = g.form
<1> DEFINE u == Stamp(g, n)
<1>1. /\ u \in Counters /\ u.sel = g.sel /\ u.par = g.par /\ u.kids = g.kids
      /\ u.form = g.form /\ u.global = g.global
      /\ \A m \in Node : u.style[m] = IF m = n THEN g.sel ELSE g.style[m]
  BY DEF GensFit, Counters, Stamp
<1> HIDE DEF u
<1>2. /\ g.sel \in Nat /\ g.form \in Nat /\ g.global \in Nat
      /\ \A m \in Node : g.style[m] \in Nat /\ g.kids[m].any \in Nat /\ g.kids[m].forward \in Nat
  BY DEF GensFit, Counters
<1> QED
  BY <1>1, <1>2 DEF GensFit, Later, u

\* The children of a node are stamped.
LEMMA ChildrenFit ==
  ASSUME NEW g, GensFit(g), NEW p \in Node, NEW forward \in BOOLEAN
  PROVE  LET u == BumpChildren(g, p, forward)
         IN  /\ GensFit(u) /\ Later(g, u) /\ u.sel = g.sel /\ u.par = g.par
             /\ u.style = g.style /\ u.form = g.form
             /\ u.kids[p].any = g.sel /\ (forward => u.kids[p].forward = g.sel)
<1> DEFINE u == BumpChildren(g, p, forward)
<1>1. /\ g.sel \in Nat /\ g.form \in Nat /\ g.global \in Nat
      /\ \A m \in Node : /\ g.style[m] \in Nat /\ g.kids[m].any \in Nat /\ g.kids[m].forward \in Nat
                         /\ g.kids[m] \in [any : Nat, forward : Nat]
  BY DEF GensFit, Counters
<1> DEFINE k == [any |-> g.sel, forward |-> IF forward THEN g.sel ELSE g.kids[p].forward]
<1>2. u = [g EXCEPT !.kids = [g.kids EXCEPT ![p] = k]]
  BY DEF BumpChildren, GensFit, Counters
<1>3. /\ k \in [any : Nat, forward : Nat] /\ k.any = g.sel
      /\ k.forward = IF forward THEN g.sel ELSE g.kids[p].forward
  BY <1>1
<1> HIDE DEF k, u
<1>4. /\ u \in Counters /\ u.sel = g.sel /\ u.par = g.par /\ u.style = g.style
      /\ u.form = g.form /\ u.global = g.global
      /\ \A m \in Node : u.kids[m] = IF m = p THEN k ELSE g.kids[m]
  BY <1>2, <1>3 DEF GensFit, Counters
<1> QED
  BY <1>1, <1>3, <1>4 DEF GensFit, Later, u

\* The forms are stamped.
LEMMA FormFits ==
  ASSUME NEW g, GensFit(g), NEW moved
  PROVE  LET u == FormMoved(g, moved)
         IN  /\ GensFit(u) /\ Later(g, u) /\ u.sel = g.sel /\ u.par = g.par
             /\ u.style = g.style /\ u.kids = g.kids /\ (moved => u.form = g.sel)
<1>1. /\ g.sel \in Nat /\ g.form \in Nat /\ g.global \in Nat
      /\ \A m \in Node : g.style[m] \in Nat /\ g.kids[m].any \in Nat /\ g.kids[m].forward \in Nat
  BY DEF GensFit, Counters
<1>2. CASE ~moved
  <2>1. FormMoved(g, moved) = g
    BY <1>2 DEF FormMoved
  <2> QED BY <1>1, <1>2, <2>1 DEF Later
<1>3. CASE moved
  <2> DEFINE u == FormMoved(g, moved)
  <2>1. /\ u \in Counters /\ u.sel = g.sel /\ u.par = g.par /\ u.style = g.style
        /\ u.kids = g.kids /\ u.form = g.sel /\ u.global = g.global
    BY <1>3 DEF GensFit, Counters, FormMoved
  <2> HIDE DEF u
  <2> QED BY <1>1, <2>1 DEF GensFit, Later, u
<1> QED
  BY <1>2, <1>3

\* Stamps only get newer.
LEMMA LaterStill ==
  ASSUME NEW g, GensFit(g), NEW u, GensFit(u), NEW v, GensFit(v), Later(g, u), Later(u, v)
  PROVE  Later(g, v)
<1>1. \A x \in {g, u, v} :
        /\ x.sel \in Nat /\ x.form \in Nat /\ x.global \in Nat
        /\ \A m \in Node : x.style[m] \in Nat /\ x.kids[m].any \in Nat /\ x.kids[m].forward \in Nat
  BY DEF GensFit, Counters
<1> QED
  BY <1>1 DEF Later

\* A node is bumped: with a parent, it and its siblings are stamped.
LEMMA NodeBumped ==
  ASSUME NEW g, GensFit(g), NEW n \in Node
  PROVE  LET u == BumpNode(g, n)
         IN  /\ GensFit(u) /\ Later(g, u) /\ u.sel = g.sel + 1 /\ u.par = g.par
             /\ g.par[n] # None => /\ u.style[n] = u.sel /\ u.kids[g.par[n]].any = u.sel
                                   /\ HasNext(n) => u.kids[g.par[n]].forward = u.sel
<1> DEFINE v == Unscoped(g)
           s == Stamp(v, n)
           w == BumpChildren(s, g.par[n], HasNext(n))
<1>1. GensFit(v) /\ Later(g, v) /\ v.sel = g.sel + 1 /\ v.par = g.par
  BY UnscopedFits
<1>2. CASE g.par[n] = None
  BY <1>1, <1>2 DEF BumpNode
<1>3. CASE g.par[n] # None
  <2>1. g.par[n] \in Node /\ HasNext(n) \in BOOLEAN
    BY <1>3 DEF GensFit, Counters, HasNext
  <2> HIDE DEF v
  <2>2. GensFit(s) /\ Later(v, s) /\ s.sel = v.sel /\ s.par = v.par /\ s.style[n] = v.sel
    BY <1>1, StampFits
  <2> HIDE DEF s
  <2>3. /\ GensFit(w) /\ Later(s, w) /\ w.sel = s.sel /\ w.par = s.par /\ w.style = s.style
        /\ w.kids[g.par[n]].any = s.sel /\ (HasNext(n) => w.kids[g.par[n]].forward = s.sel)
    BY <2>1, <2>2, ChildrenFit
  <2>4. BumpNode(g, n) = w
    BY <1>3 DEF BumpNode, s, v
  <2> HIDE DEF w
  <2>5. Later(g, w)
    BY <1>1, <2>2, <2>3, LaterStill
  <2> QED BY <1>1, <2>2, <2>3, <2>4, <2>5
<1> QED
  BY <1>2, <1>3

\* A node enters or leaves the children of p.
LEMMA ChildListBumped ==
  ASSUME NEW g, GensFit(g), NEW p \in Node, NEW c \in Node, NEW forward \in BOOLEAN,
         NEW q \in Node \cup {None},
         NEW u, u = BumpChildList(Relinked(g, c, q), p, c, forward)
  PROVE  /\ GensFit(u) /\ Later(g, u) /\ u.sel = g.sel + 1 /\ u.par = [g.par EXCEPT ![c] = q]
         /\ Scoped(u, p) => /\ u.style[c] = u.sel /\ u.kids[p].any = u.sel
                            /\ forward => u.kids[p].forward = u.sel
         /\ HasFormContent(u.par, c) => u.form = u.sel
<1> DEFINE v == Relinked(g, c, q)
           o == Unscoped(v)
           s == Stamp(o, c)
           w == IF Scoped(v, p) THEN BumpChildren(s, p, forward) ELSE o
           m == TouchesForms(v.par, p) \/ HasFormContent(v.par, c)
<1>1. /\ GensFit(v) /\ v.sel = g.sel /\ v.par = [g.par EXCEPT ![c] = q]
      /\ v.style = g.style /\ v.kids = g.kids /\ v.form = g.form /\ v.global = g.global
  BY DEF GensFit, Counters, Relinked
<1>2. Later(g, v)
  <2> HIDE DEF v
  <2>1. /\ g.sel \in Nat /\ g.form \in Nat /\ g.global \in Nat
        /\ \A x \in Node : g.style[x] \in Nat /\ g.kids[x].any \in Nat /\ g.kids[x].forward \in Nat
    BY DEF GensFit, Counters
  <2> QED BY <1>1, <2>1 DEF Later
<1>3. u = FormMoved(w, m)
  BY DEF BumpChildList
<1> HIDE DEF v
<1>4. GensFit(o) /\ Later(v, o) /\ o.sel = v.sel + 1 /\ o.par = v.par
  BY <1>1, UnscopedFits
<1> HIDE DEF o
<1>5. GensFit(s) /\ Later(o, s) /\ s.sel = o.sel /\ s.par = o.par /\ s.style[c] = o.sel
  BY <1>4, StampFits
<1> HIDE DEF s
<1>6. /\ GensFit(w) /\ Later(o, w) /\ w.sel = o.sel /\ w.par = o.par
      /\ Scoped(v, p) => /\ w.style[c] = o.sel /\ w.kids[p].any = o.sel
                         /\ forward => w.kids[p].forward = o.sel
  <2>1. CASE ~Scoped(v, p)
    <3>1. w = o
      BY <2>1
    <3>2. Later(o, o)
      <4>1. /\ o.sel \in Nat /\ o.form \in Nat /\ o.global \in Nat
            /\ \A x \in Node : o.style[x] \in Nat /\ o.kids[x].any \in Nat /\ o.kids[x].forward \in Nat
        BY <1>4 DEF GensFit, Counters
      <4> QED BY <4>1 DEF Later
    <3> QED BY <1>4, <2>1, <3>1, <3>2
  <2>2. CASE Scoped(v, p)
    <3> DEFINE b == BumpChildren(s, p, forward)
    <3>1. w = b
      BY <2>2
    <3>2. /\ GensFit(b) /\ Later(s, b) /\ b.sel = s.sel /\ b.par = s.par /\ b.style = s.style
          /\ b.kids[p].any = s.sel /\ (forward => b.kids[p].forward = s.sel)
      BY <1>5, ChildrenFit
    <3> HIDE DEF b
    <3>3. Later(o, b)
      BY <1>4, <1>5, <3>2, LaterStill
    <3> HIDE DEF w
    <3> QED BY <1>5, <3>1, <3>2, <3>3
  <2> QED BY <2>1, <2>2
<1> HIDE DEF w
<1>7. /\ GensFit(u) /\ Later(w, u) /\ u.sel = w.sel /\ u.par = w.par
      /\ u.style = w.style /\ u.kids = w.kids /\ (m => u.form = w.sel)
  <2> HIDE DEF m
  <2>1. LET x == FormMoved(w, m)
        IN  /\ GensFit(x) /\ Later(w, x) /\ x.sel = w.sel /\ x.par = w.par
            /\ x.style = w.style /\ x.kids = w.kids /\ (m => x.form = w.sel)
    BY <1>6, FormFits
  <2> QED BY <1>3, <2>1
<1> HIDE DEF m
<1>8. Later(g, u)
  <2>1. Later(g, o)
    BY <1>1, <1>2, <1>4, LaterStill
  <2>2. Later(g, w)
    BY <1>4, <1>6, <2>1, LaterStill
  <2> QED BY <1>6, <1>7, <2>2, LaterStill
<1>9. u.par = v.par
  BY <1>4, <1>6, <1>7
<1>10. Scoped(u, p) <=> Scoped(v, p)
  BY <1>9 DEF Scoped
<1>11. HasFormContent(u.par, c) => m
  BY <1>9 DEF m
<1> QED
  BY <1>1, <1>3, <1>4, <1>6, <1>7, <1>8, <1>9, <1>10, <1>11 DEF v
-----------------------------------------------------------------------------
(* What is read.                                                            *)

NoFormAttr == \A n \in Node : ~attr[n].form

\* The parents of a ready tree.
LEMMA ReadyParents ==
  ASSUME NEW t, Ready(t)
  PROVE  /\ t.parent \in [Node -> Node \cup {None}] /\ Fit(t)
         /\ \A n \in Node : n \in Tops \/ hostOf[n] # None => t.parent[n] = None
BY DEF Ready, Fit, Shaped, Topped, Tops

\* A styled element hangs from the document or from a host.
LEMMA StyledTop ==
  ASSUME NEW t, Ready(t), NEW h \in Node, HasStyle(t, h), NEW n \in Chain(t.parent, h),
         t.parent[n] = None
  PROVE  n = Document \/ hostOf[n] # None
<1>1. PICK w \in Chain(t.parent, h) : w = Document \/ hostOf[w] # None
  BY DEF HasStyle, Connected
<1>2. w \in Node /\ t.parent \in [Node -> Node \cup {None}]
  BY ReadyParents, ChainIs
<1>3. t.parent[w] = None
  BY <1>1, <1>2, ReadyParents DEF Tops
<1>4. n = w
  BY <1>2, <1>3, OneEnd
<1> QED
  BY <1>1, <1>4

\* Its ancestors that are elements have a parent.
LEMMA StyledParent ==
  ASSUME NEW t, Ready(t), NEW h \in Node, HasStyle(t, h), NEW n \in Chain(t.parent, h) \cap Element
  PROVE  t.parent[n] \in Node /\ t.parent[n] \in Chain(t.parent, h)
<1>1. n \in Node /\ t.parent \in [Node -> Node \cup {None}]
  BY ReadyParents, ChainIs
<1>2. n # Document /\ hostOf[n] = None
  BY <1>1, NodeAssumption DEF Ready
<1>3. t.parent[n] # None
  BY <1>2, StyledTop
<1> QED
  BY <1>1, <1>3, ChainIs

\* Changes of the children of its ancestors are stamped.
LEMMA StyledScoped ==
  ASSUME NEW t, Ready(t), NEW h \in Node, HasStyle(t, h), NEW n \in Chain(t.parent, h),
         NEW g, g.par = t.parent
  PROVE  Scoped(g, n)
BY StyledTop DEF Scoped

\* Being styled is up to the chain.
LEMMA StyledSame ==
  ASSUME NEW t, NEW u, NEW h, Chain(u.parent, h) = Chain(t.parent, h)
  PROVE  HasStyle(u, h) <=> HasStyle(t, h)
BY DEF HasStyle, Connected

\* The list up to a node.
LEMMA PrefixIs ==
  ASSUME NEW t, Fit(t), NEW n \in Node, t.parent[n] \in Node
  PROVE  LET list == t.children[t.parent[n]]
             x == SubSeq(list, 1, Position(list, n))
         IN  /\ x \in Seq(Node) /\ IsInjective(x)
             /\ ToSet(x) = {m \in KidsOf(t, t.parent[n]) : m = n \/ <<m, n>> \in Ord(t)}
             /\ \A a, b : Precedes(x, a, b) <=> a \in ToSet(x) /\ b \in ToSet(x) /\ <<a, b>> \in Ord(t)
<1> DEFINE p == t.parent[n]
           s == t.children[p]
           i == Position(s, n)
           x == SubSeq(s, 1, i)
           y == SubSeq(s, i + 1, Len(s))
<1>1. s \in Seq(Node) /\ IsInjective(s) /\ ToSet(s) = KidsOf(t, p) /\ n \in KidsOf(t, p) /\ p \in Node
  BY DEF Fit, Shaped, Paired, KidsOf
<1>2. i \in DOMAIN s /\ s[i] = n
  <2>1. Place(s, n, i)
    BY <1>1, Positioned
  <2> QED BY <1>1, <2>1 DEF Place
<1>3. i \in 0..Len(s) /\ i # 0
  BY <1>1, <1>2
<1>4. \A a, b : Precedes(s, a, b) <=> a \in KidsOf(t, p) /\ b \in KidsOf(t, p) /\ <<a, b>> \in Ord(t)
  BY <1>1, KidsOrder
<1> HIDE DEF s, i, p
<1>5. /\ x \in Seq(Node) /\ y \in Seq(Node) /\ x \o y = s
      /\ ToSet(x) = {c \in ToSet(s) : c = s[i] \/ Precedes(s, c, s[i])}
  BY <1>1, <1>3, DividedAt
<1> HIDE DEF x, y
<1>6. /\ IsInjective(x) /\ ToSet(x) \cap ToSet(y) = {}
      /\ \A a, b : Precedes(s, a, b) <=> Precedes(x, a, b) \/ Precedes(y, a, b)
                                         \/ (a \in ToSet(x) /\ b \in ToSet(y))
  BY <1>1, <1>5, JoinOrder
<1>7. \A a, b : /\ Precedes(x, a, b) => a \in ToSet(x) /\ b \in ToSet(x)
                /\ Precedes(y, a, b) => a \in ToSet(y) /\ b \in ToSet(y)
  BY DEF Precedes, ToSet
<1>8. ToSet(x) = {m \in KidsOf(t, p) : m = n \/ <<m, n>> \in Ord(t)}
  BY <1>1, <1>2, <1>4, <1>5
<1>9. ASSUME NEW a, NEW b
      PROVE  Precedes(x, a, b) <=> a \in ToSet(x) /\ b \in ToSet(x) /\ <<a, b>> \in Ord(t)
  <2>1. ASSUME Precedes(x, a, b) PROVE a \in ToSet(x) /\ b \in ToSet(x) /\ <<a, b>> \in Ord(t)
    BY <1>4, <1>6, <1>7, <2>1
  <2>2. ASSUME a \in ToSet(x), b \in ToSet(x), <<a, b>> \in Ord(t) PROVE Precedes(x, a, b)
    <3>1. Precedes(s, a, b)
      BY <1>4, <1>8, <2>2
    <3> QED BY <1>6, <1>7, <2>2, <3>1
  <2> QED BY <2>1, <2>2
<1> QED
  BY <1>5, <1>6, <1>8, <1>9 DEF x, s, i, p

\* Children that are the same, in the same order, are one list.
LEMMA KidsSame ==
  ASSUME NEW t, Fit(t), NEW u, Fit(u), NEW p \in Node, KidsOf(u, p) = KidsOf(t, p),
         \A a, b \in KidsOf(t, p) : <<a, b>> \in Ord(u) <=> <<a, b>> \in Ord(t)
  PROVE  u.children[p] = t.children[p]
<1>1. /\ t.children[p] \in Seq(Node) /\ u.children[p] \in Seq(Node)
      /\ IsInjective(t.children[p]) /\ IsInjective(u.children[p])
      /\ ToSet(t.children[p]) = ToSet(u.children[p])
  BY DEF Fit, Shaped, Paired
<1>2. \A a, b : Precedes(u.children[p], a, b) <=> Precedes(t.children[p], a, b)
  BY KidsOrder
<1> QED
  BY <1>1, <1>2, SameList

\* What a node in a child list, other than c, sees of its siblings when c
\* comes or goes: a change only if c is in its list, and before it when it
\* looks forward only.
LEMMA SeenApart ==
  ASSUME NEW hi, Fit(hi), NEW c \in Node, NEW lo, Parted(hi, lo, {c}),
         NEW n \in Node, n # c, hi.parent[n] \in Node,
         NEW siblings \in {"none", "forward", "both"},
         hi.parent[n] = hi.parent[c] =>
           siblings = "none" \/ (siblings = "forward" /\ <<c, n>> \notin Ord(hi))
  PROVE  SiblingsSeen(lo, n, siblings) = SiblingsSeen(hi, n, siblings)
<1> DEFINE p == hi.parent[n]
           s == hi.children[p]
           r == lo.children[p]
           x == SubSeq(s, 1, Position(s, n))
           y == SubSeq(r, 1, Position(r, n))
           seen(list, upto) == CASE siblings = "none" -> <<>>
                                 [] siblings = "forward" -> Kept(upto, Element)
                                 [] siblings = "both" -> Kept(list, Element)
           sees(list, upto) == [i \in DOMAIN seen(list, upto) |-> Look(seen(list, upto)[i])]
<1>1. /\ Fit(lo) /\ lo.parent[n] = p /\ p \in Node
      /\ \A m \in Node : lo.parent[m] = IF m = c THEN None ELSE hi.parent[m]
      /\ \A a, b : <<a, b>> \in Ord(lo) <=> <<a, b>> \in Ord(hi) /\ a # c /\ b # c
  BY DEF Parted
<1>2. SiblingsSeen(hi, n, siblings) = sees(s, x) /\ SiblingsSeen(lo, n, siblings) = sees(r, y)
  BY <1>1 DEF SiblingsSeen
<1> HIDE DEF s, r, x, y
<1>3. CASE hi.parent[c] # p
  <2>1. KidsOf(lo, p) = KidsOf(hi, p) /\ c \notin KidsOf(hi, p)
    BY <1>1, <1>3, NodeAssumption DEF KidsOf
  <2>2. r = s
    BY <1>1, <2>1, KidsSame DEF r, s
  <2>3. x = y
    BY <2>2 DEF x, y
  <2> HIDE DEF sees
  <2> QED BY <1>2, <2>2, <2>3
<1>4. CASE siblings = "none"
  BY <1>2, <1>4
<1>5. CASE siblings = "forward" /\ <<c, n>> \notin Ord(hi)
  <2>1. /\ x \in Seq(Node) /\ IsInjective(x)
        /\ ToSet(x) = {m \in KidsOf(hi, p) : m = n \/ <<m, n>> \in Ord(hi)}
        /\ \A a, b : Precedes(x, a, b) <=> a \in ToSet(x) /\ b \in ToSet(x) /\ <<a, b>> \in Ord(hi)
    BY <1>1, PrefixIs DEF x, s
  <2>2. /\ y \in Seq(Node) /\ IsInjective(y)
        /\ ToSet(y) = {m \in KidsOf(lo, p) : m = n \/ <<m, n>> \in Ord(lo)}
        /\ \A a, b : Precedes(y, a, b) <=> a \in ToSet(y) /\ b \in ToSet(y) /\ <<a, b>> \in Ord(lo)
    BY <1>1, PrefixIs DEF y, r
  <2>3. ToSet(x) = ToSet(y) /\ c \notin ToSet(x)
    BY <1>1, <1>5, <2>1, <2>2, NodeAssumption DEF KidsOf
  <2>4. x = y
    <3>1. \A a, b : Precedes(x, a, b) <=> Precedes(y, a, b)
      BY <1>1, <2>1, <2>2, <2>3
    <3> QED BY <2>1, <2>2, <2>3, <3>1, SameList
  <2>5. seen(s, x) = Kept(x, Element) /\ seen(r, y) = Kept(y, Element)
    BY <1>5
  <2>6. seen(s, x) = seen(r, y)
    BY <2>4, <2>5
  <2> HIDE DEF seen
  <2> QED BY <1>2, <2>6
<1> QED
  BY <1>3, <1>4, <1>5

\* Validity is up to the forms above the controls and forms.
LEMMA InvalidSame ==
  ASSUME NoFormAttr, NEW t, NEW u,
         \A c \in FormElement : Chain(u.parent, c) \cap Form = Chain(t.parent, c) \cap Form
  PROVE  \A n : Invalid(u, n) <=> Invalid(t, n)
<1>1. ASSUME NEW c \in Control PROVE FormOwner(u, c) = FormOwner(t, c)
  <2>1. c \in FormElement /\ c \in Node /\ Form \subseteq FormElement
    BY StyleAssumption, NodeAssumption DEF FormElement
  <2>2. ~attr[c].form
    BY <2>1 DEF NoFormAttr
  <2> DEFINE above(v, f) == Chain(v.parent, f) \cap Form
             owner(v) == {f \in above(v, c) : \A g \in above(v, c) : g \in Chain(v.parent, f)}
  <2>3. FormOwner(u, c) = owner(u) /\ FormOwner(t, c) = owner(t)
    BY <2>2 DEF FormOwner
  <2>4. above(u, c) = above(t, c)
    BY <2>1
  <2>5. \A f, g \in Form : g \in Chain(u.parent, f) <=> g \in Chain(t.parent, f)
    BY <2>1
  <2>6. owner(u) = owner(t)
    BY <2>4, <2>5
  <2> QED BY <2>3, <2>6
<1> QED
  BY <1>1 DEF Invalid

\* Two trees in which a node reads the same.
LEMMA ReadsAre ==
  ASSUME NEW t, NEW u, NEW h, NEW scope,
         Chain(u.parent, h) = Chain(t.parent, h),
         \A n \in Chain(t.parent, h) \cap Element :
           SiblingsSeen(u, n, scope.siblings) = SiblingsSeen(t, n, scope.siblings),
         scope.forms => \A n : Invalid(u, n) <=> Invalid(t, n)
  PROVE  Reads(u, h, scope) = Reads(t, h, scope)
<1> DEFINE S == Chain(t.parent, h) \cap Element
           row(v, n) == <<Look(n), SiblingsSeen(v, n, scope.siblings), scope.forms /\ Invalid(v, n),
                          [s \in Sheet |-> attr[s].media]>>
<1>1. Reads(u, h, scope) = [n \in S |-> row(u, n)] /\ Reads(t, h, scope) = [n \in S |-> row(t, n)]
  BY DEF Reads
<1>2. ASSUME NEW n \in S PROVE row(u, n) = row(t, n)
  <2>1. SiblingsSeen(u, n, scope.siblings) = SiblingsSeen(t, n, scope.siblings)
    OBVIOUS
  <2>2. (scope.forms /\ Invalid(u, n)) = (scope.forms /\ Invalid(t, n))
    OBVIOUS
  <2> QED BY <2>1, <2>2
<1> HIDE DEF row, S
<1> QED
  BY <1>1, <1>2
-----------------------------------------------------------------------------
(* One node enters or leaves.                                               *)

\* A cached style, if any, whose key is not ahead of the counters g.
Entry(e, g) ==
  e # <<>> => e.node \in Node /\ e.scope \in Scopes /\ e.key \in Nat /\ e.key <= g.sel

\* The generation has moved past the key, or the reads are those cached.
Current(t, g, e) ==
  e # <<>> /\ HasStyle(t, e.node) =>
                         \/ StyleGeneration(g, e.node, e.scope) > e.key
                         \/ Reads(t, e.node, e.scope) = e.reads

\* A stamp of this moment is past every key.
LEMMA StampedPast ==
  ASSUME NEW g, NEW u, GensFit(u), NEW e, e # <<>>, Entry(e, g), u.sel = g.sel + 1, g.sel \in Nat,
         u.sel \in StampsRead(u, e.node, e.scope)
  PROVE  StyleGeneration(u, e.node, e.scope) > e.key
BY GenerationIs DEF Entry

\* hi has c under p, lo has it detached.
Crosses(lo, hi, p, c) ==
  /\ Ready(lo) /\ Ready(hi) /\ p \in Node /\ c \in Node
  /\ hi.parent[c] = p /\ Parted(hi, lo, {c})

\* t becomes u in one of the two directions; when c is the last child, or
\* not told otherwise, `forward` is FALSE.
Crossing(lo, hi, p, c, t, u, forward) ==
  /\ Crosses(lo, hi, p, c)
  /\ (t = lo /\ u = hi) \/ (t = hi /\ u = lo)
  /\ forward \in BOOLEAN /\ (~forward => \A x : <<c, x>> \notin Ord(hi))

\* Counters g of a tree t, with a style that is current.
Keyed(t, g, e) == GensFit(g) /\ g.par = t.parent /\ Entry(e, g) /\ Current(t, g, e)

\* Either way, a style that stays current: on the chain c itself is stamped,
\* beside it the list of p, below it the forms.
LEMMA CrossingCurrent ==
  ASSUME NoFormAttr, NEW lo, NEW hi, NEW p, NEW c, NEW t, NEW u, NEW forward,
         Crossing(lo, hi, p, c, t, u, forward), NEW g, NEW e, Keyed(t, g, e),
         NEW w, w = BumpChildList(Relinked(g, c, u.parent[c]), p, c, forward)
  PROVE  Keyed(u, w, e) /\ w.sel = g.sel + 1
<1> DEFINE h == e.node
<1>0. /\ Crosses(lo, hi, p, c) /\ ((t = lo /\ u = hi) \/ (t = hi /\ u = lo))
      /\ forward \in BOOLEAN /\ (~forward => \A x : <<c, x>> \notin Ord(hi))
      /\ GensFit(g) /\ g.par = t.parent /\ Entry(e, g) /\ Current(t, g, e)
  BY DEF Crossing, Keyed
<1>1. /\ Ready(t) /\ Ready(u) /\ p \in Node /\ c \in Node
      /\ t.parent \in [Node -> Node \cup {None}] /\ u.parent \in [Node -> Node \cup {None}]
      /\ lo.parent \in [Node -> Node \cup {None}] /\ hi.parent \in [Node -> Node \cup {None}]
      /\ Fit(hi) /\ Fit(lo) /\ hi.parent[c] = p /\ lo.parent[c] = None
  BY <1>0, ReadyParents DEF Crosses, Parted
<1>2. \A m \in Node \ {c} : hi.parent[m] = lo.parent[m]
  BY <1>0 DEF Crosses, Parted
<1>3. \A m \in Node \ {c} : u.parent[m] = t.parent[m]
  BY <1>0, <1>2
<1>4. /\ GensFit(w) /\ Later(g, w) /\ w.sel = g.sel + 1 /\ w.par = [g.par EXCEPT ![c] = u.parent[c]]
      /\ Scoped(w, p) => /\ w.style[c] = w.sel /\ w.kids[p].any = w.sel
                         /\ forward => w.kids[p].forward = w.sel
      /\ HasFormContent(w.par, c) => w.form = w.sel
  <2>1. p \in Node /\ c \in Node /\ u.parent[c] \in Node \cup {None}
    BY <1>1
  <2> QED BY <1>0, <2>1, ChildListBumped
<1>5. w.par = u.parent
  BY <1>0, <1>1, <1>3, <1>4
<1>6. g.sel \in Nat /\ w.sel \in Nat
  BY <1>0, <1>4 DEF GensFit, Counters
<1>7. SUFFICES ASSUME e # <<>>, HasStyle(u, h), h \in Node, e.scope \in Scopes, e.key \in Nat,
                      \A x \in StampsRead(w, h, e.scope) : x # w.sel
               PROVE  \/ StyleGeneration(w, h, e.scope) > e.key
                      \/ Reads(u, h, e.scope) = e.reads
  <2>1. Entry(e, w)
    BY <1>0, <1>4, <1>6 DEF Entry
  <2> QED BY <1>0, <1>4, <1>5, <1>6, <2>1, StampedPast DEF Current, Keyed, Entry
<1>8. ASSUME p \in Chain(u.parent, h) PROVE Scoped(w, p)
  BY <1>0, <1>1, <1>7, <1>5, <1>8, StyledScoped
<1>9. c \notin Chain(u.parent, h)
  <2>1. SUFFICES ASSUME c \in Chain(u.parent, h) PROVE FALSE
    OBVIOUS
  <2>2. CASE u = lo
    <3>1. c = Document \/ hostOf[c] # None
      BY <1>0, <1>1, <1>7, <2>1, <2>2, StyledTop
    <3>2. hi.parent[c] = None
      BY <1>0, <1>1, <1>7, <3>1, ReadyParents DEF Crosses, Tops
    <3> QED BY <1>0, <1>1, <1>7, <3>2, NodeAssumption
  <2>3. CASE u = hi
    <3>1. p \in Chain(u.parent, h)
      <4>1. u.parent[c] = p /\ p # None
        BY <1>1, <2>3, NodeAssumption
      <4> QED BY <1>1, <1>7, <2>1, <4>1, ChainIs
    <3>2. w.sel \in StampsRead(w, h, e.scope)
      BY <1>0, <1>1, <1>7, <1>4, <1>5, <1>8, <2>1, <3>1, StampsAre
    <3> QED BY <1>7, <3>2
  <2> QED BY <1>0, <2>2, <2>3
<1>10. Chain(t.parent, h) = Chain(u.parent, h) /\ c \notin Chain(t.parent, h)
  BY <1>0, <1>1, <1>7, <1>3, <1>9, ChainApart
<1>11. HasStyle(t, h)
  BY <1>7, <1>10, StyledSame
<1>12. CASE StyleGeneration(g, h, e.scope) > e.key
  <2>1. \A n \in Chain(g.par, h) : w.par[n] = g.par[n]
    <3>1. Chain(t.parent, h) \subseteq Node
      BY <1>0, <1>1, <1>7, ChainIs
    <3> QED BY <1>0, <1>3, <1>5, <1>10, <3>1
  <2>2. Chain(w.par, h) = Chain(g.par, h)
    BY <1>0, <1>5, <1>10
  <2>3. StyleGeneration(g, h, e.scope) <= StyleGeneration(w, h, e.scope)
    BY <1>0, <1>1, <1>7, <1>4, <2>1, <2>2, GenerationGrows
  <2>4. StyleGeneration(g, h, e.scope) \in Nat /\ StyleGeneration(w, h, e.scope) \in Nat /\ e.key \in Nat
    BY <1>0, <1>1, <1>7, <1>4, GenerationIs DEF Entry
  <2> QED BY <1>12, <2>3, <2>4
<1>13. CASE Reads(t, h, e.scope) = e.reads
  <2>1. ASSUME NEW n \in Chain(t.parent, h) \cap Element
        PROVE  SiblingsSeen(u, n, e.scope.siblings) = SiblingsSeen(t, n, e.scope.siblings)
    <3>1. n \in Node /\ n # c
      BY <1>0, <1>1, <1>7, <1>10, ChainIs
    <3>2. u.parent[n] \in Node /\ u.parent[n] \in Chain(u.parent, h)
      BY <1>0, <1>1, <1>7, <1>10, StyledParent
    <3>3. hi.parent[n] = u.parent[n]
      BY <1>0, <1>2, <3>1
    <3>4. e.scope.siblings \in {"none", "forward", "both"}
      BY <1>0, <1>1, <1>7, StyleAssumption
    <3>5. ASSUME hi.parent[n] = p
          PROVE  e.scope.siblings = "none" \/ (e.scope.siblings = "forward" /\ <<c, n>> \notin Ord(hi))
      <4>1. Scoped(w, p)
        BY <1>8, <3>2, <3>3, <3>5
      <4>2. n \in Chain(w.par, h) /\ w.par[n] = p /\ p # None
        BY <1>0, <1>1, <1>7, <1>5, <1>10, <3>3, <3>5, NodeAssumption
      <4>3. e.scope.siblings # "both"
        <5>1. e.scope.siblings = "both" => w.kids[w.par[n]].any \in StampsRead(w, h, e.scope)
          BY <1>0, <1>1, <1>7, <4>2, StampsAre
        <5> QED BY <1>0, <1>4, <1>7, <4>1, <4>2, <5>1
      <4>4. e.scope.siblings = "forward" => ~forward
        <5>1. e.scope.siblings = "forward" => w.kids[w.par[n]].forward \in StampsRead(w, h, e.scope)
          BY <1>0, <1>1, <1>7, <4>2, StampsAre
        <5> QED BY <1>0, <1>4, <1>7, <4>1, <4>2, <5>1
      <4> QED BY <1>0, <3>4, <4>3, <4>4
    <3>6. SiblingsSeen(lo, n, e.scope.siblings) = SiblingsSeen(hi, n, e.scope.siblings)
      <4>1. Parted(hi, lo, {c}) /\ hi.parent[n] \in Node
        BY <1>0, <3>2, <3>3 DEF Crosses
      <4> QED BY <1>1, <3>1, <3>4, <3>5, <4>1, SeenApart
    <3> QED BY <1>0, <3>6
  <2>2. ASSUME e.scope.forms, NEW n PROVE Invalid(u, n) <=> Invalid(t, n)
    <3>1. ~HasFormContent(u.parent, c)
      <4>1. w.form \in StampsRead(w, h, e.scope)
        BY <1>0, <1>1, <1>7, <2>2, StampsAre
      <4> QED BY <1>4, <1>5, <1>7, <4>1
    <3>2. ASSUME NEW f \in FormElement
          PROVE  Chain(u.parent, f) \cap Form = Chain(t.parent, f) \cap Form
      <4>1. f \in Node
        BY StyleAssumption, NodeAssumption DEF FormElement
      <4>2. c \notin Chain(u.parent, f)
        BY <3>1, <4>1 DEF HasFormContent
      <4>3. Chain(t.parent, f) = Chain(u.parent, f)
        BY <1>0, <1>1, <1>7, <1>3, <4>1, <4>2, ChainApart
      <4> QED BY <4>3
    <3> QED BY <3>2, InvalidSame
  <2> QED BY <1>10, <1>13, <2>1, <2>2, ReadsAre
<1>14. \/ StyleGeneration(g, h, e.scope) > e.key
       \/ Reads(t, h, e.scope) = e.reads
  BY <1>0, <1>7, <1>11 DEF Current
<1> QED
  BY <1>12, <1>13, <1>14
-----------------------------------------------------------------------------
(* The bumps of a call's steps.                                             *)

\* The rounds of BumpSteps, as a function.
BumpRounds(b, steps, n, f) ==
  /\ f[0] = b
  /\ \A k \in 1..n : f[k] = BumpStep(f[k - 1], steps[k])

\* BumpSteps has a run: the counters after each step.
LEMMA BumpsRun ==
  ASSUME NEW b, NEW steps, Len(steps) \in Nat
  PROVE  \E f : BumpRounds(b, steps, Len(steps), f) /\ BumpSteps(b, steps) = f[Len(steps)]
<1> DEFINE G(k, r) == BumpStep(r, steps[k])
           Runs(n, f) == /\ f = [k \in 0..n |-> f[k]] /\ f[0] = b
                         /\ \A k \in 1..n : f[k] = G(k, f[k - 1])
           T == {n \in Nat : \E f : Runs(n, f)}
<1>1. 0 \in T
  <2>1. Runs(0, [k \in 0..0 |-> b])
    OBVIOUS
  <2> QED BY <2>1
<1>2. ASSUME NEW n \in Nat, n \in T PROVE n + 1 \in T
  <2>1. PICK f : Runs(n, f)
    BY <1>2
  <2> DEFINE next == G(n + 1, f[n])
             g == [k \in 0..(n + 1) |-> IF k = n + 1 THEN next ELSE f[k]]
  <2> HIDE DEF next, G
  <2>2. g = [k \in 0..(n + 1) |-> g[k]] /\ g[0] = f[0] /\ g[n + 1] = next /\ g[n] = f[n]
    <3>1. /\ 0 \in 0..(n + 1) /\ n \in 0..(n + 1) /\ n + 1 \in 0..(n + 1)
          /\ 0 # n + 1 /\ n # n + 1
      OBVIOUS
    <3> QED BY <3>1
  <2>3. \A k \in 1..n : g[k] = f[k] /\ g[k - 1] = f[k - 1]
    OBVIOUS
  <2> HIDE DEF g
  <2>4. ASSUME NEW k \in 1..(n + 1) PROVE g[k] = G(k, g[k - 1])
    <3>1. CASE k = n + 1
      <4>1. k - 1 = n
        BY <3>1
      <4> QED BY <2>2, <3>1, <4>1 DEF next
    <3>2. CASE k \in 1..n
      BY <2>1, <2>3, <3>2
    <3>3. k = n + 1 \/ k \in 1..n
      OBVIOUS
    <3> QED BY <3>1, <3>2, <3>3
  <2>5. Runs(n + 1, g)
    BY <2>1, <2>2, <2>4
  <2> HIDE DEF Runs
  <2> QED BY <2>5
<1>3. PICK f : Runs(Len(steps), f)
  BY <1>1, <1>2, Counting
<1> DEFINE Def(h) == h = [k \in 0..Len(steps) |->
                            IF k = 0 THEN b ELSE BumpStep(h[k - 1], steps[k])]
<1>4. ASSUME NEW k \in 0..Len(steps) PROVE f[k] = IF k = 0 THEN b ELSE G(k, f[k - 1])
  <2>1. k = 0 \/ k \in 1..Len(steps)
    OBVIOUS
  <2>2. k \in 1..Len(steps) => k # 0
    OBVIOUS
  <2> HIDE DEF G
  <2> QED BY <1>3, <2>1, <2>2
<1>5. Def(f)
  BY <1>3, <1>4
<1> DEFINE c == CHOOSE h : Def(h)
<1>6. Def(c)
  BY <1>5
<1>7. BumpSteps(b, steps) = c[Len(steps)]
  BY DEF BumpSteps
<1>8. c[0] = b /\ \A k \in 1..Len(steps) : c[k] = G(k, c[k - 1])
  <2> HIDE DEF c
  <2>1. \A k \in 0..Len(steps) : c[k] = IF k = 0 THEN b ELSE G(k, c[k - 1])
    BY <1>6
  <2>2. 0 \in 0..Len(steps) /\ \A k \in 1..Len(steps) : k \in 0..Len(steps) /\ k # 0
    OBVIOUS
  <2> HIDE DEF G
  <2> QED BY <2>1, <2>2
<1>9. BumpRounds(b, steps, Len(steps), c)
  <2> HIDE DEF c
  <2> QED BY <1>8 DEF BumpRounds
<1> QED
  BY <1>7, <1>9

\* No steps bump nothing.
LEMMA NoBumps ==
  ASSUME NEW b
  PROVE  BumpSteps(b, <<>>) = b
<1>1. Len(<<>>) = 0
  OBVIOUS
<1> QED
  BY <1>1, BumpsRun DEF BumpRounds

\* What one more step bumps.
LEMMA BumpsNext ==
  ASSUME NEW b, NEW T, NEW steps \in Seq(T), NEW step \in T
  PROVE  BumpSteps(b, Append(steps, step)) = BumpStep(BumpSteps(b, steps), step)
<1> DEFINE n == Len(steps)
           more == Append(steps, step)
<1>1. /\ n \in Nat /\ Len(more) = n + 1 /\ more[n + 1] = step
      /\ \A k \in 1..n : more[k] = steps[k]
  BY Pushed
<1> HIDE DEF more
<1>2. PICK f : BumpRounds(b, more, n + 1, f) /\ BumpSteps(b, more) = f[n + 1]
  BY <1>1, BumpsRun
<1>3. PICK g : BumpRounds(b, steps, n, g) /\ BumpSteps(b, steps) = g[n]
  BY <1>1, BumpsRun
<1> HIDE DEF n
<1> DEFINE K == {k \in Nat : k <= n => f[k] = g[k]}
<1>4. 0 \in K
  BY <1>2, <1>3 DEF BumpRounds
<1>5. ASSUME NEW k \in Nat, k \in K PROVE k + 1 \in K
  <2>1. SUFFICES ASSUME k + 1 <= n PROVE f[k + 1] = g[k + 1]
    OBVIOUS
  <2>2. k + 1 \in 1..n /\ k + 1 \in 1..(n + 1) /\ (k + 1) - 1 = k /\ f[k] = g[k]
    BY <1>1, <1>5, <2>1
  <2>3. more[k + 1] = steps[k + 1]
    BY <1>1, <2>2
  <2> QED BY <1>2, <1>3, <2>2, <2>3 DEF BumpRounds
<1>6. Nat \subseteq K
  <2> HIDE DEF K
  <2> QED BY <1>4, <1>5, Counting
<1>7. f[n] = BumpSteps(b, steps)
  BY <1>1, <1>3, <1>6
<1>8. n + 1 \in 1..(n + 1) /\ (n + 1) - 1 = n
  BY <1>1
<1>9. f[n + 1] = BumpStep(f[n], step)
  BY <1>1, <1>2, <1>8 DEF BumpRounds
<1> QED
  BY <1>2, <1>7, <1>9 DEF more

\* Counters that follow the steps of a call, and a style that stays current.
Tracked(b, e, t) ==
  /\ Ready(t) /\ Stepped(t)
  /\ LET g == BumpSteps(b, t.steps)
     IN  GensFit(g) /\ g.par = t.parent /\ b.sel <= g.sel /\ Current(t, g, e)

\* What a call starts from.
Watched(b, e) == b.sel \in Nat /\ Entry(e, b) /\ NoFormAttr

\* Being current is about the overlays.
LEMMA CurrentSame ==
  ASSUME NoFormAttr, NEW t, NEW u, u.parent = t.parent, u.children = t.children, NEW g, NEW e,
         Current(t, g, e)
  PROVE  Current(u, g, e)
<1>1. HasStyle(u, e.node) <=> HasStyle(t, e.node)
  BY StyledSame
<1>2. \A n : SiblingsSeen(u, n, e.scope.siblings) = SiblingsSeen(t, n, e.scope.siblings)
  BY DEF SiblingsSeen
<1>3. \A n : Invalid(u, n) <=> Invalid(t, n)
  BY InvalidSame
<1>4. Reads(u, e.node, e.scope) = Reads(t, e.node, e.scope)
  BY <1>2, <1>3, ReadsAre
<1> QED
  BY <1>1, <1>4 DEF Current

\* Nothing follows a node without a next sibling.
LEMMA LastIsLast ==
  ASSUME NEW t, Fit(t), NEW c \in Node, NextSibling(t, c) = None
  PROVE  \A x : <<c, x>> \notin Ord(t)
<1>1. Follow(t, c) = {}
  <2>1. IsFirst(t, Follow(t, c), NextSibling(t, c))
    BY NextIs
  <2>2. None \notin Follow(t, c)
    BY NodeAssumption DEF Follow
  <2> QED BY <2>1, <2>2 DEF IsFirst
<1>2. \A x : <<c, x>> \in Ord(t) => x \in Node
  BY OneOrder
<1> QED
  BY <1>1, <1>2 DEF Follow

\* One more step, of one node.
LEMMA Crossed ==
  ASSUME NEW b, NEW e, Watched(b, e), NEW t, Tracked(b, e, t),
         NEW lo, NEW hi, NEW p, NEW c, Crosses(lo, hi, p, c), NEW step,
         NEW u, \/ t = lo /\ u = hi /\ step.op = "insert" /\ step.added = <<c>>
                \/ t = hi /\ u = lo /\ step.op = "remove" /\ step.removed = <<c>>,
         step.at = p, step.next = None => \A x : <<c, x>> \notin Ord(hi),
         Whole(u), u.steps = Append(t.steps, step)
  PROVE  Tracked(b, e, u)
<1> DEFINE g == BumpSteps(b, t.steps)
           w == BumpStep(g, step)
<1>1. PICK T : t.steps \in Seq(T)
  BY DEF Tracked, Stepped
<1>2. t.steps \in Seq(T \cup {step}) /\ step \in T \cup {step}
  BY <1>1
<1>3. Append(t.steps, step) \in Seq(T \cup {step})
  BY <1>2
<1>4. BumpSteps(b, u.steps) = w
  BY <1>2, BumpsNext
<1>5. <<c>>[1] = c
  OBVIOUS
<1>6. lo.parent[c] = None /\ hi.parent[c] = p
  BY DEF Crosses, Parted
<1>7. w = BumpChildList(Relinked(g, c, u.parent[c]), p, c, step.next # None)
  <2> HIDE DEF g
  <2>1. CASE step.op = "insert" /\ u = hi /\ step.added = <<c>>
    BY <1>5, <1>6, <2>1 DEF BumpStep
  <2>2. CASE step.op = "remove" /\ u = lo /\ step.removed = <<c>>
    BY <1>5, <1>6, <2>2 DEF BumpStep
  <2> QED BY <2>1, <2>2
<1>8. GensFit(g) /\ g.par = t.parent /\ b.sel <= g.sel /\ Current(t, g, e) /\ g.sel \in Nat
  BY DEF Tracked, GensFit, Counters
<1>9. Entry(e, g)
  BY <1>8 DEF Watched, Entry
<1> DEFINE forward == step.next # None
<1>10. Crossing(lo, hi, p, c, t, u, forward) /\ NoFormAttr
  BY DEF Crossing, Watched
<1>11. Keyed(t, g, e) /\ w = BumpChildList(Relinked(g, c, u.parent[c]), p, c, forward)
  BY <1>7, <1>8, <1>9 DEF Keyed
<1> HIDE DEF g, w, forward
<1>12. Keyed(u, w, e) /\ w.sel = g.sel + 1
  BY <1>10, <1>11, CrossingCurrent
<1>13. Ready(u) /\ Stepped(u)
  BY <1>3 DEF Crosses, Stepped
<1>14. b.sel <= w.sel
  BY <1>8, <1>12 DEF Watched
<1> QED
  BY <1>4, <1>12, <1>13, <1>14 DEF Tracked, Keyed

\* remove_child.
LEMMA UnlinkTracked ==
  ASSUME NEW b, NEW e, Watched(b, e), NEW t, Tracked(b, e, t), NEW p \in Node, NEW c \in Node, NEW logged
  PROVE  Tracked(b, e, Unlink(t, p, c, logged))
<1> DEFINE u == Unlink(t, p, c, logged)
           step == Step("remove", p, <<>>, <<c>>, PreviousSibling(t, c), NextSibling(t, c), logged)
<1>1. CASE t.parent[c] # p
  BY <1>1 DEF Unlink
<1>2. CASE t.parent[c] = p
  <2>1. Ready(t) /\ Fit(t) /\ Whole(t)
    BY DEF Tracked, Ready, Stepped
  <2>2. Parted(t, u, {c})
    BY <1>2, <2>1, UnlinkParts
  <2>3. u.steps = Append(t.steps, step) /\ Whole(u)
    BY <1>2, <2>1 DEF Unlink, Note, Whole, Fields
  <2>4. /\ step.op = "remove" /\ step.at = p /\ step.removed = <<c>>
        /\ step.next = NextSibling(t, c)
    BY DEF Step
  <2>5. Ready(u)
    <3>1. \A n \in Tops : n \in Node
      BY NodeAssumption DEF Tops
    <3>2. Topped(u)
      BY <2>1, <2>2, <3>1 DEF Ready, Parted, Topped
    <3> QED BY <2>1, <2>2, <3>2 DEF Ready, Parted
  <2>6. Crosses(u, t, p, c)
    BY <1>2, <2>1, <2>2, <2>5 DEF Crosses
  <2>7. step.next = None => \A x : <<c, x>> \notin Ord(t)
    BY <2>1, <2>4, LastIsLast
  <2> HIDE DEF u, step
  <2>8. Tracked(b, e, u)
    BY <2>3, <2>4, <2>6, <2>7, Crossed
  <2> QED BY <2>8 DEF u
<1> QED
  BY <1>1, <1>2

\* detach.
LEMMA DetachTracked ==
  ASSUME NEW b, NEW e, Watched(b, e), NEW t, Tracked(b, e, t), NEW c \in Node, NEW logged
  PROVE  Tracked(b, e, Detach(t, c, logged))
<1>1. t.parent[c] # None => t.parent[c] \in Node
  BY ReadyParents DEF Tracked
<1> QED
  BY <1>1, UnlinkTracked DEF Detach

\* A detached node enters.
LEMMA InsertDetachedTracked ==
  ASSUME NEW b, NEW e, Watched(b, e), NEW t, Tracked(b, e, t), NEW p \in Node, NEW c \in Node \ Tops,
         t.parent[c] = None, NEW ref, NEW logged
  PROVE  Tracked(b, e, InsertDetached(t, p, c, ref, logged))
<1> DEFINE i == Position(t.children[p], ref)
           v == Enter(t, p, c, i)
           step == Step("insert", p, <<c>>, <<>>, PreviousSibling(v, c), NextSibling(v, c), logged)
           u == InsertDetached(t, p, c, ref, logged)
<1>1. Ready(t) /\ Fit(t) /\ Whole(t)
  BY DEF Tracked, Ready, Stepped
<1>2. Placed(t, u, p, c, LaterThan(t, p, c, ref))
  BY <1>1, EnterPlaces
<1>3. u = Note(v, step)
  BY DEF InsertDetached, NoteInsert
<1> HIDE DEF i
<1>4. v.steps = t.steps /\ Whole(v)
  BY <1>1 DEF Whole, Fields, Enter
<1>5. /\ step.op = "insert" /\ step.at = p /\ step.added = <<c>>
      /\ step.next = NextSibling(v, c)
  BY DEF Step
<1> HIDE DEF u, v, step
<1>6. u.steps = Append(t.steps, step) /\ Whole(u) /\ u.parent = v.parent /\ u.children = v.children
  BY <1>3, <1>4 DEF Note, Whole, Fields
<1>7. NextSibling(u, c) = step.next
  BY <1>5, <1>6 DEF NextSibling, Sibling
<1>8. Ready(u)
  <2>1. \A n \in Tops : n \in Node /\ n # c
    BY NodeAssumption DEF Tops
  <2>2. Topped(u)
    BY <1>1, <1>2, <2>1 DEF Ready, Placed, Topped
  <2> QED BY <1>1, <1>2, <2>2 DEF Ready, Placed
<1>9. Parted(u, t, {c})
  <2>1. \A a, x : <<a, x>> \in Ord(t) => a # c /\ x # c
    <3>1. \A a, x : <<a, x>> \in Ord(t) => t.parent[a] \in Node /\ t.parent[x] = t.parent[a]
      BY <1>1, OneOrder
    <3> QED BY <3>1, NodeAssumption
  <2>2. LaterThan(t, p, c, ref) \subseteq Node
    BY DEF LaterThan, KidsOf
  <2> QED BY <1>1, <1>2, <2>1, <2>2 DEF Parted, Placed
<1>10. u.parent[c] = p
  BY <1>2 DEF Placed
<1>11. Crosses(t, u, p, c)
  BY <1>1, <1>8, <1>9, <1>10 DEF Crosses
<1>12. step.next = None => \A x : <<c, x>> \notin Ord(u)
  BY <1>7, <1>8, LastIsLast DEF Ready
<1>13. Tracked(b, e, u)
  BY <1>5, <1>6, <1>11, <1>12, Crossed
<1> QED
  BY <1>13 DEF u

\* append_child and insert_before.
LEMMA InsertOneTracked ==
  ASSUME NEW b, NEW e, Watched(b, e), NEW t, Tracked(b, e, t), NEW p \in Node, NEW c \in Node \ Tops,
         NEW ref, NEW logged
  PROVE  Tracked(b, e, InsertOne(t, p, c, ref, logged))
<1> DEFINE d == Detach(t, c, logged)
<1>1. Tracked(b, e, d)
  BY DetachTracked
<1>2. d.parent[c] = None
  <2>1. Parted(t, d, {c})
    BY DetachParts DEF Tracked, Ready
  <2> QED BY <2>1 DEF Parted
<1>3. InsertOne(t, p, c, ref, logged) =
        IF IsInclusiveAncestor(t, c, p) THEN t
        ELSE InsertDetached(d, p, c, IF ref = c THEN NextSibling(t, c) ELSE ref, logged)
  BY DEF InsertOne
<1> HIDE DEF d
<1>4. \A r : Tracked(b, e, InsertDetached(d, p, c, r, logged))
  BY <1>1, <1>2, InsertDetachedTracked
<1> QED
  BY <1>3, <1>4
-----------------------------------------------------------------------------
(* The loops.                                                               *)

\* Several nodes leave p.
LEMMA UnlinkAllTracked ==
  ASSUME NEW b, NEW e, Watched(b, e), NEW t, Tracked(b, e, t), NEW p \in Node, NEW list \in Seq(Node)
  PROVE  Tracked(b, e, UnlinkAll(t, p, list))
<1>1. Len(list) \in Nat /\ \A k \in 1..Len(list) : list[k] \in Node
  OBVIOUS
<1>2. PICK f : UnlinkRounds(t, p, list, f)
  BY <1>1, UnlinkAllRuns
<1> DEFINE T == {k \in Nat : k <= Len(list) => Tracked(b, e, f[k])}
<1>3. 0 \in T
  BY <1>2 DEF UnlinkRounds
<1>4. ASSUME NEW k \in Nat, k \in T PROVE k + 1 \in T
  <2>1. SUFFICES ASSUME k + 1 <= Len(list) PROVE Tracked(b, e, f[k + 1])
    OBVIOUS
  <2>2. k + 1 \in 1..Len(list) /\ (k + 1) - 1 = k /\ Tracked(b, e, f[k])
    BY <1>1, <1>4, <2>1
  <2>3. f[k + 1] = Unlink(f[k], p, list[k + 1], FALSE) /\ list[k + 1] \in Node
    BY <1>1, <1>2, <2>2 DEF UnlinkRounds
  <2> QED BY <2>2, <2>3, UnlinkTracked
<1>5. Nat \subseteq T
  <2> HIDE DEF T
  <2> QED BY <1>3, <1>4, Counting
<1> QED
  BY <1>1, <1>2, <1>5 DEF UnlinkRounds

\* Several nodes enter p.
LEMMA InsertAllTracked ==
  ASSUME NEW b, NEW e, Watched(b, e), NEW t, Tracked(b, e, t), NEW p \in Node,
         NEW flat \in Seq(Node), ToSet(flat) \cap Tops = {}, NEW ref
  PROVE  Tracked(b, e, InsertAll(t, p, flat, ref))
<1>1. Len(flat) \in Nat /\ \A k \in 1..Len(flat) : flat[k] \in Node \ Tops
  <2>1. \A k \in 1..Len(flat) : flat[k] \in ToSet(flat) /\ flat[k] \in Node
    BY DEF ToSet
  <2> QED BY <2>1
<1>2. PICK f : InsertRounds(t, p, flat, ref, f)
  BY <1>1, InsertAllRuns
<1> DEFINE T == {k \in Nat : k <= Len(flat) => Tracked(b, e, f[k])}
<1>3. 0 \in T
  BY <1>2 DEF InsertRounds
<1>4. ASSUME NEW k \in Nat, k \in T PROVE k + 1 \in T
  <2>1. SUFFICES ASSUME k + 1 <= Len(flat) PROVE Tracked(b, e, f[k + 1])
    OBVIOUS
  <2>2. k + 1 \in 1..Len(flat) /\ (k + 1) - 1 = k /\ Tracked(b, e, f[k])
    BY <1>1, <1>4, <2>1
  <2>3. f[k + 1] = InsertOne(f[k], p, flat[k + 1], ref, FALSE) /\ flat[k + 1] \in Node \ Tops
    BY <1>1, <1>2, <2>2 DEF InsertRounds
  <2> QED BY <2>2, <2>3, InsertOneTracked
<1>5. Nat \subseteq T
  <2> HIDE DEF T
  <2> QED BY <1>3, <1>4, Counting
<1> QED
  BY <1>1, <1>2, <1>5 DEF InsertRounds

\* The record of a whole call bumps nothing.
LEMMA BatchTracked ==
  ASSUME NEW b, NEW e, Watched(b, e), NEW t, Tracked(b, e, t), NEW step, step.op = "batch"
  PROVE  Tracked(b, e, Note(t, step))
<1> DEFINE u == Note(t, step)
<1>1. PICK T : t.steps \in Seq(T)
  BY DEF Tracked, Stepped
<1>2. t.steps \in Seq(T \cup {step}) /\ step \in T \cup {step}
  BY <1>1
<1>3. Append(t.steps, step) \in Seq(T \cup {step})
  BY <1>2
<1>4. /\ u.steps = Append(t.steps, step) /\ Whole(u)
      /\ u.parent = t.parent /\ u.children = t.children
  BY DEF Tracked, Stepped, Whole, Note, Fields
<1>5. BumpStep(BumpSteps(b, t.steps), step) = BumpSteps(b, t.steps)
  BY DEF BumpStep
<1>6. BumpSteps(b, u.steps) = BumpSteps(b, t.steps)
  BY <1>2, <1>4, <1>5, BumpsNext
<1> HIDE DEF u
<1>7. Ready(u)
  <2>1. Fit(u)
    BY <1>4, TreeFit DEF Tracked, Ready
  <2> QED BY <1>4, <2>1 DEF Tracked, Ready, Topped
<1>8. Stepped(u)
  BY <1>3, <1>4 DEF Stepped
<1>9. Current(u, BumpSteps(b, t.steps), e)
  BY <1>4, CurrentSame DEF Tracked, Watched
<1>10. Tracked(b, e, u)
  BY <1>4, <1>6, <1>7, <1>8, <1>9 DEF Tracked
<1> QED
  BY <1>10 DEF u

\* The children of a node of a ready tree.
LEMMA KidsAreNodes ==
  ASSUME NEW t, Ready(t), NEW p \in Node
  PROVE  t.children[p] \in Seq(Node) /\ ToSet(t.children[p]) \cap Tops = {}
<1>1. t.children[p] \in Seq(Node) /\ ToSet(t.children[p]) = KidsOf(t, p)
  BY DEF Ready, Fit, Shaped, Paired
<1> QED
  BY <1>1, NodeAssumption DEF Ready, Topped, KidsOf

\* One argument is taken.
LEMMA TakingTracked ==
  ASSUME NEW b, NEW e, Watched(b, e), NEW g, Tracked(b, e, g.t), g.flat \in Seq(Node),
         ToSet(g.flat) \cap Tops = {}, NEW n \in Node, n # Document
  PROVE  LET r == Taking(g, n)
         IN  Tracked(b, e, r.t) /\ r.flat \in Seq(Node) /\ ToSet(r.flat) \cap Tops = {}
<1> DEFINE kids == g.t.children[n]
<1>1. Ready(g.t) /\ kids \in Seq(Node) /\ ToSet(kids) \cap Tops = {}
  BY KidsAreNodes DEF Tracked
<1>2. CASE n \in Fragment
  <2> DEFINE u == UnlinkAll(g.t, n, kids)
  <2>1. Tracked(b, e, u)
    BY <1>1, UnlinkAllTracked
  <2>2. Taking(g, n).t = NoteEmptied(u, n, kids) /\ Taking(g, n).flat = g.flat \o kids
    BY <1>2 DEF Taking
  <2> HIDE DEF u, kids
  <2>3. Tracked(b, e, NoteEmptied(u, n, kids))
    <3>1. Step("batch", n, <<>>, kids, None, None, TRUE).op = "batch"
      BY DEF Step
    <3> QED BY <2>1, <3>1, BatchTracked DEF NoteEmptied
  <2>4. g.flat \o kids \in Seq(Node) /\ ToSet(g.flat \o kids) = ToSet(g.flat) \cup ToSet(kids)
    BY <1>1, Joined
  <2> QED BY <1>1, <2>2, <2>3, <2>4
<1>3. CASE n \notin Fragment
  <2>1. Taking(g, n).t = Detach(g.t, n, TRUE) /\ Taking(g, n).flat = Append(g.flat, n)
    BY <1>3 DEF Taking
  <2>2. Tracked(b, e, Detach(g.t, n, TRUE))
    BY DetachTracked
  <2> DEFINE one == <<n>>
             more == Append(g.flat, n)
  <2>3. more = g.flat \o one /\ one \in Seq(Node) /\ ToSet(one) = {n}
    BY OneArgument
  <2>4. n \notin Tops
    BY <1>3 DEF Tops
  <2> HIDE DEF one
  <2>5. g.flat \o one \in Seq(Node) /\ ToSet(g.flat \o one) = ToSet(g.flat) \cup ToSet(one)
    BY <2>3, Joined
  <2> HIDE DEF more
  <2>6. more \in Seq(Node) /\ ToSet(more) \cap Tops = {}
    BY <2>3, <2>4, <2>5
  <2> QED BY <2>1, <2>2, <2>6 DEF more
<1> QED
  BY <1>2, <1>3

\* All arguments are.
LEMMA GatherTracked ==
  ASSUME NEW b, NEW e, Watched(b, e), NEW t, Tracked(b, e, t),
         NEW ns \in Seq(Node), Document \notin ToSet(ns)
  PROVE  LET r == Gather(t, ns)
         IN  Tracked(b, e, r.t) /\ r.flat \in Seq(Node) /\ ToSet(r.flat) \cap Tops = {}
<1> DEFINE OK(r) == Tracked(b, e, r.t) /\ r.flat \in Seq(Node) /\ ToSet(r.flat) \cap Tops = {}
<1>1. Len(ns) \in Nat /\ \A k \in 1..Len(ns) : ns[k] \in Node /\ ns[k] # Document
  <2>1. \A k \in 1..Len(ns) : ns[k] \in ToSet(ns) /\ ns[k] \in Node
    BY DEF ToSet
  <2> QED BY <2>1
<1>2. PICK f : GatherRounds(t, ns, f)
  BY <1>1, GatherRuns
<1> DEFINE T == {k \in Nat : k <= Len(ns) => OK(f[k])}
<1>3. 0 \in T
  <2>1. f[0].t = t /\ f[0].flat = <<>>
    BY <1>2 DEF GatherRounds
  <2>2. ToSet(<<>>) = {} /\ <<>> \in Seq(Node)
    BY DEF ToSet
  <2> QED BY <2>1, <2>2
<1>4. ASSUME NEW k \in Nat, k \in T PROVE k + 1 \in T
  <2>1. SUFFICES ASSUME k + 1 <= Len(ns) PROVE OK(f[k + 1])
    OBVIOUS
  <2>2. k + 1 \in 1..Len(ns) /\ (k + 1) - 1 = k /\ OK(f[k])
    BY <1>1, <1>4, <2>1
  <2>3. f[k + 1] = Taking(f[k], ns[k + 1]) /\ ns[k + 1] \in Node /\ ns[k + 1] # Document
    BY <1>1, <1>2, <2>2 DEF GatherRounds
  <2> QED BY <2>2, <2>3, TakingTracked
<1>5. Nat \subseteq T
  <2> HIDE DEF T
  <2> QED BY <1>3, <1>4, Counting
<1> QED
  BY <1>1, <1>2, <1>5 DEF GatherRounds

\* insert_nodes.
LEMMA InsertNodesTracked ==
  ASSUME NEW b, NEW e, Watched(b, e), NEW t, Tracked(b, e, t), NEW p \in Node,
         NEW ns \in Seq(Node), Document \notin ToSet(ns), NEW anchor, NEW replaced \in Seq(Node)
  PROVE  Tracked(b, e, InsertNodes(t, p, ns, anchor, replaced))
<1> DEFINE g == Gather(t, ns)
           gone == Kept(replaced, {c \in Node : g.t.parent[c] = p})
           ref == Reference(g.t, p, anchor)
           v == UnlinkAll(g.t, p, gone)
           w == InsertAll(v, p, g.flat, ref)
           prev == IF ref = None THEN LastOf(v.children[p]) ELSE PreviousSibling(v, ref)
           step == Step("batch", p, g.flat, gone, prev, ref, TRUE)
<1>1. Tracked(b, e, g.t) /\ g.flat \in Seq(Node) /\ ToSet(g.flat) \cap Tops = {}
  BY GatherTracked
<1>2. gone \in Seq(Node)
  BY KeptPicks
<1>3. InsertNodes(t, p, ns, anchor, replaced) = NoteNodes(w, p, g.flat, gone, prev, ref)
  BY DEF InsertNodes, InsertReplacing, InsertGathered, InsertFlat
<1> HIDE DEF g, gone, ref
<1>4. Tracked(b, e, v)
  BY <1>1, <1>2, UnlinkAllTracked
<1> HIDE DEF v
<1>5. Tracked(b, e, w)
  BY <1>1, <1>4, InsertAllTracked
<1>6. step.op = "batch"
  BY DEF Step
<1>7. NoteNodes(w, p, g.flat, gone, prev, ref) = w
      \/ NoteNodes(w, p, g.flat, gone, prev, ref) = Note(w, step)
  BY DEF NoteNodes
<1> HIDE DEF w, step
<1>8. Tracked(b, e, Note(w, step))
  BY <1>5, <1>6, BatchTracked
<1> QED
  BY <1>3, <1>5, <1>7, <1>8
-----------------------------------------------------------------------------
(* textContent and innerHTML.                                               *)

\* The counters over other links.
At(g, par) == [g EXCEPT !.par = par]

\* What a call leaves, whatever it did: fit counters and a style that is
\* current.
Landed(b, e, t, w) ==
  LET g == At(w, t.parent)
  IN  GensFit(g) /\ b.sel <= g.sel /\ Current(t, g, e)

\* A call that follows its steps ends so.
LEMMA TrackedLands ==
  ASSUME NEW b, NEW e, NEW t, Tracked(b, e, t)
  PROVE  Landed(b, e, t, BumpSteps(b, t.steps))
<1> DEFINE g == BumpSteps(b, t.steps)
<1>1. GensFit(g) /\ g.par = t.parent /\ b.sel <= g.sel /\ Current(t, g, e)
  BY DEF Tracked
<1> HIDE DEF g
<1>2. At(g, t.parent) = g
  BY <1>1 DEF At, GensFit, Counters
<1>3. Landed(b, e, t, g)
  BY <1>1, <1>2 DEF Landed
<1> QED
  BY <1>3 DEF g

\* The forms above a node, when links to h come and go and no form is above h.
LEMMA FormsApart ==
  ASSUME NEW par \in [Node -> Node \cup {None}], NEW qar \in [Node -> Node \cup {None}],
         NEW h \in Node, \A m \in Node : qar[m] = par[m] \/ qar[m] \in {h, None},
         NEW f \in Node
  PROVE  Chain(qar, f) \subseteq Chain(par, f) \cup Chain(qar, h)
<1> DEFINE A == Chain(par, f) \cup Chain(qar, h)
<1>1. A \in SUBSET Node /\ f \in A
  BY ChainIs
<1>2. ASSUME NEW m \in A PROVE qar[m] \in A \cup {None}
  <2>1. CASE m \in Chain(qar, h)
    BY <2>1, ChainIs
  <2>2. CASE m \in Chain(par, f)
    <3>1. m \in Node /\ par[m] \in Chain(par, f) \cup {None} /\ h \in Chain(qar, h)
      BY <2>2, ChainIs
    <3> QED BY <3>1
  <2> QED BY <2>1, <2>2
<1>3. A = Chain(par, f) \cup Chain(qar, h)
  OBVIOUS
<1> HIDE DEF A
<1>4. Chain(qar, f) \subseteq A
  BY <1>1, <1>2, ChainIs
<1> QED
  BY <1>3, <1>4

\* A rewrite: its children are on no styled chain that stays, and the forms
\* below them are those of its own chain.
LEMMA RewriteLands ==
  ASSUME TreeListsInv, NEW b, NEW e, Watched(b, e), GensFit(b), b.par = parent,
         Current(Tree, b, e), e # <<>> => e.node \in created,
         NEW h \in Node, h \in created, NEW new \in FreshLists
  PROVE  LET u == Rewrite(Tree, h, new) IN Landed(b, e, u, BumpSteps(b, u.steps))
<1> DEFINE u == Rewrite(Tree, h, new)
           old == children[h]
           step == Step("rewrite", h, new, old, None, None, new # <<>> \/ old # <<>>)
           x == BumpNode(b, h)
           m == TouchesForms(b.par, h)
           w == FormMoved(x, m)
           g == At(w, u.parent)
           q == e.node
<1>1. /\ Ready(Tree) /\ Fit(Tree) /\ Tree.parent = parent /\ Tree.children = children
      /\ Tree.steps = <<>> /\ created \subseteq Node
      /\ \A n \in Node : parent[n] # None => n \in created /\ parent[n] \in created
      /\ parent \in [Node -> Node \cup {None}] /\ children \in [Node -> Seq(Node)]
  BY TreeFields DEF TreeListsInv, Ready, Fit, Shaped, Tree
<1>2. /\ new \in Seq(Node) /\ IsInjective(new) /\ ToSet(new) \cap created = {}
      /\ \A n \in ToSet(new) : n \in Node /\ n \notin Fragment /\ n # Document /\ parent[n] = None
  <2>1. new \in BoundedSeq(Fresh, MaxArgs)
    BY DEF FreshLists
  <2>2. new \in Seq(Fresh)
    BY <2>1, BoundedLists
  <2>3. \A n \in ToSet(new) : n \in Fresh
    BY <2>2 DEF ToSet
  <2>4. Document \notin Fresh
    BY NodeAssumption DEF Fresh
  <2> QED BY <1>1, <2>3, <2>4, FreshCounts
<1>3. ToSet(old) = KidsOf(Tree, h)
  BY <1>1 DEF Fit, Paired
<1>4. /\ u.children = [children EXCEPT ![h] = new]
      /\ u.steps = Append(<<>>, step)
      /\ u.parent = [n \in Node |-> IF n \in ToSet(new) THEN h ELSE IF n \in ToSet(old) THEN None ELSE parent[n]]
  BY <1>1 DEF Rewrite, Note, Tree
<1>5. Fit(u)
  <2>1. \A n \in ToSet(new) : Tree.parent[n] = None
    BY <1>1, <1>2
  <2> QED BY <1>1, <1>2, <2>1, RewriteMoves DEF Moves
<1>6. step.op = "rewrite" /\ step.at = h
  BY DEF Step
<1> HIDE DEF u, old, step
<1>7. /\ u.parent \in [Node -> Node \cup {None}]
      /\ \A n \in ToSet(new) : u.parent[n] = h
      /\ \A n \in KidsOf(Tree, h) : parent[n] = h /\ n \in created /\ u.parent[n] = None
      /\ \A n \in Node : n \notin ToSet(new) /\ n \notin KidsOf(Tree, h) => u.parent[n] = parent[n]
  <2>1. \A n \in KidsOf(Tree, h) : n \in Node /\ parent[n] = h /\ n \in created
    BY <1>1, NodeAssumption DEF KidsOf
  <2> QED BY <1>1, <1>2, <1>3, <1>4, <2>1
<1>8. Ready(u)
  <2>1. ASSUME NEW n \in Tops PROVE u.parent[n] = None
    <3>1. n \in Node /\ parent[n] = None /\ n \notin ToSet(new)
      BY <1>1, <1>2, NodeAssumption DEF Ready, Topped, Tops
    <3> QED BY <1>1, <1>7, <3>1
  <2> QED BY <1>1, <1>5, <2>1 DEF Ready, Topped
<1>9. BumpSteps(b, u.steps) = w
  <2>1. BumpSteps(b, Append(<<>>, step)) = BumpStep(BumpSteps(b, <<>>), step)
    <3>1. <<>> \in Seq({step}) /\ step \in {step}
      OBVIOUS
    <3> QED BY <3>1, BumpsNext
  <2>2. BumpStep(b, step) = w
    BY <1>6 DEF BumpStep
  <2> QED BY <1>4, <2>1, <2>2, NoBumps
<1>10. GensFit(x) /\ Later(b, x) /\ x.sel = b.sel + 1 /\ x.par = parent
  BY NodeBumped
<1> HIDE DEF x
<1>11. GensFit(w) /\ Later(x, w) /\ w.sel = x.sel /\ w.par = parent /\ (m => w.form = x.sel)
  BY <1>10, FormFits
<1> HIDE DEF w
<1>12. Later(b, w)
  BY <1>10, <1>11, LaterStill
<1>13. /\ GensFit(g) /\ Later(b, g) /\ g.par = u.parent /\ g.sel = b.sel + 1 /\ (m => g.form = g.sel)
  <2>1. /\ g \in Counters /\ g.sel = w.sel /\ g.style = w.style /\ g.kids = w.kids
        /\ g.form = w.form /\ g.global = w.global /\ g.par = u.parent
    BY <1>7, <1>11 DEF At, GensFit, Counters
  <2> HIDE DEF g
  <2> QED BY <1>10, <1>11, <1>12, <2>1 DEF GensFit, Later
<1> HIDE DEF g
<1>14. b.sel \in Nat /\ b.sel <= g.sel
  BY <1>13 DEF Watched
<1>15. SUFFICES Current(u, g, e)
  BY <1>9, <1>13, <1>14 DEF Landed, g, u
<1>16. SUFFICES ASSUME e # <<>>, HasStyle(u, q), q \in Node, e.scope \in Scopes, e.key \in Nat,
                       \A y \in StampsRead(g, q, e.scope) : y # g.sel
                PROVE  StyleGeneration(g, q, e.scope) > e.key \/ Reads(u, q, e.scope) = e.reads
  BY <1>13, <1>14, StampedPast DEF Current, Watched, Entry
<1>17. Chain(u.parent, q) \subseteq created
  <2>1. created \in SUBSET Node /\ q \in created
    BY <1>1, <1>16
  <2>2. \A n \in created : u.parent[n] \in created \cup {None}
    BY <1>1, <1>2, <1>7
  <2> QED BY <1>7, <1>16, <2>1, <2>2, ChainIs
<1>18. \A n \in Chain(u.parent, q) : n \notin KidsOf(Tree, h) /\ n \notin ToSet(new) /\ n \in Node
  <2>1. ASSUME NEW n \in Chain(u.parent, q), n \in KidsOf(Tree, h) PROVE FALSE
    <3>1. n = Document \/ hostOf[n] # None
      BY <1>7, <1>8, <1>16, <2>1, StyledTop
    <3>2. n \in Node /\ parent[n] = h /\ h # None
      BY <1>7, <2>1, NodeAssumption DEF KidsOf
    <3> QED BY <1>1, <3>1, <3>2, ReadyParents DEF Tops
  <2> QED BY <1>1, <1>2, <1>17, <2>1
<1>19. Chain(parent, q) = Chain(u.parent, q) /\ \A n \in Chain(u.parent, q) : u.parent[n] = parent[n]
  <2>1. \A n \in Chain(u.parent, q) : parent[n] = u.parent[n]
    BY <1>7, <1>18
  <2> QED BY <1>1, <1>7, <1>16, <2>1, ChainSame
<1>20. HasStyle(Tree, q)
  BY <1>1, <1>16, <1>19, StyledSame
<1>21. CASE StyleGeneration(b, q, e.scope) > e.key
  <2>1. StyleGeneration(b, q, e.scope) <= StyleGeneration(g, q, e.scope)
    BY <1>13, <1>16, <1>19, GenerationGrows
  <2>2. StyleGeneration(b, q, e.scope) \in Nat /\ StyleGeneration(g, q, e.scope) \in Nat
    BY <1>13, <1>16, GenerationIs
  <2> QED BY <1>16, <1>21, <2>1, <2>2
<1>22. CASE Reads(Tree, q, e.scope) = e.reads
  <2>1. ASSUME NEW n \in Chain(Tree.parent, q) \cap Element
        PROVE  SiblingsSeen(u, n, e.scope.siblings) = SiblingsSeen(Tree, n, e.scope.siblings)
    <3>1. n \in Chain(u.parent, q) /\ n \in Element
      BY <1>1, <1>19
    <3>2. u.parent[n] \in Node /\ u.parent[n] = parent[n]
      BY <1>8, <1>16, <1>19, <3>1, StyledParent
    <3>3. parent[n] # h
      BY <1>1, <1>18, <3>1 DEF KidsOf
    <3>4. u.children[u.parent[n]] = children[parent[n]]
      BY <1>1, <1>4, <3>2, <3>3
    <3> QED BY <1>1, <3>2, <3>4 DEF SiblingsSeen
  <2>2. ASSUME e.scope.forms, NEW n PROVE Invalid(u, n) <=> Invalid(Tree, n)
    <3>1. ~m
      <4>1. g.form \in StampsRead(g, q, e.scope)
        BY <1>16, <2>2, StampsAre
      <4> QED BY <1>13, <1>16, <4>1
    <3>2. Chain(parent, h) \cap Form = {}
      BY <3>1 DEF m, TouchesForms, FormElement
    <3>3. Chain(u.parent, h) \subseteq Chain(parent, h)
      <4>1. \A k \in Node : u.parent[k] = parent[k] \/ u.parent[k] \in {h, None}
        BY <1>7
      <4>2. /\ Chain(parent, h) \in SUBSET Node /\ h \in Chain(parent, h)
            /\ \A k \in Chain(parent, h) : parent[k] \in Chain(parent, h) \cup {None}
        BY <1>1, ChainIs
      <4>3. \A k \in Chain(parent, h) : u.parent[k] \in Chain(parent, h) \cup {None}
        BY <4>1, <4>2
      <4> QED BY <1>7, <4>2, <4>3, ChainIs
    <3>4. ASSUME NEW f \in FormElement
          PROVE  Chain(u.parent, f) \cap Form = Chain(Tree.parent, f) \cap Form
      <4>1. f \in Node
        BY StyleAssumption, NodeAssumption DEF FormElement
      <4>2. /\ \A k \in Node : u.parent[k] = parent[k] \/ u.parent[k] \in {h, None}
            /\ \A k \in Node : parent[k] = u.parent[k] \/ parent[k] \in {h, None}
        BY <1>2, <1>7
      <4>3. Chain(u.parent, f) \subseteq Chain(parent, f) \cup Chain(u.parent, h)
        BY <1>1, <1>7, <4>1, <4>2, FormsApart
      <4>4. Chain(parent, f) \subseteq Chain(u.parent, f) \cup Chain(parent, h)
        BY <1>1, <1>7, <4>1, <4>2, FormsApart
      <4> QED BY <1>1, <3>2, <3>3, <4>3, <4>4
    <3> QED BY <3>4, InvalidSame DEF Watched
  <2>3. Chain(u.parent, q) = Chain(Tree.parent, q)
    BY <1>1, <1>19
  <2> QED BY <1>22, <2>1, <2>2, <2>3, ReadsAre
<1> QED
  BY <1>16, <1>20, <1>21, <1>22 DEF Current
-----------------------------------------------------------------------------
(* Calls.                                                                   *)

\* A current style stays current while only stamps are added.
LEMMA CurrentGrows ==
  ASSUME NEW t, NEW g, GensFit(g), NEW u, GensFit(u), Later(g, u), u.par = g.par,
         NEW e, Entry(e, g), Current(t, g, e)
  PROVE  Current(t, u, e)
<1>1. SUFFICES ASSUME e # <<>>, e.node \in Node, e.scope \in Scopes, e.key \in Nat
               PROVE  StyleGeneration(g, e.node, e.scope) > e.key =>
                        StyleGeneration(u, e.node, e.scope) > e.key
  BY DEF Current, Entry
<1>2. StyleGeneration(g, e.node, e.scope) <= StyleGeneration(u, e.node, e.scope)
  BY <1>1, GenerationGrows
<1>3. StyleGeneration(g, e.node, e.scope) \in Nat /\ StyleGeneration(u, e.node, e.scope) \in Nat
  BY <1>1, GenerationIs
<1> QED
  BY <1>1, <1>2, <1>3

\* A call starts with no step done.
LEMMA TreeTracked ==
  ASSUME TreeListsInv, NEW b, NEW e, b.sel \in Nat, GensFit(b), b.par = parent, Current(Tree, b, e)
  PROVE  Tracked(b, e, Tree)
<1>1. Ready(Tree) /\ Stepped(Tree) /\ Tree.steps = <<>> /\ Tree.parent = parent
  BY TreeTold, TreeFields DEF TreeListsInv, Tree
<1>2. BumpSteps(b, Tree.steps) = b
  BY <1>1, NoBumps
<1> QED
  BY <1>1, <1>2 DEF Tracked

\* Beside the tree, reading is up to the attributes and the hosts.
LEMMA ReadsOnly ==
  ASSUME attr' = attr, hostOf' = hostOf, NEW n, NEW scope
  PROVE  /\ HasStyle(Tree, n)' <=> HasStyle(Tree', n)
         /\ Reads(Tree, n, scope)' = Reads(Tree', n, scope)
BY DEF HasStyle, Reads, Look, SiblingsSeen, Invalid, FormOwner, Connected, Rank

\* The counters and overlays are written, and the style is still current.
LEMMA LandedIsNext ==
  ASSUME NoFormAttr, attr' = attr, hostOf' = hostOf, cached' = cached, NEW b, NEW t, NEW w,
         parent' = t.parent, children' = t.children, Set(w), Landed(b, cached, t, w)
  PROVE  GensFit(Gens)' /\ b.sel <= sel' /\ Current(Tree, Gens, cached)'
<1> DEFINE g == At(w, t.parent)
<1>1. GensFit(g) /\ b.sel <= g.sel /\ Current(t, g, cached)
  BY DEF Landed
<1>2. Gens' = g /\ g.sel = sel'
  <2>1. /\ g \in Counters /\ g.sel = w.sel /\ g.style = w.style /\ g.kids = w.kids
        /\ g.form = w.form /\ g.global = w.global /\ g.par = t.parent
    BY <1>1 DEF GensFit, Counters, At
  <2> HIDE DEF g
  <2>2. /\ sel' = g.sel /\ styleGens' = g.style /\ childGens' = g.kids /\ formGen' = g.form
        /\ globalGen' = g.global /\ parent' = g.par
    BY <2>1 DEF Set
  <2> QED BY <2>1, <2>2 DEF Gens, Counters
<1> HIDE DEF g
<1>3. Tree'.parent = t.parent /\ Tree'.children = t.children
  BY DEF Tree
<1>4. Current(Tree', g, cached)
  BY <1>1, <1>3, CurrentSame
<1>5. \A n, scope : /\ HasStyle(Tree, n)' <=> HasStyle(Tree', n)
                    /\ Reads(Tree, n, scope)' = Reads(Tree', n, scope)
  BY ReadsOnly
<1>6. Current(Tree, Gens, cached)'
  BY <1>2, <1>4, <1>5 DEF Current
<1>7. GensFit(Gens)'
  BY <1>1, <1>2 DEF GensFit, Counters
<1> QED
  BY <1>1, <1>2, <1>6, <1>7

\* Counters, a style and the tree a call starts from.
Starting(b, e) ==
  /\ Watched(b, e) /\ GensFit(b) /\ b.par = parent /\ Current(Tree, b, e)
  /\ e # <<>> => e.node \in created

\* The call is one of the loops, and keeps the style current.
Lands(b, e) == \E t : Do(t) /\ Landed(b, e, t, BumpSteps(b, t.steps))

\* A call of insert_nodes, with whatever place and nodes to replace.
LEMMA InsertNodesLands ==
  ASSUME TreeListsInv, NEW b, NEW e, Starting(b, e), NEW p \in Node, NEW ns \in Seq(Node),
         Document \notin ToSet(ns), NEW anchor, NEW replaced \in Seq(Node),
         Do(InsertNodes(Tree, p, ns, anchor, replaced))
  PROVE  Lands(b, e)
<1>1. Tracked(b, e, Tree) /\ Watched(b, e)
  BY TreeTracked DEF Starting, Watched
<1>2. Tracked(b, e, InsertNodes(Tree, p, ns, anchor, replaced))
  BY <1>1, InsertNodesTracked
<1> QED
  BY <1>2, TrackedLands DEF Lands

\* append_child and insert_before.
LEMMA InsertTreeLands ==
  ASSUME TreeListsInv, NEW b, NEW e, Starting(b, e), NEW p \in Node, NEW c \in Insertable, NEW ref,
         Do(InsertTree(p, c, ref))
  PROVE  Lands(b, e)
<1>1. c \in Node /\ c # Document
  BY DEF Insertable, TreeListsInv
<1>2. CASE c \in Fragment
  <2>1. <<c>> \in Seq(Node) /\ ToSet(<<c>>) = {c} /\ <<>> \in Seq(Node)
    BY <1>1, OneArgument
  <2>2. Do(InsertNodes(Tree, p, <<c>>, AnchorBefore(ref), <<>>))
    BY <1>2 DEF InsertTree
  <2>3. Document \notin ToSet(<<c>>)
    BY <1>1, <2>1
  <2> QED BY <2>1, <2>2, <2>3, InsertNodesLands
<1>3. CASE c \notin Fragment
  <2>1. Tracked(b, e, Tree) /\ Watched(b, e)
    BY TreeTracked DEF Starting, Watched
  <2>2. c \in Node \ Tops
    BY <1>1, <1>3 DEF Tops
  <2>3. Tracked(b, e, InsertTree(p, c, ref))
    BY <1>3, <2>1, <2>2, InsertOneTracked DEF InsertTree
  <2> QED BY <2>3, TrackedLands DEF Lands
<1> QED
  BY <1>2, <1>3

\* before, after and replace_with.
LEMMA SiblingCallsLand ==
  ASSUME TreeListsInv, NEW b, NEW e, Starting(b, e), NEW h \in Node, NEW ns \in Seq(Node),
         Document \notin ToSet(ns), parent[h] # None,
         Do(BeforeTree(h, ns)) \/ Do(AfterTree(h, ns)) \/ Do(ReplaceTree(h, ns))
  PROVE  Lands(b, e)
<1> DEFINE p == parent[h]
<1>1. p \in Node
  BY TreeFields DEF TreeListsInv
<1>2. <<>> \in Seq(Node) /\ <<h>> \in Seq(Node)
  OBVIOUS
<1>3. PICK replaced \in {<<>>, <<h>>} : \E anchor : Do(InsertNodes(Tree, p, ns, anchor, replaced))
  <2>1. CASE Do(BeforeTree(h, ns))
    BY <2>1 DEF BeforeTree
  <2>2. CASE Do(AfterTree(h, ns))
    BY <2>2 DEF AfterTree
  <2>3. CASE Do(ReplaceTree(h, ns)) /\ h \in ToSet(ns)
    BY <2>3 DEF ReplaceTree
  <2>4. CASE Do(ReplaceTree(h, ns)) /\ h \notin ToSet(ns)
    BY <2>4 DEF ReplaceTree
  <2> QED BY <2>1, <2>2, <2>3, <2>4
<1>4. PICK anchor : Do(InsertNodes(Tree, p, ns, anchor, replaced))
  BY <1>3
<1>5. replaced \in Seq(Node)
  BY <1>2
<1> HIDE DEF p
<1> QED
  BY <1>1, <1>4, <1>5, InsertNodesLands

\* Every call that attaches no shadow root.
LEMMA NextLands ==
  ASSUME TreeListsInv, NEW b, NEW e, Starting(b, e), Next, rootOf' = rootOf,
         rootOf \in [Node -> Node \cup {None}],
         \A h \in Node : rootOf[h] # None => rootOf[h] \in created
  PROVE  Lands(b, e)
<1>1. created \subseteq Node /\ \A p \in Node : children[p] \in Seq(Node)
  BY TreeFields DEF TreeListsInv, Ready, Fit, Shaped
<1>2. Tracked(b, e, Tree) /\ Watched(b, e)
  BY TreeTracked DEF Starting, Watched
<1>3. ASSUME NEW ns \in ArgLists(Insertable) PROVE ns \in Seq(Node) /\ Document \notin ToSet(ns)
  BY InsertableNodes DEF ArgLists, Insertable
<1>4. <<>> \in Seq(Node)
  OBVIOUS
<1>5. ASSUME NEW n \in Element \cup Text \cup Fragment, CreateNode(n) PROVE Lands(b, e)
  <2>1. Do(Tree)
    BY <1>5 DEF CreateNode, Do, Tree
  <2> QED BY <1>2, <2>1, TrackedLands DEF Lands
<1>6. ASSUME NEW host \in Element \cap created, NEW root \in Fragment, AttachShadow(host, root) PROVE FALSE
  <2>1. host \in Node /\ root \in Node /\ root # None /\ root \notin created
    BY <1>1, <1>6, NodeAssumption DEF AttachShadow
  <2>2. rootOf' = [rootOf EXCEPT ![host] = root]
    BY <1>6 DEF AttachShadow
  <2>3. rootOf'[host] = root
    BY <2>1, <2>2
  <2>4. rootOf[host] = root
    BY <2>3
  <2> QED BY <2>1, <2>4
<1>7. ASSUME NEW p \in Container \cap created, NEW c \in Insertable, NEW r,
             AppendChild(p, c) \/ InsertBefore(p, c, r)
      PROVE  Lands(b, e)
  <2>1. p \in Node /\ (Do(InsertTree(p, c, None)) \/ Do(InsertTree(p, c, r)))
    BY <1>1, <1>7 DEF AppendChild, InsertBefore
  <2> QED BY <2>1, InsertTreeLands
<1>8. ASSUME NEW p \in Container \cap created, NEW c \in created, RemoveChild(p, c)
      PROVE  Lands(b, e)
  <2>1. p \in Node /\ c \in Node /\ Do(Unlink(Tree, p, c, TRUE))
    BY <1>1, <1>8 DEF RemoveChild
  <2>2. Tracked(b, e, Unlink(Tree, p, c, TRUE))
    BY <1>2, <2>1, UnlinkTracked
  <2> QED BY <2>1, <2>2, TrackedLands DEF Lands
<1>9. ASSUME NEW h \in created, NEW ns \in ArgLists(Insertable),
             Before(h, ns) \/ After(h, ns) \/ ReplaceWith(h, ns)
      PROVE  Lands(b, e)
  <2>1. /\ parent[h] # None /\ h \in Node
        /\ Do(BeforeTree(h, ns)) \/ Do(AfterTree(h, ns)) \/ Do(ReplaceTree(h, ns))
    BY <1>1, <1>9 DEF Before, After, ReplaceWith
  <2> QED BY <1>3, <2>1, SiblingCallsLand
<1>10. ASSUME NEW h \in Container \cap created, NEW ns \in ArgLists(Insertable), ReplaceChildren(h, ns)
       PROVE  Lands(b, e)
  <2>1. h \in Node /\ Do(InsertNodes(Tree, h, ns, AnchorBefore(None), children[h]))
    BY <1>1, <1>10 DEF ReplaceChildren
  <2> QED BY <1>1, <1>3, <2>1, InsertNodesLands
<1>11. ASSUME NEW h \in (Element \cup Fragment) \cap created, NEW new \in FreshLists,
              SetTextContent(h, new) \/ SetInnerHTML(h, new)
       PROVE  Lands(b, e)
  <2>1. Do(Rewrite(Tree, h, new)) /\ h \in Node /\ h \in created
    BY <1>1, <1>11 DEF SetTextContent, SetInnerHTML
  <2> DEFINE u == Rewrite(Tree, h, new)
  <2>2. Landed(b, e, u, BumpSteps(b, u.steps))
    BY <2>1, RewriteLands DEF Starting
  <2> QED BY <2>1, <2>2 DEF Lands
<1>12. ASSUME NEW h \in Element \cap created, NEW new \in FreshLists, InsertAdjacentHTML(h, new)
       PROVE  Lands(b, e)
  <2>1. h \in Node /\ new \in Seq(Node) /\ Document \notin ToSet(new)
    <3>1. new \in Seq(Node) /\ ToSet(new) \cap created = {} /\ new \in Seq(Fresh)
      BY FreshCounts, BoundedLists DEF FreshLists
    <3>2. Document \notin Fresh
      BY NodeAssumption DEF Fresh
    <3> QED BY <1>1, <3>1, <3>2 DEF ToSet
  <2>2. CASE parent[h] \in Container /\ (Do(BeforeTree(h, new)) \/ Do(AfterTree(h, new)))
    <3>1. parent[h] # None
      BY <2>2, NodeAssumption DEF Container
    <3> QED BY <2>1, <2>2, <3>1, SiblingCallsLand
  <2>3. ASSUME NEW x, Do(InsertNodes(Tree, h, new, AnchorBefore(x), <<>>)) PROVE Lands(b, e)
    BY <1>4, <2>1, <2>3, InsertNodesLands
  <2> QED BY <1>12, <2>2, <2>3 DEF InsertAdjacentHTML
<1> QED
  BY <1>5, <1>6, <1>7, <1>8, <1>9, <1>10, <1>11, <1>12 DEF Next
-----------------------------------------------------------------------------
(* Attributes and states.                                                   *)

\* A change of n that the counters w have noticed: everything is stamped, or
\* what was stamped covers what selectors see of n.
Noticed(n, w) ==
  /\ GensFit(w) /\ Later(Gens, w) /\ w.par = parent
  /\ \/ w.global = w.sel /\ w.sel = sel + 1
     \/ /\ n \in Sheet => attr'[n].media = attr[n].media
        /\ n \in Control /\ attr'[n].required # attr[n].required => w.form = w.sel /\ w.sel = sel + 1
        /\ Look(n)' # Look(n) =>
             /\ w.sel = sel + 1
             /\ parent[n] # None => /\ w.style[n] = w.sel /\ w.kids[parent[n]].any = w.sel
                                    /\ HasNext(n) => w.kids[parent[n]].forward = w.sel

\* What k sees of its siblings, when n looks other than it did: no stamp of
\* the siblings, no change.
LEMMA SeenStill ==
  ASSUME Fit(Tree), KeepTree, NEW n \in Node, \A m \in Node : m # n => Look(m)' = Look(m),
         NEW k \in Node, parent[k] \in Node, NEW siblings \in {"none", "forward", "both"},
         Look(n)' # Look(n) /\ parent[n] = parent[k] =>
           siblings = "none" \/ (siblings = "forward" /\ n # k /\ <<n, k>> \notin Ord(Tree))
  PROVE  SiblingsSeen(Tree, k, siblings)' = SiblingsSeen(Tree, k, siblings)
<1> DEFINE p == parent[k]
           s == children[p]
           x == SubSeq(s, 1, Position(s, k))
           seen(list, upto) == CASE siblings = "none" -> <<>>
                                 [] siblings = "forward" -> Kept(upto, Element)
                                 [] siblings = "both" -> Kept(list, Element)
<1>1. Tree' = Tree /\ Tree.parent = parent /\ Tree.children = children
  BY DEF KeepTree, Tree
<1>2. s \in Seq(Node) /\ IsInjective(s) /\ ToSet(s) = KidsOf(Tree, p)
  BY <1>1 DEF Fit, Shaped, Paired
<1>3. x \in Seq(Node) /\ ToSet(x) = {m \in KidsOf(Tree, p) : m = k \/ <<m, k>> \in Ord(Tree)}
  BY <1>1, PrefixIs
<1>4. PICK list : list = seen(s, x)
  OBVIOUS
<1>5. /\ SiblingsSeen(Tree, k, siblings) = [i \in DOMAIN list |-> Look(list[i])]
      /\ SiblingsSeen(Tree, k, siblings)' = [i \in DOMAIN list |-> Look(list[i])']
  BY <1>1, <1>4 DEF SiblingsSeen, KeepTree
<1> HIDE DEF s, x
<1>6. ASSUME NEW i \in DOMAIN list PROVE Look(list[i])' = Look(list[i])
  <2>1. CASE siblings = "none"
    BY <1>4, <1>6, <2>1
  <2>2. CASE siblings = "forward"
    <3>1. list \in Seq(Node) /\ ToSet(list) \subseteq ToSet(x)
      BY <1>3, <1>4, <2>2, KeptPicks, KeptMembers
    <3>2. list[i] \in ToSet(x) /\ list[i] \in Node
      BY <1>6, <3>1 DEF ToSet
    <3>3. list[i] = n => parent[n] = p /\ (n = k \/ <<n, k>> \in Ord(Tree))
      BY <1>1, <1>3, <3>2 DEF KidsOf
    <3> QED BY <2>2, <3>2, <3>3
  <2>3. CASE siblings = "both"
    <3>1. list \in Seq(Node) /\ ToSet(list) \subseteq ToSet(s)
      BY <1>2, <1>4, <2>3, KeptPicks, KeptMembers
    <3>2. list[i] \in ToSet(s) /\ list[i] \in Node
      BY <1>6, <3>1 DEF ToSet
    <3>3. list[i] = n => parent[n] = p
      BY <1>1, <1>2, <3>2 DEF KidsOf
    <3> QED BY <2>3, <3>2, <3>3
  <2> QED BY <2>1, <2>2, <2>3
<1> QED
  BY <1>5, <1>6

\* A node before another in the list of a parent has a next sibling.
LEMMA BeforeHasNext ==
  ASSUME Fit(Tree), NEW n \in Node, NEW k, <<n, k>> \in Ord(Tree)
  PROVE  HasNext(n)
BY LastIsLast DEF HasNext

\* Validity is up to the controls' attributes when no control names its form.
LEMMA ValidStill ==
  ASSUME NoFormAttr, NoFormAttr', KeepTree,
         \A c \in Control : attr'[c].required = attr[c].required, NEW k
  PROVE  Invalid(Tree, k)' <=> Invalid(Tree, k)
<1>1. Tree' = Tree
  BY DEF KeepTree, Tree
<1>2. ASSUME NEW c \in Control
      PROVE  FormOwner(Tree, c)' = FormOwner(Tree, c)
  <2>1. c \in Node /\ ~attr[c].form /\ ~attr'[c].form
    BY StyleAssumption, NodeAssumption DEF NoFormAttr
  <2> DEFINE above == Chain(Tree.parent, c) \cap Form
             owner == {f \in above : \A g \in above : g \in Chain(Tree.parent, f)}
  <2>2. FormOwner(Tree, c) = owner
    BY <2>1 DEF FormOwner
  <2>3. FormOwner(Tree, c)' = owner
    BY <1>1, <2>1 DEF FormOwner
  <2> QED BY <2>2, <2>3
<1> QED
  BY <1>2 DEF Invalid

\* A noticed change of one element keeps the style current.
LEMMA NoticedKeeps ==
  ASSUME Ready(Tree), NoFormAttr, NoFormAttr', KeepTree, cached' = cached,
         GensFit(Gens), Entry(cached, Gens), Current(Tree, Gens, cached),
         NEW n \in Element, \A m \in Node : m # n => attr'[m] = attr[m],
         NEW w, Noticed(n, w), Set(w)
  PROVE  GensFit(Gens)' /\ Entry(cached, Gens)' /\ Current(Tree, Gens, cached)'
<1>0. PICK e : e = cached /\ e = cached'
  OBVIOUS
<1> DEFINE h == e.node
           scope == e.scope
<1>1. /\ GensFit(w) /\ Later(Gens, w) /\ w.par = parent /\ w.sel \in Nat /\ sel \in Nat
      /\ sel <= w.sel /\ Gens.sel = sel /\ Gens.par = parent
  BY DEF Noticed, GensFit, Counters, Later, Gens
<1>2. Gens' = w
  <2>1. w \in Counters
    BY <1>1 DEF GensFit
  <2>2. /\ sel' = w.sel /\ styleGens' = w.style /\ childGens' = w.kids /\ formGen' = w.form
        /\ globalGen' = w.global /\ parent' = w.par
    BY <1>1 DEF Set, KeepTree
  <2> QED BY <2>1, <2>2 DEF Gens, Counters
<1>3. /\ Tree' = Tree /\ Tree.parent = parent /\ Tree.children = children /\ Fit(Tree)
      /\ parent \in [Node -> Node \cup {None}] /\ hostOf' = hostOf /\ n \in Node /\ None \notin Node
  <2>1. Tree' = Tree /\ hostOf' = hostOf
    BY DEF KeepTree, Tree
  <2>2. Tree.parent \in [Node -> Node \cup {None}] /\ Fit(Tree)
    BY ReadyParents
  <2> QED BY <2>1, <2>2, TreeFields, NodeAssumption
<1>4. GensFit(Gens)'
  BY <1>1, <1>2 DEF GensFit, Counters
<1>5. Entry(cached, Gens)'
  BY <1>0, <1>1, <1>2 DEF Entry
<1>6. HasStyle(Tree, h)' <=> HasStyle(Tree, h)
  BY <1>3 DEF HasStyle, Connected
<1>7. SUFFICES ASSUME e # <<>>, HasStyle(Tree, h), h \in Node, scope \in Scopes, e.key \in Nat,
                      w.sel = sel + 1 => \A y \in StampsRead(w, h, scope) : y # w.sel
               PROVE  StyleGeneration(w, h, scope) > e.key
                        \/ Reads(Tree, h, scope)' = e.reads
  <2>1. w.sel = sel + 1 /\ e # <<>> /\ w.sel \in StampsRead(w, h, scope) =>
          StyleGeneration(w, h, scope) > e.key
    BY <1>0, <1>1, StampedPast
  <2>2. Current(Tree, Gens, cached)' <=>
          (e # <<>> /\ HasStyle(Tree, h) =>
             StyleGeneration(w, h, scope) > e.key \/ Reads(Tree, h, scope)' = e.reads)
    BY <1>0, <1>2, <1>6 DEF Current
  <2> QED BY <1>0, <1>4, <1>5, <2>1, <2>2 DEF Entry
<1> HIDE DEF h, scope
<1>8. CASE StyleGeneration(Gens, h, scope) > e.key
  <2>1. StyleGeneration(Gens, h, scope) <= StyleGeneration(w, h, scope)
    BY <1>1, <1>7, GenerationGrows
  <2>2. StyleGeneration(Gens, h, scope) \in Nat /\ StyleGeneration(w, h, scope) \in Nat
    BY <1>1, <1>7, GenerationIs
  <2> QED BY <1>7, <1>8, <2>1, <2>2
<1>9. CASE Reads(Tree, h, scope) = e.reads
  <2>1. w.global # w.sel \/ w.sel # sel + 1
    BY <1>7, StampsAre
  <2>2. /\ n \in Sheet => attr'[n].media = attr[n].media
        /\ n \in Control /\ attr'[n].required # attr[n].required => w.form = w.sel /\ w.sel = sel + 1
        /\ Look(n)' # Look(n) =>
             /\ w.sel = sel + 1
             /\ parent[n] # None => /\ w.style[n] = w.sel /\ w.kids[parent[n]].any = w.sel
                                    /\ HasNext(n) => w.kids[parent[n]].forward = w.sel
    BY <2>1 DEF Noticed
  <2>3. \A m \in Node : m # n => Look(m)' = Look(m)
    BY DEF Look
  <2>4. ASSUME NEW k \in Chain(parent, h) \cap Element
        PROVE  k \in Node /\ parent[k] \in Node /\ Look(k)' = Look(k)
    <3>1. k \in Node /\ parent[k] \in Node
      BY <1>3, <1>7, ChainIs, StyledParent
    <3>2. ASSUME k = n, Look(n)' # Look(n) PROVE FALSE
      <4>1. w.sel = sel + 1 /\ w.style[k] = w.sel
        BY <1>3, <2>2, <3>1, <3>2
      <4> QED BY <1>1, <1>7, <4>1, StampsAre
    <3> QED BY <2>3, <3>1, <3>2
  <2>5. ASSUME NEW k \in Chain(parent, h) \cap Element
        PROVE  SiblingsSeen(Tree, k, scope.siblings)' = SiblingsSeen(Tree, k, scope.siblings)
    <3>1. scope.siblings \in {"none", "forward", "both"}
      BY <1>7, StyleAssumption
    <3>2. k \in Node /\ parent[k] \in Node /\ Look(k)' = Look(k)
      BY <2>4
    <3>3. ASSUME Look(n)' # Look(n), parent[n] = parent[k]
          PROVE  scope.siblings = "none" \/ (scope.siblings = "forward" /\ n # k /\ <<n, k>> \notin Ord(Tree))
      <4>1. /\ w.sel = sel + 1 /\ w.kids[w.par[k]].any = w.sel /\ n # k
            /\ HasNext(n) => w.kids[w.par[k]].forward = w.sel
        BY <1>1, <1>3, <2>2, <3>2, <3>3
      <4>2. w.par[k] # None /\ k \in Chain(w.par, h)
        BY <1>1, <1>3, <3>2
      <4>3. scope.siblings # "both"
        BY <1>7, <4>1, <4>2, StampsAre
      <4>4. scope.siblings = "forward" => ~HasNext(n)
        BY <1>7, <4>1, <4>2, StampsAre
      <4>5. ~HasNext(n) => <<n, k>> \notin Ord(Tree)
        BY <1>3, BeforeHasNext
      <4> QED BY <3>1, <4>1, <4>3, <4>4, <4>5
    <3> QED BY <1>3, <2>3, <3>1, <3>2, <3>3, SeenStill
  <2>6. ASSUME scope.forms, NEW k PROVE Invalid(Tree, k)' <=> Invalid(Tree, k)
    <3>1. ~(n \in Control /\ attr'[n].required # attr[n].required)
      BY <1>7, <2>2, <2>6, StampsAre
    <3>2. \A c \in Control : attr'[c].required = attr[c].required
      BY <3>1, StyleAssumption, NodeAssumption
    <3> QED BY <3>2, ValidStill
  <2>7. \A s \in Sheet : attr'[s].media = attr[s].media
    BY <2>2, StyleAssumption, NodeAssumption
  <2>8. Reads(Tree, h, scope)' = Reads(Tree, h, scope)
    <3>1. Reads(Tree, h, scope) =
            [k \in Chain(parent, h) \cap Element |->
               <<Look(k), SiblingsSeen(Tree, k, scope.siblings), scope.forms /\ Invalid(Tree, k),
                 [s \in Sheet |-> attr[s].media]>>]
      BY <1>3 DEF Reads
    <3>2. Reads(Tree, h, scope)' =
            [k \in Chain(parent, h) \cap Element |->
               <<Look(k)', SiblingsSeen(Tree, k, scope.siblings)', scope.forms /\ Invalid(Tree, k)',
                 [s \in Sheet |-> attr'[s].media]>>]
      BY <1>3 DEF Reads, KeepTree
    <3>3. [s \in Sheet |-> attr'[s].media] = [s \in Sheet |-> attr[s].media]
      BY <2>7
    <3>4. ASSUME NEW k \in Chain(parent, h) \cap Element
          PROVE  (scope.forms /\ Invalid(Tree, k)') = (scope.forms /\ Invalid(Tree, k))
      BY <2>6
    <3> QED BY <2>4, <2>5, <3>1, <3>2, <3>3, <3>4
  <2> QED BY <1>9, <2>8
<1> QED
  BY <1>0, <1>7, <1>8, <1>9 DEF Current, h, scope

\* The counters of the state.
LEMMA GensAre ==
  /\ Gens.sel = sel /\ Gens.style = styleGens /\ Gens.kids = childGens
  /\ Gens.form = formGen /\ Gens.global = globalGen /\ Gens.par = parent
BY DEF Gens

\* Everything is stamped.
LEMMA GlobalFits ==
  ASSUME NEW g, GensFit(g)
  PROVE  LET u == Global(g)
         IN  /\ GensFit(u) /\ Later(g, u) /\ u.sel = g.sel + 1 /\ u.par = g.par /\ u.global = u.sel
<1> DEFINE u == Global(g)
<1>1. /\ u \in Counters /\ u.sel = g.sel + 1 /\ u.par = g.par /\ u.style = g.style
      /\ u.kids = g.kids /\ u.form = g.form /\ u.global = g.sel + 1
  <2> DEFINE v == Unscoped(g)
  <2>1. /\ v \in Counters /\ v.sel = g.sel + 1 /\ v.par = g.par /\ v.style = g.style
        /\ v.kids = g.kids /\ v.form = g.form /\ g.sel + 1 \in Nat
    BY UnscopedFits DEF GensFit, Counters
  <2>2. u = [v EXCEPT !.global = g.sel + 1]
    BY DEF Global
  <2> HIDE DEF u, v
  <2> QED BY <2>1, <2>2 DEF Counters
<1> HIDE DEF u
<1>2. /\ g.sel \in Nat /\ g.form \in Nat /\ g.global \in Nat
      /\ \A m \in Node : g.style[m] \in Nat /\ g.kids[m].any \in Nat /\ g.kids[m].forward \in Nat
  BY DEF GensFit, Counters
<1> QED
  BY <1>1, <1>2 DEF GensFit, Later, u

\* What a counters' change is for an attribute, before the forms are told.
Moved(n, x) ==
  /\ GensFit(x) /\ Later(Gens, x) /\ x.sel = sel + 1 /\ x.par = parent
  /\ \/ x.global = x.sel
     \/ /\ n \in Sheet => attr'[n].media = attr[n].media
        /\ Look(n)' # Look(n) /\ parent[n] # None =>
             /\ x.style[n] = x.sel /\ x.kids[parent[n]].any = x.sel
             /\ HasNext(n) => x.kids[parent[n]].forward = x.sel

\* The forms are told when validity may move.
LEMMA FormsAreTold ==
  ASSUME Ready(Tree), GensFit(Gens), NEW n \in Element, NEW x, Moved(n, x), NEW name,
         n \in Control /\ attr'[n].required # attr[n].required => name = "required",
         NEW w, w = FormChange(x, n, name)
  PROVE  Noticed(n, w)
<1> DEFINE moved == name \notin {"class", "style", "id"} /\ (TouchesForms(x.par, n) \/ name = "form")
<1>1. /\ GensFit(x) /\ Later(Gens, x) /\ x.sel = sel + 1 /\ x.par = parent /\ n \in Node
      /\ parent \in [Node -> Node \cup {None}]
  BY ReadyParents, TreeFields, NodeAssumption DEF Moved
<1>2. w = FormMoved(x, moved)
  BY DEF FormChange
<1>3. n \in Control /\ name = "required" => moved
  <2>1. n \in Chain(parent, n)
    BY <1>1, ChainIs
  <2> QED BY <1>1, <2>1 DEF TouchesForms, FormElement
<1> HIDE DEF moved
<1>4. /\ GensFit(w) /\ Later(x, w) /\ w.sel = x.sel /\ w.par = x.par /\ w.style = x.style
      /\ w.kids = x.kids /\ (moved => w.form = x.sel)
  BY <1>1, <1>2, FormFits
<1>5. Later(Gens, w)
  BY <1>1, <1>4, LaterStill
<1>6. x.global = x.sel => w.global = w.sel
  <2>1. x.global \in Nat /\ w.global \in Nat /\ x.sel \in Nat /\ w.sel \in Nat
    BY <1>1, <1>4 DEF GensFit, Counters
  <2>2. x.global <= w.global /\ w.global <= w.sel
    BY <1>4 DEF GensFit, Later
  <2> QED BY <1>4, <2>1, <2>2
<1> QED
  BY <1>1, <1>3, <1>4, <1>5, <1>6 DEF Noticed, Moved

\* A bumped node is told of.
LEMMA BumpMoves ==
  ASSUME Ready(Tree), GensFit(Gens), NEW n \in Element,
         n \in Sheet => attr'[n].media = attr[n].media
  PROVE  Moved(n, BumpNode(Gens, n))
<1>1. n \in Node /\ Gens.par = parent /\ Gens.sel = sel
  BY GensAre, NodeAssumption
<1> DEFINE u == BumpNode(Gens, n)
<1>2. /\ GensFit(u) /\ Later(Gens, u) /\ u.sel = sel + 1 /\ u.par = parent
      /\ parent[n] # None => /\ u.style[n] = u.sel /\ u.kids[parent[n]].any = u.sel
                             /\ HasNext(n) => u.kids[parent[n]].forward = u.sel
  BY <1>1, NodeBumped
<1> HIDE DEF u
<1>3. Moved(n, u)
  BY <1>2 DEF Moved
<1> QED
  BY <1>3 DEF u

\* An attribute is written.
LEMMA AttributeNoticed ==
  ASSUME Ready(Tree), GensFit(Gens), attr \in [Node -> Attributes], NEW n \in Element, NEW name, NEW new,
         \/ name = "class" /\ new \in SUBSET Tokens
         \/ name \in {"id", "required", "style", "media"} /\ new \in BOOLEAN,
         SetAttribute(n, name, new)
  PROVE  /\ attr' \in [Node -> Attributes] /\ \A m \in Node : m # n => attr'[m] = attr[m]
         /\ attr'[n].form = attr[n].form
         /\ \E w : Noticed(n, w) /\ Set(w)
<1> DEFINE x == IF n \in Sheet THEN Global(Gens)
                ELSE IF Styled(n, name, new) THEN BumpNode(Gens, n)
                ELSE Unscoped(Gens)
<1>1. n \in Node /\ Gens.par = parent /\ Gens.sel = sel
  BY GensAre, NodeAssumption
<1>2. attr[n] \in Attributes /\ attr' = [attr EXCEPT ![n] = [attr[n] EXCEPT ![name] = new]]
  BY <1>1 DEF SetAttribute
<1>3. /\ [attr[n] EXCEPT ![name] = new] \in Attributes
      /\ name # "class" => [attr[n] EXCEPT ![name] = new].class = attr[n].class
      /\ name # "required" => [attr[n] EXCEPT ![name] = new].required = attr[n].required
      /\ name # "media" => [attr[n] EXCEPT ![name] = new].media = attr[n].media
      /\ [attr[n] EXCEPT ![name] = new].state = attr[n].state
      /\ [attr[n] EXCEPT ![name] = new].form = attr[n].form
      /\ name = "class" => [attr[n] EXCEPT ![name] = new].class = new
  BY <1>2 DEF Attributes
<1>4. /\ attr' \in [Node -> Attributes] /\ \A m \in Node : m # n => attr'[m] = attr[m]
      /\ attr'[n] = [attr[n] EXCEPT ![name] = new]
  BY <1>1, <1>2, <1>3
<1>5. /\ name # "class" => attr'[n].class = attr[n].class
      /\ name # "required" => attr'[n].required = attr[n].required
      /\ name # "media" => attr'[n].media = attr[n].media
      /\ attr'[n].state = attr[n].state /\ attr'[n].form = attr[n].form
      /\ name = "class" => attr'[n].class = new
  BY <1>3, <1>4
<1>6. CASE name = "style"
  <2>1. Set(Gens)
    BY <1>6 DEF SetAttribute
  <2>2. Look(n)' = Look(n)
    BY <1>5, <1>6 DEF Look
  <2>3. Later(Gens, Gens)
    BY DEF GensFit, Counters, Later
  <2>4. Noticed(n, Gens)
    BY <1>1, <1>5, <1>6, <2>2, <2>3 DEF Noticed
  <2> QED BY <1>4, <1>5, <2>1, <2>4
<1>7. CASE name # "style"
  <2>1. Set(FormChange(x, n, name))
    BY <1>7 DEF SetAttribute
  <2>2. ASSUME n \in Sheet PROVE Moved(n, x)
    <3>1. x = Global(Gens)
      BY <2>2
    <3> HIDE DEF x
    <3> QED BY <1>1, <3>1, GlobalFits DEF Moved
  <2>3. ASSUME n \notin Sheet, Styled(n, name, new) PROVE Moved(n, x)
    <3>1. x = BumpNode(Gens, n)
      BY <2>3
    <3> HIDE DEF x
    <3> QED BY <2>3, <3>1, BumpMoves
  <2>4. ASSUME n \notin Sheet, ~Styled(n, name, new) PROVE Moved(n, x)
    <3>1. x = Unscoped(Gens)
      BY <2>4
    <3>2. Look(n)' = Look(n)
      <4>1. CASE name = "class"
        <5>1. ((attr[n].class \ new) \cup (new \ attr[n].class)) \cap Named = {}
          BY <2>4, <4>1 DEF Styled
        <5>2. attr'[n].class \cap Named = attr[n].class \cap Named
          BY <1>5, <4>1, <5>1
        <5> QED BY <1>5, <5>2 DEF Look
      <4>2. CASE name # "class"
        BY <1>5, <4>2 DEF Look
      <4> QED BY <4>1, <4>2
    <3> HIDE DEF x
    <3> QED BY <1>1, <2>4, <3>1, <3>2, UnscopedFits DEF Moved
  <2>5. Moved(n, x)
    BY <2>2, <2>3, <2>4
  <2> HIDE DEF x
  <2>6. Noticed(n, FormChange(x, n, name))
    BY <1>5, <2>5, FormsAreTold
  <2> QED BY <1>4, <1>5, <2>1, <2>6
<1> QED
  BY <1>6, <1>7

\* A state changes.
LEMMA StateNoticed ==
  ASSUME Ready(Tree), GensFit(Gens), attr \in [Node -> Attributes], NEW n \in Element,
         \/ \E new \in BOOLEAN : SetFormProperty(n, new)
         \/ \E quiet \in BOOLEAN : InvalidateStyle(n, quiet)
  PROVE  /\ attr' \in [Node -> Attributes] /\ \A m \in Node : m # n => attr'[m] = attr[m]
         /\ attr'[n].form = attr[n].form
         /\ \E w : Noticed(n, w) /\ Set(w)
<1>1. n \in Node /\ Gens.par = parent /\ Gens.sel = sel /\ attr[n] \in Attributes
  BY GensAre, NodeAssumption
<1>2. PICK new \in BOOLEAN : attr' = [attr EXCEPT ![n] = [attr[n] EXCEPT !.state = new]]
  <2>1. ASSUME NEW new \in BOOLEAN, SetFormProperty(n, new)
        PROVE  attr' = [attr EXCEPT ![n] = [attr[n] EXCEPT !.state = new]]
    BY <1>1, <2>1 DEF SetFormProperty
  <2>2. ASSUME NEW quiet \in BOOLEAN, InvalidateStyle(n, quiet)
        PROVE  attr' = [attr EXCEPT ![n] = [attr[n] EXCEPT !.state = ~attr[n].state]]
    BY <1>1, <2>2 DEF InvalidateStyle
  <2>3. (~attr[n].state) \in BOOLEAN
    OBVIOUS
  <2> QED BY <2>1, <2>2, <2>3
<1>3. /\ [attr[n] EXCEPT !.state = new] \in Attributes
      /\ [attr[n] EXCEPT !.state = new].required = attr[n].required
      /\ [attr[n] EXCEPT !.state = new].media = attr[n].media
      /\ [attr[n] EXCEPT !.state = new].form = attr[n].form
  BY <1>1 DEF Attributes
<1>4. /\ attr' \in [Node -> Attributes] /\ \A m \in Node : m # n => attr'[m] = attr[m]
      /\ attr'[n].required = attr[n].required /\ attr'[n].media = attr[n].media
      /\ attr'[n].form = attr[n].form
  BY <1>1, <1>2, <1>3
<1>5. Moved(n, BumpNode(Gens, n))
  BY <1>4, BumpMoves
<1>6. CASE \E value \in BOOLEAN : SetFormProperty(n, value)
  <2> DEFINE w == FormChange(BumpNode(Gens, n), n, "")
  <2>1. Set(w)
    BY <1>6 DEF SetFormProperty
  <2>2. Noticed(n, w)
    BY <1>4, <1>5, FormsAreTold
  <2> QED BY <1>4, <2>1, <2>2
<1>7. ASSUME NEW quiet \in BOOLEAN, InvalidateStyle(n, quiet)
      PROVE  \E w : Noticed(n, w) /\ Set(w)
  <2>1. CASE quiet /\ parent[n] = None
    <3> DEFINE w == Stamp(Unscoped(Gens), n)
    <3>1. Set(w)
      BY <1>7, <2>1 DEF InvalidateStyle
    <3>2. LET u == Unscoped(Gens) IN GensFit(u) /\ Later(Gens, u) /\ u.sel = sel + 1 /\ u.par = parent
      BY <1>1, UnscopedFits
    <3>3. GensFit(w) /\ Later(Gens, w) /\ w.sel = sel + 1 /\ w.par = parent
      BY <1>1, <3>2, StampFits, LaterStill
    <3> HIDE DEF w
    <3>4. Noticed(n, w)
      BY <1>4, <2>1, <3>3 DEF Noticed
    <3> QED BY <3>1, <3>4
  <2>2. CASE ~(quiet /\ parent[n] = None)
    <3> DEFINE w == BumpNode(Gens, n)
    <3>1. Set(w)
      BY <1>7, <2>2 DEF InvalidateStyle
    <3> HIDE DEF w
    <3>2. Noticed(n, w)
      BY <1>4, <1>5 DEF Noticed, Moved, w
    <3> QED BY <3>1, <3>2
  <2> QED BY <2>1, <2>2
<1> QED
  BY <1>4, <1>6, <1>7
-----------------------------------------------------------------------------
(* The theorem.                                                             *)

\* A host's shadow root is a node that was created.
RootsFit ==
  /\ rootOf \in [Node -> Node \cup {None}]
  /\ \A h \in Node : rootOf[h] # None => rootOf[h] \in created

\* The cached style, if any, is of a created node, and current.
GenInv ==
  /\ TreeListsInv /\ RootsFit
  /\ attr \in [Node -> Attributes] /\ NoFormAttr
  /\ GensFit(Gens)
  /\ cached # <<>> => cached.node \in created
  /\ Entry(cached, Gens) /\ Current(Tree, Gens, cached)

\* What every call does to the roots and the created nodes.
LEMMA NextGrows ==
  ASSUME Next, created \subseteq Node, RootsFit
  PROVE  created \subseteq created' /\ RootsFit'
<1>1. /\ created \subseteq created'
      /\ \/ rootOf' = rootOf
         \/ \E host \in Element, root \in Fragment :
              rootOf' = [rootOf EXCEPT ![host] = root] /\ root \in created'
  BY DEF Next, CreateNode, AppendChild, InsertBefore, RemoveChild, Before, After, ReplaceWith,
         ReplaceChildren, SetTextContent, SetInnerHTML, InsertAdjacentHTML, AttachShadow, Do
<1>2. CASE rootOf' = rootOf
  BY <1>1, <1>2 DEF RootsFit
<1>3. ASSUME NEW host \in Element, NEW root \in Fragment,
             rootOf' = [rootOf EXCEPT ![host] = root], root \in created'
      PROVE  RootsFit'
  <2>1. host \in Node /\ root \in Node
    BY NodeAssumption
  <2>2. rootOf' \in [Node -> Node \cup {None}]
    BY <1>3, <2>1 DEF RootsFit
  <2>3. \A h \in Node : rootOf'[h] = IF h = host THEN root ELSE rootOf[h]
    BY <1>3, <2>1 DEF RootsFit
  <2> QED BY <1>1, <1>3, <2>2, <2>3 DEF RootsFit
<1> QED
  BY <1>1, <1>2, <1>3

\* A structural call.
LEMMA MutateKeepsStyle ==
  ASSUME Traced, GenInv, MutateTree
  PROVE  GenInv'
<1>1. /\ TreeListsInv /\ RootsFit /\ attr \in [Node -> Attributes] /\ NoFormAttr /\ GensFit(Gens)
      /\ Entry(cached, Gens) /\ Current(Tree, Gens, cached) /\ Next
      /\ attr' = attr /\ cached' = cached /\ created \subseteq Node
      /\ Set(IF rootOf' # rootOf THEN Global(Gens)
             ELSE BumpSteps(IF created' = created THEN Gens ELSE Unscoped(Gens), trace'))
  BY DEF GenInv, MutateTree, TreeListsInv
<1>2. TreeListsInv'
  BY <1>1, NextKeepsTreeListsInv
<1>3. created \subseteq created' /\ RootsFit'
  BY <1>1, NextGrows
<1>4. attr' \in [Node -> Attributes] /\ NoFormAttr' /\ (cached' # <<>> => cached'.node \in created')
  BY <1>1, <1>3 DEF GenInv, NoFormAttr
<1>5. sel \in Nat /\ Gens.sel = sel /\ Gens.par = parent
  BY <1>1, GensAre DEF GensFit, Counters
<1>6. SUFFICES GensFit(Gens)' /\ Entry(cached, Gens)' /\ Current(Tree, Gens, cached)'
  BY <1>2, <1>3, <1>4 DEF GenInv
<1>7. CASE rootOf' # rootOf
  <2> DEFINE w == Global(Gens)
             g == At(w, parent')
  <2>1. Set(w)
    BY <1>1, <1>7
  <2>2. GensFit(w) /\ w.sel = sel + 1 /\ w.global = w.sel
    BY <1>1, <1>5, GlobalFits
  <2>3. parent' \in [Node -> Node \cup {None}]
    BY <1>2 DEF TreeListsInv, Ready, Fit, Shaped, Tree
  <2> HIDE DEF w
  <2>4. GensFit(g) /\ g.sel = w.sel /\ g.global = w.global
    BY <2>2, <2>3 DEF At, GensFit, Counters
  <2>5. Gens' = g
    <3>1. /\ g.sel = w.sel /\ g.style = w.style /\ g.kids = w.kids
          /\ g.form = w.form /\ g.global = w.global /\ g.par = parent'
      BY <2>2, <2>3 DEF At, GensFit, Counters
    <3>2. g \in Counters
      BY <2>4 DEF GensFit
    <3> HIDE DEF g
    <3> QED BY <2>1, <3>1, <3>2 DEF Set, Gens, Counters
  <2> HIDE DEF g
  <2>6. PICK e : e = cached /\ e = cached'
    BY <1>1
  <2>7. GensFit(Gens)'
    BY <2>4, <2>5 DEF GensFit, Counters
  <2>8. Entry(e, g)
    BY <1>1, <1>5, <2>2, <2>4, <2>6 DEF Entry
  <2>9. e # <<>> => StyleGeneration(g, e.node, e.scope) > e.key
    <3>1. SUFFICES ASSUME e # <<>> PROVE StyleGeneration(g, e.node, e.scope) > e.key
      OBVIOUS
    <3>2. g.sel \in StampsRead(g, e.node, e.scope)
      BY <1>1, <2>2, <2>4, <2>6, <3>1, StampsAre DEF Entry
    <3> QED BY <1>1, <1>5, <2>2, <2>4, <2>6, <3>1, <3>2, StampedPast
  <2>10. Current(Tree, Gens, cached)'
    BY <2>5, <2>6, <2>9 DEF Current
  <2>11. Entry(cached, Gens)'
    BY <2>5, <2>6, <2>8 DEF Entry
  <2> QED BY <2>7, <2>10, <2>11
<1>8. CASE rootOf' = rootOf
  <2> DEFINE b == IF created' = created THEN Gens ELSE Unscoped(Gens)
  <2>1. Set(BumpSteps(b, trace'))
    BY <1>1, <1>8
  <2>2. GensFit(b) /\ b.par = parent /\ b.sel \in Nat /\ sel <= b.sel /\ Current(Tree, b, cached)
    <3>1. CASE created' = created
      BY <1>1, <1>5, <3>1
    <3>2. CASE created' # created
      <4>1. b = Unscoped(Gens)
        BY <3>2
      <4>2. LET u == Unscoped(Gens)
            IN  GensFit(u) /\ Later(Gens, u) /\ u.sel = sel + 1 /\ u.par = Gens.par
        BY <1>1, <1>5, UnscopedFits
      <4> HIDE DEF b
      <4>3. Current(Tree, b, cached)
        BY <1>1, <4>1, <4>2, CurrentGrows
      <4> QED BY <1>5, <4>1, <4>2, <4>3
    <3> QED BY <3>1, <3>2
  <2> HIDE DEF b
  <2>3. PICK c : c = b
    OBVIOUS
  <2>4. Starting(c, cached)
    BY <1>1, <1>5, <2>2, <2>3 DEF Starting, Watched, Entry, GenInv
  <2>5. PICK t : Do(t) /\ Landed(c, cached, t, BumpSteps(c, t.steps))
    BY <1>1, <1>8, <2>4, NextLands DEF Lands, RootsFit
  <2>6. /\ parent' = t.parent /\ children' = t.children /\ hostOf' = hostOf
        /\ Set(BumpSteps(c, t.steps))
    BY <2>1, <2>3, <2>5 DEF Do
  <2>7. GensFit(Gens)' /\ c.sel <= sel' /\ Current(Tree, Gens, cached)'
    BY <1>1, <2>5, <2>6, LandedIsNext
  <2>8. Gens'.sel = sel' /\ sel' \in Nat
    BY <2>7 DEF Gens, GensFit, Counters
  <2>9. Entry(cached, Gens)'
    BY <1>1, <1>5, <2>2, <2>3, <2>7, <2>8 DEF Entry
  <2> QED BY <2>7, <2>9
<1> QED
  BY <1>7, <1>8

\* Where the tree is kept, so is all of the invariant that is about it.
LEMMA KeptTree ==
  ASSUME GenInv, KeepTree
  PROVE  TreeListsInv' /\ RootsFit' /\ created' = created
BY QuietKeeps DEF GenInv, RootsFit, KeepTree

\* An element changes.
LEMMA ChangeKeepsStyle ==
  ASSUME GenInv, KeepTree, cached' = cached, NEW n \in Element, attr' \in [Node -> Attributes],
         \A m \in Node : m # n => attr'[m] = attr[m], attr'[n].form = attr[n].form,
         NEW w, Noticed(n, w), Set(w)
  PROVE  GenInv'
<1>1. NoFormAttr'
  BY DEF GenInv, NoFormAttr
<1>2. GensFit(Gens)' /\ Entry(cached, Gens)' /\ Current(Tree, Gens, cached)'
  BY <1>1, NoticedKeeps DEF GenInv, TreeListsInv
<1> QED
  BY <1>1, <1>2, KeptTree DEF GenInv

\* The style is computed.
LEMMA ComputeKeepsStyle ==
  ASSUME GenInv, NEW h \in Element \cap created, NEW scope \in Scopes, Compute(h, scope)
  PROVE  GenInv'
<1>1. /\ KeepTree /\ attr' = attr /\ UNCHANGED genVars
      /\ cached' = [node |-> h, scope |-> scope, key |-> StyleGeneration(Gens, h, scope),
                    reads |-> Reads(Tree, h, scope)]
  BY DEF Compute
<1>2. /\ cached'.node = h /\ cached'.scope = scope /\ cached'.key = StyleGeneration(Gens, h, scope)
      /\ cached'.reads = Reads(Tree, h, scope)
  BY <1>1
<1>3. Gens' = Gens /\ Tree' = Tree /\ hostOf' = hostOf /\ h \in Node
  BY <1>1, NodeAssumption DEF genVars, KeepTree, Gens, Tree
<1>4. GensFit(Gens)' /\ NoFormAttr' /\ attr' \in [Node -> Attributes]
  BY <1>1, <1>3 DEF GenInv, GensFit, NoFormAttr
<1>5. StyleGeneration(Gens, h, scope) \in Nat /\ StyleGeneration(Gens, h, scope) <= Gens.sel
  BY <1>3, GenerationIs DEF GenInv
<1>6. Entry(cached, Gens)'
  BY <1>2, <1>3, <1>5 DEF Entry
<1>7. Reads(Tree, h, scope)' = Reads(Tree, h, scope)
  BY <1>1, <1>3, ReadsOnly
<1>8. Current(Tree, Gens, cached)'
  BY <1>2, <1>3, <1>7 DEF Current
<1> QED
  BY <1>1, <1>2, <1>4, <1>6, <1>8, KeptTree DEF GenInv

\* At first nothing is cached.
LEMMA InitGenInv ==
  ASSUME \A n \in Node : ~ParsedAttr[n].form
  PROVE  GenInit => GenInv
<1>1. SUFFICES ASSUME GenInit PROVE GenInv
  OBVIOUS
<1>2. Init /\ cached = <<>> /\ attr = ParsedAttr
  BY <1>1 DEF GenInit
<1>3. TreeListsInv
  BY <1>2, InitTreeListsInv
<1>4. RootsFit
  BY <1>2 DEF Init, RootsFit
<1>5. attr \in [Node -> Attributes] /\ NoFormAttr
  BY <1>2, StyleAssumption DEF NoFormAttr
<1>6. GensFit(Gens)
  <2>1. /\ Gens.sel = 0 /\ Gens.style = [n \in Node |-> 0] /\ Gens.kids = [n \in Node |-> Never]
        /\ Gens.form = 0 /\ Gens.global = 0 /\ Gens.par = parent
    BY <1>1, GensAre DEF GenInit
  <2>2. parent \in [Node -> Node \cup {None}]
    BY <1>3, ReadyParents, TreeFields DEF TreeListsInv
  <2>3. Gens \in Counters
    BY <2>1, <2>2 DEF Gens, Counters, Never
  <2>4. \A n \in Node : Gens.style[n] = 0 /\ Gens.kids[n].any = 0 /\ Gens.kids[n].forward = 0
    BY <2>1 DEF Never
  <2> QED BY <2>1, <2>3, <2>4 DEF GensFit
<1>7. Entry(cached, Gens) /\ Current(Tree, Gens, cached)
  BY <1>2 DEF Entry, Current
<1> QED
  BY <1>2, <1>3, <1>4, <1>5, <1>6, <1>7 DEF GenInv

\* Every step keeps the style current.
LEMMA NextKeepsGenInv ==
  ASSUME Traced, "form" \notin Writes
  PROVE  GenInv /\ [GenNext]_allVars => GenInv'
<1>1. SUFFICES ASSUME GenInv, [GenNext]_allVars PROVE GenInv'
  OBVIOUS
<1>2. Ready(Tree) /\ GensFit(Gens) /\ attr \in [Node -> Attributes]
  BY <1>1 DEF GenInv, TreeListsInv
<1>3. CASE UNCHANGED allVars
  <2>1. /\ UNCHANGED <<created, parent, children, hostOf, rootOf>> /\ attr' = attr /\ cached' = cached
        /\ Gens' = Gens /\ Tree' = Tree
    BY <1>3 DEF allVars, vars, genVars, Gens, Tree
  <2>2. TreeListsInv' /\ RootsFit'
    BY <1>1, <2>1, QuietKeeps DEF GenInv, RootsFit
  <2>3. GensFit(Gens)' /\ Entry(cached, Gens)' /\ NoFormAttr'
    BY <1>1, <2>1 DEF GenInv, GensFit, Entry, NoFormAttr
  <2>4. PICK e : e = cached /\ e = cached'
    BY <2>1
  <2>5. /\ HasStyle(Tree, e.node)' <=> HasStyle(Tree, e.node)
        /\ Reads(Tree, e.node, e.scope)' = Reads(Tree, e.node, e.scope)
    BY <2>1, ReadsOnly
  <2>6. Current(Tree, Gens, cached)'
    BY <1>1, <2>1, <2>4, <2>5 DEF GenInv, Current
  <2> QED BY <1>1, <2>1, <2>2, <2>3, <2>6 DEF GenInv
<1>4. CASE MutateTree
  BY <1>1, <1>4, MutateKeepsStyle
<1>5. ASSUME NEW n \in Element, NEW name, NEW new, SetAttribute(n, name, new),
             \/ name = "class" /\ new \in SUBSET Tokens
             \/ name \in Writes \cap {"id", "form", "required", "style", "media"} /\ new \in BOOLEAN
      PROVE  GenInv'
  <2>1. \/ name = "class" /\ new \in SUBSET Tokens
        \/ name \in {"id", "required", "style", "media"} /\ new \in BOOLEAN
    BY <1>5
  <2>2. KeepTree /\ cached' = cached
    BY <1>5 DEF SetAttribute
  <2>3. /\ attr' \in [Node -> Attributes] /\ \A m \in Node : m # n => attr'[m] = attr[m]
        /\ attr'[n].form = attr[n].form
        /\ \E w : Noticed(n, w) /\ Set(w)
    BY <1>2, <1>5, <2>1, AttributeNoticed
  <2> QED BY <1>1, <2>2, <2>3, ChangeKeepsStyle
<1>6. ASSUME NEW n \in Element,
             (\E new \in BOOLEAN : SetFormProperty(n, new)) \/ \E quiet \in BOOLEAN : InvalidateStyle(n, quiet)
      PROVE  GenInv'
  <2>1. KeepTree /\ cached' = cached
    BY <1>6 DEF SetFormProperty, InvalidateStyle
  <2>2. /\ attr' \in [Node -> Attributes] /\ \A m \in Node : m # n => attr'[m] = attr[m]
        /\ attr'[n].form = attr[n].form
        /\ \E w : Noticed(n, w) /\ Set(w)
    BY <1>2, <1>6, StateNoticed
  <2> QED BY <1>1, <2>1, <2>2, ChangeKeepsStyle
<1>7. ASSUME NEW h \in Element \cap created, NEW scope \in Scopes, Compute(h, scope) PROVE GenInv'
  BY <1>1, <1>7, ComputeKeepsStyle
<1> QED
  BY <1>1, <1>3, <1>4, <1>5, <1>6, <1>7 DEF GenNext

\* The invariant is what CachedStyleIsCurrent asks, and more.
LEMMA GenInvCurrent == GenInv => CachedStyleIsCurrent
<1>1. SUFFICES ASSUME GenInv, cached # <<>>, HasStyle(Tree, cached.node),
                      StyleGeneration(Gens, cached.node, cached.scope) = cached.key
               PROVE  Reads(Tree, cached.node, cached.scope) = cached.reads
  BY DEF CachedStyleIsCurrent
<1>2. cached.key \in Nat
  BY <1>1 DEF GenInv, Entry
<1>3. ~(StyleGeneration(Gens, cached.node, cached.scope) > cached.key)
  BY <1>1, <1>2
<1> QED
  BY <1>1, <1>3 DEF GenInv, Current

\* A computed style is never stale: as long as no element names its form by
\* attribute, whatever selectors of its scope read of the element, its
\* ancestors, their siblings and the forms has not changed while its
\* generation is the one it was computed at, in every tree and after any calls.
THEOREM StyleIsCurrent ==
  ASSUME Traced, "form" \notin Writes, \A n \in Node : ~ParsedAttr[n].form
  PROVE  GenSpec => []CachedStyleIsCurrent
<1>1. GenInit => GenInv
  BY InitGenInv
<1>2. GenInv /\ [GenNext]_allVars => GenInv'
  BY NextKeepsGenInv
<1>3. GenInv => CachedStyleIsCurrent
  BY GenInvCurrent
<1> QED
  BY <1>1, <1>2, <1>3, PTL DEF GenSpec
=============================================================================
