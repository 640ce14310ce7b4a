----------------------------- MODULE TreeProofs -----------------------------
(***************************************************************************)
(* The tree of DomTree keeps its shape for every set of handles, every     *)
(* parsed tree and every length of argument list.  The heart is that one   *)
(* Splice keeps the invariant (SpliceKeepsAcyclic, SpliceKeepsOrder);       *)
(* every handler but CreateNode and AttachShadow is a Splice.              *)
(*                                                                         *)
(* And about StorageCollection: whatever is collected, every pinned handle *)
(* names a stored node and no stored node leads to a freed one.            *)
(***************************************************************************)
EXTENDS StorageCollection, TLAPS

(* The inclusive ancestors of p: what every up-closed set holding p holds.  *)
Ancestors(p) == {x \in Node : IsInclusiveAncestor(x, p)}

(* What a handler guarantees about the arguments of its Splice.             *)
GoodArgs(p, ns) ==
  /\ p \in Container /\ p \in created
  /\ \E k \in Nat : ns \in [1..k -> Node]
  /\ \A i, j \in DOMAIN ns : i # j => ns[i] # ns[j]
  /\ \A i \in DOMAIN ns : ns[i] # Document /\ hostOf[ns[i]] = None
  /\ \A i \in DOMAIN ns : ns[i] \notin Ancestors(p)

-----------------------------------------------------------------------------
(* Ancestors(p) holds p and is closed upwards.                              *)
LEMMA AncestorsClosed ==
  ASSUME NEW p \in Node, TypeOK
  PROVE  p \in Ancestors(p) /\ UpClosed(Ancestors(p))
<1>1. p \in Ancestors(p)
  BY DEF Ancestors, IsInclusiveAncestor
<1>2. ASSUME NEW m \in Ancestors(p)
      PROVE  Up(m) \in Ancestors(p) \cup {None}
  <2>1. m \in Node
    BY DEF Ancestors
  <2>2. Up(m) \in Node \cup {None}
    BY <2>1, KindAssumption DEF TypeOK, Up, Container
  <2>3. CASE Up(m) \in Node
    <3>1. SUFFICES ASSUME NEW S \in SUBSET (Node \ {Up(m)}), p \in S, UpClosed(S)
                   PROVE  FALSE
      BY <2>3 DEF Ancestors, IsInclusiveAncestor
    <3>2. m \notin S
      BY <3>1, <2>3, KindAssumption DEF UpClosed
    <3>3. S \in SUBSET (Node \ {m})
      BY <3>2
    <3> QED
      BY <3>1, <3>3 DEF Ancestors, IsInclusiveAncestor
  <2> QED
    BY <2>2, <2>3
<1> QED
  BY <1>1, <1>2 DEF UpClosed

(* A node that a guarded call brings in is no inclusive ancestor of p.      *)
LEMMA MovedNotAncestor ==
  ASSUME TreeInv, NEW p, NEW ns, GoodArgs(p, ns), NEW m \in Moved(ns)
  PROVE  m \in Node /\ m \notin Ancestors(p)
<1>1. PICK i \in DOMAIN ns : m \in Items(ns[i])
  BY DEF Moved
<1>2. ns[i] \in Node /\ ns[i] \notin Ancestors(p)
  BY <1>1 DEF GoodArgs
<1>3. p \in Node
  BY KindAssumption DEF GoodArgs, Container
<1>4. CASE ns[i] \notin Fragment
  BY <1>1, <1>2, <1>4 DEF Items
<1>5. CASE ns[i] \in Fragment
  <2>1. m \in Node /\ parent[m] = ns[i]
    BY <1>1, <1>5 DEF Items, Kids
  <2>2. Up(m) = ns[i] /\ ns[i] # None
    BY <2>1, <1>2, KindAssumption DEF Up
  <2>3. UpClosed(Ancestors(p))
    BY <1>3, AncestorsClosed DEF TreeInv
  <2> QED
    BY <2>1, <2>2, <2>3, <1>2 DEF UpClosed
<1> QED
  BY <1>4, <1>5

(* A moved node is an argument or a child of one that is a fragment.        *)
LEMMA MovedKind ==
  ASSUME TreeInv, NEW p, NEW ns, GoodArgs(p, ns), NEW m \in Moved(ns)
  PROVE  m \in Node /\ m \notin Fragment /\ m # Document /\ hostOf[m] = None
<1>1. PICK i \in DOMAIN ns : m \in Items(ns[i])
  BY DEF Moved
<1>2. ns[i] \in Node
  BY <1>1 DEF GoodArgs
<1>3. CASE ns[i] \notin Fragment
  BY <1>1, <1>2, <1>3 DEF Items, GoodArgs
<1>4. CASE ns[i] \in Fragment
  <2>1. m \in Node /\ parent[m] # None
    BY <1>1, <1>2, <1>4, KindAssumption DEF Items, Kids
  <2> QED
    BY <2>1 DEF TreeInv, TopsStayTops, Links
<1> QED
  BY <1>3, <1>4

LEMMA SpliceKeepsAcyclic ==
  ASSUME TreeInv, NEW p, NEW ns, NEW ref, NEW gone, GoodArgs(p, ns),
         gone \in SUBSET Kids(p), Splice(p, ns, ref, gone), hostOf' = hostOf
  PROVE  Acyclic'
<1> DEFINE A == Ancestors(p)
<1>1. p \in Node /\ p # None
  BY KindAssumption DEF GoodArgs, Container
<1>2. p \in A /\ UpClosed(A)
  BY <1>1, AncestorsClosed DEF TreeInv
<1>3. SUFFICES ASSUME NEW S \in SUBSET Node, S # {}, \A n \in S : Up(n)' \in S
               PROVE  FALSE
  BY DEF Acyclic
<1>4. \A n \in Node : parent'[n] = IF n \in Moved(ns) THEN p
                                   ELSE IF n \in gone THEN None ELSE parent[n]
  BY DEF Splice, Spliced
<1>5. \A n \in S : n \notin Moved(ns) => n \notin gone /\ Up(n) \in S
  <2>1. SUFFICES ASSUME NEW n \in S, n \notin Moved(ns)
                 PROVE  n \notin gone /\ Up(n) \in S
    OBVIOUS
  <2>2. n \notin gone
    <3>1. SUFFICES ASSUME n \in gone PROVE FALSE
      OBVIOUS
    <3>2. parent[n] # None
      BY <1>1, <3>1 DEF Kids
    <3>3. hostOf[n] = None
      BY <3>2, <1>3 DEF TreeInv, Links, TopsStayTops
    <3>4. Up(n)' = None
      BY <1>4, <2>1, <3>1, <3>3 DEF Up
    <3> QED
      BY <3>4, <1>3, KindAssumption
  <2>3. Up(n)' = Up(n)
    BY <1>4, <2>1, <2>2 DEF Up
  <2> QED
    BY <2>2, <2>3, <1>3
<1>6. CASE \E m \in S : m \in Moved(ns)
  <2>1. PICK m \in S : m \in Moved(ns)
    BY <1>6
  <2>2. Up(m)' = p
    BY <1>1, <1>4, <2>1 DEF Up
  <2>3. p \in S \cap A
    BY <2>1, <2>2, <1>2, <1>3
  <2>4. ASSUME NEW n \in S \cap A PROVE Up(n) \in S \cap A
    <3>1. n \notin Moved(ns)
      BY <2>4, MovedNotAncestor
    <3>2. Up(n) \in S
      BY <3>1, <1>5
    <3> QED
      BY <3>2, <1>2, KindAssumption DEF UpClosed
  <2> QED
    BY <2>3, <2>4, S \cap A \in SUBSET Node DEF TreeInv, Acyclic
<1>7. CASE ~ \E m \in S : m \in Moved(ns)
  BY <1>3, <1>5, <1>7 DEF TreeInv, Acyclic
<1> QED
  BY <1>6, <1>7


-----------------------------------------------------------------------------
(* The slot of a moved node is the place of an argument: of itself, or of   *)
(* the fragment it is a child of.                                           *)
LEMMA SlotSpec ==
  ASSUME TreeInv, NEW p, NEW ns, GoodArgs(p, ns), NEW a \in Moved(ns)
  PROVE  /\ Slot(ns, a) \in DOMAIN ns /\ Slot(ns, a) \in Int
         /\ \/ ns[Slot(ns, a)] = a
            \/ ns[Slot(ns, a)] = parent[a] /\ parent[a] \in Fragment
<1>1. PICK i \in DOMAIN ns : a \in Items(ns[i])
  BY DEF Moved
<1>2. \E j \in DOMAIN ns : ns[j] = (IF a \in Args(ns) THEN a ELSE parent[a])
  BY <1>1 DEF Items, Kids, Args
<1>3. /\ Slot(ns, a) \in DOMAIN ns
      /\ ns[Slot(ns, a)] = (IF a \in Args(ns) THEN a ELSE parent[a])
  BY <1>2 DEF Slot
<1>4. a \notin Args(ns) => parent[a] \in Fragment
  BY <1>1 DEF Items, Kids, Args
<1>5. DOMAIN ns \in SUBSET Int
  BY DEF GoodArgs
<1> QED
  BY <1>3, <1>4, <1>5

(* Nodes that share a slot are children of one fragment.                    *)
LEMMA SameSlot ==
  ASSUME TreeInv, NEW p, NEW ns, GoodArgs(p, ns),
         NEW a \in Moved(ns), NEW b \in Moved(ns),
         a # b, Slot(ns, a) = Slot(ns, b)
  PROVE  parent[a] = parent[b] /\ parent[a] \in Fragment
<1>1. a \notin Fragment /\ b \notin Fragment
  BY MovedKind
<1> QED
  BY <1>1, SlotSpec

(* The moved nodes are in one line, that of the arguments.                  *)
LEMMA ArgBeforeIsStrictOrder ==
  ASSUME TreeInv, NEW p, NEW ns, GoodArgs(p, ns)
  PROVE  /\ \A a, b \in Moved(ns) :
              a # b => ArgBefore(ns, a, b) \/ ArgBefore(ns, b, a)
         /\ \A a, b \in Moved(ns) : ~(ArgBefore(ns, a, b) /\ ArgBefore(ns, b, a))
         /\ \A a, b, c \in Moved(ns) :
              ArgBefore(ns, a, b) /\ ArgBefore(ns, b, c) => ArgBefore(ns, a, c)
<1>1. \A a \in Moved(ns) : a \in Node /\ Slot(ns, a) \in Int
  BY SlotSpec, MovedKind
<1>2. SiblingOrder
  BY DEF TreeInv
<1>3. ASSUME NEW a \in Moved(ns), NEW b \in Moved(ns), a # b
      PROVE  ArgBefore(ns, a, b) \/ ArgBefore(ns, b, a)
  <2>1. CASE Slot(ns, a) = Slot(ns, b)
    <3>1. parent[a] = parent[b] /\ parent[a] # None
      BY <1>3, <2>1, SameSlot, KindAssumption
    <3>2. <<a, b>> \in order \/ <<b, a>> \in order
      BY <3>1, <1>1, <1>2, <1>3 DEF SiblingOrder, IsSiblingOrder, OrderTotal
    <3> QED
      BY <2>1, <3>2 DEF ArgBefore
  <2>2. CASE Slot(ns, a) # Slot(ns, b)
    BY <1>1, <2>2 DEF ArgBefore
  <2> QED
    BY <2>1, <2>2
<1>4. ASSUME NEW a \in Moved(ns), NEW b \in Moved(ns)
      PROVE  ~(ArgBefore(ns, a, b) /\ ArgBefore(ns, b, a))
  BY <1>1, <1>2 DEF ArgBefore, SiblingOrder, IsSiblingOrder, OrderAsymmetric
<1>5. ASSUME NEW a \in Moved(ns), NEW b \in Moved(ns), NEW c \in Moved(ns),
             ArgBefore(ns, a, b), ArgBefore(ns, b, c)
      PROVE  ArgBefore(ns, a, c)
  BY <1>1, <1>2, <1>5 DEF ArgBefore, SiblingOrder, IsSiblingOrder, OrderTransitive
<1> QED
  BY <1>3, <1>4, <1>5

(* Two nodes outside the Splice that precede one another are on one side of *)
(* the reference or on the expected sides of it.                            *)
LEMMA SpliceKeepsOrder ==
  ASSUME TreeInv, NEW p, NEW ns, NEW ref, NEW gone, GoodArgs(p, ns),
         gone \in SUBSET Kids(p), Splice(p, ns, ref, gone)
  PROVE  SiblingOrder'
<1> DEFINE M == Moved(ns)
           out == M \cup gone
           stay == Kids(p) \ out
           later == IF ref \in stay
                    THEN {s \in stay : s = ref \/ <<ref, s>> \in order} ELSE {}
<1>1. p \in Node /\ p # None
  BY KindAssumption DEF GoodArgs, Container
<1>2. M \in SUBSET Node
  BY MovedKind
<1>3. stay \in SUBSET Node /\ later \in SUBSET stay
  BY DEF Kids
<1>4. \A n \in Node : parent'[n] = IF n \in M THEN p
                                   ELSE IF n \in gone THEN None ELSE parent[n]
  BY DEF Splice, Spliced
<1>5. \A a, b : <<a, b>> \in order' <=>
        \/ <<a, b>> \in order /\ a \notin out /\ b \notin out
        \/ a \in M /\ b \in M /\ a # b /\ ArgBefore(ns, a, b)
        \/ a \in stay /\ a \notin later /\ b \in M
        \/ a \in M /\ b \in later
  BY DEF Splice, Spliced
<1>6. \A a, b \in Node : <<a, b>> \in order => parent[a] = parent[b] /\ parent[a] # None
  BY DEF TreeInv, SiblingOrder, IsSiblingOrder, OrderRelatesSiblings
<1>7. \A a, b \in Node : a # b /\ parent[a] = parent[b] /\ parent[a] # None
                         => <<a, b>> \in order \/ <<b, a>> \in order
  BY DEF TreeInv, SiblingOrder, IsSiblingOrder, OrderTotal
<1>8. \A a, b \in Node : ~(<<a, b>> \in order /\ <<b, a>> \in order)
  BY DEF TreeInv, SiblingOrder, IsSiblingOrder, OrderAsymmetric
<1>9. \A a, b, c \in Node : <<a, b>> \in order /\ <<b, c>> \in order
                            => <<a, c>> \in order
  BY DEF TreeInv, SiblingOrder, IsSiblingOrder, OrderTransitive
<1>10. \A s \in stay : parent[s] = p /\ s \notin M /\ s \notin gone
  BY DEF Kids
(* `later` is closed under the old order among the nodes that stay.         *)
<1>11. \A a, b \in Node : /\ a \in later /\ b \notin out /\ <<a, b>> \in order
                          => b \in later
  BY <1>1, <1>3, <1>6, <1>9, <1>10 DEF Kids
<1>12. \A a, b \in Node : a \in later /\ b \in stay /\ b \notin later
                          => <<b, a>> \in order
  BY <1>1, <1>3, <1>7, <1>10, <1>11
<1>13. OrderRelatesSiblings(parent, order)'
  BY <1>1, <1>2, <1>3, <1>4, <1>5, <1>6, <1>10 DEF OrderRelatesSiblings
<1>14. OrderTotal(parent, order)'
  <2>1. SUFFICES ASSUME NEW a \in Node, NEW b \in Node, a # b,
                        parent'[a] = parent'[b], parent'[a] # None
                 PROVE  <<a, b>> \in order' \/ <<b, a>> \in order'
    BY DEF OrderTotal
  <2>2. CASE a \in M /\ b \in M
    BY <2>1, <2>2, <1>5, ArgBeforeIsStrictOrder
  <2>3. CASE a \in M /\ b \notin M
    BY <2>1, <2>3, <1>1, <1>4, <1>5 DEF Kids
  <2>4. CASE a \notin M /\ b \in M
    BY <2>1, <2>4, <1>1, <1>4, <1>5 DEF Kids
  <2>5. CASE a \notin M /\ b \notin M
    BY <2>1, <2>5, <1>4, <1>5, <1>7
  <2> QED
    BY <2>2, <2>3, <2>4, <2>5
<1>15. OrderAsymmetric(order)'
  <2>1. SUFFICES ASSUME NEW a \in Node, NEW b \in Node,
                        <<a, b>> \in order', <<b, a>> \in order'
                 PROVE  FALSE
    BY DEF OrderAsymmetric
  <2>2. CASE a \in M /\ b \in M
    BY <2>1, <2>2, <1>3, <1>5, <1>10, ArgBeforeIsStrictOrder
  <2>3. CASE ~(a \in M /\ b \in M)
    BY <2>1, <2>3, <1>3, <1>5, <1>8, <1>10
  <2> QED
    BY <2>2, <2>3
<1>16. OrderTransitive(order)'
  <2>1. SUFFICES ASSUME NEW a \in Node, NEW b \in Node, NEW c \in Node,
                        <<a, b>> \in order', <<b, c>> \in order'
                 PROVE  <<a, c>> \in order'
    BY DEF OrderTransitive
  <2>2. CASE a \in M /\ b \in M /\ c \in M
    <3>1. ArgBefore(ns, a, b) /\ ArgBefore(ns, b, c)
      BY <2>1, <2>2, <1>3, <1>5, <1>10
    <3>2. ArgBefore(ns, a, c) /\ a # c
      BY <2>2, <3>1, ArgBeforeIsStrictOrder
    <3> QED
      BY <2>2, <3>2, <1>5
  <2>3. CASE a \notin M /\ b \notin M /\ c \notin M
    BY <2>1, <2>3, <1>5, <1>9
  <2>4. CASE a \in M /\ b \in M /\ c \notin M
    BY <2>1, <2>4, <1>3, <1>5, <1>10
  <2>5. CASE a \in M /\ b \notin M /\ c \notin M
    BY <2>1, <2>5, <1>3, <1>5, <1>10, <1>11
  <2>6. CASE a \in M /\ b \notin M /\ c \in M
    BY <2>1, <2>6, <1>3, <1>5, <1>10
  <2>7. CASE a \notin M /\ b \in M /\ c \in M
    BY <2>1, <2>7, <1>3, <1>5, <1>10
  <2>8. CASE a \notin M /\ b \in M /\ c \notin M
    <3>1. a \in stay /\ a \notin later /\ c \in later
      BY <2>1, <2>8, <1>3, <1>5, <1>10
    <3> QED
      BY <3>1, <1>3, <1>5, <1>10, <1>12
  <2>9. CASE a \notin M /\ b \notin M /\ c \in M
    <3>1. <<a, b>> \in order /\ a \notin out /\ b \in stay /\ b \notin later
      BY <2>1, <2>9, <1>3, <1>5, <1>10
    <3>2. a \in stay
      BY <3>1, <1>6, <1>10 DEF Kids
    <3>3. a \notin later
      BY <3>1, <1>11
    <3> QED
      BY <2>9, <3>2, <3>3, <1>5
  <2> QED
    BY <2>2, <2>3, <2>4, <2>5, <2>6, <2>7, <2>8, <2>9
<1> QED
  BY <1>13, <1>14, <1>15, <1>16 DEF SiblingOrder, IsSiblingOrder

(* The nodes a Splice touches are handed out, and no fragment gets a parent. *)
LEMMA SpliceKeepsTypes ==
  ASSUME TreeInv, NEW p, NEW ns, NEW ref, NEW gone, GoodArgs(p, ns),
         gone \in SUBSET Kids(p), Splice(p, ns, ref, gone),
         created' \in SUBSET Node, created \subseteq created',
         Args(ns) \subseteq created', hostOf' = hostOf, rootOf' = rootOf
  PROVE  TypeOK' /\ TopsStayTops' /\ Links'
<1>1. p \in Container /\ p \in Node /\ p \in created'
  BY KindAssumption DEF GoodArgs, Container
<1>2. \A m \in Moved(ns) : m \in Node /\ m \notin Fragment /\ m # Document
  BY MovedKind
<1>3. \A n \in Node : parent'[n] = IF n \in Moved(ns) THEN p
                                   ELSE IF n \in gone THEN None ELSE parent[n]
  BY DEF Splice, Spliced
<1>4. \A m \in Moved(ns) : m \in created'
  <2>1. SUFFICES ASSUME NEW m \in Moved(ns) PROVE m \in created'
    OBVIOUS
  <2>2. PICK i \in DOMAIN ns : m \in Items(ns[i])
    BY DEF Moved
  <2>3. ns[i] \in Node /\ ns[i] \in Args(ns)
    BY DEF GoodArgs, Args
  <2>4. CASE ns[i] \notin Fragment
    BY <2>2, <2>3, <2>4 DEF Items
  <2>5. CASE ns[i] \in Fragment
    <3>1. m \in Node /\ parent[m] # None
      BY <2>2, <2>3, <2>5, KindAssumption DEF Items, Kids
    <3> QED
      BY <3>1 DEF TreeInv, Links
  <2> QED
    BY <2>4, <2>5
<1>5. TypeOK'
  <2>1. parent' \in [Node -> Container \cup {None}]
    BY <1>1 DEF Splice, Spliced, TreeInv, TypeOK
  <2>2. order' \in SUBSET (Node \X Node)
    BY <1>2 DEF Splice, Spliced, TreeInv, TypeOK, Kids
  <2> QED
    BY <2>1, <2>2 DEF TypeOK, TreeInv
<1>6. TopsStayTops'
  BY <1>2, <1>3, KindAssumption DEF TreeInv, TopsStayTops
<1>7. Links'
  BY <1>1, <1>3, <1>4 DEF TreeInv, Links
<1> QED
  BY <1>5, <1>6, <1>7

(* Every Splice of a handler keeps the whole invariant.                     *)
LEMMA SpliceKeepsTreeInv ==
  ASSUME TreeInv, NEW p, NEW ns, NEW ref, NEW gone, GoodArgs(p, ns),
         gone \in SUBSET Kids(p), Splice(p, ns, ref, gone),
         created' \in SUBSET Node, created \subseteq created',
         Args(ns) \subseteq created', hostOf' = hostOf, rootOf' = rootOf
  PROVE  TreeInv'
BY SpliceKeepsAcyclic, SpliceKeepsOrder, SpliceKeepsTypes DEF TreeInv

(* Arguments the bindings let through, entering where no cycle arises.      *)
LEMMA InsertableArgs ==
  ASSUME TreeInv, NEW p \in Container \cap created,
         NEW ns \in ArgLists(Insertable), Entering(p, ns)
  PROVE  GoodArgs(p, ns) /\ Args(ns) \subseteq created
<1>1. PICK k \in 0..MaxArgs : /\ ns \in [1..k -> Insertable]
                             /\ \A i, j \in 1..k : i # j => ns[i] # ns[j]
  BY DEF ArgLists
<1>2. Insertable \subseteq Node /\ Insertable \subseteq created
  BY DEF Insertable, TreeInv, TypeOK
<1>3. \A i \in DOMAIN ns : ns[i] # Document /\ hostOf[ns[i]] = None
  BY <1>1 DEF Insertable
<1>4. \A i \in DOMAIN ns : ns[i] \notin Ancestors(p)
  BY DEF Entering, Ancestors
<1>5. k \in Nat
  BY <1>1, KindAssumption
<1>6. ns \in [1..k -> Node]
  BY <1>1, <1>2
<1>7. GoodArgs(p, ns)
  BY <1>1, <1>3, <1>4, <1>5, <1>6 DEF GoodArgs
<1> QED
  BY <1>1, <1>2, <1>7 DEF Args

(* One insertable node is an argument list.                                 *)
LEMMA SingleArg ==
  ASSUME TreeInv, NEW p \in Container \cap created, NEW c \in Insertable,
         Entering(p, <<c>>)
  PROVE  GoodArgs(p, <<c>>) /\ Args(<<c>>) \subseteq created
<1>1. c \in Node /\ c \in created
  BY DEF Insertable, TreeInv, TypeOK
<1>2. <<c>> \in [1..1 -> Node] /\ DOMAIN <<c>> = 1..1
  BY <1>1
<1>3. \A i \in 1..1 : <<c>>[i] = c
  OBVIOUS
<1>4. c \notin Ancestors(p)
  BY <1>2, <1>3 DEF Entering, Ancestors
<1>5. \E k \in Nat : <<c>> \in [1..k -> Node]
  BY <1>2
<1>6. GoodArgs(p, <<c>>)
  BY <1>1, <1>2, <1>3, <1>4, <1>5 DEF GoodArgs, Insertable
<1> QED
  BY <1>1, <1>2, <1>3, <1>6 DEF Args

(* Nodes not handed out yet are nobody's ancestors.                         *)
LEMMA FreshArgs ==
  ASSUME TreeInv, NEW p \in Container \cap created, NEW ns \in ArgLists(Fresh)
  PROVE  GoodArgs(p, ns) /\ Args(ns) \in SUBSET Node
<1>1. PICK k \in 0..MaxArgs : /\ ns \in [1..k -> Fresh]
                             /\ \A i, j \in 1..k : i # j => ns[i] # ns[j]
  BY DEF ArgLists
<1>2. k \in Nat /\ ns \in [1..k -> Node]
  BY <1>1, KindAssumption DEF Fresh
<1>3. UpClosed(created)
  BY KindAssumption DEF TreeInv, Links, TypeOK, UpClosed, Up
<1>4. \A i \in DOMAIN ns : /\ ns[i] \in Node \ created
                           /\ ns[i] \in Element \cup Text
  BY <1>1, <1>2 DEF Fresh
<1>5. \A i \in DOMAIN ns : ns[i] \notin Ancestors(p)
  <2>1. SUFFICES ASSUME NEW i \in DOMAIN ns, ns[i] \in Ancestors(p) PROVE FALSE
    OBVIOUS
  <2>2. created \in SUBSET (Node \ {ns[i]})
    BY <1>4 DEF TreeInv, TypeOK
  <2> QED
    BY <2>1, <2>2, <1>3 DEF Ancestors, IsInclusiveAncestor
<1>6. \A i \in DOMAIN ns : ns[i] # Document /\ hostOf[ns[i]] = None
  BY <1>4, KindAssumption DEF TreeInv, Links
<1>7. GoodArgs(p, ns)
  BY <1>1, <1>2, <1>5, <1>6 DEF GoodArgs
<1> QED
  BY <1>4, <1>7 DEF Args

(* A new shadow root is nobody's parent, so linking it makes no cycle.      *)
LEMMA AttachShadowKeepsTreeInv ==
  ASSUME TreeInv, NEW host \in Element \cap created, NEW root \in Fragment,
         AttachShadow(host, root)
  PROVE  TreeInv'
<1>1. /\ root \in Node /\ host \in Node /\ root # None /\ host # None /\ root # host
      /\ parent' = parent /\ order' = order
      /\ created' = created \cup {root}
      /\ root \notin created
  BY KindAssumption DEF AttachShadow
<1>2. /\ \A n \in Node : hostOf'[n] = IF n = root THEN host ELSE hostOf[n]
      /\ \A n \in Node : rootOf'[n] = IF n = host THEN root ELSE rootOf[n]
      /\ hostOf' \in [Node -> Element \cup {None}]
      /\ rootOf' \in [Node -> Fragment \cup {None}]
  BY DEF AttachShadow, TreeInv, TypeOK
<1>3. TypeOK'
  BY <1>1, <1>2 DEF TreeInv, TypeOK
<1>4. SiblingOrder' /\ TopsStayTops'
  BY <1>1 DEF TreeInv, SiblingOrder, TopsStayTops
<1>5. Links'
  <2>1. \A n \in Node : rootOf[n] # None => rootOf[n] \in created
    BY KindAssumption DEF TreeInv, Links, TypeOK
  <2>2. \A h \in Node : rootOf'[h] # None => hostOf'[rootOf'[h]] = h
    BY <1>1, <1>2, <2>1, KindAssumption DEF TreeInv, Links, TypeOK
  <2> QED
    BY <1>1, <1>2, <2>2 DEF TreeInv, Links
<1>6. Acyclic'
  <2>1. SUFFICES ASSUME NEW S \in SUBSET Node, S # {}, \A n \in S : Up(n)' \in S
                 PROVE  FALSE
    BY DEF Acyclic
  <2>2. \A n \in Node : n # root => Up(n)' = Up(n)
    BY <1>1, <1>2 DEF Up
  <2>3. \A n \in Node : Up(n) # root
    BY <1>1 DEF TreeInv, Links, Up
  <2>4. \A n \in S \ {root} : Up(n) \in S \ {root}
    BY <2>1, <2>2, <2>3
  <2>5. S \ {root} # {}
    <3>1. parent[root] = None
      BY <1>1 DEF TreeInv, Links
    <3>2. Up(root)' = host
      BY <1>1, <1>2, <3>1 DEF Up
    <3> QED
      BY <2>1, <3>2, <1>1
  <2> QED
    BY <2>4, <2>5, S \ {root} \in SUBSET Node DEF TreeInv, Acyclic
<1> QED
  BY <1>3, <1>4, <1>5, <1>6 DEF TreeInv

-----------------------------------------------------------------------------
LEMMA InitTreeInv == Init => TreeInv
<1>1. SUFFICES ASSUME Init PROVE TreeInv
  OBVIOUS
<1>2. TypeOK
  BY <1>1, ParsedAssumption, KindAssumption DEF Init, TypeOK, Container
<1>3. Acyclic
  BY <1>1, ParsedAssumption DEF Init, Acyclic, Up
<1>4. SiblingOrder /\ TopsStayTops /\ Links
  BY <1>1, ParsedAssumption DEF Init, SiblingOrder, TopsStayTops, Links
<1> QED
  BY <1>2, <1>3, <1>4 DEF TreeInv

LEMMA NextKeepsTreeInv == TreeInv /\ [Next]_vars => TreeInv'
<1>1. SUFFICES ASSUME TreeInv, [Next]_vars PROVE TreeInv'
  OBVIOUS
<1>2. created \in SUBSET Node
  BY <1>1 DEF TreeInv, TypeOK
<1>3. ASSUME NEW n \in Node, CreateNode(n) PROVE TreeInv'
  BY <1>1, <1>3 DEF CreateNode, TreeInv, TypeOK, Acyclic, Up, SiblingOrder,
                    TopsStayTops, Links
<1>4. ASSUME NEW p \in Container \cap created, NEW c \in Insertable,
             AppendChild(p, c)
      PROVE  TreeInv'
  <2>1. GoodArgs(p, <<c>>) /\ Args(<<c>>) \subseteq created
    BY <1>1, <1>4, SingleArg DEF AppendChild
  <2> QED
    BY <1>1, <1>2, <1>4, <2>1, SpliceKeepsTreeInv DEF AppendChild
<1>5. ASSUME NEW p \in Container \cap created, NEW c \in Insertable,
             NEW r \in created \cup {None}, InsertBefore(p, c, r)
      PROVE  TreeInv'
  <2>1. GoodArgs(p, <<c>>) /\ Args(<<c>>) \subseteq created
    BY <1>1, <1>5, SingleArg DEF InsertBefore
  <2> QED
    BY <1>1, <1>2, <1>5, <2>1, SpliceKeepsTreeInv DEF InsertBefore
<1>6. ASSUME NEW p \in Container \cap created, NEW c \in created, RemoveChild(p, c)
      PROVE  TreeInv'
  <2>1. <<>> \in [1..0 -> Node] /\ DOMAIN <<>> = {}
    OBVIOUS
  <2>2. GoodArgs(p, <<>>) /\ Args(<<>>) = {}
    BY <2>1 DEF GoodArgs, Args
  <2>3. {c} \in SUBSET Kids(p)
    BY <1>2, <1>6 DEF RemoveChild, Kids
  <2> QED
    BY <1>1, <1>2, <1>6, <2>2, <2>3, SpliceKeepsTreeInv DEF RemoveChild
<1>7. ASSUME NEW h \in created, parent[h] # None
      PROVE  parent[h] \in Container \cap created /\ h \in Kids(parent[h])
  BY <1>1, <1>2, <1>7 DEF TreeInv, TypeOK, Links, Kids
<1>8. ASSUME NEW h \in created, NEW ns \in ArgLists(Insertable),
             Before(h, ns) \/ After(h, ns) \/ ReplaceWith(h, ns)
      PROVE  TreeInv'
  <2>1. parent[h] # None /\ Entering(parent[h], ns)
    BY <1>8 DEF Before, After, ReplaceWith
  <2>2. parent[h] \in Container \cap created /\ h \in Kids(parent[h])
    BY <1>7, <2>1
  <2>3. GoodArgs(parent[h], ns) /\ Args(ns) \subseteq created
    BY <1>1, <2>1, <2>2, InsertableArgs
  <2>4. CASE Before(h, ns)
    BY <1>1, <1>2, <2>3, <2>4, SpliceKeepsTreeInv DEF Before
  <2>5. CASE After(h, ns)
    BY <1>1, <1>2, <2>3, <2>5, SpliceKeepsTreeInv DEF After
  <2>6. CASE ReplaceWith(h, ns)
    BY <1>1, <1>2, <2>2, <2>3, <2>6, {h} \in SUBSET Kids(parent[h]),
       SpliceKeepsTreeInv DEF ReplaceWith
  <2> QED
    BY <1>8, <2>4, <2>5, <2>6
<1>9. ASSUME NEW h \in Container \cap created, NEW ns \in ArgLists(Insertable),
             ReplaceChildren(h, ns)
      PROVE  TreeInv'
  <2>1. GoodArgs(h, ns) /\ Args(ns) \subseteq created
    BY <1>1, <1>9, InsertableArgs DEF ReplaceChildren
  <2> QED
    BY <1>1, <1>2, <1>9, <2>1, SpliceKeepsTreeInv DEF ReplaceChildren
<1>10. ASSUME NEW h \in (Element \cup Fragment) \cap created,
              NEW new \in ArgLists(Fresh), ReplaceAll(h, new)
       PROVE  TreeInv'
  <2>1. GoodArgs(h, new) /\ Args(new) \in SUBSET Node
    BY <1>1, <1>10, FreshArgs DEF Container
  <2> QED
    BY <1>1, <1>2, <1>10, <2>1, SpliceKeepsTreeInv DEF ReplaceAll
<1>11. ASSUME NEW p \in Container \cap created,
              NEW new \in ArgLists(Fresh), NEW r \in created \cup {None},
              InsertParsed(p, new, r)
       PROVE  TreeInv'
  <2>1. GoodArgs(p, new) /\ Args(new) \in SUBSET Node
    BY <1>1, <1>11, FreshArgs DEF Container
  <2> QED
    BY <1>1, <1>2, <1>11, <2>1, SpliceKeepsTreeInv DEF InsertParsed
<1>12. ASSUME NEW host \in Element \cap created, NEW root \in Fragment,
              AttachShadow(host, root)
       PROVE  TreeInv'
  BY <1>1, <1>12, AttachShadowKeepsTreeInv
<1>13. CASE UNCHANGED vars
  BY <1>1, <1>13 DEF vars, TreeInv, TypeOK, Acyclic, Up, SiblingOrder,
                     TopsStayTops, Links
<1> QED
  BY <1>1, <1>3, <1>4, <1>5, <1>6, <1>8, <1>9, <1>10, <1>11, <1>12, <1>13 DEF Next

(* Every reachable tree is a well-formed forest: the inductive invariant.   *)
THEOREM TreeInvariant == Spec => []TreeInv
BY InitTreeInv, NextKeepsTreeInv, PTL DEF Spec

(* No sequence of calls ever makes a node its own ancestor, through shadow  *)
(* hosts included, so the ancestor loops of tree.rs end.                    *)
THEOREM NoCycles == Spec => []Acyclic
<1>1. TreeInv => Acyclic
  BY DEF TreeInv
<1> QED
  BY <1>1, TreeInvariant, PTL

(* Every child list stays one strict order of exactly its parent's children. *)
THEOREM ChildListsAreOrders == Spec => []SiblingOrder
<1>1. TreeInv => SiblingOrder
  BY DEF TreeInv
<1> QED
  BY <1>1, TreeInvariant, PTL

(* Every variable keeps its type: the parents of nodes are containers, the   *)
(* hosts elements, the roots fragments.                                     *)
THEOREM TypesHold == Spec => []TypeOK
<1>1. TreeInv => TypeOK
  BY DEF TreeInv
<1> QED
  BY <1>1, TreeInvariant, PTL

(* The document, fragments and shadow roots are never children: what a      *)
(* fragment contributes to an insertion is its children.                    *)
THEOREM FragmentsStayTops == Spec => []TopsStayTops
<1>1. TreeInv => TopsStayTops
  BY DEF TreeInv
<1> QED
  BY <1>1, TreeInvariant, PTL

(* A host and its latest shadow root name each other, and links join only   *)
(* handles that were handed out.                                            *)
THEOREM ShadowLinksAgree == Spec => []Links
<1>1. TreeInv => Links
  BY DEF TreeInv
<1> QED
  BY <1>1, TreeInvariant, PTL

-----------------------------------------------------------------------------
(* The collector.                                                           *)


DownClosed(T) == \A t \in T : Down(t) \subseteq T

\* With one root per host, host and root name each other both ways.
HostsAgree ==
  OneRoot => \A n \in Node : hostOf[n] # None => rootOf[hostOf[n]] = n

(* A stored link has stored ends.                                           *)
LinkEnds ==
  \A n \in Node :
    /\ parent[n] # None => {n, parent[n]} \subseteq live
    /\ hostOf[n] # None => {n, hostOf[n]} \subseteq live
    /\ rootOf[n] # None => {n, rootOf[n]} \subseteq live

StorageInv ==
  /\ TreeInv
  /\ live \in SUBSET created
  /\ held \in SUBSET Node /\ logged \in SUBSET Node
  /\ PinsAreLive
  /\ LinkEnds
  /\ HostsAgree

-----------------------------------------------------------------------------
(* Links lead to nodes.                                                     *)
LEMMA LinkTypes ==
  ASSUME TypeOK, NEW n \in Node
  PROVE  /\ Up(n) \in Node \cup {None}
         /\ Down(n) \subseteq Node
         /\ None \notin Node
BY KindAssumption DEF TypeOK, Up, Down, Kids, Container

(* Climbed(S) is the least set that holds S and is closed upwards.          *)
LEMMA ClimbedLeast ==
  ASSUME TypeOK, NEW S \in SUBSET Node
  PROVE  /\ Climbed(S) \in SUBSET Node
         /\ S \subseteq Climbed(S)
         /\ UpClosed(Climbed(S))
         /\ \A T \in SUBSET Node : S \subseteq T /\ UpClosed(T) => Climbed(S) \subseteq T
<1>1. Climbed(S) \in SUBSET Node /\ S \subseteq Climbed(S)
  BY DEF Climbed
<1>2. \A T \in SUBSET Node : S \subseteq T /\ UpClosed(T) => Climbed(S) \subseteq T
  BY DEF Climbed
<1>3. UpClosed(Climbed(S))
  <2>1. SUFFICES ASSUME NEW m \in Climbed(S), Up(m) # None
                 PROVE  Up(m) \in Climbed(S)
    BY DEF UpClosed
  <2>2. Up(m) \in Node
    BY <1>1, <2>1, LinkTypes
  <2>3. ASSUME NEW T \in SUBSET Node, S \subseteq T, UpClosed(T)
        PROVE  Up(m) \in T
    BY <1>2, <2>1, <2>3 DEF UpClosed
  <2> QED
    BY <2>2, <2>3 DEF Climbed
<1> QED
  BY <1>1, <1>2, <1>3

(* Worklist(S) is the least set that holds S and is closed downwards.       *)
LEMMA WorklistLeast ==
  ASSUME TypeOK, NEW S \in SUBSET Node
  PROVE  /\ Worklist(S) \in SUBSET Node
         /\ S \subseteq Worklist(S)
         /\ DownClosed(Worklist(S))
         /\ \A T \in SUBSET Node : S \subseteq T /\ DownClosed(T) => Worklist(S) \subseteq T
<1>1. Worklist(S) \in SUBSET Node /\ S \subseteq Worklist(S)
  BY DEF Worklist
<1>2. \A T \in SUBSET Node : S \subseteq T /\ DownClosed(T) => Worklist(S) \subseteq T
  BY DEF Worklist, DownClosed
<1>3. DownClosed(Worklist(S))
  <2>1. SUFFICES ASSUME NEW m \in Worklist(S), NEW d \in Down(m)
                 PROVE  d \in Worklist(S)
    BY DEF DownClosed
  <2>2. d \in Node
    BY <1>1, <2>1, LinkTypes
  <2>3. ASSUME NEW T \in SUBSET Node, S \subseteq T, DownClosed(T)
        PROVE  d \in T
    BY <1>2, <2>1, <2>3 DEF DownClosed
  <2> QED
    BY <2>2, <2>3 DEF Worklist, DownClosed
<1> QED
  BY <1>1, <1>2, <1>3

(* What links lead to from stored nodes is stored.                          *)
LEMMA ReachStaysLive ==
  ASSUME StorageInv, NEW S \in SUBSET live
  PROVE  /\ Climbed(S) \subseteq live
         /\ Tops(S) \subseteq live
         /\ Worklist(Tops(S)) \subseteq live
<1>1. TypeOK /\ live \in SUBSET Node /\ S \in SUBSET Node
  BY DEF StorageInv, TreeInv, TypeOK
<1>2. UpClosed(live) /\ DownClosed(live)
  BY <1>1, KindAssumption DEF StorageInv, LinkEnds, UpClosed, DownClosed, Up, Down, Kids
<1>3. Climbed(S) \subseteq live
  BY <1>1, <1>2, ClimbedLeast
<1>4. Tops(S) \subseteq live /\ Tops(S) \in SUBSET Node
  BY <1>1, <1>3 DEF Tops
<1>5. Worklist(Tops(S)) \subseteq live
  BY <1>1, <1>2, <1>4, WorklistLeast
<1> QED
  BY <1>3, <1>4, <1>5

(* A node below another has that node above it.                             *)
LEMMA DownHasUp ==
  ASSUME TreeInv, NEW t \in Node, NEW d \in Down(t)
  PROVE  Up(d) = t
<1>1. t # None /\ d \in Node
  BY KindAssumption, LinkTypes DEF TreeInv
<1>2. CASE parent[d] = t
  BY <1>1, <1>2 DEF Up
<1>3. CASE d = rootOf[t] /\ d # None
  <2>1. hostOf[d] = t /\ d \in Fragment
    BY <1>1, <1>3 DEF TreeInv, Links, TypeOK
  <2>2. parent[d] = None
    BY <1>1, <2>1 DEF TreeInv, TopsStayTops
  <2> QED
    BY <2>1, <2>2 DEF Up
<1> QED
  BY <1>2, <1>3 DEF Down, Kids

(* A worklist that starts at tops holds the parents and hosts of its nodes. *)
LEMMA WorklistUpClosed ==
  ASSUME TreeInv, NEW S \in SUBSET Node
  PROVE  UpClosed(Worklist(Tops(S)))
<1> DEFINE W == Worklist(Tops(S))
           T == {n \in W : Up(n) \in W \cup {None}}
<1>1. TypeOK
  BY DEF TreeInv
<1>2. Tops(S) \in SUBSET Node /\ \A t \in Tops(S) : Up(t) = None
  BY <1>1, ClimbedLeast DEF Tops
<1>3. W \in SUBSET Node /\ Tops(S) \subseteq W /\ DownClosed(W)
  BY <1>1, <1>2, WorklistLeast
<1>4. Tops(S) \subseteq T
  BY <1>2, <1>3
<1>5. DownClosed(T)
  <2>1. SUFFICES ASSUME NEW t \in T, NEW d \in Down(t) PROVE d \in T
    BY DEF DownClosed
  <2>2. d \in W
    BY <1>3, <2>1 DEF DownClosed
  <2>3. Up(d) = t
    BY <1>3, <2>1, DownHasUp
  <2> QED
    BY <2>1, <2>2, <2>3
<1>6. W \subseteq T
  <2>1. T \in SUBSET Node
    BY <1>3
  <2> QED
    BY <1>1, <1>2, <1>4, <1>5, <2>1, WorklistLeast
<1> QED
  BY <1>6 DEF UpClosed

(* Every stored link has its ends stored, so walks stay on stored nodes.    *)
LEMMA LinkEndsSuffice == StorageInv => LinksAreLive
<1>1. SUFFICES ASSUME StorageInv PROVE LinksAreLive
  OBVIOUS
<1>2. live \in SUBSET Node
  BY <1>1 DEF StorageInv, TreeInv, TypeOK
<1> QED
  BY <1>1, <1>2, KindAssumption DEF StorageInv, LinkEnds, LinksAreLive, Up, Down, Kids

-----------------------------------------------------------------------------
(* A collection.                                                            *)

(* What is kept holds the pins and is closed under links.                   *)
LEMMA RetainedClosed ==
  ASSUME StorageInv, GraphValid
  PROVE  /\ Retained \in SUBSET live
         /\ Pins \subseteq Retained
         /\ UpClosed(Retained) /\ DownClosed(Retained)
<1>1. TreeInv /\ TypeOK /\ live \in SUBSET Node /\ Pins \in SUBSET Node
  BY KindAssumption DEF StorageInv, TreeInv, TypeOK, Pins
<1>2. Retained \in SUBSET live /\ Pins \subseteq Retained
  BY DEF GraphValid
<1>3. UpClosed(Retained)
  BY <1>1, WorklistUpClosed DEF Retained
<1>4. Tops(Pins) \in SUBSET Node
  BY <1>1, ClimbedLeast DEF Tops
<1>5. DownClosed(Retained)
  BY <1>1, <1>4, WorklistLeast DEF Retained
<1> QED
  BY <1>2, <1>3, <1>5

LEMMA CollectKeepsTreeInv ==
  ASSUME StorageInv, CollectUnreachable
  PROVE  TreeInv'
<1> DEFINE K == Retained
<1>1. /\ TreeInv /\ TypeOK /\ K \in SUBSET Node /\ K \in SUBSET created
      /\ UpClosed(K)
  BY RetainedClosed DEF StorageInv, TreeInv, TypeOK, CollectUnreachable
<1>2. /\ created' = created
      /\ parent' = [n \in Node |-> IF n \in K THEN parent[n] ELSE None]
      /\ order' = order \cap (K \X K)
      /\ hostOf' = Retain(hostOf, K)
      /\ rootOf' = Retain(rootOf, K)
  BY DEF CollectUnreachable
<1> HIDE DEF K
<1>3. \A n \in Node : /\ parent'[n] # None => n \in K /\ parent'[n] = parent[n]
                      /\ hostOf'[n] # None => n \in K /\ hostOf[n] \in K /\ hostOf'[n] = hostOf[n]
                      /\ rootOf'[n] # None => n \in K /\ rootOf[n] \in K /\ rootOf'[n] = rootOf[n]
  BY <1>2 DEF Retain
<1>4. TypeOK'
  <2>1. parent' \in [Node -> Container \cup {None}]
    BY <1>1, <1>2 DEF TypeOK
  <2>2. hostOf' \in [Node -> Element \cup {None}]
    BY <1>1, <1>2 DEF TypeOK, Retain
  <2>3. rootOf' \in [Node -> Fragment \cup {None}]
    BY <1>1, <1>2 DEF TypeOK, Retain
  <2> QED
    BY <1>1, <1>2, <2>1, <2>2, <2>3 DEF TypeOK, Container
<1>5. Acyclic'
  <2>1. SUFFICES ASSUME NEW S \in SUBSET Node, S # {}, \A n \in S : Up(n)' \in S
                 PROVE  FALSE
    BY DEF Acyclic
  <2>2. ASSUME NEW n \in S PROVE Up(n) \in S
    <3>1. Up(n)' \in S /\ Up(n)' # None
      BY <2>1, KindAssumption
    <3>2. CASE parent'[n] # None
      BY <1>3, <3>1, <3>2 DEF Up
    <3>3. CASE parent'[n] = None
      <4>1. hostOf'[n] # None
        BY <3>1, <3>3 DEF Up
      <4>2. n \in K /\ hostOf'[n] = hostOf[n]
        BY <1>3, <4>1
      <4>3. parent[n] = None
        BY <1>2, <3>3, <4>2
      <4> QED
        BY <3>1, <3>3, <4>2, <4>3 DEF Up
    <3> QED
      BY <3>2, <3>3
  <2> QED
    BY <1>1, <2>1, <2>2 DEF TreeInv, Acyclic
<1>6. SiblingOrder'
  <2>1. IsSiblingOrder(parent, order)
    BY <1>1 DEF TreeInv, SiblingOrder
  <2>2. OrderRelatesSiblings(parent', order')
    BY <1>2, <2>1 DEF IsSiblingOrder, OrderRelatesSiblings
  <2>3. OrderTotal(parent', order')
    <3>1. SUFFICES ASSUME NEW a \in Node, NEW b \in Node, a # b,
                          parent'[a] = parent'[b], parent'[a] # None
                   PROVE  <<a, b>> \in order' \/ <<b, a>> \in order'
      BY DEF OrderTotal
    <3>2. a \in K /\ b \in K /\ parent[a] = parent[b] /\ parent[a] # None
      BY <1>3, <3>1
    <3> QED
      BY <1>2, <2>1, <3>1, <3>2 DEF IsSiblingOrder, OrderTotal
  <2>4. OrderAsymmetric(order') /\ OrderTransitive(order')
    BY <1>2, <2>1 DEF IsSiblingOrder, OrderAsymmetric, OrderTransitive
  <2> QED
    BY <2>2, <2>3, <2>4 DEF SiblingOrder, IsSiblingOrder
<1>7. TopsStayTops'
  BY <1>1, <1>3, KindAssumption DEF TreeInv, TopsStayTops
<1>8. Links'
  <2>1. ASSUME NEW h \in Node, rootOf'[h] # None
        PROVE  hostOf'[rootOf'[h]] = h
    <3>1. h \in K /\ rootOf[h] \in K /\ rootOf'[h] = rootOf[h]
      BY <1>3, <2>1
    <3>2. hostOf[rootOf[h]] = h
      BY <1>1, <2>1, <3>1 DEF TreeInv, Links
    <3> QED
      BY <1>1, <1>2, <3>1, <3>2 DEF Retain
  <2> QED
    BY <1>1, <1>2, <1>3, <2>1 DEF TreeInv, Links
<1> QED
  BY <1>4, <1>5, <1>6, <1>7, <1>8 DEF TreeInv

LEMMA CollectKeepsStorageInv ==
  ASSUME StorageInv, CollectUnreachable
  PROVE  StorageInv'
<1> DEFINE K == Retained
<1>1. /\ TreeInv /\ TypeOK /\ K \in SUBSET Node /\ K \in SUBSET created
      /\ UpClosed(K) /\ DownClosed(K) /\ Pins \subseteq K
  BY RetainedClosed DEF StorageInv, TreeInv, TypeOK, CollectUnreachable
<1>2. /\ created' = created /\ held' = held /\ logged' = logged /\ live' = K
      /\ parent' = [n \in Node |-> IF n \in K THEN parent[n] ELSE None]
      /\ hostOf' = Retain(hostOf, K)
      /\ rootOf' = Retain(rootOf, K)
  BY DEF CollectUnreachable
<1> HIDE DEF K
<1>3. TreeInv'
  BY CollectKeepsTreeInv
<1>4. PinsAreLive'
  BY <1>1, <1>2 DEF Pins, PinsAreLive
<1>5. LinkEnds'
  <2>1. ASSUME NEW n \in Node, parent'[n] # None
        PROVE  n \in K /\ parent'[n] \in K
    <3>1. n \in K /\ parent'[n] = parent[n] /\ Up(n) = parent[n]
      BY <1>2, <2>1 DEF Up
    <3> QED
      BY <1>1, <2>1, <3>1 DEF UpClosed
  <2> QED
    BY <1>2, <2>1 DEF LinkEnds, Retain
<1>6. HostsAgree'
  <2>1. SUFFICES ASSUME OneRoot, NEW n \in Node, hostOf'[n] # None
                 PROVE  rootOf'[hostOf'[n]] = n
    BY DEF HostsAgree
  <2>2. n \in K /\ hostOf[n] \in K /\ hostOf'[n] = hostOf[n]
    BY <1>2, <2>1 DEF Retain
  <2>3. rootOf[hostOf[n]] = n
    BY <2>1, <2>2 DEF StorageInv, HostsAgree
  <2> QED
    BY <1>1, <1>2, <2>2, <2>3 DEF Retain
<1> QED
  BY <1>1, <1>2, <1>3, <1>4, <1>5, <1>6 DEF StorageInv

-----------------------------------------------------------------------------
(* A structural call.                                                       *)

(* Only attachShadow writes the shadow links, and it makes the root.        *)
LEMMA ShadowLinksStep ==
  ASSUME TreeInv, Next
  PROVE  \/ hostOf' = hostOf /\ rootOf' = rootOf
         \/ \E host \in Element \cap created, root \in Fragment : AttachShadow(host, root)
BY DEF Next, CreateNode, AppendChild, InsertBefore, RemoveChild, Before, After,
       ReplaceWith, ReplaceChildren, ReplaceAll, InsertParsed

(* A new root is nobody's root yet.                                         *)
LEMMA FreshRoot ==
  ASSUME TreeInv, NEW root \in Fragment \ created
  PROVE  root \in Node /\ root # None /\ hostOf[root] = None /\ \A h \in Node : rootOf[h] # root
BY KindAssumption DEF TreeInv, TypeOK, Links

LEMMA MutateKeepsStorageInv ==
  ASSUME StorageInv, Mutate
  PROVE  StorageInv'
<1>1. TreeInv /\ TypeOK /\ live \in SUBSET Node /\ held \in SUBSET live
  BY DEF StorageInv, TreeInv, TypeOK, PinsAreLive
<1>2. /\ Next
      /\ Involved \subseteq Reachable \cup {None} \cup (created' \ created)
      /\ OneRoot => \A h \in Node : rootOf[h] # None => rootOf'[h] = rootOf[h]
      /\ live' = live \cup (created' \ created)
      /\ held' = held \cup (created' \ created)
      /\ logged' \in {logged, logged \cup Named(Shifted)}
  BY DEF Mutate
<1>3. TreeInv' /\ TypeOK'
  BY <1>1, <1>2, NextKeepsTreeInv DEF TreeInv
<1>4. Reachable \subseteq live
  <2>1. {Document} \cup held \in SUBSET live
    BY DEF StorageInv, PinsAreLive
  <2> QED
    BY <2>1, ReachStaysLive DEF Reachable
<1>5. Involved \ {None} \subseteq live'
  BY <1>2, <1>4
<1>6. created \subseteq created'
  BY <1>2 DEF Next, CreateNode, AppendChild, InsertBefore, RemoveChild, Before, After,
              ReplaceWith, ReplaceChildren, ReplaceAll, InsertParsed, AttachShadow
<1>7. live' \in SUBSET created' /\ held' \in SUBSET Node
  BY <1>2, <1>3, <1>6 DEF StorageInv, TypeOK
<1>8. LinkEnds'
  <2>1. ASSUME NEW n \in Node, parent'[n] # None
        PROVE  {n, parent'[n]} \subseteq live'
    <3>1. CASE parent'[n] = parent[n]
      BY <1>2, <2>1, <3>1 DEF StorageInv, LinkEnds
    <3>2. CASE parent'[n] # parent[n]
      <4>1. n \in Shifted /\ n # None
        BY <3>2, KindAssumption DEF Shifted
      <4> QED
        BY <1>5, <2>1, <4>1 DEF Involved
    <3> QED
      BY <3>1, <3>2
  <2>2. ASSUME NEW n \in Node
        PROVE  /\ hostOf'[n] # None => {n, hostOf'[n]} \subseteq live'
               /\ rootOf'[n] # None => {n, rootOf'[n]} \subseteq live'
    <3>1. CASE hostOf' = hostOf /\ rootOf' = rootOf
      BY <1>2, <3>1 DEF StorageInv, LinkEnds
    <3>2. ASSUME NEW host \in Element \cap created, NEW root \in Fragment,
                 AttachShadow(host, root)
          PROVE  /\ hostOf'[n] # None => {n, hostOf'[n]} \subseteq live'
                 /\ rootOf'[n] # None => {n, rootOf'[n]} \subseteq live'
      <4>1. /\ root \in Fragment \ created /\ root \in created' \ created
            /\ hostOf' = [hostOf EXCEPT ![root] = host]
            /\ rootOf' = [rootOf EXCEPT ![host] = root]
        BY <3>2 DEF AttachShadow
      <4>2. root \in Node /\ host \in Node /\ host # None /\ rootOf[host] # root
        BY <1>1, <4>1, FreshRoot, KindAssumption
      <4>3. rootOf'[host] = root
        BY <1>1, <4>1, <4>2 DEF TypeOK
      <4>4. host \in Involved
        BY <4>2, <4>3 DEF Involved
      <4>5. host \in live' /\ root \in live' /\ live \subseteq live'
        BY <1>2, <1>5, <4>1, <4>2, <4>4
      <4>6. hostOf'[n] # None => {n, hostOf'[n]} \subseteq live'
        BY <1>1, <4>1, <4>5 DEF StorageInv, LinkEnds, TypeOK
      <4>7. rootOf'[n] # None => {n, rootOf'[n]} \subseteq live'
        BY <1>1, <4>1, <4>5 DEF StorageInv, LinkEnds, TypeOK
      <4> QED
        BY <4>6, <4>7
    <3> QED
      BY <1>1, <1>2, <3>1, <3>2, ShadowLinksStep
  <2> QED
    BY <2>1, <2>2 DEF LinkEnds
<1>9. PinsAreLive'
  <2>1. live' \in SUBSET Node
    BY <1>3, <1>7 DEF TypeOK
  <2>2. \A m \in live' : Up(m)' \in live' \cup {None}
    BY <1>8, <2>1 DEF LinkEnds, Up
  <2>3. ASSUME NEW t \in live', NEW n \in Climbed({t})'
        PROVE  n \in live'
    BY <2>1, <2>2, <2>3 DEF Climbed, UpClosed
  <2>4. Shifted \subseteq live'
    BY <1>5, KindAssumption DEF Shifted, Involved
  <2>5. ASSUME NEW n \in Shifted
        PROVE  parent[n] \in live' \cup {None} /\ parent'[n] \in live' \cup {None}
    <3>1. n \in Node
      BY DEF Shifted
    <3> QED
      BY <1>2, <1>8, <3>1 DEF LinkEnds, StorageInv
  <2>6. Named(Shifted) \subseteq live'
    BY <2>3, <2>4, <2>5 DEF Named
  <2> QED
    BY <1>2, <2>6 DEF StorageInv, PinsAreLive
<1>10. HostsAgree'
  <2>1. SUFFICES ASSUME OneRoot, NEW n \in Node, hostOf'[n] # None
                 PROVE  rootOf'[hostOf'[n]] = n
    BY DEF HostsAgree
  <2>2. CASE hostOf' = hostOf /\ rootOf' = rootOf
    BY <2>1, <2>2 DEF StorageInv, HostsAgree
  <2>3. ASSUME NEW host \in Element \cap created, NEW root \in Fragment,
               AttachShadow(host, root)
        PROVE  rootOf'[hostOf'[n]] = n
    <3>1. /\ root \in Fragment \ created
          /\ hostOf' = [hostOf EXCEPT ![root] = host]
          /\ rootOf' = [rootOf EXCEPT ![host] = root]
      BY <2>3 DEF AttachShadow
    <3>2. root \in Node /\ host \in Node /\ rootOf[host] # root
      BY <1>1, <3>1, FreshRoot, KindAssumption
    <3>3. rootOf'[host] = root /\ hostOf'[root] = host
      BY <1>1, <3>1, <3>2 DEF TypeOK
    <3>4. rootOf[host] = None
      BY <1>2, <2>1, <3>2, <3>3
    <3>5. CASE n = root
      BY <3>3, <3>5
    <3>6. CASE n # root
      <4>1. hostOf'[n] = hostOf[n] /\ hostOf[n] # None /\ hostOf[n] \in Node
        BY <1>1, <2>1, <3>1, <3>6, KindAssumption DEF TypeOK
      <4>2. rootOf[hostOf[n]] = n
        BY <2>1, <4>1 DEF StorageInv, HostsAgree
      <4>3. hostOf[n] # host
        BY <3>4, <4>2, KindAssumption
      <4> QED
        BY <1>1, <3>1, <4>1, <4>2, <4>3 DEF TypeOK
    <3> QED
      BY <3>5, <3>6
  <2> QED
    BY <1>1, <1>2, <2>2, <2>3, ShadowLinksStep
<1>11. logged' \in SUBSET Node
  BY <1>3, <1>7, <1>9 DEF PinsAreLive, TypeOK
<1> QED
  BY <1>3, <1>7, <1>8, <1>9, <1>10, <1>11 DEF StorageInv

-----------------------------------------------------------------------------
(* All steps.                                                               *)
LEMMA InitStorageInv == StorageInit => StorageInv
<1>1. SUFFICES ASSUME StorageInit PROVE StorageInv
  OBVIOUS
<1>2. TreeInv
  BY <1>1, InitTreeInv DEF StorageInit
<1>3. PinsAreLive /\ LinkEnds /\ HostsAgree
  BY <1>1, KindAssumption, ParsedAssumption
     DEF StorageInit, Init, PinsAreLive, LinkEnds, HostsAgree
<1> QED
  BY <1>1, <1>2, <1>3 DEF StorageInit, Init, StorageInv

(* What the other actions leave alone carries the invariant with it.        *)
LEMMA UnchangedKeepsStorageInv ==
  ASSUME StorageInv, UNCHANGED vars, live' = live,
         held' \cup logged' \subseteq live
  PROVE  StorageInv'
<1>1. TreeInv'
  BY NextKeepsTreeInv DEF StorageInv
<1>2. live \in SUBSET Node
  BY DEF StorageInv, TreeInv, TypeOK
<1> QED
  BY <1>1, <1>2 DEF StorageInv, vars, PinsAreLive, LinkEnds, HostsAgree

LEMMA NextKeepsStorageInv == StorageInv /\ [StorageNext]_allVars => StorageInv'
<1>1. SUFFICES ASSUME StorageInv, [StorageNext]_allVars PROVE StorageInv'
  OBVIOUS
<1>2. {Document} \cup held \in SUBSET live /\ held \cup logged \subseteq live
  BY <1>1 DEF StorageInv, PinsAreLive
<1>3. CASE Mutate
  BY <1>1, <1>3, MutateKeepsStorageInv
<1>4. ASSUME NEW n \in Node, Hold(n) PROVE StorageInv'
  <2>1. Reachable \subseteq live
    BY <1>1, <1>2, ReachStaysLive DEF Reachable
  <2> QED
    BY <1>1, <1>2, <1>4, <2>1, UnchangedKeepsStorageInv DEF Hold
<1>5. ASSUME NEW n \in Node, Release(n) PROVE StorageInv'
  BY <1>1, <1>2, <1>5, UnchangedKeepsStorageInv DEF Release
<1>6. CASE StopRecording
  BY <1>1, <1>2, <1>6, UnchangedKeepsStorageInv DEF StopRecording
<1>7. CASE TakeEvents
  BY <1>1, <1>2, <1>7, UnchangedKeepsStorageInv DEF TakeEvents
<1>8. ASSUME NEW n \in Node, NEW state \in Reports, SetCustomElementState(n, state)
      PROVE  StorageInv'
  BY <1>1, <1>2, <1>8, UnchangedKeepsStorageInv DEF SetCustomElementState
<1>9. CASE CollectUnreachable
  BY <1>1, <1>9, CollectKeepsStorageInv
<1>10. CASE UNCHANGED allVars
  BY <1>1, <1>2, <1>10, UnchangedKeepsStorageInv DEF allVars, storage
<1> QED
  BY <1>1, <1>3, <1>4, <1>5, <1>6, <1>7, <1>8, <1>9, <1>10 DEF StorageNext

(* With one root per host, a node above another has that node below it.     *)
LEMMA UpHasDown ==
  ASSUME StorageInv, OneRoot, NEW n \in Node, Up(n) # None
  PROVE  n \in Down(Up(n))
<1>1. CASE parent[n] # None
  BY <1>1 DEF Up, Down, Kids
<1>2. CASE parent[n] = None
  <2>1. rootOf[hostOf[n]] = n /\ n # None
    BY <1>2, KindAssumption DEF Up, StorageInv, HostsAgree
  <2> QED
    BY <1>2, <2>1 DEF Up, Down
<1> QED
  BY <1>1, <1>2

(* A pinned climb that is followed back down comes past every pin: with one *)
(* root per host, what the collector checks is what the invariant says.     *)
LEMMA InvPassesChecks == StorageInv /\ OneRoot => GraphValid
<1>1. SUFFICES ASSUME StorageInv, OneRoot PROVE GraphValid
  OBVIOUS
<1> DEFINE C == Climbed(Pins)
           W == Worklist(Tops(Pins))
<1>2. TreeInv /\ TypeOK /\ live \in SUBSET Node /\ Pins \in SUBSET live
  BY <1>1 DEF StorageInv, TreeInv, TypeOK, PinsAreLive, Pins
<1>3. C \subseteq live /\ W \subseteq live
  BY <1>1, <1>2, ReachStaysLive
<1>4. C \in SUBSET Node /\ Pins \subseteq C /\ UpClosed(C)
  BY <1>2, ClimbedLeast
<1>5. Tops(Pins) \in SUBSET Node
  BY <1>4 DEF Tops
<1>6. W \in SUBSET Node /\ Tops(Pins) \subseteq W /\ DownClosed(W)
  BY <1>2, <1>5, WorklistLeast
<1>7. ASSUME NEW n \in Node, Up(n) \in W PROVE n \in W
  <2>1. Up(n) # None /\ Up(n) \in Node
    BY <1>6, <1>7, KindAssumption
  <2>2. n \in Down(Up(n))
    BY <1>1, <2>1, UpHasDown
  <2> QED
    BY <1>6, <1>7, <2>2 DEF DownClosed
<1>8. C \ W = {}
  <2>1. SUFFICES ASSUME C \ W # {} PROVE FALSE
    OBVIOUS
  <2>2. PICK n \in C \ W : Up(n) \notin C \ W
    BY <1>2, <1>4, <2>1, C \ W \in SUBSET Node DEF TreeInv, Acyclic
  <2>3. CASE Up(n) = None
    BY <1>6, <2>2, <2>3 DEF Tops
  <2>4. CASE Up(n) # None
    <3>1. Up(n) \in W
      BY <1>4, <2>2, <2>4 DEF UpClosed
    <3> QED
      BY <1>4, <1>7, <2>2, <3>1
  <2> QED
    BY <2>3, <2>4
<1>9. \A n \in C : parent[n] = None /\ hostOf[n] # None => rootOf[hostOf[n]] = n
  BY <1>1, <1>4 DEF StorageInv, HostsAgree
<1>10. \A n \in W : rootOf[n] # None => hostOf[rootOf[n]] = n
  BY <1>2, <1>6 DEF TreeInv, Links
<1> QED
  BY <1>2, <1>3, <1>4, <1>8, <1>9, <1>10 DEF GraphValid, Retained

(* With one root per host, what a collection keeps is what links connect to *)
(* a pin, in either direction.                                              *)
LEMMA RetainedIsComposed ==
  ASSUME StorageInv, OneRoot, GraphValid
  PROVE  Retained = Composed
<1>1. /\ TreeInv /\ TypeOK /\ live \in SUBSET Node /\ Pins \in SUBSET Node
      /\ Retained \in SUBSET Node /\ Pins \subseteq Retained
      /\ UpClosed(Retained) /\ DownClosed(Retained)
  BY RetainedClosed, KindAssumption DEF StorageInv, TreeInv, TypeOK, Pins
<1>2. Composed \subseteq Retained
  <2>1. ASSUME NEW a \in Retained, NEW b \in Node, Up(b) = a \/ Up(a) = b
        PROVE  b \in Retained
    <3>1. CASE Up(a) = b
      BY <1>1, <2>1, <3>1, KindAssumption DEF UpClosed
    <3>2. CASE Up(b) = a
      BY <1>1, <2>1, <3>2, KindAssumption, UpHasDown DEF DownClosed
    <3> QED
      BY <2>1, <3>1, <3>2
  <2> QED
    BY <1>1, <2>1 DEF Composed
<1>3. Retained \subseteq Composed
  <2>1. SUFFICES ASSUME NEW T \in SUBSET Node, Pins \subseteq T,
                        \A a \in T, b \in Node : Up(b) = a \/ Up(a) = b => b \in T
                 PROVE  Retained \subseteq T
    BY <1>1 DEF Composed
  <2>2. UpClosed(T)
    BY <1>1, <2>1, LinkTypes DEF UpClosed
  <2>3. Climbed(Pins) \subseteq T
    BY <1>1, <2>1, <2>2, ClimbedLeast
  <2>4. Tops(Pins) \subseteq T /\ Tops(Pins) \in SUBSET Node
    BY <2>1, <2>3 DEF Tops
  <2>5. DownClosed(T)
    <3>1. SUFFICES ASSUME NEW t \in T, NEW d \in Down(t) PROVE d \in T
      BY DEF DownClosed
    <3>2. t \in Node /\ d \in Node /\ Up(d) = t
      BY <1>1, <2>1, <3>1, LinkTypes, DownHasUp
    <3> QED
      BY <2>1, <3>1, <3>2
  <2> QED
    BY <1>1, <2>4, <2>5, WorklistLeast DEF Retained
<1> QED
  BY <1>2, <1>3

(* A collection leaves the upgrade state of what it keeps alone.            *)
LEMMA StatesSurvive ==
  ASSUME StorageInv, CollectUnreachable, NEW n \in Retained
  PROVE  CustomElementState(n)' = CustomElementState(n)
<1>1. n \in Node
  BY RetainedClosed DEF StorageInv, TreeInv, TypeOK, CollectUnreachable
<1>2. Document \notin ParsedIs
  BY KindAssumption, StateAssumption
<1>3. reported'[n] = IF n \in buffered \cap ParsedIs /\ reported[n] = None
                     THEN "undefined" ELSE reported[n]
  BY <1>1 DEF CollectUnreachable, RecordParsedStates
<1>4. n \notin buffered' \cap ParsedIs
  BY <1>2 DEF CollectUnreachable
<1> QED
  BY <1>3, <1>4, StateAssumption DEF CustomElementState

LEMMA CollectionKeepsComponents ==
  ASSUME StorageInv, OneRoot, StorageNext,
         created' = created, <<live, buffered>>' # <<live, buffered>>
  PROVE  /\ live' = Composed
         /\ \A n \in Composed :
              /\ parent'[n] = parent[n] /\ hostOf'[n] = hostOf[n] /\ rootOf'[n] = rootOf[n]
              /\ CustomElementState(n)' = CustomElementState(n)
         /\ order' = order \cap (Composed \X Composed)
<1>1. CollectUnreachable
  BY DEF StorageNext, Mutate, Hold, Release, StopRecording, TakeEvents,
         SetCustomElementState
<1>2. Retained = Composed
  BY <1>1, RetainedIsComposed DEF CollectUnreachable
<1>3. /\ TreeInv /\ TypeOK /\ Retained \in SUBSET Node
      /\ UpClosed(Retained) /\ DownClosed(Retained)
  BY <1>1, RetainedClosed DEF StorageInv, TreeInv, TypeOK, CollectUnreachable
<1>4. ASSUME NEW n \in Retained
      PROVE  parent'[n] = parent[n] /\ hostOf'[n] = hostOf[n] /\ rootOf'[n] = rootOf[n]
  <2>1. parent'[n] = parent[n]
    BY <1>1, <1>3 DEF CollectUnreachable
  <2>2. hostOf[n] \in Retained \cup {None}
    <3>1. hostOf[n] # None => parent[n] = None
      BY <1>3 DEF TreeInv, Links, TopsStayTops
    <3> QED
      BY <1>3, <3>1 DEF UpClosed, Up
  <2>3. rootOf[n] \in Retained \cup {None}
    BY <1>3 DEF DownClosed, Down
  <2>4. hostOf' = Retain(hostOf, Retained) /\ rootOf' = Retain(rootOf, Retained)
    BY <1>1 DEF CollectUnreachable
  <2> QED
    BY <1>3, <2>1, <2>2, <2>3, <2>4 DEF Retain
<1>5. \A n \in Retained : CustomElementState(n)' = CustomElementState(n)
  BY <1>1, StatesSurvive
<1>6. live' = Retained /\ order' = order \cap (Retained \X Retained)
  BY <1>1 DEF CollectUnreachable
<1> QED
  BY <1>2, <1>4, <1>5, <1>6

-----------------------------------------------------------------------------
(* Every reachable store is consistent: the inductive invariant.            *)
THEOREM StorageInvariant == StorageSpec => []StorageInv
BY InitStorageInv, NextKeepsStorageInv, PTL DEF StorageSpec

(* No collection, whatever was called before it, frees a node that the      *)
(* document, the caller or a waiting mutation record still names.           *)
THEOREM PinnedHandlesStayLive == StorageSpec => []PinsAreLive
<1>1. StorageInv => PinsAreLive
  BY DEF StorageInv
<1> QED
  BY <1>1, StorageInvariant, PTL

(* No walk from a stored node, by parent, child, host or root links, comes  *)
(* to a freed handle.                                                       *)
THEOREM WalksStayLive == StorageSpec => []LinksAreLive
BY LinkEndsSuffice, StorageInvariant, PTL

(* A tree on which attachShadow is called once per host never makes the     *)
(* collector refuse with InvalidPin or InvalidGraph.                        *)
THEOREM OneRootNeverRefused ==
  ASSUME OneRoot
  PROVE  StorageSpec => []NeverRefused
<1>1. StorageInv => NeverRefused
  BY InvPassesChecks DEF NeverRefused
<1> QED
  BY <1>1, StorageInvariant, PTL

(* With one root per host, a collection keeps what is connected to a pin,   *)
(* whole and as it was, upgrade states included, and nothing else.          *)
THEOREM CollectionsAreInvisible ==
  ASSUME OneRoot
  PROVE  StorageSpec => CollectionIsInvisible
<1> DEFINE Invisible ==
      created' = created /\ <<live, buffered>>' # <<live, buffered>> =>
        LET kept == Composed
        IN  /\ live' = kept
            /\ \A n \in kept :
                 /\ parent'[n] = parent[n] /\ hostOf'[n] = hostOf[n] /\ rootOf'[n] = rootOf[n]
                 /\ CustomElementState(n)' = CustomElementState(n)
            /\ order' = order \cap (kept \X kept)
<1>1. StorageInv /\ [StorageNext]_allVars => [Invisible]_allVars
  BY CollectionKeepsComponents
<1>2. StorageSpec => [][StorageInv /\ [StorageNext]_allVars]_allVars
  BY StorageInvariant, PTL DEF StorageSpec
<1> QED
  BY <1>1, <1>2, PTL DEF CollectionIsInvisible

=============================================================================
