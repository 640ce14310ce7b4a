------------------------------ MODULE DomTree ------------------------------
(***************************************************************************)
(* What the node tree of crates/turbo-dom (rtdom/tree.rs, struct Tree)      *)
(* promises, whatever its storage: a forest of created nodes in which every *)
(* child list is one strict order, a shadow root hangs from its host        *)
(* without being its child, and fragments are never children.               *)
(*                                                                          *)
(* A child list is kept as the relation `order` between siblings, and every *)
(* mutation handler is one Splice: some nodes leave, some arrive together   *)
(* before a reference.  TreeLists has the lists and the loops of the code   *)
(* and is checked to implement this module.                                 *)
(*                                                                          *)
(* Inputs are what the bindings let through (browser-env dom_mutations.rs,  *)
(* plan): a parent is a document, element or fragment, an incoming node is  *)
(* neither a document nor a shadow root.  Left out: attribute nodes, which  *)
(* are in no child list, and the content fragment of a template, which the  *)
(* parser stores as a child until take_template_contents unlinks it.        *)
(***************************************************************************)
EXTENDS Integers

CONSTANTS Node,          \* every handle the arena can hand out
          None,          \* Option::None
          Document,      \* handle 0, the document node
          Element, Text, Fragment,   \* the other kinds of node
          Parsed,        \* the nodes of the parsed markup
          ParsedParent,  \* their parents
          ParsedOrder,   \* their sibling order
          MaxArgs        \* bound: the most nodes one variadic call takes

ASSUME KindAssumption ==
  /\ None \notin Node
  /\ Node = {Document} \cup Element \cup Text \cup Fragment
  /\ Document \notin Element \cup Text \cup Fragment
  /\ Element \cap Text = {}
  /\ Element \cap Fragment = {}
  /\ Text \cap Fragment = {}
  /\ MaxArgs \in Nat

\* `ord` puts the nodes of one parent, and no others, in one line.
OrderRelatesSiblings(par, ord) ==
  \A a, b \in Node : <<a, b>> \in ord => par[a] = par[b] /\ par[a] # None
OrderTotal(par, ord) ==
  \A a, b \in Node : a # b /\ par[a] = par[b] /\ par[a] # None
                       => <<a, b>> \in ord \/ <<b, a>> \in ord
OrderAsymmetric(ord) ==
  \A a, b \in Node : ~(<<a, b>> \in ord /\ <<b, a>> \in ord)
OrderTransitive(ord) ==
  \A a, b, c \in Node : <<a, b>> \in ord /\ <<b, c>> \in ord => <<a, c>> \in ord

IsSiblingOrder(par, ord) ==
  /\ OrderRelatesSiblings(par, ord)
  /\ OrderTotal(par, ord)
  /\ OrderAsymmetric(ord)
  /\ OrderTransitive(ord)

\* The parser delivers one tree under the document (and detached nodes).
ASSUME ParsedAssumption ==
  /\ Parsed \in SUBSET Node
  /\ Document \in Parsed
  /\ ParsedParent \in [Node -> {Document} \cup Element \cup {None}]
  /\ ParsedOrder \in SUBSET (Node \X Node)
  /\ IsSiblingOrder(ParsedParent, ParsedOrder)
  /\ \A S \in SUBSET Node : S # {} => \E n \in S : ParsedParent[n] \notin S
  /\ \A n \in Fragment \cup {Document} : ParsedParent[n] = None
  /\ \A n \in Node : ParsedParent[n] # None => {n, ParsedParent[n]} \subseteq Parsed

VARIABLES created,   \* the handles handed out so far
          parent,    \* parent_ov over the parsed parents
          order,     \* <<a, b>>: a precedes b in the child list that holds both
          hostOf,    \* host_of_shadow_root
          rootOf     \* shadow_root_of_host

vars == <<created, parent, order, hostOf, rootOf>>
-----------------------------------------------------------------------------
(* Reading the tree.                                                        *)

Kids(p) == {c \in Node : parent[c] = p}

Container == {Document} \cup Element \cup Fragment

\* A parent, or the host of a parentless shadow root.
Up(n) == IF parent[n] # None THEN parent[n] ELSE hostOf[n]

UpClosed(S) == \A m \in S : Up(m) \in S \cup {None}

\* Mutant: the climb ends at a shadow root.
IsInclusiveAncestorInTree(a, n) ==
  \A S \in SUBSET (Node \ {a}) :
    n \in S => \E m \in S : parent[m] \notin S \cup {None}

\* `a` is `n` or is reached from it by parent links, through shadow hosts:
\* no up-closed set holds n without a.
IsInclusiveAncestor(a, n) ==
  \A S \in SUBSET (Node \ {a}) : n \in S => ~UpClosed(S)

\* The first sibling after h that is not in `out`.
FirstAfter(h, out) ==
  LET rest == {s \in Node \ out : <<h, s>> \in order}
  IN  IF rest = {} THEN None
      ELSE CHOOSE s \in rest : \A t \in rest \ {s} : <<s, t>> \in order

(* What one variadic argument list stands for.                              *)

\* A fragment contributes its children, any other node itself.
Items(n) == IF n \in Fragment THEN Kids(n) ELSE {n}

Moved(ns) == UNION {Items(ns[i]) : i \in DOMAIN ns}

Args(ns) == {ns[i] : i \in DOMAIN ns}

\* The argument that brings `a`: itself when it is listed, else its fragment.
Slot(ns, a) ==
  CHOOSE i \in DOMAIN ns : ns[i] = (IF a \in Args(ns) THEN a ELSE parent[a])

\* Mutant: the children of one fragment are not kept in order.
ArgBeforeUnordered(ns, a, b) == Slot(ns, a) <= Slot(ns, b)

ArgBefore(ns, a, b) ==
  \/ Slot(ns, a) < Slot(ns, b)
  \/ Slot(ns, a) = Slot(ns, b) /\ <<a, b>> \in order

\* The lists of distinct nodes a caller may pass.  Listing one node twice
\* moves it twice and amounts to listing it at its last place.
ArgLists(source) ==
  UNION {{ns \in [1..k -> source] :
            \A i, j \in 1..k : i # j => ns[i] # ns[j]} : k \in 0..MaxArgs}

Insertable == {n \in created : n # Document /\ hostOf[n] = None}
-----------------------------------------------------------------------------
(* The one structural change: the nodes `gone` leave the child list of p,    *)
(* the nodes of `ns` leave wherever they are and enter it in order, before   *)
(* `ref` when that is a child that stays, else last.                         *)
Spliced(p, ns, ref, gone) ==
  LET moved == Moved(ns)
      stay  == Kids(p) \ (moved \cup gone)
      later == IF ref \in stay
               THEN {s \in stay : s = ref \/ <<ref, s>> \in order} ELSE {}
  IN  [parent |-> [n \in Node |-> IF n \in moved THEN p
                                  ELSE IF n \in gone THEN None
                                  ELSE parent[n]],
       order  |-> {pair \in order : /\ pair[1] \notin moved \cup gone
                                    /\ pair[2] \notin moved \cup gone}
                  \cup {pair \in moved \X moved :
                          /\ pair[1] # pair[2]
                          /\ ArgBefore(ns, pair[1], pair[2])}
                  \cup (stay \ later) \X moved
                  \cup moved \X later]

Splice(p, ns, ref, gone) ==
  /\ parent' = Spliced(p, ns, ref, gone).parent
  /\ order' = Spliced(p, ns, ref, gone).order

Entering(p, ns) == \A i \in DOMAIN ns : ~IsInclusiveAncestor(ns[i], p)

(* The mutation handlers.                                                   *)

CreateNode(n) ==
  /\ n \in Node \ created
  /\ n # Document
  /\ created' = created \cup {n}
  /\ UNCHANGED <<parent, order, hostOf, rootOf>>

AppendChild(p, c) ==
  /\ Entering(p, <<c>>)
  /\ Splice(p, <<c>>, None, {})
  /\ UNCHANGED <<created, hostOf, rootOf>>

\* A node inserted before itself goes before its next sibling.
InsertBefore(p, c, ref) ==
  /\ Entering(p, <<c>>)
  /\ Splice(p, <<c>>, IF ref = c THEN FirstAfter(c, {}) ELSE ref, {})
  /\ UNCHANGED <<created, hostOf, rootOf>>

RemoveChild(p, c) ==
  /\ parent[c] = p
  /\ Splice(p, <<>>, None, {c})
  /\ UNCHANGED <<created, hostOf, rootOf>>

\* before, after and replaceWith anchor at a sibling the call does not move.
Before(h, ns) ==
  /\ parent[h] # None
  /\ Entering(parent[h], ns)
  /\ Splice(parent[h], ns,
            IF h \in Args(ns) THEN FirstAfter(h, Args(ns)) ELSE h, {})
  /\ UNCHANGED <<created, hostOf, rootOf>>

After(h, ns) ==
  /\ parent[h] # None
  /\ Entering(parent[h], ns)
  /\ Splice(parent[h], ns, FirstAfter(h, Args(ns)), {})
  /\ UNCHANGED <<created, hostOf, rootOf>>

ReplaceWith(h, ns) ==
  /\ parent[h] # None
  /\ Entering(parent[h], ns)
  /\ Splice(parent[h], ns, FirstAfter(h, Args(ns)), {h})
  /\ UNCHANGED <<created, hostOf, rootOf>>

ReplaceChildren(h, ns) ==
  /\ Entering(h, ns)
  /\ Splice(h, ns, None, Kids(h))
  /\ UNCHANGED <<created, hostOf, rootOf>>

\* textContent and innerHTML replace every child by new nodes (one text node
\* or none; the roots of the parsed fragment, whose subtrees are abstracted).
ReplaceAll(h, new) ==
  /\ Splice(h, new, None, Kids(h))
  /\ created' = created \cup Args(new)
  /\ UNCHANGED <<hostOf, rootOf>>

\* insertAdjacentHTML: parsed nodes enter p before `ref`, a child of p or None.
InsertParsed(p, new, ref) ==
  /\ Splice(p, new, ref, {})
  /\ created' = created \cup Args(new)
  /\ UNCHANGED <<hostOf, rootOf>>

\* Mutant: only one of the two maps is written.
AttachShadowOneWay(host, root) ==
  /\ root \in Fragment \ created
  /\ created' = created \cup {root}
  /\ rootOf' = [rootOf EXCEPT ![host] = root]
  /\ UNCHANGED <<parent, order, hostOf>>

\* The new root is not a child of its host.  Nothing checks for an earlier
\* root: it keeps its link to the host.
AttachShadow(host, root) ==
  /\ root \in Fragment \ created
  /\ created' = created \cup {root}
  /\ hostOf' = [hostOf EXCEPT ![root] = host]
  /\ rootOf' = [rootOf EXCEPT ![host] = root]
  /\ UNCHANGED <<parent, order>>

Init ==
  /\ created = Parsed
  /\ parent = ParsedParent
  /\ order = ParsedOrder
  /\ hostOf = [n \in Node |-> None]
  /\ rootOf = [n \in Node |-> None]

Fresh == (Element \cup Text) \ created

Next ==
  \/ \E n \in Node : CreateNode(n)
  \/ \E p \in Container \cap created, c \in Insertable : AppendChild(p, c)
  \/ \E p \in Container \cap created, c \in Insertable, r \in created \cup {None} :
       InsertBefore(p, c, r)
  \/ \E p \in Container \cap created, c \in created : RemoveChild(p, c)
  \/ \E h \in created, ns \in ArgLists(Insertable) :
       Before(h, ns) \/ After(h, ns) \/ ReplaceWith(h, ns)
  \/ \E h \in Container \cap created, ns \in ArgLists(Insertable) :
       ReplaceChildren(h, ns)
  \/ \E h \in (Element \cup Fragment) \cap created, new \in ArgLists(Fresh) :
       ReplaceAll(h, new)
  \/ \E p \in Container \cap created, new \in ArgLists(Fresh),
        r \in created \cup {None} :
       InsertParsed(p, new, r)
  \/ \E host \in Element \cap created, root \in Fragment : AttachShadow(host, root)

Spec == Init /\ [][Next]_vars
-----------------------------------------------------------------------------
(* What the tree promises.                                                  *)

TypeOK ==
  /\ created \in SUBSET Node
  /\ parent \in [Node -> Container \cup {None}]
  /\ order \in SUBSET (Node \X Node)
  /\ hostOf \in [Node -> Element \cup {None}]
  /\ rootOf \in [Node -> Fragment \cup {None}]

\* No walk up the tree, through shadow hosts, ever comes back: every set of
\* nodes has a member whose parent or host lies outside it.  The ancestor
\* loops of tree.rs (touches_forms, style_generation, record_event) have no
\* cycle check of their own and end because of this.
Acyclic == \A S \in SUBSET Node : S # {} => \E n \in S : Up(n) \notin S

\* Every child list is one strict total order of exactly the nodes whose
\* parent it belongs to, however they were moved there.
SiblingOrder == IsSiblingOrder(parent, order)

\* The document and fragments, shadow roots included, are tops of trees: a
\* fragment that is inserted leaves its children and stays outside.
TopsStayTops == \A n \in Fragment \cup {Document} : parent[n] = None

\* A host and its latest shadow root name each other, only fragments have
\* hosts, and a handle not yet handed out has no link at all.
Links ==
  /\ \A h \in Node : rootOf[h] # None => hostOf[rootOf[h]] = h
  /\ \A n \in Node : hostOf[n] # None => n \in Fragment /\ n \in created
  /\ \A n \in Node : parent[n] # None => n \in created /\ parent[n] \in created
  /\ \A n \in Node : hostOf[n] # None => hostOf[n] \in created

\* The inductive invariant.
TreeInv == TypeOK /\ Acyclic /\ SiblingOrder /\ TopsStayTops /\ Links
=============================================================================
