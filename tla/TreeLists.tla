------------------------------ MODULE TreeLists ------------------------------
(***************************************************************************)
(* The node tree as crates/turbo-dom/src/rtdom/tree.rs keeps it: a parent  *)
(* link per node and a child list per node, changed by loops of single     *)
(* detachments and insertions.  A handler works on a record t of           *)
(*   parent, children : the two overlays,                                  *)
(*   steps            : the changes made so far, each with the siblings    *)
(*                      the code reads at that moment,                     *)
(* and its final t is the next state.  MutationLog and StyleGenerations    *)
(* follow `trace`, the steps of the last call.                             *)
(*                                                                         *)
(* Implements states that these loops do what DomTree promises.            *)
(***************************************************************************)
EXTENDS Integers, Lists

CONSTANTS Node, None, Document, Element, Text, Fragment,
          Parsed,          \* the nodes of the parsed markup
          ParsedParent, ParsedChildren,
          MaxArgs,         \* bound: the most nodes one variadic call takes
          Checked,         \* whether the bindings checked the arguments
          Traced           \* whether `trace` is followed

ASSUME NodeAssumption ==
  /\ None \notin Node /\ IsFiniteSet(Node)
  /\ Node = {Document} \cup Element \cup Text \cup Fragment
  /\ Document \notin Element \cup Text \cup Fragment
  /\ Element \cap Text = {}
  /\ Element \cap Fragment = {}
  /\ Text \cap Fragment = {}
  /\ MaxArgs \in Nat

\* The parser writes both overlays from one tree.
ASSUME PageAssumption ==
  /\ Parsed \in SUBSET Node /\ Document \in Parsed
  /\ ParsedParent \in [Node -> {Document} \cup Element \cup {None}]
  /\ ParsedChildren \in [Node -> Seq(Node)]
  /\ \A p \in Node : /\ IsInjective(ParsedChildren[p])
                     /\ ToSet(ParsedChildren[p]) = {c \in Node : ParsedParent[c] = p}
  /\ \A n \in Fragment \cup {Document} : ParsedParent[n] = None
  /\ \A n \in Node : ParsedParent[n] # None => {n, ParsedParent[n]} \subseteq Parsed

VARIABLES created, parent, children, hostOf, rootOf, trace

vars == <<created, parent, children, hostOf, rootOf, trace>>

Container == {Document} \cup Element \cup Fragment
Insertable == {n \in created : n # Document /\ hostOf[n] = None}
Fresh == (Element \cup Text) \ created
-----------------------------------------------------------------------------
(* Reading t.                                                               *)

\* Iterator::position, 0 for None.
Position(s, x) == SelectInSeq(s, LAMBDA y : y = x)

FirstOf(s) == IF s = <<>> THEN None ELSE Head(s)
LastOf(s)  == IF s = <<>> THEN None ELSE Last(s)

\* The entry of `list` next to its i-th.
Beside(list, i, offset) ==
  IF i > 0 /\ i + offset \in DOMAIN list THEN list[i + offset] ELSE None

Sibling(t, h, offset) ==
  IF t.parent[h] = None THEN None
  ELSE Beside(t.children[t.parent[h]], Position(t.children[t.parent[h]], h), offset)

NextSibling(t, h) == Sibling(t, h, 1)
PreviousSibling(t, h) == Sibling(t, h, -1)

Up(t, n) == CASE n = None -> None
              [] n # None /\ t.parent[n] # None -> t.parent[n]
              [] OTHER -> hostOf[n]

\* The nodes the loop of is_inclusive_ancestor visits from n.
Climb(t, n) ==
  LET at[k \in 0..Cardinality(Node)] ==
        IF k = 0 THEN n ELSE Up(t, at[k-1])
  IN  {at[k] : k \in 0..Cardinality(Node)} \ {None}

IsInclusiveAncestor(t, node, p) == node \in Climb(t, p)
-----------------------------------------------------------------------------
(* Changing t.                                                              *)

Step(op, at, added, removed, prev, next, logged) ==
  [op |-> op, at |-> at, added |-> added, removed |-> removed,
   prev |-> prev, next |-> next, logged |-> logged]

Note(t, step) == [t EXCEPT !.steps = Append(@, step)]

\* remove_child: nothing unless c is a child of p.
Unlink(t, p, c, logged) ==
  IF t.parent[c] # p THEN t
  ELSE Note([t EXCEPT !.parent[c] = None, !.children[p] = RemoveFirst(@, c)],
            Step("remove", p, <<>>, <<c>>, PreviousSibling(t, c), NextSibling(t, c), logged))

Detach(t, c, logged) ==
  IF t.parent[c] = None THEN t ELSE Unlink(t, t.parent[c], c, logged)

\* c enters the list of p before its i-th node, at the end for 0.
Enter(t, p, c, i) ==
  [t EXCEPT !.parent[c] = p,
            !.children[p] = IF i = 0 THEN Append(@, c) ELSE InsertAt(@, i, c)]

NoteInsert(t, p, c, logged) ==
  Note(t, Step("insert", p, <<c>>, <<>>, PreviousSibling(t, c), NextSibling(t, c), logged))

InsertDetached(t, p, c, ref, logged) ==
  NoteInsert(Enter(t, p, c, Position(t.children[p], ref)), p, c, logged)

\* append_child and insert_before, after their fragment case.
InsertOne(t, p, c, ref, logged) ==
  IF IsInclusiveAncestor(t, c, p) THEN t
  ELSE InsertDetached(Detach(t, c, logged), p, c,
                      IF ref = c THEN NextSibling(t, c) ELSE ref, logged)

UnlinkAll(t, p, list) ==
  LET u[k \in 0..Len(list)] == IF k = 0 THEN t ELSE Unlink(u[k - 1], p, list[k], FALSE)
  IN  u[Len(list)]

NoteEmptied(t, n, kids) ==
  IF kids = <<>> THEN t ELSE Note(t, Step("batch", n, <<>>, kids, None, None, TRUE))

\* The first loop of insert_nodes: fragments are emptied, with one record
\* each, other nodes detached; `flat` collects what will enter.
Taking(g, n) ==
  IF n \in Fragment
  THEN [t    |-> NoteEmptied(UnlinkAll(g.t, n, g.t.children[n]), n, g.t.children[n]),
        flat |-> g.flat \o g.t.children[n]]
  ELSE [t |-> Detach(g.t, n, TRUE), flat |-> Append(g.flat, n)]

Gather(t, ns) ==
  LET g[k \in 0..Len(ns)] == IF k = 0 THEN [t |-> t, flat |-> <<>>] ELSE Taking(g[k - 1], ns[k])
  IN  g[Len(ns)]

AnchorBefore(ref) == [side |-> "before", node |-> ref]
AnchorAfter(prev) == [side |-> "after", node |-> prev]

Reference(t, p, anchor) ==
  CASE anchor.side = "before" -> anchor.node
    [] anchor.side = "after" /\ anchor.node # None -> NextSibling(t, anchor.node)
    [] OTHER -> FirstOf(t.children[p])

NoteNodes(t, p, flat, gone, prev, ref) ==
  IF flat = <<>> /\ gone = <<>> THEN t
  ELSE Note(t, Step("batch", p, flat, gone, prev, ref, TRUE))

\* The last loop of insert_nodes.
InsertAll(t, p, flat, ref) ==
  LET u[k \in 0..Len(flat)] == IF k = 0 THEN t ELSE InsertOne(u[k - 1], p, flat[k], ref, FALSE)
  IN  u[Len(flat)]

\* The rest of insert_nodes, once `gone` is unlinked.
InsertFlat(t, p, flat, gone, ref) ==
  NoteNodes(InsertAll(t, p, flat, ref),
            p, flat, gone,
            IF ref = None THEN LastOf(t.children[p]) ELSE PreviousSibling(t, ref), ref)

InsertGathered(g, p, anchor, gone) ==
  InsertFlat(UnlinkAll(g.t, p, gone), p, g.flat, gone, Reference(g.t, p, anchor))

\* `replaced`: children of p to remove, unless the call has moved them.
InsertReplacing(g, p, anchor, replaced) ==
  InsertGathered(g, p, anchor, Kept(replaced, {c \in Node : g.t.parent[c] = p}))

InsertNodes(t, p, ns, anchor, replaced) ==
  InsertReplacing(Gather(t, ns), p, anchor, replaced)

\* Mutant: the old children keep their parent.
RewriteKeepingLinks(t, h, new) ==
  LET old == t.children[h]
      u   == [t EXCEPT !.parent = [n \in Node |-> IF n \in ToSet(new) THEN h ELSE @[n]],
                       !.children[h] = new]
  IN  Note(u, Step("rewrite", h, new, old, None, None, new # <<>> \/ old # <<>>))

\* textContent and innerHTML: orphan_children, then the new list at once.
Rewrite(t, h, new) ==
  LET old == t.children[h]
      u   == [t EXCEPT !.parent = [n \in Node |-> IF n \in ToSet(new) THEN h
                                                  ELSE IF n \in ToSet(old) THEN None
                                                  ELSE @[n]],
                       !.children[h] = new]
  IN  Note(u, Step("rewrite", h, new, old, None, None, new # <<>> \/ old # <<>>))

-----------------------------------------------------------------------------
(* The handlers.  A call that returns early is no step.                     *)

Tree == [parent |-> parent, children |-> children, steps |-> <<>>]

Do(t) ==
  /\ parent' = t.parent
  /\ children' = t.children
  /\ trace' = IF Traced THEN t.steps ELSE <<>>
  /\ UNCHANGED <<hostOf, rootOf>>

CreateNode(n) ==
  /\ n \notin created
  /\ created' = created \cup {n}
  /\ trace' = <<>>
  /\ UNCHANGED <<parent, children, hostOf, rootOf>>

InsertTree(p, c, ref) ==
  IF c \in Fragment THEN InsertNodes(Tree, p, <<c>>, AnchorBefore(ref), <<>>)
  ELSE InsertOne(Tree, p, c, ref, TRUE)

AppendChild(p, c) ==
  /\ ~IsInclusiveAncestor(Tree, c, p)
  /\ Do(InsertTree(p, c, None))
  /\ UNCHANGED created

InsertBefore(p, c, ref) ==
  /\ ~IsInclusiveAncestor(Tree, c, p)
  /\ Do(InsertTree(p, c, ref))
  /\ UNCHANGED created

RemoveChild(p, c) ==
  /\ parent[c] = p
  /\ Do(Unlink(Tree, p, c, TRUE))
  /\ UNCHANGED created

Entering(p, ns) == \A i \in DOMAIN ns : ~IsInclusiveAncestor(Tree, ns[i], p)

\* The nearest sibling of h, on one side, that the call does not move.
Siblings(h) == children[parent[h]]
\* Mutant: the next sibling, moved by the call or not.
ViableNextMoved(h, ns) == NextSibling(Tree, h)

Staying(h, ns) == {i \in DOMAIN Siblings(h) : Siblings(h)[i] \notin ToSet(ns)}

ViableNext(h, ns) ==
  LET later == {i \in Staying(h, ns) : i > Position(Siblings(h), h)}
  IN  IF later = {} THEN None ELSE Siblings(h)[Min(later)]
ViablePrevious(h, ns) ==
  LET earlier == {i \in Staying(h, ns) : i < Position(Siblings(h), h)}
  IN  IF earlier = {} THEN None ELSE Siblings(h)[Max(earlier)]

BeforeTree(h, ns) ==
  InsertNodes(Tree, parent[h], ns, AnchorAfter(ViablePrevious(h, ns)), <<>>)
AfterTree(h, ns) ==
  InsertNodes(Tree, parent[h], ns, AnchorBefore(ViableNext(h, ns)), <<>>)
ReplaceTree(h, ns) ==
  InsertNodes(Tree, parent[h], ns, AnchorBefore(ViableNext(h, ns)),
              IF h \in ToSet(ns) THEN <<>> ELSE <<h>>)

Before(h, ns) ==
  /\ parent[h] # None /\ Entering(parent[h], ns)
  /\ Do(BeforeTree(h, ns))
  /\ UNCHANGED created

After(h, ns) ==
  /\ parent[h] # None /\ Entering(parent[h], ns)
  /\ Do(AfterTree(h, ns))
  /\ UNCHANGED created

ReplaceWith(h, ns) ==
  /\ parent[h] # None /\ Entering(parent[h], ns)
  /\ Do(ReplaceTree(h, ns))
  /\ UNCHANGED created

ReplaceChildren(h, ns) ==
  /\ Entering(h, ns)
  /\ Do(InsertNodes(Tree, h, ns, AnchorBefore(None), children[h]))
  /\ UNCHANGED created

SetTextContent(h, new) ==
  /\ ToSet(new) \subseteq Text /\ Len(new) <= 1
  /\ Do(Rewrite(Tree, h, new))
  /\ created' = created \cup ToSet(new)

SetInnerHTML(h, new) ==
  /\ Do(Rewrite(Tree, h, new))
  /\ created' = created \cup ToSet(new)

\* The bindings refuse a place beside a child of the document.
InsertAdjacentHTML(h, new) ==
  /\ created' = created \cup ToSet(new)
  /\ \/ /\ parent[h] \in Container /\ (Checked => parent[h] # Document)
        /\ Do(BeforeTree(h, new)) \/ Do(AfterTree(h, new))
     \/ Do(InsertNodes(Tree, h, new, AnchorBefore(FirstOf(children[h])), <<>>))
     \/ Do(InsertNodes(Tree, h, new, AnchorBefore(None), <<>>))

\* Mutant: only one of the two maps is written.
AttachShadowOneWay(host, root) ==
  /\ root \notin created
  /\ created' = created \cup {root}
  /\ rootOf' = [rootOf EXCEPT ![host] = root]
  /\ trace' = <<>>
  /\ UNCHANGED <<parent, children, hostOf>>

AttachShadow(host, root) ==
  /\ root \notin created
  /\ created' = created \cup {root}
  /\ hostOf' = [hostOf EXCEPT ![root] = host]
  /\ rootOf' = [rootOf EXCEPT ![host] = root]
  /\ trace' = <<>>
  /\ UNCHANGED <<parent, children>>

Init ==
  /\ created = Parsed
  /\ parent = ParsedParent
  /\ children = ParsedChildren
  /\ hostOf = [n \in Node |-> None]
  /\ rootOf = [n \in Node |-> None]
  /\ trace = <<>>

\* A list names a node twice when it repeats it or lists its fragment first.
Repeats(s) ==
  \/ ~IsInjective(s)
  \/ \E i, j \in DOMAIN s : i < j /\ s[i] \in Fragment /\ parent[s[j]] = s[i]
ArgLists(S) == {s \in BoundedSeq(S, MaxArgs) : Checked => ~Repeats(s)}
\* The bindings (browser-env dom_mutations.rs, plan) throw unless a reference is a
\* child of the parent, and keep the last of repeated arguments.  A caller of
\* the crate may pass anything.
References(p) == {None} \cup IF Checked THEN ToSet(children[p]) ELSE created
\* What a parser creates is all new.
FreshLists == {new \in BoundedSeq(Fresh, MaxArgs) : IsInjective(new)}

Next ==
  \/ \E n \in Element \cup Text \cup Fragment : CreateNode(n)
  \/ \E p \in Container \cap created, c \in Insertable :
       \/ AppendChild(p, c)
       \/ \E r \in References(p) : InsertBefore(p, c, r)
  \/ \E p \in Container \cap created, c \in created : RemoveChild(p, c)
  \/ \E h \in created, ns \in ArgLists(Insertable) :
       Before(h, ns) \/ After(h, ns) \/ ReplaceWith(h, ns)
  \/ \E h \in Container \cap created, ns \in ArgLists(Insertable) : ReplaceChildren(h, ns)
  \/ \E h \in (Element \cup Fragment) \cap created, new \in FreshLists :
       SetTextContent(h, new) \/ SetInnerHTML(h, new)
  \/ \E h \in Element \cap created, new \in FreshLists : InsertAdjacentHTML(h, new)
  \/ \E host \in Element \cap created, root \in Fragment : AttachShadow(host, root)

Spec == Init /\ [][Next]_vars
-----------------------------------------------------------------------------
\* The two overlays say the same thing: a node is listed exactly once, by its
\* parent, and by nobody when it is detached.  Each is written on its own, in
\* every handler, and readers trust either.
LinksAgree ==
  \A p, c \in Node :
    Cardinality({i \in DOMAIN children[p] : children[p][i] = c})
      = IF parent[c] = p THEN 1 ELSE 0

\* Which of two nodes comes first in the list that holds both.
ListOrder(lists) ==
  UNION {{<<lists[p][ij[1]], lists[p][ij[2]]>> :
            ij \in {x \in (DOMAIN lists[p]) \X (DOMAIN lists[p]) : x[1] < x[2]}} : p \in Node}

Abstract == INSTANCE DomTree WITH order <- ListOrder(children),
                                  ParsedOrder <- ListOrder(ParsedChildren)

\* The loops never stop half-way: every call is one step of DomTree or none,
\* even one that repeats a node or lists an ancestor.
Implements == Abstract!Spec

\* A call that repeats a node moves it to the last of its places; a fragment
\* is empty after the first of its own.
Once(ns) ==
  LET counts == {i \in DOMAIN ns :
                   \A j \in DOMAIN ns : ns[j] = ns[i] => IF ns[i] \in Fragment THEN i <= j ELSE j <= i}
      places == Kept([i \in DOMAIN ns |-> i], counts)
  IN  [k \in DOMAIN places |-> ns[places[k]]]

Same(t, s) == t.parent = s.parent /\ ListOrder(t.children) = s.order

\* And it is the step of its own handler: every argument list, in every tree,
\* ends up where DomTree puts it, though the loops detach nodes one by one
\* while they look for the place, and the place may be one of those nodes.
HandlersAgree ==
  /\ \A p \in Container \cap created, c \in Insertable : Entering(p, <<c>>) =>
       \A ref \in {None} \cup ToSet(children[p]) :
         Same(InsertTree(p, c, ref),
              Abstract!Spliced(p, <<c>>, IF ref = c THEN Abstract!FirstAfter(c, {}) ELSE ref, {}))
  /\ \A h \in created, ns \in BoundedSeq(Insertable, MaxArgs) :
       parent[h] # None /\ Entering(parent[h], ns) =>
         LET p     == parent[h]
             out   == ToSet(ns)
             after == Abstract!FirstAfter(h, out)
         IN  /\ Same(BeforeTree(h, ns), Abstract!Spliced(p, Once(ns), IF h \in out THEN after ELSE h, {}))
             /\ Same(AfterTree(h, ns), Abstract!Spliced(p, Once(ns), after, {}))
             /\ Same(ReplaceTree(h, ns), Abstract!Spliced(p, Once(ns), after, {h}))
=============================================================================
