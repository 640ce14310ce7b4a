----------------------------- MODULE ShadowSlots -----------------------------
(***************************************************************************)
(* Slots (browser-env shadow_slots.rs): which nodes a slot shows, derived   *)
(* from the tree, names and the lists left by assign(), and the slotchange  *)
(* signals that tell of it, over the child lists of TreeLists.              *)
(*                                                                          *)
(* Nothing tells a slot that it changed.  After every call the records are  *)
(* handed to `mutation`, which works out every slot of every shadow root    *)
(* anew and compares it with what it wrote down last time (`rows`).         *)
(* Signalled slots wait for one microtask (mutation_observers.rs, deliver), *)
(* whose listeners make more calls.                                         *)
(*                                                                          *)
(* Signals are sets: the order of slotchange events is not followed.  Every *)
(* child is slottable; comments, several documents, wrappers that are       *)
(* collected, termination, and roots declared in markup, whose slots are    *)
(* first written down after the first record, are left out.                 *)
(***************************************************************************)
EXTENDS TreeLists

CONSTANTS SlotElement,  \* the slot elements
          Host,         \* the root that each element that may be a host would get
          Name,         \* values of `name` and `slot`
          Unnamed,      \* the empty one
          Homes,        \* bound: the parents a call may give each node
          Renamed,      \* bound: the slots whose name changes
          Slotted       \* bound: the nodes whose slot attribute and edge change

ASSUME SlotsAssumption ==
  /\ SlotElement \subseteq Element
  /\ DOMAIN Host \subseteq Element \ SlotElement
  /\ Unnamed \in Name
  /\ Renamed \subseteq SlotElement /\ Slotted \subseteq Element \cup Text
  /\ Host \in [DOMAIN Host -> Fragment]
  /\ DOMAIN Homes \subseteq Element \cup Text
  /\ \A n \in DOMAIN Homes : Homes[n] \subseteq Container

VARIABLES manual,      \* the roots attached with slotAssignment "manual"
          name,        \* the name of each slot
          wants,       \* the slot attribute of each node
          assigned,    \* the private list "assigned" of each slot
          manualSlot,  \* the private edge "manual-slot" of each node
          rows,        \* the private "distribution" of each root
          signals,     \* the slots that wait for the next notification
          firing,      \* those that the running one has still to fire
          view,        \* observer: what each slot shows
          changed      \* observer: the slots whose listeners have heard of an older state

slotVars == <<manual, name, wants, assigned, manualSlot, rows, signals, firing, view, changed>>
slotAll == <<vars, slotVars>>

Slottable == Element \cup Text
-----------------------------------------------------------------------------
(* Reading the tree.                                                        *)

\* Where the parent links lead to, so many levels up.
Ends(levels) ==
  LET end[d \in 0..levels] ==
        [n \in Node |-> IF d = 0 \/ parent[n] = None THEN n ELSE end[d - 1][parent[n]]]
  IN  end[levels]

\* root: the shadow root whose tree holds n.
Root(n) ==
  LET end == Ends(Cardinality(Node))[n]
  IN  IF hostOf[end] = None THEN None ELSE end

\* The slots among the nodes of a list and below them, in tree order.
Listing(list, below) ==
  LET upto[i \in 0..Len(list)] ==
        IF i = 0 THEN <<>>
        ELSE upto[i - 1] \o (IF list[i] \in SlotElement THEN <<list[i]>> ELSE <<>>)
                         \o below[list[i]]
  IN  upto[Len(list)]

\* Those below a node, so many levels down.
SlotsBelow(levels) ==
  LET below[d \in 0..levels] ==
        [n \in Node |-> IF d = 0 THEN <<>> ELSE Listing(children[n], below[d - 1])]
  IN  below[levels]

\* slots: no branch is longer than there are nodes.
Slots(n) == SlotsBelow(Cardinality(Node))[n]

FirstNamed(root, v) == FirstOf(Kept(Slots(root), {s \in SlotElement : name[s] = v}))

\* Mutant: a recorded node is shown wherever it is.
AssignedAnywhere(root, s) ==
  IF root \in manual THEN assigned[s]
  ELSE IF FirstNamed(root, name[s]) # s THEN <<>>
  ELSE Kept(children[hostOf[root]], {n \in Slottable : wants[n] = name[s]})

\* assigned, for a slot of this root: the children of the host that it shows.
AssignedIn(root, s) ==
  IF root \in manual
  THEN Kept(assigned[s], {n \in Slottable : manualSlot[n] = s /\ parent[n] = hostOf[root]})
  ELSE IF FirstNamed(root, name[s]) # s THEN <<>>
  ELSE Kept(children[hostOf[root]], {n \in Slottable : wants[n] = name[s]})

Assigned(s) == IF Root(s) = None THEN <<>> ELSE AssignedIn(Root(s), s)

AssignedSlot(n) ==
  LET root == rootOf[parent[n]]
  IN  FirstOf(Kept(Slots(root), {s \in SlotElement : n \in ToSet(AssignedIn(root, s))}))

\* Whether n is a slot whose own children are not shown.
Overridden(n) == n \in SlotElement /\ Assigned(n) # <<>>

\* The flat tree, read downwards and upwards.
ComposedChildren(n) ==
  IF Overridden(n) THEN Assigned(n)
  ELSE children[IF rootOf[n] # None THEN rootOf[n] ELSE n]

ComposedParent(n) ==
  CASE hostOf[n] # None -> hostOf[n]
    [] hostOf[n] = None /\ parent[n] = None -> None
    [] OTHER ->
         CASE rootOf[parent[n]] # None -> AssignedSlot(n)
           [] rootOf[parent[n]] = None /\ Overridden(parent[n]) -> None
           [] rootOf[parent[n]] = None /\ hostOf[parent[n]] # None -> hostOf[parent[n]]
           [] OTHER -> parent[n]
-----------------------------------------------------------------------------
(* After a call.                                                            *)

Roots == {r \in Fragment : hostOf[r] # None}

Row(root) == [s \in ToSet(Slots(root)) |-> AssignedIn(root, s)]

\* The slots of one root that refresh signals.  A slot that enters a root
\* with manual assignment is silent; one that leaves it is not, if nodes were
\* recorded for it, shown or not.
Stirred(root) ==
  LET old == rows[root]
      new == rows'[root]
  IN  {s \in DOMAIN new : IF s \in DOMAIN old THEN new[s] # old[s]
                          ELSE root \notin manual /\ new[s] # <<>>}
      \cup {s \in DOMAIN old \ DOMAIN new :
              old[s] # <<>> \/ (root \in manual /\ assigned'[s] # <<>>)}

\* What the listeners of a slot find.
View(s) ==
  LET root == Root(s)
      own  == IF root = None THEN <<>> ELSE AssignedIn(root, s)
  IN  [root |-> root, nodes |-> own,
       shown |-> IF root # None /\ own = <<>> THEN children[s] ELSE own]

\* Coming and going, a slot is told what it was assigned, except that entering
\* a manual root is silent; while it stays, whatever it shows.
Differs(old, new) ==
  IF old.root = new.root THEN old.shown # new.shown
  ELSE /\ old.nodes # new.nodes
       /\ new.root \in manual => old.nodes # <<>>

\* refresh and the signals it ends in; `others` are signalled besides.
Refresh(others) ==
  /\ rows' = [r \in Fragment |-> IF r \in Roots THEN Row(r)' ELSE rows[r]]
  /\ signals' = signals \cup others \cup UNION {Stirred(r) : r \in Roots}
  /\ view' = [s \in SlotElement |-> View(s)']
  /\ changed' = changed \cup {s \in SlotElement : Differs(view[s], view'[s])}
  /\ UNCHANGED firing

\* Mutant: the slot's own children are nobody's business.
FallbackNever(steps) == {}

\* mutation, for every record of the call: a slot that shows its own children
\* is signalled when they come or go.
Fallback(steps) ==
  {s \in SlotElement : /\ \E i \in DOMAIN steps : steps[i].logged /\ steps[i].at = s
                /\ Assigned(s)' = <<>> /\ Root(s)' # None}

ChangeTree(t) ==
  /\ t.steps # <<>>
  /\ Do(t)
  /\ UNCHANGED <<created, manual, name, wants, assigned, manualSlot>>
  /\ Refresh(Fallback(t.steps))
-----------------------------------------------------------------------------
(* Calls.                                                                   *)

Attach(host, root, byHand) ==
  /\ rootOf[host] = None
  /\ AttachShadow(host, root)
  /\ manual' = IF byHand THEN manual \cup {root} ELSE manual
  /\ UNCHANGED <<name, wants, assigned, manualSlot, rows, signals, firing, view, changed>>

Insert(p, c, ref) ==
  /\ ~IsInclusiveAncestor(Tree, c, p)
  /\ ChangeTree(InsertTree(p, c, ref))

TakeOut(p, c) ==
  /\ parent[c] = p
  /\ ChangeTree(Unlink(Tree, p, c, TRUE))

Replace(p, ns) ==
  /\ Entering(p, ns)
  /\ ChangeTree(InsertNodes(Tree, p, ns, AnchorBefore(None), children[p]))

SetName(s, v) ==
  /\ name[s] # v
  /\ name' = [name EXCEPT ![s] = v]
  /\ UNCHANGED <<vars, manual, wants, assigned, manualSlot>>
  /\ Refresh({})

SetSlot(n, v) ==
  /\ wants[n] # v
  /\ wants' = [wants EXCEPT ![n] = v]
  /\ UNCHANGED <<vars, manual, name, assigned, manualSlot>>
  /\ Refresh({})

\* assign: nodes dropped lose their edge, nodes taken leave their old slot.
Taken(s, ns) ==
  [x \in SlotElement |-> IF x = s THEN ns
                  ELSE Kept(assigned[x], {n \in Slottable : ~(n \in ToSet(ns) /\ manualSlot[n] = x)})]

Assign(s, ns) ==
  /\ assigned' = Taken(s, ns)
  /\ manualSlot' = [n \in Slottable |->
       CASE n \in ToSet(ns) -> s
         [] n \notin ToSet(ns) /\ n \in ToSet(assigned[s]) /\ manualSlot[n] = s -> None
         [] OTHER -> manualSlot[n]]
  /\ UNCHANGED <<vars, manual, name, wants>>
  /\ Refresh({})
-----------------------------------------------------------------------------
(* The notification.                                                        *)

\* Mutant: signals that come while the last ones are fired are dropped with them.
DeliverTwice ==
  /\ signals # {}
  /\ firing' = signals
  /\ signals' = {}
  /\ UNCHANGED <<vars, manual, name, wants, assigned, manualSlot, rows, view, changed>>

Deliver ==
  /\ firing = {} /\ signals # {}
  /\ firing' = signals
  /\ signals' = {}
  /\ UNCHANGED <<vars, manual, name, wants, assigned, manualSlot, rows, view, changed>>

Fire(s) ==
  /\ s \in firing
  /\ firing' = firing \ {s}
  /\ changed' = changed \ {s}
  /\ UNCHANGED <<vars, manual, name, wants, assigned, manualSlot, rows, signals, view>>

SlotsInit ==
  /\ Init
  /\ manual = {}
  /\ name = [s \in SlotElement |-> Unnamed]
  /\ wants = [n \in Slottable |-> Unnamed]
  /\ assigned = [s \in SlotElement |-> <<>>]
  /\ manualSlot = [n \in Slottable |-> None]
  /\ rows = [r \in Fragment |-> <<>>]
  /\ signals = {}
  /\ firing = {}
  /\ view = [s \in SlotElement |-> View(s)]
  /\ changed = {}

\* Bound: names change while all roots read names, lists while all read lists.
ByName == Roots # {} /\ manual = {}
ByHand == Roots # {} /\ manual = Roots

Call ==
  \/ \E h \in DOMAIN Host \cap created, byHand \in BOOLEAN : Attach(h, Host[h], byHand)
  \/ \E c \in DOMAIN Homes \cap created : \E p \in Homes[c] \cap created :
       \/ \E ref \in {None} \cup ToSet(children[p]) : Insert(p, c, ref)
       \/ Replace(p, <<c>>)
  \/ \E c \in DOMAIN Homes \cap created, p \in Container \cap created : TakeOut(p, c)
  \/ ByName /\ \E s \in Renamed, v \in Name : SetName(s, v)
  \/ ByName /\ \E n \in Slotted, v \in Name : SetSlot(n, v)
  \/ ByHand /\ \E s \in SlotElement, ns \in BoundedSeq(Slotted, MaxArgs) :
                  IsInjective(ns) /\ Assign(s, ns)

SlotsNext == Call \/ Deliver \/ \E s \in SlotElement : Fire(s)

\* A checkpoint runs the microtasks that wait, and fire always comes back.
SlotsSpec ==
  /\ SlotsInit /\ [][SlotsNext]_slotAll
  /\ WF_slotAll(Deliver) /\ \A s \in SlotElement : WF_slotAll(Fire(s))
-----------------------------------------------------------------------------
\* No change goes unsignalled: a slot that shows other nodes than its
\* listeners last heard of, however the tree, names and lists came to that,
\* waits for a notification or is in the running one.
NobodyMissesAChange == changed \subseteq signals \cup firing

\* The flat tree reads the same from above and from below: a node has one
\* parent in it, which lists it once, or is not in it.  Layout and focus walk
\* it both ways, over lists that assign() leaves behind for nodes and slots
\* wherever they go.
FlatTreeAgrees ==
  LET below == [n \in Node |-> ComposedChildren(n)]
      above == [n \in Node |-> ComposedParent(n)]
      nodes == {n \in Node : hostOf[n] = None}
  IN  \A p \in nodes :
        /\ IsInjective(below[p])
        /\ {n \in nodes : above[n] = p} = ToSet(below[p])

\* And every change comes to be heard, whatever the listeners do.
ChangesAreHeard == \A s \in SlotElement : s \in changed ~> s \notin changed

=============================================================================
