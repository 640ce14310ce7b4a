--------------------------- MODULE TopLayerProofs ---------------------------
(***************************************************************************)
(* Proofs about TopLayer: for every number of popovers and dialogs, however *)
(* they are nested, and however deep script calls operations from inside    *)
(* the events of others.  No bound on calls is used.                        *)
(***************************************************************************)
EXTENDS TopLayer, ListFacts

-----------------------------------------------------------------------------
(* The invariant.                                                           *)

Showing == {"show", "rivals", "hide"}    \* popover steps guarded by `busy`
Closing == {"close", "refocus"}
Asking == {"cancel", "request"}

PopoverKind == {"auto", "hint", "manual"}
Suspensions(kinds, nodes, args) ==
  [do : kinds, node : nodes, script : {TRUE}, rest : {<<>>}, arg : args]
Loops(kinds, nodes, rests, args) ==
  [do : kinds, node : nodes, script : {FALSE}, rest : rests, arg : args]

Frame ==
       Suspensions({"show", "hide"}, Popover, {0})
  \cup Loops({"rivals"}, Popover, Seq(Popover), PopoverKind)
  \cup Loops({"attribute"}, Popover, {<<>>}, PopoverKind \cup {"none"})
  \cup Suspensions({"dialog"}, Dialog, BOOLEAN)
  \cup Loops({"unrelated"}, Dialog, Seq(Popover), {0})
  \cup Suspensions({"cancel"} \cup Closing, Dialog, {0})
  \cup Suspensions({"request"}, Dialog, [prevents : BOOLEAN, id : Nat])
  \cup Loops({"group"}, {NoNode}, Seq(Node), [Node -> Nat])
  \cup Loops({"group"}, {NoNode}, {<<>>}, {NoNode})
  \cup Loops({"dismiss"}, Node \cup {NoNode}, Seq(Popover), {0})

\* The frames of s that do one of K are for the nodes of G, one each.
Holds(s, K, G) ==
  /\ \A k \in DOMAIN s : s[k].do \in K => s[k].node \in G
  /\ \A n \in G : \E k \in DOMAIN s : s[k].do \in K /\ s[k].node = n
  /\ \A j, k \in DOMAIN s :
       s[j].do \in K /\ s[k].do \in K /\ s[j].node = s[k].node => j = k

\* User input starts on an empty stack; a change of the attribute waits under
\* the hiding it asked for.
Nested(s) ==
  \A k \in DOMAIN s :
    /\ s[k].do \in {"group", "dismiss"} => k = 1
    /\ s[k].do = "request" => k = 1 \/ (k = 2 /\ s[1].do = "group")
    /\ s[k].do = "attribute" /\ k # Len(s) =>
         s[k + 1].do = "hide" /\ s[k + 1].node = s[k].node

\* What is on its way to be shown does not show.
Unshown(s, nodes) ==
  \A k \in DOMAIN s :
    \/ s[k].do \in {"show", "rivals"}
    \/ s[k].do = "attribute" /\ k = Len(s)
    => s[k].node \notin nodes

\* Of those an Esc set out to ask, the ones that are left have their turn: w are
\* the watchers, i their numbers, m the last one given.  (A cancel event that was
\* canceled leaves the rest alone: no list and no number is kept.)
Remaining(s, w, i, m) ==
  s # <<>> /\ s[1].do = "group" /\ (s[1].arg # NoNode \/ s[1].rest # <<>>) =>
    /\ \A n \in Node : s[1].arg[n] <= m
    /\ \A n \in w : s[1].arg[n] = i[n] =>
         \/ n \in ToSet(s[1].rest)
         \/ /\ Len(s) > 1 /\ s[2].do = "request"
            /\ s[2].node = n /\ s[2].arg.id = i[n]

Sound(s, b, c, q, shown) ==
  /\ s \in Seq(Frame)
  /\ Holds(s, Showing, b) /\ Holds(s, Closing, c) /\ Holds(s, Asking, q)
  /\ Nested(s) /\ Unshown(s, shown)

Entry == [node : Popover, kind : PopoverKind]

\* Popovers, where they are and which of them show.
ShownOnce == \A j, k \in DOMAIN open : open[j].node = open[k].node => j = k
Fitting == \A p \in Shown : Connected(p) /\ (kind[p] = "none" => p \in busy)
Placed ==
  /\ attached \subseteq Node
  /\ kind \in [Popover -> PopoverKind \cup {"none"}]
  /\ open \in Seq(Entry) /\ busy \subseteq Popover
  /\ ShownOnce /\ Fitting

\* What toggle events tell, and in any case that what is pending began where
\* the last one ended.
Toggling ==
  /\ pending \in [Node -> [old : BOOLEAN, new : BOOLEAN, task : Nat]]
  /\ tasks \subseteq Node \X (Nat \ {0}) /\ nextTask \in Nat
  /\ told \in [Node -> BOOLEAN] /\ unsaid \subseteq Node
  /\ \A n \in Node : pending[n] # NoToggle => pending[n].task # 0 /\ pending[n].old = told[n]
  /\ \A n \in unsaid : pending[n] # NoToggle
  /\ TogglesTellTheState

DialogTypes ==
  /\ opened \subseteq Dialog /\ openDialogs \in Seq(Dialog)
  /\ closing \subseteq Dialog /\ canceling \subseteq Dialog

\* Groups, and who has a watcher in them.
Sole(gs) ==
  \A i, j \in DOMAIN gs : \A a \in DOMAIN gs[i], b \in DOMAIN gs[j] :
    gs[i][a] = gs[j][b] /\ gs[i][a] \in Popover => i = j /\ a = b
Grouped ==
  /\ groups \in Seq(Seq(Node)) /\ <<>> \notin ToSet(groups) /\ Sole(groups)
  /\ ids \in [Node -> Nat] /\ nextId \in Nat /\ allowed \in Nat \ {0}
  /\ \A n \in Node : ids[n] <= nextId
Owned ==
  /\ \A n \in Node : ids[n] # 0 <=> n \in Watchers
  /\ Watchers \cap Popover \subseteq AutoShown
  /\ AutoShown \ Watchers \subseteq busy
  /\ Watchers \cap Dialog \subseteq ToSet(openDialogs)

TopLayerInv ==
  /\ Placed /\ Toggling /\ DialogTypes /\ Grouped /\ Owned
  /\ Sound(stack, busy, closing, canceling, Shown)
  /\ Remaining(stack, Watchers, ids, nextId)

-----------------------------------------------------------------------------
(* The stack of operations: Holds, Nested and Unshown under push and pop.   *)

\* What a suspended operation holds, by what it does.
LEMMA FrameFields ==
  ASSUME NEW f \in Frame
  PROVE  /\ f = [do |-> f.do, node |-> f.node, script |-> f.script,
                 rest |-> f.rest, arg |-> f.arg]
         /\ f.rest \in Seq(Node) /\ f.node \in Node \cup {NoNode}
         /\ f.do \in {"show", "hide", "rivals", "attribute"} => f.node \in Popover
         /\ f.do \in {"dialog", "unrelated", "close", "refocus", "cancel", "request"} =>
              f.node \in Dialog
         /\ f.do \in {"rivals", "unrelated", "dismiss"} => f.rest \in Seq(Popover)
         /\ f.do = "rivals" => f.arg \in PopoverKind
         /\ f.do = "attribute" => f.arg \in PopoverKind \cup {"none"}
         /\ f.do = "group" => f.node = NoNode
         /\ f.do = "group" /\ (f.arg # NoNode \/ f.rest # <<>>) => f.arg \in [Node -> Nat]
         /\ f.do = "request" => f.arg \in [prevents : BOOLEAN, id : Nat]
         /\ f.do = "dialog" => f.arg \in BOOLEAN
         /\ f.script <=> f.do \notin {"rivals", "attribute", "unrelated", "group", "dismiss"}
<1>1. \A s \in Seq(Popover) : s \in Seq(Node)
  BY DEF Node
<1>2. <<>> \in Seq(Node)
  OBVIOUS
<1>3. Popover \subseteq Node /\ Dialog \subseteq Node
  BY DEF Node
<1> QED
  BY <1>1, <1>2, <1>3 DEF Frame, Suspensions, Loops, Closing

\* A guard and the stack agree after an operation begins (the guard is taken with it).
LEMMA HoldsPushed ==
  ASSUME NEW s \in Seq(Frame), NEW f \in Frame, NEW K, NEW G,
         Holds(s, K, G), f.do \in K => f.node \notin G
  PROVE  Holds(Append(s, f), K, IF f.do \in K THEN G \cup {f.node} ELSE G)
<1> DEFINE t == Append(s, f)
           H == IF f.do \in K THEN G \cup {f.node} ELSE G
<1>1. /\ Len(s) \in Nat /\ DOMAIN s = 1..Len(s)
      /\ DOMAIN t = 1..(Len(s) + 1)
      /\ \A k \in 1..Len(s) : t[k] = s[k]
      /\ t[Len(s) + 1] = f
  BY Pushed
<1> HIDE DEF t
<1>2. \A k \in DOMAIN t : (k \in DOMAIN s /\ t[k] = s[k]) \/ (k = Len(s) + 1 /\ t[k] = f)
  BY <1>1
<1>3. \A k \in DOMAIN s : k \in DOMAIN t /\ t[k] = s[k] /\ k # Len(s) + 1
  BY <1>1
<1>4. Len(s) + 1 \in DOMAIN t
  BY <1>1
<1>5. \A k \in DOMAIN t : t[k].do \in K => t[k].node \in H
  BY <1>2 DEF Holds
<1>6. \A n \in H : \E k \in DOMAIN t : t[k].do \in K /\ t[k].node = n
  <2> SUFFICES ASSUME NEW n \in H
               PROVE  \E k \in DOMAIN t : t[k].do \in K /\ t[k].node = n
    OBVIOUS
  <2>1. CASE n \in G
    <3>1. PICK k \in DOMAIN s : s[k].do \in K /\ s[k].node = n
      BY <2>1 DEF Holds
    <3> QED BY <3>1, <1>3
  <2>2. CASE n \notin G
    BY <2>2, <1>1, <1>4
  <2> QED BY <2>1, <2>2
<1>7. \A j, k \in DOMAIN t :
        t[j].do \in K /\ t[k].do \in K /\ t[j].node = t[k].node => j = k
  BY <1>2 DEF Holds
<1> QED
  BY <1>5, <1>6, <1>7 DEF Holds, t

\* A guard and the stack agree after an operation ends (the guard is released with it).
LEMMA HoldsPopped ==
  ASSUME NEW s \in Seq(Frame), s # <<>>, NEW K, NEW G, Holds(s, K, G)
  PROVE  Holds(Front(s), K, IF Last(s).do \in K THEN G \ {Last(s).node} ELSE G)
<1> DEFINE t == Front(s)
           f == Last(s)
           H == IF f.do \in K THEN G \ {f.node} ELSE G
<1>1. /\ Len(s) \in Nat \ {0} /\ DOMAIN s = 1..Len(s)
      /\ DOMAIN t = 1..(Len(s) - 1)
      /\ \A k \in 1..(Len(s) - 1) : t[k] = s[k]
      /\ s[Len(s)] = f
  BY Popped
<1> HIDE DEF t, f
<1>2. \A k \in DOMAIN t : k \in DOMAIN s /\ t[k] = s[k] /\ k # Len(s)
  BY <1>1
<1>3. \A k \in DOMAIN s : k = Len(s) \/ (k \in DOMAIN t /\ t[k] = s[k])
  BY <1>1
<1>4. Len(s) \in DOMAIN s
  BY <1>1
<1>5. \A k \in DOMAIN t : t[k].do \in K => t[k].node \in H
  BY <1>1, <1>2, <1>4 DEF Holds
<1>6. \A n \in H : \E k \in DOMAIN t : t[k].do \in K /\ t[k].node = n
  <2> SUFFICES ASSUME NEW n \in H
               PROVE  \E k \in DOMAIN t : t[k].do \in K /\ t[k].node = n
    OBVIOUS
  <2>1. PICK k \in DOMAIN s : s[k].do \in K /\ s[k].node = n
    BY DEF Holds
  <2> QED BY <2>1, <1>1, <1>3
<1>7. \A j, k \in DOMAIN t :
        t[j].do \in K /\ t[k].do \in K /\ t[j].node = t[k].node => j = k
  BY <1>2 DEF Holds
<1> QED
  BY <1>5, <1>6, <1>7 DEF Holds, t, f

\* A stack stays sound when an operation is put on it.
LEMMA SoundPushed ==
  ASSUME NEW s, NEW b, NEW c, NEW q, NEW shown, NEW f \in Frame,
         Sound(s, b, c, q, shown),
         f.do \in Showing => f.node \notin b,
         f.do \in Closing => f.node \notin c,
         f.do \in Asking => f.node \notin q,
         f.do \in {"group", "dismiss"} => s = <<>>,
         f.do = "request" => s = <<>> \/ (Len(s) = 1 /\ s[1].do = "group"),
         s # <<>> /\ Last(s).do = "attribute" => f.do = "hide" /\ f.node = Last(s).node,
         f.do \in {"show", "rivals", "attribute"} => f.node \notin shown
  PROVE  Sound(Append(s, f), IF f.do \in Showing THEN b \cup {f.node} ELSE b,
               IF f.do \in Closing THEN c \cup {f.node} ELSE c,
               IF f.do \in Asking THEN q \cup {f.node} ELSE q, shown)
<1> DEFINE t == Append(s, f)
<1>1. s \in Seq(Frame)
  BY DEF Sound
<1>2. /\ Holds(t, Showing, IF f.do \in Showing THEN b \cup {f.node} ELSE b)
      /\ Holds(t, Closing, IF f.do \in Closing THEN c \cup {f.node} ELSE c)
      /\ Holds(t, Asking, IF f.do \in Asking THEN q \cup {f.node} ELSE q)
  BY <1>1, HoldsPushed DEF Sound
<1>3. /\ t \in Seq(Frame) /\ Len(t) = Len(s) + 1
      /\ Len(s) \in Nat /\ DOMAIN s = 1..Len(s)
      /\ DOMAIN t = 1..(Len(s) + 1)
      /\ \A k \in 1..Len(s) : t[k] = s[k]
      /\ t[Len(s) + 1] = f
  BY <1>1, Pushed
<1> HIDE DEF t
<1>4. \A k \in DOMAIN t : (k \in DOMAIN s /\ t[k] = s[k]) \/ (k = Len(s) + 1 /\ t[k] = f)
  BY <1>3
<1>5. Nested(t)
  <2> SUFFICES ASSUME NEW k \in DOMAIN t
               PROVE  /\ t[k].do \in {"group", "dismiss"} => k = 1
                      /\ t[k].do = "request" => k = 1 \/ (k = 2 /\ t[1].do = "group")
                      /\ t[k].do = "attribute" /\ k # Len(t) =>
                           t[k + 1].do = "hide" /\ t[k + 1].node = t[k].node
    BY DEF Nested
  <2>0. Nested(s)
    BY DEF Sound
  <2>1. CASE k = Len(s) + 1
    <3>1. s = <<>> => Len(s) = 0
      OBVIOUS
    <3>2. Len(s) = 1 => t[1] = s[1]
      BY <1>3
    <3> QED BY <1>3, <2>1, <3>1, <3>2
  <2>2. CASE k \in DOMAIN s /\ k # Len(s)
    <3>1. t[k] = s[k] /\ t[k + 1] = s[k + 1] /\ t[1] = s[1]
      BY <1>3, <2>2
    <3> QED BY <2>0, <2>2, <3>1 DEF Nested
  <2>3. CASE k \in DOMAIN s /\ k = Len(s)
    <3>1. t[k] = s[k] /\ t[k + 1] = f /\ t[1] = s[1] /\ Last(s) = s[k] /\ s # <<>>
      BY <1>3, <2>3 DEF Last
    <3> QED BY <2>0, <2>3, <3>1 DEF Nested
  <2> QED BY <1>4, <2>1, <2>2, <2>3
<1>6. Unshown(t, shown)
  <2>1. Unshown(s, shown)
    BY DEF Sound
  <2>2. \A k \in DOMAIN s : t[k].do = "attribute" => k # Len(t)
    BY <1>3
  <2> QED BY <1>3, <1>4, <2>1, <2>2 DEF Unshown
<1> QED
  BY <1>2, <1>3, <1>5, <1>6 DEF Sound, t

\* What lies under the top is not a change of the attribute, unless the top
\* hides the popover for it.
LEMMA BelowTop ==
  ASSUME NEW s \in Seq(Frame), Nested(s), Len(s) > 1, s[Len(s) - 1].do = "attribute"
  PROVE  Last(s).do = "hide" /\ Last(s).node = s[Len(s) - 1].node
<1>1. Len(s) - 1 \in DOMAIN s /\ Len(s) - 1 # Len(s) /\ (Len(s) - 1) + 1 = Len(s)
  OBVIOUS
<1> QED
  BY <1>1 DEF Nested, Last

\* A stack stays sound when the operation on top of it ends.
LEMMA SoundPopped ==
  ASSUME NEW s, NEW b, NEW c, NEW q, NEW shown, s # <<>>,
         Sound(s, b, c, q, shown),
         Last(s).do = "hide" => Last(s).node \notin shown
  PROVE  /\ Sound(Front(s), IF Last(s).do \in Showing THEN b \ {Last(s).node} ELSE b,
                  IF Last(s).do \in Closing THEN c \ {Last(s).node} ELSE c,
                  IF Last(s).do \in Asking THEN q \ {Last(s).node} ELSE q, shown)
         /\ Last(s).do # "hide" /\ Front(s) # <<>> => Last(Front(s)).do # "attribute"
<1> DEFINE t == Front(s)
           f == Last(s)
<1>1. s \in Seq(Frame)
  BY DEF Sound
<1>2. /\ Holds(t, Showing, IF f.do \in Showing THEN b \ {f.node} ELSE b)
      /\ Holds(t, Closing, IF f.do \in Closing THEN c \ {f.node} ELSE c)
      /\ Holds(t, Asking, IF f.do \in Asking THEN q \ {f.node} ELSE q)
  BY <1>1, HoldsPopped DEF Sound
<1>3. /\ t \in Seq(Frame)
      /\ Len(s) \in Nat \ {0} /\ DOMAIN s = 1..Len(s)
      /\ Len(t) = Len(s) - 1 /\ DOMAIN t = 1..(Len(s) - 1)
      /\ \A k \in 1..(Len(s) - 1) : t[k] = s[k]
      /\ t # <<>> => Last(t) = s[Len(s) - 1] /\ Len(s) > 1
  BY <1>1, Popped
<1> HIDE DEF t
<1>4. \A k \in DOMAIN t : k \in DOMAIN s /\ t[k] = s[k] /\ k # Len(s)
  BY <1>3
<1>0. Nested(s) /\ Unshown(s, shown)
  BY DEF Sound
<1>5. Nested(t)
  <2> SUFFICES ASSUME NEW k \in DOMAIN t
               PROVE  /\ t[k].do \in {"group", "dismiss"} => k = 1
                      /\ t[k].do = "request" => k = 1 \/ (k = 2 /\ t[1].do = "group")
                      /\ t[k].do = "attribute" /\ k # Len(t) =>
                           t[k + 1].do = "hide" /\ t[k + 1].node = t[k].node
    BY DEF Nested
  <2>1. t[1] = s[1] /\ k \in DOMAIN s /\ t[k] = s[k] /\ k # Len(s)
    BY <1>3, <1>4
  <2>2. k # Len(t) => t[k + 1] = s[k + 1]
    BY <1>3
  <2> QED BY <1>0, <2>1, <2>2 DEF Nested
<1>6. t # <<>> /\ Last(t).do = "attribute" => f.do = "hide" /\ f.node = Last(t).node
  BY <1>0, <1>1, <1>3, BelowTop
<1>7. Unshown(t, shown)
  <2> SUFFICES ASSUME NEW k \in DOMAIN t,
                      t[k].do \in {"show", "rivals"} \/ (t[k].do = "attribute" /\ k = Len(t))
               PROVE  t[k].node \notin shown
    BY DEF Unshown
  <2>1. CASE t[k].do \in {"show", "rivals"}
    BY <2>1, <1>0, <1>4 DEF Unshown
  <2>2. CASE t[k].do = "attribute" /\ k = Len(t)
    <3>1. t # <<>> /\ Last(t) = t[k]
      BY <1>3, <2>2
    <3> QED BY <2>2, <3>1, <1>6
  <2> QED BY <2>1, <2>2
<1> QED
  BY <1>2, <1>3, <1>5, <1>6, <1>7 DEF Sound, t

\* A stack stays sound when only the lists of its operations change.
LEMMA SoundSame ==
  ASSUME NEW s, NEW b, NEW c, NEW q, NEW shown, Sound(s, b, c, q, shown),
         NEW t \in Seq(Frame), Len(t) = Len(s),
         \A k \in DOMAIN s : t[k].do = s[k].do /\ t[k].node = s[k].node
  PROVE  Sound(t, b, c, q, shown)
<1>1. s \in Seq(Frame) /\ DOMAIN t = DOMAIN s /\ DOMAIN s = 1..Len(s)
  BY DEF Sound
<1>2. \A K, G : Holds(s, K, G) => Holds(t, K, G)
  BY <1>1 DEF Holds
<1>3. Nested(t)
  <2>1. \A k \in DOMAIN s : k # Len(s) => k + 1 \in DOMAIN s
    BY <1>1
  <2>2. \A k \in DOMAIN s : 1 \in DOMAIN s
    BY <1>1
  <2> QED BY <1>1, <2>1, <2>2 DEF Sound, Nested
<1>4. Unshown(t, shown)
  BY <1>1 DEF Sound, Unshown
<1> QED
  BY <1>2, <1>3, <1>4 DEF Sound

\* A stack stays sound when what newly shows is not on its way to.
LEMMA SoundShown ==
  ASSUME NEW s, NEW b, NEW c, NEW q, NEW shown, Sound(s, b, c, q, shown),
         NEW S, \A n \in S \ shown : /\ n \notin b
                                     /\ s # <<>> => Last(s).do # "attribute"
  PROVE  Sound(s, b, c, q, S)
<1>1. s \in Seq(Frame) /\ Holds(s, Showing, b) /\ Unshown(s, shown)
  BY DEF Sound
<1>2. Unshown(s, S)
  <2> SUFFICES ASSUME NEW k \in DOMAIN s,
                      s[k].do \in {"show", "rivals"} \/ (s[k].do = "attribute" /\ k = Len(s)),
                      s[k].node \in S
               PROVE  FALSE
    BY DEF Unshown
  <2>1. s[k].node \notin shown
    BY <1>1 DEF Unshown
  <2>2. s[k].do \in {"show", "rivals"} => s[k].node \in b
    BY <1>1 DEF Holds, Showing
  <2>3. k = Len(s) => s # <<>> /\ Last(s) = s[k]
    BY <1>1 DEF Last
  <2> QED BY <2>1, <2>2, <2>3
<1> QED
  BY <1>2 DEF Sound

-----------------------------------------------------------------------------
(* Open popovers and groups of watchers, as their helpers change them.      *)

\* Who shows, and who shows with light dismiss, read off the list of open popovers.
LEMMA ShownAreEntries ==
  ASSUME open \in Seq(Entry)
  PROVE  /\ \A n : n \in Shown <=> \E k \in DOMAIN open : open[k].node = n
         /\ \A n : n \in AutoShown <=>
              \E k \in DOMAIN open : open[k].node = n /\ open[k].kind # "manual"
         /\ Shown \subseteq Popover /\ AutoShown \subseteq Shown
<1>1. \A k \in DOMAIN open : open[k] \in Entry
  OBVIOUS
<1> QED
  BY <1>1 DEF Shown, AutoShown, ToSet, Entry

\* Taking entries off the list of open popovers (`open.retain`).
LEMMA Concealed ==
  ASSUME open \in Seq(Entry), ShownOnce, NEW S, Conceal(S)
  PROVE  /\ open' \in Seq(Entry) /\ ShownOnce'
         /\ Shown' = Shown \ S /\ AutoShown' = AutoShown \ S
<1> DEFINE T == {e \in ToSet(open) : e.node \notin S}
<1>1. open' = Kept(open, T)
  BY DEF Conceal
<1>2. open' \in Seq(Entry)
  BY <1>1, KeptPicks
<1>3. PICK e : Picks(open', open, Len(open), T, e)
  BY <1>1, KeptPicks
<1>4. ToSet(open') = ToSet(open) \cap T
  BY <1>1, KeptMembers
<1>5. Shown' = Shown \ S /\ AutoShown' = AutoShown \ S
  BY <1>4 DEF Shown, AutoShown
<1>6. /\ DOMAIN open = 1..Len(open) /\ DOMAIN open' = 1..Len(open')
      /\ Len(open') \in Nat
  BY <1>2
<1>7. \A k \in DOMAIN open' : e[k] \in DOMAIN open /\ open'[k] = open[e[k]]
  BY <1>3, <1>6 DEF Picks
<1>8. \A j, k \in DOMAIN open' : e[j] = e[k] => j = k
  <2>1. \A j, k \in DOMAIN open' : j < k \/ k < j \/ j = k
    BY <1>6
  <2>2. \A j, k \in DOMAIN open' : j < k => e[j] # e[k]
    BY <1>3, <1>6, <1>7 DEF Picks
  <2> QED BY <2>1, <2>2
<1>9. ShownOnce'
  BY <1>7, <1>8 DEF ShownOnce
<1> QED
  BY <1>2, <1>5, <1>9

\* Adding one entry to the list of open popovers.
LEMMA Revealed ==
  ASSUME open \in Seq(Entry), ShownOnce, NEW p \in Popover, p \notin Shown,
         NEW k \in PopoverKind, open' = Append(open, [node |-> p, kind |-> k])
  PROVE  /\ open' \in Seq(Entry) /\ ShownOnce'
         /\ Shown' = Shown \cup {p}
         /\ AutoShown' = IF k = "manual" THEN AutoShown ELSE AutoShown \cup {p}
<1> DEFINE f == [node |-> p, kind |-> k]
<1>1. f \in Entry /\ f.node = p /\ f.kind = k
  BY DEF Entry
<1> HIDE DEF f
<1>2. /\ open' \in Seq(Entry)
      /\ Len(open) \in Nat /\ DOMAIN open = 1..Len(open)
      /\ DOMAIN open' = 1..(Len(open) + 1)
      /\ \A j \in 1..Len(open) : open'[j] = open[j]
      /\ open'[Len(open) + 1] = f
  BY <1>1, Pushed DEF f
<1>3. \A j \in DOMAIN open' : (j \in DOMAIN open /\ open'[j] = open[j])
                              \/ (j = Len(open) + 1 /\ open'[j] = f)
  BY <1>2
<1>4. \A j \in DOMAIN open : j \in DOMAIN open' /\ open'[j] = open[j] /\ open[j].node # p
  BY <1>2, ShownAreEntries
<1>5. Len(open) + 1 \in DOMAIN open'
  BY <1>2
<1>6. ShownOnce'
  BY <1>1, <1>3, <1>4 DEF ShownOnce
<1>7. ToSet(open') = ToSet(open) \cup {f}
  BY <1>2, <1>3, <1>4, <1>5 DEF ToSet
<1>8. Shown' = Shown \cup {p}
  BY <1>1, <1>7 DEF Shown
<1>9. AutoShown' = IF k = "manual" THEN AutoShown ELSE AutoShown \cup {p}
  BY <1>1, <1>7 DEF AutoShown
<1> QED
  BY <1>2, <1>6, <1>8, <1>9

-----------------------------------------------------------------------------
(* Close watchers.                                                          *)

\* A watcher of some group is at some place of it.
LEMMA InAGroup ==
  ASSUME NEW gs
  PROVE  \A n : n \in UNION {ToSet(g) : g \in ToSet(gs)} <=>
                  \E g \in DOMAIN gs : \E a \in DOMAIN gs[g] : gs[g][a] = n
BY DEF ToSet

\* The watchers are at the places of the groups.
LEMMA WatchersAreListed ==
  \A n : n \in Watchers <=>
           \E g \in DOMAIN groups : \E a \in DOMAIN groups[g] : groups[g][a] = n
BY DEF Watchers, ToSet

\* destroy: the watchers of S are gone, and groups that they leave empty.
LEMMA Destroyed ==
  ASSUME groups \in Seq(Seq(Node)), ids \in [Node -> Nat], Sole(groups),
         NEW S \in SUBSET Node, Destroy(S)
  PROVE  /\ groups' \in Seq(Seq(Node)) /\ <<>> \notin ToSet(groups') /\ Sole(groups')
         /\ Watchers' = Watchers \ S
         /\ ids' \in [Node -> Nat]
         /\ \A n \in Node : ids'[n] = IF n \in S THEN 0 ELSE ids[n]
<1> DEFINE left == [g \in DOMAIN groups |-> Without(groups[g], S)]
           M == [g \in DOMAIN groups |-> ToSet(groups[g]) \ S]
           E == [g \in DOMAIN groups |->
                   CHOOSE e : Picks(left[g], groups[g], Len(groups[g]), M[g], e)]
<1>0. groups' = Without(left, {<<>>}) /\ ids' = [n \in Node |-> IF n \in S THEN 0 ELSE ids[n]]
  BY DEF Destroy
<1>1. DOMAIN groups = 1..Len(groups) /\ Len(groups) \in Nat
  OBVIOUS
<1>2. ASSUME NEW g \in DOMAIN groups
      PROVE  /\ left[g] = Kept(groups[g], M[g])
             /\ left[g] \in Seq(Node)
             /\ ToSet(left[g]) = ToSet(groups[g]) \ S
             /\ Picks(left[g], groups[g], Len(groups[g]), M[g], E[g])
  <2>1. groups[g] \in Seq(Node)
    OBVIOUS
  <2>2. left[g] = Kept(groups[g], M[g])
    BY DEF Without
  <2> HIDE DEF left
  <2>3. left[g] \in Seq(Node) /\ \E e : Picks(left[g], groups[g], Len(groups[g]), M[g], e)
    BY <2>1, <2>2, KeptPicks
  <2>4. ToSet(left[g]) = ToSet(groups[g]) \cap M[g]
    BY <2>1, <2>2, KeptMembers
  <2>5. Picks(left[g], groups[g], Len(groups[g]), M[g], E[g])
    BY <2>2, <2>3
  <2> QED BY <2>2, <2>3, <2>4, <2>5
<1>3. left \in Seq(Seq(Node)) /\ DOMAIN left = DOMAIN groups /\ Len(left) = Len(groups)
  <2>1. left \in [1..Len(groups) -> Seq(Node)]
    BY <1>1, <1>2
  <2> QED BY <1>1, <2>1
<1> HIDE DEF left
<1>4. ASSUME NEW i \in DOMAIN left, NEW j \in DOMAIN left,
             NEW a \in DOMAIN left[i], NEW b \in DOMAIN left[j],
             left[i][a] = left[j][b], left[i][a] \in Popover
      PROVE  i = j /\ a = b
  <2>1. \A g \in DOMAIN left : \A k \in DOMAIN left[g] :
          E[g][k] \in DOMAIN groups[g] /\ left[g][k] = groups[g][E[g][k]]
    <3> SUFFICES ASSUME NEW g \in DOMAIN left, NEW k \in DOMAIN left[g]
                 PROVE  E[g][k] \in DOMAIN groups[g] /\ left[g][k] = groups[g][E[g][k]]
      OBVIOUS
    <3>0. left[g] \in Seq(Node) /\ groups[g] \in Seq(Node)
      BY <1>3
    <3>1. DOMAIN left[g] = 1..Len(left[g]) /\ DOMAIN groups[g] = 1..Len(groups[g])
      BY <3>0
    <3>2. Picks(left[g], groups[g], Len(groups[g]), M[g], E[g])
      BY <1>2, <1>3
    <3> HIDE DEF E, M
    <3> QED BY <3>1, <3>2 DEF Picks
  <2> HIDE DEF E
  <2>a. /\ i \in DOMAIN groups /\ j \in DOMAIN groups
        /\ E[i][a] \in DOMAIN groups[i] /\ left[i][a] = groups[i][E[i][a]]
        /\ E[j][b] \in DOMAIN groups[j] /\ left[j][b] = groups[j][E[j][b]]
    BY <1>3, <2>1
  <2>2. i = j /\ E[i][a] = E[j][b]
    <3> DEFINE c == E[i][a] 
                 d == E[j][b]
    <3>2. /\ c \in DOMAIN groups[i] /\ d \in DOMAIN groups[j]
          /\ groups[i][c] = groups[j][d] /\ groups[i][c] \in Popover
      BY <1>4, <2>a
    <3> HIDE DEF c, d
    <3>3. i = j /\ c = d
      BY <2>a, <3>2 DEF Sole
    <3> QED BY <3>3 DEF c, d
  <2>3. Picks(left[i], groups[i], Len(groups[i]), M[i], E[i])
    BY <1>2, <1>3
  <2>0. left[i] \in Seq(Node)
    BY <1>3
  <2>4. DOMAIN left[i] = 1..Len(left[i]) /\ Len(left[i]) \in Nat
    BY <2>0
  <2>5. a < b \/ b < a \/ a = b
    BY <2>2, <2>4
  <2> HIDE DEF M
  <2>6. (\A k \in DOMAIN left[i] : E[i][k] \in Nat) /\ (a < b => E[i][a] < E[i][b]) /\ (b < a => E[i][b] < E[i][a])
    BY <2>2, <2>3, <2>4 DEF Picks
  <2> QED BY <2>2, <2>5, <2>6
<1>5. groups' \in Seq(Seq(Node)) /\ ToSet(groups') = ToSet(left) \ {<<>>}
  BY <1>0, <1>3, KeptPicks, KeptMembers DEF Without
<1>6. PICK e : Picks(groups', left, Len(left), ToSet(left) \ {<<>>}, e)
  BY <1>0, <1>3, KeptPicks DEF Without
<1>7. /\ DOMAIN groups' = 1..Len(groups') /\ Len(groups') \in Nat
      /\ DOMAIN left = 1..Len(left)
  BY <1>3, <1>5
<1>8. \A g \in DOMAIN groups' : e[g] \in DOMAIN left /\ groups'[g] = left[e[g]]
  BY <1>6, <1>7 DEF Picks
<1>9. \A i, j \in DOMAIN groups' : e[i] = e[j] => i = j
  <2>1. \A i, j \in DOMAIN groups' : i < j \/ j < i \/ i = j
    BY <1>7
  <2>2. \A i, j \in DOMAIN groups' : i < j => e[i] # e[j]
    BY <1>6, <1>7, <1>8 DEF Picks
  <2> QED BY <2>1, <2>2
<1>10. Sole(groups')
  BY <1>4, <1>8, <1>9 DEF Sole
<1>11. Watchers' = Watchers \ S
  <2>1. \A x : x \in Watchers' <=> \E g \in ToSet(groups') : x \in ToSet(g)
    BY DEF Watchers
  <2>2. \A x : x \in Watchers <=> \E i \in DOMAIN groups : x \in ToSet(groups[i])
    BY WatchersAreListed DEF ToSet
  <2>3. \A x, g : x \in ToSet(g) => g # <<>>
    BY DEF ToSet
  <2>4. \A g : g \in ToSet(left) <=> \E i \in DOMAIN groups : g = left[i]
    BY <1>3 DEF ToSet
  <2>5. \A i \in DOMAIN groups : \A x :
          x \in ToSet(left[i]) <=> x \in ToSet(groups[i]) /\ x \notin S
    BY <1>2
  <2>6. ASSUME NEW x
        PROVE  x \in Watchers' <=> \E i \in DOMAIN groups : x \in ToSet(left[i])
    BY <1>5, <2>1, <2>3, <2>4
  <2>7. \A x : x \in Watchers' <=> x \in Watchers /\ x \notin S
    BY <2>2, <2>5, <2>6
  <2> QED BY <2>7
<1> QED
  BY <1>0, <1>5, <1>10, <1>11

\* establish: one watcher more, in the last group or in a group of its own.
LEMMA Established ==
  ASSUME groups \in Seq(Seq(Node)), ids \in [Node -> Nat], Sole(groups),
         <<>> \notin ToSet(groups), allowed \in Nat \ {0}, nextId \in Nat,
         NEW w \in Node, w \in Popover => w \notin Watchers, Establish(w)
  PROVE  /\ groups' \in Seq(Seq(Node)) /\ <<>> \notin ToSet(groups') /\ Sole(groups')
         /\ Watchers' = Watchers \cup {w}
         /\ ids' \in [Node -> Nat]
         /\ \A n \in Node : ids'[n] = IF n = w THEN nextId + 1 ELSE ids[n]
         /\ nextId' = nextId + 1 /\ allowed' \in Nat \ {0}
<1> DEFINE n == Len(groups)
<1>0. n \in Nat /\ DOMAIN groups = 1..n /\ \A g \in 1..n : groups[g] \in Seq(Node)
  OBVIOUS
<1>1. /\ ids' \in [Node -> Nat] /\ nextId' = nextId + 1 /\ allowed' \in Nat \ {0}
      /\ \A m \in Node : ids'[m] = IF m = w THEN nextId + 1 ELSE ids[m]
  BY DEF Establish
<1>2. CASE n < allowed
  <2>1. groups' = Append(groups, <<w>>)
    BY <1>2 DEF Establish
  <2>2. <<w>> \in Seq(Node) /\ ToSet(<<w>>) = {w} /\ <<w>> # <<>>
        /\ DOMAIN <<w>> = {1} /\ <<w>>[1] = w
    BY DEF ToSet
  <2> DEFINE f == <<w>>
  <2> HIDE DEF f
  <2>3. /\ groups' \in Seq(Seq(Node)) /\ DOMAIN groups' = 1..(n + 1)
        /\ \A g \in 1..n : groups'[g] = groups[g]
        /\ groups'[n + 1] = f
    BY <1>0, <2>1, <2>2, Pushed DEF f
  <2>4. \A g \in DOMAIN groups' : (g \in DOMAIN groups /\ groups'[g] = groups[g])
                                  \/ (g = n + 1 /\ groups'[g] = f)
    BY <1>0, <2>3
  <2>5. (\A g \in DOMAIN groups : g \in DOMAIN groups') /\ n + 1 \in DOMAIN groups'
    BY <1>0, <2>3
  <2> HIDE DEF n
  <2>6. ToSet(groups') = ToSet(groups) \cup {f}
    BY <1>0, <2>3, <2>4, <2>5 DEF ToSet
  <2>7. Watchers' = Watchers \cup {w} /\ <<>> \notin ToSet(groups')
    BY <2>2, <2>6 DEF Watchers, f
  <2>8. Sole(groups')
    <3> SUFFICES ASSUME NEW i \in DOMAIN groups', NEW j \in DOMAIN groups',
                        NEW a \in DOMAIN groups'[i], NEW b \in DOMAIN groups'[j],
                        groups'[i][a] = groups'[j][b], groups'[i][a] \in Popover
                 PROVE  i = j /\ a = b
      BY DEF Sole
    <3>1. \A g \in DOMAIN groups : \A k \in DOMAIN groups[g] :
            w \in Popover => groups[g][k] # w
      BY WatchersAreListed
    <3>2. DOMAIN f = {1} /\ f[1] = w
      BY <2>2 DEF f
    <3> QED BY <2>4, <3>1, <3>2 DEF Sole
  <2> QED BY <1>1, <2>3, <2>7, <2>8
<1>3. CASE ~(n < allowed)
  <2>0. n \in DOMAIN groups
    BY <1>0, <1>3
  <2>1. groups' = [groups EXCEPT ![n] = Append(@, w)]
    BY <1>3 DEF Establish
  <2> DEFINE m == Len(groups[n])
  <2>2. /\ m \in Nat /\ DOMAIN groups[n] = 1..m
        /\ Append(groups[n], w) \in Seq(Node) /\ Append(groups[n], w) # <<>>
        /\ DOMAIN Append(groups[n], w) = 1..(m + 1)
        /\ \A k \in 1..m : Append(groups[n], w)[k] = groups[n][k]
        /\ Append(groups[n], w)[m + 1] = w
    BY <1>0, <2>0, Pushed
  <2> HIDE DEF m, n
  <2> DEFINE f == Append(groups[n], w)
  <2> HIDE DEF f
  <2>3. /\ groups' \in Seq(Seq(Node)) /\ DOMAIN groups' = DOMAIN groups
        /\ groups'[n] = f
        /\ \A g \in DOMAIN groups : g # n => groups'[g] = groups[g]
    BY <2>0, <2>1, <2>2 DEF f
  <2>4. \A k \in DOMAIN f : (k \in DOMAIN groups[n] /\ f[k] = groups[n][k])
                            \/ (k = m + 1 /\ f[k] = w)
    BY <2>2 DEF f
  <2>5. m + 1 \in DOMAIN f /\ f[m + 1] = w /\ f # <<>>
        /\ \A k \in DOMAIN groups[n] : k \in DOMAIN f /\ f[k] = groups[n][k]
    BY <2>2 DEF f
  <2>6. <<>> \notin ToSet(groups')
    BY <2>3, <2>5 DEF ToSet
  <2>7. Watchers' = Watchers \cup {w}
    <3>1. \A x : x \in Watchers' <=>
            \E g \in DOMAIN groups' : \E a \in DOMAIN groups'[g] : groups'[g][a] = x
      BY InAGroup DEF Watchers
    <3>2. ASSUME NEW x, x \in Watchers' PROVE x \in Watchers \cup {w}
      <4>1. PICK g \in DOMAIN groups' : \E a \in DOMAIN groups'[g] : groups'[g][a] = x
        BY <3>1, <3>2
      <4>2. CASE g = n
        BY <2>0, <2>3, <2>4, <4>1, <4>2, WatchersAreListed
      <4>3. CASE g # n
        BY <2>3, <4>1, <4>3, WatchersAreListed
      <4> QED BY <4>2, <4>3
    <3>3. ASSUME NEW x, x \in Watchers \cup {w} PROVE x \in Watchers'
      <4>1. CASE x = w
        BY <2>0, <2>3, <2>5, <3>1, <4>1
      <4>2. CASE x \in Watchers
        <5>1. PICK g \in DOMAIN groups : \E a \in DOMAIN groups[g] : groups[g][a] = x
          BY <4>2, WatchersAreListed
        <5>2. \E a \in DOMAIN groups'[g] : groups'[g][a] = x
          BY <2>3, <2>5, <5>1
        <5>3. g \in DOMAIN groups'
          BY <2>3
        <5> QED BY <3>1, <5>2, <5>3
      <4> QED BY <3>3, <4>1, <4>2
    <3> QED BY <3>2, <3>3
  <2>8. Sole(groups')
    <3> SUFFICES ASSUME NEW i \in DOMAIN groups', NEW j \in DOMAIN groups',
                        NEW a \in DOMAIN groups'[i], NEW b \in DOMAIN groups'[j],
                        groups'[i][a] = groups'[j][b], groups'[i][a] \in Popover
                 PROVE  i = j /\ a = b
      BY DEF Sole
    <3>1. \A g \in DOMAIN groups : \A k \in DOMAIN groups[g] :
            w \in Popover => groups[g][k] # w
      BY WatchersAreListed
    <3>2. i \in DOMAIN groups /\ j \in DOMAIN groups
      BY <2>3
    <3>3. ASSUME NEW g \in DOMAIN groups, NEW k \in DOMAIN groups'[g]
          PROVE  \/ k \in DOMAIN groups[g] /\ groups'[g][k] = groups[g][k]
                 \/ g = n /\ k = m + 1 /\ groups'[g][k] = w
      <4>1. CASE g = n
        <5>1. k \in DOMAIN f /\ groups'[g] = f
          BY <2>3, <4>1
        <5> QED BY <2>4, <4>1, <5>1
      <4>2. CASE g # n
        BY <2>3, <4>2
      <4> QED BY <4>1, <4>2
    <3>4. \/ a \in DOMAIN groups[i] /\ groups'[i][a] = groups[i][a]
          \/ i = n /\ a = m + 1 /\ groups'[i][a] = w
      BY <3>2, <3>3
    <3>5. \/ b \in DOMAIN groups[j] /\ groups'[j][b] = groups[j][b]
          \/ j = n /\ b = m + 1 /\ groups'[j][b] = w
      BY <3>2, <3>3
    <3> QED BY <3>1, <3>2, <3>4, <3>5 DEF Sole
  <2> QED BY <1>1, <2>3, <2>6, <2>7, <2>8
<1> QED
  BY <1>2, <1>3

-----------------------------------------------------------------------------
(* Toggle events.                                                           *)

\* Queueing a toggle event for a state that has just changed keeps what events tell.
LEMMA Queued ==
  ASSUME Toggling, NEW n \in Node, NEW old \in BOOLEAN, NEW new \in BOOLEAN,
         Queue(n, old, new), IsOpen(n) = old, IsOpen(n)' = new,
         \A m \in Node \ {n} : IsOpen(m)' = IsOpen(m)
  PROVE  Toggling'
<1> DEFINE q == pending'[n]
<1>1. pending[n] # NoToggle => pending[n].task # 0 /\ pending[n].old = told[n]
  BY DEF Toggling
<1>2. n \in unsaid => pending[n] # NoToggle
  BY DEF Toggling
<1>3. /\ pending' \in [Node -> [old : BOOLEAN, new : BOOLEAN, task : Nat]]
      /\ tasks' \subseteq Node \X (Nat \ {0}) /\ nextTask' \in Nat
      /\ told' = told /\ unsaid' = unsaid \ {n}
      /\ \A m \in Node \ {n} : pending'[m] = pending[m]
  BY DEF Toggling, Queue
<1>4. /\ q.new = new
      /\ q.task = IF pending[n] # NoToggle /\ n \in Popover THEN pending[n].task ELSE nextTask + 1
      /\ q.old = IF pending[n] # NoToggle THEN pending[n].old ELSE old
  BY DEF Toggling, Queue
<1>5. q.task # 0
  BY <1>1, <1>4 DEF Toggling
<1>6. q # NoToggle
  BY <1>5 DEF NoToggle
<1>7. pending[n] = NoToggle => told[n] = old
  BY <1>2 DEF Toggling, TogglesTellTheState
<1>8. q.old = told[n]
  BY <1>1, <1>4, <1>7
<1> HIDE DEF q
<1>9. \A m \in Node : pending'[m] # NoToggle =>
         pending'[m].task # 0 /\ pending'[m].old = told'[m]
  BY <1>3, <1>5, <1>8 DEF Toggling, q
<1>10. \A m \in unsaid' : pending'[m] # NoToggle
  BY <1>3 DEF Toggling
<1>11. TogglesTellTheState'
  <2> SUFFICES ASSUME NEW m \in Node \ unsaid'
               PROVE  IF pending'[m] = NoToggle THEN told'[m] = IsOpen(m)'
                      ELSE pending'[m].old = told'[m] /\ pending'[m].new = IsOpen(m)'
    BY Zenon DEF TogglesTellTheState
  <2>1. CASE m = n
    BY <1>3, <1>4, <1>6, <1>8, <2>1 DEF q
  <2>2. CASE m # n
    BY <1>3, <2>2 DEF Toggling, TogglesTellTheState
  <2> QED BY <2>1, <2>2
<1>12. told' \in [Node -> BOOLEAN] /\ unsaid' \subseteq Node
  BY <1>3 DEF Toggling
<1> QED
  BY <1>3, <1>9, <1>10, <1>11, <1>12 DEF Toggling

\* A state set without a toggle event is made up for by what is pending.
LEMMA NotTold ==
  ASSUME Toggling, NEW S \in SUBSET Node, NEW state \in BOOLEAN, Quietly(S, state),
         \A n \in S : IsOpen(n)' = state,
         \A n \in Node \ S : IsOpen(n)' = IsOpen(n)
  PROVE  Toggling'
<1>1. /\ pending' = pending /\ tasks' = tasks /\ nextTask' = nextTask
      /\ told' \in [Node -> BOOLEAN] /\ unsaid' \subseteq Node
      /\ \A n \in Node : told'[n] = IF n \in S /\ pending[n] = NoToggle THEN state ELSE told[n]
      /\ \A n \in Node : n \in unsaid' <=> n \in unsaid \/ (n \in S /\ pending[n] # NoToggle)
  BY DEF Toggling, Quietly
<1>2. TogglesTellTheState'
  <2> SUFFICES ASSUME NEW m \in Node \ unsaid'
               PROVE  IF pending[m] = NoToggle THEN told'[m] = IsOpen(m)'
                      ELSE pending[m].old = told'[m] /\ pending[m].new = IsOpen(m)'
    BY <1>1, Zenon DEF TogglesTellTheState
  <2>1. CASE m \in S
    BY <1>1, <2>1 DEF Toggling
  <2>2. CASE m \notin S
    BY <1>1, <2>2 DEF Toggling, TogglesTellTheState
  <2> QED BY <2>1, <2>2
<1>3. \A n \in Node : pending[n] # NoToggle =>
         pending[n].task # 0 /\ pending[n].old = told'[n]
  BY <1>1 DEF Toggling
<1>4. \A n \in unsaid' : pending[n] # NoToggle
  BY <1>1 DEF Toggling
<1> QED
  BY <1>1, <1>2, <1>3, <1>4 DEF Toggling

\* A toggle event tells the state it was queued with, and leaves nothing pending.
LEMMA Delivered ==
  ASSUME Toggling, NEW n \in Node, NEW task, Deliver(n, task)
  PROVE  Toggling'
<1>0. task # 0 /\ open' = open /\ opened' = opened
  BY DEF Toggling, Deliver, popovers, dialogs
<1>1. \A m \in Node : IsOpen(m)' = IsOpen(m)
  BY <1>0 DEF IsOpen, Shown, ToSet
<1>2. tasks' \subseteq Node \X (Nat \ {0}) /\ nextTask' \in Nat
  BY DEF Toggling, Deliver
<1>3. CASE pending[n].task = task
  <2>1. /\ pending' \in [Node -> [old : BOOLEAN, new : BOOLEAN, task : Nat]]
        /\ pending'[n] = NoToggle /\ \A m \in Node \ {n} : pending'[m] = pending[m]
        /\ unsaid' = unsaid \ {n}
    <3>1. NoToggle \in [old : BOOLEAN, new : BOOLEAN, task : Nat]
      BY DEF NoToggle
    <3>2. pending' = [pending EXCEPT ![n] = NoToggle] /\ unsaid' = unsaid \ {n}
      BY <1>3 DEF Deliver
    <3> QED BY <3>1, <3>2 DEF Toggling
  <2>2. pending[n] # NoToggle
    BY <1>0, <1>3 DEF NoToggle
  <2>3. n \notin unsaid => pending[n].new = IsOpen(n)
    BY <2>2 DEF Toggling, TogglesTellTheState
  <2>4. /\ told' \in [Node -> BOOLEAN]
        /\ \A m \in Node \ {n} : told'[m] = told[m]
    <3>1. IsOpen(n) \in BOOLEAN /\ pending[n].new \in BOOLEAN
      BY DEF Toggling, IsOpen
    <3>2. told' = [told EXCEPT ![n] = IF n \in unsaid THEN IsOpen(n) ELSE pending[n].new]
      BY <1>3 DEF Deliver
    <3> DEFINE v == IF n \in unsaid THEN IsOpen(n) ELSE pending[n].new
    <3>3. v \in BOOLEAN
      BY <3>1
    <3> HIDE DEF v
    <3>4. told' = [told EXCEPT ![n] = v]
      BY <3>2 DEF v
    <3> QED BY <3>3, <3>4 DEF Toggling
  <2>5. told'[n] = IsOpen(n)
    <3>1. told'[n] = IF n \in unsaid THEN IsOpen(n) ELSE pending[n].new
      BY <1>3, Zenon DEF Toggling, Deliver
    <3> QED BY <3>1, <2>3
  <2>6. TogglesTellTheState'
    <3> SUFFICES ASSUME NEW m \in Node \ unsaid'
                 PROVE  IF pending'[m] = NoToggle THEN told'[m] = IsOpen(m)'
                        ELSE pending'[m].old = told'[m] /\ pending'[m].new = IsOpen(m)'
      BY Zenon DEF TogglesTellTheState
    <3>1. CASE m = n
      BY <1>1, <2>1, <2>5, <3>1
    <3>2. CASE m # n
      BY <1>1, <2>1, <2>4, <3>2 DEF Toggling, TogglesTellTheState
    <3> QED BY <3>1, <3>2
  <2> QED BY <1>2, <2>1, <2>4, <2>6 DEF Toggling
<1>4. CASE pending[n].task # task
  <2>1. UNCHANGED <<pending, told, unsaid>>
    BY <1>4 DEF Deliver
  <2>2. TogglesTellTheState'
    BY <1>1, <2>1 DEF Toggling, TogglesTellTheState
  <2> QED BY <1>2, <2>1, <2>2 DEF Toggling
<1> QED
  BY <1>3, <1>4

\* Where no state changes, nothing has to be told.
LEMMA NothingToTell ==
  ASSUME Toggling, UNCHANGED <<toggles, open, opened>>
  PROVE  Toggling'
<1>1. \A m \in Node : IsOpen(m)' = IsOpen(m)
  BY DEF IsOpen, Shown, ToSet
<1> QED
  BY <1>1 DEF Toggling, TogglesTellTheState, toggles

-----------------------------------------------------------------------------
(* What an Esc still has to ask.                                            *)

\* An Esc still asks who is left when script begins another operation.
LEMMA RemainingPushed ==
  ASSUME NEW s \in Seq(Frame), NEW f \in Frame, NEW w, NEW i, NEW m, Remaining(s, w, i, m),
         f.do = "group" => s # <<>>
  PROVE  Remaining(Append(s, f), w, i, m)
<1> DEFINE t == Append(s, f)
<1>1. /\ Len(s) \in Nat /\ Len(t) = Len(s) + 1
      /\ \A k \in 1..Len(s) : t[k] = s[k]
      /\ t[Len(s) + 1] = f
  BY Pushed
<1> HIDE DEF t
<1>2. CASE s = <<>>
  <2>1. t[1] = f
    BY <1>1, <1>2
  <2> QED BY <1>2, <2>1 DEF Remaining, t
<1>3. CASE s # <<>>
  <2>1. Len(s) # 0
    BY <1>3, EmptySeq
  <2>2. t[1] = s[1] /\ (Len(s) > 1 => t[2] = s[2] /\ Len(t) > 1)
    BY <1>1, <2>1
  <2> QED BY <1>3, <2>2 DEF Remaining, t
<1> QED
  BY <1>2, <1>3

\* An Esc still asks who is left when another operation ends.
LEMMA RemainingPopped ==
  ASSUME NEW s \in Seq(Frame), s # <<>>, NEW w, NEW i, NEW m, Remaining(s, w, i, m),
         Last(s).do # "request"
  PROVE  Remaining(Front(s), w, i, m)
<1> SUFFICES ASSUME Front(s) # <<>> PROVE Remaining(Front(s), w, i, m)
  BY DEF Remaining
<1> DEFINE t == Front(s)
<1>1. /\ Len(s) \in Nat \ {0} /\ Len(t) = Len(s) - 1 /\ Len(s) > 1
      /\ \A k \in 1..(Len(s) - 1) : t[k] = s[k]
      /\ Last(s) = s[Len(s)]
  BY Popped
<1> HIDE DEF t
<1>2. t[1] = s[1]
  BY <1>1
<1>3. s[2].do = "request" => Len(t) > 1 /\ t[2] = s[2]
  BY <1>1
<1> QED
  BY <1>2, <1>3 DEF Remaining, t

\* An Esc still asks who is left when other lists get shorter.
LEMMA RemainingSame ==
  ASSUME NEW s \in Seq(Frame), NEW t \in Seq(Frame), Len(t) = Len(s),
         NEW w, NEW i, NEW m, Remaining(s, w, i, m),
         \A k \in DOMAIN s : /\ t[k].do = s[k].do /\ t[k].node = s[k].node
                             /\ t[k].arg = s[k].arg
                             /\ s[k].do = "group" => t[k].rest = s[k].rest
  PROVE  Remaining(t, w, i, m)
<1> SUFFICES ASSUME t # <<>> PROVE Remaining(t, w, i, m)
  BY DEF Remaining
<1>1. Len(t) # 0 /\ Len(t) \in Nat /\ s # <<>>
  BY EmptySeq
<1>2. 1 \in DOMAIN s /\ (Len(s) > 1 => 2 \in DOMAIN s)
  BY <1>1
<1> QED
  BY <1>1, <1>2 DEF Remaining

\* An Esc still asks who is left when watchers go, or come with later numbers.
LEMMA RemainingIds ==
  ASSUME NEW s, NEW w \in SUBSET Node, NEW i \in [Node -> Nat], NEW m \in Nat,
         Remaining(s, w, i, m), s \in Seq(Frame),
         NEW v \in SUBSET Node, NEW j \in [Node -> Nat], NEW n \in Nat, m <= n,
         \A x \in v : (x \in w /\ j[x] = i[x]) \/ j[x] > m
  PROVE  Remaining(s, v, j, n)
<1> SUFFICES ASSUME s # <<>>, s[1].do = "group", s[1].arg # NoNode \/ s[1].rest # <<>>
             PROVE  Remaining(s, v, j, n)
  BY DEF Remaining
<1>1. s[1] \in Frame
  BY EmptySeq
<1>2. s[1].arg \in [Node -> Nat]
  BY <1>1, FrameFields
<1>3. \A x \in Node : s[1].arg[x] <= m /\ s[1].arg[x] \in Nat /\ j[x] \in Nat
  BY <1>2 DEF Remaining
<1>4. \A x \in Node : s[1].arg[x] <= n
  BY <1>3
<1>5. ASSUME NEW x \in v, s[1].arg[x] = j[x]
      PROVE  \/ x \in ToSet(s[1].rest)
             \/ /\ Len(s) > 1 /\ s[2].do = "request"
                /\ s[2].node = x /\ s[2].arg.id = j[x]
  <2>1. ~(j[x] > m)
    BY <1>3, <1>5
  <2>2. x \in w /\ j[x] = i[x]
    BY <2>1
  <2> QED BY <1>5, <2>2 DEF Remaining
<1> QED
  BY <1>4, <1>5 DEF Remaining

\* An Esc still asks who is left when watchers go.
LEMMA FewerWatchers ==
  ASSUME NEW s \in Seq(Frame), NEW w \in SUBSET Node, NEW i \in [Node -> Nat], NEW m \in Nat,
         Remaining(s, w, i, m),
         NEW v \in SUBSET w, NEW j \in [Node -> Nat], \A x \in v : j[x] = i[x]
  PROVE  Remaining(s, v, j, m)
BY RemainingIds

-----------------------------------------------------------------------------
(* What a step leaves alone.                                                *)

\* Who shows depends on the list of open popovers alone.
LEMMA SameShown ==
  ASSUME UNCHANGED open
  PROVE  Shown' = Shown /\ AutoShown' = AutoShown
BY DEF Shown, AutoShown, ToSet

\* Who is watched for depends on the groups alone.
LEMMA SameWatchers ==
  ASSUME UNCHANGED groups
  PROVE  Watchers' = Watchers
BY DEF Watchers, ToSet

\* Popovers fit while none of them moves, shows or changes its kind.
LEMMA SamePlaces ==
  ASSUME Placed, UNCHANGED <<attached, kind, open>>, busy' \in SUBSET Popover,
         \A p \in Shown : kind[p] = "none" => p \in busy'
  PROVE  Placed'
BY SameShown DEF Placed, Fitting, ShownOnce, Connected, Containers

\* Watchers keep their owners while neither groups nor open lists change.
LEMMA SameGroups ==
  ASSUME Grouped, Owned, UNCHANGED <<groups, ids, nextId, openDialogs, open>>,
         allowed' \in Nat \ {0}, AutoShown \ Watchers \subseteq busy'
  PROVE  Grouped' /\ Owned'
BY SameShown, SameWatchers DEF Grouped, Owned, Sole, ToSet

\* Watchers are named for nodes, and a popover's shows.
LEMMA WatchersAreNodes ==
  ASSUME TopLayerInv
  PROVE  /\ Watchers \subseteq Node /\ ids \in [Node -> Nat] /\ nextId \in Nat
         /\ Shown \subseteq Popover /\ AutoShown \subseteq Shown
         /\ \A p \in Popover \ Shown : p \notin Watchers /\ ids[p] = 0
<1>1. Watchers \subseteq Node
  <2>1. \A g \in DOMAIN groups : groups[g] \in Seq(Node)
    BY DEF TopLayerInv, Grouped
  <2>2. \A g \in DOMAIN groups : \A a \in DOMAIN groups[g] : groups[g][a] \in Node
    BY <2>1
  <2> QED BY <2>2, WatchersAreListed
<1>2. Shown \subseteq Popover /\ AutoShown \subseteq Shown
  BY ShownAreEntries DEF TopLayerInv, Placed
<1>3. ids \in [Node -> Nat] /\ nextId \in Nat
  BY DEF TopLayerInv, Grouped
<1>4. \A p \in Popover \ Shown : p \notin Watchers /\ ids[p] = 0
  BY <1>2 DEF TopLayerInv, Owned, Node
<1> QED
  BY <1>1, <1>2, <1>3, <1>4

\* The top of the stack: while script runs, it is no loop; a step that the
\* engine takes is for the operation on top.
LEMMA OnTop ==
  ASSUME TopLayerInv, stack # <<>>
  PROVE  /\ stack \in Seq(Frame) /\ Last(stack) \in Frame
         /\ Last(stack).do \in Showing => Last(stack).node \in busy
         /\ Last(stack).do \in Closing => Last(stack).node \in closing
         /\ Last(stack).do \in Asking => Last(stack).node \in canceling
         /\ Last(stack).do \in {"show", "rivals", "attribute"} => Last(stack).node \notin Shown
         /\ Script => Last(stack).do \notin {"rivals", "attribute", "unrelated", "group", "dismiss"}
<1>1. stack \in Seq(Frame) /\ Last(stack) \in Frame
  BY Popped DEF TopLayerInv, Sound
<1>2. Len(stack) \in DOMAIN stack /\ Last(stack) = stack[Len(stack)]
  BY <1>1, Popped
<1>3. /\ Last(stack).do \in Showing => Last(stack).node \in busy
      /\ Last(stack).do \in Closing => Last(stack).node \in closing
      /\ Last(stack).do \in Asking => Last(stack).node \in canceling
  BY <1>2 DEF TopLayerInv, Sound, Holds
<1>4. Last(stack).do \in {"show", "rivals", "attribute"} => Last(stack).node \notin Shown
  BY <1>2 DEF TopLayerInv, Sound, Unshown
<1>5. Script => Last(stack).do \notin {"rivals", "attribute", "unrelated", "group", "dismiss"}
  BY <1>1, FrameFields DEF Script
<1> QED
  BY <1>1, <1>3, <1>4, <1>5

-----------------------------------------------------------------------------
(* Frames, and hiding one popover.                                          *)

\* The frame of a popover operation that waits for its event.
LEMMA SuspendedPopover ==
  ASSUME NEW what \in {"show", "hide"}, NEW p \in Popover
  PROVE  /\ Suspended(what, p) \in Frame
         /\ Suspended(what, p).do = what /\ Suspended(what, p).node = p
BY DEF Suspended, Frame, Suspensions

\* The frame of a dialog operation that waits for its event.
LEMMA SuspendedDialog ==
  ASSUME NEW what \in {"cancel", "close", "refocus"}, NEW d \in Dialog
  PROVE  /\ Suspended(what, d) \in Frame
         /\ Suspended(what, d).do = what /\ Suspended(what, d).node = d
BY DEF Suspended, Frame, Suspensions, Closing

\* A frame with another argument.
LEMMA OtherArg ==
  ASSUME NEW d, NEW n, NEW b, NEW l, NEW z, NEW a
  PROVE  [[do |-> d, node |-> n, script |-> b, rest |-> l, arg |-> z] EXCEPT !.arg = a] =
           [do |-> d, node |-> n, script |-> b, rest |-> l, arg |-> a]
OBVIOUS

\* The frame of show while it hides the rivals.
LEMMA RivalsFrame ==
  ASSUME NEW p \in Popover, NEW list \in Seq(Popover), NEW k \in PopoverKind
  PROVE  /\ With(Looping("rivals", p, list), k) \in Frame
         /\ With(Looping("rivals", p, list), k).do = "rivals"
         /\ With(Looping("rivals", p, list), k).node = p
         /\ With(Looping("rivals", p, list), k).rest = list
         /\ With(Looping("rivals", p, list), k).arg = k
<1> DEFINE f == [do |-> "rivals", node |-> p, script |-> FALSE, rest |-> list, arg |-> k]
           z == 0
           b == FALSE
           d == "rivals"
           l == list
<1>1. Looping("rivals", p, list) = [do |-> d, node |-> p, script |-> b, rest |-> l, arg |-> z]
  BY DEF Looping
<1> HIDE DEF z, b, d, l
<1>2. With(Looping("rivals", p, list), k) =
        [do |-> d, node |-> p, script |-> b, rest |-> l, arg |-> k]
  BY <1>1, OtherArg DEF With
<1>3. With(Looping("rivals", p, list), k) = f
  BY <1>2 DEF b, d, l
<1>4. f \in Loops({"rivals"}, Popover, Seq(Popover), PopoverKind)
  BY DEF Loops
<1>5. f \in Frame
  BY <1>4 DEF Frame
<1>6. f.do = "rivals" /\ f.node = p /\ f.rest = list /\ f.arg = k
  OBVIOUS
<1> HIDE DEF f
<1> QED
  BY <1>3, <1>5, <1>6

\* The frame of a change of the popover attribute.
LEMMA AttributeFrame ==
  ASSUME NEW p \in Popover, NEW k \in PopoverKind \cup {"none"}
  PROVE  /\ With(Looping("attribute", p, <<>>), k) \in Frame
         /\ With(Looping("attribute", p, <<>>), k).do = "attribute"
         /\ With(Looping("attribute", p, <<>>), k).node = p
         /\ With(Looping("attribute", p, <<>>), k).rest = <<>>
         /\ With(Looping("attribute", p, <<>>), k).arg = k
<1> DEFINE f == [do |-> "attribute", node |-> p, script |-> FALSE, rest |-> <<>>, arg |-> k]
           z == 0
           b == FALSE
           d == "attribute"
           l == <<>>
<1>1. Looping("attribute", p, <<>>) = [do |-> d, node |-> p, script |-> b, rest |-> l, arg |-> z]
  BY DEF Looping
<1> HIDE DEF z, b, d, l
<1>2. With(Looping("attribute", p, <<>>), k) =
        [do |-> d, node |-> p, script |-> b, rest |-> l, arg |-> k]
  BY <1>1, OtherArg DEF With
<1>3. With(Looping("attribute", p, <<>>), k) = f
  BY <1>2 DEF b, d, l
<1>4. f \in Loops({"attribute"}, Popover, {<<>>}, PopoverKind \cup {"none"})
  BY DEF Loops
<1>5. f \in Frame
  BY <1>4 DEF Frame
<1>6. f.do = "attribute" /\ f.node = p /\ f.rest = <<>> /\ f.arg = k
  OBVIOUS
<1> HIDE DEF f
<1> QED
  BY <1>3, <1>5, <1>6

\* The frame of an Esc that asks the watchers of a group.
LEMMA GroupFrame ==
  ASSUME NEW list \in Seq(Node), NEW a \in [Node -> Nat]
  PROVE  /\ With(Looping("group", NoNode, list), a) \in Frame
         /\ With(Looping("group", NoNode, list), a).do = "group"
         /\ With(Looping("group", NoNode, list), a).node = NoNode
         /\ With(Looping("group", NoNode, list), a).rest = list
         /\ With(Looping("group", NoNode, list), a).arg = a
<1> DEFINE f == [do |-> "group", node |-> NoNode, script |-> FALSE, rest |-> list, arg |-> a]
           z == 0
           b == FALSE
           d == "group"
           l == list
<1>1. Looping("group", NoNode, list) = [do |-> d, node |-> NoNode, script |-> b, rest |-> l, arg |-> z]
  BY DEF Looping
<1> HIDE DEF z, b, d, l
<1>2. With(Looping("group", NoNode, list), a) =
        [do |-> d, node |-> NoNode, script |-> b, rest |-> l, arg |-> a]
  BY <1>1, OtherArg DEF With
<1>3. With(Looping("group", NoNode, list), a) = f
  BY <1>2 DEF b, d, l
<1>4. f \in Loops({"group"}, {NoNode}, Seq(Node), [Node -> Nat])
  BY DEF Loops
<1>5. f \in Frame
  BY <1>4 DEF Frame
<1>6. f.do = "group" /\ f.node = NoNode /\ f.rest = list /\ f.arg = a
  OBVIOUS
<1> HIDE DEF f
<1> QED
  BY <1>3, <1>5, <1>6

\* The frame of an Esc that was canceled: nobody is asked any more.
LEMMA LeftGroupFrame ==
         /\ With(Looping("group", NoNode, <<>>), NoNode) \in Frame
         /\ With(Looping("group", NoNode, <<>>), NoNode).do = "group"
         /\ With(Looping("group", NoNode, <<>>), NoNode).node = NoNode
         /\ With(Looping("group", NoNode, <<>>), NoNode).rest = <<>>
         /\ With(Looping("group", NoNode, <<>>), NoNode).arg = NoNode
<1> DEFINE f == [do |-> "group", node |-> NoNode, script |-> FALSE, rest |-> <<>>, arg |-> NoNode]
           z == 0
           b == FALSE
           d == "group"
           l == <<>>
<1>1. Looping("group", NoNode, <<>>) = [do |-> d, node |-> NoNode, script |-> b, rest |-> l, arg |-> z]
  BY DEF Looping
<1> HIDE DEF z, b, d, l
<1>2. With(Looping("group", NoNode, <<>>), NoNode) =
        [do |-> d, node |-> NoNode, script |-> b, rest |-> l, arg |-> NoNode]
  BY <1>1, OtherArg DEF With
<1>3. With(Looping("group", NoNode, <<>>), NoNode) = f
  BY <1>2 DEF b, d, l
<1>4. f \in Loops({"group"}, {NoNode}, {<<>>}, {NoNode})
  BY DEF Loops
<1>5. f \in Frame
  BY <1>4 DEF Frame
<1>6. f.do = "group" /\ f.node = NoNode /\ f.rest = <<>> /\ f.arg = NoNode
  OBVIOUS
<1> HIDE DEF f
<1> QED
  BY <1>3, <1>5, <1>6

\* The frame of a dialog that waits for its beforetoggle event.
LEMMA DialogFrame ==
  ASSUME NEW d \in Dialog, NEW a \in BOOLEAN
  PROVE  /\ With(Suspended("dialog", d), a) \in Frame
         /\ With(Suspended("dialog", d), a).do = "dialog"
<1> DEFINE f == [do |-> "dialog", node |-> d, script |-> TRUE, rest |-> <<>>, arg |-> a]
           z == 0
           b == TRUE
           w == "dialog"
           l == <<>>
<1>1. Suspended("dialog", d) = [do |-> w, node |-> d, script |-> b, rest |-> l, arg |-> z]
  BY DEF Suspended
<1> HIDE DEF z, b, w, l
<1>2. With(Suspended("dialog", d), a) = [do |-> w, node |-> d, script |-> b, rest |-> l, arg |-> a]
  BY <1>1, OtherArg DEF With
<1>3. With(Suspended("dialog", d), a) = f
  BY <1>2 DEF b, w, l
<1>4. f \in Suspensions({"dialog"}, Dialog, BOOLEAN)
  BY DEF Suspensions
<1>5. f \in Frame /\ f.do = "dialog"
  BY <1>4 DEF Frame
<1> HIDE DEF f
<1> QED
  BY <1>3, <1>5

\* The frame of a close request that waits for its cancel event.
LEMMA RequestFrame ==
  ASSUME NEW d \in Dialog, NEW a \in [prevents : BOOLEAN, id : Nat]
  PROVE  /\ With(Suspended("request", d), a) \in Frame
         /\ With(Suspended("request", d), a).do = "request"
         /\ With(Suspended("request", d), a).node = d
         /\ With(Suspended("request", d), a).arg = a
<1> DEFINE f == [do |-> "request", node |-> d, script |-> TRUE, rest |-> <<>>, arg |-> a]
           z == 0
           b == TRUE
           w == "request"
           l == <<>>
<1>1. Suspended("request", d) = [do |-> w, node |-> d, script |-> b, rest |-> l, arg |-> z]
  BY DEF Suspended
<1> HIDE DEF z, b, w, l
<1>2. With(Suspended("request", d), a) = [do |-> w, node |-> d, script |-> b, rest |-> l, arg |-> a]
  BY <1>1, OtherArg DEF With
<1>3. With(Suspended("request", d), a) = f
  BY <1>2 DEF b, w, l
<1>4. f \in Suspensions({"request"}, Dialog, [prevents : BOOLEAN, id : Nat])
  BY DEF Suspensions
<1>5. f \in Frame /\ f.do = "request" /\ f.node = d /\ f.arg = a
  BY <1>4 DEF Frame
<1> HIDE DEF f
<1> QED
  BY <1>3, <1>5

\* The frame of a loop that hides popovers one after another.
LEMMA LoopingPlain ==
  ASSUME NEW what, NEW n, NEW list \in Seq(Popover),
         \/ what = "unrelated" /\ n \in Dialog
         \/ what = "dismiss" /\ n \in Node \cup {NoNode}
  PROVE  /\ Looping(what, n, list) \in Frame
         /\ Looping(what, n, list) =
              [do |-> what, node |-> n, script |-> FALSE, rest |-> list, arg |-> 0]
<1> DEFINE f == Looping(what, n, list)
<1>1. f = [do |-> what, node |-> n, script |-> FALSE, rest |-> list, arg |-> 0]
  BY DEF Looping
<1>2. CASE what = "unrelated" /\ n \in Dialog
  <2>1. f \in Loops({"unrelated"}, Dialog, Seq(Popover), {0})
    BY <1>1, <1>2 DEF Loops
  <2> QED BY <1>1, <2>1 DEF Frame
<1>3. CASE what = "dismiss" /\ n \in Node \cup {NoNode}
  <2>1. f \in Loops({"dismiss"}, Node \cup {NoNode}, Seq(Popover), {0})
    BY <1>1, <1>3 DEF Loops
  <2> QED BY <1>1, <2>1 DEF Frame
<1> QED
  BY <1>1, <1>2, <1>3

\* The nodes of some entries.
LEMMA NodesOfEntries ==
  ASSUME NEW list \in Seq(Entry), NEW S
  PROVE  Nodes(Kept(list, S)) \in Seq(Popover)
<1> DEFINE t == Kept(list, S)
<1>1. t \in Seq(Entry)
  BY KeptPicks
<1> HIDE DEF t
<1>2. DOMAIN t = 1..Len(t) /\ Len(t) \in Nat /\ \A k \in 1..Len(t) : t[k].node \in Popover
  <2>1. \A k \in 1..Len(t) : t[k] \in Entry
    BY <1>1
  <2> QED BY <1>1, <2>1 DEF Entry
<1>3. Nodes(t) = [k \in 1..Len(t) |-> t[k].node]
  BY <1>2 DEF Nodes
<1>4. Nodes(t) \in [1..Len(t) -> Popover]
  BY <1>2, <1>3
<1> QED
  BY <1>2, <1>4 DEF t

-----------------------------------------------------------------------------
(* Hiding.                                                                  *)

USE DEF popovers, toggles, dialogs, guards, watchers, manager, input

\* What destroying watchers does.
LEMMA Unwatched ==
  ASSUME TopLayerInv, NEW S \in SUBSET Node, Destroy(S), UNCHANGED nextId,
         allowed' \in Nat \ {0}
  PROVE  /\ Grouped' /\ Watchers' = Watchers \ S
         /\ \A n \in Node : ids'[n] = IF n \in S THEN 0 ELSE ids[n]
         /\ \A s \in Seq(Frame) : Remaining(s, Watchers, ids, nextId) =>
              Remaining(s, Watchers', ids', nextId')
<1>1. /\ groups' \in Seq(Seq(Node)) /\ <<>> \notin ToSet(groups') /\ Sole(groups')
      /\ Watchers' = Watchers \ S
      /\ ids' \in [Node -> Nat]
      /\ \A n \in Node : ids'[n] = IF n \in S THEN 0 ELSE ids[n]
  BY Destroyed DEF TopLayerInv, Grouped
<1>2. /\ Watchers \in SUBSET Node /\ ids \in [Node -> Nat] /\ nextId \in Nat
      /\ \A n \in Node : ids[n] <= nextId
  BY WatchersAreNodes DEF TopLayerInv, Grouped
<1>3. ASSUME NEW n \in Node PROVE ids'[n] <= nextId
  <2>1. CASE n \in S
    <3>1. ids'[n] = 0
      BY <1>1, <2>1
    <3> QED BY <1>2, <3>1
  <2>2. CASE n \notin S
    BY <1>1, <1>2, <2>2
  <2> QED BY <2>1, <2>2
<1>4. Grouped'
  BY <1>1, <1>2, <1>3 DEF Grouped
<1>5. Watchers' \in SUBSET Watchers /\ \A x \in Watchers' : ids'[x] = ids[x]
  BY <1>1, <1>2
<1>6. \A s \in Seq(Frame) : Remaining(s, Watchers, ids, nextId) =>
        Remaining(s, Watchers', ids', nextId)
  BY <1>1, <1>2, <1>5, FewerWatchers
<1> QED
  BY <1>1, <1>4, <1>6

\* `base` is the stack that hide_from leaves: that of before, except that a
\* change of the attribute may wait on top.
LEMMA Hidden ==
  ASSUME TopLayerInv, NEW n \in Popover, NEW base,
         Sound(base, busy, closing, canceling, Shown \ {n}),
         Remaining(base, Watchers, ids, nextId),
         base # <<>> /\ Last(base).do = "attribute" =>
           Last(base).node = n /\ n \in Shown \ busy,
         Hide(n, base),
         UNCHANGED <<attached, kind, dialogs, guards, manager>>
  PROVE  TopLayerInv'
<1>1. base \in Seq(Frame)
  BY DEF Sound
<1>2. DialogTypes'
  BY DEF TopLayerInv, DialogTypes
<1>3. CASE n \in Shown \ busy
  <2> DEFINE f == Suspended("hide", n)
             t == Append(base, f)
  <2>1. /\ busy' = busy \cup {n} /\ stack' = t
        /\ UNCHANGED <<open, groups, ids, toggles>>
    BY <1>3 DEF Hide
  <2>2. f \in Frame /\ f.do = "hide" /\ f.node = n
    BY SuspendedPopover
  <2> HIDE DEF f
  <2>3. Sound(t, busy', closing, canceling, Shown \ {n})
    <3>1. Sound(t, IF f.do \in Showing THEN busy \cup {f.node} ELSE busy,
                   IF f.do \in Closing THEN closing \cup {f.node} ELSE closing,
                   IF f.do \in Asking THEN canceling \cup {f.node} ELSE canceling, Shown \ {n})
      BY <1>3, <2>2, SoundPushed DEF Showing, Closing, Asking
    <3> QED BY <2>1, <2>2, <3>1 DEF Showing, Closing, Asking
  <2>4. Sound(t, busy', closing, canceling, Shown)
    <3>1. t \in Seq(Frame) /\ Unshown(t, Shown \ {n}) /\ Holds(base, Showing, busy)
      BY <2>3 DEF Sound
    <3>2. /\ Len(t) = Len(base) + 1 /\ DOMAIN t = 1..(Len(base) + 1)
          /\ DOMAIN base = 1..Len(base) /\ Len(base) \in Nat
          /\ \A k \in 1..Len(base) : t[k] = base[k]
          /\ t[Len(base) + 1] = f
      BY <1>1, <2>2, Pushed
    <3> HIDE DEF t
    <3>3. Unshown(t, Shown)
      <4> SUFFICES ASSUME NEW k \in DOMAIN t,
                          t[k].do \in {"show", "rivals"} \/ (t[k].do = "attribute" /\ k = Len(t)),
                          t[k].node \in Shown
                   PROVE  FALSE
        BY DEF Unshown
      <4>1. t[k].node = n
        BY <3>1 DEF Unshown
      <4>2. k # Len(base) + 1
        BY <2>2, <3>2
      <4>3. k \in DOMAIN base /\ base[k] = t[k] /\ k # Len(t)
        BY <3>2, <4>2
      <4>4. n \in busy
        BY <3>1, <4>1, <4>3 DEF Holds, Showing
      <4> QED BY <1>3, <4>4
    <3> QED BY <2>3, <3>3 DEF Sound
  <2>5. Remaining(t, Watchers, ids, nextId)
    BY <1>1, <2>2, RemainingPushed
  <2>6. Placed'
    BY <1>3, <2>1, SamePlaces DEF TopLayerInv, Placed, Fitting
  <2>7. Grouped' /\ Owned'
    BY <2>1, SameGroups DEF TopLayerInv, Owned, Grouped
  <2>8. Toggling'
    BY <2>1, NothingToTell DEF TopLayerInv
  <2> QED BY <1>2, <2>1, <2>4, <2>5, <2>6, <2>7, <2>8, SameShown, SameWatchers DEF TopLayerInv
<1>4. CASE n \in Shown \cap busy
  <2>1. /\ Conceal({n}) /\ Destroy({n}) /\ Quietly({n}, FALSE)
        /\ stack' = base /\ busy' = busy
    BY <1>4 DEF Hide
  <2>2. /\ open' \in Seq(Entry) /\ ShownOnce'
        /\ Shown' = Shown \ {n} /\ AutoShown' = AutoShown \ {n}
    BY <2>1, Concealed DEF TopLayerInv, Placed
  <2>3. n \in Node
    BY DEF Node
  <2>4. allowed' \in Nat \ {0}
    BY DEF TopLayerInv, Grouped
  <2>6. /\ Grouped' /\ Watchers' = Watchers \ {n}
        /\ \A m \in Node : ids'[m] = IF m \in {n} THEN 0 ELSE ids[m]
        /\ Remaining(base, Watchers', ids', nextId')
    BY <1>1, <2>1, <2>3, <2>4, Unwatched
  <2>5. Placed'
    BY <2>1, <2>2 DEF TopLayerInv, Placed, Fitting, Connected, Containers
  <2>7. Owned'
    BY <2>1, <2>2, <2>6 DEF TopLayerInv, Owned
  <2>8. Toggling'
    <3>1. n \notin opened
      BY TopLayerAssumption DEF TopLayerInv, DialogTypes
    <3>2. \A m \in {n} : IsOpen(m)' = FALSE
      BY <2>2, <3>1 DEF IsOpen
    <3>3. \A m \in Node \ {n} : IsOpen(m)' = IsOpen(m)
      BY <2>2 DEF IsOpen
    <3>4. Toggling /\ {n} \in SUBSET Node /\ FALSE \in BOOLEAN
      BY <2>3 DEF TopLayerInv
    <3> QED BY <2>1, <3>2, <3>3, <3>4, NotTold, Zenon
  <2> QED BY <1>2, <2>1, <2>2, <2>5, <2>6, <2>7, <2>8 DEF TopLayerInv
<1>5. CASE n \notin Shown
  <2>1. stack' = base /\ UNCHANGED <<open, busy, groups, ids, toggles>>
    BY <1>5 DEF Hide
  <2>2. Shown \ {n} = Shown
    BY <1>5
  <2>3. Placed'
    BY <2>1, SamePlaces DEF TopLayerInv, Placed, Fitting
  <2>4. Grouped' /\ Owned'
    BY <2>1, SameGroups DEF TopLayerInv, Owned, Grouped
  <2>5. Toggling'
    BY <2>1, NothingToTell DEF TopLayerInv
  <2> QED BY <1>2, <2>1, <2>2, <2>3, <2>4, <2>5, SameShown, SameWatchers DEF TopLayerInv
<1> QED
  BY <1>3, <1>4, <1>5

\* A loop of hide_all_until hides the next popover of its list, or ends.
LEMMA HideNextStep ==
  ASSUME TopLayerInv, stack # <<>>, Last(stack).do \in {"rivals", "unrelated", "dismiss"}, HideNext
  PROVE  TopLayerInv'
<1> DEFINE f == Last(stack)
           n == Last(f.rest)
           base == [stack EXCEPT ![Len(stack)].rest = Front(f.rest)]
<1>1. f.rest # <<>> /\ Hide(n, base) /\ UNCHANGED <<attached, kind, dialogs, guards, manager>>
  BY DEF HideNext
<1>2. stack \in Seq(Frame) /\ f \in Frame
  BY OnTop
<1>3. /\ Len(stack) \in Nat \ {0} /\ DOMAIN stack = 1..Len(stack)
      /\ f = stack[Len(stack)]
  BY <1>2, Popped
<1>4. f.rest \in Seq(Popover)
  BY <1>2, FrameFields
<1>5. n \in Popover /\ Front(f.rest) \in Seq(Popover)
  BY <1>1, <1>4, Popped
<1> DEFINE g == [f EXCEPT !.rest = Front(f.rest)]
<1>6. g.do = f.do /\ g.node = f.node /\ g.arg = f.arg /\ g.rest = Front(f.rest)
  BY <1>2, FrameFields
<1>7. g \in Frame
  <2> DEFINE r == Front(f.rest)
  <2> HIDE DEF r
  <2>1. r \in Seq(Popover) /\ g = [f EXCEPT !.rest = r]
    BY <1>5 DEF r
  <2> HIDE DEF g
  <2>2. f.do \in {"rivals", "unrelated", "dismiss"} /\ f \in Frame
    BY <1>2
  <2> HIDE DEF f
  <2>3. \/ f \in Loops({"rivals"}, Popover, Seq(Popover), PopoverKind)
        \/ f \in Loops({"unrelated"}, Dialog, Seq(Popover), {0})
        \/ f \in Loops({"dismiss"}, Node \cup {NoNode}, Seq(Popover), {0})
    BY <2>2 DEF Frame, Loops, Suspensions, Closing
  <2>4. \/ g \in Loops({"rivals"}, Popover, Seq(Popover), PopoverKind)
        \/ g \in Loops({"unrelated"}, Dialog, Seq(Popover), {0})
        \/ g \in Loops({"dismiss"}, Node \cup {NoNode}, Seq(Popover), {0})
    BY <2>1, <2>3 DEF Loops
  <2> QED BY <2>4 DEF Frame
<1>8. base = [stack EXCEPT ![Len(stack)] = g]
  BY <1>3
<1> HIDE DEF base, g, f
<1>9. /\ base \in Seq(Frame) /\ Len(base) = Len(stack)
      /\ base[Len(stack)] = g
      /\ \A k \in DOMAIN stack : k # Len(stack) => base[k] = stack[k]
  BY <1>2, <1>3, <1>7, <1>8
<1>10. \A k \in DOMAIN stack :
         /\ base[k].do = stack[k].do /\ base[k].node = stack[k].node
         /\ base[k].arg = stack[k].arg
         /\ stack[k].do = "group" => base[k].rest = stack[k].rest
  BY <1>3, <1>6, <1>9 DEF f
<1>11. Sound(base, busy, closing, canceling, Shown \ {n})
  <2>1. Sound(base, busy, closing, canceling, Shown)
    BY <1>9, <1>10, SoundSame DEF TopLayerInv
  <2> QED BY <2>1, SoundShown
<1>12. Remaining(base, Watchers, ids, nextId)
  BY <1>2, <1>9, <1>10, RemainingSame DEF TopLayerInv
<1>13. base # <<>> => Last(base).do # "attribute"
  BY <1>3, <1>9, <1>10 DEF Last, f
<1> QED
  BY <1>1, <1>5, <1>11, <1>12, <1>13, Hidden

-----------------------------------------------------------------------------
(* Popovers: show, hide, and the attribute.                                 *)

\* Where only guards and the stack change, the rest of the invariant stays.
LEMMA OnlyTheStack ==
  ASSUME TopLayerInv,
         UNCHANGED <<attached, kind, open, toggles, opened, openDialogs, groups, ids, nextId>>,
         allowed' \in Nat \ {0}, busy' \in SUBSET Popover,
         closing' \in SUBSET Dialog, canceling' \in SUBSET Dialog,
         \A p \in Shown : p \in busy => p \in busy',
         Sound(stack', busy', closing', canceling', Shown),
         Remaining(stack', Watchers, ids, nextId)
  PROVE  TopLayerInv'
<1>1. Placed'
  BY SamePlaces DEF TopLayerInv, Placed, Fitting
<1>2. AutoShown \ Watchers \subseteq busy'
  BY WatchersAreNodes DEF TopLayerInv, Owned
<1>3. Grouped' /\ Owned'
  BY <1>2, SameGroups DEF TopLayerInv
<1>4. Toggling'
  BY NothingToTell DEF TopLayerInv
<1>5. DialogTypes'
  BY DEF TopLayerInv, DialogTypes
<1> QED
  BY <1>1, <1>3, <1>4, <1>5, SameShown, SameWatchers DEF TopLayerInv

\* Beginning an operation and firing its event.
LEMMA Pushes ==
  ASSUME TopLayerInv, NEW f \in Frame, stack' = Append(stack, f),
         Script,
         UNCHANGED <<attached, kind, open, toggles, dialogs, watchers, manager>>,
         busy' = IF f.do \in Showing THEN busy \cup {f.node} ELSE busy,
         closing' = IF f.do \in Closing THEN closing \cup {f.node} ELSE closing,
         canceling' = IF f.do \in Asking THEN canceling \cup {f.node} ELSE canceling,
         f.do \in Showing => f.node \notin busy,
         f.do \in Closing => f.node \notin closing,
         f.do \in Asking => f.node \notin canceling,
         f.do # "request", f.do # "group", f.do = "dismiss" => stack = <<>>,
         f.do \in {"show", "rivals", "attribute"} => f.node \notin Shown
  PROVE  TopLayerInv'
<1>1. stack # <<>> => Last(stack).do # "attribute"
  BY OnTop
<1>2. Sound(stack', busy', closing', canceling', Shown)
  BY <1>1, SoundPushed DEF TopLayerInv
<1>3. Remaining(stack', Watchers, ids, nextId)
  BY RemainingPushed DEF TopLayerInv, Sound
<1>4. /\ f.do \in Showing => f.node \in Popover
      /\ f.do \in Closing \cup Asking => f.node \in Dialog
  BY FrameFields DEF Showing, Closing, Asking
<1>5. /\ busy' \in SUBSET Popover /\ closing' \in SUBSET Dialog /\ canceling' \in SUBSET Dialog
      /\ allowed' \in Nat \ {0} /\ \A p \in Shown : p \in busy => p \in busy'
  BY <1>4 DEF TopLayerInv, Placed, DialogTypes, Grouped
<1> QED
  BY <1>2, <1>3, <1>5, OnlyTheStack

\* What is left when the operation on top is done.
LEMMA UnderTheTop ==
  ASSUME TopLayerInv, stack # <<>>, Last(stack).do # "request",
         Last(stack).do = "hide" => Last(stack).node \notin Shown
  PROVE  LET f == Last(stack)
         IN  /\ Sound(Front(stack), IF f.do \in Showing THEN busy \ {f.node} ELSE busy,
                      IF f.do \in Closing THEN closing \ {f.node} ELSE closing,
                      IF f.do \in Asking THEN canceling \ {f.node} ELSE canceling, Shown)
             /\ Front(stack) \in Seq(Frame)
             /\ Remaining(Front(stack), Watchers, ids, nextId)
             /\ f.do # "hide" /\ Front(stack) # <<>> => Last(Front(stack)).do # "attribute"
<1>1. stack \in Seq(Frame)
  BY OnTop
<1>2. Remaining(Front(stack), Watchers, ids, nextId)
  BY <1>1, RemainingPopped DEF TopLayerInv
<1>3. Sound(stack, busy, closing, canceling, Shown)
  BY DEF TopLayerInv
<1>4. Front(stack) \in Seq(Frame)
  BY <1>1, Popped
<1> QED
  BY <1>2, <1>3, <1>4, SoundPopped

\* Ending the operation on top.
LEMMA Pops ==
  ASSUME TopLayerInv, stack # <<>>, stack' = Front(stack), Last(stack).do # "request",
         Last(stack).do = "hide" => Last(stack).node \notin Shown,
         UNCHANGED <<attached, kind, open, toggles, dialogs, watchers, nextId>>,
         allowed' \in Nat \ {0},
         busy' = IF Last(stack).do \in Showing THEN busy \ {Last(stack).node} ELSE busy,
         closing' = IF Last(stack).do \in Closing THEN closing \ {Last(stack).node} ELSE closing,
         canceling' = IF Last(stack).do \in Asking THEN canceling \ {Last(stack).node} ELSE canceling
  PROVE  TopLayerInv'
<1>1. Sound(stack', busy', closing', canceling', Shown) /\ Remaining(stack', Watchers, ids, nextId)
  BY UnderTheTop
<1>2. \A p \in Shown : p \in busy => p \in busy'
  BY OnTop DEF Showing
<1>3. busy' \in SUBSET Popover /\ closing' \in SUBSET Dialog /\ canceling' \in SUBSET Dialog
  BY DEF TopLayerInv, Placed, DialogTypes
<1> QED
  BY <1>1, <1>2, <1>3, OnlyTheStack

-----------------------------------------------------------------------------
(* Popovers.                                                                *)

\* show_popover: the checks, then beforetoggle.
LEMMA ShowPopoverStep ==
  ASSUME TopLayerInv, NEW p \in Popover, ShowPopover(p)
  PROVE  TopLayerInv'
<1> DEFINE f == Suspended("show", p)
<1>1. f \in Frame /\ f.do = "show" /\ f.node = p
  BY SuspendedPopover
<1>2. /\ stack' = Append(stack, f) /\ busy' = busy \cup {p} /\ Script
      /\ p \notin Shown /\ p \notin busy
      /\ UNCHANGED <<attached, kind, open, toggles, dialogs, watchers, manager, guards>>
  BY DEF ShowPopover, Push, Call
<1> HIDE DEF f
<1> QED
  BY <1>1, <1>2, Pushes DEF Showing, Closing, Asking

\* show_popover after beforetoggle: the checks again, then the rivals.
LEMMA ShowContinuesStep ==
  ASSUME TopLayerInv, ShowContinues
  PROVE  TopLayerInv'
<1> DEFINE f == Last(stack)
           p == f.node
<1>1. stack # <<>> /\ f.do = "show"
  BY DEF ShowContinues, Engine
<1>2. f \in Frame /\ p \in busy /\ p \notin Shown
  BY <1>1, OnTop DEF Showing
<1>3. p \in Popover
  BY <1>1, <1>2, FrameFields
<1>4. UNCHANGED <<attached, kind, open, toggles, dialogs, guards, watchers, manager>>
  BY DEF ShowContinues
<1>5. allowed' \in Nat \ {0}
  BY <1>4 DEF TopLayerInv, Grouped
<1>6. CASE busy' = busy \ {p} /\ Pop
  BY <1>1, <1>4, <1>5, <1>6, Pops DEF Pop, Showing, Closing, Asking
<1>7. CASE /\ Showable(p) /\ p \notin Shown
           /\ stack' = Append(Front(stack), With(Looping("rivals", p, Nodes(Rivals(p))), kind[p]))
           /\ UNCHANGED busy
  <2> DEFINE g == With(Looping("rivals", p, Nodes(Rivals(p))), kind[p])
  <2>1. Nodes(Rivals(p)) \in Seq(Popover)
    BY NodesOfEntries DEF Rivals, TopLayerInv, Placed
  <2>2. kind[p] \in PopoverKind
    BY <1>3, <1>7 DEF TopLayerInv, Placed, Showable
  <2>3. g \in Frame /\ g.do = "rivals" /\ g.node = p
    BY <1>3, <2>1, <2>2, RivalsFrame
  <2>4. stack' = Append(Front(stack), g)
    BY <1>7
  <2> HIDE DEF g
  <2>5. /\ Sound(Front(stack), busy \ {p}, closing, canceling, Shown)
        /\ Front(stack) \in Seq(Frame)
        /\ Remaining(Front(stack), Watchers, ids, nextId)
        /\ Front(stack) # <<>> => Last(Front(stack)).do # "attribute"
    BY <1>1, UnderTheTop DEF Showing, Closing, Asking
  <2>6. Sound(stack', (busy \ {p}) \cup {p}, closing, canceling, Shown)
    BY <1>2, <2>3, <2>4, <2>5, SoundPushed DEF Showing, Closing, Asking
  <2>7. (busy \ {p}) \cup {p} = busy
    BY <1>2
  <2>8. Remaining(stack', Watchers, ids, nextId)
    BY <2>3, <2>4, <2>5, RemainingPushed
  <2>9. Sound(stack', busy', closing', canceling', Shown)
    BY <1>4, <1>7, <2>6, <2>7
  <2> QED BY <1>4, <1>5, <1>7, <2>8, <2>9, OnlyTheStack DEF TopLayerInv, Placed, DialogTypes
<1> QED
  BY <1>6, <1>7 DEF ShowContinues

\* hide_popover.
LEMMA HidePopoverStep ==
  ASSUME TopLayerInv, NEW p \in Popover, HidePopover(p)
  PROVE  TopLayerInv'
<1>1. Hide(p, stack) /\ Script /\ UNCHANGED <<attached, kind, dialogs, guards, manager>>
  BY DEF HidePopover, Call
<1>2. stack # <<>> => Last(stack).do # "attribute"
  BY <1>1, OnTop
<1>3. Sound(stack, busy, closing, canceling, Shown \ {p})
  BY SoundShown DEF TopLayerInv
<1> QED
  BY <1>1, <1>2, <1>3, Hidden DEF TopLayerInv

\* The popover attribute is set or removed.
LEMMA SetKindStep ==
  ASSUME TopLayerInv, NEW p \in Popover, NEW k \in Kinds[p], SetKind(p, k)
  PROVE  TopLayerInv'
<1>1. k \in PopoverKind \cup {"none"}
  BY TopLayerAssumption DEF PopoverKind
<1>2. Script /\ UNCHANGED <<attached, dialogs, guards, manager>>
  BY DEF SetKind, Call
<1>3. CASE p \in Shown \ busy
  <2> DEFINE f == With(Looping("attribute", p, <<>>), k)
             base == Append(stack, f)
  <2>1. Hide(p, base) /\ UNCHANGED kind
    BY <1>3 DEF SetKind
  <2>2. f \in Frame /\ f.do = "attribute" /\ f.node = p
    BY <1>1, AttributeFrame
  <2> HIDE DEF f
  <2>3. Sound(stack, busy, closing, canceling, Shown \ {p})
    BY SoundShown DEF TopLayerInv
  <2>4. stack # <<>> => Last(stack).do # "attribute"
    BY <1>2, OnTop
  <2>5. Sound(base, busy, closing, canceling, Shown \ {p})
    BY <2>2, <2>3, <2>4, SoundPushed DEF Showing, Closing, Asking
  <2>6. stack \in Seq(Frame)
    BY DEF TopLayerInv, Sound
  <2>7. Remaining(base, Watchers, ids, nextId) /\ Last(base) = f
    BY <2>2, <2>6, Pushed, RemainingPushed DEF TopLayerInv
  <2> HIDE DEF base
  <2> QED BY <1>2, <1>3, <2>1, <2>2, <2>5, <2>7, Hidden
<1>4. CASE p \notin Shown \ busy
  <2>1. /\ kind' = [kind EXCEPT ![p] = k]
        /\ UNCHANGED <<open, busy, watchers, toggles, stack>>
    BY <1>4 DEF SetKind
  <2>2. /\ kind' \in [Popover -> PopoverKind \cup {"none"}]
        /\ \A q \in Popover \ {p} : kind'[q] = kind[q]
    BY <1>1, <2>1 DEF TopLayerInv, Placed
  <2>3. Shown' = Shown /\ Shown \subseteq Popover
    BY <2>1, SameShown, WatchersAreNodes
  <2>4. Fitting'
    BY <1>2, <1>4, <2>1, <2>2, <2>3 DEF TopLayerInv, Placed, Fitting, Connected, Containers
  <2>5. Placed'
    BY <1>2, <2>1, <2>2, <2>4 DEF TopLayerInv, Placed, ShownOnce
  <2>6. Grouped' /\ Owned'
    BY <1>2, <2>1, SameGroups DEF TopLayerInv, Owned, Grouped
  <2>7. Toggling'
    BY <1>2, <2>1, NothingToTell DEF TopLayerInv
  <2>8. DialogTypes'
    BY <1>2 DEF TopLayerInv, DialogTypes
  <2> QED BY <1>2, <2>1, <2>3, <2>5, <2>6, <2>7, <2>8, SameWatchers DEF TopLayerInv
<1> QED
  BY <1>3, <1>4

\* The attribute takes its value when the hiding it asked for is done.
LEMMA ChangeAttributeStep ==
  ASSUME TopLayerInv, ChangeAttribute
  PROVE  TopLayerInv'
<1> DEFINE f == Last(stack)
           p == f.node
<1>1. stack # <<>> /\ f.do = "attribute"
  BY DEF ChangeAttribute, Engine
<1>2. f \in Frame /\ p \notin Shown
  BY <1>1, OnTop
<1>3. p \in Popover /\ f.arg \in PopoverKind \cup {"none"}
  BY <1>1, <1>2, FrameFields
<1>4. /\ kind' = [kind EXCEPT ![p] = f.arg] /\ stack' = Front(stack)
      /\ UNCHANGED <<attached, open, busy, toggles, dialogs, guards, watchers, manager>>
  BY DEF ChangeAttribute, Pop
<1> HIDE DEF f
<1>5. /\ kind' \in [Popover -> PopoverKind \cup {"none"}]
      /\ \A q \in Popover \ {p} : kind'[q] = kind[q]
  BY <1>3, <1>4 DEF TopLayerInv, Placed
<1>6. Shown' = Shown /\ Shown \subseteq Popover
  BY <1>4, SameShown, WatchersAreNodes
<1>7. Fitting'
  BY <1>2, <1>4, <1>5, <1>6 DEF TopLayerInv, Placed, Fitting, Connected, Containers
<1>8. Placed'
  BY <1>4, <1>5, <1>7 DEF TopLayerInv, Placed, ShownOnce
<1>9. Grouped' /\ Owned'
  BY <1>4, SameGroups DEF TopLayerInv, Owned, Grouped
<1>10. Toggling'
  BY <1>4, NothingToTell DEF TopLayerInv
<1>11. DialogTypes'
  BY <1>4 DEF TopLayerInv, DialogTypes
<1>12. Sound(stack', busy, closing, canceling, Shown) /\ Remaining(stack', Watchers, ids, nextId)
  BY <1>1, <1>4, UnderTheTop DEF f, Showing, Closing, Asking
<1> QED
  BY <1>4, <1>6, <1>8, <1>9, <1>10, <1>11, <1>12, SameWatchers DEF TopLayerInv

-----------------------------------------------------------------------------
(* Popovers: shown, hidden, inserted and removed.                           *)

\* show_popover after its rivals are hidden: the popover shows, with its watcher.
LEMMA ShowStep ==
  ASSUME TopLayerInv, Show
  PROVE  TopLayerInv'
<1> DEFINE f == Last(stack)
           p == f.node
<1>1. stack # <<>> /\ f.do = "rivals"
  BY DEF Show, Engine
<1>2. f \in Frame /\ p \in busy /\ p \notin Shown
  BY <1>1, OnTop DEF Showing
<1>3. p \in Popover /\ p \in Node /\ f.arg \in PopoverKind /\ p \notin opened
  BY <1>1, <1>2, FrameFields, TopLayerAssumption DEF Node, TopLayerInv, DialogTypes
<1>4. /\ busy' = busy \ {p} /\ stack' = Front(stack)
      /\ UNCHANGED <<attached, kind, dialogs, guards>>
  BY DEF Show, Pop
<1>5. CASE ~Showable(p)
  <2>1. UNCHANGED <<open, toggles, watchers, manager>>
    BY <1>5 DEF Show
  <2>2. allowed' \in Nat \ {0}
    BY <2>1 DEF TopLayerInv, Grouped
  <2> QED BY <1>1, <1>4, <2>1, <2>2, Pops DEF Showing, Closing, Asking
<1>6. CASE Showable(p)
  <2>1. /\ open' = Append(open, [node |-> p, kind |-> f.arg])
        /\ Queue(p, FALSE, TRUE)
        /\ IF f.arg = "manual" THEN UNCHANGED <<watchers, manager>> ELSE Establish(p)
    BY <1>6 DEF Show
  <2> HIDE DEF f
  <2>2. /\ open' \in Seq(Entry) /\ ShownOnce' /\ Shown' = Shown \cup {p}
        /\ AutoShown' = IF f.arg = "manual" THEN AutoShown ELSE AutoShown \cup {p}
    BY <1>2, <1>3, <2>1, Revealed DEF TopLayerInv, Placed
  <2>3. Placed'
    BY <1>2, <1>4, <1>6, <2>2 DEF TopLayerInv, Placed, Fitting, Showable, Connected, Containers
  <2>4. Toggling'
    <3>1. \A m \in {p} : IsOpen(m) = FALSE /\ IsOpen(m)' = TRUE
      BY <1>2, <1>3, <2>2 DEF IsOpen
    <3>2. \A m \in Node \ {p} : IsOpen(m)' = IsOpen(m)
      BY <1>4, <2>2 DEF IsOpen
    <3>3. Toggling /\ FALSE \in BOOLEAN /\ TRUE \in BOOLEAN /\ p \in {p}
      BY DEF TopLayerInv
    <3> HIDE DEF p
    <3> QED BY <1>3, <2>1, <3>1, <3>2, <3>3, Queued, Zenon
  <2>5. DialogTypes'
    BY <1>4 DEF TopLayerInv, DialogTypes
  <2>6. /\ Sound(Front(stack), busy', closing', canceling', Shown)
        /\ Front(stack) \in Seq(Frame)
        /\ Remaining(Front(stack), Watchers, ids, nextId)
        /\ Front(stack) # <<>> => Last(Front(stack)).do # "attribute"
    BY <1>1, <1>4, UnderTheTop DEF f, Showing, Closing, Asking
  <2>7. Sound(stack', busy', closing', canceling', Shown')
    BY <1>4, <2>2, <2>6, SoundShown
  <2>8. Watchers \subseteq Node /\ AutoShown \subseteq Shown /\ p \notin Watchers
        /\ nextId \in Nat /\ ids \in [Node -> Nat]
    BY <1>2, <1>3, WatchersAreNodes
  <2>9. CASE f.arg = "manual"
    <3>1. UNCHANGED <<watchers, manager>> /\ AutoShown' = AutoShown
      BY <2>1, <2>2, <2>9
    <3>2. Watchers' = Watchers
      BY <3>1, SameWatchers
    <3>3. Grouped'
      BY <3>1 DEF TopLayerInv, Grouped, Sole, ToSet
    <3>4. Owned'
      BY <1>2, <1>4, <2>8, <3>1, <3>2 DEF TopLayerInv, Owned, ToSet
    <3> QED BY <1>4, <2>3, <2>4, <2>5, <2>6, <2>7, <3>1, <3>2, <3>3, <3>4 DEF TopLayerInv
  <2>10. CASE f.arg # "manual"
    <3>1. Establish(p) /\ AutoShown' = AutoShown \cup {p}
      BY <2>1, <2>2, <2>10
    <3>2. /\ groups' \in Seq(Seq(Node)) /\ <<>> \notin ToSet(groups') /\ Sole(groups')
          /\ Watchers' = Watchers \cup {p}
          /\ ids' \in [Node -> Nat]
          /\ \A n \in Node : ids'[n] = IF n = p THEN nextId + 1 ELSE ids[n]
          /\ nextId' = nextId + 1 /\ allowed' \in Nat \ {0}
      BY <1>3, <2>8, <3>1, Established DEF TopLayerInv, Grouped
    <3>3. Grouped'
      BY <2>8, <3>2 DEF TopLayerInv, Grouped
    <3>4. Owned'
      BY <1>2, <1>3, <1>4, <2>8, <3>1, <3>2, TopLayerAssumption DEF TopLayerInv, Owned, ToSet
    <3>5. /\ nextId' \in Nat /\ nextId <= nextId' /\ Watchers' \in SUBSET Node
          /\ \A x \in Watchers' : (x \in Watchers /\ ids'[x] = ids[x]) \/ ids'[x] > nextId
      BY <1>3, <2>8, <3>2
    <3>6. Remaining(stack', Watchers', ids', nextId')
      BY <1>4, <2>6, <2>8, <3>2, <3>5, RemainingIds
    <3> QED BY <2>3, <2>4, <2>5, <2>7, <3>3, <3>4, <3>6 DEF TopLayerInv
  <2> QED BY <2>9, <2>10
<1> QED
  BY <1>5, <1>6

\* hide_popover after beforetoggle.
LEMMA HideContinuesStep ==
  ASSUME TopLayerInv, HideContinues
  PROVE  TopLayerInv'
<1> DEFINE f == Last(stack)
           p == f.node
<1>1. stack # <<>> /\ f.do = "hide"
  BY DEF HideContinues, Engine
<1>2. stack \in Seq(Frame) /\ f \in Frame /\ p \in busy
  BY <1>1, OnTop DEF Showing
<1>3. p \in Popover /\ p \in Node /\ p \notin opened
  BY <1>1, <1>2, FrameFields, TopLayerAssumption DEF Node, TopLayerInv, DialogTypes
<1>4. /\ busy' = busy \ {p} /\ stack' = Front(stack)
      /\ UNCHANGED <<attached, kind, dialogs, guards, manager>>
  BY DEF HideContinues, Pop
<1>5. allowed' \in Nat \ {0}
  BY <1>4 DEF TopLayerInv, Grouped
<1>6. CASE p \notin Shown
  <2>1. UNCHANGED <<open, toggles, watchers>>
    BY <1>6 DEF HideContinues
  <2> QED BY <1>1, <1>4, <1>5, <1>6, <2>1, Pops DEF Showing, Closing, Asking
<1>7. CASE p \in Shown
  <2>1. Conceal({p}) /\ Destroy({p}) /\ Queue(p, TRUE, FALSE)
    BY <1>7 DEF HideContinues
  <2> HIDE DEF f
  <2>2. /\ open' \in Seq(Entry) /\ ShownOnce'
        /\ Shown' = Shown \ {p} /\ AutoShown' = AutoShown \ {p}
    BY <2>1, Concealed DEF TopLayerInv, Placed
  <2>3. stack' \in Seq(Frame) /\ Remaining(stack', Watchers, ids, nextId)
    BY <1>1, <1>2, <1>4, Popped, RemainingPopped DEF f, TopLayerInv
  <2>4. /\ Grouped' /\ Watchers' = Watchers \ {p}
        /\ \A n \in Node : ids'[n] = IF n \in {p} THEN 0 ELSE ids[n]
        /\ Remaining(stack', Watchers', ids', nextId')
    BY <1>3, <1>4, <1>5, <2>1, <2>3, Unwatched
  <2>5. Placed'
    BY <1>4, <2>2 DEF TopLayerInv, Placed, Fitting, Connected, Containers
  <2>6. Owned'
    BY <1>4, <2>2, <2>4 DEF TopLayerInv, Owned, ToSet
  <2>7. Toggling'
    <3>1. \A m \in {p} : IsOpen(m) = TRUE /\ IsOpen(m)' = FALSE
      BY <1>3, <1>4, <1>7, <2>2 DEF IsOpen
    <3>2. \A m \in Node \ {p} : IsOpen(m)' = IsOpen(m)
      BY <1>4, <2>2 DEF IsOpen
    <3>3. Toggling /\ FALSE \in BOOLEAN /\ TRUE \in BOOLEAN /\ p \in {p}
      BY DEF TopLayerInv
    <3> HIDE DEF p
    <3> QED BY <1>3, <2>1, <3>1, <3>2, <3>3, Queued, Zenon
  <2>8. DialogTypes'
    BY <1>4 DEF TopLayerInv, DialogTypes
  <2>9. Sound(stack', busy', closing', canceling', Shown')
    <3>1. Sound(stack, busy, closing, canceling, Shown \ {p})
      BY SoundShown DEF TopLayerInv
    <3>2. Sound(stack', busy \ {p}, closing, canceling, Shown \ {p})
      BY <1>1, <1>4, <3>1, SoundPopped DEF f, Showing, Closing, Asking
    <3> QED BY <1>4, <2>2, <3>2
  <2> QED BY <2>4, <2>5, <2>6, <2>7, <2>8, <2>9 DEF TopLayerInv
<1> QED
  BY <1>6, <1>7

-----------------------------------------------------------------------------
(* The document.                                                            *)

\* A node is inserted.
LEMMA AttachStep ==
  ASSUME TopLayerInv, NEW n \in Node, Attach(n)
  PROVE  TopLayerInv'
<1>1. /\ attached' = attached \cup {n}
      /\ UNCHANGED <<popovers, toggles, dialogs, guards, watchers, manager, input, stack>>
  BY DEF Attach
<1>2. Shown' = Shown /\ AutoShown' = AutoShown /\ Watchers' = Watchers
  BY <1>1, SameShown, SameWatchers
<1>3. Placed'
  BY <1>1, <1>2 DEF TopLayerInv, Placed, ShownOnce, Fitting, Connected, Containers
<1>4. Grouped' /\ Owned'
  BY <1>1, SameGroups DEF TopLayerInv, Owned, Grouped
<1>5. Toggling'
  BY <1>1, NothingToTell DEF TopLayerInv
<1>6. DialogTypes'
  BY <1>1 DEF TopLayerInv, DialogTypes
<1> QED
  BY <1>1, <1>2, <1>3, <1>4, <1>5, <1>6 DEF TopLayerInv

\* A node is removed: what shows in it is closed without events.
LEMMA DetachStep ==
  ASSUME TopLayerInv, NEW n \in Node, NEW whole \in BOOLEAN, Detach(n, whole)
  PROVE  TopLayerInv'
<1> DEFINE roots == IF whole THEN {n} ELSE {m \in Node : n \in Containers(m)}
           leaving == {m \in Node : \E r \in roots : Within(m, r)}
           hidden == leaving \cap Shown
           closed == leaving \cap ToSet(openDialogs)
<1>1. /\ attached' = attached \ roots
      /\ openDialogs' = Without(openDialogs, closed)
      /\ Conceal(hidden) /\ Quietly(hidden, FALSE) /\ Destroy(hidden \cup closed)
      /\ UNCHANGED <<kind, busy, opened, guards, manager, stack>>
  BY DEF Detach
<1>2. hidden \subseteq Shown /\ closed \subseteq ToSet(openDialogs)
      /\ hidden \in SUBSET Node /\ closed \in SUBSET Node
  OBVIOUS
<1>3. \A q \in Popover \ hidden : q \in Shown /\ Connected(q) => {q} \cup Containers(q) \subseteq attached'
  <2> SUFFICES ASSUME NEW q \in Popover, q \notin hidden, q \in Shown, Connected(q),
                      NEW r \in {q} \cup Containers(q), r \in roots
               PROVE  FALSE
    BY <1>1 DEF Connected
  <2>1. Within(q, r)
    BY DEF Within, Connected
  <2>2. q \in Node
    BY DEF Node
  <2> QED BY <2>1, <2>2
<1> HIDE DEF roots, leaving, hidden, closed
<1>4. /\ open' \in Seq(Entry) /\ ShownOnce'
      /\ Shown' = Shown \ hidden /\ AutoShown' = AutoShown \ hidden
  BY <1>1, Concealed DEF TopLayerInv, Placed
<1>5. openDialogs' \in Seq(Dialog) /\ ToSet(openDialogs') = ToSet(openDialogs) \ closed
  <2>1. openDialogs' \in Seq(Dialog)
    BY <1>1, KeptPicks DEF Without, TopLayerInv, DialogTypes
  <2>2. ToSet(openDialogs') = ToSet(openDialogs) \cap (ToSet(openDialogs) \ closed)
    BY <1>1, KeptMembers DEF Without, TopLayerInv, DialogTypes
  <2> QED BY <2>1, <2>2
<1>6. ToSet(openDialogs) \subseteq Dialog /\ Shown \subseteq Popover
  BY WatchersAreNodes DEF TopLayerInv, DialogTypes, ToSet
<1>7. Placed'
  <2>1. \A q \in Shown' : Connected(q)'
    BY <1>3, <1>4, <1>6 DEF TopLayerInv, Placed, Fitting, Connected, Containers
  <2>2. \A q \in Shown' : kind'[q] = "none" => q \in busy'
    BY <1>1, <1>4 DEF TopLayerInv, Placed, Fitting
  <2> QED BY <1>1, <1>4, <2>1, <2>2 DEF TopLayerInv, Placed, Fitting
<1>8. allowed' \in Nat \ {0}
  BY <1>1 DEF TopLayerInv, Grouped
<1>9. /\ Grouped' /\ Watchers' = Watchers \ (hidden \cup closed)
      /\ \A m \in Node : ids'[m] = IF m \in hidden \cup closed THEN 0 ELSE ids[m]
      /\ Remaining(stack', Watchers', ids', nextId')
  <2>1. stack' = stack /\ stack \in Seq(Frame) /\ Remaining(stack, Watchers, ids, nextId)
    BY <1>1 DEF TopLayerInv, Sound
  <2> QED BY <1>1, <1>2, <1>8, <2>1, Unwatched
<1>10. Owned'
  <2>1. ASSUME NEW m \in Node PROVE ids'[m] # 0 <=> m \in Watchers'
    BY <1>9 DEF TopLayerInv, Owned
  <2>2. Watchers' \cap Popover \subseteq AutoShown'
    BY <1>4, <1>9 DEF TopLayerInv, Owned
  <2>3. AutoShown' \ Watchers' \subseteq busy'
    <3>1. AutoShown \cap closed = {}
      BY <1>2, <1>6, TopLayerAssumption, WatchersAreNodes
    <3> QED BY <1>1, <1>4, <1>9, <3>1 DEF TopLayerInv, Owned
  <2>4. Watchers' \cap Dialog \subseteq ToSet(openDialogs')
    BY <1>5, <1>9 DEF TopLayerInv, Owned
  <2> QED BY <2>1, <2>2, <2>3, <2>4 DEF Owned
<1>11. Toggling'
  <2>1. \A m \in hidden : IsOpen(m)' = FALSE
    BY <1>1, <1>2, <1>4, <1>6, TopLayerAssumption DEF IsOpen, TopLayerInv, DialogTypes
  <2>2. \A m \in Node \ hidden : IsOpen(m)' = IsOpen(m)
    BY <1>1, <1>4 DEF IsOpen
  <2>3. Toggling /\ FALSE \in BOOLEAN
    BY DEF TopLayerInv
  <2> QED BY <1>1, <1>2, <2>1, <2>2, <2>3, NotTold, Zenon
<1>12. DialogTypes'
  BY <1>1, <1>5 DEF TopLayerInv, DialogTypes
<1>13. Sound(stack', busy', closing', canceling', Shown')
  BY <1>1, <1>4, SoundShown DEF TopLayerInv
<1> QED
  BY <1>7, <1>9, <1>10, <1>11, <1>12, <1>13 DEF TopLayerInv

-----------------------------------------------------------------------------
(* Dialogs.                                                                 *)

\* show and showModal: the checks, then beforetoggle.
LEMMA ShowDialogStep ==
  ASSUME TopLayerInv, NEW d \in Dialog, NEW isModal \in BOOLEAN, ShowDialog(d, isModal)
  PROVE  TopLayerInv'
<1> DEFINE f == With(Suspended("dialog", d), isModal)
<1>1. f \in Frame /\ f.do = "dialog"
  BY DialogFrame
<1>2. /\ stack' = Append(stack, f) /\ Script
      /\ UNCHANGED <<attached, popovers, toggles, dialogs, guards, watchers, manager>>
  BY DEF ShowDialog, Push, Call
<1> HIDE DEF f
<1> QED
  BY <1>1, <1>2, Pushes DEF Showing, Closing, Asking

\* The list of dialogs after one left it, and came back to its end.
LEMMA Relisted ==
  ASSUME DialogTypes, NEW d \in Dialog
  PROVE  /\ Without(openDialogs, {d}) \in Seq(Dialog)
         /\ ToSet(Without(openDialogs, {d})) = ToSet(openDialogs) \ {d}
         /\ Append(Without(openDialogs, {d}), d) \in Seq(Dialog)
         /\ ToSet(Append(Without(openDialogs, {d}), d)) = ToSet(openDialogs) \cup {d}
<1> DEFINE t == Without(openDialogs, {d})
<1>1. t \in Seq(Dialog)
  BY KeptPicks DEF Without, DialogTypes
<1>2. ToSet(t) = ToSet(openDialogs) \cap (ToSet(openDialogs) \ {d})
  BY KeptMembers DEF Without, DialogTypes
<1> HIDE DEF t
<1>3. /\ Append(t, d) \in Seq(Dialog) /\ Len(t) \in Nat /\ DOMAIN t = 1..Len(t)
      /\ DOMAIN Append(t, d) = 1..(Len(t) + 1)
      /\ \A k \in 1..Len(t) : Append(t, d)[k] = t[k]
      /\ Append(t, d)[Len(t) + 1] = d
  BY <1>1, Pushed
<1> DEFINE u == Append(t, d)
<1> HIDE DEF u
<1>4. \A k \in DOMAIN u : (k \in DOMAIN t /\ u[k] = t[k]) \/ u[k] = d
  BY <1>3 DEF u
<1>5. (\A k \in DOMAIN t : k \in DOMAIN u /\ u[k] = t[k]) /\ \E k \in DOMAIN u : u[k] = d
  <2>1. Len(t) + 1 \in DOMAIN u /\ u[Len(t) + 1] = d
    BY <1>3 DEF u
  <2>2. \A k \in DOMAIN t : k \in DOMAIN u /\ u[k] = t[k]
    BY <1>3 DEF u
  <2> QED BY <2>1, <2>2
<1>6. ToSet(u) = ToSet(t) \cup {d}
  BY <1>4, <1>5 DEF ToSet
<1> QED
  BY <1>1, <1>2, <1>3, <1>6 DEF t, u

\* show and showModal after beforetoggle.
LEMMA ShowDialogContinuesStep ==
  ASSUME TopLayerInv, ShowDialogContinues
  PROVE  TopLayerInv'
<1> DEFINE f == Last(stack)
           d == f.node
<1>1. stack # <<>> /\ f.do = "dialog"
  BY DEF ShowDialogContinues, Engine
<1>2. f \in Frame
  BY <1>1, OnTop
<1>3. d \in Dialog /\ d \in Node /\ d \notin Popover
  BY <1>1, <1>2, FrameFields, TopLayerAssumption DEF Node
<1>4. UNCHANGED <<attached, popovers, guards>>
  BY DEF ShowDialogContinues
<1>5. CASE Pop /\ UNCHANGED <<toggles, dialogs, watchers, manager>>
  <2>1. allowed' \in Nat \ {0}
    BY <1>5 DEF TopLayerInv, Grouped
  <2> QED BY <1>1, <1>4, <1>5, <2>1, Pops DEF Pop, Showing, Closing, Asking
<1>6. CASE /\ d \notin opened
           /\ Queue(d, FALSE, TRUE)
           /\ opened' = opened \cup {d}
           /\ Establish(d)
           /\ openDialogs' = Append(Without(openDialogs, {d}), d)
           /\ stack' = Append(Front(stack), Looping("unrelated", d, Nodes(Unrelated(d))))
  <2> DEFINE g == Looping("unrelated", d, Nodes(Unrelated(d)))
  <2>1. Nodes(Unrelated(d)) \in Seq(Popover)
    BY NodesOfEntries DEF Unrelated, TopLayerInv, Placed
  <2>2. g \in Frame /\ g.do = "unrelated"
    BY <1>3, <2>1, LoopingPlain
  <2>3. stack' = Append(Front(stack), g)
    BY <1>6
  <2> HIDE DEF f, g
  <2>4. /\ Sound(Front(stack), busy, closing, canceling, Shown)
        /\ Front(stack) \in Seq(Frame)
        /\ Remaining(Front(stack), Watchers, ids, nextId)
        /\ Front(stack) # <<>> => Last(Front(stack)).do # "attribute"
    BY <1>1, UnderTheTop DEF f, Showing, Closing, Asking
  <2>5. Shown' = Shown /\ AutoShown' = AutoShown /\ Shown \subseteq Popover
    BY <1>4, SameShown, WatchersAreNodes
  <2>6. Sound(stack', busy', closing', canceling', Shown')
    <3>1. Sound(stack', busy, closing, canceling, Shown)
      BY <2>2, <2>3, <2>4, SoundPushed DEF Showing, Closing, Asking
    <3> QED BY <1>4, <2>5, <3>1
  <2>7. Placed'
    BY <1>4, SamePlaces DEF TopLayerInv, Placed, Fitting
  <2>8. /\ groups' \in Seq(Seq(Node)) /\ <<>> \notin ToSet(groups') /\ Sole(groups')
        /\ Watchers' = Watchers \cup {d}
        /\ ids' \in [Node -> Nat]
        /\ \A n \in Node : ids'[n] = IF n = d THEN nextId + 1 ELSE ids[n]
        /\ nextId' = nextId + 1 /\ allowed' \in Nat \ {0}
    BY <1>3, <1>6, Established DEF TopLayerInv, Grouped
  <2>9. Watchers \subseteq Node /\ nextId \in Nat /\ ids \in [Node -> Nat]
    BY WatchersAreNodes
  <2>10. Grouped'
    BY <2>8, <2>9 DEF TopLayerInv, Grouped
  <2>11. /\ openDialogs' \in Seq(Dialog) /\ ToSet(openDialogs') = ToSet(openDialogs) \cup {d}
    BY <1>3, <1>6, Relisted DEF TopLayerInv
  <2>12. Owned'
    <3>1. ASSUME NEW m \in Node PROVE ids'[m] # 0 <=> m \in Watchers'
      BY <2>8, <2>9 DEF TopLayerInv, Owned
    <3>2. Watchers' \cap Popover \subseteq AutoShown' /\ AutoShown' \ Watchers' \subseteq busy'
      BY <1>3, <1>4, <2>5, <2>8 DEF TopLayerInv, Owned
    <3>3. Watchers' \cap Dialog \subseteq ToSet(openDialogs')
      BY <2>8, <2>11 DEF TopLayerInv, Owned
    <3> QED BY <3>1, <3>2, <3>3 DEF Owned
  <2>13. Toggling'
    <3>1. \A m \in {d} : IsOpen(m) = FALSE /\ IsOpen(m)' = TRUE
      BY <1>3, <1>6, <2>5 DEF IsOpen
    <3>2. \A m \in Node \ {d} : IsOpen(m)' = IsOpen(m)
      BY <1>6, <2>5 DEF IsOpen
    <3>3. Toggling /\ FALSE \in BOOLEAN /\ TRUE \in BOOLEAN /\ d \in {d}
      BY DEF TopLayerInv
    <3> HIDE DEF d
    <3> QED BY <1>3, <1>6, <3>1, <3>2, <3>3, Queued, Zenon
  <2>14. DialogTypes'
    BY <1>3, <1>4, <1>6, <2>11 DEF TopLayerInv, DialogTypes
  <2>15. Remaining(stack', Watchers', ids', nextId')
    <3>1. /\ nextId' \in Nat /\ nextId <= nextId' /\ Watchers' \in SUBSET Node
          /\ \A x \in Watchers' : (x \in Watchers /\ ids'[x] = ids[x]) \/ ids'[x] > nextId
      BY <1>3, <2>8, <2>9
    <3>2. Remaining(Front(stack), Watchers', ids', nextId')
      BY <2>4, <2>8, <2>9, <3>1, RemainingIds
    <3> QED BY <2>2, <2>3, <2>4, <3>2, RemainingPushed
  <2> QED BY <2>6, <2>7, <2>10, <2>12, <2>13, <2>14, <2>15 DEF TopLayerInv
<1> QED
  BY <1>5, <1>6 DEF ShowDialogContinues

\* show and showModal after unrelated popovers are hidden.
LEMMA DialogShownStep ==
  ASSUME TopLayerInv, DialogShown
  PROVE  TopLayerInv'
<1>1. stack # <<>> /\ Last(stack).do = "unrelated" /\ stack' = Front(stack)
      /\ UNCHANGED <<attached, popovers, toggles, dialogs, guards, watchers, manager>>
  BY DEF DialogShown, Engine, Pop
<1>2. allowed' \in Nat \ {0}
  BY <1>1 DEF TopLayerInv, Grouped
<1> QED
  BY <1>1, <1>2, Pops DEF Showing, Closing, Asking

\* close, on top of `base`.
LEMMA Closes ==
  ASSUME NEW d \in Dialog, NEW base, NEW q, DialogTypes,
         Sound(base, busy, closing, q, Shown), Close(d, base),
         base # <<>> => Last(base).do # "attribute"
  PROVE  /\ closing' \in SUBSET Dialog
         /\ Sound(stack', busy, closing', q, Shown)
         /\ \A w, i, m : Remaining(base, w, i, m) => Remaining(stack', w, i, m)
<1> DEFINE f == Suspended("close", d)
<1>1. f \in Frame /\ f.do = "close" /\ f.node = d
  BY SuspendedDialog
<1>2. base \in Seq(Frame)
  BY DEF Sound
<1>3. CASE d \in opened \ closing
  <2>1. closing' = closing \cup {d} /\ stack' = Append(base, f)
    BY <1>3 DEF Close
  <2> HIDE DEF f
  <2>2. Sound(stack', busy, closing', q, Shown)
    <3>1. f.do \notin Showing /\ f.do \in Closing /\ f.do \notin Asking /\ f.node \notin closing
      BY <1>1, <1>3 DEF Showing, Closing, Asking
    <3>2. Sound(Append(base, f), busy, closing \cup {f.node}, q, Shown)
      BY <1>1, <3>1, SoundPushed
    <3> QED BY <1>1, <2>1, <3>2
  <2>3. \A w, i, m : Remaining(base, w, i, m) => Remaining(stack', w, i, m)
    BY <1>1, <1>2, <2>1, RemainingPushed
  <2> QED BY <2>1, <2>2, <2>3 DEF DialogTypes
<1>4. CASE d \notin opened \ closing
  BY <1>4 DEF Close, DialogTypes
<1> QED
  BY <1>3, <1>4

\* close.
LEMMA CloseDialogStep ==
  ASSUME TopLayerInv, NEW d \in Dialog, CloseDialog(d)
  PROVE  TopLayerInv'
<1>1. Script /\ Close(d, stack)
      /\ UNCHANGED <<attached, popovers, toggles, dialogs, canceling, watchers, manager>>
  BY DEF CloseDialog, Call
<1>2. stack # <<>> => Last(stack).do # "attribute"
  BY <1>1, OnTop
<1>3. /\ closing' \in SUBSET Dialog /\ Sound(stack', busy, closing', canceling, Shown)
      /\ Remaining(stack', Watchers, ids, nextId)
  BY <1>1, <1>2, Closes DEF TopLayerInv
<1>4. /\ allowed' \in Nat \ {0} /\ busy' \in SUBSET Popover /\ canceling' \in SUBSET Dialog
      /\ \A p \in Shown : p \in busy => p \in busy'
  BY <1>1 DEF TopLayerInv, Grouped, Placed, DialogTypes
<1> QED
  BY <1>1, <1>3, <1>4, OnlyTheStack

\* close after beforetoggle.
LEMMA CloseContinuesStep ==
  ASSUME TopLayerInv, CloseContinues
  PROVE  TopLayerInv'
<1> DEFINE f == Last(stack)
           d == f.node
<1>1. stack # <<>> /\ f.do = "close"
  BY DEF CloseContinues, Engine
<1>2. f \in Frame /\ d \in closing
  BY <1>1, OnTop DEF Closing
<1>3. d \in Dialog /\ d \in Node /\ d \notin Popover
  BY <1>1, <1>2, FrameFields, TopLayerAssumption DEF Node
<1>4. UNCHANGED <<attached, popovers, canceling, manager>>
  BY DEF CloseContinues
<1>5. allowed' \in Nat \ {0}
  BY <1>4 DEF TopLayerInv, Grouped
<1>6. CASE d \notin opened
  <2>1. Pop /\ closing' = closing \ {d} /\ UNCHANGED <<toggles, dialogs, watchers>>
    BY <1>6 DEF CloseContinues
  <2> QED BY <1>1, <1>4, <1>5, <2>1, Pops DEF Pop, Showing, Closing, Asking
<1>7. CASE d \in opened
  <2>1. /\ Queue(d, TRUE, FALSE)
        /\ opened' = opened \ {d}
        /\ Destroy({d})
        /\ openDialogs' = Without(openDialogs, {d})
        /\ \/ stack' = Append(Front(stack), Suspended("refocus", d)) /\ UNCHANGED closing
           \/ Pop /\ closing' = closing \ {d}
    BY <1>7 DEF CloseContinues
  <2> HIDE DEF f
  <2>2. /\ Sound(Front(stack), busy, closing \ {d}, canceling, Shown)
        /\ Front(stack) \in Seq(Frame)
        /\ Remaining(Front(stack), Watchers, ids, nextId)
        /\ Front(stack) # <<>> => Last(Front(stack)).do # "attribute"
    BY <1>1, UnderTheTop DEF f, Showing, Closing, Asking
  <2>3. Sound(stack', busy, closing', canceling, Shown) /\ closing' \subseteq Dialog
        /\ stack' \in Seq(Frame) /\ Remaining(stack', Watchers, ids, nextId)
    <3>1. CASE Pop /\ closing' = closing \ {d}
      BY <2>2, <3>1 DEF Pop, TopLayerInv, DialogTypes
    <3>2. CASE stack' = Append(Front(stack), Suspended("refocus", d)) /\ UNCHANGED closing
      <4> DEFINE g == Suspended("refocus", d)
      <4>1. g \in Frame /\ g.do = "refocus" /\ g.node = d /\ stack' = Append(Front(stack), g)
        BY <1>3, <3>2, SuspendedDialog
      <4> HIDE DEF g
      <4>2. Sound(stack', busy, (closing \ {d}) \cup {d}, canceling, Shown)
        BY <2>2, <4>1, SoundPushed DEF Showing, Closing, Asking
      <4>3. (closing \ {d}) \cup {d} = closing'
        BY <1>2, <3>2
      <4>4. Remaining(stack', Watchers, ids, nextId)
        BY <2>2, <4>1, RemainingPushed
      <4>5. closing' \subseteq Dialog
        BY <3>2 DEF TopLayerInv, DialogTypes
      <4>6. Sound(stack', busy, closing', canceling, Shown)
        BY <4>2, <4>3
      <4> QED BY <4>4, <4>5, <4>6 DEF Sound
    <3> QED BY <2>1, <3>1, <3>2
  <2>4. /\ Grouped' /\ Watchers' = Watchers \ {d}
        /\ \A m \in Node : ids'[m] = IF m \in {d} THEN 0 ELSE ids[m]
        /\ Remaining(stack', Watchers', ids', nextId')
    BY <1>3, <1>4, <1>5, <2>1, <2>3, Unwatched
  <2>5. Shown' = Shown /\ AutoShown' = AutoShown /\ Shown \subseteq Popover
    BY <1>4, SameShown, WatchersAreNodes
  <2>6. Placed'
    BY <1>4, SamePlaces DEF TopLayerInv, Placed, Fitting
  <2>7. openDialogs' \in Seq(Dialog) /\ ToSet(openDialogs') = ToSet(openDialogs) \ {d}
    BY <1>3, <2>1, Relisted DEF TopLayerInv
  <2>8. Owned'
    <3>1. ASSUME NEW m \in Node PROVE ids'[m] # 0 <=> m \in Watchers'
      BY <2>4 DEF TopLayerInv, Owned
    <3>2. Watchers' \cap Popover \subseteq AutoShown'
      BY <2>4, <2>5 DEF TopLayerInv, Owned
    <3>3. AutoShown' \ Watchers' \subseteq busy'
      BY <1>3, <1>4, <2>4, <2>5, WatchersAreNodes DEF TopLayerInv, Owned
    <3>4. Watchers' \cap Dialog \subseteq ToSet(openDialogs')
      BY <2>4, <2>7 DEF TopLayerInv, Owned
    <3> QED BY <3>1, <3>2, <3>3, <3>4 DEF Owned
  <2>9. Toggling'
    <3>1. \A m \in {d} : IsOpen(m) = TRUE /\ IsOpen(m)' = FALSE
      BY <1>3, <1>7, <2>1, <2>5 DEF IsOpen
    <3>2. \A m \in Node \ {d} : IsOpen(m)' = IsOpen(m)
      BY <2>1, <2>5 DEF IsOpen
    <3>3. Toggling /\ FALSE \in BOOLEAN /\ TRUE \in BOOLEAN /\ d \in {d}
      BY DEF TopLayerInv
    <3> HIDE DEF d
    <3> QED BY <1>3, <2>1, <3>1, <3>2, <3>3, Queued, Zenon
  <2>10. DialogTypes'
    BY <1>4, <2>1, <2>3, <2>7 DEF TopLayerInv, DialogTypes
  <2>11. Sound(stack', busy', closing', canceling', Shown')
    BY <1>4, <2>3, <2>5
  <2> QED BY <2>4, <2>6, <2>8, <2>9, <2>10, <2>11 DEF TopLayerInv
<1> QED
  BY <1>6, <1>7

\* close after the focus went back.
LEMMA RefocusedStep ==
  ASSUME TopLayerInv, Refocused
  PROVE  TopLayerInv'
<1>1. stack # <<>> /\ Last(stack).do = "refocus" /\ stack' = Front(stack)
      /\ closing' = closing \ {Last(stack).node}
      /\ UNCHANGED <<attached, popovers, toggles, dialogs, canceling, watchers, manager>>
  BY DEF Refocused, Engine, Pop
<1>2. allowed' \in Nat \ {0}
  BY <1>1 DEF TopLayerInv, Grouped
<1> QED
  BY <1>1, <1>2, Pops DEF Showing, Closing, Asking

\* requestClose.
LEMMA RequestCloseStep ==
  ASSUME TopLayerInv, NEW d \in Dialog, RequestClose(d)
  PROVE  TopLayerInv'
<1> DEFINE f == Suspended("cancel", d)
<1>1. f \in Frame /\ f.do = "cancel" /\ f.node = d
  BY SuspendedDialog
<1>2. /\ stack' = Append(stack, f) /\ Script /\ d \notin canceling
      /\ canceling' = canceling \cup {d}
      /\ UNCHANGED <<attached, popovers, toggles, dialogs, closing, watchers, manager>>
  BY DEF RequestClose, Push, Call
<1> HIDE DEF f
<1> QED
  BY <1>1, <1>2, Pushes DEF Showing, Closing, Asking

\* requestClose after a cancel event that nobody canceled.
LEMMA RequestContinuesStep ==
  ASSUME TopLayerInv, RequestContinues
  PROVE  TopLayerInv'
<1> DEFINE f == Last(stack)
           d == f.node
<1>1. stack # <<>> /\ f.do = "cancel"
  BY DEF RequestContinues, Engine
<1>2. f \in Frame
  BY <1>1, OnTop
<1>3. d \in Dialog
  BY <1>1, <1>2, FrameFields
<1>4. canceling' = canceling \ {d}
      /\ UNCHANGED <<attached, popovers, toggles, dialogs, watchers, manager>>
  BY DEF RequestContinues
<1>5. /\ allowed' \in Nat \ {0} /\ busy' \in SUBSET Popover /\ canceling' \in SUBSET Dialog
      /\ \A p \in Shown : p \in busy => p \in busy'
  BY <1>4 DEF TopLayerInv, Grouped, Placed, DialogTypes
<1>6. CASE Pop /\ UNCHANGED closing
  BY <1>1, <1>4, <1>5, <1>6, Pops DEF Pop, Showing, Closing, Asking
<1>7. CASE Close(d, Front(stack))
  <2> HIDE DEF f
  <2>1. /\ Sound(Front(stack), busy, closing, canceling', Shown)
        /\ Remaining(Front(stack), Watchers, ids, nextId)
        /\ Front(stack) # <<>> => Last(Front(stack)).do # "attribute"
    BY <1>1, <1>4, UnderTheTop DEF f, Showing, Closing, Asking
  <2>2. /\ closing' \in SUBSET Dialog /\ Sound(stack', busy, closing', canceling', Shown)
        /\ Remaining(stack', Watchers, ids, nextId)
    BY <1>3, <1>7, <2>1, Closes DEF TopLayerInv
  <2> QED BY <1>4, <1>5, <2>2, OnlyTheStack
<1> QED
  BY <1>6, <1>7 DEF RequestContinues

\* The open attribute of a dialog is set or removed by script.
LEMMA SetOpenStep ==
  ASSUME TopLayerInv, NEW d \in Dialog, SetOpen(d)
  PROVE  TopLayerInv'
<1>1. /\ opened' = IF d \in opened THEN opened \ {d} ELSE opened \cup {d}
      /\ Quietly({d}, d \notin opened)
      /\ UNCHANGED <<attached, popovers, openDialogs, guards, watchers, manager, stack>>
  BY DEF SetOpen
<1>2. Shown' = Shown /\ Watchers' = Watchers /\ Shown \subseteq Popover
  BY <1>1, SameShown, SameWatchers, WatchersAreNodes
<1>3. Placed'
  BY <1>1, SamePlaces DEF TopLayerInv, Placed, Fitting
<1>4. Grouped' /\ Owned'
  BY <1>1, SameGroups DEF TopLayerInv, Owned, Grouped
<1>5. Toggling'
  <2> DEFINE state == d \notin opened
  <2>1. d \in Node /\ d \notin Shown
    BY <1>2, TopLayerAssumption DEF Node
  <2>2. \A m \in {d} : IsOpen(m)' = state
    BY <1>1, <1>2, <2>1 DEF IsOpen
  <2>3. \A m \in Node \ {d} : IsOpen(m)' = IsOpen(m)
    BY <1>1, <1>2 DEF IsOpen
  <2>4. Toggling /\ state \in BOOLEAN /\ {d} \in SUBSET Node /\ Quietly({d}, state)
    BY <1>1, <2>1 DEF TopLayerInv
  <2> HIDE DEF state
  <2> QED BY <2>2, <2>3, <2>4, NotTold, Zenon
<1>6. DialogTypes'
  BY <1>1 DEF TopLayerInv, DialogTypes
<1> QED
  BY <1>1, <1>2, <1>3, <1>4, <1>5, <1>6 DEF TopLayerInv

-----------------------------------------------------------------------------
(* What the user does.                                                      *)

\* Where only what the user did last changes, all of the invariant stays.
LEMMA NothingMoves ==
  ASSUME TopLayerInv, allowed' \in Nat \ {0},
         UNCHANGED <<attached, popovers, toggles, opened, openDialogs, guards, watchers,
                     nextId, stack>>
  PROVE  TopLayerInv'
<1>1. /\ busy' \in SUBSET Popover /\ closing' \in SUBSET Dialog /\ canceling' \in SUBSET Dialog
      /\ \A p \in Shown : p \in busy => p \in busy'
  BY DEF TopLayerInv, Placed, DialogTypes
<1> QED
  BY <1>1, OnlyTheStack DEF TopLayerInv

\* The user acts: history-action activation.
LEMMA ActivateStep ==
  ASSUME TopLayerInv, Activate
  PROVE  TopLayerInv'
<1>1. allowed' \in Nat \ {0}
  BY DEF Activate, TopLayerInv, Grouped
<1> QED
  BY <1>1, NothingMoves DEF Activate

\* The pointer goes down.
LEMMA PressStep ==
  ASSUME TopLayerInv, NEW t \in Node \cup {NoNode}, Press(t)
  PROVE  TopLayerInv'
<1>1. allowed' \in Nat \ {0}
  BY DEF Press, TopLayerInv, Grouped
<1> QED
  BY <1>1, NothingMoves DEF Press

\* The pointer goes up: light dismiss begins.
LEMMA ReleaseStep ==
  ASSUME TopLayerInv, NEW t \in Node \cup {NoNode}, Release(t)
  PROVE  TopLayerInv'
<1> DEFINE clicked == Nearest(t, AutoShown)
           list == IF AutoShown # {} /\ pressed.popover = clicked THEN Nodes(Above(clicked)) ELSE <<>>
           f == Looping("dismiss", t, list)
<1>1. /\ stack = <<>> /\ stack' = Append(stack, f)
      /\ UNCHANGED <<attached, popovers, toggles, dialogs, guards, watchers, manager>>
  BY DEF Release, Input, Push
<1>2. list \in Seq(Popover)
  <2> DEFINE below == {k \in DOMAIN open : open[k].node = clicked}
             j == CHOOSE k \in below : TRUE
             later == IF below = {} THEN open ELSE SubSeq(open, j + 1, Len(open))
  <2>1. open \in Seq(Entry) /\ Len(open) \in Nat /\ DOMAIN open = 1..Len(open)
    BY DEF TopLayerInv, Placed
  <2>2. below # {} => j \in 1..Len(open)
    <3>1. below \subseteq 1..Len(open)
      BY <2>1
    <3> HIDE DEF below
    <3> QED BY <3>1
  <2> HIDE DEF below, j
  <2>3. later \in Seq(Entry)
    <3>1. CASE below = {}
      BY <2>1, <3>1
    <3>2. CASE below # {}
      <4>1. j + 1 \in 1..(Len(open) + 1)
        BY <2>1, <2>2, <3>2
      <4>2. SubSeq(open, j + 1, Len(open)) \in Seq(Entry)
        BY <2>1, <4>1
      <4> QED BY <3>2, <4>2
    <3> QED BY <3>1, <3>2
  <2>4. Above(clicked) = Kept(later, {e \in ToSet(open) : e.kind # "manual"})
    BY DEF Above, below, j
  <2> HIDE DEF later, clicked
  <2>5. Nodes(Above(clicked)) \in Seq(Popover)
    BY <2>3, <2>4, NodesOfEntries
  <2>6. <<>> \in Seq(Popover)
    OBVIOUS
  <2> QED BY <2>5, <2>6
<1> HIDE DEF list
<1>3. f \in Frame /\ f.do = "dismiss"
  BY <1>2, LoopingPlain
<1> HIDE DEF f
<1>4. Script
  BY <1>1 DEF Script
<1> QED
  BY <1>1, <1>3, <1>4, Pushes DEF Showing, Closing, Asking

\* Esc: the last group is asked.
LEMMA EscapeStep ==
  ASSUME TopLayerInv, Escape
  PROVE  TopLayerInv'
<1> DEFINE group == IF groups = <<>> THEN <<>> ELSE Last(groups)
           asked == [w \in Node |-> IF w \in ToSet(group) THEN ids[w] ELSE 0]
           f == With(Looping("group", NoNode, group), asked)
<1>1. /\ stack = <<>> /\ stack' = Append(stack, f)
      /\ UNCHANGED <<attached, popovers, toggles, dialogs, guards, watchers, manager>>
  BY DEF Escape, Input, Push
<1>2. group \in Seq(Node)
  <2>1. groups # <<>> => Last(groups) \in Seq(Node)
    BY Popped DEF TopLayerInv, Grouped
  <2> QED BY <2>1
<1>3. asked \in [Node -> Nat] /\ \A n \in Node : asked[n] = IF n \in ToSet(group) THEN ids[n] ELSE 0
  BY WatchersAreNodes
<1> HIDE DEF group, asked
<1>4. f \in Frame /\ f.do = "group" /\ f.rest = group /\ f.arg = asked
  BY <1>2, <1>3, GroupFrame
<1> HIDE DEF f
<1>5. Sound(stack', busy, closing, canceling, Shown)
  BY <1>1, <1>4, SoundPushed DEF TopLayerInv, Showing, Closing, Asking
<1>6. Remaining(stack', Watchers, ids, nextId)
  <2>1. stack' = <<f>>
    BY <1>1
  <2>2. \A n \in Node : ids[n] \in Nat /\ ids[n] <= nextId /\ nextId \in Nat
    BY DEF TopLayerInv, Grouped
  <2>3. \A n \in Node : asked[n] <= nextId
    BY <1>3, <2>2
  <2>4. \A n \in Watchers : n \in Node /\ ids[n] # 0
    BY WatchersAreNodes DEF TopLayerInv, Owned
  <2>5. \A n \in Watchers : asked[n] = ids[n] => n \in ToSet(group)
    BY <1>3, <2>4
  <2>6. stack'[1] = f
    BY <2>1
  <2> QED BY <1>4, <2>3, <2>5, <2>6 DEF Remaining
<1>7. /\ busy' \in SUBSET Popover /\ closing' \in SUBSET Dialog /\ canceling' \in SUBSET Dialog
      /\ \A p \in Shown : p \in busy => p \in busy' /\ allowed' \in Nat \ {0}
      /\ allowed' \in Nat \ {0}
  BY <1>1 DEF TopLayerInv, Placed, DialogTypes, Grouped
<1> QED
  BY <1>1, <1>5, <1>6, <1>7, OnlyTheStack

\* While user input is handled, nothing else is under way beneath it.
LEMMA AtTheBottom ==
  ASSUME TopLayerInv, stack # <<>>, Last(stack).do \in {"group", "dismiss"}
  PROVE  /\ Len(stack) = 1 /\ Front(stack) = <<>> /\ stack[1] = Last(stack)
         /\ busy = {} /\ closing = {} /\ canceling = {}
<1>1. stack \in Seq(Frame)
  BY OnTop
<1>2. /\ Len(stack) \in Nat \ {0} /\ DOMAIN stack = 1..Len(stack)
      /\ Last(stack) = stack[Len(stack)] /\ (Front(stack) = <<>> <=> Len(stack) = 1)
  BY <1>1, Popped
<1>3. Len(stack) = 1
  <2>1. Nested(stack) /\ Len(stack) \in DOMAIN stack
    BY <1>2 DEF TopLayerInv, Sound
  <2> QED BY <1>2, <2>1 DEF Nested
<1>4. \A k \in DOMAIN stack : stack[k] = Last(stack)
  BY <1>2, <1>3
<1>5. busy = {} /\ closing = {} /\ canceling = {}
  BY <1>4 DEF TopLayerInv, Sound, Holds, Showing, Closing, Asking
<1> QED
  BY <1>2, <1>3, <1>5

\* request_close, when at most the group that is asked is under way.
LEMMA Requested ==
  ASSUME TopLayerInv, busy = {}, closing = {}, canceling = {},
         NEW w \in Node, NEW prevents \in BOOLEAN, NEW base \in Seq(Frame),
         Sound(base, busy, closing, canceling, Shown),
         base = <<>> \/ (Len(base) = 1 /\ base[1].do = "group"),
         base # <<>> /\ (base[1].arg # NoNode \/ base[1].rest # <<>>) =>
           /\ \A n \in Node : base[1].arg[n] <= nextId
           /\ \A n \in Watchers : base[1].arg[n] = ids[n] =>
                n \in ToSet(base[1].rest) \/ (n = w /\ Enabled(w)),
         Request(w, prevents, base),
         UNCHANGED <<attached, kind, open, toggles, dialogs, closing, nextId>>,
         allowed' \in Nat \ {0}
  PROVE  TopLayerInv'
<1>1. base # <<>> => Last(base).do # "attribute"
  BY DEF Last
<1>2. Watchers \subseteq Node /\ Shown \subseteq Popover /\ AutoShown \subseteq Shown
  BY WatchersAreNodes
<1>3. CASE ~(w \in Watchers /\ Enabled(w))
  <2>1. stack' = base /\ UNCHANGED <<busy, canceling, watchers>>
    BY <1>3 DEF Request
  <2>2. Remaining(base, Watchers, ids, nextId)
    BY <1>3 DEF Remaining
  <2>3. /\ busy' \in SUBSET Popover /\ closing' \in SUBSET Dialog /\ canceling' \in SUBSET Dialog
        /\ \A p \in Shown : p \in busy => p \in busy'
    BY <2>1 DEF TopLayerInv, Placed, DialogTypes
  <2>4. Sound(stack', busy', closing', canceling', Shown)
    BY <2>1
  <2> QED BY <2>1, <2>2, <2>3, <2>4, OnlyTheStack
<1>4. CASE w \in Watchers /\ Enabled(w) /\ w \in Dialog
  <2> DEFINE a == [prevents |-> prevents, id |-> ids[w]]
             f == With(Suspended("request", w), a)
  <2>1. a \in [prevents : BOOLEAN, id : Nat] /\ a.id = ids[w]
    BY WatchersAreNodes
  <2>2. w \notin Popover
    BY <1>4, TopLayerAssumption
  <2>3. /\ canceling' = canceling \cup {w} /\ stack' = Append(base, f)
        /\ UNCHANGED <<busy, watchers>>
    BY <1>4, <2>2 DEF Request
  <2> HIDE DEF a
  <2>4. f \in Frame /\ f.do = "request" /\ f.node = w /\ f.arg.id = ids[w]
    BY <1>4, <2>1, RequestFrame
  <2> HIDE DEF f
  <2>5. Sound(stack', busy, closing, canceling', Shown)
    <3>1. f.do \notin Showing /\ f.do \notin Closing /\ f.do \in Asking /\ f.node \notin canceling
      BY <2>4 DEF Showing, Closing, Asking
    <3>2. Sound(Append(base, f), busy, closing, canceling \cup {f.node}, Shown)
      BY <1>1, <2>4, <3>1, SoundPushed
    <3> QED BY <2>3, <2>4, <3>2
  <2>6. Remaining(stack', Watchers, ids, nextId)
    <3>1. CASE base = <<>>
      <4>1. stack'[1] = f
        BY <2>3, <3>1
      <4> QED BY <2>4, <4>1 DEF Remaining
    <3>2. CASE base # <<>>
      <4>1. /\ Len(base) = 1 /\ Len(stack') = 2 /\ stack'[1] = base[1] /\ stack'[2] = f
        <5>1. /\ Len(stack') = Len(base) + 1 /\ \A k \in 1..Len(base) : stack'[k] = base[k]
              /\ stack'[Len(base) + 1] = f /\ Len(base) = 1
          BY <2>3, <2>4, <3>2, Pushed
        <5> QED BY <5>1
      <4> QED BY <2>4, <3>2, <4>1 DEF Remaining
    <3> QED BY <3>1, <3>2
  <2>7. /\ busy' \in SUBSET Popover /\ closing' \in SUBSET Dialog /\ canceling' \in SUBSET Dialog
        /\ \A p \in Shown : p \in busy => p \in busy'
    BY <1>4, <2>3 DEF TopLayerInv, Placed, DialogTypes
  <2>8. Sound(stack', busy', closing', canceling', Shown)
    BY <2>3, <2>5
  <2> QED BY <2>3, <2>6, <2>7, <2>8, OnlyTheStack
<1>5. CASE w \in Watchers /\ Enabled(w) /\ w \in Popover
  <2> DEFINE f == Suspended("hide", w)
  <2>1. w \notin Dialog
    BY <1>5, TopLayerAssumption
  <2>2. /\ Destroy({w}) /\ busy' = busy \cup {w} /\ stack' = Append(base, f)
        /\ UNCHANGED canceling
    BY <1>5, <2>1 DEF Request
  <2>3. f \in Frame /\ f.do = "hide" /\ f.node = w
    BY <1>5, SuspendedPopover
  <2> HIDE DEF f
  <2>4. /\ Grouped' /\ Watchers' = Watchers \ {w}
        /\ \A m \in Node : ids'[m] = IF m \in {w} THEN 0 ELSE ids[m]
    BY <2>2, Unwatched
  <2>5. Shown' = Shown /\ AutoShown' = AutoShown
    BY SameShown
  <2>6. Placed'
    <3>1. busy' \in SUBSET Popover /\ \A p \in Shown : kind[p] = "none" => p \in busy'
      BY <1>5, <2>2 DEF TopLayerInv, Placed, Fitting
    <3> QED BY <3>1, SamePlaces DEF TopLayerInv
  <2>7. Owned'
    <3>1. ASSUME NEW m \in Node PROVE ids'[m] # 0 <=> m \in Watchers'
      BY <2>4 DEF TopLayerInv, Owned
    <3>2. Watchers' \cap Popover \subseteq AutoShown' /\ AutoShown' \ Watchers' \subseteq busy'
      BY <2>2, <2>4, <2>5 DEF TopLayerInv, Owned
    <3>3. Watchers' \cap Dialog \subseteq ToSet(openDialogs')
      BY <2>4 DEF TopLayerInv, Owned
    <3> QED BY <3>1, <3>2, <3>3 DEF Owned
  <2>8. Toggling' /\ DialogTypes'
    BY <2>2, NothingToTell DEF TopLayerInv, DialogTypes
  <2>9. Sound(stack', busy', closing', canceling', Shown')
    <3>1. f.do \in Showing /\ f.do \notin Closing /\ f.do \notin Asking /\ f.node \notin busy
      BY <2>3 DEF Showing, Closing, Asking
    <3>2. Sound(Append(base, f), busy \cup {f.node}, closing, canceling, Shown)
      BY <1>1, <2>3, <3>1, SoundPushed
    <3> QED BY <2>2, <2>3, <2>5, <3>2
  <2>10. Remaining(stack', Watchers', ids', nextId')
    <3>1. Remaining(base, Watchers', ids', nextId')
      <4>1. \A n \in Watchers' : n \in Watchers /\ n # w /\ ids'[n] = ids[n]
        BY <1>2, <2>4
      <4> QED BY <4>1 DEF Remaining
    <3> QED BY <2>2, <2>3, <3>1, RemainingPushed
  <2> QED BY <2>4, <2>6, <2>7, <2>8, <2>9, <2>10 DEF TopLayerInv
<1> QED
  BY <1>3, <1>4, <1>5 DEF Node

\* The next watcher of the group is asked to close.
LEMMA AskNextStep ==
  ASSUME TopLayerInv, AskNext
  PROVE  TopLayerInv'
<1> DEFINE f == Last(stack)
           w == Last(f.rest)
           asked == IF w \in Watchers /\ Enabled(w) THEN f.arg ELSE [f.arg EXCEPT ![w] = 0]
           g == With(Looping("group", NoNode, Front(f.rest)), asked)
           base == Append(Front(stack), g)
           prevents == Len(groups) < allowed /\ history
<1>1. /\ stack # <<>> /\ f.do = "group" /\ f.rest # <<>>
      /\ Request(w, prevents, base)
      /\ UNCHANGED <<attached, kind, open, toggles, dialogs, closing, manager>>
  BY DEF AskNext, Engine
<1>2. stack \in Seq(Frame) /\ f \in Frame
  BY <1>1, OnTop
<1>3. f.rest \in Seq(Node) /\ f.arg \in [Node -> Nat]
  BY <1>1, <1>2, FrameFields
<1>4. /\ Len(stack) = 1 /\ Front(stack) = <<>> /\ stack[1] = f
      /\ busy = {} /\ closing = {} /\ canceling = {}
  BY <1>1, AtTheBottom
<1>5. /\ w \in Node /\ Front(f.rest) \in Seq(Node)
      /\ \A n : n \in ToSet(f.rest) => n = w \/ n \in ToSet(Front(f.rest))
  <2>1. f.rest \in Seq(Node) /\ f.rest # <<>>
    BY <1>1, <1>3
  <2> DEFINE s == f.rest
  <2> HIDE DEF s
  <2>2. /\ Front(s) \in Seq(Node) /\ Len(s) \in Nat \ {0} /\ DOMAIN s = 1..Len(s)
        /\ DOMAIN Front(s) = 1..(Len(s) - 1)
        /\ \A k \in 1..(Len(s) - 1) : Front(s)[k] = s[k]
        /\ Last(s) = s[Len(s)] /\ Last(s) \in Node
    BY <2>1, Popped DEF s
  <2>3. \A k \in DOMAIN s : k = Len(s) \/ (k \in DOMAIN Front(s) /\ Front(s)[k] = s[k])
    BY <2>2
  <2>4. \A n : n \in ToSet(s) => n = Last(s) \/ n \in ToSet(Front(s))
    BY <2>2, <2>3 DEF ToSet
  <2> QED BY <2>2, <2>4 DEF s
<1>6. /\ asked \in [Node -> Nat]
      /\ \A n \in Node \ {w} : asked[n] = f.arg[n]
      /\ asked[w] = IF w \in Watchers /\ Enabled(w) THEN f.arg[w] ELSE 0
  BY <1>3, <1>5
<1> HIDE DEF asked
<1>7. g \in Frame /\ g.do = "group" /\ g.rest = Front(f.rest) /\ g.arg = asked
  BY <1>5, <1>6, GroupFrame
<1> DEFINE m == Front(f.rest)
<1> HIDE DEF g
<1>8. base = <<g>> /\ base \in Seq(Frame) /\ Len(base) = 1 /\ base[1] = g
  BY <1>4, <1>7
<1>9. Sound(base, busy, closing, canceling, Shown)
  <2>1. \A k \in DOMAIN stack : base[k].do = stack[k].do /\ base[k].node = stack[k].node
    <3>1. f.node = NoNode /\ g.node = NoNode
      BY <1>1, <1>2, <1>7, FrameFields
    <3>2. \A k \in DOMAIN stack : k = 1
      BY <1>2, <1>4
    <3> QED BY <1>1, <1>4, <1>7, <1>8, <3>1, <3>2
  <2> HIDE DEF base
  <2> QED BY <1>4, <1>8, <2>1, SoundSame DEF TopLayerInv
<1>10. /\ \A n \in Node : asked[n] <= nextId
       /\ \A n \in Watchers : asked[n] = ids[n] =>
            n \in ToSet(Front(f.rest)) \/ (n = w /\ Enabled(w))
  <2>1. /\ \A n \in Node : f.arg[n] \in Nat /\ nextId \in Nat
        /\ \A n \in Watchers : n \in Node /\ ids[n] # 0
    BY <1>3, WatchersAreNodes DEF TopLayerInv, Owned
  <2>2. /\ \A n \in Node : f.arg[n] <= nextId
        /\ \A n \in Watchers : f.arg[n] = ids[n] => n \in ToSet(f.rest)
    BY <1>1, <1>4 DEF TopLayerInv, Remaining
  <2>3. \A n \in Node : asked[n] <= nextId
    BY <1>6, <2>1, <2>2
  <2>4. ASSUME NEW n \in Watchers, asked[n] = ids[n]
        PROVE  n \in ToSet(Front(f.rest)) \/ (n = w /\ Enabled(w))
    BY <1>5, <1>6, <2>1, <2>2, <2>4
  <2> QED BY <2>3, <2>4
<1>11. /\ UNCHANGED nextId /\ allowed' \in Nat \ {0} /\ prevents \in BOOLEAN
  BY <1>1 DEF TopLayerInv, Grouped
<1> HIDE DEF base, f, prevents
<1> HIDE DEF w
<1> QED
  BY <1>1, <1>4, <1>5, <1>7, <1>8, <1>9, <1>10, <1>11, Requested

-----------------------------------------------------------------------------
(* Close requests, tasks, and the theorems.                                 *)

\* Everyone in the group was asked.
LEMMA GroupAskedStep ==
  ASSUME TopLayerInv, GroupAsked
  PROVE  TopLayerInv'
<1>1. stack # <<>> /\ Last(stack).do = "group" /\ stack' = Front(stack)
      /\ UNCHANGED <<attached, popovers, toggles, dialogs, guards, watchers, nextId>>
      /\ allowed' = IF allowed > 1 THEN allowed - 1 ELSE allowed
  BY DEF GroupAsked, Engine, Pop
<1>2. allowed' \in Nat \ {0}
  BY <1>1 DEF TopLayerInv, Grouped
<1> QED
  BY <1>1, <1>2, Pops DEF Showing, Closing, Asking

\* A close request is answered with the group that asked beneath it, or nothing.
LEMMA UnderARequest ==
  ASSUME TopLayerInv, stack # <<>>, Last(stack).do = "request"
  PROVE  LET base == Front(stack)
         IN  /\ base \in Seq(Frame)
             /\ \/ base = <<>> /\ Len(stack) = 1 /\ stack[1] = Last(stack)
                \/ /\ Len(base) = 1 /\ DOMAIN base = {1} /\ base[1] = stack[1]
                   /\ stack[1].do = "group"
                   /\ Len(stack) = 2 /\ stack[2] = Last(stack)
             /\ base # <<>> => Last(base).do = "group"
             /\ Sound(base, busy, closing, canceling \ {Last(stack).node}, Shown)
<1> DEFINE base == Front(stack)
<1>1. stack \in Seq(Frame)
  BY OnTop
<1>2. /\ base \in Seq(Frame)
      /\ Len(stack) \in Nat \ {0} /\ DOMAIN stack = 1..Len(stack)
      /\ Len(base) = Len(stack) - 1 /\ DOMAIN base = 1..(Len(stack) - 1)
      /\ \A k \in 1..(Len(stack) - 1) : base[k] = stack[k]
      /\ Last(stack) = stack[Len(stack)] /\ (base = <<>> <=> Len(stack) = 1)
  BY <1>1, Popped
<1> HIDE DEF base
<1>3. Len(stack) = 1 \/ (Len(stack) = 2 /\ stack[1].do = "group")
  <2>1. Nested(stack) /\ Len(stack) \in DOMAIN stack
    BY <1>2 DEF TopLayerInv, Sound
  <2> QED BY <1>2, <2>1 DEF Nested
<1>4. \/ base = <<>> /\ Len(stack) = 1 /\ stack[1] = Last(stack)
      \/ /\ Len(base) = 1 /\ DOMAIN base = {1} /\ base[1] = stack[1]
         /\ stack[1].do = "group"
         /\ Len(stack) = 2 /\ stack[2] = Last(stack)
  <2>1. CASE Len(stack) = 1
    BY <1>2, <2>1
  <2>2. CASE Len(stack) = 2 /\ stack[1].do = "group"
    <3>1. 1..(Len(stack) - 1) = {1}
      BY <2>2
    <3> QED BY <1>2, <2>2, <3>1
  <2> QED BY <1>3, <2>1, <2>2
<1>5. base # <<>> => Last(base).do = "group"
  BY <1>4 DEF Last
<1>6. Sound(base, busy, closing, canceling \ {Last(stack).node}, Shown)
  <2>1. /\ Last(stack).do \notin Showing /\ Last(stack).do \notin Closing
        /\ Last(stack).do \in Asking /\ Last(stack).do # "hide"
    BY DEF Showing, Closing, Asking
  <2>2. Sound(stack, busy, closing, canceling, Shown)
    BY DEF TopLayerInv
  <2> QED BY <2>1, <2>2, SoundPopped DEF base
<1> QED
  BY <1>2, <1>4, <1>5, <1>6 DEF base

\* A close request after its cancel event: canceled, closed, or overtaken.
LEMMA AnsweredStep ==
  ASSUME TopLayerInv, Answered
  PROVE  TopLayerInv'
<1> DEFINE f == Last(stack)
           base == Front(stack)
           w == f.node
<1>1. stack # <<>> /\ f.do = "request" /\ canceling' = canceling \ {w}
      /\ UNCHANGED <<attached, popovers, toggles, dialogs, manager>>
  BY DEF Answered, Engine
<1>2. f \in Frame
  BY <1>1, OnTop
<1>3. w \in Dialog /\ w \in Node
  BY <1>1, <1>2, FrameFields DEF Node
<1>4. /\ base \in Seq(Frame)
      /\ \/ base = <<>> /\ Len(stack) = 1 /\ stack[1] = f
         \/ /\ Len(base) = 1 /\ DOMAIN base = {1} /\ base[1] = stack[1]
            /\ stack[1].do = "group"
            /\ Len(stack) = 2 /\ stack[2] = f
      /\ base # <<>> => Last(base).do = "group"
      /\ Sound(base, busy, closing, canceling', Shown)
  BY <1>1, UnderARequest
<1>5. /\ allowed' \in Nat \ {0} /\ busy' \in SUBSET Popover /\ canceling' \in SUBSET Dialog
      /\ \A p \in Shown : p \in busy => p \in busy'
  BY <1>1 DEF TopLayerInv, Grouped, Placed, DialogTypes
<1>6. Remaining(stack, Watchers, ids, nextId)
  BY DEF TopLayerInv
<1>7. CASE /\ stack' = [k \in DOMAIN base |-> With(Looping("group", NoNode, <<>>), NoNode)]
           /\ UNCHANGED <<closing, watchers>>
  <2> DEFINE g == With(Looping("group", NoNode, <<>>), NoNode)
  <2>1. g \in Frame /\ g.do = "group" /\ g.node = NoNode /\ g.rest = <<>> /\ g.arg = NoNode
    BY LeftGroupFrame
  <2>2. stack' = [k \in DOMAIN base |-> g]
    BY <1>7
  <2> HIDE DEF g, base
  <2>3. DOMAIN base = 1..Len(base) /\ Len(base) \in Nat
    BY <1>4
  <2>4. stack' \in Seq(Frame) /\ Len(stack') = Len(base) /\ \A k \in DOMAIN base : stack'[k] = g
    BY <2>1, <2>2, <2>3
  <2>5. \A k \in DOMAIN base : stack'[k].do = base[k].do /\ stack'[k].node = base[k].node
    <3>1. \A k \in DOMAIN base : base[k].do = "group" /\ base[k] \in Frame
      BY <1>4, <2>3
    <3> QED BY <2>1, <2>4, <3>1, FrameFields
  <2>6. Sound(stack', busy, closing, canceling', Shown)
    BY <1>4, <2>4, <2>5, SoundSame
  <2>7. Remaining(stack', Watchers, ids, nextId)
    <3>1. stack' # <<>> => stack'[1] = g
      BY <2>3, <2>4, EmptySeq
    <3> QED BY <2>1, <3>1 DEF Remaining
  <2>8. Sound(stack', busy', closing', canceling', Shown) /\ closing' \in SUBSET Dialog
    BY <1>1, <1>7, <2>6 DEF TopLayerInv, DialogTypes
  <2> QED BY <1>1, <1>5, <1>7, <2>7, <2>8, OnlyTheStack
<1>8. CASE ids[w] = f.arg.id /\ Destroy({w}) /\ Close(w, base)
  <2>0. DialogTypes
    BY DEF TopLayerInv
  <2> HIDE DEF base, f
  <2>1. /\ closing' \in SUBSET Dialog /\ Sound(stack', busy, closing', canceling', Shown)
        /\ \A v, i, m : Remaining(base, v, i, m) => Remaining(stack', v, i, m)
    BY <1>3, <1>4, <1>8, <2>0, Closes
  <2>2. /\ Grouped' /\ Watchers' = Watchers \ {w}
        /\ \A m \in Node : ids'[m] = IF m \in {w} THEN 0 ELSE ids[m]
    BY <1>1, <1>3, <1>5, <1>8, Unwatched
  <2>3. Shown' = Shown /\ AutoShown' = AutoShown /\ Watchers \subseteq Node /\ AutoShown \subseteq Popover
    BY <1>1, SameShown, WatchersAreNodes
  <2>4. Placed'
    BY <1>1, SamePlaces DEF TopLayerInv, Placed, Fitting
  <2>5. Owned'
    <3>1. ASSUME NEW m \in Node PROVE ids'[m] # 0 <=> m \in Watchers'
      BY <2>2 DEF TopLayerInv, Owned
    <3>2. Watchers' \cap Popover \subseteq AutoShown'
      BY <2>2, <2>3 DEF TopLayerInv, Owned
    <3>3. AutoShown' \ Watchers' \subseteq busy'
      BY <1>1, <1>3, <2>2, <2>3, TopLayerAssumption DEF TopLayerInv, Owned
    <3>4. Watchers' \cap Dialog \subseteq ToSet(openDialogs')
      BY <1>1, <2>2 DEF TopLayerInv, Owned, ToSet
    <3> QED BY <3>1, <3>2, <3>3, <3>4 DEF Owned
  <2>6. Toggling' /\ DialogTypes'
    BY <1>1, <1>5, <2>1, NothingToTell DEF TopLayerInv, DialogTypes
  <2>7. Remaining(base, Watchers', ids', nextId')
    <3>1. \A n \in Watchers' : n \in Watchers /\ n # w /\ ids'[n] = ids[n]
      BY <2>2, <2>3
    <3>2. nextId' = nextId
      BY <1>1
    <3>3. CASE base = <<>>
      BY <3>3 DEF Remaining
    <3>4. CASE base # <<>>
      <4>1. base[1] = stack[1] /\ stack[2].node = w
        BY <1>4, <3>4 DEF f
      <4> QED BY <1>1, <1>6, <3>1, <3>2, <4>1 DEF Remaining
    <3> QED BY <3>3, <3>4
  <2>8. Sound(stack', busy', closing', canceling', Shown') /\ Remaining(stack', Watchers', ids', nextId')
    BY <1>1, <2>1, <2>3, <2>7
  <2> QED BY <2>2, <2>4, <2>5, <2>6, <2>8 DEF TopLayerInv
<1>9. CASE ids[w] # f.arg.id /\ Pop /\ UNCHANGED <<closing, watchers>>
  <2>1. stack' = base
    BY <1>9 DEF Pop
  <2> HIDE DEF base
  <2>2. Remaining(base, Watchers, ids, nextId)
    <3>1. CASE base = <<>>
      BY <3>1 DEF Remaining
    <3>2. CASE base # <<>>
      <4>1. base[1] = stack[1] /\ stack[2].node = w /\ stack[2].arg.id # ids[w]
        BY <1>4, <1>9, <3>2
      <4> QED BY <1>1, <1>6, <4>1 DEF Remaining
    <3> QED BY <3>1, <3>2
  <2>3. /\ Sound(stack', busy', closing', canceling', Shown) /\ closing' \in SUBSET Dialog
        /\ Remaining(stack', Watchers, ids, nextId)
    BY <1>1, <1>4, <1>9, <2>1, <2>2 DEF TopLayerInv, DialogTypes
  <2> QED BY <1>1, <1>5, <1>9, <2>3, OnlyTheStack
<1> QED
  BY <1>7, <1>8, <1>9 DEF Answered

\* Light dismiss closes the dialog the pointer was outside of.
LEMMA DismissDialogStep ==
  ASSUME TopLayerInv, DismissDialog
  PROVE  TopLayerInv'
<1> DEFINE top == Last(openDialogs)
<1>1. /\ stack # <<>> /\ Last(stack).do = "dismiss"
      /\ UNCHANGED <<attached, kind, open, toggles, dialogs, closing, manager>>
  BY DEF DismissDialog, Engine
<1>2. allowed' \in Nat \ {0} /\ UNCHANGED nextId
  BY <1>1 DEF TopLayerInv, Grouped
<1>3. Front(stack) = <<>> /\ busy = {} /\ closing = {} /\ canceling = {}
  BY <1>1, AtTheBottom
<1>4. CASE openDialogs # <<>> /\ Request(top, TRUE, Front(stack))
  <2>1. top \in Node
    <3>1. top \in Dialog
      BY <1>4, Popped DEF TopLayerInv, DialogTypes
    <3> QED BY <3>1 DEF Node
  <2>2. Sound(Front(stack), busy, closing, canceling, Shown) /\ Front(stack) \in Seq(Frame)
    <3>1. /\ Last(stack).do \notin Showing /\ Last(stack).do \notin Closing
          /\ Last(stack).do \notin Asking /\ Last(stack).do # "hide" /\ Last(stack).do # "request"
      BY <1>1 DEF Showing, Closing, Asking
    <3> QED BY <1>1, <3>1, UnderTheTop
  <2> DEFINE base == Front(stack)
  <2>3. base = <<>> /\ Request(top, TRUE, base)
    BY <1>3, <1>4
  <2> HIDE DEF base, top
  <2>4. Sound(base, busy, closing, canceling, Shown) /\ base \in Seq(Frame)
    BY <2>2 DEF base
  <2> QED BY <1>1, <1>2, <1>3, <2>1, <2>3, <2>4, Requested
<1>5. CASE Pop /\ UNCHANGED <<busy, canceling, watchers>>
  BY <1>1, <1>2, <1>5, Pops DEF Pop, Showing, Closing, Asking
<1> QED
  BY <1>4, <1>5 DEF DismissDialog

\* A toggle event is delivered.
LEMMA DeliverStep ==
  ASSUME TopLayerInv, NEW n \in Node, NEW task, Deliver(n, task)
  PROVE  TopLayerInv'
<1>1. UNCHANGED <<attached, popovers, dialogs, guards, watchers, manager, stack>>
  BY DEF Deliver
<1>2. Shown' = Shown /\ Watchers' = Watchers
  BY <1>1, SameShown, SameWatchers
<1>3. Placed'
  BY <1>1, SamePlaces DEF TopLayerInv, Placed, Fitting
<1>4. Grouped' /\ Owned'
  BY <1>1, SameGroups DEF TopLayerInv, Owned, Grouped
<1>5. Toggling'
  BY Delivered DEF TopLayerInv
<1>6. DialogTypes'
  BY <1>1 DEF TopLayerInv, DialogTypes
<1> QED
  BY <1>1, <1>2, <1>3, <1>4, <1>5, <1>6 DEF TopLayerInv

-----------------------------------------------------------------------------
(* The theorems.                                                            *)

\* At the beginning nothing shows and nobody is asked.
LEMMA TopLayerBegins == TopLayerInit => TopLayerInv
<1> SUFFICES ASSUME TopLayerInit PROVE TopLayerInv
  OBVIOUS
<1> USE DEF TopLayerInit
<1>1. Shown = {} /\ AutoShown = {} /\ Watchers = {}
  BY DEF Shown, AutoShown, Watchers, ToSet
<1>2. Placed
  BY <1>1, TopLayerAssumption DEF Placed, ShownOnce, Fitting, PopoverKind
<1>3. Toggling
  <2>1. \A n \in Node : pending[n] = NoToggle /\ told[n] = FALSE
    OBVIOUS
  <2>2. \A n \in Node : IsOpen(n) = FALSE
    BY <1>1 DEF IsOpen
  <2>3. TogglesTellTheState
    BY <2>1, <2>2, Zenon DEF TogglesTellTheState
  <2>4. pending \in [Node -> [old : BOOLEAN, new : BOOLEAN, task : Nat]]
    BY DEF NoToggle
  <2>5. told \in [Node -> BOOLEAN] /\ unsaid = {} /\ tasks = {} /\ nextTask \in Nat
    OBVIOUS
  <2> QED BY <2>1, <2>3, <2>4, <2>5 DEF Toggling
<1>4. DialogTypes
  BY DEF DialogTypes
<1>5. Grouped /\ Owned
  BY <1>1 DEF Grouped, Owned, Sole, ToSet
<1>6. Sound(stack, busy, closing, canceling, Shown)
  <2>1. stack \in Seq(Frame)
    OBVIOUS
  <2> QED BY <2>1 DEF Sound, Holds, Nested, Unshown
<1>7. Remaining(stack, Watchers, ids, nextId)
  BY DEF Remaining
<1> QED
  BY <1>2, <1>3, <1>4, <1>5, <1>6, <1>7 DEF TopLayerInv

\* Every call of script, input of the user, step of the engine and task keeps the
\* invariant.
LEMMA TopLayerSteps == TopLayerInv /\ [TopLayerNext]_topLayerVars => TopLayerInv'
<1> SUFFICES ASSUME TopLayerInv, [TopLayerNext]_topLayerVars PROVE TopLayerInv'
  OBVIOUS
<1>1. CASE ScriptCall
  BY <1>1, ShowPopoverStep, HidePopoverStep, SetKindStep, AttachStep, DetachStep,
     CloseDialogStep, RequestCloseStep, SetOpenStep, ShowDialogStep DEF ScriptCall
<1>2. CASE UserInput
  BY <1>2, ActivateStep, EscapeStep, PressStep, ReleaseStep DEF UserInput
<1>3. CASE Continues
  <2>1. CASE HideRival \/ HideUnrelated \/ DismissNext
    BY <2>1, HideNextStep DEF HideRival, HideUnrelated, DismissNext, Engine
  <2> QED BY <1>3, <2>1, ShowContinuesStep, ShowStep, HideContinuesStep, ChangeAttributeStep,
             ShowDialogContinuesStep, DialogShownStep, CloseContinuesStep, RefocusedStep,
             RequestContinuesStep, AnsweredStep, AskNextStep, GroupAskedStep,
             DismissDialogStep DEF Continues
<1>4. CASE Deliveries
  <2>1. PICK t \in tasks : Deliver(t[1], t[2])
    BY <1>4 DEF Deliveries
  <2>2. t[1] \in Node
    BY <2>1 DEF TopLayerInv, Toggling
  <2> QED BY <2>1, <2>2, DeliverStep
<1>5. CASE UNCHANGED topLayerVars
  <2>1. allowed' \in Nat \ {0}
    BY <1>5 DEF topLayerVars, TopLayerInv, Grouped
  <2> QED BY <1>5, <2>1, NothingMoves DEF topLayerVars
<1> QED
  BY <1>1, <1>2, <1>3, <1>4, <1>5 DEF TopLayerNext

(* Whatever script calls inside whatever event, and whatever the user does: *)
(* guards, groups, open lists and pending events stay in step.              *)
THEOREM TopLayerInvariant == TopLayerSpec => []TopLayerInv
BY TopLayerBegins, TopLayerSteps, PTL DEF TopLayerSpec

(* Whatever shows is connected, and has lost its popover attribute only     *)
(* while its own show or hide is under way: the checks after beforetoggle   *)
(* are enough.                                                              *)
THEOREM ShownStayFit == TopLayerSpec => []ShownAreFit
<1>1. TopLayerInv => ShownAreFit
  BY DEF TopLayerInv, Placed, ShownOnce, Fitting, ShownAreFit
<1> QED
  BY <1>1, TopLayerInvariant, PTL

(* Each guard is held by exactly the operations that wait for script, one   *)
(* each: no path of show_popover, hide_popover, close or requestClose       *)
(* leaves it set, and none releases it for another.                         *)
THEOREM GuardsStayBalanced == TopLayerSpec => []GuardsAreBalanced
<1>1. ASSUME NEW K, NEW G, Holds(stack, K, G)
      PROVE  /\ G = {stack[k].node : k \in {j \in DOMAIN stack : stack[j].do \in K}}
             /\ \A j, k \in {i \in DOMAIN stack : stack[i].do \in K} :
                  stack[j].node = stack[k].node => j = k
  BY <1>1 DEF Holds
<1>2. TopLayerInv => GuardsAreBalanced
  <2> SUFFICES ASSUME TopLayerInv PROVE GuardsAreBalanced
    OBVIOUS
  <2>1. /\ Holds(stack, {"show", "rivals", "hide"}, busy)
        /\ Holds(stack, {"close", "refocus"}, closing)
        /\ Holds(stack, {"cancel", "request"}, canceling)
    BY DEF TopLayerInv, Sound, Showing, Closing, Asking
  <2> QED BY <1>1, <2>1 DEF GuardsAreBalanced
<1> QED
  BY <1>2, TopLayerInvariant, PTL

(* A close watcher is there for what shows, and an auto or hint popover     *)
(* that shows has one: establish and destroy keep in step with the lists.   *)
THEOREM WatchersStayOwned == TopLayerSpec => []WatchersAreOwned
<1>1. TopLayerInv => WatchersAreOwned
  BY DEF TopLayerInv, Grouped, Owned, Sole, WatchersAreOwned
<1> QED
  BY <1>1, TopLayerInvariant, PTL

(* The toggle events queued, coalesced and delivered tell the state there   *)
(* is, except for what was closed without an event.                         *)
THEOREM TogglesStayTrue == TopLayerSpec => []TogglesTellTheState
<1>1. TopLayerInv => TogglesTellTheState
  BY DEF TopLayerInv, Toggling
<1> QED
  BY <1>1, TopLayerInvariant, PTL

(* A close request that nobody canceled has closed or asked all of the      *)
(* group, though script closed and showed others in between.                *)
THEOREM EscapeReaches == TopLayerSpec => EscapeReachesTheGroup
<1>1. TopLayerInv => \A w \in Watchers :
        GroupAsked /\ Last(stack).arg # NoNode => ids[w] # Last(stack).arg[w]
  <2> SUFFICES ASSUME TopLayerInv, NEW w \in Watchers, GroupAsked, Last(stack).arg # NoNode
               PROVE  ids[w] # Last(stack).arg[w]
    OBVIOUS
  <2>1. stack # <<>> /\ Last(stack).do = "group" /\ Last(stack).rest = <<>>
    BY DEF GroupAsked, Engine
  <2>2. Len(stack) = 1 /\ stack[1] = Last(stack)
    BY <2>1, AtTheBottom
  <2>3. w \notin ToSet(<<>>)
    BY DEF ToSet
  <2> QED BY <2>1, <2>2, <2>3 DEF TopLayerInv, Remaining
<1>2. TopLayerInv => [\A w \in Watchers :
        GroupAsked /\ Last(stack).arg # NoNode => ids[w] # Last(stack).arg[w]]_topLayerVars
  BY <1>1
<1> QED
  BY <1>2, TopLayerInvariant, PTL DEF EscapeReachesTheGroup

=============================================================================
