--------------------------- MODULE CustomElements ---------------------------
(***************************************************************************)
(* Custom elements of the bindings (custom_elements.rs, .js): upgrades,    *)
(* construction and reactions, with script that calls the DOM again inside *)
(* every constructor and callback.                                         *)
(*                                                                         *)
(* A DOM call changes the tree, hands its events to the hook in one go     *)
(* (the hook reads the tree as the call leaves it) and then runs the       *)
(* reactions of the elements it queued some for.  Each element has one     *)
(* queue, whoever waits for it.                                            *)
(*                                                                         *)
(* One definition, whose elements hold no others and observe one           *)
(* attribute, and one plain container.  Left out: several registries and   *)
(* documents, adoption, shadow trees, `is`, clones, element internals,     *)
(* getters and error listeners that run script, termination.               *)
(***************************************************************************)
EXTENDS Lists

CONSTANTS Body, Box,      \* the page's body and a container
          Custom,         \* elements the definition is for
          None,
          Start,          \* those Box holds at first
          Marked,         \* those that have the attribute at first
          TellsMoves,     \* whether there is a connectedMoveCallback
          MaxCalls        \* bound: DOM calls by script

Holder == {Body, Box}
Waiting == ToSet(Start)

ASSUME CustomElementsAssumption ==
  /\ Body # Box /\ Holder \cap Custom = {} /\ None \notin Holder \cup Custom
  /\ Start \in Seq(Custom) /\ IsInjective(Start)
  /\ Marked \subseteq Waiting
  /\ TellsMoves \in BOOLEAN /\ MaxCalls \in Nat

VARIABLES kids,       \* the children of body and container
          attr,       \* the attribute of an element, 0 without one
          born,       \* the elements made so far
          defined,    \* customElements.define was called
          rec,        \* the record of an element
          queue,      \* the reactions of an element that have not begun
          stack,      \* what is under way, the innermost first
          calls,
          told,       \* history: what the element's callbacks told last
          disturbed   \* history: script changed it while it was upgraded

page == <<kids, attr, born, defined>>
elements == <<page, rec, queue, stack, calls, told, disturbed>>

ParentOf(n) == CHOOSE p \in Holder \cup {None} :
                 IF p = None THEN \A q \in Holder : n \notin ToSet(kids[q])
                             ELSE n \in ToSet(kids[p])

Connected(lists, n) ==
  \E p \in Holder : /\ n = p \/ n \in ToSet(lists[p])
                    /\ p = Body \/ p \in ToSet(lists[Body])

\* The elements of a subtree, in the order of a walk.
ElementsIn(n) == IF n = Box THEN kids[Box] ELSE <<n>>

-----------------------------------------------------------------------------
(* Queueing.  v is one element: its record and its reactions.               *)

Reaction(what) == [what |-> what, old |-> 0, new |-> 0]
Changed(old, new) == [what |-> "attribute", old |-> old, new |-> new]

\* Mutant: what comes last runs first.
ReactFirst(v, r) == [v EXCEPT !.queue = <<r>> \o @]

\* An older reaction of the element stays in front of the new one, whoever
\* queued it.
React(v, r) == [v EXCEPT !.queue = Append(@, r)]

\* An upgrade that waits is never queued again.
Upgraded(v) == React([v EXCEPT !.rec.status = "pending"], Reaction("upgrade"))

Removing(v) ==
  IF v.rec.status = "custom" /\ v.rec.connected /\ ~v.rec.moving
  THEN React([v EXCEPT !.rec.connected = FALSE], Reaction("disconnected"))
  ELSE v

\* A candidate that came into the page begins to wait; who is custom learns
\* about a connection that is not the one on record.
Visit(v, now) ==
  CASE v.rec.status = "none" /\ defined /\ now -> Upgraded(v)
    [] v.rec.status = "custom" /\ v.rec.connected # now ->
         React([v EXCEPT !.rec.connected = now],
               Reaction(IF now THEN "connected" ELSE "disconnected"))
    [] OTHER -> v

\* Mutant: the flag stays when the moved element arrives.
AddingStuck(v, now) == IF v.rec.moving THEN v ELSE Visit(v, now)

Adding(v, now) == IF v.rec.moving THEN [v EXCEPT !.rec.moving = FALSE] ELSE Visit(v, now)

\* The empty reaction only makes sure the element's older ones run.
Moving(v, now) ==
  IF v.rec.status = "custom" /\ v.rec.connected /\ now
  THEN LET waiting == React(v, Reaction("nothing"))
       IN  IF TellsMoves THEN React([waiting EXCEPT !.rec.moving = TRUE], Reaction("moved"))
           ELSE waiting
  ELSE v

\* A parser's element does not wait for a connection.
Parsing(v) == IF v.rec.status = "none" /\ defined THEN Upgraded(v) ELSE v

AttributeSet(v, old) ==
  IF v.rec.status = "custom" THEN React(v, Changed(old, 1 - old)) ELSE v

\* What the hook does with one element of an event.
Handled(lists, kind, n, v) ==
  CASE kind = "removed"   -> Removing(v)
    [] kind = "added"     -> Adding(v, Connected(lists, n))
    [] kind = "move"      -> Moving(v, Connected(lists, n))
    [] kind = "parsed"    -> Parsing(v)
    [] kind = "attribute" -> AttributeSet(v, attr[n])

\* One event.  s is a call's view: records, queues and its own order of
\* elements.  What the hook does with an element depends on no other one; an
\* element that got a reaction joins the order.
Delivered(lists, s, e) ==
  LET v == [n \in Custom |->
              IF n \in ToSet(e.nodes)
              THEN Handled(lists, e.kind, n, [rec |-> s.rec[n], queue |-> s.queue[n]])
              ELSE [rec |-> s.rec[n], queue |-> s.queue[n]]]
  IN  [rec   |-> [n \in Custom |-> v[n].rec],
       queue |-> [n \in Custom |-> v[n].queue],
       order |-> s.order \o Kept(e.nodes, {n \in Custom : v[n].queue # s.queue[n]}
                                           \ ToSet(s.order))]

AllDelivered(lists, s, events) ==
  LET d[k \in 0..Len(events)] == IF k = 0 THEN s ELSE Delivered(lists, d[k - 1], events[k])
  IN  d[Len(events)]

Event(kind, nodes) == [kind |-> kind, nodes |-> nodes]

-----------------------------------------------------------------------------
(* The calls of script: between everything, or in a callback or a           *)
(* constructor.                                                             *)

Scripting ==
  /\ calls < MaxCalls
  /\ stack # <<>> => Head(stack).kind \in {"callback", "constructor", "creation"}

\* Once the method is done: its events, then its reactions.
Flush(events) ==
  LET s == AllDelivered(kids', [rec |-> rec, queue |-> queue, order |-> <<>>], events)
  IN  /\ rec' = s.rec
      /\ queue' = s.queue
      /\ stack' = IF s.order = <<>> THEN stack
                  ELSE <<[kind |-> "reactions", order |-> s.order]>> \o stack
      /\ calls' = calls + 1
      /\ UNCHANGED told

Constructing(n) == rec[n].status = "constructing"
Settling(n) == \E i \in DOMAIN stack :
                 stack[i].kind = "settling" /\ stack[i].node = n /\ stack[i].todo # <<>>

Disturbs(nodes) ==
  disturbed' = disturbed \cup {n \in ToSet(nodes) : Constructing(n) \/ Settling(n)}

TakenOut(n) == [p \in Holder |-> RemoveFirst(kids[p], n)]
PutLast(n, p) == [TakenOut(n) EXCEPT ![p] = Append(@, n)]

AppendChild(p, n) ==
  /\ Scripting /\ n \in born \cup {Box} /\ n # p
  /\ kids' = PutLast(n, p)
  /\ Disturbs(ElementsIn(n))
  /\ Flush((IF ParentOf(n) = None THEN <<>> ELSE <<Event("removed", ElementsIn(n))>>)
           \o <<Event("added", ElementsIn(n))>>)
  /\ UNCHANGED <<attr, born, defined>>

RemoveChild(n) ==
  /\ Scripting /\ ParentOf(n) # None
  /\ kids' = TakenOut(n)
  /\ Disturbs(ElementsIn(n))
  /\ Flush(<<Event("removed", ElementsIn(n))>>)
  /\ UNCHANGED <<attr, born, defined>>

\* moveBefore, within one tree; its own event comes before the records.
MoveBefore(p, n) ==
  /\ Scripting /\ n # p
  /\ ParentOf(n) # None /\ Connected(kids, n) = Connected(kids, p)
  /\ kids' = PutLast(n, p)
  /\ Disturbs(ElementsIn(n))
  /\ Flush([k \in 1..3 |-> Event(<<"move", "removed", "added">>[k], ElementsIn(n))])
  /\ UNCHANGED <<attr, born, defined>>

\* The container's content is replaced by a new element.
SetInnerHTML(n) ==
  /\ Scripting /\ n \in Custom \ born
  /\ kids' = [kids EXCEPT ![Box] = <<n>>]
  /\ born' = born \cup {n}
  /\ Disturbs(kids[Box])
  /\ Flush(<<Event("parsed", <<n>>), Event("removed", kids[Box]), Event("added", <<n>>)>>)
  /\ UNCHANGED <<attr, defined>>

ToggleAttribute(n) ==
  /\ Scripting /\ n \in born
  /\ attr' = [attr EXCEPT ![n] = 1 - @]
  /\ disturbed' = disturbed \cup {m \in {n} : Constructing(m)}
  /\ Flush(<<Event("attribute", <<n>>)>>)
  /\ UNCHANGED <<kids, born, defined>>

Enter(frame) == stack' = <<frame>> \o stack /\ calls' = calls + 1

Define ==
  /\ Scripting /\ ~defined
  /\ defined' = TRUE
  /\ Enter([kind |-> "walk", todo |-> <<Body>>])
  /\ UNCHANGED <<kids, attr, born, rec, queue, told, disturbed>>

Upgrade(root) ==
  /\ Scripting /\ defined
  /\ Enter([kind |-> "walk", todo |-> <<root>>])
  /\ UNCHANGED <<page, rec, queue, told, disturbed>>

\* What it returns in place of an element that is not as it should be is not
\* followed.
CreateElement ==
  /\ Scripting /\ defined /\ Custom \ born # {}
  /\ Enter([kind |-> "creation", made |-> None])
  /\ UNCHANGED <<page, rec, queue, told, disturbed>>

-----------------------------------------------------------------------------
(* What runs by itself.                                                     *)

Doing(kind) == stack # <<>> /\ Head(stack).kind = kind
Frame == Head(stack)
Outer == Tail(stack)

\* The constructor is about to run; attribute and connection are read before.
Begin(n, below) ==
  /\ rec' = [rec EXCEPT ![n] = [status |-> "constructing", moving |-> FALSE,
                                connected |-> Connected(kids, n)]]
  /\ stack' = <<[kind |-> "constructor", node |-> n, used |-> FALSE, made |-> None,
                 initial |-> attr[n]]>> \o below
  /\ UNCHANGED told

Tells(n, r, below) ==
  /\ stack' = <<[kind |-> "callback", node |-> n, tells |-> r]>> \o below
  /\ told' = [told EXCEPT ![n] =
       CASE r.what = "connected"    -> [@ EXCEPT !.connected = TRUE]
         [] r.what = "disconnected" -> [@ EXCEPT !.connected = FALSE]
         [] r.what = "attribute"    -> [@ EXCEPT !.attr = r.new]
         [] r.what = "moved"        -> @]
  /\ UNCHANGED rec

\* define and upgrade visit in tree order and read children when they get
\* there; an element with a record, even one that waits, is passed over.
WalkOn ==
  /\ Doing("walk") /\ Frame.todo # <<>>
  /\ LET n    == Head(Frame.todo)
         rest == Tail(Frame.todo)
         next == <<[Frame EXCEPT !.todo = (IF n \in Holder THEN kids[n] ELSE <<>>) \o rest]>>
     IN  IF n \in Custom /\ rec[n].status = "none"
         THEN Begin(n, next \o Outer)
         ELSE stack' = next \o Outer /\ UNCHANGED <<rec, told>>
  /\ UNCHANGED <<page, queue, calls, disturbed>>

\* Mutant: the cursor stays at a reaction.
ReactionsOnAgain ==
  /\ Doing("reactions")
  /\ \E i \in DOMAIN Frame.order :
       LET n     == Frame.order[i]
           below == <<[Frame EXCEPT !.order = SubSeq(@, i, Len(@))]>> \o Outer
           r     == Head(queue[n])
       IN  /\ queue[n] # <<>>
           /\ \A j \in 1..(i - 1) : queue[Frame.order[j]] = <<>>
           /\ CASE r.what = "upgrade" /\ rec[n].status = "pending" -> Begin(n, below)
                [] r.what \notin {"upgrade", "nothing"} -> Tells(n, r, below)
                [] OTHER -> stack' = below /\ UNCHANGED <<rec, told>>
           /\ UNCHANGED queue
  /\ UNCHANGED <<page, calls, disturbed>>

\* The next reaction of the first element that has one left: it is taken out
\* before its script runs, which may run the ones behind it.
ReactionsOn ==
  /\ Doing("reactions")
  /\ \E i \in DOMAIN Frame.order :
       LET n     == Frame.order[i]
           below == <<[Frame EXCEPT !.order = SubSeq(@, i, Len(@))]>> \o Outer
           r     == Head(queue[n])
       IN  /\ queue[n] # <<>>
           /\ \A j \in 1..(i - 1) : queue[Frame.order[j]] = <<>>
           /\ CASE r.what = "upgrade" /\ rec[n].status = "pending" -> Begin(n, below)
                [] r.what \notin {"upgrade", "nothing"} -> Tells(n, r, below)
                [] OTHER -> stack' = below /\ UNCHANGED <<rec, told>>
           /\ queue' = [queue EXCEPT ![n] = Tail(@)]
  /\ UNCHANGED <<page, calls, disturbed>>

\* After an upgrade: the attribute as it was before the constructor, then the
\* connection as the record has it; both are called, not queued.
SettleOn ==
  /\ Doing("settling") /\ Frame.todo # <<>>
  /\ LET r     == Head(Frame.todo)
         below == <<[Frame EXCEPT !.todo = Tail(@)]>> \o Outer
     IN  IF r.what = "connected" /\ ~rec[Frame.node].connected
         THEN stack' = below /\ UNCHANGED <<rec, told>>
         ELSE Tells(Frame.node, r, below)
  /\ UNCHANGED <<page, queue, calls, disturbed>>

\* A walk, a call's reactions, an upgrade or a callback is over.
Over ==
  /\ \/ Doing("walk") /\ Frame.todo = <<>>
     \/ Doing("reactions") /\ \A i \in DOMAIN Frame.order : queue[Frame.order[i]] = <<>>
     \/ Doing("settling") /\ Frame.todo = <<>>
     \/ Doing("callback")
     \/ Doing("creation")
  /\ stack' = Outer
  /\ UNCHANGED <<page, rec, queue, calls, told, disturbed>>

-----------------------------------------------------------------------------
(* Constructors.                                                            *)

\* The innermost upgrade, whose element super() returns.
Upgrades == {i \in DOMAIN stack : stack[i].kind = "constructor"}
Innermost == CHOOSE i \in Upgrades : \A j \in Upgrades : i <= j

\* super() of an upgrade or of a constructor that runs inside one: either may
\* take the element, once.
TakeElement ==
  /\ Doing("constructor") \/ Doing("creation")
  /\ Frame.made = None
  /\ Upgrades # {} /\ ~stack[Innermost].used
  /\ LET marked == [stack EXCEPT ![Innermost].used = TRUE]
     IN  stack' = [marked EXCEPT ![1].made = stack[Innermost].node]
  /\ UNCHANGED <<page, rec, queue, calls, told, disturbed>>

\* super() outside every upgrade makes an element, custom at once.
MakeElement(n) ==
  /\ Doing("creation") /\ Frame.made = None /\ Upgrades = {}
  /\ n \notin born
  /\ born' = born \cup {n}
  /\ rec' = [rec EXCEPT ![n].status = "custom"]
  /\ stack' = [stack EXCEPT ![1].made = n]
  /\ UNCHANGED <<kids, attr, defined, queue, calls, told, disturbed>>

\* It returns the very element: super() did, or it has the element from elsewhere.
ConstructorReturns ==
  /\ Doing("constructor")
  /\ rec' = [rec EXCEPT ![Frame.node].status = "custom"]
  /\ stack' = <<[kind |-> "settling", node |-> Frame.node,
                 todo |-> (IF Frame.initial = 0 THEN <<>> ELSE <<Changed(0, Frame.initial)>>)
                          \o <<Reaction("connected")>>]>> \o Outer
  /\ UNCHANGED <<page, queue, calls, told, disturbed>>

\* It throws, or returns something else, or its element was taken.
ConstructorFails ==
  /\ Doing("constructor")
  /\ rec' = [rec EXCEPT ![Frame.node].status = "failed"]
  /\ stack' = Outer
  /\ UNCHANGED <<page, queue, calls, told, disturbed>>

CustomElementsInit ==
  \* Either the page waits for a definition, or the container for the page.
  /\ defined \in BOOLEAN
  /\ kids = [p \in Holder |-> IF p = Box THEN Start ELSE IF defined THEN <<>> ELSE <<Box>>]
  /\ attr = [n \in Custom |-> IF n \in Marked THEN 1 ELSE 0]
  /\ born = Waiting
  /\ rec = [n \in Custom |-> [status |-> "none", connected |-> FALSE, moving |-> FALSE]]
  /\ queue = [n \in Custom |-> <<>>]
  /\ stack = <<>> /\ calls = 0
  /\ told = [n \in Custom |-> [connected |-> FALSE, attr |-> 0]]
  /\ disturbed = {}

Script ==
  \/ \E p \in Holder, n \in Custom \cup {Box} : AppendChild(p, n) \/ MoveBefore(p, n)
  \/ \E n \in Custom \cup {Box} : RemoveChild(n)
  \/ \E n \in Custom : SetInnerHTML(n) \/ ToggleAttribute(n)
  \/ Define \/ Upgrade(Box) \/ CreateElement
  \/ TakeElement \/ \E n \in Custom : MakeElement(n)

\* What the engine does, and script's returning.
Engine == WalkOn \/ ReactionsOn \/ SettleOn \/ Over \/ ConstructorReturns \/ ConstructorFails

CustomElementsSpec ==
  /\ CustomElementsInit /\ [][Script \/ Engine]_elements
  /\ WF_elements(Engine)

-----------------------------------------------------------------------------
(* Properties.                                                              *)

Continues(t, r) ==
  CASE r.what = "connected"    -> ~t.connected
    [] r.what = "disconnected" -> t.connected
    [] r.what = "moved"        -> t.connected
    [] r.what = "attribute"    -> t.attr = r.old

\* What an element's callbacks tell is one story: each goes on from where the
\* last one left off, however deep the calls nest that queued them.  (Not when
\* script changed the element during its own upgrade.)
StoryIsContinuous ==
  [][Len(stack') > Len(stack) /\ Head(stack').kind = "callback" =>
       LET c == Head(stack')
       IN  c.node \in disturbed \/ Continues(told[c.node], c.tells)]_elements

\* When script comes to rest the story is complete: nothing waits or hangs
\* half-way, no candidate in the page was forgotten, and every element was told
\* where it is and what its attribute is.
EverythingIsTold ==
  stack = <<>> => \A n \in born :
    /\ queue[n] = <<>> /\ ~rec[n].moving
    /\ rec[n].status \notin {"pending", "constructing"}
    /\ defined /\ Connected(kids, n) => rec[n].status # "none"
    /\ rec[n].status = "custom" /\ n \notin disturbed =>
         told[n] = [connected |-> Connected(kids, n), attr |-> attr[n]]

\* If callbacks and constructors return, every call returns.
ReactionsEnd == stack # <<>> ~> stack = <<>>

=============================================================================
