----------------------------- MODULE TreeEvents -----------------------------
(***************************************************************************)
(* Listeners and dispatch of the crate (rtdom/events.rs, Dom).  A handler  *)
(* gets the tree and the event, never the registry: it may move nodes and  *)
(* stop the event, but neither register nor dispatch.  The lists are       *)
(* walked by index while listeners that run once are taken out of them.    *)
(*                                                                         *)
(* Left out: several types per list (all listeners here are of the event's *)
(* type), preventDefault, and a handler that panics, which loses the       *)
(* registry.                                                               *)
(***************************************************************************)
EXTENDS Naturals, Sequences, SequencesExt

CONSTANTS Root, Middle, Leaf,  \* three nodes, Middle a child of Root,
          NoNode,
          Places,              \* the parents Leaf may have
          Offer,               \* the arguments listeners are added with
          MaxListeners         \* bound: registrations

Node == {Root, Middle, Leaf}
Id == 0..(MaxListeners - 1)

ASSUME ListenersAssumption ==
  /\ MaxListeners \in Nat
  /\ Root # Middle /\ Root # Leaf /\ Middle # Leaf
  /\ NoNode \notin Node
  /\ Places \subseteq {Root, Middle, NoNode}
  /\ Offer \subseteq [target : Node, capture : BOOLEAN, once : BOOLEAN]

VARIABLES parent,     \* of Leaf
          next_id,
          info,       \* what was registered under each number
          listeners,  \* the lists of numbers
          event,      \* the event: its flags outlive a dispatch
          frame       \* the dispatch under way, or Idle

treeEvents == <<parent, next_id, info, listeners, event, frame>>

Idle == [order |-> <<>>, at |-> 0, i |-> 0, n |-> 0, running |-> FALSE,
         called |-> <<>>, before |-> {}]

Dispatching == frame.order # <<>>

All == {id \in Id : \E t \in Node : id \in Range(listeners[t])}

-----------------------------------------------------------------------------
(* The path, and the visits it takes: capturing inwards, the target,        *)
(* bubbling outwards.                                                       *)

Path(t) ==
  CASE t = Root -> <<Root>>
    [] t = Middle -> <<Middle, Root>>
    [] t = Leaf /\ parent = NoNode -> <<Leaf>>
    [] t = Leaf /\ parent = Root -> <<Leaf, Root>>
    [] OTHER -> <<Leaf, Middle, Root>>

Visits(phase, nodes) == [k \in DOMAIN nodes |-> [phase |-> phase, node |-> nodes[k]]]

Order(path, bubbles) ==
  Visits("capturing", Reverse(Tail(path)))
  \o Visits("target", <<Head(path)>>)
  \o (IF bubbles THEN Visits("bubbling", Tail(path)) ELSE <<>>)

Here == frame.order[frame.at]

Wanted(id) ==
  CASE Here.phase = "capturing" -> info[id].capture
    [] Here.phase = "target" -> TRUE
    [] Here.phase = "bubbling" -> ~info[id].capture

-----------------------------------------------------------------------------
(* Between dispatches.                                                      *)

AddEventListener(o) ==
  /\ ~Dispatching
  /\ next_id < MaxListeners
  /\ next_id' = next_id + 1
  /\ info' = [info EXCEPT ![next_id] = o]
  /\ listeners' = [listeners EXCEPT ![o.target] = Append(@, next_id)]
  /\ UNCHANGED <<parent, event, frame>>

\* Numbers are handed out once, so at most one entry goes.
RemoveEventListener(t, id) ==
  /\ ~Dispatching
  /\ \E k \in DOMAIN listeners[t] :
       /\ listeners[t][k] = id
       /\ listeners' = [listeners EXCEPT ![t] = RemoveAt(@, k)]
  /\ UNCHANGED <<parent, next_id, info, event, frame>>

NewEvent(bubbles) ==
  /\ ~Dispatching
  /\ event' = [bubbles |-> bubbles, stop |-> FALSE, stopNow |-> FALSE]
  /\ UNCHANGED <<parent, next_id, info, listeners, frame>>

\* Without a listener on the path nothing is walked.
DispatchEvent(t) ==
  LET path == Path(t)
  IN  /\ ~Dispatching
      /\ \E k \in DOMAIN path : listeners[path[k]] # <<>>
      /\ frame' = [Idle EXCEPT !.order = Order(path, event.bubbles), !.before = All]
      /\ UNCHANGED <<parent, next_id, info, listeners, event>>

-----------------------------------------------------------------------------
(* The walk.                                                                *)

Walking == Dispatching /\ ~frame.running

\* The inner loop still has listeners to look at: no more than there were.
More ==
  /\ frame.at > 0
  /\ frame.i < frame.n
  /\ frame.i < Len(listeners[Here.node])

Current == listeners[Here.node][frame.i + 1]

\* Mutant: the index stays at a listener of another phase.
PassStuck ==
  /\ Walking /\ More /\ ~Wanted(Current)
  /\ UNCHANGED treeEvents

Pass ==
  /\ Walking /\ More /\ ~Wanted(Current)
  /\ frame' = [frame EXCEPT !.i = @ + 1]
  /\ UNCHANGED <<parent, next_id, info, listeners, event>>

Invoke ==
  /\ Walking /\ More /\ Wanted(Current)
  /\ frame' = [frame EXCEPT !.running = TRUE, !.called = Append(@, Current)]
  /\ UNCHANGED <<parent, next_id, info, listeners, event>>

\* What a handler can do: stop the event, change the tree.
Stop(now) ==
  /\ frame.running
  /\ event' = [event EXCEPT !.stop = TRUE, !.stopNow = now \/ @]
  /\ UNCHANGED <<parent, next_id, info, listeners, frame>>

Move(p) ==
  /\ frame.running \/ ~Dispatching
  /\ parent' = p
  /\ UNCHANGED <<next_id, info, listeners, event, frame>>

\* Mutant: the index moves on although the list has closed up.
ReturnSkipping ==
  /\ frame.running
  /\ listeners' = IF info[Current].once
                  THEN [listeners EXCEPT ![Here.node] = RemoveAt(@, frame.i + 1)]
                  ELSE listeners
  /\ frame' = [frame EXCEPT !.running = FALSE,
                            !.i = IF event.stopNow THEN frame.n ELSE @ + 1]
  /\ UNCHANGED <<parent, next_id, info, event>>

\* Mutant: a listener that ran once stays.
ReturnKept ==
  /\ frame.running
  /\ frame' = [frame EXCEPT !.running = FALSE,
                            !.i = IF event.stopNow THEN frame.n ELSE @ + 1]
  /\ UNCHANGED <<parent, next_id, info, listeners, event>>

\* After the handler: a listener that runs once is taken out and the index
\* stays; stopImmediatePropagation leaves the loop.
Return ==
  /\ frame.running
  /\ listeners' = IF info[Current].once
                  THEN [listeners EXCEPT ![Here.node] = RemoveAt(@, frame.i + 1)]
                  ELSE listeners
  /\ frame' = [frame EXCEPT !.running = FALSE,
                            !.i = IF event.stopNow THEN frame.n
                                  ELSE IF info[Current].once THEN @ ELSE @ + 1]
  /\ UNCHANGED <<parent, next_id, info, event>>

\* The outer loops: a stopped event goes no further, except that the target
\* is visited when no capturing visit came before it.
LeavesAtStop == frame.at > 0 /\ Here.phase # "target"
EntersStopped(k) == k \in DOMAIN frame.order /\ frame.order[k].phase # "target"

Ends ==
  \/ frame.at = Len(frame.order)
  \/ event.stop /\ (LeavesAtStop \/ EntersStopped(frame.at + 1))

GoOn ==
  /\ Walking /\ ~More /\ ~Ends
  /\ frame' = [frame EXCEPT !.at = @ + 1, !.i = 0,
                            !.n = Len(listeners[frame.order[frame.at + 1].node])]
  /\ UNCHANGED <<parent, next_id, info, listeners, event>>

End ==
  /\ Walking /\ ~More /\ Ends
  /\ frame' = Idle
  /\ UNCHANGED <<parent, next_id, info, listeners, event>>

TreeEventsInit ==
  /\ parent \in Places
  /\ next_id = 0
  /\ info = [id \in Id |-> [target |-> Root, capture |-> FALSE, once |-> FALSE]]
  /\ listeners = [t \in Node |-> <<>>]
  /\ event \in [bubbles : BOOLEAN, stop : {FALSE}, stopNow : {FALSE}]
  /\ frame = Idle

TreeEventsNext ==
  \/ \E o \in Offer : AddEventListener(o)
  \/ \E t \in Node, id \in Id : RemoveEventListener(t, id)
  \/ \E bubbles \in BOOLEAN : NewEvent(bubbles)
  \/ \E t \in Node : DispatchEvent(t)
  \/ Pass \/ Invoke
  \/ \E now \in BOOLEAN : Stop(now)
  \/ \E p \in Places : Move(p)
  \/ Return \/ GoOn \/ End

TreeEventsSpec ==
  /\ TreeEventsInit /\ [][TreeEventsNext]_treeEvents
  /\ WF_treeEvents(Pass \/ Invoke \/ Return \/ GoOn \/ End)

-----------------------------------------------------------------------------
(* Properties.                                                              *)

\* A listener that runs once is taken out only after it returned; nothing can
\* happen to the registry before that, so it counts as gone when it is called.
Registered == All \ (IF frame.running /\ info[Current].once THEN {Current} ELSE {})
Handed == 0..(next_id - 1)

Contract == INSTANCE ListenerContract WITH
  Listener <- Id, registered <- Registered, former <- Handed \ Registered,
  once <- {id \in Handed : info[id].once},
  calling <- IF frame.running THEN <<Current>> ELSE <<>>

\* The walk by index calls registered listeners only and uses up the others.
KeepsContract == Contract!ContractSpec

\* One dispatch calls a listener once at most, in one of the phases.  Unless
\* it is stopped it calls everyone who is on its path and not for the other
\* phase; and the registry comes back without the listeners that ran once and
\* with all others: taking some out of a list skips nobody.
EveryoneIsCalled ==
  [][Dispatching /\ ~Dispatching' =>
       /\ IsInjective(frame.called)
       /\ All = {id \in frame.before : ~(info[id].once /\ id \in Range(frame.called))}
       /\ ~event.stop =>
            \A k \in DOMAIN frame.order, id \in frame.before :
              /\ info[id].target = frame.order[k].node
              /\ \/ frame.order[k].phase = "target"
                 \/ info[id].capture <=> frame.order[k].phase = "capturing"
              => id \in Range(frame.called)]_treeEvents

\* Handlers return, so a dispatch ends: the loops go through lists that do not
\* grow.
DispatchEnds == Dispatching ~> ~Dispatching

=============================================================================
