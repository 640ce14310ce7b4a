--------------------------- MODULE MutationObservers ---------------------------
(***************************************************************************)
(* Mutation observers of one document (browser-env mutation_observers.rs    *)
(* and .js, dom_mutations.rs): tree calls record events, `flush` claims      *)
(* them when the call returns and hands them over one by one, and one       *)
(* microtask notifies the scheduled observers.  After each event the        *)
(* embedder's consumer, if one is installed, runs script of its own, before *)
(* the call that is being flushed goes on.                                  *)
(*                                                                          *)
(* `stack` has what is running, innermost first: script, a batch that is    *)
(* being handed over, an insertion that waits for the flush of its `quiet`. *)
(* A mutating call and the claim of its events are one step: no script runs *)
(* between them.  Recording is on.  Left out: other documents, slots,       *)
(* custom element reactions (which wait for the end of the call),           *)
(* termination, and the collection of observers, for which `anchors` has    *)
(* what keeps them.                                                         *)
(***************************************************************************)
EXTENDS ObserverQueues, SequencesExt

CONSTANTS None,
          ParsedParent,   \* the tree of the page
          Texts,          \* its text nodes
          Watchable,      \* the nodes that scripts observe in this instance
          MaxEvents       \* bound: calls start while the events they add fit

ASSUME ObserverAssumption ==
  /\ None \notin Node
  /\ ParsedParent \in [Node -> Node \cup {None}]
  /\ Texts \in SUBSET Node /\ Watchable \in SUBSET Node
  /\ MaxEvents \in Nat

VARIABLES consumer,     \* whether install_mutation_consumer was called
          parent, watching, transients,
          anchors,      \* the observers a node keeps alive
          queue, pending,
          delivering,   \* observers the running notification has yet to call
          stack,
          clock,        \* events so far
          replica       \* the links parent, child that a reader of every record knows

tree == <<parent, clock>>
observers == <<watching, transients, anchors>>
vars == <<consumer, parent, watching, transients, anchors, queue, pending, delivering,
          stack, clock, replica>>
-----------------------------------------------------------------------------
(* What is running.                                                         *)

Script == [kind |-> "script", events |-> <<>>, into |-> None, node |-> None]
Batch(events) == [kind |-> "batch", events |-> events, into |-> None, node |-> None]
Inserting(p, c) == [kind |-> "insert", events |-> <<>>, into |-> p, node |-> c]

\* Mutant: the batch is handed over from its end.
FlushingReversed(events) == IF events = <<>> THEN <<>> ELSE <<Batch(Reverse(events))>>

\* flush: nothing to do without events.
Flushing(events) == IF events = <<>> THEN <<>> ELSE <<Batch(events)>>

Running(kind) == stack # <<>> /\ Head(stack).kind = kind

Fits(n) == clock + n <= MaxEvents

Now == [watching |-> watching, transients |-> transients,
        queue |-> queue, pending |-> pending]

Scheduled(o) == o \in pending \cup delivering

Links(par) == {link \in Node \X Node : par[link[2]] = link[1]}

IsInclusiveAncestor(a, n) == a \in AncestorsIn(parent, n)
-----------------------------------------------------------------------------
(* Calls of script.                                                         *)

\* A task, with the microtasks before the notification.
StartTask ==
  /\ stack = <<>> /\ pending = {} /\ delivering = {}
  /\ stack' = <<Script>>
  /\ UNCHANGED <<tree, observers, queue, pending, delivering, replica>>

Return ==
  /\ Running("script")
  /\ stack' = Tail(stack)
  /\ UNCHANGED <<tree, observers, queue, pending, delivering, replica>>

\* A binding call that changes the tree to `par` and is flushed.
Mutate(events, par) ==
  /\ Running("script")
  /\ clock' = clock + Len(events)
  /\ parent' = par
  /\ stack' = Flushing(events) \o stack
  /\ UNCHANGED <<observers, queue, pending, delivering, replica>>

SetData(n) ==
  /\ Fits(1)
  /\ Mutate(<<Data(parent, clock + 1, n)>>, parent)

RemoveChild(c) ==
  /\ Fits(1) /\ parent[c] # None
  /\ Mutate(<<Removal(parent, clock + 1, c)>>, [parent EXCEPT ![c] = None])

\* normalize merges the text b into the text a before it.
Normalize(a, b) ==
  /\ Fits(2)
  /\ a # b /\ parent[b] # None /\ parent[a] = parent[b]
  /\ Mutate(<<Data(parent, clock + 1, a), Removal(parent, clock + 2, b)>>,
            [parent EXCEPT ![b] = None])

\* Mutant: the old place of the node is left without a record.
DetachedUnrecorded(c) == <<>>

Detached(c) == IF parent[c] = None THEN <<>> ELSE <<Removal(parent, clock + 1, c)>>

\* insert_mode: detach the node, then insert it in `quiet`, which flushes first.
AppendChild(p, c) ==
  /\ Running("script")
  /\ Fits(2)
  /\ p \notin Texts /\ ~IsInclusiveAncestor(c, p)
  /\ \E events \in {Detached(c)} :
       /\ clock' = clock + Len(events)
       /\ parent' = [parent EXCEPT ![c] = None]
       /\ stack' = Flushing(events) \o <<Inserting(p, c)>> \o stack
  /\ UNCHANGED <<observers, queue, pending, delivering, replica>>

\* The insertion refuses what would make a cycle by now; its record is pushed
\* all the same.
Insert ==
  /\ Running("insert")
  /\ clock' = clock + 1
  /\ \E p \in {Head(stack).into}, c \in {Head(stack).node} :
       /\ parent' = IF IsInclusiveAncestor(c, p) THEN parent
                    ELSE [parent EXCEPT ![c] = p]
       /\ stack' = <<Batch(<<Insertion(parent', clock', p, c)>>)>> \o Tail(stack)
  /\ UNCHANGED <<observers, queue, pending, delivering, replica>>

-----------------------------------------------------------------------------
(* The observer's methods.                                                  *)

Targets(rows) == {row.target : row \in rows}

\* Observing a node again ends the transients of its registration.  They
\* release their nodes, which those that stay take back.  (The flush finds
\* nothing: no script runs while events wait to be claimed.)
Observe(o, n, options) ==
  /\ Running("script")
  /\ \E gone \in {{row \in transients[o] : row.source = n}} :
       /\ transients' = [transients EXCEPT ![o] = @ \ gone]
       /\ anchors' = [m \in Node |->
                        IF m = n \/ m \in Targets(transients[o] \ gone) THEN anchors[m] \cup {o}
                        ELSE IF m \in Targets(gone) THEN anchors[m] \ {o}
                        ELSE anchors[m]]
  /\ watching' = [watching EXCEPT ![o][n] = options]
  /\ UNCHANGED <<tree, queue, pending, delivering, stack, replica>>

\* Mutant: the transients' nodes are not released.
DisconnectKeeping(o) ==
  /\ Running("script")
  /\ watching' = [watching EXCEPT ![o] = [n \in Node |-> "no"]]
  /\ transients' = [transients EXCEPT ![o] = {}]
  /\ anchors' = [m \in Node |-> IF watching[o][m] # "no" THEN anchors[m] \ {o} ELSE anchors[m]]
  /\ queue' = [queue EXCEPT ![o] = <<>>]
  /\ UNCHANGED <<tree, pending, delivering, stack, replica>>

Disconnect(o) ==
  /\ Running("script")
  /\ watching' = [watching EXCEPT ![o] = [n \in Node |-> "no"]]
  /\ transients' = [transients EXCEPT ![o] = {}]
  /\ anchors' = [m \in Node |->
                   IF watching[o][m] # "no" \/ m \in Targets(transients[o])
                   THEN anchors[m] \ {o} ELSE anchors[m]]
  /\ queue' = [queue EXCEPT ![o] = <<>>]
  /\ UNCHANGED <<tree, pending, delivering, stack, replica>>

TakeRecords(o) ==
  /\ Running("script")
  /\ queue' = [queue EXCEPT ![o] = <<>>]
  /\ UNCHANGED <<tree, observers, pending, delivering, stack, replica>>
-----------------------------------------------------------------------------
(* Handing over, and the notification.                                      *)

\* One event of the batch: to every observer, then to the consumer.
Deliver ==
  /\ Running("batch")
  /\ \E event \in {Head(Head(stack).events)}, rest \in {Tail(Head(stack).events)} :
       /\ \E st \in {Fanout(Now, event)} :
            /\ transients' = st.transients /\ queue' = st.queue /\ pending' = st.pending
       /\ anchors' = [m \in Node |->
                        IF m \in event.removed
                        THEN anchors[m] \cup {o \in Observer : Sources(Now, o, event) # {}}
                        ELSE anchors[m]]
       /\ replica' = (replica \ ({event.target} \X event.removed))
                      \cup ({event.target} \X event.added)
       /\ stack' = (IF consumer THEN <<Script>> ELSE <<>>) \o Flushing(rest) \o Tail(stack)
  /\ UNCHANGED <<tree, watching, delivering>>

\* The microtask: the next event to come schedules another.
StartDelivery ==
  /\ stack = <<>> /\ delivering = {} /\ pending # {}
  /\ delivering' = pending
  /\ pending' = {}
  /\ UNCHANGED <<tree, observers, queue, stack, replica>>

\* Mutant: the registrations do not take their nodes back.
RemoveTransientsOnly(o) ==
  [m \in Node |-> IF m \in Targets(transients[o]) THEN anchors[m] \ {o} ELSE anchors[m]]

\* removeTransients: their nodes are released, the registrations' are not.
RemoveTransients(o) ==
  [m \in Node |-> IF watching[o][m] # "no" THEN anchors[m] \cup {o}
                  ELSE IF m \in Targets(transients[o]) THEN anchors[m] \ {o}
                  ELSE anchors[m]]

\* Mutant: an observer without records is passed over.
NotifyWithRecords(o) ==
  /\ stack = <<>> /\ o \in delivering
  /\ delivering' = delivering \ {o}
  /\ queue' = [queue EXCEPT ![o] = <<>>]
  /\ transients' = IF queue[o] = <<>> THEN transients ELSE [transients EXCEPT ![o] = {}]
  /\ anchors' = IF queue[o] = <<>> THEN anchors ELSE RemoveTransients(o)
  /\ stack' = IF queue[o] = <<>> THEN <<>> ELSE <<Script>>
  /\ UNCHANGED <<tree, watching, pending, replica>>

\* The callback is called when there are records.
Notify(o) ==
  /\ stack = <<>> /\ o \in delivering
  /\ delivering' = delivering \ {o}
  /\ queue' = [queue EXCEPT ![o] = <<>>]
  /\ transients' = [transients EXCEPT ![o] = {}]
  /\ anchors' = RemoveTransients(o)
  /\ stack' = IF queue[o] = <<>> THEN <<>> ELSE <<Script>>
  /\ UNCHANGED <<tree, watching, pending, replica>>

Init ==
  /\ consumer \in BOOLEAN
  /\ parent = ParsedParent
  /\ replica = Links(ParsedParent)
  /\ watching = [o \in Observer |-> [n \in Node |-> "no"]]
  /\ transients = [o \in Observer |-> {}]
  /\ anchors = [n \in Node |-> {}]
  /\ queue = [o \in Observer |-> <<>>]
  /\ pending = {} /\ delivering = {}
  /\ stack = <<>>
  /\ clock = 0

Step ==
  \/ StartTask \/ Return \/ Insert \/ Deliver \/ StartDelivery
  \/ \E n \in Texts : SetData(n)
  \/ \E n \in Node : RemoveChild(n)
  \/ \E p, c \in Node : AppendChild(p, c)
  \/ \E a, b \in Texts : Normalize(a, b)
  \/ \E o \in Observer, n \in Watchable, options \in {"target", "subtree", "data"} :
       Observe(o, n, options)
  \/ \E o \in Observer : Disconnect(o) \/ TakeRecords(o) \/ Notify(o)

Next == Step /\ UNCHANGED consumer

\* Scripts end, and the engine runs its microtasks.
Progress ==
  /\ \/ Return \/ Insert \/ Deliver \/ StartDelivery
     \/ \E o \in Observer : Notify(o)
  /\ UNCHANGED consumer

Spec == Init /\ [][Next]_vars
FairSpec == Spec /\ WF_vars(Progress)
-----------------------------------------------------------------------------
Row == [target : Node, source : Node]

ObserverTypeOK ==
  /\ parent \in [Node -> Node \cup {None}]
  /\ watching \in [Observer -> [Node -> {"no", "target", "subtree", "data"}]]
  /\ transients \in [Observer -> SUBSET Row]
  /\ anchors \in [Node -> SUBSET Observer]
  /\ pending \in SUBSET Observer /\ delivering \in SUBSET Observer
  /\ clock \in Nat
  /\ replica \in SUBSET (Node \X Node)

\* An observer with records to be given, or with transients to be ended, is
\* on the list of a notification to come: nothing is left waiting.
NothingForgotten ==
  \A o \in Observer : queue[o] # <<>> \/ transients[o] # {} => Scheduled(o)

\* An observer cannot be collected while it observes a node: the node keeps
\* it, or a notification does, and gives it back to the node.  (Observing one
\* node again may release another that is still observed.)
ObserversAreKept ==
  \A o \in Observer, n \in Node :
    watching[o][n] # "no" => o \in anchors[n] \/ Scheduled(o)

\* A node keeps no observer that has nothing to do with it any more.
NoStaleAnchor ==
  \A n \in Node : \A o \in anchors[n] :
    watching[o][n] # "no" \/ n \in Targets(transients[o])

\* Whenever no call is in progress, the records given out tell the tree.
RecordsReplay == stack = <<>> => replica = Links(parent)

\* They do if no consumer runs script inside the calls that change the tree.
RecordsReplayUndisturbed == ~consumer => RecordsReplay

\* Every record is given out, or given up by its observer, and every
\* transient ends.
EverythingIsDelivered ==
  \A o \in Observer :
    (queue[o] # <<>> \/ transients[o] # {}) ~> (queue[o] = <<>> /\ transients[o] = {})

\* The observers' state with what the batch has left handed over.
HandedOver(st, events) ==
  LET h[k \in 0..Len(events)] == IF k = 0 THEN st ELSE Fanout(h[k - 1], events[k])
  IN  h[Len(events)]

Settled == IF Running("batch") THEN HandedOver(Now, Head(stack).events) ELSE Now

Promised == INSTANCE MutationFanout WITH
  transients <- Settled.transients, queue <- Settled.queue, pending <- Settled.pending

\* Without a consumer, observers see what they would see if every event
\* reached them when it happened.
Implements ==
  /\ Promised!FanoutInit
  /\ [][~consumer => Promised!FanoutNext]_(Promised!fanoutVars)
=============================================================================
