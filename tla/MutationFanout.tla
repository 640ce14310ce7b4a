---------------------------- MODULE MutationFanout ----------------------------
(***************************************************************************)
(* What the observers promise ("mutation-time fanout",                      *)
(* mutation_observers.rs): a mutation is queued with the observers that are  *)
(* registered when it happens, at once and in order, and one notification   *)
(* gives each scheduled observer its records.  There are no batches, no     *)
(* flushes and no calls in progress here; MutationObservers, which has them, *)
(* implements this module when no consumer runs script inside the calls.    *)
(***************************************************************************)
EXTENDS ObserverQueues

CONSTANT None

VARIABLES parent, watching, transients, queue, pending,
          delivering,    \* observers the running notification has yet to call
          clock          \* events so far

fanoutVars == <<parent, watching, transients, queue, pending, delivering, clock>>

Now == [watching |-> watching, transients |-> transients,
        queue |-> queue, pending |-> pending]

Becomes(st) ==
  /\ watching' = st.watching /\ transients' = st.transients
  /\ queue' = st.queue /\ pending' = st.pending

SetData(n) ==
  /\ clock' = clock + 1
  /\ Becomes(Fanout(Now, Data(parent, clock', n)))
  /\ UNCHANGED <<parent, delivering>>

RemoveChild(c) ==
  /\ parent[c] # None
  /\ clock' = clock + 1
  /\ parent' = [parent EXCEPT ![c] = None]
  /\ Becomes(Fanout(Now, Removal(parent, clock', c)))
  /\ UNCHANGED delivering

AppendChild(p, c) ==
  /\ parent[c] = None
  /\ clock' = clock + 1
  /\ parent' = [parent EXCEPT ![c] = p]
  /\ Becomes(Fanout(Now, Insertion(parent', clock', p, c)))
  /\ UNCHANGED delivering

\* Two mutations of one call.
Normalize(a, b) ==
  /\ parent[b] # None
  /\ clock' = clock + 2
  /\ parent' = [parent EXCEPT ![b] = None]
  /\ Becomes(Fanout(Fanout(Now, Data(parent, clock + 1, a)),
                    Removal(parent, clock + 2, b)))
  /\ UNCHANGED delivering

\* A registration, or its end, concerns the events from now on.
Observe(o, n, options) ==
  /\ watching' = [watching EXCEPT ![o][n] = options]
  /\ transients' = [transients EXCEPT ![o] = {row \in @ : row.source # n}]
  /\ UNCHANGED <<parent, queue, pending, delivering, clock>>

Disconnect(o) ==
  /\ watching' = [watching EXCEPT ![o] = [n \in Node |-> "no"]]
  /\ transients' = [transients EXCEPT ![o] = {}]
  /\ queue' = [queue EXCEPT ![o] = <<>>]
  /\ UNCHANGED <<parent, pending, delivering, clock>>

TakeRecords(o) ==
  /\ queue' = [queue EXCEPT ![o] = <<>>]
  /\ UNCHANGED <<parent, watching, transients, pending, delivering, clock>>

StartDelivery ==
  /\ pending # {} /\ delivering = {}
  /\ delivering' = pending /\ pending' = {}
  /\ UNCHANGED <<parent, watching, transients, queue, clock>>

Notify(o) ==
  /\ o \in delivering
  /\ delivering' = delivering \ {o}
  /\ queue' = [queue EXCEPT ![o] = <<>>]
  /\ transients' = [transients EXCEPT ![o] = {}]
  /\ UNCHANGED <<parent, watching, pending, clock>>

FanoutInit ==
  /\ parent \in [Node -> Node \cup {None}]
  /\ watching = [o \in Observer |-> [n \in Node |-> "no"]]
  /\ transients = [o \in Observer |-> {}]
  /\ queue = [o \in Observer |-> <<>>]
  /\ pending = {} /\ delivering = {} /\ clock = 0

FanoutNext ==
  \/ \E n \in Node : SetData(n) \/ RemoveChild(n)
  \/ \E p, c \in Node : AppendChild(p, c) \/ Normalize(p, c)
  \/ \E o \in Observer, n \in Node, options \in {"target", "subtree", "data"} :
       Observe(o, n, options)
  \/ \E o \in Observer : Disconnect(o) \/ TakeRecords(o) \/ Notify(o)
  \/ StartDelivery

FanoutSpec == FanoutInit /\ [][FanoutNext]_fanoutVars
=============================================================================
