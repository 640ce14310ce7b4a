---------------------------- MODULE ObserverQueues ----------------------------
(***************************************************************************)
(* What one mutation event does to the observers: the function `queue` of  *)
(* browser-env mutation_observers.js, as an operator on                     *)
(*                                                                          *)
(*   [watching, transients, queue, pending]                                 *)
(*                                                                          *)
(* watching[o][n] is the registration of o on n: "no", "target", "subtree"  *)
(* or "data" (subtree, but character data only); transients[o] its rows     *)
(* [target, source], the source being the node of a registration with       *)
(* subtree; queue[o] the records it has not been given yet; pending the     *)
(* observers scheduled for the next notification, in any order.             *)
(*                                                                          *)
(* An event is [id, target, ancestors, removed, added].  Attributes, their  *)
(* filter and old values are left out.                                      *)
(***************************************************************************)
EXTENDS Naturals, Sequences

CONSTANTS Node, Observer

WithSubtree == {"subtree", "data"}

Asks(options, event) ==
  options # "no" /\ (options = "data" => event.removed = {} /\ event.added = {})

\* The options of a transient are those of its source.
Matching(st, o, event) ==
  \/ Asks(st.watching[o][event.target], event)
  \/ \E n \in event.ancestors :
       st.watching[o][n] \in WithSubtree /\ Asks(st.watching[o][n], event)
  \/ \E row \in st.transients[o] :
       row.target \in event.ancestors /\ Asks(st.watching[o][row.source], event)

\* The registrations that follow the nodes the event removed.
Sources(st, o, event) ==
  IF event.removed = {} THEN {}
  ELSE {n \in event.ancestors : st.watching[o][n] \in WithSubtree}
       \cup {row.source : row \in {r \in st.transients[o] : r.target \in event.ancestors}}

\* Mutant: a removal without a record schedules nothing.
ScheduledByRecords(st, event) == {o \in Observer : Matching(st, o, event)}

ScheduledBy(st, event) ==
  {o \in Observer : Matching(st, o, event) \/ Sources(st, o, event) # {}}

Fanout(st, event) ==
  [watching   |-> st.watching,
   transients |-> [o \in Observer |->
                     st.transients[o] \cup
                     [target : event.removed, source : Sources(st, o, event)]],
   queue      |-> [o \in Observer |->
                     IF Matching(st, o, event) THEN Append(st.queue[o], event.id)
                     ELSE st.queue[o]],
   pending    |-> st.pending \cup ScheduledBy(st, event)]

-----------------------------------------------------------------------------
(* The tree, as far as events look at it.                                   *)

\* record_event: the target and its parents, without crossing to a host.
AncestorsIn(par, n) ==
  {a \in Node : \A S \in SUBSET Node :
     n \in S /\ (\A m \in S : par[m] \in Node => par[m] \in S) => a \in S}

Data(par, id, n) ==
  [id |-> id, target |-> n, ancestors |-> AncestorsIn(par, n), removed |-> {}, added |-> {}]
Removal(par, id, c) ==
  [id |-> id, target |-> par[c], ancestors |-> AncestorsIn(par, par[c]),
   removed |-> {c}, added |-> {}]
Insertion(par, id, p, c) ==
  [id |-> id, target |-> p, ancestors |-> AncestorsIn(par, p), removed |-> {}, added |-> {c}]
=============================================================================
