-------------------------- MODULE StorageCollection --------------------------
(***************************************************************************)
(* The storage collector (rtdom/storage.rs, collect_unreachable) over      *)
(* DomTree.  Handles are plain numbers: a freed one stays a number, and    *)
(* reading it is an error of the caller.  The caller pins the handles it   *)
(* keeps (browser-env storage_ownership.rs: live wrappers and pending      *)
(* jobs, here `held`); the tree adds its document and its waiting mutation *)
(* records (`logged`, the nodes they name).                                *)
(*                                                                         *)
(* Left out: budgets, attribute nodes, payload sizes, and the maps that    *)
(* are filtered exactly like the two of the shadow links.                  *)
(***************************************************************************)
EXTENDS DomTree, FiniteSets

CONSTANTS ParsedIs,   \* parsed elements with an `is` attribute
          Reports,    \* the upgrade states the caller reports in this instance,
          Upgraded,   \* and of which elements
          OneRoot,    \* whether attach_shadow is called for rootless hosts only
          MaxHeld     \* bound: the caller takes up a handle while it has fewer

ASSUME StateAssumption ==
  /\ ParsedIs \in SUBSET Element
  /\ None \notin Reports \cup {"undefined"}

VARIABLES live,       \* handles the tree stores a node for
          buffered,   \* of these, the ones still read from the parse buffer
          reported,   \* custom_element_states
          held,       \* handles the caller keeps
          logged      \* nodes named by the waiting mutation records

storage == <<live, buffered, reported, held, logged>>
allVars == <<vars, storage>>

-----------------------------------------------------------------------------
(* Reading.                                                                 *)

\* What the tree says of an element's upgrade: the report, else what the
\* parser's `is` attribute implies, which only a buffered node still has.
CustomElementState(n) ==
  IF reported[n] # None THEN reported[n]
  ELSE IF n \in buffered \cap ParsedIs THEN "undefined" ELSE "uncustomized"

Down(n) == Kids(n) \cup ({rootOf[n]} \ {None})

\* What the climbs from S visit: the least set closed upwards.
Climbed(S) ==
  {n \in Node : \A T \in SUBSET Node : S \subseteq T /\ UpClosed(T) => n \in T}

\* Where they end.
Tops(S) == {n \in Climbed(S) : Up(n) = None}

\* What the worklist visits from S: the least set closed downwards.
Worklist(S) ==
  {n \in Node : \A T \in SUBSET Node :
     S \subseteq T /\ (\A t \in T : Down(t) \subseteq T) => n \in T}

\* Mutant: waiting records pin nothing.
PinsUnlogged == {Document} \cup held

Pins == {Document} \cup held \cup logged

Retained == Worklist(Tops(Pins))

\* None of the checks that return InvalidPin or InvalidGraph fails.
GraphValid ==
  LET climbed  == Climbed(Pins)
      retained == Retained
  IN  /\ Pins \subseteq live
      /\ climbed \cup retained \subseteq live
      /\ \A n \in climbed : parent[n] = None /\ hostOf[n] # None => rootOf[hostOf[n]] = n
      /\ \A n \in retained : rootOf[n] # None => hostOf[rootOf[n]] = n
      /\ Pins \subseteq retained

\* The handles a caller can have: those it holds, and what they lead to.
Reachable == Worklist(Tops({Document} \cup held))
-----------------------------------------------------------------------------
(* Actions.                                                                 *)

\* The nodes a call moved, or put next to others.
Shifted ==
  {n \in Node : \/ parent'[n] # parent[n]
                \/ \E m \in Node : (<<n, m>> \in order) # (<<n, m>> \in order')}

\* What its records name: these nodes, their old and new parents, and the
\* parents' ancestors.  (The code names two siblings; here all count.)
Named(shifted) ==
  LET targets == {parent[n] : n \in shifted} \cup {parent'[n] : n \in shifted}
  IN  shifted \cup UNION {Climbed({t})' : t \in targets \ {None}}

\* Every node that a call reads or writes.
Involved ==
  Shifted \cup {parent'[n] : n \in Shifted}
  \cup {h \in Node : rootOf'[h] # rootOf[h]}

\* A structural call on nodes the caller can have, recorded or not.  The
\* caller gets the new handles.
Mutate ==
  \E mine \in {Reachable \cup {None}} :
    /\ Next
    /\ Involved \subseteq mine \cup (created' \ created)
    /\ OneRoot => \A h \in Node : rootOf[h] # None => rootOf'[h] = rootOf[h]
    /\ live' = live \cup (created' \ created)
    /\ held' = held \cup (created' \ created)
    /\ logged' \in {logged, logged \cup Named(Shifted)}
    /\ UNCHANGED <<buffered, reported>>

Hold(n) ==
  /\ Cardinality(held) < MaxHeld
  /\ n \in Reachable
  /\ held' = held \cup {n}
  /\ UNCHANGED <<vars, live, buffered, reported, logged>>

Release(n) ==
  /\ held' = held \ {n}
  /\ UNCHANGED <<vars, live, buffered, reported, logged>>

\* stop_recording drops the waiting records.
StopRecording ==
  /\ logged' = {}
  /\ UNCHANGED <<vars, live, buffered, reported, held>>

\* take_mutation_events: the caller now holds what it was handed.
TakeEvents ==
  /\ logged # {}
  /\ held' = held \cup logged
  /\ logged' = {}
  /\ UNCHANGED <<vars, live, buffered, reported>>

\* set_custom_element_state ignores reclaimed handles.
SetCustomElementState(n, state) ==
  /\ n \in held \cap live \cap Upgraded
  /\ reported' = [reported EXCEPT ![n] = state]
  /\ UNCHANGED <<vars, live, buffered, held, logged>>

\* Mutant: the parsed state is dropped with the buffer.
RecordParsedStatesDropped(keep) == reported

\* record_parsed_states.
RecordParsedStates(keep) ==
  [n \in Node |-> IF n \in keep \cap buffered \cap ParsedIs /\ reported[n] = None
                  THEN "undefined" ELSE reported[n]]

\* A map from handles to handles, filtered by both.
Retain(map, keep) ==
  [n \in Node |-> IF n \in keep /\ map[n] \in keep THEN map[n] ELSE None]

CollectUnreachable ==
  LET keep == Retained
  IN  /\ UNCHANGED <<created, held, logged>>
      /\ GraphValid
      /\ live' = keep
      /\ buffered' = {Document}
      /\ reported' = [n \in Node |-> IF n \in keep THEN RecordParsedStates(keep)[n] ELSE None]
      /\ parent' = [n \in Node |-> IF n \in keep THEN parent[n] ELSE None]
      /\ order' = order \cap (keep \X keep)
      /\ hostOf' = Retain(hostOf, keep)
      /\ rootOf' = Retain(rootOf, keep)

StorageInit ==
  /\ Init
  /\ live = Parsed
  /\ buffered = Parsed
  /\ reported = [n \in Node |-> None]
  /\ held = {}
  /\ logged = {}

StorageNext ==
  \/ Mutate
  \/ \E n \in Node : Hold(n) \/ Release(n)
  \/ StopRecording \/ TakeEvents
  \/ \E n \in Node, state \in Reports : SetCustomElementState(n, state)
  \/ CollectUnreachable

StorageSpec == StorageInit /\ [][StorageNext]_allVars

-----------------------------------------------------------------------------
StorageTypeOK ==
  /\ live \in SUBSET created
  /\ buffered \in SUBSET live
  /\ reported \in [Node -> Reports \cup {"undefined", None}]
  /\ held \in SUBSET Node
  /\ logged \in SUBSET Node

\* A handle somebody keeps - the document's, the caller's, a record's - is
\* the handle of a node, whatever was collected in between.
PinsAreLive == {Document} \cup held \cup logged \subseteq live

\* A walk that starts at a stored node, in any direction, stays on stored
\* nodes, and no link is left of a freed one.
LinksAreLive ==
  /\ \A n \in live : Up(n) \in live \cup {None} /\ Down(n) \subseteq live
  /\ \A n \in Node \ live : Up(n) = None /\ Down(n) = {}

\* Everything connected to a pin by links in either direction.
Composed ==
  {n \in Node : \A T \in SUBSET Node :
     /\ Pins \subseteq T
     /\ \A a \in T, b \in Node : Up(b) = a \/ Up(a) = b => b \in T
     => n \in T}

\* "A retained descendant pins its complete composed component", "no visible
\* DOM mutation": a collection keeps what is connected to a pin, whole and as
\* it was, the upgrade state of its elements included, and nothing else.
CollectionIsInvisible ==
  [][created' = created /\ <<live, buffered>>' # <<live, buffered>> =>
       LET kept == Composed
       IN  /\ live' = kept
           /\ \A n \in kept :
                /\ parent'[n] = parent[n] /\ hostOf'[n] = hostOf[n] /\ rootOf'[n] = rootOf[n]
                /\ CustomElementState(n)' = CustomElementState(n)
           /\ order' = order \cap (kept \X kept)]_allVars

\* The collector's own checks are "against states the Tree API cannot build"
\* (storage.rs, integrity_tests): pins of the caller never make it refuse.
NeverRefused == GraphValid
=============================================================================
