---------------------------- MODULE EventDispatch ----------------------------
(***************************************************************************)
(* Listeners and dispatch of the bindings: nodes (browser_env.rs), the     *)
(* window and the abort signals (event_listeners.rs/.js).  A dispatch is a *)
(* frame of `stack`; whenever a listener runs, script may register,        *)
(* unregister, abort, move nodes, stop events and dispatch others, deeper. *)
(*                                                                         *)
(* Registrations are numbered in order, so a list of them is the set of    *)
(* their numbers.  A listener with a signal also has a hook, a listener of *)
(* the signal's own that removes it when the abort event reaches it.       *)
(*                                                                         *)
(* Left out: several types per list, relatedTarget, slots, passive, weak   *)
(* callbacks, termination and the default actions of the engine.           *)
(***************************************************************************)
EXTENDS Naturals, Sequences

CONSTANTS Inner, ShadowRoot, Host,  \* an element, a shadow root and its host,
          NoNode, Window,           \* which is in the document
          Places,                   \* the parents Inner may have
          Signal, NoSignal,
          Event,
          Callback,
          Offer,                    \* the arguments listeners are added with
          DispatchedAt,             \* the targets events are dispatched at
          MaxId,                    \* bound: registrations and hooks
          MaxDepth                  \* bound: nested dispatches

Node == {Inner, ShadowRoot, Host}
Target == Node \cup {Window} \cup Signal
Occurrence == Event \cup Signal     \* a signal also names its abort event
Id == 1..MaxId

ASSUME EventAssumption ==
  /\ MaxId \in Nat /\ MaxDepth \in Nat
  /\ NoSignal \notin Target
  /\ Places \subseteq {ShadowRoot, Host, NoNode}
  /\ (Node \cup {Window}) \cap Signal = {}
  /\ Event \cap Signal = {}
  /\ DispatchedAt \subseteq Target
  /\ Offer \subseteq [target : Target, callback : Callback, capture : BOOLEAN, once : BOOLEAN,
                      signal : Signal \cup {NoSignal}]
  /\ Offer # {}

VARIABLES parent,    \* of Inner
          bubbling,  \* the events constructed with bubbles,
          composed,  \* and with composed
          next,      \* the next number
          info,      \* what was registered under each number
          lists,     \* the numbers listed at each target
          removed,   \* numbers whose shared flag says so
          aborted,   \* signals
          flags,     \* the record of each event
          stack      \* the dispatches under way, innermost last

made == <<bubbling, composed>>
eventVars == <<made, parent, next, info, lists, removed, aborted, flags, stack>>

-----------------------------------------------------------------------------
(* Reading.                                                                 *)

Top == stack[Len(stack)]
TopIs(f) == stack' = [stack EXCEPT ![Len(stack)] = f]

\* Script runs: nothing is being dispatched, or a listener is running.
Script == stack # <<>> => Top.running # 0

Listed(i) == i \in lists[info[i].target] \ removed

\* What the bindings still count as registered.
Registered(i) == Listed(i) /\ info[i].signal \notin aborted

IsHook(i) == info[i].hooks # 0

\* A number together with its hook.
WithHook(i) == {i, info[i].hook} \ {0}

\* Mutant: the hook stays with the signal.
DroppedHookless(S) == [t \in Target |-> lists[t] \ S]

\* The lists without the listeners S and their hooks.
Dropped(S) == [t \in Target |-> lists[t] \ UNION {WithHook(i) : i \in S}]
NowRemoved(S) == removed \cup UNION {WithHook(i) : i \in S}

-----------------------------------------------------------------------------
(* The path of an event, from its target outwards.                          *)

\* An event enters a tree at its target and at each host it crosses.
Entered(t) == [at |-> t, adjusted |-> TRUE]
Passed(t) == [at |-> t, adjusted |-> FALSE]
Outside == <<Passed(Window)>>

FromHost == <<Entered(Host)>> \o Outside
FromRoot(ev) == IF ev \in composed THEN FromHost ELSE <<>>

Path(t, ev) ==
  CASE t = Host -> FromHost
    [] t = ShadowRoot -> <<Entered(ShadowRoot)>> \o FromRoot(ev)
    [] t = Inner /\ parent = NoNode -> <<Entered(Inner)>>
    [] t = Inner /\ parent = Host -> <<Entered(Inner), Passed(Host)>> \o Outside
    [] t = Inner /\ parent = ShadowRoot ->
         <<Entered(Inner), Passed(ShadowRoot)>> \o FromRoot(ev)
    [] OTHER -> <<Entered(t)>>

\* Signals, and the window as a target, go through one list once.
FirstPass(t) == IF t \in Node THEN "capture" ELSE "flat"

\* The bubble pass fires these entries.
Bubbles(path, k, ev) == k = 1 \/ path[k].adjusted \/ ev \in bubbling

\* Which of the path's listeners a dispatch is to call, if nothing intervenes.
Due(path, pass, ev) ==
  {i \in 1..(next - 1) :
     /\ Registered(i)
     /\ \E k \in DOMAIN path :
          /\ path[k].at = info[i].target
          /\ pass = "capture" /\ ~info[i].capture => Bubbles(path, k, ev)}

Clean == [dispatching |-> FALSE, stop |-> FALSE, stopNow |-> FALSE]

Push(ev, t) ==
  LET path == Path(t, ev)
      pass == FirstPass(t)
  IN  /\ Len(stack) < MaxDepth
      /\ stack' = Append(stack,
           [event |-> ev, path |-> path, pass |-> pass,
            at |-> Len(path) + 1,           \* the entry being fired
            queue |-> {},                   \* its listeners still to visit
            running |-> 0,                  \* the listener being called
            due |-> Due(path, pass, ev),    \* history: for EveryoneIsCalled
            called |-> {}])

-----------------------------------------------------------------------------
(* What script does.                                                        *)

\* addEventListener.  Nodes drop the entries flagged as removed first.
Listen(o) ==
  LET t == o.target
      kept == IF t \in Node THEN lists[t] \ removed ELSE lists[t]
      duplicate == \E i \in kept \ removed :
                     ~IsHook(i) /\ info[i].callback = o.callback
                     /\ info[i].capture = o.capture
      hook == IF o.signal = NoSignal THEN 0 ELSE next + 1
      entry == [target |-> t, callback |-> o.callback, capture |-> o.capture, once |-> o.once,
                signal |-> o.signal, hook |-> hook, hooks |-> 0]
      hookEntry == [target |-> o.signal, callback |-> o.callback, capture |-> FALSE, once |-> TRUE,
                    signal |-> NoSignal, hook |-> 0, hooks |-> next]
  IN  /\ Script
      /\ o.signal \notin aborted
      /\ IF duplicate
         THEN /\ lists' = [lists EXCEPT ![t] = kept]
              /\ UNCHANGED <<next, info>>
         ELSE /\ (IF hook = 0 THEN next ELSE hook) <= MaxId
              /\ next' = IF hook = 0 THEN next + 1 ELSE next + 2
              /\ info' = [i \in Id |-> IF i = next THEN entry
                                       ELSE IF i = hook THEN hookEntry ELSE info[i]]
              /\ lists' = [u \in Target |->
                   (IF u = t THEN kept \cup {next} ELSE lists[u])
                   \cup (IF u = o.signal THEN {hook} ELSE {})]
      /\ UNCHANGED <<made, parent, removed, aborted, flags, stack>>

\* Mutant: the shared flag is not set.
UnlistenUnflagged(o) ==
  LET matching == {i \in lists[o.target] : ~IsHook(i) /\ info[i].callback = o.callback
                                           /\ info[i].capture = o.capture}
  IN  /\ Script
      /\ matching # {}
      /\ lists' = Dropped(matching)
      /\ UNCHANGED <<made, parent, next, info, removed, aborted, flags, stack>>

\* removeEventListener.
Unlisten(o) ==
  LET matching == {i \in lists[o.target] : ~IsHook(i) /\ info[i].callback = o.callback
                                           /\ info[i].capture = o.capture}
  IN  /\ Script
      /\ matching # {}
      /\ lists' = Dropped(matching)
      /\ removed' = NowRemoved(matching)
      /\ UNCHANGED <<made, parent, next, info, aborted, flags, stack>>

\* dispatchEvent; an event on its way is refused.
Dispatch(ev, t) ==
  /\ Script
  /\ ~flags[ev].dispatching
  /\ Push(ev, t)
  /\ flags' = [flags EXCEPT ![ev].dispatching = TRUE]
  /\ UNCHANGED <<made, parent, next, info, lists, removed, aborted>>

\* AbortController.abort: the flag, then the event.
Abort(s) ==
  /\ Script
  /\ s \notin aborted
  /\ aborted' = aborted \cup {s}
  /\ Push(s, s)
  /\ flags' = [flags EXCEPT ![s].dispatching = TRUE]
  /\ UNCHANGED <<made, parent, next, info, lists, removed>>

\* stopPropagation and stopImmediatePropagation, of any event under way.
Stop(ev, now) ==
  /\ Script
  /\ flags[ev].dispatching
  /\ flags' = [flags EXCEPT ![ev].stop = TRUE, ![ev].stopNow = now \/ @]
  /\ UNCHANGED <<made, parent, next, info, lists, removed, aborted, stack>>

Move(p) ==
  /\ Script
  /\ parent' = p
  /\ UNCHANGED <<made, next, info, lists, removed, aborted, flags, stack>>

\* The running listener returns or throws.
ListenerReturns ==
  /\ stack # <<>> /\ Top.running # 0
  /\ TopIs([Top EXCEPT !.running = 0])
  /\ UNCHANGED <<made, parent, next, info, lists, removed, aborted, flags>>

-----------------------------------------------------------------------------
(* What the dispatch does between its calls.                                *)

Between == stack # <<>> /\ Top.running = 0
Rest(i) == Top.queue \ {i}
First(i) == i \in Top.queue /\ \A j \in Top.queue : i <= j

\* A listener of the other pass, or removed meanwhile, is passed over; so is
\* one whose signal is aborted, which at a node is flagged as removed.
Skipped(i) ==
  \/ Top.pass # "flat" /\ info[i].capture # (Top.pass = "capture")
  \/ i \in removed
  \/ info[i].signal \in aborted

Skip(i) ==
  /\ Between /\ First(i) /\ ~flags[Top.event].stopNow
  /\ Skipped(i)
  /\ TopIs([Top EXCEPT !.queue = Rest(i)])
  /\ removed' = IF /\ info[i].target \in Node
                   /\ info[i].capture = (Top.pass = "capture")
                   /\ info[i].signal \in aborted
                THEN removed \cup {i} ELSE removed
  /\ UNCHANGED <<made, parent, next, info, lists, aborted, flags>>

\* A listener that runs once is dropped before it is called.
Invoke(i) ==
  /\ Between /\ First(i) /\ ~flags[Top.event].stopNow
  /\ ~Skipped(i) /\ ~IsHook(i)
  /\ TopIs([Top EXCEPT !.queue = Rest(i), !.running = i, !.called = @ \cup {i}])
  /\ lists' = IF info[i].once THEN Dropped({i}) ELSE lists
  /\ removed' = IF info[i].once THEN NowRemoved({i}) ELSE removed
  /\ UNCHANGED <<made, parent, next, info, aborted, flags>>

\* Mutant: a hook drops nothing but itself.
InvokeHookAlone(i) ==
  /\ Between /\ First(i) /\ ~flags[Top.event].stopNow
  /\ ~Skipped(i) /\ IsHook(i)
  /\ TopIs([Top EXCEPT !.queue = Rest(i), !.called = @ \cup {i}])
  /\ lists' = Dropped({i})
  /\ removed' = NowRemoved({i})
  /\ UNCHANGED <<made, parent, next, info, aborted, flags>>

\* A hook is native: it drops itself and its listener, and no script runs.
InvokeHook(i) ==
  /\ Between /\ First(i) /\ ~flags[Top.event].stopNow
  /\ ~Skipped(i) /\ IsHook(i)
  /\ TopIs([Top EXCEPT !.queue = Rest(i), !.called = @ \cup {i}])
  /\ lists' = Dropped({info[i].hooks})
  /\ removed' = NowRemoved({info[i].hooks})
  /\ UNCHANGED <<made, parent, next, info, aborted, flags>>

\* stopImmediatePropagation drops what is left of the list.
CutShort ==
  /\ Between /\ Top.queue # {} /\ flags[Top.event].stopNow
  /\ TopIs([Top EXCEPT !.queue = {}])
  /\ UNCHANGED <<made, parent, next, info, lists, removed, aborted, flags>>

\* Going on to entry k copies the list of its target.
Fire(k, pass) ==
  /\ Between /\ Top.queue = {}
  /\ TopIs([Top EXCEPT !.at = k, !.pass = pass, !.queue = lists[Top.path[k].at]])
  /\ UNCHANGED <<made, parent, next, info, lists, removed, aborted, flags>>

Stopped == flags[Top.event].stop

FireFlat == Top.pass = "flat" /\ Top.at = 2 /\ Fire(1, "flat")
FireCapture == Top.pass = "capture" /\ Top.at > 1 /\ ~Stopped /\ Fire(Top.at - 1, "capture")

\* Mutant: it begins after the target.
NextBubbleOutside ==
  LET from == IF Top.pass = "capture" THEN 2 ELSE Top.at + 1
  IN  {k \in from..Len(Top.path) : Bubbles(Top.path, k, Top.event)}

\* The bubble pass begins at the target, if the capture pass got that far.
NextBubble ==
  LET from == IF Top.pass = "capture" THEN 1 ELSE Top.at + 1
  IN  {k \in from..Len(Top.path) : Bubbles(Top.path, k, Top.event)}

Captured == Top.pass = "bubble" \/ (Top.pass = "capture" /\ Top.at = 1)

FireBubble ==
  /\ Captured /\ ~Stopped
  /\ \E k \in NextBubble : (\A j \in NextBubble : k <= j) /\ Fire(k, "bubble")

AtEnd ==
  \/ Top.pass = "flat" /\ Top.at = 1
  \/ Top.pass # "flat" /\ Stopped
  \/ Captured /\ NextBubble = {}

EndDispatch ==
  /\ Between /\ Top.queue = {} /\ AtEnd
  /\ flags' = [flags EXCEPT ![Top.event] = Clean]
  /\ stack' = SubSeq(stack, 1, Len(stack) - 1)
  /\ UNCHANGED <<made, parent, next, info, lists, removed, aborted>>

-----------------------------------------------------------------------------
Frame == [event : Occurrence, path : Seq([at : Target, adjusted : BOOLEAN]),
          pass : {"capture", "bubble", "flat"}, at : Nat, queue : SUBSET Id,
          running : 0..MaxId, due : SUBSET Id, called : SUBSET Id]

Blank == [target |-> Window, callback |-> (CHOOSE o \in Offer : TRUE).callback,
          capture |-> FALSE, once |-> FALSE, signal |-> NoSignal, hook |-> 0, hooks |-> 0]

EventInit ==
  /\ bubbling \in SUBSET Event /\ composed \in SUBSET Event
  /\ parent \in Places
  /\ next = 1
  /\ info = [i \in Id |-> Blank]
  /\ lists = [t \in Target |-> {}]
  /\ removed = {} /\ aborted = {}
  /\ flags = [e \in Occurrence |-> Clean]
  /\ stack = <<>>

ScriptStep ==
  \/ \E o \in Offer : Listen(o) \/ Unlisten(o)
  \/ \E ev \in Event, t \in DispatchedAt : Dispatch(ev, t)
  \/ \E s \in Signal : Abort(s)
  \/ \E ev \in Occurrence, now \in BOOLEAN : Stop(ev, now)
  \/ \E p \in Places : Move(p)
  \/ ListenerReturns

EngineStep ==
  \/ \E i \in Id : Skip(i) \/ Invoke(i) \/ InvokeHook(i)
  \/ CutShort
  \/ stack # <<>> /\ (FireFlat \/ FireCapture \/ FireBubble)
  \/ EndDispatch

EventNext == ScriptStep \/ EngineStep

EventSpec == EventInit /\ [][EventNext]_eventVars

-----------------------------------------------------------------------------
(* Properties.                                                              *)

\* Every variable has its type.
EventTypeOK ==
  /\ bubbling \in SUBSET Event /\ composed \in SUBSET Event
  /\ parent \in Places
  /\ next \in 1..(MaxId + 1)
  /\ info \in [Id -> [target : Target, callback : Callback, capture : BOOLEAN,
                      once : BOOLEAN, signal : Signal \cup {NoSignal},
                      hook : 0..MaxId, hooks : 0..MaxId]]
  /\ lists \in [Target -> SUBSET Id]
  /\ removed \in SUBSET Id /\ aborted \in SUBSET Signal
  /\ flags \in [Occurrence -> [dispatching : BOOLEAN, stop : BOOLEAN, stopNow : BOOLEAN]]
  /\ stack \in Seq(Frame)

\* The listeners of pages, as ListenerContract sees them.  Removal is lazy in
\* the code (copied lists, a flag, a hook that waits for the abort event); seen
\* from outside it is immediate.
Page == {i \in 1..(next - 1) : ~IsHook(i)}
StillRegistered == {i \in Page : Registered(i)}
Calls == IF Script THEN [k \in 1..Len(stack) |-> stack[k].running]
                   ELSE [k \in 1..(Len(stack) - 1) |-> stack[k].running]

Contract == INSTANCE ListenerContract WITH
  Listener <- Id, registered <- StillRegistered, former <- Page \ StillRegistered,
  once <- {i \in Page : info[i].once}, calling <- Calls

\* Only registered listeners are called, however removals, aborts and nested
\* dispatches fall between the copy of a list and its walk (el_dispatch_event,
\* invoke, dispatchTarget).
KeepsContract == Contract!ContractSpec

\* A listener is listed exactly as long as its signal has its hook: none is
\* left that abort() cannot reach, none is subscribed for nothing.
SubscriptionsAgree ==
  \A i \in Page :
    info[i].signal \in Signal \ aborted =>
      (i \in lists[info[i].target] <=> info[i].hook \in lists[info[i].signal])

\* A dispatch nobody stopped has called everyone who was on its path from the
\* beginning and still is registered: moving nodes, removing others and nested
\* dispatches skip nobody.
EveryoneIsCalled ==
  [][Len(stack') < Len(stack) /\ ~Stopped /\ ~flags[Top.event].stopNow =>
       \A i \in Top.due : Registered(i) => i \in Top.called]_eventVars

\* Once an abort event has gone through, nothing listens under its signal.
AbortCompletes ==
  [][\A s \in Signal :
       flags[s].dispatching /\ ~flags'[s].dispatching /\ ~flags[s].stopNow =>
         \A i \in Page : info[i].signal = s => i \notin lists[info[i].target]]_eventVars

=============================================================================
