----------------------------- MODULE EventProofs -----------------------------
(***************************************************************************)
(* Proofs about EventDispatch: for every number of listeners and dispatches *)
(* and every nesting, the lazy removal of the code keeps ListenerContract,  *)
(* listeners and the hooks of their signals come and go together, an abort  *)
(* event leaves nobody listening, and no dispatch passes over a listener.   *)
(***************************************************************************)
EXTENDS EventDispatch, TLAPS

Handed == 1..(next - 1)

\* Only numbers handed out are in use.
KnownOnly ==
  /\ \A t \in Target : lists[t] \subseteq Handed
  /\ removed \subseteq Handed
  /\ \A k \in DOMAIN stack : stack[k].queue \subseteq Handed /\ stack[k].running < next

\* A number is listed where it was registered.
ListedAtHome == \A t \in Target : \A i \in lists[t] : info[i].target = t

\* Listener and hook name each other.
HooksNameBack ==
  \A i \in Handed :
    /\ info[i].hook # 0 => info[i].hook \in Handed /\ info[info[i].hook].hooks = i
    /\ info[i].hooks # 0 => info[i].hooks \in Handed /\ info[info[i].hooks].hook = i

\* What a copied list still holds is removed or still in the list.
CopiesAreFlagged ==
  \A k \in DOMAIN stack : \A i \in stack[k].queue :
    i \notin removed => i \in lists[info[i].target]

\* A dispatch is on its path, and only the innermost is between two calls.
FramesInOrder ==
  \A k \in DOMAIN stack :
    /\ stack[k].at \in 1..(Len(stack[k].path) + 1)
    /\ stack[k].path # <<>>
    /\ k # Len(stack) => stack[k].running # 0

EventInv ==
  /\ EventTypeOK
  /\ KnownOnly /\ ListedAtHome /\ HooksNameBack
  /\ CopiesAreFlagged /\ FramesInOrder

-----------------------------------------------------------------------------
(* Paths and pushed frames have their types.                                *)
LEMMA PathTypes ==
  ASSUME NEW t \in Target, NEW ev \in Occurrence, parent \in Places
  PROVE  /\ Path(t, ev) \in Seq([at : Target, adjusted : BOOLEAN])
         /\ Path(t, ev) # <<>>
<1> DEFINE E == [at : Target, adjusted : BOOLEAN]
<1>1. \A u \in Target : Entered(u) \in E /\ Passed(u) \in E
  BY DEF Entered, Passed
<1>2. {Inner, ShadowRoot, Host, Window} \subseteq Target
  BY DEF Target, Node
<1> HIDE DEF E
<1>3. \A a \in E, b \in E, s \in Seq(E) :
        /\ <<a>> \in Seq(E) /\ <<a>> # <<>>
        /\ <<a>> \o s \in Seq(E) /\ <<a>> \o s # <<>>
        /\ <<a, b>> \o s \in Seq(E) /\ <<a, b>> \o s # <<>>
  OBVIOUS
<1>4. Outside \in Seq(E)
  BY <1>1, <1>2, <1>3 DEF Outside
<1>5. FromHost \in Seq(E) /\ FromHost # <<>>
  BY <1>1, <1>2, <1>3, <1>4 DEF FromHost
<1>6. FromRoot(ev) \in Seq(E)
  BY <1>5 DEF FromRoot
<1>7. Path(t, ev) \in Seq(E) /\ Path(t, ev) # <<>>
  <2> DEFINE a == Entered(Inner)
             b == Passed(Host)
             c == Passed(ShadowRoot)
             d == Entered(ShadowRoot)
             o == Entered(t)
  <2>1. a \in E /\ b \in E /\ c \in E /\ d \in E /\ o \in E
    BY <1>1, <1>2
  <2>2. \/ Path(t, ev) = FromHost
        \/ Path(t, ev) = <<d>> \o FromRoot(ev)
        \/ Path(t, ev) = <<a>>
        \/ Path(t, ev) = <<a, b>> \o Outside
        \/ Path(t, ev) = <<a, c>> \o FromRoot(ev)
        \/ Path(t, ev) = <<o>>
    BY DEF Path
  <2> HIDE DEF a, b, c, d, o
  <2> QED
    BY <2>1, <2>2, <1>3, <1>4, <1>5, <1>6
<1> QED
  BY <1>7 DEF E

LEMMA TopTypes ==
  ASSUME EventInv, stack # <<>>
  PROVE  /\ Len(stack) \in DOMAIN stack /\ Len(stack) \in Nat \ {0}
         /\ Top \in Frame
         /\ Top = stack[Len(stack)]
         /\ DOMAIN stack = 1..Len(stack)
BY DEF EventInv, EventTypeOK, Top

LEMMA TopChanged ==
  ASSUME EventInv, stack # <<>>, NEW f \in Frame, TopIs(f)
  PROVE  /\ stack' \in Seq(Frame)
         /\ Len(stack') = Len(stack)
         /\ DOMAIN stack' = DOMAIN stack
         /\ stack'[Len(stack)] = f
         /\ \A k \in DOMAIN stack : k # Len(stack) => stack'[k] = stack[k]
BY DEF EventInv, EventTypeOK, TopIs

LEMMA FramePushed ==
  ASSUME EventInv, NEW ev \in Occurrence, NEW t \in Target, Push(ev, t)
  PROVE  /\ stack' \in Seq(Frame)
         /\ Len(stack') = Len(stack) + 1
         /\ \A k \in DOMAIN stack : stack'[k] = stack[k]
         /\ stack'[Len(stack) + 1].queue = {}
         /\ stack'[Len(stack) + 1].running = 0
         /\ stack'[Len(stack) + 1].path # <<>>
         /\ stack'[Len(stack) + 1].at = Len(stack'[Len(stack) + 1].path) + 1
<1> DEFINE path == Path(t, ev)
           pass == FirstPass(t)
           due == Due(path, pass, ev)
           f == [event |-> ev, path |-> path, pass |-> pass, at |-> Len(path) + 1,
                 queue |-> {}, running |-> 0, due |-> due, called |-> {}]
<1>1. path \in Seq([at : Target, adjusted : BOOLEAN]) /\ path # <<>>
  BY PathTypes DEF EventInv, EventTypeOK
<1>2. pass \in {"capture", "bubble", "flat"}
  BY DEF FirstPass
<1>3. due \in SUBSET Id
  BY EventAssumption DEF Due, EventInv, EventTypeOK, Id
<1>4. stack' = Append(stack, f)
  BY DEF Push
<1>5. Len(path) + 1 \in Nat /\ 0 \in 0..MaxId
  BY <1>1, EventAssumption
<1> HIDE DEF path, pass, due
<1>6. f \in Frame
  BY <1>1, <1>2, <1>3, <1>5 DEF Frame
<1>7. f.queue = {} /\ f.running = 0 /\ f.path = path /\ f.at = Len(path) + 1
  OBVIOUS
<1> HIDE DEF f
<1>8. /\ stack' \in Seq(Frame) /\ Len(stack') = Len(stack) + 1
      /\ \A k \in DOMAIN stack : stack'[k] = stack[k]
      /\ stack'[Len(stack) + 1] = f
  BY <1>4, <1>6 DEF EventInv, EventTypeOK
<1> QED
  BY <1>1, <1>7, <1>8

-----------------------------------------------------------------------------
(* Taking listeners out of lists.                                           *)

\* Numbers leave the lists only if their flag is set.
Shrinking ==
  /\ lists' \in [Target -> SUBSET Id]
  /\ removed \subseteq removed' /\ removed' \subseteq Handed
  /\ \A t \in Target :
       lists'[t] \subseteq lists[t] /\ \A i \in lists[t] : i \notin removed' => i \in lists'[t]

LEMMA DroppingShrinks ==
  ASSUME EventInv, NEW S \in SUBSET Handed, lists' = Dropped(S), removed' = NowRemoved(S)
  PROVE  Shrinking
<1>1. \A i \in S : WithHook(i) \subseteq Handed
  BY DEF WithHook, EventInv, HooksNameBack
<1> QED
  BY <1>1 DEF Shrinking, Dropped, NowRemoved, EventInv, EventTypeOK, KnownOnly

LEMMA StayingShrinks ==
  ASSUME EventInv, lists' = lists,
         removed' = removed \/ (\E i \in Handed : removed' = removed \cup {i})
  PROVE  Shrinking
BY DEF Shrinking, EventInv, EventTypeOK, KnownOnly

(* What shrinking lists and a step of the innermost dispatch preserve.      *)
LEMMA TopStep ==
  ASSUME EventInv, stack # <<>>, NEW f \in Frame, TopIs(f),
         Shrinking, next' = next, info' = info,
         f.queue \subseteq Handed, f.running < next,
         \A i \in f.queue : i \notin removed' => i \in lists'[info[i].target],
         f.at \in 1..(Len(f.path) + 1), f.path # <<>>
  PROVE  /\ KnownOnly' /\ ListedAtHome' /\ HooksNameBack'
         /\ CopiesAreFlagged' /\ FramesInOrder'
<1>1. /\ Len(stack') = Len(stack) /\ DOMAIN stack' = DOMAIN stack
      /\ stack'[Len(stack)] = f
      /\ \A k \in DOMAIN stack : k # Len(stack) => stack'[k] = stack[k]
  BY TopChanged
<1>2. Handed' = Handed
  BY DEF Handed
<1>3. KnownOnly'
  BY <1>1, <1>2 DEF KnownOnly, EventInv, Shrinking
<1>4. ListedAtHome'
  BY DEF ListedAtHome, EventInv, Shrinking
<1>5. HooksNameBack'
  BY <1>2 DEF HooksNameBack, EventInv
<1>6. CopiesAreFlagged'
  <2> SUFFICES ASSUME NEW k \in DOMAIN stack, NEW i \in stack'[k].queue, i \notin removed'
               PROVE  i \in lists'[info[i].target]
    BY <1>1 DEF CopiesAreFlagged
  <2>1. CASE k = Len(stack)
    BY <1>1, <2>1
  <2>2. CASE k # Len(stack)
    <3>1. i \in stack[k].queue /\ i \notin removed
      BY <1>1, <2>2 DEF Shrinking
    <3>2. i \in lists[info[i].target] /\ i \in Handed
      BY <3>1 DEF EventInv, CopiesAreFlagged, KnownOnly
    <3>3. info[i].target \in Target
      BY <3>2, EventAssumption DEF EventInv, EventTypeOK, Handed, Id
    <3> QED
      BY <3>2, <3>3 DEF Shrinking
  <2> QED
    BY <2>1, <2>2
<1>7. FramesInOrder'
  BY <1>1 DEF FramesInOrder, EventInv
<1> QED
  BY <1>3, <1>4, <1>5, <1>6, <1>7

-----------------------------------------------------------------------------
(* One lemma per kind of action.                                            *)

LEMMA InitEstablishes ==
  EventInit => EventInv
<1> SUFFICES ASSUME EventInit PROVE EventInv
  OBVIOUS
<1>1. Blank \in [target : Target, callback : Callback, capture : BOOLEAN, once : BOOLEAN,
                 signal : Signal \cup {NoSignal}, hook : 0..MaxId, hooks : 0..MaxId]
  <2>1. (CHOOSE o \in Offer : TRUE) \in Offer
    BY EventAssumption
  <2>2. (CHOOSE o \in Offer : TRUE).callback \in Callback
    BY <2>1, EventAssumption
  <2> QED
    BY <2>2, EventAssumption DEF Blank, Target
<1>2. Clean \in [dispatching : BOOLEAN, stop : BOOLEAN, stopNow : BOOLEAN]
  BY DEF Clean
<1> HIDE DEF Blank, Clean
<1>3. EventTypeOK
  BY <1>1, <1>2, EventAssumption DEF EventInit, EventTypeOK
<1>4. Handed = {}
  BY DEF EventInit, Handed
<1> QED
  BY <1>3, <1>4 DEF EventInv, EventInit, KnownOnly, ListedAtHome, HooksNameBack,
                    CopiesAreFlagged, FramesInOrder

LEMMA PushKeeps ==
  ASSUME EventInv, Script, NEW ev \in Occurrence, NEW t \in Target, Push(ev, t),
         flags' = [flags EXCEPT ![ev].dispatching = TRUE], aborted' \in SUBSET Signal,
         UNCHANGED <<made, parent, next, info, lists, removed>>
  PROVE  EventInv'
<1>1. /\ stack' \in Seq(Frame) /\ Len(stack') = Len(stack) + 1
      /\ \A k \in DOMAIN stack : stack'[k] = stack[k]
      /\ stack'[Len(stack) + 1].queue = {} /\ stack'[Len(stack) + 1].running = 0
      /\ stack'[Len(stack) + 1].path # <<>>
      /\ stack'[Len(stack) + 1].at = Len(stack'[Len(stack) + 1].path) + 1
  BY FramePushed
<1>2. stack \in Seq(Frame) /\ Len(stack) \in Nat /\ next \in Nat \ {0}
  BY EventAssumption DEF EventInv, EventTypeOK
<1>3. DOMAIN stack = 1..Len(stack) /\ DOMAIN stack' = 1..(Len(stack) + 1)
  BY <1>1, <1>2
<1>4. EventTypeOK'
  BY <1>1 DEF EventInv, EventTypeOK, made
<1>5. Handed' = Handed
  BY DEF Handed
<1>6. KnownOnly'
  BY <1>1, <1>2, <1>3, <1>5 DEF KnownOnly, EventInv
<1>7. ListedAtHome' /\ HooksNameBack'
  BY <1>5 DEF ListedAtHome, HooksNameBack, EventInv
<1>8. CopiesAreFlagged'
  BY <1>1, <1>3 DEF CopiesAreFlagged, EventInv
<1>9. FramesInOrder'
  <2> SUFFICES ASSUME NEW k \in DOMAIN stack'
               PROVE  /\ stack'[k].at \in 1..(Len(stack'[k].path) + 1)
                      /\ stack'[k].path # <<>>
                      /\ k # Len(stack') => stack'[k].running # 0
    BY DEF FramesInOrder
  <2>1. CASE k = Len(stack) + 1
    <3>1. stack'[k] \in Frame
      BY <1>1
    <3>2. Len(stack'[k].path) \in Nat
      BY <3>1 DEF Frame
    <3> QED
      BY <1>1, <2>1, <3>2
  <2>2. CASE k \in DOMAIN stack /\ k # Len(stack)
    BY <1>1, <1>3, <2>2 DEF FramesInOrder, EventInv
  <2>3. CASE k \in DOMAIN stack /\ k = Len(stack)
    <3>1. stack # <<>> /\ Top = stack[k]
      BY <1>2, <1>3, <2>3 DEF Top
    <3> QED
      BY <1>1, <1>3, <2>3, <3>1 DEF FramesInOrder, EventInv, Script
  <2> QED
    BY <1>3, <2>1, <2>2, <2>3
<1> QED
  BY <1>4, <1>6, <1>7, <1>8, <1>9 DEF EventInv

LEMMA ListenKeeps ==
  ASSUME EventInv, NEW o \in Offer, Listen(o)
  PROVE  EventInv'
<1> DEFINE kept == IF o.target \in Node THEN lists[o.target] \ removed ELSE lists[o.target]
           hook == IF o.signal = NoSignal THEN 0 ELSE next + 1
<1>1. /\ o.target \in Target /\ o.callback \in Callback /\ o.capture \in BOOLEAN
      /\ o.once \in BOOLEAN /\ o.signal \in Signal \cup {NoSignal}
  BY EventAssumption
<1>2. kept \subseteq lists[o.target] /\ \A i \in lists[o.target] : i \notin removed => i \in kept
  OBVIOUS
<1>3. next \in 1..(MaxId + 1) /\ MaxId \in Nat
  BY EventAssumption DEF EventInv, EventTypeOK
<1> HIDE DEF kept
<1>4. CASE lists' = [lists EXCEPT ![o.target] = kept] /\ UNCHANGED <<next, info>>
  <2>1. EventTypeOK'
    BY <1>1, <1>2, <1>4 DEF Listen, EventInv, EventTypeOK, made
  <2>2. Handed' = Handed
    BY <1>4 DEF Handed
  <2>3. \A t \in Target : /\ lists'[t] \subseteq lists[t]
                          /\ \A i \in lists[t] : i \notin removed => i \in lists'[t]
    BY <1>2, <1>4 DEF EventInv, EventTypeOK
  <2>4. KnownOnly' /\ ListedAtHome' /\ HooksNameBack' /\ FramesInOrder'
    BY <1>4, <2>2, <2>3 DEF Listen, EventInv, KnownOnly, ListedAtHome, HooksNameBack, FramesInOrder
  <2>5. CopiesAreFlagged'
    <3> SUFFICES ASSUME NEW k \in DOMAIN stack, NEW i \in stack[k].queue, i \notin removed
                 PROVE  i \in lists'[info[i].target]
      BY <1>4 DEF CopiesAreFlagged, Listen
    <3>1. i \in lists[info[i].target] /\ i \in Handed
      BY DEF EventInv, CopiesAreFlagged, KnownOnly
    <3>2. info[i].target \in Target
      BY <3>1, <1>3 DEF EventInv, EventTypeOK, Handed, Id
    <3> QED
      BY <3>1, <3>2, <2>3
  <2> QED
    BY <2>1, <2>4, <2>5 DEF EventInv
<1>5. CASE next' # next
  <2> DEFINE entry == [target |-> o.target, callback |-> o.callback, capture |-> o.capture,
                       once |-> o.once, signal |-> o.signal, hook |-> hook, hooks |-> 0]
             hookEntry == [target |-> o.signal, callback |-> o.callback, capture |-> FALSE,
                           once |-> TRUE, signal |-> NoSignal, hook |-> 0, hooks |-> next]
  <2>1. /\ (IF hook = 0 THEN next ELSE hook) <= MaxId
        /\ next' = IF hook = 0 THEN next + 1 ELSE next + 2
        /\ info' = [i \in Id |-> IF i = next THEN entry ELSE IF i = hook THEN hookEntry ELSE info[i]]
        /\ lists' = [u \in Target |->
             (IF u = o.target THEN kept \cup {next} ELSE lists[u])
             \cup (IF u = o.signal THEN {hook} ELSE {})]
        /\ UNCHANGED <<made, parent, removed, aborted, flags, stack>>
    BY <1>5 DEF Listen, kept
  <2>2. \/ hook = 0 /\ o.signal = NoSignal
        \/ hook = next + 1 /\ o.signal \in Signal /\ hook \in Id
    BY <1>1, <1>3, <2>1, EventAssumption DEF Id, Target
  <2>3. next \in Id /\ next' \in 1..(MaxId + 1) /\ Handed \subseteq Handed' /\ next \in Handed'
        /\ Handed' \subseteq Id /\ next \notin Handed /\ hook \notin Handed
        /\ (hook # 0 => hook \in Handed') /\ (\A i \in Handed' : i \in Handed \/ i = next \/ i = hook)
    BY <1>3, <2>1, <2>2 DEF Id, Handed
  <2>4. entry \in [target : Target, callback : Callback, capture : BOOLEAN,
                   once : BOOLEAN, signal : Signal \cup {NoSignal},
                   hook : 0..MaxId, hooks : 0..MaxId]
    BY <1>1, <1>3, <2>2 DEF Id
  <2>5. hook # 0 => hookEntry \in [target : Target, callback : Callback, capture : BOOLEAN,
                   once : BOOLEAN, signal : Signal \cup {NoSignal},
                   hook : 0..MaxId, hooks : 0..MaxId]
    BY <1>1, <1>3, <2>2, <2>3 DEF Id, Target
  <2>6. /\ info'[next] = entry
        /\ hook # 0 => info'[hook] = hookEntry
        /\ \A i \in Handed : info'[i] = info[i]
    <3>1. hook # next /\ (hook # 0 => hook \in Id) /\ Handed \subseteq Id
      BY <1>3, <2>2, <2>3
    <3> HIDE DEF entry, hookEntry, hook
    <3> QED
      BY <2>1, <2>3, <3>1
  <2>7. entry.target = o.target /\ entry.hook = hook /\ entry.hooks = 0
        /\ hookEntry.target = o.signal /\ hookEntry.hook = 0 /\ hookEntry.hooks = next
    OBVIOUS
  <2>8. EventTypeOK'
    <3>1. info' \in [Id -> [target : Target, callback : Callback, capture : BOOLEAN,
                      once : BOOLEAN, signal : Signal \cup {NoSignal},
                      hook : 0..MaxId, hooks : 0..MaxId]]
      <4> HIDE DEF entry, hookEntry, hook
      <4> QED
        BY <2>1, <2>2, <2>4, <2>5 DEF EventInv, EventTypeOK, Id
    <3>2. lists' \in [Target -> SUBSET Id]
      <4>1. \A u \in Target : lists[u] \in SUBSET Id /\ (u = o.signal => hook \in Id)
        BY <2>2, EventAssumption DEF EventInv, EventTypeOK
      <4>2. kept \in SUBSET Id
        BY <1>1, <1>2, <4>1
      <4> HIDE DEF entry, hookEntry, hook
      <4> QED
        BY <2>1, <2>3, <4>1, <4>2
    <3> QED
      BY <2>1, <2>3, <3>1, <3>2 DEF EventInv, EventTypeOK, made
  <2> HIDE DEF entry, hookEntry, hook
  <2>9. \A t \in Target : \A i \in lists'[t] :
           \/ i \in lists[t]
           \/ i = next /\ t = o.target
           \/ i = hook /\ t = o.signal /\ hook # 0
    <3>1. \A t \in Target : t = o.signal => hook # 0
      BY <1>3, <2>2, EventAssumption DEF hook
    <3> QED
      BY <1>2, <2>1, <3>1
  <2>10. \A t \in Target : \A i \in lists[t] : i \notin removed => i \in lists'[t]
    BY <1>2, <2>1
  <2>11. KnownOnly'
    <3>1. \A t \in Target : lists'[t] \subseteq Handed'
      BY <2>9, <2>3 DEF EventInv, KnownOnly
    <3>2. next < next'
      BY <1>3, <2>1
    <3>3. \A k \in DOMAIN stack : stack[k].running < next'
      <4> SUFFICES ASSUME NEW k \in DOMAIN stack PROVE stack[k].running < next'
        OBVIOUS
      <4>1. stack[k] \in Frame
        BY DEF EventInv, EventTypeOK
      <4>2. stack[k].running \in Nat /\ next' \in Nat /\ next \in Nat
        BY <4>1, <1>3, <2>3 DEF Frame
      <4> QED
        BY <3>2, <4>2 DEF EventInv, KnownOnly
    <3> QED
      BY <2>1, <2>3, <3>1, <3>3 DEF EventInv, KnownOnly
  <2>12. ListedAtHome'
    BY <2>6, <2>7, <2>9 DEF EventInv, ListedAtHome, KnownOnly
  <2>13. HooksNameBack'
    <3> SUFFICES ASSUME NEW i \in Handed'
                 PROVE  /\ info'[i].hook # 0 =>
                             info'[i].hook \in Handed' /\ info'[info'[i].hook].hooks = i
                        /\ info'[i].hooks # 0 =>
                             info'[i].hooks \in Handed' /\ info'[info'[i].hooks].hook = i
      BY DEF HooksNameBack
    <3>0. i # 0
      BY DEF Handed
    <3>1. CASE i \in Handed
      BY <2>3, <2>6, <3>1 DEF EventInv, HooksNameBack
    <3>2. CASE i = next
      BY <2>3, <2>6, <2>7, <3>2
    <3>3. CASE i = hook /\ hook # 0
      <4>1. info'[i] = hookEntry /\ info'[next] = entry /\ next \in Handed'
        BY <2>3, <2>6, <3>3
      <4> QED
        BY <2>7, <3>3, <4>1
    <3> QED
      BY <2>3, <3>0, <3>1, <3>2, <3>3
  <2>14. CopiesAreFlagged'
    <3> SUFFICES ASSUME NEW k \in DOMAIN stack, NEW i \in stack[k].queue, i \notin removed
                 PROVE  i \in lists'[info'[i].target]
      BY <2>1 DEF CopiesAreFlagged
    <3>1. i \in lists[info[i].target] /\ i \in Handed
      BY DEF EventInv, CopiesAreFlagged, KnownOnly
    <3>2. info[i].target \in Target
      BY <3>1, <1>3 DEF EventInv, EventTypeOK, Handed, Id
    <3> QED
      BY <3>1, <3>2, <2>6, <2>10
  <2>15. FramesInOrder'
    BY <2>1 DEF EventInv, FramesInOrder
  <2> QED
    BY <2>8, <2>11, <2>12, <2>13, <2>14, <2>15 DEF EventInv
<1> QED
  BY <1>3, <1>4, <1>5 DEF Listen, kept

\* A frame that changes in these fields stays a frame.
LEMMA FrameFields ==
  ASSUME NEW f \in Frame, NEW q \in SUBSET Id, NEW i \in Id, NEW k \in Nat,
         NEW p \in {"capture", "bubble", "flat"}
  PROVE  /\ [f EXCEPT !.queue = q] \in Frame
         /\ [f EXCEPT !.running = 0] \in Frame
         /\ [f EXCEPT !.queue = q, !.called = @ \cup {i}] \in Frame
         /\ [f EXCEPT !.queue = q, !.running = i, !.called = @ \cup {i}] \in Frame
         /\ [f EXCEPT !.at = k, !.pass = p, !.queue = q] \in Frame
<1>1. 0 \in 0..MaxId /\ i \in 0..MaxId
  BY EventAssumption DEF Id
<1> QED
  BY <1>1 DEF Frame

\* The first number of the innermost queue.
LEMMA FirstHanded ==
  ASSUME EventInv, Between, NEW i \in Id, First(i)
  PROVE  /\ stack # <<>> /\ Top \in Frame /\ Top = stack[Len(stack)]
         /\ Len(stack) \in DOMAIN stack
         /\ i \in Handed /\ i \in Top.queue /\ Rest(i) \subseteq Top.queue
         /\ Top.queue \subseteq Handed /\ Top.queue \subseteq Id
         /\ info[i].target \in Target
         /\ i \notin removed => i \in lists[info[i].target]
<1>1. stack # <<>> /\ Top \in Frame /\ Top = stack[Len(stack)] /\ Len(stack) \in DOMAIN stack
  BY TopTypes DEF Between
<1>2. i \in Top.queue /\ Rest(i) \subseteq Top.queue
  BY DEF First, Rest
<1>3. Top.queue \subseteq Handed /\ Top.queue \subseteq Id
  BY <1>1 DEF EventInv, KnownOnly, Frame
<1> QED
  BY <1>1, <1>2, <1>3 DEF EventInv, EventTypeOK, CopiesAreFlagged

LEMMA ScriptKeeps ==
  ASSUME EventInv, ScriptStep
  PROVE  EventInv'
<1>1. ASSUME NEW o \in Offer, Listen(o)
      PROVE  EventInv'
  BY <1>1, ListenKeeps
<1>2. ASSUME NEW o \in Offer, Unlisten(o)
      PROVE  EventInv'
  <2> DEFINE matching == {i \in lists[o.target] : ~IsHook(i) /\ info[i].callback = o.callback
                                                  /\ info[i].capture = o.capture}
  <2>1. matching \in SUBSET Handed
    BY EventAssumption DEF EventInv, KnownOnly
  <2>2. /\ lists' = Dropped(matching) /\ removed' = NowRemoved(matching)
        /\ UNCHANGED <<made, parent, next, info, aborted, flags, stack>>
    BY <1>2 DEF Unlisten
  <2>3. Shrinking
    BY <2>1, <2>2, DroppingShrinks
  <2>4. Handed' = Handed /\ Handed \subseteq Id
    BY <2>2, EventAssumption DEF Handed, EventInv, EventTypeOK, Id
  <2>5. EventTypeOK'
    BY <2>2, <2>3, <2>4 DEF EventInv, EventTypeOK, Shrinking, made
  <2>6. KnownOnly' /\ ListedAtHome' /\ HooksNameBack' /\ FramesInOrder'
    BY <2>2, <2>3, <2>4 DEF EventInv, KnownOnly, ListedAtHome, HooksNameBack, FramesInOrder, Shrinking
  <2>7. CopiesAreFlagged'
    <3> SUFFICES ASSUME NEW k \in DOMAIN stack, NEW i \in stack[k].queue, i \notin removed'
                 PROVE  i \in lists'[info[i].target]
      BY <2>2 DEF CopiesAreFlagged
    <3>1. i \notin removed
      BY <2>3 DEF Shrinking
    <3>2. i \in lists[info[i].target] /\ i \in Id
      BY <3>1, <2>4 DEF EventInv, CopiesAreFlagged, KnownOnly
    <3>3. info[i].target \in Target
      BY <3>2 DEF EventInv, EventTypeOK
    <3> QED
      BY <2>3, <3>2, <3>3 DEF Shrinking
  <2> QED
    BY <2>5, <2>6, <2>7 DEF EventInv
<1>3. ASSUME NEW ev \in Event, NEW t \in DispatchedAt, Dispatch(ev, t)
      PROVE  EventInv'
  <2>1. ev \in Occurrence /\ t \in Target /\ aborted \in SUBSET Signal
    BY EventAssumption DEF Occurrence, EventInv, EventTypeOK
  <2> QED
    BY <1>3, <2>1, PushKeeps DEF Dispatch
<1>4. ASSUME NEW s \in Signal, Abort(s)
      PROVE  EventInv'
  <2>1. s \in Occurrence /\ s \in Target /\ aborted' \in SUBSET Signal
    BY <1>4 DEF Abort, Occurrence, Target, EventInv, EventTypeOK
  <2> QED
    BY <1>4, <2>1, PushKeeps DEF Abort
<1>5. ASSUME NEW ev \in Occurrence, NEW now \in BOOLEAN, Stop(ev, now)
      PROVE  EventInv'
  <2>1. flags' \in [Occurrence -> [dispatching : BOOLEAN, stop : BOOLEAN, stopNow : BOOLEAN]]
    BY <1>5 DEF Stop, EventInv, EventTypeOK
  <2> QED
    BY <1>5, <2>1 DEF Stop, EventInv, EventTypeOK, KnownOnly, ListedAtHome, HooksNameBack,
                      CopiesAreFlagged, FramesInOrder, Handed, made
<1>6. ASSUME NEW p \in Places, Move(p)
      PROVE  EventInv'
  BY <1>6 DEF Move, EventInv, EventTypeOK, KnownOnly, ListedAtHome, HooksNameBack,
              CopiesAreFlagged, FramesInOrder, Handed, made
<1>7. ASSUME ListenerReturns
      PROVE  EventInv'
  <2> DEFINE f == [Top EXCEPT !.running = 0]
  <2>1. stack # <<>> /\ TopIs(f) /\ UNCHANGED <<made, parent, next, info, lists, removed, aborted, flags>>
    BY <1>7 DEF ListenerReturns
  <2>2. Top \in Frame /\ Top = stack[Len(stack)] /\ Len(stack) \in DOMAIN stack
    BY <2>1, TopTypes
  <2>3. f \in Frame
    <3>1. 0 \in 0..MaxId
      BY EventAssumption
    <3> QED
      BY <2>2, <3>1 DEF Frame
  <2>4. f.queue = Top.queue /\ f.running = 0 /\ f.at = Top.at /\ f.path = Top.path
    BY <2>2 DEF Frame
  <2>5. Shrinking
    BY <2>1, StayingShrinks
  <2>6. Top.queue \subseteq Handed /\ 0 < next
    BY <2>2 DEF EventInv, EventTypeOK, KnownOnly
  <2>7. \A i \in Top.queue : i \notin removed' => i \in lists'[info[i].target]
    BY <2>1, <2>2 DEF EventInv, CopiesAreFlagged
  <2>8. Top.at \in 1..(Len(Top.path) + 1) /\ Top.path # <<>>
    BY <2>2 DEF EventInv, FramesInOrder
  <2> HIDE DEF f
  <2>9. KnownOnly' /\ ListedAtHome' /\ HooksNameBack' /\ CopiesAreFlagged' /\ FramesInOrder'
    BY <2>1, <2>3, <2>4, <2>5, <2>6, <2>7, <2>8, TopStep
  <2>10. EventTypeOK'
    BY <2>1, <2>3, TopChanged DEF EventInv, EventTypeOK, made
  <2> QED
    BY <2>9, <2>10 DEF EventInv
<1> QED
  BY <1>1, <1>2, <1>3, <1>4, <1>5, <1>6, <1>7 DEF ScriptStep

LEMMA EngineKeeps ==
  ASSUME EventInv, EngineStep
  PROVE  EventInv'
<1>1. ASSUME NEW i \in Id, Skip(i)
      PROVE  EventInv'
  <2> DEFINE f == [Top EXCEPT !.queue = Rest(i)]
  <2>1. Between /\ First(i) /\ TopIs(f) /\ UNCHANGED <<made, parent, next, info, lists, aborted, flags>>
        /\ (removed' = removed \/ removed' = removed \cup {i})
    BY <1>1 DEF Skip
  <2>2. /\ stack # <<>> /\ Top \in Frame /\ Top = stack[Len(stack)] /\ Len(stack) \in DOMAIN stack
        /\ i \in Handed /\ Rest(i) \subseteq Top.queue
        /\ Top.queue \subseteq Handed /\ Top.queue \subseteq Id
    BY <2>1, FirstHanded
  <2>3. f \in Frame
    BY <2>2 DEF Frame
  <2>4. f.queue = Rest(i) /\ f.running = Top.running /\ f.at = Top.at /\ f.path = Top.path
    BY <2>2 DEF Frame
  <2>5. Shrinking
    BY <2>1, <2>2, StayingShrinks
  <2>6. \A j \in Rest(i) : j \notin removed' => j \in lists'[info[j].target]
    BY <2>1, <2>2 DEF EventInv, CopiesAreFlagged
  <2>7. Top.at \in 1..(Len(Top.path) + 1) /\ Top.path # <<>> /\ Top.running < next
    BY <2>2 DEF EventInv, FramesInOrder, KnownOnly
  <2> HIDE DEF f
  <2>8. KnownOnly' /\ ListedAtHome' /\ HooksNameBack' /\ CopiesAreFlagged' /\ FramesInOrder'
    BY <2>1, <2>2, <2>3, <2>4, <2>5, <2>6, <2>7, TopStep
  <2>9. EventTypeOK'
    BY <2>1, <2>2, <2>3, TopChanged DEF EventInv, EventTypeOK, made
  <2> QED
    BY <2>8, <2>9 DEF EventInv
<1>2. ASSUME NEW i \in Id, Invoke(i)
      PROVE  EventInv'
  <2> DEFINE f == [Top EXCEPT !.queue = Rest(i), !.running = i, !.called = @ \cup {i}]
  <2>1. Between /\ First(i) /\ TopIs(f) /\ UNCHANGED <<made, parent, next, info, aborted, flags>>
    BY <1>2 DEF Invoke
  <2>2. /\ stack # <<>> /\ Top \in Frame /\ Top = stack[Len(stack)] /\ Len(stack) \in DOMAIN stack
        /\ i \in Handed /\ Rest(i) \subseteq Top.queue
        /\ Top.queue \subseteq Handed /\ Top.queue \subseteq Id
    BY <2>1, FirstHanded
  <2>3. f \in Frame
    BY <2>2, FrameFields
  <2>4. f.queue = Rest(i) /\ f.running = i /\ f.at = Top.at /\ f.path = Top.path
    BY <2>2 DEF Frame
  <2>5. Shrinking
    <3>1. CASE info[i].once
      BY <1>2, <2>2, <3>1, DroppingShrinks DEF Invoke
    <3>2. CASE ~info[i].once
      BY <1>2, <3>2, StayingShrinks DEF Invoke
    <3> QED
      BY <3>1, <3>2
  <2>6. \A j \in Rest(i) : j \notin removed' => j \in lists'[info[j].target]
    <3> SUFFICES ASSUME NEW j \in Rest(i), j \notin removed'
                 PROVE  j \in lists'[info[j].target]
      OBVIOUS
    <3>1. j \in lists[info[j].target] /\ info[j].target \in Target
      BY <2>2, <2>5 DEF EventInv, EventTypeOK, CopiesAreFlagged, Shrinking
    <3> QED
      BY <2>5, <3>1 DEF Shrinking
  <2>7. Top.at \in 1..(Len(Top.path) + 1) /\ Top.path # <<>> /\ i < next
    BY <2>2, EventAssumption DEF EventInv, EventTypeOK, FramesInOrder, Handed
  <2> HIDE DEF f
  <2>8. KnownOnly' /\ ListedAtHome' /\ HooksNameBack' /\ CopiesAreFlagged' /\ FramesInOrder'
    BY <2>1, <2>2, <2>3, <2>4, <2>5, <2>6, <2>7, TopStep
  <2>9. EventTypeOK'
    <3>1. stack' \in Seq(Frame) /\ Handed \subseteq Id
      BY <2>1, <2>2, <2>3, TopChanged, EventAssumption DEF EventInv, EventTypeOK, Handed, Id
    <3> QED
      BY <2>1, <2>5, <3>1 DEF EventInv, EventTypeOK, Shrinking, made
  <2> QED
    BY <2>8, <2>9 DEF EventInv
<1>3. ASSUME NEW i \in Id, InvokeHook(i)
      PROVE  EventInv'
  <2> DEFINE f == [Top EXCEPT !.queue = Rest(i), !.called = @ \cup {i}]
  <2>1. Between /\ First(i) /\ TopIs(f) /\ UNCHANGED <<made, parent, next, info, aborted, flags>>
        /\ IsHook(i) /\ lists' = Dropped({info[i].hooks}) /\ removed' = NowRemoved({info[i].hooks})
    BY <1>3 DEF InvokeHook
  <2>2. /\ stack # <<>> /\ Top \in Frame /\ Top = stack[Len(stack)] /\ Len(stack) \in DOMAIN stack
        /\ i \in Handed /\ Rest(i) \subseteq Top.queue
        /\ Top.queue \subseteq Handed /\ Top.queue \subseteq Id
    BY <2>1, FirstHanded
  <2>3. f \in Frame
    BY <2>2, FrameFields
  <2>4. f.queue = Rest(i) /\ f.running = Top.running /\ f.at = Top.at /\ f.path = Top.path
    BY <2>2 DEF Frame
  <2>5. Shrinking
    <3>1. {info[i].hooks} \in SUBSET Handed
      BY <2>1, <2>2 DEF IsHook, EventInv, HooksNameBack
    <3> QED
      BY <2>1, <3>1, DroppingShrinks
  <2>6. \A j \in Rest(i) : j \notin removed' => j \in lists'[info[j].target]
    <3> SUFFICES ASSUME NEW j \in Rest(i), j \notin removed'
                 PROVE  j \in lists'[info[j].target]
      OBVIOUS
    <3>1. j \in lists[info[j].target] /\ info[j].target \in Target
      BY <2>2, <2>5 DEF EventInv, EventTypeOK, CopiesAreFlagged, Shrinking
    <3> QED
      BY <2>5, <3>1 DEF Shrinking
  <2>7. Top.at \in 1..(Len(Top.path) + 1) /\ Top.path # <<>> /\ Top.running < next
    BY <2>2 DEF EventInv, FramesInOrder, KnownOnly
  <2> HIDE DEF f
  <2>8. KnownOnly' /\ ListedAtHome' /\ HooksNameBack' /\ CopiesAreFlagged' /\ FramesInOrder'
    BY <2>1, <2>2, <2>3, <2>4, <2>5, <2>6, <2>7, TopStep
  <2>9. EventTypeOK'
    <3>1. stack' \in Seq(Frame) /\ Handed \subseteq Id
      BY <2>1, <2>2, <2>3, TopChanged, EventAssumption DEF EventInv, EventTypeOK, Handed, Id
    <3> QED
      BY <2>1, <2>5, <3>1 DEF EventInv, EventTypeOK, Shrinking, made
  <2> QED
    BY <2>8, <2>9 DEF EventInv
<1>4. ASSUME CutShort
      PROVE  EventInv'
  <2> DEFINE f == [Top EXCEPT !.queue = {}]
  <2>1. stack # <<>> /\ TopIs(f)
        /\ UNCHANGED <<made, parent, next, info, lists, removed, aborted, flags>>
    BY <1>4 DEF CutShort, Between
  <2>2. Top \in Frame /\ Top = stack[Len(stack)] /\ Len(stack) \in DOMAIN stack
    BY <2>1, TopTypes
  <2>3. f \in Frame
    BY <2>2 DEF Frame
  <2>4. f.queue = {} /\ f.running = Top.running /\ f.at = Top.at /\ f.path = Top.path
    BY <2>2 DEF Frame
  <2>5. Shrinking
    BY <2>1, StayingShrinks
  <2>6. Top.at \in 1..(Len(Top.path) + 1) /\ Top.path # <<>> /\ Top.running < next
    BY <2>2 DEF EventInv, FramesInOrder, KnownOnly
  <2> HIDE DEF f
  <2>7. KnownOnly' /\ ListedAtHome' /\ HooksNameBack' /\ CopiesAreFlagged' /\ FramesInOrder'
    BY <2>1, <2>2, <2>3, <2>4, <2>5, <2>6, TopStep
  <2>8. EventTypeOK'
    BY <2>1, <2>2, <2>3, TopChanged DEF EventInv, EventTypeOK, made
  <2> QED
    BY <2>7, <2>8 DEF EventInv
<1>5. ASSUME NEW k \in Nat, k \in DOMAIN Top.path,
             NEW p \in {"capture", "bubble", "flat"}, Fire(k, p)
      PROVE  EventInv'
  <2> DEFINE q == lists[Top.path[k].at]
             f == [Top EXCEPT !.at = k, !.pass = p, !.queue = q]
  <2>1. stack # <<>> /\ TopIs(f)
        /\ UNCHANGED <<made, parent, next, info, lists, removed, aborted, flags>>
    BY <1>5 DEF Fire, Between
  <2>2. Top \in Frame /\ Top = stack[Len(stack)] /\ Len(stack) \in DOMAIN stack
    BY <2>1, TopTypes
  <2>3. Top.path \in Seq([at : Target, adjusted : BOOLEAN])
    BY <2>2 DEF Frame
  <2>4. Top.path[k].at \in Target /\ k \in 1..Len(Top.path)
    <3> DEFINE path == Top.path
               E == [at : Target, adjusted : BOOLEAN]
    <3>1. path \in Seq(E)
      BY <2>3
    <3>2. k \in DOMAIN path
      BY <1>5
    <3> HIDE DEF path, E
    <3>3. path[k] \in E /\ k \in 1..Len(path)
      BY <3>1, <3>2
    <3>4. path[k].at \in Target
      BY <3>3 DEF E
    <3> QED
      BY <3>3, <3>4 DEF path
  <2>5. q \in SUBSET Id /\ q \subseteq Handed /\ \A j \in q : j \in lists[info[j].target]
    BY <2>4 DEF EventInv, EventTypeOK, KnownOnly, ListedAtHome
  <2> HIDE DEF q
  <2>6. f \in Frame
    BY <2>2, <2>5 DEF Frame
  <2>7. f.queue = q /\ f.running = Top.running /\ f.at = k /\ f.path = Top.path
    BY <2>2 DEF Frame
  <2>8. Shrinking
    BY <2>1, StayingShrinks
  <2>9. k \in 1..(Len(Top.path) + 1) /\ Top.path # <<>> /\ Top.running < next
    BY <2>2, <2>3, <2>4 DEF EventInv, FramesInOrder, KnownOnly
  <2>10. \A j \in q : j \notin removed' => j \in lists'[info[j].target]
    BY <2>1, <2>5
  <2> HIDE DEF f
  <2>11. KnownOnly' /\ ListedAtHome' /\ HooksNameBack' /\ CopiesAreFlagged' /\ FramesInOrder'
    BY <2>1, <2>5, <2>6, <2>7, <2>8, <2>9, <2>10, TopStep
  <2>12. EventTypeOK'
    BY <2>1, <2>2, <2>6, TopChanged DEF EventInv, EventTypeOK, made
  <2> QED
    BY <2>11, <2>12 DEF EventInv
<1>6. ASSUME stack # <<>>, FireFlat \/ FireCapture \/ FireBubble
      PROVE  EventInv'
  <2>1. Top \in Frame /\ Top = stack[Len(stack)] /\ Len(stack) \in DOMAIN stack
    BY <1>6, TopTypes
  <2>2. /\ Top.path \in Seq([at : Target, adjusted : BOOLEAN])
        /\ Top.at \in 1..(Len(Top.path) + 1) /\ Top.path # <<>>
    BY <2>1 DEF Frame, EventInv, FramesInOrder
  <2>3. Len(Top.path) \in Nat /\ DOMAIN Top.path = 1..Len(Top.path) /\ Len(Top.path) >= 1
    BY <2>2
  <2>4. CASE FireFlat
    <3>1. 1 \in DOMAIN Top.path /\ Fire(1, "flat")
      BY <2>3, <2>4 DEF FireFlat
    <3> QED
      BY <1>5, <3>1
  <2>5. CASE FireCapture
    <3>1. Top.at - 1 \in DOMAIN Top.path /\ Top.at - 1 \in Nat /\ Fire(Top.at - 1, "capture")
      BY <2>2, <2>3, <2>5 DEF FireCapture
    <3> QED
      BY <1>5, <3>1
  <2>6. CASE FireBubble
    <3>1. PICK k \in NextBubble : Fire(k, "bubble")
      BY <2>6 DEF FireBubble
    <3>2. k \in DOMAIN Top.path /\ k \in Nat
      BY <2>2, <2>3 DEF NextBubble
    <3> QED
      BY <1>5, <3>1, <3>2
  <2> QED
    BY <1>6, <2>4, <2>5, <2>6
<1>7. ASSUME EndDispatch
      PROVE  EventInv'
  <2>1. stack # <<>> /\ stack' = SubSeq(stack, 1, Len(stack) - 1)
        /\ flags' = [flags EXCEPT ![Top.event] = Clean]
        /\ UNCHANGED <<made, parent, next, info, lists, removed, aborted>>
    BY <1>7 DEF EndDispatch, Between
  <2>2. stack \in Seq(Frame) /\ Len(stack) \in Nat \ {0} /\ DOMAIN stack = 1..Len(stack)
    BY <2>1, TopTypes DEF EventInv, EventTypeOK
  <2>3. /\ stack' \in Seq(Frame) /\ Len(stack') = Len(stack) - 1
        /\ DOMAIN stack' = 1..(Len(stack) - 1)
        /\ \A k \in DOMAIN stack' : stack'[k] = stack[k] /\ k \in DOMAIN stack /\ k # Len(stack)
    BY <2>1, <2>2
  <2>4. flags' \in [Occurrence -> [dispatching : BOOLEAN, stop : BOOLEAN, stopNow : BOOLEAN]]
    BY <2>1 DEF Clean, EventInv, EventTypeOK
  <2>5. EventTypeOK'
    BY <2>1, <2>3, <2>4 DEF EventInv, EventTypeOK, made
  <2>6. Handed' = Handed
    BY <2>1 DEF Handed
  <2> QED
    BY <2>1, <2>3, <2>5, <2>6 DEF EventInv, KnownOnly, ListedAtHome, HooksNameBack,
                               CopiesAreFlagged, FramesInOrder
<1> QED
  BY <1>1, <1>2, <1>3, <1>4, <1>6, <1>7 DEF EngineStep

(* Whatever listeners do, the bookkeeping of lists, flags and hooks holds.  *)
THEOREM EventInvariant == EventSpec => []EventInv
<1>1. EventInv /\ [EventNext]_eventVars => EventInv'
  <2> SUFFICES ASSUME EventInv, [EventNext]_eventVars PROVE EventInv'
    OBVIOUS
  <2>1. CASE ScriptStep
    BY <2>1, ScriptKeeps
  <2>2. CASE EngineStep
    BY <2>2, EngineKeeps
  <2>3. CASE UNCHANGED eventVars
    BY <2>3 DEF eventVars, made, EventInv, EventTypeOK, KnownOnly, ListedAtHome, HooksNameBack,
                CopiesAreFlagged, FramesInOrder, Handed
  <2> QED
    BY <2>1, <2>2, <2>3 DEF EventNext
<1> QED
  BY <1>1, InitEstablishes, PTL DEF EventSpec

(* Every variable of the dispatch keeps its type.                           *)
THEOREM EventTypes == EventSpec => []EventTypeOK
<1>1. EventInv => EventTypeOK
  BY DEF EventInv
<1> QED
  BY <1>1, EventInvariant, PTL

-----------------------------------------------------------------------------
(* The dispatch implements ListenerContract.                                *)

(* Which listeners a step takes from the registered ones, if any.           *)
LEMMA Unregistering ==
  ASSUME next' = next, info' = info, Calls' = Calls,
         StillRegistered' \subseteq StillRegistered
  PROVE  Contract!ContractNext
<1> DEFINE S == StillRegistered \ StillRegistered'
<1>1. Page' = Page /\ StillRegistered \subseteq Page /\ S \in SUBSET StillRegistered
  BY DEF Page, IsHook, StillRegistered
<1>2. {i \in Page : info[i].once}' = {i \in Page : info[i].once}
  BY <1>1
<1>3. Contract!Unregister(S)
  BY <1>1, <1>2 DEF Contract!Unregister
<1> QED
  BY <1>1, <1>3 DEF Contract!ContractNext

LEMMA ShrinkingUnregisters ==
  ASSUME EventInv, Shrinking, next' = next, info' = info, aborted \subseteq aborted'
  PROVE  StillRegistered' \subseteq StillRegistered
<1> SUFFICES ASSUME NEW i \in Page, Registered(i)'
             PROVE  i \in Page /\ Registered(i)
  BY DEF StillRegistered, Page, IsHook
<1>1. i \in Id
  BY EventAssumption DEF Page, EventInv, EventTypeOK, Id
<1>2. info[i].target \in Target
  BY <1>1 DEF EventInv, EventTypeOK
<1> QED
  BY <1>2 DEF Registered, Listed, Shrinking

(* Between two calls, the innermost dispatch calls nobody.                  *)
LEMMA QuietTop ==
  ASSUME EventInv, Between, NEW f \in Frame, TopIs(f), f.running = 0
  PROVE  Calls' = Calls
<1>1. Len(stack') = Len(stack) /\ stack' # <<>> /\ stack # <<>>
      /\ stack'[Len(stack)] = f /\ DOMAIN stack = 1..Len(stack)
      /\ \A k \in DOMAIN stack : k # Len(stack) => stack'[k] = stack[k]
  BY TopChanged, TopTypes DEF Between
<1>2. ~Script /\ ~Script'
  BY <1>1 DEF Script, Between, Top
<1>3. Len(stack) \in Nat
  BY DEF EventInv, EventTypeOK
<1> QED
  BY <1>1, <1>2, <1>3 DEF Calls

LEMMA PushedCalls ==
  ASSUME EventInv, Script, NEW ev \in Occurrence, NEW t \in Target, Push(ev, t)
  PROVE  Calls' = Calls
<1>1. /\ stack' \in Seq(Frame) /\ Len(stack') = Len(stack) + 1
      /\ \A k \in DOMAIN stack : stack'[k] = stack[k]
      /\ stack'[Len(stack) + 1].running = 0
  BY FramePushed
<1>2. stack \in Seq(Frame) /\ Len(stack) \in Nat /\ DOMAIN stack = 1..Len(stack)
  BY DEF EventInv, EventTypeOK
<1>3. stack' # <<>> /\ ~Script'
  BY <1>1, <1>2 DEF Script, Top
<1> QED
  BY <1>1, <1>2, <1>3 DEF Calls

LEMMA SameStack ==
  ASSUME stack' = stack
  PROVE  Calls' = Calls
BY DEF Calls, Script, Top

(* addEventListener registers, or finds the listener registered.            *)
LEMMA ListenContract ==
  ASSUME EventInv, NEW o \in Offer, Listen(o)
  PROVE  Contract!ContractNext
<1> DEFINE kept == IF o.target \in Node THEN lists[o.target] \ removed ELSE lists[o.target]
           hook == IF o.signal = NoSignal THEN 0 ELSE next + 1
           entry == [target |-> o.target, callback |-> o.callback, capture |-> o.capture,
                     once |-> o.once, signal |-> o.signal, hook |-> hook, hooks |-> 0]
           hookEntry == [target |-> o.signal, callback |-> o.callback, capture |-> FALSE,
                         once |-> TRUE, signal |-> NoSignal, hook |-> 0, hooks |-> next]
<1>1. o.target \in Target /\ o.signal \in Signal \cup {NoSignal} /\ o.signal \notin aborted
      /\ o.once \in BOOLEAN /\ NoSignal \notin Target
  BY EventAssumption DEF Listen
<1>2. next \in 1..(MaxId + 1) /\ MaxId \in Nat
  BY EventAssumption DEF EventInv, EventTypeOK
<1>3. Calls' = Calls /\ removed' = removed /\ aborted' = aborted
  BY SameStack DEF Listen
<1>4. Page \subseteq Handed /\ Handed \subseteq Id
  BY <1>2 DEF Page, Handed, Id
<1>5. \A i \in Id : info[i].target \in Target
  BY DEF EventInv, EventTypeOK
<1>6. CASE lists' = [lists EXCEPT ![o.target] = kept] /\ UNCHANGED <<next, info>>
  <2>1. \A t \in Target : lists'[t] \subseteq lists[t]
    BY <1>6 DEF EventInv, EventTypeOK
  <2>2. StillRegistered' \subseteq StillRegistered
    BY <1>3, <1>4, <1>5, <1>6, <2>1 DEF StillRegistered, Page, IsHook, Registered, Listed
  <2> QED
    BY <1>3, <1>6, <2>2, Unregistering
<1>7. CASE next' # next
  <2>1. /\ (IF hook = 0 THEN next ELSE hook) <= MaxId
        /\ next' = IF hook = 0 THEN next + 1 ELSE next + 2
        /\ info' = [i \in Id |-> IF i = next THEN entry ELSE IF i = hook THEN hookEntry ELSE info[i]]
        /\ lists' = [u \in Target |->
             (IF u = o.target THEN kept \cup {next} ELSE lists[u])
             \cup (IF u = o.signal THEN {hook} ELSE {})]
    BY <1>7 DEF Listen
  <2>2. \/ hook = 0 /\ next' = next + 1
        \/ hook = next + 1 /\ hook \in Id /\ next' = next + 2
    BY <1>2, <2>1 DEF Id
  <2>3. next \in Id /\ hook # next /\ next \notin Handed /\ hook \notin Handed
        /\ next \in Handed'
        /\ \A i \in Handed' : i \in Handed \/ i = next \/ (i = hook /\ hook \in Id)
    BY <1>2, <2>1, <2>2 DEF Id, Handed
  <2>4. Handed \subseteq Handed'
    BY <1>2, <2>2 DEF Handed
  <2>5. entry.target = o.target /\ entry.signal = o.signal /\ entry.once = o.once
        /\ entry.hooks = 0 /\ hookEntry.hooks = next
    OBVIOUS
  <2> HIDE DEF entry, hookEntry, hook, kept
  <2>6. /\ info'[next] = entry
        /\ hook \in Id => info'[hook] = hookEntry
        /\ \A i \in Handed : info'[i] = info[i]
    BY <1>4, <2>1, <2>3
  <2>7. next # 0
    BY <1>2
  <2>8. Page' = Page \cup {next} /\ next \notin Page
    <3>1. Page = {i \in Handed : info[i].hooks = 0} /\ Page' = {i \in Handed' : info'[i].hooks = 0}
      BY DEF Page, Handed, IsHook
    <3>2. info'[next].hooks = 0
      BY <2>5, <2>6
    <3>3. hook \in Id => info'[hook].hooks # 0
      BY <2>5, <2>6, <2>7
    <3> QED
      BY <2>3, <2>4, <2>6, <3>1, <3>2, <3>3
  <2>9. \A i \in Page : Registered(i)' <=> Registered(i)
    <3> SUFFICES ASSUME NEW i \in Page PROVE Registered(i)' <=> Registered(i)
      OBVIOUS
    <3>1. i \in Handed /\ i # next /\ i # hook /\ info'[i] = info[i] /\ info[i].target \in Target
      BY <1>4, <1>5, <2>3, <2>6
    <3>2. i \notin removed => (i \in lists'[info[i].target] <=> i \in lists[info[i].target])
      BY <2>1, <3>1 DEF kept
    <3> QED
      BY <1>3, <3>1, <3>2 DEF Registered, Listed
  <2>10. next \in StillRegistered'
    <3>1. next \notin removed'
      BY <1>3, <2>3 DEF EventInv, KnownOnly
    <3>2. next \in lists'[o.target] /\ info'[next].target = o.target
      BY <1>1, <2>1, <2>5, <2>6
    <3>3. info'[next].signal \notin aborted'
      BY <1>1, <1>3, <2>5, <2>6
    <3> QED
      BY <2>8, <3>1, <3>2, <3>3 DEF StillRegistered, Registered, Listed
  <2>11. StillRegistered' = StillRegistered \cup {next}
    BY <2>8, <2>9, <2>10 DEF StillRegistered
  <2>12. (Page \ StillRegistered)' = Page \ StillRegistered
    BY <2>8, <2>11
  <2>13. {i \in Page : info[i].once}' =
           IF o.once THEN {i \in Page : info[i].once} \cup {next} ELSE {i \in Page : info[i].once}
    <3>1. \A i \in Page : info'[i].once = info[i].once
      BY <1>4, <2>6
    <3>2. info'[next].once = o.once
      BY <2>5, <2>6
    <3> QED
      BY <2>8, <3>1, <3>2
  <2>14. next \notin StillRegistered \cup (Page \ StillRegistered)
    BY <2>8 DEF StillRegistered
  <2>15. Contract!Register(next, o.once)
    BY <1>3, <2>11, <2>12, <2>13, <2>14 DEF Contract!Register
  <2> QED
    BY <1>1, <2>3, <2>15 DEF Contract!ContractNext
<1> QED
  BY <1>2, <1>6, <1>7 DEF Listen

(* Invoking a listener calls one that is registered at that moment.         *)
LEMMA InvokeContract ==
  ASSUME EventInv, NEW i \in Id, Invoke(i)
  PROVE  Contract!ContractNext
<1> DEFINE f == [Top EXCEPT !.queue = Rest(i), !.running = i, !.called = @ \cup {i}]
<1>1. /\ Between /\ First(i) /\ TopIs(f) /\ ~Skipped(i) /\ ~IsHook(i)
      /\ lists' = IF info[i].once THEN Dropped({i}) ELSE lists
      /\ removed' = IF info[i].once THEN NowRemoved({i}) ELSE removed
      /\ UNCHANGED <<next, info, aborted>>
  BY DEF Invoke
<1>2. /\ stack # <<>> /\ Top \in Frame /\ Len(stack) \in DOMAIN stack
      /\ i \in Handed /\ Rest(i) \in SUBSET Id
      /\ i \notin removed => i \in lists[info[i].target]
  BY <1>1, FirstHanded
<1>3. f \in Frame
  BY <1>2, FrameFields
<1>4. f.running = i /\ i # 0
  BY <1>2 DEF Frame, Handed
<1> HIDE DEF f
<1>5. Calls' = Append(Calls, i)
  <2>1. Len(stack') = Len(stack) /\ stack' # <<>> /\ stack'[Len(stack)] = f
        /\ DOMAIN stack = 1..Len(stack) /\ Len(stack) \in Nat \ {0}
        /\ \A k \in DOMAIN stack : k # Len(stack) => stack'[k] = stack[k]
    BY <1>1, <1>2, <1>3, TopChanged, TopTypes
  <2>2. ~Script /\ Script'
    BY <1>1, <1>4, <2>1 DEF Script, Between, Top
  <2>3. Calls = [k \in 1..(Len(stack) - 1) |-> stack[k].running]
        /\ Calls' = [k \in 1..Len(stack) |-> stack'[k].running]
    BY <2>1, <2>2 DEF Calls
  <2>4. Len(Calls) = Len(stack) - 1
    BY <2>1, <2>3
  <2> QED
    BY <1>4, <2>1, <2>3, <2>4
<1>6. i \in StillRegistered
  BY <1>1, <1>2 DEF StillRegistered, Page, Handed, Registered, Listed, Skipped
<1>7. Page' = Page /\ {j \in Page : info[j].once}' = {j \in Page : info[j].once}
  BY <1>1 DEF Page, IsHook
<1>8. StillRegistered' = StillRegistered \ ({j \in Page : info[j].once} \cap {i})
  <2>1. CASE ~info[i].once
    BY <1>1, <1>7, <2>1 DEF StillRegistered, Registered, Listed
  <2>2. CASE info[i].once
    <3>1. \A j \in Page : j \in WithHook(i) => j = i
      <4> SUFFICES ASSUME NEW j \in Page, j = info[i].hook, j # 0 PROVE j = i
        BY DEF WithHook
      <4>1. info[j].hooks = i
        BY <1>2 DEF EventInv, HooksNameBack
      <4> QED
        BY <1>2, <1>4, <4>1 DEF Page, IsHook
    <3>2. i \in WithHook(i)
      BY <1>4 DEF WithHook
    <3>3. lists' = [t \in Target |-> lists[t] \ WithHook(i)] /\ removed' = removed \cup WithHook(i)
      BY <1>1, <2>2 DEF Dropped, NowRemoved
    <3>4. \A j \in Page : info[j].target \in Target
      BY EventAssumption DEF Page, EventInv, EventTypeOK, Id
    <3>5. \A j \in Page : Registered(j)' <=> Registered(j) /\ j # i
      BY <1>1, <3>1, <3>2, <3>3, <3>4 DEF Registered, Listed
    <3> QED
      BY <1>6, <1>7, <2>2, <3>5 DEF StillRegistered
  <2> QED
    BY <2>1, <2>2
<1>9. (Page \ StillRegistered)' =
        (Page \ StillRegistered) \cup ({j \in Page : info[j].once} \cap {i})
  BY <1>6, <1>7, <1>8 DEF StillRegistered
<1>10. Contract!Call(i)
  BY <1>5, <1>6, <1>7, <1>8, <1>9 DEF Contract!Call
<1> QED
  BY <1>10 DEF Contract!ContractNext

(* Every step of the dispatch is a step of the contract, or none.           *)
LEMMA StepKeepsContract ==
  ASSUME EventInv, EventNext
  PROVE  [Contract!ContractNext]_Contract!contract
<1>0. Handed \subseteq Id
  BY EventAssumption DEF Handed, EventInv, EventTypeOK, Id
<1>1. ASSUME NEW o \in Offer, Listen(o)
      PROVE  Contract!ContractNext
  BY <1>1, ListenContract
<1>2. ASSUME NEW o \in Offer, Unlisten(o)
      PROVE  Contract!ContractNext
  <2> DEFINE matching == {i \in lists[o.target] : ~IsHook(i) /\ info[i].callback = o.callback
                                                  /\ info[i].capture = o.capture}
  <2>1. matching \in SUBSET Handed
    BY EventAssumption DEF EventInv, KnownOnly
  <2>2. /\ lists' = Dropped(matching) /\ removed' = NowRemoved(matching)
        /\ UNCHANGED <<next, info, aborted, stack>>
    BY <1>2 DEF Unlisten
  <2>3. StillRegistered' \subseteq StillRegistered
    BY <2>1, <2>2, DroppingShrinks, ShrinkingUnregisters
  <2> QED
    BY <2>2, <2>3, SameStack, Unregistering
<1>3. ASSUME NEW ev \in Event, NEW t \in DispatchedAt, Dispatch(ev, t)
      PROVE  Contract!ContractNext
  <2>1. ev \in Occurrence /\ t \in Target
    BY EventAssumption DEF Occurrence
  <2>2. Calls' = Calls /\ UNCHANGED <<next, info, lists, removed, aborted>>
    BY <1>3, <2>1, PushedCalls DEF Dispatch
  <2>3. StillRegistered' \subseteq StillRegistered
    BY <2>2, StayingShrinks, ShrinkingUnregisters
  <2> QED
    BY <2>2, <2>3, Unregistering
<1>4. ASSUME NEW s \in Signal, Abort(s)
      PROVE  Contract!ContractNext
  <2>1. s \in Occurrence /\ s \in Target
    BY DEF Occurrence, Target
  <2>2. Calls' = Calls /\ UNCHANGED <<next, info, lists, removed>> /\ aborted \subseteq aborted'
    BY <1>4, <2>1, PushedCalls DEF Abort
  <2>3. StillRegistered' \subseteq StillRegistered
    BY <2>2, StayingShrinks, ShrinkingUnregisters
  <2> QED
    BY <2>2, <2>3, Unregistering
<1>5. ASSUME UNCHANGED <<next, info, lists, removed, aborted, stack>>
      PROVE  Contract!ContractNext
  <2>1. StillRegistered' \subseteq StillRegistered
    BY <1>5, StayingShrinks, ShrinkingUnregisters
  <2> QED
    BY <1>5, <2>1, SameStack, Unregistering
<1>6. ASSUME ListenerReturns
      PROVE  Contract!ContractNext
  <2> DEFINE f == [Top EXCEPT !.running = 0]
  <2>1. stack # <<>> /\ Top.running # 0 /\ TopIs(f) /\ UNCHANGED <<next, info, lists, removed, aborted>>
    BY <1>6 DEF ListenerReturns
  <2>2. Top \in Frame /\ Top = stack[Len(stack)] /\ Len(stack) \in Nat \ {0}
        /\ DOMAIN stack = 1..Len(stack)
    BY <2>1, TopTypes
  <2>3. f \in Frame /\ f.running = 0
    <3>1. 0 \in 0..MaxId
      BY EventAssumption
    <3> QED
      BY <2>2, <3>1 DEF Frame
  <2> HIDE DEF f
  <2>4. Len(stack') = Len(stack) /\ stack' # <<>> /\ stack'[Len(stack)] = f
        /\ \A k \in DOMAIN stack : k # Len(stack) => stack'[k] = stack[k]
    BY <2>1, <2>2, <2>3, TopChanged
  <2>5. Script /\ ~Script'
    BY <2>1, <2>3, <2>4 DEF Script, Top
  <2>6. Calls = [k \in 1..Len(stack) |-> stack[k].running]
        /\ Calls' = [k \in 1..(Len(stack) - 1) |-> stack'[k].running]
    BY <2>4, <2>5 DEF Calls
  <2>7. Len(Calls) = Len(stack) /\ Calls # <<>>
    BY <2>2, <2>6
  <2>8. Calls' = SubSeq(Calls, 1, Len(Calls) - 1)
    BY <2>2, <2>4, <2>6, <2>7
  <2>9. UNCHANGED <<StillRegistered, Page, {i \in Page : info[i].once}>>
    BY <2>1 DEF StillRegistered, Page, IsHook, Registered, Listed
  <2>10. Contract!Return
    BY <2>7, <2>8, <2>9 DEF Contract!Return
  <2> QED
    BY <2>10 DEF Contract!ContractNext
<1>7. ASSUME NEW i \in Id, Skip(i)
      PROVE  Contract!ContractNext
  <2> DEFINE f == [Top EXCEPT !.queue = Rest(i)]
  <2>1. Between /\ First(i) /\ TopIs(f) /\ UNCHANGED <<next, info, lists, aborted>>
        /\ (removed' = removed \/ removed' = removed \cup {i})
    BY <1>7 DEF Skip
  <2>2. Top \in Frame /\ Rest(i) \in SUBSET Id /\ i \in Handed
    BY <2>1, FirstHanded
  <2>3. f \in Frame /\ f.running = 0
    <3>1. f \in Frame
      BY <2>2, FrameFields
    <3>2. f.running = 0
      BY <2>1, <2>2 DEF Between, Frame
    <3> QED
      BY <3>1, <3>2
  <2> HIDE DEF f
  <2>4. StillRegistered' \subseteq StillRegistered
    BY <2>1, <2>2, StayingShrinks, ShrinkingUnregisters
  <2> QED
    BY <2>1, <2>3, <2>4, QuietTop, Unregistering
<1>8. ASSUME NEW i \in Id, InvokeHook(i)
      PROVE  Contract!ContractNext
  <2> DEFINE f == [Top EXCEPT !.queue = Rest(i), !.called = @ \cup {i}]
  <2>1. Between /\ First(i) /\ TopIs(f) /\ UNCHANGED <<next, info, aborted>>
        /\ IsHook(i) /\ lists' = Dropped({info[i].hooks}) /\ removed' = NowRemoved({info[i].hooks})
    BY <1>8 DEF InvokeHook
  <2>2. Top \in Frame /\ Rest(i) \in SUBSET Id /\ i \in Handed
    BY <2>1, FirstHanded
  <2>3. f \in Frame /\ f.running = 0
    <3>1. f \in Frame
      BY <2>2, FrameFields
    <3>2. f.running = 0
      BY <2>1, <2>2 DEF Between, Frame
    <3> QED
      BY <3>1, <3>2
  <2> HIDE DEF f
  <2>4. {info[i].hooks} \in SUBSET Handed
    BY <2>1, <2>2 DEF IsHook, EventInv, HooksNameBack
  <2>5. StillRegistered' \subseteq StillRegistered
    BY <2>1, <2>4, DroppingShrinks, ShrinkingUnregisters
  <2> QED
    BY <2>1, <2>3, <2>5, QuietTop, Unregistering
<1>9. ASSUME CutShort
      PROVE  Contract!ContractNext
  <2> DEFINE f == [Top EXCEPT !.queue = {}]
  <2>1. Between /\ TopIs(f) /\ UNCHANGED <<next, info, lists, removed, aborted>>
    BY <1>9 DEF CutShort
  <2>2. Top \in Frame
    BY <2>1, TopTypes DEF Between
  <2>3. f \in Frame /\ f.running = 0
    BY <2>1, <2>2 DEF Between, Frame
  <2> HIDE DEF f
  <2>4. StillRegistered' \subseteq StillRegistered
    BY <2>1, StayingShrinks, ShrinkingUnregisters
  <2> QED
    BY <2>1, <2>3, <2>4, QuietTop, Unregistering
<1>10. ASSUME stack # <<>>, FireFlat \/ FireCapture \/ FireBubble
       PROVE  Contract!ContractNext
  <2>1. Top \in Frame /\ Top = stack[Len(stack)] /\ Len(stack) \in DOMAIN stack
    BY <1>10, TopTypes
  <2>2. /\ Top.path \in Seq([at : Target, adjusted : BOOLEAN])
        /\ Top.at \in 1..(Len(Top.path) + 1) /\ Top.path # <<>>
    BY <2>1 DEF Frame, EventInv, FramesInOrder
  <2>3. Len(Top.path) \in Nat /\ DOMAIN Top.path = 1..Len(Top.path) /\ Len(Top.path) >= 1
    BY <2>2
  <2>4. PICK k \in DOMAIN Top.path, p \in {"capture", "bubble", "flat"} : Fire(k, p)
    <3>1. CASE FireFlat
      BY <2>3, <3>1 DEF FireFlat
    <3>2. CASE FireCapture
      <4>1. Top.at - 1 \in DOMAIN Top.path
        BY <2>2, <2>3, <3>2 DEF FireCapture
      <4> QED
        BY <3>2, <4>1 DEF FireCapture
    <3>3. CASE FireBubble
      <4>1. NextBubble \subseteq DOMAIN Top.path
        BY <2>2, <2>3 DEF NextBubble
      <4> QED
        BY <3>3, <4>1 DEF FireBubble
    <3> QED
      BY <1>10, <3>1, <3>2, <3>3
  <2> DEFINE q == lists[Top.path[k].at]
             f == [Top EXCEPT !.at = k, !.pass = p, !.queue = q]
  <2>5. Between /\ TopIs(f) /\ UNCHANGED <<next, info, lists, removed, aborted>>
    BY <2>4 DEF Fire
  <2>6. k \in Nat /\ Top.path[k].at \in Target
    <3> DEFINE path == Top.path
               E == [at : Target, adjusted : BOOLEAN]
    <3>1. path \in Seq(E) /\ k \in DOMAIN path
      BY <2>2
    <3> HIDE DEF path, E
    <3>2. path[k] \in E /\ k \in Nat
      BY <3>1
    <3> QED
      BY <3>2 DEF path, E
  <2>7. q \in SUBSET Id
    BY <2>6 DEF EventInv, EventTypeOK
  <2> HIDE DEF q
  <2>8. f \in Frame /\ f.running = 0
    BY <2>1, <2>5, <2>6, <2>7 DEF Between, Frame
  <2> HIDE DEF f
  <2>9. StillRegistered' \subseteq StillRegistered
    BY <2>5, StayingShrinks, ShrinkingUnregisters
  <2> QED
    BY <2>5, <2>8, <2>9, QuietTop, Unregistering
<1>11. ASSUME EndDispatch
       PROVE  Contract!ContractNext
  <2>1. Between /\ stack' = SubSeq(stack, 1, Len(stack) - 1)
        /\ UNCHANGED <<next, info, lists, removed, aborted>>
    BY <1>11 DEF EndDispatch
  <2>2. stack \in Seq(Frame) /\ Len(stack) \in Nat \ {0} /\ DOMAIN stack = 1..Len(stack)
    BY <2>1, TopTypes DEF EventInv, EventTypeOK, Between
  <2>3. Len(stack') = Len(stack) - 1
        /\ \A k \in 1..(Len(stack) - 1) : stack'[k] = stack[k] /\ stack[k].running # 0
    BY <2>1, <2>2 DEF EventInv, FramesInOrder
  <2>4. ~Script
    BY <2>1 DEF Script, Between
  <2>5. Script'
    <3> SUFFICES ASSUME stack' # <<>> PROVE stack'[Len(stack')].running # 0
      BY DEF Script, Top
    <3>1. Len(stack') \in 1..(Len(stack) - 1)
      BY <2>1, <2>2, <2>3
    <3> QED
      BY <2>3, <3>1
  <2>6. Calls' = Calls
    BY <2>2, <2>3, <2>4, <2>5 DEF Calls
  <2>7. StillRegistered' \subseteq StillRegistered
    BY <2>1, StayingShrinks, ShrinkingUnregisters
  <2> QED
    BY <2>1, <2>6, <2>7, Unregistering
<1>12. CASE ScriptStep
  <2>1. ASSUME NEW ev \in Occurrence, NEW now \in BOOLEAN, Stop(ev, now)
        PROVE  Contract!ContractNext
    BY <2>1, <1>5 DEF Stop
  <2>2. ASSUME NEW p \in Places, Move(p)
        PROVE  Contract!ContractNext
    BY <2>2, <1>5 DEF Move
  <2> QED
    BY <1>1, <1>2, <1>3, <1>4, <1>6, <1>12, <2>1, <2>2 DEF ScriptStep
<1>13. CASE EngineStep
  <2>1. ASSUME NEW i \in Id, Invoke(i)
        PROVE  Contract!ContractNext
    BY <2>1, InvokeContract
  <2> QED
    BY <1>7, <1>8, <1>9, <1>10, <1>11, <1>13, <2>1 DEF EngineStep
<1> QED
  BY <1>12, <1>13 DEF EventNext

(* Copied lists, removal flags and hooks never call a listener that is not  *)
(* registered at that moment, and never bring one back.                     *)
THEOREM ContractIsKept == EventSpec => KeepsContract
<1>1. EventInit => Contract!ContractInit
  BY DEF EventInit, Contract!ContractInit, StillRegistered, Page, Calls, Script
<1>2. EventInv /\ [EventNext]_eventVars => [Contract!ContractNext]_Contract!contract
  <2> SUFFICES ASSUME EventInv, [EventNext]_eventVars
               PROVE  [Contract!ContractNext]_Contract!contract
    OBVIOUS
  <2>1. CASE EventNext
    BY <2>1, StepKeepsContract
  <2>2. CASE UNCHANGED eventVars
    BY <2>2 DEF eventVars, Contract!contract, StillRegistered, Page, Calls, Script, Top,
                IsHook, Registered, Listed
  <2> QED
    BY <2>1, <2>2
<1> QED
  BY <1>1, <1>2, EventInvariant, PTL DEF EventSpec, KeepsContract, Contract!ContractSpec

-----------------------------------------------------------------------------
(* Listeners and the hooks of their signals.                                *)

\* A listener with a signal has its hook there; a hook has no signal.
HooksAtSignals ==
  \A i \in Handed :
    /\ info[i].hook # 0 <=> info[i].signal \in Signal
    /\ info[i].hook # 0 => info[i].hooks = 0 /\ info[info[i].hook].target = info[i].signal

\* What is flagged and still listed is so for its signal.
FlaggedAreAborted ==
  \A t \in Target : \A i \in lists[t] \cap removed : info[i].signal \in aborted

\* No listener outlasts its hook, aborted or not.
HooksOutlast ==
  \A i \in Page :
    info[i].signal \in Signal /\ i \in lists[info[i].target] => info[i].hook \in lists[info[i].signal]

ListInv == HooksAtSignals /\ FlaggedAreAborted /\ HooksOutlast /\ SubscriptionsAgree

\* The fields of what was registered.
LEMMA InfoTypes ==
  ASSUME EventInv, NEW i \in Handed
  PROVE  /\ info[i].target \in Target /\ info[i].signal \in Signal \cup {NoSignal}
         /\ info[i].capture \in BOOLEAN /\ i # 0 /\ i \in Id
BY EventAssumption DEF EventInv, EventTypeOK, Handed, Id

\* Where the lists stay, flags may be set for aborted signals, and signals abort.
LEMMA StayingLists ==
  ASSUME EventInv, ListInv, UNCHANGED <<next, info, lists>>, aborted \subseteq aborted',
         \A i \in removed' \ removed : info[i].signal \in aborted'
  PROVE  ListInv'
<1>1. Handed' = Handed /\ Page' = Page
  BY DEF Handed, Page, IsHook
<1>2. HooksAtSignals'
  BY <1>1 DEF ListInv, HooksAtSignals
<1>3. FlaggedAreAborted'
  BY DEF ListInv, FlaggedAreAborted
<1>4. HooksOutlast'
  BY <1>1 DEF ListInv, HooksOutlast
<1>5. SubscriptionsAgree'
  BY <1>1 DEF ListInv, SubscriptionsAgree
<1> QED
  BY <1>2, <1>3, <1>4, <1>5 DEF ListInv

\* Dropping listeners drops their hooks, and nobody else's.
LEMMA DroppingLists ==
  ASSUME EventInv, ListInv, NEW S \in SUBSET Page, UNCHANGED <<next, info, aborted>>,
         lists' = Dropped(S), removed' = NowRemoved(S)
  PROVE  ListInv'
<1> DEFINE gone == UNION {WithHook(i) : i \in S}
<1>1. /\ Handed' = Handed /\ Page' = Page
      /\ removed' = removed \cup gone
      /\ \A t \in Target : lists'[t] = lists[t] \ gone
  BY DEF Handed, Page, IsHook, Dropped, NowRemoved
<1>2. Page \subseteq Handed /\ \A i \in Page : info[i].hooks = 0
  BY DEF Page, IsHook, Handed
<1>3. ASSUME NEW i \in Page
      PROVE  i \in gone <=> i \in S
  <2>1. ASSUME NEW j \in S, i = info[j].hook, i # 0
        PROVE  FALSE
    <3>1. info[i].hooks = j /\ j # 0
      BY <1>2, <2>1, InfoTypes DEF EventInv, HooksNameBack
    <3> QED BY <1>2, <3>1
  <2>2. i # 0
    BY <1>2, InfoTypes
  <2> QED BY <2>1, <2>2 DEF WithHook
<1>4. ASSUME NEW i \in Page, info[i].hook # 0
      PROVE  info[i].hook \in gone <=> i \in S
  <2>1. info[i].hook \in Handed /\ info[info[i].hook].hooks = i /\ i # 0
    BY <1>2, <1>4, InfoTypes DEF EventInv, HooksNameBack
  <2>2. ASSUME NEW j \in S, info[i].hook = info[j].hook
        PROVE  i = j
    BY <1>2, <1>4, <2>1, <2>2 DEF EventInv, HooksNameBack
  <2>3. ASSUME NEW j \in S, info[i].hook = j
        PROVE  FALSE
    BY <1>2, <2>1, <2>3
  <2> QED BY <1>4, <2>2, <2>3 DEF WithHook
<1> HIDE DEF gone
<1>5. \A i \in Page : /\ info[i].target \in Target
                      /\ info[i].signal \in Signal => info[i].hook # 0 /\ info[i].signal \in Target
  BY <1>2, InfoTypes DEF ListInv, HooksAtSignals, Target
<1>6. HooksAtSignals'
  BY <1>1 DEF ListInv, HooksAtSignals
<1>7. FlaggedAreAborted'
  BY <1>1 DEF ListInv, FlaggedAreAborted
<1>8. HooksOutlast'
  <2> SUFFICES ASSUME NEW i \in Page, info[i].signal \in Signal, i \in lists'[info[i].target]
               PROVE  info[i].hook \in lists'[info[i].signal]
    BY <1>1 DEF HooksOutlast
  <2>1. i \in lists[info[i].target] /\ i \notin S
    BY <1>1, <1>3, <1>5
  <2> QED BY <1>1, <1>4, <1>5, <2>1 DEF ListInv, HooksOutlast
<1>9. SubscriptionsAgree'
  <2> SUFFICES ASSUME NEW i \in Page, info[i].signal \in Signal \ aborted
               PROVE  i \in lists'[info[i].target] <=> info[i].hook \in lists'[info[i].signal]
    BY <1>1 DEF SubscriptionsAgree
  <2>1. i \in lists[info[i].target] <=> info[i].hook \in lists[info[i].signal]
    BY DEF ListInv, SubscriptionsAgree
  <2> QED BY <1>1, <1>3, <1>4, <1>5, <2>1
<1> QED
  BY <1>6, <1>7, <1>8, <1>9 DEF ListInv

\* addEventListener: entries flagged as removed leave a node's list, and unless
\* it is listed already, the listener comes with its hook.
LEMMA Listened ==
  ASSUME EventInv, NEW o \in Offer, Listen(o)
  PROVE  /\ UNCHANGED <<made, parent, removed, aborted, flags, stack>>
         /\ o.target \in Target /\ o.signal \in (Signal \cup {NoSignal}) \ aborted
         /\ \A t \in Target : /\ lists[t] \ removed \subseteq lists'[t]
                              /\ t \notin Node => lists[t] \subseteq lists'[t]
         /\ \/ UNCHANGED <<next, info>> /\ \A t \in Target : lists'[t] \subseteq lists[t]
            \/ \E hook :
                 /\ Handed' = (Handed \cup {next, hook}) \ {0} /\ Page' = Page \cup {next}
                 /\ next # 0 /\ next \notin Handed /\ hook \notin Handed /\ next # hook
                 /\ \A i \in Handed : info'[i] = info[i]
                 /\ info'[next].target = o.target /\ info'[next].signal = o.signal
                 /\ info'[next].hook = hook /\ info'[next].hooks = 0
                 /\ hook # 0 <=> o.signal \in Signal
                 /\ hook # 0 => /\ info'[hook].target = o.signal
                                /\ info'[hook].signal = NoSignal /\ info'[hook].hook = 0
                                /\ hook \in lists'[o.signal]
                 /\ next \in lists'[o.target]
                 /\ \A t \in Target : lists'[t] \subseteq lists[t] \cup {next, hook}
                 /\ \A t \in Target : hook \in lists'[t] => t = o.signal
<1> DEFINE kept == IF o.target \in Node THEN lists[o.target] \ removed ELSE lists[o.target]
           hook == IF o.signal = NoSignal THEN 0 ELSE next + 1
           entry == [target |-> o.target, callback |-> o.callback, capture |-> o.capture,
                     once |-> o.once, signal |-> o.signal, hook |-> hook, hooks |-> 0]
           hookEntry == [target |-> o.signal, callback |-> o.callback, capture |-> FALSE,
                         once |-> TRUE, signal |-> NoSignal, hook |-> 0, hooks |-> next]
<1>1. /\ o.target \in Target /\ o.signal \in (Signal \cup {NoSignal}) \ aborted
      /\ NoSignal \notin Target /\ NoSignal \notin Signal
      /\ UNCHANGED <<made, parent, removed, aborted, flags, stack>>
  BY EventAssumption DEF Listen, Target
<1>2. next \in 1..(MaxId + 1) /\ MaxId \in Nat /\ Handed \subseteq Id /\ 0 \notin Handed
  BY EventAssumption DEF EventInv, EventTypeOK, Handed, Id
<1>3. lists \in [Target -> SUBSET Id] /\ \A t \in Target : lists[t] \subseteq Handed
  BY DEF EventInv, EventTypeOK, KnownOnly
<1>4. CASE lists' = [lists EXCEPT ![o.target] = kept] /\ UNCHANGED <<next, info>>
  BY <1>1, <1>3, <1>4
<1>5. CASE next' # next
  <2>1. /\ (IF hook = 0 THEN next ELSE hook) <= MaxId
        /\ next' = IF hook = 0 THEN next + 1 ELSE next + 2
        /\ info' = [i \in Id |-> IF i = next THEN entry ELSE IF i = hook THEN hookEntry ELSE info[i]]
        /\ lists' = [u \in Target |->
             (IF u = o.target THEN kept \cup {next} ELSE lists[u])
             \cup (IF u = o.signal THEN {hook} ELSE {})]
    BY <1>5 DEF Listen
  <2>2. \/ hook = 0 /\ o.signal = NoSignal /\ next' = next + 1
        \/ hook = next + 1 /\ hook \in Id /\ o.signal \in Signal /\ next' = next + 2
    BY <1>1, <1>2, <2>1 DEF Id
  <2>3. /\ next \in Id /\ next # 0 /\ hook # next /\ next \notin Handed /\ hook \notin Handed
        /\ hook # 0 <=> o.signal \in Signal
    BY <1>1, <1>2, <2>1, <2>2 DEF Id, Handed
  <2>4. Handed' = (Handed \cup {next, hook}) \ {0}
    BY <1>2, <2>2 DEF Handed
  <2>5. /\ entry.target = o.target /\ entry.signal = o.signal /\ entry.hook = hook /\ entry.hooks = 0
        /\ hookEntry.target = o.signal /\ hookEntry.signal = NoSignal
        /\ hookEntry.hook = 0 /\ hookEntry.hooks = next
    OBVIOUS
  <2>6. kept \subseteq lists[o.target] /\ lists[o.target] \ removed \subseteq kept
        /\ (o.target \notin Node => kept = lists[o.target])
    OBVIOUS
  <2> HIDE DEF entry, hookEntry, hook, kept
  <2>7. /\ info'[next] = entry
        /\ hook # 0 => info'[hook] = hookEntry
        /\ \A i \in Handed : info'[i] = info[i]
    BY <1>2, <2>1, <2>2, <2>3
  <2>8. Page' = Page \cup {next}
    <3>1. Page = {i \in Handed : info[i].hooks = 0} /\ Page' = {i \in Handed' : info'[i].hooks = 0}
      BY DEF Page, Handed, IsHook
    <3>2. info'[next].hooks = 0 /\ (hook # 0 => info'[hook].hooks # 0)
      BY <2>3, <2>5, <2>7
    <3>3. \A i \in Handed : info'[i].hooks = info[i].hooks
      BY <2>7
    <3> QED
      BY <1>2, <2>3, <2>4, <3>1, <3>2, <3>3
  <2>9. \A t \in Target :
          lists'[t] = (IF t = o.target THEN kept \cup {next} ELSE lists[t])
                      \cup (IF t = o.signal THEN {hook} ELSE {})
    BY <2>1
  <2>10. \A t \in Target : /\ lists[t] \ removed \subseteq lists'[t]
                           /\ t \notin Node => lists[t] \subseteq lists'[t]
    BY <2>6, <2>9
  <2>11. /\ next \in lists'[o.target]
         /\ hook # 0 => hook \in lists'[o.signal]
         /\ \A t \in Target : lists'[t] \subseteq lists[t] \cup {next, hook}
         /\ \A t \in Target : hook \in lists'[t] => t = o.signal
    <3>1. hook # 0 => o.signal \in Target
      BY <2>3 DEF Target
    <3> QED BY <1>1, <1>3, <2>3, <2>6, <2>9, <3>1
  <2>12. /\ info'[next].target = o.target /\ info'[next].signal = o.signal
         /\ info'[next].hook = hook /\ info'[next].hooks = 0
         /\ hook # 0 => /\ info'[hook].target = o.signal
                        /\ info'[hook].signal = NoSignal /\ info'[hook].hook = 0
    BY <2>5, <2>7
  <2> QED
    BY <1>1, <2>3, <2>4, <2>7, <2>8, <2>10, <2>11, <2>12
<1> QED
  BY <1>1, <1>2, <1>4, <1>5 DEF Listen

\* A listener with a signal that is not aborted is listed at once with its hook.
LEMMA ListeningLists ==
  ASSUME EventInv, ListInv, NEW o \in Offer, Listen(o)
  PROVE  ListInv'
<1>1. /\ UNCHANGED <<removed, aborted>>
      /\ o.target \in Target /\ o.signal \in (Signal \cup {NoSignal}) \ aborted
      /\ \A t \in Target : /\ lists[t] \ removed \subseteq lists'[t]
                           /\ t \notin Node => lists[t] \subseteq lists'[t]
  BY Listened
<1>2. /\ Page \subseteq Handed /\ removed \subseteq Handed
      /\ \A t \in Target : lists[t] \subseteq Handed
      /\ \A i \in Handed : info[i].target \in Target
      /\ NoSignal \notin Signal /\ Signal \subseteq Target \ Node
  BY InfoTypes, EventAssumption DEF Page, Handed, EventInv, KnownOnly, Target
<1>3. \A i \in Page : info[i].signal \in Signal /\ info[i].hook \in lists[info[i].signal] =>
        info[i].hook \in lists'[info[i].signal]
  BY <1>1, <1>2
<1>4. \A i \in Page : info[i].signal \in Signal \ aborted /\ i \in lists[info[i].target] =>
        i \in lists'[info[i].target]
  BY <1>1, <1>2 DEF ListInv, FlaggedAreAborted
<1>5. CASE UNCHANGED <<next, info>> /\ \A t \in Target : lists'[t] \subseteq lists[t]
  <2>1. Handed' = Handed /\ Page' = Page
    BY <1>5 DEF Handed, Page, IsHook
  <2>2. HooksAtSignals'
    BY <1>5, <2>1 DEF ListInv, HooksAtSignals
  <2>3. FlaggedAreAborted'
    BY <1>1, <1>5 DEF ListInv, FlaggedAreAborted
  <2>4. HooksOutlast'
    BY <1>2, <1>3, <1>5, <2>1 DEF ListInv, HooksOutlast
  <2>5. SubscriptionsAgree'
    BY <1>1, <1>2, <1>3, <1>4, <1>5, <2>1 DEF ListInv, SubscriptionsAgree
  <2> QED BY <2>2, <2>3, <2>4, <2>5 DEF ListInv
<1>6. ASSUME NEW hook,
             /\ Handed' = (Handed \cup {next, hook}) \ {0} /\ Page' = Page \cup {next}
             /\ next # 0 /\ next \notin Handed /\ hook \notin Handed /\ next # hook
             /\ \A i \in Handed : info'[i] = info[i]
             /\ info'[next].target = o.target /\ info'[next].signal = o.signal
             /\ info'[next].hook = hook /\ info'[next].hooks = 0
             /\ hook # 0 <=> o.signal \in Signal
             /\ hook # 0 => /\ info'[hook].target = o.signal
                            /\ info'[hook].signal = NoSignal /\ info'[hook].hook = 0
                            /\ hook \in lists'[o.signal]
             /\ next \in lists'[o.target]
             /\ \A t \in Target : lists'[t] \subseteq lists[t] \cup {next, hook}
             /\ \A t \in Target : hook \in lists'[t] => t = o.signal
      PROVE  ListInv'
  <2>1. \A i \in Page : info'[i] = info[i] /\ i # next /\ i # hook
    BY <1>2, <1>6
  <2>2. \A i \in Page : info[i].hook \in Handed \/ info[i].hook = 0
    BY <1>2 DEF EventInv, HooksNameBack
  <2>3. HooksAtSignals'
    <3> SUFFICES ASSUME NEW i \in Handed'
                 PROVE  /\ info'[i].hook # 0 <=> info'[i].signal \in Signal
                        /\ info'[i].hook # 0 => /\ info'[i].hooks = 0
                                                /\ info'[info'[i].hook].target = info'[i].signal
      BY DEF HooksAtSignals
    <3>1. CASE i \in Handed
      BY <1>6, <3>1 DEF ListInv, HooksAtSignals, EventInv, HooksNameBack
    <3>2. CASE i = next
      BY <1>6, <3>2
    <3>3. CASE i = hook /\ hook # 0
      BY <1>2, <1>6, <3>3
    <3> QED BY <1>6, <3>1, <3>2, <3>3
  <2>4. FlaggedAreAborted'
    BY <1>1, <1>2, <1>6 DEF ListInv, FlaggedAreAborted
  <2>5. ASSUME NEW i \in Page, info[i].signal \in Signal
        PROVE  /\ i \in lists'[info[i].target] => i \in lists[info[i].target]
               /\ info[i].hook \in lists'[info[i].signal] => info[i].hook \in lists[info[i].signal]
    <3>1. info[i].hook # 0 /\ info[i].hook \in Handed
      BY <1>2, <2>2, <2>5 DEF ListInv, HooksAtSignals
    <3> QED BY <1>2, <1>6, <2>1, <2>5, <3>1
  <2>6. HooksOutlast'
    <3> SUFFICES ASSUME NEW i \in Page', info'[i].signal \in Signal, i \in lists'[info'[i].target]
                 PROVE  info'[i].hook \in lists'[info'[i].signal]
      BY DEF HooksOutlast
    <3>1. CASE i \in Page
      BY <1>3, <2>1, <2>5, <3>1 DEF ListInv, HooksOutlast
    <3>2. CASE i = next
      BY <1>6, <3>2
    <3> QED BY <1>6, <3>1, <3>2
  <2>7. SubscriptionsAgree'
    <3> SUFFICES ASSUME NEW i \in Page', info'[i].signal \in Signal \ aborted'
                 PROVE  i \in lists'[info'[i].target] <=> info'[i].hook \in lists'[info'[i].signal]
      BY DEF SubscriptionsAgree
    <3>1. CASE i \in Page
      BY <1>1, <1>3, <1>4, <2>1, <2>5, <3>1 DEF ListInv, SubscriptionsAgree
    <3>2. CASE i = next
      BY <1>6, <3>2
    <3> QED BY <1>6, <3>1, <3>2
  <2> QED BY <2>3, <2>4, <2>6, <2>7 DEF ListInv
<1> QED
  <2> HIDE DEF ListInv
  <2> QED BY <1>5, <1>6, Listened

\* Every step leaves lists and flags alone, or drops listeners, or adds one.
LEMMA ListsKeep ==
  ASSUME EventInv, ListInv, [EventNext]_eventVars
  PROVE  ListInv'
<1>1. ASSUME NEW o \in Offer, Unlisten(o)
      PROVE  ListInv'
  <2> DEFINE matching == {i \in lists[o.target] : ~IsHook(i) /\ info[i].callback = o.callback
                                                  /\ info[i].capture = o.capture}
  <2>1. matching \in SUBSET Page
    BY EventAssumption DEF EventInv, KnownOnly, Page, Handed
  <2>2. /\ lists' = Dropped(matching) /\ removed' = NowRemoved(matching)
        /\ UNCHANGED <<next, info, aborted>>
    BY <1>1 DEF Unlisten
  <2> HIDE DEF matching
  <2> QED BY <2>1, <2>2, DroppingLists
<1>2. ASSUME NEW i \in Id, Skip(i)
      PROVE  ListInv'
  BY <1>2, StayingLists DEF Skip
<1>3. ASSUME NEW i \in Id, Invoke(i)
      PROVE  ListInv'
  <2>1. UNCHANGED <<next, info, aborted>> /\ ~IsHook(i) /\ i \in Handed
    BY <1>3, FirstHanded DEF Invoke
  <2>2. {i} \in SUBSET Page
    BY <2>1 DEF Page, Handed
  <2>3. CASE info[i].once
    BY <1>3, <2>1, <2>2, <2>3, DroppingLists DEF Invoke
  <2>4. CASE ~info[i].once
    BY <1>3, <2>1, <2>4, StayingLists DEF Invoke
  <2> QED BY <2>3, <2>4
<1>4. ASSUME NEW i \in Id, InvokeHook(i)
      PROVE  ListInv'
  <2>1. /\ UNCHANGED <<next, info, aborted>> /\ info[i].hooks # 0 /\ i \in Handed
        /\ lists' = Dropped({info[i].hooks}) /\ removed' = NowRemoved({info[i].hooks})
    BY <1>4, FirstHanded DEF InvokeHook, IsHook
  <2>2. {info[i].hooks} \in SUBSET Page
    <3> DEFINE j == info[i].hooks
    <3>1. j \in Handed /\ info[j].hook = i /\ i # 0
      BY <2>1, InfoTypes DEF EventInv, HooksNameBack
    <3>2. info[j].hooks = 0
      BY <3>1 DEF ListInv, HooksAtSignals
    <3> QED BY <3>1, <3>2 DEF Page, Handed, IsHook
  <2> QED BY <2>1, <2>2, DroppingLists
<1>5. ASSUME UNCHANGED <<next, info, lists, removed>>, aborted \subseteq aborted'
      PROVE  ListInv'
  BY <1>5, StayingLists
<1>6. CASE ScriptStep
  BY <1>1, <1>5, <1>6, ListeningLists DEF ScriptStep, Dispatch, Abort, Stop, Move, ListenerReturns
<1>7. CASE EngineStep
  BY <1>2, <1>3, <1>4, <1>5, <1>7 DEF EngineStep, CutShort, FireFlat, FireCapture, FireBubble, Fire,
                                      EndDispatch
<1>8. CASE UNCHANGED eventVars
  BY <1>5, <1>8 DEF eventVars
<1> QED
  BY <1>6, <1>7, <1>8 DEF EventNext

-----------------------------------------------------------------------------
(* Dispatches: who still has to be called.                                  *)

\* No two dispatches under way are of one event.
EventsApart ==
  /\ \A k \in DOMAIN stack : flags[stack[k].event].dispatching
  /\ \A j, k \in DOMAIN stack : stack[j].event = stack[k].event => j = k

\* The abort event of a signal goes to the signal alone.
AbortFrames ==
  \A k \in DOMAIN stack :
    stack[k].event \in Signal =>
      /\ stack[k].event \in aborted /\ stack[k].pass = "flat"
      /\ stack[k].path = <<Entered(stack[k].event)>>

ShapesHold ==
  \A k \in DOMAIN stack :
    /\ stack[k].due \subseteq Handed
    /\ stack[k].pass = "flat" => Len(stack[k].path) = 1

\* While the abort event visits the hooks, it has those left to visit whose
\* listeners are listed.
Unhooks(f) ==
  f.event \in Signal /\ f.at = 1 /\ ~flags[f.event].stopNow =>
    \A i \in Page : info[i].signal = f.event /\ i \in lists[info[i].target] => info[i].hook \in f.queue

\* The dispatch f is still to come to listener i: at the entry being fired, or
\* at one further on.
ToCome(f, i) ==
  \/ i \in f.queue /\ (f.pass # "flat" => info[i].capture = (f.pass = "capture"))
  \/ \E k \in DOMAIN f.path :
       /\ f.path[k].at = info[i].target
       /\ \/ f.pass = "flat" /\ f.at = 2
          \/ f.pass = "capture" /\ info[i].capture /\ k < f.at
          \/ f.pass = "capture" /\ ~info[i].capture /\ Bubbles(f.path, k, f.event)
          \/ f.pass = "bubble" /\ ~info[i].capture /\ f.at < k /\ Bubbles(f.path, k, f.event)

Awaits(f) ==
  ~flags[f.event].stopNow =>
    \A i \in f.due : Registered(i) => i \in f.called \/ ToCome(f, i)

DispatchInv ==
  /\ EventsApart /\ AbortFrames /\ ShapesHold
  /\ \A k \in DOMAIN stack : Unhooks(stack[k]) /\ Awaits(stack[k])

\* What any step leaves of the registrations there were.
Persisting ==
  /\ Handed \subseteq Handed' /\ bubbling' = bubbling
  /\ \A i \in Handed : info'[i] = info[i]
  /\ removed \subseteq removed' /\ aborted \subseteq aborted'
  /\ \A t \in Target : lists'[t] \cap Handed \subseteq lists[t]
  /\ \A i \in Page' : i \in Page \/ info'[i].signal \notin aborted

\* Nothing registers again what was handed out.
LEMMA StepsPersist ==
  ASSUME EventInv, EventNext
  PROVE  Persisting
<1>1. ASSUME NEW o \in Offer, Listen(o)
      PROVE  Persisting
  <2>1. Page \subseteq Handed /\ \A t \in Target : lists[t] \subseteq Handed
    BY DEF Page, Handed, EventInv, KnownOnly
  <2>2. CASE UNCHANGED <<next, info>> /\ \A t \in Target : lists'[t] \subseteq lists[t]
    BY <1>1, <2>2, Listened DEF Persisting, made, Handed, Page, IsHook
  <2>3. ASSUME NEW hook,
               /\ Handed' = (Handed \cup {next, hook}) \ {0} /\ Page' = Page \cup {next}
               /\ next \notin Handed /\ hook \notin Handed
               /\ \A i \in Handed : info'[i] = info[i]
               /\ info'[next].signal = o.signal
               /\ \A t \in Target : lists'[t] \subseteq lists[t] \cup {next, hook}
        PROVE  Persisting
    <3>1. UNCHANGED <<bubbling, removed, aborted>> /\ o.signal \notin aborted
      BY <1>1, Listened DEF made
    <3>2. 0 \notin Handed
      BY DEF Handed
    <3> QED BY <2>3, <3>1, <3>2 DEF Persisting
  <2> HIDE DEF Persisting
  <2> QED BY <1>1, <2>2, <2>3, Listened
<1>2. ASSUME UNCHANGED <<made, next, info>>,
             removed \subseteq removed', aborted \subseteq aborted',
             \A t \in Target : lists'[t] \subseteq lists[t]
      PROVE  Persisting
  BY <1>2 DEF Persisting, made, Handed, Page, IsHook
<1>3. ASSUME UNCHANGED <<made, next, info, aborted>>,
             NEW S, lists' = Dropped(S), removed' = NowRemoved(S)
      PROVE  Persisting
  BY <1>2, <1>3 DEF Dropped, NowRemoved
<1>4. ASSUME NEW o \in Offer, Unlisten(o)
      PROVE  Persisting
  BY <1>3, <1>4 DEF Unlisten
<1>5. CASE ScriptStep
  BY <1>1, <1>2, <1>4, <1>5 DEF ScriptStep, Dispatch, Abort, Stop, Move, ListenerReturns
<1>6. CASE EngineStep
  <2>1. ASSUME NEW i \in Id, Skip(i) PROVE Persisting
    BY <1>2, <2>1 DEF Skip
  <2>2. ASSUME NEW i \in Id, Invoke(i) PROVE Persisting
    BY <1>2, <1>3, <2>2 DEF Invoke
  <2>3. ASSUME NEW i \in Id, InvokeHook(i) PROVE Persisting
    BY <1>3, <2>3 DEF InvokeHook
  <2>4. CASE CutShort \/ FireFlat \/ FireCapture \/ FireBubble \/ EndDispatch
    BY <1>2, <2>4 DEF CutShort, FireFlat, FireCapture, FireBubble, Fire, EndDispatch
  <2> QED BY <1>6, <2>1, <2>2, <2>3, <2>4 DEF EngineStep
<1> QED
  BY <1>5, <1>6 DEF EventNext

\* Registered before, if still registered.
LEMMA RegisteredBefore ==
  ASSUME EventInv, Persisting, NEW i \in Handed, Registered(i)'
  PROVE  Registered(i) /\ info'[i] = info[i]
BY InfoTypes DEF Persisting, Registered, Listed

\* A frame that does not change is still to come to whom it was.
LEMMA FrameStays ==
  ASSUME EventInv, Persisting, NEW f \in Frame, f.due \subseteq Handed,
         flags[f.event].stopNow => flags'[f.event].stopNow
  PROVE  /\ Awaits(f) => Awaits(f)'
         /\ f.event \in aborted => (Unhooks(f) => Unhooks(f)')
<1>1. ASSUME NEW i \in Handed
      PROVE  ToCome(f, i)' = ToCome(f, i)
  BY DEF Persisting, ToCome, Bubbles
<1>2. Awaits(f) => Awaits(f)'
  BY <1>1, RegisteredBefore DEF Awaits
<1>3. ASSUME f.event \in aborted, Unhooks(f)
      PROVE  Unhooks(f)'
  <2> SUFFICES ASSUME f.event \in Signal, f.at = 1, ~flags'[f.event].stopNow,
                      NEW i \in Page', info'[i].signal = f.event, i \in lists'[info'[i].target]
               PROVE  info'[i].hook \in f.queue
    BY DEF Unhooks
  <2>1. i \in Page /\ i \in Handed
    BY <1>3 DEF Persisting, Page, Handed
  <2>2. info'[i] = info[i] /\ i \in lists[info[i].target]
    BY <2>1, InfoTypes DEF Persisting
  <2> QED BY <1>3, <2>1, <2>2 DEF Unhooks
<1> QED
  BY <1>2, <1>3

\* What lies on the stack.
LEMMA StackFrames ==
  ASSUME EventInv
  PROVE  \A k \in DOMAIN stack : stack[k] \in Frame /\ stack[k].event \in Occurrence
<1>1. \A k \in DOMAIN stack : stack[k] \in Frame
  BY DEF EventInv, EventTypeOK
<1>2. \A f \in Frame : f.event \in Occurrence
  BY DEF Frame
<1> QED
  BY <1>1, <1>2

\* The flags of events change, and dispatches neither begin nor end.
LEMMA FlagsOnly ==
  ASSUME EventInv, Persisting, DispatchInv, UNCHANGED stack,
         \A e \in Occurrence : /\ flags'[e].dispatching = flags[e].dispatching
                               /\ flags[e].stopNow => flags'[e].stopNow
  PROVE  DispatchInv'
<1>1. \A k \in DOMAIN stack : stack[k] \in Frame /\ stack[k].event \in Occurrence
  BY StackFrames
<1>2. EventsApart'
  BY <1>1 DEF DispatchInv, EventsApart
<1>3. AbortFrames' /\ ShapesHold'
  BY DEF DispatchInv, AbortFrames, ShapesHold, Persisting
<1>4. ASSUME NEW k \in DOMAIN stack
      PROVE  Unhooks(stack[k])' /\ Awaits(stack[k])'
  <2>1. PICK f : f = stack[k]
    OBVIOUS
  <2>2. f \in Frame /\ f.due \subseteq Handed /\ f.event \in Occurrence
    BY <1>1, <2>1 DEF DispatchInv, ShapesHold
  <2>3. Unhooks(f) /\ Awaits(f)
    BY <2>1 DEF DispatchInv
  <2>4. Awaits(f)'
    BY <2>2, <2>3, FrameStays
  <2>5. Unhooks(f)'
    <3>1. CASE f.event \in Signal
      BY <2>1, <2>2, <2>3, <3>1, FrameStays DEF DispatchInv, AbortFrames
    <3>2. CASE f.event \notin Signal
      BY <3>2 DEF Unhooks
    <3> QED BY <3>1, <3>2
  <2>6. stack'[k] = f
    BY <2>1
  <2> QED BY <2>4, <2>5, <2>6 DEF Unhooks, Awaits, ToCome
<1> QED
  BY <1>2, <1>3, <1>4 DEF DispatchInv

\* The innermost dispatch goes on, and flags stay.
LEMMA TopGoesOn ==
  ASSUME EventInv, Persisting, DispatchInv, stack # <<>>, flags' = flags,
         NEW f \in Frame, TopIs(f),
         f.event = Top.event /\ f.path = Top.path /\ f.due = Top.due,
         f.pass = "flat" <=> Top.pass = "flat",
         Unhooks(f)', Awaits(f)'
  PROVE  DispatchInv'
<1>1. /\ Len(stack') = Len(stack) /\ DOMAIN stack' = DOMAIN stack /\ stack' \in Seq(Frame)
      /\ stack'[Len(stack)] = f /\ Top = stack[Len(stack)] /\ Len(stack) \in DOMAIN stack
      /\ \A k \in DOMAIN stack : k # Len(stack) => stack'[k] = stack[k]
  BY TopChanged, TopTypes
<1>2. \A k \in DOMAIN stack : /\ stack'[k].event = stack[k].event
                              /\ stack'[k].path = stack[k].path /\ stack'[k].due = stack[k].due
                              /\ stack'[k].pass = "flat" <=> stack[k].pass = "flat"
  BY <1>1
<1>3. EventsApart'
  BY <1>1, <1>2 DEF DispatchInv, EventsApart
<1>4. AbortFrames'
  <2> SUFFICES ASSUME NEW k \in DOMAIN stack, stack'[k].event \in Signal
               PROVE  /\ stack'[k].event \in aborted' /\ stack'[k].pass = "flat"
                      /\ stack'[k].path = <<Entered(stack'[k].event)>>
    BY <1>1 DEF AbortFrames
  <2> QED BY <1>2 DEF DispatchInv, AbortFrames, Persisting
<1>5. ShapesHold'
  BY <1>1, <1>2 DEF DispatchInv, ShapesHold, Persisting
<1>6. ASSUME NEW k \in DOMAIN stack
      PROVE  (Unhooks(stack[k]) /\ Awaits(stack[k]))'
  <2>1. CASE k = Len(stack)
    BY <1>1, <2>1 DEF Unhooks, Awaits, ToCome
  <2>2. CASE k # Len(stack)
    <3>1. PICK g : g = stack[k]
      OBVIOUS
    <3>2. g \in Frame /\ g.due \subseteq Handed /\ stack'[k] = g
      BY <1>1, <2>2, <3>1, StackFrames DEF DispatchInv, ShapesHold
    <3>3. Unhooks(g) /\ Awaits(g)
      BY <3>1 DEF DispatchInv
    <3>4. Awaits(g)'
      BY <3>2, <3>3, FrameStays
    <3>5. Unhooks(g)'
      <4>1. CASE g.event \in Signal
        BY <3>1, <3>2, <3>3, <4>1, FrameStays DEF DispatchInv, AbortFrames
      <4>2. CASE g.event \notin Signal
        BY <4>2 DEF Unhooks
      <4> QED BY <4>1, <4>2
    <3> QED BY <3>2, <3>4, <3>5 DEF Unhooks, Awaits, ToCome
  <2> QED BY <2>1, <2>2
<1> QED
  BY <1>1, <1>3, <1>4, <1>5, <1>6 DEF DispatchInv

\* The innermost dispatch, as it was.
LEMMA TopDispatch ==
  ASSUME EventInv, DispatchInv, stack # <<>>
  PROVE  /\ Top \in Frame /\ Top.due \subseteq Handed
         /\ Unhooks(Top) /\ Awaits(Top)
         /\ Top.event \in Signal => /\ Top.event \in aborted /\ Top.pass = "flat"
                                    /\ Top.path = <<Entered(Top.event)>>
         /\ Top.pass = "flat" => Len(Top.path) = 1
         /\ Top.path \in Seq([at : Target, adjusted : BOOLEAN])
         /\ Top.at \in 1..(Len(Top.path) + 1) /\ Top.path # <<>>
         /\ Top.pass \in {"capture", "bubble", "flat"}
<1>1. Top \in Frame /\ Top = stack[Len(stack)] /\ Len(stack) \in DOMAIN stack
  BY TopTypes
<1>2. PICK k \in DOMAIN stack : k = Len(stack) /\ Top = stack[k]
  BY <1>1
<1>3. /\ Top.due \subseteq Handed
      /\ Top.event \in Signal => /\ Top.event \in aborted /\ Top.pass = "flat"
                                 /\ Top.path = <<Entered(Top.event)>>
      /\ Top.pass = "flat" => Len(Top.path) = 1
      /\ Top.at \in 1..(Len(Top.path) + 1) /\ Top.path # <<>>
  BY <1>2 DEF DispatchInv, AbortFrames, ShapesHold, EventInv, FramesInOrder
<1>4. Unhooks(Top) /\ Awaits(Top)
  BY <1>2 DEF DispatchInv
<1>5. Top.path \in Seq([at : Target, adjusted : BOOLEAN]) /\ Top.pass \in {"capture", "bubble", "flat"}
  BY <1>1 DEF Frame
<1> QED
  BY <1>1, <1>3, <1>4, <1>5

\* A dispatch begins.
LEMMA BeginsToAwait ==
  ASSUME EventInv, Persisting, DispatchInv, NEW ev \in Occurrence, NEW t \in Target, Push(ev, t),
         flags' = [flags EXCEPT ![ev].dispatching = TRUE],
         ev \in Signal => ev \in aborted' /\ t = ev,
         \A k \in DOMAIN stack : stack[k].event # ev
  PROVE  DispatchInv'
<1>1. PICK path : path = Path(t, ev)
  OBVIOUS
<1>2. PICK pass : pass = FirstPass(t)
  OBVIOUS
<1>3. PICK due : due = Due(path, pass, ev)
  OBVIOUS
<1>4. PICK f : f = [event |-> ev, path |-> path, pass |-> pass, at |-> Len(path) + 1,
                    queue |-> {}, running |-> 0, due |-> due, called |-> {}]
  OBVIOUS
<1>5. /\ path \in Seq([at : Target, adjusted : BOOLEAN]) /\ path # <<>>
      /\ pass \in {"capture", "flat"} /\ due \subseteq Handed
  BY <1>1, <1>2, <1>3, PathTypes DEF FirstPass, Due, Handed, EventInv, EventTypeOK
<1>6. pass = "flat" => path = <<Entered(t)>>
  <2> SUFFICES ASSUME t \notin Node PROVE Path(t, ev) = <<Entered(t)>>
    BY <1>1, <1>2 DEF FirstPass
  <2>1. t # Host /\ t # ShadowRoot /\ t # Inner
    BY DEF Node
  <2> QED BY <2>1 DEF Path
<1>7. ev \in Signal => pass = "flat" /\ path = <<Entered(ev)>>
  BY <1>2, <1>6, EventAssumption DEF FirstPass, Node
<1>8. /\ f.event = ev /\ f.path = path /\ f.pass = pass /\ f.at = Len(path) + 1
      /\ f.queue = {} /\ f.due = due /\ f.called = {}
  BY <1>4
<1>9. /\ stack \in Seq(Frame) /\ Len(stack) \in Nat /\ stack' = Append(stack, f)
  BY <1>1, <1>2, <1>3, <1>4 DEF Push, EventInv, EventTypeOK
<1>10. /\ DOMAIN stack = 1..Len(stack) /\ DOMAIN stack' = 1..(Len(stack) + 1)
       /\ stack'[Len(stack) + 1] = f /\ \A k \in DOMAIN stack : stack'[k] = stack[k]
       /\ \A k \in DOMAIN stack' : k \in DOMAIN stack \/ k = Len(stack) + 1
  <2>1. stack' \in Seq(Frame) /\ Len(stack') = Len(stack) + 1
    BY FramePushed
  <2> QED BY <1>9, <2>1
<1>11. \A e \in Occurrence : /\ flags'[e].stopNow = flags[e].stopNow
                             /\ flags'[e].dispatching = (flags[e].dispatching \/ e = ev)
  BY DEF EventInv, EventTypeOK
<1>12. EventsApart'
  <2>1. \A k \in DOMAIN stack' : flags'[stack'[k].event].dispatching
    BY <1>8, <1>10, <1>11, StackFrames DEF DispatchInv, EventsApart
  <2>2. \A j, k \in DOMAIN stack' : stack'[j].event = stack'[k].event => j = k
    BY <1>8, <1>10 DEF DispatchInv, EventsApart
  <2> QED BY <2>1, <2>2 DEF EventsApart
<1>13. AbortFrames'
  BY <1>7, <1>8, <1>10 DEF DispatchInv, AbortFrames, Persisting
<1>14. ShapesHold'
  <2>1. pass = "flat" => Len(path) = 1
    BY <1>6
  <2> QED BY <1>5, <1>8, <1>10, <2>1 DEF DispatchInv, ShapesHold, Persisting
<1>15. Len(path) \in Nat \ {0} /\ DOMAIN path = 1..Len(path)
  BY <1>5
<1>16. Unhooks(f)'
  BY <1>8, <1>15 DEF Unhooks
<1>17. Awaits(f)'
  <2> SUFFICES ASSUME NEW i \in due, Registered(i)' PROVE ToCome(f, i)'
    BY <1>8 DEF Awaits
  <2>1. i \in Handed /\ info'[i] = info[i]
    BY <1>5, RegisteredBefore
  <2>2. PICK k \in DOMAIN path : /\ path[k].at = info[i].target
                                 /\ pass = "capture" /\ ~info[i].capture => Bubbles(path, k, ev)
    BY <1>3 DEF Due
  <2>3. pass = "flat" => f.at = 2
    <3> SUFFICES ASSUME pass = "flat" PROVE f.at = 2
      OBVIOUS
    <3>1. PICK n : n = Len(path)
      OBVIOUS
    <3>2. n = 1 /\ f.at = n + 1
      BY <1>6, <1>8, <3>1
    <3> QED BY <3>2
  <2>4. k < f.at
    BY <1>8, <1>15
  <2>5. Bubbles(path, k, ev)' = Bubbles(path, k, ev)
    BY DEF Bubbles, Persisting
  <2> QED BY <1>5, <1>8, <2>1, <2>2, <2>3, <2>4, <2>5 DEF ToCome
<1>18. ASSUME NEW k \in DOMAIN stack'
       PROVE  (Unhooks(stack[k]) /\ Awaits(stack[k]))'
  <2>1. CASE k = Len(stack) + 1
    BY <1>10, <1>16, <1>17, <2>1 DEF Unhooks, Awaits, ToCome
  <2>2. CASE k \in DOMAIN stack
    <3>1. PICK g : g = stack[k]
      OBVIOUS
    <3>2. g \in Frame /\ g.due \subseteq Handed /\ stack'[k] = g /\ g.event \in Occurrence
      BY <1>10, <2>2, <3>1, StackFrames DEF DispatchInv, ShapesHold
    <3>3. Unhooks(g) /\ Awaits(g)
      BY <2>2, <3>1 DEF DispatchInv
    <3>4. Awaits(g)'
      BY <1>11, <3>2, <3>3, FrameStays
    <3>5. Unhooks(g)'
      <4>1. CASE g.event \in Signal
        BY <1>11, <2>2, <3>1, <3>2, <3>3, <4>1, FrameStays DEF DispatchInv, AbortFrames
      <4>2. CASE g.event \notin Signal
        BY <4>2 DEF Unhooks
      <4> QED BY <4>1, <4>2
    <3> QED BY <3>2, <3>4, <3>5 DEF Unhooks, Awaits, ToCome
  <2> QED BY <1>10, <2>1, <2>2
<1> QED
  BY <1>12, <1>13, <1>14, <1>18 DEF DispatchInv

\* A dispatch ends: the flags of its event are cleared, of no other.
LEMMA EndsDispatch ==
  ASSUME EventInv, Persisting, DispatchInv, EndDispatch
  PROVE  DispatchInv'
<1>1. /\ stack # <<>> /\ stack' = SubSeq(stack, 1, Len(stack) - 1)
      /\ flags' = [flags EXCEPT ![Top.event] = Clean]
  BY DEF EndDispatch, Between
<1>2. stack \in Seq(Frame) /\ Len(stack) \in Nat \ {0} /\ DOMAIN stack = 1..Len(stack)
      /\ Top = stack[Len(stack)] /\ Len(stack) \in DOMAIN stack
  BY <1>1, TopTypes DEF EventInv, EventTypeOK
<1>3. /\ DOMAIN stack' = 1..(Len(stack) - 1)
      /\ \A k \in DOMAIN stack' : stack'[k] = stack[k] /\ k \in DOMAIN stack /\ k # Len(stack)
  BY <1>1, <1>2
<1>4. \A k \in DOMAIN stack' : /\ stack[k].event \in Occurrence /\ stack[k].event # Top.event
                               /\ flags'[stack[k].event] = flags[stack[k].event]
  <2>1. \A k \in DOMAIN stack' : stack[k].event \in Occurrence /\ stack[k].event # Top.event
    BY <1>2, <1>3, StackFrames DEF DispatchInv, EventsApart
  <2> QED BY <1>1, <2>1 DEF EventInv, EventTypeOK
<1>5. EventsApart'
  BY <1>3, <1>4 DEF DispatchInv, EventsApart
<1>6. AbortFrames' /\ ShapesHold'
  BY <1>3 DEF DispatchInv, AbortFrames, ShapesHold, Persisting
<1>7. ASSUME NEW k \in DOMAIN stack'
      PROVE  (Unhooks(stack[k]) /\ Awaits(stack[k]))'
  <2>1. PICK g : g = stack[k]
    OBVIOUS
  <2>2. g \in Frame /\ g.due \subseteq Handed /\ stack'[k] = g
        /\ flags'[g.event] = flags[g.event]
    BY <1>3, <1>4, <2>1, StackFrames DEF DispatchInv, ShapesHold
  <2>3. Unhooks(g) /\ Awaits(g)
    BY <1>3, <2>1 DEF DispatchInv
  <2>4. Awaits(g)'
    BY <2>2, <2>3, FrameStays
  <2>5. Unhooks(g)'
    <3>1. CASE g.event \in Signal
      BY <1>3, <2>1, <2>2, <2>3, <3>1, FrameStays DEF DispatchInv, AbortFrames
    <3>2. CASE g.event \notin Signal
      BY <3>2 DEF Unhooks
    <3> QED BY <3>1, <3>2
  <2> QED BY <2>2, <2>4, <2>5 DEF Unhooks, Awaits, ToCome
<1> QED
  BY <1>5, <1>6, <1>7 DEF DispatchInv

\* The listener of a hook that is passed over is not listed.
LEMMA PassedHooks ==
  ASSUME EventInv, ListInv, NEW i \in Page, info[i].signal \in Signal,
         i \in lists[info[i].target]
  PROVE  /\ info[i].hook \in Handed /\ info[i].hook \notin removed
         /\ info[info[i].hook].signal \notin Signal /\ info[info[i].hook].hooks = i
         /\ IsHook(info[i].hook)
<1> DEFINE h == info[i].hook
<1>1. i \in Handed /\ i # 0
  BY DEF Page, Handed
<1>2. h # 0 /\ h \in Handed /\ info[h].hooks = i
  BY <1>1 DEF ListInv, HooksAtSignals, EventInv, HooksNameBack
<1>3. info[h].hook = 0
  BY <1>1, <1>2 DEF ListInv, HooksAtSignals
<1>4. info[h].signal \notin Signal
  BY <1>2, <1>3 DEF ListInv, HooksAtSignals
<1>5. h \in lists[info[i].signal] /\ info[i].signal \in Target
  BY DEF ListInv, HooksOutlast, Target
<1>6. h \notin removed
  BY <1>4, <1>5 DEF ListInv, FlaggedAreAborted, EventInv, EventTypeOK
<1> QED
  BY <1>1, <1>2, <1>4, <1>6 DEF IsHook

\* The dispatch visits one listener of the list it copied.
LEMMA Visits ==
  ASSUME EventInv, ListInv, Persisting, DispatchInv, NEW i \in Id,
         Skip(i) \/ Invoke(i) \/ InvokeHook(i)
  PROVE  DispatchInv'
<1>1. /\ stack # <<>> /\ Top \in Frame /\ i \in Handed /\ i \in Top.queue /\ First(i)
      /\ UNCHANGED <<info, next>> /\ flags' = flags /\ Between
  BY FirstHanded DEF Skip, Invoke, InvokeHook, Between
<1>2. PICK f : /\ TopIs(f)
               /\ \/ f = [Top EXCEPT !.queue = Rest(i)]
                  \/ f = [Top EXCEPT !.queue = Rest(i), !.running = i, !.called = @ \cup {i}]
                  \/ f = [Top EXCEPT !.queue = Rest(i), !.called = @ \cup {i}]
  BY DEF Skip, Invoke, InvokeHook
<1>3. f \in Frame
  <2>1. Rest(i) \in SUBSET Id /\ 0 \in Nat /\ "flat" \in {"capture", "bubble", "flat"}
    BY <1>1 DEF Rest, Frame
  <2>2. /\ [Top EXCEPT !.queue = Rest(i)] \in Frame
        /\ [Top EXCEPT !.queue = Rest(i), !.called = @ \cup {i}] \in Frame
        /\ [Top EXCEPT !.queue = Rest(i), !.running = i, !.called = @ \cup {i}] \in Frame
    BY <1>1, <2>1, FrameFields
  <2> QED BY <1>2, <2>2
<1>4. /\ f.event = Top.event /\ f.path = Top.path /\ f.due = Top.due /\ f.pass = Top.pass
      /\ f.at = Top.at /\ f.queue = Top.queue \ {i} /\ Top.called \subseteq f.called
  BY <1>1, <1>2 DEF Frame, Rest
<1>5. i \in f.called \/ Skipped(i)
  <2>1. CASE Skip(i)
    BY <2>1 DEF Skip
  <2>2. CASE Invoke(i) \/ InvokeHook(i)
    <3>1. TopIs([Top EXCEPT !.queue = Rest(i), !.running = i, !.called = @ \cup {i}])
          \/ TopIs([Top EXCEPT !.queue = Rest(i), !.called = @ \cup {i}])
      BY <2>2 DEF Invoke, InvokeHook
    <3>2. stack'[Len(stack)] = f
      BY <1>1, <1>2, <1>3, TopChanged
    <3>3. f = [Top EXCEPT !.queue = Rest(i), !.running = i, !.called = @ \cup {i}]
          \/ f = [Top EXCEPT !.queue = Rest(i), !.called = @ \cup {i}]
      <4>1. Len(stack) \in DOMAIN stack
        BY <1>1, TopTypes
      <4> QED BY <3>1, <3>2, <4>1 DEF TopIs
    <3> QED BY <1>1, <3>3 DEF Frame
  <2> QED BY <2>1, <2>2
<1>6. Awaits(Top) /\ Unhooks(Top) /\ Top.due \subseteq Handed
      /\ (Top.event \in Signal => Top.event \in aborted /\ Top.pass = "flat")
  BY <1>1, TopDispatch
<1>7. Awaits(f)'
  <2> SUFFICES ASSUME ~flags[Top.event].stopNow, NEW j \in Top.due, Registered(j)', j \notin f.called
               PROVE  ToCome(f, j)'
    BY <1>1, <1>4 DEF Awaits
  <2>1. j \in Handed /\ Registered(j) /\ info'[j] = info[j]
    BY <1>6, RegisteredBefore
  <2>2. ToCome(Top, j)
    BY <1>4, <1>6, <2>1 DEF Awaits
  <2>3. ASSUME j = i
        PROVE  Top.pass # "flat" /\ info[j].capture # (Top.pass = "capture")
    BY <1>5, <2>1, <2>3 DEF Skipped, Registered, Listed
  <2>4. ToCome(f, j)
    BY <1>4, <2>2, <2>3 DEF ToCome
  <2> QED BY <2>1, <2>4 DEF ToCome, Bubbles, Persisting
<1>8. Unhooks(f)'
  <2> SUFFICES ASSUME f.event \in Signal, f.at = 1, ~flags[f.event].stopNow,
                      NEW j \in Page', info'[j].signal = f.event, j \in lists'[info'[j].target]
               PROVE  info'[j].hook \in f.queue
    BY <1>1 DEF Unhooks
  <2>1. j \in Page /\ info'[j] = info[j] /\ j \in Handed
    BY <1>1 DEF Page, IsHook, Handed
  <2>2. j \in lists[info[j].target]
    BY <2>1, InfoTypes DEF Persisting
  <2>3. info[j].hook \in Top.queue
    BY <1>4, <1>6, <2>1, <2>2 DEF Unhooks
  <2>4. ASSUME info[j].hook = i
        PROVE  FALSE
    <3>1. /\ i \notin removed /\ info[i].signal \notin Signal /\ info[i].hooks = j /\ IsHook(i)
          /\ Top.pass = "flat" /\ aborted \subseteq Signal
      BY <1>4, <1>6, <2>1, <2>2, <2>4, PassedHooks DEF EventInv, EventTypeOK
    <3>2. ~Skipped(i)
      BY <3>1 DEF Skipped
    <3>3. lists' = Dropped({j})
      BY <3>1, <3>2 DEF Skip, Invoke, InvokeHook
    <3>4. j \notin lists'[info[j].target]
      BY <2>1, <3>3, InfoTypes DEF Dropped, WithHook
    <3> QED BY <2>1, <3>4
  <2> QED BY <1>4, <2>1, <2>3, <2>4
<1> QED
  BY <1>1, <1>2, <1>3, <1>4, <1>7, <1>8, TopGoesOn

\* stopImmediatePropagation has dropped the rest of the list.
LEMMA CutsShort ==
  ASSUME EventInv, Persisting, DispatchInv, CutShort
  PROVE  DispatchInv'
<1>1. stack # <<>> /\ flags' = flags /\ flags[Top.event].stopNow
      /\ Top \in Frame
  BY TopTypes DEF CutShort, Between
<1>2. PICK f : TopIs(f) /\ f = [Top EXCEPT !.queue = {}]
  BY DEF CutShort
<1>3. /\ f \in Frame /\ f.event = Top.event /\ f.path = Top.path /\ f.due = Top.due
      /\ f.pass = Top.pass
  BY <1>1, <1>2 DEF Frame
<1>4. Awaits(f)' /\ Unhooks(f)'
  BY <1>1, <1>3 DEF Awaits, Unhooks
<1> QED
  BY <1>1, <1>2, <1>3, <1>4, TopGoesOn

\* The running listener returns.
LEMMA Returns ==
  ASSUME EventInv, Persisting, DispatchInv, ListenerReturns
  PROVE  DispatchInv'
<1>1. stack # <<>> /\ flags' = flags /\ Top \in Frame /\ 0 \in 0..MaxId
  BY TopTypes, EventAssumption DEF ListenerReturns
<1>2. PICK f : TopIs(f) /\ f = [Top EXCEPT !.running = 0]
  BY DEF ListenerReturns
<1>3. /\ f \in Frame /\ f.event = Top.event /\ f.path = Top.path /\ f.due = Top.due
      /\ f.pass = Top.pass /\ f.at = Top.at /\ f.queue = Top.queue /\ f.called = Top.called
  BY <1>1, <1>2 DEF Frame
<1>4. Awaits(Top) /\ Unhooks(Top) /\ Top.due \subseteq Handed /\ (Top.event \in Signal => Top.event \in aborted)
  BY <1>1, TopDispatch
<1>5. Awaits(f) /\ Unhooks(f)
  BY <1>3, <1>4 DEF Awaits, Unhooks, ToCome
<1>6. Awaits(f)'
  BY <1>1, <1>3, <1>4, <1>5, FrameStays
<1>7. Unhooks(f)'
  <2>1. CASE f.event \in Signal
    BY <1>1, <1>3, <1>4, <1>5, <2>1, FrameStays
  <2>2. CASE f.event \notin Signal
    BY <2>2 DEF Unhooks
  <2> QED BY <2>1, <2>2
<1> QED
  BY <1>1, <1>2, <1>3, <1>6, <1>7, TopGoesOn

\* Going on to the next entry of the path passes over nobody.
LEMMA GoesOn ==
  ASSUME EventInv, ListInv, Persisting, DispatchInv, stack # <<>>,
         FireFlat \/ FireCapture \/ FireBubble
  PROVE  DispatchInv'
<1>1. /\ Top \in Frame /\ Top.due \subseteq Handed /\ Awaits(Top)
      /\ Top.event \in Signal => Top.pass = "flat" /\ Top.path = <<Entered(Top.event)>>
      /\ Top.pass = "flat" => Len(Top.path) = 1
      /\ Top.path \in Seq([at : Target, adjusted : BOOLEAN])
      /\ Top.at \in 1..(Len(Top.path) + 1)
      /\ Top.pass \in {"capture", "bubble", "flat"}
  BY TopDispatch
<1>2. Len(Top.path) \in Nat /\ DOMAIN Top.path = 1..Len(Top.path) /\ Top.at \in Nat
  BY <1>1
<1>3. PICK k, pass :
        /\ Fire(k, pass) /\ k \in DOMAIN Top.path
        /\ \/ Top.pass = "flat" /\ Top.at = 2 /\ k = 1 /\ pass = "flat"
           \/ Top.pass = "capture" /\ pass = "capture" /\ k = Top.at - 1
           \/ /\ Captured /\ pass = "bubble"
              /\ k \in NextBubble /\ \A j \in NextBubble : k <= j
  <2>1. CASE FireFlat
    <3>1. Fire(1, "flat") /\ Top.pass = "flat" /\ Top.at = 2 /\ 1 \in DOMAIN Top.path
      BY <1>1, <1>2, <2>1 DEF FireFlat
    <3> QED BY <3>1
  <2>2. CASE FireCapture
    <3>1. Fire(Top.at - 1, "capture") /\ Top.pass = "capture" /\ Top.at - 1 \in DOMAIN Top.path
      BY <1>1, <1>2, <2>2 DEF FireCapture
    <3> QED BY <3>1
  <2>3. CASE FireBubble
    <3>1. PICK j \in NextBubble : (\A m \in NextBubble : j <= m) /\ Fire(j, "bubble")
      BY <2>3 DEF FireBubble
    <3>2. j \in DOMAIN Top.path
      BY <1>1, <1>2 DEF NextBubble
    <3> QED BY <2>3, <3>1, <3>2 DEF FireBubble
  <2> QED BY <2>1, <2>2, <2>3
<1>4. PICK q : q = lists[Top.path[k].at]
  OBVIOUS
<1>5. PICK f : TopIs(f) /\ f = [Top EXCEPT !.at = k, !.pass = pass, !.queue = q]
  BY <1>3, <1>4 DEF Fire
<1>6. Top.path[k].at \in Target
  <2> DEFINE E == [at : Target, adjusted : BOOLEAN]
             path == Top.path
  <2>1. path \in Seq(E) /\ k \in DOMAIN path
    BY <1>1, <1>3
  <2> HIDE DEF E, path
  <2>2. path[k] \in E
    BY <2>1
  <2> QED BY <2>2 DEF E, path
<1>7. /\ q \in SUBSET Id /\ k \in Nat /\ pass \in {"capture", "bubble", "flat"}
      /\ pass = "flat" <=> Top.pass = "flat"
  BY <1>1, <1>2, <1>3, <1>4, <1>6 DEF EventInv, EventTypeOK, Captured
<1>8. /\ f \in Frame /\ f.event = Top.event /\ f.path = Top.path /\ f.due = Top.due
      /\ f.pass = pass /\ f.at = k /\ f.queue = q /\ f.called = Top.called
  BY <1>1, <1>5, <1>7 DEF Frame
<1>9. /\ UNCHANGED <<info, next, lists, flags, removed, aborted>> /\ Top.queue = {}
      /\ bubbling' = bubbling
  BY <1>3 DEF Fire, made
<1>10. ASSUME ~flags[f.event].stopNow, NEW i \in f.due, Registered(i), i \notin f.called
       PROVE  ToCome(f, i)
  <2>1. ToCome(Top, i) /\ info[i].target \in Target
    BY <1>1, <1>8, <1>10, InfoTypes DEF Awaits
  <2>2. PICK j \in DOMAIN Top.path :
          /\ Top.path[j].at = info[i].target
          /\ \/ Top.pass = "flat" /\ Top.at = 2
             \/ Top.pass = "capture" /\ info[i].capture /\ j < Top.at
             \/ Top.pass = "capture" /\ ~info[i].capture /\ Bubbles(Top.path, j, Top.event)
             \/ Top.pass = "bubble" /\ ~info[i].capture /\ Top.at < j
                /\ Bubbles(Top.path, j, Top.event)
    BY <1>9, <2>1 DEF ToCome
  <2>3. j = k => i \in q
    BY <1>4, <1>10, <2>2 DEF Registered, Listed
  <2>4. CASE Top.pass = "flat"
    <3>1. k = 1 /\ pass = "flat"
      BY <1>3, <2>4 DEF Captured
    <3>2. DOMAIN Top.path = 1..1
      BY <1>1, <1>2, <2>4
    <3>3. j = k
      BY <3>1, <3>2
    <3> QED BY <1>8, <2>3, <3>1, <3>3 DEF ToCome
  <2>5. CASE Top.pass = "capture" /\ pass = "capture"
    <3>1. k = Top.at - 1
      BY <1>3, <2>5
    <3>2. info[i].capture => j < k \/ j = k
      BY <1>2, <2>2, <2>5, <3>1
    <3>3. CASE info[i].capture /\ j = k
      BY <1>8, <2>3, <2>5, <3>3 DEF ToCome
    <3>4. CASE info[i].capture /\ j < k
      BY <1>8, <2>2, <2>5, <3>4 DEF ToCome
    <3>5. CASE ~info[i].capture
      BY <1>8, <2>2, <2>5, <3>5 DEF ToCome
    <3> QED BY <3>2, <3>3, <3>4, <3>5
  <2>6. CASE pass = "bubble"
    <3>1. Captured /\ k \in NextBubble /\ \A m \in NextBubble : k <= m
      BY <1>3, <2>6
    <3>2. Top.pass = "bubble" \/ (Top.pass = "capture" /\ Top.at = 1)
      BY <3>1 DEF Captured
    <3>3. ~info[i].capture /\ Bubbles(Top.path, j, Top.event)
          /\ (Top.pass = "bubble" => Top.at < j)
      BY <1>2, <2>2, <3>2
    <3>4. j \in NextBubble
      BY <1>2, <2>2, <3>2, <3>3 DEF NextBubble
    <3>5. k < j \/ k = j
      BY <1>2, <1>7, <3>1, <3>4
    <3>6. CASE k = j
      <4>1. i \in f.queue /\ f.pass = "bubble" /\ info[i].capture = FALSE
        BY <1>8, <2>3, <2>6, <3>3, <3>6, <1>1, InfoTypes
      <4> QED BY <4>1 DEF ToCome
    <3>7. CASE k < j
      BY <1>8, <2>2, <2>6, <3>3, <3>7 DEF ToCome
    <3> QED BY <3>5, <3>6, <3>7
  <2> QED BY <1>3, <2>4, <2>5, <2>6
<1>11. Awaits(f)'
  <2>1. Awaits(f)
    BY <1>10 DEF Awaits
  <2> QED BY <1>1, <1>8, <1>9, <2>1, FrameStays
<1>12. Unhooks(f)'
  <2> SUFFICES ASSUME f.event \in Signal, NEW i \in Page, info[i].signal = f.event,
                      i \in lists[info[i].target]
               PROVE  info[i].hook \in q
    BY <1>8, <1>9 DEF Unhooks, Page, IsHook
  <2>1. Top.path = <<Entered(f.event)>> /\ Top.pass = "flat"
    BY <1>1, <1>8
  <2>2. k = 1
    BY <1>3, <2>1 DEF Captured
  <2>3. Top.path[k].at = f.event
    BY <2>1, <2>2 DEF Entered
  <2> QED BY <1>4, <2>3 DEF ListInv, HooksOutlast
<1> QED
  BY <1>5, <1>7, <1>8, <1>9, <1>11, <1>12, TopGoesOn

\* Every step keeps what dispatches have to do.
LEMMA DispatchesKeep ==
  ASSUME EventInv, ListInv, DispatchInv, [EventNext]_eventVars
  PROVE  DispatchInv'
<1>1. CASE UNCHANGED eventVars
  BY <1>1 DEF eventVars, made, DispatchInv, EventsApart, AbortFrames, ShapesHold, Handed, Unhooks,
              Awaits, ToCome, Bubbles, Registered, Listed, Page, IsHook
<1> SUFFICES ASSUME EventNext PROVE DispatchInv'
  BY <1>1
<1>2. Persisting
  BY StepsPersist
<1>3. ASSUME UNCHANGED <<stack, flags>>
      PROVE  DispatchInv'
  BY <1>2, <1>3, FlagsOnly
<1>4. ASSUME NEW ev \in Occurrence, NEW now \in BOOLEAN, Stop(ev, now)
      PROVE  DispatchInv'
  <2>1. \A e \in Occurrence : /\ flags'[e].dispatching = flags[e].dispatching
                              /\ flags[e].stopNow => flags'[e].stopNow
    BY <1>4 DEF Stop, EventInv, EventTypeOK
  <2> QED BY <1>2, <1>4, <2>1, FlagsOnly DEF Stop
<1>5. ASSUME NEW ev \in Event, NEW t \in DispatchedAt, Dispatch(ev, t)
      PROVE  DispatchInv'
  <2>1. ev \in Occurrence /\ t \in Target /\ ev \notin Signal
    BY EventAssumption DEF Occurrence
  <2>2. \A k \in DOMAIN stack : stack[k].event # ev
    BY <1>5 DEF Dispatch, DispatchInv, EventsApart
  <2> QED BY <1>2, <1>5, <2>1, <2>2, BeginsToAwait DEF Dispatch
<1>6. ASSUME NEW s \in Signal, Abort(s)
      PROVE  DispatchInv'
  <2>1. s \in Occurrence /\ s \in Target /\ s \in aborted'
    BY <1>6 DEF Occurrence, Target, Abort
  <2>2. \A k \in DOMAIN stack : stack[k].event # s
    BY <1>6 DEF Abort, DispatchInv, AbortFrames
  <2> QED BY <1>2, <1>6, <2>1, <2>2, BeginsToAwait DEF Abort
<1>7. CASE ScriptStep
  BY <1>2, <1>3, <1>4, <1>5, <1>6, <1>7, Returns DEF ScriptStep, Listen, Unlisten, Move
<1>8. CASE EngineStep
  BY <1>2, <1>8, Visits, CutsShort, GoesOn, EndsDispatch DEF EngineStep
<1> QED
  BY <1>7, <1>8 DEF EventNext

DispatchFacts == EventInv /\ ListInv /\ DispatchInv

(* Lists, flags, hooks and what every dispatch still has to visit fit        *)
(* together, whatever listeners do.                                          *)
THEOREM DispatchInvariant == EventSpec => []DispatchFacts
<1>1. EventInit => ListInv /\ DispatchInv
  <2> SUFFICES ASSUME EventInit PROVE ListInv /\ DispatchInv
    OBVIOUS
  <2>1. Handed = {} /\ Page = {} /\ DOMAIN stack = {}
    BY DEF EventInit, Handed, Page
  <2> QED
    BY <2>1 DEF EventInit, ListInv, HooksAtSignals, FlaggedAreAborted, HooksOutlast, SubscriptionsAgree,
                DispatchInv, EventsApart, AbortFrames, ShapesHold
<1>2. EventInv /\ ListInv /\ DispatchInv /\ [EventNext]_eventVars => ListInv' /\ DispatchInv'
  BY ListsKeep, DispatchesKeep
<1> QED
  BY <1>1, <1>2, EventInvariant, PTL DEF EventSpec, DispatchFacts

(* A listener is listed exactly as long as its signal has its hook, whether  *)
(* it is removed by the page, by running once, or by the hook.               *)
THEOREM SubscriptionsStayAgreed == EventSpec => []SubscriptionsAgree
<1>1. DispatchFacts => SubscriptionsAgree
  BY DEF DispatchFacts, ListInv
<1> QED
  BY <1>1, DispatchInvariant, PTL

\* A step keeps EventInv.
LEMMA EventStep == EventInv /\ EventNext => EventInv'
BY ScriptKeeps, EngineKeeps DEF EventNext

\* How a dispatch ends.
LEMMA Ends ==
  ASSUME DispatchFacts, EndDispatch
  PROVE  /\ stack # <<>> /\ Top.queue = {} /\ AtEnd /\ Top \in Frame
         /\ \A e \in Occurrence : flags[e].dispatching /\ ~flags'[e].dispatching => e = Top.event
BY TopTypes DEF DispatchFacts, EndDispatch, Between, EventInv, EventTypeOK

\* Nothing else ends one.
LEMMA OnlyEndsEnd ==
  ASSUME DispatchFacts, EventNext
  PROVE  \/ EndDispatch
         \/ /\ Len(stack') >= Len(stack)
            /\ \A e \in Occurrence : flags[e].dispatching => flags'[e].dispatching
<1>1. stack \in Seq(Frame) /\ Len(stack) \in Nat
      /\ flags \in [Occurrence -> [dispatching : BOOLEAN, stop : BOOLEAN, stopNow : BOOLEAN]]
  BY DEF DispatchFacts, EventInv, EventTypeOK
<1>2. \A f : TopIs(f) => Len(stack') = Len(stack)
  BY <1>1 DEF TopIs
<1>3. \A ev, t : Push(ev, t) => Len(stack') >= Len(stack)
  <2> SUFFICES ASSUME NEW ev, NEW t, Push(ev, t) PROVE Len(stack') >= Len(stack)
    OBVIOUS
  <2>1. PICK f : stack' = Append(stack, f)
    BY DEF Push
  <2>2. Len(stack') = Len(stack) + 1
    BY <1>1, <2>1
  <2> QED BY <1>1, <2>2
<1>4. CASE ScriptStep
  <2>1. ASSUME NEW ev, NEW t, Push(ev, t), flags' = [flags EXCEPT ![ev].dispatching = TRUE]
        PROVE  /\ Len(stack') >= Len(stack)
               /\ \A e \in Occurrence : flags[e].dispatching => flags'[e].dispatching
    BY <1>1, <1>3, <2>1
  <2>2. ASSUME NEW ev, NEW now, Stop(ev, now)
        PROVE  /\ Len(stack') >= Len(stack)
               /\ \A e \in Occurrence : flags[e].dispatching => flags'[e].dispatching
    BY <1>1, <2>2 DEF Stop
  <2>3. ASSUME UNCHANGED <<flags, stack>>
        PROVE  /\ Len(stack') >= Len(stack)
               /\ \A e \in Occurrence : flags[e].dispatching => flags'[e].dispatching
    BY <1>1, <2>3
  <2>4. ASSUME ListenerReturns
        PROVE  /\ Len(stack') >= Len(stack)
               /\ \A e \in Occurrence : flags[e].dispatching => flags'[e].dispatching
    BY <1>1, <1>2, <2>4 DEF ListenerReturns
  <2> QED BY <1>4, <2>1, <2>2, <2>3, <2>4 DEF ScriptStep, Listen, Unlisten, Dispatch, Abort, Move
<1>5. CASE EngineStep /\ ~EndDispatch
  <2>1. flags' = flags /\ \E f : TopIs(f)
    BY <1>5 DEF EngineStep, Skip, Invoke, InvokeHook, CutShort, FireFlat, FireCapture, FireBubble, Fire
  <2> QED BY <1>1, <1>2, <2>1
<1> QED
  BY <1>4, <1>5 DEF EventNext, EngineStep

(* A dispatch nobody stopped has called everyone on its path who was         *)
(* registered from the beginning and still is: neither the copies of lists,  *)
(* nor the order of the passes, nor nested dispatches skip anybody.          *)
THEOREM NobodyIsPassedOver == EventSpec => EveryoneIsCalled
<1>1. ASSUME DispatchFacts, EventNext, Len(stack') < Len(stack), ~Stopped,
             ~flags[Top.event].stopNow, NEW i \in Top.due, Registered(i)
      PROVE  i \in Top.called
  <2>1. EndDispatch
    <3>1. stack \in Seq(Frame) /\ stack' \in Seq(Frame)
      BY <1>1, EventStep DEF DispatchFacts, EventInv, EventTypeOK
    <3>2. Len(stack) \in Nat /\ Len(stack') \in Nat
      BY <3>1
    <3> QED BY <1>1, <3>2, OnlyEndsEnd
  <2>2. Top.queue = {} /\ AtEnd /\ Top \in Frame /\ stack # <<>>
    BY <1>1, <2>1, Ends
  <2>3. /\ Awaits(Top) /\ Top.due \subseteq Handed /\ (Top.pass = "flat" => Len(Top.path) = 1)
        /\ Top.path \in Seq([at : Target, adjusted : BOOLEAN])
        /\ Top.at \in 1..(Len(Top.path) + 1) /\ Top.pass \in {"capture", "bubble", "flat"}
    BY <1>1, <2>2, TopDispatch DEF DispatchFacts
  <2>4. Len(Top.path) \in Nat /\ DOMAIN Top.path = 1..Len(Top.path) /\ Top.at \in Nat
    BY <2>3
  <2>5. SUFFICES ASSUME ToCome(Top, i) PROVE FALSE
    BY <1>1, <2>3 DEF Awaits
  <2>6. PICK k \in DOMAIN Top.path :
          \/ Top.pass = "flat" /\ Top.at = 2
          \/ Top.pass = "capture" /\ k < Top.at /\ info[i].capture
          \/ Top.pass = "capture" /\ Bubbles(Top.path, k, Top.event)
          \/ Top.pass = "bubble" /\ Top.at < k /\ Bubbles(Top.path, k, Top.event)
    BY <2>2, <2>5 DEF ToCome
  <2>7. CASE Top.pass = "flat"
    BY <1>1, <2>2, <2>6, <2>7 DEF AtEnd, Captured
  <2>8. CASE Top.pass # "flat"
    <3>1. Captured /\ NextBubble = {}
      BY <1>1, <2>2, <2>8 DEF AtEnd
    <3>2. k \in NextBubble
      BY <2>4, <2>6, <2>8, <3>1 DEF Captured, NextBubble
    <3> QED BY <3>1, <3>2
  <2> QED BY <2>7, <2>8
<1>2. DispatchFacts /\ [EventNext]_eventVars =>
        [Len(stack') < Len(stack) /\ ~Stopped /\ ~flags[Top.event].stopNow =>
           \A i \in Top.due : Registered(i) => i \in Top.called]_eventVars
  BY <1>1
<1> QED
  BY <1>2, DispatchInvariant, PTL DEF EventSpec, EveryoneIsCalled

(* Once an abort event has gone through, nothing listens under its signal:   *)
(* no listener was registered without its hook, and no hook was passed over. *)
THEOREM AbortsComplete == EventSpec => AbortCompletes
<1>1. ASSUME DispatchFacts, EventNext, NEW s \in Signal, flags[s].dispatching,
             ~flags'[s].dispatching, ~flags[s].stopNow, NEW i \in Page, info[i].signal = s,
             i \in lists[info[i].target]
      PROVE  FALSE
  <2>1. s \in Occurrence
    BY DEF Occurrence
  <2>2. EndDispatch
    BY <1>1, <2>1, OnlyEndsEnd
  <2>3. stack # <<>> /\ Top.queue = {} /\ AtEnd /\ Top.event = s
    BY <1>1, <2>1, <2>2, Ends
  <2>4. Top.pass = "flat" /\ Unhooks(Top)
    BY <1>1, <2>3, TopDispatch DEF DispatchFacts
  <2>5. Top.at = 1
    BY <2>3, <2>4 DEF AtEnd, Captured
  <2> QED BY <1>1, <2>3, <2>4, <2>5 DEF Unhooks
<1>2. DispatchFacts /\ [EventNext]_eventVars =>
        [\A s \in Signal :
           flags[s].dispatching /\ ~flags'[s].dispatching /\ ~flags[s].stopNow =>
             \A i \in Page : info[i].signal = s => i \notin lists[info[i].target]]_eventVars
  BY <1>1
<1> QED
  BY <1>2, DispatchInvariant, PTL DEF EventSpec, AbortCompletes

=============================================================================
