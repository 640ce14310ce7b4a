---------------------------- MODULE ObserverProofs ----------------------------
(***************************************************************************)
(* Proofs about MutationObservers, for any nodes, observers, tree and        *)
(* bound, with or without a consumer.                                        *)
(***************************************************************************)
EXTENDS MutationObservers, TLAPS

(* The shape of the observers' state; what is in a record does not matter.  *)
Shape ==
  /\ watching \in [Observer -> [Node -> {"no", "target", "subtree", "data"}]]
  /\ transients = [o \in Observer |-> transients[o]]
  /\ anchors \in [Node -> SUBSET Observer]
  /\ queue = [o \in Observer |-> queue[o]]
  /\ pending \subseteq Observer /\ delivering \subseteq Observer

ObserverInv == Shape /\ NothingForgotten /\ ObserversAreKept /\ NoStaleAnchor

observerVars == <<observers, queue, pending, delivering>>
-----------------------------------------------------------------------------
(* The steps that concern the tree alone.                                   *)
LEMMA TreeStepsUnobserved ==
  ASSUME \/ StartTask \/ Return \/ Insert \/ UNCHANGED vars
         \/ \E n \in Texts : SetData(n)
         \/ \E n \in Node : RemoveChild(n)
         \/ \E p, c \in Node : AppendChild(p, c)
         \/ \E a, b \in Texts : Normalize(a, b)
  PROVE  UNCHANGED observerVars
BY DEF StartTask, Return, Insert, SetData, RemoveChild, AppendChild, Normalize,
       Mutate, vars, observerVars, observers

LEMMA UnobservedKeepsInv ==
  ASSUME ObserverInv, UNCHANGED observerVars
  PROVE  ObserverInv'
BY DEF ObserverInv, observerVars, observers, Shape, NothingForgotten,
       ObserversAreKept, NoStaleAnchor, Scheduled, Targets

(* What one event does: whoever gets a record or a transient is scheduled,  *)
(* and transients are only added.                                           *)
LEMMA FanoutSchedules ==
  ASSUME NEW st, NEW event, NEW o \in Observer
  PROVE  /\ Fanout(st, event).transients[o] =
              st.transients[o] \cup [target : event.removed, source : Sources(st, o, event)]
         /\ Fanout(st, event).queue[o] # st.queue[o] => o \in Fanout(st, event).pending
         /\ Sources(st, o, event) # {} => o \in Fanout(st, event).pending
         /\ st.pending \subseteq Fanout(st, event).pending
BY DEF Fanout, ScheduledBy

LEMMA DeliverKeepsInv ==
  ASSUME ObserverInv, Deliver
  PROVE  ObserverInv'
<1>1. PICK event : 
        /\ transients' = Fanout(Now, event).transients
        /\ queue' = Fanout(Now, event).queue
        /\ pending' = Fanout(Now, event).pending
        /\ anchors' = [m \in Node |->
                         IF m \in event.removed
                         THEN anchors[m] \cup {o \in Observer : Sources(Now, o, event) # {}}
                         ELSE anchors[m]]
  BY DEF Deliver
<1>2. watching' = watching /\ delivering' = delivering
  BY DEF Deliver
<1>3. Now.transients = transients /\ Now.queue = queue /\ Now.pending = pending
  BY DEF Now
<1>4. /\ transients' = [o \in Observer |-> transients'[o]]
      /\ queue' = [o \in Observer |-> queue'[o]]
      /\ pending' \subseteq Observer
  <2> DEFINE st == Now
  <2>1. transients' = [o \in Observer |->
            Now.transients[o] \cup [target : event.removed, source : Sources(Now, o, event)]]
    BY <1>1 DEF Fanout
  <2>2. queue' = [o \in Observer |->
            IF Matching(Now, o, event) THEN Append(Now.queue[o], event.id) ELSE Now.queue[o]]
    BY <1>1 DEF Fanout
  <2>3. pending' = pending \cup {o \in Observer : Matching(Now, o, event) \/ Sources(Now, o, event) # {}}
    BY <1>1, <1>3 DEF Fanout, ScheduledBy
  <2> QED
    BY <2>1, <2>2, <2>3 DEF ObserverInv, Shape
<1>5. Shape'
  BY <1>1, <1>2, <1>4 DEF ObserverInv, Shape
<1>6. \A o \in Observer :
        /\ transients[o] \subseteq transients'[o]
        /\ Scheduled(o) => Scheduled(o)'
        /\ queue'[o] # queue[o] \/ Sources(Now, o, event) # {} => Scheduled(o)'
        /\ Sources(Now, o, event) = {} => transients'[o] = transients[o]
        /\ \A m \in event.removed :
             Sources(Now, o, event) # {} => m \in Targets(transients'[o])
  <2>1. SUFFICES ASSUME NEW o \in Observer
        PROVE
          /\ transients[o] \subseteq transients'[o]
          /\ Scheduled(o) => Scheduled(o)'
          /\ queue'[o] # queue[o] \/ Sources(Now, o, event) # {} => Scheduled(o)'
          /\ Sources(Now, o, event) = {} => transients'[o] = transients[o]
          /\ \A m \in event.removed :
               Sources(Now, o, event) # {} => m \in Targets(transients'[o])
    OBVIOUS
  <2>2. transients'[o] = transients[o] \cup
          [target : event.removed, source : Sources(Now, o, event)]
    BY <1>1, <1>3, FanoutSchedules
  <2>3. /\ queue'[o] # queue[o] => o \in pending'
        /\ Sources(Now, o, event) # {} => o \in pending'
        /\ pending \subseteq pending'
    BY <1>1, <1>3, FanoutSchedules
  <2>4. Sources(Now, o, event) = {} =>
          [target : event.removed, source : Sources(Now, o, event)] = {}
    OBVIOUS
  <2>5. ASSUME NEW m \in event.removed, NEW s \in Sources(Now, o, event)
        PROVE  m \in Targets(transients'[o])
    <3>1. [target |-> m, source |-> s] \in transients'[o]
      BY <2>2, <2>5
    <3> QED
      BY <3>1 DEF Targets
  <2> QED
    BY <1>2, <2>2, <2>3, <2>4, <2>5 DEF Scheduled
<1>7. NothingForgotten'
  BY <1>6 DEF ObserverInv, NothingForgotten
<1>8. ObserversAreKept'
  BY <1>1, <1>2, <1>6 DEF ObserverInv, ObserversAreKept
<1>9. NoStaleAnchor'
  <2>1. SUFFICES ASSUME NEW n \in Node, NEW o \in anchors'[n]
                 PROVE  watching'[o][n] # "no" \/ n \in Targets(transients'[o])
    BY DEF NoStaleAnchor
  <2>2. CASE o \in anchors[n]
    <3>1. o \in Observer
      BY <2>2 DEF ObserverInv, Shape
    <3> QED
      BY <1>2, <1>6, <2>2, <3>1 DEF ObserverInv, NoStaleAnchor, Targets
  <2>3. CASE o \notin anchors[n]
    BY <1>1, <1>6, <2>1, <2>3
  <2> QED
    BY <2>2, <2>3
<1> QED
  BY <1>5, <1>7, <1>8, <1>9 DEF ObserverInv

-----------------------------------------------------------------------------
(* The observer's methods, and its notification.                            *)
LEMMA ObserveKeepsInv ==
  ASSUME ObserverInv, NEW o \in Observer, NEW n \in Node,
         NEW options \in {"target", "subtree", "data"}, Observe(o, n, options)
  PROVE  ObserverInv'
<1> DEFINE gone == {row \in transients[o] : row.source = n}
<1>1. /\ transients' = [transients EXCEPT ![o] = @ \ gone]
      /\ anchors' = [m \in Node |->
                       IF m = n \/ m \in Targets(transients[o] \ gone) THEN anchors[m] \cup {o}
                       ELSE IF m \in Targets(gone) THEN anchors[m] \ {o}
                       ELSE anchors[m]]
      /\ watching' = [watching EXCEPT ![o][n] = options]
      /\ UNCHANGED <<queue, pending, delivering>>
  BY DEF Observe
<1> HIDE DEF gone
<1>2. gone \subseteq transients[o] /\ (gone # {} => Scheduled(o))
  BY DEF gone, ObserverInv, NothingForgotten
<1>3. Shape'
  BY <1>1 DEF ObserverInv, Shape
<1>4. /\ transients'[o] = transients[o] \ gone
      /\ \A p \in Observer \ {o} : transients'[p] = transients[p]
      /\ \A p \in Observer : Scheduled(p)' = Scheduled(p)
  BY <1>1 DEF ObserverInv, Shape, Scheduled
<1>5. NothingForgotten'
  BY <1>1, <1>4 DEF ObserverInv, NothingForgotten
<1>6. ObserversAreKept'
  <2>1. SUFFICES ASSUME NEW p \in Observer, NEW m \in Node, watching'[p][m] # "no"
                 PROVE  p \in anchors'[m] \/ Scheduled(p)
    BY <1>4 DEF ObserversAreKept
  <2>2. CASE p = o /\ m = n
    BY <1>1, <2>2
  <2>3. CASE ~(p = o /\ m = n)
    <3>1. watching'[p][m] = watching[p][m]
      BY <1>1, <2>3 DEF ObserverInv, Shape
    <3>2. p \in anchors[m] \/ Scheduled(p)
      BY <2>1, <3>1 DEF ObserverInv, ObserversAreKept
    <3>3. m \in Targets(gone) => Scheduled(o)
      BY <1>2 DEF Targets
    <3> QED
      BY <1>1, <3>2, <3>3
  <2> QED
    BY <2>2, <2>3
<1>7. NoStaleAnchor'
  <2>1. SUFFICES ASSUME NEW m \in Node, NEW p \in anchors'[m]
                 PROVE  watching'[p][m] # "no" \/ m \in Targets(transients'[p])
    BY DEF NoStaleAnchor
  <2>2. p \in Observer
    BY <1>3, <2>1 DEF Shape
  <2>3. CASE p # o
    <3>1. p \in anchors[m] /\ watching'[p] = watching[p] /\ transients'[p] = transients[p]
      BY <1>1, <1>4, <2>1, <2>2, <2>3 DEF ObserverInv, Shape
    <3> QED
      BY <3>1 DEF ObserverInv, NoStaleAnchor
  <2>4. CASE p = o /\ m = n
    <3>1. watching'[o][n] = options
      BY <1>1 DEF ObserverInv, Shape
    <3> QED
      BY <2>4, <3>1
  <2>5. CASE p = o /\ m # n
    <3>1. watching'[o][m] = watching[o][m]
      BY <1>1, <2>5 DEF ObserverInv, Shape
    <3>2. CASE m \in Targets(transients[o] \ gone)
      BY <1>4, <2>5, <3>2
    <3>3. CASE m \notin Targets(transients[o] \ gone)
      <4>1. m \notin Targets(gone) /\ o \in anchors[m]
        BY <1>1, <2>1, <2>5, <3>3
      <4>2. m \notin Targets(transients[o])
        BY <3>3, <4>1 DEF Targets
      <4> QED
        BY <2>5, <3>1, <4>1, <4>2 DEF ObserverInv, NoStaleAnchor
    <3> QED
      BY <3>2, <3>3
  <2> QED
    BY <2>3, <2>4, <2>5
<1> QED
  BY <1>3, <1>5, <1>6, <1>7 DEF ObserverInv

LEMMA DisconnectKeepsInv ==
  ASSUME ObserverInv, NEW o \in Observer, Disconnect(o)
  PROVE  ObserverInv'
<1>1. /\ watching' = [watching EXCEPT ![o] = [n \in Node |-> "no"]]
      /\ transients' = [transients EXCEPT ![o] = {}]
      /\ anchors' = [m \in Node |->
                       IF watching[o][m] # "no" \/ m \in Targets(transients[o])
                       THEN anchors[m] \ {o} ELSE anchors[m]]
      /\ queue' = [queue EXCEPT ![o] = <<>>]
      /\ UNCHANGED <<pending, delivering>>
  BY DEF Disconnect
<1>2. Shape'
  BY <1>1 DEF ObserverInv, Shape
<1>3. /\ transients'[o] = {} /\ queue'[o] = <<>>
      /\ \A n \in Node : watching'[o][n] = "no"
      /\ \A p \in Observer \ {o} :
           transients'[p] = transients[p] /\ queue'[p] = queue[p] /\ watching'[p] = watching[p]
      /\ \A p \in Observer : Scheduled(p)' = Scheduled(p)
  BY <1>1 DEF ObserverInv, Shape, Scheduled
<1>4. NothingForgotten'
  BY <1>3 DEF ObserverInv, NothingForgotten
<1>5. ObserversAreKept'
  BY <1>1, <1>3 DEF ObserverInv, ObserversAreKept
<1>6. NoStaleAnchor'
  <2>1. SUFFICES ASSUME NEW m \in Node, NEW p \in anchors'[m]
                 PROVE  watching'[p][m] # "no" \/ m \in Targets(transients'[p])
    BY DEF NoStaleAnchor
  <2>2. p \in anchors[m] /\ p \in Observer
    BY <1>1, <1>2, <2>1 DEF Shape
  <2>3. watching[p][m] # "no" \/ m \in Targets(transients[p])
    BY <2>2 DEF ObserverInv, NoStaleAnchor
  <2>4. p # o
    BY <1>1, <2>1, <2>3
  <2> QED
    BY <1>3, <2>2, <2>3, <2>4
<1> QED
  BY <1>2, <1>4, <1>5, <1>6 DEF ObserverInv

LEMMA TakeRecordsKeepsInv ==
  ASSUME ObserverInv, NEW o \in Observer, TakeRecords(o)
  PROVE  ObserverInv'
BY DEF ObserverInv, TakeRecords, observers, Shape, NothingForgotten, ObserversAreKept,
       NoStaleAnchor, Scheduled, Targets

LEMMA StartDeliveryKeepsInv ==
  ASSUME ObserverInv, StartDelivery
  PROVE  ObserverInv'
BY DEF ObserverInv, StartDelivery, observers, Shape, NothingForgotten, ObserversAreKept,
       NoStaleAnchor, Scheduled, Targets

LEMMA NotifyKeepsInv ==
  ASSUME ObserverInv, NEW o \in Observer, Notify(o)
  PROVE  ObserverInv'
<1>1. /\ delivering' = delivering \ {o}
      /\ queue' = [queue EXCEPT ![o] = <<>>]
      /\ transients' = [transients EXCEPT ![o] = {}]
      /\ anchors' = [m \in Node |->
                       IF watching[o][m] # "no" THEN anchors[m] \cup {o}
                       ELSE IF m \in Targets(transients[o]) THEN anchors[m] \ {o}
                       ELSE anchors[m]]
      /\ UNCHANGED <<watching, pending>>
  BY DEF Notify, RemoveTransients
<1>2. Shape'
  BY <1>1 DEF ObserverInv, Shape
<1>3. /\ transients'[o] = {} /\ queue'[o] = <<>>
      /\ \A p \in Observer \ {o} :
           transients'[p] = transients[p] /\ queue'[p] = queue[p]
      /\ \A p \in Observer \ {o} : Scheduled(p)' = Scheduled(p)
  BY <1>1 DEF ObserverInv, Shape, Scheduled
<1>4. NothingForgotten'
  BY <1>3 DEF ObserverInv, NothingForgotten
<1>5. ObserversAreKept'
  BY <1>1, <1>3 DEF ObserverInv, ObserversAreKept
<1>6. NoStaleAnchor'
  <2>1. SUFFICES ASSUME NEW m \in Node, NEW p \in anchors'[m]
                 PROVE  watching[p][m] # "no" \/ m \in Targets(transients'[p])
    BY <1>1 DEF NoStaleAnchor
  <2>2. p \in Observer
    BY <1>2, <2>1 DEF Shape
  <2>3. CASE p # o
    BY <1>1, <1>3, <2>1, <2>2, <2>3 DEF ObserverInv, NoStaleAnchor
  <2>4. CASE p = o
    BY <1>1, <2>1, <2>4 DEF ObserverInv, NoStaleAnchor
  <2> QED
    BY <2>3, <2>4
<1> QED
  BY <1>2, <1>4, <1>5, <1>6 DEF ObserverInv

-----------------------------------------------------------------------------
LEMMA InitEstablishesInv ==
  ASSUME Init
  PROVE  ObserverInv
BY DEF Init, ObserverInv, Shape, NothingForgotten, ObserversAreKept, NoStaleAnchor

LEMMA NextKeepsInv ==
  ASSUME ObserverInv, [Next]_vars, Watchable \subseteq Node
  PROVE  ObserverInv'
<1>1. CASE UNCHANGED vars
  BY <1>1, TreeStepsUnobserved, UnobservedKeepsInv
<1>2. CASE StartTask \/ Return \/ Insert
  BY <1>2, TreeStepsUnobserved, UnobservedKeepsInv
<1>3. CASE (\E n \in Texts : SetData(n)) \/ (\E n \in Node : RemoveChild(n))
  BY <1>3, TreeStepsUnobserved, UnobservedKeepsInv
<1>4. CASE \E p, c \in Node : AppendChild(p, c)
  BY <1>4, TreeStepsUnobserved, UnobservedKeepsInv
<1>5. CASE \E a, b \in Texts : Normalize(a, b)
  BY <1>5, TreeStepsUnobserved, UnobservedKeepsInv
<1>6. CASE Deliver
  BY <1>6, DeliverKeepsInv
<1>7. CASE StartDelivery
  BY <1>7, StartDeliveryKeepsInv
<1>8. CASE \E o \in Observer, n \in Watchable, options \in {"target", "subtree", "data"} :
             Observe(o, n, options)
  BY <1>8, ObserveKeepsInv
<1>9. CASE \E o \in Observer : Disconnect(o) \/ TakeRecords(o) \/ Notify(o)
  BY <1>9, DisconnectKeepsInv, TakeRecordsKeepsInv, NotifyKeepsInv
<1> QED
  BY <1>1, <1>2, <1>3, <1>4, <1>5, <1>6, <1>7, <1>8, <1>9 DEF Next, Step

\* The observers' inductive invariant: their state has its shape, none is
\* forgotten, none is lost, and no node keeps one for nothing.
THEOREM ObserverInvariant == Spec => []ObserverInv
<1>1. Init => ObserverInv
  BY InitEstablishesInv
<1>2. ObserverInv /\ [Next]_vars => ObserverInv'
  BY NextKeepsInv, ObserverAssumption DEF ObserverAssumption
<1> QED
  BY <1>1, <1>2, PTL DEF Spec

\* `queue`, `schedule` and `deliver`: an observer that holds records or
\* transients is always scheduled for a notification.
THEOREM NoObserverForgotten == Spec => []NothingForgotten
<1>1. ObserverInv => NothingForgotten
  BY DEF ObserverInv
<1> QED
  BY <1>1, ObserverInvariant, PTL

\* `anchor`: the node an observer observes keeps it, unless a notification
\* does, which gives it back.
THEOREM ObservedNodesKeepObservers == Spec => []ObserversAreKept
<1>1. ObserverInv => ObserversAreKept
  BY DEF ObserverInv
<1> QED
  BY <1>1, ObserverInvariant, PTL

\* `release` and `removeTransients`: no node keeps an observer that has
\* neither a registration nor a transient on it.
THEOREM NoAnchorOutlivesItsUse == Spec => []NoStaleAnchor
<1>1. ObserverInv => NoStaleAnchor
  BY DEF ObserverInv
<1> QED
  BY <1>1, ObserverInvariant, PTL
-----------------------------------------------------------------------------
(* Without a consumer a batch interrupts one script and nothing interrupts  *)
(* the batch, so that what is running has one of five forms.                *)

TreeTypes == parent \in [Node -> Node \cup {None}] /\ clock \in Nat

\* What a reader of the record of one event knows afterwards.
Read(links, event) ==
  (links \ ({event.target} \X event.removed)) \cup ({event.target} \X event.added)

\* The records so far tell the tree; they do with one or two events more.
Told == replica = Links(parent)
ToldBy(events) ==
  \/ \E x : events = <<x>> /\ Read(replica, x) = Links(parent)
  \/ \E x, y : events = <<x, y>> /\ Read(Read(replica, x), y) = Links(parent)

\* An insertion that has to wait finds its node detached and can be made.
Waits(f) ==
  \E p, c \in Node : f = Inserting(p, c) /\ parent[c] = None /\ ~IsInclusiveAncestor(c, p)

Calm ==
  \/ stack = <<>> /\ Told
  \/ stack = <<Script>> /\ Told
  \/ \E f : stack = <<f, Script>> /\ Waits(f) /\ Told
  \/ \E events : stack = <<Batch(events), Script>> /\ ToldBy(events)
  \/ \E events, f : stack = <<Batch(events), f, Script>> /\ Waits(f) /\ ToldBy(events)

CallInv == ~consumer => TreeTypes /\ Calm

\* Short stacks.
LEMMA Frames ==
  ASSUME NEW x, NEW y, NEW z
  PROVE  /\ Head(<<x>>) = x /\ Head(<<x, y>>) = x /\ Head(<<x, y, z>>) = x
         /\ Tail(<<x>>) = <<>> /\ Tail(<<x, y>>) = <<y>> /\ Tail(<<x, y, z>>) = <<y, z>>
         /\ <<x>> # <<>> /\ <<x, y>> # <<>> /\ <<x, y, z>> # <<>>
         /\ <<>> \o <<x>> = <<x>> /\ <<>> \o <<x, y>> = <<x, y>>
         /\ <<x>> \o <<>> = <<x>>
         /\ <<x>> \o <<y>> = <<x, y>>
         /\ <<>> \o <<>> = <<>>
         /\ Len(<<>>) = 0 /\ Len(<<x>>) = 1 /\ Len(<<x, y>>) = 2
         /\ <<x, y>>[1] = x /\ <<x, y>>[2] = y /\ <<x>>[1] = x
<1> DEFINE S == {x, y, z}
<1>1. /\ Head(<<x>>) = x /\ Head(<<x, y>>) = x /\ Head(<<x, y, z>>) = x
      /\ <<x>> # <<>> /\ <<x, y>> # <<>> /\ <<x, y, z>> # <<>>
  OBVIOUS
<1>2. Tail(<<x>>) = <<>>
  OBVIOUS
<1>3. Tail(<<x, y>>) = <<y>>
  OBVIOUS
<1>4. Tail(<<x, y, z>>) = <<y, z>>
  OBVIOUS
<1>5. /\ <<x>> \in Seq(S) /\ <<y>> \in Seq(S) /\ <<>> \in Seq(S)
      /\ <<x, y>> \in Seq(S) /\ <<y, z>> \in Seq(S) /\ <<z>> \in Seq(S)
  OBVIOUS
<1>6. /\ Len(<<>>) = 0 /\ Len(<<x>>) = 1 /\ Len(<<x, y>>) = 2
      /\ <<x, y>>[1] = x /\ <<x, y>>[2] = y /\ <<x>>[1] = x
  OBVIOUS
<1>7. \A s \in Seq(S) : <<>> \o s = s /\ s \o <<>> = s
  OBVIOUS
<1>8. <<x>> \o <<y>> = <<x, y>>
  <2> DEFINE q == <<x>> \o <<y>>
  <2>1. q \in Seq(S) /\ Len(q) = 2 /\ q[1] = x /\ q[2] = y
    BY <1>5
  <2> HIDE DEF q, S
  <2> DEFINE r == <<x, y>>
  <2>2. q = [i \in 1..2 |-> q[i]] /\ r = [i \in 1..2 |-> r[i]]
    BY <2>1
  <2>3. \A i \in 1..2 : q[i] = r[i]
    BY <2>1
  <2> HIDE DEF r
  <2>4. q = r
    BY <2>2, <2>3
  <2> QED BY <2>4 DEF q, r
<1> HIDE DEF S
<1> QED
  BY <1>1, <1>2, <1>3, <1>4, <1>5, <1>6, <1>7, <1>8

\* Short sequences joined.
LEMMA JoinedTwo == ASSUME NEW x, NEW y PROVE <<x>> \o <<y>> = <<x, y>>
BY Frames

LEMMA JoinedThree ==
  ASSUME NEW x, NEW y, NEW z
  PROVE  /\ <<x>> \o <<y, z>> = <<x, y, z>>
         /\ <<x, y>> \o <<z>> = <<x, y, z>>
<1> DEFINE S == {x, y, z}
<1>0. /\ <<x>> \in Seq(S) /\ <<z>> \in Seq(S)
      /\ <<x, y>> \in Seq(S) /\ <<y, z>> \in Seq(S)
  OBVIOUS
<1>1. <<x>> \o <<y, z>> = <<x, y, z>>
  <2> DEFINE q == <<x>> \o <<y, z>>
  <2>1. q \in Seq(S) /\ Len(q) = 3 /\ q[1] = x /\ q[2] = y /\ q[3] = z
    BY <1>0
  <2> HIDE DEF q, S
  <2> DEFINE r == <<x, y, z>>
  <2>2. q = [i \in 1..3 |-> q[i]] /\ r = [i \in 1..3 |-> r[i]]
    BY <2>1
  <2>3. \A i \in 1..3 : q[i] = r[i]
    BY <2>1
  <2> HIDE DEF r
  <2>4. q = r
    BY <2>2, <2>3
  <2> QED BY <2>4 DEF q, r
<1>2. <<x, y>> \o <<z>> = <<x, y, z>>
  <2> DEFINE q == <<x, y>> \o <<z>>
  <2>1. q \in Seq(S) /\ Len(q) = 3 /\ q[1] = x /\ q[2] = y /\ q[3] = z
    BY <1>0
  <2> HIDE DEF q, S
  <2> DEFINE r == <<x, y, z>>
  <2>2. q = [i \in 1..3 |-> q[i]] /\ r = [i \in 1..3 |-> r[i]]
    BY <2>1
  <2>3. \A i \in 1..3 : q[i] = r[i]
    BY <2>1
  <2> HIDE DEF r
  <2>4. q = r
    BY <2>2, <2>3
  <2> QED BY <2>4 DEF q, r
<1> HIDE DEF S
<1> QED
  BY <1>1, <1>2

\* What a frame is.
LEMMA Kinds ==
  /\ Script.kind = "script"
  /\ \A events : Batch(events).kind = "batch" /\ Batch(events).events = events
  /\ \A p, c : /\ Inserting(p, c).kind = "insert"
               /\ Inserting(p, c).into = p /\ Inserting(p, c).node = c
BY DEF Script, Batch, Inserting

\* The rounds of HandedOver, for the batches there are.
Rounds(st, events, h) ==
  h = [k \in 0..Len(events) |-> IF k = 0 THEN st ELSE Fanout(h[k - 1], events[k])]

LEMMA HandedOverByRounds ==
  ASSUME NEW st, NEW events, NEW g, Rounds(st, events, g)
  PROVE  \E h : Rounds(st, events, h) /\ HandedOver(st, events) = h[Len(events)]
<1> DEFINE h == CHOOSE h : h = [k \in 0..Len(events) |->
                                  IF k = 0 THEN st ELSE Fanout(h[k - 1], events[k])]
<1>1. Rounds(st, events, h)
  BY DEF Rounds
<1>2. HandedOver(st, events) = h[Len(events)]
  BY DEF HandedOver
<1> QED BY <1>1, <1>2

\* A batch of one event, and of two, is handed over event by event.
LEMMA OneHandedOver ==
  ASSUME NEW st, NEW x
  PROVE  HandedOver(st, <<x>>) = Fanout(st, x)
<1> DEFINE events == <<x>>
           g == [k \in 0..1 |-> IF k = 0 THEN st ELSE Fanout(st, x)]
<1>1. Len(events) = 1 /\ events[1] = x
  OBVIOUS
<1>2. Rounds(st, events, g)
  <2>1. \A k \in 0..1 : k = 0 \/ (k - 1 = 0 /\ k = 1)
    OBVIOUS
  <2> QED BY <1>1, <2>1 DEF Rounds
<1> HIDE DEF events, g
<1>3. PICK h : Rounds(st, events, h) /\ HandedOver(st, events) = h[Len(events)]
  BY HandedOverByRounds, <1>2
<1>4. h[0] = st /\ h[1] = Fanout(h[0], events[1])
  BY <1>1, <1>3 DEF Rounds
<1> QED BY <1>1, <1>3, <1>4 DEF events

LEMMA BothHandedOver ==
  ASSUME NEW st, NEW x, NEW y
  PROVE  HandedOver(st, <<x, y>>) = Fanout(Fanout(st, x), y)
<1> DEFINE events == <<x, y>>
           g == [k \in 0..2 |-> IF k = 0 THEN st ELSE IF k = 1 THEN Fanout(st, x)
                                ELSE Fanout(Fanout(st, x), y)]
<1>1. Len(events) = 2 /\ events[1] = x /\ events[2] = y
  OBVIOUS
<1>2. Rounds(st, events, g)
  <2>1. \A k \in 0..2 : k = 0 \/ (k - 1 = 0 /\ k = 1) \/ (k - 1 = 1 /\ k = 2)
    OBVIOUS
  <2> QED BY <1>1, <2>1 DEF Rounds
<1> HIDE DEF events, g
<1>3. PICK h : Rounds(st, events, h) /\ HandedOver(st, events) = h[Len(events)]
  BY HandedOverByRounds, <1>2
<1>4. h[0] = st /\ h[1] = Fanout(h[0], events[1]) /\ h[2] = Fanout(h[1], events[2])
  BY <1>1, <1>3 DEF Rounds
<1> QED BY <1>1, <1>3, <1>4 DEF events

\* What the state would be, by the form of the stack.
LEMMA SettledIs ==
  /\ \A s : s = <<>> \/ s = <<Script>> \/ (\E f : s = <<f, Script>> /\ f.kind = "insert") =>
       (stack = s => Settled = Now)
  /\ \A events, s : s = <<Script>> \/ (\E f : s = <<f, Script>>) =>
       (stack = <<Batch(events)>> \o s => Settled = HandedOver(Now, events))
<1>1. ASSUME NEW s, s = <<>> \/ s = <<Script>> \/ (\E f : s = <<f, Script>> /\ f.kind = "insert"),
             stack = s
      PROVE  Settled = Now
  <2>1. ~Running("batch")
    BY <1>1, Frames, Kinds DEF Running
  <2> QED BY <2>1 DEF Settled
<1>2. ASSUME NEW events, NEW s, s = <<Script>> \/ (\E f : s = <<f, Script>>),
             stack = <<Batch(events)>> \o s
      PROVE  Settled = HandedOver(Now, events)
  <2>1. stack # <<>> /\ Head(stack) = Batch(events)
    <3>1. CASE s = <<Script>>
      BY <1>2, <3>1, Frames
    <3>2. CASE \E f : s = <<f, Script>>
      BY <1>2, <3>2, Frames
    <3> QED BY <1>2, <3>1, <3>2
  <2> QED BY <2>1, Kinds DEF Settled, Running
<1> QED
  BY <1>1, <1>2

\* What the records of a batch tell.
LEMMA Recorded ==
  ASSUME NEW par \in [Node -> Node \cup {None}], NEW id
  PROVE  /\ \A links, n : Read(links, Data(par, id, n)) = links
         /\ \A c \in Node : par[c] # None =>
              Read(Links(par), Removal(par, id, c)) = Links([par EXCEPT ![c] = None])
<1>1. ASSUME NEW links, NEW n PROVE Read(links, Data(par, id, n)) = links
  BY DEF Read, Data
<1>2. ASSUME NEW c \in Node, par[c] # None
      PROVE  Read(Links(par), Removal(par, id, c)) = Links([par EXCEPT ![c] = None])
  <2>1. Removal(par, id, c).target = par[c] /\ Removal(par, id, c).removed = {c}
        /\ Removal(par, id, c).added = {}
    BY DEF Removal
  <2>2. Read(Links(par), Removal(par, id, c)) = Links(par) \ ({par[c]} \X {c})
    BY <2>1 DEF Read
  <2>3. None \notin Node
    BY ObserverAssumption
  <2>4. \A link \in Node \X Node :
          /\ link[1] \in Node /\ link[2] \in Node
          /\ link \in {par[c]} \X {c} <=> link[1] = par[c] /\ link[2] = c
    OBVIOUS
  <2>5. \A link \in Node \X Node :
          [par EXCEPT ![c] = None][link[2]] = link[1] <=>
            par[link[2]] = link[1] /\ link \notin {par[c]} \X {c}
    BY <1>2, <2>3, <2>4
  <2> QED BY <2>2, <2>5 DEF Links
<1> QED
  BY <1>1, <1>2

\* A reader of the record of an insertion knows the link it made.
LEMMA InsertionRecorded ==
  ASSUME NEW par \in [Node -> Node \cup {None}], NEW p \in Node, NEW c \in Node,
         NEW e, e.target = p, e.removed = {}, e.added = {c}, par[c] = None,
         NEW after, \A n \in Node : after[n] = IF n = c THEN p ELSE par[n]
  PROVE  Read(Links(par), e) = Links(after)
<1>1. Read(Links(par), e) = Links(par) \cup ({p} \X {c})
  BY DEF Read
<1>2. None \notin Node
  BY ObserverAssumption
<1>3. \A link \in Node \X Node :
        /\ link[1] \in Node /\ link[2] \in Node
        /\ link \in {p} \X {c} <=> link[1] = p /\ link[2] = c
  OBVIOUS
<1>4. \A link \in Node \X Node :
        after[link[2]] = link[1] <=>
          par[link[2]] = link[1] \/ link \in {p} \X {c}
  BY <1>2, <1>3
<1>5. {p} \X {c} \subseteq Node \X Node
  OBVIOUS
<1> QED
  BY <1>1, <1>4, <1>5 DEF Links

\* Whoever hangs under nothing but its own ancestors keeps them.
LEMMA DetachingKeepsApart ==
  ASSUME NEW par \in [Node -> Node \cup {None}], NEW c \in Node, NEW p, c \notin AncestorsIn(par, p)
  PROVE  c \notin AncestorsIn([par EXCEPT ![c] = None], p)
<1>1. PICK S \in SUBSET Node :
        p \in S /\ (\A m \in S : par[m] \in Node => par[m] \in S) /\ c \notin S
  BY DEF AncestorsIn
<1>2. \A m \in S : [par EXCEPT ![c] = None][m] = par[m]
  BY <1>1
<1> QED
  BY <1>1, <1>2 DEF AncestorsIn

\* MutationFanout reads events as this module does.
LEMMA OneReading ==
  /\ \A st, event : Promised!Fanout(st, event) = Fanout(st, event)
  /\ \A par, id, n : Promised!Data(par, id, n) = Data(par, id, n)
  /\ \A par, id, c : Promised!Removal(par, id, c) = Removal(par, id, c)
  /\ \A par, id, p, c : Promised!Insertion(par, id, p, c) = Insertion(par, id, p, c)
<1>1. \A options, event : Promised!Asks(options, event) <=> Asks(options, event)
  BY DEF Promised!Asks, Asks
<1>2. \A st, o, event : Promised!Matching(st, o, event) <=> Matching(st, o, event)
  BY <1>1 DEF Promised!Matching, Matching, Promised!WithSubtree, WithSubtree
<1>3. \A st, o, event : Promised!Sources(st, o, event) = Sources(st, o, event)
  BY DEF Promised!Sources, Sources, Promised!WithSubtree, WithSubtree
<1>4. \A st, event : Promised!ScheduledBy(st, event) = ScheduledBy(st, event)
  BY <1>2, <1>3 DEF Promised!ScheduledBy, ScheduledBy
<1>5. ASSUME NEW st, NEW event PROVE Promised!Fanout(st, event) = Fanout(st, event)
  BY <1>2, <1>3, <1>4 DEF Promised!Fanout, Fanout
<1>6. \A par, n : Promised!AncestorsIn(par, n) = AncestorsIn(par, n)
  BY DEF Promised!AncestorsIn, AncestorsIn
<1>7. /\ \A par, id, n : Promised!Data(par, id, n) = Data(par, id, n)
      /\ \A par, id, c : Promised!Removal(par, id, c) = Removal(par, id, c)
      /\ \A par, id, p, c : Promised!Insertion(par, id, p, c) = Insertion(par, id, p, c)
  BY <1>6 DEF Promised!Data, Data, Promised!Removal, Removal, Promised!Insertion, Insertion
<1> QED
  BY <1>5, <1>7

\* What the forms say when a script, an insertion or a batch runs.
LEMMA WhatRuns ==
  ASSUME Calm
  PROVE  /\ Running("script") => stack = <<Script>> /\ Told
         /\ Running("insert") => /\ Told
                                 /\ \E f : stack = <<f, Script>> /\ Waits(f)
         /\ Running("batch") =>
              \E events : /\ ToldBy(events)
                          /\ \/ stack = <<Batch(events), Script>>
                             \/ \E f : stack = <<Batch(events), f, Script>> /\ Waits(f)
         /\ stack = <<>> => Told
<1>1. CASE stack = <<>> /\ Told
  BY <1>1 DEF Running
<1>2. CASE stack = <<Script>> /\ Told
  BY <1>2, Frames, Kinds DEF Running
<1>3. CASE \E f : stack = <<f, Script>> /\ Waits(f) /\ Told
  <2>1. PICK f : stack = <<f, Script>> /\ Waits(f) /\ Told
    BY <1>3
  <2>2. f.kind = "insert"
    BY <2>1, Kinds DEF Waits
  <2>3. Head(stack) = f /\ stack # <<>>
    BY <2>1, Frames
  <2> QED BY <2>1, <2>2, <2>3 DEF Running
<1>4. CASE \E events : stack = <<Batch(events), Script>> /\ ToldBy(events)
  <2>1. PICK events : stack = <<Batch(events), Script>> /\ ToldBy(events)
    BY <1>4
  <2>2. Head(stack) = Batch(events) /\ stack # <<>>
    BY <2>1, Frames
  <2> QED BY <2>1, <2>2, Kinds DEF Running
<1>5. CASE \E events, f : stack = <<Batch(events), f, Script>> /\ Waits(f) /\ ToldBy(events)
  <2>1. PICK events, f : stack = <<Batch(events), f, Script>> /\ Waits(f) /\ ToldBy(events)
    BY <1>5
  <2>2. Head(stack) = Batch(events) /\ stack # <<>>
    BY <2>1, Frames
  <2> QED BY <2>1, <2>2, Kinds DEF Running
<1> QED
  BY <1>1, <1>2, <1>3, <1>4, <1>5 DEF Calm

\* The promised step, or none.
PromisedStep == [Promised!FanoutNext]_(Promised!fanoutVars)

\* A call of one event or two that is flushed at once.
LEMMA MutateIs ==
  ASSUME TreeTypes, Calm, NEW events, NEW par \in [Node -> Node \cup {None}], Mutate(events, par),
         \/ \E x : events = <<x>> /\ Read(Links(parent), x) = Links(par)
         \/ \E x, y : events = <<x, y>> /\ Read(Read(Links(parent), x), y) = Links(par)
  PROVE  /\ TreeTypes' /\ Calm'
         /\ Settled = Now /\ Settled' = HandedOver(Now, events)
         /\ UNCHANGED <<watching, delivering>>
<1>1. /\ Running("script") /\ clock' = clock + Len(events) /\ parent' = par
      /\ stack' = Flushing(events) \o stack /\ replica' = replica
      /\ UNCHANGED <<watching, transients, queue, pending, delivering>>
  BY DEF Mutate, observers
<1>2. stack = <<Script>> /\ replica = Links(parent)
  BY <1>1, WhatRuns DEF Told
<1>3. events # <<>> /\ Len(events) \in Nat
  BY Frames
<1>4. stack' = <<Batch(events), Script>>
  <2>1. Flushing(events) = <<Batch(events)>>
    BY <1>3 DEF Flushing
  <2>2. stack' = <<Batch(events)>> \o <<Script>>
    BY <1>1, <1>2, <2>1
  <2>3. <<Batch(events)>> \o <<Script>> = <<Batch(events), Script>>
    BY JoinedTwo
  <2> QED BY <2>2, <2>3
<1>5. TreeTypes'
  BY <1>1, <1>3 DEF TreeTypes
<1>6. ToldBy(events)'
  BY <1>1, <1>2 DEF ToldBy
<1>7. Calm'
  BY <1>4, <1>6 DEF Calm
<1>8. Now' = Now
  BY <1>1 DEF Now
<1>9. Settled = Now
  BY <1>2, SettledIs
<1>10. Head(stack') = Batch(events) /\ stack' # <<>>
  BY <1>4, Frames
<1>11. Settled' = HandedOver(Now, events)
  BY <1>8, <1>10, Kinds DEF Settled, Running
<1> QED
  BY <1>1, <1>5, <1>7, <1>9, <1>11

\* Where nothing is left to hand over, the promised state is the state.
LEMMA SettledSteps ==
  ASSUME Settled = Now, UNCHANGED watching, NEW st, Settled' = st, st.watching = watching
  PROVE  Promised!Becomes(st) /\ Promised!Now = Now
<1>1. Promised!Now = Now
  BY DEF Promised!Now, Now
<1>2. Promised!Becomes(st)
  BY DEF Promised!Becomes
<1> QED
  BY <1>1, <1>2

LEMMA FanoutKeepsWatching ==
  \A st, event : Fanout(st, event).watching = st.watching
BY DEF Fanout

\* Each call of script is a promised step, and what runs keeps its form.
LEMMA SetDataIsPromised ==
  ASSUME TreeTypes, Calm, NEW n \in Node, SetData(n)
  PROVE  TreeTypes' /\ Calm' /\ PromisedStep
<1> DEFINE x == Data(parent, clock + 1, n)
<1>1. parent \in [Node -> Node \cup {None}] /\ Mutate(<<x>>, parent)
  BY DEF TreeTypes, SetData
<1>2. Read(Links(parent), x) = Links(parent)
  BY <1>1, Recorded
<1>3. x = Promised!Data(parent, clock + 1, n)
  BY OneReading
<1> HIDE DEF x
<1>4. /\ TreeTypes' /\ Calm'
      /\ Settled = Now /\ Settled' = HandedOver(Now, <<x>>) /\ UNCHANGED <<watching, delivering>>
  BY <1>1, <1>2, MutateIs
<1>5. Settled' = Fanout(Now, x)
  BY <1>4, OneHandedOver
<1>6. Fanout(Now, x).watching = watching
  BY FanoutKeepsWatching DEF Now
<1>7. Promised!Becomes(Fanout(Now, x)) /\ Promised!Now = Now
  BY <1>4, <1>5, <1>6, SettledSteps
<1>8. clock' = clock + 1 /\ parent' = parent
  BY <1>1, Frames DEF Mutate
<1>9. Promised!SetData(n)
  BY <1>3, <1>4, <1>7, <1>8, OneReading DEF Promised!SetData
<1> QED
  BY <1>4, <1>9 DEF PromisedStep, Promised!FanoutNext

LEMMA RemoveChildIsPromised ==
  ASSUME TreeTypes, Calm, NEW c \in Node, RemoveChild(c)
  PROVE  TreeTypes' /\ Calm' /\ PromisedStep
<1> DEFINE x == Removal(parent, clock + 1, c)
           par == [parent EXCEPT ![c] = None]
<1>1. /\ parent \in [Node -> Node \cup {None}] /\ par \in [Node -> Node \cup {None}]
      /\ parent[c] # None /\ Mutate(<<x>>, par)
  BY DEF TreeTypes, RemoveChild
<1>2. Read(Links(parent), x) = Links(par)
  BY <1>1, Recorded
<1>3. x = Promised!Removal(parent, clock + 1, c)
  BY OneReading
<1> HIDE DEF x, par
<1>4. /\ TreeTypes' /\ Calm'
      /\ Settled = Now /\ Settled' = HandedOver(Now, <<x>>) /\ UNCHANGED <<watching, delivering>>
  BY <1>1, <1>2, MutateIs
<1>5. Settled' = Fanout(Now, x)
  BY <1>4, OneHandedOver
<1>6. Fanout(Now, x).watching = watching
  BY FanoutKeepsWatching DEF Now
<1>7. Promised!Becomes(Fanout(Now, x)) /\ Promised!Now = Now
  BY <1>4, <1>5, <1>6, SettledSteps
<1>8. clock' = clock + 1 /\ parent' = par
  BY <1>1, Frames DEF Mutate
<1>9. Promised!RemoveChild(c)
  BY <1>1, <1>3, <1>4, <1>7, <1>8, OneReading DEF Promised!RemoveChild, par
<1> QED
  BY <1>4, <1>9 DEF PromisedStep, Promised!FanoutNext

LEMMA NormalizeIsPromised ==
  ASSUME TreeTypes, Calm, NEW a \in Node, NEW b \in Node, Normalize(a, b)
  PROVE  TreeTypes' /\ Calm' /\ PromisedStep
<1> DEFINE x == Data(parent, clock + 1, a)
           y == Removal(parent, clock + 2, b)
           par == [parent EXCEPT ![b] = None]
<1>1. /\ parent \in [Node -> Node \cup {None}] /\ par \in [Node -> Node \cup {None}]
      /\ parent[b] # None /\ Mutate(<<x, y>>, par)
  BY DEF TreeTypes, Normalize
<1>2. Read(Read(Links(parent), x), y) = Links(par)
  <2>1. Read(Links(parent), x) = Links(parent)
    BY <1>1, Recorded
  <2>2. Read(Links(parent), y) = Links(par)
    BY <1>1, Recorded
  <2> HIDE DEF x, y, par
  <2> QED BY <2>1, <2>2
<1>3. x = Promised!Data(parent, clock + 1, a) /\ y = Promised!Removal(parent, clock + 2, b)
  BY OneReading
<1> HIDE DEF x, y, par
<1>4. /\ TreeTypes' /\ Calm'
      /\ Settled = Now /\ Settled' = HandedOver(Now, <<x, y>>) /\ UNCHANGED <<watching, delivering>>
  BY <1>1, <1>2, MutateIs
<1>5. Settled' = Fanout(Fanout(Now, x), y)
  <2>1. HandedOver(Now, <<x, y>>) = Fanout(Fanout(Now, x), y)
    BY BothHandedOver
  <2> QED BY <1>4, <2>1
<1>6. Fanout(Fanout(Now, x), y).watching = watching
  BY FanoutKeepsWatching DEF Now
<1>7. Promised!Becomes(Fanout(Fanout(Now, x), y)) /\ Promised!Now = Now
  BY <1>4, <1>5, <1>6, SettledSteps
<1>8. clock' = clock + 2 /\ parent' = par
  BY <1>1, Frames DEF Mutate
<1>9. Promised!Normalize(a, b)
  BY <1>1, <1>3, <1>4, <1>7, <1>8, OneReading DEF Promised!Normalize, par
<1> QED
  BY <1>4, <1>9 DEF PromisedStep, Promised!FanoutNext

\* appendChild of a node that hangs somewhere is its removal, so far.
LEMMA AppendChildIsPromised ==
  ASSUME TreeTypes, Calm, NEW p \in Node, NEW c \in Node, AppendChild(p, c)
  PROVE  TreeTypes' /\ Calm' /\ PromisedStep
<1> DEFINE x == Removal(parent, clock + 1, c)
           par == [parent EXCEPT ![c] = None]
           f == Inserting(p, c)
<1>1. /\ parent \in [Node -> Node \cup {None}] /\ par \in [Node -> Node \cup {None}] /\ clock \in Nat
      /\ \A n \in Node : par[n] = IF n = c THEN None ELSE parent[n]
  BY DEF TreeTypes
<1>2. /\ clock' = clock + Len(Detached(c)) /\ parent' = par
      /\ stack' = Flushing(Detached(c)) \o <<f>> \o stack
      /\ UNCHANGED <<watching, transients, queue, pending, delivering, replica>>
      /\ Running("script") /\ c \notin AncestorsIn(parent, p)
  BY DEF AppendChild, observers, IsInclusiveAncestor
<1>3. stack = <<Script>> /\ replica = Links(parent)
  BY <1>2, WhatRuns DEF Told
<1>4. Settled = Now /\ Now' = Now
  BY <1>2, <1>3, SettledIs DEF Now
<1>5. Waits(f)'
  <2>1. c \notin AncestorsIn(par, p)
    BY <1>1, <1>2, DetachingKeepsApart
  <2>2. parent'[c] = None
    BY <1>1, <1>2
  <2> HIDE DEF par
  <2> QED BY <1>2, <2>1, <2>2 DEF Waits, IsInclusiveAncestor, Inserting
<1>6. f.kind = "insert"
  BY Kinds
<1>7. CASE parent[c] = None
  <2>1. Detached(c) = <<>>
    BY <1>7 DEF Detached
  <2>2. stack' = <<f, Script>>
    <3>1. Flushing(Detached(c)) = <<>>
      BY <2>1 DEF Flushing
    <3>2. <<>> \o <<f>> = <<f>> /\ <<f>> \o <<Script>> = <<f, Script>>
      BY Frames
    <3> HIDE DEF f
    <3> QED BY <1>2, <1>3, <3>1, <3>2
  <2>3. parent' = parent /\ clock' = clock
    <3>1. par = parent
      BY <1>1, <1>7
    <3> QED BY <1>1, <1>2, <2>1, <3>1, Frames
  <2>4. Told'
    BY <1>2, <1>3, <2>3 DEF Told
  <2>5. TreeTypes' /\ Calm'
    BY <1>1, <1>5, <2>2, <2>3, <2>4 DEF TreeTypes, Calm
  <2>6. Settled' = Now'
    <3>1. Head(stack') = f
      BY <2>2, Frames
    <3> QED BY <1>6, <3>1 DEF Settled, Running
  <2>7. UNCHANGED Promised!fanoutVars
    BY <1>2, <1>4, <2>3, <2>6 DEF Promised!fanoutVars
  <2> QED BY <2>5, <2>7 DEF PromisedStep
<1>8. CASE parent[c] # None
  <2>1. Detached(c) = <<x>>
    BY <1>8 DEF Detached
  <2>2. stack' = <<Batch(<<x>>), f, Script>>
    <3>1. Flushing(Detached(c)) = <<Batch(<<x>>)>>
      <4>1. <<x>> # <<>>
        BY Frames
      <4> QED BY <2>1, <4>1 DEF Flushing
    <3>2. <<Batch(<<x>>)>> \o <<f>> = <<Batch(<<x>>), f>>
      BY JoinedTwo
    <3>3. <<Batch(<<x>>), f>> \o <<Script>> = <<Batch(<<x>>), f, Script>>
      BY JoinedThree
    <3> HIDE DEF f, x
    <3> QED BY <1>2, <1>3, <3>1, <3>2, <3>3
  <2>3. clock' = clock + 1
    BY <1>2, <2>1, Frames
  <2>4. Read(Links(parent), x) = Links(par)
    BY <1>1, <1>8, Recorded
  <2>5. x = Promised!Removal(parent, clock + 1, c)
    BY OneReading
  <2> HIDE DEF x, par, f
  <2>6. TreeTypes'
    BY <1>1, <1>2, <2>3 DEF TreeTypes
  <2>7. Calm'
    <3>1. PICK e : e = x
      OBVIOUS
    <3>2. Read(replica', e) = Links(par)
      BY <1>2, <1>3, <2>4, <3>1
    <3>3. ToldBy(<<e>>)'
      BY <1>2, <3>2 DEF ToldBy
    <3>4. stack' = <<Batch(<<e>>), f, Script>>
      BY <2>2, <3>1
    <3> QED BY <1>5, <3>3, <3>4 DEF Calm
  <2>8. Settled' = Fanout(Now, x)
    <3>1. Head(stack') = Batch(<<x>>) /\ stack' # <<>>
      BY <2>2, Frames
    <3>2. Settled' = HandedOver(Now, <<x>>)
      BY <1>4, <3>1, Kinds DEF Settled, Running
    <3> QED BY <3>2, OneHandedOver
  <2>9. Fanout(Now, x).watching = watching
    BY FanoutKeepsWatching DEF Now
  <2>10. Promised!Becomes(Fanout(Now, x)) /\ Promised!Now = Now
    BY <1>2, <1>4, <2>8, <2>9, SettledSteps
  <2>11. Promised!RemoveChild(c)
    BY <1>2, <1>8, <2>3, <2>5, <2>10, OneReading DEF Promised!RemoveChild, par
  <2> QED BY <2>6, <2>7, <2>11 DEF PromisedStep, Promised!FanoutNext
<1> QED
  BY <1>7, <1>8

\* The insertion that waited: nothing has come between, so that it is made.
LEMMA InsertIsPromised ==
  ASSUME TreeTypes, Calm, Insert
  PROVE  TreeTypes' /\ Calm' /\ PromisedStep
<1>1. PICK f : stack = <<f, Script>> /\ Waits(f) /\ Told
  BY WhatRuns DEF Insert
<1>2. PICK p \in Node, c \in Node :
        f = Inserting(p, c) /\ parent[c] = None /\ ~IsInclusiveAncestor(c, p)
  BY <1>1 DEF Waits
<1>3. Head(stack) = f /\ Tail(stack) = <<Script>> /\ f.into = p /\ f.node = c
  BY <1>1, <1>2, Frames, Kinds
<1> DEFINE x == Insertion(parent', clock', p, c)
           par == [parent EXCEPT ![c] = p]
<1>4. /\ clock' = clock + 1 /\ parent' = par
      /\ stack' = <<Batch(<<x>>)>> \o <<Script>>
      /\ UNCHANGED <<watching, transients, queue, pending, delivering, replica>>
  BY <1>2, <1>3 DEF Insert, observers
<1>5. TreeTypes'
  BY <1>4 DEF TreeTypes
<1>6. Settled = Now /\ Now' = Now
  <2>1. f.kind = "insert"
    BY <1>2, Kinds
  <2> QED BY <1>1, <1>4, <2>1, SettledIs DEF Now
<1>7. Read(replica, x) = Links(parent')
  <2>1. parent \in [Node -> Node \cup {None}] /\ parent[c] = None
    BY <1>2 DEF TreeTypes
  <2>2. Read(Links(parent), x) = Links(par)
    <3>1. x.target = p /\ x.removed = {} /\ x.added = {c}
      BY DEF Insertion
    <3>2. \A n \in Node : par[n] = IF n = c THEN p ELSE parent[n]
      BY <2>1
    <3> HIDE DEF x, par
    <3> QED BY <2>1, <3>1, <3>2, InsertionRecorded
  <2>3. replica = Links(parent)
    BY <1>1 DEF Told
  <2> HIDE DEF x, par
  <2> QED BY <1>4, <2>2, <2>3
<1>8. x = Promised!Insertion(parent', clock', p, c)
  BY OneReading
<1> HIDE DEF x
<1>9. PICK e : e = x
  OBVIOUS
<1>10. stack' = <<Batch(<<e>>), Script>>
  BY <1>4, <1>9, JoinedTwo
<1>11. ToldBy(<<e>>)'
  <2>1. Read(replica', e) = Links(parent')
    BY <1>4, <1>7, <1>9
  <2> QED BY <2>1 DEF ToldBy
<1>12. Calm'
  BY <1>10, <1>11 DEF Calm
<1>13. Settled' = Fanout(Now, x)
  <2>1. Head(stack') = Batch(<<e>>) /\ stack' # <<>>
    BY <1>10, Frames
  <2>2. Settled' = HandedOver(Now, <<e>>)
    BY <1>6, <2>1, Kinds DEF Settled, Running
  <2> QED BY <1>9, <2>2, OneHandedOver
<1>14. Promised!Becomes(Fanout(Now, x)) /\ Promised!Now = Now
  <2>1. Fanout(Now, x).watching = watching
    BY FanoutKeepsWatching DEF Now
  <2> QED BY <1>4, <1>6, <1>13, <2>1, SettledSteps
<1>15. Promised!AppendChild(p, c)
  BY <1>2, <1>4, <1>8, <1>14, OneReading DEF Promised!AppendChild
<1> QED
  BY <1>5, <1>12, <1>15 DEF PromisedStep, Promised!FanoutNext

\* Handing over does what was promised long ago.
LEMMA DeliverIsPromised ==
  ASSUME TreeTypes, Calm, Deliver, ~consumer
  PROVE  TreeTypes' /\ Calm' /\ PromisedStep
<1>1. PICK events, s :
        /\ stack = <<Batch(events)>> \o s /\ ToldBy(events)
        /\ s = <<Script>> \/ (\E f : s = <<f, Script>> /\ Waits(f))
        /\ Head(stack) = Batch(events) /\ Tail(stack) = s
  <2>1. PICK events : /\ ToldBy(events)
                      /\ \/ stack = <<Batch(events), Script>>
                         \/ \E f : stack = <<Batch(events), f, Script>> /\ Waits(f)
    BY WhatRuns DEF Deliver
  <2>2. CASE stack = <<Batch(events), Script>>
    <3>1. <<Batch(events)>> \o <<Script>> = <<Batch(events), Script>>
      BY JoinedTwo
    <3>2. Head(stack) = Batch(events) /\ Tail(stack) = <<Script>>
      BY <2>2, Frames
    <3> QED BY <2>1, <2>2, <3>1, <3>2
  <2>3. CASE \E f : stack = <<Batch(events), f, Script>> /\ Waits(f)
    <3>1. PICK f : stack = <<Batch(events), f, Script>> /\ Waits(f)
      BY <2>3
    <3>2. <<Batch(events)>> \o <<f, Script>> = <<Batch(events), f, Script>>
      BY JoinedThree
    <3>3. Head(stack) = Batch(events) /\ Tail(stack) = <<f, Script>>
      BY <3>1, Frames
    <3> QED BY <2>1, <3>1, <3>2, <3>3
  <2> QED BY <2>1, <2>2, <2>3
<1>2. PICK x : /\ x = Head(events)
               /\ transients' = Fanout(Now, x).transients
               /\ queue' = Fanout(Now, x).queue
               /\ pending' = Fanout(Now, x).pending
               /\ replica' = Read(replica, x)
               /\ stack' = <<>> \o Flushing(Tail(events)) \o s
               /\ UNCHANGED <<parent, clock, watching, delivering>>
  <2>1. Head(stack).events = events
    BY <1>1, Kinds
  <2>2. PICK x : x = Head(events)
    OBVIOUS
  <2>3. /\ transients' = Fanout(Now, x).transients
        /\ queue' = Fanout(Now, x).queue
        /\ pending' = Fanout(Now, x).pending
    BY <2>1, <2>2 DEF Deliver
  <2>4. replica' = Read(replica, x)
    BY <2>1, <2>2 DEF Deliver, Read
  <2>5. stack' = <<>> \o Flushing(Tail(events)) \o s
    BY <1>1, <2>1 DEF Deliver
  <2>6. UNCHANGED <<parent, clock, watching, delivering>>
    BY DEF Deliver, tree
  <2> QED BY <2>2, <2>3, <2>4, <2>5, <2>6
<1>3. Now' = Fanout(Now, x)
  BY <1>2 DEF Now, Fanout
<1>4. Settled = HandedOver(Now, events)
  <2>1. s = <<Script>> \/ (\E f : s = <<f, Script>>)
    BY <1>1
  <2> QED BY <1>1, <2>1, SettledIs
<1>5. TreeTypes'
  BY <1>2 DEF TreeTypes
<1>6. ASSUME NEW f, Waits(f) PROVE Waits(f)'
  BY <1>2, <1>6 DEF Waits, IsInclusiveAncestor, Inserting
<1>7. CASE \E e : events = <<e>> /\ Read(replica, e) = Links(parent)
  <2>1. events = <<x>> /\ Tail(events) = <<>> /\ Read(replica, x) = Links(parent)
    BY <1>2, <1>7, Frames
  <2>2. stack' = s
    <3>1. Flushing(Tail(events)) = <<>> /\ <<>> \o <<>> = <<>>
      BY <2>1, Frames DEF Flushing
    <3>2. <<>> \o s = s
      BY <1>1, Frames
    <3> QED BY <1>2, <3>1, <3>2
  <2>3. Told'
    BY <1>2, <2>1 DEF Told
  <2>4. Calm'
    BY <1>1, <1>6, <2>2, <2>3 DEF Calm
  <2>5. Settled' = Now'
    <3>1. CASE s = <<Script>>
      BY <2>2, <3>1, Frames, Kinds DEF Settled, Running
    <3>2. CASE \E f : s = <<f, Script>> /\ Waits(f)
      <4>1. PICK f : s = <<f, Script>> /\ f.kind = "insert"
        BY <3>2, Kinds DEF Waits
      <4> QED BY <2>2, <4>1, Frames DEF Settled, Running
    <3> QED BY <1>1, <3>1, <3>2
  <2>6. Settled = Settled'
    BY <1>3, <1>4, <2>1, <2>5, OneHandedOver
  <2>7. UNCHANGED Promised!fanoutVars
    BY <1>2, <2>6 DEF Promised!fanoutVars
  <2> QED BY <1>5, <2>4, <2>7 DEF PromisedStep
<1>8. CASE \E e, y : events = <<e, y>> /\ Read(Read(replica, e), y) = Links(parent)
  <2>1. PICK y : /\ events = <<x, y>> /\ Tail(events) = <<y>>
                 /\ Read(Read(replica, x), y) = Links(parent)
    BY <1>2, <1>8, Frames
  <2>2. stack' = <<Batch(<<y>>)>> \o s
    <3>1. Flushing(Tail(events)) = <<Batch(<<y>>)>>
      BY <2>1, Frames DEF Flushing
    <3>2. <<>> \o <<Batch(<<y>>)>> = <<Batch(<<y>>)>>
      BY Frames
    <3> QED BY <1>2, <3>1, <3>2
  <2>3. ToldBy(<<y>>)'
    BY <1>2, <2>1 DEF ToldBy
  <2>4. Calm' /\ Head(stack') = Batch(<<y>>) /\ stack' # <<>>
    <3>1. CASE s = <<Script>>
      <4>1. stack' = <<Batch(<<y>>), Script>>
        BY <2>2, <3>1, JoinedTwo
      <4> QED BY <2>3, <4>1, Frames DEF Calm
    <3>2. CASE \E f : s = <<f, Script>> /\ Waits(f)
      <4>1. PICK f : s = <<f, Script>> /\ Waits(f)
        BY <3>2
      <4>2. stack' = <<Batch(<<y>>), f, Script>>
        BY <2>2, <4>1, JoinedThree
      <4>3. Waits(f)'
        BY <1>6, <4>1
      <4> QED BY <2>3, <4>2, <4>3, Frames DEF Calm
    <3> QED BY <1>1, <3>1, <3>2
  <2>5. Settled' = HandedOver(Now', <<y>>)
    BY <2>4, Kinds DEF Settled, Running
  <2>6. Settled' = Settled
    <3>1. Settled' = Fanout(Now', y)
      BY <2>5, OneHandedOver
    <3>2. Settled = Fanout(Fanout(Now, x), y)
      BY <1>4, <2>1, BothHandedOver
    <3> QED BY <1>3, <3>1, <3>2
  <2>7. UNCHANGED Promised!fanoutVars
    BY <1>2, <2>6 DEF Promised!fanoutVars
  <2> QED BY <1>5, <2>4, <2>7 DEF PromisedStep
<1> QED
  BY <1>1, <1>7, <1>8 DEF ToldBy

\* A step that hands nothing over, and leaves a script or nothing running.
LEMMA QuietStep ==
  ASSUME TreeTypes, Calm, stack = <<>> \/ Running("script"), UNCHANGED <<parent, clock, replica>>,
         stack' = <<>> \/ stack' = <<Script>>
  PROVE  /\ TreeTypes' /\ Calm'
         /\ Settled = Now /\ Settled' = Now'
<1>1. (stack = <<>> \/ stack = <<Script>>) /\ Told
  BY WhatRuns
<1>2. TreeTypes' /\ Calm'
  BY <1>1 DEF TreeTypes, Calm, Told
<1>3. Settled = Now
  BY <1>1, SettledIs
<1>4. ~Running("batch")'
  BY Frames, Kinds DEF Running
<1>5. Settled' = Now'
  BY <1>4 DEF Settled
<1> QED
  BY <1>2, <1>3, <1>5

\* The observer's methods and the notification are promised as they are; tasks
\* start and scripts return unseen.
LEMMA OtherStepsArePromised ==
  ASSUME TreeTypes, Calm, Watchable \subseteq Node,
         \/ StartTask \/ Return \/ StartDelivery \/ UNCHANGED vars
         \/ \E o \in Observer, n \in Watchable, options \in {"target", "subtree", "data"} :
              Observe(o, n, options)
         \/ \E o \in Observer : Disconnect(o) \/ TakeRecords(o) \/ Notify(o)
  PROVE  TreeTypes' /\ Calm' /\ PromisedStep
<1>1. CASE StartTask
  <2>1. /\ stack = <<>> /\ stack' = <<Script>>
        /\ UNCHANGED <<parent, clock, replica, watching, transients, queue, pending, delivering>>
    BY <1>1 DEF StartTask, tree, observers
  <2>2. TreeTypes' /\ Calm' /\ Settled = Now /\ Settled' = Now'
    BY <2>1, QuietStep
  <2> QED BY <2>1, <2>2 DEF PromisedStep, Promised!fanoutVars, Now
<1>2. CASE Return
  <2>1. /\ Running("script") /\ stack' = Tail(stack)
        /\ UNCHANGED <<parent, clock, replica, watching, transients, queue, pending, delivering>>
    BY <1>2 DEF Return, tree, observers
  <2>2. stack' = <<>>
    BY <2>1, WhatRuns, Frames
  <2>3. TreeTypes' /\ Calm' /\ Settled = Now /\ Settled' = Now'
    BY <2>1, <2>2, QuietStep
  <2> QED BY <2>1, <2>3 DEF PromisedStep, Promised!fanoutVars, Now
<1>3. CASE StartDelivery
  <2>1. /\ stack = <<>> /\ stack' = <<>> /\ delivering = {} /\ pending # {}
        /\ delivering' = pending /\ pending' = {}
        /\ UNCHANGED <<parent, clock, replica, watching, transients, queue>>
    BY <1>3 DEF StartDelivery, tree, observers
  <2>2. TreeTypes' /\ Calm' /\ Settled = Now /\ Settled' = Now'
    BY <2>1, QuietStep
  <2>3. Promised!StartDelivery
    BY <2>1, <2>2 DEF Promised!StartDelivery, Now
  <2> QED BY <2>2, <2>3 DEF PromisedStep, Promised!FanoutNext
<1>4. CASE UNCHANGED vars
  <2>1. TreeTypes' /\ Calm'
    BY <1>4 DEF vars, TreeTypes, Calm, Told, ToldBy, Waits, IsInclusiveAncestor
  <2>2. Settled' = Settled
    BY <1>4 DEF vars, Settled, Running, Now
  <2> QED BY <1>4, <2>1, <2>2 DEF vars, PromisedStep, Promised!fanoutVars
<1>5. ASSUME NEW o \in Observer, NEW n \in Node, NEW options \in {"target", "subtree", "data"},
             Observe(o, n, options)
      PROVE  TreeTypes' /\ Calm' /\ PromisedStep
  <2>1. /\ Running("script") /\ stack' = stack
        /\ transients' = [transients EXCEPT ![o] = @ \ {row \in transients[o] : row.source = n}]
        /\ watching' = [watching EXCEPT ![o][n] = options]
        /\ UNCHANGED <<parent, clock, replica, queue, pending, delivering>>
    BY <1>5 DEF Observe, tree
  <2>2. stack' = <<Script>>
    BY <2>1, WhatRuns
  <2>3. TreeTypes' /\ Calm' /\ Settled = Now /\ Settled' = Now'
    BY <2>1, <2>2, QuietStep
  <2>4. transients' = [transients EXCEPT ![o] = {row \in @ : row.source # n}]
    <3>1. transients[o] \ {row \in transients[o] : row.source = n}
            = {row \in transients[o] : row.source # n}
      OBVIOUS
    <3> QED BY <2>1, <3>1
  <2>5. Promised!Observe(o, n, options)
    BY <2>1, <2>3, <2>4 DEF Promised!Observe, Now
  <2> QED BY <2>3, <2>5 DEF PromisedStep, Promised!FanoutNext
<1>6. ASSUME NEW o \in Observer, Disconnect(o)
      PROVE  TreeTypes' /\ Calm' /\ PromisedStep
  <2>1. /\ Running("script") /\ stack' = stack
        /\ watching' = [watching EXCEPT ![o] = [n \in Node |-> "no"]]
        /\ transients' = [transients EXCEPT ![o] = {}]
        /\ queue' = [queue EXCEPT ![o] = <<>>]
        /\ UNCHANGED <<parent, clock, replica, pending, delivering>>
    BY <1>6 DEF Disconnect, tree
  <2>2. stack' = <<Script>>
    BY <2>1, WhatRuns
  <2>3. TreeTypes' /\ Calm' /\ Settled = Now /\ Settled' = Now'
    BY <2>1, <2>2, QuietStep
  <2>4. Promised!Disconnect(o)
    BY <2>1, <2>3 DEF Promised!Disconnect, Now
  <2> QED BY <2>3, <2>4 DEF PromisedStep, Promised!FanoutNext
<1>7. ASSUME NEW o \in Observer, TakeRecords(o)
      PROVE  TreeTypes' /\ Calm' /\ PromisedStep
  <2>1. /\ Running("script") /\ stack' = stack
        /\ queue' = [queue EXCEPT ![o] = <<>>]
        /\ UNCHANGED <<parent, clock, replica, watching, transients, pending, delivering>>
    BY <1>7 DEF TakeRecords, tree, observers
  <2>2. stack' = <<Script>>
    BY <2>1, WhatRuns
  <2>3. TreeTypes' /\ Calm' /\ Settled = Now /\ Settled' = Now'
    BY <2>1, <2>2, QuietStep
  <2>4. Promised!TakeRecords(o)
    BY <2>1, <2>3 DEF Promised!TakeRecords, Now
  <2> QED BY <2>3, <2>4 DEF PromisedStep, Promised!FanoutNext
<1>8. ASSUME NEW o \in Observer, Notify(o)
      PROVE  TreeTypes' /\ Calm' /\ PromisedStep
  <2>1. /\ stack = <<>> /\ o \in delivering
        /\ stack' = <<>> \/ stack' = <<Script>>
        /\ delivering' = delivering \ {o}
        /\ queue' = [queue EXCEPT ![o] = <<>>]
        /\ transients' = [transients EXCEPT ![o] = {}]
        /\ UNCHANGED <<parent, clock, replica, watching, pending>>
    BY <1>8 DEF Notify, tree
  <2>2. TreeTypes' /\ Calm' /\ Settled = Now /\ Settled' = Now'
    BY <2>1, QuietStep
  <2>3. Promised!Notify(o)
    BY <2>1, <2>2 DEF Promised!Notify, Now
  <2> QED BY <2>2, <2>3 DEF PromisedStep, Promised!FanoutNext
<1> QED
  BY <1>1, <1>2, <1>3, <1>4, <1>5, <1>6, <1>7, <1>8
-----------------------------------------------------------------------------
\* A step without a consumer.
LEMMA UndisturbedStep ==
  ASSUME TreeTypes, Calm, ~consumer, [Next]_vars
  PROVE  TreeTypes' /\ Calm' /\ PromisedStep
<1>1. Watchable \subseteq Node /\ Texts \subseteq Node
  BY ObserverAssumption DEF ObserverAssumption
<1>2. CASE UNCHANGED vars \/ StartTask \/ Return \/ StartDelivery
  BY <1>1, <1>2, OtherStepsArePromised
<1>3. CASE \/ \E o \in Observer, n \in Watchable, options \in {"target", "subtree", "data"} :
                Observe(o, n, options)
           \/ \E o \in Observer : Disconnect(o) \/ TakeRecords(o) \/ Notify(o)
  BY <1>1, <1>3, OtherStepsArePromised
<1>4. CASE Insert
  BY <1>4, InsertIsPromised
<1>5. CASE Deliver
  BY <1>5, DeliverIsPromised
<1>6. CASE \E n \in Texts : SetData(n)
  BY <1>1, <1>6, SetDataIsPromised
<1>7. CASE \E n \in Node : RemoveChild(n)
  BY <1>7, RemoveChildIsPromised
<1>8. CASE \E p, c \in Node : AppendChild(p, c)
  BY <1>8, AppendChildIsPromised
<1>9. CASE \E a, b \in Texts : Normalize(a, b)
  BY <1>1, <1>9, NormalizeIsPromised
<1> QED
  BY <1>2, <1>3, <1>4, <1>5, <1>6, <1>7, <1>8, <1>9 DEF Next, Step

LEMMA CallsInit ==
  ASSUME Init
  PROVE  CallInv /\ Promised!FanoutInit
<1>1. TreeTypes /\ Calm
  BY ObserverAssumption DEF Init, TreeTypes, Calm, Told, ObserverAssumption
<1>2. Settled = Now
  BY SettledIs DEF Init
<1>3. Promised!FanoutInit
  BY <1>2, ObserverAssumption DEF Init, Promised!FanoutInit, Now, ObserverAssumption
<1> QED
  BY <1>1, <1>3 DEF CallInv

\* Without a consumer: what runs has one of the five forms, and what is
\* handed over and what is left of the batch tell the tree.
THEOREM CallInvariant == Spec => []CallInv
<1>1. Init => CallInv
  BY CallsInit
<1>2. CallInv /\ [Next]_vars => CallInv'
  <2> SUFFICES ASSUME CallInv, [Next]_vars, ~consumer' PROVE TreeTypes' /\ Calm'
    BY DEF CallInv
  <2>1. ~consumer
    BY DEF Next, vars
  <2> QED BY <2>1, UndisturbedStep DEF CallInv
<1> QED
  BY <1>1, <1>2, PTL DEF Spec

\* `flush` and `quiet`: without a consumer, whenever no call is in progress
\* the records that were given out tell the links of the tree.
THEOREM RecordsTellTheTree == Spec => []RecordsReplayUndisturbed
<1>1. CallInv => RecordsReplayUndisturbed
  BY WhatRuns DEF CallInv, RecordsReplayUndisturbed, RecordsReplay, Told
<1> QED
  BY <1>1, CallInvariant, PTL

\* Claiming the events when a call returns and handing them over one by one
\* is, without a consumer, mutation-time fanout: every step is a step of
\* MutationFanout, or changes nothing that it speaks of.
THEOREM FanoutIsPromised == Spec => Implements
<1>1. Init => Promised!FanoutInit
  BY CallsInit
<1>2. CallInv /\ [Next]_vars => [~consumer => Promised!FanoutNext]_(Promised!fanoutVars)
  BY UndisturbedStep DEF CallInv, PromisedStep
<1> QED
  BY <1>1, <1>2, CallInvariant, PTL DEF Spec, Implements
=============================================================================
