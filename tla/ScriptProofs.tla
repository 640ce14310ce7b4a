---------------------------- MODULE ScriptProofs ----------------------------
(***************************************************************************)
(* Proofs about the two loops that call script while script changes what   *)
(* they go over.                                                           *)
(*                                                                         *)
(* TreeEvents: for every number of registrations and every tree shape,     *)
(* walking the lists by index while they shrink keeps ListenerContract,    *)
(* and skips nobody.                                                       *)
(*                                                                         *)
(* CustomElements: what the callbacks tell, for every page, any number of  *)
(* elements and calls nested to any depth.  The invariant IInv follows     *)
(* each element: the story its callbacks were told so far, continued by    *)
(* the reactions in its queue (Story), ends at what the record says; the   *)
(* record is about the page as it is.  What the queue needs is below on    *)
(* the stack: a frame for everything that hangs half-way.  An upgrade's    *)
(* own frames (FrameFits) carry the story while the queue waits behind     *)
(* them.                                                                   *)
(***************************************************************************)
EXTENDS TreeEvents, CustomElements, ListFacts

-----------------------------------------------------------------------------
(* Listeners of the tree: the invariant of the walk.                        *)


Registration == [target : Node, capture : BOOLEAN, once : BOOLEAN]
Stopover == [phase : {"capturing", "target", "bubbling"}, node : Node]

TreeTypes ==
  /\ next_id \in 0..MaxListeners
  /\ info \in [Id -> Registration]
  /\ listeners \in [Node -> Seq(Id)]
  /\ frame \in [order : Seq(Stopover), at : Nat, i : Nat, n : Nat, running : BOOLEAN,
                called : Seq(Id), before : SUBSET Id]

\* A number stands in one list, once, and that list is where it was registered.
ListedOnce ==
  \A t \in Node :
    /\ IsInjective(listeners[t])
    /\ \A id \in Range(listeners[t]) : id < next_id /\ info[id].target = t

\* The index of a running listener is an index of the list.
RunsWhereListed ==
  /\ frame.at <= Len(frame.order)
  /\ frame.running => frame.at > 0 /\ frame.i < Len(listeners[Here.node])

TreeEventsInv == TreeTypes /\ ListedOnce /\ RunsWhereListed

-----------------------------------------------------------------------------
(* Lists without repetition.                                                *)

\* A new number at the end keeps a list without repetitions.
LEMMA AppendingOne ==
  ASSUME NEW S, NEW s \in Seq(S), IsInjective(s), NEW x \in S, x \notin Range(s)
  PROVE  /\ Append(s, x) \in Seq(S)
         /\ IsInjective(Append(s, x))
         /\ Range(Append(s, x)) = Range(s) \cup {x}
<1> DEFINE a == Append(s, x)
<1>1. /\ a \in Seq(S) /\ DOMAIN a = 1..(Len(s) + 1) /\ DOMAIN s = 1..Len(s)
      /\ Len(s) \in Nat
      /\ a[Len(s) + 1] = x /\ \A k \in DOMAIN s : a[k] = s[k]
  OBVIOUS
<1> HIDE DEF a
<1>2. \A k \in DOMAIN s : k \in DOMAIN a /\ s[k] # x
  BY <1>1 DEF Range
<1>3. \A k \in DOMAIN a : k \in DOMAIN s \/ k = Len(s) + 1
  BY <1>1
<1>4. IsInjective(a)
  BY <1>1, <1>2, <1>3 DEF IsInjective
<1>5. Len(s) + 1 \in DOMAIN a
  BY <1>1
<1>6. Range(a) = Range(s) \cup {x}
  BY <1>1, <1>2, <1>3, <1>5 DEF Range
<1> QED
  BY <1>1, <1>4, <1>6 DEF a

\* Without place k, what came after it moves up.
LEMMA TakingIs ==
  ASSUME NEW S, NEW s \in Seq(S), NEW k \in DOMAIN s
  PROVE  /\ Len(s) \in Nat /\ k \in 1..Len(s) /\ DOMAIN s = 1..Len(s)
         /\ RemoveAt(s, k) \in Seq(S) /\ Len(RemoveAt(s, k)) = Len(s) - 1
         /\ DOMAIN RemoveAt(s, k) = 1..(Len(s) - 1)
         /\ \A j \in 1..(Len(s) - 1) : RemoveAt(s, k)[j] = s[IF j < k THEN j ELSE j + 1]
<1> DEFINE r == RemoveAt(s, k)
           Was(j) == IF j < k THEN j ELSE j + 1
<1>1. Len(s) \in Nat /\ k \in 1..Len(s) /\ DOMAIN s = 1..Len(s)
  OBVIOUS
<1>2. /\ r \in Seq(S) /\ Len(r) = Len(s) - 1 /\ DOMAIN r = 1..(Len(s) - 1)
      /\ \A j \in 1..(Len(s) - 1) : r[j] = s[Was(j)]
  <2> DEFINE a == SubSeq(s, 1, k - 1)
             c == SubSeq(s, k + 1, Len(s))
  <2>1. a \in Seq(S) /\ Len(a) = k - 1 /\ \A j \in 1..(k - 1) : a[j] = s[j]
    BY <1>1
  <2>2. c \in Seq(S) /\ Len(c) = Len(s) - k /\ \A j \in 1..(Len(s) - k) : c[j] = s[j + k]
    BY <1>1
  <2>3. r = a \o c
    BY DEF RemoveAt
  <2> HIDE DEF a, c, r
  <2>4. /\ r \in Seq(S) /\ Len(r) = Len(s) - 1 /\ DOMAIN r = 1..Len(r)
        /\ \A j \in 1..Len(r) : r[j] = IF j < k THEN a[j] ELSE c[j - (k - 1)]
    <3>1. a \in Seq(S) /\ c \in Seq(S)
      BY <2>1, <2>2
    <3>2. r \in Seq(S) /\ Len(r) = Len(a) + Len(c)
      BY <2>3, <3>1, ConcatProperties
    <3>3. \A j \in 1..(Len(a) + Len(c)) : r[j] = IF j <= Len(a) THEN a[j] ELSE c[j - Len(a)]
      BY <2>3, <3>1, ConcatProperties, Zenon
    <3>4. DOMAIN r = 1..Len(r)
      BY <3>2
    <3>5. k \in Nat /\ Len(s) \in Nat /\ Len(a) + Len(c) = Len(s) - 1
      BY <1>1, <2>1, <2>2
    <3>6. \A j \in 1..Len(r) : j < k <=> j <= Len(a)
      BY <2>1, <3>2, <3>5
    <3> QED
      BY <2>1, <3>2, <3>3, <3>4, <3>5, <3>6
  <2>5. ASSUME NEW j \in 1..(Len(s) - 1) PROVE r[j] = s[Was(j)]
    <3>1. CASE j < k
      BY <1>1, <2>1, <2>4, <3>1
    <3>2. CASE ~(j < k)
      <4>1. j - (k - 1) \in 1..(Len(s) - k) /\ j - (k - 1) + k = j + 1
        BY <1>1, <3>2
      <4>2. r[j] = c[j - (k - 1)]
        BY <1>1, <2>4, <3>2
      <4> QED
        BY <4>1, <4>2, <2>2, <3>2
    <3> QED
      BY <3>1, <3>2
  <2> QED
    BY <2>4, <2>5
<1> QED
  BY <1>1, <1>2

\* Taking out a place keeps a list without repetitions, without what stood there.
LEMMA TakingOne ==
  ASSUME NEW S, NEW s \in Seq(S), IsInjective(s), NEW k \in DOMAIN s
  PROVE  /\ RemoveAt(s, k) \in Seq(S)
         /\ IsInjective(RemoveAt(s, k))
         /\ Range(RemoveAt(s, k)) = Range(s) \ {s[k]}
<1> DEFINE r == RemoveAt(s, k)
           Was(j) == IF j < k THEN j ELSE j + 1
           Is(j) == IF j < k THEN j ELSE j - 1
<1>1. Len(s) \in Nat /\ k \in 1..Len(s) /\ DOMAIN s = 1..Len(s)
  OBVIOUS
<1>2. /\ r \in Seq(S) /\ DOMAIN r = 1..(Len(s) - 1)
      /\ \A j \in 1..(Len(s) - 1) : r[j] = s[Was(j)]
  BY TakingIs
<1> HIDE DEF r
<1>3. \A j \in DOMAIN r : Was(j) \in DOMAIN s /\ Was(j) # k
  BY <1>1, <1>2
<1>4. \A j, l \in DOMAIN r : Was(j) = Was(l) => j = l
  BY <1>1, <1>2
<1>5. \A j \in DOMAIN s : j # k => Is(j) \in DOMAIN r /\ Was(Is(j)) = j
  BY <1>1, <1>2
<1> HIDE DEF Was, Is
<1>6. IsInjective(r)
  BY <1>2, <1>3, <1>4 DEF IsInjective
<1>7. Range(r) \subseteq Range(s) \ {s[k]}
  BY <1>2, <1>3 DEF Range, IsInjective
<1>8. Range(s) \ {s[k]} \subseteq Range(r)
  <2> SUFFICES ASSUME NEW j \in DOMAIN s, s[j] # s[k] PROVE s[j] \in Range(r)
    BY DEF Range
  <2>1. Is(j) \in DOMAIN r /\ r[Is(j)] = s[j]
    BY <1>2, <1>5
  <2> QED
    BY <2>1 DEF Range
<1> QED
  BY <1>2, <1>6, <1>7, <1>8 DEF r

-----------------------------------------------------------------------------
(* The path and the visits to it.                                           *)

\* A path has a first node.
LEMMA PathTypes ==
  ASSUME NEW t \in Node
  PROVE  Path(t) \in Seq(Node) /\ Path(t) # <<>>
<1>1. Root \in Node /\ Middle \in Node /\ Leaf \in Node
  BY DEF Node
<1>2. \A a, b, c \in Node :
        /\ <<a>> \in Seq(Node) /\ <<a, b>> \in Seq(Node) /\ <<a, b, c>> \in Seq(Node)
        /\ <<a>> # <<>> /\ <<a, b>> # <<>> /\ <<a, b, c>> # <<>>
  OBVIOUS
<1>3. \/ Path(t) = <<Root>> \/ Path(t) = <<Middle, Root>>
      \/ Path(t) = <<Leaf>> \/ Path(t) = <<Leaf, Root>>
      \/ Path(t) = <<Leaf, Middle, Root>>
  BY DEF Path
<1> QED
  BY <1>1, <1>2, <1>3

\* No node is on a path twice.
LEMMA PathRepeatsNothing ==
  ASSUME NEW t \in Node
  PROVE  IsInjective(Path(t))
<1>1. \A a, b, c \in Node :
        /\ DOMAIN <<a>> = {1} /\ DOMAIN <<a, b>> = {1, 2} /\ DOMAIN <<a, b, c>> = {1, 2, 3}
        /\ <<a, b>>[1] = a /\ <<a, b>>[2] = b
        /\ <<a, b, c>>[1] = a /\ <<a, b, c>>[2] = b /\ <<a, b, c>>[3] = c
  OBVIOUS
<1>2. \A a, b, c \in Node :
        /\ IsInjective(<<a>>)
        /\ a # b => IsInjective(<<a, b>>)
        /\ a # b /\ a # c /\ b # c => IsInjective(<<a, b, c>>)
  BY <1>1 DEF IsInjective
<1>3. \/ Path(t) = <<Root>> \/ Path(t) = <<Middle, Root>>
      \/ Path(t) = <<Leaf>> \/ Path(t) = <<Leaf, Root>>
      \/ Path(t) = <<Leaf, Middle, Root>>
  BY DEF Path
<1> QED
  BY <1>2, <1>3, ListenersAssumption DEF Node

\* The visits of one phase, node by node.
LEMMA VisitsAre ==
  ASSUME NEW p \in {"capturing", "target", "bubbling"}, NEW s \in Seq(Node)
  PROVE  /\ Visits(p, s) \in Seq(Stopover) /\ Len(Visits(p, s)) = Len(s)
         /\ \A k \in 1..Len(s) : Visits(p, s)[k] = [phase |-> p, node |-> s[k]]
<1>1. Len(s) \in Nat /\ DOMAIN s = 1..Len(s) /\ \A k \in 1..Len(s) : s[k] \in Node
  OBVIOUS
<1>2. Visits(p, s) = [k \in 1..Len(s) |-> [phase |-> p, node |-> s[k]]]
  BY <1>1 DEF Visits
<1>3. \A n \in Node : [phase |-> p, node |-> n] \in Stopover
  BY DEF Stopover
<1>4. \A f \in [1..Len(s) -> Stopover] : f \in Seq(Stopover) /\ Len(f) = Len(s)
  BY <1>1
<1>5. Visits(p, s) \in [1..Len(s) -> Stopover]
  BY <1>1, <1>2, <1>3
<1> QED
  BY <1>2, <1>4, <1>5

\* An order is a list of visits.
LEMMA OrderTypes ==
  ASSUME NEW path \in Seq(Node), path # <<>>, NEW b
  PROVE  Order(path, b) \in Seq(Stopover)
<1>1. \A p \in {"capturing", "target", "bubbling"}, s \in Seq(Node) :
        Visits(p, s) \in Seq(Stopover)
  BY VisitsAre
<1>2. Tail(path) \in Seq(Node) /\ <<Head(path)>> \in Seq(Node)
  OBVIOUS
<1>3. \A s \in Seq(Node) : Reverse(s) \in Seq(Node)
  <2> TAKE s \in Seq(Node)
  <2>1. Len(s) \in Nat /\ \A i \in 1..Len(s) : s[Len(s) - i + 1] \in Node
    OBVIOUS
  <2> QED
    BY <2>1 DEF Reverse
<1>4. <<>> \in Seq(Stopover) /\ \A a, c \in Seq(Stopover) : a \o c \in Seq(Stopover)
  OBVIOUS
<1>5. /\ Visits("capturing", Reverse(Tail(path))) \in Seq(Stopover)
      /\ Visits("target", <<Head(path)>>) \in Seq(Stopover)
      /\ Visits("bubbling", Tail(path)) \in Seq(Stopover)
  BY <1>1, <1>2, <1>3
<1> QED
  BY <1>4, <1>5 DEF Order

\* Inwards along the path, the target, outwards.
LEMMA OrderIs ==
  ASSUME NEW path \in Seq(Node), path # <<>>, NEW b, NEW k \in DOMAIN Order(path, b)
  PROVE  /\ k \in Nat \ {0} /\ Len(path) \in Nat \ {0}
         /\ \/ /\ k < Len(path)
               /\ Order(path, b)[k] = [phase |-> "capturing", node |-> path[Len(path) + 1 - k]]
            \/ /\ k = Len(path)
               /\ Order(path, b)[k] = [phase |-> "target", node |-> path[1]]
            \/ /\ k > Len(path) /\ k < 2 * Len(path)
               /\ Order(path, b)[k] = [phase |-> "bubbling", node |-> path[k - Len(path) + 1]]
<1> DEFINE L == Len(path)
           c == Visits("capturing", Reverse(Tail(path)))
           m == Visits("target", <<Head(path)>>)
           u == IF b THEN Visits("bubbling", Tail(path)) ELSE <<>>
           cm == c \o m
           o == Order(path, b)
<1>1. /\ L \in Nat \ {0} /\ DOMAIN path = 1..L
      /\ Tail(path) \in Seq(Node) /\ Len(Tail(path)) = L - 1
      /\ \A j \in 1..(L - 1) : Tail(path)[j] = path[j + 1]
      /\ Head(path) = path[1] /\ path[1] \in Node
  OBVIOUS
<1>2. /\ Reverse(Tail(path)) \in Seq(Node) /\ Len(Reverse(Tail(path))) = L - 1
      /\ \A j \in 1..(L - 1) : Reverse(Tail(path))[j] = path[L + 1 - j]
  <2> DEFINE s == Tail(path)
  <2>1. Reverse(s) = [j \in 1..(L - 1) |-> s[L - 1 - j + 1]]
    BY <1>1 DEF Reverse
  <2>2. \A j \in 1..(L - 1) : L - 1 - j + 1 \in 1..(L - 1) /\ L - 1 - j + 1 + 1 = L + 1 - j
    BY <1>1
  <2>3. \A j \in 1..(L - 1) : s[L - 1 - j + 1] = path[L + 1 - j] /\ s[L - 1 - j + 1] \in Node
    BY <1>1, <2>2
  <2>4. Reverse(s) \in [1..(L - 1) -> Node]
    BY <2>1, <2>3
  <2>5. ASSUME NEW f \in [1..(L - 1) -> Node] PROVE f \in Seq(Node) /\ Len(f) = L - 1
    <3>1. L - 1 \in Nat
      BY <1>1
    <3> HIDE DEF L
    <3> QED BY <3>1
  <2> QED BY <2>1, <2>3, <2>4, <2>5
<1>3. /\ c \in Seq(Stopover) /\ Len(c) = L - 1
      /\ \A j \in 1..(L - 1) : c[j] = [phase |-> "capturing", node |-> path[L + 1 - j]]
  BY <1>2, VisitsAre
<1>4. m \in Seq(Stopover) /\ Len(m) = 1 /\ m[1] = [phase |-> "target", node |-> path[1]]
  <2>1. <<Head(path)>> \in Seq(Node) /\ Len(<<Head(path)>>) = 1 /\ <<Head(path)>>[1] = path[1]
    BY <1>1
  <2>2. 1 \in 1..1
    OBVIOUS
  <2>3. m \in Seq(Stopover) /\ Len(m) = Len(<<Head(path)>>)
        /\ \A j \in 1..Len(<<Head(path)>>) : m[j] = [phase |-> "target", node |-> <<Head(path)>>[j]]
    BY <2>1, VisitsAre
  <2> HIDE DEF m
  <2> QED BY <2>1, <2>2, <2>3
<1>5. /\ u \in Seq(Stopover) /\ Len(u) <= L - 1
      /\ \A j \in 1..Len(u) : u[j] = [phase |-> "bubbling", node |-> path[j + 1]]
  <2>1. CASE b
    <3>1. u = Visits("bubbling", Tail(path))
      BY <2>1
    <3>2. /\ u \in Seq(Stopover) /\ Len(u) = Len(Tail(path))
          /\ \A j \in 1..Len(Tail(path)) : u[j] = [phase |-> "bubbling", node |-> Tail(path)[j]]
      <4> HIDE DEF u
      <4>1. Tail(path) \in Seq(Node)
        BY <1>1
      <4> QED BY <3>1, <4>1, VisitsAre
    <3> HIDE DEF u
    <3> QED BY <1>1, <3>2
  <2>2. CASE ~b
    <3>1. u = <<>>
      BY <2>2
    <3> HIDE DEF u
    <3> QED BY <1>1, <3>1
  <2> QED BY <2>1, <2>2
<1>6. o = cm \o u
  BY DEF Order
<1> HIDE DEF c, m, u, o, L
<1>7. /\ cm \in Seq(Stopover) /\ Len(cm) = L
      /\ \A j \in 1..L : cm[j] = IF j <= L - 1 THEN c[j] ELSE m[j - (L - 1)]
  <2>1. Len(cm) = Len(c) + Len(m) /\ cm \in Seq(Stopover)
        /\ \A j \in 1..(Len(c) + Len(m)) : cm[j] = IF j <= Len(c) THEN c[j] ELSE m[j - Len(c)]
    BY <1>3, <1>4, ConcatProperties, Zenon
  <2> HIDE DEF cm
  <2> QED BY <2>1, <1>1, <1>3, <1>4
<1> HIDE DEF cm
<1>8. /\ o \in Seq(Stopover) /\ Len(o) = L + Len(u)
      /\ \A j \in 1..(L + Len(u)) : o[j] = IF j <= L THEN cm[j] ELSE u[j - L]
  <2>1. Len(o) = Len(cm) + Len(u) /\ o \in Seq(Stopover)
        /\ \A j \in 1..(Len(cm) + Len(u)) : o[j] = IF j <= Len(cm) THEN cm[j] ELSE u[j - Len(cm)]
    BY <1>5, <1>6, <1>7, ConcatProperties, Zenon
  <2> QED BY <2>1, <1>6, <1>7
<1>9. k \in 1..(L + Len(u)) /\ Len(u) \in Nat
  <2>1. k \in DOMAIN o
    BY DEF o
  <2> QED BY <2>1, <1>5, <1>8
<1>10. CASE k < L
  <2>1. k \in 1..(L - 1) /\ k <= L - 1 /\ k \in 1..L
    BY <1>1, <1>9, <1>10
  <2>2. o[k] = c[k]
    BY <1>1, <1>7, <1>8, <1>9, <2>1
  <2>3. o[k] = [phase |-> "capturing", node |-> path[L + 1 - k]]
    BY <1>3, <2>1, <2>2
  <2> QED BY <1>1, <1>9, <1>10, <2>3 DEF o, L
<1>11. CASE k = L
  <2>1. k \in 1..L /\ ~(k <= L - 1) /\ k - (L - 1) = 1
    BY <1>1, <1>9, <1>11
  <2>2. o[k] = m[1]
    BY <1>1, <1>7, <1>8, <1>9, <2>1, <1>11
  <2> QED BY <1>1, <1>4, <1>9, <1>11, <2>2 DEF o, L
<1>12. CASE k > L
  <2>1. k - L \in 1..Len(u) /\ k < 2 * L
    BY <1>1, <1>5, <1>9, <1>12
  <2>2. o[k] = u[k - L]
    BY <1>1, <1>8, <1>9, <1>12
  <2> QED BY <1>1, <1>5, <1>9, <1>12, <2>1, <2>2 DEF o, L
<1> QED
  BY <1>1, <1>9, <1>10, <1>11, <1>12

\* Whoever is visited twice is visited once in each direction.
LEMMA OrderRepeats ==
  ASSUME NEW t \in Node, NEW b,
         NEW j \in DOMAIN Order(Path(t), b), NEW k \in DOMAIN Order(Path(t), b), j # k,
         Order(Path(t), b)[j].node = Order(Path(t), b)[k].node
  PROVE  /\ Order(Path(t), b)[j].phase # "target" /\ Order(Path(t), b)[k].phase # "target"
         /\ Order(Path(t), b)[j].phase = "capturing" <=> Order(Path(t), b)[k].phase # "capturing"
<1> DEFINE path == Path(t)
           o == Order(path, b)
           L == Len(path)
<1>1. path \in Seq(Node) /\ path # <<>> /\ IsInjective(path)
  BY PathTypes, PathRepeatsNothing
<1>2. L \in Nat \ {0} /\ \A p, q \in 1..L : path[p] = path[q] => p = q
  BY <1>1 DEF IsInjective
<1>3. o[j].node = o[k].node
  OBVIOUS
<1> HIDE DEF path
<1>4. \A i \in {j, k} :
        /\ i \in Nat \ {0}
        /\ \/ i < L /\ o[i].phase = "capturing" /\ o[i].node = path[L + 1 - i]
           \/ i = L /\ o[i].phase = "target" /\ o[i].node = path[1]
           \/ i > L /\ i < 2 * L /\ o[i].phase = "bubbling" /\ o[i].node = path[i - L + 1]
  <2> SUFFICES ASSUME NEW i \in {j, k}
               PROVE  /\ i \in Nat \ {0}
                      /\ \/ i < L /\ o[i].phase = "capturing" /\ o[i].node = path[L + 1 - i]
                         \/ i = L /\ o[i].phase = "target" /\ o[i].node = path[1]
                         \/ i > L /\ i < 2 * L /\ o[i].phase = "bubbling" /\ o[i].node = path[i - L + 1]
    OBVIOUS
  <2>1. i \in DOMAIN Order(path, b)
    BY DEF path
  <2> QED BY <1>1, <2>1, OrderIs
<1> HIDE DEF o, L
<1>5. ASSUME NEW i \in Nat \ {0} PROVE
        /\ i < L => L + 1 - i \in 1..L /\ L + 1 - i # 1
        /\ i > L /\ i < 2 * L => i - L + 1 \in 1..L /\ i - L + 1 # 1
        /\ 1 \in 1..L
  BY <1>2
<1>6. ASSUME NEW p \in {j, k}, NEW q \in {j, k}, p # q, o[p].phase = "target" PROVE FALSE
  <2>1. p \in Nat /\ q \in Nat /\ p = L /\ o[p].node = path[1] /\ o[p].node = o[q].node
    BY <1>3, <1>4, <1>6
  <2>2. CASE q < L
    <3>1. o[q].node = path[L + 1 - q]
      BY <1>2, <1>4, <2>1, <2>2
    <3>2. L + 1 - q \in 1..L /\ L + 1 - q # 1 /\ 1 \in 1..L
      BY <1>4, <1>5, <2>2
    <3> QED BY <1>2, <2>1, <3>1, <3>2
  <2>3. CASE q > L
    <3>1. o[q].node = path[q - L + 1] /\ q < 2 * L
      BY <1>2, <1>4, <2>1, <2>3
    <3>2. q - L + 1 \in 1..L /\ q - L + 1 # 1 /\ 1 \in 1..L
      BY <1>4, <1>5, <2>3, <3>1
    <3> QED BY <1>2, <2>1, <3>1, <3>2
  <2> QED BY <1>2, <1>6, <2>1, <2>2, <2>3
<1>7. ASSUME o[j].phase = o[k].phase PROVE FALSE
  <2>1. CASE o[j].phase = "capturing"
    <3>1. L + 1 - j \in 1..L /\ L + 1 - k \in 1..L /\ path[L + 1 - j] = path[L + 1 - k]
      BY <1>3, <1>4, <1>5, <1>7, <2>1
    <3> QED BY <1>2, <1>4, <3>1
  <2>2. CASE o[j].phase = "bubbling"
    <3>1. j - L + 1 \in 1..L /\ k - L + 1 \in 1..L /\ path[j - L + 1] = path[k - L + 1]
      BY <1>3, <1>4, <1>5, <1>7, <2>2
    <3> QED BY <1>2, <1>4, <3>1
  <2> QED BY <1>4, <1>6, <2>1, <2>2
<1>8. o[j].phase # "target" /\ o[k].phase # "target"
  BY <1>6
<1>9. o[j].phase \in {"capturing", "bubbling"} /\ o[k].phase \in {"capturing", "bubbling"}
  BY <1>4, <1>8
<1> QED
  BY <1>7, <1>8, <1>9 DEF o, path

\* Where the walk is.
LEMMA VisitTypes ==
  ASSUME TreeEventsInv, frame.at > 0
  PROVE  Here \in Stopover /\ Here.node \in Node
<1>1. /\ frame.order \in Seq(Stopover) /\ frame.at \in Nat
      /\ frame.at > 0 /\ frame.at <= Len(frame.order)
  BY DEF TreeEventsInv, TreeTypes, RunsWhereListed
<1>2. Here \in Stopover
  BY <1>1 DEF Here
<1> QED
  BY <1>2 DEF Stopover

\* What stands at the index is a number that was handed out.
LEMMA CurrentTypes ==
  ASSUME TreeEventsInv, frame.at > 0, frame.i < Len(listeners[Here.node])
  PROVE  /\ Here.node \in Node
         /\ frame.i + 1 \in DOMAIN listeners[Here.node]
         /\ Current \in Range(listeners[Here.node])
         /\ Current \in Id /\ Current < next_id
<1>1. Here.node \in Node
  BY VisitTypes
<1>2. listeners[Here.node] \in Seq(Id) /\ frame.i \in Nat
  BY <1>1 DEF TreeEventsInv, TreeTypes
<1>3. frame.i + 1 \in DOMAIN listeners[Here.node]
  BY <1>2
<1>4. Current \in Range(listeners[Here.node]) /\ Current \in Id
  BY <1>2, <1>3 DEF Current, Range
<1> QED
  BY <1>1, <1>3, <1>4 DEF TreeEventsInv, ListedOnce

-----------------------------------------------------------------------------
(* What the steps do to the lists.                                          *)

\* All other lists keep their numbers.
LEMMA ListTaken ==
  ASSUME TreeEventsInv, NEW t \in Node, NEW k \in DOMAIN listeners[t],
         listeners' = [listeners EXCEPT ![t] = RemoveAt(@, k)], UNCHANGED <<next_id, info>>
  PROVE  /\ listeners' \in [Node -> Seq(Id)]
         /\ ListedOnce'
         /\ All' = All \ {listeners[t][k]}
<1> DEFINE id == listeners[t][k]
<1>1. /\ listeners \in [Node -> Seq(Id)] /\ listeners[t] \in Seq(Id)
      /\ \A u \in Node : IsInjective(listeners[u])
      /\ \A u \in Node : \A l \in Range(listeners[u]) : l < next_id /\ info[l].target = u
  BY DEF TreeEventsInv, TreeTypes, ListedOnce
<1>2. /\ RemoveAt(listeners[t], k) \in Seq(Id)
      /\ IsInjective(RemoveAt(listeners[t], k))
      /\ Range(RemoveAt(listeners[t], k)) = Range(listeners[t]) \ {id}
  BY <1>1, TakingOne
<1>3. /\ listeners'[t] = RemoveAt(listeners[t], k)
      /\ \A u \in Node : u # t => listeners'[u] = listeners[u]
  BY <1>1
<1>4. id \in Range(listeners[t])
  BY DEF Range
<1> HIDE DEF id
<1>5. listeners' \in [Node -> Seq(Id)]
  BY <1>1, <1>2
<1>6. \A u \in Node : IsInjective(listeners'[u]) /\ Range(listeners'[u]) = Range(listeners[u]) \ {id}
  <2> TAKE u \in Node
  <2>1. CASE u = t
    BY <1>2, <1>3, <2>1
  <2>2. CASE u # t
    BY <1>1, <1>3, <1>4, <2>2
  <2> QED
    BY <2>1, <2>2
<1>7. ListedOnce'
  BY <1>1, <1>6 DEF ListedOnce
<1>8. All' = All \ {id}
  BY <1>6 DEF All
<1> QED
  BY <1>5, <1>7, <1>8 DEF id

\* Only the list at the target gets the new number.
LEMMA ListGrown ==
  ASSUME TreeEventsInv, NEW o \in Offer, AddEventListener(o)
  PROVE  /\ TreeTypes' /\ ListedOnce'
         /\ All' = All \cup {next_id}
         /\ next_id \in Id /\ info'[next_id] = o
         /\ \A id \in Id : id # next_id => info'[id] = info[id]
<1> DEFINE t == o.target
<1>1. o \in Registration /\ t \in Node
  BY ListenersAssumption DEF Registration
<1>2. next_id \in Id /\ next_id' \in 0..MaxListeners /\ next_id' = next_id + 1
  BY ListenersAssumption DEF AddEventListener, TreeEventsInv, TreeTypes, Id
<1>3. /\ info \in [Id -> Registration] /\ info' = [info EXCEPT ![next_id] = o]
      /\ listeners \in [Node -> Seq(Id)] /\ listeners[t] \in Seq(Id)
      /\ listeners' = [listeners EXCEPT ![t] = Append(@, next_id)]
      /\ frame' = frame
      /\ \A u \in Node : IsInjective(listeners[u])
      /\ \A u \in Node : \A l \in Range(listeners[u]) :
           l \in Id /\ l < next_id /\ info[l].target = u
  BY <1>1 DEF AddEventListener, TreeEventsInv, TreeTypes, ListedOnce, Range
<1>4. /\ info' \in [Id -> Registration] /\ info'[next_id] = o
      /\ \A id \in Id : id # next_id => info'[id] = info[id]
  BY <1>1, <1>2, <1>3
<1>5. \A l \in Id : l < next_id => l # next_id /\ l < next_id'
  BY <1>2 DEF Id
<1>6. /\ Append(listeners[t], next_id) \in Seq(Id)
      /\ IsInjective(Append(listeners[t], next_id))
      /\ Range(Append(listeners[t], next_id)) = Range(listeners[t]) \cup {next_id}
  <2>1. next_id \notin Range(listeners[t])
    BY <1>1, <1>3, <1>5
  <2> QED
    BY <1>1, <1>2, <1>3, <2>1, AppendingOne
<1>7. /\ listeners'[t] = Append(listeners[t], next_id)
      /\ \A u \in Node : u # t => listeners'[u] = listeners[u]
  BY <1>1, <1>3
<1>8. listeners' \in [Node -> Seq(Id)]
  BY <1>1, <1>3, <1>6
<1>9. t = info'[next_id].target
  BY <1>4
<1>10. TreeTypes'
  BY <1>2, <1>3, <1>4, <1>8 DEF TreeEventsInv, TreeTypes
<1> HIDE DEF t
<1>11. next_id < next_id'
  BY <1>2 DEF Id
<1>12. \A u \in Node :
         /\ IsInjective(listeners'[u])
         /\ Range(listeners'[u]) = Range(listeners[u]) \cup (IF u = t THEN {next_id} ELSE {})
  <2> TAKE u \in Node
  <2>1. CASE u = t
    BY <1>6, <1>7, <2>1
  <2>2. CASE u # t
    BY <1>3, <1>7, <2>2
  <2> QED
    BY <2>1, <2>2
<1>13. ListedOnce'
  <2> SUFFICES ASSUME NEW u \in Node, NEW l \in Range(listeners'[u])
               PROVE  l < next_id' /\ info'[l].target = u
    BY <1>12 DEF ListedOnce
  <2>1. CASE l \in Range(listeners[u])
    BY <2>1, <1>3, <1>4, <1>5
  <2>2. CASE l = next_id /\ u = t
    BY <2>2, <1>9, <1>11
  <2> QED
    BY <2>1, <2>2, <1>12
<1>14. All' = All \cup {next_id}
  BY <1>1, <1>2, <1>12 DEF All, t
<1> QED
  BY <1>2, <1>4, <1>10, <1>13, <1>14

\* Between dispatches no handler runs.
LEMMA IdleRunsNothing ==
  ASSUME TreeEventsInv, ~Dispatching
  PROVE  frame.at = 0 /\ ~frame.running
BY DEF TreeEventsInv, TreeTypes, RunsWhereListed, Dispatching

-----------------------------------------------------------------------------
(* The invariant.                                                           *)

\* Steps that leave the registry alone and run nothing.
LEMMA FrameChanges ==
  ASSUME TreeEventsInv, UNCHANGED <<next_id, info, listeners>>,
         frame' \in [order : Seq(Stopover), at : Nat, i : Nat, n : Nat, running : BOOLEAN,
                     called : Seq(Id), before : SUBSET Id],
         frame'.at <= Len(frame'.order), ~frame'.running
  PROVE  TreeEventsInv'
BY DEF TreeEventsInv, TreeTypes, ListedOnce, RunsWhereListed

\* Every step keeps the walk on its path and in its lists.
LEMMA StepKeepsInv ==
  ASSUME TreeEventsInv, TreeEventsNext
  PROVE  TreeEventsInv'
<1> DEFINE F == [order : Seq(Stopover), at : Nat, i : Nat, n : Nat, running : BOOLEAN,
                 called : Seq(Id), before : SUBSET Id]
<1>0. /\ frame \in F /\ frame.at <= Len(frame.order)
      /\ listeners \in [Node -> Seq(Id)] /\ next_id \in 0..MaxListeners
      /\ info \in [Id -> Registration]
  BY DEF TreeEventsInv, TreeTypes, RunsWhereListed
<1>1. ASSUME NEW o \in Offer, AddEventListener(o)
      PROVE  TreeEventsInv'
  <2>1. ~frame.running /\ frame' = frame
    BY <1>1, IdleRunsNothing DEF AddEventListener
  <2> QED
    BY <1>0, <1>1, <2>1, ListGrown DEF TreeEventsInv, RunsWhereListed
<1>2. ASSUME NEW t \in Node, NEW id \in Id, RemoveEventListener(t, id)
      PROVE  TreeEventsInv'
  <2>1. ~frame.running /\ UNCHANGED <<next_id, info, frame>>
    BY <1>2, IdleRunsNothing DEF RemoveEventListener
  <2>2. PICK k \in DOMAIN listeners[t] :
          listeners' = [listeners EXCEPT ![t] = RemoveAt(@, k)]
    BY <1>2 DEF RemoveEventListener
  <2>3. listeners' \in [Node -> Seq(Id)] /\ ListedOnce'
    BY <2>1, <2>2, ListTaken
  <2> QED
    BY <1>0, <2>1, <2>3 DEF TreeEventsInv, TreeTypes, RunsWhereListed
<1>3. ASSUME UNCHANGED <<next_id, info, listeners, frame>>
      PROVE  TreeEventsInv'
  BY <1>3 DEF TreeEventsInv, TreeTypes, ListedOnce, RunsWhereListed, Here
<1>4. ASSUME NEW t \in Node, DispatchEvent(t)
      PROVE  TreeEventsInv'
  <2> DEFINE order == Order(Path(t), event.bubbles)
  <2>1. order \in Seq(Stopover)
    BY <1>4, PathTypes, OrderTypes
  <2>2. All \in SUBSET Id
    BY DEF All
  <2>3. frame' = [Idle EXCEPT !.order = order, !.before = All]
        /\ UNCHANGED <<next_id, info, listeners>>
    BY <1>4 DEF DispatchEvent
  <2> HIDE DEF order
  <2>4. frame' \in F /\ frame'.at = 0 /\ ~frame'.running /\ frame'.order = order
    <3>1. Idle \in F /\ Idle.at = 0 /\ ~Idle.running
      BY DEF Idle
    <3> QED
      BY <2>1, <2>2, <2>3, <3>1
  <2>5. frame'.at <= Len(frame'.order)
    BY <2>1, <2>4
  <2> QED
    BY <2>3, <2>4, <2>5, FrameChanges
<1>5. ASSUME Pass
      PROVE  TreeEventsInv'
  <2>1. ~frame.running /\ frame' = [frame EXCEPT !.i = frame.i + 1]
    BY <1>5 DEF Pass, Walking
  <2>2. frame.i + 1 \in Nat
    BY <1>0
  <2>3. frame' \in F /\ ~frame'.running /\ frame'.at = frame.at /\ frame'.order = frame.order
    BY <1>0, <2>1, <2>2
  <2> QED
    BY <1>0, <1>5, <2>3, FrameChanges DEF Pass
<1>6. ASSUME Invoke
      PROVE  TreeEventsInv'
  <2>1. frame.at > 0 /\ frame.i < Len(listeners[Here.node])
        /\ frame' = [frame EXCEPT !.running = TRUE, !.called = Append(@, Current)]
        /\ UNCHANGED <<next_id, info, listeners>>
    BY <1>6 DEF Invoke, More
  <2>2. Current \in Id
    BY <2>1, CurrentTypes
  <2>3. Append(frame.called, Current) \in Seq(Id)
    BY <1>0, <2>2
  <2>4. frame' \in F /\ frame'.at = frame.at /\ frame'.order = frame.order
        /\ frame'.i = frame.i
    BY <1>0, <2>1, <2>3
  <2> QED
    BY <1>0, <2>1, <2>4 DEF TreeEventsInv, TreeTypes, ListedOnce, RunsWhereListed, Here
<1>7. ASSUME Return
      PROVE  TreeEventsInv'
  <2>1. frame.running /\ UNCHANGED <<next_id, info>>
    BY <1>7 DEF Return
  <2>2. frame.at > 0 /\ frame.i < Len(listeners[Here.node])
    BY <2>1 DEF TreeEventsInv, RunsWhereListed
  <2>3. Here.node \in Node /\ frame.i + 1 \in DOMAIN listeners[Here.node]
    BY <2>2, CurrentTypes
  <2>4. listeners' \in [Node -> Seq(Id)] /\ ListedOnce'
    <3>1. CASE info[Current].once
      <4>1. listeners' = [listeners EXCEPT ![Here.node] = RemoveAt(@, frame.i + 1)]
        BY <1>7, <3>1 DEF Return
      <4> QED
        BY <2>1, <2>3, <4>1, ListTaken
    <3>2. CASE ~info[Current].once
      <4>1. listeners' = listeners
        BY <1>7, <3>2 DEF Return
      <4> QED
        BY <1>0, <2>1, <4>1 DEF TreeEventsInv, ListedOnce
    <3> QED
      BY <3>1, <3>2
  <2>5. PICK j \in Nat : frame' = [frame EXCEPT !.running = FALSE, !.i = j]
    <3>1. frame.n \in Nat /\ frame.i \in Nat /\ frame.i + 1 \in Nat
      BY <1>0
    <3> QED
      BY <1>7, <3>1 DEF Return
  <2>6. frame' \in F /\ frame'.at = frame.at /\ frame'.order = frame.order /\ ~frame'.running
    BY <1>0, <2>5
  <2> QED
    BY <1>0, <2>1, <2>4, <2>6 DEF TreeEventsInv, TreeTypes, RunsWhereListed
<1>8. ASSUME GoOn
      PROVE  TreeEventsInv'
  <2>1. frame.at + 1 \in 1..Len(frame.order)
    BY <1>0, <1>8 DEF GoOn, Ends
  <2>2. frame.order[frame.at + 1].node \in Node
    <3>1. frame.order \in Seq(Stopover)
      BY <1>0
    <3>2. frame.order[frame.at + 1] \in Stopover
      BY <2>1, <3>1
    <3> QED
      BY <3>2 DEF Stopover
  <2> DEFINE n == Len(listeners[frame.order[frame.at + 1].node])
  <2>3. n \in Nat
    BY <1>0, <2>2
  <2>4. frame' = [frame EXCEPT !.at = @ + 1, !.i = 0, !.n = n]
        /\ ~frame.running /\ UNCHANGED <<next_id, info, listeners>>
    BY <1>8 DEF GoOn, Walking
  <2> HIDE DEF n
  <2>5. frame' \in F /\ ~frame'.running /\ frame'.at = frame.at + 1 /\ frame'.order = frame.order
    <3>1. frame.at + 1 \in Nat
      BY <1>0
    <3> QED
      BY <1>0, <2>3, <2>4, <3>1
  <2>6. frame'.at <= Len(frame'.order)
    BY <1>0, <2>1, <2>5
  <2> QED
    BY <2>4, <2>5, <2>6, FrameChanges
<1>9. ASSUME End
      PROVE  TreeEventsInv'
  <2>1. frame' = Idle /\ UNCHANGED <<next_id, info, listeners>>
    BY <1>9 DEF End
  <2>2. Idle \in F /\ ~Idle.running /\ Idle.at <= Len(Idle.order)
    BY DEF Idle
  <2> QED
    BY <2>1, <2>2, FrameChanges
<1>10. ASSUME NEW b \in BOOLEAN, NewEvent(b)
       PROVE  TreeEventsInv'
  BY <1>3, <1>10 DEF NewEvent
<1>11. ASSUME NEW now \in BOOLEAN, Stop(now)
       PROVE  TreeEventsInv'
  BY <1>3, <1>11 DEF Stop
<1>12. ASSUME NEW p \in Places, Move(p)
       PROVE  TreeEventsInv'
  BY <1>3, <1>12 DEF Move
<1> QED
  BY <1>1, <1>2, <1>4, <1>5, <1>6, <1>7, <1>8, <1>9, <1>10, <1>11, <1>12 DEF TreeEventsNext

\* The walk stays on its path and in its lists, and lists repeat no number.
THEOREM WalkInvariant == TreeEventsSpec => []TreeEventsInv
<1>1. TreeEventsInit => TreeEventsInv
  <2> SUFFICES ASSUME TreeEventsInit PROVE TreeEventsInv
    OBVIOUS
  <2>1. 0 \in 0..MaxListeners
    BY ListenersAssumption
  <2>2. [target |-> Root, capture |-> FALSE, once |-> FALSE] \in Registration
    BY DEF Registration, Node
  <2>3. <<>> \in Seq(Id) /\ <<>> \in Seq(Stopover) /\ Len(<<>>) = 0 /\ DOMAIN <<>> = {}
    OBVIOUS
  <2>4. IsInjective(<<>>) /\ Range(<<>>) = {}
    BY <2>3 DEF IsInjective, Range
  <2>5. TreeTypes
    BY <2>1, <2>2, <2>3 DEF TreeEventsInit, TreeTypes, Idle
  <2>6. ListedOnce
    BY <2>4 DEF TreeEventsInit, ListedOnce
  <2> QED
    BY <2>3, <2>5, <2>6 DEF TreeEventsInit, TreeEventsInv, RunsWhereListed, Idle
<1>2. TreeEventsInv /\ [TreeEventsNext]_treeEvents => TreeEventsInv'
  <2> SUFFICES ASSUME TreeEventsInv, [TreeEventsNext]_treeEvents PROVE TreeEventsInv'
    OBVIOUS
  <2>1. CASE TreeEventsNext
    BY <2>1, StepKeepsInv
  <2>2. CASE UNCHANGED treeEvents
    BY <2>2 DEF treeEvents, TreeEventsInv, TreeTypes, ListedOnce, RunsWhereListed, Here
  <2> QED
    BY <2>1, <2>2
<1> QED
  BY <1>1, <1>2, PTL DEF TreeEventsSpec

-----------------------------------------------------------------------------
(* The walk implements the contract.                                        *)

\* Only handed numbers stand in the lists.
LEMMA ListedWereHanded ==
  ASSUME TreeEventsInv
  PROVE  /\ All \subseteq Handed /\ Handed \subseteq Id
         /\ next_id \notin Handed /\ next_id \in Nat
<1>1. next_id \in 0..MaxListeners /\ MaxListeners \in Nat
  BY ListenersAssumption DEF TreeEventsInv, TreeTypes
<1>2. \A id \in Id : id < next_id => id \in Handed
  BY <1>1 DEF Id, Handed
<1> QED
  BY <1>1, <1>2 DEF TreeEventsInv, ListedOnce, All, Id, Handed

\* Steps that leave the registry alone and run what ran before.
LEMMA QuietStep ==
  ASSUME UNCHANGED <<next_id, info, listeners>>,
         frame'.running = frame.running,
         frame.running => frame' = frame
  PROVE  UNCHANGED Contract!contract
<1>1. All' = All /\ Handed' = Handed
  BY DEF All, Handed
<1>2. frame.running => Current' = Current
  BY DEF Current, Here
<1>3. Registered' = Registered
  BY <1>1, <1>2 DEF Registered
<1> QED
  BY <1>1, <1>2, <1>3 DEF Contract!contract

\* Adding a listener is the contract's registration.
LEMMA AddRegisters ==
  ASSUME TreeEventsInv, NEW o \in Offer, AddEventListener(o)
  PROVE  Contract!ContractNext
<1>1. ~frame.running /\ frame' = frame /\ next_id' = next_id + 1
  BY IdleRunsNothing DEF AddEventListener
<1>2. /\ All' = All \cup {next_id} /\ next_id \in Id /\ info'[next_id] = o
      /\ \A id \in Id : id # next_id => info'[id] = info[id]
  BY ListGrown
<1>3. /\ All \subseteq Handed /\ Handed \subseteq Id
      /\ next_id \notin Handed /\ next_id \in Nat
  BY ListedWereHanded
<1>4. Handed' = Handed \cup {next_id}
  BY <1>1, <1>3 DEF Handed
<1>5. Registered = All /\ Registered' = All'
  BY <1>1 DEF Registered
<1>6. o.once \in BOOLEAN
  BY ListenersAssumption
<1>7. {id \in Handed : info[id].once}'
        = IF o.once THEN {id \in Handed : info[id].once} \cup {next_id}
                    ELSE {id \in Handed : info[id].once}
  BY <1>2, <1>3, <1>4
<1>8. Contract!Register(next_id, o.once)
  BY <1>1, <1>2, <1>3, <1>4, <1>5, <1>7 DEF Contract!Register
<1> QED
  BY <1>2, <1>6, <1>8 DEF Contract!ContractNext

\* Removing a number is the contract's removal.
LEMMA RemoveUnregisters ==
  ASSUME TreeEventsInv, NEW t \in Node, NEW id \in Id, RemoveEventListener(t, id)
  PROVE  Contract!ContractNext
<1>1. ~frame.running /\ UNCHANGED <<next_id, info, frame>>
  BY IdleRunsNothing DEF RemoveEventListener
<1>2. PICK k \in DOMAIN listeners[t] :
        listeners[t][k] = id /\ listeners' = [listeners EXCEPT ![t] = RemoveAt(@, k)]
  BY DEF RemoveEventListener
<1>3. All' = All \ {id}
  BY <1>1, <1>2, ListTaken
<1>4. id \in All
  BY <1>2 DEF All, Range
<1>5. Registered = All /\ Registered' = All' /\ Handed' = Handed /\ All \subseteq Handed
  BY <1>1, ListedWereHanded DEF Registered, Handed
<1>6. {l \in Handed : info[l].once}' = {l \in Handed : info[l].once}
  BY <1>1, <1>5
<1>7. {id} \in SUBSET Registered
  BY <1>4, <1>5
<1>8. Contract!Unregister({id})
  BY <1>1, <1>3, <1>5, <1>6, <1>7 DEF Contract!Unregister
<1> QED
  BY <1>7, <1>8 DEF Contract!ContractNext

\* Calling the listener at the index is the contract's call.
LEMMA InvokeCalls ==
  ASSUME TreeEventsInv, Invoke
  PROVE  Contract!ContractNext
<1>1. /\ frame.at > 0 /\ frame.i < Len(listeners[Here.node]) /\ ~frame.running
      /\ frame' = [frame EXCEPT !.running = TRUE, !.called = Append(@, Current)]
      /\ UNCHANGED <<next_id, info, listeners>>
  BY DEF Invoke, More, Walking
<1>2. Here.node \in Node /\ Current \in Range(listeners[Here.node]) /\ Current \in Id
  BY <1>1, CurrentTypes
<1>3. Current \in All /\ All \subseteq Handed
  BY <1>2, ListedWereHanded DEF All
<1>4. frame'.running /\ frame'.order = frame.order /\ frame'.at = frame.at
      /\ frame'.i = frame.i
  BY <1>1 DEF TreeEventsInv, TreeTypes
<1>5. Current' = Current
  BY <1>1, <1>4 DEF Current, Here
<1>6. All' = All /\ Handed' = Handed
  BY <1>1 DEF All, Handed
<1>7. {l \in Handed : info[l].once}' = {l \in Handed : info[l].once}
  BY <1>1, <1>6
<1>8. Registered = All
  BY <1>1 DEF Registered
<1>9. Registered' = Registered \ ({l \in Handed : info[l].once} \cap {Current})
  BY <1>1, <1>3, <1>4, <1>5, <1>6, <1>8 DEF Registered
<1>10. Append(<<>>, Current) = <<Current>>
  OBVIOUS
<1>11. Contract!Call(Current)
  BY <1>1, <1>3, <1>4, <1>5, <1>6, <1>7, <1>8, <1>9, <1>10 DEF Contract!Call
<1> QED
  BY <1>2, <1>11 DEF Contract!ContractNext

\* What a return takes out was gone for the contract since the call.
LEMMA ReturnReturns ==
  ASSUME TreeEventsInv, Return
  PROVE  Contract!ContractNext
<1>1. frame.running /\ UNCHANGED <<next_id, info>>
  BY DEF Return
<1>2. frame.at > 0 /\ frame.i < Len(listeners[Here.node])
  BY <1>1 DEF TreeEventsInv, RunsWhereListed
<1>3. /\ Here.node \in Node /\ frame.i + 1 \in DOMAIN listeners[Here.node]
      /\ Current = listeners[Here.node][frame.i + 1]
  BY <1>2, CurrentTypes DEF Current
<1>4. ~frame'.running
  BY DEF Return, TreeEventsInv, TreeTypes
<1>5. All' = All \ (IF info[Current].once THEN {Current} ELSE {})
  <2>1. CASE info[Current].once
    <3>1. listeners' = [listeners EXCEPT ![Here.node] = RemoveAt(@, frame.i + 1)]
      BY <2>1 DEF Return
    <3>2. All' = All \ {listeners[Here.node][frame.i + 1]}
      BY <1>1, <1>3, <3>1, ListTaken
    <3> QED
      BY <1>3, <2>1, <3>2
  <2>2. CASE ~info[Current].once
    <3>1. listeners' = listeners
      BY <2>2 DEF Return
    <3>2. All' = All
      BY <3>1 DEF All
    <3> QED
      BY <2>2, <3>2
  <2> QED
    BY <2>1, <2>2
<1>6. Registered' = Registered
  BY <1>1, <1>4, <1>5 DEF Registered
<1>7. Handed' = Handed /\ {l \in Handed : info[l].once}' = {l \in Handed : info[l].once}
  BY <1>1 DEF Handed
<1>8. <<Current>> # <<>> /\ SubSeq(<<Current>>, 1, Len(<<Current>>) - 1) = <<>>
  OBVIOUS
<1>9. Contract!Return
  BY <1>1, <1>4, <1>6, <1>7, <1>8 DEF Contract!Return
<1> QED
  BY <1>9 DEF Contract!ContractNext

\* Every step is one of the contract or none.
LEMMA StepKeepsContract ==
  ASSUME TreeEventsInv, TreeEventsNext
  PROVE  [Contract!ContractNext]_Contract!contract
<1>1. ASSUME UNCHANGED <<next_id, info, listeners, frame>>
      PROVE  UNCHANGED Contract!contract
  BY <1>1, QuietStep
<1>2. ASSUME NEW b \in BOOLEAN, NewEvent(b)
      PROVE  UNCHANGED Contract!contract
  BY <1>1, <1>2 DEF NewEvent
<1>3. ASSUME NEW now \in BOOLEAN, Stop(now)
      PROVE  UNCHANGED Contract!contract
  BY <1>1, <1>3 DEF Stop
<1>4. ASSUME NEW p \in Places, Move(p)
      PROVE  UNCHANGED Contract!contract
  BY <1>1, <1>4 DEF Move
<1>5. ASSUME UNCHANGED <<next_id, info, listeners>>, ~frame.running, ~frame'.running
      PROVE  UNCHANGED Contract!contract
  <2>1. frame.running = FALSE
    BY <1>5 DEF TreeEventsInv, TreeTypes
  <2>2. frame'.running = FALSE
    BY <1>5, StepKeepsInv DEF TreeEventsInv, TreeTypes
  <2> QED
    BY <1>5, <2>1, <2>2, QuietStep
<1>6. ASSUME NEW t \in Node, DispatchEvent(t)
      PROVE  UNCHANGED Contract!contract
  BY <1>5, <1>6, IdleRunsNothing DEF DispatchEvent, Idle
<1>7. CASE Pass \/ GoOn \/ End
  <2>1. UNCHANGED <<next_id, info, listeners>> /\ ~frame.running
    BY <1>7 DEF Pass, GoOn, End, Walking
  <2>2. ~frame'.running
    <3> DEFINE F == [order : Seq(Stopover), at : Nat, i : Nat, n : Nat, running : BOOLEAN,
                     called : Seq(Id), before : SUBSET Id]
    <3>1. frame \in F
      BY DEF TreeEventsInv, TreeTypes
    <3>2. CASE Pass
      BY <2>1, <3>1, <3>2 DEF Pass
    <3>3. CASE GoOn
      <4> DEFINE n == Len(listeners[frame.order[frame.at + 1].node])
      <4>1. frame' = [frame EXCEPT !.at = @ + 1, !.i = 0, !.n = n]
        BY <3>3 DEF GoOn
      <4> HIDE DEF n
      <4> QED
        BY <2>1, <3>1, <4>1
    <3>4. CASE End
      BY <3>4 DEF End, Idle
    <3> QED
      BY <1>7, <3>2, <3>3, <3>4
  <2> QED
    BY <1>5, <2>1, <2>2
<1> QED
  BY <1>2, <1>3, <1>4, <1>6, <1>7, AddRegisters, RemoveUnregisters, InvokeCalls, ReturnReturns
  DEF TreeEventsNext

(* Walking the lists by index while listeners that run once are taken out   *)
(* of them calls only listeners registered at that moment and never calls a *)
(* used one again.                                                          *)
THEOREM WalkKeepsContract == TreeEventsSpec => KeepsContract
<1>1. TreeEventsInit => Contract!ContractInit
  <2> SUFFICES ASSUME TreeEventsInit PROVE Contract!ContractInit
    OBVIOUS
  <2>1. next_id = 0 /\ ~frame.running /\ \A t \in Node : listeners[t] = <<>>
    BY DEF TreeEventsInit, Idle
  <2>2. Handed = {}
    BY <2>1 DEF Handed
  <2>3. Range(<<>>) = {}
    BY DEF Range
  <2>4. Registered = {}
    BY <2>1, <2>3 DEF Registered, All
  <2> QED
    BY <2>1, <2>2, <2>4 DEF Contract!ContractInit
<1>2. TreeEventsInv /\ [TreeEventsNext]_treeEvents => [Contract!ContractNext]_Contract!contract
  <2> SUFFICES ASSUME TreeEventsInv, [TreeEventsNext]_treeEvents
               PROVE  [Contract!ContractNext]_Contract!contract
    OBVIOUS
  <2>1. CASE TreeEventsNext
    BY <2>1, StepKeepsContract
  <2>2. CASE UNCHANGED treeEvents
    BY <2>2, QuietStep DEF treeEvents
  <2> QED
    BY <2>1, <2>2
<1> QED
  BY <1>1, <1>2, WalkInvariant, PTL
  DEF TreeEventsSpec, KeepsContract, Contract!ContractSpec

-----------------------------------------------------------------------------
(* Who was called, and who is left.                                         *)

\* The visit k of the walk is one at which listener id is called.
Fits(k, id) ==
  /\ info[id].target = frame.order[k].node
  /\ \/ frame.order[k].phase = "target"
     \/ info[id].capture <=> frame.order[k].phase = "capturing"

\* The loop at the visited node has yet to come to id.
Left(id) ==
  \E p \in DOMAIN listeners[Here.node] :
    /\ listeners[Here.node][p] = id
    /\ p > IF frame.running THEN frame.i + 1 ELSE frame.i

\* Those that were called and have returned.
Finished == Range(frame.called) \ (IF frame.running THEN {Current} ELSE {})

FlagsAgree ==
  /\ event \in [bubbles : BOOLEAN, stop : BOOLEAN, stopNow : BOOLEAN]
  /\ event.stopNow => event.stop

OneVisit ==
  \A id \in Id, j, k \in DOMAIN frame.order : Fits(j, id) /\ Fits(k, id) => j = k

\* The number of listeners there were bounds the walk no more than the list.
BoundIsEnough == frame.at > 0 => frame.n >= Len(listeners[Here.node])

CalledAreApart ==
  /\ Range(frame.called) \subseteq frame.before /\ IsInjective(frame.called)
  /\ frame.running => Current \in Range(frame.called)

OnlyUsedAreGone == All = {id \in frame.before : ~(info[id].once /\ id \in Finished)}

\* Who was called is behind the walk.
CalledAreBehind ==
  \A id \in Range(frame.called) : \E k \in DOMAIN frame.order :
    k <= frame.at /\ Fits(k, id) /\ (k = frame.at => ~Left(id))

\* Who is behind the walk was called.
BehindAreCalled ==
  ~event.stop => \A k \in DOMAIN frame.order, id \in frame.before :
    k <= frame.at /\ Fits(k, id) =>
      id \in Range(frame.called) \/ (k = frame.at /\ Left(id))

CallsInv ==
  /\ FlagsAgree /\ OneVisit
  /\ Dispatching =>
       /\ BoundIsEnough /\ CalledAreApart /\ OnlyUsedAreGone
       /\ CalledAreBehind /\ BehindAreCalled

\* Between dispatches nothing is claimed but of the event's flags.
LEMMA CallsAtRest ==
  ASSUME frame.order = <<>>, FlagsAgree
  PROVE  CallsInv
BY DEF CallsInv, OneVisit, Dispatching

\* What a walk's step keeps of the visits.
LEMMA VisitsStay ==
  ASSUME OneVisit, info' = info, frame'.order = frame.order
  PROVE  /\ \A k, id : Fits(k, id)' <=> Fits(k, id)
         /\ OneVisit'
<1>1. \A k, id : Fits(k, id)' <=> Fits(k, id)
  BY DEF Fits
<1> QED BY <1>1 DEF OneVisit

\* The visit under way is one for a listener of its node exactly when the listener is wanted.
LEMMA FitsAreWanted ==
  ASSUME TreeEventsInv, frame.at > 0, NEW id \in Id
  PROVE  /\ frame.at \in DOMAIN frame.order
         /\ Fits(frame.at, id) <=> info[id].target = Here.node /\ Wanted(id)
<1>1. frame.at \in DOMAIN frame.order
  BY DEF TreeEventsInv, TreeTypes, RunsWhereListed
<1>2. Here.phase \in {"capturing", "target", "bubbling"}
  BY VisitTypes DEF Stopover
<1>3. info[id].capture = TRUE \/ info[id].capture = FALSE
  BY DEF TreeEventsInv, TreeTypes, Registration
<1>4. /\ Here.node = frame.order[frame.at].node
      /\ Here.phase = frame.order[frame.at].phase
  BY DEF Here
<1>5. Wanted(id) <=> (Here.phase = "target" \/ (info[id].capture <=> Here.phase = "capturing"))
  <2>1. CASE Here.phase = "capturing"
    BY <1>3, <2>1 DEF Wanted
  <2>2. CASE Here.phase = "target"
    BY <2>2 DEF Wanted
  <2>3. CASE Here.phase = "bubbling"
    BY <1>3, <2>3 DEF Wanted
  <2> QED BY <1>2, <2>1, <2>2, <2>3
<1> QED BY <1>1, <1>4, <1>5 DEF Fits

\* A dispatch begins with nobody called and everybody to come.
LEMMA DispatchBegins ==
  ASSUME TreeEventsInv, CallsInv, NEW t \in Node, DispatchEvent(t)
  PROVE  CallsInv'
<1> DEFINE order == Order(Path(t), event.bubbles)
<1>1. /\ frame' = [Idle EXCEPT !.order = order, !.before = All]
      /\ UNCHANGED <<info, listeners, event>>
  BY DEF DispatchEvent
<1>2. order \in Seq(Stopover)
  BY PathTypes, OrderTypes
<1>3. ASSUME NEW id \in Id, NEW j \in DOMAIN order, NEW k \in DOMAIN order,
             Fits(j, id)', Fits(k, id)', j # k
      PROVE  FALSE
  <2>1. frame'.order = order
    BY <1>1 DEF Idle
  <2>2. order[j].node = order[k].node
    BY <1>3, <2>1 DEF Fits
  <2>3. /\ order[j].phase # "target" /\ order[k].phase # "target"
        /\ order[j].phase = "capturing" <=> order[k].phase # "capturing"
    BY <1>3, <2>2, OrderRepeats
  <2> HIDE DEF order
  <2> QED BY <1>3, <2>1, <2>3 DEF Fits
<1> HIDE DEF order
<1>4. /\ frame'.order = order /\ frame'.at = 0 /\ ~frame'.running
      /\ frame'.called = <<>> /\ frame'.before = All
  BY <1>1 DEF Idle
<1>5. OneVisit'
  BY <1>3, <1>4 DEF OneVisit
<1>6. Range(<<>>) = {} /\ IsInjective(<<>>)
  BY DEF Range, IsInjective
<1>7. All' = All
  BY <1>1 DEF All
<1>8. FlagsAgree'
  BY <1>1 DEF CallsInv, FlagsAgree
<1>9. BoundIsEnough'
  BY <1>4 DEF BoundIsEnough
<1>10. CalledAreApart'
  BY <1>4, <1>6 DEF CalledAreApart
<1>11. OnlyUsedAreGone'
  BY <1>4, <1>6, <1>7 DEF OnlyUsedAreGone, Finished
<1>12. CalledAreBehind'
  BY <1>4, <1>6 DEF CalledAreBehind
<1>13. BehindAreCalled'
  <2>1. \A k \in DOMAIN order : ~(k <= 0)
    BY <1>2
  <2> QED BY <1>4, <2>1 DEF BehindAreCalled
<1> QED BY <1>5, <1>8, <1>9, <1>10, <1>11, <1>12, <1>13 DEF CallsInv

\* A handler stops the event or moves nodes.
LEMMA HandlersDisturbNothing ==
  ASSUME CallsInv, UNCHANGED <<info, listeners, frame>>, FlagsAgree', event.stop => event'.stop
  PROVE  CallsInv'
<1>1. Here' = Here /\ Current' = Current /\ All' = All
  BY DEF Here, Current, All
<1>2. /\ \A k, id : Fits(k, id)' <=> Fits(k, id)
      /\ \A id : Left(id)' <=> Left(id)
      /\ Finished' = Finished
  BY <1>1 DEF Fits, Left, Finished
<1> QED
  BY <1>1, <1>2 DEF CallsInv, OneVisit, Dispatching, BoundIsEnough, CalledAreApart,
                    OnlyUsedAreGone, CalledAreBehind, BehindAreCalled

\* A listener that is passed over is not one for this visit.
LEMMA CallsAfterPass ==
  ASSUME TreeEventsInv, CallsInv, Pass
  PROVE  CallsInv'
<1>1. /\ Dispatching /\ ~frame.running /\ frame.at > 0 /\ frame.i < Len(listeners[Here.node])
      /\ ~Wanted(Current) /\ UNCHANGED <<info, listeners, event>>
  BY DEF Pass, Walking, More
<1>2. /\ frame'.order = frame.order /\ frame'.at = frame.at /\ frame'.i = frame.i + 1
      /\ frame'.n = frame.n /\ frame'.running = frame.running /\ frame'.called = frame.called
      /\ frame'.before = frame.before /\ frame.i \in Nat
  BY DEF Pass, TreeEventsInv, TreeTypes
<1>3. Here' = Here /\ All' = All /\ Finished' = Finished
  BY <1>1, <1>2 DEF Here, All, Finished
<1>4. OneVisit' /\ \A k, id : Fits(k, id)' <=> Fits(k, id)
  BY <1>1, <1>2, VisitsStay DEF CallsInv
<1>5. /\ Current = listeners[Here.node][frame.i + 1]
      /\ listeners[Here.node] \in Seq(Id)
  BY <1>1, CurrentTypes DEF Current, TreeEventsInv, TreeTypes
<1>6. \A id : Left(id)' => Left(id)
  BY <1>1, <1>2, <1>3, <1>5 DEF Left
<1>7. \A id : Left(id) => id = Current \/ Left(id)'
  BY <1>1, <1>2, <1>3, <1>5 DEF Left
<1>8. ~Fits(frame.at, Current)
  BY <1>1, CurrentTypes, FitsAreWanted
<1>9. FlagsAgree' /\ BoundIsEnough' /\ CalledAreApart' /\ OnlyUsedAreGone'
  BY <1>1, <1>2, <1>3 DEF CallsInv, FlagsAgree, BoundIsEnough, CalledAreApart, OnlyUsedAreGone
<1>10. CalledAreBehind'
  BY <1>1, <1>2, <1>4, <1>6 DEF CallsInv, CalledAreBehind
<1>11. BehindAreCalled'
  BY <1>1, <1>2, <1>4, <1>7, <1>8 DEF CallsInv, BehindAreCalled
<1> QED BY <1>4, <1>9, <1>10, <1>11 DEF CallsInv

\* Who is called was not called before: each listener has one visit.
LEMMA CallsAfterInvoke ==
  ASSUME TreeEventsInv, CallsInv, Invoke
  PROVE  CallsInv'
<1>1. /\ Dispatching /\ ~frame.running /\ frame.at > 0 /\ frame.i < Len(listeners[Here.node])
      /\ Wanted(Current) /\ UNCHANGED <<info, listeners, event>>
  BY DEF Invoke, Walking, More
<1>2. /\ frame'.order = frame.order /\ frame'.at = frame.at /\ frame'.i = frame.i
      /\ frame'.n = frame.n /\ frame'.running /\ frame'.called = Append(frame.called, Current)
      /\ frame'.before = frame.before /\ frame.i \in Nat /\ frame.called \in Seq(Id)
  BY DEF Invoke, TreeEventsInv, TreeTypes
<1>3. Here' = Here /\ All' = All /\ Current' = Current
  BY <1>1, <1>2 DEF Here, All, Current
<1>4. OneVisit' /\ \A k, id : Fits(k, id)' <=> Fits(k, id)
  BY <1>1, <1>2, VisitsStay DEF CallsInv
<1>5. /\ Current = listeners[Here.node][frame.i + 1] /\ frame.i + 1 \in DOMAIN listeners[Here.node]
      /\ listeners[Here.node] \in Seq(Id) /\ Here.node \in Node
      /\ Current \in Range(listeners[Here.node]) /\ Current \in Id
      /\ IsInjective(listeners[Here.node]) /\ info[Current].target = Here.node
  BY <1>1, CurrentTypes DEF Current, TreeEventsInv, TreeTypes, ListedOnce
<1>6. \A id : id = Current => Left(id) /\ ~Left(id)'
  BY <1>1, <1>2, <1>3, <1>5 DEF Left, IsInjective
<1>7. \A id : Left(id)' => Left(id)
  BY <1>1, <1>2, <1>3, <1>5 DEF Left
<1>8. \A id : Left(id) => id = Current \/ Left(id)'
  BY <1>1, <1>2, <1>3, <1>5 DEF Left
<1>9. frame.at \in DOMAIN frame.order /\ Fits(frame.at, Current)
  BY <1>1, <1>5, FitsAreWanted
<1>10. Current \notin Range(frame.called)
  BY <1>1, <1>4, <1>5, <1>6, <1>9 DEF CallsInv, CalledAreBehind, OneVisit
<1>11. /\ Range(frame'.called) = Range(frame.called) \cup {Current}
       /\ IsInjective(frame'.called)
  BY <1>1, <1>2, <1>5, <1>10, AppendingOne DEF CallsInv, CalledAreApart
<1>12. Current \in frame.before
  BY <1>1, <1>5 DEF CallsInv, OnlyUsedAreGone, All
<1>13. FlagsAgree' /\ BoundIsEnough'
  BY <1>1, <1>2, <1>3 DEF CallsInv, FlagsAgree, BoundIsEnough
<1>14. CalledAreApart'
  BY <1>1, <1>2, <1>3, <1>11, <1>12 DEF CallsInv, CalledAreApart
<1>15. OnlyUsedAreGone'
  <2>1. Finished' = Finished
    BY <1>1, <1>2, <1>3, <1>10, <1>11 DEF Finished
  <2> QED BY <1>1, <1>2, <1>3, <2>1 DEF CallsInv, OnlyUsedAreGone
<1>16. CalledAreBehind'
  <2>1. frame.at <= frame.at
    BY DEF TreeEventsInv, TreeTypes
  <2>2. ASSUME NEW id \in Range(frame.called)
        PROVE  \E k \in DOMAIN frame.order :
                 k <= frame.at /\ Fits(k, id) /\ (k = frame.at => ~Left(id)')
    BY <1>1, <1>7 DEF CallsInv, CalledAreBehind
  <2>3. ASSUME NEW id \in Range(frame.called)'
        PROVE  \E k \in DOMAIN frame.order :
                 k <= frame.at /\ Fits(k, id) /\ (k = frame.at => ~Left(id)')
    <3>1. CASE id = Current
      BY <1>6, <1>9, <2>1, <3>1
    <3> QED BY <1>11, <2>2, <3>1
  <2> QED BY <1>2, <1>4, <2>3 DEF CalledAreBehind
<1>17. BehindAreCalled'
  BY <1>1, <1>2, <1>4, <1>8, <1>11 DEF CallsInv, BehindAreCalled
<1> QED BY <1>4, <1>13, <1>14, <1>15, <1>16, <1>17 DEF CallsInv

\* What a list has beyond place i, after the place that follows was taken out.
LEMMA BeyondTheTaken ==
  ASSUME NEW S, NEW s \in Seq(S), NEW i \in Nat, i + 1 \in DOMAIN s
  PROVE  \A x : (\E p \in DOMAIN RemoveAt(s, i + 1) : RemoveAt(s, i + 1)[p] = x /\ p > i)
               <=> (\E p \in DOMAIN s : s[p] = x /\ p > i + 1)
<1> DEFINE r == RemoveAt(s, i + 1)
<1>1. /\ Len(s) \in Nat /\ DOMAIN s = 1..Len(s)
      /\ r \in Seq(S) /\ DOMAIN r = 1..(Len(s) - 1)
      /\ \A j \in 1..(Len(s) - 1) : r[j] = s[IF j < i + 1 THEN j ELSE j + 1]
  BY TakingIs
<1> HIDE DEF r
<1>2. ASSUME NEW x, NEW p \in DOMAIN r, r[p] = x, p > i
      PROVE  \E q \in DOMAIN s : s[q] = x /\ q > i + 1
  <2>1. p + 1 \in DOMAIN s /\ s[p + 1] = x /\ p + 1 > i + 1
    BY <1>1, <1>2
  <2> QED BY <2>1
<1>3. ASSUME NEW x, NEW p \in DOMAIN s, s[p] = x, p > i + 1
      PROVE  \E q \in DOMAIN r : r[q] = x /\ q > i
  <2>1. p - 1 \in DOMAIN r /\ r[p - 1] = x /\ p - 1 > i
    BY <1>1, <1>3
  <2> QED BY <2>1
<1> QED BY <1>2, <1>3 DEF r

\* The index stays when the list closes up and moves on when it does not:
\* in both cases the same listeners are left.
LEMMA CallsAfterReturn ==
  ASSUME TreeEventsInv, CallsInv, Return
  PROVE  CallsInv'
<1> DEFINE used == info[Current].once
           after == IF event.stopNow THEN frame.n ELSE IF used THEN frame.i ELSE frame.i + 1
<1>1. frame.running /\ UNCHANGED <<info, event, next_id>>
  BY DEF Return
<1>2. /\ frame'.order = frame.order /\ frame'.at = frame.at /\ frame'.i = after
      /\ frame'.n = frame.n /\ ~frame'.running /\ frame'.called = frame.called
      /\ frame'.before = frame.before
      /\ frame.i \in Nat /\ frame.n \in Nat /\ frame.called \in Seq(Id)
  BY DEF Return, TreeEventsInv, TreeTypes
<1>3. frame.at > 0 /\ frame.i < Len(listeners[Here.node]) /\ Dispatching
  BY <1>1, IdleRunsNothing DEF TreeEventsInv, RunsWhereListed
<1>4. /\ Current = listeners[Here.node][frame.i + 1] /\ frame.i + 1 \in DOMAIN listeners[Here.node]
      /\ listeners[Here.node] \in Seq(Id) /\ Here.node \in Node
      /\ IsInjective(listeners[Here.node]) /\ Current \in Id
  BY <1>3, CurrentTypes DEF Current, TreeEventsInv, TreeTypes, ListedOnce
<1>5. Here' = Here
  BY <1>2 DEF Here
<1>6. OneVisit' /\ \A k, id : Fits(k, id)' <=> Fits(k, id)
  BY <1>1, <1>2, VisitsStay DEF CallsInv
<1>7. BoundIsEnough /\ Current \in Range(frame.called)
  BY <1>1, <1>3 DEF CallsInv, CalledAreApart
<1>8. /\ All' = All \ (IF used THEN {Current} ELSE {})
      /\ Len(listeners'[Here.node]) <= Len(listeners[Here.node])
      /\ listeners'[Here.node] \in Seq(Id)
      /\ ~event.stopNow => \A id : Left(id)' <=> Left(id)
  <2>1. CASE used
    <3>1. listeners' = [listeners EXCEPT ![Here.node] = RemoveAt(@, frame.i + 1)]
      BY <2>1 DEF Return
    <3>2. listeners'[Here.node] = RemoveAt(listeners[Here.node], frame.i + 1)
      BY <1>4, <3>1 DEF TreeEventsInv, TreeTypes
    <3>3. All' = All \ {Current}
      BY <1>1, <1>4, <3>1, ListTaken
    <3> DEFINE s == listeners[Here.node]
               r == RemoveAt(s, frame.i + 1)
    <3>4. /\ r \in Seq(Id) /\ Len(r) = Len(s) - 1 /\ Len(s) \in Nat
          /\ \A x : (\E p \in DOMAIN r : r[p] = x /\ p > frame.i)
                   <=> (\E p \in DOMAIN s : s[p] = x /\ p > frame.i + 1)
      <4>1. s \in Seq(Id) /\ frame.i + 1 \in DOMAIN s /\ frame.i \in Nat
        BY <1>2, <1>4
      <4> HIDE DEF s
      <4>2. r \in Seq(Id) /\ Len(r) = Len(s) - 1 /\ Len(s) \in Nat
        BY <4>1, TakingIs
      <4>3. \A x : (\E p \in DOMAIN r : r[p] = x /\ p > frame.i)
                    <=> (\E p \in DOMAIN s : s[p] = x /\ p > frame.i + 1)
        BY <4>1, BeyondTheTaken, Zenon
      <4> QED BY <4>2, <4>3, Zenon
    <3>5. listeners'[Here.node] = r
      BY <3>2
    <3>6. ~event.stopNow => \A id : Left(id)' <=> \E p \in DOMAIN r : r[p] = id /\ p > frame.i
      BY <1>2, <1>5, <2>1, <3>5 DEF Left
    <3>7. \A id : Left(id) <=> \E p \in DOMAIN s : s[p] = id /\ p > frame.i + 1
      BY <1>1 DEF Left
    <3> HIDE DEF r, s
    <3>9. Len(r) <= Len(s)
      BY <3>4
    <3>10. ~event.stopNow => \A id : Left(id)' <=> Left(id)
      BY <3>4, <3>6, <3>7, Zenon
    <3>11. Len(listeners[Here.node]) = Len(s)
      BY DEF s
    <3> QED BY <2>1, <3>3, <3>4, <3>5, <3>9, <3>10, <3>11
  <2>2. CASE ~used
    <3>1. listeners' = listeners
      BY <2>2 DEF Return
    <3>2. All' = All
      BY <3>1 DEF All
    <3>3. ~event.stopNow => \A id : Left(id)' <=> Left(id)
      BY <1>1, <1>2, <1>5, <2>2, <3>1 DEF Left
    <3>4. Len(listeners[Here.node]) <= Len(listeners[Here.node])
      BY <1>4
    <3> QED BY <1>4, <2>2, <3>1, <3>2, <3>3, <3>4
  <2> QED BY <2>1, <2>2
<1>9. event.stopNow => \A id : ~Left(id)'
  <2> SUFFICES ASSUME event.stopNow, NEW id PROVE ~Left(id)'
    OBVIOUS
  <2>1. frame'.i = frame.n /\ ~frame'.running
    BY <1>2
  <2>2. Len(listeners'[Here.node]) <= frame.n /\ DOMAIN listeners'[Here.node] = 1..Len(listeners'[Here.node])
    BY <1>2, <1>3, <1>4, <1>7, <1>8 DEF BoundIsEnough
  <2>3. \A p \in DOMAIN listeners'[Here.node] : ~(p > frame.n)
    BY <1>2, <1>8, <2>2
  <2> QED BY <1>5, <2>1, <2>3 DEF Left
<1>10. FlagsAgree' /\ BoundIsEnough'
  <2>1. FlagsAgree'
    BY <1>1 DEF CallsInv, FlagsAgree
  <2>2. frame.n >= Len(listeners[Here.node])
    BY <1>3, <1>7 DEF BoundIsEnough
  <2>3. frame.n >= Len(listeners'[Here.node])
    BY <1>2, <1>4, <1>8, <2>2
  <2> QED BY <1>2, <1>5, <2>1, <2>3 DEF BoundIsEnough
<1>11. CalledAreApart'
  BY <1>2, <1>3 DEF CallsInv, CalledAreApart
<1>12. OnlyUsedAreGone'
  <2>1. Finished' = Finished \cup {Current}
    BY <1>1, <1>2, <1>7 DEF Finished
  <2>2. All = {id \in frame.before : ~(info[id].once /\ id \in Finished)}
    BY <1>3 DEF CallsInv, OnlyUsedAreGone
  <2>3. All' = {id \in frame.before : ~(info[id].once /\ id \in Finished \cup {Current})}
    BY <1>8, <2>2
  <2> QED BY <1>1, <1>2, <2>1, <2>3 DEF OnlyUsedAreGone
<1>13. CalledAreBehind'
  <2>1. \A id : Left(id)' => Left(id)
    BY <1>8, <1>9
  <2> QED BY <1>2, <1>3, <1>6, <2>1 DEF CallsInv, CalledAreBehind
<1>14. BehindAreCalled'
  <2>1. ~event.stop => \A id : Left(id) => Left(id)'
    BY <1>8 DEF CallsInv, FlagsAgree
  <2> QED BY <1>1, <1>2, <1>3, <1>6, <2>1 DEF CallsInv, BehindAreCalled
<1> QED BY <1>6, <1>10, <1>11, <1>12, <1>13, <1>14 DEF CallsInv

\* Between two visits nobody is left at the one behind.
LEMMA NobodyIsLeft ==
  ASSUME TreeEventsInv, CallsInv, Walking, ~More, ~event.stop,
         NEW k \in DOMAIN frame.order, NEW id \in frame.before, k <= frame.at, Fits(k, id)
  PROVE  id \in Range(frame.called)
<1>1. ~frame.running /\ Dispatching /\ BoundIsEnough /\ BehindAreCalled
  BY DEF Walking, CallsInv
<1>2. frame.at \in Nat /\ frame.i \in Nat /\ frame.n \in Nat
  BY DEF TreeEventsInv, TreeTypes
<1>3. ASSUME k = frame.at, Left(id) PROVE FALSE
  <2>1. frame.at > 0
    BY <1>2, <1>3 DEF TreeEventsInv, TreeTypes
  <2>2. listeners[Here.node] \in Seq(Id)
    BY <2>1, VisitTypes DEF TreeEventsInv, TreeTypes
  <2>3. PICK p \in DOMAIN listeners[Here.node] : p > frame.i
    BY <1>1, <1>3 DEF Left
  <2>4. frame.i < Len(listeners[Here.node]) /\ Len(listeners[Here.node]) <= frame.n
    BY <1>1, <1>2, <2>1, <2>2, <2>3 DEF BoundIsEnough
  <2>5. frame.i < frame.n
    BY <1>2, <2>2, <2>4
  <2> QED BY <2>1, <2>4, <2>5 DEF More
<1> QED BY <1>1, <1>3 DEF BehindAreCalled

\* At the next node everyone registered there is left.
LEMMA CallsAfterGoOn ==
  ASSUME TreeEventsInv, CallsInv, GoOn
  PROVE  CallsInv'
<1> DEFINE node == frame.order[frame.at + 1].node
<1>1. /\ Walking /\ ~More /\ ~Ends /\ Dispatching /\ ~frame.running
      /\ UNCHANGED <<info, event, listeners>>
  BY DEF GoOn, Walking
<1>2. /\ frame.order \in Seq(Stopover) /\ frame.at \in Nat
      /\ frame.at + 1 \in DOMAIN frame.order
  BY <1>1 DEF TreeEventsInv, TreeTypes, RunsWhereListed, Ends
<1>3. node \in Node /\ listeners[node] \in Seq(Id)
  <2>1. frame.order[frame.at + 1] \in Stopover
    BY <1>2
  <2> QED BY <2>1 DEF Stopover, TreeEventsInv, TreeTypes
<1>4. /\ frame'.order = frame.order /\ frame'.at = frame.at + 1 /\ frame'.i = 0
      /\ frame'.n = Len(listeners[node]) /\ frame'.running = frame.running
      /\ frame'.called = frame.called /\ frame'.before = frame.before
  BY DEF GoOn, TreeEventsInv, TreeTypes
<1>5. Here'.node = node /\ All' = All /\ Finished' = Finished
  BY <1>1, <1>4 DEF Here, All, Finished
<1>6. OneVisit' /\ \A k, id : Fits(k, id)' <=> Fits(k, id)
  BY <1>1, <1>4, VisitsStay DEF CallsInv
<1>7. FlagsAgree' /\ BoundIsEnough' /\ CalledAreApart' /\ OnlyUsedAreGone'
  <2>1. Len(listeners[node]) >= Len(listeners[node])
    BY <1>3
  <2> QED
    BY <1>1, <1>4, <1>5, <2>1
    DEF CallsInv, FlagsAgree, BoundIsEnough, CalledAreApart, OnlyUsedAreGone
<1>8. CalledAreBehind'
  <2>1. \A k \in DOMAIN frame.order : k <= frame.at => k <= frame.at + 1 /\ k # frame.at + 1
    BY <1>2
  <2> QED BY <1>1, <1>4, <1>6, <2>1 DEF CallsInv, CalledAreBehind
<1>9. BehindAreCalled'
  <2> SUFFICES ASSUME ~event.stop, NEW k \in DOMAIN frame.order, NEW id \in frame.before,
                      k <= frame.at + 1, Fits(k, id), id \notin Range(frame.called)
               PROVE  k = frame.at + 1 /\ Left(id)'
    BY <1>1, <1>4, <1>6 DEF BehindAreCalled
  <2>1. k = frame.at + 1
    <3>1. ~(k <= frame.at)
      BY <1>1, NobodyIsLeft
    <3> QED BY <1>2, <3>1
  <2>2. id \in All
    BY <1>1 DEF CallsInv, OnlyUsedAreGone, Finished
  <2>3. id \in Range(listeners[node])
    BY <2>1, <2>2 DEF Fits, All, TreeEventsInv, ListedOnce
  <2>4. PICK p \in DOMAIN listeners[node] : listeners[node][p] = id
    BY <2>3 DEF Range
  <2>5. p > 0
    BY <1>3
  <2> QED BY <1>1, <1>4, <1>5, <2>1, <2>4, <2>5 DEF Left
<1> QED BY <1>6, <1>7, <1>8, <1>9 DEF CallsInv

\* Every step keeps what was called and what is left in agreement.
LEMMA CallsKeep ==
  ASSUME TreeEventsInv, CallsInv, TreeEventsNext
  PROVE  CallsInv'
<1>1. ASSUME ~Dispatching, frame' = frame, FlagsAgree'
      PROVE  CallsInv'
  BY <1>1 DEF CallsInv, OneVisit, Dispatching
<1>2. FlagsAgree
  BY DEF CallsInv
<1>3. ASSUME NEW o \in Offer, AddEventListener(o) PROVE CallsInv'
  BY <1>1, <1>2, <1>3 DEF AddEventListener, FlagsAgree
<1>4. ASSUME NEW t \in Node, NEW id \in Id, RemoveEventListener(t, id) PROVE CallsInv'
  BY <1>1, <1>2, <1>4 DEF RemoveEventListener, FlagsAgree
<1>5. ASSUME NEW b \in BOOLEAN, NewEvent(b) PROVE CallsInv'
  <2>1. event' = [bubbles |-> b, stop |-> FALSE, stopNow |-> FALSE]
    BY <1>5 DEF NewEvent
  <2>2. FlagsAgree'
    BY <2>1 DEF FlagsAgree
  <2> QED BY <1>1, <1>5, <2>2 DEF NewEvent
<1>6. ASSUME NEW now \in BOOLEAN, Stop(now) PROVE CallsInv'
  <2>1. event' = [event EXCEPT !.stop = TRUE, !.stopNow = now \/ @]
    BY <1>6 DEF Stop
  <2>2. (now \/ event.stopNow) \in BOOLEAN
    OBVIOUS
  <2>3. FlagsAgree' /\ event'.stop
    BY <1>2, <2>1, <2>2 DEF FlagsAgree
  <2> QED BY <1>6, <2>3, HandlersDisturbNothing DEF Stop
<1>7. ASSUME NEW p \in Places, Move(p) PROVE CallsInv'
  BY <1>2, <1>7, HandlersDisturbNothing DEF Move, FlagsAgree
<1>8. CASE End
  <2>1. frame' = Idle /\ event' = event
    BY <1>8 DEF End
  <2> QED BY <1>2, <2>1 DEF CallsInv, OneVisit, Dispatching, Idle, FlagsAgree
<1> QED
  BY <1>3, <1>4, <1>5, <1>6, <1>7, <1>8, DispatchBegins, CallsAfterPass, CallsAfterInvoke,
     CallsAfterReturn, CallsAfterGoOn
  DEF TreeEventsNext

(* Whatever handlers do to the tree and the event: those behind the walk    *)
(* were called, those called are behind it, and only used ones are gone.    *)
THEOREM CallsInvariant == TreeEventsSpec => [](TreeEventsInv /\ CallsInv)
<1>1. TreeEventsInit => CallsInv
  <2> SUFFICES ASSUME TreeEventsInit PROVE CallsInv
    OBVIOUS
  <2>1. /\ event \in [bubbles : BOOLEAN, stop : {FALSE}, stopNow : {FALSE}]
        /\ frame.order = <<>>
    BY DEF TreeEventsInit, Idle
  <2>2. event \in [bubbles : BOOLEAN, stop : BOOLEAN, stopNow : BOOLEAN] /\ event.stopNow = FALSE
    BY <2>1
  <2> QED BY <2>1, <2>2, CallsAtRest DEF FlagsAgree
<1>2. TreeEventsInv /\ CallsInv /\ [TreeEventsNext]_treeEvents => CallsInv'
  <2> SUFFICES ASSUME TreeEventsInv, CallsInv, [TreeEventsNext]_treeEvents PROVE CallsInv'
    OBVIOUS
  <2>1. CASE UNCHANGED treeEvents
    BY <2>1, HandlersDisturbNothing DEF treeEvents, CallsInv, FlagsAgree
  <2> QED BY <2>1, CallsKeep
<1> QED
  BY <1>1, <1>2, WalkInvariant, PTL DEF TreeEventsSpec

(* A dispatch calls nobody twice and, unless it is stopped, everyone on its *)
(* path; taking listeners that ran once out of the list it walks by index   *)
(* skips nobody, and the registry comes back without these alone.           *)
THEOREM WalkSkipsNobody == TreeEventsSpec => EveryoneIsCalled
<1> DEFINE Done ==
       /\ IsInjective(frame.called)
       /\ All = {id \in frame.before : ~(info[id].once /\ id \in Range(frame.called))}
       /\ ~event.stop =>
            \A k \in DOMAIN frame.order, id \in frame.before :
              /\ info[id].target = frame.order[k].node
              /\ \/ frame.order[k].phase = "target"
                 \/ info[id].capture <=> frame.order[k].phase = "capturing"
              => id \in Range(frame.called)
<1>1. ASSUME TreeEventsInv, CallsInv, TreeEventsNext, Dispatching, ~Dispatching'
      PROVE  End
  <2>1. ASSUME frame'.order = frame.order PROVE FALSE
    BY <1>1, <2>1 DEF Dispatching
  <2>2. /\ Pass => frame'.order = frame.order
        /\ Invoke => frame'.order = frame.order
        /\ Return => frame'.order = frame.order
        /\ GoOn => frame'.order = frame.order
    BY <1>1 DEF Pass, Invoke, Return, GoOn, TreeEventsInv, TreeTypes
  <2> QED
    BY <1>1, <2>1, <2>2
    DEF TreeEventsNext, AddEventListener, RemoveEventListener, NewEvent, DispatchEvent, Stop, Move
<1>2. ASSUME TreeEventsInv, CallsInv, Dispatching, End
      PROVE  Done
  <2>1. Walking /\ ~More /\ Ends /\ ~frame.running
    BY <1>2 DEF End, Walking
  <2>2. IsInjective(frame.called)
    BY <1>2 DEF CallsInv, CalledAreApart
  <2>3. All = {id \in frame.before : ~(info[id].once /\ id \in Range(frame.called))}
    BY <1>2, <2>1 DEF CallsInv, OnlyUsedAreGone, Finished
  <2>4. ASSUME ~event.stop, NEW k \in DOMAIN frame.order, NEW id \in frame.before, Fits(k, id)
        PROVE  id \in Range(frame.called)
    <3>1. k <= frame.at
      BY <2>1, <2>4 DEF Ends
    <3> QED BY <1>2, <2>1, <2>4, <3>1, NobodyIsLeft
  <2> QED BY <2>2, <2>3, <2>4 DEF Fits
<1>3. TreeEventsInv /\ CallsInv /\ [TreeEventsNext]_treeEvents
      => [Dispatching /\ ~Dispatching' => Done]_treeEvents
  BY <1>1, <1>2
<1> QED
  BY <1>3, CallsInvariant, PTL DEF TreeEventsSpec, EveryoneIsCalled
-----------------------------------------------------------------------------
(* Stories.                                                                 *)

State == [connected : BOOLEAN, attr : {0, 1}]
Silent == [connected |-> FALSE, attr |-> 0]
Words == {"upgrade", "connected", "disconnected", "moved", "nothing", "attribute"}
Reactions == [what : Words, old : {0, 1}, new : {0, 1}]

\* What an element has been told after a reaction.
Leaves(t, r) ==
  [connected |-> IF r.what = "connected" THEN TRUE
                 ELSE IF r.what = "disconnected" THEN FALSE ELSE t.connected,
   attr      |-> IF r.what = "attribute" THEN r.new ELSE t.attr]

Allowed(t, r) == r.what # "upgrade" /\ (r.what = "nothing" \/ Continues(t, r))

\* The reactions q go on from t, each from where the last one left off, and
\* leave the element at u.
Tale(h, t, q, u) ==
  /\ h[0] = t /\ h[Len(q)] = u
  /\ \A k \in 1..Len(q) : Allowed(h[k - 1], q[k]) /\ h[k] = Leaves(h[k - 1], q[k])

Story(t, q, u) == \E h \in [0..Len(q) -> State] : Tale(h, t, q, u)

LEMMA LeavesAState ==
  ASSUME NEW t \in State, NEW r \in Reactions
  PROVE  /\ Leaves(t, r) \in State
         /\ r.what = "nothing" => Leaves(t, r) = t
BY DEF Leaves, State, Reactions

LEMMA StoryEnds ==
  ASSUME NEW t \in State, NEW u \in State
  PROVE  Story(t, <<>>, u) <=> t = u
<1>1. Len(<<>>) = 0
  OBVIOUS
<1>2. ASSUME t = u PROVE Story(t, <<>>, u)
  <2> DEFINE h == [k \in 0..0 |-> t]
  <2>1. h \in [0..Len(<<>>) -> State] /\ h[0] = t
    BY <1>1
  <2>2. Tale(h, t, <<>>, u)
    BY <1>1, <1>2, <2>1 DEF Tale
  <2> QED
    BY <2>1, <2>2 DEF Story
<1>3. ASSUME Story(t, <<>>, u) PROVE t = u
  BY <1>1, <1>3 DEF Story, Tale
<1> QED
  BY <1>2, <1>3

LEMMA StoryGoesOn ==
  ASSUME NEW t \in State, NEW q \in Seq(Reactions), NEW u \in State, NEW r \in Reactions,
         Story(t, q, u), Allowed(u, r)
  PROVE  Story(t, Append(q, r), Leaves(u, r))
<1> DEFINE n == Len(q)
           p == Append(q, r)
<1>1. PICK h \in [0..n -> State] : Tale(h, t, q, u)
  BY DEF Story
<1>2. /\ n \in Nat /\ p \in Seq(Reactions) /\ Len(p) = n + 1
      /\ \A k \in 1..n : p[k] = q[k]
      /\ p[n + 1] = r
  OBVIOUS
<1> DEFINE g == [k \in 0..(n + 1) |-> IF k = n + 1 THEN Leaves(u, r) ELSE h[k]]
<1>3. Leaves(u, r) \in State
  BY LeavesAState
<1>4. g \in [0..(n + 1) -> State] /\ g[n + 1] = Leaves(u, r) /\ \A k \in 0..n : g[k] = h[k]
  BY <1>2, <1>3
<1>5. h[0] = t /\ h[n] = u /\ \A k \in 1..n : Allowed(h[k - 1], q[k]) /\ h[k] = Leaves(h[k - 1], q[k])
  BY <1>1 DEF Tale
<1> HIDE DEF p, n, g
<1>6. ASSUME NEW k \in 1..(n + 1)
      PROVE  Allowed(g[k - 1], p[k]) /\ g[k] = Leaves(g[k - 1], p[k])
  <2>1. CASE k = n + 1
    <3>1. k - 1 = n /\ n \in 0..n
      BY <1>2, <2>1
    <3> QED
      BY <3>1, <2>1, <1>2, <1>4, <1>5
  <2>2. CASE k # n + 1
    <3>1. k \in 1..n /\ k \in 0..n /\ k - 1 \in 0..n
      BY <1>2, <2>2
    <3> QED
      BY <3>1, <1>2, <1>4, <1>5
  <2> QED
    BY <2>1, <2>2
<1>7. g[0] = t /\ g[Len(p)] = Leaves(u, r)
  BY <1>2, <1>4, <1>5
<1>8. Tale(g, t, p, Leaves(u, r))
  BY <1>2, <1>6, <1>7 DEF Tale
<1> QED
  BY <1>2, <1>4, <1>8 DEF Story, p

LEMMA StoryBegins ==
  ASSUME NEW t \in State, NEW q \in Seq(Reactions), q # <<>>, NEW u \in State, Story(t, q, u)
  PROVE  Allowed(t, Head(q)) /\ Story(Leaves(t, Head(q)), Tail(q), u)
<1> DEFINE n == Len(q)
           p == Tail(q)
<1>1. PICK h \in [0..n -> State] : Tale(h, t, q, u)
  BY DEF Story
<1>2. /\ n \in Nat \ {0} /\ p \in Seq(Reactions) /\ Len(p) = n - 1
      /\ \A k \in 1..(n - 1) : p[k] = q[k + 1]
      /\ Head(q) = q[1]
  OBVIOUS
<1> DEFINE g == [k \in 0..(n - 1) |-> h[k + 1]]
<1>4. g \in [0..(n - 1) -> State] /\ \A k \in 0..(n - 1) : g[k] = h[k + 1]
  BY <1>2
<1>5. h[0] = t /\ h[n] = u /\ \A k \in 1..n : Allowed(h[k - 1], q[k]) /\ h[k] = Leaves(h[k - 1], q[k])
  BY <1>1 DEF Tale
<1> HIDE DEF p, n, g
<1>6. ASSUME NEW k \in 1..(n - 1)
      PROVE  Allowed(g[k - 1], p[k]) /\ g[k] = Leaves(g[k - 1], p[k])
  <2>1. k + 1 \in 1..n /\ k - 1 \in 0..(n - 1) /\ k \in 0..(n - 1) /\ (k + 1) - 1 = k /\ (k - 1) + 1 = k
    BY <1>2
  <2>2. Allowed(h[k], q[k + 1]) /\ h[k + 1] = Leaves(h[k], q[k + 1])
    BY <1>5, <2>1
  <2> QED
    BY <2>1, <2>2, <1>2, <1>4
<1>7. 1 \in 1..n /\ 1 - 1 = 0 /\ 0 \in 0..(n - 1) /\ n - 1 \in 0..(n - 1) /\ 0 + 1 = 1 /\ (n - 1) + 1 = n
  BY <1>2
<1>8. Allowed(t, Head(q)) /\ g[0] = Leaves(t, Head(q)) /\ g[Len(p)] = u
  BY <1>2, <1>4, <1>5, <1>7
<1>9. Tale(g, Leaves(t, Head(q)), p, u)
  BY <1>2, <1>6, <1>8 DEF Tale
<1> QED
  BY <1>2, <1>4, <1>8, <1>9 DEF Story, p

\* Changes of the attribute are the same story in the page and out of it.
LEMMA StoryElsewhere ==
  ASSUME NEW t \in State, NEW q \in Seq(Reactions), NEW u \in State, NEW c \in BOOLEAN,
         Story(t, q, u), \A k \in DOMAIN q : q[k].what = "attribute"
  PROVE  Story([connected |-> c, attr |-> t.attr], q, [connected |-> c, attr |-> u.attr])
<1> DEFINE n == Len(q)
<1>1. PICK h \in [0..n -> State] : Tale(h, t, q, u)
  BY DEF Story
<1>2. n \in Nat /\ DOMAIN q = 1..n /\ \A k \in 1..n : q[k] \in Reactions
  OBVIOUS
<1> DEFINE g == [k \in 0..n |-> [connected |-> c, attr |-> h[k].attr]]
<1>3. \A k \in 0..n : h[k] \in State
  BY <1>1
<1>4. g \in [0..n -> State] /\ \A k \in 0..n : g[k] = [connected |-> c, attr |-> h[k].attr]
  BY <1>3 DEF State
<1>5. h[0] = t /\ h[n] = u /\ \A k \in 1..n : Allowed(h[k - 1], q[k]) /\ h[k] = Leaves(h[k - 1], q[k])
  BY <1>1 DEF Tale
<1> HIDE DEF n, g
<1>6. ASSUME NEW k \in 1..n
      PROVE  Allowed(g[k - 1], q[k]) /\ g[k] = Leaves(g[k - 1], q[k])
  <2>1. k \in 0..n /\ k - 1 \in 0..n
    BY <1>2
  <2>2. q[k].what = "attribute"
    BY <1>2
  <2>3. h[k - 1].attr = q[k].old /\ h[k].attr = q[k].new
    <3>1. Allowed(h[k - 1], q[k]) /\ h[k] = Leaves(h[k - 1], q[k])
      BY <1>5
    <3>2. h[k - 1].attr = q[k].old
      BY <3>1, <2>2 DEF Allowed, Continues
    <3>3. h[k].attr = q[k].new
      BY <3>1, <2>2 DEF Leaves
    <3> QED
      BY <3>2, <3>3
  <2>4. g[k - 1].attr = q[k].old /\ g[k] = [connected |-> c, attr |-> q[k].new] /\ g[k - 1].connected = c
    BY <2>1, <2>3, <1>4
  <2> QED
    BY <2>2, <2>4 DEF Allowed, Leaves, Continues
<1>7. 0 \in 0..n /\ n \in 0..n
  BY <1>2
<1>8. Tale(g, [connected |-> c, attr |-> t.attr], q, [connected |-> c, attr |-> u.attr])
  BY <1>4, <1>5, <1>6, <1>7 DEF Tale, n
<1> QED
  BY <1>4, <1>8 DEF Story, n

-----------------------------------------------------------------------------
(* One element, through the handlers of the hook.                           *)

Records == [status : {"none", "pending", "constructing", "custom", "failed"},
            connected : BOOLEAN, moving : BOOLEAN]
Views == [rec : Records, queue : Seq(Reactions)]

\* The queue fits the status; nobody is told anything before an upgrade.
Calm(v, t) ==
  /\ v.rec.status = "none" => ~v.rec.connected
  /\ v.rec.status \in {"none", "constructing", "failed"} => v.queue = <<>>
  /\ v.rec.status = "pending" => v.queue = <<Reaction("upgrade")>>
  /\ v.rec.status \in {"none", "pending", "constructing"} => t = Silent
  /\ v.rec.status = "custom" => \A k \in DOMAIN v.queue : v.queue[k].what # "upgrade"

\* Who was told t is going to be told all up to u.
Knows(v, t, u) == Story(t, v.queue, u)
At(v, a) == [connected |-> v.rec.connected, attr |-> a]

\* A handler of the hook makes w of v.
Steps(v, w, t) ==
  /\ w \in Views /\ Calm(w, t)
  /\ w.rec.status = v.rec.status \/ (v.rec.status = "none" /\ w.rec.status = "pending")
  /\ v.rec.status = "constructing" => w = v
  /\ v.rec.status = "custom" =>
       \A a \in {0, 1} : Knows(v, t, At(v, a)) => Knows(w, t, At(w, a))

LEMMA StepsTwice ==
  ASSUME NEW v, NEW w, NEW x, NEW t, Steps(v, w, t), Steps(w, x, t)
  PROVE  Steps(v, x, t)
BY DEF Steps

LEMMA StaysSo ==
  ASSUME NEW v \in Views, NEW t, Calm(v, t)
  PROVE  Steps(v, v, t)
BY DEF Steps

LEMMA Fields ==
  ASSUME NEW v \in Views
  PROVE  /\ v = [rec |-> v.rec, queue |-> v.queue]
         /\ v.rec = [status |-> v.rec.status, connected |-> v.rec.connected, moving |-> v.rec.moving]
         /\ v.rec.status \in {"none", "pending", "constructing", "custom", "failed"}
         /\ v.rec.connected \in BOOLEAN /\ v.rec.moving \in BOOLEAN /\ v.queue \in Seq(Reactions)
BY DEF Views, Records

LEMMA Changes ==
  ASSUME NEW v \in Views, NEW b \in BOOLEAN,
         NEW s \in {"none", "pending", "constructing", "custom", "failed"}
  PROVE  /\ [v EXCEPT !.rec.connected = b] =
              [rec |-> [status |-> v.rec.status, connected |-> b, moving |-> v.rec.moving], queue |-> v.queue]
         /\ [v EXCEPT !.rec.moving = b] =
              [rec |-> [status |-> v.rec.status, connected |-> v.rec.connected, moving |-> b], queue |-> v.queue]
         /\ [v EXCEPT !.rec.status = s] =
              [rec |-> [status |-> s, connected |-> v.rec.connected, moving |-> v.rec.moving], queue |-> v.queue]
<1>1. v.rec \in Records
  BY DEF Views
<1>2. /\ [v.rec EXCEPT !.connected = b] = [status |-> v.rec.status, connected |-> b, moving |-> v.rec.moving]
      /\ [v.rec EXCEPT !.moving = b] = [status |-> v.rec.status, connected |-> v.rec.connected, moving |-> b]
      /\ [v.rec EXCEPT !.status = s] = [status |-> s, connected |-> v.rec.connected, moving |-> v.rec.moving]
  BY <1>1 DEF Records
<1>3. ASSUME NEW r PROVE [v EXCEPT !.rec = r] = [rec |-> r, queue |-> v.queue]
  BY DEF Views
<1>4. /\ [v EXCEPT !.rec.connected = b] = [v EXCEPT !.rec = [v.rec EXCEPT !.connected = b]]
      /\ [v EXCEPT !.rec.moving = b] = [v EXCEPT !.rec = [v.rec EXCEPT !.moving = b]]
      /\ [v EXCEPT !.rec.status = s] = [v EXCEPT !.rec = [v.rec EXCEPT !.status = s]]
  BY DEF Views
<1> QED
  BY <1>2, <1>3, <1>4

LEMMA Reacted ==
  ASSUME NEW m, NEW q, NEW r
  PROVE  React([rec |-> m, queue |-> q], r) = [rec |-> m, queue |-> Append(q, r)]
BY DEF React

LEMMA ReactedSo ==
  ASSUME NEW v \in Views, NEW r
  PROVE  React(v, r) = [rec |-> v.rec, queue |-> Append(v.queue, r)]
<1>1. v = [rec |-> v.rec, queue |-> v.queue]
  BY DEF Views
<1>2. React([rec |-> v.rec, queue |-> v.queue], r) = [rec |-> v.rec, queue |-> Append(v.queue, r)]
  BY Reacted
<1> QED
  BY <1>1, <1>2

LEMMA SomeReactions ==
  /\ \A w \in Words : Reaction(w) \in Reactions /\ Reaction(w).what = w
  /\ \A o, n \in {0, 1} : Changed(o, n) \in Reactions /\ Changed(o, n).what = "attribute"
BY DEF Reaction, Changed, Reactions, Words

\* A custom element gets a reaction that goes on from what is on record.
LEMMA Reacts ==
  ASSUME NEW v \in Views, NEW t \in State, Calm(v, t), v.rec.status = "custom",
         NEW r \in Reactions, r.what # "upgrade", NEW c \in BOOLEAN, NEW m \in BOOLEAN,
         \A a \in {0, 1} : /\ Allowed([connected |-> v.rec.connected, attr |-> a], r)
                           /\ Leaves([connected |-> v.rec.connected, attr |-> a], r)
                                = [connected |-> c, attr |-> a]
  PROVE  Steps(v, [rec |-> [status |-> "custom", connected |-> c, moving |-> m],
                   queue |-> Append(v.queue, r)], t)
<1> DEFINE w == [rec |-> [status |-> "custom", connected |-> c, moving |-> m],
                 queue |-> Append(v.queue, r)]
<1>1. v.queue \in Seq(Reactions) /\ v.rec.connected \in BOOLEAN
  BY DEF Views, Records
<1>2. /\ Append(v.queue, r) \in Seq(Reactions)
      /\ \A k \in DOMAIN Append(v.queue, r) :
           Append(v.queue, r)[k] = r \/ (k \in DOMAIN v.queue /\ Append(v.queue, r)[k] = v.queue[k])
  BY <1>1, Pushed
<1>3. w \in Views
  BY <1>2 DEF Views, Records
<1>4. Calm(w, t)
  BY <1>2 DEF Calm
<1>5. ASSUME NEW a \in {0, 1}, Knows(v, t, At(v, a)) PROVE Knows(w, t, At(w, a))
  <2>1. At(v, a) \in State
    BY <1>1 DEF At, State
  <2>2. Allowed(At(v, a), r) /\ Leaves(At(v, a), r) = At(w, a)
    BY DEF At
  <2>3. Story(t, Append(v.queue, r), Leaves(At(v, a), r))
    BY <1>1, <1>5, <2>1, <2>2, StoryGoesOn DEF Knows
  <2> QED
    BY <2>2, <2>3 DEF Knows
<1> HIDE DEF w
<1>6. w.rec.status = "custom"
  BY DEF w
<1> QED
  BY <1>3, <1>4, <1>5, <1>6 DEF Steps, w

LEMMA ReactionsGoOn ==
  ASSUME NEW c \in BOOLEAN, NEW a \in {0, 1}
  PROVE  LET u(b) == [connected |-> b, attr |-> a]
         IN  /\ Allowed(u(FALSE), Reaction("connected")) /\ Leaves(u(FALSE), Reaction("connected")) = u(TRUE)
             /\ Allowed(u(TRUE), Reaction("disconnected")) /\ Leaves(u(TRUE), Reaction("disconnected")) = u(FALSE)
             /\ Allowed(u(TRUE), Reaction("moved")) /\ Leaves(u(TRUE), Reaction("moved")) = u(TRUE)
             /\ Allowed(u(c), Reaction("nothing")) /\ Leaves(u(c), Reaction("nothing")) = u(c)
BY DEF Allowed, Leaves, Continues, Reaction

LEMMA RemovingSteps ==
  ASSUME NEW v \in Views, NEW t \in State, Calm(v, t)
  PROVE  LET w == Removing(v)
         IN  /\ Steps(v, w, t) /\ w.rec.moving = v.rec.moving
             /\ w.rec.status = "custom" /\ ~v.rec.moving => ~w.rec.connected
             /\ w.rec.status = "custom" /\ v.rec.moving => w.rec.connected = v.rec.connected
             /\ v.rec.status = "none" => w = v
<1>1. v.rec.connected \in BOOLEAN /\ v.rec.moving \in BOOLEAN
  BY Fields
<1>2. CASE v.rec.status = "custom" /\ v.rec.connected /\ ~v.rec.moving
  <2> DEFINE m == [status |-> "custom", connected |-> FALSE, moving |-> v.rec.moving]
             w == [rec |-> m, queue |-> Append(v.queue, Reaction("disconnected"))]
  <2>0. [v EXCEPT !.rec.connected = FALSE] = [rec |-> m, queue |-> v.queue]
    <3>1. [v EXCEPT !.rec.connected = FALSE] =
            [rec |-> [status |-> v.rec.status, connected |-> FALSE, moving |-> v.rec.moving], queue |-> v.queue]
      BY <1>1, Changes
    <3> QED
      BY <1>2, <3>1
  <2>5. m.status = "custom" /\ ~m.connected /\ m.moving = v.rec.moving
    OBVIOUS
  <2> HIDE DEF m
  <2>1. Removing(v) = w
    BY <1>2, <2>0, Reacted DEF Removing
  <2>2. \A a \in {0, 1} : /\ Allowed([connected |-> v.rec.connected, attr |-> a], Reaction("disconnected"))
                          /\ Leaves([connected |-> v.rec.connected, attr |-> a], Reaction("disconnected"))
                               = [connected |-> FALSE, attr |-> a]
    BY <1>1, <1>2, ReactionsGoOn
  <2>3. Reaction("disconnected") \in Reactions /\ Reaction("disconnected").what # "upgrade"
    BY SomeReactions DEF Words
  <2>4. Steps(v, w, t)
    BY <1>1, <1>2, <2>2, <2>3, Reacts DEF m
  <2>6. w.rec.status = "custom" /\ ~w.rec.connected /\ w.rec.moving = v.rec.moving
    BY <2>5
  <2> HIDE DEF w
  <2>7. Steps(v, Removing(v), t)
    BY <2>1, <2>4
  <2> QED
    BY <1>2, <2>1, <2>6, <2>7
<1>3. CASE ~(v.rec.status = "custom" /\ v.rec.connected /\ ~v.rec.moving)
  <2>1. Removing(v) = v
    BY <1>3 DEF Removing
  <2> QED
    BY <1>1, <1>3, <2>1, StaysSo
<1> QED
  BY <1>2, <1>3

LEMMA UpgradedSteps ==
  ASSUME NEW v \in Views, NEW t \in State, Calm(v, t), v.rec.status = "none"
  PROVE  LET w == Upgraded(v)
         IN  Steps(v, w, t) /\ w.rec.moving = v.rec.moving /\ w.rec.status = "pending"
<1> DEFINE w == [rec |-> [status |-> "pending", connected |-> v.rec.connected, moving |-> v.rec.moving],
                 queue |-> Append(v.queue, Reaction("upgrade"))]
<1>0. [v EXCEPT !.rec.status = "pending"] =
        [rec |-> [status |-> "pending", connected |-> v.rec.connected, moving |-> v.rec.moving], queue |-> v.queue]
  BY Changes
<1>1. Upgraded(v) = w
  BY <1>0, Reacted DEF Upgraded
<1>2. v.queue = <<>> /\ t = Silent
  BY DEF Calm
<1>3. Append(v.queue, Reaction("upgrade")) = <<Reaction("upgrade")>>
  BY <1>2
<1>4. <<Reaction("upgrade")>> \in Seq(Reactions)
  BY SomeReactions DEF Words
<1>5. w \in Views
  BY <1>3, <1>4, Fields DEF Views, Records
<1>6. Calm(w, t)
  BY <1>2, <1>3 DEF Calm
<1>7. w.rec.status = "pending" /\ w.rec.moving = v.rec.moving
  OBVIOUS
<1> HIDE DEF w
<1>8. Steps(v, w, t)
  BY <1>5, <1>6, <1>7 DEF Steps
<1> QED
  BY <1>1, <1>7, <1>8

LEMMA VisitSteps ==
  ASSUME NEW v \in Views, NEW t \in State, Calm(v, t), NEW now \in BOOLEAN
  PROVE  LET w == Visit(v, now)
         IN  /\ Steps(v, w, t) /\ w.rec.moving = v.rec.moving
             /\ w.rec.status = "custom" => w.rec.connected = now
             /\ w.rec.status = "none" => ~(defined /\ now)
<1>1. v.rec.connected \in BOOLEAN /\ v.rec.moving \in BOOLEAN
  BY Fields
<1>2. CASE v.rec.status = "none" /\ defined /\ now
  <2>1. Visit(v, now) = Upgraded(v)
    BY <1>2 DEF Visit
  <2> QED
    BY <1>2, <2>1, UpgradedSteps
<1>3. CASE v.rec.status = "custom" /\ v.rec.connected # now
  <2> DEFINE r == Reaction(IF now THEN "connected" ELSE "disconnected")
             w == [rec |-> [status |-> "custom", connected |-> now, moving |-> v.rec.moving],
                   queue |-> Append(v.queue, r)]
  <2>0. [v EXCEPT !.rec.connected = now] =
          [rec |-> [status |-> v.rec.status, connected |-> now, moving |-> v.rec.moving], queue |-> v.queue]
    BY Changes
  <2>1. Visit(v, now) = w
    BY <1>3, <2>0, Reacted DEF Visit
  <2>2. \A a \in {0, 1} : /\ Allowed([connected |-> v.rec.connected, attr |-> a], r)
                          /\ Leaves([connected |-> v.rec.connected, attr |-> a], r)
                               = [connected |-> now, attr |-> a]
    <3>1. CASE now
      BY <1>1, <1>3, <3>1, ReactionsGoOn
    <3>2. CASE ~now
      BY <1>1, <1>3, <3>2, ReactionsGoOn
    <3> QED
      BY <3>1, <3>2
  <2>3. r \in Reactions /\ r.what # "upgrade"
    BY SomeReactions DEF Words
  <2> HIDE DEF r
  <2>4. Steps(v, w, t)
    BY <1>1, <1>3, <2>2, <2>3, Reacts
  <2> QED
    BY <1>3, <2>1, <2>4
<1>4. CASE ~(v.rec.status = "none" /\ defined /\ now) /\ ~(v.rec.status = "custom" /\ v.rec.connected # now)
  <2>1. Visit(v, now) = v
    BY <1>4 DEF Visit
  <2> QED
    BY <1>1, <1>4, <2>1, StaysSo
<1> QED
  BY <1>2, <1>3, <1>4

LEMMA AddingSteps ==
  ASSUME NEW v \in Views, NEW t \in State, Calm(v, t), NEW now \in BOOLEAN,
         v.rec.moving => v.rec.status = "custom" /\ v.rec.connected = now
  PROVE  LET w == Adding(v, now)
         IN  /\ Steps(v, w, t) /\ ~w.rec.moving
             /\ w.rec.status = "custom" => w.rec.connected = now
             /\ w.rec.status = "none" => ~(defined /\ now)
<1>1. CASE v.rec.moving
  <2> DEFINE w == [rec |-> [status |-> v.rec.status, connected |-> v.rec.connected, moving |-> FALSE],
                   queue |-> v.queue]
  <2>1. Adding(v, now) = w
    BY <1>1, Changes DEF Adding
  <2>2. w \in Views
    BY Fields DEF Views, Records
  <2>3. w.rec.status = v.rec.status /\ w.rec.connected = v.rec.connected /\ ~w.rec.moving /\ w.queue = v.queue
    OBVIOUS
  <2> HIDE DEF w
  <2>4. Calm(w, t)
    BY <2>3 DEF Calm
  <2>5. \A a \in {0, 1} : Knows(v, t, At(v, a)) => Knows(w, t, At(w, a))
    BY <2>3 DEF Knows, At
  <2>6. Steps(v, w, t)
    BY <1>1, <2>2, <2>3, <2>4, <2>5 DEF Steps
  <2> QED
    BY <1>1, <2>1, <2>3, <2>6
<1>2. CASE ~v.rec.moving
  <2>1. Adding(v, now) = Visit(v, now)
    BY <1>2 DEF Adding
  <2> QED
    BY <1>2, <2>1, VisitSteps
<1> QED
  BY <1>1, <1>2

LEMMA MovingSteps ==
  ASSUME NEW v \in Views, NEW t \in State, Calm(v, t), NEW now \in BOOLEAN, ~v.rec.moving
  PROVE  LET w == Moving(v, now)
         IN  /\ Steps(v, w, t)
             /\ w.rec.moving => w.rec.status = "custom" /\ w.rec.connected /\ now
<1>1. v.rec.connected \in BOOLEAN /\ v.rec.moving \in BOOLEAN
  BY Fields
<1>2. CASE v.rec.status = "custom" /\ v.rec.connected /\ now
  <2> DEFINE x == [rec |-> [status |-> "custom", connected |-> TRUE, moving |-> v.rec.moving],
                   queue |-> Append(v.queue, Reaction("nothing"))]
  <2>0. v.rec = [status |-> "custom", connected |-> TRUE, moving |-> v.rec.moving]
    BY <1>1, <1>2, Fields
  <2>1. React(v, Reaction("nothing")) = x
    BY <2>0, ReactedSo
  <2>2. \A a \in {0, 1} : /\ Allowed([connected |-> v.rec.connected, attr |-> a], Reaction("nothing"))
                          /\ Leaves([connected |-> v.rec.connected, attr |-> a], Reaction("nothing"))
                               = [connected |-> TRUE, attr |-> a]
    BY <1>1, <1>2, ReactionsGoOn
  <2>3. Reaction("nothing") \in Reactions /\ Reaction("nothing").what # "upgrade"
    BY SomeReactions DEF Words
  <2>4. Steps(v, x, t)
    BY <1>1, <1>2, <2>2, <2>3, Reacts
  <2>5. x \in Views /\ Calm(x, t) /\ x.rec.status = "custom" /\ x.rec.connected = TRUE /\ ~x.rec.moving
    BY <2>4 DEF Steps
  <2>6. CASE ~TellsMoves
    <3>1. Moving(v, now) = x
      BY <1>2, <2>1, <2>6 DEF Moving
    <3> QED
      BY <2>4, <2>5, <3>1
  <2>7. CASE TellsMoves
    <3> HIDE DEF x
    <3> DEFINE m == [status |-> "custom", connected |-> TRUE, moving |-> TRUE]
               w == [rec |-> m, queue |-> Append(x.queue, Reaction("moved"))]
    <3>0. [x EXCEPT !.rec.moving = TRUE] = [rec |-> m, queue |-> x.queue]
      <4>1. [x EXCEPT !.rec.moving = TRUE] =
              [rec |-> [status |-> x.rec.status, connected |-> x.rec.connected, moving |-> TRUE], queue |-> x.queue]
        BY <2>5, Changes
      <4> QED
        BY <2>5, <4>1
    <3>7. m.status = "custom" /\ m.connected
      OBVIOUS
    <3> HIDE DEF m
    <3>1. Moving(v, now) = React([x EXCEPT !.rec.moving = TRUE], Reaction("moved"))
      BY <1>2, <2>1, <2>7 DEF Moving
    <3>2. Moving(v, now) = w
      BY <3>0, <3>1, Reacted
    <3>3. \A a \in {0, 1} : /\ Allowed([connected |-> x.rec.connected, attr |-> a], Reaction("moved"))
                            /\ Leaves([connected |-> x.rec.connected, attr |-> a], Reaction("moved"))
                                 = [connected |-> TRUE, attr |-> a]
      BY <2>5, ReactionsGoOn
    <3>4. Reaction("moved") \in Reactions /\ Reaction("moved").what # "upgrade"
      BY SomeReactions DEF Words
    <3>5. Steps(x, w, t)
      BY <2>5, <3>3, <3>4, Reacts DEF m
    <3>6. Steps(v, w, t)
      BY <2>4, <3>5, StepsTwice
    <3>8. w.rec.status = "custom" /\ w.rec.connected
      BY <3>7
    <3> HIDE DEF w
    <3>9. Steps(v, Moving(v, now), t)
      BY <3>2, <3>6
    <3> QED
      BY <1>2, <3>2, <3>8, <3>9
  <2> QED
    BY <2>6, <2>7
<1>3. CASE ~(v.rec.status = "custom" /\ v.rec.connected /\ now)
  <2>1. Moving(v, now) = v
    BY <1>3 DEF Moving
  <2> QED
    BY <2>1, StaysSo
<1> QED
  BY <1>2, <1>3

\* After all events of a call that put the element where it is connected, now,
\* or not.
Arrives(v, w, t, now) ==
  /\ Steps(v, w, t) /\ ~w.rec.moving
  /\ w.rec.status = "custom" => w.rec.connected = now
  /\ w.rec.status = "none" => ~(defined /\ now)

LEMMA Arrivals ==
  ASSUME NEW v \in Views, NEW t \in State, Calm(v, t), ~v.rec.moving, NEW now \in BOOLEAN
  PROVE  /\ Arrives(v, Adding(v, now), t, now)
         /\ Arrives(v, Adding(Removing(v), now), t, now)
         /\ Arrives(v, Removing(v), t, FALSE)
         /\ Arrives(v, Adding(Removing(Moving(v, now)), now), t, now)
         /\ Arrives(v, Adding(Parsing(v), now), t, now)
<1>1. Arrives(v, Adding(v, now), t, now)
  BY AddingSteps DEF Arrives
<1>2. ASSUME NEW x, Steps(v, x, t), x.rec.moving => x.rec.status = "custom" /\ x.rec.connected = now
      PROVE  Arrives(v, Adding(x, now), t, now)
  <2>1. x \in Views /\ Calm(x, t)
    BY <1>2 DEF Steps
  <2>2. Arrives(x, Adding(x, now), t, now)
    BY <1>2, <2>1, AddingSteps DEF Arrives
  <2> QED
    BY <1>2, <2>2, StepsTwice DEF Arrives
<1>3. Steps(v, Removing(v), t) /\ ~Removing(v).rec.moving
      /\ (Removing(v).rec.status = "custom" => ~Removing(v).rec.connected)
  BY RemovingSteps
<1>4. Arrives(v, Adding(Removing(v), now), t, now)
  BY <1>2, <1>3
<1>5. Arrives(v, Removing(v), t, FALSE)
  BY <1>3 DEF Arrives
<1>6. Arrives(v, Adding(Removing(Moving(v, now)), now), t, now)
  <2> DEFINE y == Moving(v, now)
             x == Removing(y)
  <2>1. Steps(v, y, t) /\ (y.rec.moving => y.rec.status = "custom" /\ y.rec.connected /\ now)
    BY MovingSteps
  <2>2. y \in Views /\ Calm(y, t)
    BY <2>1 DEF Steps
  <2> HIDE DEF y
  <2>3. /\ Steps(y, x, t) /\ x.rec.moving = y.rec.moving
        /\ x.rec.status = "custom" /\ y.rec.moving => x.rec.connected = y.rec.connected
    BY <2>2, RemovingSteps
  <2> HIDE DEF x
  <2>4. Steps(v, x, t)
    BY <2>1, <2>3, StepsTwice
  <2>5. x.rec.moving => x.rec.status = "custom" /\ x.rec.connected = now
    BY <2>1, <2>3 DEF Steps
  <2>6. Arrives(v, Adding(x, now), t, now)
    BY <1>2, <2>4, <2>5
  <2> QED
    BY <2>6 DEF x, y
<1>7. Arrives(v, Adding(Parsing(v), now), t, now)
  <2>1. Steps(v, Parsing(v), t) /\ ~Parsing(v).rec.moving
    <3>1. CASE v.rec.status = "none" /\ defined
      BY <3>1, UpgradedSteps DEF Parsing
    <3>2. CASE ~(v.rec.status = "none" /\ defined)
      BY <3>2, StaysSo DEF Parsing
    <3> QED
      BY <3>1, <3>2
  <2> QED
    BY <1>2, <2>1
<1> QED
  BY <1>1, <1>4, <1>5, <1>6, <1>7

LEMMA AttributeSteps ==
  ASSUME NEW v \in Views, NEW t \in State, Calm(v, t), NEW old \in {0, 1}
  PROVE  LET w == AttributeSet(v, old)
             only(q) == \A k \in DOMAIN q : q[k].what = "attribute"
         IN  /\ w \in Views /\ Calm(w, t) /\ w.rec = v.rec
             /\ v.rec.status # "custom" => w = v
             /\ v.rec.status = "custom" /\ only(v.queue) => only(w.queue)
             /\ v.rec.status = "custom" => \A c \in BOOLEAN :
                  Story(t, v.queue, [connected |-> c, attr |-> old]) =>
                  Story(t, w.queue, [connected |-> c, attr |-> 1 - old])
<1>1. CASE v.rec.status # "custom"
  BY <1>1 DEF AttributeSet
<1>2. CASE v.rec.status = "custom"
  <2> DEFINE r == Changed(old, 1 - old)
             q == Append(v.queue, r)
             w == [rec |-> v.rec, queue |-> q]
  <2>1. AttributeSet(v, old) = w
    BY <1>2, ReactedSo DEF AttributeSet
  <2>2. 1 - old \in {0, 1} /\ r \in Reactions /\ r.what = "attribute" /\ r.old = old /\ r.new = 1 - old
    BY SomeReactions DEF Changed
  <2>3. v.queue \in Seq(Reactions) /\ v.rec \in Records
    BY DEF Views
  <2> HIDE DEF r
  <2>4. /\ q \in Seq(Reactions)
        /\ \A k \in DOMAIN q : q[k] = r \/ (k \in DOMAIN v.queue /\ q[k] = v.queue[k])
    BY <2>2, <2>3, Pushed
  <2>5. w \in Views
    BY <2>3, <2>4 DEF Views
  <2>6. Calm(w, t)
    BY <1>2, <2>2, <2>4 DEF Calm
  <2>7. ASSUME NEW c \in BOOLEAN, Story(t, v.queue, [connected |-> c, attr |-> old])
        PROVE  Story(t, q, [connected |-> c, attr |-> 1 - old])
    <3> DEFINE u == [connected |-> c, attr |-> old]
    <3>1. u \in State
      BY DEF State
    <3>2. Allowed(u, r) /\ Leaves(u, r) = [connected |-> c, attr |-> 1 - old]
      BY <2>2 DEF Allowed, Continues, Leaves
    <3> HIDE DEF u
    <3>3. Story(t, q, Leaves(u, r))
      BY <2>2, <2>3, <2>7, <3>1, <3>2, StoryGoesOn DEF u
    <3> QED
      BY <3>2, <3>3
  <2>8. (\A k \in DOMAIN v.queue : v.queue[k].what = "attribute") => \A k \in DOMAIN q : q[k].what = "attribute"
    BY <2>2, <2>4
  <2> HIDE DEF q
  <2> QED
    BY <1>2, <2>1, <2>5, <2>6, <2>7, <2>8
<1> QED
  BY <1>1, <1>2

-----------------------------------------------------------------------------
(* What is under way.                                                       *)

LEMMA PutOn ==
  ASSUME NEW F, NEW f \in F, NEW s \in Seq(F)
  PROVE  LET t == <<f>> \o s
         IN  /\ t \in Seq(F) /\ t # <<>> /\ Head(t) = f /\ Tail(t) = s
             /\ Len(s) \in Nat /\ DOMAIN s = 1..Len(s) /\ Len(t) = Len(s) + 1
             /\ DOMAIN t = 1..(Len(s) + 1)
             /\ t[1] = f /\ \A k \in 1..Len(s) : t[k + 1] = s[k]
             /\ ToSet(t) = {f} \cup ToSet(s)
<1> DEFINE t == <<f>> \o s
<1>1. /\ t \in Seq(F) /\ t # <<>> /\ Head(t) = f
      /\ Len(s) \in Nat /\ DOMAIN s = 1..Len(s) /\ Len(t) = Len(s) + 1
      /\ DOMAIN t = 1..(Len(s) + 1)
      /\ t[1] = f /\ \A k \in 1..Len(s) : t[k + 1] = s[k]
  OBVIOUS
<1>2. Tail(t) = s
  <2>1. Tail(t) \in Seq(F) /\ Len(Tail(t)) = Len(s) /\ \A k \in 1..Len(s) : Tail(t)[k] = t[k + 1]
    BY <1>1
  <2> HIDE DEF t
  <2> QED
    BY <1>1, <2>1, SeqEqual
<1>3. <<f>> \in Seq(F) /\ ToSet(<<f>>) = {f}
  BY DEF ToSet
<1>4. ToSet(t) = {f} \cup ToSet(s)
  <2> DEFINE e == <<f>>
  <2>1. e \in Seq(F) /\ ToSet(e) = {f}
    BY <1>3
  <2> HIDE DEF e
  <2>2. ToSet(e \o s) = ToSet(e) \cup ToSet(s)
    BY <2>1, Joined
  <2> QED
    BY <2>1, <2>2 DEF e
<1> QED
  BY <1>1, <1>2, <1>4

LEMMA TakeOff ==
  ASSUME NEW F, NEW s \in Seq(F), s # <<>>
  PROVE  /\ Head(s) \in F /\ Tail(s) \in Seq(F) /\ s = <<Head(s)>> \o Tail(s)
         /\ ToSet(s) = {Head(s)} \cup ToSet(Tail(s)) /\ s[1] = Head(s)
         /\ Len(s) = Len(Tail(s)) + 1
<1> DEFINE t == <<Head(s)>> \o Tail(s)
<1>1. /\ Len(s) \in Nat \ {0} /\ Head(s) = s[1] /\ Head(s) \in F /\ Tail(s) \in Seq(F)
      /\ Len(Tail(s)) = Len(s) - 1 /\ \A k \in 1..(Len(s) - 1) : Tail(s)[k] = s[k + 1]
  OBVIOUS
<1>2. /\ t \in Seq(F) /\ Len(t) = Len(s) /\ t[1] = s[1] /\ \A k \in 1..(Len(s) - 1) : t[k + 1] = s[k + 1]
      /\ ToSet(t) = {Head(s)} \cup ToSet(Tail(s))
  <2> DEFINE h == Head(s)
             r == Tail(s)
  <2>1. h \in F /\ r \in Seq(F) /\ h = s[1]
        /\ Len(r) = Len(s) - 1 /\ \A k \in 1..(Len(s) - 1) : r[k] = s[k + 1]
    BY <1>1
  <2> HIDE DEF h, r
  <2>2. /\ <<h>> \o r \in Seq(F) /\ Len(<<h>> \o r) = Len(r) + 1
        /\ (<<h>> \o r)[1] = h /\ \A k \in 1..Len(r) : (<<h>> \o r)[k + 1] = r[k]
        /\ ToSet(<<h>> \o r) = {h} \cup ToSet(r)
    BY <2>1, PutOn
  <2> DEFINE c == <<h>> \o r
  <2>3. /\ c \in Seq(F) /\ Len(c) = Len(r) + 1 /\ c[1] = h /\ ToSet(c) = {h} \cup ToSet(r)
        /\ \A k \in 1..Len(r) : c[k + 1] = r[k]
    BY <2>2
  <2> HIDE DEF c
  <2>4. c \in Seq(F) /\ Len(c) = Len(s) /\ c[1] = s[1] /\ \A k \in 1..(Len(s) - 1) : c[k + 1] = s[k + 1]
    <3>1. Len(s) \in Nat \ {0} /\ Len(r) = Len(s) - 1
      BY <1>1, <2>1
    <3>2. Len(c) = Len(s)
      BY <2>3, <3>1
    <3>3. \A k \in 1..(Len(s) - 1) : c[k + 1] = r[k] /\ r[k] = s[k + 1]
      BY <2>1, <2>3, <3>1
    <3> QED
      BY <2>1, <2>3, <3>2, <3>3
  <2> QED
    BY <2>3, <2>4 DEF h, r, c
<1> HIDE DEF t
<1>3. \A k \in 1..Len(s) : t[k] = s[k]
  <2> SUFFICES ASSUME NEW k \in 1..Len(s) PROVE t[k] = s[k]
    OBVIOUS
  <2>1. CASE k = 1
    BY <1>2, <2>1
  <2>2. CASE k # 1
    <3>1. k - 1 \in 1..(Len(s) - 1) /\ (k - 1) + 1 = k
      BY <1>1, <2>2
    <3> QED
      BY <1>2, <3>1
  <2> QED
    BY <2>1, <2>2
<1>4. t = s
  BY <1>2, <1>3, SeqEqual
<1> QED
  <2>1. s = <<Head(s)>> \o Tail(s)
    BY <1>4 DEF t
  <2>2. ToSet(s) = {Head(s)} \cup ToSet(Tail(s))
    BY <1>2, <1>4
  <2> QED
    BY <1>1, <2>1, <2>2

ToConnect == <<Reaction("connected")>>
ToTell == <<Changed(0, 1), Reaction("connected")>>

Frames ==
  UNION {[kind : {"walk"}, todo : Seq(Custom \cup Holder)],
         [kind : {"reactions"}, order : Seq(Custom)],
         [kind : {"callback"}, node : Custom, tells : Reactions],
         [kind : {"constructor"}, node : Custom, used : BOOLEAN, made : Custom \cup {None},
          initial : {0, 1}],
         [kind : {"creation"}, made : Custom \cup {None}],
         [kind : {"settling"}, node : Custom, todo : {<<>>, ToConnect, ToTell}]}

\* The frames of an upgrade: an element has one at most.
OfUpgrade(f) == f.kind \in {"constructor", "settling"}
Long(f) == f.kind = "settling" /\ f.todo = ToTell

Tidy(s) ==
  /\ \A i, j \in DOMAIN s :
       OfUpgrade(s[i]) /\ OfUpgrade(s[j]) /\ s[i].node = s[j].node => i = j
  /\ \A i \in DOMAIN s : Long(s[i]) => i = 1

LEMMA TidyPut ==
  ASSUME NEW f \in Frames, NEW s \in Seq(Frames)
  PROVE  Tidy(<<f>> \o s) <=>
           /\ Tidy(s)
           /\ \A g \in ToSet(s) : ~Long(g) /\ (OfUpgrade(f) /\ OfUpgrade(g) => g.node # f.node)
<1> DEFINE t == <<f>> \o s
           n == Len(s)
<1>1. /\ n \in Nat /\ DOMAIN s = 1..n /\ DOMAIN t = 1..(n + 1)
      /\ t[1] = f /\ \A k \in 1..n : t[k + 1] = s[k]
  BY PutOn
<1> HIDE DEF t, n
<1>2. \A k \in 1..n : k + 1 \in 1..(n + 1) /\ k + 1 # 1
  BY <1>1
<1>3. \A k \in 1..(n + 1) : k # 1 => k - 1 \in 1..n /\ (k - 1) + 1 = k
  BY <1>1
<1>4. 1 \in 1..(n + 1)
  BY <1>1
<1>5. ASSUME Tidy(t)
      PROVE  /\ Tidy(s)
             /\ \A g \in ToSet(s) : ~Long(g) /\ (OfUpgrade(f) /\ OfUpgrade(g) => g.node # f.node)
  <2>1. ASSUME NEW i \in 1..n, NEW j \in 1..n, OfUpgrade(s[i]), OfUpgrade(s[j]), s[i].node = s[j].node
        PROVE  i = j
    <3>1. i + 1 = j + 1
      BY <1>1, <1>2, <1>5, <2>1 DEF Tidy
    <3> QED
      BY <1>1, <3>1
  <2>2. ASSUME NEW i \in 1..n
        PROVE  ~Long(s[i]) /\ (OfUpgrade(f) /\ OfUpgrade(s[i]) => s[i].node # f.node)
    BY <1>1, <1>2, <1>4, <1>5 DEF Tidy
  <2> QED
    BY <1>1, <2>1, <2>2 DEF Tidy, ToSet
<1>6. ASSUME Tidy(s),
             \A g \in ToSet(s) : ~Long(g) /\ (OfUpgrade(f) /\ OfUpgrade(g) => g.node # f.node)
      PROVE  Tidy(t)
  <2>0. \A k \in 1..n : s[k] \in ToSet(s)
    BY <1>1 DEF ToSet
  <2>1. ASSUME NEW i \in 1..(n + 1), NEW j \in 1..(n + 1),
               OfUpgrade(t[i]), OfUpgrade(t[j]), t[i].node = t[j].node
        PROVE  i = j
    <3>1. CASE i = 1
      BY <1>1, <1>3, <1>6, <2>0, <2>1, <3>1
    <3>2. CASE j = 1
      BY <1>1, <1>3, <1>6, <2>0, <2>1, <3>2
    <3>3. CASE i # 1 /\ j # 1
      <4>1. i - 1 \in 1..n /\ j - 1 \in 1..n /\ t[i] = s[i - 1] /\ t[j] = s[j - 1]
        BY <1>1, <1>3, <3>3
      <4>2. i - 1 = j - 1
        BY <1>1, <1>6, <2>1, <4>1 DEF Tidy
      <4> QED
        BY <1>1, <1>3, <4>1, <4>2
    <3> QED
      BY <3>1, <3>2, <3>3
  <2>2. ASSUME NEW i \in 1..(n + 1), Long(t[i]) PROVE i = 1
    BY <1>1, <1>3, <1>6, <2>0, <2>2
  <2> QED
    BY <1>1, <2>1, <2>2 DEF Tidy
<1> QED
  BY <1>5, <1>6 DEF t

-----------------------------------------------------------------------------
(* The page.                                                                *)

Things == Custom \cup {Box}

Placed(lists, made) ==
  /\ lists \in [Holder -> Seq(Things)]
  /\ \A p \in Holder : IsInjective(lists[p]) /\ ToSet(lists[p]) \subseteq made \cup {Box}
  /\ Box \notin ToSet(lists[Box])
  /\ ToSet(lists[Body]) \cap ToSet(lists[Box]) = {}

LEMMA Apart == Body # Box /\ Body \notin Things /\ Box \notin Custom /\ Holder = {Body, Box} /\ None \notin Things
BY CustomElementsAssumption DEF Holder, Things

LEMMA ConnectedWhere ==
  ASSUME NEW lists, NEW m \in Custom
  PROVE  /\ Connected(lists, m) \in BOOLEAN
         /\ Connected(lists, m) <=> \/ m \in ToSet(lists[Body])
                                    \/ m \in ToSet(lists[Box]) /\ Box \in ToSet(lists[Body])
BY Apart DEF Connected, Things

LEMMA Drops ==
  ASSUME NEW A, NEW s \in Seq(A), IsInjective(s), NEW c
  PROVE  LET r == RemoveFirst(s, c)
         IN  r \in Seq(A) /\ ToSet(r) = ToSet(s) \ {c} /\ IsInjective(r)
<1>1. CASE c \in ToSet(s)
  BY <1>1, Removed
<1>2. CASE c \notin ToSet(s)
  <2>1. ~\E i \in 1..Len(s) : s[i] = c
    BY <1>2 DEF ToSet
  <2>2. RemoveFirst(s, c) = s
    BY <2>1 DEF RemoveFirst
  <2> QED
    BY <1>2, <2>2
<1> QED
  BY <1>1, <1>2

LEMMA TakenOutLists ==
  ASSUME Placed(kids, born), NEW n
  PROVE  /\ Placed(TakenOut(n), born)
         /\ \A p \in Holder : ToSet(TakenOut(n)[p]) = ToSet(kids[p]) \ {n}
<1>1. \A p \in Holder : kids[p] \in Seq(Things) /\ IsInjective(kids[p]) /\ TakenOut(n)[p] = RemoveFirst(kids[p], n)
  BY DEF Placed, TakenOut
<1>2. \A p \in Holder : /\ TakenOut(n)[p] \in Seq(Things) /\ IsInjective(TakenOut(n)[p])
                        /\ ToSet(TakenOut(n)[p]) = ToSet(kids[p]) \ {n}
  BY <1>1, Drops
<1>3. TakenOut(n) \in [Holder -> Seq(Things)]
  BY <1>2 DEF TakenOut
<1> QED
  BY <1>2, <1>3, Apart DEF Placed

LEMMA PutLastLists ==
  ASSUME Placed(kids, born), NEW n \in born \cup {Box}, born \subseteq Custom, NEW p \in Holder, n # p
  PROVE  /\ Placed(PutLast(n, p), born)
         /\ \A q \in Holder : ToSet(PutLast(n, p)[q]) \ {n} = ToSet(kids[q]) \ {n}
<1> DEFINE l == TakenOut(n)
           r == PutLast(n, p)
<1>1. Placed(l, born) /\ \A q \in Holder : ToSet(l[q]) = ToSet(kids[q]) \ {n}
  BY TakenOutLists
<1>2. r = [l EXCEPT ![p] = Append(l[p], n)]
  BY DEF PutLast
<1>3. n \in Things
  BY DEF Things
<1> HIDE DEF l, r
<1>4. l \in [Holder -> Seq(Things)] /\ \A q \in Holder : l[q] \in Seq(Things) /\ IsInjective(l[q])
  BY <1>1 DEF Placed
<1>5. /\ r[p] = Append(l[p], n) /\ \A q \in Holder : q # p => r[q] = l[q]
      /\ DOMAIN r = Holder /\ r = [q \in Holder |-> r[q]]
  BY <1>2, <1>4
<1>6. /\ r[p] \in Seq(Things) /\ IsInjective(r[p]) /\ ToSet(r[p]) = ToSet(l[p]) \cup {n}
  BY <1>1, <1>3, <1>4, <1>5, Appended DEF Joins
<1>7. r \in [Holder -> Seq(Things)]
  BY <1>4, <1>5, <1>6
<1>8. \A q \in Holder : IsInjective(r[q]) /\ ToSet(r[q]) \subseteq born \cup {Box}
  BY <1>1, <1>5, <1>6 DEF Placed
<1>9. Box \notin ToSet(r[Box]) /\ ToSet(r[Body]) \cap ToSet(r[Box]) = {}
  <2>1. CASE p = Box
    <3>1. /\ ToSet(r[Body]) = ToSet(kids[Body]) \ {n} /\ ToSet(r[Box]) = (ToSet(kids[Box]) \ {n}) \cup {n}
      BY <1>1, <1>5, <1>6, <2>1, Apart
    <3>2. Box \notin ToSet(kids[Box]) /\ ToSet(kids[Body]) \cap ToSet(kids[Box]) = {} /\ n # Box
      BY <2>1 DEF Placed
    <3> QED
      BY <3>1, <3>2
  <2>2. CASE p = Body
    BY <1>1, <1>5, <1>6, <2>2, Apart DEF Placed
  <2> QED
    BY <2>1, <2>2, Apart
<1>10. \A q \in Holder : ToSet(r[q]) \ {n} = ToSet(kids[q]) \ {n}
  BY <1>1, <1>5, <1>6
<1> QED
  BY <1>7, <1>8, <1>9, <1>10 DEF Placed, r

\* m is where it was, for a walk and for itself.
Untouched(lists, m) ==
  /\ Connected(lists, m) <=> Connected(kids, m)
  /\ \A p \in Holder : m \in ToSet(kids[p]) => m \in ToSet(lists[p])
  /\ m \in ToSet(kids[Box]) /\ Box \in ToSet(kids[Body]) => Box \in ToSet(lists[Body])

LEMMA ElementsListed ==
  ASSUME Placed(kids, born), born \subseteq Custom, NEW n \in born \cup {Box}
  PROVE  ElementsIn(n) \in Seq(Custom) /\ ToSet(ElementsIn(n)) \subseteq born
<1>1. CASE n = Box
  <2>1. kids[Box] \in Seq(Things) /\ ToSet(kids[Box]) \subseteq born
    BY Apart DEF Placed
  <2>2. kids[Box] \in Seq(Custom)
    <3>1. \A k \in 1..Len(kids[Box]) : kids[Box][k] \in Custom
      BY <2>1 DEF ToSet
    <3> QED
      BY <2>1, <3>1
  <2> QED
    BY <1>1, <2>1, <2>2 DEF ElementsIn
<1>2. CASE n # Box
  BY <1>2 DEF ElementsIn, ToSet
<1> QED
  BY <1>1, <1>2

LEMMA Elsewhere ==
  ASSUME Placed(kids, born), born \subseteq Custom, NEW n \in born \cup {Box}, NEW lists,
         \A p \in Holder : ToSet(lists[p]) \ {n} = ToSet(kids[p]) \ {n},
         NEW m \in Custom, m \notin ToSet(ElementsIn(n))
  PROVE  Untouched(lists, m)
<1>1. CASE n = Box
  <2>1. m \notin ToSet(kids[Box]) /\ m # Box
    BY <1>1, Apart DEF ElementsIn
  <2>2. m \notin ToSet(lists[Box]) /\ \A p \in Holder : m \in ToSet(kids[p]) <=> m \in ToSet(lists[p])
    BY <1>1, <2>1, Apart
  <2> QED
    BY <2>1, <2>2, ConnectedWhere, Apart DEF Untouched
<1>2. CASE n # Box
  <2>1. m # n
    BY <1>2 DEF ElementsIn, ToSet
  <2>2. /\ \A p \in Holder : m \in ToSet(kids[p]) <=> m \in ToSet(lists[p])
        /\ \A p \in Holder : Box \in ToSet(kids[p]) <=> Box \in ToSet(lists[p])
    BY <1>2, <2>1
  <2> QED
    BY <2>2, ConnectedWhere, Apart DEF Untouched
<1> QED
  BY <1>1, <1>2

-----------------------------------------------------------------------------
(* The events of a call.                                                    *)

Kinds == {"removed", "added", "move", "parsed", "attribute"}
Books == [rec : [Custom -> Records], queue : [Custom -> Seq(Reactions)], order : Seq(Custom)]
Seen(s, n) == [rec |-> s.rec[n], queue |-> s.queue[n]]

\* Whoever got a reaction between s and d is in the order.
Notes(s, d) ==
  /\ ToSet(s.order) \subseteq ToSet(d.order)
  /\ \A n \in Custom : d.queue[n] = s.queue[n] \/ n \in ToSet(d.order)

LEMMA Altered ==
  ASSUME NEW v \in Views, NEW b \in BOOLEAN, NEW r \in Reactions,
         NEW s \in {"none", "pending", "constructing", "custom", "failed"}
  PROVE  /\ [v EXCEPT !.rec.connected = b] \in Views
         /\ [v EXCEPT !.rec.moving = b] \in Views
         /\ [v EXCEPT !.rec.status = s] \in Views
         /\ React(v, r) \in Views
<1>1. /\ v.rec.status \in {"none", "pending", "constructing", "custom", "failed"}
      /\ v.rec.connected \in BOOLEAN /\ v.rec.moving \in BOOLEAN /\ v.queue \in Seq(Reactions)
  BY Fields
<1>2. \A t \in {"none", "pending", "constructing", "custom", "failed"}, c, m \in BOOLEAN :
        [rec |-> [status |-> t, connected |-> c, moving |-> m], queue |-> v.queue] \in Views
  BY <1>1 DEF Views, Records
<1>3. React(v, r) \in Views
  <2>1. Append(v.queue, r) \in Seq(Reactions) /\ v.rec \in Records
    BY <1>1 DEF Views
  <2>2. [rec |-> v.rec, queue |-> Append(v.queue, r)] \in Views
    BY <2>1 DEF Views
  <2> QED
    BY <2>2, ReactedSo
<1>4. [v EXCEPT !.rec.connected = b] \in Views
  <2>1. [v EXCEPT !.rec.connected = b] =
          [rec |-> [status |-> v.rec.status, connected |-> b, moving |-> v.rec.moving], queue |-> v.queue]
    BY Changes
  <2> QED
    BY <1>1, <1>2, <2>1
<1>5. [v EXCEPT !.rec.moving = b] \in Views
  <2>1. [v EXCEPT !.rec.moving = b] =
          [rec |-> [status |-> v.rec.status, connected |-> v.rec.connected, moving |-> b], queue |-> v.queue]
    BY Changes
  <2> QED
    BY <1>1, <1>2, <2>1
<1>6. [v EXCEPT !.rec.status = s] \in Views
  <2>1. [v EXCEPT !.rec.status = s] =
          [rec |-> [status |-> s, connected |-> v.rec.connected, moving |-> v.rec.moving], queue |-> v.queue]
    BY Changes
  <2> QED
    BY <1>1, <1>2, <2>1
<1> QED
  BY <1>3, <1>4, <1>5, <1>6

LEMMA HandledViews ==
  ASSUME attr \in [Custom -> {0, 1}], NEW lists, NEW n \in Custom, NEW v \in Views, NEW kind \in Kinds
  PROVE  Handled(lists, kind, n, v) \in Views
<1> DEFINE now == Connected(lists, n)
<1>1. now \in BOOLEAN
  BY ConnectedWhere
<1> HIDE DEF now
<1>2. \A w \in Words : Reaction(w) \in Reactions
  BY SomeReactions
<1>3. Removing(v) \in Views
  <2>1. [v EXCEPT !.rec.connected = FALSE] \in Views
    BY Altered, <1>2 DEF Words
  <2> QED
    BY <1>2, <2>1, Altered DEF Removing, Words
<1>4. Upgraded(v) \in Views
  <2>1. [v EXCEPT !.rec.status = "pending"] \in Views
    BY Altered, <1>2 DEF Words
  <2> QED
    BY <1>2, <2>1, Altered DEF Upgraded, Words
<1>5. Visit(v, now) \in Views
  <2>1. [v EXCEPT !.rec.connected = now] \in Views
    BY <1>1, <1>2, Altered DEF Words
  <2>2. Reaction(IF now THEN "connected" ELSE "disconnected") \in Reactions
    BY <1>2 DEF Words
  <2>3. React([v EXCEPT !.rec.connected = now], Reaction(IF now THEN "connected" ELSE "disconnected")) \in Views
    BY <1>1, <2>1, <2>2, Altered
  <2> QED
    BY <1>4, <2>3 DEF Visit
<1>6. Adding(v, now) \in Views
  <2>1. [v EXCEPT !.rec.moving = FALSE] \in Views
    BY Altered, <1>2 DEF Words
  <2> QED
    BY <1>5, <2>1 DEF Adding
<1>7. Moving(v, now) \in Views
  <2>1. React(v, Reaction("nothing")) \in Views
    BY <1>2, Altered DEF Words
  <2>2. [React(v, Reaction("nothing")) EXCEPT !.rec.moving = TRUE] \in Views
    BY <2>1, <1>2, Altered DEF Words
  <2>3. React([React(v, Reaction("nothing")) EXCEPT !.rec.moving = TRUE], Reaction("moved")) \in Views
    BY <2>2, <1>2, Altered DEF Words
  <2> QED
    BY <2>1, <2>3 DEF Moving
<1>8. Parsing(v) \in Views
  BY <1>4 DEF Parsing
<1>9. AttributeSet(v, attr[n]) \in Views
  <2>1. Changed(attr[n], 1 - attr[n]) \in Reactions
    BY SomeReactions
  <2> QED
    BY <1>1, <2>1, Altered DEF AttributeSet
<1> QED
  BY <1>3, <1>6, <1>7, <1>8, <1>9 DEF Handled, Kinds, now

LEMMA Delivers ==
  ASSUME attr \in [Custom -> {0, 1}], NEW lists, NEW s \in Books, NEW e,
         e.kind \in Kinds, e.nodes \in Seq(Custom)
  PROVE  LET d == Delivered(lists, s, e)
         IN  /\ d \in Books /\ Notes(s, d)
             /\ \A n \in Custom : Seen(d, n) = IF n \in ToSet(e.nodes)
                                               THEN Handled(lists, e.kind, n, Seen(s, n))
                                               ELSE Seen(s, n)
<1> DEFINE v == [n \in Custom |->
                   IF n \in ToSet(e.nodes) THEN Handled(lists, e.kind, n, Seen(s, n)) ELSE Seen(s, n)]
           S == {n \in Custom : v[n].queue # s.queue[n]} \ ToSet(s.order)
           k == Kept(e.nodes, S)
           d == [rec |-> [n \in Custom |-> v[n].rec], queue |-> [n \in Custom |-> v[n].queue],
                 order |-> s.order \o k]
<1>1. Delivered(lists, s, e) = d
  BY DEF Delivered, Seen
<1>2. \A n \in Custom : Seen(s, n) \in Views
  BY DEF Books, Seen, Views
<1>3. \A n \in Custom : v[n] \in Views
  <2> SUFFICES ASSUME NEW n \in Custom PROVE v[n] \in Views
    OBVIOUS
  <2>1. Handled(lists, e.kind, n, Seen(s, n)) \in Views
    BY <1>2, HandledViews
  <2> QED
    BY <1>2, <2>1
<1>4. \A n \in Custom : n \notin ToSet(e.nodes) => v[n].queue = s.queue[n]
  BY DEF Seen
<1>5. k \in Seq(Custom) /\ ToSet(k) = ToSet(e.nodes) \cap S
  BY KeptPicks, KeptMembers
<1>6. s.order \in Seq(Custom)
  BY DEF Books
<1>7. s.order \o k \in Seq(Custom) /\ ToSet(s.order \o k) = ToSet(s.order) \cup ToSet(k)
  <2>1. \A a, b \in Seq(Custom) : a \o b \in Seq(Custom) /\ ToSet(a \o b) = ToSet(a) \cup ToSet(b)
    BY Joined
  <2> HIDE DEF k
  <2> QED
    BY <1>5, <1>6, <2>1
<1>8. \A n \in Custom : v[n] = IF n \in ToSet(e.nodes) THEN Handled(lists, e.kind, n, Seen(s, n)) ELSE Seen(s, n)
  OBVIOUS
<1>9. \A n \in Custom : v[n].queue = s.queue[n] \/ n \in ToSet(s.order \o k)
  BY <1>4, <1>5, <1>7
<1> HIDE DEF v, k
<1>10. d.rec \in [Custom -> Records] /\ d.queue \in [Custom -> Seq(Reactions)]
  BY <1>3 DEF Views
<1>11. d.order = s.order \o k /\ \A n \in Custom : d.rec[n] = v[n].rec /\ d.queue[n] = v[n].queue
  OBVIOUS
<1>12. d \in Books
  BY <1>7, <1>10 DEF Books
<1> HIDE DEF d
<1>13. Notes(s, d)
  BY <1>7, <1>9, <1>11 DEF Notes
<1>14. \A n \in Custom : Seen(d, n) = v[n]
  BY <1>3, <1>11, Fields DEF Seen
<1> QED
  BY <1>1, <1>8, <1>12, <1>13, <1>14

LEMMA NotesOn ==
  ASSUME NEW s, NEW d, NEW x, Notes(s, d), Notes(d, x)
  PROVE  Notes(s, x)
BY DEF Notes

LEMMA OneByOne ==
  ASSUME NEW lists, NEW s, NEW events, Len(events) \in Nat,
         NEW g, g = [k \in 0..Len(events) |->
                       IF k = 0 THEN s ELSE Delivered(lists, g[k - 1], events[k])]
  PROVE  \E d : /\ AllDelivered(lists, s, events) = d[Len(events)] /\ d[0] = s
                /\ \A k \in 1..Len(events) : d[k] = Delivered(lists, d[k - 1], events[k])
<1> DEFINE Ok(f) == f = [k \in 0..Len(events) |->
                           IF k = 0 THEN s ELSE Delivered(lists, f[k - 1], events[k])]
           d == CHOOSE f : Ok(f)
<1>1. Ok(g)
  OBVIOUS
<1>2. Ok(d)
  BY <1>1
<1>3. AllDelivered(lists, s, events) = d[Len(events)]
  BY DEF AllDelivered
<1> HIDE DEF d
<1>4. d[0] = s /\ \A k \in 1..Len(events) : d[k] = Delivered(lists, d[k - 1], events[k])
  BY <1>2
<1> QED
  BY <1>3, <1>4

LEMMA AFew ==
  ASSUME NEW lists, NEW s, NEW events, Len(events) \in 1..3
  PROVE  LET d1 == Delivered(lists, s, events[1])
             d2 == Delivered(lists, d1, events[2])
         IN  AllDelivered(lists, s, events) =
               CASE Len(events) = 1 -> d1
                 [] Len(events) = 2 -> d2
                 [] Len(events) = 3 -> Delivered(lists, d2, events[3])
<1> DEFINE d1 == Delivered(lists, s, events[1])
           d2 == Delivered(lists, d1, events[2])
           d3 == Delivered(lists, d2, events[3])
           n == Len(events)
           g == [k \in 0..n |-> CASE k = 0 -> s [] k = 1 -> d1 [] k = 2 -> d2 [] k = 3 -> d3]
<1>1. g = [k \in 0..n |-> IF k = 0 THEN s ELSE Delivered(lists, g[k - 1], events[k])]
  <2>1. ASSUME NEW k \in 0..n
        PROVE  g[k] = IF k = 0 THEN s ELSE Delivered(lists, g[k - 1], events[k])
    <3> HIDE DEF d1, d2, d3
    <3>1. CASE k = 0
      BY <3>1
    <3>2. CASE k = 1
      BY <3>2 DEF d1
    <3>3. CASE k = 2
      BY <3>3 DEF d2
    <3>4. CASE k = 3
      BY <3>4 DEF d3
    <3> QED
      BY <3>1, <3>2, <3>3, <3>4
  <2> QED
    BY <2>1
<1>2. n \in Nat
  OBVIOUS
<1> HIDE DEF g, n
<1>3. PICK d : /\ AllDelivered(lists, s, events) = d[n] /\ d[0] = s
               /\ \A k \in 1..n : d[k] = Delivered(lists, d[k - 1], events[k])
  BY <1>1, <1>2, OneByOne DEF n
<1>4. d[1] = d1
  <2>1. 1 \in 1..n /\ 1 - 1 = 0
    BY DEF n
  <2> QED
    BY <1>3, <2>1
<1>5. n >= 2 => d[2] = d2
  BY <1>2, <1>3, <1>4
<1>6. n >= 3 => d[3] = d3
  BY <1>2, <1>3, <1>5
<1> HIDE DEF d1, d2, d3
<1>7. n \in 1..3
  BY DEF n
<1>8. AllDelivered(lists, s, events) = CASE n = 1 -> d1 [] n = 2 -> d2 [] n = 3 -> d3
  BY <1>3, <1>4, <1>5, <1>6, <1>7
<1> QED
  BY <1>8 DEF n, d1, d2, d3

-----------------------------------------------------------------------------
(* The invariant.                                                           *)

View(n) == [rec |-> rec[n], queue |-> queue[n]]
Now(n) == [connected |-> rec[n].connected, attr |-> attr[n]]

TypeOK ==
  /\ attr \in [Custom -> {0, 1}] /\ born \subseteq Custom /\ defined \in BOOLEAN
  /\ rec \in [Custom -> Records] /\ queue \in [Custom -> Seq(Reactions)]
  /\ stack \in Seq(Frames) /\ calls \in Nat
  /\ told \in [Custom -> State] /\ disturbed \subseteq Custom

\* A walk will still come by n.
Reaches(todo, n) ==
  \/ n \in ToSet(todo)
  \/ \E p \in Holder : n \in ToSet(kids[p]) /\ p \in ToSet(todo)
  \/ n \in ToSet(kids[Box]) /\ Box \in ToSet(kids[Body]) /\ Body \in ToSet(todo)

\* A walk visits elements that exist.  A constructor was begun with the
\* attribute its element has.  An element that settles was told nothing before
\* its attribute; before its connection, at most changes of the attribute wait
\* behind it.
FrameFits(f) ==
  /\ f.kind = "walk" => ToSet(f.todo) \subseteq born \cup Holder
  /\ f.kind = "constructor" =>
       /\ rec[f.node].status = "constructing"
       /\ f.node \notin disturbed => f.initial = attr[f.node]
  /\ f.kind = "settling" =>
       /\ rec[f.node].status = "custom"
       /\ f.node \notin disturbed /\ f.todo = ToConnect =>
            /\ ~told[f.node].connected
            /\ \A k \in DOMAIN queue[f.node] : queue[f.node][k].what = "attribute"
            /\ Story(told[f.node], queue[f.node], [connected |-> FALSE, attr |-> attr[f.node]])
       /\ f.node \notin disturbed /\ f.todo = ToTell =>
            told[f.node] = Silent /\ queue[f.node] = <<>> /\ attr[f.node] = 1

\* What holds of an element: its record fits what it was told, somebody sees to
\* what waits in its queue, a walk to a candidate in the page, and unless
\* script disturbed its upgrade the record is about the page as it is and the
\* queue tells the rest of the story.
ElementFits(n) ==
  /\ Calm(View(n), told[n]) /\ ~rec[n].moving
  /\ n \notin born => rec[n].status = "none" /\ attr[n] = 0
  /\ rec[n].status = "constructing" =>
       \E f \in ToSet(stack) : f.kind = "constructor" /\ f.node = n
  /\ queue[n] # <<>> => \E f \in ToSet(stack) : f.kind = "reactions" /\ n \in ToSet(f.order)
  /\ n \in born /\ defined /\ rec[n].status = "none" /\ Connected(kids, n) =>
       \E f \in ToSet(stack) : f.kind = "walk" /\ Reaches(f.todo, n)
  /\ n \notin disturbed /\ rec[n].status \in {"constructing", "custom"} =>
       (rec[n].connected <=> Connected(kids, n))
  /\ n \notin disturbed /\ rec[n].status = "custom" /\ ~Settling(n) =>
       Story(told[n], queue[n], Now(n))

IInv ==
  /\ TypeOK /\ Placed(kids, born) /\ Tidy(stack)
  /\ \A f \in ToSet(stack) : FrameFits(f)
  /\ \A n \in Custom : ElementFits(n)

LEMMA SettlingFrames ==
  ASSUME NEW n
  PROVE  Settling(n) <=> \E f \in ToSet(stack) : f.kind = "settling" /\ f.node = n /\ f.todo # <<>>
BY DEF Settling, ToSet

LEMMA ViewTyped ==
  ASSUME TypeOK, NEW n \in Custom
  PROVE  View(n) \in Views /\ told[n] \in State /\ attr[n] \in {0, 1} /\ Now(n) \in State
<1>1. rec[n] \in Records /\ queue[n] \in Seq(Reactions) /\ told[n] \in State /\ attr[n] \in {0, 1}
  BY DEF TypeOK
<1>2. Now(n) \in State
  BY <1>1 DEF Now, State, Records
<1> QED
  BY <1>1, <1>2 DEF View, Views

LEMMA FrameTyped ==
  ASSUME NEW f \in Frames
  PROVE  /\ f.kind \in {"walk", "reactions", "callback", "constructor", "creation", "settling"}
         /\ f.kind = "walk" => f.todo \in Seq(Custom \cup Holder)
         /\ f.kind = "reactions" => f.order \in Seq(Custom)
         /\ f.kind \in {"callback", "constructor", "settling"} => f.node \in Custom
         /\ f.kind = "constructor" => f.initial \in {0, 1} /\ f.used \in BOOLEAN
         /\ f.kind \in {"constructor", "creation"} => f.made \in Custom \cup {None}
         /\ f.kind = "settling" => f.todo \in {<<>>, ToConnect, ToTell}
BY DEF Frames

-----------------------------------------------------------------------------
(* Calls.                                                                   *)

\* After its events a call runs the reactions of the elements it has some for.
Waits ==
  \/ stack' = stack /\ queue' = queue
  \/ \E order \in Seq(Custom) :
       /\ stack' = <<[kind |-> "reactions", order |-> order]>> \o stack
       /\ \A n \in Custom : queue'[n] = queue[n] \/ n \in ToSet(order)

ScriptRuns == stack # <<>> => Head(stack).kind \in {"callback", "constructor", "creation"}

LEMMA NoneLong ==
  ASSUME stack \in Seq(Frames), Tidy(stack), stack # <<>> => ~Long(Head(stack))
  PROVE  \A f \in ToSet(stack) : ~Long(f)
<1> SUFFICES ASSUME NEW i \in DOMAIN stack, Long(stack[i]) PROVE FALSE
  BY DEF ToSet
<1>1. i = 1
  BY DEF Tidy
<1>2. stack # <<>> /\ stack[1] = Head(stack)
  BY <1>1
<1> QED
  BY <1>1, <1>2

LEMMA WaitsOnTop ==
  ASSUME stack \in Seq(Frames), Tidy(stack), ScriptRuns, Waits
  PROVE  /\ stack' \in Seq(Frames) /\ Tidy(stack')
         /\ ToSet(stack) \subseteq ToSet(stack')
         /\ \A f \in ToSet(stack') : f \in ToSet(stack) \/ f.kind = "reactions"
         /\ \A n \in Custom : \/ queue'[n] = queue[n]
                              \/ \E f \in ToSet(stack') : f.kind = "reactions" /\ n \in ToSet(f.order)
<1>1. CASE stack' = stack /\ queue' = queue
  BY <1>1
<1>2. ASSUME NEW order \in Seq(Custom),
             stack' = <<[kind |-> "reactions", order |-> order]>> \o stack,
             \A n \in Custom : queue'[n] = queue[n] \/ n \in ToSet(order)
      PROVE  /\ stack' \in Seq(Frames) /\ Tidy(stack')
             /\ ToSet(stack) \subseteq ToSet(stack')
             /\ \A f \in ToSet(stack') : f \in ToSet(stack) \/ f.kind = "reactions"
             /\ \A n \in Custom : \/ queue'[n] = queue[n]
                                  \/ \E f \in ToSet(stack') : f.kind = "reactions" /\ n \in ToSet(f.order)
  <2> DEFINE g == [kind |-> "reactions", order |-> order]
  <2>1. g \in Frames /\ g.kind = "reactions" /\ g.order = order /\ ~OfUpgrade(g)
    BY DEF Frames, OfUpgrade
  <2>2. stack' = <<g>> \o stack
    BY <1>2
  <2> HIDE DEF g
  <2>3. stack' \in Seq(Frames) /\ ToSet(stack') = {g} \cup ToSet(stack)
    BY <2>1, <2>2, PutOn
  <2>4. \A f \in ToSet(stack) : ~Long(f)
    BY NoneLong DEF ScriptRuns, Long
  <2>5. Tidy(stack')
    BY <2>1, <2>2, <2>4, TidyPut
  <2> QED
    BY <1>2, <2>1, <2>3, <2>5
<1> QED
  BY <1>1, <1>2 DEF Waits

\* N are the elements the call puts somewhere else.
LEMMA CallKeeps ==
  ASSUME IInv, ScriptRuns, Waits, NEW N \in SUBSET Custom,
         born \subseteq born', N \subseteq born', born' \ born \subseteq N, born' \subseteq Custom,
         attr' = attr, defined' = defined, told' = told, calls' \in Nat,
         rec' \in [Custom -> Records], queue' \in [Custom -> Seq(Reactions)],
         NEW lists, lists = kids', Placed(lists, born'),
         \A n \in Custom \ N : rec'[n] = rec[n] /\ queue'[n] = queue[n] /\ Untouched(lists, n),
         \A n \in N : Arrives(View(n), [rec |-> rec'[n], queue |-> queue'[n]], told[n], Connected(lists, n)),
         disturbed \subseteq disturbed', disturbed' \subseteq Custom,
         \A n \in N : Constructing(n) \/ Settling(n) => n \in disturbed'
  PROVE  IInv'
<1>1. /\ TypeOK /\ Placed(kids, born) /\ Tidy(stack)
      /\ \A f \in ToSet(stack) : FrameFits(f)
      /\ \A n \in Custom : ElementFits(n)
  BY DEF IInv
<1>2. /\ stack' \in Seq(Frames) /\ Tidy(stack')
      /\ ToSet(stack) \subseteq ToSet(stack')
      /\ \A f \in ToSet(stack') : f \in ToSet(stack) \/ f.kind = "reactions"
      /\ \A n \in Custom : \/ queue'[n] = queue[n]
                           \/ \E f \in ToSet(stack') : f.kind = "reactions" /\ n \in ToSet(f.order)
  BY <1>1, WaitsOnTop DEF TypeOK
<1>3. TypeOK'
  BY <1>1, <1>2 DEF TypeOK
<1>4. \A n \in N : /\ rec[n].status = "constructing" => rec'[n] = rec[n] /\ queue'[n] = queue[n]
                   /\ rec'[n].status = rec[n].status \/ (rec[n].status = "none" /\ rec'[n].status = "pending")
  BY DEF Arrives, Steps, View
<1>5. \A f \in ToSet(stack) : f \in Frames
  BY <1>1 DEF TypeOK, ToSet
<1>6. ASSUME NEW f \in ToSet(stack') PROVE FrameFits(f)'
  <2>1. CASE f.kind = "reactions"
    BY <2>1 DEF FrameFits
  <2>2. CASE f.kind # "reactions"
    <3>1. f \in ToSet(stack) /\ FrameFits(f) /\ f \in Frames
      BY <1>1, <1>2, <1>5, <2>2
    <3> DEFINE n == f.node
    <3>2. ASSUME f.kind = "constructor"
          PROVE  rec'[n].status = "constructing" /\ (n \notin disturbed' => f.initial = attr'[n])
      <4>1. n \in Custom /\ rec[n].status = "constructing" /\ (n \notin disturbed => f.initial = attr[n])
        BY <3>1, <3>2, FrameTyped DEF FrameFits
      <4> QED
        BY <1>4, <4>1
    <3>3. ASSUME f.kind = "settling"
          PROVE  /\ rec'[n].status = "custom"
                 /\ n \notin disturbed' /\ f.todo # <<>> => n \notin N
      <4>1. n \in Custom /\ rec[n].status = "custom"
        BY <3>1, <3>3, FrameTyped DEF FrameFits
      <4>2. f.todo # <<>> => Settling(n)
        BY <3>1, <3>3, SettlingFrames
      <4> QED
        BY <1>4, <4>1, <4>2
    <3>4. ASSUME f.kind = "settling", n \notin disturbed', f.todo # <<>>
          PROVE  queue'[n] = queue[n] /\ told'[n] = told[n] /\ attr'[n] = attr[n] /\ n \notin disturbed
      BY <3>1, <3>3, <3>4, FrameTyped
    <3>5. ToConnect # <<>> /\ ToTell # <<>>
      BY DEF ToConnect, ToTell
    <3>6. f.kind = "walk" => ToSet(f.todo) \subseteq born' \cup Holder
      BY <3>1 DEF FrameFits
    <3> QED
      BY <3>1, <3>2, <3>3, <3>4, <3>5, <3>6 DEF FrameFits
  <2> QED
    BY <2>1, <2>2
<1>7. ASSUME NEW n \in Custom PROVE Settling(n)' <=> Settling(n)
  <2>1. Settling(n)' <=> \E f \in ToSet(stack') : f.kind = "settling" /\ f.node = n /\ f.todo # <<>>
    BY DEF Settling, ToSet
  <2>2. Settling(n) <=> \E f \in ToSet(stack) : f.kind = "settling" /\ f.node = n /\ f.todo # <<>>
    BY SettlingFrames
  <2> QED
    BY <1>2, <2>1, <2>2
<1>8. ASSUME NEW n \in N PROVE ElementFits(n)'
  <2> DEFINE v == View(n)
             w == [rec |-> rec'[n], queue |-> queue'[n]]
             t == told[n]
  <2>1. v \in Views /\ t \in State /\ attr[n] \in {0, 1} /\ ElementFits(n)
    BY <1>1, ViewTyped
  <2>2. /\ w \in Views /\ Calm(w, t)
        /\ w.rec.status = v.rec.status \/ (v.rec.status = "none" /\ w.rec.status = "pending")
        /\ v.rec.status = "constructing" => w = v
        /\ v.rec.status = "custom" =>
             \A a \in {0, 1} : Knows(v, t, At(v, a)) => Knows(w, t, At(w, a))
        /\ ~w.rec.moving
        /\ w.rec.status = "custom" => w.rec.connected = Connected(lists, n)
        /\ w.rec.status = "none" => ~(defined /\ Connected(lists, n))
    BY DEF Arrives, Steps
  <2>3. Calm(View(n), told[n])' /\ ~rec'[n].moving
    BY <2>2 DEF View
  <2>4. rec'[n].status = "constructing" => \E f \in ToSet(stack') : f.kind = "constructor" /\ f.node = n
    BY <1>2, <2>1, <2>2 DEF ElementFits, View
  <2>5. queue'[n] # <<>> => \E f \in ToSet(stack') : f.kind = "reactions" /\ n \in ToSet(f.order)
    BY <1>2, <2>1 DEF ElementFits
  <2>6. rec'[n].status = "none" => ~(defined' /\ Connected(lists, n))
    BY <2>2
  <2>7. n \notin disturbed' /\ rec'[n].status \in {"constructing", "custom"} => (rec'[n].connected <=> Connected(lists, n))
    <3>1. n \notin disturbed' => rec[n].status # "constructing"
      BY DEF Constructing
    <3>2. Connected(lists, n) \in BOOLEAN
      BY ConnectedWhere
    <3> QED
      BY <2>2, <3>1, <3>2 DEF View
  <2>8. ASSUME n \notin disturbed', rec'[n].status = "custom", ~Settling(n)
        PROVE  Story(told'[n], queue'[n], Now(n)')
    <3>1. n \notin disturbed /\ rec[n].status = "custom"
      BY <2>2, <2>8 DEF View
    <3>2. Story(told[n], queue[n], Now(n))
      BY <2>1, <2>8, <3>1 DEF ElementFits
    <3>3. Now(n) = At(v, attr[n]) /\ Now(n)' = At(w, attr[n])
      BY DEF Now, At, View
    <3>4. Knows(v, t, At(v, attr[n]))
      BY <3>2, <3>3 DEF Knows, View
    <3>5. Knows(w, t, At(w, attr[n]))
      BY <2>1, <2>2, <3>1, <3>4 DEF View
    <3> QED
      BY <3>3, <3>5 DEF Knows
  <2>9. n \in born'
    OBVIOUS
  <2> QED
    BY <1>7, <2>3, <2>4, <2>5, <2>6, <2>7, <2>8, <2>9 DEF ElementFits
<1>9. ASSUME NEW n \in Custom \ N PROVE ElementFits(n)'
  <2>1. rec'[n] = rec[n] /\ queue'[n] = queue[n] /\ Untouched(lists, n) /\ ElementFits(n) /\ (n \in born <=> n \in born')
    BY <1>1
  <2>2. Calm(View(n), told[n])' /\ ~rec'[n].moving
    BY <2>1 DEF ElementFits, View
  <2>3. n \notin born' => rec'[n].status = "none" /\ attr'[n] = 0
    BY <2>1 DEF ElementFits
  <2>4. rec'[n].status = "constructing" => \E f \in ToSet(stack') : f.kind = "constructor" /\ f.node = n
    BY <1>2, <2>1 DEF ElementFits
  <2>5. queue'[n] # <<>> => \E f \in ToSet(stack') : f.kind = "reactions" /\ n \in ToSet(f.order)
    BY <1>2, <2>1 DEF ElementFits
  <2>6. \A todo : Reaches(todo, n) => Reaches(todo, n)'
    BY <2>1, Apart DEF Untouched, Reaches
  <2>7. n \in born' /\ defined' /\ rec'[n].status = "none" /\ Connected(lists, n) =>
          \E f \in ToSet(stack') : f.kind = "walk" /\ Reaches(f.todo, n)'
    BY <1>2, <2>1, <2>6 DEF ElementFits, Untouched
  <2>8. n \notin disturbed' /\ rec'[n].status \in {"constructing", "custom"} => (rec'[n].connected <=> Connected(lists, n))
    BY <2>1 DEF ElementFits, Untouched
  <2>9. n \notin disturbed' /\ rec'[n].status = "custom" /\ ~Settling(n) => Story(told'[n], queue'[n], Now(n)')
    BY <2>1 DEF ElementFits, Now
  <2> QED
    BY <1>7, <2>2, <2>3, <2>4, <2>5, <2>7, <2>8, <2>9 DEF ElementFits
<1> QED
  BY <1>2, <1>3, <1>6, <1>8, <1>9 DEF IInv

Begun == [rec |-> rec, queue |-> queue, order |-> <<>>]

LEMMA BegunBooks ==
  ASSUME TypeOK
  PROVE  Begun \in Books /\ \A n \in Custom : Seen(Begun, n) = View(n)
BY DEF TypeOK, Begun, Books, Seen, View

LEMMA DeliversTo ==
  ASSUME attr \in [Custom -> {0, 1}], NEW lists, NEW ns \in Seq(Custom), NEW t \in Books, NEW e,
         e.kind \in Kinds, e.nodes = ns
  PROVE  LET x == Delivered(lists, t, e)
         IN  /\ x \in Books /\ Notes(t, x)
             /\ \A n \in Custom \ ToSet(ns) : Seen(x, n) = Seen(t, n)
             /\ \A n \in ToSet(ns) : Seen(x, n) = Handled(lists, e.kind, n, Seen(t, n))
<1>1. e.nodes \in Seq(Custom) /\ ToSet(ns) \subseteq Custom
  BY DEF ToSet
<1> DEFINE x == Delivered(lists, t, e)
<1>2. x \in Books
  BY <1>1, Delivers
<1>3. Notes(t, x)
  BY <1>1, Delivers
<1>4. \A n \in Custom : Seen(x, n) = IF n \in ToSet(e.nodes) THEN Handled(lists, e.kind, n, Seen(t, n)) ELSE Seen(t, n)
  BY <1>1, Delivers
<1> HIDE DEF x
<1>5. \A n \in Custom \ ToSet(ns) : Seen(x, n) = Seen(t, n)
  BY <1>4
<1>6. \A n \in ToSet(ns) : Seen(x, n) = Handled(lists, e.kind, n, Seen(t, n))
  BY <1>1, <1>4
<1> QED
  BY <1>2, <1>3, <1>5, <1>6 DEF x

LEMMA SameElements ==
  ASSUME TypeOK, NEW lists, NEW ns \in Seq(Custom), NEW events, Len(events) \in 1..3,
         \A k \in 1..Len(events) : events[k].kind \in Kinds /\ events[k].nodes = ns
  PROVE  LET d == AllDelivered(lists, Begun, events)
             h1(n) == Handled(lists, events[1].kind, n, View(n))
             h2(n) == Handled(lists, events[2].kind, n, h1(n))
             h3(n) == Handled(lists, events[3].kind, n, h2(n))
         IN  /\ d \in Books /\ Notes(Begun, d)
             /\ \A n \in Custom \ ToSet(ns) : Seen(d, n) = View(n)
             /\ \A n \in ToSet(ns) : Seen(d, n) = CASE Len(events) = 1 -> h1(n)
                                                    [] Len(events) = 2 -> h2(n)
                                                    [] Len(events) = 3 -> h3(n)
<1> DEFINE d == AllDelivered(lists, Begun, events)
           d1 == Delivered(lists, Begun, events[1])
           d2 == Delivered(lists, d1, events[2])
           d3 == Delivered(lists, d2, events[3])
           h1(n) == Handled(lists, events[1].kind, n, View(n))
           h2(n) == Handled(lists, events[2].kind, n, h1(n))
           h3(n) == Handled(lists, events[3].kind, n, h2(n))
<1>1. attr \in [Custom -> {0, 1}] /\ Begun \in Books /\ \A n \in Custom : Seen(Begun, n) = View(n)
  BY BegunBooks DEF TypeOK
<1>2. /\ events[1].kind \in Kinds /\ events[1].nodes = ns
      /\ Len(events) >= 2 => events[2].kind \in Kinds /\ events[2].nodes = ns
      /\ Len(events) >= 3 => events[3].kind \in Kinds /\ events[3].nodes = ns
  OBVIOUS
<1>3. d = CASE Len(events) = 1 -> d1 [] Len(events) = 2 -> d2 [] Len(events) = 3 -> d3
  BY AFew
<1>4. ToSet(ns) \subseteq Custom
  BY DEF ToSet
<1>5. \A t \in Books : \A e : e.kind \in Kinds /\ e.nodes = ns =>
        LET x == Delivered(lists, t, e)
        IN  /\ x \in Books /\ Notes(t, x)
            /\ \A n \in Custom \ ToSet(ns) : Seen(x, n) = Seen(t, n)
            /\ \A n \in ToSet(ns) : Seen(x, n) = Handled(lists, e.kind, n, Seen(t, n))
  BY <1>1, DeliversTo
<1> HIDE DEF d
<1>6. /\ d1 \in Books /\ Notes(Begun, d1)
      /\ \A n \in Custom \ ToSet(ns) : Seen(d1, n) = View(n)
      /\ \A n \in ToSet(ns) : Seen(d1, n) = h1(n)
  BY <1>1, <1>2, <1>4, <1>5
<1> HIDE DEF d1
<1>7. Len(events) >= 2 => /\ d2 \in Books /\ Notes(Begun, d2)
                          /\ \A n \in Custom \ ToSet(ns) : Seen(d2, n) = View(n)
                          /\ \A n \in ToSet(ns) : Seen(d2, n) = h2(n)
  BY <1>2, <1>4, <1>5, <1>6, NotesOn
<1> HIDE DEF d2
<1>8. Len(events) >= 3 => /\ d3 \in Books /\ Notes(Begun, d3)
                          /\ \A n \in Custom \ ToSet(ns) : Seen(d3, n) = View(n)
                          /\ \A n \in ToSet(ns) : Seen(d3, n) = h3(n)
  BY <1>2, <1>4, <1>5, <1>7, NotesOn
<1> HIDE DEF d3, h1, h2, h3
<1>9. /\ d \in Books /\ Notes(Begun, d)
      /\ \A n \in Custom \ ToSet(ns) : Seen(d, n) = View(n)
      /\ \A n \in ToSet(ns) : Seen(d, n) = CASE Len(events) = 1 -> h1(n)
                                             [] Len(events) = 2 -> h2(n)
                                             [] Len(events) = 3 -> h3(n)
  <2>1. CASE Len(events) = 1
    BY <1>3, <1>6, <2>1
  <2>2. CASE Len(events) = 2
    BY <1>3, <1>7, <2>2
  <2>3. CASE Len(events) = 3
    BY <1>3, <1>8, <2>3
  <2> QED
    BY <2>1, <2>2, <2>3
<1> QED
  BY <1>9 DEF d, h1, h2, h3

LEMMA Flushed ==
  ASSUME TypeOK, NEW events, Flush(events), NEW d, d = AllDelivered(kids', Begun, events),
         d \in Books, Notes(Begun, d)
  PROVE  /\ Waits /\ told' = told /\ calls' \in Nat
         /\ rec' \in [Custom -> Records] /\ queue' \in [Custom -> Seq(Reactions)]
         /\ \A n \in Custom : rec'[n] = Seen(d, n).rec /\ queue'[n] = Seen(d, n).queue
<1>1. /\ rec' = d.rec /\ queue' = d.queue
      /\ stack' = IF d.order = <<>> THEN stack ELSE <<[kind |-> "reactions", order |-> d.order]>> \o stack
      /\ calls' = calls + 1 /\ told' = told
  BY DEF Flush, Begun
<1>2. d.rec \in [Custom -> Records] /\ d.queue \in [Custom -> Seq(Reactions)] /\ d.order \in Seq(Custom)
  BY DEF Books
<1>3. \A n \in Custom : d.queue[n] = queue[n] \/ n \in ToSet(d.order)
  BY DEF Notes, Begun
<1>4. Waits
  <2>1. CASE d.order = <<>>
    <3>1. \A n \in Custom : d.queue[n] = queue[n]
      BY <1>3, <2>1 DEF ToSet
    <3>2. queue \in [Custom -> Seq(Reactions)]
      BY DEF TypeOK
    <3>3. d.queue = queue
      BY <1>2, <3>1, <3>2
    <3> QED
      BY <1>1, <2>1, <3>3 DEF Waits
  <2>2. CASE d.order # <<>>
    BY <1>1, <1>2, <1>3, <2>2 DEF Waits
  <2> QED
    BY <2>1, <2>2
<1> QED
  BY <1>1, <1>2, <1>4 DEF TypeOK, Seen

\* All of a call that puts the elements of one node somewhere else.
LEMMA CallOfNode ==
  ASSUME IInv, Scripting, NEW n \in born \cup {Box}, NEW lists, lists = kids', Placed(lists, born),
         \A p \in Holder : ToSet(lists[p]) \ {n} = ToSet(kids[p]) \ {n},
         Disturbs(ElementsIn(n)), UNCHANGED <<attr, born, defined>>,
         NEW events, Flush(events),
         NEW d, d = AllDelivered(lists, Begun, events), d \in Books, Notes(Begun, d),
         \A m \in Custom \ ToSet(ElementsIn(n)) : Seen(d, m) = View(m),
         \A m \in ToSet(ElementsIn(n)) : Arrives(View(m), Seen(d, m), told[m], Connected(lists, m))
  PROVE  IInv'
<1> DEFINE N == ToSet(ElementsIn(n))
<1>1. TypeOK /\ Placed(kids, born) /\ born \subseteq Custom
  BY DEF IInv, TypeOK
<1>2. N \subseteq born /\ N \subseteq Custom
  BY <1>1, ElementsListed
<1>3. /\ Waits /\ told' = told /\ calls' \in Nat
      /\ rec' \in [Custom -> Records] /\ queue' \in [Custom -> Seq(Reactions)]
      /\ \A m \in Custom : rec'[m] = Seen(d, m).rec /\ queue'[m] = Seen(d, m).queue
  BY <1>1, Flushed
<1>4. \A m \in Custom : [rec |-> rec'[m], queue |-> queue'[m]] = Seen(d, m)
  BY <1>3 DEF Seen
<1>5. \A m \in Custom \ N : rec'[m] = rec[m] /\ queue'[m] = queue[m] /\ Untouched(lists, m)
  <2> SUFFICES ASSUME NEW m \in Custom \ N
               PROVE  rec'[m] = rec[m] /\ queue'[m] = queue[m] /\ Untouched(lists, m)
    OBVIOUS
  <2>1. Untouched(lists, m)
    BY <1>1, Elsewhere
  <2> QED
    BY <1>3, <2>1 DEF View
<1>6. \A m \in N : Arrives(View(m), [rec |-> rec'[m], queue |-> queue'[m]], told[m], Connected(lists, m))
  BY <1>2, <1>4
<1>7. /\ disturbed \subseteq disturbed' /\ disturbed' \subseteq Custom
      /\ \A m \in N : Constructing(m) \/ Settling(m) => m \in disturbed'
  BY <1>1, <1>2 DEF Disturbs, TypeOK
<1>8. ScriptRuns
  BY DEF Scripting, ScriptRuns
<1> HIDE DEF N
<1>9. born' = born /\ attr' = attr /\ defined' = defined
  OBVIOUS
<1> QED
  BY <1>1, <1>2, <1>3, <1>5, <1>6, <1>7, <1>8, <1>9, CallKeeps

LEMMA ElementSays ==
  ASSUME IInv, NEW m \in Custom
  PROVE  View(m) \in Views /\ told[m] \in State /\ attr[m] \in {0, 1}
         /\ Calm(View(m), told[m]) /\ ~View(m).rec.moving
BY ViewTyped DEF IInv, ElementFits, View

LEMMA AppendChildKeeps ==
  ASSUME IInv, NEW p \in Holder, NEW n, AppendChild(p, n)
  PROVE  IInv'
<1>1. TypeOK /\ Placed(kids, born) /\ born \subseteq Custom
  BY DEF IInv, TypeOK
<1>2. Scripting /\ n \in born \cup {Box} /\ n # p /\ kids' = PutLast(n, p) /\ Disturbs(ElementsIn(n))
      /\ UNCHANGED <<attr, born, defined>>
  BY DEF AppendChild
<1> DEFINE ns == ElementsIn(n)
           in == <<Event("removed", ns)>>
           events == (IF ParentOf(n) = None THEN <<>> ELSE <<Event("removed", ns)>>) \o <<Event("added", ns)>>
<1>3. Flush(events)
  BY DEF AppendChild
<1> DEFINE lists == PutLast(n, p)
<1>4. Placed(lists, born) /\ \A q \in Holder : ToSet(lists[q]) \ {n} = ToSet(kids[q]) \ {n}
  BY <1>1, <1>2, PutLastLists
<1>5. ns \in Seq(Custom) /\ ToSet(ns) \subseteq Custom
  BY <1>1, <1>2, ElementsListed
<1>6. /\ Len(events) \in 1..2 /\ \A k \in 1..Len(events) : events[k].nodes = ns
      /\ Len(events) = 1 => events[1].kind = "added"
      /\ Len(events) = 2 => events[1].kind = "removed" /\ events[2].kind = "added"
  <2>1. CASE ParentOf(n) = None
    BY <2>1 DEF Event
  <2>2. CASE ParentOf(n) # None
    BY <2>2 DEF Event
  <2> QED
    BY <2>1, <2>2
<1> DEFINE d == AllDelivered(lists, Begun, events)
<1> HIDE DEF lists, events, ns
<1>7. Len(events) \in 1..3 /\ \A k \in 1..Len(events) : events[k].kind \in Kinds /\ events[k].nodes = ns
  BY <1>6 DEF Kinds
<1>8. /\ d \in Books /\ Notes(Begun, d)
      /\ \A m \in Custom \ ToSet(ns) : Seen(d, m) = View(m)
      /\ \A m \in ToSet(ns) :
           \/ Seen(d, m) = Handled(lists, "added", m, View(m))
           \/ Seen(d, m) = Handled(lists, "added", m, Handled(lists, "removed", m, View(m)))
  <2>1. CASE Len(events) = 1
    BY <1>1, <1>5, <1>6, <1>7, <2>1, SameElements
  <2>2. CASE Len(events) = 2
    BY <1>1, <1>5, <1>6, <1>7, <2>2, SameElements
  <2> QED
    BY <1>6, <2>1, <2>2
<1>9. ASSUME NEW m \in ToSet(ns) PROVE Arrives(View(m), Seen(d, m), told[m], Connected(lists, m))
  <2>1. /\ View(m) \in Views /\ told[m] \in State /\ Calm(View(m), told[m]) /\ ~View(m).rec.moving
        /\ Connected(lists, m) \in BOOLEAN
    BY <1>5, ElementSays, ConnectedWhere
  <2>2. \A v : /\ Handled(lists, "added", m, v) = Adding(v, Connected(lists, m))
               /\ Handled(lists, "removed", m, v) = Removing(v)
    BY DEF Handled
  <2> QED
    BY <1>8, <2>1, <2>2, Arrivals
<1> HIDE DEF d
<1>10. /\ Flush(events) /\ lists = kids' /\ Disturbs(ElementsIn(n))
       /\ \A m \in Custom \ ToSet(ElementsIn(n)) : Seen(d, m) = View(m)
       /\ \A m \in ToSet(ElementsIn(n)) : Arrives(View(m), Seen(d, m), told[m], Connected(lists, m))
  BY <1>2, <1>3, <1>8, <1>9 DEF lists, ns
<1> QED
  BY <1>2, <1>4, <1>8, <1>10, CallOfNode DEF d

LEMMA HasParent ==
  ASSUME Placed(kids, born), NEW n, ParentOf(n) # None
  PROVE  n \in born \cup {Box}
<1>1. SUFFICES ASSUME n \notin born \cup {Box} PROVE FALSE
  OBVIOUS
<1>2. \A q \in Holder : n \notin ToSet(kids[q])
  BY <1>1 DEF Placed
<1>3. \A q \in Holder \cup {None} :
        (IF q = None THEN \A r \in Holder : n \notin ToSet(kids[r]) ELSE n \in ToSet(kids[q])) <=> q = None
  BY <1>2
<1>4. ParentOf(n) = None
  BY <1>3 DEF ParentOf
<1> QED
  BY <1>4

LEMMA RemoveChildKeeps ==
  ASSUME IInv, NEW n \in Custom \cup {Box}, RemoveChild(n)
  PROVE  IInv'
<1>1. TypeOK /\ Placed(kids, born) /\ born \subseteq Custom
  BY DEF IInv, TypeOK
<1>2. Scripting /\ kids' = TakenOut(n) /\ Disturbs(ElementsIn(n)) /\ UNCHANGED <<attr, born, defined>>
      /\ ParentOf(n) # None
  BY DEF RemoveChild
<1>3. n \in born \cup {Box}
  BY <1>1, <1>2, HasParent
<1> DEFINE ns == ElementsIn(n)
           events == <<Event("removed", ns)>>
           lists == TakenOut(n)
           d == AllDelivered(lists, Begun, events)
<1>4. Flush(events)
  BY DEF RemoveChild
<1>5. /\ Placed(lists, born) /\ \A q \in Holder : ToSet(lists[q]) = ToSet(kids[q]) \ {n}
      /\ \A q \in Holder : ToSet(lists[q]) \ {n} = ToSet(kids[q]) \ {n}
  BY <1>1, TakenOutLists
<1>6. ns \in Seq(Custom) /\ ToSet(ns) \subseteq Custom
  BY <1>1, <1>3, ElementsListed
<1>7. \A m \in ToSet(ns) : ~Connected(lists, m)
  <2> SUFFICES ASSUME NEW m \in ToSet(ns) PROVE ~Connected(lists, m)
    OBVIOUS
  <2>1. m \in Custom
    BY <1>6
  <2>2. CASE n = Box
    <3>1. m \in ToSet(kids[Box])
      BY <2>2 DEF ElementsIn
    <3>2. m \notin ToSet(lists[Body]) /\ Box \notin ToSet(lists[Body])
      BY <1>1, <1>5, <2>2, <3>1, Apart DEF Placed
    <3> QED
      BY <2>1, <3>2, ConnectedWhere
  <2>3. CASE n # Box
    <3>1. m = n
      BY <2>3 DEF ElementsIn, ToSet
    <3> QED
      BY <1>5, <2>1, <3>1, ConnectedWhere, Apart
  <2> QED
    BY <2>2, <2>3
<1>8. /\ Len(events) = 1 /\ events[1].kind = "removed"
      /\ Len(events) \in 1..3 /\ \A k \in 1..Len(events) : events[k].kind \in Kinds /\ events[k].nodes = ns
  BY DEF Kinds, Event
<1> HIDE DEF lists, events, ns
<1>9. /\ d \in Books /\ Notes(Begun, d)
      /\ \A m \in Custom \ ToSet(ns) : Seen(d, m) = View(m)
      /\ \A m \in ToSet(ns) : Seen(d, m) = Handled(lists, "removed", m, View(m))
  BY <1>1, <1>6, <1>8, SameElements
<1>10. ASSUME NEW m \in ToSet(ns) PROVE Arrives(View(m), Seen(d, m), told[m], Connected(lists, m))
  <2>1. /\ View(m) \in Views /\ told[m] \in State /\ Calm(View(m), told[m]) /\ ~View(m).rec.moving
        /\ Connected(lists, m) = FALSE
    BY <1>6, <1>7, ElementSays, ConnectedWhere
  <2>2. \A v : Handled(lists, "removed", m, v) = Removing(v)
    BY DEF Handled
  <2>3. Arrives(View(m), Removing(View(m)), told[m], FALSE)
    BY <2>1, Arrivals
  <2> QED
    BY <1>9, <2>1, <2>2, <2>3
<1> HIDE DEF d
<1>11. /\ Flush(events) /\ lists = kids' /\ Disturbs(ElementsIn(n))
       /\ \A m \in Custom \ ToSet(ElementsIn(n)) : Seen(d, m) = View(m)
       /\ \A m \in ToSet(ElementsIn(n)) : Arrives(View(m), Seen(d, m), told[m], Connected(lists, m))
  BY <1>2, <1>4, <1>9, <1>10 DEF lists, ns
<1> QED
  BY <1>2, <1>3, <1>5, <1>9, <1>11, CallOfNode DEF d

LEMMA MoveBeforeKeeps ==
  ASSUME IInv, NEW p \in Holder, NEW n, MoveBefore(p, n)
  PROVE  IInv'
<1>1. TypeOK /\ Placed(kids, born) /\ born \subseteq Custom
  BY DEF IInv, TypeOK
<1>2. Scripting /\ n # p /\ kids' = PutLast(n, p) /\ Disturbs(ElementsIn(n))
      /\ UNCHANGED <<attr, born, defined>> /\ ParentOf(n) # None
  BY DEF MoveBefore
<1>3. n \in born \cup {Box}
  BY <1>1, <1>2, HasParent
<1> DEFINE ns == ElementsIn(n)
           events == [k \in 1..3 |-> Event(<<"move", "removed", "added">>[k], ns)]
           lists == PutLast(n, p)
           d == AllDelivered(lists, Begun, events)
<1>4. Flush(events)
  BY DEF MoveBefore
<1>5. Placed(lists, born) /\ \A q \in Holder : ToSet(lists[q]) \ {n} = ToSet(kids[q]) \ {n}
  BY <1>1, <1>2, <1>3, PutLastLists
<1>6. ns \in Seq(Custom) /\ ToSet(ns) \subseteq Custom
  BY <1>1, <1>3, ElementsListed
<1>7. /\ Len(events) = 3
      /\ events[1].kind = "move" /\ events[2].kind = "removed" /\ events[3].kind = "added"
      /\ \A k \in 1..Len(events) : events[k].kind \in Kinds /\ events[k].nodes = ns
  <2>1. Len(events) = 3 /\ \A k \in 1..3 : events[k] = Event(<<"move", "removed", "added">>[k], ns)
    OBVIOUS
  <2>2. <<"move", "removed", "added">>[1] = "move" /\ <<"move", "removed", "added">>[2] = "removed"
        /\ <<"move", "removed", "added">>[3] = "added"
    OBVIOUS
  <2> HIDE DEF events
  <2>3. events[1] = Event("move", ns) /\ events[2] = Event("removed", ns) /\ events[3] = Event("added", ns)
    BY <2>1, <2>2
  <2>4. \A k \in 1..3 : k = 1 \/ k = 2 \/ k = 3
    OBVIOUS
  <2> QED
    BY <2>1, <2>3, <2>4 DEF Kinds, Event
<1> HIDE DEF lists, events, ns
<1>8. /\ d \in Books /\ Notes(Begun, d)
      /\ \A m \in Custom \ ToSet(ns) : Seen(d, m) = View(m)
      /\ \A m \in ToSet(ns) : Seen(d, m) =
           Handled(lists, "added", m, Handled(lists, "removed", m, Handled(lists, "move", m, View(m))))
  BY <1>1, <1>6, <1>7, SameElements
<1>9. ASSUME NEW m \in ToSet(ns) PROVE Arrives(View(m), Seen(d, m), told[m], Connected(lists, m))
  <2>1. /\ View(m) \in Views /\ told[m] \in State /\ Calm(View(m), told[m]) /\ ~View(m).rec.moving
        /\ Connected(lists, m) \in BOOLEAN
    BY <1>6, ElementSays, ConnectedWhere
  <2>2. \A v : /\ Handled(lists, "added", m, v) = Adding(v, Connected(lists, m))
               /\ Handled(lists, "removed", m, v) = Removing(v)
               /\ Handled(lists, "move", m, v) = Moving(v, Connected(lists, m))
    BY DEF Handled
  <2> DEFINE now == Connected(lists, m)
  <2>3. Arrives(View(m), Adding(Removing(Moving(View(m), now)), now), told[m], now)
    BY <2>1, Arrivals
  <2>4. Seen(d, m) = Adding(Removing(Moving(View(m), now)), now)
    BY <1>8, <2>2
  <2> QED
    BY <2>3, <2>4
<1> HIDE DEF d
<1>10. /\ Flush(events) /\ lists = kids' /\ Disturbs(ElementsIn(n))
       /\ \A m \in Custom \ ToSet(ElementsIn(n)) : Seen(d, m) = View(m)
       /\ \A m \in ToSet(ElementsIn(n)) : Arrives(View(m), Seen(d, m), told[m], Connected(lists, m))
  BY <1>2, <1>4, <1>8, <1>9 DEF lists, ns
<1> QED
  BY <1>2, <1>3, <1>5, <1>8, <1>10, CallOfNode DEF d

LEMMA Unborn ==
  ASSUME IInv, NEW n \in Custom \ born
  PROVE  /\ rec[n].status = "none" /\ ~Settling(n) /\ ~Constructing(n)
         /\ \A f \in ToSet(stack) : OfUpgrade(f) => f.node # n
<1>1. rec[n].status = "none"
  BY DEF IInv, ElementFits
<1>2. \A f \in ToSet(stack) : OfUpgrade(f) => f.node # n
  BY <1>1 DEF IInv, FrameFits, OfUpgrade
<1>3. ~Settling(n)
  BY <1>2, SettlingFrames DEF OfUpgrade
<1> QED
  BY <1>1, <1>2, <1>3 DEF Constructing

LEMMA SetInnerHTMLKeeps ==
  ASSUME IInv, NEW n \in Custom, SetInnerHTML(n)
  PROVE  IInv'
<1>1. TypeOK /\ Placed(kids, born) /\ born \subseteq Custom
  BY DEF IInv, TypeOK
<1>2. /\ Scripting /\ n \in Custom \ born /\ kids' = [kids EXCEPT ![Box] = <<n>>]
      /\ born' = born \cup {n} /\ Disturbs(kids[Box]) /\ UNCHANGED <<attr, defined>>
  BY DEF SetInnerHTML
<1> DEFINE old == ElementsIn(Box)
           new == <<n>>
           e1 == Event("parsed", new)
           e2 == Event("removed", old)
           e3 == Event("added", new)
           events == <<e1, e2, e3>>
           lists == [kids EXCEPT ![Box] = <<n>>]
           N == {n} \cup ToSet(old)
           d1 == Delivered(lists, Begun, e1)
           d2 == Delivered(lists, d1, e2)
           d == Delivered(lists, d2, e3)
<1>3. Flush(events)
  BY DEF SetInnerHTML, ElementsIn
<1>4. old = kids[Box] /\ old \in Seq(Custom) /\ ToSet(old) \subseteq born /\ n \notin ToSet(old)
  BY <1>1, <1>2, ElementsListed DEF ElementsIn
<1>5. /\ lists[Box] = <<n>> /\ lists[Body] = kids[Body] /\ DOMAIN lists = Holder
      /\ new \in Seq(Things) /\ ToSet(new) = {n} /\ new \in Seq(Custom) /\ IsInjective(new)
  <2>1. lists[Box] = <<n>> /\ lists[Body] = kids[Body] /\ DOMAIN lists = Holder
    BY <1>1, Apart DEF Placed
  <2>2. <<n>> \in Seq(Things) /\ ToSet(<<n>>) = {n} /\ <<n>> \in Seq(Custom)
    BY DEF Things, ToSet
  <2>3. IsInjective(<<n>>)
    BY DEF IsInjective
  <2> QED
    BY <2>1, <2>2, <2>3
<1>6. Placed(lists, born')
  <2>1. lists \in [Holder -> Seq(Things)]
    <3>1. \A q \in Holder : lists[q] \in Seq(Things)
      BY <1>1, <1>5, Apart DEF Placed
    <3> QED
      BY <1>5, <3>1
  <2>2. \A q \in Holder : IsInjective(lists[q]) /\ ToSet(lists[q]) \subseteq born' \cup {Box}
    BY <1>1, <1>2, <1>5, Apart DEF Placed
  <2>3. Box \notin ToSet(lists[Box]) /\ ToSet(lists[Body]) \cap ToSet(lists[Box]) = {}
    BY <1>1, <1>2, <1>5, Apart DEF Placed
  <2> QED
    BY <2>1, <2>2, <2>3 DEF Placed
<1> HIDE DEF lists
<1>7. ASSUME NEW m \in Custom \ N PROVE Untouched(lists, m)
  <2>1. m \notin ToSet(kids[Box]) /\ m \notin ToSet(lists[Box])
        /\ (m \in ToSet(kids[Body]) <=> m \in ToSet(lists[Body]))
    BY <1>4, <1>5
  <2> QED
    BY <2>1, ConnectedWhere, Apart DEF Untouched
<1>8. \A m \in ToSet(old) : ~Connected(lists, m)
  <2> SUFFICES ASSUME NEW m \in ToSet(old) PROVE ~Connected(lists, m)
    OBVIOUS
  <2>1. m \in Custom /\ m # n /\ m \notin ToSet(lists[Body]) /\ m \notin ToSet(lists[Box])
    BY <1>1, <1>4, <1>5 DEF Placed
  <2> QED
    BY <2>1, ConnectedWhere
<1>9. /\ Len(events) = 3
      /\ events[1] = e1 /\ events[2] = e2 /\ events[3] = e3
      /\ e1.kind = "parsed" /\ e1.nodes = new
      /\ e2.kind = "removed" /\ e2.nodes = old
      /\ e3.kind = "added" /\ e3.nodes = new
      /\ "parsed" \in Kinds /\ "removed" \in Kinds /\ "added" \in Kinds
  BY DEF Kinds, Event
<1> HIDE DEF events, e1, e2, e3, old, new
<1>10. attr \in [Custom -> {0, 1}] /\ Begun \in Books /\ \A m \in Custom : Seen(Begun, m) = View(m)
  BY <1>1, BegunBooks DEF TypeOK
<1> DEFINE Does(t, e, x, ns) == /\ x \in Books /\ Notes(t, x)
                                /\ \A m \in Custom \ ToSet(ns) : Seen(x, m) = Seen(t, m)
                                /\ \A m \in ToSet(ns) : Seen(x, m) = Handled(lists, e.kind, m, Seen(t, m))
<1>0. \A ns \in Seq(Custom), t \in Books : \A e :
        e.kind \in Kinds /\ e.nodes = ns => Does(t, e, Delivered(lists, t, e), ns)
  BY <1>10, DeliversTo
<1>11. /\ d1 \in Books /\ Notes(Begun, d1)
       /\ \A m \in Custom \ {n} : Seen(d1, m) = View(m)
       /\ Seen(d1, n) = Handled(lists, "parsed", n, View(n))
  <2>1. /\ d1 \in Books /\ Notes(Begun, d1)
        /\ \A m \in Custom \ ToSet(new) : Seen(d1, m) = Seen(Begun, m)
        /\ \A m \in ToSet(new) : Seen(d1, m) = Handled(lists, e1.kind, m, Seen(Begun, m))
    BY <1>0, <1>5, <1>9, <1>10
  <2> HIDE DEF d1
  <2> QED
    BY <1>5, <1>9, <1>10, <2>1
<1> HIDE DEF d1
<1>12. /\ d2 \in Books /\ Notes(Begun, d2)
       /\ \A m \in Custom \ N : Seen(d2, m) = View(m)
       /\ \A m \in ToSet(old) : Seen(d2, m) = Handled(lists, "removed", m, View(m))
       /\ Seen(d2, n) = Handled(lists, "parsed", n, View(n))
  <2>1. /\ d2 \in Books /\ Notes(d1, d2)
        /\ \A m \in Custom \ ToSet(old) : Seen(d2, m) = Seen(d1, m)
        /\ \A m \in ToSet(old) : Seen(d2, m) = Handled(lists, e2.kind, m, Seen(d1, m))
    BY <1>0, <1>4, <1>9, <1>11
  <2> HIDE DEF d2
  <2> QED
    BY <1>1, <1>4, <1>9, <1>11, <2>1, NotesOn
<1> HIDE DEF d2
<1>13. /\ d \in Books /\ Notes(Begun, d)
       /\ \A m \in Custom \ N : Seen(d, m) = View(m)
       /\ \A m \in ToSet(old) : Seen(d, m) = Handled(lists, "removed", m, View(m))
       /\ Seen(d, n) = Handled(lists, "added", n, Handled(lists, "parsed", n, View(n)))
  <2>1. /\ d \in Books /\ Notes(d2, d)
        /\ \A m \in Custom \ ToSet(new) : Seen(d, m) = Seen(d2, m)
        /\ \A m \in ToSet(new) : Seen(d, m) = Handled(lists, e3.kind, m, Seen(d2, m))
    BY <1>0, <1>5, <1>9, <1>12
  <2> HIDE DEF d
  <2> QED
    BY <1>1, <1>4, <1>5, <1>9, <1>12, <2>1, NotesOn
<1>14. d = AllDelivered(lists, Begun, events)
  BY <1>9, AFew DEF d1, d2
<1> HIDE DEF d
<1>15. lists = kids'
  BY <1>2 DEF lists
<1>16. /\ Waits /\ told' = told /\ calls' \in Nat
       /\ rec' \in [Custom -> Records] /\ queue' \in [Custom -> Seq(Reactions)]
       /\ \A m \in Custom : rec'[m] = Seen(d, m).rec /\ queue'[m] = Seen(d, m).queue
  BY <1>1, <1>3, <1>13, <1>14, <1>15, Flushed
<1>17. \A m \in Custom : [rec |-> rec'[m], queue |-> queue'[m]] = Seen(d, m)
  BY <1>16 DEF Seen
<1>18. N \subseteq Custom /\ N \subseteq born'
  BY <1>1, <1>2, <1>4
<1>19. ASSUME NEW m \in N PROVE Arrives(View(m), Seen(d, m), told[m], Connected(lists, m))
  <2>1. /\ View(m) \in Views /\ told[m] \in State /\ Calm(View(m), told[m]) /\ ~View(m).rec.moving
        /\ Connected(lists, m) \in BOOLEAN
    BY <1>18, ElementSays, ConnectedWhere
  <2>2. \A v : /\ Handled(lists, "added", m, v) = Adding(v, Connected(lists, m))
               /\ Handled(lists, "removed", m, v) = Removing(v)
               /\ Handled(lists, "parsed", m, v) = Parsing(v)
    BY DEF Handled
  <2>3. CASE m = n
    <3> DEFINE now == Connected(lists, m)
    <3>1. Arrives(View(m), Adding(Parsing(View(m)), now), told[m], now)
      BY <2>1, Arrivals
    <3>2. Seen(d, m) = Adding(Parsing(View(m)), now)
      BY <1>13, <2>2, <2>3
    <3> QED
      BY <3>1, <3>2
  <2>4. CASE m \in ToSet(old)
    <3>1. Connected(lists, m) = FALSE
      BY <1>8, <2>1, <2>4
    <3>2. Arrives(View(m), Removing(View(m)), told[m], FALSE)
      BY <2>1, Arrivals
    <3> QED
      BY <1>13, <2>2, <2>4, <3>1, <3>2
  <2> QED
    BY <2>3, <2>4
<1>20. \A m \in N : Arrives(View(m), [rec |-> rec'[m], queue |-> queue'[m]], told[m], Connected(lists, m))
  BY <1>17, <1>18, <1>19
<1>21. \A m \in Custom \ N : rec'[m] = rec[m] /\ queue'[m] = queue[m] /\ Untouched(lists, m)
  BY <1>7, <1>13, <1>16 DEF View
<1>22. /\ disturbed \subseteq disturbed' /\ disturbed' \subseteq Custom
       /\ \A m \in N : Constructing(m) \/ Settling(m) => m \in disturbed'
  <2>1. ~Constructing(n) /\ ~Settling(n)
    BY <1>2, Unborn
  <2> QED
    BY <1>1, <1>2, <1>4, <2>1 DEF Disturbs, TypeOK
<1>23. ScriptRuns
  BY <1>2 DEF Scripting, ScriptRuns
<1>24. born \subseteq born' /\ born' \ born \subseteq N /\ born' \subseteq Custom /\ attr' = attr /\ defined' = defined
  BY <1>1, <1>2
<1> HIDE DEF N
<1> QED
  BY <1>6, <1>15, <1>16, <1>18, <1>20, <1>21, <1>22, <1>23, <1>24, CallKeeps

LEMMA ToggleAttributeKeeps ==
  ASSUME IInv, NEW n \in Custom, ToggleAttribute(n)
  PROVE  IInv'
<1>1. /\ TypeOK /\ Placed(kids, born) /\ Tidy(stack)
      /\ \A f \in ToSet(stack) : FrameFits(f)
      /\ \A m \in Custom : ElementFits(m)
  BY DEF IInv
<1>2. /\ Scripting /\ n \in born /\ attr' = [attr EXCEPT ![n] = 1 - @]
      /\ disturbed' = disturbed \cup {m \in {n} : Constructing(m)}
      /\ kids' = kids /\ born' = born /\ defined' = defined
  BY DEF ToggleAttribute
<1>0. PICK lists : lists = kids
  OBVIOUS
<1> DEFINE ns == <<n>>
           events == <<Event("attribute", ns)>>
           d == AllDelivered(lists, Begun, events)
           w == AttributeSet(View(n), attr[n])
<1>3. Flush(events)
  BY DEF ToggleAttribute
<1>4. ns \in Seq(Custom) /\ ToSet(ns) = {n}
  BY DEF ToSet
<1>5. /\ Len(events) = 1 /\ Len(events) \in 1..3 /\ events[1].kind = "attribute"
      /\ \A k \in 1..Len(events) : events[k].kind \in Kinds /\ events[k].nodes = ns
  BY DEF Kinds, Event
<1> HIDE DEF events, ns
<1>6. /\ d \in Books /\ Notes(Begun, d)
      /\ \A m \in Custom \ {n} : Seen(d, m) = View(m)
      /\ Seen(d, n) = w
  <2>1. /\ d \in Books /\ Notes(Begun, d)
        /\ \A m \in Custom \ ToSet(ns) : Seen(d, m) = View(m)
        /\ \A m \in ToSet(ns) : Seen(d, m) = Handled(lists, events[1].kind, m, View(m))
    <3>1. ns \in Seq(Custom)
      BY <1>4
    <3> QED
      BY <1>1, <1>5, <3>1, SameElements
  <2>2. Handled(lists, "attribute", n, View(n)) = w
    BY DEF Handled
  <2> QED
    BY <1>4, <1>5, <2>1, <2>2
<1>7. /\ Waits /\ told' = told /\ calls' \in Nat
      /\ rec' \in [Custom -> Records] /\ queue' \in [Custom -> Seq(Reactions)]
      /\ \A m \in Custom : rec'[m] = Seen(d, m).rec /\ queue'[m] = Seen(d, m).queue
  <2>1. d = AllDelivered(kids', Begun, events)
    BY <1>0, <1>2
  <2> HIDE DEF d
  <2> QED
    BY <1>1, <1>3, <1>6, <2>1, Flushed
<1> DEFINE only(q) == \A k \in DOMAIN q : q[k].what = "attribute"
           a == attr[n]
<1>8. View(n) \in Views /\ told[n] \in State /\ Calm(View(n), told[n]) /\ a \in {0, 1} /\ ~rec[n].moving
  BY <1>1, ElementSays DEF View
<1>9. /\ w \in Views /\ Calm(w, told[n]) /\ w.rec = rec[n]
      /\ rec[n].status # "custom" => w = View(n)
      /\ rec[n].status = "custom" /\ only(queue[n]) => only(w.queue)
      /\ rec[n].status = "custom" => \A c \in BOOLEAN :
           Story(told[n], queue[n], [connected |-> c, attr |-> a]) =>
           Story(told[n], w.queue, [connected |-> c, attr |-> 1 - a])
  BY <1>8, AttributeSteps DEF View
<1>10. /\ rec'[n] = w.rec /\ queue'[n] = w.queue
       /\ \A m \in Custom \ {n} : rec'[m] = rec[m] /\ queue'[m] = queue[m]
  BY <1>6, <1>7 DEF View
<1>11. /\ attr' \in [Custom -> {0, 1}] /\ attr'[n] = 1 - a
       /\ \A m \in Custom \ {n} : attr'[m] = attr[m]
  BY <1>1, <1>2, <1>8 DEF TypeOK
<1> HIDE DEF w, a, d
<1>12. \A m \in Custom : rec'[m] = rec[m]
  BY <1>9, <1>10
<1>13. ScriptRuns
  BY <1>2 DEF Scripting, ScriptRuns
<1>14. /\ stack' \in Seq(Frames) /\ Tidy(stack')
       /\ ToSet(stack) \subseteq ToSet(stack')
       /\ \A f \in ToSet(stack') : f \in ToSet(stack) \/ f.kind = "reactions"
       /\ \A m \in Custom : \/ queue'[m] = queue[m]
                            \/ \E f \in ToSet(stack') : f.kind = "reactions" /\ m \in ToSet(f.order)
  BY <1>1, <1>7, <1>13, WaitsOnTop DEF TypeOK
<1>15. \A f \in ToSet(stack) : f \in Frames /\ ~Long(f)
  BY <1>1, <1>13, NoneLong DEF TypeOK, ToSet, ScriptRuns, Long
<1>16. TypeOK'
  BY <1>1, <1>2, <1>7, <1>11, <1>14 DEF TypeOK
<1>17. /\ \A m \in Custom \ {n} : m \in disturbed' <=> m \in disturbed
       /\ n \notin disturbed' => n \notin disturbed /\ rec[n].status # "constructing"
  BY <1>2 DEF Constructing
<1>18. ASSUME NEW f \in ToSet(stack') PROVE FrameFits(f)'
  <2>1. CASE f.kind = "reactions"
    BY <2>1 DEF FrameFits
  <2>2. CASE f.kind # "reactions"
    <3>1. f \in ToSet(stack) /\ FrameFits(f) /\ f \in Frames /\ ~Long(f)
      BY <1>1, <1>14, <1>15, <2>2
    <3>2. ASSUME f.kind = "constructor"
          PROVE  rec'[f.node].status = "constructing" /\ (f.node \notin disturbed' => f.initial = attr'[f.node])
      <4>1. f.node \in Custom /\ rec[f.node].status = "constructing" /\ (f.node \notin disturbed => f.initial = attr[f.node])
        BY <3>1, <3>2, FrameTyped DEF FrameFits
      <4> QED
        BY <1>11, <1>12, <1>17, <4>1
    <3>3. ASSUME f.kind = "settling"
          PROVE  /\ rec'[f.node].status = "custom" /\ f.todo # ToTell
                 /\ f.node \notin disturbed' /\ f.todo = ToConnect =>
                      /\ ~told'[f.node].connected /\ only(queue'[f.node])
                      /\ Story(told'[f.node], queue'[f.node], [connected |-> FALSE, attr |-> attr'[f.node]])
      <4>1. /\ f.node \in Custom /\ rec[f.node].status = "custom" /\ f.todo # ToTell
            /\ f.node \notin disturbed /\ f.todo = ToConnect =>
                 /\ ~told[f.node].connected /\ only(queue[f.node])
                 /\ Story(told[f.node], queue[f.node], [connected |-> FALSE, attr |-> attr[f.node]])
        BY <3>1, <3>3, FrameTyped DEF FrameFits, Long
      <4>2. CASE f.node # n
        BY <1>7, <1>10, <1>11, <1>12, <1>17, <4>1, <4>2
      <4>3. CASE f.node = n
        <5>1. rec'[n].status = "custom"
          BY <1>12, <4>1, <4>3
        <5>2. ASSUME n \notin disturbed', f.todo = ToConnect
              PROVE  /\ ~told'[n].connected /\ only(queue'[n])
                     /\ Story(told'[n], queue'[n], [connected |-> FALSE, attr |-> attr'[n]])
          BY <1>7, <1>9, <1>10, <1>11, <1>17, <4>1, <4>3, <5>2 DEF a
        <5> QED
          BY <4>1, <4>3, <5>1, <5>2
      <4> QED
        BY <4>2, <4>3
    <3>4. f.kind = "walk" => ToSet(f.todo) \subseteq born' \cup Holder
      BY <1>2, <3>1 DEF FrameFits
    <3> QED
      BY <3>2, <3>3, <3>4 DEF FrameFits
  <2> QED
    BY <2>1, <2>2
<1>19. ASSUME NEW m \in Custom PROVE ElementFits(m)'
  <2>1. Settling(m)' <=> Settling(m)
    <3>1. Settling(m)' <=> \E f \in ToSet(stack') : f.kind = "settling" /\ f.node = m /\ f.todo # <<>>
      BY DEF Settling, ToSet
    <3>2. Settling(m) <=> \E f \in ToSet(stack) : f.kind = "settling" /\ f.node = m /\ f.todo # <<>>
      BY SettlingFrames
    <3> QED
      BY <1>14, <3>1, <3>2
  <2>2. ElementFits(m) /\ rec'[m] = rec[m] /\ told'[m] = told[m]
    BY <1>1, <1>7, <1>12
  <2>3. Calm(View(m), told[m])' /\ ~rec'[m].moving
    <3>1. CASE m = n
      <4>1. View(n)' = w
        BY <1>9, <1>10, Fields DEF View
      <4> QED
        BY <1>8, <1>9, <2>2, <3>1, <4>1
    <3>2. CASE m # n
      BY <1>10, <2>2, <3>2 DEF ElementFits, View
    <3> QED
      BY <3>1, <3>2
  <2>4. m \notin born' => rec'[m].status = "none" /\ attr'[m] = 0
    BY <1>2, <1>11, <2>2 DEF ElementFits
  <2>5. rec'[m].status = "constructing" => \E f \in ToSet(stack') : f.kind = "constructor" /\ f.node = m
    BY <1>14, <2>2 DEF ElementFits
  <2>6. queue'[m] # <<>> => \E f \in ToSet(stack') : f.kind = "reactions" /\ m \in ToSet(f.order)
    BY <1>14, <2>2 DEF ElementFits
  <2>7. \A todo : Reaches(todo, m) => Reaches(todo, m)'
    BY <1>2 DEF Reaches
  <2>8. m \in born' /\ defined' /\ rec'[m].status = "none" /\ Connected(kids, m)' =>
          \E f \in ToSet(stack') : f.kind = "walk" /\ Reaches(f.todo, m)'
    <3>1. Connected(kids, m)' <=> Connected(kids, m)
      BY <1>2 DEF Connected
    <3> QED
      BY <1>2, <1>14, <2>2, <2>7, <3>1 DEF ElementFits
  <2>9. m \notin disturbed' /\ rec'[m].status \in {"constructing", "custom"} => (rec'[m].connected <=> Connected(kids, m)')
    <3>1. Connected(kids, m)' <=> Connected(kids, m)
      BY <1>2 DEF Connected
    <3> QED
      BY <1>17, <2>2, <3>1 DEF ElementFits
  <2>10. ASSUME m \notin disturbed', rec'[m].status = "custom", ~Settling(m)
         PROVE  Story(told'[m], queue'[m], Now(m)')
    <3>1. Story(told[m], queue[m], Now(m))
      BY <1>17, <2>2, <2>10 DEF ElementFits
    <3>2. CASE m = n
      <4>1. rec[n].connected \in BOOLEAN /\ rec[n].status = "custom"
        BY <1>1, <2>2, <2>10, <3>2 DEF TypeOK, Records
      <4>2. Story(told[n], queue[n], [connected |-> rec[n].connected, attr |-> a])
        BY <3>1, <3>2 DEF Now, a
      <4>3. Story(told[n], w.queue, [connected |-> rec[n].connected, attr |-> 1 - a])
        BY <1>9, <4>1, <4>2
      <4> QED
        BY <1>10, <1>11, <2>2, <3>2, <4>3 DEF Now
    <3>3. CASE m # n
      BY <1>10, <1>11, <2>2, <3>1, <3>3 DEF Now
    <3> QED
      BY <3>2, <3>3
  <2> QED
    BY <2>1, <2>3, <2>4, <2>5, <2>6, <2>8, <2>9, <2>10 DEF ElementFits
<1>20. Placed(kids, born)'
  BY <1>1, <1>2 DEF Placed
<1> QED
  BY <1>14, <1>16, <1>18, <1>19, <1>20 DEF IInv

-----------------------------------------------------------------------------
(* What runs by itself.                                                     *)

\* An element the step leaves alone, as long as nobody forgets it.
LEMMA OthersStay ==
  ASSUME IInv, NEW m \in Custom,
         kids' = kids, attr' = attr, disturbed' = disturbed, m \in born' <=> m \in born,
         rec'[m] = rec[m], queue'[m] = queue[m], told'[m] = told[m],
         \A f \in ToSet(stack) : f.kind = "constructor" /\ f.node = m =>
           \E g \in ToSet(stack') : g.kind = "constructor" /\ g.node = m,
         \A f \in ToSet(stack) : f.kind = "reactions" /\ m \in ToSet(f.order) /\ queue[m] # <<>> =>
           \E g \in ToSet(stack') : g.kind = "reactions" /\ m \in ToSet(g.order),
         \A f \in ToSet(stack) : f.kind = "settling" /\ f.node = m /\ f.todo # <<>> =>
           \E g \in ToSet(stack') : g.kind = "settling" /\ g.node = m /\ g.todo # <<>>,
         m \in born /\ defined' /\ rec[m].status = "none" /\ Connected(kids, m) =>
           \E g \in ToSet(stack') : g.kind = "walk" /\ Reaches(g.todo, m)
  PROVE  ElementFits(m)'
<1>1. ElementFits(m)
  BY DEF IInv
<1>2. Settling(m) => Settling(m)'
  <2>1. Settling(m)' <=> \E f \in ToSet(stack') : f.kind = "settling" /\ f.node = m /\ f.todo # <<>>
    BY DEF Settling, ToSet
  <2>2. Settling(m) <=> \E f \in ToSet(stack) : f.kind = "settling" /\ f.node = m /\ f.todo # <<>>
    BY SettlingFrames
  <2> QED
    BY <2>1, <2>2
<1>3. Calm(View(m), told[m])' /\ ~rec'[m].moving
  BY <1>1 DEF ElementFits, View
<1>4. m \notin born' => rec'[m].status = "none" /\ attr'[m] = 0
  BY <1>1 DEF ElementFits
<1>5. rec'[m].status = "constructing" => \E f \in ToSet(stack') : f.kind = "constructor" /\ f.node = m
  BY <1>1 DEF ElementFits
<1>6. queue'[m] # <<>> => \E f \in ToSet(stack') : f.kind = "reactions" /\ m \in ToSet(f.order)
  BY <1>1 DEF ElementFits
<1>7. \A todo : Reaches(todo, m)' <=> Reaches(todo, m)
  BY DEF Reaches
<1>8. Connected(kids, m)' <=> Connected(kids, m)
  BY DEF Connected
<1>9. m \in born' /\ defined' /\ rec'[m].status = "none" /\ Connected(kids, m)' =>
        \E f \in ToSet(stack') : f.kind = "walk" /\ Reaches(f.todo, m)'
  BY <1>7, <1>8
<1>10. m \notin disturbed' /\ rec'[m].status \in {"constructing", "custom"} => (rec'[m].connected <=> Connected(kids, m)')
  BY <1>1, <1>8 DEF ElementFits
<1>11. m \notin disturbed' /\ rec'[m].status = "custom" /\ ~Settling(m)' => Story(told'[m], queue'[m], Now(m)')
  BY <1>1, <1>2 DEF ElementFits, Now
<1> QED
  BY <1>3, <1>4, <1>5, <1>6, <1>9, <1>10, <1>11 DEF ElementFits

LEMMA WalkedFor ==
  ASSUME IInv, NEW m \in Custom, m \in born, defined, rec[m].status = "none", Connected(kids, m)
  PROVE  \E f \in ToSet(stack) : f.kind = "walk" /\ Reaches(f.todo, m)
BY DEF IInv, ElementFits

\* A frame of an element that keeps its record, its queue and what it was told.
LEMMA FramesStay ==
  ASSUME NEW f, FrameFits(f), attr' = attr, disturbed' = disturbed, born \subseteq born',
         OfUpgrade(f) => /\ rec'[f.node] = rec[f.node] /\ queue'[f.node] = queue[f.node]
                         /\ told'[f.node] = told[f.node]
  PROVE  FrameFits(f)'
BY DEF FrameFits, OfUpgrade

LEMMA StackSays ==
  ASSUME IInv
  PROVE  /\ stack \in Seq(Frames) /\ Tidy(stack)
         /\ \A f \in ToSet(stack) : f \in Frames /\ FrameFits(f)
BY DEF IInv, TypeOK, ToSet

LEMMA EnterKeeps ==
  ASSUME IInv, ScriptRuns, NEW f \in Frames, f.kind \in {"walk", "creation"}, FrameFits(f),
         stack' = <<f>> \o stack, calls' \in Nat, defined' \in BOOLEAN,
         UNCHANGED <<kids, attr, born, rec, queue, told, disturbed>>,
         defined' = defined \/ (f.kind = "walk" /\ Body \in ToSet(f.todo))
  PROVE  IInv'
<1>1. /\ stack \in Seq(Frames) /\ Tidy(stack) /\ TypeOK /\ Placed(kids, born)
      /\ \A g \in ToSet(stack) : g \in Frames /\ FrameFits(g)
  BY StackSays DEF IInv
<1>2. stack' \in Seq(Frames) /\ ToSet(stack') = {f} \cup ToSet(stack)
  BY <1>1, PutOn
<1>3. \A g \in ToSet(stack) : ~Long(g)
  BY <1>1, NoneLong DEF ScriptRuns, Long
<1>4. Tidy(stack')
  BY <1>1, <1>3, TidyPut DEF OfUpgrade
<1>5. TypeOK'
  BY <1>1, <1>2 DEF TypeOK
<1>6. \A g \in ToSet(stack') : FrameFits(g)'
  BY <1>1, <1>2, FramesStay
<1>7. ASSUME NEW m \in Custom PROVE ElementFits(m)'
  <2>1. ASSUME m \in born, defined', rec[m].status = "none", Connected(kids, m)
        PROVE  \E g \in ToSet(stack') : g.kind = "walk" /\ Reaches(g.todo, m)
    <3>1. CASE defined' = defined
      BY <1>2, <2>1, <3>1, WalkedFor
    <3>2. CASE f.kind = "walk" /\ Body \in ToSet(f.todo)
      <4>1. Reaches(f.todo, m)
        BY <2>1, <3>2, ConnectedWhere, Apart DEF Reaches
      <4> QED
        BY <1>2, <3>2, <4>1
    <3> QED
      BY <3>1, <3>2
  <2> QED
    BY <1>2, <2>1, OthersStay
<1>8. Placed(kids, born)'
  BY <1>1 DEF Placed
<1> QED
  BY <1>4, <1>5, <1>6, <1>7, <1>8 DEF IInv

LEMMA DefineKeeps ==
  ASSUME IInv, Define
  PROVE  IInv'
<1> DEFINE f == [kind |-> "walk", todo |-> <<Body>>]
<1>1. /\ stack' = <<f>> \o stack /\ calls' = calls + 1 /\ defined' = TRUE
      /\ UNCHANGED <<kids, attr, born, rec, queue, told, disturbed>> /\ ScriptRuns
  BY DEF Define, Enter, Scripting, ScriptRuns
<1>2. <<Body>> \in Seq(Custom \cup Holder) /\ ToSet(<<Body>>) = {Body}
  BY DEF ToSet, Holder
<1>3. f \in Frames
  BY <1>2 DEF Frames
<1>4. f.kind = "walk" /\ f.todo = <<Body>>
  OBVIOUS
<1> HIDE DEF f
<1>5. FrameFits(f)
  BY <1>2, <1>4, Apart DEF FrameFits
<1>6. calls' \in Nat
  BY <1>1 DEF IInv, TypeOK
<1> QED
  BY <1>1, <1>2, <1>3, <1>4, <1>5, <1>6, EnterKeeps

LEMMA UpgradeKeeps ==
  ASSUME IInv, Upgrade(Box)
  PROVE  IInv'
<1> DEFINE f == [kind |-> "walk", todo |-> <<Box>>]
<1>1. /\ stack' = <<f>> \o stack /\ calls' = calls + 1 /\ defined' = defined
      /\ UNCHANGED <<kids, attr, born, rec, queue, told, disturbed>> /\ ScriptRuns
  BY DEF Upgrade, Enter, Scripting, ScriptRuns, page
<1>2. <<Box>> \in Seq(Custom \cup Holder) /\ ToSet(<<Box>>) = {Box}
  BY DEF ToSet, Holder
<1>3. f \in Frames
  BY <1>2 DEF Frames
<1>4. f.kind = "walk" /\ f.todo = <<Box>>
  OBVIOUS
<1> HIDE DEF f
<1>5. FrameFits(f)
  BY <1>2, <1>4, Apart DEF FrameFits
<1>6. calls' \in Nat /\ defined' \in BOOLEAN
  BY <1>1 DEF IInv, TypeOK
<1> QED
  BY <1>1, <1>3, <1>4, <1>5, <1>6, EnterKeeps

LEMMA CreateElementKeeps ==
  ASSUME IInv, CreateElement
  PROVE  IInv'
<1> DEFINE f == [kind |-> "creation", made |-> None]
<1>1. /\ stack' = <<f>> \o stack /\ calls' = calls + 1 /\ defined' = defined
      /\ UNCHANGED <<kids, attr, born, rec, queue, told, disturbed>> /\ ScriptRuns
  BY DEF CreateElement, Enter, Scripting, ScriptRuns, page
<1>2. f \in Frames
  BY DEF Frames
<1>3. f.kind = "creation"
  OBVIOUS
<1> HIDE DEF f
<1>4. FrameFits(f)
  BY <1>3 DEF FrameFits
<1>5. calls' \in Nat /\ defined' \in BOOLEAN
  BY <1>1 DEF IInv, TypeOK
<1> QED
  BY <1>1, <1>2, <1>3, <1>4, <1>5, EnterKeeps

LEMMA OverKeeps ==
  ASSUME IInv, Over
  PROVE  IInv'
<1>1. /\ stack \in Seq(Frames) /\ Tidy(stack) /\ TypeOK /\ Placed(kids, born)
      /\ \A g \in ToSet(stack) : g \in Frames /\ FrameFits(g)
  BY StackSays DEF IInv
<1> DEFINE f == Head(stack)
           o == Tail(stack)
<1>2. /\ stack' = o /\ stack # <<>>
      /\ UNCHANGED <<kids, attr, born, defined, rec, queue, calls, told, disturbed>>
      /\ \/ f.kind = "walk" /\ f.todo = <<>>
         \/ f.kind = "reactions" /\ \A i \in DOMAIN f.order : queue[f.order[i]] = <<>>
         \/ f.kind = "settling" /\ f.todo = <<>>
         \/ f.kind = "callback"
         \/ f.kind = "creation"
  BY DEF Over, Doing, Frame, Outer, page
<1>3. f \in Frames /\ o \in Seq(Frames) /\ stack = <<f>> \o o /\ ToSet(stack) = {f} \cup ToSet(o)
  BY <1>1, <1>2, TakeOff
<1> HIDE DEF f, o
<1>4. Tidy(stack')
  BY <1>1, <1>2, <1>3, TidyPut
<1>5. TypeOK'
  BY <1>1, <1>2, <1>3 DEF TypeOK
<1>6. \A g \in ToSet(stack') : FrameFits(g)'
  BY <1>1, <1>2, <1>3, FramesStay
<1>7. ASSUME NEW m \in Custom PROVE ElementFits(m)'
  <2>1. f.kind # "constructor"
    BY <1>2
  <2>2. f.kind = "reactions" /\ m \in ToSet(f.order) => queue[m] = <<>>
    BY <1>2 DEF ToSet
  <2>3. f.kind = "settling" => f.todo = <<>>
    BY <1>2
  <2>4. f.kind = "walk" => ~Reaches(f.todo, m)
    <3>1. ToSet(<<>>) = {}
      BY DEF ToSet
    <3> QED
      BY <1>2, <3>1 DEF Reaches
  <2>5. m \in born /\ defined' /\ rec[m].status = "none" /\ Connected(kids, m) =>
          \E g \in ToSet(stack') : g.kind = "walk" /\ Reaches(g.todo, m)
    BY <1>2, <1>3, <2>4, WalkedFor
  <2> QED
    BY <1>2, <1>3, <2>1, <2>2, <2>3, <2>5, OthersStay
<1>8. Placed(kids, born)'
  BY <1>1, <1>2 DEF Placed
<1> QED
  BY <1>4, <1>5, <1>6, <1>7, <1>8 DEF IInv

-----------------------------------------------------------------------------
(* Constructors.                                                            *)

\* What super() notes in a frame is no matter to the others.
Alike(f, g) ==
  /\ g.kind = f.kind
  /\ g = f \/ (f.kind = "constructor" /\ g.node = f.node /\ g.initial = f.initial) \/ f.kind = "creation"

LEMMA NotesInFrames ==
  ASSUME stack \in Seq(Frames), Tidy(stack), stack' \in Seq(Frames), Len(stack') = Len(stack),
         \A i \in 1..Len(stack) : Alike(stack[i], stack'[i])
  PROVE  /\ Tidy(stack')
         /\ \A g \in ToSet(stack') : \E f \in ToSet(stack) : Alike(f, g)
         /\ \A f \in ToSet(stack) : \E g \in ToSet(stack') : Alike(f, g)
<1>1. DOMAIN stack = 1..Len(stack) /\ DOMAIN stack' = 1..Len(stack)
  OBVIOUS
<1>2. \A i \in 1..Len(stack) :
        /\ OfUpgrade(stack'[i]) <=> OfUpgrade(stack[i])
        /\ OfUpgrade(stack[i]) => stack'[i].node = stack[i].node
        /\ Long(stack'[i]) => Long(stack[i])
  BY DEF Alike, OfUpgrade, Long
<1>3. Tidy(stack')
  BY <1>1, <1>2 DEF Tidy
<1> QED
  BY <1>1, <1>3 DEF ToSet

LEMMA AlikeKeeps ==
  ASSUME IInv, stack' \in Seq(Frames), Len(stack') = Len(stack),
         \A i \in 1..Len(stack) : Alike(stack[i], stack'[i]),
         NEW N \in SUBSET Custom, born' = born \cup N, UNCHANGED <<kids, attr, defined, disturbed, calls>>,
         rec' \in [Custom -> Records], queue' = queue, told' = told,
         N \cap born = {}, \A n \in Custom \ N : rec'[n] = rec[n],
         \A n \in N : rec'[n].status = "custom" /\ rec'[n].connected = FALSE /\ rec'[n].moving = FALSE
  PROVE  IInv'
<1>1. /\ stack \in Seq(Frames) /\ Tidy(stack) /\ TypeOK /\ Placed(kids, born)
      /\ \A g \in ToSet(stack) : g \in Frames /\ FrameFits(g)
  BY StackSays DEF IInv
<1>2. /\ Tidy(stack')
      /\ \A g \in ToSet(stack') : \E f \in ToSet(stack) : Alike(f, g)
      /\ \A f \in ToSet(stack) : \E g \in ToSet(stack') : Alike(f, g)
  BY <1>1, NotesInFrames
<1>3. TypeOK'
  BY <1>1 DEF TypeOK
<1>4. Placed(kids, born)'
  BY <1>1 DEF Placed
<1>5. \A n \in N : /\ rec[n].status = "none" /\ \A f \in ToSet(stack) : OfUpgrade(f) => f.node # n
  BY Unborn
<1>6. ASSUME NEW g \in ToSet(stack') PROVE FrameFits(g)'
  <2>1. PICK f \in ToSet(stack) : Alike(f, g)
    BY <1>2
  <2>2. f \in Frames /\ FrameFits(f)
    BY <1>1
  <2>3. OfUpgrade(f) => rec'[f.node] = rec[f.node]
    BY <1>5, <2>2, FrameTyped DEF OfUpgrade
  <2>4. FrameFits(f)'
    BY <2>2, <2>3, FramesStay
  <2> QED
    BY <2>1, <2>4 DEF Alike, FrameFits
<1>7. ASSUME NEW m \in Custom \ N PROVE ElementFits(m)'
  <2>1. /\ \A f \in ToSet(stack) : f.kind = "constructor" /\ f.node = m =>
             \E g \in ToSet(stack') : g.kind = "constructor" /\ g.node = m
        /\ \A f \in ToSet(stack) : f.kind = "reactions" /\ m \in ToSet(f.order) /\ queue[m] # <<>> =>
             \E g \in ToSet(stack') : g.kind = "reactions" /\ m \in ToSet(g.order)
        /\ \A f \in ToSet(stack) : f.kind = "settling" /\ f.node = m /\ f.todo # <<>> =>
             \E g \in ToSet(stack') : g.kind = "settling" /\ g.node = m /\ g.todo # <<>>
        /\ \A f \in ToSet(stack) : f.kind = "walk" /\ Reaches(f.todo, m) =>
             \E g \in ToSet(stack') : g.kind = "walk" /\ Reaches(g.todo, m)
    BY <1>2 DEF Alike
  <2>2. m \in born /\ defined' /\ rec[m].status = "none" /\ Connected(kids, m) =>
          \E g \in ToSet(stack') : g.kind = "walk" /\ Reaches(g.todo, m)
    BY <2>1, WalkedFor
  <2> QED
    BY <2>1, <2>2, OthersStay
<1>8. ASSUME NEW n \in N PROVE ElementFits(n)'
  <2>1. ElementFits(n) /\ rec[n].status = "none" /\ n \notin born /\ n \in born'
    BY <1>5 DEF IInv
  <2>2. queue[n] = <<>> /\ told[n] = Silent /\ attr[n] = 0
    BY <2>1 DEF ElementFits, Calm, View
  <2>3. ~Connected(kids, n)'
    <3>1. \A p \in Holder : n \notin ToSet(kids[p])
      BY <1>1, <2>1, Apart DEF Placed
    <3>2. ~Connected(kids, n)
      BY <3>1, ConnectedWhere, Apart
    <3> QED
      BY <3>2 DEF Connected
  <2>4. rec'[n].status = "custom" /\ rec'[n].connected = FALSE /\ rec'[n].moving = FALSE
    OBVIOUS
  <2>5. Story(told'[n], queue'[n], Now(n)')
    <3>0. attr'[n] = 0 /\ rec'[n].connected = FALSE
      BY <2>2, <2>4
    <3>1. Now(n)' = Silent
      BY <3>0 DEF Now, Silent
    <3>2. Silent \in State
      BY DEF Silent, State
    <3> QED
      BY <2>2, <3>1, <3>2, StoryEnds
  <2>6. Calm(View(n), told[n])'
    BY <2>2, <2>4 DEF Calm, View
  <2> QED
    BY <2>1, <2>2, <2>3, <2>4, <2>5, <2>6 DEF ElementFits
<1> QED
  BY <1>2, <1>3, <1>4, <1>6, <1>7, <1>8 DEF IInv

LEMMA TakeElementKeeps ==
  ASSUME IInv, TakeElement
  PROVE  IInv'
<1>1. stack \in Seq(Frames) /\ Tidy(stack) /\ TypeOK
  BY StackSays DEF IInv
<1>2. /\ Doing("constructor") \/ Doing("creation")
      /\ Upgrades # {}
      /\ stack' = [[stack EXCEPT ![Innermost].used = TRUE] EXCEPT ![1].made = stack[Innermost].node]
      /\ UNCHANGED <<kids, attr, born, defined, rec, queue, calls, told, disturbed>>
  BY DEF TakeElement, page
<1>3. Innermost \in Upgrades
  <2>1. Upgrades \in SUBSET (0..Len(stack)) /\ Len(stack) \in Nat
    BY <1>1 DEF Upgrades
  <2>2. Min(Upgrades) \in Upgrades /\ \A x \in Upgrades : Min(Upgrades) <= x
    BY <1>2, <2>1, Extremes
  <2> QED
    BY <2>2 DEF Innermost
<1> DEFINE i == Innermost
           n == stack[i].node
           s == [stack EXCEPT ![i].used = TRUE]
<1>4. /\ i \in 1..Len(stack) /\ stack[i].kind = "constructor" /\ stack[i] \in Frames /\ n \in Custom
      /\ Len(stack) \in Nat /\ DOMAIN stack = 1..Len(stack) /\ \A k \in 1..Len(stack) : stack[k] \in Frames
  <2>1. i \in 1..Len(stack) /\ stack[i].kind = "constructor" /\ stack[i] \in Frames
    BY <1>1, <1>3 DEF Upgrades
  <2>2. n \in Custom
    BY <2>1, FrameTyped
  <2> QED
    BY <1>1, <2>1, <2>2
<1>5. /\ 1 \in 1..Len(stack) /\ stack[1].kind \in {"constructor", "creation"}
  <2>1. stack # <<>> /\ Head(stack).kind \in {"constructor", "creation"} /\ Head(stack) = stack[1]
    BY <1>1, <1>2 DEF Doing
  <2> QED
    BY <1>4, <2>1
<1> HIDE DEF i
<1>6. ASSUME NEW f \in Frames, f.kind = "constructor", NEW b \in BOOLEAN
      PROVE  [f EXCEPT !.used = b] \in Frames /\ Alike(f, [f EXCEPT !.used = b])
  <2>1. f = [kind |-> "constructor", node |-> f.node, used |-> f.used, made |-> f.made, initial |-> f.initial]
        /\ f.node \in Custom /\ f.made \in Custom \cup {None} /\ f.initial \in {0, 1}
    BY <1>6 DEF Frames
  <2>2. [f EXCEPT !.used = b] = [kind |-> "constructor", node |-> f.node, used |-> b, made |-> f.made, initial |-> f.initial]
    BY <2>1
  <2> QED
    BY <2>1, <2>2 DEF Frames, Alike
<1>7. ASSUME NEW f \in Frames, f.kind \in {"constructor", "creation"}, NEW x \in Custom
      PROVE  [f EXCEPT !.made = x] \in Frames /\ Alike(f, [f EXCEPT !.made = x])
  <2>1. CASE f.kind = "constructor"
    <3>1. f = [kind |-> "constructor", node |-> f.node, used |-> f.used, made |-> f.made, initial |-> f.initial]
          /\ f.node \in Custom /\ f.used \in BOOLEAN /\ f.initial \in {0, 1}
      BY <2>1 DEF Frames
    <3>2. [f EXCEPT !.made = x] = [kind |-> "constructor", node |-> f.node, used |-> f.used, made |-> x, initial |-> f.initial]
      BY <3>1
    <3> QED
      BY <3>1, <3>2 DEF Frames, Alike
  <2>2. CASE f.kind = "creation"
    <3>1. f = [kind |-> "creation", made |-> f.made]
      BY <2>2 DEF Frames
    <3>2. [f EXCEPT !.made = x] = [kind |-> "creation", made |-> x]
      BY <3>1
    <3> QED
      BY <3>1, <3>2, <2>2 DEF Frames, Alike
  <2> QED
    BY <1>7, <2>1, <2>2
<1>8. /\ s \in Seq(Frames) /\ Len(s) = Len(stack) /\ s[i] = [stack[i] EXCEPT !.used = TRUE]
      /\ \A k \in 1..Len(stack) : k # i => s[k] = stack[k]
  <2>1. s = [stack EXCEPT ![i] = [stack[i] EXCEPT !.used = TRUE]]
    BY <1>4
  <2>2. [stack[i] EXCEPT !.used = TRUE] \in Frames
    BY <1>4, <1>6
  <2> QED
    BY <1>1, <1>4, <2>1, <2>2
<1>9. \A k \in 1..Len(stack) : Alike(stack[k], s[k]) /\ s[k] \in Frames
  BY <1>1, <1>4, <1>6, <1>8 DEF Alike
<1>10. s[1].kind \in {"constructor", "creation"}
  BY <1>5, <1>9 DEF Alike
<1>11. stack' = [s EXCEPT ![1].made = n]
  BY <1>2 DEF i
<1> HIDE DEF s, n
<1>12. /\ stack' \in Seq(Frames) /\ Len(stack') = Len(stack) /\ stack'[1] = [s[1] EXCEPT !.made = n]
       /\ \A k \in 1..Len(stack) : k # 1 => stack'[k] = s[k]
  <2>1. stack' = [s EXCEPT ![1] = [s[1] EXCEPT !.made = n]]
    BY <1>5, <1>8, <1>11
  <2>2. [s[1] EXCEPT !.made = n] \in Frames
    BY <1>4, <1>5, <1>7, <1>9, <1>10
  <2> QED
    BY <1>5, <1>8, <2>1, <2>2
<1>13. \A k \in 1..Len(stack) : Alike(s[k], stack'[k])
  <2>1. \A k \in 1..Len(stack) : k # 1 => stack'[k] = s[k]
    BY <1>12
  <2>2. s[1] \in Frames /\ n \in Custom
    BY <1>4, <1>5, <1>9
  <2>3. Alike(s[1], [s[1] EXCEPT !.made = n])
    BY <1>7, <1>10, <2>2
  <2>4. Alike(s[1], stack'[1])
    BY <1>12, <2>3
  <2> QED
    BY <2>1, <2>4 DEF Alike
<1>14. \A k \in 1..Len(stack) : Alike(stack[k], stack'[k])
  BY <1>9, <1>13 DEF Alike
<1>15. rec' \in [Custom -> Records]
  BY <1>1, <1>2 DEF TypeOK
<1> DEFINE N == {m \in Custom : FALSE}
<1>16. /\ N \in SUBSET Custom /\ born' = born \cup N /\ N \cap born = {} /\ \A m \in Custom \ N : rec'[m] = rec[m]
       /\ \A m \in N : rec'[m].status = "custom" /\ rec'[m].connected = FALSE /\ rec'[m].moving = FALSE
  BY <1>2
<1> HIDE DEF N
<1> QED
  BY <1>2, <1>12, <1>14, <1>15, <1>16, AlikeKeeps

LEMMA MakeElementKeeps ==
  ASSUME IInv, NEW n \in Custom, MakeElement(n)
  PROVE  IInv'
<1>1. stack \in Seq(Frames) /\ Tidy(stack) /\ TypeOK
  BY StackSays DEF IInv
<1>2. /\ stack # <<>> /\ Head(stack).kind = "creation" /\ n \notin born /\ born' = born \cup {n}
      /\ rec' = [rec EXCEPT ![n].status = "custom"]
      /\ stack' = [stack EXCEPT ![1].made = n]
      /\ UNCHANGED <<kids, attr, defined, queue, calls, told, disturbed>>
  BY DEF MakeElement, Doing
<1> DEFINE f == stack[1]
           g == [kind |-> "creation", made |-> n]
<1>3. /\ 1 \in 1..Len(stack) /\ f \in Frames /\ f.kind = "creation" /\ Len(stack) \in Nat
      /\ DOMAIN stack = 1..Len(stack)
  BY <1>1, <1>2
<1>4. f = [kind |-> "creation", made |-> f.made]
  BY <1>3 DEF Frames
<1>5. [f EXCEPT !.made = n] = g
  BY <1>4
<1>6. g \in Frames /\ Alike(f, g)
  BY <1>3 DEF Frames, Alike
<1>7. stack' = [stack EXCEPT ![1] = g]
  BY <1>2, <1>3, <1>5
<1> HIDE DEF g
<1>8. /\ stack' \in Seq(Frames) /\ Len(stack') = Len(stack)
      /\ stack'[1] = g /\ \A k \in 1..Len(stack) : k # 1 => stack'[k] = stack[k]
  BY <1>1, <1>3, <1>6, <1>7
<1>9. \A k \in 1..Len(stack) : Alike(stack[k], stack'[k])
  BY <1>6, <1>8 DEF Alike
<1>10. rec[n].status = "none" /\ rec[n] \in Records /\ ~rec[n].connected /\ ~rec[n].moving
  <2>1. ElementFits(n) /\ rec[n] \in Records
    BY <1>1 DEF IInv, TypeOK
  <2> QED
    BY <1>2, <2>1 DEF ElementFits, Calm, View
<1>11. /\ rec' \in [Custom -> Records]
       /\ rec'[n].status = "custom" /\ rec'[n].connected = FALSE /\ rec'[n].moving = FALSE
       /\ \A m \in Custom \ {n} : rec'[m] = rec[m]
  <2> DEFINE v == [rec[n] EXCEPT !.status = "custom"]
  <2>1. v \in Records /\ v.status = "custom" /\ v.connected = rec[n].connected /\ v.moving = rec[n].moving
    BY <1>10 DEF Records
  <2>2. rec' = [rec EXCEPT ![n] = v] /\ rec \in [Custom -> Records]
    BY <1>1, <1>2 DEF TypeOK
  <2>3. rec[n].connected \in BOOLEAN /\ rec[n].moving \in BOOLEAN
    BY <1>10 DEF Records
  <2> HIDE DEF v
  <2>4. rec'[n] = v /\ rec' \in [Custom -> Records] /\ \A m \in Custom \ {n} : rec'[m] = rec[m]
    BY <2>1, <2>2
  <2> QED
    BY <1>10, <2>1, <2>3, <2>4
<1> DEFINE N == {n}
<1>12. /\ N \in SUBSET Custom /\ born' = born \cup N /\ N \cap born = {} /\ \A m \in Custom \ N : rec'[m] = rec[m]
       /\ \A m \in N : rec'[m].status = "custom" /\ rec'[m].connected = FALSE /\ rec'[m].moving = FALSE
  BY <1>2, <1>11
<1> HIDE DEF N
<1> QED
  BY <1>2, <1>8, <1>9, <1>11, <1>12, AlikeKeeps

-----------------------------------------------------------------------------
(* The engine's steps with one element.                                     *)

\* The innermost frame f is replaced, the frames o stay, and everything else
\* is about n.
FramesFit(o, n) ==
  /\ stack' \in Seq(Frames) /\ Tidy(stack') /\ ToSet(o) \subseteq ToSet(stack')
  /\ \A g \in ToSet(stack') : \/ g \in ToSet(o) /\ (OfUpgrade(g) => g.node # n)
                             \/ FrameFits(g)'

Only(n) ==
  /\ UNCHANGED <<kids, attr, born, defined, calls, disturbed>>
  /\ rec' \in [Custom -> Records] /\ queue' \in [Custom -> Seq(Reactions)] /\ told' \in [Custom -> State]
  /\ \A m \in Custom \ {n} : rec'[m] = rec[m] /\ queue'[m] = queue[m] /\ told'[m] = told[m]

\* Nobody else is forgotten with f.
Passes(f, n) ==
  /\ OfUpgrade(f) => f.node = n
  /\ \A m \in Custom \ {n} :
       /\ f.kind = "reactions" /\ m \in ToSet(f.order) /\ queue[m] # <<>> =>
            \E g \in ToSet(stack') : g.kind = "reactions" /\ m \in ToSet(g.order)
       /\ f.kind = "walk" /\ Reaches(f.todo, m) /\ rec[m].status = "none" =>
            \E g \in ToSet(stack') : g.kind = "walk" /\ Reaches(g.todo, m)

LEMMA OneElement ==
  ASSUME IInv, NEW f, NEW o \in Seq(Frames), ToSet(stack) = {f} \cup ToSet(o),
         NEW n, FramesFit(o, n), Only(n), Passes(f, n), n \in Custom => ElementFits(n)'
  PROVE  IInv'
<1>0. /\ UNCHANGED <<kids, attr, born, defined, calls, disturbed>>
      /\ \A m \in Custom \ {n} : rec'[m] = rec[m] /\ queue'[m] = queue[m] /\ told'[m] = told[m]
      /\ stack' \in Seq(Frames) /\ Tidy(stack') /\ ToSet(o) \subseteq ToSet(stack')
  BY DEF Only, FramesFit
<1>1. /\ TypeOK /\ Placed(kids, born) /\ \A g \in ToSet(stack) : g \in Frames /\ FrameFits(g)
  BY StackSays DEF IInv
<1>2. TypeOK'
  BY <1>0, <1>1 DEF TypeOK, Only
<1>3. Placed(kids, born)'
  BY <1>0, <1>1 DEF Placed
<1>4. ASSUME NEW g \in ToSet(stack') PROVE FrameFits(g)'
  <2>1. CASE g \in ToSet(o) /\ (OfUpgrade(g) => g.node # n)
    <3>1. g \in Frames /\ FrameFits(g)
      BY <1>1, <2>1
    <3>2. OfUpgrade(g) => g.node \in Custom \ {n}
      BY <2>1, <3>1, FrameTyped DEF OfUpgrade
    <3> QED
      BY <1>0, <3>1, <3>2, FramesStay
  <2> QED
    BY <2>1 DEF FramesFit
<1>5. ASSUME NEW m \in Custom \ {n} PROVE ElementFits(m)'
  <2>1. f.kind = "constructor" => f.node # m
    BY DEF OfUpgrade, Passes
  <2>2. f.kind = "settling" => f.node # m
    BY DEF OfUpgrade, Passes
  <2>3. /\ f.kind = "reactions" /\ m \in ToSet(f.order) /\ queue[m] # <<>> =>
             \E g \in ToSet(stack') : g.kind = "reactions" /\ m \in ToSet(g.order)
        /\ f.kind = "walk" /\ Reaches(f.todo, m) /\ rec[m].status = "none" =>
             \E g \in ToSet(stack') : g.kind = "walk" /\ Reaches(g.todo, m)
    BY DEF Passes
  <2>4. m \in born /\ defined' /\ rec[m].status = "none" /\ Connected(kids, m) =>
          \E g \in ToSet(stack') : g.kind = "walk" /\ Reaches(g.todo, m)
    BY <1>0, <2>3, WalkedFor
  <2> QED
    BY <1>0, <2>1, <2>2, <2>3, <2>4, OthersStay
<1>6. \A m \in Custom : ElementFits(m)'
  BY <1>5
<1> QED
  BY <1>0, <1>2, <1>3, <1>4, <1>6 DEF IInv

LEMMA OnTop ==
  ASSUME IInv, stack # <<>>
  PROVE  \E f \in Frames, o \in Seq(Frames) :
           /\ f = Head(stack) /\ o = Tail(stack) /\ FrameFits(f)
           /\ ToSet(stack) = {f} \cup ToSet(o) /\ Tidy(o)
           /\ \A g \in ToSet(o) : /\ g \in Frames /\ FrameFits(g) /\ ~Long(g)
                                  /\ OfUpgrade(f) /\ OfUpgrade(g) => g.node # f.node
<1>1. /\ stack \in Seq(Frames) /\ Tidy(stack)
      /\ \A g \in ToSet(stack) : g \in Frames /\ FrameFits(g)
  BY StackSays
<1> DEFINE f == Head(stack)
           o == Tail(stack)
<1>2. f \in Frames /\ o \in Seq(Frames) /\ stack = <<f>> \o o /\ ToSet(stack) = {f} \cup ToSet(o)
  BY <1>1, TakeOff
<1>3. f = Head(stack) /\ o = Tail(stack)
  OBVIOUS
<1> HIDE DEF f, o
<1>4. /\ Tidy(o) /\ \A g \in ToSet(o) : ~Long(g) /\ (OfUpgrade(f) /\ OfUpgrade(g) => g.node # f.node)
  BY <1>1, <1>2, TidyPut
<1> QED
  BY <1>1, <1>2, <1>3, <1>4

\* What is in nobody's way goes on top.
LEMMA Tops ==
  ASSUME NEW f \in Frames, NEW o \in Seq(Frames), Tidy(o),
         \A g \in ToSet(o) : ~Long(g) /\ (OfUpgrade(f) /\ OfUpgrade(g) => g.node # f.node)
  PROVE  LET s == <<f>> \o o IN s \in Seq(Frames) /\ Tidy(s) /\ ToSet(s) = {f} \cup ToSet(o)
BY PutOn, TidyPut

\* The steps that change one record: n's.
LEMMA Statuses ==
  ASSUME rec \in [Custom -> Records], NEW n \in Custom,
         NEW s \in {"none", "pending", "constructing", "custom", "failed"},
         rec' = [rec EXCEPT ![n].status = s]
  PROVE  /\ rec' \in [Custom -> Records] /\ rec'[n].status = s
         /\ rec'[n].connected = rec[n].connected /\ rec'[n].moving = rec[n].moving
         /\ \A m \in Custom \ {n} : rec'[m] = rec[m]
<1> DEFINE v == [rec[n] EXCEPT !.status = s]
<1>1. v \in Records /\ v.status = s /\ v.connected = rec[n].connected /\ v.moving = rec[n].moving
  BY DEF Records
<1>2. rec' = [rec EXCEPT ![n] = v]
  OBVIOUS
<1> HIDE DEF v
<1> QED
  BY <1>1, <1>2

LEMMA Todos ==
  /\ ToConnect # <<>> /\ ToTell # <<>> /\ ToConnect # ToTell
  /\ Head(ToConnect) = Reaction("connected") /\ Tail(ToConnect) = <<>>
  /\ Head(ToTell) = Changed(0, 1) /\ Tail(ToTell) = ToConnect
  /\ <<Changed(0, 1)>> \o <<Reaction("connected")>> = ToTell
  /\ <<>> \o <<Reaction("connected")>> = ToConnect
<1>1. Len(ToConnect) = 1 /\ Len(ToTell) = 2
  BY DEF ToConnect, ToTell
<1>2. Head(ToConnect) = Reaction("connected") /\ Tail(ToConnect) = <<>>
  BY DEF ToConnect
<1>3. Head(ToTell) = Changed(0, 1) /\ Tail(ToTell) = ToConnect
  BY DEF ToConnect, ToTell
<1>4. <<Changed(0, 1)>> \o <<Reaction("connected")>> = ToTell
  <2> DEFINE a == Changed(0, 1)
             b == Reaction("connected")
  <2>1. ToTell = <<a, b>>
    BY DEF ToTell
  <2> HIDE DEF a, b
  <2>2. <<a>> \o <<b>> = <<a, b>>
    <3> DEFINE s == <<a>> \o <<b>>
               t == <<a, b>>
    <3>1. Len(s) = 2 /\ s[1] = a /\ s[2] = b /\ s \in Seq({a, b})
      OBVIOUS
    <3>2. Len(t) = 2 /\ t[1] = a /\ t[2] = b /\ t \in Seq({a, b})
      OBVIOUS
    <3> HIDE DEF s, t
    <3>3. s = t
      BY <3>1, <3>2, SeqEqual
    <3> QED
      BY <3>3 DEF s, t
  <2> QED
    BY <2>1, <2>2 DEF a, b
<1>5. <<>> \o <<Reaction("connected")>> = ToConnect
  BY DEF ToConnect
<1>6. ToConnect # <<>> /\ ToTell # <<>> /\ ToConnect # ToTell
  BY <1>1
<1> QED
  BY <1>2, <1>3, <1>4, <1>5, <1>6

LEMMA ConstructorFailsKeeps ==
  ASSUME IInv, ConstructorFails
  PROVE  IInv'
<1>0. stack # <<>>
  BY DEF ConstructorFails, Doing
<1>2. PICK f \in Frames, o \in Seq(Frames) :
        /\ f = Head(stack) /\ o = Tail(stack) /\ FrameFits(f)
        /\ ToSet(stack) = {f} \cup ToSet(o) /\ Tidy(o)
        /\ \A g \in ToSet(o) : OfUpgrade(f) /\ OfUpgrade(g) => g.node # f.node
  BY <1>0, OnTop
<1>n. PICK n : n = f.node
  OBVIOUS
<1>1. /\ f.kind = "constructor" /\ stack' = o
      /\ rec' = [rec EXCEPT ![n].status = "failed"]
      /\ UNCHANGED <<kids, attr, born, defined, queue, calls, told, disturbed>>
  BY <1>n, <1>2 DEF ConstructorFails, Doing, Frame, Outer, page
<1>3. n \in Custom /\ OfUpgrade(f) /\ rec[n].status = "constructing"
  BY <1>n, <1>1, <1>2, FrameTyped DEF OfUpgrade, FrameFits
<1>4. TypeOK /\ ElementFits(n)
  BY <1>3 DEF IInv
<1>5. /\ rec' \in [Custom -> Records] /\ rec'[n].status = "failed" /\ rec'[n].moving = rec[n].moving
      /\ \A m \in Custom \ {n} : rec'[m] = rec[m]
  BY <1>1, <1>3, <1>4, Statuses DEF TypeOK
<1>6. queue' \in [Custom -> Seq(Reactions)] /\ told' \in [Custom -> State]
  BY <1>1, <1>4 DEF TypeOK
<1>7. queue[n] = <<>> /\ n \in born /\ ~rec[n].moving
  BY <1>3, <1>4 DEF ElementFits, Calm, View
<1>8. ElementFits(n)'
  <2>1. Calm(View(n), told[n])'
    BY <1>1, <1>5, <1>7 DEF Calm, View
  <2> QED
    BY <1>1, <1>5, <1>7, <2>1 DEF ElementFits
<1>9. FramesFit(o, n)
  BY <1>n, <1>1, <1>2, <1>3 DEF FramesFit
<1>10. Only(n)
  BY <1>1, <1>5, <1>6 DEF Only
<1>11. Passes(f, n)
  BY <1>n, <1>1 DEF Passes
<1> QED
  BY <1>2, <1>8, <1>9, <1>10, <1>11, OneElement

LEMMA ConstructorReturnsKeeps ==
  ASSUME IInv, ConstructorReturns
  PROVE  IInv'
<1>0. stack # <<>>
  BY DEF ConstructorReturns, Doing
<1>2. PICK f \in Frames, o \in Seq(Frames) :
        /\ f = Head(stack) /\ o = Tail(stack) /\ FrameFits(f)
        /\ ToSet(stack) = {f} \cup ToSet(o) /\ Tidy(o)
        /\ \A h \in ToSet(o) : /\ h \in Frames /\ ~Long(h)
                               /\ OfUpgrade(f) /\ OfUpgrade(h) => h.node # f.node
  BY <1>0, OnTop
<1>n. PICK n : n = f.node
  OBVIOUS
<1>t. PICK todo : todo = (IF f.initial = 0 THEN <<>> ELSE <<Changed(0, f.initial)>>) \o <<Reaction("connected")>>
  OBVIOUS
<1>g. PICK g : g = [kind |-> "settling", node |-> n, todo |-> todo]
  OBVIOUS
<1>1. /\ f.kind = "constructor" /\ stack' = <<g>> \o o
      /\ rec' = [rec EXCEPT ![n].status = "custom"]
      /\ UNCHANGED <<kids, attr, born, defined, queue, calls, told, disturbed>>
  BY <1>n, <1>t, <1>g, <1>2 DEF ConstructorReturns, Doing, Frame, Outer, page
<1>3. n \in Custom /\ OfUpgrade(f) /\ rec[n].status = "constructing" /\ f.initial \in {0, 1}
      /\ (n \notin disturbed => f.initial = attr[n])
  BY <1>n, <1>1, <1>2, FrameTyped DEF OfUpgrade, FrameFits
<1>4. TypeOK /\ ElementFits(n)
  BY <1>3 DEF IInv
<1>5. /\ f.initial = 0 => todo = ToConnect
      /\ f.initial = 1 => todo = ToTell
  <2>1. ASSUME f.initial = 0 PROVE todo = ToConnect
    <3>1. todo = <<>> \o <<Reaction("connected")>>
      BY <1>t, <2>1
    <3> QED
      BY <3>1, Todos
  <2>2. ASSUME f.initial = 1 PROVE todo = ToTell
    <3>1. todo = <<Changed(0, 1)>> \o <<Reaction("connected")>>
      BY <1>t, <2>2
    <3> QED
      BY <3>1, Todos
  <2> QED
    BY <2>1, <2>2
<1>6. g \in Frames /\ g.kind = "settling" /\ g.node = n /\ g.todo = todo /\ OfUpgrade(g)
  BY <1>g, <1>3, <1>5 DEF Frames, OfUpgrade
<1>7. stack' \in Seq(Frames) /\ Tidy(stack') /\ ToSet(stack') = {g} \cup ToSet(o)
  <2>1. \A h \in ToSet(o) : ~Long(h) /\ (OfUpgrade(g) /\ OfUpgrade(h) => h.node # g.node)
    BY <1>n, <1>2, <1>3, <1>6
  <2> QED
    BY <1>1, <1>2, <1>6, <2>1, Tops
<1>8. /\ rec' \in [Custom -> Records] /\ rec'[n].status = "custom"
      /\ rec'[n].moving = rec[n].moving /\ rec'[n].connected = rec[n].connected
      /\ \A m \in Custom \ {n} : rec'[m] = rec[m]
  BY <1>1, <1>3, <1>4, Statuses DEF TypeOK
<1>9. queue' \in [Custom -> Seq(Reactions)] /\ told' \in [Custom -> State] /\ attr[n] \in {0, 1}
  BY <1>1, <1>3, <1>4 DEF TypeOK
<1>10. queue[n] = <<>> /\ n \in born /\ ~rec[n].moving /\ told[n] = Silent
  BY <1>3, <1>4 DEF ElementFits, Calm, View
<1>11. Settling(n)'
  <2>1. PICK i \in DOMAIN stack' : stack'[i] = g
    BY <1>7 DEF ToSet
  <2>2. todo # <<>>
    BY <1>3, <1>5, Todos
  <2> QED
    BY <1>6, <2>1, <2>2 DEF Settling
<1>12. ElementFits(n)'
  <2>1. Calm(View(n), told[n])'
    BY <1>1, <1>8, <1>10 DEF Calm, View
  <2>2. n \notin disturbed => (rec'[n].connected <=> Connected(kids, n)')
    BY <1>1, <1>3, <1>4, <1>8 DEF ElementFits, Connected
  <2> QED
    BY <1>1, <1>8, <1>10, <1>11, <2>1, <2>2 DEF ElementFits
<1>13. FrameFits(g)'
  <2>1. ASSUME n \notin disturbed, todo = ToConnect
        PROVE  /\ ~told[n].connected
               /\ \A k \in DOMAIN queue[n] : queue[n][k].what = "attribute"
               /\ Story(told[n], queue[n], [connected |-> FALSE, attr |-> attr[n]])
    <3>1. attr[n] = 0
      BY <1>3, <1>5, <2>1, Todos
    <3>2. told[n] = Silent /\ [connected |-> FALSE, attr |-> attr[n]] = Silent /\ Silent \in State
      BY <1>10, <3>1 DEF Silent, State
    <3>3. Story(told[n], queue[n], [connected |-> FALSE, attr |-> attr[n]])
      BY <1>10, <3>2, StoryEnds
    <3> QED
      BY <1>10, <3>3 DEF Silent
  <2>2. n \notin disturbed /\ todo = ToTell => told[n] = Silent /\ queue[n] = <<>> /\ attr[n] = 1
    BY <1>3, <1>5, <1>10, Todos
  <2> QED
    BY <1>1, <1>6, <1>8, <2>1, <2>2 DEF FrameFits
<1>14. FramesFit(o, n)
  BY <1>n, <1>2, <1>3, <1>7, <1>13 DEF FramesFit
<1>15. Only(n)
  BY <1>1, <1>8, <1>9 DEF Only
<1>16. Passes(f, n)
  BY <1>n, <1>1 DEF Passes
<1> QED
  BY <1>2, <1>12, <1>14, <1>15, <1>16, OneElement

\* The frame g goes on for f where n is seen to.
Carries(f, g, n) ==
  /\ g \in Frames /\ g.kind = f.kind /\ f.kind \in {"walk", "reactions"} /\ FrameFits(g)
  /\ \A m \in Custom \ {n} :
       /\ f.kind = "reactions" /\ m \in ToSet(f.order) /\ queue[m] # <<>> => m \in ToSet(g.order)
       /\ f.kind = "walk" /\ Reaches(f.todo, m) /\ rec[m].status = "none" => Reaches(g.todo, m)

LEMMA Carried ==
  ASSUME NEW f, NEW g, NEW n, Carries(f, g, n), UNCHANGED <<attr, disturbed, born>>
  PROVE  /\ ~OfUpgrade(g) /\ ~Long(g) /\ ~OfUpgrade(f) /\ FrameFits(g)'
         /\ g \in ToSet(stack') => Passes(f, n)
<1>1. ~OfUpgrade(g) /\ ~Long(g) /\ ~OfUpgrade(f) /\ FrameFits(g)
  BY DEF Carries, OfUpgrade, Long
<1>2. FrameFits(g)'
  BY <1>1, FramesStay
<1>3. g \in ToSet(stack') => Passes(f, n)
  BY <1>1 DEF Passes, Carries
<1> QED
  BY <1>1, <1>2, <1>3

\* A constructor is called: n is a candidate, nobody's yet.
LEMMA BeginKeeps ==
  ASSUME IInv, NEW f, NEW o \in Seq(Frames), ToSet(stack) = {f} \cup ToSet(o), Tidy(o),
         \A h \in ToSet(o) : ~Long(h) /\ h \in Frames /\ FrameFits(h),
         NEW n \in Custom, n \in born, rec[n].status \in {"none", "pending"},
         NEW g, Carries(f, g, n), Begin(n, <<g>> \o o),
         UNCHANGED <<kids, attr, born, defined, calls, disturbed>>,
         queue' \in [Custom -> Seq(Reactions)], queue'[n] = <<>>,
         \A m \in Custom \ {n} : queue'[m] = queue[m]
  PROVE  IInv'
<1>1. PICK c : c = [kind |-> "constructor", node |-> n, used |-> FALSE, made |-> None, initial |-> attr[n]]
  OBVIOUS
<1>2. PICK v : v = [status |-> "constructing", moving |-> FALSE, connected |-> Connected(kids, n)]
  OBVIOUS
<1>3. rec' = [rec EXCEPT ![n] = v] /\ stack' = <<c>> \o (<<g>> \o o) /\ told' = told
  BY <1>1, <1>2 DEF Begin
<1>4. TypeOK /\ ElementFits(n) /\ attr[n] \in {0, 1}
  BY DEF IInv, TypeOK
<1>5. /\ c \in Frames /\ c.kind = "constructor" /\ c.node = n /\ c.initial = attr[n]
      /\ OfUpgrade(c)
  BY <1>1, <1>4 DEF Frames, OfUpgrade
<1>6. /\ v \in Records /\ v.status = "constructing" /\ v.moving = FALSE
      /\ v.connected = Connected(kids, n)
  BY <1>2, ConnectedWhere DEF Records
<1>7. rec' \in [Custom -> Records] /\ rec'[n] = v /\ \A m \in Custom \ {n} : rec'[m] = rec[m]
  BY <1>3, <1>4, <1>6 DEF TypeOK
<1>8. told[n] = Silent
  BY <1>4 DEF ElementFits, Calm, View
<1>9. g \in Frames /\ ~OfUpgrade(g) /\ ~Long(g) /\ ~OfUpgrade(f) /\ FrameFits(g)'
  BY Carried DEF Carries
<1>10. \A h \in ToSet(o) : OfUpgrade(h) => h.node # n
  BY DEF FrameFits, OfUpgrade
<1>11. stack' \in Seq(Frames) /\ Tidy(stack') /\ ToSet(stack') = {c, g} \cup ToSet(o)
  <2>1. PICK s : s = <<g>> \o o
    OBVIOUS
  <2>2. s \in Seq(Frames) /\ Tidy(s) /\ ToSet(s) = {g} \cup ToSet(o)
    BY <1>9, <2>1, Tops
  <2>3. \A h \in ToSet(s) : ~Long(h) /\ (OfUpgrade(c) /\ OfUpgrade(h) => h.node # c.node)
    BY <1>5, <1>9, <1>10, <2>2
  <2>4. stack' = <<c>> \o s
    BY <1>3, <2>1
  <2>5. stack' \in Seq(Frames) /\ Tidy(stack') /\ ToSet(stack') = {c} \cup ToSet(s)
    BY <1>5, <2>2, <2>3, <2>4, Tops
  <2> QED
    BY <2>2, <2>5
<1>12. FrameFits(c)'
  BY <1>5, <1>6, <1>7 DEF FrameFits
<1>13. FramesFit(o, n)
  BY <1>9, <1>10, <1>11, <1>12 DEF FramesFit
<1>14. Only(n)
  BY <1>3, <1>4, <1>7 DEF Only, TypeOK
<1>15. Passes(f, n)
  BY <1>11, Carried
<1>16. ElementFits(n)'
  <2>1. Calm(View(n), told[n])'
    BY <1>3, <1>6, <1>7, <1>8 DEF Calm, View
  <2>2. rec'[n].connected <=> Connected(kids, n)'
    BY <1>6, <1>7, ConnectedWhere DEF Connected
  <2>3. rec'[n].status = "constructing" /\ rec'[n].moving = FALSE
    BY <1>6, <1>7
  <2>4. \E h \in ToSet(stack') : h.kind = "constructor" /\ h.node = n
    BY <1>5, <1>11
  <2> QED
    BY <2>1, <2>2, <2>3, <2>4 DEF ElementFits
<1> QED
  BY <1>13, <1>14, <1>15, <1>16, OneElement

\* Nothing but the cursor moves.
LEMMA StepsOn ==
  ASSUME IInv, NEW f, NEW o \in Seq(Frames), ToSet(stack) = {f} \cup ToSet(o), Tidy(o),
         \A h \in ToSet(o) : ~Long(h) /\ h \in Frames,
         NEW g, Carries(f, g, None), stack' = <<g>> \o o,
         UNCHANGED <<kids, attr, born, defined, rec, queue, calls, told, disturbed>>
  PROVE  IInv'
<1>1. g \in Frames /\ ~OfUpgrade(g) /\ ~Long(g) /\ FrameFits(g)'
  BY Carried DEF Carries
<1>2. stack' \in Seq(Frames) /\ Tidy(stack') /\ ToSet(stack') = {g} \cup ToSet(o)
  BY <1>1, Tops
<1>3. None \notin Custom
  BY CustomElementsAssumption
<1>4. \A h \in ToSet(o) : OfUpgrade(h) => h.node # None
  BY <1>3, FrameTyped DEF OfUpgrade
<1>5. FramesFit(o, None)
  BY <1>1, <1>2, <1>4 DEF FramesFit
<1>6. Only(None)
  BY DEF Only, IInv, TypeOK
<1>7. Passes(f, None)
  BY <1>2, Carried
<1> QED
  BY <1>3, <1>5, <1>6, <1>7, OneElement

LEMMA WalkOnKeeps ==
  ASSUME IInv, WalkOn
  PROVE  IInv'
<1>1. stack # <<>> /\ TypeOK /\ Placed(kids, born)
  BY DEF WalkOn, Doing, IInv
<1>2. PICK f \in Frames, o \in Seq(Frames) :
        /\ f = Head(stack) /\ o = Tail(stack) /\ FrameFits(f)
        /\ ToSet(stack) = {f} \cup ToSet(o) /\ Tidy(o)
        /\ \A h \in ToSet(o) : h \in Frames /\ FrameFits(h) /\ ~Long(h)
  BY <1>1, OnTop
<1>3. PICK x, rest : x = Head(f.todo) /\ rest = Tail(f.todo)
  OBVIOUS
<1>4. PICK todo : todo = (IF x \in Holder THEN kids[x] ELSE <<>>) \o rest
  OBVIOUS
<1>5. PICK g : g = [f EXCEPT !.todo = todo]
  OBVIOUS
<1>6. /\ f.kind = "walk" /\ f.todo # <<>>
      /\ IF x \in Custom /\ rec[x].status = "none"
         THEN Begin(x, <<g>> \o o)
         ELSE stack' = <<g>> \o o /\ UNCHANGED <<rec, told>>
      /\ UNCHANGED <<kids, attr, born, defined, queue, calls, disturbed>>
  BY <1>2, <1>3, <1>4, <1>5 DEF WalkOn, Doing, Frame, Outer, page
<1> DEFINE A == Custom \cup Holder
<1>7. /\ f.todo \in Seq(A) /\ ToSet(f.todo) \subseteq born \cup Holder
  BY <1>2, <1>6, FrameTyped DEF FrameFits
<1>8. /\ x \in A /\ rest \in Seq(A) /\ ToSet(f.todo) = {x} \cup ToSet(rest)
  BY <1>3, <1>6, <1>7, TakeOff
<1>9. \A p \in Holder : kids[p] \in Seq(A) /\ ToSet(kids[p]) \subseteq born \cup Holder
  BY <1>1, Apart DEF Placed, Things
<1> HIDE DEF A
<1>10. /\ todo \in Seq(A) /\ ToSet(rest) \subseteq ToSet(todo) /\ ToSet(todo) \subseteq born \cup Holder
       /\ x \in Holder => ToSet(kids[x]) \subseteq ToSet(todo)
  <2>1. CASE x \in Holder
    <3>1. todo = kids[x] \o rest
      BY <1>4, <2>1
    <3>2. todo \in Seq(A) /\ ToSet(todo) = ToSet(kids[x]) \cup ToSet(rest)
      BY <1>8, <1>9, <2>1, <3>1, Joined
    <3> QED
      BY <1>7, <1>8, <1>9, <2>1, <3>2
  <2>2. CASE x \notin Holder
    <3>1. todo = rest
      BY <1>4, <1>8, <2>2
    <3> QED
      BY <1>7, <1>8, <2>2, <3>1
  <2> QED
    BY <2>1, <2>2
<1>11. g = [kind |-> "walk", todo |-> todo] /\ g.kind = "walk" /\ g.todo = todo
  <2>1. f = [kind |-> "walk", todo |-> f.todo]
    BY <1>2, <1>6 DEF Frames
  <2>2. g = [kind |-> "walk", todo |-> todo]
    BY <1>5, <2>1
  <2> QED
    BY <2>2
<1>12. g \in Frames
  BY <1>10, <1>11 DEF Frames, A
<1>13. FrameFits(g)
  BY <1>10, <1>11 DEF FrameFits
<1>14. ASSUME NEW m \in Custom, Reaches(f.todo, m), m # x PROVE Reaches(g.todo, m)
  <2>1. CASE m \in ToSet(f.todo)
    BY <1>8, <1>10, <1>11, <1>14, <2>1 DEF Reaches
  <2>2. ASSUME NEW p \in Holder, m \in ToSet(kids[p]), p \in ToSet(f.todo) PROVE Reaches(g.todo, m)
    <3>1. m \in ToSet(todo) \/ p \in ToSet(todo)
      BY <1>8, <1>10, <2>2
    <3> QED
      BY <1>11, <2>2, <3>1 DEF Reaches
  <2>3. CASE m \in ToSet(kids[Box]) /\ Box \in ToSet(kids[Body]) /\ Body \in ToSet(f.todo)
    <3>1. Box \in ToSet(todo) \/ Body \in ToSet(todo)
      BY <1>8, <1>10, <2>3, Apart
    <3> QED
      BY <1>11, <2>3, <3>1, Apart DEF Reaches
  <2> QED
    BY <1>14, <2>1, <2>2, <2>3 DEF Reaches
<1>15. CASE x \in Custom /\ rec[x].status = "none"
  <2>1. Carries(f, g, x)
    BY <1>6, <1>11, <1>12, <1>13, <1>14 DEF Carries
  <2>2. x \in born
    BY <1>7, <1>8, <1>15, Apart DEF Things
  <2>3. queue[x] = <<>>
    BY <1>15 DEF IInv, ElementFits, Calm, View
  <2>4. queue' \in [Custom -> Seq(Reactions)]
    BY <1>1, <1>6 DEF TypeOK
  <2>5. Begin(x, <<g>> \o o) /\ queue'[x] = <<>> /\ \A m \in Custom \ {x} : queue'[m] = queue[m]
    BY <1>6, <1>15, <2>3
  <2> QED
    BY <1>2, <1>6, <1>15, <2>1, <2>2, <2>4, <2>5, BeginKeeps
<1>16. CASE ~(x \in Custom /\ rec[x].status = "none")
  <2>1. Carries(f, g, None)
    BY <1>6, <1>11, <1>12, <1>13, <1>14, <1>16 DEF Carries
  <2> QED
    BY <1>2, <1>6, <1>16, <2>1, StepsOn
<1> QED
  BY <1>15, <1>16

Calls == {"connected", "disconnected", "attribute", "moved"}

Hears(n, r) ==
  /\ told' \in [Custom -> State] /\ told'[n] = Leaves(told[n], r)
  /\ \A m \in Custom \ {n} : told'[m] = told[m]

Shows(n, r, below) ==
  \E c \in Frames : c.kind = "callback" /\ c.node = n /\ c.tells = r /\ stack' = <<c>> \o below

\* What is told is what the element knows then.
LEMMA Telling ==
  ASSUME told \in [Custom -> State], NEW n \in Custom, NEW r \in Reactions, r.what \in Calls,
         NEW below, Tells(n, r, below)
  PROVE  Hears(n, r) /\ Shows(n, r, below) /\ rec' = rec
<1>1. PICK t : t = told[n]
  OBVIOUS
<1>2. t \in State
  BY <1>1
<1>3. PICK u : u = CASE r.what = "connected"    -> [t EXCEPT !.connected = TRUE]
                     [] r.what = "disconnected" -> [t EXCEPT !.connected = FALSE]
                     [] r.what = "attribute"    -> [t EXCEPT !.attr = r.new]
                     [] r.what = "moved"        -> t
  OBVIOUS
<1>4. /\ \A b \in BOOLEAN : [t EXCEPT !.connected = b] = [connected |-> b, attr |-> t.attr]
      /\ \A a \in {0, 1} : [t EXCEPT !.attr = a] = [connected |-> t.connected, attr |-> a]
      /\ t = [connected |-> t.connected, attr |-> t.attr]
  BY <1>2 DEF State
<1>5. u = Leaves(t, r)
  <2>1. CASE r.what = "connected"
    <3>1. u = [connected |-> TRUE, attr |-> t.attr]
      BY <1>3, <1>4, <2>1
    <3> QED
      BY <2>1, <3>1 DEF Leaves
  <2>2. CASE r.what = "disconnected"
    <3>1. u = [connected |-> FALSE, attr |-> t.attr]
      BY <1>3, <1>4, <2>2
    <3> QED
      BY <2>2, <3>1 DEF Leaves
  <2>3. CASE r.what = "attribute"
    <3>1. u = [connected |-> t.connected, attr |-> r.new]
      BY <1>3, <1>4, <2>3 DEF Reactions
    <3> QED
      BY <2>3, <3>1 DEF Leaves
  <2>4. CASE r.what = "moved"
    <3>1. u = [connected |-> t.connected, attr |-> t.attr]
      BY <1>3, <1>4, <2>4
    <3> QED
      BY <2>4, <3>1 DEF Leaves
  <2> QED
    BY <2>1, <2>2, <2>3, <2>4 DEF Calls
<1>6. told' = [told EXCEPT ![n] = u]
  BY <1>1, <1>3 DEF Tells
<1>7. u \in State
  BY <1>2, <1>5, LeavesAState
<1>8. PICK c : c = [kind |-> "callback", node |-> n, tells |-> r]
  OBVIOUS
<1>9. c \in Frames /\ c.kind = "callback" /\ c.node = n /\ c.tells = r /\ stack' = <<c>> \o below /\ rec' = rec
  BY <1>8 DEF Frames, Tells
<1>10. Shows(n, r, below)
  BY <1>9 DEF Shows
<1>11. Hears(n, r)
  BY <1>1, <1>5, <1>6, <1>7 DEF Hears
<1> QED
  BY <1>9, <1>10, <1>11

\* Whose reactions are about to be told is custom, and while it settles only
\* its connection is left to be told.
LEMMA NextFits ==
  ASSUME IInv, NEW o \in Seq(Frames), NEW f, f.kind = "reactions", ToSet(stack) = {f} \cup ToSet(o),
         \A h \in ToSet(o) : ~Long(h) /\ h \in Frames /\ FrameFits(h),
         NEW n \in Custom, queue[n] # <<>>, NEW r, r = Head(queue[n]), r.what # "upgrade"
  PROVE  /\ r \in Reactions /\ Tail(queue[n]) \in Seq(Reactions)
         /\ rec[n].status = "custom"
         /\ \A k \in DOMAIN Tail(queue[n]) :
              Tail(queue[n])[k].what # "upgrade" /\ (k + 1 \in DOMAIN queue[n] /\ Tail(queue[n])[k] = queue[n][k + 1])
         /\ r = queue[n][1] /\ 1 \in DOMAIN queue[n]
         /\ n \notin disturbed /\ ~Settling(n) => Allowed(told[n], r)
                                      /\ Story(Leaves(told[n], r), Tail(queue[n]), Now(n))
         /\ n \notin disturbed /\ Settling(n) =>
              /\ ~told[n].connected /\ r.what = "attribute" /\ Allowed(told[n], r)
              /\ \A k \in DOMAIN queue[n] : queue[n][k].what = "attribute"
              /\ Story(Leaves(told[n], r), Tail(queue[n]), [connected |-> FALSE, attr |-> attr[n]])
<1>1. PICK q : q = queue[n]
  OBVIOUS
<1>2. PICK p : p = Tail(queue[n])
  OBVIOUS
<1>3. /\ TypeOK /\ ElementFits(n) /\ told[n] \in State /\ Now(n) \in State /\ attr[n] \in {0, 1}
      /\ q \in Seq(Reactions) /\ q # <<>> /\ rec[n] \in Records
  BY <1>1, ViewTyped DEF IInv, TypeOK
<1>4. /\ r \in Reactions /\ p \in Seq(Reactions) /\ r = q[1] /\ 1 \in DOMAIN q
      /\ DOMAIN p = 1..(Len(q) - 1) /\ DOMAIN q = 1..Len(q) /\ Len(q) \in Nat
      /\ \A k \in 1..(Len(q) - 1) : p[k] = q[k + 1]
  BY <1>1, <1>2, <1>3
<1>5. rec[n].status = "custom"
  <2>1. rec[n].status # "pending"
    <3>1. rec[n].status = "pending" => q = <<Reaction("upgrade")>>
      BY <1>1, <1>3 DEF ElementFits, Calm, View
    <3> QED
      BY <1>4, <3>1 DEF Reaction
  <2>2. rec[n].status \notin {"none", "constructing", "failed"}
    BY <1>1, <1>3 DEF ElementFits, Calm, View
  <2> QED
    BY <1>3, <2>1, <2>2 DEF Records
<1>6. \A k \in DOMAIN q : q[k].what # "upgrade"
  BY <1>1, <1>3, <1>5 DEF ElementFits, Calm, View
<1>7. \A k \in DOMAIN p : k + 1 \in DOMAIN q /\ p[k] = q[k + 1] /\ p[k].what # "upgrade"
  BY <1>4, <1>6
<1>8. ASSUME n \notin disturbed, ~Settling(n)
      PROVE  Allowed(told[n], r) /\ Story(Leaves(told[n], r), p, Now(n))
  <2>1. Story(told[n], q, Now(n))
    BY <1>1, <1>3, <1>5, <1>8 DEF ElementFits
  <2> QED
    BY <1>1, <1>2, <1>3, <2>1, StoryBegins
<1>9. ASSUME n \notin disturbed, Settling(n)
      PROVE  /\ ~told[n].connected /\ r.what = "attribute" /\ Allowed(told[n], r)
             /\ \A k \in DOMAIN q : q[k].what = "attribute"
             /\ Story(Leaves(told[n], r), p, [connected |-> FALSE, attr |-> attr[n]])
  <2>1. PICK h \in ToSet(stack) : h.kind = "settling" /\ h.node = n /\ h.todo # <<>>
    BY <1>9, SettlingFrames
  <2>2. h \in ToSet(o)
    BY <2>1
  <2>3. h.todo = ToConnect
    BY <2>1, <2>2, FrameTyped DEF Long
  <2>4. /\ ~told[n].connected
        /\ \A k \in DOMAIN q : q[k].what = "attribute"
        /\ Story(told[n], q, [connected |-> FALSE, attr |-> attr[n]])
    BY <1>1, <1>9, <2>1, <2>2, <2>3 DEF FrameFits
  <2>5. PICK u : u = [connected |-> FALSE, attr |-> attr[n]]
    OBVIOUS
  <2>6. u \in State
    BY <1>3, <2>5 DEF State
  <2>7. Allowed(told[n], r) /\ Story(Leaves(told[n], r), p, u)
    BY <1>1, <1>2, <1>3, <2>4, <2>5, <2>6, StoryBegins
  <2> QED
    BY <1>4, <2>4, <2>5, <2>7
<1> QED
  BY <1>1, <1>2, <1>4, <1>5, <1>7, <1>8, <1>9

\* The frame g goes on above o, perhaps below a callback.
GoesOn(o, g) ==
  /\ stack' \in Seq(Frames) /\ Tidy(stack') /\ ToSet(o) \subseteq ToSet(stack') /\ g \in ToSet(stack')
  /\ \A h \in ToSet(stack') : h \in ToSet(o) \/ h = g \/ h.kind = "callback"

\* The next reaction of n is told, or there is nothing to tell.
LEMMA NextKeeps ==
  ASSUME IInv, NEW o \in Seq(Frames), NEW f, f.kind = "reactions", ToSet(stack) = {f} \cup ToSet(o),
         \A h \in ToSet(o) : ~Long(h) /\ h \in Frames /\ FrameFits(h),
         NEW n \in Custom, queue[n] # <<>>, NEW r, r = Head(queue[n]), r.what # "upgrade",
         NEW g, Carries(f, g, n), n \in ToSet(g.order),
         GoesOn(o, g), Hears(n, r), UNCHANGED <<kids, attr, born, defined, rec, calls, disturbed>>,
         queue' = [queue EXCEPT ![n] = Tail(@)]
  PROVE  IInv'
<1>0. /\ stack' \in Seq(Frames) /\ Tidy(stack') /\ ToSet(o) \subseteq ToSet(stack') /\ g \in ToSet(stack')
      /\ \A h \in ToSet(stack') : h \in ToSet(o) \/ h = g \/ h.kind = "callback"
      /\ told' \in [Custom -> State] /\ told'[n] = Leaves(told[n], r)
      /\ \A m \in Custom \ {n} : told'[m] = told[m]
  BY DEF GoesOn, Hears
<1>1. /\ r \in Reactions /\ Tail(queue[n]) \in Seq(Reactions)
      /\ rec[n].status = "custom"
      /\ \A k \in DOMAIN Tail(queue[n]) :
           Tail(queue[n])[k].what # "upgrade" /\ (k + 1 \in DOMAIN queue[n] /\ Tail(queue[n])[k] = queue[n][k + 1])
      /\ n \notin disturbed /\ ~Settling(n) => Story(Leaves(told[n], r), Tail(queue[n]), Now(n))
      /\ n \notin disturbed /\ Settling(n) =>
           /\ ~told[n].connected /\ r.what = "attribute"
           /\ \A k \in DOMAIN queue[n] : queue[n][k].what = "attribute"
           /\ Story(Leaves(told[n], r), Tail(queue[n]), [connected |-> FALSE, attr |-> attr[n]])
  BY NextFits
<1>2. PICK p : p = Tail(queue[n])
  OBVIOUS
<1>3. TypeOK /\ ElementFits(n)
  BY DEF IInv
<1>4. /\ queue' \in [Custom -> Seq(Reactions)] /\ queue'[n] = p
      /\ \A m \in Custom \ {n} : queue'[m] = queue[m]
  BY <1>1, <1>2, <1>3 DEF TypeOK
<1>5. Settling(n)' => Settling(n)
  <2>1. Settling(n)' <=> \E h \in ToSet(stack') : h.kind = "settling" /\ h.node = n /\ h.todo # <<>>
    BY DEF Settling, ToSet
  <2>2. g.kind # "settling"
    BY DEF Carries
  <2> QED
    BY <1>0, <2>1, <2>2, SettlingFrames
<1>6. Settling(n) => Settling(n)'
  <2>1. Settling(n)' <=> \E h \in ToSet(stack') : h.kind = "settling" /\ h.node = n /\ h.todo # <<>>
    BY DEF Settling, ToSet
  <2> QED
    BY <1>0, <2>1, SettlingFrames
<1>7. g.kind = "reactions" /\ FrameFits(g)' /\ Passes(f, n)
  BY <1>0, Carried DEF Carries
<1>8. ASSUME NEW h \in ToSet(o) PROVE FrameFits(h)'
  <2>1. h \in Frames /\ FrameFits(h) /\ ~Long(h)
    OBVIOUS
  <2>2. CASE ~OfUpgrade(h) \/ h.node # n
    <3>1. OfUpgrade(h) => h.node \in Custom \ {n}
      BY <2>1, <2>2, FrameTyped DEF OfUpgrade
    <3> QED
      BY <1>0, <1>4, <2>1, <3>1, FramesStay
  <2>3. CASE OfUpgrade(h) /\ h.node = n
    <3>1. h.kind = "settling" /\ h.todo \in {<<>>, ToConnect}
      BY <1>1, <2>1, <2>3, FrameTyped DEF OfUpgrade, FrameFits, Long
    <3>2. ASSUME n \notin disturbed, h.todo = ToConnect
          PROVE  /\ ~told'[n].connected
                 /\ \A k \in DOMAIN p : p[k].what = "attribute"
                 /\ Story(told'[n], p, [connected |-> FALSE, attr |-> attr[n]])
      <4>1. Settling(n)
        BY <2>3, <3>1, <3>2, SettlingFrames, Todos
      <4>2. Story(told'[n], p, [connected |-> FALSE, attr |-> attr[n]])
        BY <1>0, <1>1, <1>2, <3>2, <4>1
      <4>3. \A k \in DOMAIN p : p[k].what = "attribute"
        BY <1>1, <1>2, <3>2, <4>1
      <4>4. told'[n].connected = told[n].connected
        <5>1. told[n] \in State /\ told'[n] = Leaves(told[n], r) /\ r.what = "attribute"
          BY <1>0, <1>1, <1>3, <3>2, <4>1 DEF TypeOK
        <5>2. Leaves(told[n], r) = [connected |-> told[n].connected, attr |-> r.new]
          BY <5>1 DEF Leaves, State
        <5> QED
          BY <5>1, <5>2
      <4> QED
        BY <1>1, <3>2, <4>1, <4>2, <4>3, <4>4
    <3>3. h.todo # ToTell
      BY <3>1, Todos
    <3> QED
      BY <1>1, <1>4, <2>3, <3>1, <3>2, <3>3 DEF FrameFits
  <2> QED
    BY <2>2, <2>3
<1>9. FramesFit(o, n)
  <2>1. \A h \in ToSet(stack') : h.kind = "callback" => FrameFits(h)'
    BY DEF FrameFits
  <2> QED
    BY <1>0, <1>7, <1>8, <2>1 DEF FramesFit
<1>10. Only(n)
  BY <1>0, <1>3, <1>4 DEF Only, TypeOK
<1>11. ElementFits(n)'
  <2>1. Calm(View(n), told[n])'
    BY <1>1, <1>2, <1>4 DEF Calm, View
  <2>2. n \notin disturbed /\ ~Settling(n)' => Story(told'[n], queue'[n], Now(n)')
    BY <1>0, <1>1, <1>2, <1>4, <1>6 DEF Now
  <2>3. n \notin disturbed => (rec'[n].connected <=> Connected(kids, n)')
    BY <1>1, <1>3 DEF ElementFits, Connected
  <2>4. n \in born /\ ~rec[n].moving
    BY <1>1, <1>3 DEF ElementFits
  <2> QED
    BY <1>0, <1>1, <1>7, <2>1, <2>2, <2>3, <2>4 DEF ElementFits
<1> QED
  BY <1>7, <1>9, <1>10, <1>11, OneElement

LEMMA ReactionsOnKeeps ==
  ASSUME IInv, ReactionsOn
  PROVE  IInv'
<1>1. stack # <<>> /\ TypeOK /\ Placed(kids, born)
  BY DEF ReactionsOn, Doing, IInv
<1>2. PICK f \in Frames, o \in Seq(Frames) :
        /\ f = Head(stack) /\ o = Tail(stack) /\ FrameFits(f)
        /\ ToSet(stack) = {f} \cup ToSet(o) /\ Tidy(o)
        /\ \A h \in ToSet(o) : h \in Frames /\ FrameFits(h) /\ ~Long(h)
  BY <1>1, OnTop
<1>3. PICK i \in DOMAIN f.order : 
        LET n     == f.order[i]
            below == <<[f EXCEPT !.order = SubSeq(@, i, Len(@))]>> \o o
            r     == Head(queue[n])
        IN  /\ queue[n] # <<>>
            /\ \A j \in 1..(i - 1) : queue[f.order[j]] = <<>>
            /\ CASE r.what = "upgrade" /\ rec[n].status = "pending" -> Begin(n, below)
                 [] r.what \notin {"upgrade", "nothing"} -> Tells(n, r, below)
                 [] OTHER -> stack' = below /\ UNCHANGED <<rec, told>>
            /\ queue' = [queue EXCEPT ![n] = Tail(@)]
  BY <1>2 DEF ReactionsOn, Frame, Outer
<1>4. f.kind = "reactions" /\ UNCHANGED <<kids, attr, born, defined, calls, disturbed>>
  BY <1>2 DEF ReactionsOn, Doing, page
<1>5. PICK s : s = f.order
  OBVIOUS
<1>6. s \in Seq(Custom) /\ Len(s) \in Nat /\ DOMAIN s = 1..Len(s) /\ i \in 1..Len(s)
  BY <1>2, <1>3, <1>4, <1>5, FrameTyped
<1>7. PICK rest : rest = SubSeq(s, i, Len(s))
  OBVIOUS
<1>8. PICK g : g = [f EXCEPT !.order = rest]
  OBVIOUS
<1>9. PICK n \in Custom : n = s[i]
  BY <1>6
<1>10. PICK r : r = Head(queue[n])
  OBVIOUS
<1>11. /\ queue[n] # <<>>
       /\ \A j \in 1..(i - 1) : queue[s[j]] = <<>>
       /\ CASE r.what = "upgrade" /\ rec[n].status = "pending" -> Begin(n, <<g>> \o o)
            [] r.what \notin {"upgrade", "nothing"} -> Tells(n, r, <<g>> \o o)
            [] OTHER -> stack' = <<g>> \o o /\ UNCHANGED <<rec, told>>
       /\ queue' = [queue EXCEPT ![n] = Tail(@)]
  BY <1>3, <1>5, <1>7, <1>8, <1>9, <1>10
<1>12. /\ rest \in Seq(Custom) /\ DOMAIN rest = 1..(Len(s) - (i - 1))
       /\ \A k \in 1..(Len(s) - (i - 1)) : rest[k] = s[k + (i - 1)]
  <2>1. i - 1 \in 0..Len(s) /\ (i - 1) + 1 = i
    BY <1>6
  <2>2. LET y == SubSeq(s, (i - 1) + 1, Len(s))
        IN  y \in Seq(Custom) /\ Len(y) = Len(s) - (i - 1) /\ \A k \in 1..(Len(s) - (i - 1)) : y[k] = s[k + (i - 1)]
    BY <1>6, <2>1, From
  <2>3. rest \in Seq(Custom) /\ Len(rest) = Len(s) - (i - 1) /\ \A k \in 1..(Len(s) - (i - 1)) : rest[k] = s[k + (i - 1)]
    BY <1>7, <2>1, <2>2
  <2> QED
    BY <2>3
<1>13. /\ n \in ToSet(rest)
       /\ \A m \in ToSet(s) : queue[m] # <<>> => m \in ToSet(rest)
  <2>1. ASSUME NEW j \in i..Len(s) PROVE s[j] \in ToSet(rest)
    <3>1. j - (i - 1) \in 1..(Len(s) - (i - 1)) /\ (j - (i - 1)) + (i - 1) = j
      BY <1>6, <2>1
    <3>2. rest[j - (i - 1)] = s[j]
      BY <1>12, <3>1
    <3> QED
      BY <1>12, <3>1, <3>2 DEF ToSet
  <2>2. n \in ToSet(rest)
    BY <1>6, <1>9, <2>1
  <2>3. ASSUME NEW m \in ToSet(s), queue[m] # <<>> PROVE m \in ToSet(rest)
    <3>1. PICK j \in 1..Len(s) : s[j] = m
      BY <1>6 DEF ToSet
    <3>2. j \notin 1..(i - 1)
      BY <1>11, <2>3, <3>1
    <3>3. j \in i..Len(s)
      BY <1>6, <3>2
    <3> QED
      BY <2>1, <3>1, <3>3
  <2> QED
    BY <2>2, <2>3
<1>14. g = [kind |-> "reactions", order |-> rest] /\ g.kind = "reactions" /\ g.order = rest
  <2>1. f = [kind |-> "reactions", order |-> f.order]
    BY <1>2, <1>4 DEF Frames
  <2>2. g = [kind |-> "reactions", order |-> rest]
    BY <1>8, <2>1
  <2> QED
    BY <2>2
<1>15. g \in Frames
  BY <1>12, <1>14 DEF Frames
<1>16. FrameFits(g) /\ ~OfUpgrade(g) /\ ~Long(g)
  BY <1>14 DEF FrameFits, OfUpgrade, Long
<1>17. Carries(f, g, n)
  BY <1>4, <1>5, <1>13, <1>14, <1>15, <1>16 DEF Carries
<1>18. \A h \in ToSet(o) : ~Long(h) /\ h \in Frames /\ FrameFits(h)
  BY <1>2
<1>19. PICK t : t = <<g>> \o o
  OBVIOUS
<1>20. t \in Seq(Frames) /\ Tidy(t) /\ ToSet(t) = {g} \cup ToSet(o)
  BY <1>2, <1>15, <1>16, <1>19, Tops
<1>21. CASE r.what = "upgrade"
  <2>1. rec[n].status = "pending" /\ queue[n] = <<Reaction("upgrade")>> /\ n \in born
    <3>1. ElementFits(n) /\ rec[n] \in Records /\ queue[n] \in Seq(Reactions)
      BY <1>1 DEF IInv, TypeOK
    <3>2. 1 \in DOMAIN queue[n] /\ queue[n][1].what = "upgrade"
      BY <1>10, <1>11, <1>21, <3>1
    <3>3. rec[n].status # "custom"
      BY <3>1, <3>2 DEF ElementFits, Calm, View
    <3>4. rec[n].status \notin {"none", "constructing", "failed"}
      BY <1>11, <3>1 DEF ElementFits, Calm, View
    <3>5. rec[n].status = "pending"
      BY <3>1, <3>3, <3>4 DEF Records
    <3> QED
      BY <3>1, <3>5 DEF ElementFits, Calm, View
  <2>2. Begin(n, <<g>> \o o)
    BY <1>11, <1>21, <2>1
  <2>3. Tail(queue[n]) = <<>>
    BY <2>1
  <2>4. /\ queue' \in [Custom -> Seq(Reactions)] /\ queue'[n] = <<>>
        /\ \A m \in Custom \ {n} : queue'[m] = queue[m]
    BY <1>1, <1>11, <2>3 DEF TypeOK
  <2> QED
    BY <1>2, <1>4, <1>17, <1>18, <2>1, <2>2, <2>4, BeginKeeps
<1>22. CASE r.what = "nothing"
  <2>1. stack' = t /\ UNCHANGED <<rec, told>>
    BY <1>11, <1>19, <1>22
  <2>2. GoesOn(o, g)
    BY <1>20, <2>1 DEF GoesOn
  <2>3. r \in Reactions /\ told[n] \in State /\ told \in [Custom -> State]
    BY <1>1, <1>10, <1>11 DEF TypeOK
  <2>4. Hears(n, r)
    BY <1>22, <2>1, <2>3, LeavesAState DEF Hears
  <2>5. n \in ToSet(g.order) /\ r.what # "upgrade"
    BY <1>13, <1>14, <1>22
  <2> QED
    BY <1>2, <1>4, <1>10, <1>11, <1>17, <1>18, <2>1, <2>2, <2>4, <2>5, NextKeeps
<1>23. CASE r.what \notin {"upgrade", "nothing"}
  <2>1. r \in Reactions /\ told \in [Custom -> State]
    BY <1>1, <1>10, <1>11 DEF TypeOK
  <2>2. r.what \in Calls
    BY <1>23, <2>1 DEF Reactions, Words, Calls
  <2>3. Tells(n, r, t)
    BY <1>11, <1>19, <1>23
  <2>4. Hears(n, r) /\ Shows(n, r, t) /\ rec' = rec
    BY <2>1, <2>2, <2>3, Telling
  <2>5. PICK c \in Frames : c.kind = "callback" /\ stack' = <<c>> \o t
    BY <2>4 DEF Shows
  <2>7. ~OfUpgrade(c) /\ \A h \in ToSet(t) : ~Long(h)
    BY <1>2, <1>16, <1>20, <2>5 DEF OfUpgrade
  <2>8. stack' \in Seq(Frames) /\ Tidy(stack') /\ ToSet(stack') = {c} \cup ToSet(t)
    BY <1>20, <2>5, <2>7, Tops
  <2>9. GoesOn(o, g)
    BY <1>20, <2>5, <2>8 DEF GoesOn
  <2>10. n \in ToSet(g.order) /\ r.what # "upgrade"
    BY <1>13, <1>14, <1>23
  <2> QED
    BY <1>2, <1>4, <1>10, <1>11, <1>17, <1>18, <2>4, <2>8, <2>9, <2>10, NextKeeps
<1> QED
  BY <1>21, <1>22, <1>23

LEMMA SettleOnKeeps ==
  ASSUME IInv, SettleOn
  PROVE  IInv'
<1>1. stack # <<>> /\ TypeOK /\ Placed(kids, born)
  BY DEF SettleOn, Doing, IInv
<1>2. PICK f \in Frames, o \in Seq(Frames) :
        /\ f = Head(stack) /\ o = Tail(stack) /\ FrameFits(f)
        /\ ToSet(stack) = {f} \cup ToSet(o) /\ Tidy(o)
        /\ \A h \in ToSet(o) : /\ h \in Frames /\ FrameFits(h) /\ ~Long(h)
                               /\ OfUpgrade(f) /\ OfUpgrade(h) => h.node # f.node
  BY <1>1, OnTop
<1>3. PICK n, r, todo : n = f.node /\ r = Head(f.todo) /\ todo = Tail(f.todo)
  OBVIOUS
<1>4. PICK g : g = [f EXCEPT !.todo = todo]
  OBVIOUS
<1>5. /\ f.kind = "settling" /\ f.todo # <<>>
      /\ IF r.what = "connected" /\ ~rec[n].connected
         THEN stack' = <<g>> \o o /\ UNCHANGED <<rec, told>>
         ELSE Tells(n, r, <<g>> \o o)
      /\ UNCHANGED <<kids, attr, born, defined, queue, calls, disturbed>>
  BY <1>2, <1>3, <1>4 DEF SettleOn, Doing, Frame, Outer, page
<1>6. n \in Custom /\ f.todo \in {ToConnect, ToTell} /\ rec[n].status = "custom" /\ OfUpgrade(f)
  BY <1>2, <1>3, <1>5, FrameTyped DEF FrameFits, OfUpgrade
<1>7. /\ f.todo = ToConnect => r = Reaction("connected") /\ todo = <<>>
      /\ f.todo = ToTell => r = Changed(0, 1) /\ todo = ToConnect
  BY <1>3, Todos
<1>8. g = [kind |-> "settling", node |-> n, todo |-> todo] /\ g.kind = "settling" /\ g.node = n /\ g.todo = todo
  <2>1. f = [kind |-> "settling", node |-> f.node, todo |-> f.todo]
    BY <1>2, <1>5 DEF Frames
  <2>2. g = [kind |-> "settling", node |-> f.node, todo |-> todo]
    BY <1>4, <2>1
  <2>3. n = f.node
    BY <1>3
  <2> QED
    BY <2>2, <2>3
<1>9. g \in Frames /\ OfUpgrade(g) /\ ~Long(g)
  <2>1. todo \in {<<>>, ToConnect}
    BY <1>6, <1>7
  <2>2. todo # ToTell
    BY <2>1, Todos
  <2> QED
    BY <1>6, <1>8, <2>1, <2>2 DEF Frames, OfUpgrade, Long
<1>10. PICK t : t = <<g>> \o o
  OBVIOUS
<1>11. t \in Seq(Frames) /\ Tidy(t) /\ ToSet(t) = {g} \cup ToSet(o)
  <2>1. \A h \in ToSet(o) : ~Long(h) /\ (OfUpgrade(g) /\ OfUpgrade(h) => h.node # g.node)
    BY <1>2, <1>3, <1>6, <1>8
  <2> QED
    BY <1>2, <1>9, <1>10, <2>1, Tops
<1>12. /\ ElementFits(n) /\ told \in [Custom -> State] /\ told[n] \in State /\ Now(n) \in State
       /\ attr[n] \in {0, 1} /\ queue[n] \in Seq(Reactions) /\ rec[n] \in Records
  BY <1>1, <1>6, ViewTyped DEF IInv, TypeOK
<1>13. r \in Reactions /\ r.what \in Calls
  BY <1>6, <1>7, SomeReactions DEF Calls, Words
<1>14. /\ stack' \in Seq(Frames) /\ Tidy(stack') /\ ToSet(o) \subseteq ToSet(stack') /\ g \in ToSet(stack')
       /\ \A h \in ToSet(stack') : h \in ToSet(o) \/ h = g \/ h.kind = "callback"
       /\ rec' = rec /\ told' \in [Custom -> State] /\ \A m \in Custom \ {n} : told'[m] = told[m]
       /\ IF r.what = "connected" /\ ~rec[n].connected THEN told' = told ELSE told'[n] = Leaves(told[n], r)
  <2>1. CASE r.what = "connected" /\ ~rec[n].connected
    BY <1>5, <1>10, <1>11, <1>12, <2>1
  <2>2. CASE ~(r.what = "connected" /\ ~rec[n].connected)
    <3>1. Tells(n, r, t)
      BY <1>5, <1>10, <2>2
    <3>0. told \in [Custom -> State] /\ n \in Custom /\ r \in Reactions /\ r.what \in Calls
      BY <1>6, <1>12, <1>13
    <3>2. Hears(n, r) /\ Shows(n, r, t) /\ rec' = rec
      BY <3>0, <3>1, Telling
    <3>3. PICK c \in Frames : c.kind = "callback" /\ stack' = <<c>> \o t
      BY <3>2 DEF Shows
    <3>4. ~OfUpgrade(c) /\ \A h \in ToSet(t) : ~Long(h)
      BY <1>2, <1>9, <1>11, <3>3 DEF OfUpgrade
    <3>5. stack' \in Seq(Frames) /\ Tidy(stack') /\ ToSet(stack') = {c} \cup ToSet(t)
      BY <1>11, <3>3, <3>4, Tops
    <3>6. /\ ToSet(o) \subseteq ToSet(stack') /\ g \in ToSet(stack')
          /\ \A h \in ToSet(stack') : h \in ToSet(o) \/ h = g \/ h.kind = "callback"
      BY <1>11, <3>3, <3>5
    <3> QED
      BY <2>2, <3>2, <3>5, <3>6 DEF Hears
  <2> QED
    BY <2>1, <2>2
<1>15. \A h \in ToSet(o) : OfUpgrade(h) => h.node # n
  BY <1>2, <1>3, <1>6
<1>16. Settling(n)' <=> todo # <<>>
  <2>1. Settling(n)' <=> \E h \in ToSet(stack') : h.kind = "settling" /\ h.node = n /\ h.todo # <<>>
    BY DEF Settling, ToSet
  <2> QED
    BY <1>8, <1>14, <1>15, <2>1 DEF OfUpgrade
<1>17. Only(n)
  BY <1>1, <1>5, <1>14 DEF Only, TypeOK
<1>18. Passes(f, n)
  BY <1>3, <1>5 DEF Passes
<1>19. /\ Calm(View(n), told[n])' /\ ~rec'[n].moving /\ n \in born
       /\ (n \notin disturbed => (rec'[n].connected <=> Connected(kids, n)'))
       /\ queue'[n] # <<>> => \E h \in ToSet(stack') : h.kind = "reactions" /\ n \in ToSet(h.order)
  <2>1. Calm(View(n), told[n])'
    BY <1>5, <1>6, <1>12, <1>14 DEF ElementFits, Calm, View
  <2>2. ~rec'[n].moving /\ n \in born
    BY <1>6, <1>12, <1>14 DEF ElementFits
  <2>3. n \notin disturbed => (rec'[n].connected <=> Connected(kids, n)')
    BY <1>5, <1>6, <1>12, <1>14 DEF ElementFits, Connected
  <2>4. queue'[n] # <<>> => \E h \in ToSet(o) : h.kind = "reactions" /\ n \in ToSet(h.order)
    BY <1>2, <1>5, <1>12 DEF ElementFits
  <2> QED
    BY <1>14, <2>1, <2>2, <2>3, <2>4
<1>20. CASE f.todo = ToTell
  <2>1. r = Changed(0, 1) /\ todo = ToConnect /\ r.what = "attribute" /\ r.new = 1
    BY <1>7, <1>20 DEF Changed
  <2>2. told'[n] = [connected |-> told[n].connected, attr |-> 1]
    BY <1>12, <1>14, <2>1 DEF Leaves, State
  <2>3. ASSUME n \notin disturbed
        PROVE  /\ ~told'[n].connected /\ queue'[n] = <<>>
               /\ Story(told'[n], queue'[n], [connected |-> FALSE, attr |-> attr[n]])
    <3>1. told[n] = Silent /\ queue[n] = <<>> /\ attr[n] = 1
      BY <1>2, <1>3, <1>5, <1>20, <2>3 DEF FrameFits
    <3>2. PICK u : u = [connected |-> FALSE, attr |-> 1]
      OBVIOUS
    <3>3. u \in State /\ told'[n] = u /\ ~u.connected
      BY <2>2, <3>1, <3>2 DEF Silent, State
    <3>4. Story(u, <<>>, u)
      BY <3>3, StoryEnds
    <3> QED
      BY <1>5, <3>1, <3>2, <3>3, <3>4
  <2>4. FrameFits(g)'
    <3>1. todo # ToTell /\ rec'[n].status = "custom"
      BY <1>6, <1>14, <2>1, Todos
    <3>2. n \notin disturbed =>
            /\ ~told'[n].connected /\ \A k \in DOMAIN queue'[n] : queue'[n][k].what = "attribute"
            /\ Story(told'[n], queue'[n], [connected |-> FALSE, attr |-> attr[n]])
      BY <2>3
    <3> QED
      BY <1>5, <1>8, <3>1, <3>2 DEF FrameFits
  <2>5. FramesFit(o, n)
    <3>1. \A h \in ToSet(stack') : h.kind = "callback" => FrameFits(h)'
      BY DEF FrameFits
    <3> QED
      BY <1>14, <1>15, <2>4, <3>1 DEF FramesFit
  <2>6. Settling(n)'
    BY <1>16, <2>1, Todos
  <2>7. ElementFits(n)'
    BY <1>5, <1>6, <1>14, <1>19, <2>6 DEF ElementFits
  <2> QED
    BY <1>2, <1>17, <1>18, <2>5, <2>7, OneElement
<1>21. CASE f.todo = ToConnect
  <2>1. r = Reaction("connected") /\ todo = <<>> /\ r.what = "connected"
    BY <1>7, <1>21 DEF Reaction
  <2>2. ASSUME n \notin disturbed
        PROVE  Story(told'[n], queue'[n], Now(n)')
    <3>1. /\ ~told[n].connected
          /\ \A k \in DOMAIN queue[n] : queue[n][k].what = "attribute"
          /\ Story(told[n], queue[n], [connected |-> FALSE, attr |-> attr[n]])
      BY <1>2, <1>3, <1>5, <1>21, <2>2 DEF FrameFits
    <3>2. Now(n)' = Now(n)
      BY <1>5, <1>14 DEF Now
    <3>3. PICK u : u = [connected |-> FALSE, attr |-> attr[n]]
      OBVIOUS
    <3>4. u \in State /\ u.attr = attr[n]
      BY <1>12, <3>3 DEF State
    <3>5. CASE rec[n].connected
      <4>1. PICK yes \in BOOLEAN : yes = TRUE
        OBVIOUS
      <4>2. Story([connected |-> yes, attr |-> told[n].attr], queue[n], [connected |-> yes, attr |-> u.attr])
        BY <1>12, <3>1, <3>3, <3>4, StoryElsewhere
      <4>3. told'[n] = [connected |-> yes, attr |-> told[n].attr]
        BY <1>12, <1>14, <2>1, <3>5, <4>1 DEF Leaves
      <4>4. Now(n) = [connected |-> yes, attr |-> u.attr]
        BY <1>12, <3>4, <3>5, <4>1 DEF Now, Records
      <4> QED
        BY <1>5, <3>2, <4>2, <4>3, <4>4
    <3>6. CASE ~rec[n].connected
      <4>1. told' = told
        BY <1>14, <2>1, <3>6
      <4>2. Now(n) = [connected |-> FALSE, attr |-> attr[n]]
        BY <1>12, <3>6 DEF Now, Records
      <4> QED
        BY <1>5, <3>1, <3>2, <4>1, <4>2
    <3> QED
      BY <3>5, <3>6
  <2>3. FrameFits(g)'
    <3>1. todo # ToTell /\ todo # ToConnect /\ rec'[n].status = "custom"
      BY <1>6, <1>14, <2>1, Todos
    <3> QED
      BY <1>8, <3>1 DEF FrameFits
  <2>4. FramesFit(o, n)
    <3>1. \A h \in ToSet(stack') : h.kind = "callback" => FrameFits(h)'
      BY DEF FrameFits
    <3> QED
      BY <1>14, <1>15, <2>3, <3>1 DEF FramesFit
  <2>5. ElementFits(n)'
    BY <1>5, <1>6, <1>14, <1>19, <2>2 DEF ElementFits
  <2> QED
    BY <1>2, <1>17, <1>18, <2>4, <2>5, OneElement
<1> QED
  BY <1>6, <1>20, <1>21

-----------------------------------------------------------------------------
(* The theorems.                                                            *)

LEMMA Initially ==
  ASSUME CustomElementsInit
  PROVE  IInv
<1>1. /\ defined \in BOOLEAN
      /\ kids = [p \in Holder |-> IF p = Box THEN Start ELSE IF defined THEN <<>> ELSE <<Box>>]
      /\ attr = [n \in Custom |-> IF n \in Marked THEN 1 ELSE 0]
      /\ born = Waiting
      /\ rec = [n \in Custom |-> [status |-> "none", connected |-> FALSE, moving |-> FALSE]]
      /\ queue = [n \in Custom |-> <<>>] /\ stack = <<>> /\ calls = 0
      /\ told = [n \in Custom |-> [connected |-> FALSE, attr |-> 0]] /\ disturbed = {}
  BY DEF CustomElementsInit
<1>2. /\ Start \in Seq(Custom) /\ IsInjective(Start) /\ Marked \subseteq Waiting
      /\ Waiting = ToSet(Start) /\ Waiting \subseteq Custom
  <2>1. Start \in Seq(Custom) /\ IsInjective(Start) /\ Marked \subseteq Waiting
    BY CustomElementsAssumption
  <2> QED
    BY <2>1 DEF Waiting, ToSet
<1>3. PICK no \in Records : no = [status |-> "none", connected |-> FALSE, moving |-> FALSE]
  BY DEF Records
<1>4. no.status = "none" /\ ~no.connected /\ ~no.moving
  BY <1>3
<1>5. Silent \in State /\ Silent = [connected |-> FALSE, attr |-> 0]
  BY DEF Silent, State
<1>6. \A n \in Custom : /\ rec[n] = no /\ queue[n] = <<>> /\ told[n] = Silent
                        /\ n \notin born => attr[n] = 0
  BY <1>1, <1>2, <1>3, <1>5
<1>7. TypeOK
  <2>1. attr \in [Custom -> {0, 1}] /\ rec \in [Custom -> Records] /\ told \in [Custom -> State]
    BY <1>1, <1>3, <1>5
  <2>2. queue \in [Custom -> Seq(Reactions)] /\ stack \in Seq(Frames)
    BY <1>1
  <2> QED
    BY <1>1, <1>2, <2>1, <2>2 DEF TypeOK
<1>8. Tidy(stack) /\ ToSet(stack) = {}
  BY <1>1 DEF Tidy, ToSet
<1>9. Placed(kids, born)
  <2>1. <<Box>> \in Seq(Things) /\ IsInjective(<<Box>>) /\ ToSet(<<Box>>) = {Box}
    BY DEF IsInjective, ToSet, Things
  <2>2. <<>> \in Seq(Things) /\ IsInjective(<<>>) /\ ToSet(<<>>) = {}
    BY DEF IsInjective, ToSet
  <2>3. kids[Box] = Start /\ kids[Body] \in {<<>>, <<Box>>} /\ DOMAIN kids = Holder
    BY <1>1, Apart
  <2>4. Start \in Seq(Things)
    BY <1>2 DEF Things
  <2>5. kids \in [Holder -> Seq(Things)]
    BY <1>1, <2>1, <2>2, <2>4
  <2> QED
    BY <1>1, <1>2, <2>1, <2>2, <2>3, <2>5, Apart DEF Placed
<1>10. ASSUME NEW n \in Custom PROVE ElementFits(n)
  <2>1. Calm(View(n), told[n]) /\ ~rec[n].moving
    BY <1>4, <1>6 DEF Calm, View
  <2>2. n \in born /\ defined => ~Connected(kids, n)
    <3>1. ASSUME defined PROVE kids[Body] = <<>>
      BY <1>1, <3>1, Apart
    <3>2. ToSet(<<>>) = {}
      BY DEF ToSet
    <3> QED
      BY <3>1, <3>2, ConnectedWhere
  <2> QED
    BY <1>4, <1>6, <2>1, <2>2 DEF ElementFits
<1> QED
  BY <1>7, <1>8, <1>9, <1>10 DEF IInv

LEMMA Stutters ==
  ASSUME IInv, UNCHANGED elements
  PROVE  IInv'
<1>1. UNCHANGED <<kids, attr, born, defined, rec, queue, stack, calls, told, disturbed>>
  BY DEF elements, page
<1>2. TypeOK' /\ Placed(kids, born)' /\ Tidy(stack)'
  BY <1>1 DEF IInv, TypeOK, Placed, Tidy, OfUpgrade, Long
<1>3. \A f \in ToSet(stack') : FrameFits(f)'
  BY <1>1 DEF IInv, FrameFits
<1>4. ASSUME NEW n \in Custom PROVE ElementFits(n)'
  <2>1. n \in born /\ defined /\ rec[n].status = "none" /\ Connected(kids, n) =>
          \E f \in ToSet(stack) : f.kind = "walk" /\ Reaches(f.todo, n)
    BY WalkedFor
  <2> QED
    BY <1>1, <2>1, OthersStay
<1> QED
  BY <1>2, <1>3, <1>4 DEF IInv

LEMMA EveryStepKeeps ==
  ASSUME IInv, [Script \/ Engine]_elements
  PROVE  IInv'
<1>1. ASSUME NEW p \in Holder, NEW n \in Custom \cup {Box}, AppendChild(p, n) PROVE IInv'
  BY <1>1, AppendChildKeeps
<1>2. ASSUME NEW p \in Holder, NEW n \in Custom \cup {Box}, MoveBefore(p, n) PROVE IInv'
  BY <1>2, MoveBeforeKeeps
<1>3. ASSUME NEW n \in Custom \cup {Box}, RemoveChild(n) PROVE IInv'
  BY <1>3, RemoveChildKeeps
<1>4. ASSUME NEW n \in Custom, SetInnerHTML(n) PROVE IInv'
  BY <1>4, SetInnerHTMLKeeps
<1>5. ASSUME NEW n \in Custom, ToggleAttribute(n) PROVE IInv'
  BY <1>5, ToggleAttributeKeeps
<1>6. ASSUME NEW n \in Custom, MakeElement(n) PROVE IInv'
  BY <1>6, MakeElementKeeps
<1>7. Define \/ Upgrade(Box) \/ CreateElement \/ TakeElement => IInv'
  BY DefineKeeps, UpgradeKeeps, CreateElementKeeps, TakeElementKeeps
<1>8. Engine => IInv'
  BY WalkOnKeeps, ReactionsOnKeeps, SettleOnKeeps, OverKeeps, ConstructorReturnsKeeps, ConstructorFailsKeeps
     DEF Engine
<1>9. Script => IInv'
  BY <1>1, <1>2, <1>3, <1>4, <1>5, <1>6, <1>7 DEF Script
<1> QED
  BY <1>8, <1>9, Stutters

\* Every element's record, queue and frames fit together, whatever script does
\* in its callbacks and constructors (custom_elements.js).
THEOREM ElementsFit == CustomElementsSpec => []IInv
<1>1. CustomElementsInit => IInv
  BY Initially
<1>2. IInv /\ [Script \/ Engine]_elements => IInv'
  BY EveryStepKeeps
<1> QED
  BY <1>1, <1>2, PTL DEF CustomElementsSpec

LEMMA AtRest ==
  ASSUME IInv
  PROVE  EverythingIsTold
<1> SUFFICES ASSUME stack = <<>>, NEW n \in born
             PROVE  /\ queue[n] = <<>> /\ ~rec[n].moving
                    /\ rec[n].status \notin {"pending", "constructing"}
                    /\ defined /\ Connected(kids, n) => rec[n].status # "none"
                    /\ rec[n].status = "custom" /\ n \notin disturbed =>
                         told[n] = [connected |-> Connected(kids, n), attr |-> attr[n]]
  BY DEF EverythingIsTold
<1>1. n \in Custom /\ ElementFits(n) /\ TypeOK
  BY DEF IInv, TypeOK
<1>2. ToSet(stack) = {}
  BY DEF ToSet
<1>3. queue[n] = <<>> /\ ~rec[n].moving /\ rec[n].status # "constructing"
  BY <1>1, <1>2 DEF ElementFits
<1>4. rec[n].status # "pending"
  BY <1>1, <1>3 DEF ElementFits, Calm, View
<1>5. defined /\ Connected(kids, n) => rec[n].status # "none"
  BY <1>1, <1>2 DEF ElementFits
<1>6. ASSUME rec[n].status = "custom", n \notin disturbed
      PROVE  told[n] = [connected |-> Connected(kids, n), attr |-> attr[n]]
  <2>1. told[n] \in State /\ Now(n) \in State
    BY <1>1, ViewTyped
  <2>2. ~Settling(n)
    BY <1>2, SettlingFrames
  <2>3. Story(told[n], <<>>, Now(n))
    BY <1>1, <1>3, <1>6, <2>2 DEF ElementFits
  <2>4. told[n] = Now(n)
    BY <2>1, <2>3, StoryEnds
  <2>5. rec[n].connected = Connected(kids, n)
    <3>1. rec[n].connected <=> Connected(kids, n)
      BY <1>1, <1>6 DEF ElementFits
    <3>2. rec[n].connected \in BOOLEAN /\ Connected(kids, n) \in BOOLEAN
      BY <1>1, ConnectedWhere DEF TypeOK, Records
    <3> QED
      BY <3>1, <3>2
  <2> QED
    BY <2>4, <2>5 DEF Now
<1> QED
  BY <1>3, <1>4, <1>5, <1>6

\* When script comes to rest nothing waits, no candidate in the page was
\* forgotten, and every element was told where it is and what its attribute is
\* (custom_elements.js).
THEOREM EverythingIsToldAlways == CustomElementsSpec => []EverythingIsTold
BY ElementsFit, AtRest, PTL

\* A step that is not the engine's telling starts no callback.
LEMMA OnlyTelling ==
  ASSUME IInv, [Script \/ Engine]_elements, ~ReactionsOn, ~SettleOn
  PROVE  Len(stack') > Len(stack) => Head(stack').kind # "callback"
<1>1. stack \in Seq(Frames) /\ Len(stack) \in Nat
  BY DEF IInv, TypeOK
<1>2. ASSUME NEW g, g.kind # "callback", stack' = <<g>> \o stack
      PROVE  Head(stack').kind # "callback"
  <2>1. Head(stack') = g
    BY <1>1, <1>2
  <2> QED
    BY <1>2, <2>1
<1>3. ASSUME NEW events, Flush(events) PROVE Len(stack') > Len(stack) => Head(stack').kind # "callback"
  <2>1. CASE stack' = stack
    BY <1>1, <2>1
  <2>2. ASSUME NEW order, stack' = <<[kind |-> "reactions", order |-> order]>> \o stack
        PROVE  Head(stack').kind # "callback"
    <3>1. PICK g : g = [kind |-> "reactions", order |-> order]
      OBVIOUS
    <3> QED
      BY <1>2, <2>2, <3>1
  <2> QED
    BY <1>3, <2>1, <2>2 DEF Flush
<1>4. (\E events : Flush(events)) => (Len(stack') > Len(stack) => Head(stack').kind # "callback")
  BY <1>3
<1>5. ASSUME NEW g, g.kind # "callback", Enter(g) PROVE Head(stack').kind # "callback"
  BY <1>2, <1>5 DEF Enter
<1>6. ASSUME Define \/ Upgrade(Box) \/ CreateElement PROVE Head(stack').kind # "callback"
  <2>1. \E g : g.kind # "callback" /\ Enter(g)
    <3>1. CASE Define
      <4>1. PICK g : g = [kind |-> "walk", todo |-> <<Body>>]
        OBVIOUS
      <4> QED
        BY <3>1, <4>1 DEF Define
    <3>2. CASE Upgrade(Box)
      <4>1. PICK g : g = [kind |-> "walk", todo |-> <<Box>>]
        OBVIOUS
      <4> QED
        BY <3>2, <4>1 DEF Upgrade
    <3>3. CASE CreateElement
      <4>1. PICK g : g = [kind |-> "creation", made |-> None]
        OBVIOUS
      <4> QED
        BY <3>3, <4>1 DEF CreateElement
    <3> QED
      BY <1>6, <3>1, <3>2, <3>3
  <2> QED
    BY <1>5, <2>1
<1>7. ASSUME TakeElement \/ \E n \in Custom : MakeElement(n) PROVE Len(stack') = Len(stack)
  <2>1. CASE TakeElement
    BY <1>1, <2>1 DEF TakeElement
  <2>2. CASE \E n \in Custom : MakeElement(n)
    BY <1>1, <2>2 DEF MakeElement
  <2> QED
    BY <1>7, <2>1, <2>2
<1>8. ASSUME Over \/ ConstructorFails PROVE ~(Len(stack') > Len(stack))
  <2>1. stack # <<>> /\ stack' = Tail(stack)
    BY <1>8 DEF Over, ConstructorFails, Doing, Outer
  <2> QED
    BY <1>1, <2>1
<1>9. ASSUME NEW g, stack' = <<g>> \o Tail(stack), stack # <<>> PROVE ~(Len(stack') > Len(stack))
  BY <1>1, <1>9
<1>10. ASSUME ConstructorReturns PROVE ~(Len(stack') > Len(stack))
  <2>1. stack # <<>> /\ \E g : stack' = <<g>> \o Tail(stack)
    BY <1>10 DEF ConstructorReturns, Doing, Outer
  <2> QED
    BY <1>9, <2>1
<1>11. ASSUME WalkOn PROVE Len(stack') > Len(stack) => Head(stack').kind # "callback"
  <2>1. stack # <<>>
    BY <1>11 DEF WalkOn, Doing
  <2>2. \/ \E n, g : Begin(n, <<g>> \o Tail(stack))
        \/ \E g : stack' = <<g>> \o Tail(stack)
    BY <1>11 DEF WalkOn, Outer
  <2>3. ASSUME NEW n, NEW g, Begin(n, <<g>> \o Tail(stack)) PROVE Head(stack').kind # "callback"
    <3>1. PICK c : c = [kind |-> "constructor", node |-> n, used |-> FALSE, made |-> None, initial |-> attr[n]]
      OBVIOUS
    <3>2. PICK s : s = <<g>> \o Tail(stack)
      OBVIOUS
    <3>3. stack' = <<c>> \o s /\ c.kind = "constructor" /\ Len(s) \in Nat
      BY <1>1, <2>1, <2>3, <3>1, <3>2 DEF Begin
    <3>4. Head(stack') = c
      BY <3>3
    <3> QED
      BY <3>3, <3>4
  <2> QED
    BY <1>9, <2>1, <2>2, <2>3
<1>12. ASSUME UNCHANGED elements PROVE ~(Len(stack') > Len(stack))
  BY <1>1, <1>12 DEF elements
<1>13. ASSUME Script PROVE Len(stack') > Len(stack) => Head(stack').kind # "callback"
  <2>1. CASE \E events : Flush(events)
    BY <1>4, <2>1
  <2>2. CASE Define \/ Upgrade(Box) \/ CreateElement
    BY <1>6, <2>2
  <2>3. CASE TakeElement \/ \E n \in Custom : MakeElement(n)
    BY <1>1, <1>7, <2>3
  <2> QED
    BY <1>13, <2>1, <2>2, <2>3 DEF Script, AppendChild, MoveBefore, RemoveChild, SetInnerHTML, ToggleAttribute
<1> QED
  BY <1>8, <1>10, <1>11, <1>12, <1>13 DEF Engine

LEMMA ToldContinues ==
  ASSUME IInv, ReactionsOn \/ SettleOn, Len(stack') > Len(stack), Head(stack').kind = "callback"
  PROVE  LET c == Head(stack')
         IN  c.node \in disturbed \/ Continues(told[c.node], c.tells)
<1>1. stack # <<>> /\ TypeOK /\ stack \in Seq(Frames) /\ Len(stack) \in Nat
  <2>1. stack # <<>>
    BY DEF ReactionsOn, SettleOn, Doing
  <2>2. TypeOK /\ stack \in Seq(Frames)
    BY DEF IInv, TypeOK
  <2> QED
    BY <2>1, <2>2
<1>2. PICK f \in Frames, o \in Seq(Frames) :
        /\ f = Head(stack) /\ o = Tail(stack) /\ FrameFits(f)
        /\ ToSet(stack) = {f} \cup ToSet(o) /\ Tidy(o)
        /\ \A h \in ToSet(o) : h \in Frames /\ FrameFits(h) /\ ~Long(h)
  BY <1>1, OnTop
<1>3. Len(stack) = Len(o) + 1 /\ Len(o) \in Nat
  BY <1>1, <1>2
<1>4. ASSUME NEW g, stack' = <<g>> \o o PROVE FALSE
  BY <1>2, <1>3, <1>4
<1>5. ASSUME NEW g, NEW n, NEW r, Tells(n, r, <<g>> \o o)
      PROVE  Head(stack').node = n /\ Head(stack').tells = r
  <2>1. PICK c : c = [kind |-> "callback", node |-> n, tells |-> r]
    OBVIOUS
  <2>2. PICK s : s = <<g>> \o o
    OBVIOUS
  <2>3. stack' = <<c>> \o s /\ c.node = n /\ c.tells = r /\ Len(s) \in Nat
    BY <1>2, <1>5, <2>1, <2>2 DEF Tells
  <2>4. Head(stack') = c
    BY <2>3
  <2> QED
    BY <2>3, <2>4
<1>6. ASSUME NEW g, NEW n, Begin(n, <<g>> \o o) PROVE FALSE
  <2>1. PICK c : c = [kind |-> "constructor", node |-> n, used |-> FALSE, made |-> None, initial |-> attr[n]]
    OBVIOUS
  <2>2. PICK s : s = <<g>> \o o
    OBVIOUS
  <2>3. stack' = <<c>> \o s /\ c.kind = "constructor" /\ Len(s) \in Nat
    BY <1>2, <1>6, <2>1, <2>2 DEF Begin
  <2>4. Head(stack') = c
    BY <2>3
  <2> QED
    BY <2>3, <2>4
<1>7. CASE ReactionsOn
  <2>1. PICK i \in DOMAIN f.order :
          LET n     == f.order[i]
              below == <<[f EXCEPT !.order = SubSeq(@, i, Len(@))]>> \o o
              r     == Head(queue[n])
          IN  /\ queue[n] # <<>>
              /\ CASE r.what = "upgrade" /\ rec[n].status = "pending" -> Begin(n, below)
                   [] r.what \notin {"upgrade", "nothing"} -> Tells(n, r, below)
                   [] OTHER -> stack' = below /\ UNCHANGED <<rec, told>>
    BY <1>2, <1>7 DEF ReactionsOn, Frame, Outer
  <2>2. f.kind = "reactions" /\ f.order \in Seq(Custom)
    BY <1>2, <1>7, FrameTyped DEF ReactionsOn, Doing
  <2>3. PICK n \in Custom : n = f.order[i]
    BY <2>1, <2>2
  <2>4. PICK r, g : r = Head(queue[n]) /\ g = [f EXCEPT !.order = SubSeq(@, i, Len(@))]
    OBVIOUS
  <2>5. /\ queue[n] # <<>>
        /\ CASE r.what = "upgrade" /\ rec[n].status = "pending" -> Begin(n, <<g>> \o o)
             [] r.what \notin {"upgrade", "nothing"} -> Tells(n, r, <<g>> \o o)
             [] OTHER -> stack' = <<g>> \o o /\ UNCHANGED <<rec, told>>
    BY <2>1, <2>3, <2>4
  <2>6. r.what \notin {"upgrade", "nothing"} /\ Tells(n, r, <<g>> \o o)
    BY <1>4, <1>6, <2>5
  <2>7. Head(stack').node = n /\ Head(stack').tells = r
    BY <1>5, <2>6
  <2>8. n \notin disturbed => Allowed(told[n], r)
    BY <1>2, <2>2, <2>4, <2>5, <2>6, NextFits
  <2> QED
    BY <2>6, <2>7, <2>8 DEF Allowed
<1>8. CASE SettleOn
  <2>1. PICK n, r, g : n = f.node /\ r = Head(f.todo) /\ g = [f EXCEPT !.todo = Tail(f.todo)]
    OBVIOUS
  <2>2. /\ f.kind = "settling" /\ f.todo # <<>>
        /\ IF r.what = "connected" /\ ~rec[n].connected
           THEN stack' = <<g>> \o o /\ UNCHANGED <<rec, told>>
           ELSE Tells(n, r, <<g>> \o o)
    BY <1>2, <1>8, <2>1 DEF SettleOn, Doing, Frame, Outer
  <2>3. Tells(n, r, <<g>> \o o)
    BY <1>4, <2>2
  <2>4. Head(stack').node = n /\ Head(stack').tells = r
    BY <1>5, <2>3
  <2>5. f.todo \in {ToConnect, ToTell}
    BY <1>2, <2>2, FrameTyped
  <2>6. ASSUME n \notin disturbed PROVE Continues(told[n], r)
    <3>1. CASE f.todo = ToConnect
      <4>1. r.what = "connected" /\ ~told[n].connected
        BY <1>2, <2>1, <2>2, <2>6, <3>1, Todos DEF FrameFits, Reaction
      <4> QED
        BY <4>1 DEF Continues
    <3>2. CASE f.todo = ToTell
      <4>1. r.what = "attribute" /\ r.old = 0 /\ told[n].attr = 0
        BY <1>2, <2>1, <2>2, <2>6, <3>2, Todos DEF FrameFits, Changed, Silent
      <4> QED
        BY <4>1 DEF Continues
    <3> QED
      BY <2>5, <3>1, <3>2
  <2> QED
    BY <2>4, <2>6
<1> QED
  BY <1>7, <1>8

\* What an element's callbacks tell goes on, each from where the last one left
\* off, however deep the calls nest that queued them (custom_elements.js).
THEOREM StoriesAreContinuous == CustomElementsSpec => StoryIsContinuous
<1> DEFINE Goes == Len(stack') > Len(stack) /\ Head(stack').kind = "callback" =>
                     LET c == Head(stack')
                     IN  c.node \in disturbed \/ Continues(told[c.node], c.tells)
<1>1. IInv /\ [Script \/ Engine]_elements => [Goes]_elements
  BY ToldContinues, OnlyTelling
<1>2. CustomElementsSpec => []IInv
  BY ElementsFit
<1> QED
  BY <1>1, <1>2, PTL DEF CustomElementsSpec, StoryIsContinuous
=============================================================================
