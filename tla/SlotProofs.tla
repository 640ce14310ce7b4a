----------------------------- MODULE SlotProofs -----------------------------
(***************************************************************************)
(* Proofs about ShadowSlots.  The loops that look for a shadow root and for *)
(* its slots agree on who is below it; from that, no change of what a slot  *)
(* shows goes unsignalled, and the flat tree reads the same both ways.      *)
(*                                                                          *)
(* SlotsInv: every slot is written down by the root above it, as it is      *)
(* (Written).  Then what refresh compares is what changed (RefreshTells),   *)
(* but for a slot's own children, and of those the records tell             *)
(* (ChangedAreTold, from the lemmas about MutationLog's records).           *)
(***************************************************************************)
EXTENDS ShadowSlots, TreeListsProofs

-----------------------------------------------------------------------------
(* The loops.                                                               *)

\* One round of Ends.
EndsAt(d, end) == [n \in Node |-> IF d = 0 \/ parent[n] = None THEN n ELSE end[parent[n]]]

\* Ends has a run.
LEMMA EndsRun ==
  ASSUME NEW N \in Nat
  PROVE  \E f : (\A d \in 0..N : f[d] = EndsAt(d, f[d - 1])) /\ Ends(N) = f[N]
<1> DEFINE Runs(n, f) == f = [d \in 0..n |-> f[d]] /\ \A d \in 0..n : f[d] = EndsAt(d, f[d - 1])
           T == {n \in Nat : \E f : Runs(n, f)}
<1>0. \A e1, e2 : EndsAt(0, e1) = EndsAt(0, e2)
  BY DEF EndsAt
<1>1. 0 \in T
  <2> DEFINE f == [d \in 0..0 |-> EndsAt(0, 0)]
  <2>1. f = [d \in 0..0 |-> f[d]] /\ f[0] = EndsAt(0, 0)
    OBVIOUS
  <2> HIDE DEF f
  <2>2. \A d \in 0..0 : f[d] = EndsAt(d, f[d - 1])
    BY <1>0, <2>1
  <2> QED BY <2>1, <2>2
<1>2. ASSUME NEW n \in Nat, n \in T PROVE n + 1 \in T
  <2>1. PICK f : Runs(n, f)
    BY <1>2
  <2> DEFINE next == EndsAt(n + 1, f[n])
             g == [d \in 0..(n + 1) |-> IF d = n + 1 THEN next ELSE f[d]]
  <2> HIDE DEF next
  <2>2. g = [d \in 0..(n + 1) |-> g[d]] /\ g[n + 1] = next
    <3>1. n + 1 \in 0..(n + 1)
      OBVIOUS
    <3> QED BY <3>1
  <2>3. \A d \in 0..n : g[d] = f[d]
    <3>1. \A d \in 0..n : d \in 0..(n + 1) /\ d # n + 1
      OBVIOUS
    <3> QED BY <3>1
  <2> HIDE DEF g
  <2>4. ASSUME NEW d \in 0..(n + 1) PROVE g[d] = EndsAt(d, g[d - 1])
    <3>1. CASE d = n + 1
      <4>1. d - 1 = n /\ n \in 0..n
        BY <3>1
      <4> QED BY <2>2, <2>3, <3>1, <4>1 DEF next
    <3>2. CASE d \in 1..n
      <4>1. d \in 0..n /\ d - 1 \in 0..n
        BY <3>2
      <4> QED BY <2>1, <2>3, <4>1
    <3>3. CASE d = 0
      <4>1. 0 \in 0..n
        OBVIOUS
      <4> QED BY <1>0, <2>1, <2>3, <3>3, <4>1
    <3>4. d = n + 1 \/ d \in 1..n \/ d = 0
      OBVIOUS
    <3> QED BY <3>1, <3>2, <3>3, <3>4
  <2>5. Runs(n + 1, g)
    BY <2>2, <2>4
  <2> HIDE DEF Runs
  <2> QED BY <2>5
<1>3. PICK f : Runs(N, f)
  <2> HIDE DEF Runs
  <2> QED BY <1>1, <1>2, Counting
<1> DEFINE Def(h) == h = [d \in 0..N |-> [n \in Node |-> IF d = 0 \/ parent[n] = None THEN n
                                                         ELSE h[d - 1][parent[n]]]]
<1>4. \A h : Def(h) <=> h = [d \in 0..N |-> EndsAt(d, h[d - 1])]
  BY DEF EndsAt
<1>5. Def(f)
  <2>1. f = [d \in 0..N |-> EndsAt(d, f[d - 1])]
    BY <1>3
  <2> HIDE DEF Def
  <2> QED BY <1>4, <2>1
<1> DEFINE c == CHOOSE h : Def(h)
<1>6. Def(c)
  BY <1>5
<1>7. Ends(N) = c[N]
  BY DEF Ends
<1>8. c = [d \in 0..N |-> EndsAt(d, c[d - 1])]
  <2> HIDE DEF Def
  <2> QED BY <1>4, <1>6
<1> HIDE DEF c
<1>9. \A d \in 0..N : c[d] = EndsAt(d, c[d - 1])
  BY <1>8
<1> QED
  BY <1>7, <1>9

\* One round of SlotsBelow.
SlotsAt(d, below) == [n \in Node |-> IF d = 0 THEN <<>> ELSE Listing(children[n], below)]

\* SlotsBelow has a run.
LEMMA SlotsRun ==
  ASSUME NEW N \in Nat
  PROVE  \E f : (\A d \in 0..N : f[d] = SlotsAt(d, f[d - 1])) /\ SlotsBelow(N) = f[N]
<1> DEFINE Runs(n, f) == f = [d \in 0..n |-> f[d]] /\ \A d \in 0..n : f[d] = SlotsAt(d, f[d - 1])
           T == {n \in Nat : \E f : Runs(n, f)}
<1>0. \A e1, e2 : SlotsAt(0, e1) = SlotsAt(0, e2)
  BY DEF SlotsAt
<1>1. 0 \in T
  <2> DEFINE f == [d \in 0..0 |-> SlotsAt(0, 0)]
  <2>1. f = [d \in 0..0 |-> f[d]] /\ f[0] = SlotsAt(0, 0)
    OBVIOUS
  <2> HIDE DEF f
  <2>2. \A d \in 0..0 : f[d] = SlotsAt(d, f[d - 1])
    BY <1>0, <2>1
  <2> QED BY <2>1, <2>2
<1>2. ASSUME NEW n \in Nat, n \in T PROVE n + 1 \in T
  <2>1. PICK f : Runs(n, f)
    BY <1>2
  <2> DEFINE next == SlotsAt(n + 1, f[n])
             g == [d \in 0..(n + 1) |-> IF d = n + 1 THEN next ELSE f[d]]
  <2> HIDE DEF next
  <2>2. g = [d \in 0..(n + 1) |-> g[d]] /\ g[n + 1] = next
    <3>1. n + 1 \in 0..(n + 1)
      OBVIOUS
    <3> QED BY <3>1
  <2>3. \A d \in 0..n : g[d] = f[d]
    <3>1. \A d \in 0..n : d \in 0..(n + 1) /\ d # n + 1
      OBVIOUS
    <3> QED BY <3>1
  <2> HIDE DEF g
  <2>4. ASSUME NEW d \in 0..(n + 1) PROVE g[d] = SlotsAt(d, g[d - 1])
    <3>1. CASE d = n + 1
      <4>1. d - 1 = n /\ n \in 0..n
        BY <3>1
      <4> QED BY <2>2, <2>3, <3>1, <4>1 DEF next
    <3>2. CASE d \in 1..n
      <4>1. d \in 0..n /\ d - 1 \in 0..n
        BY <3>2
      <4> QED BY <2>1, <2>3, <4>1
    <3>3. CASE d = 0
      <4>1. 0 \in 0..n
        OBVIOUS
      <4> QED BY <1>0, <2>1, <2>3, <3>3, <4>1
    <3>4. d = n + 1 \/ d \in 1..n \/ d = 0
      OBVIOUS
    <3> QED BY <3>1, <3>2, <3>3, <3>4
  <2>5. Runs(n + 1, g)
    BY <2>2, <2>4
  <2> HIDE DEF Runs
  <2> QED BY <2>5
<1>3. PICK f : Runs(N, f)
  <2> HIDE DEF Runs
  <2> QED BY <1>1, <1>2, Counting
<1> DEFINE Def(h) == h = [d \in 0..N |->
                            [n \in Node |-> IF d = 0 THEN <<>> ELSE Listing(children[n], h[d - 1])]]
<1>4. \A h : Def(h) <=> h = [d \in 0..N |-> SlotsAt(d, h[d - 1])]
  BY DEF SlotsAt
<1>5. Def(f)
  <2>1. f = [d \in 0..N |-> SlotsAt(d, f[d - 1])]
    BY <1>3
  <2> HIDE DEF Def
  <2> QED BY <1>4, <2>1
<1> DEFINE c == CHOOSE h : Def(h)
<1>6. Def(c)
  BY <1>5
<1>7. SlotsBelow(N) = c[N]
  BY DEF SlotsBelow
<1>8. c = [d \in 0..N |-> SlotsAt(d, c[d - 1])]
  <2> HIDE DEF Def
  <2> QED BY <1>4, <1>6
<1> HIDE DEF c
<1>9. \A d \in 0..N : c[d] = SlotsAt(d, c[d - 1])
  BY <1>8
<1> QED
  BY <1>7, <1>9

\* Listing has a run.
LEMMA ListingRun ==
  ASSUME NEW list, Len(list) \in Nat, NEW below
  PROVE  \E f : /\ f[0] = <<>>
                /\ \A i \in 1..Len(list) :
                     f[i] = f[i - 1] \o (IF list[i] \in SlotElement THEN <<list[i]>> ELSE <<>>)
                                     \o below[list[i]]
                /\ Listing(list, below) = f[Len(list)]
<1> DEFINE G(i, r) == r \o (IF list[i] \in SlotElement THEN <<list[i]>> ELSE <<>>) \o below[list[i]]
           Runs(n, f) == /\ f = [i \in 0..n |-> f[i]] /\ f[0] = <<>>
                         /\ \A i \in 1..n : f[i] = G(i, f[i - 1])
           T == {n \in Nat : \E f : Runs(n, f)}
<1>1. 0 \in T
  <2>1. Runs(0, [i \in 0..0 |-> <<>>])
    OBVIOUS
  <2> QED BY <2>1
<1>2. ASSUME NEW n \in Nat, n \in T PROVE n + 1 \in T
  <2>1. PICK f : Runs(n, f)
    BY <1>2
  <2> DEFINE next == G(n + 1, f[n])
             g == [i \in 0..(n + 1) |-> IF i = n + 1 THEN next ELSE f[i]]
  <2> HIDE DEF next, G
  <2>2. g = [i \in 0..(n + 1) |-> g[i]] /\ g[0] = f[0] /\ g[n + 1] = next /\ g[n] = f[n]
    <3>1. /\ 0 \in 0..(n + 1) /\ n \in 0..(n + 1) /\ n + 1 \in 0..(n + 1)
          /\ 0 # n + 1 /\ n # n + 1
      OBVIOUS
    <3> QED BY <3>1
  <2>3. \A i \in 1..n : g[i] = f[i] /\ g[i - 1] = f[i - 1]
    OBVIOUS
  <2> HIDE DEF g
  <2>4. ASSUME NEW i \in 1..(n + 1) PROVE g[i] = G(i, g[i - 1])
    <3>1. CASE i = n + 1
      <4>1. i - 1 = n
        BY <3>1
      <4> QED BY <2>2, <3>1, <4>1 DEF next
    <3>2. CASE i \in 1..n
      BY <2>1, <2>3, <3>2
    <3>3. i = n + 1 \/ i \in 1..n
      OBVIOUS
    <3> QED BY <3>1, <3>2, <3>3
  <2>5. Runs(n + 1, g)
    BY <2>1, <2>2, <2>4
  <2> HIDE DEF Runs
  <2> QED BY <2>5
<1>3. PICK f : Runs(Len(list), f)
  <2> HIDE DEF Runs
  <2> QED BY <1>1, <1>2, Counting
<1> DEFINE Def(h) == h = [i \in 0..Len(list) |->
                            IF i = 0 THEN <<>>
                            ELSE h[i - 1] \o (IF list[i] \in SlotElement THEN <<list[i]>> ELSE <<>>)
                                          \o below[list[i]]]
<1>4. ASSUME NEW i \in 0..Len(list) PROVE f[i] = IF i = 0 THEN <<>> ELSE G(i, f[i - 1])
  <2>1. i = 0 \/ i \in 1..Len(list)
    OBVIOUS
  <2>2. i \in 1..Len(list) => i # 0
    OBVIOUS
  <2> HIDE DEF G
  <2> QED BY <1>3, <2>1, <2>2
<1>5. Def(f)
  <2> HIDE DEF G
  <2>1. f = [i \in 0..Len(list) |-> IF i = 0 THEN <<>> ELSE G(i, f[i - 1])]
    BY <1>3, <1>4
  <2> QED BY <2>1 DEF G
<1> DEFINE c == CHOOSE h : Def(h)
<1>6. Def(c)
  BY <1>5
<1>7. Listing(list, below) = c[Len(list)]
  BY DEF Listing
<1>8. c[0] = <<>> /\ \A i \in 1..Len(list) : c[i] = G(i, c[i - 1])
  <2>1. \A i \in 0..Len(list) : c[i] = IF i = 0 THEN <<>> ELSE G(i, c[i - 1])
    <3> HIDE DEF c
    <3> QED BY <1>6
  <2>2. 0 \in 0..Len(list) /\ \A i \in 1..Len(list) : i \in 0..Len(list) /\ i # 0
    OBVIOUS
  <2> HIDE DEF c, G
  <2> QED BY <2>1, <2>2
<1> HIDE DEF c
<1> QED
  BY <1>7, <1>8

\* Who is listed.
LEMMA ListingIs ==
  ASSUME NEW list \in Seq(Node), NEW below \in [Node -> Seq(SlotElement)]
  PROVE  /\ Listing(list, below) \in Seq(SlotElement)
         /\ ToSet(Listing(list, below)) =
              {s \in SlotElement : \E c \in ToSet(list) : s = c \/ s \in ToSet(below[c])}
<1> DEFINE n == Len(list)
           own(c) == IF c \in SlotElement THEN <<c>> ELSE <<>>
           Of(c) == {s \in SlotElement : s = c \/ s \in ToSet(below[c])}
<1>1. n \in Nat /\ DOMAIN list = 1..n /\ \A i \in 1..n : list[i] \in Node
  OBVIOUS
<1>2. PICK f : /\ f[0] = <<>>
               /\ \A i \in 1..n : f[i] = f[i - 1] \o own(list[i]) \o below[list[i]]
               /\ Listing(list, below) = f[n]
  BY <1>1, ListingRun
<1>3. ASSUME NEW c \in Node
      PROVE  /\ own(c) \in Seq(SlotElement) /\ below[c] \in Seq(SlotElement)
             /\ ToSet(own(c)) \cup ToSet(below[c]) = Of(c)
  <2>1. own(c) \in Seq(SlotElement)
    OBVIOUS
  <2>2. ToSet(own(c)) = {s \in SlotElement : s = c}
    BY DEF ToSet
  <2>3. ToSet(below[c]) \subseteq SlotElement
    BY DEF ToSet
  <2> QED BY <2>1, <2>2, <2>3
<1> HIDE DEF n, own
<1> DEFINE T == {k \in Nat : k <= n => /\ f[k] \in Seq(SlotElement)
                                       /\ ToSet(f[k]) = UNION {Of(list[i]) : i \in 1..k}}
<1>4. 0 \in T
  <2>1. ToSet(<<>>) = {} /\ <<>> \in Seq(SlotElement) /\ 1..0 = {}
    BY DEF ToSet
  <2> HIDE DEF Of
  <2> QED BY <1>2, <2>1
<1>5. ASSUME NEW k \in Nat, k \in T PROVE k + 1 \in T
  <2>1. SUFFICES ASSUME k + 1 <= n
                 PROVE  /\ f[k + 1] \in Seq(SlotElement)
                        /\ ToSet(f[k + 1]) = UNION {Of(list[i]) : i \in 1..(k + 1)}
    OBVIOUS
  <2> HIDE DEF Of
  <2>2. /\ k + 1 \in 1..n /\ (k + 1) - 1 = k /\ 1..(k + 1) = (1..k) \cup {k + 1}
        /\ f[k] \in Seq(SlotElement) /\ ToSet(f[k]) = UNION {Of(list[i]) : i \in 1..k}
    BY <1>1, <1>5, <2>1
  <2> DEFINE c == list[k + 1]
  <2>3. c \in Node /\ f[k + 1] = f[k] \o own(c) \o below[c]
    BY <1>1, <1>2, <2>2
  <2> HIDE DEF c
  <2>4. own(c) \in Seq(SlotElement) /\ below[c] \in Seq(SlotElement) /\ ToSet(own(c)) \cup ToSet(below[c]) = Of(c)
    BY <1>3, <2>3
  <2>5. f[k] \o own(c) \in Seq(SlotElement) /\ ToSet(f[k] \o own(c)) = ToSet(f[k]) \cup ToSet(own(c))
    BY <2>2, <2>4, Joined
  <2>6. f[k + 1] \in Seq(SlotElement) /\ ToSet(f[k + 1]) = ToSet(f[k]) \cup Of(c)
    <3> DEFINE q == f[k] \o own(c)
    <3>1. f[k + 1] = q \o below[c] /\ q \in Seq(SlotElement)
      BY <2>3, <2>5
    <3>2. ToSet(q \o below[c]) = ToSet(q) \cup ToSet(below[c]) /\ q \o below[c] \in Seq(SlotElement)
      <4> HIDE DEF q
      <4> QED BY <2>4, <3>1, Joined
    <3> QED BY <2>4, <2>5, <3>1, <3>2
  <2>7. UNION {Of(list[i]) : i \in 1..(k + 1)} = (UNION {Of(list[i]) : i \in 1..k}) \cup Of(c)
    BY <2>2 DEF c
  <2> QED BY <2>2, <2>6, <2>7
<1>6. Nat \subseteq T
  <2> HIDE DEF T
  <2> QED BY <1>4, <1>5, Counting
<1>7. f[n] \in Seq(SlotElement) /\ ToSet(f[n]) = UNION {Of(list[i]) : i \in 1..n}
  <2> HIDE DEF Of
  <2>1. n \in T
    BY <1>1, <1>6
  <2> QED BY <1>1, <2>1
<1>8. ToSet(list) = {list[i] : i \in 1..n}
  BY <1>1 DEF ToSet
<1> QED
  BY <1>2, <1>7, <1>8
-----------------------------------------------------------------------------
(* Below and above.                                                         *)

\* The links of the tree.
LEMMA LinksAre ==
  ASSUME TreeListsInv
  PROVE  /\ parent \in [Node -> Node \cup {None}] /\ hostOf \in [Node -> Node \cup {None}]
         /\ \A n \in Node : hostOf[n] # None => n \in Fragment /\ parent[n] = None
         /\ \A n \in Node : parent[n] # None => n \in created /\ parent[n] \in created
         /\ \A n \in Node : /\ children[n] \in Seq(Node) /\ IsInjective(children[n])
                            /\ ToSet(children[n]) = {c \in Node : parent[c] = n}
BY TreeFields DEF TreeListsInv, Ready, Fit, Shaped, Paired, KidsOf, Topped, Tops

\* f are the nodes of a chain from n to x, k levels above.
Path(par, n, x, k, f) ==
  /\ k <= Cardinality(Node) /\ f[0] = n /\ f[k] = x
  /\ \A i \in 1..k : /\ f[i - 1] \in Chain(par, n) /\ f[i] \in Chain(par, n)
                     /\ f[i] = par[f[i - 1]]

\* The parent chain, round by round, to a node of it.
LEMMA ChainReaches ==
  ASSUME NEW par \in [Node -> Node \cup {None}], NEW n \in Node, NEW x \in Chain(par, n)
  PROVE  \E k \in Nat : \E f : Path(par, n, x, k, f)
<1> DEFINE N == Cardinality(Node)
<1>1. N \in Nat
  BY FS_CardinalityType, NodeAssumption
<1>2. PICK f : /\ f[0] = n
               /\ \A k \in 1..N : f[k] = Over(par, f[k - 1])
               /\ Chain(par, n) = {f[k] : k \in 0..N} \ {None}
  BY <1>1, ChainRuns DEF ChainRounds
<1> HIDE DEF N
<1>3. PICK k \in 0..N : f[k] = x
  BY <1>2
<1>4. x # None
  BY <1>2
<1> DEFINE T == {i \in Nat : i <= k => f[k - i] # None}
<1>5. 0 \in T
  BY <1>3, <1>4
<1>6. ASSUME NEW i \in Nat, i \in T PROVE i + 1 \in T
  <2>1. SUFFICES ASSUME i + 1 <= k PROVE f[k - (i + 1)] # None
    OBVIOUS
  <2>2. k - i \in 1..N /\ (k - i) - 1 = k - (i + 1) /\ i <= k
    BY <1>1, <2>1
  <2>3. f[k - i] = Over(par, f[k - (i + 1)]) /\ f[k - i] # None
    BY <1>2, <1>6, <2>2
  <2> QED BY <2>3 DEF Over
<1>7. Nat \subseteq T
  <2> HIDE DEF T
  <2> QED BY <1>5, <1>6, Counting
<1>8. ASSUME NEW i \in 0..k PROVE f[i] # None /\ f[i] \in Chain(par, n)
  <2>1. k - i \in Nat /\ k - i <= k /\ k - (k - i) = i /\ i \in 0..N
    BY <1>1
  <2>2. k - i \in T
    BY <1>7, <2>1
  <2> QED BY <1>2, <2>1, <2>2
<1>9. ASSUME NEW i \in 1..k
      PROVE  f[i - 1] \in Chain(par, n) /\ f[i] \in Chain(par, n) /\ f[i] = par[f[i - 1]]
  <2>1. i - 1 \in 0..k /\ i \in 0..k /\ i \in 1..N
    BY <1>1
  <2> QED BY <1>2, <1>8, <2>1 DEF Over
<1>10. k \in Nat /\ k <= N
  BY <1>1
<1>11. Path(par, n, x, k, f)
  BY <1>2, <1>3, <1>9, <1>10 DEF N, Path
<1> QED
  BY <1>10, <1>11

\* As many levels up as there are nodes lead to the top.
LEMMA EndsTop ==
  ASSUME TreeListsInv, NEW n \in Node
  PROVE  LET end == Ends(Cardinality(Node))[n]
         IN  /\ end \in Chain(parent, n)
             /\ \A r \in Chain(parent, n) : parent[r] = None => end = r
<1> DEFINE N == Cardinality(Node)
<1>1. N \in Nat
  BY FS_CardinalityType, NodeAssumption
<1>2. PICK e : (\A d \in 0..N : e[d] = EndsAt(d, e[d - 1])) /\ Ends(N) = e[N]
  BY <1>1, EndsRun
<1>3. parent \in [Node -> Node \cup {None}]
  BY LinksAre
<1> HIDE DEF N
<1> DEFINE T == {d \in Nat : d <= N => \A m \in Node : e[d][m] \in Chain(parent, m)}
<1>4. 0 \in T
  <2>0. 0 \in 0..N
    BY <1>1
  <2>2. e[0] = EndsAt(0, e[0 - 1])
    BY <1>2, <2>0
  <2>1. \A m \in Node : e[0][m] = m
    BY <2>2 DEF EndsAt
  <2> QED BY <1>3, <2>1, ChainIs
<1>5. ASSUME NEW d \in Nat, d \in T PROVE d + 1 \in T
  <2>1. SUFFICES ASSUME d + 1 <= N, NEW m \in Node PROVE e[d + 1][m] \in Chain(parent, m)
    OBVIOUS
  <2>2. d + 1 \in 0..N /\ (d + 1) - 1 = d /\ d + 1 # 0 /\ d <= N
    BY <1>1, <2>1
  <2>6. e[d + 1] = EndsAt(d + 1, e[d])
    <3>1. e[d + 1] = EndsAt(d + 1, e[(d + 1) - 1])
      BY <1>2, <2>2
    <3> QED BY <2>2, <3>1
  <2>3. e[d + 1][m] = IF parent[m] = None THEN m ELSE e[d][parent[m]]
    BY <2>2, <2>6 DEF EndsAt
  <2>4. CASE parent[m] = None
    BY <1>3, <2>3, <2>4, ChainIs
  <2>5. CASE parent[m] # None
    <3>1. parent[m] \in Node /\ e[d][parent[m]] \in Chain(parent, parent[m])
      BY <1>3, <1>5, <2>2, <2>5
    <3>2. Chain(parent, parent[m]) \subseteq Chain(parent, m)
      <4> DEFINE A == Chain(parent, m)
      <4>1. /\ A \in SUBSET Node /\ parent[m] \in A
            /\ \A x \in A : parent[x] \in A \cup {None}
        BY <1>3, <2>5, ChainIs
      <4> HIDE DEF A
      <4>2. Chain(parent, parent[m]) \subseteq A
        BY <1>3, <3>1, <4>1, ChainIs
      <4> QED BY <4>2 DEF A
    <3> QED BY <2>3, <2>5, <3>1, <3>2
  <2> QED BY <2>4, <2>5
<1>6. Nat \subseteq T
  <2> HIDE DEF T
  <2> QED BY <1>4, <1>5, Counting
<1>7. Ends(N)[n] \in Chain(parent, n)
  <2>1. N \in T
    BY <1>1, <1>6
  <2> QED BY <1>1, <1>2, <2>1
<1>8. ASSUME NEW r \in Chain(parent, n), parent[r] = None PROVE Ends(N)[n] = r
  <2>0. PICK k \in Nat : \E f : Path(parent, n, r, k, f)
    BY <1>3, <1>8, ChainReaches
  <2>f. PICK f : Path(parent, n, r, k, f)
    BY <2>0
  <2>1. /\ k <= N /\ f[0] = n /\ f[k] = r
        /\ \A i \in 1..k : /\ f[i - 1] \in Chain(parent, n) /\ f[i] \in Chain(parent, n)
                           /\ f[i] = parent[f[i - 1]]
    BY <2>f DEF N, Path
  <2>2. Chain(parent, n) \subseteq Node
    BY <1>3, ChainIs
  <2> DEFINE U == {i \in Nat : i <= k => \A d \in i..N : e[d][f[k - i]] = r}
  <2>3. 0 \in U
    <3>1. ASSUME NEW d \in 0..N PROVE e[d][r] = r
      BY <1>2, <1>8, <2>2 DEF EndsAt
    <3> QED BY <2>1, <3>1
  <2>4. ASSUME NEW i \in Nat, i \in U PROVE i + 1 \in U
    <3>1. SUFFICES ASSUME i + 1 <= k, NEW d \in (i + 1)..N PROVE e[d][f[k - (i + 1)]] = r
      OBVIOUS
    <3>2. /\ k - i \in 1..k /\ (k - i) - 1 = k - (i + 1) /\ i <= k
          /\ d \in 0..N /\ d # 0 /\ d - 1 \in i..N
      BY <1>1, <2>1, <3>1
    <3> DEFINE x == f[k - (i + 1)]
    <3>3. x \in Node /\ parent[x] = f[k - i] /\ f[k - i] \in Node
      BY <2>1, <2>2, <3>2
    <3>4. e[d - 1][f[k - i]] = r
      BY <2>4, <3>2
    <3>5. parent[x] # None
      BY <3>3, NodeAssumption
    <3>6. e[d] = EndsAt(d, e[d - 1])
      BY <1>2, <3>2
    <3> HIDE DEF x
    <3>7. e[d][x] = e[d - 1][parent[x]]
      BY <3>2, <3>3, <3>5, <3>6 DEF EndsAt
    <3> QED BY <3>3, <3>4, <3>7 DEF x
  <2>5. Nat \subseteq U
    <3> HIDE DEF U
    <3> QED BY <2>3, <2>4, Counting
  <2>6. k \in U /\ k - k = 0 /\ N \in k..N
    BY <1>1, <2>1, <2>5
  <2> QED BY <1>2, <2>1, <2>6
<1> QED
  BY <1>7, <1>8 DEF N

\* The root of a node is the shadow root on its parent chain.
LEMMA RootIs ==
  ASSUME TreeListsInv, NEW n \in Node
  PROVE  /\ Root(n) \in Roots \cup {None}
         /\ \A r \in Roots : Root(n) = r <=> r \in Chain(parent, n)
<1> DEFINE end == Ends(Cardinality(Node))[n]
<1>1. /\ end \in Chain(parent, n)
      /\ \A r \in Chain(parent, n) : parent[r] = None => end = r
  BY EndsTop
<1>2. Root(n) = IF hostOf[end] = None THEN None ELSE end
  BY DEF Root
<1>3. /\ Chain(parent, n) \subseteq Node
      /\ \A m \in Node : hostOf[m] # None => m \in Fragment /\ parent[m] = None
      /\ None \notin Node /\ Fragment \subseteq Node
  BY LinksAre, ChainIs, NodeAssumption
<1> HIDE DEF end
<1>4. end \in Node
  BY <1>1, <1>3
<1> QED
  BY <1>1, <1>2, <1>3, <1>4 DEF Roots

\* Those below a node have it on their parent chain.
LEMMA SlotsAre ==
  ASSUME TreeListsInv, NEW r \in Fragment
  PROVE  /\ Slots(r) \in Seq(SlotElement)
         /\ ToSet(Slots(r)) = {s \in SlotElement : r \in Chain(parent, s)}
<1> DEFINE N == Cardinality(Node)
<1>1. N \in Nat
  BY FS_CardinalityType, NodeAssumption
<1>2. PICK b : (\A d \in 0..N : b[d] = SlotsAt(d, b[d - 1])) /\ SlotsBelow(N) = b[N]
  BY <1>1, SlotsRun
<1>3. /\ parent \in [Node -> Node \cup {None}] /\ SlotElement \subseteq Node /\ r \in Node
      /\ None \notin Node
      /\ \A n \in Node : children[n] \in Seq(Node) /\ ToSet(children[n]) = {c \in Node : parent[c] = n}
  BY LinksAre, SlotsAssumption, NodeAssumption
<1> HIDE DEF N
<1> DEFINE T == {d \in Nat : d <= N =>
                   /\ b[d] \in [Node -> Seq(SlotElement)]
                   /\ \A n \in Node : \A s \in ToSet(b[d][n]) : s \in SlotElement /\ n \in Chain(parent, s)}
<1>4. 0 \in T
  <2>1. b[0] = [n \in Node |-> <<>>]
    BY <1>1, <1>2 DEF SlotsAt
  <2>2. ToSet(<<>>) = {} /\ <<>> \in Seq(SlotElement)
    BY DEF ToSet
  <2> QED BY <2>1, <2>2
<1>5. ASSUME NEW d \in Nat, d + 1 <= N, d \in T, NEW n \in Node
      PROVE  /\ b[d + 1][n] \in Seq(SlotElement) /\ b[d] \in [Node -> Seq(SlotElement)]
             /\ b[d + 1] = [m \in Node |-> Listing(children[m], b[d])]
             /\ ToSet(b[d + 1][n]) =
                  {s \in SlotElement : \E c \in Node : parent[c] = n /\ (s = c \/ s \in ToSet(b[d][c]))}
  <2>1. d + 1 \in 0..N /\ (d + 1) - 1 = d /\ d + 1 # 0 /\ d <= N
    BY <1>1, <1>5
  <2>2. b[d + 1] = [m \in Node |-> Listing(children[m], b[d])]
    BY <1>2, <2>1 DEF SlotsAt
  <2>3. b[d] \in [Node -> Seq(SlotElement)]
    BY <1>5, <2>1
  <2>4. /\ Listing(children[n], b[d]) \in Seq(SlotElement)
        /\ ToSet(Listing(children[n], b[d])) =
             {s \in SlotElement : \E c \in ToSet(children[n]) : s = c \/ s \in ToSet(b[d][c])}
    BY <1>3, <2>3, ListingIs
  <2> QED BY <1>3, <2>2, <2>3, <2>4
<1>6. ASSUME NEW d \in Nat, d \in T PROVE d + 1 \in T
  <2>1. SUFFICES ASSUME d + 1 <= N
                 PROVE  /\ b[d + 1] \in [Node -> Seq(SlotElement)]
                        /\ \A n \in Node : \A s \in ToSet(b[d + 1][n]) : s \in SlotElement /\ n \in Chain(parent, s)
    OBVIOUS
  <2>2. \A n \in Node : \A s \in ToSet(b[d][n]) : s \in SlotElement /\ n \in Chain(parent, s)
    BY <1>1, <1>6, <2>1
  <2>3. ASSUME NEW n \in Node, NEW s \in ToSet(b[d + 1][n])
        PROVE  s \in SlotElement /\ n \in Chain(parent, s)
    <3>5. ToSet(b[d + 1][n]) =
            {x \in SlotElement : \E m \in Node : parent[m] = n /\ (x = m \/ x \in ToSet(b[d][m]))}
      BY <1>5, <1>6, <2>1
    <3>1. PICK c \in Node : parent[c] = n /\ (s = c \/ s \in ToSet(b[d][c]))
      BY <2>3, <3>5
    <3>2. s \in SlotElement /\ s \in Node
      BY <1>3, <2>3, <3>5
    <3>3. c \in Chain(parent, s)
      BY <1>3, <2>2, <3>1, <3>2, ChainIs
    <3>4. parent[c] # None
      BY <1>3, <3>1
    <3> QED BY <1>3, <3>1, <3>2, <3>3, <3>4, ChainIs
  <2>4. b[d + 1] \in [Node -> Seq(SlotElement)]
    <3>1. \A n \in Node : b[d + 1][n] \in Seq(SlotElement)
      BY <1>5, <1>6, <2>1
    <3>2. r \in Node
      BY <1>3
    <3>3. b[d + 1] = [m \in Node |-> Listing(children[m], b[d])]
      BY <1>5, <1>6, <2>1, <3>2
    <3> QED BY <3>1, <3>3
  <2> QED BY <2>3, <2>4
<1>7. Nat \subseteq T
  <2> HIDE DEF T
  <2> QED BY <1>4, <1>6, Counting
<1>8. Slots(r) = b[N][r]
  BY <1>2 DEF Slots, N
<1>9. /\ Slots(r) \in Seq(SlotElement)
      /\ \A s \in ToSet(Slots(r)) : s \in SlotElement /\ r \in Chain(parent, s)
  <2>1. N \in T
    BY <1>1, <1>7
  <2> QED BY <1>1, <1>3, <1>8, <2>1
<1>10. ASSUME NEW s \in SlotElement, r \in Chain(parent, s) PROVE s \in ToSet(Slots(r))
  <2>0. PICK k \in Nat : \E f : Path(parent, s, r, k, f)
    BY <1>3, <1>10, ChainReaches
  <2>f. PICK f : Path(parent, s, r, k, f)
    BY <2>0
  <2>1. /\ k <= N /\ f[0] = s /\ f[k] = r
        /\ \A i \in 1..k : /\ f[i - 1] \in Chain(parent, s) /\ f[i] \in Chain(parent, s)
                           /\ f[i] = parent[f[i - 1]]
    BY <2>f DEF N, Path
  <2>2. Chain(parent, s) \subseteq Node
    BY <1>3, ChainIs
  <2>3. k # 0
    <3>1. s # r
      BY SlotsAssumption, NodeAssumption
    <3> QED BY <2>1, <3>1
  <2> DEFINE U == {i \in Nat : i + 1 <= k => \A d \in (i + 1)..N : s \in ToSet(b[d][f[i + 1]])}
  <2>4. ASSUME NEW d \in Nat, d + 1 <= N, NEW n \in Node, NEW c \in Node, parent[c] = n,
               s = c \/ s \in ToSet(b[d][c])
        PROVE  s \in ToSet(b[d + 1][n])
    <3>1. d \in T
      BY <1>7
    <3>2. ToSet(b[d + 1][n]) =
            {x \in SlotElement : \E m \in Node : parent[m] = n /\ (x = m \/ x \in ToSet(b[d][m]))}
      BY <1>5, <2>4, <3>1
    <3> QED BY <2>4, <3>2
  <2>5. ASSUME NEW i \in Nat, i + 1 <= k, NEW d \in (i + 1)..N,
               s = f[i] \/ s \in ToSet(b[d - 1][f[i]])
        PROVE  s \in ToSet(b[d][f[i + 1]])
    <3>1. i + 1 \in 1..k /\ (i + 1) - 1 = i /\ d - 1 \in Nat /\ (d - 1) + 1 = d /\ d <= N
      BY <1>1, <2>1, <2>5
    <3>2. f[i] \in Node /\ f[i + 1] \in Node /\ parent[f[i]] = f[i + 1]
      BY <2>1, <2>2, <3>1
    <3> QED BY <2>4, <2>5, <3>1, <3>2
  <2>6. 0 \in U
    BY <2>1, <2>5
  <2>7. ASSUME NEW i \in Nat, i \in U PROVE i + 1 \in U
    <3>1. SUFFICES ASSUME (i + 1) + 1 <= k, NEW d \in ((i + 1) + 1)..N PROVE s \in ToSet(b[d][f[(i + 1) + 1]])
      OBVIOUS
    <3>2. i + 1 \in Nat /\ i + 1 <= k /\ d - 1 \in (i + 1)..N
      BY <1>1, <2>1, <3>1
    <3>3. s \in ToSet(b[d - 1][f[i + 1]])
      BY <2>7, <3>2
    <3> QED BY <2>5, <3>1, <3>2, <3>3
  <2>8. Nat \subseteq U
    <3> HIDE DEF U
    <3> QED BY <2>6, <2>7, Counting
  <2>9. k - 1 \in U /\ (k - 1) + 1 = k /\ N \in k..N
    BY <1>1, <2>1, <2>3, <2>8
  <2> QED BY <1>8, <2>1, <2>9
<1> QED
  BY <1>9, <1>10
-----------------------------------------------------------------------------
(* What the slots show.                                                     *)

\* What a slot shows of itself: View in terms of Root and Assigned.
Shows(s) == IF Root(s) # None /\ Assigned(s) = <<>> THEN children[s] ELSE Assigned(s)

\* Every slot is written down by the root above it and by no other.
Known ==
  /\ \A s \in SlotElement :
       /\ Root(s) \in Roots \cup {None} /\ s \in Node
       /\ Root(s) = None => Assigned(s) = <<>>
       /\ View(s) = [root |-> Root(s), nodes |-> Assigned(s), shown |-> Shows(s)]
  /\ \A r \in Roots : /\ DOMAIN Row(r) = {s \in SlotElement : Root(s) = r}
                      /\ \A s \in DOMAIN Row(r) : Row(r)[s] = Assigned(s)

\* Each root finds its slots.
LEMMA KnownIs == TreeListsInv => Known
<1>1. SUFFICES ASSUME TreeListsInv PROVE Known
  OBVIOUS
<1>2. SlotElement \subseteq Node /\ None \notin Node /\ Roots \subseteq Fragment /\ Fragment \subseteq Node
  BY SlotsAssumption, NodeAssumption DEF Roots
<1>3. ASSUME NEW s \in SlotElement
      PROVE  /\ Root(s) \in Roots \cup {None} /\ s \in Node
             /\ Root(s) = None => Assigned(s) = <<>>
             /\ View(s) = [root |-> Root(s), nodes |-> Assigned(s), shown |-> Shows(s)]
  <2>1. Root(s) \in Roots \cup {None} /\ s \in Node
    BY <1>1, <1>2, RootIs
  <2>2. View(s) = [root |-> Root(s), nodes |-> Assigned(s), shown |-> Shows(s)]
    BY DEF View, Assigned, Shows
  <2> QED BY <2>1, <2>2 DEF Assigned
<1>4. ASSUME NEW r \in Roots
      PROVE  /\ DOMAIN Row(r) = {s \in SlotElement : Root(s) = r}
             /\ \A s \in DOMAIN Row(r) : Row(r)[s] = Assigned(s)
  <2>1. ToSet(Slots(r)) = {s \in SlotElement : r \in Chain(parent, s)}
    BY <1>1, <1>2, SlotsAre
  <2>2. \A s \in SlotElement : Root(s) = r <=> r \in Chain(parent, s)
    BY <1>1, <1>2, RootIs
  <2>3. DOMAIN Row(r) = {s \in SlotElement : Root(s) = r}
    BY <2>1, <2>2 DEF Row
  <2>4. ASSUME NEW s \in DOMAIN Row(r) PROVE Row(r)[s] = Assigned(s)
    <3>1. Root(s) = r /\ r # None
      BY <1>2, <2>3
    <3>2. Row(r)[s] = AssignedIn(r, s)
      BY <2>4 DEF Row
    <3> QED BY <3>1, <3>2 DEF Assigned
  <2> QED BY <2>3, <2>4
<1> QED
  BY <1>3, <1>4 DEF Known

\* And so they do in the next state.
LEMMA KnownNext == TreeListsInv' => Known'
BY KnownIs, PTL

\* What the last refresh wrote down is what there is.
Written ==
  /\ \A r \in Fragment : DOMAIN rows[r] = {s \in SlotElement : Root(s) = r}
  /\ \A s \in SlotElement : Root(s) # None => rows[Root(s)][s] = Assigned(s)
  /\ \A s \in SlotElement : view[s] = View(s)

\* refresh misses no change, told of those of the slots' own children.
LEMMA RefreshTells ==
  ASSUME Known, Known', Written, NobodyMissesAChange, NEW others, Refresh(others),
         hostOf' = hostOf, manual' = manual,
         \A s \in SlotElement : children'[s] # children[s] /\ Assigned(s)' = <<>> /\ Root(s)' # None
                                  => s \in others
  PROVE  Written' /\ NobodyMissesAChange'
<1>1. Roots' = Roots /\ Roots \subseteq Fragment /\ None \notin Fragment
  BY NodeAssumption DEF Roots
<1>2. /\ rows' = [r \in Fragment |-> IF r \in Roots THEN Row(r)' ELSE rows[r]]
      /\ signals' = signals \cup others \cup UNION {Stirred(r) : r \in Roots}
      /\ view' = [s \in SlotElement |-> View(s)']
      /\ changed' = changed \cup {s \in SlotElement : Differs(view[s], view'[s])}
      /\ firing' = firing
  BY DEF Refresh
<1>3. \A s \in SlotElement : Root(s) \in Roots \cup {None} /\ Root(s)' \in Roots \cup {None}
  BY <1>1 DEF Known
<1>4. ASSUME NEW r \in Roots
      PROVE  /\ DOMAIN rows'[r] = {s \in SlotElement : Root(s)' = r}
             /\ \A s \in DOMAIN rows'[r] : rows'[r][s] = Assigned(s)'
  <2>1. rows'[r] = Row(r)'
    BY <1>1, <1>2
  <2> QED BY <1>1, <2>1 DEF Known
<1>5. ASSUME NEW r \in Fragment \ Roots
      PROVE  DOMAIN rows'[r] = {s \in SlotElement : Root(s)' = r}
  <2>1. rows'[r] = rows[r]
    BY <1>2
  <2>2. \A s \in SlotElement : Root(s) # r /\ Root(s)' # r
    BY <1>1, <1>3
  <2> QED BY <2>1, <2>2 DEF Written
<1>6. Written'
  <2>1. \A r \in Fragment : DOMAIN rows'[r] = {s \in SlotElement : Root(s)' = r}
    BY <1>4, <1>5
  <2>2. \A s \in SlotElement : Root(s)' # None => rows'[Root(s)'][s] = Assigned(s)'
    BY <1>3, <1>4
  <2>3. \A s \in SlotElement : view'[s] = View(s)'
    BY <1>2
  <2> QED BY <2>1, <2>2, <2>3 DEF Written
<1>7. ASSUME NEW s \in SlotElement, Differs(view[s], view'[s])
      PROVE  s \in others \/ \E r \in Roots : s \in Stirred(r)
  <2>1. /\ view[s] = [root |-> Root(s), nodes |-> Assigned(s), shown |-> Shows(s)]
        /\ Root(s) = None => Assigned(s) = <<>>
    BY DEF Written, Known
  <2>2. /\ view'[s] = [root |-> Root(s)', nodes |-> Assigned(s)', shown |-> Shows(s)']
        /\ Root(s)' = None => Assigned(s)' = <<>>
    BY <1>2 DEF Known
  <2>3. /\ view[s].root = Root(s) /\ view[s].nodes = Assigned(s) /\ view[s].shown = Shows(s)
        /\ view'[s].root = Root(s)' /\ view'[s].nodes = Assigned(s)' /\ view'[s].shown = Shows(s)'
    BY <2>1, <2>2
  <2>4. \A r \in Fragment : s \in DOMAIN rows[r] <=> Root(s) = r
    BY DEF Written
  <2>5. \A r \in Roots : s \in DOMAIN rows'[r] <=> Root(s)' = r
    BY <1>4
  <2>6. /\ Root(s) # None => rows[Root(s)][s] = Assigned(s)
        /\ Root(s)' # None => rows'[Root(s)'][s] = Assigned(s)'
    BY <1>3, <1>4 DEF Written
  <2>7. CASE Root(s)' = Root(s) /\ Assigned(s)' # Assigned(s)
    <3> DEFINE r == Root(s)
    <3>1. r \in Roots
      BY <1>3, <2>1, <2>2, <2>7
    <3>2. s \in DOMAIN rows[r] /\ s \in DOMAIN rows'[r] /\ rows[r][s] # rows'[r][s]
      BY <1>1, <2>4, <2>5, <2>6, <2>7, <3>1
    <3>3. s \in Stirred(r)
      BY <3>2 DEF Stirred
    <3> QED BY <3>1, <3>3
  <2>8. CASE Root(s)' = Root(s) /\ Assigned(s)' = Assigned(s)
    <3>1. Shows(s) # Shows(s)'
      BY <1>7, <2>3, <2>8 DEF Differs
    <3>2. Shows(s)' = IF Root(s)' # None /\ Assigned(s)' = <<>> THEN children'[s] ELSE Assigned(s)'
      BY DEF Shows
    <3>3. Root(s)' # None /\ Assigned(s)' = <<>> /\ children'[s] # children[s]
      BY <2>8, <3>1, <3>2 DEF Shows
    <3> QED BY <3>3
  <2>9. CASE Root(s)' # Root(s) /\ Assigned(s) # <<>>
    <3> DEFINE r == Root(s)
    <3>1. r \in Roots
      BY <1>3, <2>1, <2>9
    <3>2. s \in DOMAIN rows[r] /\ s \notin DOMAIN rows'[r] /\ rows[r][s] # <<>>
      BY <1>1, <2>4, <2>5, <2>6, <2>9, <3>1
    <3>3. s \in Stirred(r)
      BY <3>2 DEF Stirred
    <3> QED BY <3>1, <3>3
  <2>10. CASE Root(s)' # Root(s) /\ Assigned(s) = <<>>
    <3> DEFINE r == Root(s)'
    <3>1. Assigned(s)' # <<>> /\ r \notin manual
      BY <1>7, <2>3, <2>10 DEF Differs
    <3>2. r \in Roots
      BY <1>3, <2>2, <3>1
    <3>3. s \in DOMAIN rows'[r] /\ s \notin DOMAIN rows[r] /\ rows'[r][s] # <<>>
      BY <1>1, <2>4, <2>5, <2>6, <2>10, <3>1, <3>2
    <3>4. s \in Stirred(r)
      BY <3>1, <3>3 DEF Stirred
    <3> QED BY <3>2, <3>4
  <2> QED BY <2>7, <2>8, <2>9, <2>10
<1>8. NobodyMissesAChange'
  BY <1>2, <1>7 DEF NobodyMissesAChange
<1> QED
  BY <1>6, <1>8
-----------------------------------------------------------------------------
(* A change of the tree.                                                    *)

\* A call that changed the children of a node has a record of it.
LEMMA ChangedAreTold ==
  ASSUME NEW t, Told(t), children \in [Node -> Seq(Node)], NEW s \in Node, t.children[s] # children[s]
  PROVE  \E i \in DOMAIN t.steps : t.steps[i].logged /\ t.steps[i].at = s
<1> DEFINE steps == t.steps
           n == Len(steps)
           P == {RecordOf(steps[i]) : i \in {j \in 1..n : steps[j].logged}}
           recs == RecordsOf(steps)
           m == Len(recs)
<1>1. PICK T : steps \in Seq(T)
  BY DEF Told, Stepped
<1>2. n \in Nat /\ DOMAIN steps = 1..n
  BY <1>1
<1>3. PICK g : RecordRounds(steps, n, g) /\ recs = g[n]
  BY <1>2, RecordsRun
<1>4. PICK f : ReplayRounds(children, recs, m, f) /\ f[m] = t.children
  BY DEF Told, Tells
<1> HIDE DEF steps, n, recs, P
<1>5. recs \in Seq(P)
  <2> DEFINE K == {k \in Nat : k <= n => g[k] \in Seq(P)}
  <2>1. 0 \in K
    <3>1. g[0] = <<>> /\ <<>> \in Seq(P)
      BY <1>3 DEF RecordRounds
    <3> QED BY <3>1
  <2>2. ASSUME NEW k \in Nat, k \in K PROVE k + 1 \in K
    <3>1. SUFFICES ASSUME k + 1 <= n PROVE g[k + 1] \in Seq(P)
      OBVIOUS
    <3>2. k + 1 \in 1..n /\ (k + 1) - 1 = k /\ g[k] \in Seq(P)
      BY <1>2, <2>2, <3>1
    <3>3. g[k + 1] = IF steps[k + 1].logged THEN Append(g[k], RecordOf(steps[k + 1])) ELSE g[k]
      BY <1>3, <3>2 DEF RecordRounds
    <3>4. steps[k + 1].logged => RecordOf(steps[k + 1]) \in P
      BY <3>2 DEF P
    <3>5. steps[k + 1].logged => Append(g[k], RecordOf(steps[k + 1])) \in Seq(P)
      BY <3>2, <3>4
    <3> QED BY <3>2, <3>3, <3>5
  <2>3. Nat \subseteq K
    <3> HIDE DEF K
    <3> QED BY <2>1, <2>2, Counting
  <2> QED BY <1>2, <1>3, <2>3
<1>6. m \in Nat /\ \A k \in 1..m : recs[k] \in P
  BY <1>5 DEF m
<1> HIDE DEF m
<1>7. PICK k \in 1..m : recs[k].target = s
  <2> SUFFICES ASSUME \A k \in 1..m : recs[k].target # s PROVE FALSE
    OBVIOUS
  <2> DEFINE K == {k \in Nat : k <= m => f[k] = [x \in Node |-> f[k][x]] /\ f[k][s] = children[s]}
  <2>1. 0 \in K
    <3>1. f[0] = children
      BY <1>4 DEF ReplayRounds
    <3> QED BY <3>1
  <2>2. ASSUME NEW k \in Nat, k \in K PROVE k + 1 \in K
    <3>1. SUFFICES ASSUME k + 1 <= m
                   PROVE  f[k + 1] = [x \in Node |-> f[k + 1][x]] /\ f[k + 1][s] = children[s]
      OBVIOUS
    <3>2. k + 1 \in 1..m /\ (k + 1) - 1 = k
      BY <1>6, <3>1
    <3>3. f[k + 1] = Replayed(f[k], recs[k + 1])
      BY <1>4, <3>2 DEF ReplayRounds
    <3>4. f[k] = [x \in Node |-> f[k][x]] /\ f[k][s] = children[s] /\ recs[k + 1].target # s
      BY <1>6, <2>2, <3>1, <3>2
    <3> DEFINE L == f[k]
               at == recs[k + 1].target
    <3>5. PICK list : f[k + 1] = [L EXCEPT ![at] = list]
      BY <3>3 DEF Replayed
    <3> HIDE DEF L, at
    <3>6. L = [x \in Node |-> L[x]] /\ L[s] = children[s] /\ at # s
      BY <3>4 DEF L, at
    <3>7. f[k + 1] = [x \in Node |-> f[k + 1][x]] /\ f[k + 1][s] = L[s]
      BY <3>5, <3>6
    <3> QED BY <3>6, <3>7
  <2>3. Nat \subseteq K
    <3> HIDE DEF K
    <3> QED BY <2>1, <2>2, Counting
  <2>4. f[m][s] = children[s]
    <3>1. m \in K
      BY <1>6, <2>3
    <3> QED BY <1>6, <3>1
  <2> QED BY <1>4, <2>4
<1>8. PICK i \in 1..n : steps[i].logged /\ recs[k] = RecordOf(steps[i])
  BY <1>6, <1>7 DEF P
<1>9. steps[i].at = s
  BY <1>7, <1>8 DEF RecordOf
<1> QED
  BY <1>2, <1>8, <1>9 DEF steps
-----------------------------------------------------------------------------
(* The flat tree.                                                           *)

\* A shadow root and its host name one another.
Hosted ==
  /\ rootOf \in [Node -> Node \cup {None}]
  /\ \A r \in Node : hostOf[r] # None =>
       r \in created /\ hostOf[r] \in DOMAIN Host /\ rootOf[hostOf[r]] = r
  /\ \A h \in Node : rootOf[h] # None => hostOf[rootOf[h]] = h

\* assign() was given lists that name nobody twice.
Picked ==
  /\ assigned \in [SlotElement -> Seq(Slottable)]
  /\ \A s \in SlotElement : IsInjective(assigned[s])

\* The first of a list is a member of it.
LEMMA FirstIs ==
  ASSUME NEW A, NEW list \in Seq(A)
  PROVE  /\ ToSet(list) = {} => FirstOf(list) = None
         /\ ToSet(list) # {} => FirstOf(list) \in ToSet(list)
<1>1. list = <<>> \/ (list # <<>> /\ 1 \in DOMAIN list /\ Head(list) = list[1])
  OBVIOUS
<1>2. CASE list = <<>>
  <2>1. ToSet(<<>>) = {}
    BY DEF ToSet
  <2> QED BY <1>2, <2>1 DEF FirstOf
<1>3. CASE list # <<>> /\ 1 \in DOMAIN list /\ Head(list) = list[1]
  BY <1>3 DEF FirstOf, ToSet
<1> QED
  BY <1>1, <1>2, <1>3

\* A slot shows children of the host, each once, and shares none with another.
LEMMA AssignedIs ==
  ASSUME TreeListsInv, Hosted, Picked, NEW r \in Roots, NEW s \in SlotElement
  PROVE  /\ AssignedIn(r, s) \in Seq(Node) /\ IsInjective(AssignedIn(r, s))
         /\ \A n \in ToSet(AssignedIn(r, s)) :
              /\ n \in Slottable /\ parent[n] = hostOf[r]
              /\ s = IF r \in manual THEN manualSlot[n] ELSE FirstNamed(r, wants[n])
<1> DEFINE h == hostOf[r]
           kids == children[h]
           byHand == {n \in Slottable : manualSlot[n] = s /\ parent[n] = h}
           byName == {n \in Slottable : wants[n] = name[s]}
<1>1. /\ h \in Node /\ kids \in Seq(Node) /\ IsInjective(kids) /\ ToSet(kids) = {c \in Node : parent[c] = h}
      /\ Slottable \subseteq Node
  <2>1. h \in Node
    BY LinksAre, NodeAssumption DEF Roots
  <2>2. Slottable \subseteq Node
    BY NodeAssumption DEF Slottable
  <2> HIDE DEF h
  <2> QED BY <2>1, <2>2, LinksAre
<1>2. assigned[s] \in Seq(Slottable) /\ IsInjective(assigned[s])
  BY DEF Picked
<1>3. CASE r \in manual
  <2>1. AssignedIn(r, s) = Kept(assigned[s], byHand)
    BY <1>3 DEF AssignedIn
  <2> HIDE DEF byHand, h, kids
  <2>2. /\ Kept(assigned[s], byHand) \in Seq(Slottable) /\ IsInjective(Kept(assigned[s], byHand))
        /\ ToSet(Kept(assigned[s], byHand)) = ToSet(assigned[s]) \cap byHand
    BY <1>2, KeptPicks, KeptOnceEach, KeptMembers
  <2>3. \A n \in byHand : n \in Slottable /\ manualSlot[n] = s /\ parent[n] = h
    BY DEF byHand
  <2>4. Kept(assigned[s], byHand) \in Seq(Node)
    BY <1>1, <2>2
  <2> QED BY <1>3, <2>1, <2>2, <2>3, <2>4 DEF h
<1>4. CASE r \notin manual /\ FirstNamed(r, name[s]) # s
  <2>1. AssignedIn(r, s) = <<>>
    BY <1>4 DEF AssignedIn
  <2>2. <<>> \in Seq(Node) /\ IsInjective(<<>>) /\ ToSet(<<>>) = {}
    BY DEF IsInjective, ToSet
  <2> QED BY <2>1, <2>2
<1>5. CASE r \notin manual /\ FirstNamed(r, name[s]) = s
  <2>1. AssignedIn(r, s) = Kept(kids, byName)
    BY <1>5 DEF AssignedIn
  <2> HIDE DEF byName, h, kids
  <2>2. /\ Kept(kids, byName) \in Seq(Node) /\ IsInjective(Kept(kids, byName))
        /\ ToSet(Kept(kids, byName)) = ToSet(kids) \cap byName
    BY <1>1, KeptPicks, KeptOnceEach, KeptMembers
  <2>3. \A n \in byName : n \in Slottable /\ wants[n] = name[s]
    BY DEF byName
  <2> QED BY <1>1, <1>5, <2>1, <2>2, <2>3 DEF h
<1> QED
  BY <1>3, <1>4, <1>5

\* assigned_slot finds the one slot that shows the node.
LEMMA AssignedSlotIs ==
  ASSUME TreeListsInv, Hosted, Picked, Known, NEW n, NEW r \in Roots, rootOf[parent[n]] = r,
         NEW s \in SlotElement
  PROVE  AssignedSlot(n) = s <=> Root(s) = r /\ n \in ToSet(Assigned(s))
<1> DEFINE S == {x \in SlotElement : n \in ToSet(AssignedIn(r, x))}
           list == Kept(Slots(r), S)
<1>1. AssignedSlot(n) = FirstOf(list)
  BY DEF AssignedSlot
<1>2. Roots \subseteq Fragment /\ Roots \subseteq Node /\ None \notin Node /\ SlotElement \subseteq Node
  BY SlotsAssumption, NodeAssumption DEF Roots
<1>3. Slots(r) \in Seq(SlotElement) /\ ToSet(Slots(r)) = {x \in SlotElement : Root(x) = r}
  BY <1>2, SlotsAre DEF Known, Row
<1> HIDE DEF S
<1>4. list \in Seq(SlotElement) /\ ToSet(list) = {x \in SlotElement : Root(x) = r} \cap S
  BY <1>3, KeptPicks, KeptMembers
<1>5. \A x \in SlotElement : Root(x) = r => Assigned(x) = AssignedIn(r, x)
  BY <1>2 DEF Assigned
<1>6. \A x \in SlotElement : x \in ToSet(list) <=> Root(x) = r /\ n \in ToSet(Assigned(x))
  BY <1>4, <1>5 DEF S
<1>7. \A x, y \in ToSet(list) : x = y
  <2>1. \A x \in ToSet(list) : x = IF r \in manual THEN manualSlot[n] ELSE FirstNamed(r, wants[n])
    BY <1>4, AssignedIs DEF S
  <2> QED BY <2>1
<1> HIDE DEF list
<1>8. /\ ToSet(list) = {} => FirstOf(list) = None
      /\ ToSet(list) # {} => FirstOf(list) \in ToSet(list)
  BY <1>4, FirstIs
<1> QED
  BY <1>1, <1>2, <1>6, <1>7, <1>8

\* The parent of a node in the flat tree.
LEMMA ParentIs ==
  ASSUME TreeListsInv, NEW n \in Node, hostOf[n] = None
  PROVE  /\ parent[n] = None => ComposedParent(n) = None
         /\ parent[n] # None =>
              /\ rootOf[parent[n]] # None => ComposedParent(n) = AssignedSlot(n)
              /\ rootOf[parent[n]] = None /\ Overridden(parent[n]) => ComposedParent(n) = None
              /\ rootOf[parent[n]] = None /\ ~Overridden(parent[n]) /\ hostOf[parent[n]] # None
                   => ComposedParent(n) = hostOf[parent[n]]
              /\ rootOf[parent[n]] = None /\ ~Overridden(parent[n]) /\ hostOf[parent[n]] = None
                   => ComposedParent(n) = parent[n]
<1> DEFINE q == parent[n]
           a == AssignedSlot(n)
           o == Overridden(q)
<1>1. ComposedParent(n) =
        CASE hostOf[n] # None -> hostOf[n]
          [] hostOf[n] = None /\ q = None -> None
          [] OTHER ->
               CASE rootOf[q] # None -> a
                 [] rootOf[q] = None /\ o -> None
                 [] rootOf[q] = None /\ hostOf[q] # None -> hostOf[q]
                 [] OTHER -> q
  BY DEF ComposedParent
<1>2. o => hostOf[q] = None
  <2>1. o => q \in SlotElement /\ q \in Element
    BY SlotsAssumption DEF Overridden
  <2> QED BY <2>1, LinksAre, NodeAssumption
<1> HIDE DEF q, a, o
<1>3. q = None => ComposedParent(n) = None
  BY <1>1
<1>4. ASSUME q # None
      PROVE  ComposedParent(n) = CASE rootOf[q] # None -> a
                                   [] rootOf[q] = None /\ o -> None
                                   [] rootOf[q] = None /\ hostOf[q] # None -> hostOf[q]
                                   [] OTHER -> q
  BY <1>1, <1>4
<1>5. ASSUME q # None
      PROVE  /\ rootOf[q] # None => ComposedParent(n) = a
             /\ rootOf[q] = None /\ o => ComposedParent(n) = None
             /\ rootOf[q] = None /\ ~o /\ hostOf[q] # None => ComposedParent(n) = hostOf[q]
             /\ rootOf[q] = None /\ ~o /\ hostOf[q] = None => ComposedParent(n) = q
  BY <1>2, <1>4, <1>5
<1> QED
  BY <1>3, <1>5 DEF q, a, o

\* Seen from below and from above, the same nodes are children of p.
LEMMA FlatTreeIs ==
  ASSUME TreeListsInv, Hosted, Picked, Known
  PROVE  FlatTreeAgrees
<1> DEFINE nodes == {n \in Node : hostOf[n] = None}
<1>1. SUFFICES ASSUME NEW p \in nodes
               PROVE  /\ IsInjective(ComposedChildren(p))
                      /\ {n \in nodes : ComposedParent(n) = p} = ToSet(ComposedChildren(p))
  BY DEF FlatTreeAgrees
<1>2. /\ None \notin Node /\ Roots \subseteq Node /\ Fragment \subseteq Node /\ SlotElement \subseteq Node
      /\ DOMAIN Host \cap SlotElement = {} /\ DOMAIN Host \cap Fragment = {} /\ SlotElement \cap Fragment = {}
      /\ DOMAIN Host \subseteq Node
  BY SlotsAssumption, NodeAssumption DEF Roots
<1>3. /\ parent \in [Node -> Node \cup {None}] /\ hostOf \in [Node -> Node \cup {None}]
      /\ \A n \in Node : hostOf[n] # None => n \in Fragment /\ parent[n] = None
      /\ \A n \in Node : /\ children[n] \in Seq(Node) /\ IsInjective(children[n])
                         /\ ToSet(children[n]) = {c \in Node : parent[c] = n}
  BY LinksAre
<1>4. /\ rootOf \in [Node -> Node \cup {None}]
      /\ \A r \in Node : hostOf[r] # None => hostOf[r] \in DOMAIN Host /\ rootOf[hostOf[r]] = r
      /\ \A h \in Node : rootOf[h] # None => h \in DOMAIN Host /\ hostOf[rootOf[h]] = h /\ rootOf[h] \in Roots
  <2>1. \A r \in Node : hostOf[r] # None => hostOf[r] \in DOMAIN Host /\ rootOf[hostOf[r]] = r
    BY DEF Hosted
  <2>2. rootOf \in [Node -> Node \cup {None}] /\ \A h \in Node : rootOf[h] # None => hostOf[rootOf[h]] = h
    BY DEF Hosted
  <2>3. ASSUME NEW h \in Node, rootOf[h] # None PROVE h \in DOMAIN Host /\ rootOf[h] \in Roots
    <3>1. rootOf[h] \in Node /\ hostOf[rootOf[h]] = h /\ h # None
      BY <1>2, <2>2, <2>3
    <3>2. h \in DOMAIN Host /\ rootOf[h] \in Fragment
      BY <1>3, <2>1, <3>1
    <3> QED BY <3>1, <3>2 DEF Roots
  <2> QED BY <2>1, <2>2, <2>3
<1>5. p \in Node /\ hostOf[p] = None
  OBVIOUS
<1>6. \A s \in SlotElement : /\ Root(s) \in Roots \cup {None}
                             /\ Root(s) = None => Assigned(s) = <<>>
  BY DEF Known
<1>7. ASSUME NEW s \in SlotElement, Root(s) # None
      PROVE  /\ IsInjective(Assigned(s))
             /\ \A n \in ToSet(Assigned(s)) : n \in Node /\ parent[n] = hostOf[Root(s)]
  <2>1. Root(s) \in Roots /\ Assigned(s) = AssignedIn(Root(s), s)
    BY <1>6, <1>7 DEF Assigned
  <2>2. \A n \in Slottable : n \in Node
    BY NodeAssumption DEF Slottable
  <2> QED BY <2>1, <2>2, AssignedIs
<1>8. ASSUME NEW n \in nodes, NEW s \in SlotElement, parent[n] # None, rootOf[parent[n]] # None,
             ComposedParent(n) = s
      PROVE  Overridden(s) /\ n \in ToSet(Assigned(s))
  <2>1. parent[n] \in Node /\ rootOf[parent[n]] \in Roots
    BY <1>3, <1>4, <1>8
  <2>2. AssignedSlot(n) = s
    BY <1>8, ParentIs
  <2>3. n \in ToSet(Assigned(s))
    BY <2>1, <2>2, AssignedSlotIs
  <2>4. Assigned(s) # <<>>
    BY <2>3 DEF ToSet
  <2> QED BY <2>3, <2>4 DEF Overridden
<1>9. ASSUME NEW n \in nodes, ComposedParent(n) = p
      PROVE  /\ parent[n] \in Node
             /\ rootOf[parent[n]] # None => p \in SlotElement
             /\ rootOf[parent[n]] = None => /\ ~Overridden(parent[n])
                                            /\ p = IF hostOf[parent[n]] # None THEN hostOf[parent[n]] ELSE parent[n]
  <2>1. parent[n] # None
    BY <1>2, <1>5, <1>9, ParentIs
  <2>2. parent[n] \in Node
    BY <1>3, <2>1
  <2>3. ASSUME rootOf[parent[n]] # None PROVE p \in SlotElement
    <3> DEFINE r == rootOf[parent[n]]
               S == {x \in SlotElement : n \in ToSet(AssignedIn(r, x))}
               list == Kept(Slots(r), S)
    <3>1. r \in Roots /\ r \in Fragment
      BY <1>4, <2>2, <2>3 DEF Roots
    <3>2. p = FirstOf(list)
      BY <1>9, <2>1, <2>3, ParentIs DEF AssignedSlot
    <3>3. Slots(r) \in Seq(SlotElement)
      BY <3>1, SlotsAre
    <3> HIDE DEF S, r
    <3>4. list \in Seq(SlotElement)
      BY <3>3, KeptPicks
    <3> HIDE DEF list
    <3>5. p \in ToSet(list)
      BY <1>2, <1>5, <3>2, <3>4, FirstIs
    <3> QED BY <3>4, <3>5 DEF ToSet
  <2>4. ASSUME rootOf[parent[n]] = None
        PROVE  /\ ~Overridden(parent[n])
               /\ p = IF hostOf[parent[n]] # None THEN hostOf[parent[n]] ELSE parent[n]
    BY <1>2, <1>5, <1>9, <2>1, <2>4, ParentIs
  <2> QED BY <2>2, <2>3, <2>4
<1>10. CASE Overridden(p)
  <2>1. p \in SlotElement /\ Assigned(p) # <<>> /\ ComposedChildren(p) = Assigned(p)
    BY <1>10 DEF Overridden, ComposedChildren
  <2>2. Root(p) \in Roots /\ Root(p) # None
    BY <1>6, <2>1
  <2>3. p \notin DOMAIN Host
    BY <1>2, <2>1
  <2>4. ASSUME NEW n \in ToSet(Assigned(p)) PROVE n \in nodes /\ ComposedParent(n) = p
    <3>1. n \in Node /\ parent[n] = hostOf[Root(p)]
      BY <1>7, <2>1, <2>2
    <3>2. parent[n] # None /\ parent[n] \in Node /\ rootOf[parent[n]] = Root(p)
      BY <1>2, <1>3, <1>4, <2>2, <3>1 DEF Roots
    <3>3. hostOf[n] = None
      BY <1>3, <3>1, <3>2
    <3>4. AssignedSlot(n) = p
      BY <2>1, <2>2, <3>2, AssignedSlotIs
    <3> QED BY <2>2, <3>1, <3>2, <3>3, <3>4, ParentIs
  <2>5. ASSUME NEW n \in nodes, ComposedParent(n) = p PROVE n \in ToSet(Assigned(p))
    <3>1. CASE rootOf[parent[n]] # None
      BY <1>2, <1>8, <1>9, <2>1, <2>5, <3>1
    <3>2. CASE rootOf[parent[n]] = None
      <4>1. parent[n] \in Node /\ ~Overridden(parent[n])
            /\ p = IF hostOf[parent[n]] # None THEN hostOf[parent[n]] ELSE parent[n]
        BY <1>9, <2>5, <3>2
      <4> QED BY <1>4, <1>10, <2>3, <4>1
    <3> QED BY <3>1, <3>2
  <2> QED BY <1>7, <2>1, <2>2, <2>4, <2>5
<1>11. CASE ~Overridden(p) /\ rootOf[p] # None
  <2> DEFINE r == rootOf[p]
  <2>1. ComposedChildren(p) = children[r]
    BY <1>11 DEF ComposedChildren
  <2>2. r \in Node /\ r \in Fragment /\ hostOf[r] = p /\ p \in DOMAIN Host /\ p \notin SlotElement
    BY <1>2, <1>4, <1>5, <1>11 DEF Roots
  <2>3. rootOf[r] = None /\ ~Overridden(r)
    BY <1>2, <1>4, <2>2 DEF Overridden
  <2> HIDE DEF r
  <2>4. ASSUME NEW n \in Node, parent[n] = r PROVE n \in nodes /\ ComposedParent(n) = p
    <3>1. hostOf[n] = None /\ parent[n] # None
      BY <1>2, <1>3, <2>2, <2>4
    <3> QED BY <1>2, <1>5, <2>2, <2>3, <2>4, <3>1, ParentIs
  <2>5. ASSUME NEW n \in nodes, ComposedParent(n) = p PROVE parent[n] = r
    <3>1. rootOf[parent[n]] = None /\ parent[n] \in Node
      BY <1>9, <2>2, <2>5
    <3>2. p = IF hostOf[parent[n]] # None THEN hostOf[parent[n]] ELSE parent[n]
      BY <1>9, <2>5, <3>1
    <3> QED BY <1>4, <1>11, <3>1, <3>2 DEF r
  <2>6. IsInjective(children[r]) /\ ToSet(children[r]) = {c \in Node : parent[c] = r}
    BY <1>3, <2>2
  <2> QED BY <2>1, <2>4, <2>5, <2>6
<1>12. CASE ~Overridden(p) /\ rootOf[p] = None
  <2>1. ComposedChildren(p) = children[p]
    BY <1>12 DEF ComposedChildren
  <2>2. ASSUME NEW n \in Node, parent[n] = p PROVE n \in nodes /\ ComposedParent(n) = p
    <3>1. hostOf[n] = None /\ parent[n] # None
      BY <1>2, <1>3, <1>5, <2>2
    <3> QED BY <1>5, <1>12, <2>2, <3>1, ParentIs
  <2>3. ASSUME NEW n \in nodes, ComposedParent(n) = p PROVE parent[n] = p
    <3>1. CASE rootOf[parent[n]] # None
      <4>1. p \in SlotElement /\ parent[n] # None
        BY <1>2, <1>9, <2>3, <3>1
      <4> QED BY <1>8, <1>12, <2>3, <3>1, <4>1
    <3>2. CASE rootOf[parent[n]] = None
      <4>1. parent[n] \in Node /\ p = IF hostOf[parent[n]] # None THEN hostOf[parent[n]] ELSE parent[n]
        BY <1>9, <2>3, <3>2
      <4>2. hostOf[parent[n]] # None => rootOf[p] = parent[n]
        BY <1>4, <4>1
      <4> QED BY <1>2, <1>12, <4>1, <4>2
    <3> QED BY <3>1, <3>2
  <2> QED BY <1>3, <1>5, <2>1, <2>2, <2>3
<1> QED
  BY <1>10, <1>11, <1>12
-----------------------------------------------------------------------------
(* The invariant.                                                           *)

\* The trees and shadow roots are sound, what was written down is what there
\* is, and what changed since its listeners heard is signalled.
SlotsInv == TreeListsInv /\ Hosted /\ Picked /\ Written /\ NobodyMissesAChange

\* Without hosts no slot has a root.
LEMMA InitSlotsInv == SlotsInit => SlotsInv
<1>1. SUFFICES ASSUME SlotsInit PROVE SlotsInv
  OBVIOUS
<1>2. TreeListsInv /\ Known
  BY <1>1, InitTreeListsInv, KnownIs DEF SlotsInit
<1>3. (\A n \in Node : hostOf[n] = None) /\ rootOf = [n \in Node |-> None]
  BY <1>1 DEF SlotsInit, Init
<1>4. Hosted
  BY <1>3 DEF Hosted
<1>5. Picked
  <2>1. assigned = [s \in SlotElement |-> <<>>]
    BY <1>1 DEF SlotsInit
  <2>2. <<>> \in Seq(Slottable) /\ IsInjective(<<>>)
    BY DEF IsInjective
  <2> QED BY <2>1, <2>2 DEF Picked
<1>6. \A s \in SlotElement : Root(s) = None
  BY <1>2, <1>3, NodeAssumption DEF Known, Roots
<1>7. Written
  <2>1. \A r \in Fragment : rows[r] = <<>>
    BY <1>1 DEF SlotsInit
  <2>2. DOMAIN <<>> = {} /\ None \notin Fragment
    BY NodeAssumption
  <2>3. \A s \in SlotElement : view[s] = View(s)
    BY <1>1 DEF SlotsInit
  <2> QED BY <1>6, <2>1, <2>2, <2>3 DEF Written
<1>8. NobodyMissesAChange
  BY <1>1 DEF SlotsInit, NobodyMissesAChange
<1> QED
  BY <1>2, <1>4, <1>5, <1>7, <1>8 DEF SlotsInv

\* A step that leaves the tree alone keeps what is known of it.
LEMMA StillTree ==
  ASSUME TreeListsInv, UNCHANGED vars
  PROVE  TreeListsInv' /\ Known' /\ (Hosted => Hosted')
<1>1. TreeListsInv'
  BY NextKeepsTreeListsInv
<1>2. Hosted => Hosted'
  BY DEF Hosted, vars
<1> QED
  BY <1>1, <1>2, KnownNext

\* So does one that changes nothing that slots are found by.
LEMMA StillSlots ==
  ASSUME Written, UNCHANGED <<vars, manual, name, wants, assigned, manualSlot, rows, view>>
  PROVE  Written'
<1>1. UNCHANGED <<created, parent, children, hostOf, rootOf>>
  BY DEF vars
<1>2. ASSUME NEW r PROVE Slots(r)' = Slots(r)
  BY <1>1 DEF Slots, SlotsBelow
<1>3. ASSUME NEW r, NEW s PROVE AssignedIn(r, s)' = AssignedIn(r, s)
  <2>1. \A v : FirstNamed(r, v)' = FirstNamed(r, v)
    BY <1>2 DEF FirstNamed
  <2> QED BY <1>1, <2>1 DEF AssignedIn
<1>4. ASSUME NEW s PROVE Root(s)' = Root(s)
  BY <1>1 DEF Root, Ends
<1>5. ASSUME NEW s PROVE Assigned(s)' = Assigned(s) /\ View(s)' = View(s)
  BY <1>1, <1>3, <1>4 DEF Assigned, View
<1> QED
  BY <1>4, <1>5 DEF Written

\* Every node finds the shadow root above it.
RootsFound ==
  \A n \in Node : /\ Root(n) \in Roots \cup {None}
                  /\ \A r \in Roots : Root(n) = r <=> r \in Chain(parent, n)

\* From RootIs, for all nodes at once.
LEMMA RootsAre == TreeListsInv => RootsFound
BY RootIs DEF RootsFound

\* And in the next state.
LEMMA RootsNext == TreeListsInv' => RootsFound'
BY RootsAre, PTL

\* attach_shadow: the new root holds nothing.
LEMMA AttachKeeps ==
  ASSUME SlotsInv, NEW host \in DOMAIN Host \cap created, NEW byHand, Attach(host, Host[host], byHand)
  PROVE  SlotsInv'
<1> DEFINE root == Host[host]
<1>1. /\ root \in Fragment /\ host \in Element /\ host \in created
      /\ Fragment \subseteq Node /\ Element \subseteq Node /\ None \notin Node
      /\ SlotElement \subseteq Node /\ SlotElement \cap Fragment = {}
  BY SlotsAssumption, NodeAssumption
<1>2. /\ rootOf[host] = None /\ AttachShadow(host, root)
      /\ manual' = IF byHand THEN manual \cup {root} ELSE manual
      /\ UNCHANGED <<name, wants, assigned, manualSlot, rows, signals, firing, view, changed>>
  BY DEF Attach
<1>3. /\ root \notin created /\ created' = created \cup {root}
      /\ hostOf' = [hostOf EXCEPT ![root] = host] /\ rootOf' = [rootOf EXCEPT ![host] = root]
      /\ UNCHANGED <<parent, children>>
  BY <1>2 DEF AttachShadow
<1>4. TreeListsInv /\ TreeListsInv' /\ Known /\ Known' /\ Hosted /\ Picked /\ Written /\ NobodyMissesAChange
  BY <1>1, <1>2, AttachShadowKeeps, KnownIs, KnownNext DEF SlotsInv
<1> HIDE DEF root
<1>5. /\ parent \in [Node -> Node \cup {None}] /\ hostOf \in [Node -> Node \cup {None}]
      /\ \A n \in Node : parent[n] # None => n \in created /\ parent[n] \in created
      /\ created \subseteq Node
  BY <1>4, LinksAre DEF TreeListsInv
<1>6. hostOf[root] = None /\ Roots' = Roots \cup {root} /\ \A r \in Roots : r \in created /\ hostOf'[r] = hostOf[r]
  BY <1>1, <1>3, <1>4, <1>5 DEF Hosted, Roots
<1>7. Hosted'
  <2>1. rootOf' \in [Node -> Node \cup {None}]
    BY <1>1, <1>3, <1>4 DEF Hosted
  <2>2. ASSUME NEW r \in Node, hostOf'[r] # None
        PROVE  r \in created' /\ hostOf'[r] \in DOMAIN Host /\ rootOf'[hostOf'[r]] = r
    <3>1. CASE r = root
      BY <1>1, <1>3, <1>4, <1>5, <3>1 DEF Hosted
    <3>2. CASE r # root
      <4>1. hostOf'[r] = hostOf[r] /\ hostOf[r] # host
        BY <1>1, <1>2, <1>3, <1>4, <1>5, <2>2, <3>2 DEF Hosted
      <4> QED BY <1>1, <1>3, <1>4, <1>5, <2>2, <4>1 DEF Hosted
    <3> QED BY <3>1, <3>2
  <2>3. ASSUME NEW h \in Node, rootOf'[h] # None PROVE hostOf'[rootOf'[h]] = h
    <3>1. CASE h = host
      BY <1>1, <1>3, <1>4, <1>5, <3>1 DEF Hosted
    <3>2. CASE h # host
      <4>1. rootOf'[h] = rootOf[h] /\ rootOf[h] \in Node
        BY <1>3, <1>4, <2>3, <3>2 DEF Hosted
      <4>2. hostOf[rootOf[h]] = h /\ h # None
        BY <1>1, <1>4, <2>3, <4>1 DEF Hosted
      <4>3. rootOf[h] # root
        BY <1>6, <4>2
      <4> QED BY <1>3, <1>5, <4>1, <4>2, <4>3
    <3> QED BY <3>1, <3>2
  <2> QED BY <2>1, <2>2, <2>3 DEF Hosted
<1>8. ASSUME NEW s \in SlotElement
      PROVE  Root(s)' = Root(s) /\ Assigned(s)' = Assigned(s) /\ View(s)' = View(s)
  <2>1. s \in Node /\ s # root
    BY <1>1
  <2>2. root \notin Chain(parent, s)
    <3> DEFINE A == {s} \cup created
    <3>1. A \in SUBSET Node /\ s \in A /\ root \notin A /\ \A m \in A : parent[m] \in A \cup {None}
      BY <1>3, <1>5, <2>1
    <3> HIDE DEF A
    <3>2. Chain(parent, s) \subseteq A
      BY <1>5, <2>1, <3>1, ChainIs
    <3> QED BY <3>1, <3>2
  <2>3. Root(s) \in Roots \cup {None} /\ \A r \in Roots : Root(s) = r <=> r \in Chain(parent, s)
    BY <1>4, <2>1, RootIs
  <2>4. Root(s)' \in Roots' \cup {None} /\ \A r \in Roots' : Root(s)' = r <=> r \in Chain(parent, s)
    BY <1>3, <1>4, <2>1, RootsNext DEF RootsFound
  <2>5. Root(s)' = Root(s)
    BY <1>1, <1>6, <2>2, <2>3, <2>4 DEF Roots
  <2>6. \A r : Slots(r)' = Slots(r)
    BY <1>3 DEF Slots, SlotsBelow
  <2>7. \A r, v : FirstNamed(r, v)' = FirstNamed(r, v)
    BY <1>2, <2>6 DEF FirstNamed
  <2>8. ASSUME NEW r \in Roots PROVE AssignedIn(r, s)' = AssignedIn(r, s)
    <3>1. r \in manual' <=> r \in manual
      BY <1>2, <1>3, <1>6
    <3>2. \A v : FirstNamed(r, v)' = FirstNamed(r, v)
      BY <2>7
    <3>3. /\ hostOf'[r] = hostOf[r] /\ children' = children /\ parent' = parent
          /\ name' = name /\ wants' = wants /\ assigned' = assigned /\ manualSlot' = manualSlot
      BY <1>2, <1>3, <1>6
    <3> QED BY <3>1, <3>2, <3>3 DEF AssignedIn
  <2>9. Assigned(s)' = Assigned(s)
    BY <2>3, <2>5, <2>8 DEF Assigned
  <2>10. Shows(s)' = Shows(s)
    BY <1>3, <2>5, <2>9 DEF Shows
  <2>11. View(s)' = View(s)
    BY <1>4, <2>5, <2>9, <2>10 DEF Known
  <2> QED BY <2>5, <2>9, <2>11
<1>9. Written'
  BY <1>2, <1>4, <1>8 DEF Written
<1>10. Picked' /\ NobodyMissesAChange'
  BY <1>2, <1>4 DEF Picked, NobodyMissesAChange
<1> QED
  BY <1>4, <1>7, <1>9, <1>10 DEF SlotsInv

\* A change of the tree keeps the invariant: its records name all parents
\* whose lists it changed.
LEMMA ChangeTreeKeeps ==
  ASSUME SlotsInv, NEW t, Told(t), ChangeTree(t), TreeListsInv'
  PROVE  SlotsInv'
<1>1. Known /\ Known' /\ Hosted /\ Picked /\ Written /\ NobodyMissesAChange
  BY KnownIs, KnownNext DEF SlotsInv
<1>2. /\ children' = t.children /\ hostOf' = hostOf /\ rootOf' = rootOf /\ created' = created
      /\ manual' = manual /\ assigned' = assigned /\ Refresh(Fallback(t.steps))
  BY DEF ChangeTree, Do
<1>3. children \in [Node -> Seq(Node)] /\ SlotElement \subseteq Node
  BY TreeFields, SlotsAssumption, NodeAssumption DEF SlotsInv, TreeListsInv, Ready, Fit, Shaped
<1>4. ASSUME NEW s \in SlotElement, children'[s] # children[s], Assigned(s)' = <<>>, Root(s)' # None
      PROVE  s \in Fallback(t.steps)
  <2>1. \E i \in DOMAIN t.steps : t.steps[i].logged /\ t.steps[i].at = s
    BY <1>2, <1>3, <1>4, ChangedAreTold
  <2> QED BY <1>4, <2>1 DEF Fallback
<1>5. Written' /\ NobodyMissesAChange'
  BY <1>1, <1>2, <1>4, RefreshTells
<1>6. Hosted' /\ Picked'
  BY <1>1, <1>2 DEF Hosted, Picked
<1> QED
  BY <1>5, <1>6 DEF SlotsInv

\* insert_before.
LEMMA InsertKeeps ==
  ASSUME SlotsInv, NEW p \in created, NEW c \in created, c \in Slottable,
         NEW ref \in {None} \cup ToSet(children[p]), Insert(p, c, ref)
  PROVE  SlotsInv'
<1>1. TreeListsInv /\ p \in Node /\ c \in Node /\ c # Document
  BY NodeAssumption DEF SlotsInv, TreeListsInv, Slottable
<1>2. /\ ~IsInclusiveAncestor(Tree, c, p) /\ ChangeTree(InsertTree(p, c, ref))
      /\ Do(InsertTree(p, c, ref)) /\ created' = created
  BY DEF Insert, ChangeTree
<1>3. ref = None \/ ref \in KidsOf(Tree, p)
  BY <1>1, TreeFields DEF TreeListsInv, Ready, Fit, Paired
<1>4. Told(InsertTree(p, c, ref))
  BY <1>1, <1>2, <1>3, InsertTreeTold
<1>5. TreeListsInv'
  BY <1>1, <1>2, InsertTreeKeeps
<1> QED
  BY <1>2, <1>4, <1>5, ChangeTreeKeeps

\* remove_child.
LEMMA TakeOutKeeps ==
  ASSUME SlotsInv, NEW p \in Container \cap created, NEW c \in created, TakeOut(p, c)
  PROVE  SlotsInv'
<1>1. TreeListsInv /\ p \in Node /\ c \in Node /\ Fit(Tree)
  BY DEF SlotsInv, TreeListsInv, Ready
<1>2. /\ parent[c] = p /\ ChangeTree(Unlink(Tree, p, c, TRUE))
      /\ RemoveChild(p, c)
  BY DEF TakeOut, ChangeTree, RemoveChild
<1>3. Told(Unlink(Tree, p, c, TRUE))
  BY <1>1, <1>2, TreeFields, TreeTold, UnlinkTold
<1>4. TreeListsInv'
  <2>1. Next
    BY <1>2 DEF Next
  <2> QED BY <1>1, <2>1, NextKeepsTreeListsInv
<1> QED
  BY <1>2, <1>3, <1>4, ChangeTreeKeeps

\* replace_children, by one node.
LEMMA ReplaceKeeps ==
  ASSUME SlotsInv, NEW p \in created, NEW c \in created, c \in Slottable, Replace(p, <<c>>)
  PROVE  SlotsInv'
<1>1. /\ TreeListsInv /\ p \in Node /\ c \in Node /\ c # Document /\ c \notin Fragment
      /\ created \in SUBSET Node
  BY NodeAssumption DEF SlotsInv, TreeListsInv, Slottable
<1> DEFINE ns == <<c>>
           t == InsertNodes(Tree, p, ns, AnchorBefore(None), children[p])
<1>2. Entering(p, ns) /\ ChangeTree(t) /\ Do(t) /\ created' = created
  BY DEF Replace, ChangeTree
<1>3. /\ ns \in Seq(Node) /\ ToSet(ns) = {c} /\ IsInjective(ns)
      /\ DOMAIN ns = {1} /\ ns[1] = c
  BY <1>1, OneArgument
<1>4. /\ children[p] \in Seq(Node) /\ ToSet(children[p]) = KidsOf(Tree, p)
  BY <1>1, TreeFields DEF TreeListsInv, Ready, Fit, Shaped, Paired
<1> HIDE DEF ns
<1>5. ~Repeats(ns) /\ Enters(Tree, p, ns)
  BY <1>1, <1>2, <1>3 DEF Repeats, Enters, Entering
<1>6. Told(t)
  BY <1>1, <1>3, <1>5, ReplaceChildrenTold
<1>7. TreeListsInv'
  BY <1>1, <1>2, <1>3, <1>4, <1>5, InsertNodesKeeps
<1> HIDE DEF t
<1> QED
  BY <1>2, <1>6, <1>7, ChangeTreeKeeps

\* Names and lists: the tree is as it was.
LEMMA WordsKeep ==
  ASSUME SlotsInv, UNCHANGED vars, manual' = manual, Refresh({}), Picked'
  PROVE  SlotsInv'
<1>1. /\ Known /\ Known' /\ Written /\ NobodyMissesAChange /\ TreeListsInv' /\ Hosted'
      /\ hostOf' = hostOf /\ children' = children
  BY KnownIs, StillTree DEF SlotsInv, vars
<1>2. Written' /\ NobodyMissesAChange'
  BY <1>1, RefreshTells
<1> QED
  BY <1>1, <1>2 DEF SlotsInv

\* assign.
LEMMA AssignKeeps ==
  ASSUME SlotsInv, NEW s \in SlotElement, NEW ns \in Seq(Slotted), IsInjective(ns), Assign(s, ns)
  PROVE  SlotsInv'
<1>1. ns \in Seq(Slottable)
  BY SlotsAssumption DEF Slottable
<1>2. UNCHANGED vars /\ manual' = manual /\ Refresh({}) /\ assigned' = Taken(s, ns)
  BY DEF Assign
<1>3. ASSUME NEW x \in SlotElement
      PROVE  Taken(s, ns)[x] \in Seq(Slottable) /\ IsInjective(Taken(s, ns)[x])
  <2> DEFINE S == {n \in Slottable : ~(n \in ToSet(ns) /\ manualSlot[n] = x)}
  <2>1. Taken(s, ns)[x] = IF x = s THEN ns ELSE Kept(assigned[x], S)
    BY DEF Taken
  <2>2. assigned[x] \in Seq(Slottable) /\ IsInjective(assigned[x])
    BY DEF SlotsInv, Picked
  <2> HIDE DEF S
  <2>3. Kept(assigned[x], S) \in Seq(Slottable) /\ IsInjective(Kept(assigned[x], S))
    BY <2>2, KeptPicks, KeptOnceEach
  <2> QED BY <1>1, <2>1, <2>3
<1>4. Picked'
  <2>1. Taken(s, ns) = [x \in SlotElement |-> Taken(s, ns)[x]]
    BY DEF Taken
  <2> QED BY <1>2, <1>3, <2>1 DEF Picked
<1> QED
  BY <1>2, <1>4, WordsKeep

\* Every step keeps the invariant.
LEMMA NextKeepsSlotsInv == SlotsInv /\ [SlotsNext]_slotAll => SlotsInv'
<1>1. SUFFICES ASSUME SlotsInv, [SlotsNext]_slotAll PROVE SlotsInv'
  OBVIOUS
<1>2. TreeListsInv /\ Hosted /\ Picked /\ Written /\ NobodyMissesAChange
  BY <1>1 DEF SlotsInv
<1>3. \A c \in DOMAIN Homes : c \in Slottable
  BY SlotsAssumption DEF Slottable
<1>4. ASSUME NEW h \in DOMAIN Host \cap created, NEW byHand \in BOOLEAN, Attach(h, Host[h], byHand)
      PROVE  SlotsInv'
  BY <1>1, <1>4, AttachKeeps
<1>5. ASSUME NEW c \in DOMAIN Homes \cap created, NEW p \in Homes[c] \cap created,
             \/ \E ref \in {None} \cup ToSet(children[p]) : Insert(p, c, ref)
             \/ Replace(p, <<c>>)
      PROVE  SlotsInv'
  BY <1>1, <1>3, <1>5, InsertKeeps, ReplaceKeeps
<1>6. ASSUME NEW c \in DOMAIN Homes \cap created, NEW p \in Container \cap created, TakeOut(p, c)
      PROVE  SlotsInv'
  BY <1>1, <1>6, TakeOutKeeps
<1>7. ASSUME NEW x, NEW v, SetName(x, v) \/ SetSlot(x, v)
      PROVE  SlotsInv'
  <2>1. UNCHANGED vars /\ manual' = manual /\ assigned' = assigned /\ Refresh({})
    BY <1>7 DEF SetName, SetSlot
  <2>2. Picked'
    BY <1>2, <2>1 DEF Picked
  <2> QED BY <1>1, <2>1, <2>2, WordsKeep
<1>8. ASSUME NEW s \in SlotElement, NEW ns \in BoundedSeq(Slotted, MaxArgs), IsInjective(ns), Assign(s, ns)
      PROVE  SlotsInv'
  <2>1. ns \in Seq(Slotted)
    BY BoundedLists
  <2> QED BY <1>1, <1>8, <2>1, AssignKeeps
<1>9. ASSUME UNCHANGED <<vars, manual, name, wants, assigned, manualSlot, rows, view>>
      PROVE  TreeListsInv' /\ Hosted' /\ Picked' /\ Written'
  BY <1>2, <1>9, StillTree, StillSlots DEF Picked
<1>10. CASE Deliver
  <2>1. UNCHANGED <<vars, manual, name, wants, assigned, manualSlot, rows, view>>
    BY <1>10 DEF Deliver
  <2>2. NobodyMissesAChange'
    BY <1>2, <1>10 DEF Deliver, NobodyMissesAChange
  <2> QED BY <1>9, <2>1, <2>2 DEF SlotsInv
<1>11. ASSUME NEW s \in SlotElement, Fire(s) PROVE SlotsInv'
  <2>1. UNCHANGED <<vars, manual, name, wants, assigned, manualSlot, rows, view>>
    BY <1>11 DEF Fire
  <2>2. NobodyMissesAChange'
    BY <1>2, <1>11 DEF Fire, NobodyMissesAChange
  <2> QED BY <1>9, <2>1, <2>2 DEF SlotsInv
<1>12. CASE UNCHANGED slotAll
  <2>1. /\ UNCHANGED <<vars, manual, name, wants, assigned, manualSlot, rows, view>>
        /\ UNCHANGED <<signals, firing, changed>>
    BY <1>12 DEF slotAll, slotVars
  <2>2. NobodyMissesAChange'
    BY <1>2, <2>1 DEF NobodyMissesAChange
  <2> QED BY <1>9, <2>1, <2>2 DEF SlotsInv
<1>13. CASE Call
  BY <1>4, <1>5, <1>6, <1>7, <1>8, <1>13 DEF Call
<1> QED
  BY <1>1, <1>10, <1>11, <1>12, <1>13 DEF SlotsNext

\* Hosts and shadow roots name one another, every slot is written down by the
\* root above it as it is now, by name or by hand (`distribution` of
\* shadow_slots.rs), and what changed since listeners last heard is signalled.
THEOREM SlotsInvariant == SlotsSpec => []SlotsInv
BY InitSlotsInv, NextKeepsSlotsInv, PTL DEF SlotsSpec

\* refresh and mutation of shadow_slots.rs miss nothing: a slot that shows
\* other nodes than its slotchange listeners last found is signalled, whatever
\* moved, was renamed or was assigned by hand, in one call or over many.
THEOREM NobodyIsMissed == SlotsSpec => []NobodyMissesAChange
<1>1. SlotsInv => NobodyMissesAChange
  BY DEF SlotsInv
<1> QED BY <1>1, SlotsInvariant, PTL

\* composed_parent and composed_children of shadow_slots.rs are inverse: a node
\* is listed once, by its parent in the flat tree, or it has none and nobody
\* lists it, for any trees, hosts within hosts, names and lists.
THEOREM FlatTreeIsOne == SlotsSpec => []FlatTreeAgrees
<1>1. SlotsInv => FlatTreeAgrees
  BY KnownIs, FlatTreeIs DEF SlotsInv
<1> QED BY <1>1, SlotsInvariant, PTL

=============================================================================
