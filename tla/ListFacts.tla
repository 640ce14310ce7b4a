------------------------------ MODULE ListFacts ------------------------------
(***************************************************************************)
(* Facts about the operators of Lists.  Kept is a recursive function; what  *)
(* it computes is proved from the fact that every set of naturals that is   *)
(* not empty has a least one (WFMin), so no operator is a parameter.        *)
(***************************************************************************)
EXTENDS Lists, WellFoundedInduction, SequenceTheorems, TLAPS

\* A set that holds 0, and with each number the next, holds them all.
LEMMA Counting ==
  ASSUME NEW T, 0 \in T, \A n \in Nat : n \in T => n + 1 \in T
  PROVE  Nat \subseteq T
<1> DEFINE Out == Nat \ T
<1>1. SUFFICES ASSUME Out # {} PROVE FALSE
  OBVIOUS
<1>2. IsWellFoundedOn(OpToRel(<, Nat), Nat)
  BY NatLessThanWellFounded
<1>3. \E x \in Out : \A y \in Out : ~(<<y, x>> \in OpToRel(<, Nat))
  BY <1>1, <1>2, WFMin
<1>4. PICK x \in Out : \A y \in Out : ~(y < x)
  BY <1>3 DEF OpToRel
<1>5. x - 1 \in Nat /\ x - 1 \notin Out
  BY <1>4
<1>6. (x - 1) + 1 \in T
  BY <1>5
<1> QED
  BY <1>4, <1>6

\* f is a run of the recursion of Kept.
Grows(s, S, f) ==
  \A k \in DOMAIN f :
    f[k] = IF k = 0 THEN <<>>
           ELSE IF s[k] \in S THEN Append(f[k-1], s[k]) ELSE f[k-1]

\* The recursion that Kept is written with has its value.
LEMMA KeptExists ==
  ASSUME NEW s, Len(s) \in Nat, NEW S
  PROVE  \E f : /\ f = [k \in 0..Len(s) |-> f[k]]
                /\ Grows(s, S, f)
                /\ Kept(s, S) = f[Len(s)]
<1> DEFINE Good(n, f) == /\ f = [k \in 0..n |-> f[k]]
                         /\ Grows(s, S, f)
           T == {n \in Nat : \E f : Good(n, f)}
<1>1. 0 \in T
  <2> DEFINE f == [k \in 0..0 |-> <<>>]
  <2>1. Good(0, f)
    BY DEF Grows
  <2> QED
    BY <2>1
<1>2. ASSUME NEW n \in Nat, n \in T
      PROVE  n + 1 \in T
  <2>1. PICK f : Good(n, f)
    BY <1>2
  <2> DEFINE last == IF s[n+1] \in S THEN Append(f[n], s[n+1]) ELSE f[n]
             g == [k \in 0..(n+1) |-> IF k = n + 1 THEN last ELSE f[k]]
  <2>2. DOMAIN f = 0..n /\ Grows(s, S, f)
    BY <2>1
  <2>3. g = [k \in 0..(n+1) |-> g[k]]
    OBVIOUS
  <2>4. ASSUME NEW k \in 0..(n+1)
        PROVE g[k] = IF k = 0 THEN <<>>
               ELSE IF s[k] \in S THEN Append(g[k-1], s[k]) ELSE g[k-1]
    <3>1. CASE k = n + 1
      <4>1. g[k] = last /\ g[k-1] = f[n] /\ k # 0
        BY <3>1
      <4> HIDE DEF g
      <4> QED BY <4>1, <3>1
    <3>2. CASE k = 0
      <4>1. f[0] = <<>>
        BY <2>2 DEF Grows
      <4> QED BY <3>2, <4>1
    <3>3. CASE k \in 1..n
      <4>1. g[k] = f[k] /\ g[k-1] = f[k-1] /\ k # 0
        BY <3>3
      <4>2. f[k] = IF s[k] \in S THEN Append(f[k-1], s[k]) ELSE f[k-1]
        BY <2>2, <3>3 DEF Grows
      <4> HIDE DEF g
      <4> QED BY <4>1, <4>2
    <3> QED BY <3>1, <3>2, <3>3
  <2>5. DOMAIN g = 0..(n+1)
    OBVIOUS
  <2> HIDE DEF g
  <2>6. Good(n+1, g)
    BY <2>3, <2>4, <2>5 DEF Grows
  <2> QED
    BY <2>6
<1>3. PICK f : Good(Len(s), f)
  BY <1>1, <1>2, Counting
<1> DEFINE Def(h) == h = [k \in 0..Len(s) |->
              IF k = 0 THEN <<>>
              ELSE IF s[k] \in S THEN Append(h[k-1], s[k]) ELSE h[k-1]]
<1>4. Def(f)
  BY <1>3 DEF Grows
<1>5. Def(CHOOSE h : Def(h))
  BY <1>4
<1>6. Kept(s, S) = (CHOOSE h : Def(h))[Len(s)]
  BY DEF Kept
<1> DEFINE c == CHOOSE h : Def(h)
<1>7. c = [k \in 0..Len(s) |-> c[k]] /\ Grows(s, S, c)
  <2> SUFFICES ASSUME NEW h, Def(h) PROVE h = [k \in 0..Len(s) |-> h[k]] /\ Grows(s, S, h)
    BY <1>5
  <2> QED BY DEF Grows
<1> QED
  BY <1>6, <1>7

\* The members of t are those of the first n of s that are in S, at places e.
Picks(t, s, n, S, e) ==
  /\ e \in [1..Len(t) -> 1..n]
  /\ \A j, k \in 1..Len(t) : j < k => e[j] < e[k]
  /\ \A k \in 1..Len(t) : t[k] = s[e[k]] /\ t[k] \in S
  /\ \A k \in 1..n : s[k] \in S => \E j \in 1..Len(t) : e[j] = k

\* Kept picks places of s in their order: those whose member is in S.
LEMMA KeptPicks ==
  ASSUME NEW A, NEW s \in Seq(A), NEW S
  PROVE  Kept(s, S) \in Seq(A) /\ \E e : Picks(Kept(s, S), s, Len(s), S, e)
<1>1. PICK f : /\ f = [k \in 0..Len(s) |-> f[k]]
               /\ Grows(s, S, f)
               /\ Kept(s, S) = f[Len(s)]
  BY KeptExists
<1>2. DOMAIN f = 0..Len(s) /\ Len(s) \in Nat /\ Grows(s, S, f)
  BY <1>1
<1> DEFINE Good(n) == f[n] \in Seq(A) /\ \E e : Picks(f[n], s, n, S, e)
           T == {n \in Nat : n <= Len(s) => Good(n)}
<1>3. 0 \in T
  <2>1. f[0] = <<>>
    BY <1>2 DEF Grows
  <2>2. Picks(<<>>, s, 0, S, <<>>)
    BY DEF Picks
  <2>3. <<>> \in Seq(A)
    OBVIOUS
  <2>4. \E e : Picks(f[0], s, 0, S, e)
    BY <2>1, <2>2
  <2> QED BY <2>1, <2>3, <2>4
<1>4. ASSUME NEW n \in Nat, n \in T
      PROVE  n + 1 \in T
  <2> SUFFICES ASSUME n + 1 <= Len(s) PROVE Good(n + 1)
    OBVIOUS
  <2>1. PICK e : Picks(f[n], s, n, S, e)
    BY <1>4
  <2>2. f[n] \in Seq(A) /\ s[n+1] \in A
    BY <1>4
  <2>3. f[n+1] = IF s[n+1] \in S THEN Append(f[n], s[n+1]) ELSE f[n]
    <3>1. n + 1 \in DOMAIN f /\ n + 1 # 0 /\ (n + 1) - 1 = n
      BY <1>2
    <3> QED BY <1>2, <3>1 DEF Grows
  <2>4. CASE s[n+1] \notin S
    <3>1. Picks(f[n], s, n + 1, S, e)
      BY <2>1, <2>2, <2>4 DEF Picks
    <3> QED BY <3>1, <2>2, <2>3, <2>4
  <2>5. CASE s[n+1] \in S
    <3> DEFINE t == Append(f[n], s[n+1])
               m == Len(f[n])
               d == [k \in 1..(m + 1) |-> IF k = m + 1 THEN n + 1 ELSE e[k]]
    <3>1. /\ t \in Seq(A) /\ Len(t) = m + 1 /\ m \in Nat
          /\ t[m + 1] = s[n + 1]
          /\ \A k \in 1..m : t[k] = f[n][k]
      BY <2>2
    <3>2. /\ e \in [1..m -> 1..n]
          /\ \A j, k \in 1..m : j < k => e[j] < e[k]
          /\ \A k \in 1..m : f[n][k] = s[e[k]] /\ f[n][k] \in S
          /\ \A k \in 1..n : s[k] \in S => \E j \in 1..m : e[j] = k
      BY <2>1 DEF Picks
    <3>3. f[n + 1] = t
      BY <2>3, <2>5
    <3>d. \A k \in 1..(m+1) : d[k] = IF k = m + 1 THEN n + 1 ELSE e[k]
      OBVIOUS
    <3>f. d \in [1..(m+1) -> 1..(n+1)]
      BY <3>1, <3>2
    <3> HIDE DEF t, m, d
    <3>4. \A j, k \in 1..(m+1) : j < k => d[j] < d[k]
      BY <3>1, <3>2, <3>d
    <3>5. ASSUME NEW k \in 1..(m+1) PROVE t[k] = s[d[k]] /\ t[k] \in S
      <4>1. CASE k = m + 1
        BY <4>1, <3>1, <3>d, <2>5
      <4>2. CASE k \in 1..m
        <5>1. d[k] = e[k]
          BY <4>2, <3>1, <3>d
        <5> QED BY <4>2, <5>1, <3>1, <3>2
      <4> QED BY <3>1, <4>1, <4>2
    <3>6. ASSUME NEW k \in 1..(n+1), s[k] \in S PROVE \E j \in 1..(m+1) : d[j] = k
      <4>1. CASE k = n + 1
        BY <4>1, <3>d, <3>1
      <4>2. CASE k \in 1..n
        <5>1. PICK j \in 1..m : e[j] = k
          BY <4>2, <3>2, <3>6
        <5>2. j \in 1..(m+1) /\ j # m + 1
          BY <3>1
        <5> QED BY <5>1, <5>2, <3>d
      <4> QED BY <4>1, <4>2
    <3>7. Picks(t, s, n + 1, S, d)
      BY <3>1, <3>f, <3>4, <3>5, <3>6 DEF Picks
    <3> QED BY <3>1, <3>3, <3>7
  <2> QED BY <2>4, <2>5
<1>5. Len(s) \in T
  BY <1>2, <1>3, <1>4, Counting
<1> QED
  BY <1>1, <1>2, <1>5

\* What Kept leaves is what was in S.
LEMMA KeptMembers ==
  ASSUME NEW A, NEW s \in Seq(A), NEW S
  PROVE  ToSet(Kept(s, S)) = ToSet(s) \cap S
<1> DEFINE t == Kept(s, S)
<1>1. PICK e : Picks(t, s, Len(s), S, e)
  BY KeptPicks
<1>2. t \in Seq(A) /\ DOMAIN t = 1..Len(t) /\ DOMAIN s = 1..Len(s)
  BY KeptPicks
<1> HIDE DEF t
<1>3. \A k \in DOMAIN t : e[k] \in DOMAIN s /\ t[k] = s[e[k]] /\ t[k] \in S
  BY <1>1, <1>2 DEF Picks
<1>4. \A k \in DOMAIN s : s[k] \in S => \E j \in DOMAIN t : t[j] = s[k]
  BY <1>1, <1>2 DEF Picks
<1> QED
  BY <1>3, <1>4 DEF ToSet, t

\* Filtering a list without repetitions brings none.
LEMMA KeptOnceEach ==
  ASSUME NEW A, NEW s \in Seq(A), NEW S, IsInjective(s)
  PROVE  IsInjective(Kept(s, S))
<1> DEFINE t == Kept(s, S)
<1>1. PICK e : Picks(t, s, Len(s), S, e)
  BY KeptPicks
<1>2. t \in Seq(A) /\ DOMAIN t = 1..Len(t) /\ DOMAIN s = 1..Len(s) /\ Len(t) \in Nat
  BY KeptPicks
<1> HIDE DEF t
<1>3. \A k \in DOMAIN t : e[k] \in DOMAIN s /\ t[k] = s[e[k]]
  BY <1>1, <1>2 DEF Picks
<1>4. \A j, k \in DOMAIN t : j < k \/ k < j \/ j = k
  BY <1>2
<1>5. \A j, k \in DOMAIN t : j < k => e[j] # e[k]
  BY <1>1, <1>2 DEF Picks
<1> QED
  BY <1>3, <1>4, <1>5 DEF IsInjective, t

\* A stack with one more on top.
LEMMA Pushed ==
  ASSUME NEW F, NEW s \in Seq(F), NEW f \in F
  PROVE  /\ Append(s, f) \in Seq(F)
         /\ Len(s) \in Nat /\ DOMAIN s = 1..Len(s)
         /\ Len(Append(s, f)) = Len(s) + 1
         /\ DOMAIN Append(s, f) = 1..(Len(s) + 1)
         /\ \A k \in 1..Len(s) : Append(s, f)[k] = s[k]
         /\ Append(s, f)[Len(s) + 1] = f
         /\ Append(s, f) # <<>>
         /\ Last(Append(s, f)) = f
BY DEF Last

\* A stack without its top.
LEMMA Popped ==
  ASSUME NEW F, NEW s \in Seq(F), s # <<>>
  PROVE  /\ Front(s) \in Seq(F)
         /\ Len(s) \in Nat \ {0} /\ DOMAIN s = 1..Len(s)
         /\ Len(Front(s)) = Len(s) - 1
         /\ DOMAIN Front(s) = 1..(Len(s) - 1)
         /\ \A k \in 1..(Len(s) - 1) : Front(s)[k] = s[k]
         /\ Last(s) = s[Len(s)] /\ Last(s) \in F
         /\ Front(s) = <<>> <=> Len(s) = 1
         /\ Front(s) # <<>> => Last(Front(s)) = s[Len(s) - 1] /\ Len(s) > 1
<1>1. Len(s) \in Nat \ {0} /\ DOMAIN s = 1..Len(s)
  OBVIOUS
<1>2. Front(s) \in Seq(F) /\ Len(Front(s)) = Len(s) - 1
  BY <1>1 DEF Front
<1>3. \A k \in 1..(Len(s) - 1) : Front(s)[k] = s[k]
  BY <1>1 DEF Front
<1>4. DOMAIN Front(s) = 1..(Len(s) - 1)
  BY <1>1, <1>2
<1>5. Last(s) = s[Len(s)] /\ Last(s) \in F
  BY <1>1 DEF Last
<1>6. Front(s) = <<>> <=> Len(s) = 1
  <2>1. Len(Front(s)) = 0 <=> Front(s) = <<>>
    BY <1>2, EmptySeq
  <2> QED BY <1>1, <1>2, <2>1
<1>7. Front(s) # <<>> => Last(Front(s)) = s[Len(s) - 1] /\ Len(s) > 1
  <2> SUFFICES ASSUME Front(s) # <<>> PROVE Last(Front(s)) = s[Len(s) - 1] /\ Len(s) > 1
    OBVIOUS
  <2>1. Len(s) - 1 \in 1..(Len(s) - 1) /\ Len(s) > 1
    BY <1>1, <1>6
  <2> HIDE DEF Front
  <2> QED BY <1>2, <1>3, <2>1 DEF Last
<1> QED
  BY <1>1, <1>2, <1>3, <1>4, <1>5, <1>6, <1>7
-----------------------------------------------------------------------------
(* The order of a list, and what taking out and putting in do to it.        *)

Precedes(s, a, b) == \E i, j \in DOMAIN s : i < j /\ s[i] = a /\ s[j] = b

\* Filtering keeps the order.
LEMMA KeptOrder ==
  ASSUME NEW A, NEW s \in Seq(A), NEW S, NEW a, NEW b
  PROVE  Precedes(Kept(s, S), a, b) <=> a \in S /\ b \in S /\ Precedes(s, a, b)
<1> DEFINE t == Kept(s, S)
<1>1. PICK e : Picks(t, s, Len(s), S, e)
  BY KeptPicks
<1>2. t \in Seq(A) /\ DOMAIN t = 1..Len(t) /\ DOMAIN s = 1..Len(s) /\ Len(t) \in Nat /\ Len(s) \in Nat
  BY KeptPicks
<1> HIDE DEF t
<1>3. /\ \A k \in DOMAIN t : e[k] \in DOMAIN s /\ t[k] = s[e[k]] /\ t[k] \in S
      /\ \A j, k \in DOMAIN t : j < k => e[j] < e[k]
      /\ \A k \in DOMAIN s : s[k] \in S => \E j \in DOMAIN t : e[j] = k
  BY <1>1, <1>2 DEF Picks
<1>4. ASSUME Precedes(t, a, b) PROVE a \in S /\ b \in S /\ Precedes(s, a, b)
  <2>1. PICK i, j \in DOMAIN t : i < j /\ t[i] = a /\ t[j] = b
    BY <1>4 DEF Precedes
  <2> QED BY <1>3, <2>1 DEF Precedes
<1>5. ASSUME a \in S, b \in S, Precedes(s, a, b) PROVE Precedes(t, a, b)
  <2>1. PICK i, j \in DOMAIN s : i < j /\ s[i] = a /\ s[j] = b
    BY <1>5 DEF Precedes
  <2>2. PICK k \in DOMAIN t : e[k] = i
    BY <1>3, <1>5, <2>1
  <2>3. PICK l \in DOMAIN t : e[l] = j
    BY <1>3, <1>5, <2>1
  <2>4. k < l
    <3>1. k \in Nat /\ l \in Nat /\ i \in Nat /\ j \in Nat
      BY <1>2
    <3>2. l < k => j < i
      BY <1>3, <2>2, <2>3
    <3>3. l = k => i = j
      BY <2>2, <2>3
    <3> QED BY <3>1, <3>2, <3>3, <2>1
  <2> QED BY <1>3, <2>1, <2>2, <2>3, <2>4 DEF Precedes
<1> QED
  BY <1>4, <1>5 DEF t

\* The place of a member, 0 for what is none.
Place(s, x, i) ==
  IF x \in ToSet(s) THEN i \in DOMAIN s /\ s[i] = x ELSE i = 0

LEMMA Found ==
  ASSUME NEW A, NEW s \in Seq(A), NEW x
  PROVE  Place(s, x, SelectInSeq(s, LAMBDA y : y = x))
<1> DEFINE I == {i \in 1..Len(s) : s[i] = x}
<1>1. SelectInSeq(s, LAMBDA y : y = x) = IF I # {} THEN Min(I) ELSE 0
  BY DEF SelectInSeq
<1>2. DOMAIN s = 1..Len(s) /\ Len(s) \in Nat
  OBVIOUS
<1>3. I # {} <=> x \in ToSet(s)
  BY <1>2 DEF ToSet
<1>4. I # {} => Min(I) \in I
  <2>1. SUFFICES ASSUME I # {} PROVE \E i \in I : \A j \in I : i <= j
    BY DEF Min
  <2>2. IsWellFoundedOn(OpToRel(<, Nat), Nat)
    BY NatLessThanWellFounded
  <2>3. \E i \in I : \A j \in I : ~(<<j, i>> \in OpToRel(<, Nat))
    <3>1. I \subseteq Nat
      BY <1>2
    <3> QED BY <2>1, <2>2, <3>1, WFMin
  <2>4. I \subseteq Nat
    BY <1>2
  <2> HIDE DEF I
  <2>5. PICK i \in I : \A j \in I : ~(j < i)
    BY <2>3, <2>4 DEF OpToRel
  <2>6. \A j \in I : i <= j
    BY <2>4, <2>5
  <2> QED BY <2>6
<1> QED
  BY <1>1, <1>2, <1>3, <1>4 DEF Place

\* The members before a place, and those from one on.
LEMMA Upto ==
  ASSUME NEW A, NEW s \in Seq(A), NEW i \in 1..(Len(s) + 1)
  PROVE  LET x == SubSeq(s, 1, i - 1)
         IN  x \in Seq(A) /\ Len(x) = i - 1 /\ \A k \in 1..(i - 1) : x[k] = s[k]
<1>1. Len(s) \in Nat /\ i \in Int /\ i - 1 \in Int /\ \A k \in 1..(i - 1) : s[k] \in A
  OBVIOUS
<1>2. (i - 1) - 1 + 1 = i - 1 /\ (1 <= i - 1 \/ i - 1 = 0) /\ \A k \in 1..(i - 1) : 1 + k - 1 = k
  BY <1>1
<1> QED
  BY <1>1, <1>2, SubSeqProperties

LEMMA From ==
  ASSUME NEW A, NEW s \in Seq(A), NEW i \in 0..Len(s)
  PROVE  LET y == SubSeq(s, i + 1, Len(s))
         IN  y \in Seq(A) /\ Len(y) = Len(s) - i /\ \A k \in 1..(Len(s) - i) : y[k] = s[k + i]
<1>1. Len(s) \in Nat /\ Len(s) \in Int /\ i + 1 \in Int /\ \A k \in (i + 1)..Len(s) : s[k] \in A
  OBVIOUS
<1>2. /\ Len(s) - (i + 1) + 1 = Len(s) - i /\ (i + 1 <= Len(s) \/ Len(s) - i = 0)
      /\ \A k \in 1..(Len(s) - i) : (i + 1) + k - 1 = k + i
  BY <1>1
<1> DEFINE y == SubSeq(s, i + 1, Len(s))
<1>3. /\ y \in Seq(A) /\ Len(y) = IF i + 1 <= Len(s) THEN Len(s) - (i + 1) + 1 ELSE 0
      /\ \A k \in 1..(Len(s) - (i + 1) + 1) : y[k] = s[(i + 1) + k - 1]
  BY <1>1, SubSeqProperties
<1> HIDE DEF y
<1>4. Len(y) = Len(s) - i
  BY <1>1, <1>2, <1>3
<1>5. ASSUME NEW k \in 1..(Len(s) - i) PROVE y[k] = s[k + i]
  BY <1>2, <1>3
<1> QED
  BY <1>3, <1>4, <1>5 DEF y

\* Taking a member out.
LEMMA Removed ==
  ASSUME NEW A, NEW s \in Seq(A), IsInjective(s), NEW c \in ToSet(s)
  PROVE  LET r == RemoveFirst(s, c)
         IN  /\ r \in Seq(A) /\ ToSet(r) = ToSet(s) \ {c} /\ IsInjective(r)
             /\ \A a, b : Precedes(r, a, b) <=> Precedes(s, a, b) /\ a # c /\ b # c
<1> DEFINE i == SelectInSeq(s, LAMBDA y : y = c)
           r == SubSeq(s, 1, i - 1) \o SubSeq(s, i + 1, Len(s))
<1>1. i \in DOMAIN s /\ s[i] = c
  BY Found DEF Place
<1>2. RemoveFirst(s, c) = r
  <2>1. \E j \in 1..Len(s) : s[j] = c
    BY <1>1
  <2>2. RemoveFirst(s, c) = RemoveAt(s, i)
    BY <2>1 DEF RemoveFirst
  <2> QED BY <2>2 DEF RemoveAt
<1> HIDE DEF i
<1>3. Len(s) \in Nat /\ DOMAIN s = 1..Len(s) /\ i \in 1..Len(s)
  BY <1>1
<1>4. /\ r \in Seq(A) /\ Len(r) = Len(s) - 1
      /\ \A k \in 1..(Len(s) - 1) : r[k] = IF k < i THEN s[k] ELSE s[k + 1]
  <2> DEFINE x == SubSeq(s, 1, i - 1)
             y == SubSeq(s, i + 1, Len(s))
  <2>1. x \in Seq(A) /\ Len(x) = i - 1 /\ \A k \in 1..(i - 1) : x[k] = s[k]
    BY <1>3, Upto
  <2>2. y \in Seq(A) /\ Len(y) = Len(s) - i /\ \A k \in 1..(Len(s) - i) : y[k] = s[k + i]
    <3>1. i \in 0..Len(s)
      BY <1>3
    <3> QED BY <3>1, From
  <2>3. r = x \o y
    OBVIOUS
  <2> HIDE DEF x, y, r
  <2>4. r \in Seq(A) /\ Len(r) = Len(x) + Len(y)
    BY <2>1, <2>2, <2>3, ConcatProperties
  <2>5. \A k \in 1..(Len(s) - 1) : r[k] = IF k <= Len(x) THEN x[k] ELSE y[k - Len(x)]
    <3>1. Len(x) + Len(y) = Len(s) - 1
      BY <1>3, <2>1, <2>2
    <3> QED BY <2>1, <2>2, <2>3, <3>1, ConcatProperties
  <2>6. ASSUME NEW k \in 1..(Len(s) - 1), k >= i
        PROVE r[k] = s[k + 1]
    <3>1. k - (i - 1) \in 1..(Len(s) - i) /\ (k - (i - 1)) + i = k + 1
      BY <1>3, <2>6
    <3>2. r[k] = y[k - (i - 1)]
      BY <1>3, <2>1, <2>5, <2>6
    <3> QED BY <2>2, <3>1, <3>2
  <2>7. ASSUME NEW k \in 1..(Len(s) - 1), k < i
        PROVE r[k] = s[k]
    BY <1>3, <2>1, <2>5, <2>7
  <2> QED BY <1>3, <2>1, <2>2, <2>4, <2>6, <2>7
<1> HIDE DEF r
<1>5. DOMAIN r = 1..(Len(s) - 1)
  BY <1>4, <1>3
<1> DEFINE e(k) == IF k < i THEN k ELSE k + 1
           d(k) == IF k < i THEN k ELSE k - 1
<1>6. \A k \in DOMAIN r : e(k) \in DOMAIN s /\ e(k) # i /\ r[k] = s[e(k)]
  BY <1>3, <1>4, <1>5
<1>7. \A k \in DOMAIN s \ {i} : d(k) \in DOMAIN r /\ e(d(k)) = k
  BY <1>3, <1>5
<1>8. /\ \A j, k \in DOMAIN r : j < k <=> e(j) < e(k)
      /\ \A j, k \in DOMAIN r : e(j) = e(k) => j = k
  BY <1>3, <1>5
<1> HIDE DEF e, d
<1>9. \A k \in DOMAIN s : s[k] = c => k = i
  BY <1>1 DEF IsInjective
<1>10. ToSet(r) = ToSet(s) \ {c}
  BY <1>1, <1>6, <1>7, <1>9 DEF ToSet
<1>11. IsInjective(r)
  BY <1>6, <1>8 DEF IsInjective
<1>12. ASSUME NEW a, NEW b, Precedes(r, a, b)
       PROVE Precedes(s, a, b) /\ a # c /\ b # c
  BY <1>12, <1>6, <1>8, <1>9 DEF Precedes
<1>13. ASSUME NEW a, NEW b, Precedes(s, a, b), a # c, b # c
       PROVE Precedes(r, a, b)
  <2>1. PICK j, k \in DOMAIN s : j < k /\ s[j] = a /\ s[k] = b
    BY <1>13 DEF Precedes
  <2>2. j # i /\ k # i
    BY <1>1, <1>13, <2>1
  <2> QED BY <1>6, <1>7, <1>8, <2>1, <2>2 DEF Precedes
<1> QED
  BY <1>2, <1>4, <1>10, <1>11, <1>12, <1>13

\* r is s with c put in, before `later`.
Joins(r, s, c, later) ==
  /\ ToSet(r) = ToSet(s) \cup {c} /\ IsInjective(r)
  /\ \A a, b : Precedes(r, a, b) <=>
       \/ Precedes(s, a, b)
       \/ b = c /\ a \in ToSet(s) \ later
       \/ a = c /\ b \in later

\* Putting in before a member.
LEMMA Inserted ==
  ASSUME NEW A, NEW s \in Seq(A), IsInjective(s), NEW c \in A, c \notin ToSet(s), NEW i \in DOMAIN s
  PROVE  LET r == InsertAt(s, i, c)
         IN  /\ r \in Seq(A)
             /\ Joins(r, s, c, {x \in ToSet(s) : x = s[i] \/ Precedes(s, s[i], x)})
<1> DEFINE r == InsertAt(s, i, c)
           later == {x \in ToSet(s) : x = s[i] \/ Precedes(s, s[i], x)}
<1>1. Len(s) \in Nat /\ DOMAIN s = 1..Len(s) /\ i \in 1..Len(s)
  OBVIOUS
<1>2. /\ r \in Seq(A) /\ Len(r) = Len(s) + 1
      /\ \A k \in 1..(Len(s) + 1) : r[k] = IF k < i THEN s[k] ELSE IF k = i THEN c ELSE s[k - 1]
  <2> DEFINE x == SubSeq(s, 1, i - 1)
             y == SubSeq(s, i, Len(s))
             one == <<c>>
             xc == x \o one
  <2>1. x \in Seq(A) /\ Len(x) = i - 1 /\ \A k \in 1..(i - 1) : x[k] = s[k]
    BY <1>1, Upto
  <2>2. y \in Seq(A) /\ Len(y) = Len(s) - (i - 1) /\ \A k \in 1..(Len(s) - (i - 1)) : y[k] = s[k + (i - 1)]
    <3>1. i - 1 \in 0..Len(s) /\ (i - 1) + 1 = i
      BY <1>1
    <3> HIDE DEF y
    <3> DEFINE j == i - 1
    <3>2. SubSeq(s, j + 1, Len(s)) = y /\ j \in 0..Len(s)
      BY <3>1 DEF y
    <3> HIDE DEF j
    <3>3. y \in Seq(A) /\ Len(y) = Len(s) - j /\ \A k \in 1..(Len(s) - j) : y[k] = s[k + j]
      BY <3>2, From
    <3> QED BY <3>3 DEF j
  <2>3. r = xc \o y
    BY DEF InsertAt
  <2> HIDE DEF x, y, r
  <2>4. one \in Seq(A) /\ Len(one) = 1 /\ one[1] = c
    OBVIOUS
  <2> HIDE DEF one
  <2>p. /\ x \o one \in Seq(A) /\ Len(x \o one) = Len(x) + Len(one)
        /\ \A k \in 1..(Len(x) + Len(one)) :
             (x \o one)[k] = IF k <= Len(x) THEN x[k] ELSE one[k - Len(x)]
    BY <2>1, <2>4, ConcatProperties
  <2>q. Len(x) + Len(one) = i
    BY <1>1, <2>1, <2>4
  <2>5. xc \in Seq(A) /\ Len(xc) = i
    BY <2>p, <2>q
  <2>6. \A k \in 1..i : xc[k] = IF k <= i - 1 THEN x[k] ELSE one[k - (i - 1)]
    BY <2>1, <2>p, <2>q
  <2> HIDE DEF xc
  <2>7. r \in Seq(A) /\ Len(r) = Len(s) + 1
    BY <1>1, <2>2, <2>3, <2>5, ConcatProperties
  <2>8. \A k \in 1..(Len(s) + 1) : r[k] = IF k <= i THEN xc[k] ELSE y[k - i]
    <3>1. Len(xc) + Len(y) = Len(s) + 1
      BY <1>1, <2>2, <2>5
    <3>2. \A k \in 1..(Len(xc) + Len(y)) :
            (xc \o y)[k] = IF k <= Len(xc) THEN xc[k] ELSE y[k - Len(xc)]
      BY <2>2, <2>5, ConcatProperties
    <3> QED BY <2>3, <2>5, <3>1, <3>2
  <2>9. ASSUME NEW k \in 1..(Len(s) + 1)
        PROVE r[k] = IF k < i THEN s[k] ELSE IF k = i THEN c ELSE s[k - 1]
    <3>1. CASE k < i
      BY <1>1, <2>1, <2>6, <2>8, <3>1
    <3>2. CASE k = i
      <4>1. r[k] = xc[k] /\ xc[k] = one[k - (i - 1)] /\ k - (i - 1) = 1
        BY <1>1, <2>6, <2>8, <3>2
      <4> QED BY <2>4, <3>2, <4>1
    <3>3. CASE k > i
      <4>1. k - i \in 1..(Len(s) - (i - 1)) /\ (k - i) + (i - 1) = k - 1
        BY <1>1, <3>3
      <4>2. r[k] = y[k - i]
        BY <1>1, <2>8, <3>3
      <4> QED BY <1>1, <2>2, <3>3, <4>1, <4>2
    <3> QED BY <1>1, <3>1, <3>2, <3>3
  <2> QED BY <2>7, <2>9
<1> HIDE DEF r
<1>3. DOMAIN r = 1..(Len(s) + 1)
  BY <1>1, <1>2
<1> DEFINE e(k) == IF k < i THEN k ELSE k - 1
           d(k) == IF k < i THEN k ELSE k + 1
<1>4. \A k \in DOMAIN r \ {i} : e(k) \in DOMAIN s /\ r[k] = s[e(k)] /\ (e(k) < i <=> k < i)
  BY <1>1, <1>2, <1>3
<1>5. \A k \in DOMAIN s : d(k) \in DOMAIN r \ {i} /\ e(d(k)) = k
  BY <1>1, <1>3
<1>6. /\ \A j, k \in DOMAIN r \ {i} : j < k <=> e(j) < e(k)
      /\ \A j, k \in DOMAIN r \ {i} : e(j) = e(k) => j = k
  BY <1>1, <1>3
<1>7. /\ i \in DOMAIN r /\ r[i] = c
      /\ \A j, k \in DOMAIN r : j < k => j \in Int /\ k \in Int
      /\ DOMAIN r \subseteq Int
  BY <1>1, <1>2, <1>3
<1> HIDE DEF e, d
<1>8. \A k \in DOMAIN s : s[k] # c /\ s[k] \in ToSet(s)
  BY DEF ToSet
<1>9. \A j, k \in DOMAIN s : s[j] = s[k] => j = k
  BY DEF IsInjective
<1>10. \A k \in DOMAIN s : s[k] \in later <=> ~(k < i)
  <2> SUFFICES ASSUME NEW k \in DOMAIN s PROVE s[k] \in later <=> ~(k < i)
    OBVIOUS
  <2>1. Precedes(s, s[i], s[k]) <=> i < k
    BY <1>9 DEF Precedes
  <2>2. s[k] = s[i] <=> k = i
    BY <1>9
  <2> QED BY <1>1, <1>8, <2>1, <2>2
<1>11. later \subseteq ToSet(s)
  OBVIOUS
<1> HIDE DEF later
<1>12. ToSet(r) = ToSet(s) \cup {c}
  <2>1. \A x \in ToSet(r) : x \in ToSet(s) \cup {c}
    BY <1>4, <1>7, <1>8 DEF ToSet
  <2>2. \A x \in ToSet(s) : x \in ToSet(r)
    BY <1>4, <1>5 DEF ToSet
  <2> QED BY <2>1, <2>2, <1>7 DEF ToSet
<1>13. IsInjective(r)
  BY <1>4, <1>6, <1>7, <1>8, <1>9 DEF IsInjective
<1>14. ASSUME NEW a, NEW b, Precedes(r, a, b)
       PROVE  \/ Precedes(s, a, b)
              \/ b = c /\ a \in ToSet(s) \ later
              \/ a = c /\ b \in later
  <2>1. PICK j, k \in DOMAIN r : j < k /\ r[j] = a /\ r[k] = b
    BY <1>14 DEF Precedes
  <2>2. CASE j # i /\ k # i
    BY <1>4, <1>6, <2>1, <2>2 DEF Precedes
  <2>3. CASE k = i
    <3>1. e(j) \in DOMAIN s /\ e(j) < i /\ a = s[e(j)] /\ b = c
      BY <1>4, <1>7, <2>1, <2>3
    <3> QED BY <1>8, <1>10, <3>1
  <2>4. CASE j = i /\ k # i
    <3>1. e(k) \in DOMAIN s /\ ~(e(k) < i) /\ b = s[e(k)] /\ a = c
      BY <1>4, <1>7, <2>1, <2>4
    <3> QED BY <1>10, <3>1
  <2> QED BY <2>2, <2>3, <2>4
<1>15. ASSUME NEW a, NEW b,
              \/ Precedes(s, a, b)
              \/ b = c /\ a \in ToSet(s) \ later
              \/ a = c /\ b \in later
       PROVE  Precedes(r, a, b)
  <2>1. CASE Precedes(s, a, b)
    <3>1. PICK j, k \in DOMAIN s : j < k /\ s[j] = a /\ s[k] = b
      BY <2>1 DEF Precedes
    <3>2. d(j) < d(k)
      BY <1>5, <1>6, <3>1
    <3> QED BY <1>4, <1>5, <3>1, <3>2 DEF Precedes
  <2>2. CASE b = c /\ a \in ToSet(s) \ later
    <3>1. PICK j \in DOMAIN s : s[j] = a
      BY <2>2 DEF ToSet
    <3>2. j < i
      BY <1>10, <2>2, <3>1
    <3>3. d(j) \in DOMAIN r /\ r[d(j)] = a /\ d(j) < i
      BY <1>4, <1>5, <3>1, <3>2
    <3> QED BY <1>7, <2>2, <3>3 DEF Precedes
  <2>3. CASE a = c /\ b \in later
    <3>1. PICK j \in DOMAIN s : s[j] = b
      BY <1>11, <2>3 DEF ToSet
    <3>2. ~(j < i)
      BY <1>10, <2>3, <3>1
    <3>3. d(j) \in DOMAIN r \ {i} /\ r[d(j)] = b /\ ~(d(j) < i)
      BY <1>4, <1>5, <3>1, <3>2
    <3>4. i < d(j)
      BY <1>7, <3>3
    <3> QED BY <1>7, <2>3, <3>3, <3>4 DEF Precedes
  <2> QED BY <1>15, <2>1, <2>2, <2>3
<1> QED
  BY <1>2, <1>12, <1>13, <1>14, <1>15 DEF Joins, r, later

\* Putting in at the end.
LEMMA Appended ==
  ASSUME NEW A, NEW s \in Seq(A), IsInjective(s), NEW c \in A, c \notin ToSet(s)
  PROVE  Append(s, c) \in Seq(A) /\ Joins(Append(s, c), s, c, {})
<1> DEFINE r == Append(s, c)
<1>1. /\ r \in Seq(A) /\ Len(s) \in Nat /\ DOMAIN s = 1..Len(s) /\ DOMAIN r = 1..(Len(s) + 1)
      /\ r[Len(s) + 1] = c /\ \A k \in 1..Len(s) : r[k] = s[k]
  OBVIOUS
<1> HIDE DEF r
<1> DEFINE n == Len(s) + 1
<1>2. /\ n \in DOMAIN r /\ n \notin DOMAIN s /\ r[n] = c
      /\ DOMAIN r = DOMAIN s \cup {n}
      /\ \A k \in DOMAIN s : r[k] = s[k] /\ k < n /\ ~(n < k)
      /\ ~(n < n)
  BY <1>1
<1> HIDE DEF n
<1>3. \A k \in DOMAIN s : s[k] # c
  BY DEF ToSet
<1>4. ToSet(r) = ToSet(s) \cup {c}
  <2>1. \A x : x \in ToSet(r) <=> \E k \in DOMAIN r : r[k] = x
    BY DEF ToSet
  <2>2. \A x : x \in ToSet(s) <=> \E k \in DOMAIN s : s[k] = x
    BY DEF ToSet
  <2> QED BY <1>2, <2>1, <2>2
<1>5. IsInjective(r)
  BY <1>2, <1>3 DEF IsInjective
<1>6. ASSUME NEW a, NEW b
      PROVE  Precedes(r, a, b) <=> Precedes(s, a, b) \/ (b = c /\ a \in ToSet(s))
  <2>1. Precedes(r, a, b) => Precedes(s, a, b) \/ (b = c /\ a \in ToSet(s))
    BY <1>2 DEF Precedes, ToSet
  <2>2. Precedes(s, a, b) => Precedes(r, a, b)
    BY <1>2 DEF Precedes
  <2>3. b = c /\ a \in ToSet(s) => Precedes(r, a, b)
    BY <1>2 DEF Precedes, ToSet
  <2> QED BY <2>1, <2>2, <2>3
<1> QED
  BY <1>1, <1>4, <1>5, <1>6 DEF Joins, r

-----------------------------------------------------------------------------
(* Lists that repeat a member: the last of its places counts.               *)

Ahead(s, a, b) ==
  a \in ToSet(s) /\ \E j \in DOMAIN s : s[j] = b /\ \A i \in DOMAIN s : s[i] = a => i < j

LEMMA Joined ==
  ASSUME NEW A, NEW s \in Seq(A), NEW r \in Seq(A)
  PROVE  s \o r \in Seq(A) /\ ToSet(s \o r) = ToSet(s) \cup ToSet(r)
<1>1. s \o r \in Seq(A)
  OBVIOUS
<1>2. Range(s \o r) = Range(s) \cup Range(r)
  BY RangeConcatenation
<1> QED
  BY <1>1, <1>2 DEF Range, ToSet

\* A member of what is added comes after all that was there.
LEMMA AheadJoined ==
  ASSUME NEW A, NEW s \in Seq(A), NEW r \in Seq(A), IsInjective(r), NEW a, NEW b, a # b
  PROVE  /\ s \o r \in Seq(A) /\ ToSet(s \o r) = ToSet(s) \cup ToSet(r)
         /\ Ahead(s \o r, a, b) <=> \/ b \in ToSet(r) /\ a \in ToSet(s) \ ToSet(r)
                                    \/ Precedes(r, a, b)
                                    \/ a \notin ToSet(r) /\ b \notin ToSet(r) /\ Ahead(s, a, b)
<1> DEFINE q == s \o r
           n == Len(s)
<1>1. /\ n \in Nat /\ Len(r) \in Nat /\ DOMAIN s = 1..n /\ DOMAIN r = 1..Len(r)
      /\ q \in Seq(A) /\ DOMAIN q = 1..(n + Len(r))
      /\ \A k \in DOMAIN q : q[k] = IF k <= n THEN s[k] ELSE r[k - n]
  BY ConcatProperties
<1> HIDE DEF q, n
<1> DEFINE Goal == Ahead(q, a, b) <=> \/ b \in ToSet(r) /\ a \in ToSet(s) \ ToSet(r)
                                      \/ Precedes(r, a, b)
                                      \/ a \notin ToSet(r) /\ b \notin ToSet(r) /\ Ahead(s, a, b)
<1>2. /\ \A k \in DOMAIN s : k \in DOMAIN q /\ q[k] = s[k]
      /\ \A k \in DOMAIN r : n + k \in DOMAIN q /\ q[n + k] = r[k]
      /\ \A k \in DOMAIN q : \/ k \in DOMAIN s /\ q[k] = s[k]
                             \/ k - n \in DOMAIN r /\ q[k] = r[k - n] /\ n + (k - n) = k
      /\ \A j \in DOMAIN s, k \in DOMAIN r : j < n + k /\ ~(n + k < j)
      /\ \A j, k \in DOMAIN r : n + j < n + k <=> j < k
  <2>1. \A k \in DOMAIN s : k \in DOMAIN q /\ q[k] = s[k]
    BY <1>1
  <2>2. \A k \in DOMAIN r : n + k \in DOMAIN q /\ q[n + k] = r[k]
    <3>1. SUFFICES ASSUME NEW k \in 1..Len(r) PROVE n + k \in DOMAIN q /\ q[n + k] = r[k]
      BY <1>1
    <3>2. n + k \in 1..(n + Len(r)) /\ ~(n + k <= n) /\ (n + k) - n = k
      BY <1>1
    <3> QED BY <1>1, <3>2
  <2>3. ASSUME NEW k \in DOMAIN q
        PROVE  \/ k \in DOMAIN s /\ q[k] = s[k]
               \/ k - n \in DOMAIN r /\ q[k] = r[k - n] /\ n + (k - n) = k
    <3>1. k \in 1..n \/ (k - n \in 1..Len(r) /\ ~(k <= n) /\ n + (k - n) = k)
      BY <1>1
    <3> QED BY <1>1, <3>1
  <2>4. \A j \in DOMAIN s, k \in DOMAIN r : j < n + k /\ ~(n + k < j)
    BY <1>1
  <2>5. \A j, k \in DOMAIN r : n + j < n + k <=> j < k
    BY <1>1
  <2> QED BY <2>1, <2>2, <2>3, <2>4, <2>5
<1>3. ToSet(q) = ToSet(s) \cup ToSet(r)
  <2>1. \A x \in ToSet(q) : x \in ToSet(s) \cup ToSet(r)
    BY <1>2 DEF ToSet
  <2>2. \A x \in ToSet(s) \cup ToSet(r) : x \in ToSet(q)
    BY <1>2 DEF ToSet
  <2> QED BY <2>1, <2>2
<1>4. \A j, k \in DOMAIN r : r[j] = r[k] => j = k
  BY DEF IsInjective
<1>5. ASSUME b \in ToSet(r) /\ a \notin ToSet(r) PROVE Goal
  <2>1. PICK j \in DOMAIN r : r[j] = b
    BY <1>5 DEF ToSet
  <2>2. \A i \in DOMAIN q : q[i] = a => i < n + j
    BY <1>2, <1>5 DEF ToSet
  <2>3. Ahead(q, a, b) <=> a \in ToSet(s)
    BY <1>2, <1>3, <1>5, <2>1, <2>2 DEF Ahead
  <2>4. ~Precedes(r, a, b)
    BY <1>5 DEF Precedes, ToSet
  <2> QED BY <1>5, <2>3, <2>4
<1>6. ASSUME b \in ToSet(r) /\ a \in ToSet(r) PROVE Goal
  <2>1. PICK j \in DOMAIN r : r[j] = b
    BY <1>6 DEF ToSet
  <2>2. PICK i \in DOMAIN r : r[i] = a
    BY <1>6 DEF ToSet
  <2>3. Precedes(r, a, b) <=> i < j
    BY <1>4, <2>1, <2>2 DEF Precedes
  <2>4. ASSUME Ahead(q, a, b) PROVE i < j
    <3>1. PICK k \in DOMAIN q : q[k] = b /\ \A m \in DOMAIN q : q[m] = a => m < k
      BY <2>4 DEF Ahead
    <3>2. n + i < k
      BY <1>2, <2>2, <3>1
    <3>3. k \notin DOMAIN s
      BY <1>2, <3>2
    <3>4. k - n \in DOMAIN r /\ r[k - n] = b /\ n + (k - n) = k
      BY <1>2, <3>1, <3>3
    <3>5. k = n + j
      BY <1>4, <2>1, <3>4
    <3> QED BY <1>2, <3>2, <3>5
  <2>5. ASSUME i < j PROVE Ahead(q, a, b)
    <3>1. \A m \in DOMAIN q : q[m] = a => m < n + j
      <4>1. SUFFICES ASSUME NEW m \in DOMAIN q, q[m] = a PROVE m < n + j
        OBVIOUS
      <4>2. CASE m \in DOMAIN s
        BY <1>2, <4>2
      <4>3. CASE m - n \in DOMAIN r /\ r[m - n] = a /\ n + (m - n) = m
        <5>1. m - n = i
          BY <1>4, <2>2, <4>3
        <5> QED BY <1>2, <2>5, <4>3, <5>1
      <4> QED BY <1>2, <4>1, <4>2, <4>3
    <3> QED BY <1>2, <1>3, <1>6, <2>1, <3>1 DEF Ahead
  <2> QED BY <1>6, <2>3, <2>4, <2>5
<1>7. ASSUME b \notin ToSet(r) /\ a \in ToSet(r) PROVE Goal
  <2>1. PICK i \in DOMAIN r : r[i] = a
    BY <1>7 DEF ToSet
  <2>2. \A k \in DOMAIN q : q[k] = b => k \in DOMAIN s
    BY <1>2, <1>7 DEF ToSet
  <2>3. ~Ahead(q, a, b)
    BY <1>2, <2>1, <2>2 DEF Ahead
  <2>4. ~Precedes(r, a, b)
    BY <1>7 DEF Precedes, ToSet
  <2> QED BY <1>7, <2>3, <2>4
<1>8. ASSUME b \notin ToSet(r) /\ a \notin ToSet(r) PROVE Goal
  <2>1. \A k \in DOMAIN q : q[k] = b \/ q[k] = a => k \in DOMAIN s /\ q[k] = s[k]
    BY <1>2, <1>8 DEF ToSet
  <2>2. Ahead(q, a, b) <=> Ahead(s, a, b)
    BY <1>2, <1>3, <1>8, <2>1 DEF Ahead
  <2>3. ~Precedes(r, a, b)
    BY <1>8 DEF Precedes, ToSet
  <2> QED BY <1>8, <2>2, <2>3
<1>9. Goal
  BY <1>5, <1>6, <1>7, <1>8
<1> QED
  BY <1>1, <1>3, <1>9 DEF q

\* A set of numbers up to n that is not empty has a least and a greatest one.
LEMMA Extremes ==
  ASSUME NEW n \in Nat, NEW S \in SUBSET (0..n), S # {}
  PROVE  /\ Min(S) \in S /\ \A x \in S : Min(S) <= x
         /\ Max(S) \in S /\ \A x \in S : x <= Max(S)
<1>1. ASSUME NEW T \in SUBSET Nat, T # {} PROVE \E i \in T : \A j \in T : i <= j
  <2>1. IsWellFoundedOn(OpToRel(<, Nat), Nat)
    BY NatLessThanWellFounded
  <2>2. \E i \in T : \A j \in T : ~(<<j, i>> \in OpToRel(<, Nat))
    BY <1>1, <2>1, WFMin
  <2>3. PICK i \in T : \A j \in T : ~(j < i)
    BY <2>2, <1>1 DEF OpToRel
  <2> QED BY <1>1, <2>3
<1>2. S \subseteq Nat
  OBVIOUS
<1>3. \E i \in S : \A j \in S : i <= j
  BY <1>1, <1>2
<1>4. \E i \in S : \A j \in S : j <= i
  <2> DEFINE T == {k \in 0..n : n - k \in S}
  <2>1. T # {}
    <3>1. PICK x \in S : TRUE
      OBVIOUS
    <3>2. n - x \in 0..n /\ n - (n - x) = x
      BY <3>1
    <3> QED BY <3>1, <3>2
  <2>2. T \subseteq Nat
    OBVIOUS
  <2> HIDE DEF T
  <2>3. PICK i \in T : \A j \in T : i <= j
    BY <1>1, <2>1, <2>2
  <2> USE DEF T
  <2>4. ASSUME NEW j \in S PROVE j <= n - i
    <3>1. n - j \in T
      <4>1. n - j \in 0..n /\ n - (n - j) = j
        BY <2>4
      <4> QED BY <4>1
    <3>2. i \in 0..n /\ i <= n - j
      BY <2>3, <3>1
    <3> QED BY <2>4, <3>2
  <2> QED BY <2>3, <2>4
<1> QED
  BY <1>3, <1>4 DEF Min, Max

\* Lists without repetition that have the same members in the same order are equal.
LEMMA SamePrefix ==
  ASSUME NEW A, NEW s \in Seq(A), NEW r \in Seq(A), IsInjective(s), IsInjective(r),
         ToSet(s) = ToSet(r), \A a, b : Precedes(s, a, b) <=> Precedes(r, a, b)
  PROVE  \A k \in 1..Len(s) : k \in 1..Len(r) /\ r[k] = s[k]
<1>1. /\ Len(s) \in Nat /\ Len(r) \in Nat /\ DOMAIN s = 1..Len(s) /\ DOMAIN r = 1..Len(r)
      /\ \A i, j \in 1..Len(s) : s[i] = s[j] => i = j
      /\ \A i, j \in 1..Len(r) : r[i] = r[j] => i = j
      /\ \A i \in 1..Len(s) : \E j \in 1..Len(r) : r[j] = s[i]
      /\ \A i \in 1..Len(r) : \E j \in 1..Len(s) : s[j] = r[i]
  <2>1. Len(s) \in Nat /\ Len(r) \in Nat /\ DOMAIN s = 1..Len(s) /\ DOMAIN r = 1..Len(r)
    OBVIOUS
  <2>2. \A i \in 1..Len(s) : s[i] \in ToSet(r)
    BY <2>1 DEF ToSet
  <2>3. \A i \in 1..Len(r) : r[i] \in ToSet(s)
    BY <2>1 DEF ToSet
  <2> QED BY <2>1, <2>2, <2>3 DEF IsInjective, ToSet
<1> DEFINE T == {n \in Nat : \A k \in 1..n : k \in 1..Len(s) => k \in 1..Len(r) /\ r[k] = s[k]}
<1>2. 0 \in T
  OBVIOUS
<1>3. ASSUME NEW n \in Nat, n \in T PROVE n + 1 \in T
  <2>1. SUFFICES ASSUME n + 1 \in 1..Len(s) PROVE n + 1 \in 1..Len(r) /\ r[n + 1] = s[n + 1]
    <3>1. \A k \in 1..(n + 1) : k = n + 1 \/ k \in 1..n
      OBVIOUS
    <3> QED BY <1>3, <2>1, <3>1
  <2>2. \A k \in 1..n : k \in 1..Len(s) /\ k \in 1..Len(r) /\ r[k] = s[k]
    BY <1>1, <1>3, <2>1
  <2>3. PICK j \in 1..Len(r) : r[j] = s[n + 1]
    BY <1>1, <2>1
  <2>4. j >= n + 1
    <3>1. j \in 1..n \/ j >= n + 1
      BY <1>1
    <3>2. j \notin 1..n
      BY <1>1, <2>1, <2>2, <2>3
    <3> QED BY <3>1, <3>2
  <2>5. n + 1 \in 1..Len(r)
    BY <1>1, <2>4
  <2>6. PICK i \in 1..Len(s) : s[i] = r[n + 1]
    BY <1>1, <2>5
  <2>7. i >= n + 1
    <3>1. i \in 1..n \/ i >= n + 1
      BY <1>1
    <3>2. i \notin 1..n
      BY <1>1, <2>2, <2>5, <2>6
    <3> QED BY <3>1, <3>2
  <2>8. SUFFICES ASSUME j > n + 1, i > n + 1 PROVE FALSE
    <3>1. j = n + 1 \/ j > n + 1
      BY <1>1, <2>4
    <3>2. i = n + 1 \/ i > n + 1
      BY <1>1, <2>7
    <3> QED BY <2>3, <2>5, <2>6, <2>8, <3>1, <3>2
  <2>9. Precedes(r, r[n + 1], s[n + 1]) /\ Precedes(s, s[n + 1], r[n + 1])
    BY <1>1, <2>1, <2>3, <2>5, <2>6, <2>8 DEF Precedes
  <2>10. Precedes(r, s[n + 1], r[n + 1])
    BY <2>9
  <2>11. PICK k, l \in 1..Len(r) : k < l /\ r[k] = s[n + 1] /\ r[l] = r[n + 1]
    BY <1>1, <2>10 DEF Precedes
  <2>12. k = j /\ l = n + 1
    BY <1>1, <2>3, <2>5, <2>11
  <2> QED BY <1>1, <2>8, <2>11, <2>12
<1>4. Nat \subseteq T
  <2> HIDE DEF T
  <2> QED BY <1>2, <1>3, Counting
<1>5. \A k \in 1..Len(s) : k \in 1..Len(s) /\ Len(s) \in T
  BY <1>1, <1>4
<1> QED
  BY <1>5

\* Such lists are one.
LEMMA SameList ==
  ASSUME NEW A, NEW s \in Seq(A), NEW r \in Seq(A), IsInjective(s), IsInjective(r),
         ToSet(s) = ToSet(r), \A a, b : Precedes(s, a, b) <=> Precedes(r, a, b)
  PROVE  s = r
<1>1. \A k \in 1..Len(s) : k \in 1..Len(r) /\ r[k] = s[k]
  BY SamePrefix
<1>2. \A k \in 1..Len(r) : k \in 1..Len(s) /\ s[k] = r[k]
  BY SamePrefix
<1>3. Len(s) \in Nat /\ Len(r) \in Nat
  OBVIOUS
<1>4. Len(s) = Len(r)
  <2>1. Len(s) > 0 => Len(s) <= Len(r)
    BY <1>1, <1>3
  <2>2. Len(r) > 0 => Len(r) <= Len(s)
    BY <1>2, <1>3
  <2> QED BY <1>3, <2>1, <2>2
<1> QED
  BY <1>1, <1>4

\* The order of two lists joined.
LEMMA JoinOrder ==
  ASSUME NEW A, NEW s \in Seq(A), NEW r \in Seq(A)
  PROVE  /\ s \o r \in Seq(A) /\ ToSet(s \o r) = ToSet(s) \cup ToSet(r)
         /\ IsInjective(s \o r) <=> /\ IsInjective(s) /\ IsInjective(r)
                                    /\ ToSet(s) \cap ToSet(r) = {}
         /\ \A a, b : Precedes(s \o r, a, b) <=>
              Precedes(s, a, b) \/ Precedes(r, a, b) \/ (a \in ToSet(s) /\ b \in ToSet(r))
<1> DEFINE m == Len(s)
           n == Len(r)
           q == s \o r
<1>1. /\ m \in Nat /\ n \in Nat /\ DOMAIN s = 1..m /\ DOMAIN r = 1..n
      /\ DOMAIN q = 1..(m + n) /\ q \in Seq(A)
      /\ \A k \in 1..m : q[k] = s[k]
      /\ \A k \in 1..n : q[k + m] = r[k]
  OBVIOUS
<1>2. ToSet(q) = ToSet(s) \cup ToSet(r)
  BY Joined
<1> HIDE DEF m, n, q
<1>3. /\ \A k \in 1..m : k \in 1..(m + n)
      /\ \A k \in 1..n : k + m \in 1..(m + n)
      /\ \A k \in 1..(m + n) : k \notin 1..m => k - m \in 1..n /\ (k - m) + m = k
  BY <1>1
<1>4. \A k \in 1..(m + n) : k \notin 1..m => q[k] = r[k - m]
  BY <1>1, <1>3
<1>5. ASSUME NEW a, NEW b, Precedes(q, a, b)
      PROVE  Precedes(s, a, b) \/ Precedes(r, a, b) \/ (a \in ToSet(s) /\ b \in ToSet(r))
  <2>1. PICK i, j \in 1..(m + n) : i < j /\ q[i] = a /\ q[j] = b
    BY <1>1, <1>5 DEF Precedes
  <2>2. CASE i \in 1..m /\ j \in 1..m
    BY <1>1, <2>1, <2>2 DEF Precedes
  <2>3. CASE i \in 1..m /\ j \notin 1..m
    <3>1. j - m \in 1..n /\ r[j - m] = b /\ s[i] = a
      BY <1>1, <1>3, <1>4, <2>1, <2>3
    <3> QED BY <1>1, <2>3, <3>1 DEF ToSet
  <2>4. CASE i \notin 1..m
    <3>1. j \notin 1..m
      BY <1>1, <2>1, <2>4
    <3>2. i - m \in 1..n /\ j - m \in 1..n /\ r[i - m] = a /\ r[j - m] = b
      BY <1>3, <1>4, <2>1, <2>4, <3>1
    <3>3. i - m < j - m
      BY <1>1, <2>1
    <3> QED BY <1>1, <3>2, <3>3 DEF Precedes
  <2> QED BY <2>2, <2>3, <2>4
<1>6. ASSUME NEW a, NEW b, Precedes(s, a, b) PROVE Precedes(q, a, b)
  <2>1. PICK i, j \in 1..m : i < j /\ s[i] = a /\ s[j] = b
    BY <1>1, <1>6 DEF Precedes
  <2> QED BY <1>1, <1>3, <2>1 DEF Precedes
<1>7. ASSUME NEW a, NEW b, Precedes(r, a, b) PROVE Precedes(q, a, b)
  <2>1. PICK i, j \in 1..n : i < j /\ r[i] = a /\ r[j] = b
    BY <1>1, <1>7 DEF Precedes
  <2>2. i + m < j + m /\ i + m \in 1..(m + n) /\ j + m \in 1..(m + n)
    BY <1>1, <1>3, <2>1
  <2> QED BY <1>1, <2>1, <2>2 DEF Precedes
<1>8. ASSUME NEW a \in ToSet(s), NEW b \in ToSet(r) PROVE Precedes(q, a, b)
  <2>1. PICK i \in 1..m : s[i] = a
    BY <1>1 DEF ToSet
  <2>2. PICK j \in 1..n : r[j] = b
    BY <1>1 DEF ToSet
  <2>3. i < j + m /\ i \in 1..(m + n) /\ j + m \in 1..(m + n)
    BY <1>1, <1>3
  <2> QED BY <1>1, <2>1, <2>2, <2>3 DEF Precedes
<1>9. IsInjective(q) <=> IsInjective(s) /\ IsInjective(r) /\ ToSet(s) \cap ToSet(r) = {}
  <2>1. ASSUME NEW z \in Seq(A) PROVE IsInjective(z) <=> \A a : ~Precedes(z, a, a)
    <3>1. DOMAIN z = 1..Len(z) /\ Len(z) \in Nat
      OBVIOUS
    <3>2. ASSUME IsInjective(z), NEW a, Precedes(z, a, a) PROVE FALSE
      BY <3>1, <3>2 DEF IsInjective, Precedes
    <3>3. ASSUME \A a : ~Precedes(z, a, a), NEW i \in DOMAIN z, NEW j \in DOMAIN z, z[i] = z[j]
          PROVE  i = j
      <4>1. ~(i < j) /\ ~(j < i)
        BY <3>3 DEF Precedes
      <4> QED BY <3>1, <4>1
    <3> QED BY <3>2, <3>3 DEF IsInjective
  <2>2. (\A a : ~Precedes(q, a, a)) <=>
          /\ \A a : ~Precedes(s, a, a)
          /\ \A a : ~Precedes(r, a, a)
          /\ \A a : ~(a \in ToSet(s) /\ a \in ToSet(r))
    BY <1>5, <1>6, <1>7, <1>8
  <2> QED BY <1>1, <2>1, <2>2
<1>10. ASSUME NEW a, NEW b
       PROVE  Precedes(q, a, b) <=>
                Precedes(s, a, b) \/ Precedes(r, a, b) \/ (a \in ToSet(s) /\ b \in ToSet(r))
  BY <1>5, <1>6, <1>7, <1>8
<1> QED
  BY <1>1, <1>2, <1>9, <1>10 DEF q

\* What is put between the two parts of a list.
LEMMA PutBetween ==
  ASSUME NEW A, NEW x \in Seq(A), NEW y \in Seq(A), NEW m \in Seq(A), IsInjective(x \o y),
         IsInjective(m), ToSet(m) \cap ToSet(x \o y) = {}
  PROVE  LET r == x \o m \o y
         IN  /\ r \in Seq(A) /\ IsInjective(r) /\ ToSet(r) = ToSet(x \o y) \cup ToSet(m)
             /\ \A a, b : Precedes(r, a, b) <=>
                  \/ Precedes(x \o y, a, b) \/ Precedes(m, a, b)
                  \/ a \in ToSet(x) /\ b \in ToSet(m)
                  \/ a \in ToSet(m) /\ b \in ToSet(y)
<1>1. /\ ToSet(x \o y) = ToSet(x) \cup ToSet(y)
      /\ IsInjective(x) /\ IsInjective(y) /\ ToSet(x) \cap ToSet(y) = {}
      /\ \A a, b : Precedes(x \o y, a, b) <=>
           Precedes(x, a, b) \/ Precedes(y, a, b) \/ (a \in ToSet(x) /\ b \in ToSet(y))
  BY JoinOrder
<1> DEFINE xm == x \o m
<1>2. /\ xm \in Seq(A) /\ ToSet(xm) = ToSet(x) \cup ToSet(m)
      /\ IsInjective(xm) <=> IsInjective(x) /\ IsInjective(m) /\ ToSet(x) \cap ToSet(m) = {}
      /\ \A a, b : Precedes(xm, a, b) <=>
           Precedes(x, a, b) \/ Precedes(m, a, b) \/ (a \in ToSet(x) /\ b \in ToSet(m))
  BY JoinOrder
<1> HIDE DEF xm
<1> DEFINE r == xm \o y
<1>3. /\ r \in Seq(A) /\ ToSet(r) = ToSet(xm) \cup ToSet(y)
      /\ IsInjective(r) <=> IsInjective(xm) /\ IsInjective(y) /\ ToSet(xm) \cap ToSet(y) = {}
      /\ \A a, b : Precedes(r, a, b) <=>
           Precedes(xm, a, b) \/ Precedes(y, a, b) \/ (a \in ToSet(xm) /\ b \in ToSet(y))
  BY <1>2, JoinOrder
<1> HIDE DEF r
<1>4. IsInjective(r) /\ ToSet(r) = ToSet(x \o y) \cup ToSet(m)
  BY <1>1, <1>2, <1>3
<1>5. ASSUME NEW a, NEW b
      PROVE  Precedes(r, a, b) <=>
               \/ Precedes(x \o y, a, b) \/ Precedes(m, a, b)
               \/ a \in ToSet(x) /\ b \in ToSet(m)
               \/ a \in ToSet(m) /\ b \in ToSet(y)
  BY <1>1, <1>2, <1>3
<1> QED
  BY <1>3, <1>4, <1>5 DEF r, xm

\* A list divided after one of its members, or before the first.
LEMMA DividedAt ==
  ASSUME NEW A, NEW s \in Seq(A), IsInjective(s), NEW i \in 0..Len(s)
  PROVE  LET x == SubSeq(s, 1, i)
             y == SubSeq(s, i + 1, Len(s))
         IN  /\ x \in Seq(A) /\ y \in Seq(A) /\ x \o y = s
             /\ i = 0 => ToSet(x) = {}
             /\ i # 0 => ToSet(x) = {c \in ToSet(s) : c = s[i] \/ Precedes(s, c, s[i])}
<1> DEFINE x == SubSeq(s, 1, i)
           y == SubSeq(s, i + 1, Len(s))
<1>1. Len(s) \in Nat /\ DOMAIN s = 1..Len(s) /\ i \in Nat /\ i + 1 \in 1..(Len(s) + 1) /\ (i + 1) - 1 = i
  OBVIOUS
<1>2. x \in Seq(A) /\ Len(x) = i /\ \A k \in 1..i : x[k] = s[k]
  BY <1>1, Upto
<1>3. y \in Seq(A) /\ Len(y) = Len(s) - i /\ \A k \in 1..(Len(s) - i) : y[k] = s[k + i]
  BY From
<1> HIDE DEF x, y
<1>4. x \o y = s
  <2>1. Len(x \o y) = Len(s)
    <3>0. x \in Seq(A) /\ y \in Seq(A)
      BY <1>2, <1>3
    <3>1. Len(x \o y) = Len(x) + Len(y)
      BY <3>0, ConcatProperties
    <3> QED BY <1>1, <1>2, <1>3, <3>1
  <2>2. ASSUME NEW k \in 1..Len(s) PROVE (x \o y)[k] = s[k]
    <3>1. CASE k \in 1..i
      BY <1>2, <1>3, <3>1
    <3>2. CASE k \notin 1..i
      <4>1. k - i \in 1..(Len(s) - i) /\ (k - i) + i = k /\ k > i
        BY <1>1, <3>2
      <4>2. (x \o y)[k] = y[k - i]
        BY <1>1, <1>2, <1>3, <4>1
      <4> QED BY <1>3, <4>1, <4>2
    <3> QED BY <3>1, <3>2
  <2>3. x \o y \in Seq(A)
    BY <1>2, <1>3
  <2> QED BY <2>1, <2>2, <2>3, SeqEqual
<1>5. ToSet(x) = {s[k] : k \in 1..i}
  BY <1>2 DEF ToSet
<1>6. i = 0 => ToSet(x) = {}
  BY <1>5
<1>7. ASSUME i # 0 PROVE ToSet(x) = {c \in ToSet(s) : c = s[i] \/ Precedes(s, c, s[i])}
  <2>1. i \in 1..Len(s) /\ \A k \in 1..i : k \in 1..Len(s) /\ (k < i \/ k = i)
    BY <1>1, <1>7
  <2>2. ASSUME NEW k \in 1..i PROVE s[k] \in ToSet(s) /\ (s[k] = s[i] \/ Precedes(s, s[k], s[i]))
    BY <1>1, <2>1 DEF Precedes, ToSet
  <2>3. ASSUME NEW c, c = s[i] \/ Precedes(s, c, s[i]) PROVE \E k \in 1..i : s[k] = c
    <3>1. CASE c = s[i]
      BY <1>1, <2>1, <3>1
    <3>2. CASE Precedes(s, c, s[i])
      <4>1. PICK k, l \in 1..Len(s) : k < l /\ s[k] = c /\ s[l] = s[i]
        BY <1>1, <3>2 DEF Precedes
      <4>2. l = i
        BY <1>1, <2>1, <4>1 DEF IsInjective
      <4> QED BY <1>1, <4>1, <4>2
    <3> QED BY <2>3, <3>1, <3>2
  <2> QED BY <1>5, <2>2, <2>3
<1> QED
  BY <1>2, <1>3, <1>4, <1>6, <1>7 DEF x, y

\* The members between two places.
LEMMA BetweenIs ==
  ASSUME NEW A, NEW s \in Seq(A), NEW i \in 0..Len(s), NEW j \in 1..(Len(s) + 1)
  PROVE  ToSet(SubSeq(s, i + 1, j - 1)) = {s[k] : k \in {l \in 1..Len(s) : i < l /\ l < j}}
<1> DEFINE m == i + 1
           n == j - 1
           z == SubSeq(s, m, n)
<1>1. Len(s) \in Nat /\ i \in Nat /\ j \in Nat /\ m \in Int /\ n \in Int
  OBVIOUS
<1>2. \A k \in m..n : s[k] \in A
  OBVIOUS
<1>3. /\ z \in Seq(A) /\ Len(z) = IF m <= n THEN n - m + 1 ELSE 0
      /\ \A k \in 1..(n - m + 1) : z[k] = s[m + k - 1]
  <2> HIDE DEF m, n
  <2> QED BY <1>1, <1>2, SubSeqProperties
<1> HIDE DEF z
<1>4. ToSet(z) = {z[k] : k \in 1..Len(z)}
  BY <1>3 DEF ToSet
<1>5. ASSUME NEW k \in 1..Len(z)
      PROVE  \E l \in 1..Len(s) : i < l /\ l < j /\ z[k] = s[l]
  <2>1. m <= n /\ k \in 1..(n - m + 1)
    BY <1>1, <1>3
  <2>2. m + k - 1 \in 1..Len(s) /\ i < m + k - 1 /\ m + k - 1 < j
    BY <1>1, <2>1
  <2> QED BY <1>3, <2>1, <2>2
<1>6. ASSUME NEW l \in 1..Len(s), i < l, l < j PROVE \E k \in 1..Len(z) : z[k] = s[l]
  <2>1. m <= n /\ l - i \in 1..(n - m + 1) /\ m + (l - i) - 1 = l
    BY <1>1, <1>6
  <2>2. l - i \in 1..Len(z)
    BY <1>3, <2>1
  <2> QED BY <1>3, <2>1, <2>2
<1>7. ToSet(z) = {s[k] : k \in {l \in 1..Len(s) : i < l /\ l < j}}
  <2> DEFINE B == {l \in 1..Len(s) : i < l /\ l < j}
  <2>1. \A k \in 1..Len(z) : \E l \in B : z[k] = s[l]
    BY <1>5
  <2>2. \A l \in B : \E k \in 1..Len(z) : z[k] = s[l]
    BY <1>6
  <2> HIDE DEF B
  <2>3. ToSet(z) = {s[k] : k \in B}
    <3>1. ASSUME NEW v \in ToSet(z) PROVE v \in {s[k] : k \in B}
      BY <1>4, <2>1
    <3>2. ASSUME NEW l \in B PROVE s[l] \in ToSet(z)
      BY <1>4, <2>2
    <3> QED BY <3>1, <3>2
  <2> QED BY <2>3 DEF B
<1> QED
  BY <1>7 DEF z
=============================================================================
