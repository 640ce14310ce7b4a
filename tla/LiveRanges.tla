------------------------------ MODULE LiveRanges ------------------------------
(* The live boundaries of ranges and of the selection's editor, which follow *)
(* the tree's mutations (range_live.rs), and the calls of Range that read     *)
(* and change what lies between them (range_contents.js).                     *)
(*                                                                            *)
(* A call that changes contents makes its plan first and then removes and     *)
(* appends node by node, each through the method a script would call.  Those  *)
(* deliver the reactions of custom elements as they return, so script runs    *)
(* between two steps of the plan.                                             *)
(*                                                                            *)
(* Data is a sequence of characters no two of which are the same, so that a   *)
(* character can be followed.  The notices to the owner of an editor, comment *)
(* and doctype nodes, and boundaries in another document are left out.        *)
EXTENDS Integers, Sequences, FiniteSets, SequencesExt, FiniteSetsExt, Functions

CONSTANTS
  Element, Text, Fragment,   \* the nodes there may ever be
  Body,                      \* the element that is in the document
  Custom,                    \* elements whose reactions run script
  NoNode,
  Char,                      \* the characters there may ever be
  Record,                    \* the records of the registry
  Starts                     \* pages to start from, and the calls allowed there

ASSUME NodesDiffer ==
  /\ Body \in Element /\ Custom \subseteq Element
  /\ Element \cap Text = {} /\ Fragment \cap (Element \cup Text) = {}
  /\ NoNode \notin Element \cup Text \cup Fragment
  /\ Char \subseteq Nat \ {0}

VARIABLES
  page,     \* kids and data of the nodes; at, the boundaries of each record;
            \* editors, the records that are no range; live, the nodes script
            \* may have; kept, those set aside for clones or forgotten;
            \* touched, the characters the last step moved or changed
  work,     \* the call on the contents of a range that is under way
  left,     \* how many calls script may still make
  astray    \* records that a known flaw of the code has led astray

vars == <<page, work, left, astray>>

Node == Element \cup Text \cup Fragment
Parents == Element \cup Fragment
Idle == [do |-> "nothing"]
-------------------------------------------------------------------------------
(* The tree of a page w. *)
Point(n, k) == [in |-> n, at |-> k]

Parent(w, n) ==
  LET holders == {p \in Parents : Contains(w.kids[p], n)}
  IN IF holders = {} THEN NoNode ELSE CHOOSE p \in holders : TRUE

Index(w, n) ==
  CHOOSE k \in 0 .. Len(w.kids[Parent(w, n)]) - 1 : w.kids[Parent(w, n)][k + 1] = n

RECURSIVE Above(_, _)
Above(w, n) == IF n = NoNode THEN {} ELSE {n} \cup Above(w, Parent(w, n))

RECURSIVE Top(_, _)
Top(w, n) == LET p == Parent(w, n) IN IF p = NoNode THEN n ELSE Top(w, p)
Under(w, n) == {m \in w.live : n \in Above(w, m)}
Size(w, n) == IF n \in Text THEN Len(w.data[n]) ELSE Len(w.kids[n])
After(w, n) ==
  LET row == w.kids[Parent(w, n)]
  IN IF Last(row) = n THEN NoNode ELSE row[Index(w, n) + 2]
Fresh(w) == Node \ (w.live \cup w.kept)

RECURSIVE TextFrom(_, _, _)
TextFrom(w, n, k) ==
  IF n \in Text THEN w.data[n]
  ELSE IF k > Len(w.kids[n]) THEN <<>>
  ELSE TextFrom(w, w.kids[n][k], 1) \o TextFrom(w, n, k + 1)
TextIn(w, n) == TextFrom(w, n, 1)
Chars(w, n) == ToSet(TextIn(w, n))

RECURSIVE Common(_, _, _)
Common(w, m, n) == IF m \in Above(w, n) THEN m ELSE Common(w, Parent(w, m), n)

RECURSIVE Branch(_, _, _)
Branch(w, a, n) == LET p == Parent(w, n) IN IF p = a THEN n ELSE Branch(w, a, p)
OneTree(w, rec) == Top(w, w.at[rec].start.in) = Top(w, w.at[rec].end.in)

\* Mutant: points at one offset count as one before the other.
PrecedesOrMeets(w, p, q) ==
  LET a == Common(w, p.in, q.in)
  IN IF p.in = q.in THEN p.at <= q.at
     ELSE IF a = p.in THEN p.at <= Index(w, Branch(w, a, q.in))
     ELSE IF a = q.in THEN q.at > Index(w, Branch(w, a, p.in))
     ELSE Index(w, Branch(w, a, p.in)) < Index(w, Branch(w, a, q.in))

\* Is point p strictly before q?  As compare finds it, by the branches.
Precedes(w, p, q) ==
  LET a == Common(w, p.in, q.in)
  IN IF p.in = q.in THEN p.at < q.at
     ELSE IF a = p.in THEN p.at <= Index(w, Branch(w, a, q.in))
     ELSE IF a = q.in THEN q.at > Index(w, Branch(w, a, p.in))
     ELSE Index(w, Branch(w, a, p.in)) < Index(w, Branch(w, a, q.in))
-------------------------------------------------------------------------------
(* How the boundaries follow a change. *)
Moved(w, insert, F(_, _)) ==
  [w EXCEPT !.at = [rec \in Record |->
     IF insert /\ rec \in w.editors THEN w.at[rec]
     ELSE [start |-> F(w.at[rec].start, rec \in w.editors),
           end |-> F(w.at[rec].end, rec \in w.editors)]]]

Removing(w, n) ==
  LET p == Parent(w, n)
      Follow(pt, editor) ==
        IF n \in Above(w, pt.in) THEN Point(p, Index(w, n))
        ELSE IF pt.in = p /\ pt.at > Index(w, n) THEN Point(p, pt.at - 1)
        ELSE pt
  IN IF p = NoNode THEN w ELSE Moved(w, FALSE, Follow)

Inserting(w, p, index, count) ==
  LET Follow(pt, editor) ==
        IF pt.in = p /\ pt.at > index THEN Point(p, pt.at + count) ELSE pt
  IN Moved(w, TRUE, Follow)

ReplacingData(w, t, offset, count, inserted) ==
  LET Follow(pt, editor) ==
        IF pt.in # t \/ pt.at <= offset THEN pt
        ELSE IF pt.at <= offset + count THEN Point(t, offset)
        ELSE Point(t, pt.at - count + inserted)
  IN Moved(w, FALSE, Follow)

\* Mutant: the parent's offsets are left to the insertion.
SplittingInside(w, t, next, offset) ==
  LET Follow(pt, editor) ==
        IF pt.in = t /\ pt.at > offset THEN Point(next, pt.at - offset) ELSE pt
  IN Moved(w, FALSE, Follow)

\* next is in the tree by now.
Splitting(w, t, next, offset) ==
  LET p == Parent(w, t)
      Follow(pt, editor) ==
        IF pt.in = t /\ pt.at > offset THEN Point(next, pt.at - offset)
        ELSE IF ~editor /\ p # NoNode /\ pt.in = p /\ pt.at > Index(w, t)
        THEN Point(p, pt.at + 1)
        ELSE pt
  IN Moved(w, FALSE, Follow)

\* Mutant: the boundaries follow in the order of the children.
ReplacingChildrenInOrder(w, n) ==
  FoldLeft(LAMBDA v, kid : Removing(v, kid), w, w.kids[n])

\* The children leave at once; the boundaries follow in reverse order.
ReplacingChildren(w, n) == FoldRight(LAMBDA kid, v : Removing(v, kid), w.kids[n], w)

\* Mutant: a boundary before the merged text stays where it is.
MergingTextInside(w, into, from, length) ==
  LET Follow(pt, editor) == IF pt.in = from THEN Point(into, pt.at + length) ELSE pt
  IN Moved(w, FALSE, Follow)

MergingText(w, into, from, length) ==
  LET Follow(pt, editor) ==
        IF pt.in = from THEN Point(into, pt.at + length)
        ELSE IF pt = Point(Parent(w, from), Index(w, from)) THEN Point(into, length)
        ELSE pt
  IN Moved(w, FALSE, Follow)
-------------------------------------------------------------------------------
(* The methods that change nodes, with the boundaries following.  touched is *)
(* what a step moves, takes out or puts in.                                  *)
Touch(w, chars) == [w EXCEPT !.touched = @ \cup chars]
Forget(w, n) == [w EXCEPT !.live = @ \ {n}, !.kept = @ \cup {n}, !.data[n] = <<>>]
Unlink(w, n) == [w EXCEPT !.kids[Parent(w, n)] = Remove(@, n)]

Removed(w, n) ==
  IF Parent(w, n) = NoNode THEN w ELSE Unlink(Touch(Removing(w, n), Chars(w, n)), n)

Incoming(w, n) == IF n \in Fragment THEN w.kids[n] ELSE <<n>>

Insertable(w, p, n, reference) ==
  /\ p \in Parents
  /\ n \notin Above(w, p)
  /\ reference # NoNode => Parent(w, reference) = p

\* plan: the first child from reference on that is not on its way itself.
Viable(w, p, n, reference) ==
  LET stay == {k \in 1 .. Len(w.kids[p]) :
                 /\ ~Contains(Incoming(w, n), w.kids[p][k])
                 /\ k > Index(w, reference)}
  IN IF reference = NoNode \/ stay = {} THEN NoNode ELSE w.kids[p][Min(stay)]

PlaceOf(w, p, reference) ==
  IF reference = NoNode THEN Len(w.kids[p]) ELSE Index(w, reference)

Linked(w, p, nodes, index) ==
  [w EXCEPT !.kids[p] = SubSeq(@, 1, index) \o nodes \o SubSeq(@, index + 1, Len(@))]

Inserted(w, p, n, reference) ==
  LET nodes == Incoming(w, n)
      before == Viable(w, p, n, reference)
      off == FoldLeft(LAMBDA v, m : Removed(v, m), w, nodes)
      index == PlaceOf(off, p, before)
      chars == UNION {Chars(w, m) : m \in Range(nodes)}
  IN Linked(Inserting(Touch(off, chars), p, index, Len(nodes)), p, nodes, index)

\* moveBefore takes the index among the others and moves in one go.
MovedBefore(w, p, n, reference) ==
  LET before == Viable(w, p, n, reference)
      off == Unlink(Removing(w, n), n)
      index == PlaceOf(off, p, before)
  IN Touch(Linked(Inserting(off, p, index, 1), p, <<n>>, index), Chars(w, n))

Replaced(w, t, offset, count, chars) ==
  LET row == w.data[t]
      taken == SubSeq(row, offset + 1, offset + count)
  IN [Touch(ReplacingData(w, t, offset, count, Len(chars)), Range(taken) \cup Range(chars))
        EXCEPT !.data[t] = SubSeq(row, 1, offset) \o chars
                             \o SubSeq(row, offset + count + 1, Len(row))]

Split(w, t, offset, next) ==
  LET row == w.data[t]
      apart == [w EXCEPT !.data[t] = SubSeq(row, 1, offset),
                         !.data[next] = SubSeq(row, offset + 1, Len(row)),
                         !.live = @ \cup {next}]
      p == Parent(w, t)
      both == IF p = NoNode THEN apart ELSE Linked(apart, p, <<next>>, Index(w, t) + 1)
  IN Splitting(both, t, next, offset)

\* textContent of an element.
Refilled(w, n, chars, t) ==
  LET bare == [Touch(ReplacingChildren(w, n), Chars(w, n) \cup Range(chars))
                 EXCEPT !.kids[n] = <<>>]
  IN IF chars = <<>> THEN bare
     ELSE [bare EXCEPT !.kids[n] = <<t>>, !.data[t] = chars, !.live = @ \cup {t}]

\* One child of a parent that is normalized, those before it being done.  A
\* text that was merged keeps a copy of its characters: script forgets it here.
Normalized(w, n) ==
  LET k == Index(w, n)
      row == w.kids[Parent(w, n)]
      into == row[k]
      merged == MergingText(w, into, n, Len(w.data[into]))
      joined == [merged EXCEPT !.data[into] = @ \o w.data[n]]
  IN IF n \notin Text THEN w
     ELSE IF k > 0 /\ into \in Text THEN Forget(Unlink(Removing(joined, n), n), n)
     ELSE IF w.data[n] = <<>> THEN Removed(w, n)
     ELSE w

NormalizedUnder(w, n) ==
  LET rows == {w.kids[p] : p \in Under(w, n) \cap Parents}
  IN FoldSet(LAMBDA row, v : FoldLeft(LAMBDA u, m : Normalized(u, m), v, row), w, rows)
-------------------------------------------------------------------------------
(* The plan of a call on contents, made before anything moves. *)
Full(w, n, s, e) ==
  LET p == Parent(w, n)
  IN /\ n \notin Above(w, s.in) \cup Above(w, e.in)
     /\ ~Precedes(w, Point(p, Index(w, n)), s)
     /\ ~Precedes(w, e, Point(p, Index(w, n) + 1))

Partly(w, s, e) == (Above(w, s.in) \cup Above(w, e.in)) \ Above(w, Common(w, s.in, e.in))

Cut(w, t, s, e) ==
  LET from == IF s.in = t THEN s.at ELSE 0
      to == IF e.in = t THEN e.at ELSE Len(w.data[t])
  IN [node |-> t, from |-> from, count |-> to - from]

Ends(w, s, e) == IF s.in = e.in /\ s.in \in Text THEN {s.in} ELSE Partly(w, s, e) \cap Text

RECURSIVE PlannedIn(_, _, _, _)
PlannedIn(w, n, s, e) ==
  IF n \in Ends(w, s, e)
  THEN LET c == Cut(w, n, s, e) IN SubSeq(w.data[n], c.from + 1, c.from + c.count)
  ELSE LET part(m) == IF m \in Partly(w, s, e) THEN PlannedIn(w, m, s, e)
                      ELSE IF Full(w, m, s, e) THEN TextIn(w, m) ELSE <<>>
       IN FlattenSeq([k \in DOMAIN w.kids[n] |-> part(w.kids[n][k])])

\* toString: the text the plan covers.
Planned(w, s, e) == IF s = e THEN <<>> ELSE PlannedIn(w, Common(w, s.in, e.in), s, e)

Drop(n) == [do |-> "drop", node |-> n]
Move(n, to) == [do |-> "move", node |-> n, to |-> to]
Snip(cut, copy, to) == [do |-> "cut", node |-> cut.node, from |-> cut.from,
                        count |-> cut.count, copy |-> copy, to |-> to]

\* execute: the plan as single steps, a shell after what goes into it.  With
\* NoNode for a target everything is deleted.
StepsOf(w, s, e, target, copies) ==
  LET shared == Common(w, s.in, e.in)
      dest(n) == IF target = NoNode \/ n = shared \/ Parent(w, n) = shared
                 THEN target ELSE copies[Parent(w, n)]
      part[n \in Node] ==
        IF n # shared /\ Full(w, n, s, e)
        THEN << IF target = NoNode THEN Drop(n) ELSE Move(n, dest(n)) >>
        ELSE IF n \in Ends(w, s, e)
        THEN << Snip(Cut(w, n, s, e), IF target = NoNode THEN NoNode ELSE copies[n], dest(n)) >>
        ELSE IF n \in Parents \cap (Partly(w, s, e) \cup {shared})
        THEN FlattenSeq([k \in DOMAIN w.kids[n] |-> part[w.kids[n][k]]])
             \o IF n = shared \/ target = NoNode THEN <<>> ELSE << Move(copies[n], dest(n)) >>
        ELSE <<>>
  IN part[shared]

\* Mutant: before the node it started in.
CollapsePointBefore(w, s, e) ==
  LET out == CHOOSE m \in Above(w, s.in) :
               /\ m \notin Above(w, e.in)
               /\ Parent(w, m) \in Above(w, e.in)
  IN IF s.in \in Above(w, e.in) THEN s ELSE Point(Parent(w, out), Index(w, out))

\* Where the range ends up.
CollapsePoint(w, s, e) ==
  LET out == CHOOSE m \in Above(w, s.in) :
               /\ m \notin Above(w, e.in)
               /\ Parent(w, m) \in Above(w, e.in)
  IN IF s.in \in Above(w, e.in) THEN s ELSE Point(Parent(w, out), Index(w, out) + 1)

\* Where it waits meanwhile.
CollapseFirst(w, rec) ==
  LET s == w.at[rec].start
      e == w.at[rec].end
      shared == Common(w, s.in, e.in)
      pt == IF s.in # shared THEN Point(shared, Index(w, Branch(w, shared, s.in)) + 1)
            ELSE Point(shared, Index(w, Branch(w, shared, e.in)))
  IN IF s.in = e.in THEN w ELSE [w EXCEPT !.at[rec] = [start |-> pt, end |-> pt]]
-------------------------------------------------------------------------------
(* Calls of script: between others, or while a reaction runs. *)
Script == left > 0 /\ (work # Idle => work.open)

Calls(w) ==
  /\ left' = left - 1
  /\ page' = w
  /\ work' = IF work = Idle THEN Idle ELSE [work EXCEPT !.intruded = TRUE]

Now == [page EXCEPT !.touched = {}]
NewChars == Char \ UNION {Range(page.data[t]) : t \in page.live \cap Text}
Words == {<<>>} \cup {<<Min(NewChars)>> : c \in NewChars}
NewText == CHOOSE t \in Fresh(page) \cap Text : TRUE
Ranges == Record \ page.editors

RemoveChild(n) ==
  /\ Script /\ Parent(page, n) # NoNode
  /\ Calls(Removed(Now, n))
  /\ UNCHANGED astray

InsertBefore(p, n, reference) ==
  /\ Script /\ Insertable(page, p, n, reference)
  /\ Calls(Inserted(Now, p, n, reference))
  /\ UNCHANGED astray

MoveBefore(p, n, reference) ==
  /\ Script /\ Insertable(page, p, n, reference) /\ n \notin Fragment
  /\ Top(page, p) = Top(page, n)
  /\ Calls(MovedBefore(Now, p, n, reference))
  /\ UNCHANGED astray

ReplaceData(t, offset, count, chars) ==
  /\ Script
  /\ Calls(Replaced(Now, t, offset, count, chars))
  /\ UNCHANGED astray

\* A text without a parent leaves its second half in a tree of its own.
SplitText(t, offset) ==
  LET w == Split(Now, t, offset, NewText)
  IN /\ Script /\ Fresh(page) \cap Text # {}
     /\ Calls(w)
     /\ astray' = astray \cup {rec \in Ranges : OneTree(page, rec) /\ ~OneTree(w, rec)}

SetTextContent(n, chars) ==
  /\ Script /\ Fresh(page) \cap Text # {}
  /\ Calls(Refilled(Now, n, chars, NewText))
  /\ UNCHANGED astray

Normalize(n) ==
  /\ Script
  /\ Calls(NormalizedUnder(Now, n))
  /\ UNCHANGED astray

\* boundary: the other end comes along if it would be on the wrong side.
SetStart(rec, pt) ==
  LET end == page.at[rec].end
      off == Top(page, pt.in) # Top(page, end.in) \/ Precedes(page, end, pt)
  IN /\ Script
     /\ Calls([Now EXCEPT !.at[rec] = [start |-> pt, end |-> IF off THEN pt ELSE end]])
     /\ UNCHANGED astray

SetEnd(rec, pt) ==
  LET start == page.at[rec].start
      off == Top(page, pt.in) # Top(page, start.in) \/ Precedes(page, pt, start)
  IN /\ Script
     /\ Calls([Now EXCEPT !.at[rec] = [start |-> IF off THEN pt ELSE start, end |-> pt]])
     /\ UNCHANGED astray

Around(w, n) == [start |-> Point(Parent(w, n), Index(w, n)),
                 end |-> Point(Parent(w, n), Index(w, n) + 1)]

SelectNode(rec, n) ==
  /\ Script /\ Parent(page, n) # NoNode
  /\ Calls([Now EXCEPT !.at[rec] = Around(page, n)])
  /\ astray' = astray \ {rec}

SelectNodeContents(rec, n) ==
  /\ Script
  /\ Calls([Now EXCEPT !.at[rec] = [start |-> Point(n, 0), end |-> Point(n, Size(page, n))]])
  /\ astray' = astray \ {rec}
-------------------------------------------------------------------------------
(* The reference: the points and characters of a tree on one line. *)
Item(n, k, c) == [in |-> n, at |-> k, char |-> c]

RECURSIVE Line(_, _, _)
Line(w, n, k) ==
  IF n \in Text
  THEN [i \in 1 .. 2 * Len(w.data[n]) + 1 |->
          IF i % 2 = 1 THEN Item(n, i \div 2, 0) ELSE Item(n, 0, w.data[n][i \div 2])]
  ELSE IF k = Len(w.kids[n]) THEN <<Item(n, k, 0)>>
  ELSE <<Item(n, k, 0)>> \o Line(w, w.kids[n][k + 1], 0) \o Line(w, n, k + 1)

LineOf(w, n) == Line(w, Top(w, n), 0)

PlaceOn(line, pt) == CHOOSE k \in DOMAIN line : line[k] = Item(pt.in, pt.at, 0)
CharsOn(line) == LET kept == SelectSeq(line, LAMBDA i : i.char # 0)
                 IN [k \in DOMAIN kept |-> kept[k].char]
Before(w, pt) ==
  LET line == LineOf(w, pt.in)
  IN CharsOn(SubSeq(line, 1, PlaceOn(line, pt)))
Within(w, s, e) ==
  LET line == LineOf(w, s.in)
  IN CharsOn(SubSeq(line, PlaceOn(line, s), PlaceOn(line, e)))
Rest(w, s, e) ==
  LET line == LineOf(w, s.in)
  IN Before(w, s) \o CharsOn(SubSeq(line, PlaceOn(line, e), Len(line)))
-------------------------------------------------------------------------------
(* The calls that change what is in a range. *)
Settle(pt) == [do |-> "settle", point |-> pt]
Wrapping(n, target) ==
  << [do |-> "clear", node |-> n], [do |-> "place", node |-> n],
     Move(target, n), [do |-> "grab", node |-> n] >>

Begin(w, rec, steps, target) ==
  LET s == page.at[rec].start
      e == page.at[rec].end
  IN /\ work = Idle /\ left > 0
     /\ left' = left - 1
     /\ page' = w
     /\ work' = [do |-> "contents", rec |-> rec, steps |-> steps, target |-> target,
                 open |-> FALSE, intruded |-> FALSE,
                 \* what the reference says of it
                 want |-> Within(page, s, e), rest |-> Rest(page, s, e),
                 before |-> Before(page, s)]
     /\ UNCHANGED astray

Copied(w, s, e) == Partly(w, s, e) \cup Ends(w, s, e)

Copies(w, s, e) ==
  {f \in [Copied(w, s, e) -> Fresh(w) \ Fragment] :
     /\ IsInjective(f)
     /\ \A n \in DOMAIN f : n \in Text <=> f[n] \in Text}

PlanOf(rec, target, copies) ==
  LET s == page.at[rec].start
      e == page.at[rec].end
  IN IF s = e THEN <<>>
     ELSE StepsOf(page, s, e, target, copies) \o <<Settle(CollapsePoint(page, s, e))>>

Apart(rec) == page.at[rec].start # page.at[rec].end

DeleteContents(rec) ==
  /\ rec \notin astray /\ Apart(rec)
  /\ Begin(CollapseFirst(Now, rec), rec, PlanOf(rec, NoNode, <<>>), NoNode)

Extracting(rec, more(_)) ==
  LET s == page.at[rec].start
      e == page.at[rec].end
      target == CHOOSE f \in Fresh(page) \cap Fragment : TRUE
      copies == CHOOSE f \in Copies(page, s, e) : TRUE
  IN /\ rec \notin astray /\ Fresh(page) \cap Fragment # {} /\ Copies(page, s, e) # {}
     /\ Begin([CollapseFirst(Now, rec) EXCEPT !.live = @ \cup {target},
                                             !.kept = @ \cup Range(copies)], rec,
              PlanOf(rec, target, copies) \o more(target), target)

ExtractContents(rec) == Apart(rec) /\ Extracting(rec, LAMBDA target : <<>>)

\* Only texts may be selected in part.  That a text can hold nothing is found
\* out when it is to be filled.
SurroundContents(rec, n) ==
  /\ n \notin Fragment /\ rec \notin astray
  /\ Partly(page, page.at[rec].start, page.at[rec].end) \subseteq Text
  /\ Extracting(rec, LAMBDA target : Wrapping(n, target))

InsertNode(rec, n) ==
  rec \notin astray /\ Begin(Now, rec, << [do |-> "place", node |-> n] >>, NoNode)
-------------------------------------------------------------------------------
(* Their steps.  Each ends with the reactions of what it moved. *)
Doing(do) == work # Idle /\ Head(work.steps).do = do
Step == Head(work.steps)

Reacts(w, n) == Body \in Above(w, n) /\ \E c \in Custom : n \in Above(w, c)

Onward(w, steps, open) ==
  /\ page' = w
  /\ work' = IF steps = <<>> THEN Idle ELSE [work EXCEPT !.steps = steps, !.open = open]
  /\ UNCHANGED left

\* An exception ends the call.
Throw == work' = Idle /\ UNCHANGED <<page, left, astray>>

DropNode ==
  LET n == Step.node IN
  /\ Doing("drop") /\ Parent(page, n) # NoNode
  /\ Onward(Removed(Now, n), Tail(work.steps), Reacts(page, n))
  /\ UNCHANGED astray

MoveNode ==
  LET w == [Now EXCEPT !.live = @ \cup {Step.node, Step.to}]
      after == Inserted(w, Step.to, Step.node, NoNode)
      moved == Incoming(w, Step.node)
  IN /\ Doing("move") /\ Insertable(page, Step.to, Step.node, NoNode)
     /\ Onward(after, Tail(work.steps),
               \E n \in Range(moved) : Reacts(page, n) \/ Reacts(after, n))
     /\ UNCHANGED astray

\* Only the first step can cut from within a text, and no reaction comes before
\* it: deleteData never finds its text too short to begin.
CutText ==
  LET t == Step.node
      count == Min({Step.count, Len(page.data[t]) - Step.from})
      taken == SubSeq(page.data[t], Step.from + 1, Step.from + count)
      copied == [Now EXCEPT !.data[Step.copy] = taken, !.live = @ \cup {Step.copy}]
      w == IF Step.to = NoNode THEN Now ELSE Inserted(copied, Step.to, Step.copy, NoNode)
  IN /\ Doing("cut")
     /\ Onward(Replaced(w, t, Step.from, count, <<>>), Tail(work.steps), FALSE)
     /\ UNCHANGED astray

\* collapseAt, with the point of the plan.
SettleRange ==
  /\ Doing("settle")
  /\ Onward([Now EXCEPT !.at[work.rec] = [start |-> Step.point, end |-> Step.point]],
            Tail(work.steps), FALSE)
  /\ astray' = IF work.intruded THEN astray \cup {work.rec} ELSE astray

\* The first child again and again, until there is none.
ClearNode ==
  LET kids == IF Step.node \in Parents THEN page.kids[Step.node] ELSE <<>> IN
  /\ Doing("clear")
  /\ \/ kids # <<>> /\ Onward(Removed(Now, Head(kids)), work.steps, Reacts(page, Head(kids)))
     \/ kids = <<>> /\ Onward(Now, Tail(work.steps), FALSE)
  /\ UNCHANGED astray

Placeable(n, s) ==
  LET container == IF s.in \in Text THEN Parent(page, s.in) ELSE s.in
  IN n # s.in /\ Insertable(page, container, n, NoNode)

Fetch(n) == [do |-> "fetch", node |-> n]
Land(n, to, reference, count, collapsed) ==
  [do |-> "land", node |-> n, to |-> to, reference |-> reference, count |-> count,
   collapsed |-> collapsed]
Stretch(pt, nodes) == [do |-> "stretch", point |-> pt, nodes |-> nodes]

\* insertNode splits the text it starts in, and chooses the place.
PlaceNode ==
  LET n == Step.node
      s == page.at[work.rec].start
      inText == s.in \in Text
      to == IF inText THEN Parent(page, s.in) ELSE s.in
      found == IF inText THEN NewText
               ELSE IF s.at < Size(page, s.in) THEN page.kids[s.in][s.at + 1] ELSE NoNode
      reference == IF found = n THEN After(page, n) ELSE found
      w == IF inText THEN Split(Now, s.in, s.at, NewText) ELSE Now
  IN /\ Doing("place") /\ Placeable(n, s)
     /\ inText => Fresh(page) \cap Text # {}
     /\ Onward(w, <<Fetch(n), Land(n, to, reference, Len(Incoming(page, n)), ~Apart(work.rec))>>
                  \o Tail(work.steps), FALSE)
     /\ UNCHANGED astray

FetchNode ==
  /\ Doing("fetch")
  /\ Onward(Removed(Now, Step.node), Tail(work.steps), Reacts(page, Step.node))
  /\ UNCHANGED astray

CanLand ==
  Insertable(page, Step.to, Step.node, Step.reference)

\* Where the range is to end is worked out before the insertion and its
\* reactions, and assigned after them.
LandNode ==
  LET moved == Incoming(page, Step.node)
      end == Point(Step.to, PlaceOf(page, Step.to, Step.reference) + Step.count)
      w == Inserted(Now, Step.to, Step.node, Step.reference)
  IN /\ Doing("land") /\ CanLand
     /\ Onward(w, (IF Step.collapsed THEN <<Stretch(end, moved)>> ELSE <<>>) \o Tail(work.steps),
               \E n \in Range(moved) : Reacts(page, n) \/ Reacts(w, n))
     /\ UNCHANGED astray

StretchRange ==
  /\ Doing("stretch")
  /\ Onward([Now EXCEPT !.at[work.rec].end = Step.point], Tail(work.steps), FALSE)
  /\ astray' = IF work.intruded THEN astray \cup {work.rec} ELSE astray

GrabNode ==
  /\ Doing("grab") /\ Parent(page, Step.node) # NoNode
  /\ Onward([Now EXCEPT !.at[work.rec] = Around(page, Step.node)], Tail(work.steps), FALSE)
  /\ astray' = astray \ {work.rec}

\* What the reactions did makes a step throw.
StepThrows ==
  /\ \/ Doing("drop") /\ Parent(page, Step.node) = NoNode
     \/ Doing("move") /\ ~Insertable(page, Step.to, Step.node, NoNode)
     \/ Doing("place") /\ ~Placeable(Step.node, page.at[work.rec].start)
     \/ Doing("land") /\ ~CanLand
     \/ Doing("grab") /\ Parent(page, Step.node) = NoNode
  /\ Throw
-------------------------------------------------------------------------------
Fitting == UNION {{Point(n, k) : k \in 0 .. Size(page, n)} : n \in page.live}
Moves == {n \in page.live : n # Body /\ (n \in Fragment => page.kids[n] # <<>>)}

RangesInit ==
  /\ \E start \in Starts : page = start.page /\ left = start.calls
  /\ work = Idle
  /\ astray = {}

ScriptCalls ==
  \/ \E n \in Moves : RemoveChild(n)
  \/ \E p \in page.live \cap Parents, n \in Moves :
       \E reference \in Range(page.kids[p]) \cup {NoNode} :
          InsertBefore(p, n, reference) \/ MoveBefore(p, n, reference)
  \/ \E t \in page.live \cap Text : \E offset \in 0 .. Len(page.data[t]) :
       \/ SplitText(t, offset)
       \/ \E count \in 0 .. Len(page.data[t]) - offset, chars \in Words :
            ReplaceData(t, offset, count, chars)
  \/ \E n \in page.live \cap Element, chars \in Words : SetTextContent(n, chars)
  \/ \E n \in page.live \cap Parents : Normalize(n)
  \/ \E rec \in Ranges :
       \/ \E pt \in Fitting : SetStart(rec, pt) \/ SetEnd(rec, pt)
       \/ \E n \in Moves : SelectNode(rec, n)
       \/ \E n \in page.live : SelectNodeContents(rec, n)

RangeCalls ==
  \E rec \in Ranges :
    \/ DeleteContents(rec)
    \/ ExtractContents(rec)
    \/ \E n \in Moves : SurroundContents(rec, n) \/ InsertNode(rec, n)

Steps == DropNode \/ MoveNode \/ CutText \/ SettleRange \/ ClearNode \/ PlaceNode
         \/ FetchNode \/ LandNode \/ StretchRange \/ GrabNode \/ StepThrows

RangesNext == ScriptCalls \/ RangeCalls \/ Steps
RangesSpec == RangesInit /\ [][RangesNext]_vars
-------------------------------------------------------------------------------
(* What must hold. *)

\* A boundary is at a node there is and not beyond its end, whatever script
\* does, between the steps of a call as well; update moves what each change
\* would leave outside.  Except where reactions overtook a call's plan.
PointsFit ==
  \A rec \in Record \ astray :
    \A pt \in {page.at[rec].start, page.at[rec].end} :
      pt.in \in page.live /\ pt.at <= Size(page, pt.in)

\* A range starts before it ends, in one tree.  Its two boundaries follow each
\* change on their own, and nothing ever compares them afterwards.
InOrder ==
  \A rec \in Ranges \ astray :
    LET s == page.at[rec].start
        e == page.at[rec].end
        line == LineOf(page, s.in)
    IN OneTree(page, rec) /\ PlaceOn(line, s) <= PlaceOn(line, e)

\* toString, which decides node by node with compare, tells the characters
\* between the boundaries.
TextIsSelected ==
  \A rec \in Ranges \ astray :
    LET s == page.at[rec].start
        e == page.at[rec].end
    IN Planned(page, s, e) = Within(page, s, e)

\* A call that no reaction disturbed has taken what was selected when it
\* began, left everything else, and knows where it was; and a collapsed range
\* that takes in a node selects just that.
ContentsTakeTheSelection ==
  work # Idle /\ ~work.intruded =>
    /\ Doing("settle") =>
         /\ CharsOn(LineOf(page, Step.point.in)) = work.rest
         /\ Before(page, Step.point) = work.before
         /\ work.target # NoNode => CharsOn(LineOf(page, work.target)) = work.want
    /\ Doing("stretch") =>
         Within(page, page.at[work.rec].start, Step.point)
           = FlattenSeq([k \in DOMAIN Step.nodes |-> TextIn(page, Step.nodes[k])])

\* A change of the tree leaves every character it does not touch on its side
\* of every boundary of every range, but those of the call at work.
SidesKept(pt, after) ==
  LET before == ToSet(Before(page, pt))
      now == ToSet(Before(page', after))
      settled == (Chars(page, Top(page, pt.in)) \cap Chars(page', Top(page', after.in)))
                   \ page'.touched
  IN before \cap settled = now \cap settled
AtWork(rec) == \/ work # Idle /\ rec = work.rec
               \/ work' # Idle /\ rec = work'.rec
KeepsSides ==
  [][<<page.kids, page.data>> # <<page'.kids, page'.data>> =>
       \A rec \in Ranges \ astray' :
          ~AtWork(rec) => /\ SidesKept(page.at[rec].start, page'.at[rec].start)
                          /\ SidesKept(page.at[rec].end, page'.at[rec].end)]_vars
===============================================================================
