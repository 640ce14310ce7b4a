--------------------------- MODULE StyleGenerations ---------------------------
(***************************************************************************)
(* The style generations of a Tree (rtdom/tree.rs: style_gens, child_gens, *)
(* form_gen, global_style_gen, style_generation): per-node stamps of the   *)
(* selector version, on which the bindings key a cached computed style     *)
(* (browser-env browser_env.js, computedCacheKey).  The cached style of    *)
(* one element is kept as what its selectors read when it was computed;    *)
(* the selectors are those without :has() that name the class tokens       *)
(* Named.                                                                  *)
(*                                                                         *)
(* Attributes are abstracted to the tokens of `class` and to presence;     *)
(* "id" and "form" hold one and the same name, "required" makes a control  *)
(* invalid, "media" makes a stylesheet apply, "state" is a form property or *)
(* other state the bindings report.                                        *)
(***************************************************************************)
EXTENDS TreeLists

CONSTANTS Form, Control, Sheet,   \* elements: <form>, <input>, <style>/<link>
          Named,      \* class tokens the selectors name
          Filtered,   \* whether the bindings reported Named (set_style_filter)
          Writes,     \* the attributes this instance writes
          Scopes,     \* the scopes a style is computed for
          ParsedAttr, \* the attributes the page was parsed with
          MaxCalls    \* bound: calls after which nothing is mutated any more

VARIABLES attr,       \* attributes and state of each element
          sel,        \* selector_version
          styleGens, childGens, formGen, globalGen,
          cached,     \* one cached style: its element, scope, key and content
          calls

genVars == <<sel, styleGens, childGens, formGen, globalGen>>
allVars == <<vars, attr, genVars, cached, calls>>

Tokens == {"on", "x"}
Blank == [class |-> {}, id |-> FALSE, form |-> FALSE, required |-> FALSE,
          style |-> FALSE, media |-> FALSE, state |-> FALSE]
Never == [any |-> 0, forward |-> 0]
Attributes == [class : SUBSET Tokens, id : BOOLEAN, form : BOOLEAN, required : BOOLEAN,
               style : BOOLEAN, media : BOOLEAN, state : BOOLEAN]

ASSUME StyleAssumption ==
  /\ Form \cup Control \cup Sheet \subseteq Element
  /\ ParsedAttr \in [Node -> Attributes]
  /\ Scopes \subseteq [siblings : {"none", "forward", "both"}, forms : BOOLEAN]
  /\ Filtered \in BOOLEAN
-----------------------------------------------------------------------------
(* Form content.                                                            *)

\* Nodes on the parent chain of n, from n up.
UpFrom(par, n) ==
  LET above(m) == IF m = None THEN None ELSE par[m]
      at[k \in 0..Cardinality(Node)] == IF k = 0 THEN n ELSE above(at[k-1])
  IN  at

Chain(par, n) ==
  LET up == UpFrom(par, n)
  IN  {up[k] : k \in 0..Cardinality(Node)} \ {None}

FormElement == Form \cup Control

TouchesForms(par, n) == Chain(par, n) \cap FormElement # {}

HasFormContent(par, n) ==
  \E d \in Node : (d \in FormElement \/ attr[d].form) /\ n \in Chain(par, d)
-----------------------------------------------------------------------------
(* Bumps, on g = the five counters of genVars and the parent links so far.  *)

Gens == [sel |-> sel, style |-> styleGens, kids |-> childGens,
         form |-> formGen, global |-> globalGen, par |-> parent]

Unscoped(g) == [g EXCEPT !.sel = @ + 1]

Global(g) == [Unscoped(g) EXCEPT !.global = g.sel + 1]

BumpChildren(g, p, forward) ==
  [g EXCEPT !.kids[p] = [any |-> g.sel, forward |-> IF forward THEN g.sel ELSE @.forward]]

Stamp(g, n) == [g EXCEPT !.style[n] = g.sel]

FormMoved(g, moved) == IF moved THEN [g EXCEPT !.form = g.sel] ELSE g

HasNext(n) == NextSibling(Tree, n) # None

\* Mutant: the siblings of the node are not told.
BumpNodeAlone(g, n) ==
  IF g.par[n] = None THEN Unscoped(g) ELSE Stamp(Unscoped(g), n)

\* bump_node: a parentless node records nothing.
BumpNode(g, n) ==
  IF g.par[n] = None THEN Unscoped(g)
  ELSE BumpChildren(Stamp(Unscoped(g), n), g.par[n], HasNext(n))

\* Whether changes of p's children are stamped.
Scoped(g, p) == g.par[p] # None \/ p = Document \/ hostOf[p] # None

\* Mutant: the node that enters or leaves is not stamped.
BumpChildListUnstamped(g, p, c, forward) ==
  LET u == IF Scoped(g, p) THEN BumpChildren(Unscoped(g), p, forward) ELSE Unscoped(g)
  IN  FormMoved(u, TouchesForms(g.par, p) \/ HasFormContent(g.par, c))

\* bump_child_list, for one node entering or leaving p.
BumpChildList(g, p, c, forward) ==
  LET u == IF Scoped(g, p) THEN BumpChildren(Stamp(Unscoped(g), c), p, forward)
           ELSE Unscoped(g)
  IN  FormMoved(u, TouchesForms(g.par, p) \/ HasFormContent(g.par, c))

\* The links as the bump finds them.
Relinked(g, n, p) == [g EXCEPT !.par[n] = p]

BumpStep(g, s) ==
  CASE s.op = "insert" ->
         BumpChildList(Relinked(g, s.added[1], s.at), s.at, s.added[1], s.next # None)
    [] s.op = "remove" ->
         BumpChildList(Relinked(g, s.removed[1], None), s.at, s.removed[1], s.next # None)
    [] s.op = "rewrite" ->
         FormMoved(BumpNode(g, s.at), TouchesForms(g.par, s.at))
    [] OTHER -> g

BumpSteps(g, steps) ==
  LET upto[k \in 0..Len(steps)] == IF k = 0 THEN g ELSE BumpStep(upto[k - 1], steps[k])
  IN  upto[Len(steps)]

Set(bumped) ==
  \E g \in {bumped} :
    /\ sel' = g.sel
    /\ styleGens' = g.style
    /\ childGens' = g.kids
    /\ formGen' = g.form
    /\ globalGen' = g.global

OneMoreCall == calls < MaxCalls /\ calls' = calls + 1
-----------------------------------------------------------------------------
(* Actions.                                                                 *)

\* Any structural call of TreeLists, with the bumps of its steps in order,
\* after that of the nodes it creates; attaching a shadow root moves every
\* generation.
MutateTree ==
  /\ OneMoreCall
  /\ Next
  /\ Set(IF rootOf' # rootOf THEN Global(Gens)
         ELSE BumpSteps(IF created' = created THEN Gens ELSE Unscoped(Gens), trace'))
  /\ UNCHANGED <<attr, cached>>

KeepTree == trace' = <<>> /\ UNCHANGED <<created, parent, children, hostOf, rootOf>>

\* attribute_change_is_styled: with a filter, class and id writes count only
\* when a named token moves, or a named id; no id is named here.
Styled(n, name, new) ==
  Filtered => CASE name = "class" -> ((attr[n].class \ new) \cup (new \ attr[n].class))
                                       \cap Named # {}
                [] name = "id" -> FALSE
                [] OTHER -> TRUE

\* bump_form_change: class, style and id never move validity, "form" always.
FormChange(g, n, name) ==
  FormMoved(g, name \notin {"class", "style", "id"}
               /\ (TouchesForms(g.par, n) \/ name = "form"))

\* set_attribute and remove_attribute, through bump_attribute.
SetAttribute(n, name, new) ==
  /\ OneMoreCall
  /\ attr' = [attr EXCEPT ![n][name] = new]
  /\ Set(IF name = "style" THEN Gens
         ELSE FormChange(IF n \in Sheet THEN Global(Gens)
                         ELSE IF Styled(n, name, new) THEN BumpNode(Gens, n)
                         ELSE Unscoped(Gens), n, name))
  /\ KeepTree
  /\ UNCHANGED cached

\* set_form_property: nothing unless the value changes.
SetFormProperty(n, new) ==
  /\ OneMoreCall
  /\ attr[n].state # new
  /\ attr' = [attr EXCEPT ![n].state = new]
  /\ Set(FormChange(BumpNode(Gens, n), n, ""))
  /\ KeepTree
  /\ UNCHANGED cached

\* The bindings report a state of n that only they know (invalidate_style).
InvalidateStyle(n, quiet) ==
  /\ OneMoreCall
  /\ attr' = [attr EXCEPT ![n].state = ~@]
  /\ Set(IF quiet /\ parent[n] = None THEN Stamp(Unscoped(Gens), n) ELSE BumpNode(Gens, n))
  /\ KeepTree
  /\ UNCHANGED cached

\* style_generation.
StampsRead(g, h, scope) ==
  LET chain == Chain(g.par, h)
      lists == {g.kids[g.par[n]] : n \in {m \in chain : g.par[m] # None}}
  IN  {g.global} \cup {g.style[n] : n \in chain}
        \cup (IF scope.forms THEN {g.form} ELSE {})
        \cup (CASE scope.siblings = "none" -> {}
                [] scope.siblings = "forward" -> {l.forward : l \in lists}
                [] scope.siblings = "both" -> {l.any : l \in lists})

StyleGeneration(g, h, scope) == Max(StampsRead(g, h, scope))
-----------------------------------------------------------------------------
(* What the selectors of a scope read for h in the tree t.                  *)

\* What one compound selector sees of a node.
Look(n) == <<n, attr[n].class \cap Named, attr[n].state>>

\* The siblings a combinator or structural pseudo-class reads for n.
SiblingsSeen(t, n, siblings) ==
  LET list == t.children[t.parent[n]]
      seen == CASE siblings = "none" -> <<>>
                [] siblings = "forward" -> Kept(SubSeq(list, 1, Position(list, n)), Element)
                [] siblings = "both" -> Kept(list, Element)
  IN  [i \in DOMAIN seen |-> Look(seen[i])]

\* form owner (browser-env closest_form): the first element in tree order
\* with the name, if it is a form; without a `form` attribute, an ancestor.
Rank(t, n) ==   \* the path of child positions from the top of the tree
  LET up == UpFrom(t.parent, n)
      depth == Cardinality({k \in DOMAIN up : up[k] # None}) - 1
  IN  [i \in 1..depth |-> Position(t.children[up[depth - i + 1]], up[depth - i])]

RankedBefore(s, t) ==
  \/ Len(s) < Len(t) /\ \A i \in DOMAIN s : s[i] = t[i]
  \/ \E i \in (DOMAIN s) \cap (DOMAIN t) :
       s[i] < t[i] /\ \A j \in 1..(i-1) : s[j] = t[j]

Connected(t, n) == Document \in Chain(t.parent, n)

FormOwner(t, c) ==
  LET holders == {n \in Element : attr[n].id /\ Connected(t, n)}
      firsts  == {n \in holders : \A m \in holders \ {n} : RankedBefore(Rank(t, n), Rank(t, m))}
      forms   == Chain(t.parent, c) \cap Form
  IN  IF attr[c].form THEN (IF Connected(t, c) THEN firsts \cap Form ELSE {})
      ELSE {f \in forms : \A g \in forms : g \in Chain(t.parent, f)}

Invalid(t, n) ==
  IF n \in Form THEN \E c \in Control : attr[c].required /\ n \in FormOwner(t, c)
  ELSE n \in Control /\ attr[n].required

\* Everything: h and its ancestors, and by scope siblings and validity.
Reads(t, h, scope) ==
  [n \in Chain(t.parent, h) \cap Element |->
     <<Look(n), SiblingsSeen(t, n, scope.siblings), scope.forms /\ Invalid(t, n),
       [s \in Sheet |-> attr[s].media]>>]

\* Only elements in a document or shadow tree have a style.
HasStyle(t, h) == Connected(t, h) \/ \E n \in Chain(t.parent, h) : hostOf[n] # None

Compute(h, scope) ==
  /\ HasStyle(Tree, h)
  /\ cached = <<>>
  /\ cached' = [node |-> h, scope |-> scope, key |-> StyleGeneration(Gens, h, scope),
                reads |-> Reads(Tree, h, scope)]
  /\ KeepTree
  /\ UNCHANGED <<attr, genVars, calls>>

GenInit ==
  /\ Init
  /\ attr = ParsedAttr
  /\ sel = 0
  /\ styleGens = [n \in Node |-> 0]
  /\ childGens = [n \in Node |-> Never]
  /\ formGen = 0
  /\ globalGen = 0
  /\ cached = <<>>
  /\ calls = 0

GenNext ==
  \/ MutateTree
  \/ \E n \in Element \cap created :
       \/ \E new \in SUBSET Tokens : "class" \in Writes /\ SetAttribute(n, "class", new)
       \/ \E name \in Writes \cap {"id", "form", "required", "style", "media"}, new \in BOOLEAN :
            SetAttribute(n, name, new)
       \/ "state" \in Writes /\ \E new \in BOOLEAN : SetFormProperty(n, new)
       \/ "state" \in Writes /\ \E quiet \in BOOLEAN : InvalidateStyle(n, quiet)
  \/ \E h \in Element \cap created, scope \in Scopes : Compute(h, scope)

GenSpec == GenInit /\ [][GenNext]_allVars
-----------------------------------------------------------------------------
\* "A cached computed style keyed on it is current while it holds"
\* (style_generation): while the element has a style and the generation is
\* the one it was computed at, its selectors would read the same again.
CachedStyleIsCurrent ==
  cached # <<>> /\ HasStyle(Tree, cached.node)
    /\ StyleGeneration(Gens, cached.node, cached.scope) = cached.key
  => Reads(Tree, cached.node, cached.scope) = cached.reads
=============================================================================
