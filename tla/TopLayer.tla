------------------------------- MODULE TopLayer -------------------------------
(***************************************************************************)
(* Popovers (html_popover.rs), dialogs (html_dialog.rs/.js) and the close   *)
(* watchers that dismiss both (user_activation_gates.rs).                   *)
(*                                                                         *)
(* Showing, hiding and closing each dispatch an event before they act, and  *)
(* its listeners may do all of it again: `stack` holds the operations that  *)
(* are suspended in script or in a loop over others, innermost last.  What  *)
(* the user does comes between scripts, as the host's input events do.      *)
(*                                                                         *)
(* Calls that throw or return at once change nothing and are not steps.     *)
(* Left out: invoker sources, focus except where it runs script in close(), *)
(* return values, fullscreen, termination, documents that are not active.   *)
(***************************************************************************)
EXTENDS Naturals, Lists

CONSTANTS Popover, Dialog,  \* elements
          NoNode,
          Inside,           \* pairs of them: the first is in the second's tree
          Kinds,            \* what each popover's attribute may be set to
          ClosedBy,         \* the closedby state of each dialog
          MaxCalls          \* bound: script calls and user inputs

Node == Popover \cup Dialog

ASSUME TopLayerAssumption ==
  /\ Popover \cap Dialog = {}
  /\ NoNode \notin Node
  /\ Inside \subseteq Node \X Node
  /\ Kinds \in [Popover -> SUBSET {"auto", "hint", "manual", "none"}]
  /\ ClosedBy \in [Dialog -> {"any", "closerequest", "none", "auto"}]
  /\ MaxCalls \in Nat

VARIABLES attached,      \* nodes in their place in the document
          kind,          \* the popover attribute of each popover
          open,          \* the showing popovers, each with its kind then
          busy,          \* popovers in their show or hide steps
          pending,       \* the toggle event queued for each node
          tasks,         \* the queued tasks that dispatch them,
          nextTask,      \* and the last number one got
          opened,        \* dialogs with an open attribute
          modal,         \* dialogs with the is-modal flag
          closing,       \* dialogs in close()
          canceling,     \* dialogs in requestClose()
          openDialogs,   \* dialogs shown by their methods, in order
          groups,        \* of close watchers, named for their nodes
          allowed,       \* groups allowed
          nextAllows,    \* user activation allows another
          ids,           \* the number of each node's watcher, 0 for none,
          nextId,        \* and the last one given
          pressed,       \* the popover and the dialog the pointer went down on
          history,       \* the window has history-action activation
          calls,
          stack,
          told,          \* history: the state toggle events have told
          unsaid         \* history: nodes that changed without one meanwhile

popovers == <<kind, open, busy>>
toggles == <<pending, tasks, nextTask, told, unsaid>>
dialogs == <<opened, modal, openDialogs>>
guards == <<closing, canceling>>
watchers == <<groups, ids>>
manager == <<allowed, nextAllows, nextId>>
input == <<pressed, history>>
topLayerVars == <<attached, popovers, toggles, dialogs, guards, watchers, manager, input,
                  calls, stack>>

-----------------------------------------------------------------------------
(* Reading.                                                                 *)

Shown == {e.node : e \in ToSet(open)}
AutoShown == {e.node : e \in {x \in ToSet(open) : x.kind # "manual"}}
IsOpen(n) == n \in Shown \cup opened

Containers(n) == {m \in Node : <<n, m>> \in Inside}

\* n is m or in its tree.
Within(n, m) ==
  n = m \/ (m \in Containers(n)
            /\ \A k \in {n} \cup Containers(n) : m \in Containers(k) => k \in attached)
Connected(n) == {n} \cup Containers(n) \subseteq attached

Watchers == UNION {ToSet(g) : g \in ToSet(groups)}

\* A dialog's watcher can be disabled.
Enabled(w) ==
  w \in Dialog =>
    /\ w \in opened
    /\ ClosedBy[w] \in {"any", "closerequest"} \/ (ClosedBy[w] = "auto" /\ w \in modal)

-----------------------------------------------------------------------------
(* Parts of the steps.                                                      *)

NoToggle == [old |-> FALSE, new |-> FALSE, task |-> 0]

\* Operations under way: suspended in an event's listeners (`script`), or
\* with others still to do (`rest`, taken from its end).
Suspended(what, n) == [do |-> what, node |-> n, script |-> TRUE, rest |-> <<>>, arg |-> 0]
Looping(what, n, list) == [do |-> what, node |-> n, script |-> FALSE, rest |-> list, arg |-> 0]
With(f, what) == [f EXCEPT !.arg = what]

Script == stack # <<>> => Last(stack).script
Engine(what) == stack # <<>> /\ Last(stack).do = what
Call == Script /\ calls < MaxCalls /\ calls' = calls + 1

Push(f) == stack' = Append(stack, f)
Pop == stack' = Front(stack)

\* Mutant: the event pending is replaced.
QueueReplacing(n, old, new) ==
  LET task == nextTask + 1
  IN  /\ pending' = [pending EXCEPT ![n] = [old |-> old, new |-> new, task |-> task]]
      /\ tasks' = tasks \cup {<<n, task>>}
      /\ nextTask' = task
      /\ unsaid' = unsaid \ {n}
      /\ UNCHANGED told

\* Mutant: a dialog's new task does not become the current one.
QueueStale(n, old, new) ==
  LET task == nextTask + 1
  IN  /\ pending' = IF pending[n] = NoToggle
                    THEN [pending EXCEPT ![n] = [old |-> old, new |-> new, task |-> task]]
                    ELSE [pending EXCEPT ![n].new = new]
      /\ tasks' = IF pending[n] # NoToggle /\ n \in Popover THEN tasks
                  ELSE {t \in tasks : t[1] # n} \cup {<<n, task>>}
      /\ nextTask' = task
      /\ unsaid' = unsaid \ {n}
      /\ UNCHANGED told

\* An event that is pending keeps its old state: a popover's keeps its task,
\* a dialog's gets a new one.
Queue(n, old, new) ==
  LET task == nextTask + 1
      queued == pending[n] # NoToggle
      kept == queued /\ n \in Popover
  IN  /\ pending' = [pending EXCEPT ![n] =
                       [old |-> IF queued THEN @.old ELSE old, new |-> new,
                        task |-> IF kept THEN @.task ELSE task]]
      /\ tasks' = IF kept THEN tasks ELSE tasks \cup {<<n, task>>}
      /\ nextTask' = IF kept THEN nextTask ELSE task
      /\ unsaid' = unsaid \ {n}
      /\ UNCHANGED told

\* S change state and no event says so.
Quietly(S, state) ==
  LET untold == {n \in S : pending[n] = NoToggle}
  IN  /\ told' = [n \in Node |-> IF n \in untold THEN state ELSE told[n]]
      /\ unsaid' = unsaid \cup (S \ untold)
      /\ UNCHANGED <<pending, tasks, nextTask>>

Establish(w) ==
  /\ groups' = IF Len(groups) < allowed THEN Append(groups, <<w>>)
               ELSE [groups EXCEPT ![Len(groups)] = Append(@, w)]
  /\ nextAllows' = TRUE
  /\ nextId' = nextId + 1
  /\ ids' = [ids EXCEPT ![w] = nextId + 1]
  /\ UNCHANGED allowed

\* Mutant: only the last group is searched.
DestroyLast(S) ==
  LET left(g) == Without(g, S)
  IN  /\ groups' = IF groups = <<>> THEN groups
                   ELSE IF left(Last(groups)) = <<>> THEN Front(groups)
                   ELSE [groups EXCEPT ![Len(groups)] = left(@)]
      /\ ids' = [w \in Node |-> IF w \in S THEN 0 ELSE ids[w]]

Destroy(S) ==
  LET left == [g \in DOMAIN groups |-> Without(groups[g], S)]
  IN  /\ groups' = Without(left, {<<>>})
      /\ ids' = [w \in Node |-> IF w \in S THEN 0 ELSE ids[w]]

\* The showing popovers S close.
Conceal(S) == open' = Kept(open, {e \in ToSet(open) : e.node \notin S})

\* hide_from, on top of `base`.  Nested in the node's own show or hide steps
\* it dispatches nothing.
Hide(n, base) ==
  CASE n \in Shown \ busy ->
         /\ busy' = busy \cup {n}
         /\ stack' = Append(base, Suspended("hide", n))
         /\ UNCHANGED <<open, watchers, toggles>>
    [] n \in Shown \cap busy ->
         /\ Conceal({n}) /\ Destroy({n}) /\ Quietly({n}, FALSE)
         /\ stack' = base
         /\ UNCHANGED busy
    [] OTHER -> stack' = base /\ UNCHANGED <<open, busy, watchers, toggles>>

\* The next of a list to hide.
HideNext ==
  LET f == Last(stack)
  IN  /\ f.rest # <<>>
      /\ Hide(Last(f.rest), [stack EXCEPT ![Len(stack)].rest = Front(f.rest)])
      /\ UNCHANGED <<attached, kind, dialogs, guards, manager, input, calls>>

-----------------------------------------------------------------------------
(* Popovers.                                                                *)

Showable(p) == kind[p] # "none" /\ Connected(p)

\* showPopover, up to its beforetoggle event.
ShowPopover(p) ==
  /\ Call
  /\ Showable(p) /\ p \notin Shown /\ p \notin busy
  /\ busy' = busy \cup {p}
  /\ Push(Suspended("show", p))
  /\ UNCHANGED <<attached, kind, open, toggles, dialogs, guards, watchers, manager, input>>

\* Those a popover of this kind does not show together with.
Rivals(p) ==
  Kept(open, {e \in ToSet(open) : /\ e.kind # "manual" /\ kind[p] # "manual"
                                  /\ kind[p] = "auto" \/ e.kind = "hint"
                                  /\ ~Within(p, e.node)})
Nodes(entries) == [k \in DOMAIN entries |-> entries[k].node]

\* After the event: canceled or no longer to be shown, or on to the rivals.
ShowContinues ==
  LET p == Last(stack).node
      list == Nodes(Rivals(p))
  IN  /\ Engine("show")
      /\ \/ /\ busy' = busy \ {p}
            /\ Pop
         \/ /\ Showable(p) /\ p \notin Shown
            /\ stack' = Append(Front(stack), With(Looping("rivals", p, list), kind[p]))
            /\ UNCHANGED busy
      /\ UNCHANGED <<attached, kind, open, toggles, dialogs, guards, watchers, manager, input, calls>>

HideRival == Engine("rivals") /\ HideNext

\* Mutant: what the rivals' listeners did is not looked at.
ShowRashly ==
  LET f == Last(stack)
      p == f.node
  IN  /\ Engine("rivals") /\ f.rest = <<>>
      /\ busy' = busy \ {p}
      /\ Pop
      /\ open' = Append(open, [node |-> p, kind |-> f.arg])
      /\ Queue(p, FALSE, TRUE)
      /\ IF f.arg = "manual" THEN UNCHANGED <<watchers, manager>> ELSE Establish(p)
      /\ UNCHANGED <<attached, kind, dialogs, guards, input, calls>>

\* The rivals are hidden; their listeners may have made the popover unfit.
Show ==
  LET f == Last(stack)
      p == f.node
  IN  /\ Engine("rivals") /\ f.rest = <<>>
      /\ busy' = busy \ {p}
      /\ Pop
      /\ IF Showable(p)
         THEN /\ open' = Append(open, [node |-> p, kind |-> f.arg])
              /\ Queue(p, FALSE, TRUE)
              /\ IF f.arg = "manual" THEN UNCHANGED <<watchers, manager>> ELSE Establish(p)
         ELSE UNCHANGED <<open, toggles, watchers, manager>>
      /\ UNCHANGED <<attached, kind, dialogs, guards, input, calls>>

\* hidePopover, up to its beforetoggle event.
HidePopover(p) ==
  /\ Call
  /\ kind[p] # "none" /\ p \in Shown
  /\ Hide(p, stack)
  /\ UNCHANGED <<attached, kind, dialogs, guards, manager, input>>

\* After it, unless its listeners hid the popover themselves.
HideContinues ==
  LET p == Last(stack).node
  IN  /\ Engine("hide")
      /\ IF p \in Shown
         THEN Conceal({p}) /\ Destroy({p}) /\ Queue(p, TRUE, FALSE)
         ELSE UNCHANGED <<open, watchers, toggles>>
      /\ busy' = busy \ {p}
      /\ Pop
      /\ UNCHANGED <<attached, kind, dialogs, guards, manager, input, calls>>

\* A change of the popover attribute hides first, unless the node is busy.
SetKind(p, k) ==
  /\ Call
  /\ kind[p] # k
  /\ IF p \in Shown \ busy
     THEN /\ Hide(p, Append(stack, With(Looping("attribute", p, <<>>), k)))
          /\ UNCHANGED kind
     ELSE /\ kind' = [kind EXCEPT ![p] = k]
          /\ UNCHANGED <<open, busy, watchers, toggles, stack>>
  /\ UNCHANGED <<attached, dialogs, guards, manager, input>>

ChangeAttribute ==
  /\ Engine("attribute")
  /\ kind' = [kind EXCEPT ![Last(stack).node] = Last(stack).arg]
  /\ Pop
  /\ UNCHANGED <<attached, open, busy, toggles, dialogs, guards, watchers, manager, input, calls>>

-----------------------------------------------------------------------------
(* Nodes leave the document.                                                *)

\* disconnect: a node leaves, or all its children; what closes says nothing.
Detach(n, whole) ==
  LET roots == IF whole THEN {n} ELSE {m \in Node : n \in Containers(m)}
      leaving == {m \in Node : \E r \in roots : Within(m, r)}
      hidden == leaving \cap Shown
      closed == leaving \cap ToSet(openDialogs)
  IN  /\ Call
      /\ roots \cap attached # {}
      /\ attached' = attached \ roots
      /\ modal' = modal \ leaving
      /\ openDialogs' = Without(openDialogs, closed)
      /\ Conceal(hidden) /\ Quietly(hidden, FALSE)
      /\ Destroy(hidden \cup closed)
      /\ UNCHANGED <<kind, busy, opened, guards, manager, input, stack>>

Attach(n) ==
  /\ Call
  /\ n \notin attached
  /\ attached' = attached \cup {n}
  /\ UNCHANGED <<popovers, toggles, dialogs, guards, watchers, manager, input, stack>>

-----------------------------------------------------------------------------
(* Dialogs.                                                                 *)

\* show and showModal, up to the beforetoggle event.
ShowDialog(d, isModal) ==
  /\ Call
  /\ d \notin opened
  /\ isModal => Connected(d)
  /\ Push(With(Suspended("dialog", d), isModal))
  /\ UNCHANGED <<attached, popovers, toggles, dialogs, guards, watchers, manager, input>>

Unrelated(d) ==
  Kept(open, {e \in ToSet(open) : e.kind # "manual" /\ ~Within(d, e.node)})

\* After it: canceled or overtaken, or shown, and then the popovers it is not
\* in are hidden.
ShowDialogContinues ==
  LET f == Last(stack)
      d == f.node
  IN  /\ Engine("dialog")
      /\ \/ Pop /\ UNCHANGED <<toggles, dialogs, watchers, manager>>
         \/ /\ d \notin opened
            /\ f.arg => Connected(d)
            /\ Queue(d, FALSE, TRUE)
            /\ opened' = opened \cup {d}
            /\ modal' = IF f.arg THEN modal \cup {d} ELSE modal
            /\ Establish(d)
            /\ openDialogs' = Append(Without(openDialogs, {d}), d)
            /\ stack' = Append(Front(stack), Looping("unrelated", d, Nodes(Unrelated(d))))
      /\ UNCHANGED <<attached, popovers, guards, input, calls>>

HideUnrelated == Engine("unrelated") /\ HideNext

DialogShown ==
  /\ Engine("unrelated") /\ Last(stack).rest = <<>>
  /\ Pop
  /\ UNCHANGED <<attached, popovers, toggles, dialogs, guards, watchers, manager, input, calls>>

\* close, up to its beforetoggle event, on top of `base`.
Close(d, base) ==
  IF d \in opened \ closing
  THEN closing' = closing \cup {d} /\ stack' = Append(base, Suspended("close", d))
  ELSE stack' = base /\ UNCHANGED closing

CloseDialog(d) ==
  /\ Call
  /\ d \in opened \ closing
  /\ Close(d, stack)
  /\ UNCHANGED <<attached, popovers, toggles, dialogs, canceling, watchers, manager, input>>

\* Mutant: the guard stays up if the attribute is gone.
CloseStuck ==
  LET d == Last(stack).node
  IN  /\ Engine("close")
      /\ Pop
      /\ IF d \in opened
         THEN /\ Queue(d, TRUE, FALSE)
              /\ opened' = opened \ {d} /\ modal' = modal \ {d}
              /\ closing' = closing \ {d}
              /\ Destroy({d})
              /\ openDialogs' = Without(openDialogs, {d})
         ELSE UNCHANGED <<closing, toggles, dialogs, watchers>>
      /\ UNCHANGED <<attached, popovers, canceling, manager, input, calls>>

\* Then the dialog is closed, unless its attribute is gone, and the focus that
\* returns may run script again.
CloseContinues ==
  LET d == Last(stack).node
  IN  /\ Engine("close")
      /\ IF d \in opened
         THEN /\ Queue(d, TRUE, FALSE)
              /\ opened' = opened \ {d} /\ modal' = modal \ {d}
              /\ Destroy({d})
              /\ openDialogs' = Without(openDialogs, {d})
              /\ \/ stack' = Append(Front(stack), Suspended("refocus", d)) /\ UNCHANGED closing
                 \/ Pop /\ closing' = closing \ {d}
         ELSE /\ Pop /\ closing' = closing \ {d}
              /\ UNCHANGED <<toggles, dialogs, watchers>>
      /\ UNCHANGED <<attached, popovers, canceling, manager, input, calls>>

Refocused ==
  /\ Engine("refocus")
  /\ closing' = closing \ {Last(stack).node}
  /\ Pop
  /\ UNCHANGED <<attached, popovers, toggles, dialogs, canceling, watchers, manager, input, calls>>

\* requestClose, up to its cancel event.
RequestClose(d) ==
  /\ Call
  /\ d \in opened \ canceling /\ Connected(d)
  /\ canceling' = canceling \cup {d}
  /\ Push(Suspended("cancel", d))
  /\ UNCHANGED <<attached, popovers, toggles, dialogs, closing, watchers, manager, input>>

RequestContinues ==
  LET d == Last(stack).node
  IN  /\ Engine("cancel")
      /\ canceling' = canceling \ {d}
      /\ \/ Pop /\ UNCHANGED closing
         \/ Connected(d) /\ Close(d, Front(stack))
      /\ UNCHANGED <<attached, popovers, toggles, dialogs, watchers, manager, input, calls>>

\* Script sets or removes the open attribute itself.
SetOpen(d) ==
  /\ Call
  /\ opened' = IF d \in opened THEN opened \ {d} ELSE opened \cup {d}
  /\ Quietly({d}, d \notin opened)
  /\ UNCHANGED <<attached, popovers, modal, openDialogs, guards, watchers, manager, input, stack>>

-----------------------------------------------------------------------------
(* What the user does, between scripts.                                     *)

Input == stack = <<>> /\ calls < MaxCalls /\ calls' = calls + 1

\* A click or key that counts as activation.
Activate ==
  /\ Input
  /\ allowed' = IF nextAllows THEN allowed + 1 ELSE allowed
  /\ nextAllows' = FALSE
  /\ history' = TRUE
  /\ UNCHANGED <<attached, popovers, toggles, dialogs, guards, watchers, nextId, pressed, stack>>

\* request_close, on top of `base`: a dialog's cancel event comes first, which
\* can be canceled if `prevents`.
Request(w, prevents, base) ==
  IF w \in Watchers /\ Enabled(w)
  THEN \/ /\ w \in Dialog
          /\ canceling' = canceling \cup {w}
          /\ stack' = Append(base, With(Suspended("request", w),
                                        [prevents |-> prevents, id |-> ids[w]]))
          /\ UNCHANGED <<busy, watchers>>
       \/ /\ w \in Popover
          /\ Destroy({w})
          /\ busy' = busy \cup {w}
          /\ stack' = Append(base, Suspended("hide", w))
          /\ UNCHANGED canceling
  ELSE stack' = base /\ UNCHANGED <<busy, canceling, watchers>>

\* Mutant: only a dialog that was shown anew is closed.
AnsweredInverted ==
  LET f == Last(stack)
      base == Front(stack)
  IN  /\ Engine("request")
      /\ canceling' = canceling \ {f.node}
      /\ IF ids[f.node] > f.arg.id
         THEN Destroy({f.node}) /\ Close(f.node, base)
         ELSE Pop /\ UNCHANGED <<closing, watchers>>
      /\ UNCHANGED <<attached, popovers, toggles, dialogs, manager, input, calls>>

\* The cancel event's listeners are done.  Canceled, the rest of the group (the
\* frame beneath, if Esc asks) is left alone; else the dialog closes, if it is this watcher's still.
Answered ==
  LET f == Last(stack)
      base == Front(stack)
  IN  /\ Engine("request")
      /\ canceling' = canceling \ {f.node}
      /\ \/ /\ f.arg.prevents
            /\ history' = FALSE
            /\ stack' = [k \in DOMAIN base |-> With(Looping("group", NoNode, <<>>), NoNode)]
            /\ UNCHANGED <<closing, watchers>>
         \/ /\ ids[f.node] = f.arg.id
            /\ Destroy({f.node})
            /\ Close(f.node, base)
            /\ UNCHANGED history
         \/ /\ ids[f.node] # f.arg.id
            /\ Pop
            /\ UNCHANGED <<closing, history, watchers>>
      /\ UNCHANGED <<attached, popovers, toggles, dialogs, manager, pressed, calls>>

\* Esc: process_close_watchers, over the last group.
Escape ==
  LET group == IF groups = <<>> THEN <<>> ELSE Last(groups)
  IN  /\ Input
      /\ Push(With(Looping("group", NoNode, group),
                [w \in Node |-> IF w \in ToSet(group) THEN ids[w] ELSE 0]))
      /\ UNCHANGED <<attached, popovers, toggles, dialogs, guards, watchers, manager, input>>

\* The frame's `arg` keeps which watchers were asked: for EscapeReachesTheGroup.
AskNext ==
  LET f == Last(stack)
      w == Last(f.rest)
      asked == IF w \in Watchers /\ Enabled(w) THEN f.arg ELSE [f.arg EXCEPT ![w] = 0]
  IN  /\ Engine("group") /\ f.rest # <<>>
      /\ Request(w, Len(groups) < allowed /\ history,
                 Append(Front(stack), With(Looping("group", NoNode, Front(f.rest)), asked)))
      /\ UNCHANGED <<attached, kind, open, toggles, dialogs, closing, manager, input, calls>>

GroupAsked ==
  /\ Engine("group") /\ Last(stack).rest = <<>>
  /\ allowed' = IF allowed > 1 THEN allowed - 1 ELSE allowed
  /\ Pop
  /\ UNCHANGED <<attached, popovers, toggles, dialogs, guards, watchers, nextAllows, nextId, input, calls>>

\* The innermost of S that t is in.
Nearest(t, S) ==
  LET around == {m \in S : Within(t, m)}
  IN  IF around = {} THEN NoNode ELSE CHOOSE m \in around : \A k \in around : Within(m, k)

\* pointerdown on t, or outside of all (NoNode).
Press(t) ==
  /\ Input
  /\ pressed' = [popover |-> IF AutoShown = {} THEN pressed.popover ELSE Nearest(t, AutoShown),
                 dialog |-> IF openDialogs = <<>> THEN pressed.dialog ELSE Nearest(t, opened)]
  /\ UNCHANGED <<attached, popovers, toggles, dialogs, guards, watchers, manager, history, stack>>

\* The auto and hint popovers shown after `endpoint`.
Above(endpoint) ==
  LET below == {k \in DOMAIN open : open[k].node = endpoint}
      later == IF below = {} THEN open
               ELSE SubSeq(open, (CHOOSE k \in below : TRUE) + 1, Len(open))
  IN  Kept(later, {e \in ToSet(open) : e.kind # "manual"})

\* pointerup where it went down: light_dismiss, popovers first.
Release(t) ==
  LET clicked == Nearest(t, AutoShown)
      list == IF AutoShown # {} /\ pressed.popover = clicked THEN Nodes(Above(clicked)) ELSE <<>>
  IN  /\ Input
      /\ pressed' = IF AutoShown = {} THEN pressed ELSE [pressed EXCEPT !.popover = NoNode]
      /\ Push(Looping("dismiss", t, list))
      /\ UNCHANGED <<attached, popovers, toggles, dialogs, guards, watchers, manager, history>>

DismissNext == Engine("dismiss") /\ HideNext

\* Then the dialog shown last, if it closes by any click outside of it.
DismissDialog ==
  LET clicked == Nearest(Last(stack).node, opened)
      top == Last(openDialogs)
  IN  /\ Engine("dismiss") /\ Last(stack).rest = <<>>
      /\ pressed' = IF openDialogs = <<>> THEN pressed ELSE [pressed EXCEPT !.dialog = NoNode]
      /\ IF openDialogs # <<>> /\ pressed.dialog = clicked /\ clicked # top /\ ClosedBy[top] = "any"
         THEN Request(top, TRUE, Front(stack))
         ELSE Pop /\ UNCHANGED <<busy, canceling, watchers>>
      /\ UNCHANGED <<attached, kind, open, toggles, dialogs, closing, manager, history, calls>>

\* A toggle task, between scripts; what its listeners do are further calls.
Deliver(n, task) ==
  /\ stack = <<>>
  /\ <<n, task>> \in tasks
  /\ tasks' = tasks \ {<<n, task>>}
  /\ IF pending[n].task = task
     THEN /\ pending' = [pending EXCEPT ![n] = NoToggle]
          /\ told' = [told EXCEPT ![n] = IF n \in unsaid THEN IsOpen(n) ELSE pending[n].new]
          /\ unsaid' = unsaid \ {n}
     ELSE UNCHANGED <<pending, told, unsaid>>
  /\ UNCHANGED <<attached, popovers, nextTask, dialogs, guards, watchers, manager, input, calls, stack>>

-----------------------------------------------------------------------------
TopLayerInit ==
  /\ attached = Node
  /\ kind \in {f \in [Popover -> {"auto", "hint", "manual"}] : \A p \in Popover : f[p] \in Kinds[p]}
  /\ open = <<>> /\ busy = {}
  /\ pending = [n \in Node |-> NoToggle]
  /\ tasks = {} /\ nextTask = 0
  /\ opened = {} /\ modal = {} /\ openDialogs = <<>>
  /\ closing = {} /\ canceling = {}
  /\ groups = <<>> /\ ids = [n \in Node |-> 0]
  /\ allowed = 1 /\ nextAllows = TRUE /\ nextId = 0
  /\ pressed = [popover |-> NoNode, dialog |-> NoNode]
  /\ history = FALSE
  /\ calls = 0 /\ stack = <<>>
  /\ told = [n \in Node |-> FALSE] /\ unsaid = {}

ScriptCall ==
  \/ \E p \in Popover : ShowPopover(p) \/ HidePopover(p) \/ (\E k \in Kinds[p] : SetKind(p, k))
  \/ \E n \in Node : Attach(n) \/ (\E whole \in BOOLEAN : Detach(n, whole))
  \/ \E d \in Dialog : CloseDialog(d) \/ RequestClose(d) \/ SetOpen(d)
                       \/ (\E isModal \in BOOLEAN : ShowDialog(d, isModal))

UserInput ==
  \/ Activate \/ Escape
  \/ \E t \in Node \cup {NoNode} : Press(t) \/ Release(t)

\* The listeners of the innermost event return, or a loop goes on.
Continues ==
  \/ ShowContinues \/ HideRival \/ Show \/ HideContinues \/ ChangeAttribute
  \/ ShowDialogContinues \/ HideUnrelated \/ DialogShown \/ CloseContinues \/ Refocused
  \/ RequestContinues \/ Answered \/ AskNext \/ GroupAsked \/ DismissNext \/ DismissDialog

Deliveries == \E t \in tasks : Deliver(t[1], t[2])

TopLayerNext == ScriptCall \/ UserInput \/ Continues \/ Deliveries

\* Listeners return, and the host runs its tasks.
TopLayerSpec ==
  /\ TopLayerInit /\ [][TopLayerNext]_topLayerVars
  /\ WF_topLayerVars(Continues) /\ WF_topLayerVars(Deliveries)

-----------------------------------------------------------------------------
(* Properties.                                                              *)

\* A popover that shows is one, is in the document and shows once, whatever
\* listeners did between the checks of show() and its end; only while it is
\* being hidden may its attribute be gone.
ShownAreFit ==
  /\ \A j, k \in DOMAIN open : open[j].node = open[k].node => j = k
  /\ \A p \in Shown : Connected(p) /\ (kind[p] = "none" => p \in busy)

\* The guards against re-entry are up exactly for the operations under way:
\* no early return leaves an element unusable.
GuardsAreBalanced ==
  LET at(kinds) == {k \in DOMAIN stack : stack[k].do \in kinds}
      under(kinds) == {stack[k].node : k \in at(kinds)}
      once(kinds) == \A j, k \in at(kinds) : stack[j].node = stack[k].node => j = k
  IN  /\ busy = under({"show", "rivals", "hide"}) /\ once({"show", "rivals", "hide"})
      /\ closing = under({"close", "refocus"}) /\ once({"close", "refocus"})
      /\ canceling = under({"cancel", "request"}) /\ once({"cancel", "request"})

\* Esc reaches every auto or hint popover that shows, and nothing that does
\* not: each has one watcher, except while a close request hides it.  No Esc
\* is spent on an empty group.
WatchersAreOwned ==
  /\ \A n \in Node : ids[n] # 0 <=> n \in Watchers
  /\ Watchers \cap Popover \subseteq AutoShown
  /\ AutoShown \ Watchers \subseteq busy
  /\ <<>> \notin ToSet(groups)
  /\ Watchers \cap Dialog \subseteq ToSet(openDialogs)
  /\ \A i, j \in DOMAIN groups : \A a \in DOMAIN groups[i], b \in DOMAIN groups[j] :
       groups[i][a] = groups[j][b] /\ groups[i][a] \in Popover => i = j /\ a = b

\* Toggle events tell a continuous story: what is pending begins where the last
\* one ended and ends in the present state, however often that changed before
\* the task ran (unless the node closed without an event).
TogglesTellTheState ==
  \A n \in Node \ unsaid :
    IF pending[n] = NoToggle THEN told[n] = IsOpen(n)
    ELSE pending[n].old = told[n] /\ pending[n].new = IsOpen(n)

\* When a close request has gone through its group uncanceled, none of the
\* watchers it asked is left, whatever was shown or closed in between.
EscapeReachesTheGroup ==
  [][\A w \in Watchers :
       GroupAsked /\ Last(stack).arg # NoNode => ids[w] # Last(stack).arg[w]]_topLayerVars

\* No toggle event is lost.
TogglesArrive == \A n \in Node : pending[n] # NoToggle ~> pending[n] = NoToggle

=============================================================================
