# A verification project for turbo-dom

turbo-dom is a DOM in Rust. A parser fills flat buffers; `crates/turbo-dom` reads them
in place as a mutable node tree (`rtdom`); `crates/turbo-dom-browser-env` exposes that
tree to V8 as the DOM of a browser page; `crates/turbo-dom-layout` and
`crates/turbo-dom-raster` compute geometry and pixels from it. An npm package offers a
DOM of its own in JavaScript over the same parser.

This directory holds TLA+ modules translated from the Rust and JavaScript sources, the
TLC configurations that check them, and TLAPS proofs about them.

## 1. The system

Nothing here runs in parallel: a page is one thread. What makes the code hard is that a
call is made of many small changes that must look like one, that callbacks run between
them, and that several structures remember something about the tree and must notice
when it changed.

| component | source | state | operations | what is hard | what makes it correct |
|---|---|---|---|---|---|
| node tree, structure | `rtdom/tree.rs` | parent and child-list overlays over the parsed buffers, shadow hosts and roots, handle counter | append, insert, remove, before, after, replaceWith, replaceChildren, textContent, innerHTML, insertAdjacentHTML, attachShadow | variadic calls move nodes that include their own anchor; two overlays are written separately; cycles through hosts | one forest, one order per child list, both overlays agree, a call is all or nothing |
| mutation records | `tree.rs`, `rtdom/mutations.rs` | the buffered log, the recording switch | start, stop, take | primitives must not record while a compound call runs; siblings are read at the right moment | records replay to the tree |
| style generations | `tree.rs` | `selector_version`, per-node, child-list, form and global stamps | bumped by every mutation; read by `style_generation` | a stamp omitted because "it cannot matter" | a cached style under an unchanged key is current |
| storage collector | `rtdom/storage.rs`, `custom_element_state.rs` | the live handle set, element states | `collect_unreachable`, `is_live` | handles kept by wrappers, records and parsers are invisible to the tree | what is reachable from a pin survives whole, the rest is gone everywhere |
| events of the tree | `rtdom/events.rs` | listener table | add, remove, dispatch | listeners change the table and the tree during a dispatch | the path is fixed; removed listeners do not run; once runs once |
| selectors, cascade, CSSOM | `query*.rs`, `cascade.rs`, `css_values.rs`, `cssom.rs`, `color.rs` | compiled selectors, caches keyed by version | match, compute | size | equal to the standard's definitions |
| states of elements | `custom_states.rs`, `custom_element_state.rs`, `fullscreen_state.rs` | sets keyed by handle | set, clear | stale handles | entries only for live handles |
| strings, serialization, positions | `utf16.rs`, `names_utf16.rs`, `native_attributes.rs`, `serialize*.rs`, `parser_units.rs`, `parser_positions.rs` | none | pure | encodings | round trips |
| binding mutations | browser-env `dom_mutations.rs` | none of its own | validate (`plan`), convert arguments, detach, insert, record | arguments may belong to other documents; conversion has effects before validation | refusal leaves the destination alone; order of the arguments |
| mutation observers | `mutation_observers.rs/.js` | registry, pending notification, suppression depth; per observer queue, registrations, transients | observe, disconnect, takeRecords, flush, deliver | records are drained at the end of a call while callbacks mutate, register and disconnect | each record reaches exactly the observers registered when it happened; a queued record is delivered |
| ownership | `dom_ownership.rs`, `storage_ownership.rs`, `realm_ownership.rs`, `dom_isolation.rs` | wrapper cache, owned graph, per-document state | wrap, adopt, reconcile, collect | garbage collection of wrappers against handles in use; several documents | a wrapper in use keeps its node |
| custom elements | `custom_elements.rs/.js`, `rtdom/custom_elements.rs` | registry, a record and a queue per element, stacks of calls and constructions | define, upgrade, create, react | script in constructors and callbacks calls the DOM again; construction fails | every element is told, in order, what happened to it |
| listeners of the bindings | `event_listeners.rs/.js`, `event_handlers.rs` | private listener lists | as events | as events | as events |
| dialogs, popovers | `html_dialog.rs`, `html_popover.rs`, `user_activation_gates.rs` | top layer, close watchers | show, hide, toggle | hiding runs scripts that show and hide | the stack is nested; no hidden popover stays in it |
| ranges, selection | `range_live.rs`, `range_contents.rs`, `selection.rs` | boundary points | follow mutations | several ranges, compound calls | boundary points stay inside their container |
| slots, templates, forms, scripts | `shadow_slots.rs`, `template_contents.rs`, `form_*.rs`, `script_state.rs` | maps keyed by node | notified per mutation | order of notifications | agree with the tree |
| CSS bindings, editing, sanitizer, trusted types, animations, view transitions, snapshot | the rest of browser-env | various | various | size, embedder clock, V8 | - |
| layout, raster | `turbo-dom-layout`, `turbo-dom-raster` | a snapshot and the result | recompute | staleness by revision | layout of the current tree |
| npm runtime, parser addon | `src/runtime`, `src/core.rs`, `src/lib.rs` | a JavaScript tree | the DOM interfaces | a second implementation | the same promises |
| V8 fork, tooling | `turbo-dom-v8`, `tools`, `scripts`, `harness`, `bench` | - | - | - | - |

**How they interact.** A script calls a binding method. `dom_mutations.rs` validates the
arguments against the tree and calls tree operations. Each tree operation moves the
version counters and, while recording is on, appends a record. When the binding method
returns, `mutation_observers::flush` takes the records away and hands each to slots,
custom-element reactions, observers and the embedder's consumer; observers wait in one
microtask. Style reads compare a cached key with the tree's generations. The collector
runs on request and frees what no pin reaches.

## 2. The modules

| module | models | implements |
|---|---|---|
| `DomTree` | what the node tree promises: parents and a sibling order | - |
| `TreeLists` | the parent and child-list overlays and the loops of the handlers | `DomTree` |
| `MutationLog` | records over `TreeLists` | - |
| `StyleGenerations` | version stamps over `TreeLists`, one cached style | - |
| `StorageCollection` | the collector over `DomTree`: pins, waiting records, upgrade states | - |
| `ObserverQueues` | what one mutation event does to the observers, as operators | - |
| `MutationFanout` | what mutation observers promise: every event reaches them when it happens | - |
| `MutationObservers` | flushes, batches, nested calls, anchors, the notification microtask | `MutationFanout` |
| `ListenerContract` | what listeners are promised: a removed one is never called again | - |
| `EventDispatch` | the bindings' listener lists, their copies, abort signals, frames | `ListenerContract` |
| `TreeEvents` | the Rust tree's own listener table and dispatch loop | `ListenerContract` |
| `TopLayer` | popovers, dialogs, close watchers, toggle tasks | - |
| `LiveRanges` | live ranges and carets over the tree, and the calls on a range's contents | - |
| `CustomElements` | upgrades, construction and reactions, nested in each other | - |
| `ShadowSlots` | slots over `TreeLists`: assignment, signals, the flat tree | - |
| `Lists` | filtering lists, as operators whose tests are sets | - |
| `ListFacts` | lemmas about `Lists` and about removing from, inserting into and joining lists | - |
| `TreeProofs` | TLAPS proofs about `DomTree` and `StorageCollection` | - |
| `TreeListsProofs`, `SlotProofs`, `ObserverProofs`, `EventProofs`, `TopLayerProofs`, `ScriptProofs` | TLAPS proofs about `TreeLists` with `MutationLog` and `StyleGenerations`, `ShadowSlots`, `MutationObservers`, `EventDispatch`, `TopLayer`, and `TreeEvents` and `CustomElements` | - |

`MC*` modules give each of them a small page.

**DomTree.** A handle is a model value; `created` are the handles `push_node` gave out.
`parent` is `parent_ov` over the parsed parents. A child list is the relation `order`
between siblings: the module says where nodes end up, not how a list is stored. Every
handler is one `Splice`: nodes leave the child list of p, the nodes of an argument list
leave wherever they are (a fragment gives its children) and enter, together and in order,
before a reference. `AttachShadow` links a root and a host. Guards are the code's early
returns: no argument may be an inclusive ancestor of the parent, hosts included.
`IsInclusiveAncestor` is stated without recursion, as "no set closed upwards holds n and
not a", which is what the proofs use; `TreeLists` has the loop.

**TreeLists.** The same operations as the code performs them: a record holding both
overlays goes through `Detach`, `Unlink`, `InsertOne`, `Gather` and `InsertNodes`, which
are the primitives and loops of `remove_child`, `insert_before` and `insert_nodes`, with
the anchor looked up at the moment the code looks it up. Each change is also a step in
`trace`, from which the two modules above it read what was recorded and which stamps
moved. With `Checked` the inputs are those the bindings' `plan` lets through; without it,
anything a caller of the crate may pass: repeated nodes, a reference that is not a child,
a fragment listed with its own child.

**MutationLog.** `RecordsOf` is which steps push a record: the primitives of a compound
call do not, because the code takes the log away, and the call pushes one at its end. A
`replica` of the child lists is kept by applying the records, which is what an observer
that trusts them would do. `Stands` says of one record that its siblings are neighbours in
the list, with the removed nodes between them.

**StyleGenerations.** `BumpNode`, `BumpChildList`, `FormChange` and the rest are the
functions of the same names, applied to the steps of `trace` in order with the parent links of
that moment, because `touches_forms` and `bump_node` read them. `Reads` is what the
selectors of a scope look at for an element: its ancestors, their siblings as the scope
says, validity. One cached style records `Reads` and its key when it is computed.

**StorageCollection.** `live` are the handles a node is stored for, `held` those a caller
keeps (wrappers, jobs: `collect_current` gathers them), `logged` the ones that waiting
records name. A `Mutate` is any step of `DomTree` on nodes the caller can have, and may be
recorded; `Named` is what its record names. `CollectUnreachable` is the whole function:
climb from every pin to its top, walk down from there, refuse if a check fails
(`GraphValid`), and otherwise write down the parsed upgrade states, drop the parse buffer
and filter every map. Climb and walk are stated as least closed sets, which the proofs
use; that the two loops compute them is taken from reading them. What an outside observer
expects is `Composed`: everything connected to a pin, in any direction. `OneRoot` is the
guard of the bindings, which refuse a second shadow root; the crate has none.

**MutationObservers.** `Fanout` of `ObserverQueues` is the function `queue` of
`mutation_observers.js` for every observer at once: who gets a record, which removed nodes
get a transient row, who is scheduled. A mutating call (`Mutate`) changes the tree and, as
`ownership_callback` does, leaves its events as a batch on `stack`; `Deliver` hands over
one event of the innermost batch and, with a `consumer`, starts its script, which may
make calls of its own before the batch goes on. `AppendChild` is `insert_mode` up to the
flush of its `quiet`, `Insert` the rest, with whatever tree it finds by then. `Observe`,
`Disconnect`, `TakeRecords` are the observer's methods; `StartDelivery` and `Notify` are
`deliver` and the function each observer registered. `anchors` are the private lists by
which nodes keep observers alive. Trees are parent links here: child lists are the subject
of `TreeLists`. `MutationFanout` has the same calls without stack, batches or callbacks;
`Settled`, the refinement mapping, is the observers' state with the rest of the batch
handed over.

**EventDispatch.** `lists` are the private listener lists by target, as sets of numbers,
which are given out in order; `removed` is the flag that a list's copies share with it.
`stack` holds the dispatches under way: each has its path, fixed when it starts, the entry it
fires and the copy of that entry's list (`queue`). `Fire` copies a list, `Skip`, `Invoke` and
`CutShort` take from the copy, `ListenerReturns` is the end of a call and `EndDispatch` closes
the frame. While a listener runs the page may do what a script can: `Listen`, `Unlisten`,
`Abort`, `Dispatch` of another event (the same is refused), `Stop`, `Move`. A listener with a signal is kept in
two lists, the target's and, as a hook, the signal's own; the hook is native and removes both (`InvokeHook`).

**TreeEvents.** `rtdom/events.rs` has no flags, and a handler cannot reach the registry:
`dispatch_event` walks the lists themselves by index and takes out listeners that ran
once, so what `Return` does to the index decides who is skipped or called again. The same
`ListenerContract` is what both must keep.

**TopLayer.** Every show, hide and close dispatches an event in its middle, and is two
actions: one up to the event, which leaves a record on `stack`, and one from its return.
Between them any of the page's calls may come, on any node. Loops over others
(`hide_until`, `hide_unrelated`, a group of watchers asked in turn) are records too, with
what is left of the copy they walk. User input (`Press`, `Release`, `Escape`)
comes only while no script runs. `tasks` are the queued tasks that dispatch toggle events;
`told` and `unsaid` are history, to state what those events must tell.

**LiveRanges.** A state is a `page`: child lists, texts, which nodes exist, where the
boundaries of each record are. The records are ranges or, for `editors`, selections of an editor, which
follow insertions at their own point differently. `Removing`, `Inserting`,
`ReplacingChildren`, `Splitting`, `MergingText`, `ReplacingData` are the functions of
`range_live.rs`, applied to the page by the primitives that call them. `work` is the plan that
`extractContents`, `deleteContents`, `insertNode` or `surroundContents` made, and the steps run it a method at
a time, with room after each (`open`) for a custom element's reaction to move nodes. So `insertNode` is four: it
splits and chooses a place (`PlaceNode`), takes the node out (`FetchNode`), inserts it (`LandNode`), and only then, after the
insertion's reactions, gives a collapsed range the end worked out before (`StretchRange`). A step that cannot be done any
more throws and leaves the rest undone (`StepThrows`).

**CustomElements.** `rec` is an element's record, `queue` its reactions that have not begun;
the cursor in the code's array is the front of the sequence. A DOM call changes the tree and, in the
same step, does what the first half of `flush` does (`Flush`): the events go through `mutation` in order, which
reads the tree as the call leaves it and queues reactions. What the hook does with an
element depends on that element's record and queue alone, so `Handled` is about one element and `Delivered`
applies it to each element of an event. If there are any, a frame
with the order of elements goes onto `stack`, and `ReactionsOn` runs them one by one.
Frames are also the walks of `define` and `upgrade`, constructors (`used` and `made` are the
native construction frame), callbacks, and `settling`, the callbacks that `upgrade` calls itself after
the constructor. Script may call the DOM while nothing, a callback or a constructor is on top, at most
`MaxCalls` times. `super()` takes the element of the innermost upgrade, even from a constructor that
script inside that upgrade called (`TakeElement`).

**ShadowSlots.** What a slot shows is not state: `Assigned` derives it from the tree, from
names (`name`, `wants`) or, in a root with manual assignment, from the lists and edges `assign`
leaves on wrappers (`assigned`, `manualSlot`). A call is a handler of `TreeLists`, an attribute
change or `assign`, and in the same step what the records lead to: `refresh` works out each
slot of each root, compares it with `rows`, which the last refresh wrote, and signals; `Fallback`
is the rest of `mutation`. `Deliver` is the microtask, `Fire` one turn of its loop, and calls
come in between as from listeners. `view` and `changed` are observers: what each slot shows, and which
slots show something their listeners have not been told of. The exceptions written into `Differs` are the code's
(a slot that enters a manual root is silent, as is one that brings only its own children). Two
bounds cut what cannot be seen: names change only while every root reads names, lists only
while every root reads lists.

## 3. What the runs check

| run | bounds | shows |
|---|---|---|
| `TreeLists` | 5 handles, 2 arguments, unchecked inputs | `LinksAgree`; `HandlersAgree`: in every reachable tree every handler, for every argument list, ends where DomTree's Splice puts it; `Implements` |
| `MutationLog` | 5 handles, at most 2 waiting records before a call | `LogReplays` |
| `StyleGenerations` | 6 nodes, 2 calls, the three sibling scopes and validity, a form with its control, a style sheet's owner, a shadow root | `CachedStyleIsCurrent` |
| `StorageCollection` | 4 handles (document, parsed element with `is`, text, fragment), one held at a time besides new ones, one root per host; every call of `DomTree`, with one argument | `Acyclic`, `SiblingOrder`; `PinsAreLive`, `NeverRefused`; `CollectionIsInvisible`: what is connected to a pin is kept whole and unchanged, the rest is gone |
| `MutationObservers` | 4 nodes, one observer on either of two, 3 events; with and without a consumer, nested to any depth the events allow | `NothingForgotten`, `ObserversAreKept`, `NoStaleAnchor`; `EverythingIsDelivered`; without a consumer `Implements` (of `MutationFanout`) and `RecordsReplayUndisturbed`: whenever no call is in progress the records tell the tree |
| `EventDispatch` | an element that moves into and out of a shadow tree, its host, the window; one signal; two callbacks, four possible listeners; 4 added in all, dispatches nested twice | `KeepsContract` (of `ListenerContract`); `SubscriptionsAgree`: the two lists of a signal's listeners agree between calls; `EveryoneIsCalled`; `AbortCompletes`: however often a signal's abort is nested, everything under it ends up removed |
| `TreeEvents` | a chain of three nodes whose innermost moves, three registrations | `KeepsContract`, `EveryoneIsCalled`; `DispatchEnds` |
| `TopLayer` | a popover with another inside, a dialog closed by any click, 4 calls and inputs | `ShownAreFit`, `GuardsAreBalanced`, `WatchersAreOwned`, `TogglesTellTheState`, `EscapeReachesTheGroup`; `TogglesArrive` |
| `LiveRanges` | a page of 14 points, a range on every ordered pair of them beside each of two watchers; an editor at every point; some pairs with two calls, and two on a page where emptying an element runs script between its children | `PointsFit`: a boundary stays inside its container; `InOrder`: a range's start stays before its end; `TextIsSelected`: `toString` tells exactly what is selected; `ContentsTakeTheSelection`: an undisturbed call takes exactly that, and a collapsed range selects exactly what it takes in; `KeepsSides`: what a change did not touch stays on its side of each boundary |
| `CustomElements` | two elements in a container and one that script makes; 3 calls, in constructors and callbacks or between; the definition comes before the container enters the page or after | `StoryIsContinuous`: an element's callbacks tell connections and attribute values as one story; `EverythingIsTold`: at rest the story is complete and no candidate was forgotten; `ReactionsEnd` |
| `ShadowSlots` | two hosts with roots of either mode, a slot of the first, a slot that goes between them, an element that is a child of the first host or of that slot; one assigned node | `NobodyMissesAChange`: a slot that shows other nodes than its listeners last found is signalled; `FlatTreeAgrees`: the flat tree is the same upwards and downwards; `ChangesAreHeard` |
| `ConsumerMoves` | the same as `MutationObservers` | violation: a consumer moves what is being inserted (section 6) |

**Why the bounds are enough.** Two arguments are the least at which an anchor can be
among the moved nodes, a fragment can stand beside another node and an order can be
wrong. `DomTree` has no run of its own: what it promises is proved for every number of handles and
arguments (section 4), `StorageCollection` runs all its calls, and `TreeLists` is checked against
it with two arguments. A cached style needs a moment
to be computed, a change and a change that hides it, hence two calls. Four calls in
`TopLayer` allow one to show a rival, one to show the popover, and two to come from inside
each other's listeners. Three in `CustomElements` are one that queues upgrades of two elements,
one by the first's script on the second, and one inside that one's reactions; with four the run passes as well
(1.6 million states), in more time than a routine run should take. In `EventDispatch` a copy must hold two listeners for one to
remove another, one of them under the signal, and a dispatch inside a dispatch is the
least at which flags could be shared. The offsets of a range are moved by comparisons
with the place of the change only, so texts of two characters have a point before, in and
after every place. States are reached by any sequence of calls: the number of calls is
bounded only where counters grow (`MaxCalls`, `MaxLog`).

`CHECK_DEADLOCK FALSE` appears where the system may stop: a page need not call anything,
or its bound of calls is used up.

Five runs state liveness. `ShadowSlots` assumes that a notification that waits is run and
that its loop over the slots goes on (`ChangesAreHeard`), whatever calls the listeners make. `TreeEvents` assumes that the dispatch loop goes on and that
handlers return (`DispatchEnds`), and nothing of what they do.
`TopLayer` assumes the same of listeners, and that the host runs the tasks it was
given (`TogglesArrive`), in any order. `CustomElements` assumes that constructors and
callbacks return and that loops go on (`ReactionsEnd`); that script calls the DOM only so often is its bound. `MutationObservers` has
weak fairness of `Progress`: scripts end, a
batch is handed over to its end, and the engine runs the microtasks it was given before it
starts another task. The first holds unless execution is terminated, which is left out;
the second is a loop of `flush`; the third is V8's contract with its embedder. Nothing is
assumed of the scripts' calls.

In `MutationObservers` three events are enough for a node to be removed from a
removed subtree and changed there, and for a consumer to undo what an insertion planned;
observers do not read each other, so one shows what each sees, and the theorems hold for
any number.

## 4. What is proved

`TreeProofs` proves of `DomTree`, for every set of nodes, every parsed page and every `MaxArgs`:

- `TreeInvariant`: `Spec => []TreeInv`, where
  `TreeInv == TypeOK /\ Acyclic /\ SiblingOrder /\ TopsStayTops /\ Links`;
- `NoCycles`: `Spec => []Acyclic`;
- `ChildListsAreOrders`: `Spec => []SiblingOrder`;
- `TypesHold`, `FragmentsStayTops`, `ShadowLinksAgree`: the other three conjuncts, of which
  `TopsStayTops` (no fragment or document has a parent) is proved only.

The assumptions are `KindAssumption` (the kinds of nodes are disjoint) and
`ParsedAssumption` (the parser delivers a tree). The conjuncts need one another, which is
why they are proved together: `Acyclic` needs `Links` (a new root is nobody's parent);
the order of moved nodes needs `TopsStayTops` (two moved nodes that share an argument are
children of one fragment, hence siblings already in order) and `SiblingOrder` itself.

The argument: every handler but two is a `Splice`, so one lemma per conjunct about
`Splice` does the work. For `Acyclic`, let A be the inclusive ancestors of p: the guard
keeps every moved node out of A, so A is closed upwards before and after and its links do
not change; a set that met no exit after the step either meets A, and then its part in A
had none before, or avoids A, and then no moved node can be in it, because their parent is p.
For `SiblingOrder`, the slot of a moved node is the place of its argument; slots order
the arguments, the old order orders the children of one fragment, and what stays is split
by the reference.

`TreeListsProofs` proves about `TreeLists`, from `NodeAssumption` (the kinds of nodes are disjoint, and
there are finitely many) and `PageAssumption` (the parser writes both overlays from one tree), for any
nodes and any arguments, checked by the bindings or not:

- `TreeListsInvariant`: `Spec => []TreeListsInv`, the types of the overlays together with "every list is
  one-to-one and holds the nodes whose parent it is" (`TreeFit`), documents and fragments as tops, and
  links among created nodes only;
- `OverlaysAgree`: `Spec => []LinksAgree`;
- `HandlersSplice`: `Spec => []HandlersAgree`: in every reachable tree, for every argument list, each handler
  ends where DomTree's Splice puts the arguments that count (`Once`);
- `ListsImplementTree`: `Spec => Implements`, if references are checked or `MaxArgs >= 2`. The
  condition is for one call that no binding lets through (`OwnReference`): a fragment told to go before its own child
  ends with that child last, which in DomTree is a call with two arguments, the fragment and the child.

A call is a loop of primitives, each of which writes both overlays, and an inner iteration
reads what the earlier ones left. The argument therefore describes each tree on the way by what it is
as a tree: `Parted(t, u, S)` says that u is t without the nodes of S, `Placed` that a list of nodes now
stands in order before a reference, and `Moves` is both, the whole of `insert_nodes`. Orders are relations (`Ord`: who
stands before whom), so that the sibling order of u is given by that of t. Every loop is a recursive function, and each has
a lemma that the function exists (`UnlinkRuns`, `GatherRuns`, `InsertRuns`) and one, by least counterexample, that says what
it did after k rounds (`UnlinkAllParts`, `GatherGathers`, `InsertAllInserts`). That every
insertion of the loop is carried out, although the primitive tests for a cycle again, needs that the moved nodes
stay above nothing of p (`BroughtStayBelow`), and that the loop of `is_inclusive_ancestor` sees all
ancestors: it visits at most as many nodes as there are, by the pigeonhole principle (`ClimbCloses`).

For the refinement each reading of the lists is shown to be what DomTree says of the order: climbing is
membership in every upwards closed set (`ClimbIs`), the nearest sibling that stays, which the code takes by the least
or greatest index, is the first or last of a set in the order (`ViableNextIs`, `ViablePreviousIs`), and the place of
an argument in `Once`, the last for a node and the first for a fragment, is its slot
(`SlotIs`, `ArgsAgree`). The one reading that happens late is the reference after the previous sibling, taken once the
arguments have left their lists: it is the first node that follows and stays (`BeforeReference`). `SplicedIs` then
turns any `Moves` into the abstract Splice, and there is one lemma per handler. By the refinement what `TreeProofs` proves of
the tree (no cycles, tops stay tops) holds of the lists; no theorem restates it, because this prover
cannot cite a theorem through INSTANCE.

Of `MutationLog` it proves `RecordsReplay`: if the bindings check the arguments and the trace is kept,
`LogSpec => []LogReplays`, for any nodes, any `MaxArgs` and any number of waiting records. The first hypothesis is
needed: a caller of the crate who repeats a node gets a record that lists it twice, which cannot be
followed (section 6). The second is how the model is told to keep the steps the records are made of.

The inductive invariant is `LogInv`, that of the lists together with `Tells(replica, log, children)` while
recording. `Tells(L, recs, M)` says that there is a run of child lists from L to M in which each record is right about
the list before it and leads to the list after it; runs can be joined (`TellsOn`), and `TellsIs` reads
`LogReplays` off one. A call is a sequence of steps of which some push a record, so what is carried
through its loops is `Told(t)`: the steps so far tell what the call has done to the lists. An unlogged step only
has to push nothing (`Quietly`), and all the work is in the step that ends several of them (`Recorded`): a
record names one change if the removed nodes filled the gap before its next sibling (`Gap`), the added nodes
stand there now and nothing else moved (`Goes`), and its previous sibling is the last that came before the
gap (`Earlier`). For `insert_nodes` these are three facts about
three moments: nodes leave other lists with records of their own, the siblings are read after the replaced nodes have
left, and the record is pushed when the nodes have entered. That two lists with the same members in the same
order are one list (`SameList`) turns what is said of the order into what the replica holds.

Of `StyleGenerations` it proves `StyleIsCurrent`: `GenSpec => []CachedStyleIsCurrent`, for any nodes, scopes,
attributes and argument lists, checked or not, and any number of calls, under three hypotheses: the trace is kept, no
call writes a `form` attribute and the page was parsed without one. The last two are needed: a control that
names its form by id is where the code's validity stamp is known to fall short (section 6). Of the attributes' abstraction it
needs `StyleAssumption` only (forms, controls and sheets are elements).

The invariant `GenInv` says of the counters that no stamp is newer than the selector version (`GensFit`) and of the cached
style that, whenever its element has one, the generation has moved past the key or the selectors read what they read
then (`Current`). It is carried through the loops of a call as `Tracked(b, e, t)`: folding the stamps of t's steps over b gives fit counters whose parent links are
t's, and the style e is current for t and these counters. One node's crossing of a child list is the step
of every loop (`CrossingCurrent`): were none of the stamps of this moment read, then the node is not on the element's chain
(it would be stamped itself), hence the chain is the same (`ChainApart`); each list on the chain either is not the one
that changed, or is read forward only and the node comes after (`SeenApart`); and no control or form
is in what moved, so that everybody's form is the same. That an unconnected list is not stamped at all (`Scoped`) is sound
because a styled chain ends at the document or a host (`StyledTop`). `Rewrite` changes a whole list at once and has an
argument of its own (`RewriteLands`); attribute writes go through `Noticed`, which says what a write owes
to those who look at the element (`NoticedKeeps`).

`TreeProofs` proves about `StorageCollection`, from the assumptions of
`DomTree` and `StateAssumption` (only elements are parsed with an `is` attribute, and no upgrade state
is the absence of one):

- `StorageInvariant`: `StorageSpec => []StorageInv`, the tree's invariant together with
  `PinsAreLive`, `LinkEnds` (both ends of a link are stored) and `HostsAgree` (with one
  root per host, a root's host names it);
- `PinnedHandlesStayLive`: `PinsAreLive` always;
- `WalksStayLive`: `LinksAreLive` always, which is proved only: links join live nodes;
- `OneRootNeverRefused`: with `OneRoot`, `NeverRefused` always;
- `CollectionsAreInvisible`: with `OneRoot`, `CollectionIsInvisible`. What the walk down
  from the tops visits is closed in both directions, and everything it visits is
  connected to a pin, so it is `Composed`.

`PinsAreLive` is not inductive: a call moves nodes next to others and a record names the
parents and ancestors of what moved, so links have to lead to stored nodes; that needs
`LinkEnds`, and that it survives a collection needs the tree's invariant (what is kept
holds the parent or host of each of its nodes, because a node reached downwards has one
parent, the one it was reached from). That the collector never refuses uses `Acyclic`:
were a pin's climb to leave what the walk down keeps, the nodes of the climb outside it
would have a last one, whose parent is inside, and the walk would have come down to it.

`ObserverProofs` proves about `MutationObservers`, from `ObserverAssumption` (the page's nodes
are nodes) and for any number of observers, events and nested calls, with a consumer or
without:

- `ObserverInvariant`: `Spec => []ObserverInv`, the shape of the observers' state together with
  the three properties below;
- `NoObserverForgotten`, `ObservedNodesKeepObservers`, `NoAnchorOutlivesItsUse`:
  `NothingForgotten`, `ObserversAreKept` and `NoStaleAnchor` always.

`ObserversAreKept` is not inductive: observing a node again releases the nodes of that
registration's transients, among them perhaps one that is still observed. It is kept
because transients exist only while the observer is scheduled (`NothingForgotten`), and the
notification takes back every observed node. Calls that change the tree leave all of this
alone (`TreeStepsUnobserved`), so nothing about trees or batches is needed.

Without a consumer, moreover:

- `CallInvariant`: `Spec => []CallInv`, the forms that what is running can have;
- `RecordsTellTheTree`: `RecordsReplayUndisturbed` always;
- `FanoutIsPromised`: `Spec => Implements`, that every step is one of `MutationFanout` or none.

The argument is about how deep calls can nest. A batch interrupts the script that made the call, or the
insertion of that call, and without a consumer nothing interrupts a batch. So `stack` is empty, a script, an insertion
over a script, or a batch over either (`Calm`), and a batch has one event or two. An insertion that waits is one
whose node is detached and still apart from its new parent (`Waits`), so that its test for a cycle passes and its
record is true. What has been handed over together with the rest of the batch tells the tree (`ToldBy`), and the
refinement mapping `Settled` moves when the call is made and not when its events are handed over
(`MutateIs`, `DeliverIsPromised`). A consumer may nest calls to any depth, and
then the records tell something else, as the run `ConsumerMoves` shows.

`EventProofs` proves about `EventDispatch`, from `EventAssumption` (targets, signals and
the absence of either are distinct; what may be offered is a listener) and for any nodes,
callbacks, signals, offers, depth of nesting and number of listeners:

- `EventInvariant`: `EventSpec => []EventInv`, the shape of lists, hooks, flags and frames;
- `EventTypes`: `EventTypeOK` always;
- `ContractIsKept`: `EventSpec => KeepsContract`. Initial states map to initial states of
  `ListenerContract` and every step to a step or a stutter: removal, which in the code sets
  a flag and leaves the copies that other dispatches walk, cannot be told from
  removal at once;
- `DispatchInvariant`: `EventSpec => []DispatchFacts`, that is `EventInv /\ ListInv /\ DispatchInv`;
- `SubscriptionsStayAgreed`: `SubscriptionsAgree` always;
- `NobodyIsPassedOver`: `EventSpec => EveryoneIsCalled`;
- `AbortsComplete`: `EventSpec => AbortCompletes`.

The refinement does not follow from the types. That a called listener is one the contract
still has needs that what a copy holds without the flag is in its target's list
(`CopiesAreFlagged`, for every frame); that this survives the removal of a listener with its
hook needs that the two name each other (`HooksNameBack`) and are listed where they were
registered (`ListedAtHome`); and a new registration is new to every copy because only
numbers that were handed out are in use (`KnownOnly`).

The other three are about what must happen, and their invariant follows every dispatch of the
stack. `ListInv` says of the lists that a listener has a hook, in its signal's list, if and only if it has a
signal (`HooksAtSignals`), that what is flagged and still listed is so because its signal was aborted
(`FlaggedAreAborted`), that no listener outlasts its hook (`HooksOutlast`), and `SubscriptionsAgree` itself.
`DispatchInv` says of a frame what it has still to visit: `ToCome` are the numbers in the rest of
the copy and in the lists of the entries not reached yet, by pass (capture before bubble at every
node but the target), and `Awaits` that whoever was registered when the dispatch began and
still is has been called or is to come. For `AbortCompletes` the same is said of the hooks:
the abort event goes to its signal alone (`AbortFrames`) and has all hooks left to visit whose listeners are
listed (`Unhooks`), because nothing can be registered under an aborted signal. No two dispatches of one event
are under way (`EventsApart`), so the flags of an event are those of one frame.

`ScriptProofs` proves about `TreeEvents`, from `ListenersAssumption` (types of the
constants, that the absence of a node is none of them, and that root, middle and leaf of the
chain are three nodes):

- `WalkInvariant`: `TreeEventsSpec => []TreeEventsInv`;
- `WalkKeepsContract`: `TreeEventsSpec => KeepsContract`, for any number of registrations
  and of places the moving node may be put;
- `CallsInvariant`: `TreeEventsSpec => [](TreeEventsInv /\ CallsInv)`;
- `WalkSkipsNobody`: `TreeEventsSpec => EveryoneIsCalled`.

Here the contract needs two facts the types do not give. Removal by number takes one entry
of one list only because the lists repeat no number and hold it where it was registered
(`ListedOnce`, a sequence without repetitions that appending and taking out keep so); and
what the walk calls is registered only because the index it keeps over the listener's
run is still an index of the list (`RunsWhereListed`).

That nobody is skipped needs to relate the index to a list that shrinks under it. In a fixed
path a listener is visited in one pass only (`OneVisit`), so "behind the walk" can be said of it
without history: its node and pass come earlier, or it stands before the index in the list being
walked. `CallsInv` says that those behind were called (`BehindAreCalled`), those called are behind
or ran once and are gone (`CalledAreBehind`, `OnlyUsedAreGone`), and nobody was called twice
(`CalledAreApart`). The code reads the length of a list once, before it walks it; `BoundIsEnough` says that
nothing lies beyond that length, since no handler can add to the list and taking out only shortens it.

`TopLayerProofs` proves about `TopLayer`, from `TopLayerAssumption` (types, and popovers are no dialogs), for
any nodes, any number of calls and any depth at which listeners call again:

- `TopLayerInvariant`: `TopLayerSpec => []TopLayerInv`;
- `ShownStayFit`, `GuardsStayBalanced`, `WatchersStayOwned`, `TogglesStayTrue`: the four
  properties of the same names always;
- `EscapeReaches`: `TopLayerSpec => EscapeReachesTheGroup`.

A guard is set by one action and cleared by another with any script in between, so the invariant
is about the stack: `Sound` says that the frames that show, close or ask are those whose guards are set, one
frame for each (`Holds`), that input by the user starts at the bottom and that a change of the attribute waits
directly under the hiding it asked for (`Nested`), and that what is on its way to be shown does not show
(`Unshown`). From that each early return and each error path can be seen to release what
its own frame holds and nothing else. `Placed` and `DialogTypes` say where shown nodes
stand, `Grouped` and `Owned` that a popover's watcher stands in one place of one group and that who has a
watcher has a number, shows, or is an open dialog. `Toggling` relates
the pending toggle of a node to the one task that will deliver it and to what was told last.
`Remaining` is for the close request, which asks a copy of the group: who of the group is neither
in the rest of that copy nor asked has closed. The lists of the model (auto popovers, hints, groups, the
copies being walked) are filtered with `Kept` of `Lists`, of which `ListFacts` proves once that it exists,
has the members it should, keeps their order and repeats none.

`ScriptProofs` proves also about `CustomElements`, from `CustomElementsAssumption` (body, container and
elements are different nodes, the parsed list repeats nobody), for any number of elements and of calls, nested in
constructors and callbacks to any depth:

- `ElementsFit`: `CustomElementsSpec => []IInv`;
- `EverythingIsToldAlways`: `EverythingIsTold` always;
- `StoriesAreContinuous`: `CustomElementsSpec => StoryIsContinuous`.

Neither property can be seen from one action: a reaction is queued by one call, told by another that may be nested
deep inside a third, and the record it came from has changed in between. The invariant therefore is about
stories. `Story(t, q, u)` says that the reactions q can be told one after another to somebody who was told t, each from
where the last left off, and end at u. `ElementFits` says that for every custom element the queue is a story from what
its callbacks told last to its record and attribute (`Now`), and that the record is about the page as it is; so
whichever frame takes the front of the queue tells something that continues, and when the queue is
empty the element was told everything. One handler appends at most a continuation (`Steps`), and one whole
call (removal and insertion, move, markup) leaves the record at the element's new place and the moving flag
down (`Arrives`), though each of its events is handled when the tree is already final.

The other conjuncts are about what hangs half-way and who sees to it. A queue that is not empty has a reactions
frame that lists its element; an element under construction has its constructor's frame; a candidate in the page
without a record has a walk that will still come by (`Reaches`), which is why `define` may
run script between its visits. During an upgrade the story is not a queue's: the attribute as it was before
the constructor and the connection are called directly, while script may already queue changes. `FrameFits`
carries the story through these frames, and `Tidy` is what it needs of the stack: an element has one frame of
its upgrade at most, and one that has its attribute still to tell is on top, so that no script runs before it.

`SlotProofs` proves about `ShadowSlots`, from the assumptions of `TreeLists` and `SlotsAssumption` (types, and that slots
host no shadow roots), for any trees, any number of roots of either mode and hosts within hosts:

- `SlotsInvariant`: `SlotsSpec => []SlotsInv`;
- `NobodyIsMissed`: `NobodyMissesAChange` always;
- `FlatTreeIsOne`: `FlatTreeAgrees` always.

`root` climbs and `slots` descends. `RootIs` and `SlotsAre` say, from a run of each loop, that both find the same: the
shadow root on the parent chain of a node, and the slots that have the root on theirs. No loop runs longer than there
are nodes, and neither lemma needs the tree to be free of cycles. With them, `Written` can say what `refresh` left
behind slot by slot: the rows of a root name its slots and no others, as they are. Then the comparison is complete case by case
(`RefreshTells`): a slot that stays and shows other nodes differs in the row of its root, one that leaves is missing from the
new row of the old root, one that comes is new in the row of the other. Left over is a slot that shows its own children, and that these
changed is seen by the records only: `ChangedAreTold` follows from what is proved of `MutationLog`'s records, that
replaying them gives the new lists, so a list that changed has a record of its parent. `FlatTreeIsOne` needs no
history: a node is shown by one slot at most, since its edge, or the first slot of its name, is one (`AssignedIs`), and
`assigned_slot` finds it (`AssignedSlotIs`).

## 5. Only model-checked, and not modelled

Only model-checked: liveness and `LiveRanges` (whose lines and
plans are recursive operators, out of the proof system's reach). Styles where a control names its
form by attribute are neither checked nor proved, since the code does not keep them current (section 6). Induction over data is out of the prover's
reach as a rule, since the library's induction theorems take an operator; where a definition is a recursive
function on the naturals, what it computes can still be had from a least counterexample (`WFMin` and
`NatLessThanWellFounded`, which are first-order), and that is how `ListFacts` proves what `Kept` is and
`TreeListsProofs` and `SlotProofs` what the loops of the tree, of the replica, of the stamps and of the slots do.

Left out of the observers: attribute records with their filters and old values, slot
change signals, several documents, termination of scripts, custom element reactions, and
recording being switched on late. The garbage collector itself is external: the model says
what it may not take.

Left out of `EventDispatch`: several types in one list, related targets, slots, passive
listeners, callbacks held weakly, termination, the engine's default actions and event handler attributes. Of
`TreeEvents`: several types, `preventDefault`, and a handler that panics, which leaves the
tree without its listeners. Of `TopLayer`: invoker sources, focus except where it runs script
in `close()`, return values, fullscreen, hits on a backdrop, termination, documents that
are not active, elements that are a dialog and a popover at once (and so the checks of
`showModal` for one), and nesting deeper than one inside the other, whose members leave the
document together. Of `LiveRanges`: comments and other character data, notices to an editor's
owner, the selection's hook, boundaries in other documents, `cloneContents`, the callers
that change a tree by markup or adoption, and constructors of cloned custom elements; a
text that `normalize` merged away keeps its characters in the code and is forgotten here.
Of `CustomElements`: several registries and documents, adoption, shadow trees, `is`, clones,
element internals, custom elements with children, getters and error listeners that run script, termination.

Left out of `ShadowSlots`: several documents, comments, `flattened` (the recursive reading),
termination, collected wrappers, the order of slotchange events, and roots declared in
markup. Those have slots before anything was written into their rows: the first refresh signals every
slot that has nodes, however long ago they were parsed, and a slot that the first
call empties is compared with nothing and not signalled, so `NobodyMissesAChange` is not
claimed for it.

Left out of the tree modules: attribute nodes, text data, names, doctypes and the
insertion validity of a document's children; the content fragment of a template, which is
stored as a child until it is taken out; cloning and importing, which create detached
trees; the npm runtime's own tree. `StyleGenerations` folds all attribute names into six
that the code treats differently.

The other components of section 1 are not modelled; `PROJECT.json` gives the reason for
each.

## 6. Where the code and its comments disagree

One disagreement has a run:

- *An insertion records what it planned* (`ConsumerMoves`). `Plan` says it validates "the complete
  result before detaching any existing node". `insert_mode` then enters `quiet`, which
  flushes: the embedder's consumer runs script in between. If that moves the parent into
  the node, the insertion is silently refused, and if it moves the node, its removal is
  not recorded; the call succeeds and its record says what was planned. (`Plan` also says
  that the tree's primitives do not reject cycles; `insert_before` does.) The order of
  records can mislead too: those of a nested call come before the rest of its batch.

Another is not in a run, because no page of the instances has such a control: `remove_child`
looks into the removed subtree for controls that name a form by the `form` attribute, while
`set_inner_html` and `set_text_content` only look at their element's ancestors, so when they remove
such a control from outside every form, `:invalid` on the form stays cached, although `form_gen` is
documented as the version "of the last mutation that can change form validity anywhere".

The models keep what the code does in the following cases too, and their inputs or
properties are stated so that they are not hidden:

- `insert_before` with a fragment and one of the fragment's own children as the reference, which only a caller
  of the crate can pass, does not fail: that child becomes the last of the parent's children.
- `insert_nodes` says it records one change "as the DOM does when it converts `nodes` into a
  fragment"; with a repeated argument its record lists the node twice. The bindings remove
  repetitions first (`Checked`).
- An id write can move validity: `bump_form_change` lists `id` among the names that cannot,
  but a control with a `form` attribute finds its form by id.
- Two calls of `attach_shadow` on one host build a state the collector refuses: a caller
  that keeps the first root gets `InvalidGraph` until it lets go of it. The bindings refuse
  the second call (`OneRoot`).
- In `rtdom/events.rs` an event that was stopped before its dispatch still fires at a
  target without ancestors.
- A listener of the page's own for a signal's `abort` runs before the hook that removes the
  signal's listeners; if it adds one of these again, the call is taken for a repetition and
  then removed with the rest.
- A popover that a listener shows while `hide_until` hides others stays open, because the
  loop walks a copy; and a popover's entry keeps the kind it was shown with if a rival's listener
  changes its attribute in the closing loop.
- A dialog whose `open` attribute is removed gets a second watcher when it is shown again,
  although a comment says a watcher exists while the dialog is open and connected; and if
  the attribute is removed by a `beforetoggle` listener of `close()`, the dialog stays in
  `open_dialogs`.
- `splitText` on a text without a parent leaves a range with its boundaries in two trees.
- A custom element's reaction during `deleteContents`, `extractContents` or
  `surroundContents` may move the point where the range was planned to collapse, which
  then lies in another tree. And `insertNode` assigns a collapsed range's end after the insertion's
  reactions (`range_contents.js:285`): if a `connectedCallback` removes the element that was inserted,
  the range ends beyond its container, and if it takes out the container, the range lies in two trees.
  The model reaches all of these. `astray` holds such ranges from the assignment on: the
  invariants are about the others, and no call on contents is made with a range that is astray.
- Script in a custom element's first `attributeChangedCallback`, which `upgrade` calls itself, can
  take the element out and back: `disconnectedCallback` comes first and `connectedCallback` may come twice
  or not at all; changes by its own constructor are told late or never. `StoryIsContinuous`
  and `EverythingIsTold` leave out elements that script changed during their own upgrade (`disturbed`).
- `customElements.upgrade` called in a callback passes over an element whose upgrade waits in an
  outer call's queue: when it returns the element is not upgraded yet.

## 7. Plan

1. `DomTree`, `TreeLists`, `MutationLog`, `StyleGenerations`: the tree and what remembers it. Done.
2. `StorageCollection` over `DomTree`, with its theorems. Done.
3. `MutationObservers`, which implements `MutationFanout`, with its theorems. Done.
4. `EventDispatch` and `TreeEvents`, which implement `ListenerContract`, with their theorems. Done.
5. `LiveRanges`, `TopLayer`, `CustomElements`, `ShadowSlots`. Done.
6. `DomInsertion`: `dom_mutations.rs` with two documents; refusal leaves the destination alone.
7. `Ownership`, template contents.
8. Theorems: `EveryoneIsCalled` of both dispatchers, every safety property of `EventDispatch` and
   `TopLayer`. Done.
9. Theorems: `LinksAgree`, `HandlersAgree` and `Implements` of `TreeLists`, `RecordsReplayUndisturbed` and
   `Implements` of `MutationObservers`. Done.
10. Theorems: `EverythingIsTold` and `StoryIsContinuous` of `CustomElements`. Done.
11. Theorems: `LogReplays` of `MutationLog`, `CachedStyleIsCurrent` of `StyleGenerations`. Done.
12. Theorems: the properties of `ShadowSlots`. Done.
