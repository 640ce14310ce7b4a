----------------------------- MODULE MutationLog -----------------------------
(***************************************************************************)
(* The mutation records a Tree buffers while an observer is attached       *)
(* (rtdom/tree.rs: mutation_log, record_event, record_child_list,          *)
(* record_child_list_batch, start_recording, stop_recording,               *)
(* take_mutation_events), over the child lists of TreeLists.               *)
(*                                                                         *)
(* A consumer holds a replica of the child lists, taken when recording     *)
(* begins.  It is an observer of the model: no handler reads it.           *)
(***************************************************************************)
EXTENDS TreeLists

CONSTANT MaxLog   \* bound: no call is made once this many records wait

VARIABLES recording, log, replica

logVars == <<recording, log, replica>>
logAll == <<vars, logVars>>
-----------------------------------------------------------------------------
\* A childList record and the siblings read when it was pushed.
RecordOf(step) ==
  [target |-> step.at, added |-> step.added, removed |-> step.removed,
   prev |-> step.prev, next |-> step.next]

\* Mutant: the log is not taken away during insert_nodes.
RecordsUnsuspended(steps) == [i \in DOMAIN steps |-> RecordOf(steps[i])]

\* The steps that push a record.  insert_nodes takes the log away while it
\* moves nodes one by one, then pushes one record for the whole call.
RecordsOf(steps) ==
  LET r[k \in 0..Len(steps)] ==
        IF k = 0 THEN <<>>
        ELSE IF steps[k].logged THEN Append(r[k - 1], RecordOf(steps[k])) ELSE r[k - 1]
  IN  r[Len(steps)]

\* Bounds: see MaxLog; and without a recording, one call between two other steps.
Mutate ==
  /\ Len(log) < MaxLog
  /\ recording \/ trace = <<>>
  /\ Next
  /\ log' = IF recording THEN log \o RecordsOf(trace') ELSE log
  /\ replica' = IF recording THEN replica ELSE children'
  /\ UNCHANGED recording
-----------------------------------------------------------------------------
\* What a consumer does with a record: take out the removed nodes, put the
\* added ones right after the previous sibling.
Replayed(lists, rec) ==
  LET kept  == Kept(lists[rec.target], Node \ ToSet(rec.removed))
      place == IF rec.prev = None THEN 0 ELSE Position(kept, rec.prev)
  IN  [lists EXCEPT ![rec.target] = SubSeq(kept, 1, place) \o rec.added
                                      \o SubSeq(kept, place + 1, Len(kept))]

Replay(lists, recs) ==
  LET r[k \in 0..Len(recs)] == IF k = 0 THEN lists ELSE Replayed(r[k - 1], recs[k])
  IN  r[Len(recs)]

Quiet == trace' = <<>> /\ UNCHANGED <<created, parent, children, hostOf, rootOf>>

StartRecording ==
  /\ recording' = TRUE
  /\ Quiet
  /\ UNCHANGED <<log, replica>>

StopRecording ==
  /\ recording' = FALSE
  /\ log' = <<>>
  /\ replica' = children
  /\ Quiet

TakeEvents ==
  /\ recording
  /\ log' = <<>>
  /\ replica' = Replay(replica, log)
  /\ Quiet
  /\ UNCHANGED recording

LogInit ==
  /\ Init
  /\ recording = FALSE
  /\ log = <<>>
  /\ replica = children

LogNext == Mutate \/ StartRecording \/ StopRecording \/ TakeEvents

LogSpec == LogInit /\ [][LogNext]_logAll
-----------------------------------------------------------------------------
\* The siblings of a record are neighbours, with the removed nodes between them.
Stands(lists, rec) ==
  LET list == lists[rec.target]
      from == IF rec.prev = None THEN 0 ELSE Position(list, rec.prev)
      to   == IF rec.next = None THEN Len(list) + 1 ELSE Position(list, rec.next)
  IN  ToSet(SubSeq(list, from + 1, to - 1)) = ToSet(rec.removed)

\* Each waiting record is right about the lists that the earlier ones leave.
AllStand(lists, recs) ==
  \A k \in DOMAIN recs : Stands(Replay(lists, SubSeq(recs, 1, k - 1)), recs[k])

\* Whoever follows the records, and nothing else, has the child lists of the
\* tree exactly: no move, replacement or emptied fragment goes unrecorded,
\* is recorded twice, or names siblings of another moment.
LogReplays ==
  recording => AllStand(replica, log) /\ Replay(replica, log) = children

=============================================================================
