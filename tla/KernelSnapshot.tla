--------------------------- MODULE KernelSnapshot ---------------------------
(***************************************************************************)
(* Snapshots of the World Kernel (src/compilableworld/kernel.py):          *)
(* what save_snapshot() writes, and the validation with which              *)
(* load_snapshot() protects a runtime from a damaged file.                 *)
(*                                                                         *)
(* The checks relate every pending action's due tick, cursor, branches,    *)
(* child steps and retry to each other and to the tick of the snapshot.    *)
(* They were written for tampered files, but they also decide whether a    *)
(* host can come back from the snapshot it saved itself: a check that is   *)
(* too strict for one reachable state turns into a world that does not     *)
(* start.  Snapshots are of the current version 6.                         *)
(***************************************************************************)
EXTENDS WorldKernel

\* save_snapshot() between two calls of the kernel.
Snapshot == [tick |-> tick, counter |-> counter, queue |-> queue, cell |-> cell]

-----------------------------------------------------------------------------
(* _validated_action_runtime(): one pending action e of a snapshot taken   *)
(* at tick t.                                                              *)

Last(s)    == s[Len(s)]
Front(s)   == SubSeq(s, 1, Len(s) - 1)
Members(s) == {s[i] : i \in DOMAIN s}
Distinct(s) == \A i, j \in DOMAIN s : s[i] = s[j] => i = j

Started(r) == r.phaseDue - Ticks[r.phase]

\* Mutant of CursorFits: a phase that is being retried counts as overdue.
CursorFitsWithoutRetry(e, t) ==
  LET r == e.run IN
  /\ r.visited # <<>> /\ Distinct(r.visited)
  /\ r.visited[1] = Entry /\ Last(r.visited) = r.phase
  /\ Started(r) <= t
  /\ r.phaseDue > t
  /\ e.due > t
  /\ IF r.phase = Terminal THEN e.due = r.phaseDue ELSE e.due >= r.phaseDue

\* The route begins at the entry phase, repeats none and ends at the cursor.
\* The cursor's phase has begun, and is over exactly while its gate is retried.
\* The queue looks at the action again after the snapshot, at the end of the
\* terminal phase once the cursor is there and never before the phase ends.
CursorFits(e, t) ==
  LET r == e.run IN
  /\ r.visited # <<>> /\ Distinct(r.visited)
  /\ r.visited[1] = Entry /\ Last(r.visited) = r.phase
  /\ Started(r) <= t
  /\ r.phaseDue <= t <=> r.retry # None
  /\ e.due > t
  /\ IF r.phase = Terminal THEN e.due = r.phaseDue ELSE e.due >= r.phaseDue

\* A branch is recorded for each phase the route has left, and for the cursor's
\* while the gate behind it is retried; each leads to the phase visited next.
BranchesFit(r) ==
  LET left == Members(Front(r.visited)) IN
  /\ {p \in Phase : r.branch[p] # None}
       = left \cup (IF r.retry # None /\ Branches[r.phase] # {} THEN {r.phase} ELSE {})
  /\ \A p \in Phase : r.branch[p] # None => r.branch[p] \in Branches[p]
  /\ \A i \in 1 .. Len(r.visited) - 1 : r.branch[r.visited[i]].next = r.visited[i + 1]
  /\ r.retry # None => r.branch[r.phase] # None /\ r.branch[r.phase].next = r.retry.phase

\* The completed child steps are a prefix of the authored ones along the route,
\* and no selected branch's step is missing from them.
StepsFit(r) ==
  /\ Len(r.steps) <= Len(Authored(r)) /\ r.steps = SubSeq(Authored(r), 1, Len(r.steps))
  /\ Members(Authored(r)) \subseteq Members(r.steps)

\* The one active retry is within its policy, of a gate that has a condition,
\* and its next attempt lies ahead.
RetryFits(r, t) ==
  r.retry # None =>
    LET g == r.retry
        pol == Policy[g.phase]
    IN  /\ pol # None /\ g.phase \in Gated
        /\ g.attempts \in 1 .. pol.max
        /\ g.timeout = g.first + pol.timeout
        /\ g.first < g.next /\ g.next <= g.timeout
        /\ g.next > t

RecordFits(e, t) ==
  e.run # None =>
    CursorFits(e, t) /\ BranchesFit(e.run) /\ StepsFit(e.run) /\ RetryFits(e.run, t)

\* Scheduler.import_state(): orders start at 1 and the counter is above them.
EntryFits(e) == e.due >= 0 /\ e.order >= 1

Accepts(s) ==
  \A id \in Held(s.queue) : EntryFits(s.queue[id]) /\ RecordFits(s.queue[id], s.tick)

Highest(S) == CHOOSE n \in S : \A m \in S : m <= n

\* The scheduler after load_snapshot(): actions that were not pending are
\* forgotten, and the counter is never below an order in the queue.
Restored(s) ==
  [tick |-> s.tick, cell |-> s.cell, queue |-> s.queue,
   counter |-> Highest({s.counter} \cup {s.queue[id].order : id \in Held(s.queue)}),
   actions |-> Held(s.queue)]

-----------------------------------------------------------------------------
\* Whatever the kernel went through - retries, interruptions, cancellations,
\* routes that gave up - the snapshot it can save between two calls is one that
\* load_snapshot() accepts, the runtime it gives goes on where the saved one
\* stood, and no order is handed out twice: replay(), which numbers the entries
\* afresh, and the snapshot agree on it.
SnapshotLoads ==
  Idle =>
    /\ Accepts(Snapshot)
    /\ Restored(Snapshot).counter = counter
    /\ Restored(Snapshot).queue = image.pending

=============================================================================
