---------------------------- MODULE WorldKernel ----------------------------
(***************************************************************************)
(* The World Kernel of src/compilableworld/kernel.py: the scheduler, the   *)
(* lifecycle of a submitted ActionIR, the authored long actions that walk  *)
(* a compiled static phase DAG, the tick that decides phase boundaries,    *)
(* the interruption of a pending action by a committed event, and the      *)
(* event log every one of these must be appended to before it counts.      *)
(*                                                                         *)
(* The log itself is not kept.  WorldRuntime.replay folds over the log, so *)
(* the model carries the value of that fold, `image': what a fresh runtime *)
(* would rebuild from the records that are durable so far.  Appending a    *)
(* record applies replay's own handler, checks included, to the image.     *)
(*                                                                         *)
(* World state is one Boolean cell per actor with a version (say, whether  *)
(* the actor stands where the search needs it).  A module's evaluate() is  *)
(* one of three effects below, and accepts or rejects at will.             *)
(***************************************************************************)
EXTENDS Integers, Sequences, FiniteSets

CONSTANTS
  Actor,          \* entities of the registry that act
  ActionId,       \* identifiers of submitted ActionIRs
  None,           \* Python's None: no actor, route, branch, retry or policy
  Phase,          \* phases of the authored behavior
  Entry,          \* entry_phase_id
  Terminal,       \* terminal_phase_id
  Ticks,          \* [Phase -> duration_ticks]
  Longest,        \* [Phase -> ticks of the longest route from the phase on]
  Gated,          \* phases whose `when' reads the actor's cell
  Policy,         \* [Phase -> retry policy or None]
  Branches,       \* [Phase -> set of branches]
  Delays,         \* delays an action without a behavior is submitted with
  LogMayFail,     \* may EventLog.append_batch raise KernelTransactionError?
  LastSubmit,     \* bound: no submission after this tick
  MaxTick         \* bound: no tick after this one

Kind    == {"open", "strike", "step"}
NoChild == "none"
Statuses == {"new", "parsed", "scheduled", "completed", "failed", "cancelled", "interrupted"}

Policies     == [max : Nat \ {0}, interval : Nat \ {0}, timeout : Nat \ {0}]
BranchSet    == [priority : Nat, next : Phase, when : BOOLEAN, child : Kind \cup {NoChild}]
RetryRecord  == [phase : Phase, attempts : Nat, first : Nat, timeout : Nat, next : Nat]
Route        == [phase : Phase, phaseDue : Nat, visited : Seq(Phase),
                 branch : [Phase -> BranchSet \cup {None}], steps : Seq(Phase),
                 retry : RetryRecord \cup {None}]
QueueEntry   == [due : Nat, order : Nat, run : Route \cup {None}]
ActionRecord == [status : Statuses, actor : Actor \cup {None}, target : Actor \cup {None},
                 verb : Kind \cup {"long", NoChild}]
Hit          == [target : Actor, cause : ActionId]
CellMap      == [Actor -> [value : BOOLEAN, version : Nat]]
QueueMap     == [ActionId -> QueueEntry \cup {None}]
EffectMap    == [ActionId -> [Phase -> Nat]]
Image        == [pending : QueueMap, cell : CellMap, order : Nat, tick : Nat, ok : BOOLEAN]
Copies       == [tick : Nat, act : [ActionId -> ActionRecord], queue : QueueMap,
                 cell : CellMap, image : Image, effects : EffectMap]

(***************************************************************************)
(* What the compiler guarantees of a static_dag behavior: every phase but  *)
(* the terminal one has an unconditional branch, the one of the lowest     *)
(* priority, and the edges make no cycle.  Longest is the length of the    *)
(* longest route: duration_ticks is Longest[Entry].                        *)
(***************************************************************************)
ASSUME GraphAssumption ==
  /\ Entry \in Phase /\ Terminal \in Phase /\ Entry # Terminal
  /\ Ticks \in [Phase -> Nat \ {0}]
  /\ Longest \in [Phase -> Nat]
  /\ Longest[Terminal] = Ticks[Terminal]
  /\ Branches \in [Phase -> SUBSET BranchSet]
  /\ Branches[Terminal] = {}
  /\ \A p \in Phase : \A b \in Branches[p] : Longest[p] >= Ticks[p] + Longest[b.next]
  /\ \A p \in Phase \ {Terminal} : Longest[p] > Ticks[p]
  /\ \A p \in Phase \ {Terminal} : \E b \in Branches[p] :
        /\ ~b.when
        /\ \A c \in Branches[p] \ {b} : c.when /\ c.priority > b.priority

ASSUME PolicyAssumption ==
  /\ Gated \subseteq Phase \ {Entry}
  /\ Policy \in [Phase -> Policies \cup {None}]

ASSUME BoundAssumption ==
  /\ Delays \subseteq Nat \ {0}
  /\ LastSubmit \in Nat /\ MaxTick \in Nat
  /\ LogMayFail \in BOOLEAN

ASSUME NoneAssumption ==
  /\ None \notin Actor
  /\ None \notin Policies /\ None \notin BranchSet /\ None \notin RetryRecord
  /\ None \notin Route /\ None \notin QueueEntry /\ None \notin Copies

VARIABLES
  tick,      \* Scheduler.tick
  counter,   \* Scheduler._counter
  act,       \* WorldRuntime.actions: status, actor, target and verb of each id
  queue,     \* Scheduler._queue with WorldRuntime.action_runtime: id -> entry
  cell,      \* StateStore: actor -> [value, version]
  image,     \* what replay() rebuilds from the durable records
  effects,   \* how often an action's phase took effect in the world's history
  pc,        \* where advance() is: "idle", "decide", "publish", "execute"
  todo,      \* entries whose phase boundary is this tick, not decided yet
  hits,      \* interrupting events of this tick, committed, not published yet
  ready,     \* entries popped by pop_ready(), not executed yet
  before     \* the copies advance() took before it began to decide

vars == <<tick, counter, act, queue, cell, image, effects, pc, todo, hits, ready, before>>
world == <<cell, effects>>
loop  == <<pc, todo, hits, ready, before>>

-----------------------------------------------------------------------------
(* Scheduler entries and the runtime record of a long action.             *)

Nobody   == [id \in ActionId |-> None]

Fresh(t) ==
  [phase |-> Entry, phaseDue |-> t + Ticks[Entry], visited |-> <<Entry>>,
   branch |-> [p \in Phase |-> None], steps |-> <<>>, retry |-> None]

Put(f, id, e)  == [f EXCEPT ![id] = e]
Drop(f, S)     == [x \in ActionId |-> IF x \in S THEN None ELSE f[x]]
Held(f)        == {id \in ActionId : f[id] # None}
Long(f)        == {id \in Held(f) : f[id].run # None}
Earlier(e, f)  == e.due < f.due \/ (e.due = f.due /\ e.order < f.order)

WithRun(e, r)  == [e EXCEPT !.run = r]
Chosen(r, b)   == [r EXCEPT !.branch = [@ EXCEPT ![r.phase] = b]]
StepDone(r, p) == [r EXCEPT !.steps = Append(@, p)]

\* The tick at which a pending route is next looked at.
Boundary(r) == IF r.retry = None THEN r.phaseDue ELSE r.retry.next

-----------------------------------------------------------------------------
(* A module's evaluate() and StateStore.commit: the cells after an effect, *)
(* and the actor an interrupting event (movement, damage) is targeted at.  *)

Touched(kind, a, t) == IF kind = "strike" THEN t ELSE a

Written(c, kind, a, t) ==
  LET x == Touched(kind, a, t)
  IN  [c EXCEPT ![x] = [value   |-> IF kind = "open" THEN TRUE
                                    ELSE IF kind = "long" THEN @.value ELSE FALSE,
                        version |-> @.version + 1]]

Struck(kind, a, t) == IF kind \in {"strike", "step"} THEN Touched(kind, a, t) ELSE None

Count(id, p) == [effects EXCEPT ![id][p] = @ + 1]

-----------------------------------------------------------------------------
(* replay(): the handler of each kind of record, with the checks that make *)
(* it refuse a log.                                                        *)

Seen(im, t)  == [im EXCEPT !.tick = IF t > @ THEN t ELSE @]
Refuse(im)   == [im EXCEPT !.ok = FALSE]
Routed(im, id)   == im.pending[id] # None /\ im.pending[id].run # None
Rerun(im, id, r) == [im EXCEPT !.pending = Put(@, id, WithRun(@[id], r))]

LogCommit(im, c) == IF im.ok THEN [im EXCEPT !.cell = c] ELSE im

LogScheduled(im, id, due, r, t) ==
  LET entry == [due |-> due, order |-> im.order + 1, run |-> r]
  IN  IF ~im.ok THEN im
      ELSE Seen([pending |-> Put(im.pending, id, entry), cell |-> im.cell,
                 order |-> im.order + 1, tick |-> im.tick, ok |-> TRUE], t)

LogBranch(im, id, b, t) ==
  IF ~im.ok THEN im
  ELSE IF /\ Routed(im, id)
          /\ LET r == im.pending[id].run IN
               /\ b \in Branches[r.phase]
               /\ r.branch[r.phase] = None
               /\ t = r.phaseDue
       THEN LET r == im.pending[id].run
            IN  Seen(Rerun(im, id, Chosen(r, b)), t)
       ELSE Refuse(im)

\* The members of s that are in D, in the order of s: SelectSeq as a recursive
\* function, which a proof can unfold.
Picked(s, D) ==
  LET pick[i \in 0 .. Len(s)] ==
        IF i = 0 THEN <<>>
        ELSE IF s[i] \in D THEN Append(pick[i - 1], s[i]) ELSE pick[i - 1]
  IN  pick[Len(s)]

\* The phases of a route whose selected branch has a child.
Parents(r) == {p \in Phase : r.branch[p] # None /\ r.branch[p].child # NoChild}

\* The child steps a route has to have completed, in the order it visited.
Authored(r) == Picked(r.visited, Parents(r))

LogChild(im, id, p, t) ==
  IF ~im.ok THEN im
  ELSE IF /\ Routed(im, id)
          /\ LET r == im.pending[id].run IN
               /\ Len(r.steps) < Len(Authored(r))
               /\ Authored(r)[Len(r.steps) + 1] = p
       THEN LET r == im.pending[id].run
            IN  Seen(Rerun(im, id, StepDone(r, p)), t)
       ELSE Refuse(im)

\* The entry after the gate of new.phase was found closed once more.
Postponed(e, new) ==
  [due   |-> e.due + Policy[new.phase].interval,
   order |-> e.order,
   run   |-> [e.run EXCEPT !.retry = new]]

LogRetry(im, id, new, t) ==
  IF ~im.ok THEN im
  ELSE IF /\ Routed(im, id)
          /\ LET e == im.pending[id]
                 r == e.run
                 pol == Policy[new.phase]
             IN  /\ r.branch[r.phase] # None
                 /\ r.branch[r.phase].next = new.phase
                 /\ pol # None
                 /\ t = Boundary(r)
                 /\ r.retry # None => r.retry.phase = new.phase
                 /\ new.attempts = (IF r.retry = None THEN 1 ELSE r.retry.attempts + 1)
                 /\ new.first = (IF r.retry = None THEN t ELSE r.retry.first)
                 /\ new.attempts <= pol.max
                 /\ new.next = t + pol.interval
                 /\ new.timeout = new.first + pol.timeout
                 /\ new.next <= new.timeout
       THEN Seen([im EXCEPT !.pending = Put(@, id, Postponed(@[id], new))], t)
       ELSE Refuse(im)

\* The entry after the route moved on along branch b at tick t.
Advanced(e, b, t) ==
  [due   |-> IF b.next = Terminal THEN t + Ticks[Terminal] ELSE e.due,
   order |-> e.order,
   run   |-> [phase |-> b.next, phaseDue |-> t + Ticks[b.next],
              visited |-> Append(e.run.visited, b.next), branch |-> e.run.branch,
              steps |-> e.run.steps, retry |-> None]]

LogProgress(im, id, p, b, t) ==
  IF ~im.ok THEN im
  ELSE IF /\ Routed(im, id)
          /\ LET r == im.pending[id].run IN
               /\ r.phase = p
               /\ r.branch[p] = b
               /\ t = Boundary(r)
       THEN Seen([im EXCEPT !.pending = Put(@, id, Advanced(@[id], b, t))], t)
       ELSE Refuse(im)

\* action.completed or action.failed.  The record of an action without a
\* behavior carries no action_id: replay leaves its entry pending.
LogEnd(im, id, long, event, t) ==
  IF ~im.ok \/ ~long THEN im
  ELSE IF /\ event = "completed"
          /\ Routed(im, id)
          /\ ~ /\ im.pending[id].run.phase = Terminal
               /\ im.pending[id].run.phaseDue = t
               /\ im.pending[id].due = t
       THEN Refuse(im)
       ELSE Seen([im EXCEPT !.pending = Drop(@, {id})], t)

\* action.cancelled or action.interrupted, for each of S.
LogStop(im, S, t) ==
  IF ~im.ok \/ S = {} THEN im ELSE Seen([im EXCEPT !.pending = Drop(@, S)], t)

-----------------------------------------------------------------------------
Init ==
  /\ tick = 0 /\ counter = 0
  /\ act = [id \in ActionId |->
       [status |-> "new", actor |-> None, target |-> None, verb |-> NoChild]]
  /\ queue = Nobody
  /\ \E v \in [Actor -> BOOLEAN] : cell = [a \in Actor |-> [value |-> v[a], version |-> 0]]
  /\ image = [pending |-> queue, cell |-> cell, order |-> 0, tick |-> 0, ok |-> TRUE]
  /\ effects = [id \in ActionId |-> [p \in Phase |-> 0]]
  /\ pc = "idle" /\ todo = {} /\ hits = <<>> /\ ready = queue /\ before = None

\* A KernelTransactionError leaves advance(): what the loop held is lost.
Unwind == pc' = "idle" /\ todo' = {} /\ hits' = <<>> /\ ready' = Nobody /\ before' = None

-----------------------------------------------------------------------------
(* publish(): _on_action_interrupt_event terminates the pending long       *)
(* actions of the struck actor, but not the one that caused the event.     *)

Interrupted(target, cause) == {q \in Long(queue) : act[q].actor = target /\ q # cause}

\* Mutant of Interrupt: the entry stays in the queue.
InterruptKeeps(S, ac, im) ==
  /\ act' = [q \in ActionId |-> IF q \in S THEN [ac[q] EXCEPT !.status = "interrupted"] ELSE ac[q]]
  /\ queue' = queue
  /\ image' = LogStop(im, S, tick)

\* Mutant of Interrupt: action.interrupted is not logged.
InterruptUnlogged(S, ac, im) ==
  /\ act' = [q \in ActionId |-> IF q \in S THEN [ac[q] EXCEPT !.status = "interrupted"] ELSE ac[q]]
  /\ queue' = Drop(queue, S)
  /\ image' = im

Interrupt(S, ac, im) ==
  /\ act' = [q \in ActionId |-> IF q \in S THEN [ac[q] EXCEPT !.status = "interrupted"] ELSE ac[q]]
  /\ queue' = Drop(queue, S)
  /\ image' = LogStop(im, S, tick)

-----------------------------------------------------------------------------
(* _execute(): evaluate, commit, append, publish.                          *)

Done(id, rec) == [act EXCEPT ![id] = [rec EXCEPT !.status = "completed"]]
Failed(id, rec) == [act EXCEPT ![id] = [rec EXCEPT !.status = "failed"]]

Committing(id, rec) ==
  LET after == Written(cell, rec.verb, rec.actor, rec.target)
  IN  /\ cell' = after
      /\ effects' = Count(id, Terminal)

CommitImage(id, rec) ==
  LogEnd(LogCommit(image, Written(cell, rec.verb, rec.actor, rec.target)),
         id, rec.verb = "long", "completed", tick)

\* The event of the effect interrupts; every append succeeds.
Completes(id, rec) ==
  /\ Committing(id, rec)
  /\ Interrupt(Interrupted(Struck(rec.verb, rec.actor, rec.target), id), Done(id, rec),
               CommitImage(id, rec))

\* The effect is committed, but appending action.interrupted fails: the
\* interrupted entry is restored and the exception reaches the caller.
CompletesAndRaises(id, rec) ==
  /\ LogMayFail
  /\ Interrupted(Struck(rec.verb, rec.actor, rec.target), id) # {}
  /\ Committing(id, rec)
  /\ act' = Done(id, rec) /\ image' = CommitImage(id, rec)
  /\ UNCHANGED queue

\* evaluate() rejected the action: _fail() logs it.
Rejected(id, rec) ==
  /\ act' = Failed(id, rec)
  /\ image' = LogEnd(image, id, rec.verb = "long", "failed", tick)
  /\ UNCHANGED <<cell, queue, effects>>

\* Mutant of RollsBack: the state is not restored.
RollsBackNothing(id, rec) ==
  /\ LogMayFail
  /\ act' = Failed(id, rec)
  /\ Committing(id, rec)
  /\ UNCHANGED <<queue, image>>

\* The batch cannot be appended: the state is restored.
RollsBack(id, rec) ==
  /\ LogMayFail
  /\ act' = Failed(id, rec)
  /\ UNCHANGED <<cell, queue, effects, image>>

-----------------------------------------------------------------------------
(* submit() and cancel_action(), between two ticks.                        *)

Idle == pc = "idle"

CanSubmit(id) == Idle /\ act[id].status = "new" /\ tick <= LastSubmit

New(a, t, verb) == [status |-> "new", actor |-> a, target |-> t, verb |-> verb]

\* Mutant of Occupied: an action that waits for a retry is overlooked.
OccupiedNow(a) == \E q \in Long(queue) : act[q].actor = a /\ queue[q].run.retry = None

Occupied(a) == \E q \in Long(queue) : act[q].actor = a

\* A second long action of the same actor: _fail().
SubmitRefused(id, a, t) ==
  /\ CanSubmit(id) /\ Occupied(a)
  /\ act' = Failed(id, New(a, t, "long"))
  /\ image' \in {LogEnd(image, id, TRUE, "failed", tick)} \cup (IF LogMayFail THEN {image} ELSE {})
  /\ UNCHANGED <<tick, counter, queue, world, loop>>

SubmitNow(id, a, t, kind) ==
  /\ CanSubmit(id)
  /\ LET rec == New(a, t, kind)
     IN  \/ Completes(id, rec) \/ CompletesAndRaises(id, rec)
         \/ Rejected(id, rec) \/ RollsBack(id, rec)
  /\ UNCHANGED <<tick, counter, loop>>

\* The entry counts once action.scheduled is durable; when the append fails
\* it is taken out of the queue again, and only the counter has moved.
Schedule(id, rec, due, run) ==
  /\ counter' = counter + 1
  /\ \/ /\ act' = [act EXCEPT ![id] = [rec EXCEPT !.status = "scheduled"]]
        /\ queue' = Put(queue, id, [due |-> due, order |-> counter + 1, run |-> run])
        /\ image' = LogScheduled(image, id, due, run, tick)
     \/ /\ LogMayFail
        /\ act' = [act EXCEPT ![id] = [rec EXCEPT !.status = "parsed"]]
        /\ UNCHANGED <<queue, image>>
  /\ UNCHANGED <<tick, world, loop>>

\* An action without a behavior, delayed by its submitter.
SubmitDelayed(id, a, t, kind, d) ==
  /\ CanSubmit(id)
  /\ Schedule(id, New(a, t, kind), tick + d, None)

SubmitLong(id, a, t) ==
  /\ CanSubmit(id) /\ ~Occupied(a)
  /\ Schedule(id, New(a, t, "long"), tick + Longest[Entry], Fresh(tick))

\* A failed append of action.cancelled restores the entry: nothing changes.
Cancel(id) ==
  /\ Idle /\ id \in Held(queue)
  /\ act' = [act EXCEPT ![id].status = "cancelled"]
  /\ queue' = Drop(queue, {id})
  /\ image' = LogStop(image, {id}, tick)
  /\ UNCHANGED <<tick, counter, world, loop>>

-----------------------------------------------------------------------------
(* advance(1): the phase boundaries of the new tick are decided one entry  *)
(* after the other, on live state, with copies taken to undo them.         *)

BeginTick ==
  /\ Idle /\ tick < MaxTick
  /\ tick' = tick + 1
  /\ pc' = "decide"
  /\ todo' = {id \in Long(queue) : /\ queue[id].run.phase # Terminal
                                   /\ Boundary(queue[id].run) = tick + 1}
  /\ before' = [tick |-> tick, act |-> act, queue |-> queue, cell |-> cell,
                image |-> image, effects |-> effects]
  /\ UNCHANGED <<counter, act, queue, image, world, hits, ready>>

Holds(b, a) == b.when => cell[a].value

\* Branch b is the one taken: the one selected at the first arrival, or now
\* the matching one of the highest priority.
Takes(r, a, b) ==
  IF r.branch[r.phase] # None
  THEN b = r.branch[r.phase]
  ELSE /\ b \in Branches[r.phase] /\ Holds(b, a)
       /\ \A c \in Branches[r.phase] : Holds(c, a) => c.priority <= b.priority

Turn(id, b) ==
  /\ pc = "decide" /\ id \in todo
  /\ \A o \in todo \ {id} : Earlier(queue[id], queue[o])
  /\ Takes(queue[id].run, act[id].actor, b)
  /\ todo' = todo \ {id}
  /\ UNCHANGED <<tick, counter, pc, ready, before>>

\* Mutant of RunsChild: a retry of the gate runs the child again.
RunsChildAgain(r, b) == b.child # NoChild

RunsChild(r, b) == b.child # NoChild /\ \A i \in DOMAIN r.steps : r.steps[i] # r.phase

BranchImage(id, b) ==
  LET r == queue[id].run
  IN  IF r.branch[r.phase] = None THEN LogBranch(image, id, b, tick) ELSE image

\* The child action of the branch is rejected: the parent fails.
ChildFails(id, b) ==
  /\ Turn(id, b)
  /\ RunsChild(queue[id].run, b)
  /\ act' = [act EXCEPT ![id].status = "failed"]
  /\ queue' = Drop(queue, {id})
  /\ image' = LogEnd(BranchImage(id, b), id, TRUE, "failed", tick)
  /\ UNCHANGED <<hits, world>>

\* Entry, cells and image once the branch is selected and its child, unless
\* an earlier attempt ran it already, has committed.
Stepped(id, b) ==
  LET r     == queue[id].run
      runs  == RunsChild(r, b)
      after == IF runs THEN Written(cell, b.child, act[id].actor, act[id].target) ELSE cell
      chose == Chosen(r, b)
  IN  [entry |-> WithRun(queue[id], IF runs THEN StepDone(chose, r.phase) ELSE chose),
       cell  |-> after,
       image |-> IF runs THEN LogChild(LogCommit(BranchImage(id, b), after), id, r.phase, tick)
                         ELSE BranchImage(id, b)]

GateOpens(id, b) == b.next \in Gated => Stepped(id, b).cell[act[id].actor].value

CommitsChild(id, b) ==
  LET r == queue[id].run
      h == Struck(b.child, act[id].actor, act[id].target)
  IN  /\ cell' = Stepped(id, b).cell
      /\ effects' = IF RunsChild(r, b) THEN Count(id, r.phase) ELSE effects
      /\ hits' = IF RunsChild(r, b) /\ h # None
                 THEN Append(hits, [target |-> h, cause |-> id]) ELSE hits

Progresses(id, b) ==
  /\ Turn(id, b)
  /\ GateOpens(id, b)
  /\ CommitsChild(id, b)
  /\ queue' = Put(queue, id, Advanced(Stepped(id, b).entry, b, tick))
  /\ image' = LogProgress(Stepped(id, b).image, id, queue[id].run.phase, b, tick)
  /\ UNCHANGED act

\* The retry record of the next attempt at the gate of phase p.
NextRetry(r, p) ==
  LET first == IF r.retry = None THEN tick ELSE r.retry.first
  IN  [phase |-> p, attempts |-> IF r.retry = None THEN 1 ELSE r.retry.attempts + 1,
       first |-> first, timeout |-> first + Policy[p].timeout,
       next |-> tick + Policy[p].interval]

MayRetry(r, p) ==
  /\ Policy[p] # None
  /\ NextRetry(r, p).attempts <= Policy[p].max
  /\ NextRetry(r, p).next <= NextRetry(r, p).timeout

Retries(id, b) ==
  LET r == queue[id].run IN
  /\ Turn(id, b)
  /\ ~GateOpens(id, b) /\ MayRetry(r, b.next)
  /\ CommitsChild(id, b)
  /\ queue' = Put(queue, id, Postponed(Stepped(id, b).entry, NextRetry(r, b.next)))
  /\ image' = LogRetry(Stepped(id, b).image, id, NextRetry(r, b.next), tick)
  /\ UNCHANGED act

\* Mutant of GivesUp: the entry is dropped and the action forgotten.
GivesUpSilently(id, b) ==
  /\ Turn(id, b)
  /\ ~GateOpens(id, b) /\ ~MayRetry(queue[id].run, b.next)
  /\ CommitsChild(id, b)
  /\ queue' = Drop(queue, {id})
  /\ image' = Stepped(id, b).image
  /\ UNCHANGED act

GivesUp(id, b) ==
  /\ Turn(id, b)
  /\ ~GateOpens(id, b) /\ ~MayRetry(queue[id].run, b.next)
  /\ CommitsChild(id, b)
  /\ act' = [act EXCEPT ![id].status = "failed"]
  /\ queue' = Drop(queue, {id})
  /\ image' = LogEnd(Stepped(id, b).image, id, TRUE, "failed", tick)

\* The batch of all decisions is durable.
TickLogged ==
  /\ pc = "decide" /\ todo = {}
  /\ pc' = "publish" /\ before' = None
  /\ UNCHANGED <<tick, counter, act, queue, image, world, todo, hits, ready>>

\* Mutant of TickRollsBack: the cells the children wrote are not restored.
TickRollsBackPartly ==
  /\ LogMayFail
  /\ pc = "decide" /\ todo = {} /\ queue # before.queue
  /\ tick' = before.tick /\ act' = before.act /\ queue' = before.queue
  /\ image' = before.image /\ effects' = before.effects
  /\ Unwind
  /\ UNCHANGED <<counter, cell>>

\* The batch cannot be appended: everything the tick did is undone.
TickRollsBack ==
  /\ LogMayFail
  /\ pc = "decide" /\ todo = {} /\ queue # before.queue
  /\ tick' = before.tick /\ act' = before.act /\ queue' = before.queue
  /\ cell' = before.cell /\ image' = before.image /\ effects' = before.effects
  /\ Unwind
  /\ UNCHANGED counter

PublishHit ==
  /\ pc = "publish" /\ hits # <<>>
  /\ LET S == Interrupted(Head(hits).target, Head(hits).cause)
     IN  \/ /\ Interrupt(S, act, image)
            /\ hits' = Tail(hits)
            /\ UNCHANGED <<pc, todo, ready, before>>
         \/ /\ LogMayFail /\ S # {}
            /\ Unwind
            /\ UNCHANGED <<act, queue, image>>
  /\ UNCHANGED <<tick, counter, world>>

PopReady ==
  LET due == {id \in Held(queue) : queue[id].due <= tick} IN
  /\ pc = "publish" /\ hits = <<>>
  /\ ready' = [id \in ActionId |-> IF id \in due THEN queue[id] ELSE None]
  /\ queue' = Drop(queue, due)
  /\ pc' = IF due = {} THEN "idle" ELSE "execute"
  /\ UNCHANGED <<tick, counter, act, image, world, todo, hits, before>>

ExecuteReady(id) ==
  /\ pc = "execute" /\ id \in Held(ready)
  /\ \A o \in Held(ready) \ {id} : Earlier(ready[id], ready[o])
  /\ \/ /\ Completes(id, act[id]) \/ Rejected(id, act[id])
        /\ ready' = Drop(ready, {id})
        /\ pc' = IF Held(ready) = {id} THEN "idle" ELSE "execute"
        /\ UNCHANGED <<todo, hits, before>>
     \/ /\ CompletesAndRaises(id, act[id]) \/ RollsBack(id, act[id])
        /\ Unwind
  /\ UNCHANGED <<tick, counter>>

-----------------------------------------------------------------------------
Submit(id) ==
  \E a, t \in Actor :
    \/ SubmitRefused(id, a, t)
    \/ SubmitLong(id, a, t)
    \/ \E kind \in Kind :
         \/ SubmitNow(id, a, t, kind)
         \/ \E d \in Delays : SubmitDelayed(id, a, t, kind, d)

Decide(id) ==
  \E b \in UNION {Branches[p] : p \in Phase} :
    ChildFails(id, b) \/ Progresses(id, b) \/ Retries(id, b) \/ GivesUp(id, b)

Advance ==
  \/ BeginTick \/ TickLogged \/ TickRollsBack \/ PublishHit \/ PopReady
  \/ \E id \in ActionId : Decide(id) \/ ExecuteReady(id)

Next == Advance \/ \E id \in ActionId : Submit(id) \/ Cancel(id)

Spec == Init /\ [][Next]_vars

\* The host keeps advancing the tick.
FairSpec == Spec /\ WF_vars(Advance)

-----------------------------------------------------------------------------
(* Types.                                                                  *)

\* Every variable has its type, and what advance() holds between its steps is
\* empty outside them: copies and undecided entries, all of them long actions
\* still in the queue, while it decides; popped entries while it executes.
TypeOK ==
  /\ tick \in Nat /\ counter \in Nat
  /\ act \in [ActionId -> ActionRecord]
  /\ queue \in QueueMap /\ ready \in QueueMap
  /\ cell \in CellMap /\ effects \in EffectMap /\ image \in Image
  /\ pc \in {"idle", "decide", "publish", "execute"}
  /\ todo \subseteq Long(queue) /\ hits \in Seq(Hit)
  /\ before \in Copies \cup {None}
  /\ pc = "decide" <=> before # None
  /\ pc # "decide" => todo = {}
  /\ pc \in {"idle", "execute"} => hits = <<>>
  /\ pc # "execute" => ready = Nobody

-----------------------------------------------------------------------------
(* Safety.                                                                 *)

AtMostOneLong(q, ac) ==
  \A x, y \in Long(q) : ac[x].actor = ac[y].actor => x = y

\* submit() refuses a second authored action of an actor, and no retry, tick
\* that is rolled back, interruption or exception ever leaves two in the queue.
OneLongActionPerActor == AtMostOneLong(queue, act)

\* The due tick of an entry always leaves room for the longest route that is
\* still ahead of its phase, retries included: pop_ready() can only hand
\* _execute() a long action whose cursor stands at the terminal phase.
OnlyTerminalExecutes ==
  \A id \in ActionId :
    /\ id \in Long(ready) => ready[id].run.phase = Terminal
    /\ (pc # "decide" /\ id \in Long(queue) /\ queue[id].run.phase # Terminal)
         => queue[id].due > tick

\* What makes the two above inductive, of the state and of the copies a failed
\* batch brings back: an entry in the queue is a scheduled action, popped or
\* queued but never both; its branches are authored ones; its due tick leaves
\* room for the longest route from its phase on; and its next boundary is
\* ahead, or now if it is to be decided.
Scheduled(q, ac) == \A id \in Held(q) : ac[id].status = "scheduled"

OnRoute(q) == {id \in Long(q) : q[id].run.phase # Terminal}

HasRoom(q) ==
  \A id \in OnRoute(q) :
    LET r == q[id].run IN q[id].due + Ticks[r.phase] >= Boundary(r) + Longest[r.phase]

OnBranches(q) ==
  \A id \in Long(q) : \A p \in Phase : q[id].run.branch[p] \in Branches[p] \cup {None}

BoundaryAhead(q, S, t) ==
  \A id \in OnRoute(q) :
    IF id \in S THEN Boundary(q[id].run) = t ELSE Boundary(q[id].run) > t

KernelInv ==
  /\ Scheduled(queue, act) /\ Held(ready) \cap Held(queue) = {}
  /\ AtMostOneLong(queue, act)
  /\ OnBranches(queue) /\ HasRoom(queue)
  /\ BoundaryAhead(queue, todo, tick) /\ todo \subseteq OnRoute(queue)
  /\ \A id \in Long(ready) : ready[id].run.phase = Terminal
  /\ pc = "decide" =>
       /\ Scheduled(before.queue, before.act)
       /\ AtMostOneLong(before.queue, before.act)
       /\ OnBranches(before.queue) /\ HasRoom(before.queue)
       /\ BoundaryAhead(before.queue, {}, before.tick)

\* Between two ticks a fresh runtime that replays the log has the cells, the
\* queue (due ticks, order, cursor, branches, steps, retries) of the live one,
\* and replay() accepts the log.
ReplayFaithful ==
  Idle => /\ image.ok
          /\ image.cell = cell
          /\ image.pending = queue

\* Whatever appends fail, as long as replay() accepts the log: it rebuilds the
\* cells, and nothing the live queue will execute is missing from it.
LoggedWork ==
  (Idle /\ image.ok) =>
    /\ image.cell = cell
    /\ \A id \in Held(queue) : /\ image.pending[id] # None
                               /\ image.pending[id].run = queue[id].run
                               /\ image.pending[id].due = queue[id].due

\* The child of a phase's branch takes effect at most once, however often the
\* gate behind it is retried; the completion effect exactly when the action
\* completed, however often the tick was rolled back.
EffectsOnce ==
  \A id \in ActionId :
    /\ \A p \in Phase : effects[id][p] <= 1
    /\ effects[id][Terminal] = 1 <=> act[id].status = "completed"

\* What makes these two inductive, also of the copies a failed batch brings
\* back: the phases whose child took effect lie behind the cursor of the route,
\* or it is the cursor's and in its steps; an action nobody submitted has had
\* no effect; and the entries of the queue are in the image at every step, also
\* within a tick, as far as replay() accepts the log.
Counted(q, ac, ef) ==
  \A id \in ActionId :
    /\ \A p \in Phase : ef[id][p] <= 1
    /\ ef[id][Terminal] = 1 <=> ac[id].status = "completed"
    /\ ac[id].status = "new" => \A p \in Phase : ef[id][p] = 0
    /\ id \in OnRoute(q) =>
         LET r == q[id].run IN
           \A p \in Phase : ef[id][p] # 0 =>
             \/ p = r.phase /\ \E i \in DOMAIN r.steps : r.steps[i] = p
             \/ Longest[p] > Longest[r.phase]

Recorded(q, c, im) ==
  im.ok => /\ im.cell = c
           /\ \A id \in Held(q) : /\ im.pending[id] # None
                                  /\ im.pending[id].run = q[id].run
                                  /\ im.pending[id].due = q[id].due

\* What a queued route has behind it at tick t.  The phases it visited, from the
\* entry phase to the cursor, come ever closer to the end; each of them but the
\* cursor's was left along its branch, and the cursor's has one exactly while
\* the gate behind it is retried; the steps are the children of those branches.
Travelled(r) ==
  LET v == r.visited
      n == Len(v)
  IN  /\ n > 0 /\ v[1] = Entry /\ v[n] = r.phase
      /\ \A i, j \in 1 .. n : i < j => Longest[v[i]] > Longest[v[j]]
      /\ \A i \in 1 .. n - 1 : r.branch[v[i]] # None /\ r.branch[v[i]].next = v[i + 1]
      /\ \A p \in Phase : r.branch[p] # None => \E i \in 1 .. n : v[i] = p
      /\ r.branch[r.phase] # None <=> r.retry # None
      /\ r.steps = Authored(r)
      /\ \A i \in DOMAIN r.steps :
           \/ r.steps[i] = r.phase /\ r.phase \in Parents(r)
           \/ Longest[r.steps[i]] > Longest[r.phase]
      /\ r.phase \in Parents(r) => \E i \in DOMAIN r.steps : r.steps[i] = r.phase

\* The retry of a gate, within its policy.
Retrying(r) ==
  r.retry # None =>
    LET g == r.retry
        pol == Policy[g.phase]
    IN  /\ g.phase = r.branch[r.phase].next /\ g.phase \in Gated /\ pol # None
        /\ g.attempts \in 1 .. pol.max
        /\ g.timeout = g.first + pol.timeout
        /\ g.first < g.next /\ g.next <= g.timeout

\* When the cursor's phase began and ends.
Timed(e, t) ==
  LET r == e.run IN
  /\ r.phaseDue <= t + Ticks[r.phase]
  /\ r.retry # None => r.phaseDue <= t
  /\ r.phase = Terminal => e.due = r.phaseDue

OnTrack(q, t, n) ==
  /\ \A id \in Long(q) : Travelled(q[id].run) /\ Retrying(q[id].run) /\ Timed(q[id], t)
  /\ \A id \in Held(q) : q[id].order \in 1 .. n

RouteInv ==
  /\ OnTrack(queue, tick, counter)
  /\ pc = "decide" => OnTrack(before.queue, before.tick, counter)

\* When no append fails, a route is executed at the tick its last phase ends.
Punctual ==
  /\ \A id \in Long(queue) : queue[id].run.phase = Terminal =>
       IF Idle \/ pc = "execute" THEN queue[id].due > tick ELSE queue[id].due >= tick
  /\ \A id \in Long(ready) : ready[id].due = tick /\ ready[id].run.phaseDue = tick

\* When besides every queued action has a behavior, the image is the queue, with
\* the entries that are popped and not executed yet.
Mirrored ==
  /\ image.ok /\ image.order = counter
  /\ \A id \in ActionId : image.pending[id] = IF queue[id] # None THEN queue[id] ELSE ready[id]
  /\ \A id \in Held(queue) : queue[id].run # None
  /\ \A id \in Held(ready) : ready[id].run # None
  /\ \A id \in Held(queue) \cup Held(ready) : act[id].verb = "long"

HistoryInv ==
  /\ Scheduled(ready, act)
  /\ Counted(queue, act, effects) /\ Recorded(queue, cell, image)
  /\ pc = "decide" =>
       /\ Counted(before.queue, before.act, before.effects)
       /\ Recorded(before.queue, before.cell, before.image)

-----------------------------------------------------------------------------
(* What a step may never do.                                               *)

Ended == {"completed", "failed", "cancelled", "interrupted"}

\* An action that ended stays ended and has no further effect; only the copies
\* of a tick whose batch could not be appended may bring it back.
EndedStaysEnded ==
  [][ \A id \in ActionId :
        act[id].status \in Ended =>
          \/ act'[id].status = act[id].status /\ effects'[id] = effects[id] /\ queue'[id] = None
          \/ /\ pc = "decide"
             /\ act' = before.act /\ queue' = before.queue /\ cell' = before.cell ]_vars

-----------------------------------------------------------------------------
(* Liveness.                                                               *)

\* A scheduled action does not stay scheduled while the host keeps ticking.
ScheduledEnds ==
  \A id \in ActionId : act[id].status = "scheduled" ~> act[id].status \in Ended

-----------------------------------------------------------------------------
(* What the documentation says and the code does not keep: TLC refutes     *)
(* each of these three when it is put into a run of this specification.    *)

\* "EventLog Replay ... rebuilds the pending queue": an action that is not
\* pending any more is not pending after a replay either.
ReplayRebuildsQueue == (Idle /\ image.ok) => Held(image.pending) \subseteq Held(queue)

\* When action.interrupted cannot be appended the kernel restores queue and
\* registry: no popped action is left scheduled without an entry.
NothingLostOnInterrupt ==
  [][ (/\ pc = "execute" /\ pc' = "idle"
       /\ \E id \in Held(ready) : act'[id].status = "completed")
      => \A id \in Held(ready) : act'[id].status = "scheduled" => queue'[id] # None ]_vars

\* The log the kernel itself wrote replays.
LogReplays == image.ok

=============================================================================
