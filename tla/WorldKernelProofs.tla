------------------------- MODULE WorldKernelProofs -------------------------
(***************************************************************************)
(* Proofs about WorldKernel and KernelSnapshot for every set of actors,    *)
(* actions and phases, every authored graph and policy, and every bound:   *)
(* types, one authored action per actor, routes that are executed only at  *)
(* their terminal phase; effects that happen once and ends that are final, *)
(* whichever appends fail; and, where appends do not fail, a log that      *)
(* replays into the live runtime and snapshots that load_snapshot accepts. *)
(***************************************************************************)
EXTENDS KernelSnapshot, SequenceTheorems, WellFoundedInduction, TLAPS


-----------------------------------------------------------------------------
(* Types of the operators.                                                 *)

\* Every branch of the graph is one.
LEMMA BranchType ==
  ASSUME NEW p \in Phase, NEW b \in Branches[p]
  PROVE  b \in BranchSet
BY GraphAssumption

\* A new route is one.
LEMMA FreshType ==
  ASSUME NEW t \in Nat
  PROVE  Fresh(t) \in Route
BY GraphAssumption DEF Fresh, Route

\* An effect keeps the cells cells.
LEMMA WrittenType ==
  ASSUME NEW c \in CellMap, NEW kind, NEW a \in Actor \cup {None}, NEW t \in Actor \cup {None}
  PROVE  Written(c, kind, a, t) \in CellMap
<1> DEFINE x == Touched(kind, a, t)
<1>1. CASE x \in Actor
  <2> DEFINE v == IF kind = "open" THEN TRUE ELSE IF kind = "long" THEN c[x].value ELSE FALSE
  <2>1. c[x].value \in BOOLEAN /\ c[x].version + 1 \in Nat
    BY <1>1 DEF CellMap
  <2>2. v \in BOOLEAN
    BY <2>1
  <2>3. Written(c, kind, a, t) = [c EXCEPT ![x] = [value |-> v, version |-> c[x].version + 1]]
    BY DEF Written
  <2> HIDE DEF v, x
  <2> QED BY <1>1, <2>1, <2>2, <2>3 DEF CellMap
<1>2. CASE x = None
  BY <1>2, NoneAssumption DEF Written, CellMap
<1> QED BY <1>1, <1>2 DEF Touched

\* The entry of a route that moved on.
LEMMA AdvancedType ==
  ASSUME NEW e \in QueueEntry, e.run # None, NEW b \in BranchSet, NEW t \in Nat
  PROVE  /\ Advanced(e, b, t) \in QueueEntry
         /\ Advanced(e, b, t).run \in Route
<1>1. e.run \in Route
  BY DEF QueueEntry
<1>2. b.next \in Phase
  BY DEF BranchSet
<1>3. Append(e.run.visited, b.next) \in Seq(Phase)
  BY <1>1, <1>2 DEF Route
<1>4. Advanced(e, b, t).run \in Route
  BY SMTT(30), GraphAssumption, <1>1, <1>2, <1>3 DEF Advanced, Route
<1> QED BY GraphAssumption, <1>2, <1>4 DEF Advanced, QueueEntry

\* A branch is selected, a child step is recorded, a retry is recorded.
LEMMA RouteTypes ==
  ASSUME NEW r \in Route
  PROVE  /\ \A b \in BranchSet : Chosen(r, b) \in Route
         /\ \A p \in Phase : StepDone(r, p) \in Route
         /\ \A n \in RetryRecord : [r EXCEPT !.retry = n] \in Route
<1>1. ASSUME NEW b \in BranchSet PROVE Chosen(r, b) \in Route
  <2>1. r.phase \in Phase /\ r.branch \in [Phase -> BranchSet \cup {None}]
    BY DEF Route
  <2>2. [r.branch EXCEPT ![r.phase] = b] \in [Phase -> BranchSet \cup {None}]
    BY <1>1, <2>1
  <2> QED BY <2>2 DEF Chosen, Route
<1>2. ASSUME NEW p \in Phase PROVE StepDone(r, p) \in Route
  <2>1. Append(r.steps, p) \in Seq(Phase)
    BY <1>2 DEF Route
  <2> QED BY <2>1 DEF StepDone, Route
<1>3. ASSUME NEW n \in RetryRecord PROVE [r EXCEPT !.retry = n] \in Route
  BY <1>3 DEF Route
<1> QED BY <1>1, <1>2, <1>3

\* An entry with another route, and one whose gate is tried again later.
LEMMA EntryTypes ==
  ASSUME NEW e \in QueueEntry
  PROVE  /\ \A r \in Route : WithRun(e, r) \in QueueEntry /\ WithRun(e, r).run = r
         /\ \A n \in RetryRecord :
              (e.run # None /\ Policy[n.phase] # None)
                => Postponed(e, n) \in QueueEntry /\ Postponed(e, n).run \in Route
<1>1. ASSUME NEW r \in Route PROVE WithRun(e, r) \in QueueEntry /\ WithRun(e, r).run = r
  BY <1>1 DEF WithRun, QueueEntry
<1>2. ASSUME NEW n \in RetryRecord, e.run # None, Policy[n.phase] # None
      PROVE  Postponed(e, n) \in QueueEntry /\ Postponed(e, n).run \in Route
  <2>1. e.run \in Route
    BY <1>2 DEF QueueEntry
  <2>2. [e.run EXCEPT !.retry = n] \in Route
    BY <1>2, <2>1, RouteTypes
  <2>3. n.phase \in Phase
    BY <1>2 DEF RetryRecord
  <2>4. Policy[n.phase].interval \in Nat
    BY <1>2, <2>3, PolicyAssumption DEF Policies
  <2> QED BY <2>2, <2>4 DEF Postponed, QueueEntry
<1> QED BY <1>1, <1>2

\* Adding and removing entries.
LEMMA MapTypes ==
  ASSUME NEW q \in QueueMap
  PROVE  /\ \A id \in ActionId, e \in QueueEntry : Put(q, id, e) \in QueueMap
         /\ \A S : Drop(q, S) \in QueueMap
         /\ \A id \in ActionId : q[id] # None => q[id] \in QueueEntry
         /\ \A id \in ActionId : (q[id] # None /\ q[id].run # None) => q[id].run \in Route
         /\ Nobody \in QueueMap
<1>1. ASSUME NEW id \in ActionId, NEW e \in QueueEntry PROVE Put(q, id, e) \in QueueMap
  BY <1>1 DEF Put, QueueMap
<1>2. ASSUME NEW S PROVE Drop(q, S) \in QueueMap
  BY <1>2 DEF Drop, QueueMap
<1>3. \A id \in ActionId : q[id] # None => q[id] \in QueueEntry
  BY DEF QueueMap
<1>4. \A id \in ActionId : (q[id] # None /\ q[id].run # None) => q[id].run \in Route
  BY <1>3 DEF QueueEntry
<1>5. Nobody \in QueueMap
  BY DEF Nobody, QueueMap
<1> QED BY <1>1, <1>2, <1>3, <1>4, <1>5

-----------------------------------------------------------------------------
(* Types of the handlers of replay().                                      *)

\* What each change of an image keeps.
LEMMA ImageTypes ==
  ASSUME NEW im \in Image
  PROVE  /\ \A t \in Nat : Seen(im, t) \in Image
         /\ Refuse(im) \in Image
         /\ im.pending \in QueueMap /\ im.order \in Nat
         /\ \A q \in QueueMap : [im EXCEPT !.pending = q] \in Image
         /\ \A c \in CellMap : LogCommit(im, c) \in Image
<1>1. ASSUME NEW t \in Nat PROVE Seen(im, t) \in Image
  BY <1>1 DEF Seen, Image
<1>2. Refuse(im) \in Image
  BY DEF Refuse, Image
<1>3. im.pending \in QueueMap /\ im.order \in Nat
  BY DEF Image
<1>4. ASSUME NEW q \in QueueMap PROVE [im EXCEPT !.pending = q] \in Image
  BY <1>4 DEF Image
<1>5. ASSUME NEW c \in CellMap PROVE LogCommit(im, c) \in Image
  BY <1>5 DEF LogCommit, Image
<1> QED BY <1>1, <1>2, <1>3, <1>4, <1>5

\* What replay() makes of action.scheduled keeps the image an image.
LEMMA LogScheduledType ==
  ASSUME NEW im \in Image, NEW id \in ActionId, NEW due \in Nat,
         NEW r \in Route \cup {None}, NEW t \in Nat
  PROVE  LogScheduled(im, id, due, r, t) \in Image
<1> DEFINE e == [due |-> due, order |-> im.order + 1, run |-> r]
           q == Put(im.pending, id, e)
           new == [pending |-> q, cell |-> im.cell, order |-> im.order + 1,
                   tick |-> im.tick, ok |-> TRUE]
<1>1. e \in QueueEntry
  BY ImageTypes DEF QueueEntry
<1>2. q \in QueueMap
  BY <1>1, ImageTypes, MapTypes
<1>3. LogScheduled(im, id, due, r, t) = IF ~im.ok THEN im ELSE Seen(new, t)
  BY DEF LogScheduled
<1> HIDE DEF q
<1>4. new \in Image
  BY <1>2 DEF Image
<1> HIDE DEF new
<1> QED BY <1>3, <1>4, ImageTypes

\* Replacing the route of a pending entry of an image keeps it one.
LEMMA RerunType ==
  ASSUME NEW im \in Image, NEW id \in ActionId, Routed(im, id), NEW r \in Route
  PROVE  Rerun(im, id, r) \in Image
<1>1. im.pending[id] \in QueueEntry
  BY ImageTypes, MapTypes DEF Routed
<1>2. Put(im.pending, id, WithRun(im.pending[id], r)) \in QueueMap
  BY <1>1, ImageTypes, MapTypes, EntryTypes
<1> QED BY <1>2, ImageTypes DEF Rerun

\* What replay() makes of action.branch_selected keeps the image an image.
LEMMA LogBranchType ==
  ASSUME NEW im \in Image, NEW id \in ActionId, NEW b, NEW t \in Nat
  PROVE  LogBranch(im, id, b, t) \in Image
<1> DEFINE r == im.pending[id].run
<1>1. ASSUME Routed(im, id), b \in Branches[r.phase]
      PROVE  Seen(Rerun(im, id, Chosen(r, b)), t) \in Image
  <2>1. r \in Route
    BY <1>1, ImageTypes, MapTypes DEF Routed
  <2>2. b \in BranchSet
    BY <1>1, <2>1, BranchType DEF Route
  <2> HIDE DEF r
  <2> QED BY <1>1, <2>1, <2>2, RouteTypes, RerunType, ImageTypes
<1> QED BY <1>1, ImageTypes DEF LogBranch

\* What replay() makes of action.child_completed keeps the image an image.
LEMMA LogChildType ==
  ASSUME NEW im \in Image, NEW id \in ActionId, NEW p \in Phase, NEW t \in Nat
  PROVE  LogChild(im, id, p, t) \in Image
<1> DEFINE r == im.pending[id].run
<1>1. ASSUME Routed(im, id)
      PROVE  Seen(Rerun(im, id, StepDone(r, p)), t) \in Image
  <2>1. r \in Route
    BY <1>1, ImageTypes, MapTypes DEF Routed
  <2> HIDE DEF r
  <2> QED BY <1>1, <2>1, RouteTypes, RerunType, ImageTypes
<1> QED BY <1>1, ImageTypes DEF LogChild

\* What replay() makes of action.retry_scheduled keeps the image an image.
LEMMA LogRetryType ==
  ASSUME NEW im \in Image, NEW id \in ActionId, NEW n \in RetryRecord, NEW t \in Nat
  PROVE  LogRetry(im, id, n, t) \in Image
<1> DEFINE e == im.pending[id]
           q == Put(im.pending, id, Postponed(e, n))
<1>1. ASSUME Routed(im, id), Policy[n.phase] # None
      PROVE  Seen([im EXCEPT !.pending = q], t) \in Image
  <2>1. e \in QueueEntry /\ e.run # None
    BY <1>1, ImageTypes, MapTypes DEF Routed
  <2>2. q \in QueueMap
    BY <1>1, <2>1, EntryTypes, ImageTypes, MapTypes
  <2> HIDE DEF q
  <2> QED BY <2>2, ImageTypes
<1> QED BY <1>1, ImageTypes DEF LogRetry

\* What replay() makes of action.progressed keeps the image an image.
LEMMA LogProgressType ==
  ASSUME NEW im \in Image, NEW id \in ActionId, NEW p, NEW b \in BranchSet, NEW t \in Nat
  PROVE  LogProgress(im, id, p, b, t) \in Image
<1> DEFINE e == im.pending[id]
           q == Put(im.pending, id, Advanced(e, b, t))
<1>1. ASSUME Routed(im, id)
      PROVE  Seen([im EXCEPT !.pending = q], t) \in Image
  <2>1. e \in QueueEntry /\ e.run # None
    BY <1>1, ImageTypes, MapTypes DEF Routed
  <2>2. q \in QueueMap
    BY <2>1, AdvancedType, ImageTypes, MapTypes
  <2> HIDE DEF q
  <2> QED BY <2>2, ImageTypes
<1> QED BY <1>1, ImageTypes DEF LogProgress

\* What replay() makes of cancellations and interruptions keeps the image one.
LEMMA LogStopType ==
  ASSUME NEW im \in Image, NEW S, NEW t \in Nat
  PROVE  LogStop(im, S, t) \in Image
<1>1. Seen([im EXCEPT !.pending = Drop(@, S)], t) \in Image
  BY ImageTypes, MapTypes
<1> QED BY <1>1 DEF LogStop

\* What replay() makes of action.completed and action.failed keeps it one.
LEMMA LogEndType ==
  ASSUME NEW im \in Image, NEW id \in ActionId, NEW long, NEW event, NEW t \in Nat
  PROVE  LogEnd(im, id, long, event, t) \in Image
<1>1. Seen([im EXCEPT !.pending = Drop(@, {id})], t) \in Image
  BY ImageTypes, MapTypes
<1> QED BY <1>1, ImageTypes DEF LogEnd

-----------------------------------------------------------------------------
(* Types of the steps.                                                     *)

\* What the invariant says of the variables that describe the world.
WorldType ==
  /\ tick \in Nat /\ counter \in Nat
  /\ act \in [ActionId -> ActionRecord]
  /\ queue \in QueueMap
  /\ cell \in CellMap /\ effects \in EffectMap /\ image \in Image

\* Counting an effect keeps the counts counts.
LEMMA EffectType ==
  ASSUME effects \in EffectMap, NEW id \in ActionId, NEW p \in Phase
  PROVE  Count(id, p) \in EffectMap
<1>1. effects[id] \in [Phase -> Nat]
  BY DEF EffectMap
<1>2. [effects[id] EXCEPT ![p] = @ + 1] \in [Phase -> Nat]
  BY <1>1
<1> QED BY <1>2 DEF Count, EffectMap

\* An action that completes or fails in _execute() keeps its record a record.
LEMMA RecordTypes ==
  ASSUME NEW rec \in ActionRecord
  PROVE  /\ \A s \in Statuses : [rec EXCEPT !.status = s] \in ActionRecord
         /\ rec.actor \in Actor \cup {None} /\ rec.target \in Actor \cup {None}
BY DEF ActionRecord

\* A new status of an action keeps its record a record.
LEMMA StatusType ==
  ASSUME act \in [ActionId -> ActionRecord], NEW rec \in ActionRecord, NEW id \in ActionId
  PROVE  /\ Done(id, rec) \in [ActionId -> ActionRecord]
         /\ Failed(id, rec) \in [ActionId -> ActionRecord]
BY RecordTypes DEF Done, Failed, Statuses

\* Interrupting a set of actions keeps registry, queue and image of their types.
LEMMA InterruptType ==
  ASSUME WorldType, NEW S, NEW ac \in [ActionId -> ActionRecord], NEW im \in Image,
         Interrupt(S, ac, im)
  PROVE  /\ act' \in [ActionId -> ActionRecord]
         /\ queue' \in QueueMap
         /\ image' \in Image
<1>1. act' \in [ActionId -> ActionRecord]
  <2>1. \A q \in ActionId : [ac[q] EXCEPT !.status = "interrupted"] \in ActionRecord
    BY RecordTypes DEF Statuses
  <2> QED BY <2>1 DEF Interrupt
<1>2. queue' \in QueueMap
  BY MapTypes DEF Interrupt, WorldType
<1>3. image' \in Image
  BY LogStopType DEF Interrupt, WorldType
<1> QED BY <1>1, <1>2, <1>3

\* One call of _execute(), whatever becomes of it.
LEMMA ExecuteType ==
  ASSUME WorldType, NEW id \in ActionId, NEW rec \in ActionRecord,
         \/ Completes(id, rec) \/ CompletesAndRaises(id, rec)
         \/ Rejected(id, rec) \/ RollsBack(id, rec),
         UNCHANGED <<tick, counter>>
  PROVE  WorldType'
<1>1. Written(cell, rec.verb, rec.actor, rec.target) \in CellMap
  BY WrittenType, RecordTypes DEF WorldType
<1>2. CommitImage(id, rec) \in Image
  BY <1>1, ImageTypes, LogEndType DEF CommitImage, WorldType
<1>3. Count(id, Terminal) \in EffectMap
  BY EffectType, GraphAssumption DEF WorldType
<1>4. Done(id, rec) \in [ActionId -> ActionRecord] /\ Failed(id, rec) \in [ActionId -> ActionRecord]
  BY StatusType DEF WorldType
<1>5. CASE Completes(id, rec)
  <2>1. cell' \in CellMap /\ effects' \in EffectMap
    BY <1>1, <1>3, <1>5 DEF Completes, Committing
  <2>2. act' \in [ActionId -> ActionRecord] /\ queue' \in QueueMap /\ image' \in Image
    BY <1>2, <1>4, <1>5, InterruptType DEF Completes
  <2> QED BY <2>1, <2>2 DEF WorldType
<1>6. CASE CompletesAndRaises(id, rec)
  BY <1>1, <1>2, <1>3, <1>4, <1>6 DEF CompletesAndRaises, Committing, WorldType
<1>7. CASE Rejected(id, rec)
  <2>1. image' \in Image
    BY <1>7, LogEndType DEF Rejected, WorldType
  <2> QED BY <1>4, <1>7, <2>1 DEF Rejected, WorldType
<1>8. CASE RollsBack(id, rec)
  BY <1>4, <1>8 DEF RollsBack, WorldType
<1> QED BY <1>5, <1>6, <1>7, <1>8

\* A decision at a phase boundary, up to its outcome.
LEMMA SteppedType ==
  ASSUME WorldType, NEW id \in ActionId, id \in Long(queue), NEW b \in BranchSet
  PROVE  /\ Stepped(id, b).entry \in QueueEntry /\ Stepped(id, b).entry.run \in Route
         /\ Stepped(id, b).cell \in CellMap
         /\ Stepped(id, b).image \in Image
         /\ BranchImage(id, b) \in Image
         /\ CommitsChild(id, b) => cell' \in CellMap /\ effects' \in EffectMap
<1> DEFINE r == queue[id].run
           chose == Chosen(r, b)
           after == Written(cell, b.child, act[id].actor, act[id].target)
<1>1. queue[id] \in QueueEntry /\ r \in Route /\ r.phase \in Phase
  BY MapTypes DEF WorldType, Long, Held, Route
<1>2. after \in CellMap
  BY WrittenType, RecordTypes DEF WorldType
<1>3. BranchImage(id, b) \in Image
  BY LogBranchType DEF BranchImage, WorldType
<1>4. LogChild(LogCommit(BranchImage(id, b), after), id, r.phase, tick) \in Image
  BY <1>1, <1>2, <1>3, ImageTypes, LogChildType DEF WorldType
<1>5. chose \in Route /\ StepDone(chose, r.phase) \in Route
  BY <1>1, RouteTypes
<1>6. /\ WithRun(queue[id], chose) \in QueueEntry
      /\ WithRun(queue[id], chose).run \in Route
      /\ WithRun(queue[id], StepDone(chose, r.phase)) \in QueueEntry
      /\ WithRun(queue[id], StepDone(chose, r.phase)).run \in Route
  BY <1>1, <1>5, EntryTypes
<1>7. Count(id, r.phase) \in EffectMap
  BY <1>1, EffectType DEF WorldType
<1>8. Stepped(id, b).cell \in CellMap
  BY <1>2 DEF Stepped, WorldType
<1>9. Stepped(id, b).image \in Image
  BY <1>3, <1>4 DEF Stepped
<1>10. Stepped(id, b).entry \in QueueEntry /\ Stepped(id, b).entry.run \in Route
  BY <1>6 DEF Stepped
<1>11. CommitsChild(id, b) => cell' \in CellMap /\ effects' \in EffectMap
  BY <1>7, <1>8 DEF CommitsChild, WorldType
<1> QED BY <1>3, <1>8, <1>9, <1>10, <1>11

\* What it says of the variables of the loop in advance().
LoopType ==
  /\ ready \in QueueMap
  /\ pc \in {"idle", "decide", "publish", "execute"}
  /\ todo \subseteq Long(queue) /\ hits \in Seq(Hit)
  /\ before \in Copies \cup {None}
  /\ pc = "decide" <=> before # None
  /\ pc # "decide" => todo = {}
  /\ pc \in {"idle", "execute"} => hits = <<>>
  /\ pc # "execute" => ready = Nobody

\* TypeOK is what concerns the world and what concerns advance() itself.
LEMMA TypeParts ==
  /\ TypeOK <=> WorldType /\ LoopType
  /\ TypeOK' <=> WorldType' /\ LoopType'
BY DEF TypeOK, WorldType, LoopType

\* Outside the decisions only the loop's own variables matter.
LEMMA IdleLoopType ==
  ASSUME LoopType, pc # "decide", UNCHANGED loop
  PROVE  LoopType'
BY DEF LoopType, loop

\* A KernelTransactionError leaves advance() with nothing in its hands.
LEMMA UnwindType == Unwind => LoopType'
<1>1. Nobody \in QueueMap
  BY DEF Nobody, QueueMap
<1> QED BY <1>1, NoneAssumption DEF Unwind, LoopType

\* A fresh runtime has its types.
LEMMA InitType == Init => TypeOK
<1> SUFFICES ASSUME Init PROVE TypeOK
  OBVIOUS
<1>1. queue \in QueueMap /\ ready \in QueueMap /\ ready = Nobody
  BY DEF Init, Nobody, QueueMap
<1>2. cell \in CellMap /\ effects \in EffectMap
  BY DEF Init, CellMap, EffectMap
<1>3. image \in Image
  BY <1>1, <1>2 DEF Init, Image
<1>4. act \in [ActionId -> ActionRecord]
  BY DEF Init, ActionRecord, Statuses, NoChild
<1>5. tick \in Nat /\ counter \in Nat
  BY DEF Init
<1>6. LoopType
  BY <1>1 DEF Init, LoopType, Hit
<1> QED BY <1>1, <1>2, <1>3, <1>4, <1>5, <1>6 DEF TypeOK, LoopType

\* The record of a submitted action is one.
LEMMA NewType ==
  ASSUME NEW a \in Actor, NEW t \in Actor, NEW verb \in Kind \cup {"long"}
  PROVE  New(a, t, verb) \in ActionRecord
BY DEF New, ActionRecord, Statuses

\* Scheduling keeps the types, whether action.scheduled can be appended or not.
LEMMA ScheduleType ==
  ASSUME WorldType, NEW id \in ActionId, NEW rec \in ActionRecord, NEW due \in Nat,
         NEW run \in Route \cup {None}, Schedule(id, rec, due, run)
  PROVE  WorldType'
<1>1. [due |-> due, order |-> counter + 1, run |-> run] \in QueueEntry
  BY DEF WorldType, QueueEntry
<1>2. Put(queue, id, [due |-> due, order |-> counter + 1, run |-> run]) \in QueueMap
  BY <1>1, MapTypes DEF WorldType
<1>3. LogScheduled(image, id, due, run, tick) \in Image
  BY LogScheduledType DEF WorldType
<1>4. \A s \in {"scheduled", "parsed"} :
        [act EXCEPT ![id] = [rec EXCEPT !.status = s]] \in [ActionId -> ActionRecord]
  BY RecordTypes DEF WorldType, Statuses
<1>5. act' \in [ActionId -> ActionRecord] /\ queue' \in QueueMap /\ image' \in Image
  BY <1>2, <1>3, <1>4 DEF Schedule, WorldType
<1> QED BY <1>5 DEF Schedule, WorldType, world

\* submit() keeps the types.
LEMMA SubmitType ==
  ASSUME TypeOK, NEW id \in ActionId, Submit(id)
  PROVE  TypeOK'
<1> USE TypeParts
<1>1. PICK a \in Actor, t \in Actor :
        \/ SubmitRefused(id, a, t)
        \/ SubmitLong(id, a, t)
        \/ \E kind \in Kind :
             \/ SubmitNow(id, a, t, kind)
             \/ \E d \in Delays : SubmitDelayed(id, a, t, kind, d)
  BY DEF Submit
<1>2. CASE SubmitRefused(id, a, t)
  <2>1. act' \in [ActionId -> ActionRecord]
    BY <1>2, NewType, StatusType DEF SubmitRefused, WorldType
  <2>2. image' \in Image
    <3>1. LogEnd(image, id, TRUE, "failed", tick) \in Image /\ image \in Image
      BY LogEndType DEF WorldType
    <3> QED BY <1>2, <3>1 DEF SubmitRefused
  <2> QED BY <1>2, <2>1, <2>2, IdleLoopType DEF SubmitRefused, CanSubmit, Idle, WorldType, world
<1>3. CASE SubmitLong(id, a, t)
  <2>1. tick + Longest[Entry] \in Nat /\ Fresh(tick) \in Route
    BY GraphAssumption, FreshType DEF WorldType
  <2>2. WorldType'
    BY <1>3, <2>1, NewType, ScheduleType DEF SubmitLong
  <2> QED BY <1>3, <2>2, IdleLoopType DEF SubmitLong, Schedule, CanSubmit, Idle
<1>4. ASSUME NEW kind \in Kind, SubmitNow(id, a, t, kind)
      PROVE  TypeOK'
  <2>1. WorldType'
    BY <1>4, NewType, ExecuteType DEF SubmitNow
  <2> QED BY <1>4, <2>1, IdleLoopType DEF SubmitNow, CanSubmit, Idle
<1>5. ASSUME NEW kind \in Kind, NEW d \in Delays, SubmitDelayed(id, a, t, kind, d)
      PROVE  TypeOK'
  <2>1. tick + d \in Nat
    BY BoundAssumption DEF WorldType
  <2>2. WorldType'
    BY <1>5, <2>1, NewType, ScheduleType DEF SubmitDelayed
  <2> QED BY <1>5, <2>2, IdleLoopType DEF SubmitDelayed, Schedule, CanSubmit, Idle
<1> QED BY <1>1, <1>2, <1>3, <1>4, <1>5

\* cancel_action() keeps the types.
LEMMA CancelType ==
  ASSUME TypeOK, NEW id \in ActionId, Cancel(id)
  PROVE  TypeOK'
<1> USE TypeParts
<1>1. act' \in [ActionId -> ActionRecord]
  BY RecordTypes DEF Cancel, WorldType, Statuses
<1>2. queue' \in QueueMap /\ image' \in Image
  BY MapTypes, LogStopType DEF Cancel, WorldType
<1> QED BY <1>1, <1>2, IdleLoopType DEF Cancel, Idle, WorldType, world

\* The retry record of a gate that has a policy.
LEMMA NextRetryType ==
  ASSUME tick \in Nat, NEW r \in Route, NEW p \in Phase, Policy[p] # None
  PROVE  NextRetry(r, p) \in RetryRecord /\ NextRetry(r, p).phase = p
<1> DEFINE first == IF r.retry = None THEN tick ELSE r.retry.first
           attempts == IF r.retry = None THEN 1 ELSE r.retry.attempts + 1
           n == NextRetry(r, p)
<1>1. r.retry = None \/ r.retry \in RetryRecord
  BY DEF Route
<1>2. first \in Nat /\ attempts \in Nat
  BY <1>1 DEF RetryRecord
<1>3. Policy[p].timeout \in Nat /\ Policy[p].interval \in Nat
  BY PolicyAssumption DEF Policies
<1>4. n = [phase |-> p, attempts |-> attempts, first |-> first,
           timeout |-> first + Policy[p].timeout, next |-> tick + Policy[p].interval]
  BY DEF NextRetry
<1> HIDE DEF n, first, attempts
<1>5. n \in RetryRecord /\ n.phase = p
  BY <1>2, <1>3, <1>4 DEF RetryRecord
<1> QED BY <1>5 DEF n

\* Of a decision, the entry of the decided action changes and no other.
LEMMA DecidedLoopType ==
  ASSUME LoopType, NEW id \in ActionId, NEW b, Turn(id, b),
         hits' \in Seq(Hit), Long(queue) \ {id} \subseteq Long(queue')
  PROVE  LoopType'
BY DEF LoopType, Turn

\* A decision at a phase boundary keeps the types.
LEMMA DecideType ==
  ASSUME TypeOK, NEW id \in ActionId, Decide(id)
  PROVE  TypeOK'
<1> USE TypeParts
<1>1. PICK b \in BranchSet :
        ChildFails(id, b) \/ Progresses(id, b) \/ Retries(id, b) \/ GivesUp(id, b)
  BY BranchType DEF Decide
<1> DEFINE r == queue[id].run
           e == Stepped(id, b).entry
           n == NextRetry(r, b.next)
<1>2. Turn(id, b)
  BY <1>1 DEF ChildFails, Progresses, Retries, GivesUp
<1>3. id \in Long(queue)
  BY <1>2 DEF Turn, LoopType
<1>4. r \in Route /\ r.phase \in Phase /\ b.next \in Phase
  BY <1>3, MapTypes DEF WorldType, Long, Held, Route, BranchSet
<1>5. [act EXCEPT ![id].status = "failed"] \in [ActionId -> ActionRecord]
  BY RecordTypes DEF WorldType, Statuses
<1>6. /\ e \in QueueEntry /\ e.run \in Route
      /\ Stepped(id, b).image \in Image /\ BranchImage(id, b) \in Image
      /\ CommitsChild(id, b) => cell' \in CellMap /\ effects' \in EffectMap
  BY <1>3, SteppedType
<1> HIDE DEF e, r
<1>7. CommitsChild(id, b) => hits' \in Seq(Hit)
  <2> DEFINE h == Struck(b.child, act[id].actor, act[id].target)
  <2>1. h # None => h \in Actor
    BY RecordTypes DEF WorldType, Struck, Touched
  <2>2. h # None => [target |-> h, cause |-> id] \in Hit
    BY <2>1 DEF Hit
  <2> HIDE DEF h
  <2>3. h # None => Append(hits, [target |-> h, cause |-> id]) \in Seq(Hit)
    BY <2>2 DEF LoopType
  <2> QED BY <2>3 DEF CommitsChild, h, LoopType
<1>8. /\ Long(queue) \ {id} \subseteq Long(Drop(queue, {id}))
      /\ \A x \in QueueEntry : Long(queue) \ {id} \subseteq Long(Put(queue, id, x))
  BY DEF Long, Held, Drop, Put, WorldType, QueueMap
<1>9. tick' = tick /\ counter' = counter
  BY <1>2 DEF Turn
<1>10. CASE ChildFails(id, b)
  <2>1. queue' \in QueueMap /\ image' \in Image /\ act' \in [ActionId -> ActionRecord]
    BY <1>5, <1>6, <1>10, MapTypes, LogEndType DEF ChildFails, WorldType
  <2>2. LoopType'
    BY <1>2, <1>8, <1>10, DecidedLoopType DEF ChildFails, LoopType
  <2> QED BY <1>9, <1>10, <2>1, <2>2 DEF ChildFails, WorldType, world
<1>11. CASE Progresses(id, b)
  <2>1. Advanced(e, b, tick) \in QueueEntry
    BY <1>6, AdvancedType, NoneAssumption DEF WorldType
  <2>2. queue' \in QueueMap /\ image' \in Image
    BY <1>6, <1>11, <2>1, MapTypes, LogProgressType DEF Progresses, WorldType, e
  <2>3. LoopType'
    BY <1>2, <1>7, <1>8, <1>11, <2>1, DecidedLoopType DEF Progresses, e
  <2> QED BY <1>6, <1>9, <1>11, <2>2, <2>3 DEF Progresses, WorldType
<1>12. CASE Retries(id, b)
  <2>1. Policy[b.next] # None /\ Policy[b.next] \in Policies
    BY <1>4, <1>12, PolicyAssumption DEF Retries, MayRetry
  <2>2. n \in RetryRecord /\ n.phase = b.next
    BY <1>4, <2>1, NextRetryType DEF WorldType
  <2> HIDE DEF n
  <2>3. Postponed(e, n) \in QueueEntry
    BY <1>6, <2>1, <2>2, EntryTypes, NoneAssumption
  <2>4. queue' = Put(queue, id, Postponed(e, n))
        /\ image' = LogRetry(Stepped(id, b).image, id, n, tick)
    BY <1>12 DEF Retries, e, n, r
  <2>5. queue' \in QueueMap /\ image' \in Image
    BY <1>6, <2>2, <2>3, <2>4, MapTypes, LogRetryType DEF WorldType
  <2>6. LoopType'
    BY <1>2, <1>7, <1>8, <1>12, <2>3, <2>4, DecidedLoopType DEF Retries
  <2> QED BY <1>6, <1>9, <1>12, <2>5, <2>6 DEF Retries, WorldType
<1>13. CASE GivesUp(id, b)
  <2>1. queue' \in QueueMap /\ image' \in Image /\ act' \in [ActionId -> ActionRecord]
    BY <1>5, <1>6, <1>13, MapTypes, LogEndType DEF GivesUp, WorldType
  <2>2. LoopType'
    BY <1>2, <1>7, <1>8, <1>13, DecidedLoopType DEF GivesUp
  <2> QED BY <1>6, <1>9, <1>13, <2>1, <2>2 DEF GivesUp, WorldType
<1> QED BY <1>1, <1>10, <1>11, <1>12, <1>13

\* Executing a popped action keeps the types.
LEMMA ExecuteReadyType ==
  ASSUME TypeOK, NEW id \in ActionId, ExecuteReady(id)
  PROVE  TypeOK'
<1> USE TypeParts
<1>1. act[id] \in ActionRecord
  BY DEF WorldType
<1>2. WorldType'
  BY <1>1, ExecuteType DEF ExecuteReady
<1>3. CASE Unwind
  BY <1>2, <1>3, UnwindType
<1>4. CASE /\ ready' = Drop(ready, {id})
           /\ pc' = IF Held(ready) = {id} THEN "idle" ELSE "execute"
           /\ UNCHANGED <<todo, hits, before>>
  <2>1. ready' \in QueueMap
    BY <1>4, MapTypes DEF LoopType
  <2>2. Held(ready) = {id} => Drop(ready, {id}) = Nobody
    BY DEF Held, Drop, Nobody
  <2>3. pc = "execute" /\ todo = {} /\ before = None /\ hits = <<>>
    BY DEF ExecuteReady, LoopType
  <2>4. CASE Held(ready) = {id}
    <3>1. pc' = "idle" /\ ready' = Nobody /\ todo' = {} /\ before' = None /\ hits' = <<>>
      BY <1>4, <2>2, <2>3, <2>4
    <3> QED BY <1>2, <2>1, <3>1, NoneAssumption DEF LoopType
  <2>5. CASE Held(ready) # {id}
    <3>1. pc' = "execute" /\ todo' = {} /\ before' = None /\ hits' = <<>>
      BY <1>4, <2>3, <2>5
    <3> QED BY <1>2, <2>1, <3>1 DEF LoopType
  <2> QED BY <2>4, <2>5
<1> QED BY <1>3, <1>4 DEF ExecuteReady

\* Every step of advance() keeps the types.
LEMMA AdvanceType ==
  ASSUME TypeOK, Advance
  PROVE  TypeOK'
<1> USE TypeParts
<1>1. CASE BeginTick
  <2>1. before' \in Copies
    BY <1>1 DEF BeginTick, WorldType, Copies
  <2>2. WorldType'
    BY <1>1 DEF BeginTick, WorldType, world
  <2> QED BY <1>1, <2>1, <2>2, NoneAssumption DEF BeginTick, LoopType, Idle
<1>2. CASE TickLogged
  <2>1. WorldType'
    BY <1>2 DEF TickLogged, WorldType, world
  <2> QED BY <1>2, <2>1 DEF TickLogged, LoopType
<1>3. CASE TickRollsBack
  <2>1. before \in Copies
    BY <1>3 DEF TickRollsBack, LoopType
  <2>2. WorldType'
    BY <1>3, <2>1 DEF TickRollsBack, WorldType, Copies
  <2> QED BY <1>3, <2>2, UnwindType DEF TickRollsBack
<1>4. CASE PublishHit
  <2>1. CASE UNCHANGED <<act, queue, image>>
    <3>1. WorldType'
      BY <1>4, <2>1 DEF PublishHit, WorldType, world
    <3>2. CASE Unwind
      BY <3>1, <3>2, UnwindType
    <3>3. CASE hits' = Tail(hits) /\ UNCHANGED <<pc, todo, ready, before>>
      <4>1. hits' \in Seq(Hit) /\ todo = {} /\ pc = "publish" /\ queue' = queue
        BY <1>4, <2>1, <3>3 DEF PublishHit, LoopType
      <4> QED BY <3>1, <3>3, <4>1 DEF LoopType
    <3> QED BY <1>4, <3>2, <3>3 DEF PublishHit
  <2>2. ASSUME NEW S, Interrupt(S, act, image), hits' = Tail(hits),
               UNCHANGED <<pc, todo, ready, before>>
        PROVE  TypeOK'
    <3>1. act \in [ActionId -> ActionRecord] /\ image \in Image
      BY DEF WorldType
    <3>2. act' \in [ActionId -> ActionRecord] /\ queue' \in QueueMap /\ image' \in Image
      BY <2>2, <3>1, InterruptType
    <3>3. WorldType'
      BY <1>4, <3>2 DEF PublishHit, WorldType, world
    <3>4. hits' \in Seq(Hit) /\ todo = {} /\ pc = "publish"
      BY <1>4, <2>2 DEF PublishHit, LoopType
    <3> QED BY <2>2, <3>3, <3>4 DEF LoopType
  <2> QED BY <1>4, <2>1, <2>2 DEF PublishHit
<1>5. CASE PopReady
  <2> DEFINE due == {id \in Held(queue) : queue[id].due <= tick}
             out == [id \in ActionId |-> IF id \in due THEN queue[id] ELSE None]
  <2>1. queue' \in QueueMap
    BY <1>5, MapTypes DEF PopReady, WorldType
  <2>2. out \in QueueMap
    BY DEF WorldType, QueueMap
  <2>3. due = {} => out = Nobody
    BY DEF Nobody
  <2>4. WorldType'
    BY <1>5, <2>1 DEF PopReady, WorldType, world
  <2>5. ready' = out /\ pc' = (IF due = {} THEN "idle" ELSE "execute")
        /\ UNCHANGED <<todo, hits, before>> /\ hits = <<>> /\ todo = {} /\ before = None
    BY <1>5 DEF PopReady, LoopType
  <2> HIDE DEF due, out
  <2> QED BY <2>2, <2>3, <2>4, <2>5, NoneAssumption DEF LoopType
<1>6. ASSUME NEW id \in ActionId, Decide(id) \/ ExecuteReady(id)
      PROVE  TypeOK'
  BY <1>6, DecideType, ExecuteReadyType
<1> QED BY <1>1, <1>2, <1>3, <1>4, <1>5, <1>6 DEF Advance

\* Every step of the kernel keeps the types.
LEMMA TypeStep == TypeOK /\ [Next]_vars => TypeOK'
<1> SUFFICES ASSUME TypeOK, [Next]_vars PROVE TypeOK'
  OBVIOUS
<1>1. CASE Advance
  BY <1>1, AdvanceType
<1>2. ASSUME NEW id \in ActionId, Submit(id) \/ Cancel(id) PROVE TypeOK'
  BY <1>2, SubmitType, CancelType
<1>3. CASE UNCHANGED vars
  <2>1. WorldType' /\ LoopType'
    BY <1>3, TypeParts DEF vars, WorldType, LoopType
  <2> QED BY <2>1, TypeParts
<1> QED BY <1>1, <1>2, <1>3 DEF Next

\* Every variable keeps its type, and what advance() holds between two of its
\* steps is gone once it is over, also when an append fails in the middle.
THEOREM Typing == Spec => []TypeOK
BY InitType, TypeStep, PTL DEF Spec

-----------------------------------------------------------------------------
(* The inductive invariant of the queue, in three parts.                   *)

QueueInv ==
  /\ Scheduled(queue, act) /\ AtMostOneLong(queue, act)
  /\ OnBranches(queue) /\ HasRoom(queue)
  /\ BoundaryAhead(queue, todo, tick) /\ todo \subseteq OnRoute(queue)

ReadyInv ==
  /\ Held(ready) \cap Held(queue) = {}
  /\ \A id \in Long(ready) : ready[id].run.phase = Terminal

CopiesInv ==
  pc = "decide" =>
    /\ Scheduled(before.queue, before.act)
    /\ AtMostOneLong(before.queue, before.act)
    /\ OnBranches(before.queue) /\ HasRoom(before.queue)
    /\ BoundaryAhead(before.queue, {}, before.tick)

\* KernelInv is what concerns the queue and what concerns advance()'s copies.
LEMMA InvParts ==
  /\ KernelInv <=> QueueInv /\ ReadyInv /\ CopiesInv
  /\ KernelInv' <=> QueueInv' /\ ReadyInv' /\ CopiesInv'
BY DEF KernelInv, QueueInv, ReadyInv, CopiesInv

\* A step that only takes entries out of the queue, and touches the records of
\* actions that are not in it, keeps the invariant of the queue.
LEMMA QueueShrinks ==
  ASSUME QueueInv,
         \A x \in Held(queue') : /\ x \in Held(queue) /\ queue'[x] = queue[x]
                                 /\ act'[x].status = act[x].status
                                 /\ act'[x].actor = act[x].actor,
         tick' = tick,
         todo' \subseteq todo,
         todo \cap Held(queue') = todo'
  PROVE  QueueInv'
<1>1. Long(queue') \subseteq Long(queue) /\ OnRoute(queue') \subseteq OnRoute(queue)
  BY DEF Long, Held, OnRoute
<1>2. Long(queue') \subseteq Held(queue') /\ OnRoute(queue') \subseteq Held(queue')
  BY DEF Long, OnRoute, Held
<1>3. Scheduled(queue', act')
  BY DEF QueueInv, Scheduled
<1>4. AtMostOneLong(queue', act')
  BY <1>1, <1>2 DEF QueueInv, AtMostOneLong
<1>5. HasRoom(queue')
  BY <1>1, <1>2 DEF QueueInv, HasRoom
<1>6. BoundaryAhead(queue', todo', tick')
  BY <1>1, <1>2 DEF QueueInv, BoundaryAhead
<1>7. todo' \subseteq OnRoute(queue')
  BY DEF QueueInv, OnRoute, Long, Held
<1>8. OnBranches(queue')
  BY <1>1, <1>2 DEF QueueInv, OnBranches
<1> QED BY <1>3, <1>4, <1>5, <1>6, <1>7, <1>8 DEF QueueInv

\* A step that gives one entry of the tick its next boundary keeps it too.
LEMMA EntryMoves ==
  ASSUME TypeOK, QueueInv, NEW id \in todo, NEW x \in QueueEntry, x.run \in Route,
         queue' = Put(queue, id, x), act' = act, tick' = tick, todo' = todo \ {id},
         \A p \in Phase : x.run.branch[p] \in Branches[p] \cup {None},
         x.run.phase # Terminal =>
           /\ x.due + Ticks[x.run.phase] >= Boundary(x.run) + Longest[x.run.phase]
           /\ Boundary(x.run) > tick
  PROVE  QueueInv'
<1>1. id \in ActionId /\ id \in Long(queue) /\ queue \in QueueMap
  BY DEF TypeOK, Long, Held
<1>2. x # None /\ x.run # None
  BY NoneAssumption
<1>3. /\ queue'[id] = x
      /\ \A y \in ActionId \ {id} : queue'[y] = queue[y]
  BY <1>1 DEF Put, QueueMap
<1>4. Held(queue') = Held(queue) /\ Long(queue') = Long(queue)
  BY <1>1, <1>2, <1>3 DEF Held, Long
<1>5. OnRoute(queue') \ {id} = OnRoute(queue) \ {id}
  BY <1>3, <1>4 DEF OnRoute, Long, Held
<1>6. \A y \in OnRoute(queue') : y \in ActionId
  BY DEF OnRoute, Long, Held
<1>7. Scheduled(queue', act') /\ AtMostOneLong(queue', act')
  BY <1>4 DEF QueueInv, Scheduled, AtMostOneLong
<1>8. HasRoom(queue')
  BY <1>3, <1>5, <1>6 DEF QueueInv, HasRoom, OnRoute
<1>9. BoundaryAhead(queue', todo', tick')
  BY <1>3, <1>5, <1>6 DEF QueueInv, BoundaryAhead, OnRoute
<1>10. todo' \subseteq OnRoute(queue')
  BY <1>5 DEF QueueInv
<1>11. OnBranches(queue')
  <2>1. \A y \in Long(queue') : y \in ActionId
    BY DEF Long, Held
  <2> QED BY <1>3, <1>4, <2>1 DEF QueueInv, OnBranches
<1> QED BY <1>7, <1>8, <1>9, <1>10, <1>11 DEF QueueInv

\* An entry that is scheduled on an idle kernel keeps it.
LEMMA EntryJoins ==
  ASSUME TypeOK, QueueInv, NEW id \in ActionId, NEW x \in QueueEntry, x.run = None \/ x.run \in Route,
         act[id].status = "new", todo = {},
         queue' = Put(queue, id, x), tick' = tick, todo' = todo,
         act'[id].status = "scheduled",
         \A y \in ActionId \ {id} : act'[y] = act[y],
         x.run # None =>
           /\ ~Occupied(act'[id].actor)
           /\ \A p \in Phase : x.run.branch[p] = None
           /\ x.due + Ticks[x.run.phase] >= Boundary(x.run) + Longest[x.run.phase]
           /\ Boundary(x.run) > tick
  PROVE  QueueInv'
<1>1. queue \in QueueMap /\ id \notin Held(queue)
  BY DEF TypeOK, QueueInv, Scheduled
<1>2. x # None
  BY NoneAssumption
<1>3. /\ queue'[id] = x
      /\ \A y \in ActionId \ {id} : queue'[y] = queue[y]
  BY <1>1 DEF Put, QueueMap
<1>4. /\ Held(queue') = Held(queue) \cup {id}
      /\ Long(queue') \ {id} = Long(queue)
      /\ OnRoute(queue') \ {id} = OnRoute(queue)
      /\ \A y \in Held(queue') : y \in ActionId
  BY <1>1, <1>2, <1>3 DEF Held, Long, OnRoute
<1>5. /\ Long(queue') \subseteq Held(queue') /\ OnRoute(queue') \subseteq Held(queue')
      /\ id \in Long(queue') \/ id \in OnRoute(queue') => x.run # None
  BY <1>3 DEF Long, OnRoute, Held
<1>6. Scheduled(queue', act')
  BY <1>1, <1>4 DEF QueueInv, Scheduled
<1>7. AtMostOneLong(queue', act')
  BY <1>1, <1>4, <1>5 DEF QueueInv, AtMostOneLong, Occupied
<1>8. HasRoom(queue')
  BY <1>3, <1>4, <1>5 DEF QueueInv, HasRoom
<1>9. BoundaryAhead(queue', todo', tick')
  BY <1>3, <1>4, <1>5 DEF QueueInv, BoundaryAhead
<1>10. todo' \subseteq OnRoute(queue')
  OBVIOUS
<1>11. OnBranches(queue')
  BY <1>3, <1>4, <1>5 DEF QueueInv, OnBranches
<1> QED BY <1>6, <1>7, <1>8, <1>9, <1>10, <1>11 DEF QueueInv

\* _execute() of an action that is not in the queue.
LEMMA ExecuteQueue ==
  ASSUME TypeOK, QueueInv, todo = {}, NEW id \in ActionId, id \notin Held(queue),
         NEW rec \in ActionRecord,
         \/ Completes(id, rec) \/ CompletesAndRaises(id, rec)
         \/ Rejected(id, rec) \/ RollsBack(id, rec),
         tick' = tick, todo' = {}
  PROVE  QueueInv' /\ Held(queue') \subseteq Held(queue)
<1>1. ASSUME NEW S, queue' = Drop(queue, S), NEW ac,
             ac \in {Done(id, rec), Failed(id, rec)},
             \A x \in ActionId \ S : act'[x] = ac[x]
      PROVE  QueueInv' /\ Held(queue') \subseteq Held(queue)
  <2>1. \A x \in Held(queue') : x \in ActionId \ S /\ x \in Held(queue) /\ queue'[x] = queue[x]
    BY <1>1 DEF Held, Drop
  <2>2. \A x \in ActionId \ {id} : ac[x] = act[x]
    BY <1>1 DEF Done, Failed, TypeOK
  <2>3. \A x \in Held(queue') : act'[x] = act[x]
    BY <1>1, <2>1, <2>2
  <2> QED BY <2>1, <2>3, QueueShrinks
<1>2. Drop(queue, {}) = queue
  BY DEF Drop, TypeOK, QueueMap
<1>3. CASE Completes(id, rec)
  BY <1>1, <1>3 DEF Completes, Interrupt
<1>4. CASE CompletesAndRaises(id, rec)
  BY <1>1, <1>2, <1>4 DEF CompletesAndRaises
<1>5. CASE Rejected(id, rec)
  BY <1>1, <1>2, <1>5 DEF Rejected
<1>6. CASE RollsBack(id, rec)
  BY <1>1, <1>2, <1>6 DEF RollsBack
<1> QED BY <1>3, <1>4, <1>5, <1>6

\* The entry of a decision is the queued one but for a branch and a step.
LEMMA SteppedEntry ==
  ASSUME TypeOK, QueueInv, NEW id \in todo, NEW b, Turn(id, b)
  PROVE  LET r == queue[id].run
             e == Stepped(id, b).entry
         IN  /\ b \in Branches[r.phase] /\ b \in BranchSet /\ b.next \in Phase
             /\ r \in Route /\ r.phase \in Phase /\ r.phase # Terminal
             /\ e \in QueueEntry /\ e.run \in Route
             /\ e.due = queue[id].due /\ e.run.phase = r.phase
             /\ e.run.phaseDue = r.phaseDue /\ e.run.retry = r.retry
             /\ \A p \in Phase : e.run.branch[p] \in Branches[p] \cup {None}
<1> DEFINE r == queue[id].run
           e == Stepped(id, b).entry
<1>1. id \in OnRoute(queue) /\ id \in Long(queue) /\ id \in ActionId /\ queue[id] # None
      /\ r # None /\ r.phase # Terminal
  BY DEF QueueInv, OnRoute, Long, Held
<1>2. queue[id] \in QueueEntry /\ r \in Route
  BY <1>1, MapTypes DEF TypeOK
<1>3. r.phase \in Phase /\ r.branch \in [Phase -> BranchSet \cup {None}]
  BY <1>2 DEF Route
<1>4. \A p \in Phase : r.branch[p] \in Branches[p] \cup {None}
  BY <1>1 DEF QueueInv, OnBranches
<1>5. b \in Branches[r.phase]
  BY <1>3, <1>4 DEF Turn, Takes
<1>6. b \in BranchSet
  BY <1>3, <1>5, BranchType
<1>7. e \in QueueEntry /\ e.run \in Route
  BY <1>1, <1>6, SteppedType, TypeParts
<1> DEFINE c == Chosen(r, b)
<1>8. /\ c \in Route /\ c.phase = r.phase /\ c.phaseDue = r.phaseDue /\ c.retry = r.retry
      /\ c.branch = [r.branch EXCEPT ![r.phase] = b]
  BY <1>2, <1>6, RouteTypes DEF Chosen, Route
<1>9. \A p \in Phase : c.branch[p] \in Branches[p] \cup {None}
  BY <1>3, <1>4, <1>5, <1>8
<1>10. LET d == StepDone(c, r.phase)
       IN  /\ d.phase = r.phase /\ d.phaseDue = r.phaseDue /\ d.retry = r.retry
           /\ d.branch = c.branch
  BY <1>8 DEF StepDone, Route
<1>11. \A x : WithRun(queue[id], x).due = queue[id].due /\ WithRun(queue[id], x).run = x
  BY <1>2 DEF WithRun, QueueEntry
<1>12. e = WithRun(queue[id], c) \/ e = WithRun(queue[id], StepDone(c, r.phase))
  BY DEF Stepped
<1> HIDE DEF e, c, r
<1>13. /\ e.due = queue[id].due /\ e.run.phase = r.phase
       /\ e.run.phaseDue = r.phaseDue /\ e.run.retry = r.retry /\ e.run.branch = c.branch
  BY <1>8, <1>10, <1>11, <1>12
<1>14. b.next \in Phase
  BY <1>6 DEF BranchSet
<1> QED BY <1>1, <1>2, <1>3, <1>5, <1>6, <1>7, <1>9, <1>13, <1>14 DEF e, r

\* A decision at a phase boundary keeps the invariant of the queue.
LEMMA DecideQueue ==
  ASSUME TypeOK, QueueInv, NEW id \in ActionId, Decide(id)
  PROVE  QueueInv' /\ Held(queue') \subseteq Held(queue)
<1>1. PICK b : ChildFails(id, b) \/ Progresses(id, b) \/ Retries(id, b) \/ GivesUp(id, b)
  BY DEF Decide
<1> DEFINE r == queue[id].run
           e == Stepped(id, b).entry
<1>2. Turn(id, b) /\ id \in todo /\ tick' = tick /\ todo' = todo \ {id}
  BY <1>1 DEF ChildFails, Progresses, Retries, GivesUp, Turn
<1>3. /\ b \in Branches[r.phase] /\ b \in BranchSet /\ b.next \in Phase
      /\ r \in Route /\ r.phase \in Phase /\ r.phase # Terminal
      /\ e \in QueueEntry /\ e.run \in Route
      /\ e.due = queue[id].due /\ e.run.phase = r.phase
      /\ e.run.phaseDue = r.phaseDue /\ e.run.retry = r.retry
      /\ \A p \in Phase : e.run.branch[p] \in Branches[p] \cup {None}
  BY <1>2, SteppedEntry
<1>4. Boundary(r) = tick /\ queue[id].due + Ticks[r.phase] >= tick + Longest[r.phase]
  BY <1>2 DEF QueueInv, HasRoom, BoundaryAhead
<1>5. tick \in Nat /\ queue[id].due \in Nat /\ e.due \in Nat
  BY <1>3 DEF TypeOK, QueueEntry
<1>6. /\ Ticks[r.phase] \in Nat \ {0} /\ Longest[r.phase] \in Nat
      /\ Ticks[b.next] \in Nat \ {0} /\ Longest[b.next] \in Nat
      /\ Longest[r.phase] >= Ticks[r.phase] + Longest[b.next]
  BY <1>3, GraphAssumption
<1>7. CASE /\ queue' = Drop(queue, {id})
           /\ act' = [act EXCEPT ![id].status = "failed"]
  <2>1. \A x \in Held(queue') : x # id /\ x \in Held(queue) /\ queue'[x] = queue[x]
    BY <1>7 DEF Held, Drop
  <2>2. \A x \in Held(queue') : act'[x] = act[x]
    BY <1>7, <2>1 DEF TypeOK, Held
  <2>3. todo \cap Held(queue') = todo'
    BY <1>2, <1>7 DEF QueueInv, OnRoute, Long, Held, Drop
  <2> QED BY <1>2, <2>1, <2>2, <2>3, QueueShrinks
<1> HIDE DEF e, r
<1>8. CASE Progresses(id, b)
  <2> DEFINE x == Advanced(e, b, tick)
  <2>1. x \in QueueEntry /\ x.run \in Route
    BY <1>3, <1>5, AdvancedType, NoneAssumption
  <2>2. /\ x.run.phase = b.next /\ x.run.retry = None /\ x.run.phaseDue = tick + Ticks[b.next]
        /\ x.run.branch = e.run.branch
        /\ b.next # Terminal => x.due = queue[id].due
    BY <1>3 DEF Advanced
  <2>3. Boundary(x.run) = tick + Ticks[b.next]
    BY <2>2 DEF Boundary
  <2>4. queue' = Put(queue, id, x) /\ act' = act
    BY <1>8 DEF Progresses, e
  <2> HIDE DEF x
  <2>5. b.next # Terminal =>
          /\ x.due + Ticks[b.next] >= Boundary(x.run) + Longest[b.next]
          /\ Boundary(x.run) > tick
    BY <1>4, <1>5, <1>6, <2>2, <2>3
  <2>6. QueueInv'
    BY <1>2, <1>3, <2>1, <2>2, <2>4, <2>5, EntryMoves
  <2> QED BY <2>4, <2>6, <1>2 DEF Put, Held, TypeOK, QueueMap, QueueInv, OnRoute, Long
<1>9. CASE Retries(id, b)
  <2> DEFINE n == NextRetry(r, b.next)
             x == Postponed(e, n)
  <2>1. Policy[b.next] # None /\ Policy[b.next] \in Policies
    BY <1>3, <1>9, PolicyAssumption DEF Retries, MayRetry, r
  <2>2. Policy[b.next].interval \in Nat \ {0}
    BY <2>1 DEF Policies
  <2>3. n.phase = b.next /\ n.next = tick + Policy[b.next].interval
    BY DEF NextRetry
  <2>4. n \in RetryRecord /\ n # None
    BY <1>3, <1>5, <2>1, NextRetryType, NoneAssumption
  <2>5. queue' = Put(queue, id, x) /\ act' = act
    BY <1>9 DEF Retries, e, r
  <2> HIDE DEF n
  <2>6. x \in QueueEntry /\ x.run \in Route
    BY <1>3, <2>1, <2>3, <2>4, EntryTypes, NoneAssumption
  <2>7. [e.run EXCEPT !.retry = n].retry = n
        /\ [e.run EXCEPT !.retry = n].phase = e.run.phase
        /\ [e.run EXCEPT !.retry = n].branch = e.run.branch
    BY <1>3 DEF Route
  <2>8. /\ x.run.retry = n /\ x.run.phase = r.phase /\ x.run.branch = e.run.branch
        /\ x.due = queue[id].due + Policy[b.next].interval
    BY <1>3, <2>3, <2>7 DEF Postponed
  <2>9. Boundary(x.run) = tick + Policy[b.next].interval
    BY <2>3, <2>4, <2>8 DEF Boundary
  <2> HIDE DEF x
  <2>10. /\ x.due + Ticks[r.phase] >= Boundary(x.run) + Longest[r.phase]
         /\ Boundary(x.run) > tick
    BY <1>4, <1>5, <1>6, <2>2, <2>8, <2>9
  <2>11. QueueInv'
    BY <1>2, <1>3, <2>5, <2>6, <2>8, <2>10, EntryMoves
  <2> QED BY <2>5, <2>11, <1>2 DEF Put, Held, TypeOK, QueueMap, QueueInv, OnRoute, Long
<1>10. CASE ChildFails(id, b) \/ GivesUp(id, b)
  BY <1>7, <1>10 DEF ChildFails, GivesUp, Held, Drop
<1> QED BY <1>1, <1>8, <1>9, <1>10

-----------------------------------------------------------------------------
(* The inductive invariant.                                                *)

\* A fresh runtime has the invariant.
LEMMA InitInv == Init => KernelInv
<1> SUFFICES ASSUME Init PROVE KernelInv
  OBVIOUS
<1>1. Held(queue) = {} /\ Held(ready) = {} /\ Long(queue) = {} /\ Long(ready) = {}
  BY DEF Init, Nobody, Held, Long
<1> QED BY <1>1 DEF Init, KernelInv, Scheduled, AtMostOneLong, OnBranches, HasRoom,
                    BoundaryAhead, OnRoute

\* A step between two ticks leaves nothing popped and no copies.
LEMMA IdleInv ==
  ASSUME TypeOK, pc = "idle", UNCHANGED loop
  PROVE  ReadyInv' /\ CopiesInv'
<1>1. ready' = Nobody /\ pc' = "idle"
  BY DEF TypeOK, loop
<1>2. Held(ready') = {} /\ Long(ready') = {}
  BY <1>1 DEF Held, Long, Nobody
<1> QED BY <1>1, <1>2 DEF ReadyInv, CopiesInv

\* submit() keeps the invariant.
LEMMA SubmitInv ==
  ASSUME TypeOK, QueueInv, NEW id \in ActionId, Submit(id)
  PROVE  QueueInv' /\ ReadyInv' /\ CopiesInv'
<1>1. PICK a \in Actor, t \in Actor :
        \/ SubmitRefused(id, a, t)
        \/ SubmitLong(id, a, t)
        \/ \E kind \in Kind :
             \/ SubmitNow(id, a, t, kind)
             \/ \E d \in Delays : SubmitDelayed(id, a, t, kind, d)
  BY DEF Submit
<1>2. CanSubmit(id) /\ UNCHANGED loop /\ tick' = tick
  BY <1>1 DEF SubmitRefused, SubmitLong, SubmitNow, SubmitDelayed, Schedule
<1>3. /\ pc = "idle" /\ todo = {} /\ todo' = {} /\ act[id].status = "new"
      /\ id \notin Held(queue) /\ queue \in QueueMap /\ act \in [ActionId -> ActionRecord]
  BY <1>2 DEF CanSubmit, Idle, TypeOK, loop, QueueInv, Scheduled
<1>4. ReadyInv' /\ CopiesInv'
  BY <1>2, <1>3, IdleInv
\* Only the record of the new action changes.
<1>5. ASSUME queue' = queue, \A y \in ActionId \ {id} : act'[y] = act[y]
      PROVE  QueueInv'
  <2>1. \A x \in Held(queue') : x \in ActionId \ {id} /\ x \in Held(queue)
    BY <1>3, <1>5 DEF Held
  <2> QED BY <1>2, <1>3, <1>5, <2>1, QueueShrinks
<1>6. CASE SubmitRefused(id, a, t)
  BY <1>3, <1>4, <1>5, <1>6 DEF SubmitRefused, Failed
<1>7. ASSUME NEW rec, NEW due \in Nat, NEW run \in Route \cup {None}, Schedule(id, rec, due, run),
             rec \in ActionRecord,
             run # None =>
               /\ ~Occupied(rec.actor)
               /\ \A p \in Phase : run.branch[p] = None
               /\ due + Ticks[run.phase] >= Boundary(run) + Longest[run.phase]
               /\ Boundary(run) > tick
      PROVE  QueueInv'
  <2> DEFINE x == [due |-> due, order |-> counter + 1, run |-> run]
             new == [rec EXCEPT !.status = "scheduled"]
  <2>1. x \in QueueEntry /\ x.run = run /\ x.due = due
    BY <1>7 DEF QueueEntry, TypeOK
  <2>2. new.status = "scheduled" /\ new.actor = rec.actor
    BY <1>7 DEF ActionRecord
  <2> HIDE DEF x, new
  <2>3. CASE queue' = queue
    BY <1>3, <1>5, <1>7, <2>3 DEF Schedule
  <2>4. CASE queue' = Put(queue, id, x) /\ act' = [act EXCEPT ![id] = new]
    <3>1. act'[id] = new /\ \A y \in ActionId \ {id} : act'[y] = act[y]
      BY <1>3, <2>4
    <3>2. x.run # None =>
            /\ ~Occupied(act'[id].actor)
            /\ \A p \in Phase : x.run.branch[p] = None
            /\ x.due + Ticks[x.run.phase] >= Boundary(x.run) + Longest[x.run.phase]
            /\ Boundary(x.run) > tick
      BY <1>7, <2>1, <2>2, <3>1
    <3> QED BY <1>2, <1>3, <1>7, <2>1, <2>2, <2>4, <3>1, <3>2, EntryJoins
  <2> QED BY <1>7, <2>3, <2>4 DEF Schedule, x, new
<1>8. CASE SubmitLong(id, a, t)
  <2>1. /\ Fresh(tick).phase = Entry /\ Boundary(Fresh(tick)) = tick + Ticks[Entry]
        /\ \A p \in Phase : Fresh(tick).branch[p] = None
    BY DEF Fresh, Boundary
  <2>2. /\ tick \in Nat /\ Ticks[Entry] \in Nat \ {0} /\ Longest[Entry] \in Nat
        /\ Fresh(tick) \in Route
    BY GraphAssumption, FreshType DEF TypeOK
  <2>3. New(a, t, "long") \in ActionRecord /\ New(a, t, "long").actor = a
    BY NewType DEF New
  <2> HIDE DEF Fresh
  <2>4. /\ (tick + Longest[Entry]) + Ticks[Fresh(tick).phase]
             >= Boundary(Fresh(tick)) + Longest[Fresh(tick).phase]
        /\ Boundary(Fresh(tick)) > tick
        /\ tick + Longest[Entry] \in Nat
    BY <2>1, <2>2
  <2> QED BY <1>4, <1>7, <1>8, <2>1, <2>2, <2>3, <2>4 DEF SubmitLong
<1>9. ASSUME NEW kind \in Kind, NEW d \in Delays, SubmitDelayed(id, a, t, kind, d)
      PROVE  QueueInv'
  <2>1. tick + d \in Nat
    BY BoundAssumption DEF TypeOK
  <2>2. New(a, t, kind) \in ActionRecord
    BY NewType
  <2>3. Schedule(id, New(a, t, kind), tick + d, None)
    BY <1>9 DEF SubmitDelayed
  <2> QED BY <1>7, <2>1, <2>2, <2>3
<1>10. ASSUME NEW kind \in Kind, SubmitNow(id, a, t, kind)
       PROVE  QueueInv'
  <2> DEFINE rec == New(a, t, kind)
  <2>1. rec \in ActionRecord
    BY NewType
  <2>2. \/ Completes(id, rec) \/ CompletesAndRaises(id, rec)
        \/ Rejected(id, rec) \/ RollsBack(id, rec)
    BY <1>10 DEF SubmitNow
  <2> HIDE DEF rec
  <2> QED BY <1>2, <1>3, <2>1, <2>2, ExecuteQueue
<1> QED BY <1>1, <1>4, <1>6, <1>8, <1>9, <1>10

\* cancel_action() keeps the invariant.
LEMMA CancelInv ==
  ASSUME TypeOK, QueueInv, NEW id \in ActionId, Cancel(id)
  PROVE  QueueInv' /\ ReadyInv' /\ CopiesInv'
<1>1. pc = "idle" /\ UNCHANGED loop /\ tick' = tick
  BY DEF Cancel, Idle
<1>2. todo = {} /\ todo' = {}
  BY <1>1 DEF TypeOK, loop
<1>3. \A x \in Held(queue') : x \in Held(queue) /\ x # id /\ x \in ActionId /\ queue'[x] = queue[x]
  BY DEF Cancel, Held, Drop
<1>4. \A x \in Held(queue') : act'[x] = act[x]
  BY <1>3 DEF Cancel, TypeOK
<1>5. QueueInv'
  BY <1>1, <1>2, <1>3, <1>4, QueueShrinks
<1> QED BY <1>1, <1>5, IdleInv

\* The boundary of a route is a tick.
LEMMA BoundaryType ==
  ASSUME NEW r \in Route
  PROVE  Boundary(r) \in Nat
BY DEF Boundary, Route, RetryRecord

\* What stands before its terminal phase is due later than now.
LEMMA DueAhead ==
  ASSUME TypeOK, QueueInv, todo = {}
  PROVE  \A id \in OnRoute(queue) : queue[id].due > tick
<1> SUFFICES ASSUME NEW id \in OnRoute(queue) PROVE queue[id].due > tick
  OBVIOUS
<1> DEFINE r == queue[id].run
<1>1. id \in ActionId /\ queue[id] # None /\ r # None /\ r.phase # Terminal
  BY DEF OnRoute, Long, Held
<1>2. queue[id] \in QueueEntry /\ r \in Route
  BY <1>1, MapTypes DEF TypeOK
<1>3. r.phase \in Phase /\ queue[id].due \in Nat /\ tick \in Nat
  BY <1>2 DEF Route, QueueEntry, TypeOK
<1>4. /\ Ticks[r.phase] \in Nat /\ Longest[r.phase] \in Nat
      /\ Longest[r.phase] > Ticks[r.phase]
  BY <1>1, <1>3, GraphAssumption
<1>5. /\ queue[id].due + Ticks[r.phase] >= Boundary(r) + Longest[r.phase]
      /\ Boundary(r) > tick /\ Boundary(r) \in Nat
  BY <1>2, BoundaryType DEF QueueInv, HasRoom, BoundaryAhead
<1> HIDE DEF r
<1> QED BY <1>3, <1>4, <1>5

\* A step of the loop that takes the entries of S out, their actions changed.
LEMMA InterruptQueue ==
  ASSUME TypeOK, QueueInv, todo = {}, NEW S, Interrupt(S, act, image), tick' = tick, todo' = {}
  PROVE  QueueInv' /\ Held(queue') \subseteq Held(queue)
<1>1. \A x \in Held(queue') : x \in ActionId \ S /\ x \in Held(queue) /\ queue'[x] = queue[x]
  BY DEF Interrupt, Held, Drop
<1>2. \A x \in Held(queue') : act'[x] = act[x]
  BY <1>1 DEF Interrupt
<1> QED BY <1>1, <1>2, QueueShrinks

\* Every step of advance() keeps the invariant.
LEMMA AdvanceInv ==
  ASSUME TypeOK, QueueInv, ReadyInv, CopiesInv, Advance
  PROVE  QueueInv' /\ ReadyInv' /\ CopiesInv'
<1>0. Held(Nobody) = {} /\ Long(Nobody) = {}
  BY DEF Held, Long, Nobody
<1>1. CASE BeginTick
  <2>1. /\ pc = "idle" /\ todo = {} /\ queue' = queue /\ act' = act /\ ready' = ready
        /\ tick' = tick + 1 /\ tick \in Nat
        /\ todo' = {x \in Long(queue) : /\ queue[x].run.phase # Terminal
                                        /\ Boundary(queue[x].run) = tick + 1}
        /\ before'.queue = queue /\ before'.act = act /\ before'.tick = tick
    BY <1>1 DEF BeginTick, Idle, TypeOK
  <2>2. \A x \in OnRoute(queue) : Boundary(queue[x].run) > tick /\ Boundary(queue[x].run) \in Nat
    <3>1. \A x \in OnRoute(queue) : queue[x].run \in Route
      BY MapTypes DEF OnRoute, Long, Held, TypeOK
    <3> QED BY <2>1, <3>1, BoundaryType DEF QueueInv, BoundaryAhead
  <2>3. todo' \subseteq OnRoute(queue')
        /\ \A x \in OnRoute(queue) \ todo' : Boundary(queue[x].run) # tick + 1
    BY <2>1 DEF OnRoute
  <2>4. BoundaryAhead(queue', todo', tick')
    BY <2>1, <2>2, <2>3 DEF BoundaryAhead
  <2>5. QueueInv'
    BY <2>1, <2>3, <2>4 DEF QueueInv
  <2>6. CopiesInv'
    BY <2>1 DEF CopiesInv, QueueInv
  <2> QED BY <2>1, <2>5, <2>6 DEF ReadyInv
<1>2. CASE TickLogged
  BY <1>2 DEF TickLogged, QueueInv, ReadyInv, CopiesInv
<1>3. CASE TickRollsBack
  <2>1. /\ queue' = before.queue /\ act' = before.act /\ tick' = before.tick /\ todo' = {}
        /\ ready' = Nobody /\ pc' = "idle" /\ pc = "decide"
    BY <1>3 DEF TickRollsBack, Unwind
  <2>2. QueueInv'
    BY <2>1 DEF CopiesInv, QueueInv
  <2> QED BY <1>0, <2>1, <2>2 DEF ReadyInv, CopiesInv
<1>4. CASE PublishHit
  <2>1. pc = "publish" /\ todo = {} /\ todo' = {} /\ tick' = tick /\ ready = Nobody
        /\ ready' = Nobody /\ pc' # "decide"
    BY <1>4 DEF PublishHit, TypeOK, Unwind
  <2>2. QueueInv'
    <3>1. CASE UNCHANGED <<act, queue, image>>
      BY <2>1, <3>1 DEF QueueInv
    <3>2. CASE \E S : Interrupt(S, act, image)
      BY <2>1, <3>2, InterruptQueue
    <3> QED BY <1>4, <3>1, <3>2 DEF PublishHit
  <2> QED BY <1>0, <2>1, <2>2 DEF ReadyInv, CopiesInv
<1>5. CASE PopReady
  <2> DEFINE due == {id \in Held(queue) : queue[id].due <= tick}
  <2>1. /\ pc = "publish" /\ todo = {} /\ todo' = {} /\ tick' = tick /\ act' = act
        /\ queue' = Drop(queue, due) /\ pc' # "decide"
        /\ ready' = [id \in ActionId |-> IF id \in due THEN queue[id] ELSE None]
    BY <1>5 DEF PopReady, TypeOK
  <2>2. \A x \in Held(queue') : x \in Held(queue) /\ x \notin due /\ queue'[x] = queue[x]
    BY <2>1 DEF Held, Drop
  <2>3. QueueInv'
    BY <2>1, <2>2, QueueShrinks
  <2>4. \A x \in Held(ready') : x \in due /\ ready'[x] = queue[x]
    BY <2>1 DEF Held
  <2>5. \A x \in OnRoute(queue) : queue[x].due > tick /\ queue[x].due \in Nat /\ tick \in Nat
    BY <2>1, DueAhead, MapTypes DEF TypeOK, OnRoute, Long, Held, QueueEntry
  <2>6. \A x \in Long(ready') : x \notin OnRoute(queue) /\ x \in Long(queue)
    BY <2>4, <2>5 DEF Long
  <2>7. \A x \in Long(ready') : ready'[x].run.phase = Terminal
    BY <2>4, <2>6 DEF OnRoute, Long
  <2> QED BY <2>1, <2>2, <2>3, <2>4, <2>7 DEF ReadyInv, CopiesInv
<1>6. ASSUME NEW id \in ActionId, Decide(id)
      PROVE  QueueInv' /\ ReadyInv' /\ CopiesInv'
  <2>1. QueueInv' /\ Held(queue') \subseteq Held(queue)
    BY <1>6, DecideQueue
  <2>2. UNCHANGED <<pc, ready, before>>
    BY <1>6 DEF Decide, ChildFails, Progresses, Retries, GivesUp, Turn
  <2> QED BY <2>1, <2>2 DEF ReadyInv, CopiesInv
<1>7. ASSUME NEW id \in ActionId, ExecuteReady(id)
      PROVE  QueueInv' /\ ReadyInv' /\ CopiesInv'
  <2>1. /\ id \in Held(ready) /\ id \notin Held(queue) /\ act[id] \in ActionRecord
        /\ todo = {} /\ todo' = {} /\ tick' = tick /\ pc = "execute" /\ pc' # "decide"
    BY <1>7 DEF ExecuteReady, ReadyInv, TypeOK, Unwind
  <2>2. QueueInv' /\ Held(queue') \subseteq Held(queue)
    BY <1>7, <2>1, ExecuteQueue DEF ExecuteReady
  <2>3. CASE ready' = Nobody
    BY <1>0, <2>1, <2>2, <2>3 DEF ReadyInv, CopiesInv
  <2>4. CASE ready' = Drop(ready, {id})
    <3>1. \A x \in Held(ready') : x \in Held(ready) /\ ready'[x] = ready[x]
      BY <2>4 DEF Held, Drop
    <3>2. Long(ready') \subseteq Long(ready) /\ Long(ready') \subseteq Held(ready')
      BY <3>1 DEF Long
    <3> QED BY <2>1, <2>2, <3>1, <3>2 DEF ReadyInv, CopiesInv
  <2> QED BY <1>7, <2>3, <2>4 DEF ExecuteReady, Unwind
<1> QED BY <1>1, <1>2, <1>3, <1>4, <1>5, <1>6, <1>7 DEF Advance

\* Every step of the kernel keeps the invariant.
LEMMA InvStep == TypeOK /\ KernelInv /\ [Next]_vars => KernelInv'
<1> SUFFICES ASSUME TypeOK, QueueInv, ReadyInv, CopiesInv, [Next]_vars
             PROVE  QueueInv' /\ ReadyInv' /\ CopiesInv'
  BY InvParts
<1>1. CASE Advance
  BY <1>1, AdvanceInv
<1>2. ASSUME NEW id \in ActionId, Submit(id) \/ Cancel(id)
      PROVE  QueueInv' /\ ReadyInv' /\ CopiesInv'
  BY <1>2, SubmitInv, CancelInv
<1>3. CASE UNCHANGED vars
  BY <1>3 DEF vars, QueueInv, ReadyInv, CopiesInv
<1> QED BY <1>1, <1>2, <1>3 DEF Next

\* The invariant of the queue, of the popped entries and of the copies that a
\* failed append brings back holds in every state the kernel reaches.
THEOREM Invariance == Spec => []KernelInv
<1>1. Init => TypeOK /\ KernelInv
  BY InitType, InitInv
<1>2. (TypeOK /\ KernelInv) /\ [Next]_vars => (TypeOK /\ KernelInv)'
  BY TypeStep, InvStep
<1> QED BY <1>1, <1>2, PTL DEF Spec

\* No actor ever has two authored actions in the queue: not after a retry, a
\* tick that is rolled back, an interruption or a failed append.
THEOREM OneLong == Spec => []OneLongActionPerActor
<1>1. KernelInv => OneLongActionPerActor
  BY DEF KernelInv, OneLongActionPerActor
<1> QED BY <1>1, Invariance, PTL

\* For every authored graph and retry policy, _execute() is handed a long
\* action only when its cursor stands at the terminal phase.
THEOREM TerminalOnly == Spec => []OnlyTerminalExecutes
<1>1. TypeOK /\ KernelInv => OnlyTerminalExecutes
  <2> SUFFICES ASSUME TypeOK, QueueInv, ReadyInv PROVE OnlyTerminalExecutes
    BY InvParts
  <2>1. pc # "decide" => \A id \in OnRoute(queue) : queue[id].due > tick
    BY DueAhead DEF TypeOK
  <2> QED BY <2>1 DEF OnlyTerminalExecutes, ReadyInv, OnRoute
<1> QED BY <1>1, Typing, Invariance, PTL

-----------------------------------------------------------------------------
(* The queue and the image: each handler of replay() does to the image what *)
(* the live code does to the queue, or refuses the log.                    *)

\* An entry put into the queue, and one with its run and due into the image.
LEMMA RecordedPut ==
  ASSUME NEW q \in QueueMap, NEW c, NEW im \in Image, NEW new \in Image,
         NEW id \in ActionId, NEW x \in QueueEntry, NEW y \in QueueEntry,
         Recorded(q, c, im), new.ok => im.ok, new.cell = im.cell,
         new.pending = Put(im.pending, id, y),
         im.ok => x.run = y.run /\ x.due = y.due
  PROVE  Recorded(Put(q, id, x), c, new)
<1> SUFFICES ASSUME new.ok
             PROVE  /\ new.cell = c
                    /\ \A a \in Held(Put(q, id, x)) :
                         /\ new.pending[a] # None
                         /\ new.pending[a].run = Put(q, id, x)[a].run
                         /\ new.pending[a].due = Put(q, id, x)[a].due
  BY DEF Recorded
<1>1. im.ok /\ new.cell = c
  BY DEF Recorded
<1>2. /\ im.pending \in QueueMap /\ y # None
      /\ Put(q, id, x)[id] = x /\ new.pending[id] = y
      /\ \A a \in ActionId \ {id} : Put(q, id, x)[a] = q[a] /\ new.pending[a] = im.pending[a]
  BY ImageTypes, NoneAssumption DEF Put, QueueMap
<1>3. ASSUME NEW a \in Held(Put(q, id, x)), a # id
      PROVE  a \in Held(q) /\ Put(q, id, x)[a] = q[a] /\ new.pending[a] = im.pending[a]
  BY <1>2, <1>3 DEF Held
<1> QED BY <1>1, <1>2, <1>3 DEF Recorded

\* A lifecycle record moves the log's tick and nothing else.
LEMMA SeenKeeps ==
  ASSUME NEW im \in Image, NEW t
  PROVE  /\ Seen(im, t).ok = im.ok /\ Seen(im, t).cell = im.cell
         /\ Seen(im, t).pending = im.pending
BY DEF Seen, Image

\* A log that was refused stays refused.
LEMMA RefusedRecorded ==
  ASSUME NEW im \in Image, NEW q, NEW c
  PROVE  /\ Recorded(q, c, Refuse(im))
         /\ ~im.ok => Recorded(q, c, im)
BY DEF Recorded, Refuse, Image

\* state.committed.
LEMMA CommitRecorded ==
  ASSUME NEW im \in Image, NEW q, NEW c, NEW new \in CellMap, Recorded(q, c, im)
  PROVE  Recorded(q, new, LogCommit(im, new))
<1>1. im.ok => /\ LogCommit(im, new).cell = new /\ LogCommit(im, new).pending = im.pending
               /\ LogCommit(im, new).ok
  BY DEF LogCommit, Image
<1>2. ~im.ok => ~LogCommit(im, new).ok
  BY DEF LogCommit
<1> QED BY <1>1, <1>2 DEF Recorded

\* Entries that leave the queue, and at most these leave the image.
LEMMA DropRecorded ==
  ASSUME NEW im \in Image, NEW q \in QueueMap, NEW c, NEW S, NEW t, Recorded(q, c, im)
  PROVE  /\ Recorded(Drop(q, S), c, Seen([im EXCEPT !.pending = Drop(@, S)], t))
         /\ Recorded(Drop(q, S), c, im)
<1> DEFINE cut == [im EXCEPT !.pending = Drop(@, S)]
<1>1. cut.ok = im.ok /\ cut.cell = im.cell /\ cut.pending = Drop(im.pending, S)
  BY DEF Image
<1>2. cut \in Image
  BY ImageTypes, MapTypes
<1>3. /\ Seen(cut, t).ok = im.ok /\ Seen(cut, t).cell = im.cell
      /\ Seen(cut, t).pending = Drop(im.pending, S)
  BY <1>1, <1>2, SeenKeeps
<1>4. \A a \in Held(Drop(q, S)) :
        a \in ActionId \ S /\ a \in Held(q) /\ Drop(q, S)[a] = q[a]
        /\ Drop(im.pending, S)[a] = im.pending[a]
  BY DEF Held, Drop
<1> HIDE DEF cut
<1>5. Recorded(Drop(q, S), c, Seen(cut, t)) /\ Recorded(Drop(q, S), c, im)
  BY <1>3, <1>4 DEF Recorded
<1> QED BY <1>5 DEF cut

\* action.cancelled and action.interrupted.
LEMMA StopRecorded ==
  ASSUME NEW im \in Image, NEW q \in QueueMap, NEW c, NEW S, NEW t, Recorded(q, c, im)
  PROVE  Recorded(Drop(q, S), c, LogStop(im, S, t))
BY DropRecorded DEF LogStop

\* action.completed and action.failed.
LEMMA EndRecorded ==
  ASSUME NEW im \in Image, NEW q \in QueueMap, NEW c, NEW id \in ActionId, NEW long, NEW event,
         NEW t, Recorded(q, c, im)
  PROVE  /\ Recorded(Drop(q, {id}), c, LogEnd(im, id, long, event, t))
         /\ id \notin Held(q) => Recorded(q, c, LogEnd(im, id, long, event, t))
<1>1. Recorded(Drop(q, {id}), c, LogEnd(im, id, long, event, t))
  BY DropRecorded, RefusedRecorded DEF LogEnd
<1>2. id \notin Held(q) => Drop(q, {id}) = q
  BY DEF Held, Drop, QueueMap
<1> QED BY <1>1, <1>2

\* action.scheduled.
LEMMA ScheduledRecorded ==
  ASSUME NEW im \in Image, NEW q \in QueueMap, NEW c, NEW id \in ActionId, NEW due \in Nat,
         NEW order \in Nat, NEW run \in Route \cup {None}, NEW t \in Nat, Recorded(q, c, im)
  PROVE  Recorded(Put(q, id, [due |-> due, order |-> order, run |-> run]), c,
                  LogScheduled(im, id, due, run, t))
<1> DEFINE x == [due |-> due, order |-> order, run |-> run]
           y == [due |-> due, order |-> im.order + 1, run |-> run]
           pend == Put(im.pending, id, y)
           new == [pending |-> pend, cell |-> im.cell, order |-> im.order + 1,
                   tick |-> im.tick, ok |-> TRUE]
<1>1. x \in QueueEntry /\ y \in QueueEntry /\ x.run = y.run /\ x.due = y.due
  BY ImageTypes DEF QueueEntry
<1>2. CASE ~im.ok
  BY <1>2, RefusedRecorded DEF LogScheduled
<1>3. CASE im.ok
  <2>1. LogScheduled(im, id, due, run, t) = Seen(new, t)
    BY <1>3 DEF LogScheduled
  <2>2. LogScheduled(im, id, due, run, t) \in Image
    BY LogScheduledType
  <2>3. pend \in QueueMap
    BY <1>1, ImageTypes, MapTypes
  <2> HIDE DEF pend, x, y
  <2>4. new \in Image /\ new.pending = pend /\ new.cell = im.cell
    BY <2>3, ImageTypes DEF Image
  <2> HIDE DEF new
  <2>5. Seen(new, t) \in Image /\ Seen(new, t).pending = pend /\ Seen(new, t).cell = im.cell
    BY <2>1, <2>2, <2>4, SeenKeeps
  <2> QED BY <1>1, <1>3, <2>1, <2>5, RecordedPut DEF pend, x
<1> QED BY <1>2, <1>3

\* A record that changes the route of a pending entry of the image.
LEMMA RouteRecorded ==
  ASSUME NEW im \in Image, NEW q \in QueueMap, NEW c, NEW id \in ActionId, NEW t \in Nat,
         Recorded(q, c, im), NEW x \in QueueEntry, NEW y \in QueueEntry,
         im.ok => x.run = y.run /\ x.due = y.due
  PROVE  Recorded(Put(q, id, x), c, Seen([im EXCEPT !.pending = Put(@, id, y)], t))
<1> DEFINE pend == Put(im.pending, id, y)
           new == [im EXCEPT !.pending = pend]
<1>1. pend \in QueueMap
  BY ImageTypes, MapTypes
<1> HIDE DEF pend
<1>2. new \in Image /\ new.pending = pend /\ new.cell = im.cell /\ new.ok = im.ok
  BY <1>1 DEF Image
<1> HIDE DEF new
<1>3. Seen(new, t) \in Image /\ Seen(new, t).pending = pend /\ Seen(new, t).cell = im.cell
      /\ Seen(new, t).ok = im.ok
  BY <1>2, ImageTypes, SeenKeeps
<1>4. Recorded(Put(q, id, x), c, Seen(new, t))
  BY <1>3, RecordedPut DEF pend
<1> QED BY <1>4 DEF new, pend

\* What the image holds of a pending route.
LEMMA RecordedEntry ==
  ASSUME NEW im \in Image, NEW q, NEW c, NEW id \in Held(q), Recorded(q, c, im), im.ok
  PROVE  /\ im.pending[id] # None /\ im.pending[id] \in QueueEntry
         /\ im.pending[id].run = q[id].run /\ im.pending[id].due = q[id].due
BY ImageTypes, MapTypes DEF Recorded, Held

\* action.branch_selected.
LEMMA BranchRecorded ==
  ASSUME NEW im \in Image, NEW q \in QueueMap, NEW c, NEW id \in Long(q), NEW b \in BranchSet,
         NEW t \in Nat, Recorded(q, c, im)
  PROVE  Recorded(Put(q, id, WithRun(q[id], Chosen(q[id].run, b))), c, LogBranch(im, id, b, t))
<1> DEFINE r == im.pending[id].run
           x == WithRun(q[id], Chosen(q[id].run, b))
           y == WithRun(im.pending[id], Chosen(r, b))
<1>1. id \in Held(q) /\ id \in ActionId /\ q[id] \in QueueEntry /\ q[id].run \in Route
  BY MapTypes DEF Long, Held
<1>2. Chosen(q[id].run, b) \in Route
  BY <1>1, RouteTypes
<1>3. x \in QueueEntry /\ x.run = Chosen(q[id].run, b) /\ x.due = q[id].due
  BY <1>1, <1>2, EntryTypes DEF WithRun, QueueEntry
<1>4. CASE im.ok /\ LogBranch(im, id, b, t) = Seen(Rerun(im, id, Chosen(r, b)), t)
  <2>1. im.pending[id] \in QueueEntry /\ r = q[id].run /\ im.pending[id].due = q[id].due
    BY <1>1, <1>4, RecordedEntry
  <2>2. y \in QueueEntry /\ y.run = x.run /\ y.due = x.due
    BY <1>2, <1>3, <2>1, EntryTypes DEF WithRun, QueueEntry
  <2> HIDE DEF x, y
  <2>3. Recorded(Put(q, id, x), c, Seen([im EXCEPT !.pending = Put(@, id, y)], t))
    BY <1>1, <1>3, <2>2, RouteRecorded
  <2> QED BY <1>4, <2>3 DEF Rerun, x, y
<1>5. CASE ~im.ok \/ LogBranch(im, id, b, t) = Refuse(im)
  BY <1>5, RefusedRecorded DEF LogBranch
<1> QED BY <1>4, <1>5 DEF LogBranch

\* action.child_completed.
LEMMA ChildRecorded ==
  ASSUME NEW im \in Image, NEW q \in QueueMap, NEW c, NEW id \in Long(q), NEW p \in Phase,
         NEW t \in Nat, Recorded(q, c, im)
  PROVE  Recorded(Put(q, id, WithRun(q[id], StepDone(q[id].run, p))), c, LogChild(im, id, p, t))
<1> DEFINE r == im.pending[id].run
           x == WithRun(q[id], StepDone(q[id].run, p))
           y == WithRun(im.pending[id], StepDone(r, p))
<1>1. id \in Held(q) /\ id \in ActionId /\ q[id] \in QueueEntry /\ q[id].run \in Route
  BY MapTypes DEF Long, Held
<1>2. StepDone(q[id].run, p) \in Route
  BY <1>1, RouteTypes
<1>3. x \in QueueEntry /\ x.run = StepDone(q[id].run, p) /\ x.due = q[id].due
  BY <1>1, <1>2, EntryTypes DEF WithRun, QueueEntry
<1>4. CASE im.ok /\ LogChild(im, id, p, t) = Seen(Rerun(im, id, StepDone(r, p)), t)
  <2>1. im.pending[id] \in QueueEntry /\ r = q[id].run /\ im.pending[id].due = q[id].due
    BY <1>1, <1>4, RecordedEntry
  <2>2. y \in QueueEntry /\ y.run = x.run /\ y.due = x.due
    BY <1>2, <1>3, <2>1, EntryTypes DEF WithRun, QueueEntry
  <2> HIDE DEF x, y
  <2>3. Recorded(Put(q, id, x), c, Seen([im EXCEPT !.pending = Put(@, id, y)], t))
    BY <1>1, <1>3, <2>2, RouteRecorded
  <2> QED BY <1>4, <2>3 DEF Rerun, x, y
<1>5. CASE ~im.ok \/ LogChild(im, id, p, t) = Refuse(im)
  BY <1>5, RefusedRecorded DEF LogChild
<1> QED BY <1>4, <1>5 DEF LogChild

\* action.progressed.
LEMMA ProgressRecorded ==
  ASSUME NEW im \in Image, NEW q \in QueueMap, NEW c, NEW id \in Long(q), NEW p, NEW b \in BranchSet,
         NEW t \in Nat, Recorded(q, c, im)
  PROVE  Recorded(Put(q, id, Advanced(q[id], b, t)), c, LogProgress(im, id, p, b, t))
<1> DEFINE x == Advanced(q[id], b, t)
           y == Advanced(im.pending[id], b, t)
<1>1. id \in Held(q) /\ id \in ActionId /\ q[id] \in QueueEntry /\ q[id].run # None
  BY MapTypes DEF Long, Held
<1>2. x \in QueueEntry
  BY <1>1, AdvancedType
<1>3. CASE im.ok /\ LogProgress(im, id, p, b, t) = Seen([im EXCEPT !.pending = Put(@, id, y)], t)
  <2>1. /\ im.pending[id] \in QueueEntry /\ im.pending[id].run = q[id].run
        /\ im.pending[id].due = q[id].due
    BY <1>1, <1>3, RecordedEntry
  <2>2. y \in QueueEntry /\ y.run = x.run /\ y.due = x.due
    BY ZenonT(30), <1>1, <2>1, AdvancedType DEF Advanced
  <2> HIDE DEF x, y
  <2> QED BY <1>1, <1>2, <1>3, <2>2, RouteRecorded DEF x
<1>4. CASE ~im.ok \/ LogProgress(im, id, p, b, t) = Refuse(im)
  BY <1>4, RefusedRecorded DEF LogProgress
<1> QED BY <1>3, <1>4 DEF LogProgress

\* action.retry_scheduled.
LEMMA RetryRecorded ==
  ASSUME NEW im \in Image, NEW q \in QueueMap, NEW c, NEW id \in Long(q),
         NEW n \in RetryRecord, Policy[n.phase] # None, NEW t \in Nat, Recorded(q, c, im)
  PROVE  Recorded(Put(q, id, Postponed(q[id], n)), c, LogRetry(im, id, n, t))
<1> DEFINE x == Postponed(q[id], n)
           y == Postponed(im.pending[id], n)
<1>1. id \in Held(q) /\ id \in ActionId /\ q[id] \in QueueEntry /\ q[id].run # None
  BY MapTypes DEF Long, Held
<1>2. x \in QueueEntry
  BY <1>1, EntryTypes
<1>3. CASE im.ok /\ LogRetry(im, id, n, t) = Seen([im EXCEPT !.pending = Put(@, id, y)], t)
  <2>1. /\ im.pending[id] \in QueueEntry /\ im.pending[id].run = q[id].run
        /\ im.pending[id].due = q[id].due
    BY <1>1, <1>3, RecordedEntry
  <2>2. y \in QueueEntry /\ y.run = x.run /\ y.due = x.due
    BY <1>1, <2>1, EntryTypes DEF Postponed
  <2> HIDE DEF x, y
  <2> QED BY <1>1, <1>2, <1>3, <2>2, RouteRecorded DEF x
<1>4. CASE ~im.ok \/ LogRetry(im, id, n, t) = Refuse(im)
  BY SMTT(30), <1>4, RefusedRecorded DEF LogRetry
<1> QED BY ZenonT(30), <1>3, <1>4 DEF LogRetry

-----------------------------------------------------------------------------
(* The effects an action had, and the end it came to.                      *)

\* What every step but the rollback of a tick does to an action that ended.
EndKept ==
  \A x \in ActionId : act[x].status \in Ended =>
    act'[x].status = act[x].status /\ effects'[x] = effects[x]

CountedNow == Counted(queue, act, effects)
RecordedNow == Recorded(queue, cell, image)

\* No effect: records of actions that did not end may change, entries that are
\* new belong to actions nobody submitted before.
LEMMA CountedKeeps ==
  ASSUME CountedNow, effects' = effects,
         \A x \in ActionId : \/ act'[x].status = act[x].status
                             \/ /\ act[x].status \in {"new", "scheduled"}
                                /\ act'[x].status \notin {"new", "completed"},
         \A x \in OnRoute(queue') : \/ x \in OnRoute(queue) /\ queue'[x] = queue[x]
                                    \/ act[x].status = "new"
  PROVE  CountedNow' /\ EndKept
<1>1. \A x \in OnRoute(queue') : x \in ActionId
  BY DEF OnRoute, Long, Held
<1>2. ASSUME NEW x \in ActionId
      PROVE  /\ \A p \in Phase : effects'[x][p] <= 1
             /\ effects'[x][Terminal] = 1 <=> act'[x].status = "completed"
             /\ act'[x].status = "new" => \A p \in Phase : effects'[x][p] = 0
  BY DEF CountedNow, Counted
<1>3. ASSUME NEW x \in OnRoute(queue'), NEW p \in Phase, effects'[x][p] # 0
      PROVE  LET r == queue'[x].run
             IN  \/ p = r.phase /\ \E i \in DOMAIN r.steps : r.steps[i] = p
                 \/ Longest[p] > Longest[r.phase]
  BY <1>1, <1>3 DEF CountedNow, Counted
<1>4. CountedNow'
  BY <1>2, <1>3 DEF CountedNow, Counted
<1>5. EndKept
  BY DEF EndKept, Ended
<1> QED BY <1>4, <1>5

\* The completion effect of an action that neither completed nor is queued.
LEMMA CountedCompletes ==
  ASSUME TypeOK, CountedNow, NEW id \in ActionId, effects' = Count(id, Terminal),
         act[id].status \in {"new", "scheduled"}, act'[id].status = "completed",
         \A x \in ActionId \ {id} :
            \/ act'[x].status = act[x].status
            \/ act[x].status = "scheduled" /\ act'[x].status = "interrupted",
         \A x \in OnRoute(queue') : x # id /\ x \in OnRoute(queue) /\ queue'[x] = queue[x]
  PROVE  CountedNow' /\ EndKept
<1>1. \A x \in OnRoute(queue') : x \in ActionId
  BY DEF OnRoute, Long, Held
<1>2. Terminal \in Phase /\ effects \in EffectMap /\ effects[id] \in [Phase -> Nat]
  BY GraphAssumption DEF TypeOK, EffectMap
<1>3. /\ effects'[id] = [effects[id] EXCEPT ![Terminal] = @ + 1]
      /\ \A x \in ActionId \ {id} : effects'[x] = effects[x]
  BY <1>2 DEF Count, EffectMap
<1>4. effects[id][Terminal] = 0
  <2>1. effects[id][Terminal] \in Nat /\ effects[id][Terminal] <= 1 /\ effects[id][Terminal] # 1
    BY <1>2 DEF CountedNow, Counted
  <2> QED BY <2>1
<1>5. effects'[id][Terminal] = 1 /\ \A p \in Phase \ {Terminal} : effects'[id][p] = effects[id][p]
  BY <1>2, <1>3, <1>4
<1>6. ASSUME NEW x \in ActionId
      PROVE  /\ \A p \in Phase : effects'[x][p] <= 1
             /\ effects'[x][Terminal] = 1 <=> act'[x].status = "completed"
             /\ act'[x].status = "new" => \A p \in Phase : effects'[x][p] = 0
  <2>1. CASE x = id
    BY <1>5, <2>1 DEF CountedNow, Counted
  <2>2. CASE x # id
    BY <1>3, <2>2 DEF CountedNow, Counted
  <2> QED BY <2>1, <2>2
<1>7. ASSUME NEW x \in OnRoute(queue'), NEW p \in Phase, effects'[x][p] # 0
      PROVE  LET r == queue'[x].run
             IN  \/ p = r.phase /\ \E i \in DOMAIN r.steps : r.steps[i] = p
                 \/ Longest[p] > Longest[r.phase]
  BY <1>1, <1>3, <1>7 DEF CountedNow, Counted
<1>8. CountedNow'
  BY <1>6, <1>7 DEF CountedNow, Counted
<1>9. EndKept
  BY <1>3 DEF EndKept, Ended
<1> QED BY <1>8, <1>9

\* _execute() of an action that is not in the queue and has not ended.
LEMMA ExecuteHistory ==
  ASSUME TypeOK, QueueInv, CountedNow, RecordedNow,
         NEW id \in ActionId, id \notin Held(queue), act[id].status \in {"new", "scheduled"},
         NEW rec \in ActionRecord,
         \/ Completes(id, rec) \/ CompletesAndRaises(id, rec)
         \/ Rejected(id, rec) \/ RollsBack(id, rec)
  PROVE  /\ CountedNow' /\ RecordedNow' /\ EndKept
         /\ \A x \in ActionId \ {id} : x \notin Held(queue) => act'[x] = act[x]
<1> DEFINE after == Written(cell, rec.verb, rec.actor, rec.target)
           S == Interrupted(Struck(rec.verb, rec.actor, rec.target), id)
<1>1. /\ queue \in QueueMap /\ image \in Image /\ after \in CellMap
      /\ CommitImage(id, rec) \in Image /\ act \in [ActionId -> ActionRecord]
  <2>1. after \in CellMap
    BY WrittenType, RecordTypes DEF TypeOK
  <2>2. CommitImage(id, rec) \in Image
    BY <2>1, ImageTypes, LogEndType DEF CommitImage, TypeOK
  <2> QED BY <2>1, <2>2 DEF TypeOK
<1>2. Recorded(queue, after, CommitImage(id, rec))
  <2>1. Recorded(queue, after, LogCommit(image, after)) /\ LogCommit(image, after) \in Image
    BY <1>1, CommitRecorded, ImageTypes DEF RecordedNow
  <2> QED BY <1>1, <2>1, EndRecorded DEF CommitImage
<1> HIDE DEF after
<1>3. /\ S \subseteq Held(queue) /\ id \notin S /\ S \subseteq ActionId
      /\ \A x \in S : act[x].status = "scheduled"
  BY DEF Interrupted, Long, Held, QueueInv, Scheduled
<1> HIDE DEF S
<1>4. /\ Done(id, rec)[id].status = "completed" /\ Failed(id, rec)[id].status = "failed"
      /\ \A x \in ActionId \ {id} : Done(id, rec)[x] = act[x] /\ Failed(id, rec)[x] = act[x]
  BY <1>1 DEF Done, Failed, ActionRecord
<1>5. \A x \in OnRoute(queue) : x # id
  BY DEF OnRoute, Long
<1>6. CASE Completes(id, rec)
  <2>1. /\ cell' = after /\ effects' = Count(id, Terminal)
        /\ queue' = Drop(queue, S) /\ image' = LogStop(CommitImage(id, rec), S, tick)
        /\ act' = [q \in ActionId |-> IF q \in S THEN [Done(id, rec)[q] EXCEPT !.status = "interrupted"]
                                                 ELSE Done(id, rec)[q]]
    BY <1>6 DEF Completes, Committing, Interrupt, S, after
  <2>2. RecordedNow'
    BY <1>1, <1>2, <2>1, StopRecorded DEF RecordedNow
  <2>3. \A x \in S : act'[x].status = "interrupted"
    BY <1>1, <1>3, <1>4, <2>1 DEF ActionRecord
  <2>4. act'[id].status = "completed" /\ \A x \in ActionId \ ({id} \cup S) : act'[x] = act[x]
    BY <1>3, <1>4, <2>1
  <2>5. \A x \in OnRoute(queue') : x \in OnRoute(queue) /\ queue'[x] = queue[x]
    BY <2>1 DEF OnRoute, Long, Held, Drop
  <2>6. CountedNow' /\ EndKept
    BY ZenonT(30), <1>3, <1>5, <2>1, <2>3, <2>4, <2>5, CountedCompletes
  <2> QED BY <1>3, <2>2, <2>4, <2>6
<1>7. CASE CompletesAndRaises(id, rec)
  <2>1. /\ cell' = after /\ effects' = Count(id, Terminal)
        /\ queue' = queue /\ image' = CommitImage(id, rec) /\ act' = Done(id, rec)
    BY <1>7 DEF CompletesAndRaises, Committing, after
  <2>2. CountedNow' /\ EndKept
    BY <1>4, <1>5, <2>1, CountedCompletes
  <2> QED BY <1>2, <1>4, <2>1, <2>2 DEF RecordedNow
<1>8. CASE Rejected(id, rec) \/ RollsBack(id, rec)
  <2>1. /\ act' = Failed(id, rec) /\ cell' = cell /\ queue' = queue /\ effects' = effects
        /\ \/ image' = LogEnd(image, id, rec.verb = "long", "failed", tick)
           \/ image' = image
    BY <1>8 DEF Rejected, RollsBack
  <2>2. RecordedNow'
    <3> DEFINE long == rec.verb = "long"
    <3>1. RecordedNow /\ (image' = LogEnd(image, id, long, "failed", tick) \/ image' = image)
      BY <2>1
    <3> HIDE DEF long
    <3>2. Recorded(queue, cell, LogEnd(image, id, long, "failed", tick))
      BY <1>1, EndRecorded DEF RecordedNow
    <3> QED BY <2>1, <3>1, <3>2 DEF RecordedNow
  <2>3. CountedNow' /\ EndKept
    BY <1>4, <2>1, CountedKeeps
  <2> QED BY <1>4, <2>1, <2>2, <2>3
<1> QED BY <1>6, <1>7, <1>8

\* The steps of a decided entry: the child of the cursor's phase if it ran.
LEMMA SteppedSteps ==
  ASSUME TypeOK, QueueInv, NEW id \in todo, NEW b, Turn(id, b)
  PROVE  LET r == queue[id].run IN
           /\ r \in Route /\ queue[id] \in QueueEntry /\ id \in Long(queue)
           /\ Stepped(id, b).entry.run.steps
                = IF RunsChild(r, b) THEN Append(r.steps, r.phase) ELSE r.steps
<1> DEFINE r == queue[id].run
           c == Chosen(r, b)
           d == StepDone(c, r.phase)
<1>1. id \in Long(queue) /\ queue[id] \in QueueEntry /\ r \in Route
  BY MapTypes DEF TypeOK, Long, Held
<1>2. c.steps = r.steps /\ d.steps = Append(c.steps, r.phase)
  <2>1. r.phase \in Phase /\ b \in BranchSet
    BY <1>1, SteppedEntry
  <2>2. c \in Route
    BY <1>1, <2>1, RouteTypes
  <2> QED BY <1>1, <2>2 DEF Chosen, StepDone, Route
<1>3. Stepped(id, b).entry = WithRun(queue[id], IF RunsChild(r, b) THEN d ELSE c)
  BY DEF Stepped
<1>4. \A x : WithRun(queue[id], x).run = x
  BY <1>1 DEF WithRun, QueueEntry
<1> HIDE DEF c, d
<1>5. Stepped(id, b).entry.run = IF RunsChild(r, b) THEN d ELSE c
  BY <1>3, <1>4
<1> QED BY <1>1, <1>2, <1>5

\* A decision counts the child of the cursor's phase at most once, however
\* often the gate behind it is tried, and leaves it behind when it moves on.
LEMMA CountedDecides ==
  ASSUME TypeOK, QueueInv, CountedNow, NEW id \in todo, NEW b, Turn(id, b), CommitsChild(id, b),
         act'[id].status \in {"scheduled", "failed"},
         \A x \in ActionId \ {id} : act'[x] = act[x] /\ queue'[x] = queue[x],
         id \in OnRoute(queue') =>
            \/ queue'[id].run.phase = b.next
            \/ /\ queue'[id].run.phase = queue[id].run.phase
               /\ queue'[id].run.steps = Stepped(id, b).entry.run.steps
  PROVE  CountedNow' /\ EndKept
<1> DEFINE r == queue[id].run
           s == Stepped(id, b).entry.run.steps
           runs == RunsChild(r, b)
<1>1. /\ b \in Branches[r.phase] /\ b.next \in Phase /\ r \in Route
      /\ r.phase \in Phase /\ r.phase # Terminal /\ id \in ActionId
      /\ id \in OnRoute(queue) /\ act[id].status = "scheduled"
  <2>1. id \in OnRoute(queue) /\ id \in ActionId /\ act[id].status = "scheduled"
    BY DEF QueueInv, OnRoute, Long, Held, Scheduled
  <2> QED BY <2>1, SteppedEntry
<1>2. /\ Ticks[r.phase] \in Nat \ {0} /\ Longest[r.phase] \in Nat /\ Longest[b.next] \in Nat
      /\ Longest[r.phase] >= Ticks[r.phase] + Longest[b.next]
  BY <1>1, GraphAssumption
<1>3. Longest[r.phase] > Longest[b.next]
  BY <1>2
<1>4. effects \in EffectMap /\ effects[id] \in [Phase -> Nat]
  BY <1>1 DEF TypeOK, EffectMap
<1>5. s = IF runs THEN Append(r.steps, r.phase) ELSE r.steps
  BY SteppedSteps
<1>6. /\ effects' = IF runs THEN Count(id, r.phase) ELSE effects
      /\ \A x \in ActionId \ {id} : effects'[x] = effects[x]
      /\ runs => effects'[id] = [effects[id] EXCEPT ![r.phase] = @ + 1]
      /\ ~runs => effects'[id] = effects[id]
  <2>1. effects' = IF runs THEN Count(id, r.phase) ELSE effects
    BY DEF CommitsChild
  <2> QED BY <1>1, <1>4, <2>1 DEF Count, EffectMap
<1>7. \A p \in Phase : effects[id][p] # 0 =>
         \/ p = r.phase /\ \E i \in DOMAIN r.steps : r.steps[i] = p
         \/ Longest[p] > Longest[r.phase]
  BY <1>1 DEF CountedNow, Counted
\* The child ran now: it had not run before, and it is a step of the route.
<1>8. runs => /\ effects[id][r.phase] = 0 /\ effects'[id][r.phase] = 1
              /\ \E i \in DOMAIN s : s[i] = r.phase
  <2> SUFFICES ASSUME runs
               PROVE  /\ effects[id][r.phase] = 0 /\ effects'[id][r.phase] = 1
                      /\ \E i \in DOMAIN s : s[i] = r.phase
    OBVIOUS
  <2>1. effects[id][r.phase] = 0
    BY <1>1, <1>2, <1>7 DEF RunsChild
  <2>2. effects'[id][r.phase] = 1
    BY <1>1, <1>4, <1>6, <2>1
  <2>3. s = Append(r.steps, r.phase) /\ r.steps \in Seq(Phase)
    BY SMTT(30), <1>1, <1>5 DEF Route
  <2>4. Len(r.steps) + 1 \in DOMAIN s /\ s[Len(r.steps) + 1] = r.phase
    BY SMTT(30), <1>1, <2>3
  <2> QED BY <2>1, <2>2, <2>4
<1>9. \A p \in Phase \ {r.phase} : effects'[id][p] = effects[id][p]
  BY <1>1, <1>4, <1>6
<1>10. ~runs => effects'[id][r.phase] = effects[id][r.phase] /\ s = r.steps
  BY <1>5, <1>6
<1> HIDE DEF runs, s
<1>11. ASSUME NEW p \in Phase, effects'[id][p] # 0
       PROVE  \/ p = r.phase /\ \E i \in DOMAIN s : s[i] = p
              \/ Longest[p] > Longest[r.phase]
  BY <1>7, <1>8, <1>9, <1>10, <1>11
<1>12. ASSUME NEW p \in Phase, effects'[id][p] # 0
       PROVE  Longest[p] > Longest[b.next]
  <2>1. Longest[p] \in Nat
    BY GraphAssumption
  <2> QED BY <1>2, <1>3, <1>11, <1>12, <2>1
<1>13. ASSUME NEW x \in ActionId
       PROVE  /\ \A p \in Phase : effects'[x][p] <= 1
              /\ effects'[x][Terminal] = 1 <=> act'[x].status = "completed"
              /\ act'[x].status = "new" => \A p \in Phase : effects'[x][p] = 0
  <2>1. CASE x # id
    BY <1>6, <2>1 DEF CountedNow, Counted
  <2>2. CASE x = id
    <3>1. Terminal \in Phase \ {r.phase}
      BY <1>1, GraphAssumption
    <3>2. \A p \in Phase : effects'[id][p] <= 1
      BY <1>1, <1>8, <1>9, <1>10 DEF CountedNow, Counted
    <3>3. effects'[id][Terminal] # 1
      BY <1>1, <1>9, <3>1 DEF CountedNow, Counted
    <3> QED BY <2>2, <3>2, <3>3
  <2> QED BY <2>1, <2>2
<1>14. ASSUME NEW x \in OnRoute(queue'), NEW p \in Phase, effects'[x][p] # 0
       PROVE  LET t == queue'[x].run
              IN  \/ p = t.phase /\ \E i \in DOMAIN t.steps : t.steps[i] = p
                  \/ Longest[p] > Longest[t.phase]
  <2>1. x \in ActionId
    BY <1>14 DEF OnRoute, Long, Held
  <2>2. CASE x # id
    <3>1. x \in OnRoute(queue)
      BY <1>14, <2>1, <2>2 DEF OnRoute, Long, Held
    <3> QED BY <1>6, <1>14, <2>1, <2>2, <3>1 DEF CountedNow, Counted
  <2>3. CASE x = id
    BY <1>11, <1>12, <1>14, <2>3 DEF s
  <2> QED BY <2>2, <2>3
<1>15. CountedNow'
  BY <1>13, <1>14 DEF CountedNow, Counted
<1>16. EndKept
  BY <1>1, <1>6 DEF EndKept, Ended
<1> QED BY <1>15, <1>16

\* What putting an entry into the queue, and then another, makes of it.
LEMMA PutTwice ==
  ASSUME NEW q \in QueueMap, NEW id \in ActionId, NEW x \in QueueEntry
  PROVE  /\ Put(q, id, x) \in QueueMap /\ Put(q, id, x)[id] = x
         /\ \A y : Put(Put(q, id, x), id, y) = Put(q, id, y)
         /\ Drop(Put(q, id, x), {id}) = Drop(q, {id})
         /\ x.run # None => id \in Long(Put(q, id, x))
<1>1. Put(q, id, x) \in QueueMap /\ Put(q, id, x)[id] = x
  BY MapTypes DEF Put, QueueMap
<1>2. \A y : Put(Put(q, id, x), id, y) = Put(q, id, y)
  BY DEF Put, QueueMap
<1>3. Drop(Put(q, id, x), {id}) = Drop(q, {id})
  BY DEF Drop, Put, QueueMap
<1>4. x.run # None => id \in Long(Put(q, id, x))
  BY <1>1, NoneAssumption DEF Long, Held
<1> QED BY <1>1, <1>2, <1>3, <1>4

\* The decided entry up to its outcome is in the image, and so are the cells.
LEMMA SteppedRecorded ==
  ASSUME TypeOK, QueueInv, RecordedNow, NEW id \in todo, NEW b, Turn(id, b)
  PROVE  /\ Recorded(Put(queue, id, Stepped(id, b).entry), Stepped(id, b).cell, Stepped(id, b).image)
         /\ Recorded(Drop(queue, {id}), cell, BranchImage(id, b))
<1> DEFINE r == queue[id].run
           c == Chosen(r, b)
           x == WithRun(queue[id], c)
           y == WithRun(queue[id], StepDone(c, r.phase))
           after == Written(cell, b.child, act[id].actor, act[id].target)
<1>1. /\ r \in Route /\ queue[id] \in QueueEntry /\ id \in Long(queue) /\ id \in ActionId
      /\ b \in BranchSet /\ r.phase \in Phase
  BY SteppedSteps, SteppedEntry DEF Long, Held
<1>2. /\ queue \in QueueMap /\ image \in Image /\ tick \in Nat /\ BranchImage(id, b) \in Image
      /\ cell \in CellMap /\ after \in CellMap
  <2>1. after \in CellMap
    BY WrittenType, RecordTypes, <1>1 DEF TypeOK
  <2> QED BY <1>1, <2>1, SteppedType, TypeParts DEF TypeOK
<1>3. c \in Route /\ x \in QueueEntry /\ x.run = c
  BY <1>1, RouteTypes, EntryTypes
<1>4. Recorded(Put(queue, id, x), cell, BranchImage(id, b))
  <2>1. CASE r.branch[r.phase] = None
    BY <1>1, <1>2, <2>1, BranchRecorded DEF BranchImage, RecordedNow
  <2>2. CASE r.branch[r.phase] # None
    <3>1. b = r.branch[r.phase]
      BY <2>2 DEF Turn, Takes
    <3>2. c = r
      BY <1>1, <3>1 DEF Chosen, Route
    <3>3. x = queue[id]
      BY <1>1, <3>2 DEF WithRun, QueueEntry
    <3>4. Put(queue, id, x) = queue
      BY <1>1, <1>2, <3>3 DEF Put, QueueMap
    <3> QED BY <2>2, <3>4 DEF BranchImage, RecordedNow
  <2> QED BY <2>1, <2>2
<1>5. Recorded(Drop(queue, {id}), cell, BranchImage(id, b))
  <2> DEFINE q == Put(queue, id, x)
             im == BranchImage(id, b)
  <2>1. q \in QueueMap /\ Drop(q, {id}) = Drop(queue, {id})
    BY <1>1, <1>2, <1>3, PutTwice
  <2>2. im \in Image /\ Recorded(q, cell, im)
    BY <1>2, <1>4
  <2> HIDE DEF q, im
  <2>3. Recorded(Drop(q, {id}), cell, im)
    BY <2>1, <2>2, DropRecorded
  <2> QED BY <2>1, <2>3 DEF im
<1>6. WithRun(x, StepDone(c, r.phase)) = y
  BY <1>1, <1>3 DEF WithRun, QueueEntry
<1>7. /\ Put(queue, id, x) \in QueueMap /\ Put(queue, id, x)[id] = x
      /\ id \in Long(Put(queue, id, x))
      /\ Put(Put(queue, id, x), id, y) = Put(queue, id, y)
  <2>1. x.run # None
    BY <1>3, NoneAssumption
  <2>2. x \in QueueEntry
    BY <1>3
  <2> HIDE DEF x, y
  <2>3. /\ Put(queue, id, x) \in QueueMap /\ Put(queue, id, x)[id] = x
        /\ id \in Long(Put(queue, id, x))
    BY <1>1, <1>2, <2>1, <2>2, PutTwice
  <2>4. Put(Put(queue, id, x), id, y) = Put(queue, id, y)
    BY <1>1, <1>2 DEF Put, QueueMap
  <2> QED BY <2>3, <2>4
<1>8. Recorded(Put(queue, id, y), after,
               LogChild(LogCommit(BranchImage(id, b), after), id, r.phase, tick))
  <2> DEFINE q == Put(queue, id, x)
             im == LogCommit(BranchImage(id, b), after)
  <2>1. im \in Image /\ Recorded(q, after, im)
    BY <1>2, <1>4, CommitRecorded, ImageTypes
  <2> HIDE DEF im, after
  <2>2. q \in QueueMap /\ id \in Long(q) /\ q[id] = x /\ x.run = c
    BY <1>3, <1>7
  <2> HIDE DEF q, x, y, c, r
  <2>3. Recorded(Put(q, id, WithRun(q[id], StepDone(q[id].run, r.phase))), after,
                 LogChild(im, id, r.phase, tick))
    BY <1>1, <1>2, <2>1, <2>2, ChildRecorded DEF r
  <2> QED BY <1>6, <1>7, <2>2, <2>3 DEF q, im
<1>9. CASE RunsChild(r, b)
  <2>1. /\ Stepped(id, b).entry = y /\ Stepped(id, b).cell = after
        /\ Stepped(id, b).image = LogChild(LogCommit(BranchImage(id, b), after), id, r.phase, tick)
    BY <1>9 DEF Stepped
  <2> QED BY <1>5, <1>8, <2>1
<1>10. CASE ~RunsChild(r, b)
  <2>1. /\ Stepped(id, b).entry = x /\ Stepped(id, b).cell = cell
        /\ Stepped(id, b).image = BranchImage(id, b)
    BY <1>10 DEF Stepped
  <2> QED BY <1>4, <1>5, <2>1
<1> QED BY <1>9, <1>10

\* A decision at a phase boundary keeps the effects counted and recorded.
LEMMA DecideHistory ==
  ASSUME TypeOK, QueueInv, CountedNow, RecordedNow, NEW id \in ActionId, Decide(id)
  PROVE  CountedNow' /\ RecordedNow' /\ EndKept
<1>1. PICK b : ChildFails(id, b) \/ Progresses(id, b) \/ Retries(id, b) \/ GivesUp(id, b)
  BY DEF Decide
<1> DEFINE r == queue[id].run
           e == Stepped(id, b).entry
           im == Stepped(id, b).image
<1>2. Turn(id, b) /\ id \in todo
  BY <1>1 DEF ChildFails, Progresses, Retries, GivesUp, Turn
<1>3. /\ b \in BranchSet /\ b.next \in Phase /\ r \in Route
      /\ e \in QueueEntry /\ e.run \in Route /\ e.run # None /\ e.run.phase = r.phase
  BY <1>2, SteppedEntry, NoneAssumption
<1>4. /\ queue \in QueueMap /\ tick \in Nat /\ id \in Long(queue) /\ act[id].status = "scheduled"
      /\ act \in [ActionId -> ActionRecord] /\ im \in Image /\ BranchImage(id, b) \in Image
  <2>1. id \in Long(queue) /\ act[id].status = "scheduled"
    BY <1>2, SteppedSteps DEF QueueInv, Scheduled, Long
  <2> QED BY <1>3, <2>1, SteppedType, TypeParts DEF TypeOK
<1>5. /\ Recorded(Put(queue, id, e), Stepped(id, b).cell, im)
      /\ Recorded(Drop(queue, {id}), cell, BranchImage(id, b))
  BY <1>2, SteppedRecorded
<1> DEFINE q == Put(queue, id, e)
<1>6. /\ q \in QueueMap /\ q[id] = e /\ id \in Long(q)
      /\ \A y : Put(q, id, y) = Put(queue, id, y)
      /\ Drop(q, {id}) = Drop(queue, {id})
  BY ZenonT(30), <1>3, <1>4, PutTwice
<1> HIDE DEF e, im, q
<1>7. CASE ChildFails(id, b)
  <2>1. /\ queue' = Drop(queue, {id}) /\ cell' = cell /\ effects' = effects
        /\ act' = [act EXCEPT ![id].status = "failed"]
        /\ image' = LogEnd(BranchImage(id, b), id, TRUE, "failed", tick)
    BY <1>7 DEF ChildFails, world
  <2>2. Drop(queue, {id}) \in QueueMap /\ id \notin Held(Drop(queue, {id}))
    BY <1>4, MapTypes DEF Drop, Held
  <2>3. RecordedNow'
    BY <1>4, <1>5, <2>1, <2>2, EndRecorded DEF RecordedNow
  <2>4. act'[id].status = "failed" /\ \A x \in ActionId \ {id} : act'[x] = act[x]
    BY <1>4, <2>1 DEF ActionRecord
  <2>5. \A x \in OnRoute(queue') : x \in OnRoute(queue) /\ queue'[x] = queue[x]
    BY <2>1 DEF OnRoute, Long, Held, Drop
  <2> QED BY <1>4, <2>1, <2>3, <2>4, <2>5, CountedKeeps
<1>8. CASE Progresses(id, b)
  <2> DEFINE x == Advanced(e, b, tick)
  <2>1. /\ queue' = Put(queue, id, x) /\ act' = act /\ cell' = Stepped(id, b).cell
        /\ image' = LogProgress(im, id, r.phase, b, tick) /\ CommitsChild(id, b)
    BY <1>8 DEF Progresses, CommitsChild, e, im
  <2>2. Recorded(Put(q, id, Advanced(q[id], b, tick)), Stepped(id, b).cell,
                 LogProgress(im, id, r.phase, b, tick))
    BY <1>3, <1>4, <1>5, <1>6, ProgressRecorded DEF q
  <2>3. RecordedNow'
    BY <1>6, <2>1, <2>2 DEF RecordedNow
  <2>4. x.run.phase = b.next
    BY DEF Advanced
  <2> HIDE DEF x
  <2>5. queue'[id] = x /\ \A y \in ActionId \ {id} : queue'[y] = queue[y]
    BY <1>4, <2>1 DEF Put, QueueMap
  <2>6. CountedNow' /\ EndKept
    BY <1>2, <1>4, <2>1, <2>4, <2>5, CountedDecides
  <2> QED BY <2>3, <2>6
<1>9. CASE Retries(id, b)
  <2> DEFINE n == NextRetry(r, b.next)
             x == Postponed(e, n)
  <2>1. /\ queue' = Put(queue, id, x) /\ act' = act /\ cell' = Stepped(id, b).cell
        /\ image' = LogRetry(im, id, n, tick) /\ CommitsChild(id, b) /\ Policy[b.next] # None
    BY <1>9 DEF Retries, MayRetry, CommitsChild, e, im
  <2>2. n \in RetryRecord /\ Policy[n.phase] # None
    BY <1>3, <1>4, <2>1, NextRetryType
  <2> HIDE DEF n
  <2>3. Recorded(Put(q, id, Postponed(q[id], n)), Stepped(id, b).cell, LogRetry(im, id, n, tick))
    BY <1>4, <1>5, <1>6, <2>2, RetryRecorded DEF q
  <2>4. RecordedNow'
    BY <1>6, <2>1, <2>3 DEF RecordedNow
  <2>5. x.run.phase = r.phase /\ x.run.steps = e.run.steps
    BY <1>3 DEF Postponed, Route
  <2> HIDE DEF x
  <2>6. queue'[id] = x /\ \A y \in ActionId \ {id} : queue'[y] = queue[y]
    BY <1>4, <2>1 DEF Put, QueueMap
  <2>7. CountedNow' /\ EndKept
    BY <1>2, <1>4, <2>1, <2>5, <2>6, CountedDecides DEF e
  <2> QED BY <2>4, <2>7
<1>10. CASE GivesUp(id, b)
  <2>1. /\ queue' = Drop(queue, {id}) /\ cell' = Stepped(id, b).cell
        /\ act' = [act EXCEPT ![id].status = "failed"] /\ CommitsChild(id, b)
        /\ image' = LogEnd(im, id, TRUE, "failed", tick)
    BY <1>10 DEF GivesUp, CommitsChild, im
  <2>2. RecordedNow'
    BY <1>4, <1>5, <1>6, <2>1, EndRecorded DEF RecordedNow, q
  <2>3. act'[id].status = "failed" /\ \A x \in ActionId \ {id} : act'[x] = act[x]
    BY <1>4, <2>1 DEF ActionRecord
  <2>4. id \notin OnRoute(queue') /\ \A x \in ActionId \ {id} : queue'[x] = queue[x]
    BY <1>4, <2>1 DEF OnRoute, Long, Held, Drop
  <2>5. CountedNow' /\ EndKept
    BY <1>2, <2>1, <2>3, <2>4, CountedDecides
  <2> QED BY <2>2, <2>5
<1> QED BY <1>1, <1>7, <1>8, <1>9, <1>10

\* What HistoryInv says of the copies advance() holds.
CopiesCounted ==
  pc = "decide" =>
    /\ Counted(before.queue, before.act, before.effects)
    /\ Recorded(before.queue, before.cell, before.image)

\* HistoryInv is what concerns the popped entries, the effects, the image and
\* the copies.
LEMMA HistoryParts ==
  /\ HistoryInv <=> Scheduled(ready, act) /\ CountedNow /\ RecordedNow /\ CopiesCounted
  /\ HistoryInv' <=> Scheduled(ready, act)' /\ CountedNow' /\ RecordedNow' /\ CopiesCounted'
BY DEF HistoryInv, CountedNow, RecordedNow, CopiesCounted

\* A fresh runtime counted nothing, and an empty log rebuilds it.
LEMMA InitHistory == Init => HistoryInv
<1> SUFFICES ASSUME Init PROVE HistoryInv
  OBVIOUS
<1>1. Held(queue) = {} /\ Held(ready) = {} /\ OnRoute(queue) = {}
  BY DEF Init, Nobody, Held, OnRoute, Long
<1>2. Scheduled(ready, act)
  BY <1>1 DEF Scheduled
<1>3. Terminal \in Phase
  BY GraphAssumption
<1>4. CountedNow
  BY <1>1, <1>3 DEF Init, CountedNow, Counted
<1>5. RecordedNow
  BY <1>1 DEF Init, RecordedNow, Recorded
<1>6. CopiesCounted
  BY DEF Init, CopiesCounted
<1> QED BY <1>2, <1>4, <1>5, <1>6, HistoryParts

\* Between two ticks nothing is popped and there are no copies.
LEMMA IdleHistory ==
  ASSUME TypeOK, pc = "idle", UNCHANGED loop
  PROVE  Scheduled(ready, act)' /\ CopiesCounted'
<1>1. ready' = Nobody /\ pc' = "idle"
  BY DEF TypeOK, loop
<1>2. Held(ready') = {}
  BY <1>1 DEF Held, Nobody
<1> QED BY <1>1, <1>2 DEF Scheduled, CopiesCounted

\* submit() keeps effects and log in step with the queue.
LEMMA SubmitHistory ==
  ASSUME TypeOK, QueueInv, CountedNow, RecordedNow, NEW id \in ActionId, Submit(id)
  PROVE  Scheduled(ready, act)' /\ CountedNow' /\ RecordedNow' /\ CopiesCounted' /\ EndKept
<1>1. PICK a \in Actor, t \in Actor :
        \/ SubmitRefused(id, a, t)
        \/ SubmitLong(id, a, t)
        \/ \E kind \in Kind :
             \/ SubmitNow(id, a, t, kind)
             \/ \E d \in Delays : SubmitDelayed(id, a, t, kind, d)
  BY DEF Submit
<1>2. CanSubmit(id) /\ UNCHANGED loop
  BY <1>1 DEF SubmitRefused, SubmitLong, SubmitNow, SubmitDelayed, Schedule
<1>3. /\ pc = "idle" /\ act[id].status = "new" /\ id \notin Held(queue)
      /\ queue \in QueueMap /\ image \in Image /\ tick \in Nat /\ counter \in Nat
      /\ act \in [ActionId -> ActionRecord]
  BY <1>2 DEF CanSubmit, Idle, TypeOK, QueueInv, Scheduled
<1>4. Scheduled(ready, act)' /\ CopiesCounted'
  BY <1>2, <1>3, IdleHistory
<1>5. CASE SubmitRefused(id, a, t)
  <2>1. /\ act'[id].status = "failed" /\ \A x \in ActionId \ {id} : act'[x] = act[x]
        /\ queue' = queue /\ cell' = cell /\ effects' = effects
    BY <1>3, <1>5, NewType DEF SubmitRefused, Failed, ActionRecord, world
  <2>2. image' = image \/ image' = LogEnd(image, id, TRUE, "failed", tick)
    BY <1>5 DEF SubmitRefused
  <2>3. Recorded(queue, cell, LogEnd(image, id, TRUE, "failed", tick))
    BY <1>3, EndRecorded DEF RecordedNow
  <2>4. RecordedNow'
    BY <2>1, <2>2, <2>3 DEF RecordedNow
  <2>5. CountedNow' /\ EndKept
    BY <1>3, <2>1, CountedKeeps
  <2> QED BY <1>4, <2>4, <2>5
<1>6. ASSUME NEW rec \in ActionRecord, NEW due \in Nat, NEW run \in Route \cup {None},
             Schedule(id, rec, due, run)
      PROVE  CountedNow' /\ RecordedNow' /\ EndKept
  <2> DEFINE x == [due |-> due, order |-> counter + 1, run |-> run]
  <2>1. /\ act'[id].status \in {"scheduled", "parsed"}
        /\ \A y \in ActionId \ {id} : act'[y] = act[y]
    BY <1>3, <1>6 DEF Schedule, ActionRecord
  <2>2. cell' = cell /\ effects' = effects
    BY <1>6 DEF Schedule, world
  <2>3. \/ queue' = queue /\ image' = image
        \/ queue' = Put(queue, id, x) /\ image' = LogScheduled(image, id, due, run, tick)
    BY <1>6 DEF Schedule
  <2>4. counter + 1 \in Nat
    BY <1>3
  <2>5. Recorded(Put(queue, id, x), cell, LogScheduled(image, id, due, run, tick))
    <3> DEFINE order == counter + 1
    <3>1. order \in Nat
      BY <2>4
    <3> HIDE DEF order
    <3>2. Recorded(Put(queue, id, [due |-> due, order |-> order, run |-> run]), cell,
                   LogScheduled(image, id, due, run, tick))
      BY <1>3, <3>1, ScheduledRecorded DEF RecordedNow
    <3> QED BY <3>2 DEF order
  <2> HIDE DEF x
  <2>6. RecordedNow'
    BY <2>2, <2>3, <2>5 DEF RecordedNow
  <2>7. \A y \in OnRoute(queue') :
           y = id \/ (y \in OnRoute(queue) /\ queue'[y] = queue[y])
    BY <1>3, <2>3 DEF OnRoute, Long, Held, Put, QueueMap
  <2>8. CountedNow' /\ EndKept
    BY <1>3, <2>1, <2>2, <2>7, CountedKeeps
  <2> QED BY <2>6, <2>8
<1>7. CASE SubmitLong(id, a, t)
  <2>1. tick + Longest[Entry] \in Nat /\ Fresh(tick) \in Route /\ New(a, t, "long") \in ActionRecord
    BY <1>3, GraphAssumption, FreshType, NewType
  <2> QED BY <1>4, <1>6, <1>7, <2>1 DEF SubmitLong
<1>8. ASSUME NEW kind \in Kind, NEW d \in Delays, SubmitDelayed(id, a, t, kind, d)
      PROVE  CountedNow' /\ RecordedNow' /\ EndKept
  <2>1. tick + d \in Nat /\ New(a, t, kind) \in ActionRecord
    BY <1>3, BoundAssumption, NewType
  <2>2. Schedule(id, New(a, t, kind), tick + d, None)
    BY <1>8 DEF SubmitDelayed
  <2> QED BY <1>6, <2>1, <2>2
<1>9. ASSUME NEW kind \in Kind, SubmitNow(id, a, t, kind)
      PROVE  CountedNow' /\ RecordedNow' /\ EndKept
  <2> DEFINE rec == New(a, t, kind)
  <2>1. rec \in ActionRecord
    BY NewType
  <2>2. \/ Completes(id, rec) \/ CompletesAndRaises(id, rec)
        \/ Rejected(id, rec) \/ RollsBack(id, rec)
    BY <1>9 DEF SubmitNow
  <2> HIDE DEF rec
  <2> QED BY <1>3, <2>1, <2>2, ExecuteHistory
<1> QED BY <1>1, <1>4, <1>5, <1>7, <1>8, <1>9

\* cancel_action() keeps effects and log in step with the queue.
LEMMA CancelHistory ==
  ASSUME TypeOK, QueueInv, CountedNow, RecordedNow, NEW id \in ActionId, Cancel(id)
  PROVE  Scheduled(ready, act)' /\ CountedNow' /\ RecordedNow' /\ CopiesCounted' /\ EndKept
<1>1. /\ pc = "idle" /\ UNCHANGED loop /\ queue' = Drop(queue, {id}) /\ cell' = cell
      /\ effects' = effects /\ image' = LogStop(image, {id}, tick)
      /\ act' = [act EXCEPT ![id].status = "cancelled"] /\ act[id].status = "scheduled"
  BY DEF Cancel, Idle, world, QueueInv, Scheduled
<1>2. queue \in QueueMap /\ image \in Image /\ act \in [ActionId -> ActionRecord]
  BY DEF TypeOK
<1>3. RecordedNow'
  BY <1>1, <1>2, StopRecorded DEF RecordedNow
<1>4. act'[id].status = "cancelled" /\ \A x \in ActionId \ {id} : act'[x] = act[x]
  BY <1>1, <1>2 DEF ActionRecord
<1>5. \A x \in OnRoute(queue') : x \in OnRoute(queue) /\ queue'[x] = queue[x]
  BY <1>1 DEF OnRoute, Long, Held, Drop
<1>6. CountedNow' /\ EndKept
  BY <1>1, <1>4, <1>5, CountedKeeps
<1> QED BY <1>1, <1>3, <1>6, IdleHistory

\* Every step of advance() keeps effects and log in step with the queue, and
\* only the rollback of a tick touches an action that ended.
LEMMA AdvanceHistory ==
  ASSUME TypeOK, QueueInv, ReadyInv, Scheduled(ready, act), CountedNow, RecordedNow,
         CopiesCounted, Advance
  PROVE  /\ Scheduled(ready, act)' /\ CountedNow' /\ RecordedNow' /\ CopiesCounted'
         /\ EndKept \/ TickRollsBack
<1>0. Scheduled(Nobody, act')
  BY DEF Scheduled, Held, Nobody
<1>1. CASE BeginTick
  <2>1. /\ ready' = ready /\ act' = act /\ queue' = queue /\ image' = image
        /\ cell' = cell /\ effects' = effects
        /\ before'.queue = queue /\ before'.act = act /\ before'.effects = effects
        /\ before'.cell = cell /\ before'.image = image
    BY <1>1 DEF BeginTick, world
  <2> QED BY <2>1 DEF Scheduled, CountedNow, RecordedNow, CopiesCounted, EndKept
<1>2. CASE TickLogged
  <2>1. /\ ready' = ready /\ act' = act /\ queue' = queue /\ image' = image
        /\ cell' = cell /\ effects' = effects /\ pc' # "decide"
    BY <1>2 DEF TickLogged, world
  <2> QED BY <2>1 DEF Scheduled, CountedNow, RecordedNow, CopiesCounted, EndKept
<1>3. CASE TickRollsBack
  <2>1. /\ pc = "decide" /\ pc' = "idle" /\ ready' = Nobody
        /\ act' = before.act /\ queue' = before.queue /\ image' = before.image
        /\ cell' = before.cell /\ effects' = before.effects
    BY <1>3 DEF TickRollsBack, Unwind
  <2> QED BY <1>0, <1>3, <2>1 DEF CountedNow, RecordedNow, CopiesCounted
<1>4. CASE PublishHit
  <2>1. /\ pc = "publish" /\ pc' # "decide" /\ ready' = Nobody
        /\ cell' = cell /\ effects' = effects
    BY <1>4 DEF PublishHit, Unwind, TypeOK, world
  <2>2. CASE UNCHANGED <<act, queue, image>>
    BY <1>0, <2>1, <2>2 DEF CountedNow, RecordedNow, CopiesCounted, EndKept
  <2>3. ASSUME NEW target, NEW cause, Interrupt(Interrupted(target, cause), act, image)
        PROVE  CountedNow' /\ RecordedNow' /\ EndKept
    <3> DEFINE S == Interrupted(target, cause)
    <3>1. /\ queue' = Drop(queue, S) /\ image' = LogStop(image, S, tick)
          /\ act' = [q \in ActionId |-> IF q \in S THEN [act[q] EXCEPT !.status = "interrupted"]
                                                   ELSE act[q]]
      BY <2>3 DEF Interrupt
    <3>2. S \subseteq ActionId /\ \A x \in S : act[x].status = "scheduled"
      BY DEF Interrupted, Long, Held, QueueInv, Scheduled
    <3> HIDE DEF S
    <3>3. queue \in QueueMap /\ image \in Image /\ act \in [ActionId -> ActionRecord]
      BY DEF TypeOK
    <3>4. RecordedNow'
      BY <2>1, <3>1, <3>3, StopRecorded DEF RecordedNow
    <3>5. \A x \in ActionId : IF x \in S THEN act'[x].status = "interrupted" ELSE act'[x] = act[x]
      BY <3>1, <3>3 DEF ActionRecord
    <3>6. \A x \in OnRoute(queue') : x \in OnRoute(queue) /\ queue'[x] = queue[x]
      BY <3>1 DEF OnRoute, Long, Held, Drop
    <3>7. CountedNow' /\ EndKept
      BY <2>1, <3>2, <3>5, <3>6, CountedKeeps
    <3> QED BY <3>4, <3>7
  <2> QED BY <1>0, <1>4, <2>1, <2>2, <2>3 DEF PublishHit, CopiesCounted
<1>5. CASE PopReady
  <2> DEFINE due == {id \in Held(queue) : queue[id].due <= tick}
  <2>1. /\ pc' # "decide" /\ act' = act /\ cell' = cell /\ effects' = effects /\ image' = image
        /\ queue' = Drop(queue, due)
        /\ ready' = [id \in ActionId |-> IF id \in due THEN queue[id] ELSE None]
    BY <1>5 DEF PopReady, world
  <2>2. due \subseteq Held(queue)
    OBVIOUS
  <2> HIDE DEF due
  <2>3. Scheduled(ready, act)'
    BY <2>1, <2>2 DEF QueueInv, Scheduled, Held
  <2>4. queue \in QueueMap /\ image \in Image
    BY DEF TypeOK
  <2>5. RecordedNow'
    BY <2>1, <2>4, DropRecorded DEF RecordedNow
  <2>6. \A x \in OnRoute(queue') : x \in OnRoute(queue) /\ queue'[x] = queue[x]
    BY <2>1 DEF OnRoute, Long, Held, Drop
  <2>7. CountedNow' /\ EndKept
    BY <2>1, <2>6, CountedKeeps
  <2> QED BY <2>1, <2>3, <2>5, <2>7 DEF CopiesCounted
<1>6. ASSUME NEW id \in ActionId, Decide(id)
      PROVE  /\ Scheduled(ready, act)' /\ CountedNow' /\ RecordedNow' /\ CopiesCounted'
             /\ EndKept
  <2>1. UNCHANGED <<pc, ready, before>> /\ pc = "decide"
    BY <1>6 DEF Decide, ChildFails, Progresses, Retries, GivesUp, Turn
  <2>2. ready' = Nobody
    BY <2>1 DEF TypeOK
  <2> QED BY <1>0, <1>6, <2>1, <2>2, DecideHistory DEF CopiesCounted
<1>7. ASSUME NEW id \in ActionId, ExecuteReady(id)
      PROVE  /\ Scheduled(ready, act)' /\ CountedNow' /\ RecordedNow' /\ CopiesCounted'
             /\ EndKept
  <2>1. /\ id \in Held(ready) /\ id \notin Held(queue) /\ act[id] \in ActionRecord
        /\ act[id].status = "scheduled" /\ pc' # "decide"
        /\ \/ Completes(id, act[id]) \/ CompletesAndRaises(id, act[id])
           \/ Rejected(id, act[id]) \/ RollsBack(id, act[id])
        /\ ready' = Nobody \/ ready' = Drop(ready, {id})
    BY <1>7 DEF ExecuteReady, Unwind, ReadyInv, TypeOK, Scheduled
  <2>2. /\ CountedNow' /\ RecordedNow' /\ EndKept
        /\ \A x \in ActionId \ {id} : x \notin Held(queue) => act'[x] = act[x]
    BY <2>1, ExecuteHistory
  <2>3. Scheduled(Drop(ready, {id}), act')
    <3>1. \A x \in Held(Drop(ready, {id})) : x \in ActionId \ {id} /\ x \in Held(ready)
      BY DEF Held, Drop
    <3>2. \A x \in Held(Drop(ready, {id})) : act'[x] = act[x]
      BY <2>2, <3>1 DEF ReadyInv
    <3> QED BY <3>1, <3>2 DEF Scheduled
  <2> QED BY <1>0, <2>1, <2>2, <2>3 DEF CopiesCounted
<1> QED BY <1>1, <1>2, <1>3, <1>4, <1>5, <1>6, <1>7 DEF Advance

\* Every step of the kernel does, and the rollback of a tick alone brings an
\* action that ended back.
LEMMA HistoryStep ==
  TypeOK /\ KernelInv /\ HistoryInv /\ [Next]_vars => HistoryInv' /\ (EndKept \/ TickRollsBack)
<1> SUFFICES ASSUME TypeOK, QueueInv, ReadyInv, Scheduled(ready, act), CountedNow, RecordedNow,
                    CopiesCounted, [Next]_vars
             PROVE  /\ Scheduled(ready, act)' /\ CountedNow' /\ RecordedNow' /\ CopiesCounted'
                    /\ EndKept \/ TickRollsBack
  BY InvParts, HistoryParts
<1>1. CASE Advance
  BY <1>1, AdvanceHistory
<1>2. ASSUME NEW id \in ActionId, Submit(id) \/ Cancel(id)
      PROVE  /\ Scheduled(ready, act)' /\ CountedNow' /\ RecordedNow' /\ CopiesCounted'
             /\ EndKept
  BY <1>2, SubmitHistory, CancelHistory
<1>3. CASE UNCHANGED vars
  BY <1>3 DEF vars, Scheduled, CountedNow, RecordedNow, CopiesCounted, EndKept
<1> QED BY <1>1, <1>2, <1>3 DEF Next

\* The effects an action had and the log that was written stay in step with
\* the queue, within a tick and in the copies a failed batch brings back.
THEOREM History == Spec => []HistoryInv
<1>1. Init => TypeOK /\ KernelInv /\ HistoryInv
  BY InitType, InitInv, InitHistory
<1>2. (TypeOK /\ KernelInv /\ HistoryInv) /\ [Next]_vars => (TypeOK /\ KernelInv /\ HistoryInv)'
  BY TypeStep, InvStep, HistoryStep
<1> QED BY <1>1, <1>2, PTL DEF Spec

\* The child of a phase takes effect at most once, whatever the number of
\* retries of the gate behind it and of ticks that were rolled back, and the
\* completion effect exactly when the action completed.
THEOREM EffectsOnceHolds == Spec => []EffectsOnce
<1>1. HistoryInv => EffectsOnce
  BY DEF HistoryInv, Counted, EffectsOnce
<1> QED BY <1>1, History, PTL

\* Whatever appends fail, a log that replay() accepts rebuilds the cells and
\* every entry of the live queue with its route and due tick.
THEOREM LoggedWorkHolds == Spec => []LoggedWork
<1>1. HistoryInv => LoggedWork
  BY DEF HistoryInv, Recorded, LoggedWork
<1> QED BY <1>1, History, PTL

\* An action that ended keeps its status, has no further effect and never comes
\* back to the queue, but for the tick whose batch could not be appended.
THEOREM EndIsFinal == Spec => EndedStaysEnded
<1>1. TypeOK /\ KernelInv /\ HistoryInv /\ [Next]_vars =>
        [ \A id \in ActionId :
            act[id].status \in Ended =>
              \/ act'[id].status = act[id].status /\ effects'[id] = effects[id] /\ queue'[id] = None
              \/ /\ pc = "decide"
                 /\ act' = before.act /\ queue' = before.queue /\ cell' = before.cell ]_vars
  <2> SUFFICES ASSUME TypeOK, KernelInv, HistoryInv, [Next]_vars,
                      NEW id \in ActionId, act[id].status \in Ended
               PROVE  \/ /\ act'[id].status = act[id].status /\ effects'[id] = effects[id]
                         /\ queue'[id] = None
                      \/ /\ pc = "decide"
                         /\ act' = before.act /\ queue' = before.queue /\ cell' = before.cell
    OBVIOUS
  <2>1. CASE EndKept
    <3>1. act'[id].status = act[id].status /\ effects'[id] = effects[id]
      BY <2>1 DEF EndKept
    <3>2. \A x \in Held(queue') : act'[x].status = "scheduled"
      BY InvStep DEF KernelInv, Scheduled
    <3>3. queue'[id] = None
      BY <3>1, <3>2 DEF Held, Ended
    <3> QED BY <3>1, <3>3
  <2>2. CASE TickRollsBack
    BY <2>2 DEF TickRollsBack
  <2> QED BY <2>1, <2>2, HistoryStep
<1> QED BY <1>1, Typing, Invariance, History, PTL DEF Spec, EndedStaysEnded

-----------------------------------------------------------------------------
(* Induction, by way of the least counterexample.                          *)

\* A set of naturals that has a member has a least one.
LEMMA Least == ASSUME NEW S \in SUBSET Nat, S # {} PROVE \E m \in S : \A i \in S : m <= i
<1> DEFINE R == OpToRel(<, Nat)
<1>1. IsWellFoundedOn(R, Nat)
  BY ZenonT(30), NatLessThanWellFounded
<1>2. \A i, m \in Nat : i < m => <<i, m>> \in R
  BY DEF OpToRel
<1> HIDE DEF R
<1>3. PICK m \in S : \A i \in S : <<i, m>> \notin R
  BY <1>1, WFMin
<1>4. m \in Nat /\ \A i \in S : i \in Nat /\ ~(i < m)
  BY <1>2, <1>3
<1> QED BY <1>4

-----------------------------------------------------------------------------
(* Picking the members of a set out of a sequence.                         *)

\* f[i] is what is picked of the first i members of s.
Picks(f, n, s, D, P) ==
  /\ f \in [0 .. n -> Seq(P)] /\ f[0] = <<>>
  /\ \A i \in 1 .. n : f[i] = IF s[i] \in D THEN Append(f[i - 1], s[i]) ELSE f[i - 1]

\* There is such a function for every beginning of s.
LEMMA PicksExist ==
  ASSUME NEW P, NEW s \in Seq(P), NEW D, NEW n \in 0 .. Len(s)
  PROVE  \E f : Picks(f, n, s, D, P)
<1> DEFINE Bad == {k \in 0 .. Len(s) : ~ \E f : Picks(f, k, s, D, P)}
<1> SUFFICES ASSUME Bad # {} PROVE FALSE
  OBVIOUS
<1>1. PICK k \in Bad : \A i \in Bad : k <= i
  <2>1. Bad \in SUBSET Nat
    OBVIOUS
  <2> HIDE DEF Bad
  <2> QED BY <2>1, Least
<1>2. k # 0
  <2>1. Picks([i \in 0 .. 0 |-> <<>>], 0, s, D, P)
    BY DEF Picks
  <2> QED BY <2>1
<1>3. k \in 1 .. Len(s) /\ k - 1 \in 0 .. Len(s) /\ k - 1 \notin Bad
  BY SMTT(30), <1>1, <1>2
<1>4. PICK f : Picks(f, k - 1, s, D, P)
  BY <1>3
<1> DEFINE last == IF s[k] \in D THEN Append(f[k - 1], s[k]) ELSE f[k - 1]
           g == [i \in 0 .. k |-> IF i = k THEN last ELSE f[i]]
<1>5. last \in Seq(P)
  <2>1. s[k] \in P /\ f[k - 1] \in Seq(P)
    BY <1>3, <1>4 DEF Picks
  <2> QED BY <2>1
<1>6. g \in [0 .. k -> Seq(P)] /\ g[0] = <<>> /\ g[k] = last
      /\ \A i \in 0 .. k - 1 : g[i] = f[i]
  <2>1. /\ \A i \in 0 .. k : i # k => i \in 0 .. k - 1
        /\ \A i \in 0 .. k - 1 : i \in 0 .. k /\ i # k
        /\ k \in 0 .. k /\ 0 \in 0 .. k - 1
    BY <1>3
  <2>2. f \in [0 .. k - 1 -> Seq(P)] /\ f[0] = <<>>
    BY <1>4 DEF Picks
  <2> HIDE DEF last
  <2>3. \A i \in 0 .. k : (IF i = k THEN last ELSE f[i]) \in Seq(P)
    BY <1>5, <2>1, <2>2
  <2>4. g \in [0 .. k -> Seq(P)]
    BY <2>3
  <2>5. g[k] = last /\ \A i \in 0 .. k - 1 : g[i] = f[i]
    BY <2>1
  <2> QED BY <2>1, <2>2, <2>4, <2>5
<1> HIDE DEF g
<1>7. ASSUME NEW i \in 1 .. k
      PROVE  g[i] = IF s[i] \in D THEN Append(g[i - 1], s[i]) ELSE g[i - 1]
  <2>1. g[i - 1] = f[i - 1]
    <3>1. i - 1 \in 0 .. k - 1
      BY <1>3
    <3> QED BY <1>6, <3>1
  <2>2. CASE i = k
    BY <1>6, <2>1, <2>2
  <2>3. CASE i # k
    <3>1. i \in 1 .. k - 1 /\ i \in 0 .. k - 1
      BY <1>3, <2>3
    <3> QED BY <1>4, <1>6, <2>1, <3>1 DEF Picks
  <2> QED BY <2>2, <2>3
<1>8. Picks(g, k, s, D, P)
  BY <1>6, <1>7 DEF Picks
<1> QED BY <1>1, <1>8

\* The choices along two sequences that agree are the same.
LEMMA PicksAgree ==
  ASSUME NEW P, NEW s, NEW t, NEW D, NEW E, NEW n \in Nat, NEW m \in Nat,
         NEW f, Picks(f, n, s, D, P), NEW g, Picks(g, m, t, E, P),
         NEW k \in Nat, k <= n, k <= m,
         \A i \in 1 .. k : s[i] = t[i] /\ (s[i] \in D <=> t[i] \in E)
  PROVE  f[k] = g[k]
<1> DEFINE Bad == {i \in 0 .. k : f[i] # g[i]}
<1> SUFFICES ASSUME Bad # {} PROVE FALSE
  OBVIOUS
<1>1. PICK j \in Bad : \A i \in Bad : j <= i
  <2>1. Bad \in SUBSET Nat
    OBVIOUS
  <2> HIDE DEF Bad
  <2> QED BY <2>1, Least
<1>2. j # 0
  BY DEF Picks
<1>3. j \in 1 .. k /\ j \in 1 .. n /\ j \in 1 .. m /\ j - 1 \in 0 .. k /\ j - 1 \notin Bad
  BY <1>1, <1>2
<1>4. f[j - 1] = g[j - 1]
  BY <1>3
<1>5. f[j] = g[j]
  BY <1>3, <1>4 DEF Picks
<1> QED BY <1>5

\* Picked is the last of these choices.
LEMMA PickedIs ==
  ASSUME NEW P, NEW s \in Seq(P), NEW D, NEW f, Picks(f, Len(s), s, D, P)
  PROVE  Picked(s, D) = f[Len(s)]
<1> DEFINE Eq(h) == h = [i \in 0 .. Len(s) |->
              IF i = 0 THEN <<>>
              ELSE IF s[i] \in D THEN Append(h[i - 1], s[i]) ELSE h[i - 1]]
           pick == CHOOSE h : Eq(h)
<1>1. Len(s) \in Nat
  OBVIOUS
<1>2. Eq(f)
  <2> DEFINE h == [i \in 0 .. Len(s) |->
              IF i = 0 THEN <<>>
              ELSE IF s[i] \in D THEN Append(f[i - 1], s[i]) ELSE f[i - 1]]
  <2>1. \A i \in 0 .. Len(s) : f[i] = h[i]
    <3> SUFFICES ASSUME NEW i \in 0 .. Len(s) PROVE f[i] = h[i]
      OBVIOUS
    <3>1. i = 0 \/ i \in 1 .. Len(s)
      BY <1>1
    <3> QED BY <3>1 DEF Picks
  <2>2. f = [i \in 0 .. Len(s) |-> f[i]]
    BY DEF Picks
  <2>3. h = [i \in 0 .. Len(s) |-> h[i]]
    OBVIOUS
  <2> HIDE DEF h
  <2>4. f = h
    BY <2>1, <2>2, <2>3
  <2> QED BY <2>4 DEF h
<1>3. Eq(pick)
  <2> HIDE DEF Eq
  <2> QED BY <1>2
<1>4. Picked(s, D) = pick[Len(s)]
  BY DEF Picked
<1> HIDE DEF pick
<1>5. pick = [i \in 0 .. Len(s) |->
                IF i = 0 THEN <<>>
                ELSE IF s[i] \in D THEN Append(pick[i - 1], s[i]) ELSE pick[i - 1]]
  BY <1>3
<1> DEFINE Bad == {i \in 0 .. Len(s) : pick[i] # f[i]}
<1>6. Bad = {}
  <2> SUFFICES ASSUME Bad # {} PROVE FALSE
    OBVIOUS
  <2>1. PICK j \in Bad : \A i \in Bad : j <= i
    <3>1. Bad \in SUBSET Nat
      BY <1>1
    <3> HIDE DEF Bad
    <3> QED BY <3>1, Least
  <2>2. j # 0
    BY <1>1, <1>5 DEF Picks
  <2>3. j \in 1 .. Len(s) /\ j - 1 \in 0 .. Len(s) /\ j - 1 \notin Bad
    BY <1>1, <2>1, <2>2
  <2>4. pick[j - 1] = f[j - 1]
    BY <2>3
  <2>5. pick[j] = IF s[j] \in D THEN Append(pick[j - 1], s[j]) ELSE pick[j - 1]
    BY <1>5, <2>2, <2>1
  <2>6. pick[j] = f[j]
    BY <2>3, <2>4, <2>5 DEF Picks
  <2> QED BY <2>6
<1> QED BY <1>1, <1>4, <1>6

\* What is picked is a sequence, and only what the set says of the members of
\* the sequence matters.
LEMMA PickedSame ==
  ASSUME NEW P, NEW s \in Seq(P), NEW D, NEW E, \A i \in 1 .. Len(s) : s[i] \in D <=> s[i] \in E
  PROVE  Picked(s, D) \in Seq(P) /\ Picked(s, D) = Picked(s, E)
<1>1. Len(s) \in Nat /\ Len(s) \in 0 .. Len(s)
  OBVIOUS
<1>2. PICK f : Picks(f, Len(s), s, D, P)
  BY <1>1, PicksExist
<1>3. PICK g : Picks(g, Len(s), s, E, P)
  BY <1>1, PicksExist
<1>4. f[Len(s)] = g[Len(s)]
  <2> DEFINE n == Len(s)
  <2>1. /\ n \in Nat /\ n <= n /\ Picks(f, n, s, D, P) /\ Picks(g, n, s, E, P)
        /\ \A i \in 1 .. n : s[i] = s[i] /\ (s[i] \in D <=> s[i] \in E)
    BY <1>1, <1>2, <1>3
  <2> HIDE DEF n
  <2>2. f[n] = g[n]
    BY <2>1, PicksAgree
  <2> QED BY <2>2 DEF n
<1>5. Picked(s, D) = f[Len(s)] /\ Picked(s, E) = g[Len(s)]
  BY <1>2, <1>3, PickedIs
<1> QED BY <1>1, <1>2, <1>4, <1>5 DEF Picks

\* One member more is picked exactly if it is in the set.
LEMMA PickedAppend ==
  ASSUME NEW P, NEW s \in Seq(P), NEW p \in P, NEW D
  PROVE  /\ Picked(<<>>, D) = <<>>
         /\ Picked(Append(s, p), D) = IF p \in D THEN Append(Picked(s, D), p) ELSE Picked(s, D)
<1> DEFINE t == Append(s, p)
           n == Len(s)
<1>1. /\ n \in Nat /\ n \in 0 .. n /\ t \in Seq(P) /\ Len(t) = n + 1 /\ t[n + 1] = p
      /\ \A i \in 1 .. n : t[i] = s[i]
  OBVIOUS
<1>2. PICK f : Picks(f, n, s, D, P)
  BY <1>1, PicksExist
<1>3. PICK g : Picks(g, n + 1, t, D, P)
  <2>1. n + 1 \in 0 .. Len(t)
    BY <1>1
  <2> QED BY <1>1, <2>1, PicksExist
<1>4. Picked(s, D) = f[n]
  BY <1>2, PickedIs
<1>5. Picked(t, D) = g[n + 1]
  BY <1>1, <1>3, PickedIs
<1> HIDE DEF t, n
<1>6. f[n] = g[n]
  <2> DEFINE m == n + 1
  <2>1. /\ n \in Nat /\ m \in Nat /\ n <= m /\ n <= n /\ Picks(g, m, t, D, P)
        /\ \A i \in 1 .. n : s[i] = t[i] /\ (s[i] \in D <=> t[i] \in D)
    BY <1>1, <1>3
  <2> HIDE DEF m
  <2> QED BY <1>2, <2>1, PicksAgree
<1>7. g[n + 1] = IF p \in D THEN Append(g[n], p) ELSE g[n]
  <2>1. n + 1 \in 1 .. n + 1 /\ (n + 1) - 1 = n
    BY <1>1
  <2> QED BY <1>1, <1>3, <2>1 DEF Picks
<1>8. Picked(<<>>, D) = <<>>
  <2>1. Picks([i \in 0 .. 0 |-> <<>>], 0, <<>>, D, P)
    BY DEF Picks
  <2>2. <<>> \in Seq(P) /\ Len(<<>>) = 0
    OBVIOUS
  <2>3. Picks([i \in 0 .. 0 |-> <<>>], Len(<<>>), <<>>, D, P)
    BY <2>1, <2>2
  <2>4. Picked(<<>>, D) = [i \in 0 .. 0 |-> <<>>][Len(<<>>)]
    BY <2>2, <2>3, PickedIs
  <2> QED BY <2>2, <2>4
<1> QED BY <1>4, <1>5, <1>6, <1>7, <1>8 DEF t

-----------------------------------------------------------------------------
(* What a route has behind it.                                             *)

\* A route whose cursor's branch is selected and whose child, if any, ran.
Left(s, b) ==
  LET v == s.visited
      n == Len(v)
  IN  /\ n > 0 /\ v[1] = Entry /\ v[n] = s.phase
      /\ \A i, j \in 1 .. n : i < j => Longest[v[i]] > Longest[v[j]]
      /\ \A i \in 1 .. n - 1 : s.branch[v[i]] # None /\ s.branch[v[i]].next = v[i + 1]
      /\ \A p \in Phase : s.branch[p] # None => \E i \in 1 .. n : v[i] = p
      /\ s.branch[s.phase] = b
      /\ s.steps = Authored(s)
      /\ \A i \in DOMAIN s.steps :
           \/ s.steps[i] = s.phase /\ s.phase \in Parents(s)
           \/ Longest[s.steps[i]] > Longest[s.phase]
      /\ s.phase \in Parents(s) => \E i \in DOMAIN s.steps : s.steps[i] = s.phase

\* A new route has its entry phase behind it and nothing else.
LEMMA FreshTravelled ==
  ASSUME NEW t \in Nat
  PROVE  Travelled(Fresh(t)) /\ Retrying(Fresh(t))
<1> DEFINE r == Fresh(t)
<1>1. /\ r.visited = <<Entry>> /\ r.phase = Entry /\ r.retry = None /\ r.steps = <<>>
      /\ r.branch = [p \in Phase |-> None]
  BY DEF Fresh
<1>2. Entry \in Phase /\ Longest \in [Phase -> Nat]
  BY GraphAssumption
<1>3. Parents(r) = {}
  BY <1>1 DEF Parents
<1>4. Authored(r) = <<>>
  <2>1. <<>> \in Seq(Phase) /\ <<Entry>> = Append(<<>>, Entry)
    BY <1>2
  <2>2. Picked(Append(<<>>, Entry), {}) = <<>>
    <3> DEFINE none == {}
    <3>1. Entry \notin none
      OBVIOUS
    <3> HIDE DEF none
    <3>2. Picked(Append(<<>>, Entry), none) = <<>>
      BY <1>2, <2>1, <3>1, PickedAppend
    <3> QED BY <3>2 DEF none
  <2> QED BY <1>1, <1>3, <2>1, <2>2 DEF Authored
<1> HIDE DEF r
<1>5. Len(r.visited) = 1 /\ r.visited[1] = Entry /\ DOMAIN r.steps = {}
  BY <1>1, <1>2
<1>6. /\ \A i, j \in 1 .. 1 : i < j => Longest[r.visited[i]] > Longest[r.visited[j]]
      /\ \A i \in 1 .. 1 - 1 : r.branch[r.visited[i]] # None /\ r.branch[r.visited[i]].next = r.visited[i + 1]
  OBVIOUS
<1>7. Travelled(r)
  BY <1>1, <1>2, <1>3, <1>4, <1>5, <1>6 DEF Travelled
<1>8. Retrying(r)
  BY <1>1 DEF Retrying
<1> QED BY <1>7, <1>8 DEF r

\* What an order of phases that come closer to the end says of its last one.
LEMMA LastIsClosest ==
  ASSUME NEW v \in Seq(Phase), Len(v) > 0,
         \A i, j \in 1 .. Len(v) : i < j => Longest[v[i]] > Longest[v[j]]
  PROVE  /\ \A i \in 1 .. Len(v) : v[i] \in Phase /\ Longest[v[i]] \in Nat
         /\ \A i \in 1 .. Len(v) - 1 : Longest[v[i]] > Longest[v[Len(v)]] /\ v[i] # v[Len(v)]
         /\ \A i, j \in 1 .. Len(v) : v[i] = v[j] => i = j
<1>1. \A i \in 1 .. Len(v) : v[i] \in Phase /\ Longest[v[i]] \in Nat
  BY GraphAssumption
<1>2. \A i \in 1 .. Len(v) - 1 : Longest[v[i]] > Longest[v[Len(v)]]
  <2> SUFFICES ASSUME NEW i \in 1 .. Len(v) - 1 PROVE Longest[v[i]] > Longest[v[Len(v)]]
    OBVIOUS
  <2>1. i \in 1 .. Len(v) /\ Len(v) \in 1 .. Len(v) /\ i < Len(v)
    OBVIOUS
  <2> QED BY <2>1
<1>3. \A i \in 1 .. Len(v) - 1 : v[i] # v[Len(v)]
  <2> SUFFICES ASSUME NEW i \in 1 .. Len(v) - 1, v[i] = v[Len(v)] PROVE FALSE
    OBVIOUS
  <2>1. i \in 1 .. Len(v) /\ Longest[v[i]] \in Nat
    BY <1>1
  <2> QED BY <1>2, <2>1
<1>4. ASSUME NEW i \in 1 .. Len(v), NEW j \in 1 .. Len(v), v[i] = v[j] PROVE i = j
  <2>1. Longest[v[i]] \in Nat
    BY <1>1
  <2>2. ~(i < j) /\ ~(j < i)
    BY <1>4, <2>1
  <2> QED BY <2>2
<1> QED BY <1>1, <1>2, <1>3, <1>4

\* Selecting a branch at the cursor adds its phase to the parents, or not.
LEMMA ChosenParents ==
  ASSUME NEW r \in Route, NEW b \in BranchSet
  PROVE  /\ \A p \in Phase : p # r.phase => (p \in Parents(Chosen(r, b)) <=> p \in Parents(r))
         /\ r.phase \in Parents(Chosen(r, b)) <=> b.child # NoChild
<1>1. r.phase \in Phase /\ r.branch \in [Phase -> BranchSet \cup {None}] /\ b # None
  BY NoneAssumption DEF Route
<1>2. Chosen(r, b).branch = [r.branch EXCEPT ![r.phase] = b]
  BY DEF Chosen, Route
<1> QED BY <1>1, <1>2 DEF Parents

\* The decision at a boundary, up to its outcome, of a route that is on track.
LEMMA SteppedLeft ==
  ASSUME TypeOK, QueueInv, NEW id \in todo, NEW b, Turn(id, b), Travelled(queue[id].run)
  PROVE  /\ Left(Stepped(id, b).entry.run, b)
         /\ RunsChild(queue[id].run, b) <=> (queue[id].run.branch[queue[id].run.phase] = None /\ b.child # NoChild)
<1> DEFINE r == queue[id].run
           c == Chosen(r, b)
           d == StepDone(c, r.phase)
           s == Stepped(id, b).entry.run
           v == r.visited
           n == Len(v)
<1>1. /\ r \in Route /\ queue[id] \in QueueEntry /\ r.phase \in Phase
      /\ b \in BranchSet /\ b # None /\ v \in Seq(Phase) /\ n \in Nat /\ r.steps \in Seq(Phase)
      /\ r.branch \in [Phase -> BranchSet \cup {None}]
  BY SteppedSteps, SteppedEntry, NoneAssumption DEF Route
<1>2. /\ n > 0 /\ v[n] = r.phase
      /\ \A i, j \in 1 .. n : i < j => Longest[v[i]] > Longest[v[j]]
      /\ r.steps = Authored(r)
  BY DEF Travelled
<1>3. /\ \A i \in 1 .. n : v[i] \in Phase /\ Longest[v[i]] \in Nat
      /\ \A i \in 1 .. n - 1 : v[i] # r.phase
  BY <1>1, <1>2, LastIsClosest
<1>4. /\ c \in Route /\ c.phase = r.phase /\ c.visited = v /\ c.steps = r.steps
      /\ c.branch = [r.branch EXCEPT ![r.phase] = b]
  BY ZenonT(30), <1>1, RouteTypes DEF Chosen, Route
<1>5. /\ d.phase = r.phase /\ d.visited = v /\ d.steps = Append(r.steps, r.phase)
      /\ d.branch = c.branch /\ Parents(d) = Parents(c)
  BY <1>4 DEF StepDone, Route, Parents
<1>6. s = IF RunsChild(r, b) THEN d ELSE c
  <2>1. \A x : WithRun(queue[id], x).run = x
    BY <1>1 DEF WithRun, QueueEntry
  <2>2. Stepped(id, b).entry = WithRun(queue[id], IF RunsChild(r, b) THEN d ELSE c)
    BY DEF Stepped
  <2> HIDE DEF c, d
  <2> QED BY <2>1, <2>2
<1>7. /\ s.phase = r.phase /\ s.visited = v /\ s.branch = c.branch /\ Parents(s) = Parents(c)
      /\ s.steps = IF RunsChild(r, b) THEN Append(r.steps, r.phase) ELSE r.steps
  BY ZenonT(30), <1>4, <1>5, <1>6
\* The parents among the phases before the cursor are the same.
<1>8. /\ \A p \in Phase : p # r.phase => (p \in Parents(c) <=> p \in Parents(r))
      /\ r.phase \in Parents(c) <=> b.child # NoChild
      /\ r.phase \in Parents(r) => r.branch[r.phase] # None
  BY <1>1, ChosenParents DEF Parents
<1>9. CASE r.branch[r.phase] # None
  <2>1. b = r.branch[r.phase]
    BY <1>9 DEF Turn, Takes
  <2>2. c = r
    BY <1>1, <2>1 DEF Chosen, Route
  <2>3. ~RunsChild(r, b)
    BY ZenonT(30), <1>1, <1>9, <2>1 DEF RunsChild, Travelled, Parents
  <2>4. s = r
    BY <1>6, <2>2, <2>3
  <2>5. Left(r, b)
    <3>1. Travelled(r) /\ r.branch[r.phase] = b
      BY <2>1
    <3> HIDE DEF r
    <3> QED BY <3>1 DEF Left, Travelled
  <2> QED BY <1>9, <2>3, <2>4, <2>5
<1>10. CASE r.branch[r.phase] = None
  <2>1. r.phase \notin Parents(r)
    BY <1>8, <1>10
  <2>2. \A i \in DOMAIN r.steps : Longest[r.steps[i]] > Longest[r.phase]
    BY <2>1 DEF Travelled
  <2>3. \A i \in DOMAIN r.steps : r.steps[i] # r.phase
    <3>1. Longest[r.phase] \in Nat
      BY <1>1, GraphAssumption
    <3> QED BY <2>2, <3>1
  <2>4. RunsChild(r, b) <=> b.child # NoChild
    BY <2>3 DEF RunsChild
  <2> DEFINE u == [i \in 1 .. n - 1 |-> v[i]]
  <2>5. /\ u \in Seq(Phase) /\ Len(u) = n - 1 /\ \A i \in 1 .. n - 1 : u[i] = v[i]
        /\ v = Append(u, r.phase)
    <3> HIDE DEF v
    <3>1. u \in Seq(Phase) /\ Len(u) = n - 1 /\ \A i \in 1 .. n - 1 : u[i] = v[i]
      <4>1. n - 1 \in Nat /\ \A i \in 1 .. n - 1 : v[i] \in Phase
        BY <1>1, <1>2
      <4> QED BY <4>1
    <3> HIDE DEF u
    <3>2. Append(u, v[n]) \in Seq(Phase) /\ Len(Append(u, v[n])) = n
          /\ \A i \in 1 .. n : Append(u, v[n])[i] = v[i]
      BY <1>1, <1>2, <3>1
    <3>3. v = Append(u, v[n])
      <4> DEFINE w == Append(u, v[n])
      <4>1. /\ w \in Seq(Phase) /\ v \in Seq(Phase) /\ Len(w) = Len(v)
            /\ \A i \in 1 .. Len(w) : w[i] = v[i]
        BY <1>1, <3>2
      <4> HIDE DEF w
      <4>2. w = v
        BY <4>1, SeqEqual
      <4> QED BY <4>2 DEF w
    <3> QED BY <1>2, <3>1, <3>3
  <2> HIDE DEF u
  <2>6. \A i \in 1 .. Len(u) : u[i] \in Parents(c) <=> u[i] \in Parents(r)
    <3> SUFFICES ASSUME NEW i \in 1 .. Len(u) PROVE u[i] \in Parents(c) <=> u[i] \in Parents(r)
      OBVIOUS
    <3>1. i \in 1 .. n - 1 /\ i \in 1 .. n /\ u[i] = v[i]
      BY <1>1, <2>5
    <3>2. u[i] \in Phase /\ u[i] # r.phase
      BY <1>3, <3>1
    <3> QED BY <1>8, <3>2
  <2>7. Picked(u, Parents(c)) = Picked(u, Parents(r))
    BY <2>5, <2>6, PickedSame
  <2>8. r.steps = Picked(u, Parents(r))
    <3>1. Picked(Append(u, r.phase), Parents(r)) = Picked(u, Parents(r))
      BY <1>1, <2>1, <2>5, PickedAppend
    <3> QED BY <1>2, <2>5, <3>1 DEF Authored
  <2>9. Picked(v, Parents(c)) = IF r.phase \in Parents(c) THEN Append(r.steps, r.phase) ELSE r.steps
    <3>1. Picked(Append(u, r.phase), Parents(c))
            = IF r.phase \in Parents(c) THEN Append(Picked(u, Parents(c)), r.phase)
                                        ELSE Picked(u, Parents(c))
      <4> DEFINE D == Parents(c)
                 p == r.phase
      <4>1. p \in Phase
        BY <1>1
      <4> HIDE DEF D, p
      <4>2. Picked(Append(u, p), D) = IF p \in D THEN Append(Picked(u, D), p) ELSE Picked(u, D)
        BY <2>5, <4>1, PickedAppend
      <4> QED BY <4>2 DEF D, p
    <3> QED BY <2>5, <2>7, <2>8, <3>1
  <2>10. s.steps = Authored(s)
    BY <1>7, <1>8, <2>4, <2>9 DEF Authored
  <2>11. \A i \in DOMAIN s.steps :
            \/ s.steps[i] = r.phase /\ r.phase \in Parents(s)
            \/ Longest[s.steps[i]] > Longest[r.phase]
    <3>1. CASE RunsChild(r, b)
      <4>1. s.steps = Append(r.steps, r.phase) /\ r.phase \in Parents(s)
        BY <1>7, <1>8, <2>4, <3>1
      <4>2. \A i \in DOMAIN s.steps : s.steps[i] = r.phase \/ (i \in DOMAIN r.steps /\ s.steps[i] = r.steps[i])
        <5> DEFINE w == r.steps
                   z == s.steps
                   p == r.phase
        <5>1. w \in Seq(Phase) /\ z = Append(w, p) /\ p \in Phase
          BY <1>1, <4>1
        <5> HIDE DEF w, z, p
        <5>2. \A i \in DOMAIN z : z[i] = p \/ (i \in DOMAIN w /\ z[i] = w[i])
          BY <5>1
        <5> QED BY <5>2 DEF w, z, p
      <4> QED BY ZenonT(30), <2>2, <4>1, <4>2
    <3>2. CASE ~RunsChild(r, b)
      BY <1>7, <2>2, <3>2
    <3> QED BY <3>1, <3>2
  <2>12. r.phase \in Parents(s) => \E i \in DOMAIN s.steps : s.steps[i] = r.phase
    <3> SUFFICES ASSUME r.phase \in Parents(s) PROVE \E i \in DOMAIN s.steps : s.steps[i] = r.phase
      OBVIOUS
    <3>1. s.steps = Append(r.steps, r.phase)
      BY <1>7, <1>8, <2>4
    <3>2. Len(r.steps) + 1 \in DOMAIN s.steps /\ s.steps[Len(r.steps) + 1] = r.phase
      <4> DEFINE w == r.steps
                 z == s.steps
                 p == r.phase
      <4>1. w \in Seq(Phase) /\ z = Append(w, p) /\ p \in Phase
        BY <1>1, <3>1
      <4> HIDE DEF w, z, p
      <4>2. Len(w) + 1 \in DOMAIN z /\ z[Len(w) + 1] = p
        BY <4>1
      <4> QED BY <4>2 DEF w, z, p
    <3> QED BY <3>2
  <2>13. /\ s.branch[r.phase] = b
         /\ \A p \in Phase : p # r.phase => s.branch[p] = r.branch[p]
    BY <1>1, <1>4, <1>7
  <2>14. \A i \in 1 .. n - 1 : s.branch[v[i]] # None /\ s.branch[v[i]].next = v[i + 1]
    <3> SUFFICES ASSUME NEW i \in 1 .. n - 1
                 PROVE  s.branch[v[i]] # None /\ s.branch[v[i]].next = v[i + 1]
      BY ZenonT(30)
    <3>1. i \in 1 .. n /\ v[i] \in Phase /\ v[i] # r.phase
      BY <1>1, <1>3
    <3>2. r.branch[v[i]] # None /\ r.branch[v[i]].next = v[i + 1]
      BY DEF Travelled
    <3> QED BY ZenonT(30), <2>13, <3>1, <3>2
  <2>15. \A p \in Phase : s.branch[p] # None => \E i \in 1 .. n : v[i] = p
    <3> SUFFICES ASSUME NEW p \in Phase, s.branch[p] # None PROVE \E i \in 1 .. n : v[i] = p
      OBVIOUS
    <3>1. CASE p = r.phase
      <4>1. n \in 1 .. n
        BY <1>1, <1>2
      <4> QED BY <1>2, <3>1, <4>1
    <3>2. CASE p # r.phase
      BY <2>13, <3>2 DEF Travelled
    <3> QED BY <3>1, <3>2
  <2>16. v[1] = Entry
    BY DEF Travelled
  <2> HIDE DEF s, v, c, n
  <2>17. Left(s, b)
    BY ZenonT(30), <1>2, <1>7, <2>10, <2>11, <2>12, <2>13, <2>14, <2>15, <2>16 DEF Left, n
  <2> QED BY <1>10, <2>4, <2>17 DEF s
<1> QED BY <1>9, <1>10

\* The cursor moves along its branch to a phase the route has not visited.
LEMMA AdvancedTravelled ==
  ASSUME NEW e \in QueueEntry, e.run \in Route, NEW b \in Branches[e.run.phase], NEW t \in Nat,
         e.run.phase # Terminal, Left(e.run, b)
  PROVE  LET x == Advanced(e, b, t)
         IN  Travelled(x.run) /\ Retrying(x.run) /\ Timed(x, t)
<1> DEFINE s == e.run
           r == Advanced(e, b, t).run
           v == s.visited
           n == Len(v)
           w == Append(v, b.next)
<1>1. /\ s \in Route /\ s.phase \in Phase /\ v \in Seq(Phase) /\ n \in Nat
      /\ s.branch \in [Phase -> BranchSet \cup {None}] /\ s.steps \in Seq(Phase)
      /\ b \in BranchSet /\ b.next \in Phase /\ b # None
  BY BranchType, NoneAssumption DEF Route, BranchSet
<1>2. /\ Longest[s.phase] \in Nat /\ Longest[b.next] \in Nat
      /\ Longest[s.phase] > Longest[b.next]
  <2>1. /\ Ticks[s.phase] \in Nat \ {0} /\ Longest[s.phase] \in Nat /\ Longest[b.next] \in Nat
        /\ Longest[s.phase] >= Ticks[s.phase] + Longest[b.next]
    BY <1>1, GraphAssumption
  <2> QED BY <2>1
<1>3. /\ n > 0 /\ v[1] = Entry /\ v[n] = s.phase
      /\ \A i, j \in 1 .. n : i < j => Longest[v[i]] > Longest[v[j]]
      /\ \A i \in 1 .. n - 1 : s.branch[v[i]] # None /\ s.branch[v[i]].next = v[i + 1]
      /\ \A p \in Phase : s.branch[p] # None => \E i \in 1 .. n : v[i] = p
      /\ s.branch[s.phase] = b
      /\ s.steps = Authored(s)
      /\ \A i \in DOMAIN s.steps :
           \/ s.steps[i] = s.phase /\ s.phase \in Parents(s)
           \/ Longest[s.steps[i]] > Longest[s.phase]
  BY DEF Left
<1>4. /\ r.phase = b.next /\ r.visited = w /\ r.branch = s.branch /\ r.steps = s.steps
      /\ r.retry = None /\ r.phaseDue = t + Ticks[b.next] /\ Parents(r) = Parents(s)
  BY DEF Advanced, Parents
<1> HIDE DEF s, r
<1>5. /\ w \in Seq(Phase) /\ Len(w) = n + 1 /\ w[n + 1] = b.next
      /\ \A i \in 1 .. n : w[i] = v[i]
  BY <1>1
<1> HIDE DEF w, v, n
<1>0. n = Len(v)
  BY DEF n
<1>6. \A i \in 1 .. n : Longest[v[i]] \in Nat /\ Longest[v[i]] > Longest[b.next]
  <2> SUFFICES ASSUME NEW i \in 1 .. n
               PROVE  Longest[v[i]] \in Nat /\ Longest[v[i]] > Longest[b.next]
    OBVIOUS
  <2>1. v[i] \in Phase /\ Longest[v[i]] \in Nat
    BY <1>1, <1>0, GraphAssumption
  <2>2. CASE i = n
    BY <1>2, <1>3, <2>1, <2>2
  <2>3. CASE i # n
    <3>1. i < n /\ n \in 1 .. n
      BY <1>1, <1>3, <2>3
    <3>2. Longest[v[i]] > Longest[s.phase]
      BY <1>3, <3>1
    <3> QED BY <1>2, <2>1, <3>2
  <2> QED BY <2>2, <2>3
<1>7. ASSUME NEW i \in 1 .. n + 1, NEW j \in 1 .. n + 1, i < j
      PROVE  Longest[w[i]] > Longest[w[j]]
  <2>1. i \in 1 .. n
    BY <1>1, <1>7
  <2>2. CASE j = n + 1
    BY <1>5, <1>6, <2>1, <2>2
  <2>3. CASE j # n + 1
    <3>1. j \in 1 .. n
      BY <1>1, <2>3
    <3> QED BY <1>3, <1>5, <1>7, <2>1, <3>1
  <2> QED BY <2>2, <2>3
<1>8. ASSUME NEW i \in 1 .. (n + 1) - 1
      PROVE  r.branch[w[i]] # None /\ r.branch[w[i]].next = w[i + 1]
  <2>1. i \in 1 .. n /\ w[i] = v[i]
    BY <1>1, <1>5
  <2>2. CASE i = n
    BY <1>1, <1>3, <1>4, <1>5, <2>1, <2>2
  <2>3. CASE i # n
    <3>1. i \in 1 .. n - 1 /\ i + 1 \in 1 .. n
      BY <1>1, <2>1, <2>3
    <3> QED BY <1>3, <1>4, <1>5, <2>1, <3>1
  <2> QED BY <2>2, <2>3
<1>9. ASSUME NEW p \in Phase, r.branch[p] # None
      PROVE  \E i \in 1 .. n + 1 : w[i] = p
  <2>1. PICK i \in 1 .. n : v[i] = p
    BY <1>3, <1>4, <1>9
  <2>2. i \in 1 .. n + 1
    BY <1>1
  <2>3. w[i] = p
    BY <1>5, <2>1
  <2> QED BY <2>2, <2>3
<1>10. s.branch[b.next] = None /\ b.next \notin Parents(s)
  <2> SUFFICES ASSUME s.branch[b.next] # None PROVE FALSE
    BY DEF Parents
  <2>1. PICK i \in 1 .. n : v[i] = b.next
    BY <1>1, <1>3
  <2> QED BY <1>2, <1>6, <2>1
<1>11. r.steps = Authored(r)
  <2> DEFINE D == Parents(s)
             p == b.next
  <2>1. p \in Phase /\ p \notin D
    BY <1>1, <1>10
  <2>2. s.steps = Picked(v, D)
    BY <1>3 DEF Authored, v
  <2> HIDE DEF D, p
  <2>3. Picked(Append(v, p), D) = Picked(v, D)
    BY <1>1, <2>1, PickedAppend
  <2> QED BY <1>4, <2>2, <2>3 DEF Authored, D, p, w
<1>12. \A i \in DOMAIN r.steps : Longest[r.steps[i]] > Longest[b.next]
  <2> SUFFICES ASSUME NEW i \in DOMAIN s.steps PROVE Longest[s.steps[i]] > Longest[b.next]
    BY <1>4
  <2>1. s.steps[i] \in Phase /\ Longest[s.steps[i]] \in Nat
    BY <1>1, GraphAssumption
  <2> QED BY <1>2, <1>3, <2>1
<1>13. n + 1 > 0 /\ w[1] = Entry
  <2>1. 1 \in 1 .. n
    BY <1>1, <1>3
  <2> QED BY <1>1, <1>3, <1>5, <2>1
<1>14. Travelled(r)
  BY <1>4, <1>5, <1>7, <1>8, <1>9, <1>10, <1>11, <1>12, <1>13 DEF Travelled
<1>15. Retrying(r)
  BY <1>4 DEF Retrying
<1>16. Timed(Advanced(e, b, t), t)
  <2>1. Ticks[b.next] \in Nat /\ Terminal \in Phase /\ Ticks[Terminal] \in Nat
    BY <1>1, GraphAssumption
  <2>2. Advanced(e, b, t).run = r /\ (b.next = Terminal => Advanced(e, b, t).due = t + Ticks[Terminal])
    BY DEF Advanced, r
  <2> QED BY <1>4, <2>1, <2>2 DEF Timed
<1> QED BY <1>14, <1>15, <1>16 DEF r

\* The route stays where it is while its gate is tried again.
LEMMA PostponedTravelled ==
  ASSUME NEW s \in Route, NEW b, b # None, Left(s, b), NEW g \in RetryRecord
  PROVE  Travelled([s EXCEPT !.retry = g])
<1> DEFINE r == [s EXCEPT !.retry = g]
<1>1. /\ r.phase = s.phase /\ r.visited = s.visited /\ r.branch = s.branch /\ r.steps = s.steps
      /\ r.retry = g /\ g # None
  BY NoneAssumption DEF Route
<1> HIDE DEF r
<1>2. Parents(r) = Parents(s)
  BY <1>1 DEF Parents
<1>3. Authored(r) = Authored(s)
  BY <1>1, <1>2 DEF Authored
<1>4. Travelled(r)
  BY <1>1, <1>2, <1>3 DEF Left, Travelled
<1> QED BY <1>4 DEF r

\* The retry that a decision schedules is within the policy of its gate.
LEMMA NextRetryFits ==
  ASSUME tick \in Nat, NEW r \in Route, NEW p \in Phase, MayRetry(r, p), p \in Gated,
         Boundary(r) = tick, Retrying(r)
  PROVE  LET g == NextRetry(r, p) IN
           /\ Policy[p] # None /\ g.phase = p
           /\ g.attempts \in 1 .. Policy[p].max
           /\ g.timeout = g.first + Policy[p].timeout
           /\ g.first < g.next /\ g.next <= g.timeout
<1> DEFINE first == IF r.retry = None THEN tick ELSE r.retry.first
           attempts == IF r.retry = None THEN 1 ELSE r.retry.attempts + 1
           g == NextRetry(r, p)
           pol == Policy[p]
<1>1. g = [phase |-> p, attempts |-> attempts, first |-> first,
           timeout |-> first + pol.timeout, next |-> tick + pol.interval]
  BY DEF NextRetry
<1>2. pol # None /\ pol \in Policies
  BY PolicyAssumption DEF MayRetry
<1>3. pol.interval \in Nat \ {0} /\ pol.timeout \in Nat \ {0} /\ pol.max \in Nat \ {0}
  BY <1>2 DEF Policies
<1>4. r.retry = None \/ r.retry \in RetryRecord
  BY DEF Route
<1>5. attempts \in Nat \ {0} /\ first \in Nat /\ first <= tick
  <2>1. CASE r.retry = None
    BY <2>1
  <2>2. CASE r.retry # None
    <3>1. r.retry.first \in Nat /\ r.retry.attempts \in Nat /\ r.retry.next \in Nat
      BY <1>4, <2>2 DEF RetryRecord
    <3>2. r.retry.first < r.retry.next /\ r.retry.next = tick
      BY <2>2 DEF Retrying, Boundary
    <3> QED BY <2>2, <3>1, <3>2
  <2> QED BY <2>1, <2>2
<1>6. g.attempts <= pol.max /\ g.next <= g.timeout
  BY DEF MayRetry
<1> HIDE DEF first, attempts, pol, g
<1>7. /\ g.phase = p /\ g.attempts = attempts /\ g.first = first
      /\ g.timeout = first + pol.timeout /\ g.next = tick + pol.interval
  BY <1>1
<1>8. g.attempts \in 1 .. pol.max
  BY <1>3, <1>5, <1>6, <1>7
<1>9. g.first < g.next
  BY <1>3, <1>5, <1>7
<1>10. /\ pol # None /\ g.phase = p
       /\ g.attempts \in 1 .. pol.max
       /\ g.timeout = g.first + pol.timeout
       /\ g.first < g.next /\ g.next <= g.timeout
  BY <1>2, <1>6, <1>7, <1>8, <1>9
<1> QED BY <1>10 DEF g, pol

\* The entries that stay in the queue stay on track as time goes on.
LEMMA TrackKeeps ==
  ASSUME TypeOK, OnTrack(queue, tick, counter),
         tick' \in Nat, tick' >= tick, counter' \in Nat, counter' >= counter,
         \A x \in Held(queue') : x \in Held(queue) /\ queue'[x] = queue[x]
  PROVE  OnTrack(queue', tick', counter')
<1>1. tick \in Nat /\ counter \in Nat /\ queue \in QueueMap
  BY DEF TypeOK
<1>2. ASSUME NEW x \in Held(queue')
      PROVE  queue'[x].order \in 1 .. counter'
  <2>1. queue[x].order \in 1 .. counter /\ queue'[x] = queue[x]
    BY <1>2 DEF OnTrack
  <2> QED BY <1>1, <2>1
<1>3. ASSUME NEW x \in Long(queue')
      PROVE  Travelled(queue'[x].run) /\ Retrying(queue'[x].run) /\ Timed(queue'[x], tick')
  <2>1. x \in Held(queue') /\ queue'[x] = queue[x] /\ x \in Long(queue) /\ x \in ActionId
        /\ queue[x] # None /\ queue[x].run # None
    BY <1>3 DEF Long, Held
  <2>2. Travelled(queue[x].run) /\ Retrying(queue[x].run) /\ Timed(queue[x], tick)
    BY <2>1 DEF OnTrack
  <2>3. queue[x].run \in Route
    BY <1>1, <2>1, MapTypes
  <2>4. queue[x].run.phaseDue \in Nat /\ Ticks[queue[x].run.phase] \in Nat
    BY <2>3, GraphAssumption DEF Route
  <2>5. Timed(queue[x], tick')
    BY <1>1, <2>2, <2>4 DEF Timed
  <2> QED BY <2>1, <2>2, <2>5
<1> QED BY <1>2, <1>3 DEF OnTrack

\* An entry that is put into the queue on track keeps it there.
LEMMA TrackPut ==
  ASSUME TypeOK, OnTrack(queue, tick, counter), NEW id \in ActionId, NEW x \in QueueEntry,
         queue' = Put(queue, id, x), tick' = tick, counter' \in Nat, counter' >= counter,
         x.order \in 1 .. counter',
         x.run # None => Travelled(x.run) /\ Retrying(x.run) /\ Timed(x, tick)
  PROVE  OnTrack(queue', tick', counter')
<1>1. tick \in Nat /\ counter \in Nat /\ queue \in QueueMap
  BY DEF TypeOK
<1>2. queue'[id] = x /\ \A y \in ActionId \ {id} : queue'[y] = queue[y]
  BY <1>1 DEF Put, QueueMap
<1>3. ASSUME NEW y \in Held(queue') PROVE queue'[y].order \in 1 .. counter'
  <2>1. CASE y = id
    BY <1>2, <2>1
  <2>2. CASE y # id
    <3>1. queue'[y] = queue[y] /\ y \in Held(queue)
      BY <1>2, <1>3, <2>2 DEF Held
    <3>2. queue[y].order \in 1 .. counter
      BY <3>1 DEF OnTrack
    <3> QED BY <1>1, <3>1, <3>2
  <2> QED BY <2>1, <2>2
<1>4. ASSUME NEW y \in Long(queue')
      PROVE  Travelled(queue'[y].run) /\ Retrying(queue'[y].run) /\ Timed(queue'[y], tick')
  <2>1. CASE y = id
    BY <1>2, <1>4, <2>1 DEF Long
  <2>2. CASE y # id
    <3>1. queue'[y] = queue[y] /\ y \in Long(queue)
      BY <1>2, <1>4, <2>2 DEF Long, Held
    <3> QED BY <3>1 DEF OnTrack
  <2> QED BY <2>1, <2>2
<1> QED BY <1>3, <1>4 DEF OnTrack

\* A decision at a phase boundary leaves every route on track.
LEMMA DecideTrack ==
  ASSUME TypeOK, QueueInv, OnTrack(queue, tick, counter), NEW id \in ActionId, Decide(id)
  PROVE  OnTrack(queue', tick', counter')
<1>1. PICK b : ChildFails(id, b) \/ Progresses(id, b) \/ Retries(id, b) \/ GivesUp(id, b)
  BY DEF Decide
<1> DEFINE r == queue[id].run
           e == Stepped(id, b).entry
<1>2. Turn(id, b) /\ id \in todo /\ tick' = tick /\ counter' = counter
  BY <1>1 DEF ChildFails, Progresses, Retries, GivesUp, Turn
<1>3. /\ b \in Branches[r.phase] /\ b \in BranchSet /\ b.next \in Phase /\ b # None
      /\ r \in Route /\ r.phase \in Phase /\ r.phase # Terminal
      /\ e \in QueueEntry /\ e.run \in Route /\ e.run # None
      /\ e.due = queue[id].due /\ e.run.phase = r.phase
      /\ e.run.phaseDue = r.phaseDue /\ e.run.retry = r.retry
  BY <1>2, SteppedEntry, NoneAssumption
<1>4. /\ id \in Long(queue) /\ id \in Held(queue) /\ queue[id] \in QueueEntry
      /\ tick \in Nat /\ counter \in Nat
  BY <1>2, SteppedSteps DEF Long, TypeOK
<1>5. Travelled(r) /\ Retrying(r) /\ Timed(queue[id], tick) /\ queue[id].order \in 1 .. counter
  BY <1>4 DEF OnTrack
<1>6. Left(e.run, b)
  BY <1>2, <1>5, SteppedLeft
<1>7. Boundary(r) = tick
  BY <1>2 DEF QueueInv, BoundaryAhead
<1>8. e.order = queue[id].order
  <2>1. \A x : WithRun(queue[id], x).order = queue[id].order
    BY <1>4 DEF WithRun, QueueEntry
  <2> QED BY <2>1 DEF Stepped
<1>9. CASE queue' = Drop(queue, {id})
  <2>1. \A x \in Held(queue') : x \in Held(queue) /\ queue'[x] = queue[x]
    BY <1>9 DEF Held, Drop
  <2> QED BY <1>2, <1>4, <2>1, TrackKeeps
<1> HIDE DEF e, r
<1>10. CASE Progresses(id, b)
  <2> DEFINE x == Advanced(e, b, tick)
  <2>1. queue' = Put(queue, id, x)
    BY <1>10 DEF Progresses, e
  <2>2. x \in QueueEntry /\ x.run \in Route /\ x.order = e.order
    BY <1>3, <1>4, AdvancedType DEF Advanced
  <2>3. Travelled(x.run) /\ Retrying(x.run) /\ Timed(x, tick)
    BY <1>3, <1>4, <1>6, AdvancedTravelled
  <2> HIDE DEF x
  <2> QED BY <1>2, <1>4, <1>5, <1>8, <2>1, <2>2, <2>3, TrackPut
<1>11. CASE Retries(id, b)
  <2> DEFINE g == NextRetry(r, b.next)
             s == [e.run EXCEPT !.retry = g]
             x == Postponed(e, g)
  <2>1. /\ queue' = Put(queue, id, x) /\ MayRetry(r, b.next) /\ Policy[b.next] # None
        /\ b.next \in Gated
    BY <1>11 DEF Retries, MayRetry, GateOpens, e, r
  <2>2. g \in RetryRecord /\ g.phase = b.next /\ g # None
    BY <1>3, <1>4, <2>1, NextRetryType, NoneAssumption
  <2>3. /\ Policy[b.next] # None /\ g.phase = b.next
        /\ g.attempts \in 1 .. Policy[b.next].max
        /\ g.timeout = g.first + Policy[b.next].timeout
        /\ g.first < g.next /\ g.next <= g.timeout
    BY <1>3, <1>4, <1>5, <1>7, <2>1, NextRetryFits
  <2> HIDE DEF g
  <2>4. x \in QueueEntry /\ x.run = s /\ x.order = e.order
    BY <1>3, <2>1, <2>2, EntryTypes DEF Postponed
  <2>5. Travelled(s)
    BY <1>3, <1>6, <2>2, PostponedTravelled
  <2>6. /\ s.phase = r.phase /\ s.retry = g /\ s.branch = e.run.branch
        /\ s.phaseDue = r.phaseDue
    BY <1>3 DEF Route
  <2> HIDE DEF s, x
  <2>7. s.branch[s.phase] = b
    BY <1>3, <1>6, <2>6 DEF Left
  <2>8. Retrying(s)
    BY <2>1, <2>2, <2>3, <2>6, <2>7 DEF Retrying
  <2>9. r.phaseDue <= tick /\ r.phaseDue \in Nat /\ Ticks[r.phase] \in Nat
    <3>1. r.phaseDue \in Nat /\ Ticks[r.phase] \in Nat
      BY <1>3, GraphAssumption DEF Route
    <3>2. CASE r.retry = None
      BY <1>4, <1>7, <3>1, <3>2 DEF Boundary
    <3>3. CASE r.retry # None
      BY <1>5, <3>1, <3>3 DEF Timed, r
    <3> QED BY <3>1, <3>2, <3>3
  <2>10. Timed(x, tick)
    BY <1>3, <1>4, <2>4, <2>6, <2>9 DEF Timed
  <2> QED BY <1>2, <1>4, <1>5, <1>8, <2>1, <2>4, <2>5, <2>8, <2>10, TrackPut
<1> QED BY <1>1, <1>9, <1>10, <1>11 DEF ChildFails, GivesUp

\* A step that only takes entries out of the queue leaves the others on track.
LEMMA TrackDrops ==
  ASSUME TypeOK, OnTrack(queue, tick, counter), UNCHANGED <<tick, counter>>,
         NEW S, queue' = Drop(queue, S)
  PROVE  OnTrack(queue', tick', counter')
<1>1. \A x \in Held(queue') : x \in Held(queue) /\ queue'[x] = queue[x]
  BY DEF Held, Drop
<1>2. tick \in Nat /\ counter \in Nat
  BY DEF TypeOK
<1> QED BY <1>1, <1>2, TrackKeeps

\* So does _execute().
LEMMA ExecuteTrack ==
  ASSUME TypeOK, OnTrack(queue, tick, counter), UNCHANGED <<tick, counter>>,
         NEW id, NEW rec,
         \/ Completes(id, rec) \/ CompletesAndRaises(id, rec)
         \/ Rejected(id, rec) \/ RollsBack(id, rec)
  PROVE  OnTrack(queue', tick', counter')
<1>1. CASE queue' = queue
  BY <1>1 DEF OnTrack
<1>2. CASE \E S : queue' = Drop(queue, S)
  BY <1>2, TrackDrops
<1> QED BY <1>1, <1>2 DEF Completes, Interrupt, CompletesAndRaises, Rejected, RollsBack

\* A submitted action starts its route at the entry phase.
LEMMA SubmitTrack ==
  ASSUME TypeOK, OnTrack(queue, tick, counter), NEW id \in ActionId, Submit(id)
  PROVE  OnTrack(queue', tick', counter')
<1>1. PICK a \in Actor, t \in Actor :
        \/ SubmitRefused(id, a, t)
        \/ SubmitLong(id, a, t)
        \/ \E kind \in Kind :
             \/ SubmitNow(id, a, t, kind)
             \/ \E d \in Delays : SubmitDelayed(id, a, t, kind, d)
  BY DEF Submit
<1>2. tick \in Nat /\ counter \in Nat /\ queue \in QueueMap
  BY DEF TypeOK
<1>3. ASSUME queue' = queue, tick' = tick, counter' \in {counter, counter + 1}
      PROVE  OnTrack(queue', tick', counter')
  BY <1>2, <1>3, TrackKeeps
<1>4. ASSUME NEW rec, NEW due \in Nat, NEW run \in Route \cup {None}, Schedule(id, rec, due, run),
             run # None => /\ Travelled(run) /\ Retrying(run)
                           /\ Timed([due |-> due, order |-> counter + 1, run |-> run], tick)
      PROVE  OnTrack(queue', tick', counter')
  <2> DEFINE x == [due |-> due, order |-> counter + 1, run |-> run]
  <2>1. /\ tick' = tick /\ counter' = counter + 1
        /\ queue' = queue \/ queue' = Put(queue, id, x)
    BY <1>4 DEF Schedule
  <2>2. x \in QueueEntry /\ x.order = counter + 1 /\ x.run = run
    BY <1>2 DEF QueueEntry
  <2>3. x.run # None => Travelled(x.run) /\ Retrying(x.run) /\ Timed(x, tick)
    BY <1>4, <2>2
  <2>4. counter + 1 \in Nat /\ counter + 1 >= counter /\ counter + 1 \in 1 .. counter + 1
    BY <1>2
  <2> HIDE DEF x
  <2>5. CASE queue' = queue
    BY <1>3, <2>1, <2>5
  <2>6. CASE queue' = Put(queue, id, x)
    BY <2>1, <2>2, <2>3, <2>4, <2>6, TrackPut
  <2> QED BY <2>1, <2>5, <2>6
<1>5. CASE SubmitRefused(id, a, t)
  BY <1>3, <1>5 DEF SubmitRefused
<1>6. CASE SubmitLong(id, a, t)
  <2>1. tick + Longest[Entry] \in Nat /\ Fresh(tick) \in Route
    BY <1>2, GraphAssumption, FreshType
  <2>2. Travelled(Fresh(tick)) /\ Retrying(Fresh(tick))
    BY <1>2, FreshTravelled
  <2>3. Timed([due |-> tick + Longest[Entry], order |-> counter + 1, run |-> Fresh(tick)], tick)
    BY <1>2, GraphAssumption DEF Timed, Fresh
  <2> HIDE DEF Fresh
  <2> QED BY <1>4, <1>6, <2>1, <2>2, <2>3 DEF SubmitLong
<1>7. ASSUME NEW kind \in Kind, NEW d \in Delays, SubmitDelayed(id, a, t, kind, d)
      PROVE  OnTrack(queue', tick', counter')
  <2>1. tick + d \in Nat
    BY <1>2, BoundAssumption
  <2>2. Schedule(id, New(a, t, kind), tick + d, None)
    BY <1>7 DEF SubmitDelayed
  <2> QED BY <1>4, <2>1, <2>2
<1>8. ASSUME NEW kind \in Kind, SubmitNow(id, a, t, kind)
      PROVE  OnTrack(queue', tick', counter')
  BY <1>8, ExecuteTrack DEF SubmitNow
<1> QED BY <1>1, <1>5, <1>6, <1>7, <1>8

\* The routes of the queue, and those a failed batch brings back, stay on track
\* in every step of the kernel.
LEMMA RouteStep ==
  ASSUME TypeOK, QueueInv, RouteInv, [Next]_vars
  PROVE  RouteInv'
<1>0. /\ OnTrack(queue, tick, counter)
      /\ pc = "decide" => OnTrack(before.queue, before.tick, counter)
      /\ tick \in Nat /\ counter \in Nat
  BY DEF RouteInv, TypeOK
<1>1. CASE BeginTick
  <2>1. /\ queue' = queue /\ tick' = tick + 1 /\ counter' = counter
        /\ before'.queue = queue /\ before'.tick = tick
    BY <1>1 DEF BeginTick
  <2>2. OnTrack(queue', tick', counter')
    BY <1>0, <2>1, TrackKeeps
  <2> QED BY <1>0, <2>1, <2>2 DEF RouteInv
<1>2. CASE TickLogged
  BY <1>0, <1>2 DEF TickLogged, RouteInv
<1>3. CASE TickRollsBack
  <2>1. /\ pc = "decide" /\ pc' = "idle" /\ queue' = before.queue /\ tick' = before.tick
        /\ counter' = counter
    BY <1>3 DEF TickRollsBack, Unwind
  <2> QED BY <1>0, <2>1 DEF RouteInv
<1>4. CASE PublishHit
  <2>1. pc' # "decide" /\ UNCHANGED <<tick, counter>>
    BY <1>4 DEF PublishHit, Unwind
  <2>2. CASE queue' = queue
    BY <1>0, <2>1, <2>2 DEF RouteInv
  <2>3. CASE \E S : queue' = Drop(queue, S)
    BY <1>0, <2>1, <2>3, TrackDrops DEF RouteInv
  <2> QED BY <1>4, <2>2, <2>3 DEF PublishHit, Interrupt
<1>5. CASE PopReady
  BY <1>0, <1>5, TrackDrops DEF PopReady, RouteInv
<1>6. ASSUME NEW id \in ActionId, Decide(id) PROVE RouteInv'
  <2>1. UNCHANGED <<pc, before, counter>>
    BY <1>6 DEF Decide, ChildFails, Progresses, Retries, GivesUp, Turn
  <2> QED BY <1>0, <1>6, <2>1, DecideTrack DEF RouteInv
<1>7. ASSUME NEW id \in ActionId, ExecuteReady(id) PROVE RouteInv'
  <2>1. pc' # "decide" /\ UNCHANGED <<tick, counter>>
    BY <1>7 DEF ExecuteReady, Unwind
  <2> QED BY <1>0, <1>7, <2>1, ExecuteTrack DEF ExecuteReady, RouteInv
<1>8. ASSUME NEW id \in ActionId, Submit(id) PROVE RouteInv'
  <2>1. pc = "idle" /\ pc' = "idle"
    BY ZenonT(30), <1>8 DEF Submit, SubmitRefused, SubmitLong, SubmitNow, SubmitDelayed, Schedule,
                CanSubmit, Idle, loop
  <2> QED BY <1>0, <1>8, <2>1, SubmitTrack DEF RouteInv
<1>9. ASSUME NEW id \in ActionId, Cancel(id) PROVE RouteInv'
  <2>1. pc' = "idle" /\ UNCHANGED <<tick, counter>> /\ queue' = Drop(queue, {id})
    BY <1>9 DEF Cancel, Idle, loop
  <2> QED BY <1>0, <2>1, TrackDrops DEF RouteInv
<1>10. CASE UNCHANGED vars
  BY <1>0, <1>10 DEF vars, RouteInv
<1> QED BY <1>1, <1>2, <1>3, <1>4, <1>5, <1>6, <1>7, <1>8, <1>9, <1>10 DEF Next, Advance

\* What a route has behind it - the phases it visited, the branches it took, the
\* children it ran, the retry of its gate - fits together in every state.
THEOREM Routes == Spec => []RouteInv
<1>1. Init => TypeOK /\ KernelInv /\ RouteInv
  <2>1. Init => RouteInv
    BY DEF Init, RouteInv, OnTrack, Nobody, Held, Long
  <2> QED BY <2>1, InitType, InitInv
<1>2. (TypeOK /\ KernelInv /\ RouteInv) /\ [Next]_vars => (TypeOK /\ KernelInv /\ RouteInv)'
  BY TypeStep, InvStep, InvParts, RouteStep
<1> QED BY <1>1, <1>2, PTL DEF Spec

-----------------------------------------------------------------------------
(* What holds when every append succeeds.                                  *)

\* A decision gives a route that reaches its terminal phase the tick at which
\* that phase ends, and leaves the other entries alone.
LEMMA DecidePunctual ==
  ASSUME TypeOK, QueueInv, NEW id \in ActionId, Decide(id)
  PROVE  \A x \in Long(queue') :
           \/ x \in Long(queue) /\ queue'[x] = queue[x]
           \/ queue'[x].run.phase = Terminal => queue'[x].due >= tick
<1>1. PICK b : ChildFails(id, b) \/ Progresses(id, b) \/ Retries(id, b) \/ GivesUp(id, b)
  BY DEF Decide
<1> DEFINE e == Stepped(id, b).entry
<1>2. Turn(id, b) /\ id \in todo
  BY <1>1 DEF ChildFails, Progresses, Retries, GivesUp, Turn
<1>3. /\ b.next \in Phase /\ e.run \in Route /\ e.run.phase # Terminal
  BY <1>2, SteppedEntry
<1>4. tick \in Nat /\ Ticks[Terminal] \in Nat /\ queue \in QueueMap
  BY GraphAssumption DEF TypeOK
<1>5. CASE queue' = Drop(queue, {id})
  BY <1>5 DEF Drop, Long, Held
<1> HIDE DEF e
<1>6. ASSUME NEW x, queue' = Put(queue, id, x), x.run.phase = Terminal => x.due >= tick
      PROVE  \A y \in Long(queue') :
               \/ y \in Long(queue) /\ queue'[y] = queue[y]
               \/ queue'[y].run.phase = Terminal => queue'[y].due >= tick
  <2>1. queue'[id] = x /\ \A y \in ActionId \ {id} : queue'[y] = queue[y]
    BY <1>4, <1>6 DEF Put, QueueMap
  <2> QED BY <1>6, <2>1 DEF Long, Held
<1>7. CASE Progresses(id, b)
  <2> DEFINE x == Advanced(e, b, tick)
  <2>1. queue' = Put(queue, id, x)
    BY <1>7 DEF Progresses, e
  <2>2. x.run.phase = b.next /\ (b.next = Terminal => x.due = tick + Ticks[Terminal])
    BY DEF Advanced
  <2> HIDE DEF x
  <2> QED BY <1>4, <1>6, <2>1, <2>2
<1>8. CASE Retries(id, b)
  <2> DEFINE n == NextRetry(queue[id].run, b.next)
             x == Postponed(e, n)
  <2>1. queue' = Put(queue, id, x)
    BY <1>8 DEF Retries, e
  <2>2. x.run.phase # Terminal
    <3> HIDE DEF n
    <3> QED BY <1>3 DEF Postponed, Route
  <2> HIDE DEF x
  <2> QED BY <1>6, <2>1, <2>2
<1> QED BY <1>1, <1>5, <1>7, <1>8 DEF ChildFails, GivesUp

\* When every append succeeds, no step of the kernel makes a route late.
LEMMA PunctualStep ==
  ASSUME ~LogMayFail, TypeOK, QueueInv, OnTrack(queue, tick, counter), Punctual, [Next]_vars
  PROVE  Punctual'
<1>0. /\ tick \in Nat /\ queue \in QueueMap /\ Entry # Terminal
      /\ \A x \in Long(queue) : x \in Held(queue) /\ queue[x].due \in Nat
      /\ Long(Nobody) = {}
  <2>1. \A x \in Long(queue) : x \in ActionId /\ queue[x] # None /\ x \in Held(queue)
    BY DEF Long, Held
  <2>2. Long(Nobody) = {}
    BY DEF Long, Held, Nobody
  <2> QED BY <2>1, <2>2, MapTypes, GraphAssumption DEF TypeOK, QueueEntry
\* The queue loses entries, and what advance() is at asks no more of them.
<1>1. ASSUME tick' = tick, \A x \in Long(queue') : x \in Long(queue) /\ queue'[x] = queue[x],
             pc' = pc \/ pc \in {"idle", "execute"}
      PROVE  \A x \in Long(queue') : queue'[x].run.phase = Terminal =>
               IF Idle' \/ pc' = "execute" THEN queue'[x].due > tick' ELSE queue'[x].due >= tick'
  BY <1>0, <1>1 DEF Punctual, Idle
<1>2. \A S : queue' = Drop(queue, S) =>
         \A x \in Long(queue') : x \in Long(queue) /\ queue'[x] = queue[x] /\ x \notin S
  BY DEF Drop, Long, Held
<1>3. CASE BeginTick
  <2>1. /\ pc = "idle" /\ pc' = "decide" /\ tick' = tick + 1 /\ queue' = queue
        /\ ready = Nobody /\ ready' = Nobody
    BY <1>3 DEF BeginTick, Idle, TypeOK
  <2>2. \A x \in Long(queue) : queue[x].run.phase = Terminal => queue[x].due > tick
    BY <2>1 DEF Punctual, Idle
  <2> QED BY <1>0, <2>1, <2>2 DEF Punctual, Idle
<1>4. CASE TickLogged
  BY <1>4 DEF TickLogged, Punctual, Idle
<1>5. ~TickRollsBack
  BY DEF TickRollsBack
<1>6. CASE PublishHit
  <2>1. /\ tick' = tick /\ pc' = pc /\ ready' = ready
        /\ queue' = Drop(queue, Interrupted(Head(hits).target, Head(hits).cause))
    BY <1>6 DEF PublishHit, Interrupt
  <2> QED BY <1>1, <1>2, <2>1 DEF Punctual
<1>7. CASE PopReady
  <2> DEFINE due == {x \in Held(queue) : queue[x].due <= tick}
  <2>1. /\ pc = "publish" /\ todo = {} /\ tick' = tick /\ pc' \in {"idle", "execute"}
        /\ queue' = Drop(queue, due)
        /\ ready' = [x \in ActionId |-> IF x \in due THEN queue[x] ELSE None]
    BY <1>7 DEF PopReady, TypeOK
  <2>2. \A x \in Long(queue') : queue'[x].due > tick
    BY <1>0, <1>2, <2>1
  <2>3. ASSUME NEW x \in Long(ready') PROVE ready'[x].due = tick /\ ready'[x].run.phaseDue = tick
    <3>1. x \in due /\ x \in Long(queue) /\ ready'[x] = queue[x]
      BY <2>1, <2>3 DEF Long, Held
    <3>2. queue[x].run.phase = Terminal
      <4>1. \A y \in OnRoute(queue) : queue[y].due > tick
        BY <2>1, DueAhead
      <4> QED BY <1>0, <3>1, <4>1 DEF OnRoute
    <3>3. queue[x].due >= tick
      BY <2>1, <3>1, <3>2 DEF Punctual, Idle
    <3>4. queue[x].due = queue[x].run.phaseDue
      BY <3>1, <3>2 DEF OnTrack, Timed
    <3> QED BY <1>0, <3>1, <3>3, <3>4
  <2> QED BY <2>1, <2>2, <2>3 DEF Punctual, Idle
<1>8. ASSUME NEW id \in ActionId, Decide(id) PROVE Punctual'
  <2>1. UNCHANGED <<pc, ready, tick>> /\ pc = "decide" /\ ready = Nobody
    BY <1>8 DEF Decide, ChildFails, Progresses, Retries, GivesUp, Turn, TypeOK
  <2>2. \A x \in Long(queue') :
           \/ x \in Long(queue) /\ queue'[x] = queue[x]
           \/ queue'[x].run.phase = Terminal => queue'[x].due >= tick
    BY <1>8, DecidePunctual
  <2> QED BY <1>0, <2>1, <2>2 DEF Punctual, Idle
<1>9. ASSUME NEW id \in ActionId, ExecuteReady(id) PROVE Punctual'
  <2>1. /\ pc = "execute" /\ tick' = tick /\ ready' = Drop(ready, {id})
        /\ Completes(id, act[id]) \/ Rejected(id, act[id])
    BY <1>9 DEF ExecuteReady, CompletesAndRaises, RollsBack
  <2>2. \A x \in Long(queue') : x \in Long(queue) /\ queue'[x] = queue[x]
    BY <1>2, <2>1 DEF Completes, Interrupt, Rejected
  <2>3. \A x \in Long(ready') : x \in Long(ready) /\ ready'[x] = ready[x]
    BY <2>1 DEF Drop, Long, Held
  <2> QED BY <1>1, <2>1, <2>2, <2>3 DEF Punctual
<1>10. ASSUME NEW id \in ActionId, Submit(id) \/ Cancel(id) PROVE Punctual'
  <2>1. /\ pc = "idle" /\ pc' = "idle" /\ tick' = tick /\ ready' = ready
    BY ZenonT(30), <1>10 DEF Submit, SubmitRefused, SubmitLong, SubmitNow, SubmitDelayed, Schedule,
                 CanSubmit, Cancel, Idle, loop
  <2>2. CASE \A x \in Long(queue') : x \in Long(queue) /\ queue'[x] = queue[x]
    BY <1>1, <2>1, <2>2 DEF Punctual
  <2>3. ASSUME NEW due, NEW n, NEW run, run = None \/ run.phase = Entry,
               queue' = Put(queue, id, [due |-> due, order |-> n, run |-> run])
        PROVE  Punctual'
    <3>1. /\ queue'[id].run = run
          /\ \A x \in ActionId \ {id} : queue'[x] = queue[x]
      BY <1>0, <2>3 DEF Put, QueueMap
    <3>2. \A x \in Long(queue') :
            \/ x \in Long(queue) /\ queue'[x] = queue[x]
            \/ queue'[x].run.phase = Entry
      BY <2>3, <3>1 DEF Long, Held
    <3> QED BY <1>0, <2>1, <3>2 DEF Punctual, Idle
  <2>4. CASE Cancel(id)
    BY <1>2, <2>2, <2>4 DEF Cancel
  <2>5. ASSUME NEW a, NEW t, SubmitLong(id, a, t) PROVE Punctual'
    <3>1. Fresh(tick).phase = Entry
      BY DEF Fresh
    <3> HIDE DEF Fresh
    <3> QED BY <2>2, <2>3, <2>5, <3>1 DEF SubmitLong, Schedule
  <2>6. ASSUME NEW a, NEW t, NEW kind, NEW d, SubmitDelayed(id, a, t, kind, d) PROVE Punctual'
    BY <2>2, <2>3, <2>6 DEF SubmitDelayed, Schedule
  <2>7. ASSUME NEW a, NEW t, NEW kind, SubmitNow(id, a, t, kind) PROVE Punctual'
    <3>1. queue' = queue \/ \E S : queue' = Drop(queue, S)
      BY <2>7 DEF SubmitNow, Completes, Interrupt, CompletesAndRaises, Rejected, RollsBack
    <3> QED BY <1>2, <2>2, <3>1
  <2>8. ASSUME NEW a, NEW t, SubmitRefused(id, a, t) PROVE Punctual'
    BY <2>2, <2>8 DEF SubmitRefused
  <2> QED BY <1>10, <2>4, <2>5, <2>6, <2>7, <2>8 DEF Submit
<1>11. CASE UNCHANGED vars
  BY <1>11 DEF vars, Punctual, Idle
<1> QED BY <1>3, <1>4, <1>5, <1>6, <1>7, <1>8, <1>9, <1>10, <1>11 DEF Next, Advance

\* The image of a log that replay() accepts: the pending entries are f, the last
\* order handed out is n.
Shows(im, f, n) == im \in Image /\ im.ok /\ im.order = n /\ im.pending = f

\* A record that replaces the pending entries.
LEMMA SeenShows ==
  ASSUME NEW im, NEW f, NEW n, Shows(im, f, n), NEW g \in QueueMap, NEW t \in Nat
  PROVE  /\ Shows(Seen([im EXCEPT !.pending = g], t), g, n)
         /\ Shows(Seen(im, t), f, n)
<1> DEFINE new == [im EXCEPT !.pending = g]
<1>1. im \in Image /\ f \in QueueMap
  BY ImageTypes DEF Shows
<1>2. new \in Image /\ new.pending = g /\ new.ok = im.ok /\ new.order = im.order
  BY <1>1 DEF Image
<1> HIDE DEF new
<1>3. \A x \in Image : /\ Seen(x, t) \in Image /\ Seen(x, t).ok = x.ok
                       /\ Seen(x, t).order = x.order /\ Seen(x, t).pending = x.pending
  BY ImageTypes DEF Seen, Image
<1>4. Shows(Seen(new, t), g, n) /\ Shows(Seen(im, t), f, n)
  BY <1>1, <1>2, <1>3 DEF Shows
<1> QED BY <1>4 DEF new

\* state.committed.
LEMMA CommitShows ==
  ASSUME NEW im, NEW f, NEW n, Shows(im, f, n), NEW c \in CellMap
  PROVE  Shows(LogCommit(im, c), f, n)
BY ImageTypes DEF Shows, LogCommit, Image

\* action.cancelled and action.interrupted.
LEMMA StopShows ==
  ASSUME NEW im, NEW f \in QueueMap, NEW n, Shows(im, f, n), NEW S, NEW t \in Nat
  PROVE  Shows(LogStop(im, S, t), Drop(f, S), n)
<1>1. Drop(f, S) \in QueueMap /\ (S = {} => Drop(f, S) = f)
  BY MapTypes DEF Drop, QueueMap
<1>2. Drop(im.pending, S) = Drop(f, S)
  BY DEF Shows
<1>3. im.ok
  BY DEF Shows
<1>4. CASE S = {}
  BY <1>1, <1>4 DEF LogStop
<1>5. CASE S # {}
  <2>1. Shows(Seen([im EXCEPT !.pending = Drop(f, S)], t), Drop(f, S), n)
    BY <1>1, SeenShows
  <2>2. LogStop(im, S, t) = Seen([im EXCEPT !.pending = Drop(f, S)], t)
    BY <1>2, <1>3, <1>5 DEF LogStop
  <2> QED BY <2>1, <2>2
<1> QED BY <1>4, <1>5

\* action.failed, and action.completed at the end of the terminal phase.
LEMMA EndShows ==
  ASSUME NEW im, NEW f \in QueueMap, NEW n, Shows(im, f, n), NEW id \in ActionId, NEW event,
         NEW t \in Nat,
         event = "completed" /\ f[id] # None =>
           f[id].run.phase = Terminal /\ f[id].run.phaseDue = t /\ f[id].due = t
  PROVE  Shows(LogEnd(im, id, TRUE, event, t), Drop(f, {id}), n)
<1>1. Drop(f, {id}) \in QueueMap
  BY MapTypes
<1>2. LogEnd(im, id, TRUE, event, t) = Seen([im EXCEPT !.pending = Drop(f, {id})], t)
  BY DEF Shows, LogEnd, Routed
<1> QED BY <1>1, <1>2, SeenShows

\* action.scheduled.
LEMMA ScheduledShows ==
  ASSUME NEW im, NEW f \in QueueMap, NEW n \in Nat, Shows(im, f, n), NEW id \in ActionId,
         NEW due \in Nat, NEW run \in Route \cup {None}, NEW t \in Nat
  PROVE  Shows(LogScheduled(im, id, due, run, t),
               Put(f, id, [due |-> due, order |-> n + 1, run |-> run]), n + 1)
<1> DEFINE g == Put(f, id, [due |-> due, order |-> n + 1, run |-> run])
           m == n + 1
           new == [pending |-> g, cell |-> im.cell, order |-> m, tick |-> im.tick, ok |-> TRUE]
<1>1. g \in QueueMap /\ m \in Nat
  <2>1. [due |-> due, order |-> n + 1, run |-> run] \in QueueEntry
    BY DEF QueueEntry
  <2> QED BY <2>1, MapTypes
<1>2. LogScheduled(im, id, due, run, t) = Seen(new, t)
  BY DEF Shows, LogScheduled
<1> HIDE DEF g, m
<1>3. new \in Image /\ new.pending = g /\ new.order = m /\ new.ok
  BY <1>1 DEF Shows, Image
<1> HIDE DEF new
<1>4. Shows(new, g, m)
  BY <1>3 DEF Shows
<1>5. Shows(Seen(new, t), g, m)
  BY <1>1, <1>4, SeenShows
<1> QED BY <1>2, <1>5 DEF g, m

\* action.branch_selected, at the end of a phase whose branch is not selected.
LEMMA BranchShows ==
  ASSUME NEW im, NEW f \in QueueMap, NEW n, Shows(im, f, n), NEW id \in Long(f),
         NEW b \in Branches[f[id].run.phase], NEW t \in Nat,
         f[id].run.branch[f[id].run.phase] = None, f[id].run.phaseDue = t
  PROVE  Shows(LogBranch(im, id, b, t), Put(f, id, WithRun(f[id], Chosen(f[id].run, b))), n)
<1> DEFINE g == Put(f, id, WithRun(f[id], Chosen(f[id].run, b)))
<1>1. id \in ActionId /\ f[id] \in QueueEntry /\ f[id] # None /\ f[id].run # None /\ f[id].run \in Route
  BY MapTypes DEF Long, Held
<1>2. b \in BranchSet
  BY <1>1, BranchType DEF Route
<1>3. g \in QueueMap
  BY <1>1, <1>2, RouteTypes, EntryTypes, MapTypes
<1>4. LogBranch(im, id, b, t) = Seen([im EXCEPT !.pending = g], t)
  BY <1>1 DEF Shows, LogBranch, Routed, Rerun
<1> HIDE DEF g
<1>5. Shows(Seen([im EXCEPT !.pending = g], t), g, n)
  BY <1>3, SeenShows
<1> QED BY <1>4, <1>5 DEF g

\* action.child_completed, of the next child step along the route.
LEMMA ChildShows ==
  ASSUME NEW im, NEW f \in QueueMap, NEW n, Shows(im, f, n), NEW id \in Long(f),
         NEW p \in Phase, NEW t \in Nat,
         Authored(f[id].run) = Append(f[id].run.steps, p)
  PROVE  Shows(LogChild(im, id, p, t), Put(f, id, WithRun(f[id], StepDone(f[id].run, p))), n)
<1> DEFINE g == Put(f, id, WithRun(f[id], StepDone(f[id].run, p)))
           r == f[id].run
<1>1. id \in ActionId /\ f[id] \in QueueEntry /\ f[id] # None /\ r # None /\ r \in Route
  BY MapTypes DEF Long, Held
<1>2. g \in QueueMap
  BY <1>1, RouteTypes, EntryTypes, MapTypes
<1>3. Len(r.steps) < Len(Authored(r)) /\ Authored(r)[Len(r.steps) + 1] = p
  <2> DEFINE s == r.steps
             w == Append(s, p)
  <2>1. s \in Seq(Phase) /\ Authored(r) = w
    BY <1>1 DEF Route
  <2> HIDE DEF s
  <2>2. Len(s) < Len(w) /\ w[Len(s) + 1] = p
    BY <2>1
  <2> QED BY <2>1, <2>2 DEF s
<1>4. LogChild(im, id, p, t) = Seen([im EXCEPT !.pending = g], t)
  BY <1>1, <1>3 DEF Shows, LogChild, Routed, Rerun
<1> HIDE DEF g
<1>5. Shows(Seen([im EXCEPT !.pending = g], t), g, n)
  BY <1>2, SeenShows
<1> QED BY <1>4, <1>5 DEF g

\* action.progressed, at the boundary of the route and along its branch.
LEMMA ProgressShows ==
  ASSUME NEW im, NEW f \in QueueMap, NEW n, Shows(im, f, n), NEW id \in Long(f),
         NEW p, NEW b \in BranchSet, NEW t \in Nat,
         f[id].run.phase = p, f[id].run.branch[p] = b, Boundary(f[id].run) = t
  PROVE  Shows(LogProgress(im, id, p, b, t), Put(f, id, Advanced(f[id], b, t)), n)
<1> DEFINE g == Put(f, id, Advanced(f[id], b, t))
<1>1. id \in ActionId /\ f[id] \in QueueEntry /\ f[id] # None /\ f[id].run # None
  BY MapTypes DEF Long, Held
<1>2. g \in QueueMap
  BY <1>1, AdvancedType, MapTypes
<1>3. LogProgress(im, id, p, b, t) = Seen([im EXCEPT !.pending = g], t)
  BY <1>1 DEF Shows, LogProgress, Routed
<1> HIDE DEF g
<1>4. Shows(Seen([im EXCEPT !.pending = g], t), g, n)
  BY <1>2, SeenShows
<1> QED BY <1>3, <1>4 DEF g

\* action.retry_scheduled, of the retry a decision makes at the boundary.
LEMMA RetryShows ==
  ASSUME tick \in Nat, NEW im, NEW f \in QueueMap, NEW n, Shows(im, f, n), NEW id \in Long(f),
         NEW p \in Phase, MayRetry(f[id].run, p), Boundary(f[id].run) = tick,
         f[id].run.branch[f[id].run.phase] # None,
         f[id].run.branch[f[id].run.phase].next = p,
         f[id].run.retry # None => f[id].run.retry.phase = p
  PROVE  Shows(LogRetry(im, id, NextRetry(f[id].run, p), tick),
               Put(f, id, Postponed(f[id], NextRetry(f[id].run, p))), n)
<1> DEFINE r == f[id].run
           new == NextRetry(r, p)
           g == Put(f, id, Postponed(f[id], new))
<1>1. id \in ActionId /\ f[id] \in QueueEntry /\ f[id] # None /\ r # None /\ r \in Route
  BY MapTypes DEF Long, Held
<1>2. new \in RetryRecord /\ new.phase = p /\ Policy[p] # None
  BY <1>1, NextRetryType DEF MayRetry
<1>3. g \in QueueMap
  <2> HIDE DEF new
  <2> QED BY <1>1, <1>2, EntryTypes, MapTypes
<1>4. /\ new.attempts = (IF r.retry = None THEN 1 ELSE r.retry.attempts + 1)
      /\ new.first = (IF r.retry = None THEN tick ELSE r.retry.first)
      /\ new.attempts <= Policy[p].max
      /\ new.next = tick + Policy[p].interval
      /\ new.timeout = new.first + Policy[p].timeout
      /\ new.next <= new.timeout
  BY DEF MayRetry, NextRetry
<1> HIDE DEF new
<1>5. LogRetry(im, id, new, tick) = Seen([im EXCEPT !.pending = g], tick)
  BY <1>1, <1>2, <1>4 DEF Shows, LogRetry, Routed
<1> HIDE DEF g
<1>6. Shows(Seen([im EXCEPT !.pending = g], tick), g, n)
  BY <1>3, SeenShows
<1> QED BY <1>5, <1>6 DEF g, new

\* What a decision logs before its outcome: replay() accepts it, and rebuilds the
\* decided entry as it stands.
LEMMA SteppedShows ==
  ASSUME TypeOK, QueueInv, OnTrack(queue, tick, counter), Shows(image, queue, counter),
         NEW id \in todo, NEW b, Turn(id, b)
  PROVE  /\ Shows(Stepped(id, b).image, Put(queue, id, Stepped(id, b).entry), counter)
         /\ Shows(BranchImage(id, b),
                  Put(queue, id, WithRun(queue[id], Chosen(queue[id].run, b))), counter)
<1> DEFINE r == queue[id].run
           c == Chosen(r, b)
           d == StepDone(c, r.phase)
           x == WithRun(queue[id], c)
           y == WithRun(queue[id], d)
           after == Written(cell, b.child, act[id].actor, act[id].target)
           f == Put(queue, id, x)
<1>1. /\ r \in Route /\ queue[id] \in QueueEntry /\ id \in Long(queue) /\ id \in ActionId
      /\ b \in BranchSet /\ b \in Branches[r.phase] /\ r.phase \in Phase /\ b # None
  BY SteppedSteps, SteppedEntry, NoneAssumption DEF Long, Held
<1>2. queue \in QueueMap /\ tick \in Nat /\ cell \in CellMap /\ after \in CellMap
  <2>1. after \in CellMap
    BY WrittenType, RecordTypes, <1>1 DEF TypeOK
  <2> QED BY <2>1 DEF TypeOK
<1>3. Travelled(r) /\ Left(Stepped(id, b).entry.run, b)
  <2>1. Travelled(r)
    BY <1>1 DEF OnTrack
  <2> QED BY <2>1, SteppedLeft
<1>4. c \in Route /\ x \in QueueEntry /\ x.run = c /\ c.phase = r.phase
  <2>1. c \in Route
    BY <1>1, RouteTypes
  <2>2. c.phase = r.phase
    BY <1>1 DEF Chosen, Route
  <2> HIDE DEF c
  <2> QED BY <1>1, <2>1, <2>2, EntryTypes
<1>5. Shows(BranchImage(id, b), f, counter)
  <2>1. CASE r.branch[r.phase] = None
    <3>1. r.retry = None
      BY <1>3, <2>1 DEF Travelled
    <3>2. r.phaseDue = tick
      BY <3>1 DEF QueueInv, BoundaryAhead, Boundary
    <3>3. Shows(LogBranch(image, id, b, tick), f, counter)
      BY <1>1, <1>2, <2>1, <3>2, BranchShows
    <3> QED BY <2>1, <3>3 DEF BranchImage
  <2>2. CASE r.branch[r.phase] # None
    <3>1. b = r.branch[r.phase]
      BY <2>2 DEF Turn, Takes
    <3>2. c = r
      BY <1>1, <3>1 DEF Chosen, Route
    <3>3. x = queue[id]
      BY <1>1, <3>2 DEF WithRun, QueueEntry
    <3>4. f = queue
      BY <1>1, <1>2, <3>3 DEF Put, QueueMap
    <3>5. BranchImage(id, b) = image
      BY <2>2 DEF BranchImage
    <3> QED BY <3>4, <3>5
  <2> QED BY <2>1, <2>2
<1>6. CASE ~RunsChild(r, b)
  <2>1. Stepped(id, b).entry = x /\ Stepped(id, b).image = BranchImage(id, b)
    BY <1>6 DEF Stepped
  <2> QED BY <1>5, <2>1
<1>7. CASE RunsChild(r, b)
  <2>1. /\ Stepped(id, b).entry = y
        /\ Stepped(id, b).image = LogChild(LogCommit(BranchImage(id, b), after), id, r.phase, tick)
    BY <1>7 DEF Stepped
  <2>2. Authored(c) = Append(c.steps, r.phase)
    <3>1. y.run = d
      BY <1>1, <1>4, RouteTypes, EntryTypes
    <3>2. d.steps = Authored(d)
      <4>1. Left(d, b)
        BY <1>3, <2>1, <3>1
      <4> HIDE DEF d
      <4> QED BY <4>1 DEF Left
    <3>3. d.steps = Append(c.steps, r.phase) /\ d.visited = c.visited /\ d.branch = c.branch
      BY <1>4 DEF StepDone, Route
    <3> HIDE DEF c, d
    <3>4. Parents(d) = Parents(c)
      BY <3>3 DEF Parents
    <3> QED BY <3>2, <3>3, <3>4 DEF Authored
  <2>3. f \in QueueMap /\ f[id] = x /\ id \in Long(f)
    <3>1. x.run # None
      BY <1>4, NoneAssumption
    <3> HIDE DEF x
    <3> QED BY <1>1, <1>2, <1>4, <3>1, PutTwice
  <2>4. WithRun(x, d) = y /\ Put(f, id, y) = Put(queue, id, y)
    <3>1. WithRun(x, d) = y
      BY <1>1, <1>4 DEF WithRun, QueueEntry
    <3> HIDE DEF x, y
    <3> QED BY <1>1, <1>2, <3>1 DEF Put, QueueMap
  <2> DEFINE im == LogCommit(BranchImage(id, b), after)
  <2>5. Shows(im, f, counter)
    BY <1>2, <1>5, CommitShows
  <2> HIDE DEF im, f, x, y, c
  <2>6. Shows(LogChild(im, id, r.phase, tick), Put(f, id, WithRun(f[id], StepDone(f[id].run, r.phase))), counter)
    BY <1>1, <1>2, <1>4, <2>2, <2>3, <2>5, ChildShows
  <2>7. Shows(LogChild(im, id, r.phase, tick), Put(queue, id, y), counter)
    BY <1>4, <2>3, <2>4, <2>6
  <2> QED BY <1>5, <2>1, <2>7 DEF im, f, x, c
<1> QED BY <1>6, <1>7

\* So is everything a decision logs.
LEMMA DecideShows ==
  ASSUME TypeOK, QueueInv, OnTrack(queue, tick, counter), Shows(image, queue, counter),
         NEW id \in ActionId, Decide(id)
  PROVE  Shows(image', queue', counter')
<1>1. PICK b : ChildFails(id, b) \/ Progresses(id, b) \/ Retries(id, b) \/ GivesUp(id, b)
  BY DEF Decide
<1> DEFINE r == queue[id].run
           e == Stepped(id, b).entry
           im == Stepped(id, b).image
           q == Put(queue, id, e)
<1>2. Turn(id, b) /\ id \in todo /\ counter' = counter
  BY <1>1 DEF ChildFails, Progresses, Retries, GivesUp, Turn
<1>3. /\ b \in BranchSet /\ b.next \in Phase /\ r \in Route /\ b # None
      /\ e \in QueueEntry /\ e.run \in Route /\ e.run # None /\ e.run.phase = r.phase
      /\ e.run.retry = r.retry /\ e.run.phaseDue = r.phaseDue
  BY <1>2, SteppedEntry, NoneAssumption
<1>4. /\ queue \in QueueMap /\ tick \in Nat /\ id \in Long(queue) /\ queue[id] \in QueueEntry
      /\ Travelled(r) /\ Retrying(r)
  BY <1>2, SteppedSteps DEF TypeOK, OnTrack
<1>5. Left(e.run, b) /\ Boundary(e.run) = tick
  <2>1. Left(e.run, b)
    BY <1>2, <1>4, SteppedLeft
  <2>2. Boundary(r) = tick
    BY <1>2 DEF QueueInv, BoundaryAhead
  <2> QED BY <1>3, <2>1, <2>2 DEF Boundary
<1>6. /\ Shows(im, q, counter)
      /\ Shows(BranchImage(id, b), Put(queue, id, WithRun(queue[id], Chosen(r, b))), counter)
  BY <1>2, SteppedShows
<1>7. /\ q \in QueueMap /\ q[id] = e /\ id \in Long(q)
      /\ \A y : Put(q, id, y) = Put(queue, id, y)
      /\ Drop(q, {id}) = Drop(queue, {id})
  BY <1>3, <1>4, PutTwice
<1>8. CASE ChildFails(id, b)
  <2> DEFINE x == WithRun(queue[id], Chosen(r, b))
             g == Put(queue, id, x)
  <2>1. x \in QueueEntry
    BY <1>3, <1>4, RouteTypes, EntryTypes
  <2> HIDE DEF x
  <2>2. g \in QueueMap /\ Drop(g, {id}) = Drop(queue, {id})
    BY <1>4, <2>1, PutTwice
  <2>3. Shows(BranchImage(id, b), g, counter)
    BY <1>6 DEF x
  <2> HIDE DEF g
  <2>4. Shows(LogEnd(BranchImage(id, b), id, TRUE, "failed", tick), Drop(g, {id}), counter)
    <3> DEFINE why == "failed"
    <3>1. why # "completed"
      OBVIOUS
    <3> HIDE DEF why
    <3>2. Shows(LogEnd(BranchImage(id, b), id, TRUE, why, tick), Drop(g, {id}), counter)
      BY <1>4, <2>2, <2>3, <3>1, EndShows
    <3> QED BY <3>2 DEF why
  <2> QED BY <1>2, <1>8, <2>2, <2>4 DEF ChildFails
<1>9. CASE Progresses(id, b)
  <2> DEFINE p == r.phase
  <2>1. /\ queue' = Put(queue, id, Advanced(e, b, tick))
        /\ image' = LogProgress(im, id, p, b, tick)
    BY <1>9 DEF Progresses
  <2>2. e.run.phase = p /\ e.run.branch[p] = b
    BY ZenonT(30), <1>3, <1>5 DEF Left
  <2> HIDE DEF e, im, q, p
  <2>3. Shows(LogProgress(im, id, p, b, tick), Put(q, id, Advanced(q[id], b, tick)), counter)
    BY <1>3, <1>4, <1>5, <1>6, <1>7, <2>2, ProgressShows
  <2> QED BY <1>2, <1>7, <2>1, <2>3
<1>10. CASE Retries(id, b)
  <2> DEFINE p == b.next
  <2>1. /\ queue' = Put(queue, id, Postponed(e, NextRetry(r, p)))
        /\ image' = LogRetry(im, id, NextRetry(r, p), tick)
        /\ MayRetry(r, p)
    BY <1>10 DEF Retries
  <2>2. NextRetry(e.run, p) = NextRetry(r, p) /\ MayRetry(e.run, p)
    BY <1>3, <2>1 DEF NextRetry, MayRetry
  <2>3. e.run.branch[e.run.phase] = b
    BY <1>5 DEF Left
  <2>4. e.run.retry # None => e.run.retry.phase = p
    <3> SUFFICES ASSUME r.retry # None PROVE r.retry.phase = p
      BY <1>3
    <3>1. r.branch[r.phase] # None /\ r.retry.phase = r.branch[r.phase].next
      <4>1. r.branch[r.phase] # None
        BY <1>4 DEF Travelled
      <4>2. r.retry.phase = r.branch[r.phase].next
        BY <1>4 DEF Retrying
      <4> QED BY <4>1, <4>2
    <3>2. b = r.branch[r.phase]
      BY <1>2, <3>1 DEF Turn, Takes
    <3> QED BY <3>1, <3>2
  <2>5. p \in Phase /\ b.next = p
    BY <1>3
  <2> HIDE DEF e, im, q, p, r
  <2>6. Shows(LogRetry(im, id, NextRetry(q[id].run, p), tick),
              Put(q, id, Postponed(q[id], NextRetry(q[id].run, p))), counter)
    BY <1>3, <1>4, <1>5, <1>6, <1>7, <2>2, <2>3, <2>4, <2>5, RetryShows
  <2> QED BY <1>2, <1>7, <2>1, <2>2, <2>6
<1>11. CASE GivesUp(id, b)
  <2>1. queue' = Drop(queue, {id}) /\ image' = LogEnd(im, id, TRUE, "failed", tick)
    BY <1>11 DEF GivesUp
  <2> DEFINE why == "failed"
  <2>2. why # "completed" /\ image' = LogEnd(im, id, TRUE, why, tick)
    BY <2>1
  <2> HIDE DEF e, im, q, why
  <2>3. Shows(LogEnd(im, id, TRUE, why, tick), Drop(q, {id}), counter)
    BY <1>4, <1>6, <1>7, <2>2, EndShows
  <2> QED BY <1>2, <1>7, <2>1, <2>2, <2>3
<1> QED BY <1>1, <1>8, <1>9, <1>10, <1>11

\* The pending entries: queued, or popped and not executed yet.
Both(q, r) == [id \in ActionId |-> IF q[id] # None THEN q[id] ELSE r[id]]

LongOnly(q, ac) == \A id \in Held(q) : q[id].run # None /\ ac[id].verb = "long"

\* What Mirrored says of the image, and of the entries.
LEMMA MirrorParts ==
  /\ TypeOK => (Mirrored <=> /\ Shows(image, Both(queue, ready), counter)
                             /\ LongOnly(queue, act) /\ LongOnly(ready, act))
  /\ TypeOK' => (Mirrored' <=> /\ Shows(image', Both(queue', ready'), counter')
                               /\ LongOnly(queue', act') /\ LongOnly(ready', act'))
<1>1. ASSUME NEW im \in Image, NEW q, NEW r
      PROVE  im.pending = Both(q, r)
               <=> \A id \in ActionId : im.pending[id] = IF q[id] # None THEN q[id] ELSE r[id]
  <2>1. im.pending \in QueueMap
    BY ImageTypes
  <2>2. im.pending = [id \in ActionId |-> im.pending[id]]
    BY <2>1 DEF QueueMap
  <2> QED BY <2>2 DEF Both
<1>2. TypeOK => (Mirrored <=> /\ Shows(image, Both(queue, ready), counter)
                              /\ LongOnly(queue, act) /\ LongOnly(ready, act))
  <2>1. TypeOK => image \in Image
    BY DEF TypeOK
  <2> QED BY <1>1, <2>1 DEF Mirrored, Shows, LongOnly
<1>3. TypeOK' => (Mirrored' <=> /\ Shows(image', Both(queue', ready'), counter')
                                /\ LongOnly(queue', act') /\ LongOnly(ready', act'))
  <2>1. TypeOK' => image' \in Image
    BY DEF TypeOK
  <2> QED BY <1>1, <2>1 DEF Mirrored, Shows, LongOnly
<1> QED BY <1>2, <1>3

\* While nothing is popped, the image is the queue.
LEMMA MirrorQueue ==
  /\ TypeOK /\ ready = Nobody
       => (Mirrored <=> Shows(image, queue, counter) /\ LongOnly(queue, act))
  /\ TypeOK' /\ ready' = Nobody
       => (Mirrored' <=> Shows(image', queue', counter') /\ LongOnly(queue', act'))
<1>1. ASSUME NEW q \in QueueMap PROVE Both(q, Nobody) = q
  BY DEF Both, Nobody, QueueMap
<1>2. \A ac : LongOnly(Nobody, ac)
  BY DEF LongOnly, Held, Nobody
<1>3. (TypeOK => queue \in QueueMap) /\ (TypeOK' => queue' \in QueueMap)
  BY DEF TypeOK
<1>4. TypeOK /\ ready = Nobody
        => (Mirrored <=> Shows(image, queue, counter) /\ LongOnly(queue, act))
  BY <1>1, <1>2, <1>3, MirrorParts
<1>5. TypeOK' /\ ready' = Nobody
        => (Mirrored' <=> Shows(image', queue', counter') /\ LongOnly(queue', act'))
  BY <1>1, <1>2, <1>3, MirrorParts
<1> QED BY <1>4, <1>5

\* Entries that stay in the queue are still of actions with a behavior.
LEMMA LongKeeps ==
  ASSUME LongOnly(queue, act),
         \A x \in Held(queue') : /\ x \in Held(queue) /\ act'[x].verb = act[x].verb
                                 /\ queue'[x] = queue[x]
  PROVE  LongOnly(queue', act')
BY DEF LongOnly

\* One call of _execute() when every append succeeds: the image loses what the
\* effect interrupts and, if it has a behavior, the executed action.
LEMMA ExecuteShows ==
  ASSUME TypeOK, NEW id \in ActionId, NEW rec \in ActionRecord, NEW f \in QueueMap,
         Shows(image, f, counter), Completes(id, rec) \/ Rejected(id, rec),
         rec.verb = "long" /\ f[id] # None =>
           f[id].run.phase = Terminal /\ f[id].run.phaseDue = tick /\ f[id].due = tick
  PROVE  \E S \in SUBSET Held(queue) :
           /\ queue' = Drop(queue, S)
           /\ Shows(image', Drop(f, S \cup (IF rec.verb = "long" THEN {id} ELSE {})), counter)
           /\ \A x \in ActionId \ {id} : act'[x].verb = act[x].verb
<1> DEFINE gone == IF rec.verb = "long" THEN {id} ELSE {}
<1>1. /\ tick \in Nat /\ act \in [ActionId -> ActionRecord] /\ queue \in QueueMap
      /\ Written(cell, rec.verb, rec.actor, rec.target) \in CellMap
  BY WrittenType, RecordTypes DEF TypeOK
<1>2. Drop(f, gone) \in QueueMap /\ Drop(f, {}) = f /\ Drop(queue, {}) = queue
  BY <1>1, MapTypes DEF Drop, QueueMap
<1>3. ASSUME NEW im, Shows(im, f, counter), NEW event,
             event = "completed" \/ event = "failed"
      PROVE  Shows(LogEnd(im, id, rec.verb = "long", event, tick), Drop(f, gone), counter)
  <2>1. CASE rec.verb = "long"
    <3>1. LogEnd(im, id, rec.verb = "long", event, tick) = LogEnd(im, id, TRUE, event, tick)
      BY <2>1 DEF LogEnd
    <3>2. Shows(LogEnd(im, id, TRUE, event, tick), Drop(f, {id}), counter)
      BY <1>1, <1>3, <2>1, EndShows
    <3> QED BY <2>1, <3>1, <3>2
  <2>2. CASE rec.verb # "long"
    <3>1. LogEnd(im, id, rec.verb = "long", event, tick) = im
      BY <2>2 DEF LogEnd
    <3> QED BY <1>2, <1>3, <2>2, <3>1
  <2> QED BY <2>1, <2>2
<1> HIDE DEF gone
<1>4. CASE Completes(id, rec)
  <2> DEFINE S == Interrupted(Struck(rec.verb, rec.actor, rec.target), id)
             im == CommitImage(id, rec)
  <2>1. /\ queue' = Drop(queue, S) /\ image' = LogStop(im, S, tick)
        /\ act' = [q \in ActionId |-> IF q \in S THEN [Done(id, rec)[q] EXCEPT !.status = "interrupted"]
                                                 ELSE Done(id, rec)[q]]
    BY <1>4 DEF Completes, Interrupt
  <2>2. S \in SUBSET Held(queue)
    BY DEF Interrupted, Long
  <2>3. Shows(im, Drop(f, gone), counter)
    <3> DEFINE c == Written(cell, rec.verb, rec.actor, rec.target)
               was == LogCommit(image, c)
               event == "completed"
    <3>1. Shows(was, f, counter)
      BY <1>1, CommitShows
    <3>2. im = LogEnd(was, id, rec.verb = "long", event, tick)
      BY DEF CommitImage
    <3>3. event = "completed" \/ event = "failed"
      OBVIOUS
    <3> HIDE DEF im, was, event
    <3> QED BY <1>3, <3>1, <3>2, <3>3
  <2> HIDE DEF S, im
  <2>4. Shows(image', Drop(Drop(f, gone), S), counter)
    BY <1>1, <1>2, <2>1, <2>3, StopShows
  <2>5. Drop(Drop(f, gone), S) = Drop(f, S \cup gone)
    BY DEF Drop
  <2>6. \A x \in ActionId \ {id} : act'[x].verb = act[x].verb
    <3>1. \A x \in ActionId \ {id} : Done(id, rec)[x] = act[x] /\ act[x] \in ActionRecord
      BY <1>1 DEF Done
    <3> QED BY <2>1, <3>1 DEF ActionRecord
  <2> QED BY <2>1, <2>2, <2>4, <2>5, <2>6 DEF gone
<1>5. CASE Rejected(id, rec)
  <2> DEFINE event == "failed"
  <2>1. /\ queue' = queue /\ act' = Failed(id, rec)
        /\ image' = LogEnd(image, id, rec.verb = "long", event, tick)
    BY <1>5 DEF Rejected
  <2>2. event = "completed" \/ event = "failed"
    OBVIOUS
  <2> HIDE DEF event
  <2>3. Shows(image', Drop(f, gone), counter)
    BY <1>3, <2>1, <2>2
  <2>4. Drop(f, {} \cup gone) = Drop(f, gone)
    BY DEF Drop
  <2>5. \A x \in ActionId \ {id} : act'[x].verb = act[x].verb
    BY <1>1, <2>1 DEF Failed
  <2>6. {} \in SUBSET Held(queue) /\ queue' = Drop(queue, {})
    BY <1>2, <2>1
  <2>7. Shows(image', Drop(f, {} \cup gone), counter)
    BY <2>3, <2>4
  <2> QED BY <2>5, <2>6, <2>7 DEF gone
<1> QED BY <1>4, <1>5

\* submit() and cancel_action() when every append succeeds and no action without
\* a behavior is delayed.
LEMMA SubmitMirror ==
  ASSUME ~LogMayFail, Delays = {}, TypeOK, TypeOK', QueueInv, Mirrored,
         NEW id \in ActionId, Submit(id) \/ Cancel(id)
  PROVE  Mirrored'
<1>1. /\ pc = "idle" /\ ready = Nobody /\ ready' = Nobody
      /\ Submit(id) => act[id].status = "new"
  <2>1. Submit(id) => CanSubmit(id) /\ UNCHANGED loop
    BY ZenonT(30) DEF Submit, SubmitRefused, SubmitLong, SubmitNow, SubmitDelayed, Schedule
  <2>2. Cancel(id) => Idle /\ UNCHANGED loop
    BY DEF Cancel
  <2> QED BY <2>1, <2>2 DEF CanSubmit, Idle, loop, TypeOK
<1>2. /\ queue \in QueueMap /\ tick \in Nat /\ counter \in Nat /\ act \in [ActionId -> ActionRecord]
      /\ Submit(id) => queue[id] = None
  BY <1>1 DEF TypeOK, QueueInv, Scheduled, Held
<1>3. Shows(image, queue, counter) /\ LongOnly(queue, act)
  BY <1>1, MirrorQueue
<1>4. SUFFICES Shows(image', queue', counter') /\ LongOnly(queue', act')
  BY <1>1, MirrorQueue
<1>5. ASSUME NEW S, queue' = Drop(queue, S), \A x \in ActionId \ S : x \in Held(queue) => act'[x].verb = act[x].verb
      PROVE  LongOnly(queue', act')
  <2>1. \A x \in Held(queue') : x \in ActionId \ S /\ x \in Held(queue) /\ queue'[x] = queue[x]
    BY <1>5 DEF Held, Drop
  <2> QED BY <1>3, <1>5, <2>1, LongKeeps
<1>6. Submit(id) => Drop(queue, {id}) = queue
  BY <1>2 DEF Drop, QueueMap
<1>7. CASE Cancel(id)
  <2>1. /\ queue' = Drop(queue, {id}) /\ image' = LogStop(image, {id}, tick) /\ counter' = counter
        /\ act' = [act EXCEPT ![id].status = "cancelled"]
    BY <1>7 DEF Cancel
  <2>2. Shows(image', queue', counter')
    BY <1>2, <1>3, <2>1, StopShows
  <2> QED BY <1>2, <1>5, <2>1, <2>2
<1>8. ASSUME NEW a, NEW t, SubmitRefused(id, a, t), Submit(id)
      PROVE  Shows(image', queue', counter') /\ LongOnly(queue', act')
  <2> DEFINE event == "failed"
  <2>1. /\ queue' = Drop(queue, {id}) /\ image' = LogEnd(image, id, TRUE, event, tick)
        /\ counter' = counter /\ act' = Failed(id, New(a, t, "long")) /\ event # "completed"
    BY <1>6, <1>8 DEF SubmitRefused
  <2> HIDE DEF event
  <2>2. Shows(image', queue', counter')
    BY <1>2, <1>3, <2>1, EndShows
  <2> QED BY <1>2, <1>5, <2>1, <2>2 DEF Failed
<1>9. ASSUME NEW a \in Actor, NEW t \in Actor, SubmitLong(id, a, t), Submit(id)
      PROVE  Shows(image', queue', counter') /\ LongOnly(queue', act')
  <2> DEFINE due == tick + Longest[Entry]
             run == Fresh(tick)
             x == [due |-> due, order |-> counter + 1, run |-> run]
             n == counter + 1
  <2>1. due \in Nat /\ run \in Route /\ run # None
    BY <1>2, GraphAssumption, FreshType, NoneAssumption
  <2>2. /\ counter' = n /\ queue' = Put(queue, id, x)
        /\ image' = LogScheduled(image, id, due, run, tick)
        /\ act' = [act EXCEPT ![id] = [New(a, t, "long") EXCEPT !.status = "scheduled"]]
    BY <1>9 DEF SubmitLong, Schedule
  <2>3. act'[id].verb = "long" /\ \A y \in ActionId \ {id} : act'[y] = act[y]
    BY <1>2, <2>2 DEF New
  <2> HIDE DEF due, run
  <2>4. Shows(image', queue', counter')
    BY <1>2, <1>3, <2>1, <2>2, ScheduledShows
  <2>5. x.run # None
    BY <2>1
  <2> HIDE DEF x
  <2>6. queue'[id] = x /\ \A y \in ActionId \ {id} : queue'[y] = queue[y]
    BY <1>2, <2>2 DEF Put, QueueMap
  <2>7. LongOnly(queue', act')
    BY <1>3, <2>3, <2>5, <2>6 DEF LongOnly, Held
  <2> QED BY <2>4, <2>7
<1>10. ASSUME NEW a \in Actor, NEW t \in Actor, NEW kind \in Kind, SubmitNow(id, a, t, kind), Submit(id)
       PROVE  Shows(image', queue', counter') /\ LongOnly(queue', act')
  <2> DEFINE rec == New(a, t, kind)
  <2>1. rec \in ActionRecord /\ rec.verb # "long"
    BY NewType DEF New, Kind
  <2>2. Completes(id, rec) \/ Rejected(id, rec)
    BY <1>10 DEF SubmitNow, CompletesAndRaises, RollsBack
  <2>3. counter' = counter
    BY <1>10 DEF SubmitNow
  <2> HIDE DEF rec
  <2>4. PICK S \in SUBSET Held(queue) :
           /\ queue' = Drop(queue, S)
           /\ Shows(image', Drop(queue, S \cup (IF rec.verb = "long" THEN {id} ELSE {})), counter)
           /\ \A x \in ActionId \ {id} : act'[x].verb = act[x].verb
    BY <1>2, <1>3, <2>1, <2>2, ExecuteShows
  <2>5. Shows(image', queue', counter')
    BY <2>1, <2>3, <2>4
  <2>6. LongOnly(queue', act')
    BY <1>2, <1>5, <1>10, <2>4 DEF Held
  <2> QED BY <2>5, <2>6
<1> QED BY <1>7, <1>8, <1>9, <1>10 DEF Submit

\* Every step of the kernel keeps the image in step with the queue, when every
\* append succeeds and no action without a behavior is delayed: replay() accepts
\* each record, and rebuilds each entry as it stands.
LEMMA MirrorStep ==
  ASSUME ~LogMayFail, Delays = {}, TypeOK, TypeOK', QueueInv, ReadyInv,
         OnTrack(queue, tick, counter), Punctual, Mirrored, [Next]_vars
  PROVE  Mirrored'
<1>1. /\ queue \in QueueMap /\ ready \in QueueMap /\ tick \in Nat
      /\ act \in [ActionId -> ActionRecord]
      /\ pc # "execute" => ready = Nobody
  BY DEF TypeOK
<1>2. /\ Shows(image, Both(queue, ready), counter)
      /\ LongOnly(queue, act) /\ LongOnly(ready, act)
      /\ ready = Nobody => Shows(image, queue, counter)
  BY MirrorParts, MirrorQueue
<1>3. CASE BeginTick \/ TickLogged \/ UNCHANGED vars
  BY <1>3 DEF BeginTick, TickLogged, vars, Mirrored
<1>4. ~TickRollsBack
  BY DEF TickRollsBack
<1>5. CASE PublishHit
  <2> DEFINE S == Interrupted(Head(hits).target, Head(hits).cause)
  <2>1. /\ pc = "publish" /\ ready' = ready /\ counter' = counter
        /\ queue' = Drop(queue, S) /\ image' = LogStop(image, S, tick)
        /\ act' = [q \in ActionId |-> IF q \in S THEN [act[q] EXCEPT !.status = "interrupted"]
                                                 ELSE act[q]]
    BY <1>5 DEF PublishHit, Interrupt
  <2> HIDE DEF S
  <2>2. Shows(image', queue', counter')
    BY <1>1, <1>2, <2>1, StopShows
  <2>3. \A x \in Held(queue') : x \in ActionId \ S /\ x \in Held(queue) /\ queue'[x] = queue[x]
    BY <2>1 DEF Held, Drop
  <2>4. LongOnly(queue', act')
    BY <1>2, <2>1, <2>3, LongKeeps
  <2> QED BY <1>1, <2>1, <2>2, <2>4, MirrorQueue
<1>6. CASE PopReady
  <2> DEFINE due == {x \in Held(queue) : queue[x].due <= tick}
  <2>1. /\ ready = Nobody /\ image' = image /\ act' = act /\ counter' = counter
        /\ queue' = Drop(queue, due)
        /\ ready' = [x \in ActionId |-> IF x \in due THEN queue[x] ELSE None]
    BY <1>1, <1>6 DEF PopReady
  <2>2. due \subseteq Held(queue)
    OBVIOUS
  <2> HIDE DEF due
  <2>3. Both(queue', ready') = queue
    BY <1>1, <2>1, <2>2 DEF Both, Drop, QueueMap, Held
  <2>4. LongOnly(queue', act') /\ LongOnly(ready', act')
    BY <1>2, <2>1, <2>2 DEF LongOnly, Held, Drop
  <2> QED BY <1>2, <2>1, <2>3, <2>4, MirrorParts
<1>7. ASSUME NEW id \in ActionId, Decide(id) PROVE Mirrored'
  <2>1. ready = Nobody /\ ready' = Nobody
    BY <1>1, <1>7 DEF Decide, ChildFails, Progresses, Retries, GivesUp, Turn
  <2>2. Shows(image', queue', counter')
    BY <1>2, <1>7, <2>1, DecideShows
  <2>3. Held(queue') \subseteq Held(queue)
    BY <1>7, DecideQueue
  <2>4. /\ \A x \in ActionId : act'[x].verb = act[x].verb
        /\ \A x \in Held(queue') : queue'[x].run # None
    <3>1. PICK b : ChildFails(id, b) \/ Progresses(id, b) \/ Retries(id, b) \/ GivesUp(id, b)
      BY <1>7 DEF Decide
    <3> DEFINE e == Stepped(id, b).entry
    <3>2. act' = act \/ act' = [act EXCEPT ![id].status = "failed"]
      BY <3>1 DEF ChildFails, Progresses, Retries, GivesUp
    <3>3. \A x \in ActionId : act'[x].verb = act[x].verb
      BY <1>1, <3>2 DEF ActionRecord
    <3>4. /\ queue' = Drop(queue, {id}) \/ \E x : x.run # None /\ queue' = Put(queue, id, x)
      <4>1. CASE ChildFails(id, b) \/ GivesUp(id, b)
        BY <4>1 DEF ChildFails, GivesUp
      <4>2. CASE Progresses(id, b)
        <5>1. e \in QueueEntry /\ e.run # None /\ b \in BranchSet
          BY <4>2, SteppedEntry, NoneAssumption DEF Progresses, Turn
        <5> HIDE DEF e
        <5>2. Advanced(e, b, tick).run # None
          BY <1>1, <5>1, AdvancedType, NoneAssumption
        <5> QED BY <4>2, <5>2 DEF Progresses, e
      <4>3. CASE Retries(id, b)
        <5> DEFINE n == NextRetry(queue[id].run, b.next)
        <5>1. /\ e \in QueueEntry /\ e.run # None /\ b.next \in Phase /\ queue[id].run \in Route
              /\ Policy[b.next] # None
          BY <4>3, SteppedEntry, NoneAssumption DEF Retries, Turn, MayRetry
        <5>2. n \in RetryRecord /\ n.phase = b.next
          BY <1>1, <5>1, NextRetryType
        <5> HIDE DEF e, n
        <5>3. Postponed(e, n).run # None
          BY <5>1, <5>2, EntryTypes, NoneAssumption
        <5> QED BY <4>3, <5>3 DEF Retries, e, n
      <4> QED BY <3>1, <4>1, <4>2, <4>3
    <3>5. \A x \in Held(queue') : queue'[x].run # None
      BY <1>1, <1>2, <2>3, <3>4 DEF LongOnly, Held, Drop, Put, QueueMap
    <3> QED BY <3>3, <3>5
  <2>5. LongOnly(queue', act')
    BY <1>2, <2>3, <2>4 DEF LongOnly, Held
  <2> QED BY <2>1, <2>2, <2>5, MirrorQueue
<1>8. ASSUME NEW id \in ActionId, ExecuteReady(id) PROVE Mirrored'
  <2> DEFINE rec == act[id]
             f == Both(queue, ready)
  <2>1. /\ id \in Held(ready) /\ ready' = Drop(ready, {id}) /\ counter' = counter
        /\ Completes(id, rec) \/ Rejected(id, rec)
    BY <1>8 DEF ExecuteReady, CompletesAndRaises, RollsBack
  <2>2. /\ rec \in ActionRecord /\ rec.verb = "long" /\ queue[id] = None
        /\ ready[id] # None /\ id \in Long(ready)
    BY <1>1, <1>2, <2>1 DEF LongOnly, ReadyInv, Held, Long
  <2>3. f \in QueueMap /\ f[id] = ready[id]
    BY <1>1, <2>2 DEF Both, QueueMap
  <2>4. f[id].run.phase = Terminal /\ f[id].run.phaseDue = tick /\ f[id].due = tick
    BY <2>2, <2>3 DEF ReadyInv, Punctual
  <2> HIDE DEF f, rec
  <2>5. PICK S \in SUBSET Held(queue) :
           /\ queue' = Drop(queue, S)
           /\ Shows(image', Drop(f, S \cup (IF rec.verb = "long" THEN {id} ELSE {})), counter)
           /\ \A x \in ActionId \ {id} : act'[x].verb = act[x].verb
    BY <1>2, <2>1, <2>2, <2>3, <2>4, ExecuteShows DEF f
  <2>6. Drop(f, S \cup {id}) = Both(queue', ready')
    <3>1. \A x \in S : ready[x] = None
      BY DEF ReadyInv, Held
    <3> QED BY <2>1, <2>2, <2>5, <3>1 DEF f, Both, Drop
  <2>7. Shows(image', Both(queue', ready'), counter')
    BY <2>1, <2>2, <2>5, <2>6
  <2>8. \A x \in Held(queue') : x # id /\ x \in ActionId /\ x \in Held(queue) /\ queue'[x] = queue[x]
    BY <2>2, <2>5 DEF Held, Drop
  <2>9. \A x \in Held(ready') : x # id /\ x \in ActionId /\ x \in Held(ready) /\ ready'[x] = ready[x]
    BY <2>1 DEF Held, Drop
  <2>10. LongOnly(queue', act') /\ LongOnly(ready', act')
    BY <1>2, <2>5, <2>8, <2>9 DEF LongOnly
  <2> QED BY <2>7, <2>10, MirrorParts
<1>9. ASSUME NEW id \in ActionId, Submit(id) \/ Cancel(id) PROVE Mirrored'
  BY <1>9, SubmitMirror
<1> QED BY <1>3, <1>4, <1>5, <1>6, <1>7, <1>8, <1>9 DEF Next, Advance

\* Nothing that every append succeeding takes away: types, the invariants of the
\* queue, of the effects and of the routes, and punctual routes.
OnTime == TypeOK /\ KernelInv /\ HistoryInv /\ RouteInv /\ Punctual

\* When every append succeeds, a route is executed at the tick its last phase ends.
LEMMA AlwaysOnTime ==
  ASSUME ~LogMayFail
  PROVE  Spec => []OnTime
<1>1. Init => OnTime
  <2>1. Init => RouteInv /\ Punctual
    BY DEF Init, RouteInv, OnTrack, Punctual, Nobody, Held, Long
  <2> QED BY <2>1, InitType, InitInv, InitHistory DEF OnTime
<1>2. OnTime /\ [Next]_vars => OnTime'
  <2> SUFFICES ASSUME OnTime, [Next]_vars PROVE OnTime'
    OBVIOUS
  <2>1. TypeOK /\ QueueInv /\ RouteInv /\ OnTrack(queue, tick, counter) /\ Punctual
    BY InvParts DEF OnTime, RouteInv
  <2>2. Punctual'
    BY <2>1, PunctualStep
  <2>3. RouteInv'
    BY <2>1, RouteStep
  <2> QED BY <2>2, <2>3, TypeStep, InvStep, HistoryStep DEF OnTime
<1> QED BY <1>1, <1>2, PTL DEF Spec

\* When besides no action without a behavior is delayed, the log tells it all.
LEMMA AlwaysMirrored ==
  ASSUME ~LogMayFail, Delays = {}
  PROVE  Spec => [](OnTime /\ Mirrored)
<1>1. Init => Mirrored
  BY DEF Init, Mirrored, Nobody, Held
<1>2. OnTime /\ OnTime' /\ Mirrored /\ [Next]_vars => Mirrored'
  <2> SUFFICES ASSUME OnTime, OnTime', Mirrored, [Next]_vars PROVE Mirrored'
    OBVIOUS
  <2>1. /\ TypeOK /\ TypeOK' /\ QueueInv /\ ReadyInv /\ OnTrack(queue, tick, counter)
        /\ Punctual
    BY InvParts DEF OnTime, RouteInv
  <2> QED BY <2>1, MirrorStep
<1>3. Spec => []OnTime
  BY AlwaysOnTime
<1> QED BY <1>1, <1>2, <1>3, PTL DEF Spec

\* When every append succeeds and every pending action has a behavior, a fresh
\* runtime that replays the log has the cells and the queue of the live one, to
\* the cursor, branches, child steps and retry of each route, and replay() refuses
\* none of the records the kernel wrote.
THEOREM ReplayHolds ==
  ASSUME ~LogMayFail, Delays = {}
  PROVE  Spec => []ReplayFaithful
<1>1. OnTime /\ Mirrored => ReplayFaithful
  <2> SUFFICES ASSUME OnTime, Mirrored, Idle PROVE image.ok /\ image.cell = cell /\ image.pending = queue
    BY DEF ReplayFaithful
  <2>1. ready = Nobody /\ TypeOK
    BY DEF OnTime, TypeOK, Idle
  <2>2. image.ok /\ image.pending = queue
    BY <2>1, MirrorQueue DEF Shows
  <2>3. image.cell = cell
    BY <2>2 DEF OnTime, HistoryInv, Recorded
  <2> QED BY <2>2, <2>3
<1>2. Spec => [](OnTime /\ Mirrored)
  BY AlwaysMirrored
<1> QED BY <1>1, <1>2, PTL

-----------------------------------------------------------------------------
(* Snapshots.                                                              *)

\* Members of a sequence, of all but its last, and of a whole one.
LEMMA SequenceParts ==
  ASSUME NEW s \in Seq(Phase), Len(s) > 0
  PROVE  Members(Front(s)) = {s[i] : i \in 1 .. Len(s) - 1}
<1> DEFINE n == Len(s)
           f == Front(s)
<1>1. f \in Seq(Phase) /\ Len(f) = n - 1 /\ \A i \in 1 .. n - 1 : f[i] = s[i]
  <2> DEFINE k == n - 1
             m == 1
  <2>1. k \in Int /\ m \in Int /\ k \in Nat /\ \A i \in m .. k : s[i] \in Phase
    OBVIOUS
  <2> HIDE DEF k
  <2>2. k - m + 1 = k /\ (IF m <= k THEN k - m + 1 ELSE 0) = k /\ \A i \in 1 .. k : m + i - 1 = i
    BY <2>1
  <2> HIDE DEF m
  <2>3. /\ SubSeq(s, m, k) \in Seq(Phase)
        /\ Len(SubSeq(s, m, k)) = (IF m <= k THEN k - m + 1 ELSE 0)
        /\ \A i \in 1 .. k - m + 1 : SubSeq(s, m, k)[i] = s[m + i - 1]
    BY <2>1, SubSeqProperties
  <2>4. f = SubSeq(s, m, k)
    BY DEF Front, m, k
  <2> HIDE DEF f
  <2> QED BY <2>2, <2>3, <2>4 DEF k
<1> HIDE DEF f
<1>2. DOMAIN f = 1 .. n - 1
  BY <1>1
<1> QED BY <1>1, <1>2 DEF Members, f

\* A sequence that is the whole is a prefix of it with the same members.
LEMMA WholeIsPrefix ==
  ASSUME NEW s \in Seq(Phase)
  PROVE  Len(s) <= Len(s) /\ s = SubSeq(s, 1, Len(s))
<1>1. Len(s) <= Len(s)
  OBVIOUS
<1> QED BY <1>1, SubSeqFull

\* load_snapshot() accepts what it reads of a pending route that is on time.
LEMMA RecordAccepted ==
  ASSUME OnTime, Idle, NEW id \in Long(queue)
  PROVE  RecordFits(queue[id], tick)
<1> DEFINE e == queue[id]
           r == e.run
           v == r.visited
           n == Len(v)
<1>1. /\ id \in ActionId /\ e \in QueueEntry /\ e # None /\ r # None /\ r \in Route
      /\ r.phase \in Phase /\ e.due \in Nat /\ r.phaseDue \in Nat /\ tick \in Nat /\ todo = {}
      /\ v \in Seq(Phase) /\ n \in Nat /\ r.steps \in Seq(Phase)
  <2>1. id \in ActionId /\ e # None /\ r # None /\ e \in QueueEntry /\ r \in Route
    BY MapTypes DEF Long, Held, OnTime, TypeOK
  <2>2. tick \in Nat /\ todo = {}
    BY DEF OnTime, TypeOK, Idle
  <2> QED BY <2>1, <2>2 DEF QueueEntry, Route
<1>2. QueueInv /\ TypeOK /\ Travelled(r) /\ Retrying(r) /\ Timed(e, tick)
  <2>1. QueueInv /\ TypeOK
    BY InvParts DEF OnTime
  <2>2. Travelled(r) /\ Retrying(r) /\ Timed(e, tick)
    BY DEF OnTime, RouteInv, OnTrack
  <2> QED BY <2>1, <2>2
<1>3. /\ n > 0 /\ v[1] = Entry /\ v[n] = r.phase
      /\ \A i, j \in 1 .. n : i < j => Longest[v[i]] > Longest[v[j]]
      /\ \A i \in 1 .. n - 1 : r.branch[v[i]] # None /\ r.branch[v[i]].next = v[i + 1]
      /\ \A p \in Phase : r.branch[p] # None => \E i \in 1 .. n : v[i] = p
      /\ r.branch[r.phase] # None <=> r.retry # None
      /\ r.steps = Authored(r)
  BY ZenonT(30), <1>2 DEF Travelled
<1>4. \A p \in Phase : r.branch[p] \in Branches[p] \cup {None}
  BY <1>2 DEF QueueInv, OnBranches
<1>5. r.retry # None => id \in OnRoute(queue)
  <2>1. r.phase = Terminal => r.branch[r.phase] = None
    BY <1>1, <1>4, GraphAssumption
  <2> QED BY <1>3, <2>1 DEF OnRoute
<1>6. id \in OnRoute(queue) => Boundary(r) > tick /\ Boundary(r) \in Nat
  BY <1>1, <1>2, BoundaryType DEF QueueInv, BoundaryAhead
<1>7. e.due > tick
  <2>1. CASE id \in OnRoute(queue)
    BY <1>1, <1>2, <2>1, DueAhead
  <2>2. CASE id \notin OnRoute(queue)
    BY <2>2 DEF OnRoute, OnTime, Punctual
  <2> QED BY <2>1, <2>2
<1>8. r.phase = Terminal => e.due = r.phaseDue
  BY <1>2 DEF Timed
<1>9. r.phaseDue <= tick <=> r.retry # None
  <2>1. CASE r.retry # None
    BY <1>2, <2>1 DEF Timed
  <2>2. CASE r.retry = None /\ r.phase = Terminal
    BY <1>1, <1>7, <1>8, <2>2
  <2>3. CASE r.retry = None /\ r.phase # Terminal
    <3>1. r.phaseDue > tick
      BY <1>6, <2>3 DEF OnRoute, Boundary
    <3> QED BY <1>1, <2>3, <3>1
  <2> QED BY <2>1, <2>2, <2>3
<1>10. r.phase # Terminal => e.due >= r.phaseDue
  <2> SUFFICES ASSUME r.phase # Terminal PROVE e.due >= r.phaseDue
    OBVIOUS
  <2>1. CASE r.retry # None
    BY <1>1, <1>7, <1>9, <2>1
  <2>2. CASE r.retry = None
    <3>1. e.due + Ticks[r.phase] >= Boundary(r) + Longest[r.phase]
      BY <1>2 DEF QueueInv, HasRoom, OnRoute
    <3>2. Boundary(r) = r.phaseDue
      BY <2>2 DEF Boundary
    <3>3. Longest[r.phase] > Ticks[r.phase] /\ Longest[r.phase] \in Nat /\ Ticks[r.phase] \in Nat
      BY <1>1, GraphAssumption
    <3> HIDE DEF r, e
    <3> QED BY <1>1, <3>1, <3>2, <3>3
  <2> QED BY <2>1, <2>2
<1>11. Started(r) <= tick
  <2>1. r.phaseDue <= tick + Ticks[r.phase] /\ Ticks[r.phase] \in Nat
    BY <1>1, <1>2, GraphAssumption DEF Timed
  <2> HIDE DEF r
  <2> QED BY <1>1, <2>1 DEF Started
<1>12. CursorFits(e, tick)
  <2>1. v # <<>> /\ Distinct(v) /\ Last(v) = r.phase
    <3> HIDE DEF v
    <3>1. v # <<>> /\ Last(v) = r.phase
      BY <1>1, <1>3 DEF Last
    <3>2. \A i, j \in 1 .. Len(v) : v[i] = v[j] => i = j
      BY <1>1, <1>3, LastIsClosest
    <3>3. DOMAIN v = 1 .. Len(v)
      BY <1>1
    <3> QED BY <3>1, <3>2, <3>3 DEF Distinct
  <2> QED BY <1>3, <1>7, <1>8, <1>9, <1>10, <1>11, <2>1 DEF CursorFits
<1>13. BranchesFit(r)
  <2> DEFINE left == Members(Front(v))
             now == IF r.retry # None /\ Branches[r.phase] # {} THEN {r.phase} ELSE {}
  <2>1. left = {v[i] : i \in 1 .. n - 1}
    BY <1>1, <1>3, SequenceParts
  <2>2. r.branch[r.phase] # None => Branches[r.phase] # {}
    BY <1>1, <1>4
  <2>3. \A i \in 1 .. n - 1 : v[i] \in Phase
    BY <1>1
  <2> HIDE DEF v, n, left
  <2>4. \A i \in 1 .. n : i \in 1 .. n - 1 \/ i = n
    BY <1>1
  <2>5. {p \in Phase : r.branch[p] # None} \subseteq left \cup now
    <3> SUFFICES ASSUME NEW p \in Phase, r.branch[p] # None PROVE p \in left \/ p \in now
      OBVIOUS
    <3>1. PICK i \in 1 .. n : v[i] = p
      BY <1>3
    <3>2. CASE i = n
      BY <1>3, <2>2, <3>1, <3>2
    <3> QED BY <2>1, <2>4, <3>1, <3>2
  <2>6. left \cup now \subseteq {p \in Phase : r.branch[p] # None}
    <3>1. left \subseteq {p \in Phase : r.branch[p] # None}
      <4> SUFFICES ASSUME NEW p \in left PROVE p \in Phase /\ r.branch[p] # None
        OBVIOUS
      <4>1. PICK i \in 1 .. n - 1 : p = v[i]
        BY <2>1
      <4> QED BY <1>3, <2>3, <4>1
    <3>2. now \subseteq {p \in Phase : r.branch[p] # None}
      BY <1>1, <1>3
    <3> QED BY <3>1, <3>2
  <2>7. r.retry # None => r.branch[r.phase] # None /\ r.branch[r.phase].next = r.retry.phase
    BY <1>2, <1>3 DEF Retrying
  <2>8. {p \in Phase : r.branch[p] # None} = left \cup now
    BY <2>5, <2>6
  <2> HIDE DEF now, r
  <2> QED BY <1>3, <1>4, <2>7, <2>8 DEF BranchesFit, left, now, v, n
<1>14. StepsFit(r)
  <2> DEFINE s == r.steps
  <2>1. s \in Seq(Phase) /\ s = Authored(r)
    BY <1>1, <1>3
  <2> HIDE DEF s
  <2>2. Len(s) <= Len(s) /\ s = SubSeq(s, 1, Len(s))
    BY <2>1, WholeIsPrefix
  <2>3. r.steps = s /\ Authored(r) = s
    BY <2>1 DEF s
  <2> HIDE DEF r
  <2>4. Len(r.steps) <= Len(Authored(r)) /\ r.steps = SubSeq(Authored(r), 1, Len(r.steps))
    BY <2>2, <2>3
  <2> QED BY <2>3, <2>4 DEF StepsFit
<1>15. RetryFits(r, tick)
  <2> SUFFICES ASSUME r.retry # None PROVE RetryFits(r, tick)
    BY DEF RetryFits
  <2>1. r.retry.next > tick
    BY <1>5, <1>6 DEF Boundary
  <2> HIDE DEF r
  <2> QED BY <1>2, <2>1 DEF Retrying, RetryFits
<1> QED BY <1>12, <1>13, <1>14, <1>15 DEF RecordFits

\* When every append succeeds, load_snapshot() accepts the snapshot of every state
\* between two calls, also with delayed actions pending, and goes on counting
\* orders where the saved scheduler stood.
THEOREM SnapshotAccepted ==
  ASSUME ~LogMayFail
  PROVE  Spec => [](Idle => Accepts(Snapshot) /\ Restored(Snapshot).counter = counter)
<1>1. OnTime /\ Idle => Accepts(Snapshot) /\ Restored(Snapshot).counter = counter
  <2> SUFFICES ASSUME OnTime, Idle
               PROVE  Accepts(Snapshot) /\ Restored(Snapshot).counter = counter
    OBVIOUS
  <2>1. /\ Snapshot.queue = queue /\ Snapshot.tick = tick /\ Snapshot.counter = counter
    BY DEF Snapshot
  <2>2. /\ counter \in Nat
        /\ \A id \in Held(queue) : queue[id] \in QueueEntry /\ queue[id].order \in 1 .. counter
    BY MapTypes DEF OnTime, TypeOK, Held, RouteInv, OnTrack
  <2>3. \A id \in Held(queue) : EntryFits(queue[id])
    BY <2>2 DEF EntryFits, QueueEntry
  <2>4. \A id \in Held(queue) : RecordFits(queue[id], tick)
    <3> SUFFICES ASSUME NEW id \in Held(queue) PROVE RecordFits(queue[id], tick)
      OBVIOUS
    <3>1. CASE queue[id].run = None
      BY <3>1 DEF RecordFits
    <3>2. CASE queue[id].run # None
      BY <3>2, RecordAccepted DEF Long
    <3> QED BY <3>1, <3>2
  <2>5. Accepts(Snapshot)
    BY <2>1, <2>3, <2>4 DEF Accepts
  <2> DEFINE S == {counter} \cup {queue[id].order : id \in Held(queue)}
  <2>6. counter \in S /\ \A m \in S : m \in Nat /\ m <= counter
    BY <2>2
  <2> HIDE DEF S
  <2>7. Highest(S) = counter
    <3> DEFINE top == Highest(S)
    <3>1. top \in S /\ \A m \in S : m <= top
      BY <2>6 DEF Highest
    <3> HIDE DEF top
    <3>2. top <= counter /\ counter <= top /\ top \in Nat
      BY <2>6, <3>1
    <3> QED BY <2>2, <3>2 DEF top
  <2>8. Restored(Snapshot).counter = Highest(S)
    BY <2>1 DEF Restored, S
  <2> QED BY <2>5, <2>7, <2>8
<1>2. Spec => []OnTime
  BY AlwaysOnTime
<1> QED BY <1>1, <1>2, PTL

\* When besides every pending action has a behavior, the runtime it gives has the
\* queue that a replay of the log rebuilds.
THEOREM SnapshotHolds ==
  ASSUME ~LogMayFail, Delays = {}
  PROVE  Spec => []SnapshotLoads
<1>1. ReplayFaithful /\ (Idle => Accepts(Snapshot) /\ Restored(Snapshot).counter = counter)
        => SnapshotLoads
  BY DEF SnapshotLoads, ReplayFaithful, Restored, Snapshot
<1>2. Spec => []ReplayFaithful
  BY ReplayHolds
<1>3. Spec => [](Idle => Accepts(Snapshot) /\ Restored(Snapshot).counter = counter)
  BY SnapshotAccepted
<1> QED BY <1>1, <1>2, <1>3, PTL

=============================================================================
