------------------------------ MODULE ActionWalk ------------------------------
(***************************************************************************)
(* The two interpreters of action behaviors with phases                    *)
(* (_action_checkpoint_decisions and _static_action_checkpoint_decision of *)
(* src/compilableworld/kernel.py), and the compiler before them.           *)
(*                                                                         *)
(* A behavior of format static_dag is searched by the compiler first       *)
(* (ActionGraph), and the kernel keeps a record of its route.  Of a linear *)
(* behavior the kernel keeps no position: each tick it computes from the   *)
(* due tick in the queue how long the action has been under way, and a     *)
(* retry moves that due tick.  One action is followed from submit() to its *)
(* end; what other actions, interruptions and failing appends do to it is  *)
(* in WorldKernel.                                                         *)
(*                                                                         *)
(* Every branch has a child action.  The branch that matches, the outcome  *)
(* of a child action and of the gate's conditions depend on the world and  *)
(* may be any.                                                             *)
(***************************************************************************)
EXTENDS ActionGraph, Integers, Functions

CONSTANTS
  Order,   \* the phases of a linear behavior, in order
  Lines,   \* linear behaviors: every branch leads to the phase that follows
  Policy   \* the retry policy of the phases that have one

\* An entry of `retries': attempts, first_failure_tick, next_retry_tick.
Retry == [attempts : Nat, first : Nat, next : Nat]

ASSUME WalkAssumption ==
  /\ None \notin Branch /\ None \notin Retry
  /\ Order \in Seq(Phase) /\ Order # <<>> /\ Order[1] = Entry
  /\ Range(Order) = Phase /\ IsInjective(Order)
  /\ Policy \in [max : Nat \ {0}, interval : Nat \ {0}, timeout : Nat \ {0}]
  /\ \A r \in Lines :
       /\ r \in Routing /\ r.branches[Order[Len(Order)]] = {}
       /\ \A i \in 1..(Len(Order) - 1) :
            /\ r.branches[Order[i]] # {}
            /\ \A b \in r.branches[Order[i]] : b.next = Order[i + 1]
       /\ r.retried \subseteq r.gated /\ Entry \notin r.gated

VARIABLES
  model,     \* execution_model: static_dag or linear
  outcome,   \* idle, pending, completed or failed
  tick,      \* ticks since submit()
  due,       \* the due tick in the queue
  route,     \* the route of the record (static_dag): phase and phase_due_tick
  retry,     \* the one entry of `retries', or None
  selected,  \* selected_branches: [Phase -> branch or None]
  steps,     \* completed_steps, as <<phase, branch>>
  passed     \* history: the phases, as action.progressed tells of them

walk == <<outcome, tick, due, route, retry, selected, steps, passed>>
walkVars == <<vars, model, walk>>

-----------------------------------------------------------------------------
WalkInit ==
  /\ \/ Init /\ model = "static_dag"
     \/ /\ routing \in Lines /\ model = "linear"
        /\ verdict = "checking" /\ terminal = None
        /\ path = <<>> /\ visited = {} /\ longest = [p \in Phase |-> 0]
  /\ outcome = "idle" /\ tick = 0 /\ due = 0
  /\ route = [at |-> Entry, due |-> Ticks[Entry]]
  /\ retry = None /\ selected = [p \in Phase |-> None] /\ steps = {}
  /\ passed = <<Entry>>

\* The ticks of a linear behavior up to the end of its i-th phase.
Until[i \in 0..Len(Order)] == IF i = 0 THEN 0 ELSE Until[i - 1] + Ticks[Order[i]]

Duration == IF model = "linear" THEN Until[Len(Order)] ELSE longest[Entry]

\* submit(): the action is due when its longest route would be over.
Submit ==
  /\ outcome = "idle"
  /\ model = "static_dag" => verdict = "compiled"
  /\ outcome' = "pending" /\ due' = Duration
  /\ UNCHANGED <<vars, model, tick, route, retry, selected, steps, passed>>

\* Mutant of Waiting: a retry under way does not keep other boundaries back.
WaitingNever(t) == FALSE

\* A retry is under way, and this tick is not the one it waits for.
Waiting(t) == retry # None /\ retry.next # t

Elapsed(t) == t - (due - Duration)

\* Linear: the phases that end after so many ticks.
LinearBoundary(t) == {Order[i] : i \in {j \in 1..(Len(Order) - 1) : Elapsed(t) = Until[j]}}

\* Static: the phase of the record, when its ticks, or those of its retry, are over.
StaticBoundary(t) ==
  {p \in {route.at} : Branches(p) # {} /\ (retry # None \/ t = route.due)}

\* The phases that the action leaves in this tick, if it may: one at most.
Boundary(t) ==
  IF Waiting(t) THEN {}
  ELSE IF model = "linear" THEN LinearBoundary(t) ELSE StaticBoundary(t)

\* Mutant of Chosen: the branches are matched anew at each retry.
ChosenAnew(p) == Branches(p)

\* The branch that was selected at the first arrival, or one that matches now.
Chosen(p) == IF selected[p] = None THEN Branches(p) ELSE {selected[p]}

\* pop_ready(): the action is executed if it is due.
Popped(t, d) == IF d <= t THEN "completed" ELSE "pending"

\* The child action of the branch fails; it runs unless it completed before.
ChildFails(p, b) ==
  /\ <<p, b>> \notin steps /\ steps' = steps
  /\ outcome' = "failed"
  /\ UNCHANGED <<due, route, retry, selected, passed>>

\* The gate is open, or there is none: on to the next phase.
Progresses(p, b) ==
  /\ steps' = steps \cup {<<p, b>>}
  /\ selected' = [selected EXCEPT ![p] = b]
  /\ retry' = None
  /\ passed' = Append(passed, b.next)
  /\ route' = [at |-> b.next, due |-> tick' + Ticks[b.next]]
  /\ due' = IF model = "static_dag" /\ b.next = terminal THEN route'.due ELSE due
  /\ outcome' = Popped(tick', due')

Attempt   == IF retry = None THEN 1 ELSE retry.attempts + 1
FirstFail == IF retry = None THEN tick' ELSE retry.first

MayRetry(q) ==
  /\ q \in routing.retried
  /\ Attempt <= Policy.max
  /\ tick' + Policy.interval <= FirstFail + Policy.timeout

\* The gate is closed: once more after the interval, which the due tick moves by.
Retries(p, b) ==
  /\ b.next \in routing.gated /\ MayRetry(b.next)
  /\ steps' = steps \cup {<<p, b>>}
  /\ selected' = [selected EXCEPT ![p] = b]
  /\ retry' = [attempts |-> Attempt, first |-> FirstFail, next |-> tick' + Policy.interval]
  /\ due' = due + Policy.interval
  /\ outcome' = Popped(tick', due')
  /\ UNCHANGED <<route, passed>>

\* The gate is closed, and there is no retry or none that is left.
GivesUp(p, b) ==
  /\ b.next \in routing.gated /\ ~MayRetry(b.next)
  /\ steps' = steps \cup {<<p, b>>}
  /\ outcome' = "failed"
  /\ UNCHANGED <<due, route, retry, selected, passed>>

Decide(p) ==
  \E b \in Chosen(p) : ChildFails(p, b) \/ Progresses(p, b) \/ Retries(p, b) \/ GivesUp(p, b)

\* One tick of advance().
Advance ==
  /\ outcome = "pending" /\ tick' = tick + 1
  /\ \/ \E p \in Boundary(tick + 1) : Decide(p)
     \/ /\ Boundary(tick + 1) = {}
        /\ outcome' = Popped(tick + 1, due)
        /\ UNCHANGED <<due, route, retry, selected, steps, passed>>
  /\ UNCHANGED <<vars, model>>

Compile == model = "static_dag" /\ Next /\ UNCHANGED <<model, walk>>

WalkNext == Compile \/ Submit \/ Advance

WalkSpec == WalkInit /\ [][WalkNext]_walkVars

\* The host ticks on.
FairWalkSpec == WalkSpec /\ WF_walkVars(Advance)

-----------------------------------------------------------------------------
Position == passed[Len(passed)]

\* The ticks that are left of the phase, computed as the kernel computes them.
Left ==
  CASE outcome = "idle" -> Ticks[Entry]
    [] outcome = "pending" -> IF retry # None THEN retry.next - tick
                              ELSE IF model = "linear" THEN Until[Len(passed)] - Elapsed(tick)
                              ELSE route.due - tick
    [] OTHER -> 0

Promise == INSTANCE PhaseWalk WITH
  at <- Position, left <- Left, chosen <- selected[Position],
  waits <- IF retry = None THEN 0 ELSE retry.attempts, ran <- steps

\* Both interpreters walk the phases as promised: each for its ticks, over one
\* branch whose child action runs once, and to the end.  The position that the
\* kernel computes for a linear behavior never leaves the phase it logged last.
WalksThePhases == Promise!FairSpec

-----------------------------------------------------------------------------
\* Why they do: what holds between two ticks.
WalkTypeOK ==
  /\ model \in {"static_dag", "linear"}
  /\ outcome \in {"idle", "pending", "completed", "failed"}
  /\ tick \in Nat /\ due \in Nat
  /\ route \in [at : Phase, due : Nat]
  /\ retry \in Retry \cup {None}
  /\ selected \in [Phase -> Branch \cup {None}]
  /\ passed \in Seq(Phase) /\ passed # <<>>

\* What is submitted is a linear behavior or was compiled.
Submitted ==
  /\ model = "linear" => routing \in Lines
  /\ model = "static_dag" /\ outcome # "idle" => verdict = "compiled"

Idle ==
  outcome = "idle" =>
    /\ tick = 0 /\ passed = <<Entry>> /\ retry = None
    /\ route = [at |-> Entry, due |-> Ticks[Entry]]
    /\ \A p \in Phase : selected[p] = None

\* A selected branch is one of the phase, and no phase ahead has one.
SelectedBehind ==
  \A p \in Phase :
    selected[p] # None =>
      /\ selected[p] \in Branches(p)
      /\ IF model = "linear" THEN \E i \in 1..Len(passed) : p = Order[i]
         ELSE p = Position \/ longest[p] > longest[Position]

\* Where the action is: in the phases of the order, or at the phase of its record.
Located ==
  IF model = "linear"
  THEN Len(passed) <= Len(Order) /\ \A i \in 1..Len(passed) : passed[i] = Order[i]
  ELSE route.at = Position

\* The ticks that may follow the phase.
Rest ==
  IF model = "linear" THEN Duration - Until[Len(passed)]
  ELSE longest[Position] - Ticks[Position]

\* The due tick leaves room for what may follow; at the end it is the tick itself.
OnTime ==
  outcome = "pending" =>
    /\ Left > 0 /\ due >= tick + Left + Rest
    /\ model = "linear" \/ Position = terminal => due = tick + Left + Rest
    /\ model = "linear" /\ retry = None => Left <= Ticks[Position]

\* A retry waits for one attempt after the other, and there is a way on.
Retrying ==
  outcome = "pending" /\ retry # None =>
    /\ retry.attempts \in 1..Policy.max
    /\ retry.next = retry.first + retry.attempts * Policy.interval
    /\ Branches(Position) # {}

WalkInv ==
  WalkTypeOK /\ Submitted /\ Idle /\ SelectedBehind /\ Located /\ OnTime /\ Retrying

=============================================================================
