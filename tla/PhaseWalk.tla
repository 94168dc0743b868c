------------------------------ MODULE PhaseWalk ------------------------------
(***************************************************************************)
(* What an author is promised of an action behavior with phases: the       *)
(* action goes from phase to phase, stays in each for its ticks, takes one *)
(* branch out of each and runs the child action of that branch once, and   *)
(* waits at a closed gate as long as the retry of the phase behind it      *)
(* allows.  ActionWalk shows that both interpreters of the kernel keep it. *)
(***************************************************************************)
EXTENDS Naturals

CONSTANTS
  Phase, Entry,
  Ticks,   \* [Phase -> duration_ticks]
  Policy,  \* the retry policy: max, interval, timeout
  None

VARIABLES
  routing,  \* the behavior: branches, gated and retried phases
  outcome,  \* idle, pending, completed or failed
  at,       \* the phase the action is in
  left,     \* ticks until it may leave that phase
  chosen,   \* the branch it found open, or None
  waits,    \* retries of the gate behind that branch
  ran       \* child actions that completed, as <<phase, branch>>

vars == <<routing, outcome, at, left, chosen, waits, ran>>

Init ==
  /\ outcome = "idle"
  /\ at = Entry /\ left = Ticks[Entry]
  /\ chosen = None /\ waits = 0 /\ ran = {}

Submit ==
  /\ outcome = "idle" /\ outcome' = "pending"
  /\ UNCHANGED <<routing, at, left, chosen, waits, ran>>

\* A tick inside the phase.
Stay ==
  /\ outcome = "pending" /\ left > 1
  /\ left' = left - 1
  /\ UNCHANGED <<routing, outcome, at, chosen, waits, ran>>

\* The branches that may be taken now: the one that was, if there is one.
Open == IF chosen = None THEN routing.branches[at] ELSE {chosen}

AtBoundary == outcome = "pending" /\ left = 1

\* The child action of the branch runs unless it ran before.
Enter(b) ==
  /\ AtBoundary /\ b \in Open
  /\ at' = b.next /\ left' = Ticks[b.next]
  /\ chosen' = None /\ waits' = 0
  /\ ran' = ran \cup {<<at, b>>}
  /\ UNCHANGED <<routing, outcome>>

\* The gate is closed: so many retries, so many ticks after the first attempt.
Wait(b) ==
  /\ AtBoundary /\ b \in Open
  /\ b.next \in routing.gated \cap routing.retried
  /\ waits < Policy.max /\ (waits + 1) * Policy.interval <= Policy.timeout
  /\ left' = Policy.interval
  /\ chosen' = b /\ waits' = waits + 1
  /\ ran' = ran \cup {<<at, b>>}
  /\ UNCHANGED <<routing, outcome, at>>

\* A child action fails that did not run before, or a gate is closed for good.
Fail ==
  /\ AtBoundary
  /\ \E b \in Open :
       \/ <<at, b>> \notin ran /\ ran' = ran
       \/ b.next \in routing.gated /\ ran' = ran \cup {<<at, b>>}
  /\ outcome' = "failed" /\ left' = 0
  /\ UNCHANGED <<routing, at, chosen, waits>>

\* The last phase is over.
Complete ==
  /\ AtBoundary /\ routing.branches[at] = {}
  /\ outcome' = "completed" /\ left' = 0
  /\ UNCHANGED <<routing, at, chosen, waits, ran>>

Tick ==
  \/ Stay \/ Fail \/ Complete
  \/ \E b \in Open : Enter(b) \/ Wait(b)

Next == Submit \/ Tick

Spec == Init /\ [][Next]_vars

\* A submitted action does not stay where it is for ever.
FairSpec == Spec /\ WF_vars(Tick)

=============================================================================
