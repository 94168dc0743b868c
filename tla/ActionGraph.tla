----------------------------- MODULE ActionGraph -----------------------------
(***************************************************************************)
(* How the compiler decides whether an authored action behavior with       *)
(* conditional routing is compiled into the package                        *)
(* (_validate_action_behaviors of src/compilableworld/compiler.py, format  *)
(* static_dag), and what it tells the kernel of it: the terminal phase and *)
(* the ticks of the longest route.  WorldKernel assumes of its constants   *)
(* what is shown here of every behavior that is compiled.                  *)
(*                                                                         *)
(* A behavior is authored as its routing: the branches of each phase, the  *)
(* phases with a `when' of their own and those with a retry.  Identifiers, *)
(* titles, conditions and child actions are checked one by one and decide  *)
(* nothing together, so they are left out, as is the limit on the sum of   *)
(* the durations.  visit_phase() goes through the branches of a phase in   *)
(* the order of their priority; any order is allowed here.                 *)
(***************************************************************************)
EXTENDS Naturals, Sequences, FiniteSets

CONSTANTS
  Phase,        \* phases, by id
  Entry,        \* the phase that is authored first
  Unknown,      \* a next_phase_id that is no phase
  Ticks,        \* [Phase -> duration_ticks]
  BranchLimit,  \* ACTION_BEHAVIOR_BRANCH_LIMIT
  Authored,     \* what authors write: routings
  None

Branch  == [priority : Nat, when : BOOLEAN, next : Phase \cup {Unknown}]
Routing == [branches : [Phase -> SUBSET Branch], gated : SUBSET Phase, retried : SUBSET Phase]

ASSUME AuthoredAssumption == Authored \subseteq Routing
ASSUME PhaseAssumption ==
  /\ IsFiniteSet(Phase)
  /\ Entry \in Phase /\ Unknown \notin Phase /\ None \notin Phase
  /\ Ticks \in [Phase -> Nat \ {0}]

VARIABLES
  routing,   \* the behavior that is compiled
  verdict,   \* checking, visiting, compiled or rejected (CompileError)
  terminal,  \* terminal_phase_id
  path,      \* the calls of visit_phase() under way: visiting, outermost first
  visited,
  longest    \* longest_cache: [Phase -> ticks]

vars == <<routing, verdict, terminal, path, visited, longest>>

Init ==
  /\ routing \in Authored
  /\ verdict = "checking" /\ terminal = None
  /\ path = <<>> /\ visited = {} /\ longest = [p \in Phase |-> 0]

-----------------------------------------------------------------------------
Branches(p) == routing.branches[p]
Succ(p)     == {b.next : b \in Branches(p)}
Ends        == {p \in Phase : Branches(p) = {}}

\* One branch of the phase is unconditional, and the others are above it.
FallbackIsLast(p) ==
  /\ \A b, c \in Branches(p) : b # c => b.priority # c.priority
  /\ \E b \in Branches(p) :
       /\ ~b.when
       /\ \A c \in Branches(p) \ {b} : c.when /\ c.priority > b.priority

\* The checks of each phase: its own condition and retry, and its branches.
PhaseOK(p) ==
  /\ p = Entry => p \notin routing.gated \cup routing.retried
  /\ p \in routing.retried => p \in routing.gated
  /\ Cardinality(Branches(p)) <= BranchLimit
  /\ p \notin Ends => FallbackIsLast(p)
  /\ Unknown \notin Succ(p) /\ p \notin Succ(p)

\* Somewhere the routing splits, and one phase ends it.
ShapeOK ==
  /\ \E p \in Phase : Cardinality(Branches(p)) >= 2
  /\ Cardinality(Ends) = 1

Reject == verdict' = "rejected" /\ UNCHANGED <<routing, terminal, path, visited, longest>>

\* The checks before the graph is searched, which begins with the entry phase.
Check ==
  /\ verdict = "checking"
  /\ IF ShapeOK /\ \A p \in Phase : PhaseOK(p)
     THEN /\ verdict' = "visiting"
          /\ terminal' \in Ends /\ path' = <<Entry>>
          /\ UNCHANGED <<routing, visited, longest>>
     ELSE Reject

OnPath == {path[i] : i \in DOMAIN path}
Top    == path[Len(path)]

\* Mutant of Cyclic: a phase that two routes lead to is taken for a cycle.
CyclicIfSeen(q) == q \in OnPath \cup visited

\* visit_phase() meets a phase it is still visiting.
Cyclic(q) == q \in OnPath

\* visit_phase() of the phase of one more branch: a cycle, a phase that was
\* visited, or a phase to visit.
Visit ==
  /\ verdict = "visiting" /\ path # <<>>
  /\ \E q \in Succ(Top) :
       \/ Cyclic(q) /\ Reject
       \/ /\ ~Cyclic(q) /\ q \notin visited
          /\ path' = Append(path, q)
          /\ UNCHANGED <<routing, verdict, terminal, visited, longest>>

\* Mutant of Tails: the ticks along the fallback branches.
TailsOfFallback(p) ==
  {longest[b.next] : b \in {c \in Branches(p) : ~c.when}} \cup (IF p \in Ends THEN {0} ELSE {})

\* The ticks that may follow the phase.
Tails(p) == {longest[q] : q \in Succ(p)} \cup (IF p \in Ends THEN {0} ELSE {})

\* visit_phase() returns; longest_duration(), which takes the same way once the
\* graph is known to have no cycle, adds the most ticks that may follow.
Leave ==
  /\ verdict = "visiting" /\ path # <<>>
  /\ Succ(Top) \subseteq visited
  /\ \E tail \in Tails(Top) :
       /\ \A t \in Tails(Top) : t <= tail
       /\ longest' = [longest EXCEPT ![Top] = Ticks[Top] + tail]
  /\ visited' = visited \cup {Top}
  /\ path' = SubSeq(path, 1, Len(path) - 1)
  /\ UNCHANGED <<routing, verdict, terminal>>

\* The search is over: phases it did not come to are an error.
Finish ==
  /\ verdict = "visiting" /\ path = <<>>
  /\ IF visited = Phase
     THEN verdict' = "compiled" /\ UNCHANGED <<routing, terminal, path, visited, longest>>
     ELSE Reject

Next == Check \/ Visit \/ Leave \/ Finish

Spec == Init /\ [][Next]_vars

-----------------------------------------------------------------------------
TypeOK ==
  /\ routing \in Routing
  /\ verdict \in {"checking", "visiting", "compiled", "rejected"}
  /\ terminal \in Phase \cup {None}
  /\ path \in Seq(Phase) /\ visited \in SUBSET Phase
  /\ longest \in [Phase -> Nat]

\* No phases lead from one to another for ever.
Acyclic ==
  \A S \in SUBSET Phase : S # {} => \E p \in S : Succ(p) \cap S = {}

\* Every phase is on a route from the entry phase.
Reachable ==
  \A S \in SUBSET Phase :
    (Entry \in S /\ \A p \in S : Succ(p) \cap Phase \subseteq S) => S = Phase

\* A behavior is compiled exactly if its phases are well formed, it has a split
\* and one end, no route comes back to a phase, and none is out of reach: the
\* search takes no diamond for a cycle and overlooks no cycle, whatever the order.
VerdictIsRight ==
  verdict \in {"compiled", "rejected"} =>
    (verdict = "compiled" <=>
       ShapeOK /\ (\A p \in Phase : PhaseOK(p)) /\ Acyclic /\ Reachable)

\* What the kernel builds on holds of every behavior that is compiled: from each
\* phase but the terminal one a branch is always open, every way leads on to
\* fewer ticks, and the duration in the package is never exceeded by a route.
KernelCanRun ==
  verdict = "compiled" =>
    /\ terminal \in Phase /\ terminal # Entry /\ Branches(terminal) = {}
    /\ longest[terminal] = Ticks[terminal]
    /\ \A p \in Phase : \A b \in Branches(p) :
         b.next \in Phase /\ longest[p] >= Ticks[p] + longest[b.next]
    /\ \A p \in Phase \ {terminal} : longest[p] > Ticks[p] /\ FallbackIsLast(p)
    /\ routing.retried \subseteq routing.gated /\ routing.gated \subseteq Phase \ {Entry}

=============================================================================
