--------------------------- MODULE MCWorldKernel ---------------------------
(***************************************************************************)
(* A small instance of WorldKernel: a search of three phases.  The branch  *)
(* of the first depends on the actor's cell; one way leads over a second   *)
(* phase, and both strike the target before the last phase, whose gate     *)
(* reads the actor's cell and is retried.                                  *)
(***************************************************************************)
EXTENDS KernelSnapshot, TLC

CONSTANTS a1, a2, i1, i2, i3

MCPhase    == {"survey", "focus", "inspect"}
MCTicks    == [p \in MCPhase |-> 1]
MCLongest  == [survey |-> 3, focus |-> 2, inspect |-> 1]
MCGated    == {"inspect"}
MCPolicy   == [survey |-> None, focus |-> None,
               inspect |-> [max |-> 2, interval |-> 1, timeout |-> 2]]
MCBranches ==
  [survey  |-> {[priority |-> 5, next |-> "focus", when |-> TRUE, child |-> NoChild],
                [priority |-> 0, next |-> "inspect", when |-> FALSE, child |-> "strike"]},
   focus   |-> {[priority |-> 0, next |-> "inspect", when |-> FALSE, child |-> "strike"]},
   inspect |-> {}]

Symmetry == Permutations(ActionId) \cup Permutations(Actor)

=============================================================================
