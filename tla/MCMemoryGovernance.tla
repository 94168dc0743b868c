-------------------------- MODULE MCMemoryGovernance --------------------------
(* A private scope and a team's, two contradicting candidates, an agent and *)
(* a reviewer.                                                              *)
EXTENDS MemoryGovernance, TLC

CONSTANTS m1, m2, p1, p2, x, y, agent, human, k

ScopeOf(owner, visibility) ==
  [tenant |-> "t", owner |-> owner, visibility |-> visibility, project |-> None, world |-> None]

Private == ScopeOf(agent, "private")
Other   == ScopeOf(human, "private")
Team    == ScopeOf(human, "team")

MCScope  == {Private, Team, Other}
MCRoleOf == agent :> "agent" @@ human :> "human_reviewer"
MCCandidate ==
  p1 :> [memory |-> m1, content |-> x, scope |-> Team, proposer |-> agent]
  @@ p2 :> [memory |-> m2, content |-> y, scope |-> Private, proposer |-> agent]

\* References to the first lines or to nothing: one, two, and one that is
\* repeated beside another that may be missing.
MCReferences == {<<1>>, <<2>>, <<1, 2>>, <<1, 1, 2>>, <<1, 1, 0>>}

=============================================================================
