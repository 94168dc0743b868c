----------------------------- MODULE LeaderQuorum -----------------------------
(***************************************************************************)
(* The leader lease of a coordination server: RuntimeQuorumGate of         *)
(* src/compilableworld_mcp/runtime_quorum.py in front of the lease store,  *)
(* as RuntimeCoordinationGateway of runtime_coordination.py composes them. *)
(*                                                                         *)
(* The record of OwnershipLease is the one under the leader's key.  A host *)
(* asks for a term and becomes its candidate, hosts vote, and a candidate  *)
(* whose term has a quorum acquires or recovers the lease.  Each request   *)
(* is one handler that runs to its end on the server's event loop (the     *)
(* lease store is used with Serial = TRUE, and nothing prunes it).  Hosts  *)
(* take this key through the leader's endpoints only: the plain acquire    *)
(* endpoint accepts it too and asks for no term.                           *)
(***************************************************************************)
EXTENDS OwnershipLease, FiniteSets

CONSTANTS
  Member,      \* configured quorum members, by owner identity
  QuorumSize,  \* quorum_size
  MaxTerms     \* bound: so many terms are opened

Term == 1..MaxTerms

ASSUME QuorumAssumption ==
  /\ MaxTerms \in Nat
  /\ Member \subseteq OwnerId /\ IsFiniteSet(Member)
  /\ QuorumSize \in 1..Cardinality(Member)

VARIABLES
  opened,     \* number of terms: MAX(term) of mcp_runtime_quorum_term
  candidate,  \* [Term -> member or None]
  votes       \* [Term -> members]: mcp_runtime_quorum_vote

quorum == <<opened, candidate, votes>>
leaderVars == <<vars, quorum>>

-----------------------------------------------------------------------------
LeaderInit ==
  /\ Init
  /\ opened = 0 /\ candidate = [t \in Term |-> None] /\ votes = [t \in Term |-> {}]

\* open_term(): the term after the highest there is.
NewTerm(o) ==
  /\ opened' = opened + 1
  /\ candidate' = [candidate EXCEPT ![opened + 1] = o]

\* request_leader_term(): the host is the candidate of the next term.
OpenTerm(h) ==
  /\ OwnerOf[h] \in Member /\ opened < MaxTerms
  /\ NewTerm(OwnerOf[h])
  /\ UNCHANGED <<votes, vars>>

\* record_vote(): a second vote of a member changes nothing.
RecordVote(m, t) ==
  /\ t <= opened
  /\ votes' = [votes EXCEPT ![t] = votes[t] \cup {m}]

\* record_leader_vote(): a member may vote in every term, older ones included.
Vote(h, t) ==
  /\ OwnerOf[h] \in Member
  /\ RecordVote(OwnerOf[h], t)
  /\ UNCHANGED <<opened, candidate, vars>>

\* Mutant of HasQuorum: whoever reaches a quorum in some term is let in.
HasQuorumForAnyone(h, t) == t <= opened /\ Cardinality(votes[t]) >= QuorumSize

\* require_quorum(term, candidate_id): of this term, whatever later terms say.
HasQuorum(h, t) ==
  /\ t <= opened
  /\ candidate[t] = OwnerOf[h]
  /\ Cardinality(votes[t]) >= QuorumSize

\* acquire_leader(): the quorum of the term, then the lease as for any runtime.
AcquireLeader(h) ==
  /\ \E t \in Term : HasQuorum(h, t)
  /\ Acquire(h) \/ Recover(h)
  /\ UNCHANGED quorum

\* A leader keeps its lease without asking for the quorum again.
KeepLease(h) ==
  /\ Lapse(h) \/ Renew(h) \/ Release(h) \/ Crash(h)
  /\ UNCHANGED quorum

LeaderNext ==
  \/ Tick /\ UNCHANGED quorum
  \/ \E h \in Host : \/ OpenTerm(h) \/ AcquireLeader(h) \/ KeepLease(h)
                     \/ \E t \in Term : Vote(h, t)

LeaderSpec == LeaderInit /\ [][LeaderNext]_leaderVars

\* Time passes; no host, member or server is bound to do anything.
FairLeaderSpec == LeaderSpec /\ WF_leaderVars(Tick /\ UNCHANGED quorum)

-----------------------------------------------------------------------------
QuorumOK ==
  /\ opened \in 0..MaxTerms
  /\ candidate \in [Term -> Member \cup {None}]
  /\ votes \in [Term -> SUBSET Member]
  /\ \A t \in Term : t > opened => candidate[t] = None /\ votes[t] = {}

\* A term was opened for this owner and a quorum voted in it.
Elected(o) ==
  \E t \in Term : t <= opened /\ candidate[t] = o /\ Cardinality(votes[t]) >= QuorumSize

\* Whoever holds the leader's lease, acquired, recovered or renewed, is the
\* candidate of a term in which a quorum voted, for as long as it holds it.
LeadersElected == QuorumOK /\ \A h \in Host : grant[h] # None => Elected(OwnerOf[h])

=============================================================================
