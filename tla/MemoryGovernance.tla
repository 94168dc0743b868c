--------------------------- MODULE MemoryGovernance ---------------------------
(***************************************************************************)
(* The agent memory kernel of src/agent_memory_kernel: a raw ledger (a     *)
(* JSONL file) beside SQLite, proposals that reviewers decide, and the     *)
(* versions of clean memories.                                             *)
(*                                                                         *)
(* One process at a time uses the store.  Every operation captures a raw   *)
(* event first: the record is appended to the ledger and synced, then      *)
(* inserted into SQLite; what the operation is for follows in a third      *)
(* transaction, and a promotion captures a second event before the         *)
(* decision is saved.  `op' is where the running operation stands: the     *)
(* process may die, or a call may raise, between any two of these.  At the *)
(* next start reconcile_ledger() inserts what SQLite lacks.                *)
(*                                                                         *)
(* A raw event is its line of the ledger, which is written as a whole.     *)
(* Confidence, times and tokens are data; all candidates are of one kind   *)
(* and about one subject, and the redaction of payloads and the            *)
(* checkpoints are left out.                                               *)
(***************************************************************************)
EXTENDS Integers, Sequences, FiniteSets, Functions

CONSTANTS
  Scope,        \* records [tenant, owner, visibility, project, world]
  Actor, RoleOf,       \* actors and [Actor -> role]
  Memory, Content,
  Proposal,     \* proposals that may be made, once each
  Candidate,    \* [Proposal -> [memory, content, scope, proposer]]
  Valid,        \* proposals whose candidate passes the checks on its own data
  References,   \* bound: the lists of event references that proposals may be made with
  Key,          \* idempotency keys of facts (None: a fact without one)
  None,
  MaxLines,     \* bound: lines of the ledger before an operation
  MaxFailures   \* bound: crashes within an operation, and exceptions

Reviewing == {"human_reviewer", "deterministic_reviewer", "operator", "system"}
Revoking  == {"human_reviewer", "operator", "system"}

ASSUME ConstantAssumption ==
  /\ RoleOf \in [Actor -> Reviewing \cup {"agent", "runtime"}]
  /\ Candidate \in [Proposal ->
       [memory : Memory, content : Content, scope : Scope, proposer : Actor]]
  /\ References \subseteq Seq(Nat)
  /\ MaxLines \in Nat /\ MaxFailures \in Nat

Kind == {"fact", "proposal", "review", "promoted", "revoked"}

\* What an event is about: a proposal and its list of references to events, a
\* proposal and the reviewer's word, a memory to revoke, or nothing.
Claim   == [proposal : Proposal, evidence : Seq(Nat)]
Verdict == [proposal : Proposal, approve : BOOLEAN]

Line      == [what : Kind, scope : Scope, about : {None} \cup Claim \cup Verdict \cup Memory,
              by : Actor \cup {s.owner : s \in Scope}, key : Key \cup {None}, sequence : Nat]
Contract  == [evidence : Seq(Nat), decision : {"pending", "approved", "rejected", "needs_evidence"}]
Version   == [status : {"active", "disputed", "revoked"}, content : Content, scope : Scope,
              line : Nat, proposal : Proposal]
Operation == [name : Kind, at : {"record", "act", "append"}, line : Nat]

ASSUME NoneAssumption == None \notin Contract \cup Operation

VARIABLES
  ledger,     \* sequence of events, as the file holds them
  raw,        \* lines that have a row in raw_events
  proposals,  \* [Proposal -> contract or None]
  clean,      \* [Memory -> sequence of versions]; the last one is current
  op,         \* the running operation, or None
  up,         \* the kernel is open
  failures,   \* bound
  unrecorded  \* exceptions between a line and its row, in a process that went on

vars == <<ledger, raw, proposals, clean, op, up, failures, unrecorded>>

-----------------------------------------------------------------------------
(* Scopes and policy.                                                      *)

\* MemoryScope.permits()
Permits(s, r) ==
  /\ s.tenant = r.tenant
  /\ s.visibility = "private" => s.owner = r.owner
  /\ s.visibility = "shared_project" => s.project # None /\ s.project = r.project
  /\ s.visibility = "world" => s.world # None /\ s.world = r.world

\* Mutant of CanFlow: the owner of private evidence is not compared.
CanFlowAnyOwner(s, t) ==
  /\ s.tenant = t.tenant
  /\ s.visibility = "private" => t.visibility = "private"

\* MemoryGovernor._scope_can_flow()
CanFlow(s, t) ==
  /\ s.tenant = t.tenant
  /\ s.visibility = "private" => s.owner = t.owner /\ t.visibility = "private"
  /\ s.visibility = "shared_project" =>
       s.project # None /\ s.project = t.project /\ t.visibility \in {"private", "shared_project"}
  /\ s.visibility = "world" =>
       s.world # None /\ s.world = t.world /\ t.visibility \in {"private", "world"}

Current(m) == clean[m][Len(clean[m])]
Live(m)    == clean[m] # <<>> /\ Current(m).status \in {"active", "disputed"}

\* What LexicalRetriever.clean() may return to a requester: current live
\* entries, by their tokens or, without any match, by a scan.
Retrieved(r) == {m \in Memory : Live(m) /\ Permits(Current(m).scope, r)}

\* What a proposal cites, and the places of its list whose event review() finds
\* in SQLite: one that is cited twice is found twice, a missing one is dropped.
Cited(p) == Range(proposals[p].evidence)
Found(p) == {i \in DOMAIN proposals[p].evidence : proposals[p].evidence[i] \in raw}

\* validate_candidate(): as many events were found as different ones are cited,
\* and those found may flow to the candidate's scope.
Validated(p) ==
  /\ p \in Valid
  /\ proposals[p].evidence # <<>>
  /\ Cardinality(Found(p)) = Cardinality(Cited(p))
  /\ \A n \in Cited(p) \cap raw : CanFlow(ledger[n].scope, Candidate[p].scope)

CanReview(a, p) == a # Candidate[p].proposer /\ RoleOf[a] \in Reviewing

\* Mutant of Decision: the separation of reviewer and proposer is not applied.
DecisionByAnyone(p, a, approve) ==
  IF ~approve THEN "rejected" ELSE IF Validated(p) THEN "approved" ELSE "needs_evidence"

Decision(p, a, approve) ==
  IF ~CanReview(a, p) \/ ~approve THEN "rejected"
  ELSE IF Validated(p) THEN "approved" ELSE "needs_evidence"

-----------------------------------------------------------------------------
Init ==
  /\ ledger = <<>> /\ raw = {} /\ up = TRUE /\ op = None
  /\ proposals = [p \in Proposal |-> None] /\ clean = [m \in Memory |-> <<>>]
  /\ failures = 0 /\ unrecorded = 0

Sequences == {ledger[n].sequence : n \in raw}

\* next_raw_sequence(): one more than SQLite knows.
NextSequence ==
  IF raw = {} THEN 1 ELSE 1 + (CHOOSE s \in Sequences : \A t \in Sequences : t <= s)

Event(what, scope, about, by, key) ==
  [what |-> what, scope |-> scope, about |-> about, by |-> by, key |-> key,
   sequence |-> NextSequence]

\* An operation starts by capture(): JsonlLedger.append() writes the line and
\* syncs it.  Nothing an operation does before that is kept.
Start(name, scope, about, by, key) ==
  /\ up /\ op = None /\ Len(ledger) < MaxLines
  /\ ledger' = Append(ledger, Event(name, scope, about, by, key))
  /\ op' = [name |-> name, at |-> "record", line |-> Len(ledger) + 1]
  /\ UNCHANGED <<raw, proposals, clean, up, failures, unrecorded>>

\* capture() of a fact; a key that SQLite knows returns the event there is.
Capture(scope, key) ==
  /\ key # None => \A n \in raw : ledger[n].key # key
  /\ Start("fact", scope, None, scope.owner, key)

Propose(p, refs) ==
  /\ proposals[p] = None
  /\ Start("proposal", Candidate[p].scope, [proposal |-> p, evidence |-> refs],
           Candidate[p].proposer, None)

\* Mutant of MayReview: a decided proposal may be reviewed again.
MayReviewAgain(p) == proposals[p] # None

MayReview(p) == proposals[p] # None /\ proposals[p].decision = "pending"

Review(p, a, approve) ==
  /\ MayReview(p)
  /\ Start("review", Candidate[p].scope, [proposal |-> p, approve |-> approve], a, None)

Revoke(m, a) ==
  /\ RoleOf[a] \in Revoking /\ clean[m] # <<>>
  /\ Start("revoked", Current(m).scope, m, a, None)

\* A row can be inserted: its sequence and its key are not taken.
Insertable(n) ==
  \A k \in raw : /\ ledger[k].sequence # ledger[n].sequence
                 /\ ledger[k].key # None => ledger[k].key # ledger[n].key

\* record_raw_event()
RecordRow ==
  /\ op # None /\ op.at = "record" /\ Insertable(op.line)
  /\ raw' = raw \cup {op.line}
  /\ op' = IF op.name = "fact" THEN None ELSE [op EXCEPT !.at = "act"]
  /\ UNCHANGED <<ledger, proposals, clean, up, failures, unrecorded>>

-----------------------------------------------------------------------------
(* What an operation does once its event is captured.                      *)

Acting(name) == op # None /\ op.at = "act" /\ op.name = name
About == ledger[op.line].about
By    == ledger[op.line].by

\* The contract as save_proposal() stores it.
Save(p, decision) == proposals' = [proposals EXCEPT ![p].decision = decision]

\* _conflicting_current_entries(): what the candidate's own scope can see.
Conflicting(p) ==
  {m \in Memory \ {Candidate[p].memory} :
     /\ Live(m) /\ Permits(Current(m).scope, Candidate[p].scope)
     /\ Current(m).content # Candidate[p].content}

Promoted(p) ==
  [status |-> IF Conflicting(p) = {} THEN "active" ELSE "disputed",
   content |-> Candidate[p].content, scope |-> Candidate[p].scope,
   line |-> op.line, proposal |-> p]

\* insert_clean_entry(): the version, its tokens and the revision at once.
Insert(m, entry) == clean' = [clean EXCEPT ![m] = Append(@, entry)]

SaveProposal ==
  /\ Acting("proposal") /\ op' = None
  /\ proposals' = [proposals EXCEPT ![About.proposal] =
                     [evidence |-> About.evidence, decision |-> "pending"]]
  /\ UNCHANGED <<ledger, raw, clean, up, failures, unrecorded>>

DecideAgainst ==
  /\ Acting("review") /\ op' = None
  /\ LET d == Decision(About.proposal, By, About.approve) IN
       d # "approved" /\ Save(About.proposal, d)
  /\ UNCHANGED <<ledger, raw, clean, up, failures, unrecorded>>

\* An approval inserts the entry ...
Promote ==
  /\ Acting("review")
  /\ LET p == About.proposal IN
       /\ Decision(p, By, About.approve) = "approved"
       /\ Insert(Candidate[p].memory, Promoted(p))
  /\ op' = [op EXCEPT !.name = "promoted", !.at = "append"]
  /\ UNCHANGED <<ledger, raw, proposals, up, failures, unrecorded>>

\* ... captures a second event ...
AppendPromoted ==
  /\ op # None /\ op.at = "append"
  /\ ledger' = Append(ledger, Event("promoted", ledger[op.line].scope, About, By, None))
  /\ op' = [op EXCEPT !.at = "record", !.line = Len(ledger) + 1]
  /\ UNCHANGED <<raw, proposals, clean, up, failures, unrecorded>>

\* ... and saves the decision.
DecideFor ==
  /\ Acting("promoted") /\ op' = None
  /\ Save(About.proposal, "approved")
  /\ UNCHANGED <<ledger, raw, clean, up, failures, unrecorded>>

SaveRevoked ==
  /\ Acting("revoked") /\ op' = None
  /\ Insert(About, [Current(About) EXCEPT !.status = "revoked", !.line = op.line])
  /\ UNCHANGED <<ledger, raw, proposals, up, failures, unrecorded>>

-----------------------------------------------------------------------------
\* The process ends, between two operations or within one.
Stop ==
  /\ up /\ up' = FALSE /\ op' = None
  /\ IF op = None THEN UNCHANGED failures
     ELSE failures < MaxFailures /\ failures' = failures + 1
  /\ UNCHANGED <<ledger, raw, proposals, clean, unrecorded>>

\* A call raises and the process goes on: the caller reports the error, the
\* runtime's adapter swallows it.
Raise ==
  /\ op # None /\ failures < MaxFailures
  /\ op' = None /\ failures' = failures + 1
  /\ unrecorded' = IF op.at = "record" THEN unrecorded + 1 ELSE unrecorded
  /\ UNCHANGED <<ledger, raw, proposals, clean, up>>

Missing == (1..Len(ledger)) \ raw

\* Mutant of Open: the lines that SQLite lacks are passed over.
OpenOnly ==
  /\ ~up /\ up' = TRUE
  /\ UNCHANGED <<ledger, raw, proposals, clean, op, failures, unrecorded>>

\* reconcile_ledger(), one committed row a step; the kernel is open when no row
\* is missing, and a row that cannot be inserted raises: it does not open.
Open ==
  /\ ~up
  /\ IF Missing = {} THEN up' = TRUE /\ UNCHANGED raw
     ELSE LET n == CHOOSE k \in Missing : \A j \in Missing : k <= j IN
          Insertable(n) /\ raw' = raw \cup {n} /\ UNCHANGED up
  /\ UNCHANGED <<ledger, proposals, clean, op, failures, unrecorded>>

\* What a proposal may cite: captured facts, or a reference to nothing.
Citable == {0} \cup {n \in 1..Len(ledger) : ledger[n].what = "fact"}

Request ==
  \/ \E s \in Scope, k \in Key : Capture(s, k)
  \/ \E p \in Proposal, refs \in References : Range(refs) \subseteq Citable /\ Propose(p, refs)
  \/ \E p \in Proposal, a \in Actor, approve \in BOOLEAN : Review(p, a, approve)
  \/ \E m \in Memory, a \in Actor : Revoke(m, a)

Effect ==
  \/ SaveProposal \/ DecideAgainst \/ Promote \/ AppendPromoted \/ DecideFor \/ SaveRevoked

Next == Request \/ RecordRow \/ Effect \/ Stop \/ Raise \/ Open

Spec == Init /\ [][Next]_vars

-----------------------------------------------------------------------------
\* Every variable has its type.
TypeOK ==
  /\ ledger \in Seq(Line) /\ raw \subseteq 1..Len(ledger)
  /\ proposals \in [Proposal -> Contract \cup {None}] /\ clean \in [Memory -> Seq(Version)]
  /\ op \in Operation \cup {None} /\ up \in BOOLEAN
  /\ failures \in Nat /\ unrecorded \in Nat

\* The ledger can be inserted into an empty database, line after line.
Rebuildable ==
  \A j, k \in 1..Len(ledger) : j # k =>
    /\ ledger[j].sequence # ledger[k].sequence
    /\ ledger[j].key # None => ledger[j].key # ledger[k].key

\* Unless an insert into SQLite failed in a process that went on, the ledger
\* rebuilds SQLite after every crash (ledger.py: the append order is the
\* watermark): sequences are line numbers, and at most the last line is missing.
\* Of lines that are there as a whole, that is: an append is one step here, and one
\* that a crash tears in the middle leaves a line that no start can read.
LedgerRebuilds ==
  unrecorded = 0 =>
    /\ Rebuildable
    /\ \A n \in 1..Len(ledger) : ledger[n].sequence = n
    /\ Missing \subseteq {Len(ledger)}

\* The line is that of a captured event of this kind.
Recorded(n, what) == n \in raw /\ ledger[n].what = what

\* A version rests on a review or revocation captured before it, a reviewer who
\* is not the proposer, and evidence that is older: an event that is there, and
\* all that is cited where the list of references names none twice.
RestsOnRules(m, v) ==
  LET e == clean[m][v]
      p == e.proposal IN
  /\ proposals[p] # None /\ Found(p) # {}
  /\ IsInjective(proposals[p].evidence) => Cited(p) \subseteq raw
  /\ IF e.status = "revoked" THEN Recorded(e.line, "revoked") /\ ledger[e.line].about = m
     ELSE /\ Recorded(e.line, "review") /\ ledger[e.line].about.proposal = p
          /\ ledger[e.line].by # Candidate[p].proposer
  /\ \A w \in 1..(v - 1) : clean[m][w].line < e.line
  /\ \A n \in Cited(p) : n < e.line

\* Whatever crashes and exceptions left half done, every version of a clean
\* memory rests on what the rules ask for.  A reference that is repeated makes up
\* for one to nothing when events are counted (governance.py:106), so a list with
\* repetitions only has some of its evidence (EvidenceThere is refuted).
Grounded == \A m \in Memory : \A v \in 1..Len(clean[m]) : RestsOnRules(m, v)

\* A requester is shown nothing that rests on the private evidence of another:
\* on none that is there, and what was missing at the review stays missing.
PrivateStaysPrivate ==
  \A r \in Scope : \A m \in Retrieved(r) :
    \A n \in Cited(Current(m).proposal) \cap raw :
      ledger[n].scope.visibility = "private" => Permits(ledger[n].scope, r)

\* A decision that was saved stands, and an approved proposal has its entry.
DecisionsStand ==
  [][ \A p \in Proposal :
        (proposals[p] # None /\ proposals[p].decision # "pending") =>
          /\ proposals'[p] = proposals[p]
          /\ proposals[p].decision = "approved" =>
               \E v \in 1..Len(clean[Candidate[p].memory]) :
                 clean[Candidate[p].memory][v].proposal = p ]_vars

\* What makes them inductive.  A line is about what its kind says, cites lines
\* before it, and its sequence is no larger than its number.
LineInv ==
  \A n \in 1..Len(ledger) :
    /\ ledger[n].sequence \in 1..n
    /\ ledger[n].what = "proposal" =>
         ledger[n].about \in Claim /\ \A e \in Range(ledger[n].about.evidence) : e < n
    /\ ledger[n].what \in {"review", "promoted"} => ledger[n].about \in Verdict
    /\ ledger[n].what = "revoked" => ledger[n].about \in Memory

Versions(m) == 1..Len(clean[m])

HasEntry(p) ==
  \E v \in Versions(Candidate[p].memory) : clean[Candidate[p].memory][v].proposal = p

\* The running operation: its line is the last one until a promotion appends
\* another; nothing that it will decide has been decided since it started, and
\* what it will rest on is older.
OperationInv ==
  op # None =>
    /\ up /\ op.line \in 1..Len(ledger)
    /\ op.at = "record" => op.line = Len(ledger)
    /\ op.at # "record" => op.line \in raw /\ op.name # "fact"
    /\ IF op.at = "append" THEN op.name = "promoted" /\ ledger[op.line].what = "review"
       ELSE ledger[op.line].what = op.name
    /\ op.name = "proposal" => proposals[About.proposal] = None
    /\ op.name \in {"review", "promoted"} =>
         /\ proposals[About.proposal] # None
         /\ proposals[About.proposal].decision = "pending"
         /\ \A e \in Cited(About.proposal) : e < op.line
    /\ op.name = "promoted" => HasEntry(About.proposal)
    /\ op.name = "revoked" => clean[About] # <<>>
    /\ op.name # "promoted" =>
         \A m \in Memory : \A v \in Versions(m) : clean[m][v].line < op.line

\* Proposals cite what was in the ledger, and approved ones have their entry; an
\* entry's evidence may flow to its scope as far as it is there.
ProposalInv ==
  /\ \A p \in Proposal : proposals[p] # None =>
       /\ \A e \in Cited(p) : e <= Len(ledger)
       /\ proposals[p].decision = "approved" => HasEntry(p)
  /\ \A m \in Memory : \A v \in Versions(m) :
       \A n \in Cited(clean[m][v].proposal) \cap raw :
         CanFlow(ledger[n].scope, clean[m][v].scope)

\* Only a line that is being recorded, or was when the process died, is missing.
Settled == up /\ (op = None \/ op.at # "record")

MissingInv == (unrecorded = 0 /\ Settled) => Missing = {}

\* A line without a row has the next sequence, or one that is taken, as it is
\* once a later line has its row: then it never gets its own.
OvertakenInv ==
  \A n \in Missing :
    /\ ledger[n].sequence \in Sequences \cup {NextSequence}
    /\ \A k \in raw : n < k => ledger[n].sequence \in Sequences

MemoryInv ==
  /\ TypeOK /\ LineInv /\ OperationInv /\ ProposalInv /\ MissingInv /\ OvertakenInv
  /\ Grounded /\ LedgerRebuilds

\* service.py: a proposal that was reviewed is not decided again, so no candidate
\* is promoted twice.  TLC refutes it: a crash between clean memory and decision.
PromotedOnce ==
  \A m \in Memory : \A v, w \in 1..Len(clean[m]) :
    (/\ clean[m][v].status # "revoked" /\ clean[m][w].status # "revoked"
     /\ clean[m][v].proposal = clean[m][w].proposal) => v = w

\* governance.py, "missing raw evidence": what an entry cites is there.  TLC
\* refutes it with a list that names one event twice and another that is missing.
EvidenceThere ==
  \A m \in Memory : \A v \in 1..Len(clean[m]) : Cited(clean[m][v].proposal) \subseteq raw

=============================================================================
