----------------------- MODULE MemoryGovernanceProofs -----------------------
(***************************************************************************)
(* What holds of the memory kernel for any scopes, actors, proposals and   *)
(* memories, wherever its process dies or a call raises: the inductive     *)
(* invariant MemoryInv, and from it that clean memory rests on what the    *)
(* rules ask for, that private evidence stays private, that decisions      *)
(* stand and that the ledger rebuilds SQLite.                              *)
(***************************************************************************)
EXTENDS MemoryGovernance, FiniteSetTheorems, WellFoundedInduction, TLAPS

-----------------------------------------------------------------------------
(* The largest element of a bounded set of numbers.                        *)

LEMMA Least == ASSUME NEW S \in SUBSET Nat, S # {} PROVE \E m \in S : \A i \in S : m <= i
<1> DEFINE R == OpToRel(<, Nat)
<1>1. IsWellFoundedOn(R, Nat)
  BY ZenonT(30), NatLessThanWellFounded
<1>2. \A i, m \in Nat : i < m => <<i, m>> \in R
  BY DEF OpToRel
<1> HIDE DEF R
<1>3. PICK m \in S : \A i \in S : <<i, m>> \notin R
  BY <1>1, WFMin
<1>4. m \in Nat /\ \A i \in S : i \in Nat /\ ~(i < m)
  BY <1>2, <1>3
<1> QED BY <1>4

LEMMA Largest ==
  ASSUME NEW n \in Nat, NEW S \in SUBSET (0..n), S # {}
  PROVE  \E m \in S : \A i \in S : i <= m
<1> DEFINE T == {k \in 0..n : n - k \in S}
<1>1. T \in SUBSET Nat
  OBVIOUS
<1>2. \A i \in S : n - i \in T
  <2> SUFFICES ASSUME NEW i \in S PROVE n - i \in T
    OBVIOUS
  <2>1. i \in 0..n /\ n - i \in 0..n /\ n - (n - i) = i
    OBVIOUS
  <2> QED BY <2>1
<1>3. PICK k \in T : \A i \in T : k <= i
  <2>1. T # {}
    BY <1>2
  <2> HIDE DEF T
  <2> QED BY <1>1, <2>1, Least
<1>4. ASSUME NEW i \in S PROVE i <= n - k
  <2>1. n - i \in T /\ i \in 0..n
    BY <1>2
  <2>2. k <= n - i /\ k \in 0..n
    BY <1>3, <2>1
  <2> QED BY <2>1, <2>2
<1>5. n - k \in S
  OBVIOUS
<1> QED BY <1>4, <1>5

-----------------------------------------------------------------------------
(* Lists of references.                                                    *)

LEMMA RangeOf ==
  ASSUME NEW S, NEW s \in Seq(S)
  PROVE  Range(s) \subseteq S
  BY DEF Range

LEMMA RangeFinite ==
  ASSUME NEW S, NEW s \in Seq(S)
  PROVE  IsFiniteSet(Range(s))
<1>1. s \in Surjection(1..Len(s), Range(s))
  BY DEF Surjection, Range
<1>2. IsFiniteSet(1..Len(s))
  BY FS_Interval
<1> QED BY <1>1, <1>2, FS_Surjection

\* What the count of found events says: one is there, and all are when the list
\* names none twice.
LEMMA CountTells ==
  ASSUME NEW s \in Seq(Nat), s # <<>>, NEW R,
         Cardinality({i \in DOMAIN s : s[i] \in R}) = Cardinality(Range(s))
  PROVE  /\ {i \in DOMAIN s : s[i] \in R} # {}
         /\ IsInjective(s) => Range(s) \subseteq R
<1> DEFINE I == {i \in DOMAIN s : s[i] \in R}
<1>1. IsFiniteSet(Range(s))
  BY RangeFinite
<1>2. I # {}
  <2>1. 1 \in DOMAIN s
    OBVIOUS
  <2>2. Range(s) # {}
    BY <2>1 DEF Range
  <2>3. Cardinality(Range(s)) # 0
    BY <1>1, <2>2, FS_EmptySet
  <2> QED BY <2>3, FS_EmptySet
<1>3. ASSUME IsInjective(s) PROVE Range(s) \subseteq R
  <2> DEFINE f == [i \in I |-> s[i]]
  <2>1. f \in Injection(I, Range(s))
    BY <1>3 DEF Injection, IsInjective, Range
  <2>2. f \in Surjection(I, Range(s))
    BY <1>1, <2>1, FS_Injection
  <2>3. \A n \in Range(s) : \E i \in I : f[i] = n
    BY <2>2 DEF Surjection
  <2> QED BY <2>3
<1> QED BY <1>2, <1>3

-----------------------------------------------------------------------------
(* Types.                                                                  *)

LEMMA LedgerShape ==
  ASSUME TypeOK
  PROVE  /\ ledger \in Seq(Line) /\ Len(ledger) \in Nat
         /\ \A n \in 1..Len(ledger) : ledger[n] \in Line
         /\ \A n \in raw : n \in Nat /\ n \in 1..Len(ledger)
<1>1. ledger \in Seq(Line)
  BY DEF TypeOK
<1> QED BY <1>1 DEF TypeOK

LEMMA CleanShape ==
  ASSUME TypeOK, NEW m \in Memory
  PROVE  /\ clean[m] \in Seq(Version) /\ Len(clean[m]) \in Nat
         /\ \A v \in Versions(m) : clean[m][v] \in Version /\ clean[m][v].proposal \in Proposal
                                   /\ clean[m][v].line \in Nat /\ clean[m][v].scope \in Scope
<1>1. clean[m] \in Seq(Version)
  BY DEF TypeOK
<1>2. \A v \in Versions(m) : clean[m][v] \in Version
  BY <1>1 DEF Versions
<1> QED BY <1>1, <1>2 DEF Version

LEMMA OperationShape ==
  ASSUME TypeOK, op # None
  PROVE  op \in Operation /\ op.name \in Kind /\ op.at \in {"record", "act", "append"} /\ op.line \in Nat
  BY DEF TypeOK, Operation

\* A sequence is one more than SQLite knows, so at most one more than the lines.
LEMMA SequenceBounded ==
  ASSUME TypeOK, LineInv
  PROVE  NextSequence \in 1..(Len(ledger) + 1)
<1>1. CASE raw = {}
  BY <1>1, LedgerShape DEF NextSequence
<1>2. CASE raw # {}
  <2>1. Sequences \subseteq 0..Len(ledger) /\ Sequences # {}
    BY <1>2, LedgerShape DEF Sequences, LineInv
  <2>2. \E m \in Sequences : \A i \in Sequences : i <= m
    BY <2>1, LedgerShape, Largest
  <2> DEFINE top == CHOOSE s \in Sequences : \A t \in Sequences : t <= s
  <2>3. top \in Sequences
    BY <2>2
  <2>4. NextSequence = 1 + top
    BY <1>2 DEF NextSequence
  <2> HIDE DEF top
  <2> QED BY <2>1, <2>3, <2>4, LedgerShape
<1> QED BY <1>1, <1>2

\* The next sequence is larger than all that SQLite knows.
LEMMA SequenceIsNew ==
  ASSUME TypeOK, LineInv, NEW s \in Sequences
  PROVE  s < NextSequence /\ s # NextSequence
<1>1. raw # {}
  BY DEF Sequences
<1>2. Sequences \subseteq 0..Len(ledger)
  BY LedgerShape DEF Sequences, LineInv
<1>3. \E m \in Sequences : \A i \in Sequences : i <= m
  BY <1>2, LedgerShape, Largest
<1> DEFINE top == CHOOSE m \in Sequences : \A t \in Sequences : t <= m
<1>4. top \in Sequences /\ s <= top
  BY <1>3
<1>5. NextSequence = 1 + top
  BY <1>1 DEF NextSequence
<1> HIDE DEF top
<1>6. top \in Nat /\ s \in Nat
  BY <1>2, <1>4, LedgerShape
<1> QED BY <1>4, <1>5, <1>6

\* What a proposal cites.
LEMMA CitedShape ==
  ASSUME TypeOK, NEW p \in Proposal, proposals[p] # None
  PROVE  proposals[p] \in Contract /\ proposals[p].evidence \in Seq(Nat) /\ Cited(p) \subseteq Nat
  BY RangeOf DEF TypeOK, Contract, Cited

\* With every row there and every sequence the number of its line, so is the
\* next one.
LEMMA SequenceIsLine ==
  ASSUME TypeOK, Missing = {}, \A n \in 1..Len(ledger) : ledger[n].sequence = n
  PROVE  NextSequence = Len(ledger) + 1
<1>1. raw = 1..Len(ledger) /\ Len(ledger) \in Nat
  BY LedgerShape DEF Missing, TypeOK
<1>2. CASE Len(ledger) = 0
  BY <1>1, <1>2 DEF NextSequence
<1>3. CASE Len(ledger) # 0
  <2>1. Sequences = 1..Len(ledger)
    BY <1>1 DEF Sequences
  <2>2. Len(ledger) \in Sequences /\ \A t \in Sequences : t <= Len(ledger)
    BY <1>1, <1>3, <2>1
  <2>3. \A s \in Sequences : (\A t \in Sequences : t <= s) => s = Len(ledger)
    BY <1>1, <1>3, <2>1
  <2> DEFINE top == CHOOSE s \in Sequences : \A t \in Sequences : t <= s
  <2>4. top = Len(ledger)
    BY <2>2, <2>3
  <2>5. raw # {}
    BY <1>1, <1>3
  <2>6. NextSequence = 1 + top
    BY <2>5 DEF NextSequence
  <2> HIDE DEF top
  <2> QED BY <1>1, <2>4, <2>6
<1> QED BY <1>2, <1>3

-----------------------------------------------------------------------------
\* A line is appended.  What was there stays, and so does all that cites it.
LEMMA LineAppended ==
  ASSUME MemoryInv, NEW e \in Line, ledger' = Append(ledger, e),
         UNCHANGED <<raw, proposals, clean, unrecorded>>,
         e.sequence = NextSequence,
         e.key # None => \A n \in raw : ledger[n].key # e.key,
         e.what = "proposal" => e.about \in Claim /\ \A c \in Range(e.about.evidence) : c <= Len(ledger),
         e.what \in {"review", "promoted"} => e.about \in Verdict,
         e.what = "revoked" => e.about \in Memory,
         unrecorded = 0 => Missing = {}
  PROVE  /\ ledger' \in Seq(Line) /\ Len(ledger') = Len(ledger) + 1 /\ ledger'[Len(ledger')] = e
         /\ \A n \in 1..Len(ledger) : ledger'[n] = ledger[n]
         /\ raw' \subseteq 1..Len(ledger')
         /\ LineInv' /\ ProposalInv' /\ OvertakenInv' /\ Grounded' /\ LedgerRebuilds'
<1>1. TypeOK /\ LineInv /\ ProposalInv /\ OvertakenInv /\ Grounded /\ LedgerRebuilds
  BY DEF MemoryInv
<1>2. /\ ledger' \in Seq(Line) /\ Len(ledger') = Len(ledger) + 1 /\ ledger'[Len(ledger')] = e
      /\ \A n \in 1..Len(ledger) : ledger'[n] = ledger[n]
      /\ Len(ledger) \in Nat
  BY <1>1, LedgerShape
<1>3. raw \subseteq 1..Len(ledger) /\ raw' \subseteq 1..Len(ledger')
  BY <1>1, <1>2 DEF TypeOK
<1>4. LineInv'
  <2>1. e.sequence \in 1..(Len(ledger) + 1)
    BY <1>1, SequenceBounded
  <2>2. e.what = "proposal" => \A c \in Range(e.about.evidence) : c \in Nat
    BY RangeOf DEF Claim
  <2> SUFFICES ASSUME NEW n \in 1..Len(ledger')
               PROVE  /\ ledger'[n].sequence \in 1..n
                      /\ ledger'[n].what = "proposal" =>
                           ledger'[n].about \in Claim /\ \A c \in Range(ledger'[n].about.evidence) : c < n
                      /\ ledger'[n].what \in {"review", "promoted"} => ledger'[n].about \in Verdict
                      /\ ledger'[n].what = "revoked" => ledger'[n].about \in Memory
    BY DEF LineInv
  <2>3. CASE n = Len(ledger')
    BY <1>2, <2>1, <2>2, <2>3
  <2>4. CASE n # Len(ledger')
    <3>1. n \in 1..Len(ledger) /\ ledger'[n] = ledger[n]
      BY <1>2, <2>4
    <3> QED BY <1>1, <3>1 DEF LineInv
  <2> QED BY <2>3, <2>4
<1>5. ProposalInv'
  <2>1. ASSUME NEW p \in Proposal, proposals'[p] # None
        PROVE  /\ \A c \in Cited(p) : c <= Len(ledger')
               /\ proposals'[p].decision = "approved" => HasEntry(p)'
    <3>1. \A c \in Cited(p) : c \in Nat /\ c <= Len(ledger)
      BY <1>1, <2>1, CitedShape DEF ProposalInv
    <3> QED BY <1>1, <1>2, <2>1, <3>1 DEF ProposalInv, HasEntry, Versions
  <2>2. ASSUME NEW m \in Memory, NEW v \in Versions(m),
               NEW n \in Cited(clean[m][v].proposal) \cap raw
        PROVE  CanFlow(ledger'[n].scope, clean[m][v].scope)
    BY <1>1, <1>2, <1>3 DEF ProposalInv
  <2> QED BY <2>1, <2>2 DEF ProposalInv, Cited, Versions
<1>6. Grounded'
  <2> SUFFICES ASSUME NEW m \in Memory, NEW v \in 1..Len(clean[m]) PROVE RestsOnRules(m, v)'
    BY DEF Grounded
  <2>1. RestsOnRules(m, v)
    BY <1>1 DEF Grounded
  <2>2. clean[m][v].line \in raw
    BY <2>1 DEF RestsOnRules, Recorded
  <2>3. ledger'[clean[m][v].line] = ledger[clean[m][v].line]
    BY <1>2, <1>3, <2>2
  <2> QED BY SMTT(30), <2>1, <2>3 DEF RestsOnRules, Recorded, Found, Cited
<1>7. LedgerRebuilds'
  <2> SUFFICES ASSUME unrecorded = 0 PROVE LedgerRebuilds'
    BY DEF LedgerRebuilds
  <2>1. /\ Missing = {} /\ raw = 1..Len(ledger) /\ Rebuildable
        /\ \A n \in 1..Len(ledger) : ledger[n].sequence = n
    BY <1>1, <1>3 DEF LedgerRebuilds, Missing
  <2>2. e.sequence = Len(ledger) + 1
    BY <1>1, <2>1, SequenceIsLine
  <2>3. \A n \in 1..Len(ledger') : ledger'[n].sequence = n
    BY <1>2, <2>1, <2>2
  <2>4. Missing' \subseteq {Len(ledger')}
    BY <1>2, <2>1 DEF Missing
  <2>5. Rebuildable'
    <3> SUFFICES ASSUME NEW j \in 1..Len(ledger'), NEW k \in 1..Len(ledger'), j # k
                 PROVE  /\ ledger'[j].sequence # ledger'[k].sequence
                        /\ ledger'[j].key # None => ledger'[j].key # ledger'[k].key
      BY DEF Rebuildable
    <3>1. ledger'[j].sequence # ledger'[k].sequence
      BY <2>3
    <3>2. CASE j = Len(ledger')
      <4>1. k \in 1..Len(ledger) /\ ledger'[k] = ledger[k] /\ ledger'[j] = e
        BY <1>2, <3>2
      <4> QED BY <2>1, <3>1, <4>1
    <3>3. CASE k = Len(ledger')
      <4>1. j \in 1..Len(ledger) /\ ledger'[j] = ledger[j] /\ ledger'[k] = e
        BY <1>2, <3>3
      <4> QED BY <2>1, <3>1, <4>1
    <3>4. CASE j # Len(ledger') /\ k # Len(ledger')
      <4>1. j \in 1..Len(ledger) /\ k \in 1..Len(ledger)
        BY <1>2, <3>4
      <4> QED BY <1>2, <2>1, <3>1, <4>1 DEF Rebuildable
    <3> QED BY <3>1, <3>2, <3>3, <3>4
  <2> QED BY <2>3, <2>4, <2>5 DEF LedgerRebuilds
<1>8. OvertakenInv'
  <2>1. Sequences' = Sequences /\ raw' = raw
    BY <1>2, <1>3 DEF Sequences
  <2>2. NextSequence' = NextSequence
    BY <2>1 DEF NextSequence
  <2> SUFFICES ASSUME NEW n \in 1..Len(ledger'), n \notin raw
               PROVE  /\ ledger'[n].sequence \in Sequences \cup {NextSequence}
                      /\ \A k \in raw : n < k => ledger'[n].sequence \in Sequences
    BY <2>1, <2>2 DEF OvertakenInv, Missing
  <2>3. CASE n = Len(ledger')
    BY <1>2, <1>3, <2>3
  <2>4. CASE n # Len(ledger')
    <3>1. n \in Missing /\ ledger'[n] = ledger[n]
      BY <1>2, <2>4 DEF Missing
    <3> QED BY <1>1, <3>1 DEF OvertakenInv
  <2> QED BY <2>3, <2>4
<1> QED BY <1>2, <1>3, <1>4, <1>5, <1>6, <1>7, <1>8

\* An operation starts.
LEMMA StartKeeps ==
  ASSUME MemoryInv, NEW name \in Kind \ {"promoted"}, NEW scope, NEW about, NEW by, NEW key,
         Start(name, scope, about, by, key), Event(name, scope, about, by, key) \in Line,
         name = "proposal" => /\ about \in Claim /\ \A c \in Range(about.evidence) : c <= Len(ledger)
                              /\ proposals[about.proposal] = None,
         name = "review" => about \in Verdict /\ MayReview(about.proposal),
         name = "revoked" => about \in Memory /\ clean[about] # <<>>,
         key # None => \A n \in raw : ledger[n].key # key
  PROVE  MemoryInv'
<1> DEFINE e == Event(name, scope, about, by, key)
           new == [name |-> name, at |-> "record", line |-> Len(ledger) + 1]
<1>1. /\ e.what = name /\ e.about = about /\ e.key = key /\ e.sequence = NextSequence
      /\ e \in Line
  BY DEF Event
<1>2. TypeOK /\ up /\ op = None
  BY DEF MemoryInv, Start
<1>3. /\ new \in Operation /\ new # None /\ new.name = name /\ new.at = "record"
      /\ new.line = Len(ledger) + 1
  BY <1>2, LedgerShape, NoneAssumption DEF Operation
<1>4. /\ ledger' = Append(ledger, e) /\ op' = new
      /\ UNCHANGED <<raw, proposals, clean, up, failures, unrecorded>>
  BY DEF Start
<1>5. unrecorded = 0 => Missing = {}
  BY <1>2 DEF MemoryInv, MissingInv, Settled
<1> HIDE DEF e, new
<1>6. /\ ledger' \in Seq(Line) /\ Len(ledger') = Len(ledger) + 1 /\ ledger'[Len(ledger')] = e
      /\ \A n \in 1..Len(ledger) : ledger'[n] = ledger[n]
      /\ raw' \subseteq 1..Len(ledger')
      /\ LineInv' /\ ProposalInv' /\ OvertakenInv' /\ Grounded' /\ LedgerRebuilds'
  BY <1>1, <1>4, <1>5, LineAppended
<1>7. TypeOK'
  BY <1>2, <1>3, <1>4, <1>6 DEF TypeOK
<1>8. MissingInv'
  BY <1>3, <1>4 DEF MissingInv, Settled
<1>9. OperationInv'
  <2>1. /\ op'.line = Len(ledger') /\ op'.line \in 1..Len(ledger') /\ ledger'[op'.line] = e
        /\ About' = about
    BY <1>1, <1>2, <1>3, <1>4, <1>6, LedgerShape DEF About
  <2>2. name = "proposal" => proposals'[About'] = proposals'[About'] /\ proposals'[about.proposal] = None
    BY <1>4
  <2>3. name = "review" =>
          /\ proposals'[about.proposal] # None /\ proposals'[about.proposal].decision = "pending"
          /\ \A c \in Cited(about.proposal)' : c < op'.line
    <3> SUFFICES ASSUME name = "review" PROVE /\ proposals[about.proposal] # None
                                              /\ proposals[about.proposal].decision = "pending"
                                              /\ \A c \in Cited(about.proposal) : c < Len(ledger) + 1
      BY <1>3, <1>4 DEF Cited
    <3>1. about.proposal \in Proposal /\ MayReview(about.proposal)
      BY DEF Verdict
    <3>2. Cited(about.proposal) \subseteq Nat
      BY <1>2, <3>1, CitedShape DEF MayReview
    <3>3. \A c \in Cited(about.proposal) : c \in Nat /\ c <= Len(ledger)
      BY <3>1, <3>2 DEF MemoryInv, ProposalInv, MayReview
    <3> QED BY <1>2, <3>1, <3>3, LedgerShape DEF MayReview
  <2>4. \A m \in Memory : \A v \in Versions(m) : clean[m][v].line < op'.line
    <3> SUFFICES ASSUME NEW m \in Memory, NEW v \in Versions(m)
                 PROVE  clean[m][v].line < Len(ledger) + 1
      BY <1>3, <1>4
    <3>1. RestsOnRules(m, v)
      BY DEF MemoryInv, Grounded, Versions
    <3>2. clean[m][v].line \in 1..Len(ledger)
      BY <1>2, <3>1, LedgerShape DEF RestsOnRules, Recorded
    <3> QED BY <1>2, <3>2, LedgerShape
  <2> QED BY <1>1, <1>2, <1>3, <1>4, <2>1, <2>2, <2>3, <2>4 DEF OperationInv, Versions, Cited
<1> QED BY <1>6, <1>7, <1>8, <1>9 DEF MemoryInv

LEMMA RequestKeeps == ASSUME MemoryInv, Request PROVE MemoryInv'
<1>1. TypeOK /\ \A n \in 1..(Len(ledger) + 1) : n \in Nat
  BY DEF MemoryInv
<1>2. NextSequence \in Nat
  BY SequenceBounded, LedgerShape DEF MemoryInv
<1>3. ASSUME NEW s \in Scope, NEW key \in Key, Capture(s, key) PROVE MemoryInv'
  <2>1. Event("fact", s, None, s.owner, key) \in Line
    BY <1>2 DEF Event, Line, Kind
  <2> QED BY <1>3, <2>1, StartKeeps DEF Capture, Kind
<1>4. ASSUME NEW p \in Proposal, NEW refs \in References, Range(refs) \subseteq Citable, Propose(p, refs)
      PROVE  MemoryInv'
  <2> DEFINE about == [proposal |-> p, evidence |-> refs]
  <2>1. Candidate[p].scope \in Scope /\ Candidate[p].proposer \in Actor
    BY ConstantAssumption
  <2>2. \A c \in Range(refs) : c <= Len(ledger)
    BY <1>1, <1>4, LedgerShape DEF Citable
  <2>3. about \in Claim /\ about.proposal = p /\ about.evidence = refs
    BY ConstantAssumption DEF Claim
  <2> HIDE DEF about
  <2>4. Event("proposal", Candidate[p].scope, about, Candidate[p].proposer, None) \in Line
    BY <1>2, <2>1, <2>3 DEF Event, Line, Kind
  <2>5. Start("proposal", Candidate[p].scope, about, Candidate[p].proposer, None)
    BY <1>4 DEF Propose, about
  <2> QED BY <1>4, <2>2, <2>3, <2>4, <2>5, StartKeeps DEF Propose, Kind
<1>5. ASSUME NEW p \in Proposal, NEW a \in Actor, NEW approve \in BOOLEAN, Review(p, a, approve)
      PROVE  MemoryInv'
  <2> DEFINE about == [proposal |-> p, approve |-> approve]
  <2>1. Candidate[p].scope \in Scope
    BY ConstantAssumption
  <2>2. about \in Verdict /\ about.proposal = p
    BY DEF Verdict
  <2>3. Start("review", Candidate[p].scope, about, a, None) /\ MayReview(p)
    BY <1>5 DEF Review
  <2> HIDE DEF about
  <2>4. Event("review", Candidate[p].scope, about, a, None) \in Line
    BY <1>2, <2>1, <2>2 DEF Event, Line, Kind
  <2> QED BY <2>2, <2>3, <2>4, StartKeeps DEF Kind
<1>6. ASSUME NEW m \in Memory, NEW a \in Actor, Revoke(m, a) PROVE MemoryInv'
  <2>1. Current(m).scope \in Scope
    <3>1. clean[m] \in Seq(Version) /\ clean[m] # <<>>
      BY <1>1, <1>6, CleanShape DEF Revoke
    <3>2. Len(clean[m]) \in Versions(m)
      BY <3>1 DEF Versions
    <3> QED BY <1>1, <3>2, CleanShape DEF Current
  <2>2. Event("revoked", Current(m).scope, m, a, None) \in Line
    BY <1>2, <2>1 DEF Event, Line, Kind
  <2> QED BY <1>6, <2>2, StartKeeps DEF Revoke, Kind
<1> QED BY <1>3, <1>4, <1>5, <1>6 DEF Request

-----------------------------------------------------------------------------
\* Rows are inserted, or the process starts, ends or goes on after an error:
\* only `op', `up' and rows change.
LEMMA RowsGrow ==
  ASSUME MemoryInv, UNCHANGED <<ledger, proposals, clean>>,
         raw \subseteq raw', raw' \subseteq 1..Len(ledger),
         \A n \in raw' \ raw : Insertable(n),
         unrecorded' \in Nat, unrecorded' = 0 => unrecorded = 0
  PROVE  LineInv' /\ ProposalInv' /\ OvertakenInv' /\ Grounded' /\ LedgerRebuilds'
<1>1. TypeOK /\ LineInv /\ raw \subseteq 1..Len(ledger) /\ raw \subseteq Nat /\ Len(ledger) \in Nat
  BY LedgerShape DEF MemoryInv
<1>2. LineInv'
  BY DEF MemoryInv, LineInv
<1>3. ASSUME NEW n \in raw' \ raw
      PROVE  /\ n \in Missing /\ ledger[n].sequence \notin Sequences
             /\ ledger[n].sequence = NextSequence
             /\ \A k \in raw : ~(n < k)
  <2>1. n \in Missing
    BY DEF Missing
  <2>2. ledger[n].sequence \notin Sequences
    BY DEF Insertable, Sequences
  <2> QED BY <2>1, <2>2 DEF MemoryInv, OvertakenInv
<1>4. ProposalInv'
  <2>1. ASSUME NEW p \in Proposal, proposals[p] # None
        PROVE  /\ \A c \in Cited(p) : c <= Len(ledger)
               /\ proposals[p].decision = "approved" => HasEntry(p)
    BY <2>1 DEF MemoryInv, ProposalInv
  <2>2. ASSUME NEW m \in Memory, NEW v \in Versions(m),
               NEW n \in Cited(clean[m][v].proposal), n \in raw'
        PROVE  CanFlow(ledger[n].scope, clean[m][v].scope)
    <3>1. CASE n \in raw
      BY <3>1 DEF MemoryInv, ProposalInv
    <3>2. CASE n \notin raw
      <4>1. RestsOnRules(m, v)
        BY DEF MemoryInv, Grounded, Versions
      <4>2. clean[m][v].line \in raw /\ n < clean[m][v].line
        BY <4>1 DEF RestsOnRules, Recorded
      <4> QED BY <1>3, <2>2, <3>2, <4>2
    <3> QED BY <3>1, <3>2
  <2> QED BY <2>1, <2>2 DEF ProposalInv, Cited, HasEntry, Versions
<1>5. Grounded'
  <2> SUFFICES ASSUME NEW m \in Memory, NEW v \in 1..Len(clean[m]) PROVE RestsOnRules(m, v)'
    BY DEF Grounded
  <2> DEFINE e == clean[m][v]
             p == e.proposal
  <2>1. RestsOnRules(m, v)
    BY DEF MemoryInv, Grounded
  <2>2. Found(p)' # {} /\ Cited(p)' = Cited(p)
    BY <2>1 DEF RestsOnRules, Found, Cited
  <2>3. \A what : Recorded(e.line, what) => Recorded(e.line, what)'
    BY DEF Recorded
  <2>4. UNCHANGED e
    OBVIOUS
  <2> QED BY <2>1, <2>2, <2>3, <2>4 DEF RestsOnRules
<1>6. LedgerRebuilds'
  BY DEF MemoryInv, LedgerRebuilds, Rebuildable, Missing
<1>7. Sequences \subseteq Sequences' /\ \A n \in raw' : ledger[n].sequence \in Sequences'
  BY DEF Sequences
<1>8. CASE raw' = raw
  <2>1. Sequences' = Sequences /\ Missing' = Missing
    BY <1>8 DEF Sequences, Missing
  <2>2. NextSequence' = NextSequence
    BY <1>8, <2>1 DEF NextSequence
  <2>3. OvertakenInv'
    BY <1>8, <2>1, <2>2 DEF MemoryInv, OvertakenInv
  <2> QED BY <1>2, <1>4, <1>5, <1>6, <2>3
<1>9. CASE raw' # raw
  <2>1. PICK n \in raw' : n \notin raw
    BY <1>9
  <2>2. NextSequence \in Sequences'
    BY <1>3, <1>7, <2>1
  <2>3. \A j \in Missing' : j \in Missing /\ ledger[j].sequence \in Sequences'
    BY <1>7, <2>2 DEF Missing, MemoryInv, OvertakenInv
  <2>4. OvertakenInv'
    BY <2>3 DEF OvertakenInv
  <2> QED BY <1>2, <1>4, <1>5, <1>6, <2>4
<1> QED BY <1>8, <1>9

LEMMA RecordKeeps == ASSUME MemoryInv, RecordRow PROVE MemoryInv'
<1>1. /\ op # None /\ op.at = "record" /\ op \in Operation /\ op.line = Len(ledger)
      /\ op.line \in 1..Len(ledger) /\ up /\ raw' = raw \cup {op.line}
      /\ UNCHANGED <<ledger, proposals, clean, up, failures, unrecorded>>
  BY DEF RecordRow, MemoryInv, OperationInv, TypeOK
<1>2. /\ LineInv' /\ ProposalInv' /\ OvertakenInv' /\ Grounded' /\ LedgerRebuilds'
      /\ raw' \subseteq 1..Len(ledger)
  <2>1. \A n \in raw' \ raw : Insertable(n)
    BY <1>1 DEF RecordRow
  <2> QED BY <1>1, <2>1, RowsGrow DEF MemoryInv, TypeOK
<1>3. MissingInv'
  BY <1>1 DEF MemoryInv, MissingInv, LedgerRebuilds, Missing
<1>4. CASE op.name = "fact"
  <2>1. op' = None
    BY <1>4 DEF RecordRow
  <2> QED BY <1>1, <1>2, <1>3, <2>1 DEF MemoryInv, TypeOK, OperationInv
<1>5. CASE op.name # "fact"
  <2> DEFINE new == [op EXCEPT !.at = "act"]
  <2>1. /\ new \in Operation /\ new # None /\ new.at = "act" /\ new.name = op.name
        /\ new.line = op.line
    BY <1>1, NoneAssumption DEF Operation
  <2>2. op' = new
    BY <1>5 DEF RecordRow
  <2> HIDE DEF new
  <2>3. About' = About
    BY <1>1, <2>1, <2>2 DEF About
  <2>4. OperationInv'
    BY <1>1, <1>5, <2>1, <2>2, <2>3 DEF MemoryInv, OperationInv, Cited, HasEntry, Versions
  <2> QED BY <1>1, <1>2, <1>3, <2>1, <2>2, <2>4 DEF MemoryInv, TypeOK
<1> QED BY <1>4, <1>5

LEMMA EndKeeps == ASSUME MemoryInv, Stop \/ Raise PROVE MemoryInv'
<1>1. /\ op' = None /\ UNCHANGED <<ledger, raw, proposals, clean>>
      /\ up' \in BOOLEAN /\ failures' \in Nat /\ unrecorded' \in Nat
      /\ unrecorded' = 0 => unrecorded = 0
  <2>1. unrecorded \in Nat /\ failures \in Nat /\ up \in BOOLEAN
    BY DEF MemoryInv, TypeOK
  <2>2. CASE Stop
    <3>1. failures' = failures \/ failures' = failures + 1
      BY <2>2 DEF Stop
    <3>2. up' \in BOOLEAN
      BY <2>2 DEF Stop
    <3>3. op' = None /\ UNCHANGED <<ledger, raw, proposals, clean, unrecorded>>
      BY <2>2 DEF Stop
    <3> QED BY <2>1, <3>1, <3>2, <3>3
  <2>3. CASE Raise
    BY <2>1, <2>3 DEF Raise
  <2> QED BY <2>2, <2>3
<1>2. LineInv' /\ ProposalInv' /\ OvertakenInv' /\ Grounded' /\ LedgerRebuilds'
  BY <1>1, RowsGrow DEF MemoryInv, TypeOK
<1>3. MissingInv'
  <2>1. CASE Stop
    BY <2>1 DEF Stop, MissingInv, Settled
  <2>2. CASE Raise
    BY <1>1, <2>2 DEF Raise, MemoryInv, TypeOK, OperationInv, MissingInv, Settled, Missing
  <2> QED BY <2>1, <2>2
<1> QED BY <1>1, <1>2, <1>3 DEF MemoryInv, TypeOK, OperationInv

LEMMA OpenKeeps == ASSUME MemoryInv, Open PROVE MemoryInv'
<1>1. UNCHANGED <<ledger, proposals, clean, op, failures, unrecorded>> /\ ~up
  BY DEF Open
<1>2. op = None
  BY <1>1 DEF MemoryInv, OperationInv
<1>3. Missing \subseteq Nat /\ Missing \subseteq 1..Len(ledger)
  BY LedgerShape DEF MemoryInv, Missing
<1>4. raw \subseteq raw' /\ raw' \subseteq 1..Len(ledger) /\ up' \in BOOLEAN
      /\ (up' => Missing' = {}) /\ \A n \in raw' \ raw : Insertable(n)
  <2>1. CASE Missing = {}
    BY <1>1, <2>1 DEF Open, MemoryInv, TypeOK, Missing
  <2>2. CASE Missing # {}
    <3> DEFINE n == CHOOSE k \in Missing : \A j \in Missing : k <= j
    <3>1. n \in Missing
      BY <1>3, <2>2, Least
    <3>2. raw' = raw \cup {n} /\ up' = up /\ Insertable(n)
      BY <2>2 DEF Open
    <3> HIDE DEF n
    <3> QED BY <1>1, <1>3, <3>1, <3>2 DEF MemoryInv, TypeOK
  <2> QED BY <2>1, <2>2
<1>5. LineInv' /\ ProposalInv' /\ OvertakenInv' /\ Grounded' /\ LedgerRebuilds'
  BY <1>1, <1>4, RowsGrow DEF MemoryInv, TypeOK
<1> QED BY <1>1, <1>2, <1>4, <1>5 DEF MemoryInv, TypeOK, OperationInv, MissingInv, Settled

-----------------------------------------------------------------------------
\* What an operation that acts knows.
LEMMA ActingShape ==
  ASSUME MemoryInv, op # None, op.at # "record"
  PROVE  /\ op \in Operation /\ up /\ op.line \in raw /\ op.line \in 1..Len(ledger)
         /\ op.line \in Nat /\ Len(ledger) \in Nat
         /\ ledger[op.line] \in Line
         /\ unrecorded = 0 => Missing = {}
         /\ op.name = "proposal" => About \in Claim /\ About.proposal \in Proposal
                                    /\ \A c \in Range(About.evidence) : c \in Nat /\ c < op.line
         /\ op.name \in {"review", "promoted"} => About \in Verdict /\ About.proposal \in Proposal
         /\ op.name = "revoked" => About \in Memory
<1>1. /\ op \in Operation /\ up /\ op.line \in raw /\ op.line \in 1..Len(ledger)
      /\ op.line \in Nat /\ Len(ledger) \in Nat /\ ledger[op.line] \in Line
  BY LedgerShape DEF MemoryInv, OperationInv, TypeOK, Operation
<1>2. unrecorded = 0 => Missing = {}
  BY <1>1 DEF MemoryInv, MissingInv, Settled
<1>3. op.name = "proposal" => About \in Claim /\ \A c \in Range(About.evidence) : c < op.line
  BY <1>1 DEF MemoryInv, OperationInv, LineInv, About
<1>4. op.name \in {"review", "promoted"} => About \in Verdict
  BY <1>1 DEF MemoryInv, OperationInv, LineInv, About
<1>5. op.name = "revoked" => About \in Memory
  BY <1>1 DEF MemoryInv, OperationInv, LineInv, About
<1>6. op.name = "proposal" => \A c \in Range(About.evidence) : c \in Nat
  BY <1>3, RangeOf DEF Claim
<1> QED BY <1>1, <1>2, <1>3, <1>4, <1>5, <1>6 DEF Claim, Verdict

\* A proposal is saved for the first time, or its decision is.
LEMMA ProposalSaved ==
  ASSUME MemoryInv, NEW p \in Proposal, NEW c \in Contract, op # None, op.at # "record",
         proposals' = [proposals EXCEPT ![p] = c], op' = None,
         UNCHANGED <<ledger, raw, clean, up, failures, unrecorded>>,
         proposals[p] # None => c.evidence = proposals[p].evidence,
         \A n \in Range(c.evidence) : n <= Len(ledger),
         c.decision = "approved" => HasEntry(p)
  PROVE  MemoryInv'
<1>1. /\ proposals \in [Proposal -> Contract \cup {None}] /\ proposals'[p] = c /\ c # None
      /\ \A q \in Proposal \ {p} : proposals'[q] = proposals[q]
  BY NoneAssumption DEF MemoryInv, TypeOK
<1>2. TypeOK'
  BY DEF MemoryInv, TypeOK
<1>3. LineInv' /\ LedgerRebuilds' /\ OperationInv'
  BY DEF MemoryInv, LineInv, LedgerRebuilds, Rebuildable, Missing, OperationInv
<1>4. MissingInv' /\ OvertakenInv'
  <2>1. MissingInv'
    BY ActingShape DEF MissingInv, Missing
  <2>2. Sequences' = Sequences /\ Missing' = Missing /\ raw' = raw /\ ledger' = ledger
    BY DEF Sequences, Missing
  <2>3. NextSequence' = NextSequence
    BY <2>2 DEF NextSequence
  <2> QED BY <2>1, <2>2, <2>3 DEF MemoryInv, OvertakenInv
<1>5. ASSUME NEW q \in Proposal, proposals[q] # None
      PROVE  /\ proposals'[q] # None /\ proposals'[q].evidence = proposals[q].evidence
             /\ Cited(q)' = Cited(q) /\ Found(q)' = Found(q)
  <2>1. proposals'[q] # None /\ proposals'[q].evidence = proposals[q].evidence
    BY <1>1, <1>5
  <2> QED BY <2>1 DEF Cited, Found
<1>6. ASSUME NEW m \in Memory, NEW v \in Versions(m)
      PROVE  /\ clean[m][v].proposal \in Proposal /\ proposals[clean[m][v].proposal] # None
             /\ RestsOnRules(m, v)
  BY CleanShape DEF MemoryInv, Grounded, RestsOnRules, Versions
<1>7. Grounded'
  <2> SUFFICES ASSUME NEW m \in Memory, NEW v \in Versions(m) PROVE RestsOnRules(m, v)'
    BY DEF Grounded, Versions
  <2> QED BY <1>5, <1>6 DEF RestsOnRules, Recorded
<1>8. ProposalInv'
  <2>1. ASSUME NEW q \in Proposal, proposals'[q] # None
        PROVE  /\ \A n \in Cited(q)' : n <= Len(ledger)
               /\ proposals'[q].decision = "approved" => HasEntry(q)
    BY <1>1, <2>1 DEF MemoryInv, ProposalInv, Cited
  <2>2. ASSUME NEW m \in Memory, NEW v \in Versions(m),
               NEW n \in Cited(clean[m][v].proposal)', n \in raw
        PROVE  CanFlow(ledger[n].scope, clean[m][v].scope)
    BY <1>5, <1>6, <2>2 DEF MemoryInv, ProposalInv
  <2> QED BY <2>1, <2>2 DEF ProposalInv, HasEntry, Versions
<1> QED BY <1>2, <1>3, <1>4, <1>7, <1>8 DEF MemoryInv

LEMMA SaveKeeps == ASSUME MemoryInv, SaveProposal PROVE MemoryInv'
<1>1. /\ op # None /\ op.at = "act" /\ op.name = "proposal" /\ op' = None
      /\ UNCHANGED <<ledger, raw, clean, up, failures, unrecorded>>
  BY DEF SaveProposal, Acting
<1>2. proposals[About.proposal] = None
  BY <1>1 DEF MemoryInv, OperationInv
<1> DEFINE c == [evidence |-> About.evidence, decision |-> "pending"]
           p == About.proposal
<1>3. p \in Proposal /\ About \in Claim /\ \A n \in Range(About.evidence) : n \in Nat /\ n < op.line
      /\ op.line \in Nat /\ Len(ledger) \in Nat /\ op.line <= Len(ledger)
  BY <1>1, ActingShape
<1>4. c \in Contract /\ c.evidence = About.evidence /\ c.decision = "pending"
  BY <1>3 DEF Claim, Contract
<1>5. proposals' = [proposals EXCEPT ![p] = c]
  BY DEF SaveProposal
<1>6. \A n \in Range(c.evidence) : n <= Len(ledger)
  BY <1>3, <1>4
<1> HIDE DEF c, p
<1> QED BY <1>1, <1>2, <1>3, <1>4, <1>5, <1>6, ProposalSaved DEF p

LEMMA DecideKeeps == ASSUME MemoryInv, DecideAgainst \/ DecideFor PROVE MemoryInv'
<1> DEFINE p == About.proposal
<1>1. /\ op # None /\ op.at = "act" /\ op.name \in {"review", "promoted"} /\ op' = None
      /\ UNCHANGED <<ledger, raw, clean, up, failures, unrecorded>>
  BY DEF DecideAgainst, DecideFor, Acting
<1>2. p \in Proposal /\ proposals[p] # None /\ proposals[p] \in Contract
  BY <1>1, ActingShape DEF MemoryInv, OperationInv, TypeOK
<1>3. PICK d \in {"approved", "rejected", "needs_evidence"} :
        Save(p, d) /\ (d = "approved" => HasEntry(p))
  <2>1. CASE DecideAgainst
    BY <2>1 DEF DecideAgainst, Decision
  <2>2. CASE DecideFor
    BY <2>2 DEF DecideFor, Acting, MemoryInv, OperationInv
  <2> QED BY <2>1, <2>2
<1> DEFINE c == [proposals[p] EXCEPT !.decision = d]
<1>4. c \in Contract /\ c.evidence = proposals[p].evidence /\ c.decision = d
  BY <1>2 DEF Contract
<1>5. proposals' = [proposals EXCEPT ![p] = c]
  BY <1>3 DEF Save
<1>6. \A n \in Range(c.evidence) : n <= Len(ledger)
  BY <1>2, <1>4 DEF MemoryInv, ProposalInv, Cited
<1> HIDE DEF c, p
<1> QED BY <1>1, <1>2, <1>3, <1>4, <1>5, <1>6, ProposalSaved

-----------------------------------------------------------------------------
\* A version is inserted that rests on the rules.
LEMMA VersionInserted ==
  ASSUME MemoryInv, NEW m \in Memory, NEW e \in Version,
         clean' = [clean EXCEPT ![m] = Append(@, e)],
         UNCHANGED <<ledger, raw, proposals, up, failures, unrecorded>>,
         op # None, op.at = "act", op.name \in {"review", "revoked"}, e.line = op.line,
         proposals[e.proposal] # None, Found(e.proposal) # {},
         IsInjective(proposals[e.proposal].evidence) => Cited(e.proposal) \subseteq raw,
         \A n \in Cited(e.proposal) :
           n < op.line /\ (n \in raw => CanFlow(ledger[n].scope, e.scope)),
         e.status = "revoked" => ledger[op.line].what = "revoked" /\ ledger[op.line].about = m,
         e.status # "revoked" =>
           /\ ledger[op.line].what = "review" /\ ledger[op.line].about.proposal = e.proposal
           /\ ledger[op.line].by # Candidate[e.proposal].proposer
  PROVE  /\ clean' \in [Memory -> Seq(Version)]
         /\ LineInv' /\ ProposalInv' /\ OvertakenInv' /\ Grounded' /\ LedgerRebuilds'
         /\ \A p \in Proposal : HasEntry(p) => HasEntry(p)'
         /\ Len(clean'[m]) \in 1..Len(clean'[m]) /\ clean'[m][Len(clean'[m])] = e
<1>1. /\ clean \in [Memory -> Seq(Version)] /\ clean[m] \in Seq(Version) /\ Len(clean[m]) \in Nat
      /\ clean'[m] = Append(clean[m], e) /\ \A x \in Memory \ {m} : clean'[x] = clean[x]
  BY CleanShape DEF MemoryInv, TypeOK
<1>2. /\ Len(clean'[m]) = Len(clean[m]) + 1 /\ clean'[m][Len(clean'[m])] = e
      /\ \A v \in 1..Len(clean[m]) : clean'[m][v] = clean[m][v]
      /\ Len(clean'[m]) \in 1..Len(clean'[m])
  BY <1>1
<1>3. clean' \in [Memory -> Seq(Version)]
  BY <1>1
<1>4. LineInv' /\ OvertakenInv' /\ LedgerRebuilds'
  <2>1. Sequences' = Sequences /\ Missing' = Missing /\ raw' = raw /\ ledger' = ledger
    BY DEF Sequences, Missing
  <2>2. NextSequence' = NextSequence
    BY <2>1 DEF NextSequence
  <2>3. OvertakenInv'
    BY <2>1, <2>2 DEF MemoryInv, OvertakenInv
  <2> QED BY <2>3 DEF MemoryInv, LineInv, LedgerRebuilds, Rebuildable, Missing
<1>5. \A x \in Memory : \A v \in 1..Len(clean[x]) :
        v \in 1..Len(clean'[x]) /\ clean'[x][v] = clean[x][v]
  BY <1>1, <1>2
<1>6. \A p \in Proposal : HasEntry(p) => HasEntry(p)'
  <2> SUFFICES ASSUME NEW p \in Proposal, HasEntry(p) PROVE HasEntry(p)'
    OBVIOUS
  <2>1. Candidate[p].memory \in Memory
    BY ConstantAssumption
  <2> QED BY <1>5, <2>1 DEF HasEntry, Versions
<1>7. ASSUME NEW x \in Memory, NEW v \in 1..Len(clean'[x])
      PROVE  (v \in 1..Len(clean[x]) /\ clean'[x][v] = clean[x][v])
             \/ (x = m /\ v = Len(clean[m]) + 1 /\ clean'[x][v] = e)
  BY <1>1, <1>2
<1>8. Grounded'
  <2> SUFFICES ASSUME NEW x \in Memory, NEW v \in 1..Len(clean'[x]) PROVE RestsOnRules(x, v)'
    BY DEF Grounded
  <2>1. CASE v \in 1..Len(clean[x]) /\ clean'[x][v] = clean[x][v]
    <3>1. RestsOnRules(x, v)
      BY <2>1 DEF MemoryInv, Grounded
    <3>2. \A w \in 1..(v - 1) : clean'[x][w] = clean[x][w]
      BY <1>5, <2>1, CleanShape DEF MemoryInv
    <3>3. /\ ledger' = ledger /\ raw' = raw /\ proposals' = proposals
      OBVIOUS
    <3>4. \A w \in 1..(v - 1) : clean'[x][w].line < clean[x][v].line
      BY <3>1, <3>2 DEF RestsOnRules
    <3> QED BY <2>1, <3>1, <3>3, <3>4, ZenonT(30) DEF RestsOnRules, Recorded, Found, Cited
  <2>2. CASE x = m /\ v = Len(clean[m]) + 1 /\ clean'[x][v] = e
    <3>1. \A w \in 1..(v - 1) : clean'[m][w].line < op.line
      BY <1>1, <1>2, <2>2 DEF MemoryInv, OperationInv, Versions
    <3>2. op.line \in raw
      BY ActingShape
    <3> QED BY <2>2, <3>1, <3>2 DEF RestsOnRules, Recorded, Found, Cited
  <2> QED BY <1>7, <2>1, <2>2
<1>9. ProposalInv'
  <2>1. ASSUME NEW p \in Proposal, proposals[p] # None
        PROVE  /\ \A n \in Cited(p) : n <= Len(ledger)
               /\ proposals[p].decision = "approved" => HasEntry(p)'
    BY <1>6, <2>1 DEF MemoryInv, ProposalInv
  <2>2. ASSUME NEW x \in Memory, NEW v \in 1..Len(clean'[x]),
               NEW n \in Cited(clean'[x][v].proposal) \cap raw
        PROVE  CanFlow(ledger[n].scope, clean'[x][v].scope)
    <3>1. CASE v \in 1..Len(clean[x]) /\ clean'[x][v] = clean[x][v]
      BY <3>1 DEF MemoryInv, ProposalInv, Versions
    <3>2. CASE x = m /\ v = Len(clean[m]) + 1 /\ clean'[x][v] = e
      BY <3>2
    <3> QED BY <1>7, <3>1, <3>2
  <2> QED BY <2>1, <2>2 DEF ProposalInv, Cited, Versions
<1> QED BY <1>2, <1>3, <1>4, <1>6, <1>8, <1>9

LEMMA PromoteKeeps == ASSUME MemoryInv, Promote PROVE MemoryInv'
<1> DEFINE p == About.proposal
           m == Candidate[p].memory
           e == Promoted(p)
           new == [op EXCEPT !.name = "promoted", !.at = "append"]
<1>1. /\ op # None /\ op.at = "act" /\ op.name = "review"
      /\ op' = new /\ Decision(p, By, About.approve) = "approved"
      /\ clean' = [clean EXCEPT ![m] = Append(@, e)]
      /\ UNCHANGED <<ledger, raw, proposals, up, failures, unrecorded>>
  BY DEF Promote, Acting, Insert
<1>2. /\ p \in Proposal /\ op \in Operation /\ op.line \in Nat /\ op.line \in raw /\ up
      /\ op.line \in 1..Len(ledger)
      /\ unrecorded = 0 => Missing = {}
  BY <1>1, ActingShape
<1>3. /\ m \in Memory /\ Candidate[p].content \in Content /\ Candidate[p].scope \in Scope
  BY <1>2, ConstantAssumption
<1>4. /\ e \in Version /\ e.line = op.line /\ e.proposal = p /\ e.status # "revoked"
      /\ e.scope = Candidate[p].scope
  BY <1>2, <1>3 DEF Promoted, Version
<1>5. /\ new \in Operation /\ new # None /\ new.name = "promoted" /\ new.at = "append"
      /\ new.line = op.line
  BY ZenonT(30), <1>2, NoneAssumption DEF Operation, Kind
<1>6. /\ By # Candidate[p].proposer /\ Validated(p)
  BY <1>1 DEF Decision, CanReview
<1>7. /\ proposals[p] # None /\ proposals[p].decision = "pending"
      /\ \A n \in Cited(p) : n < op.line
      /\ ledger[op.line].what = "review" /\ ledger[op.line].about.proposal = p
  BY ZenonT(30), <1>1 DEF MemoryInv, OperationInv, About
<1>8. /\ Found(p) # {}
      /\ IsInjective(proposals[p].evidence) => Cited(p) \subseteq raw
      /\ \A n \in Cited(p) \cap raw : CanFlow(ledger[n].scope, Candidate[p].scope)
  <2>1. proposals[p].evidence \in Seq(Nat)
    BY <1>2, <1>7, CitedShape DEF MemoryInv
  <2>2. /\ proposals[p].evidence # <<>> /\ Cardinality(Found(p)) = Cardinality(Cited(p))
        /\ \A n \in Cited(p) \cap raw : CanFlow(ledger[n].scope, Candidate[p].scope)
    BY <1>6 DEF Validated
  <2> HIDE DEF p
  <2>3. /\ Found(p) # {}
        /\ IsInjective(proposals[p].evidence) => Cited(p) \subseteq raw
    BY <2>1, <2>2, CountTells DEF Found, Cited
  <2> QED BY <2>2, <2>3
<1>9. ledger[op.line].by # Candidate[p].proposer
  BY <1>6 DEF By
<1>10. PICK q \in Proposal : q = p
  BY <1>2
<1>11. Candidate[q].memory = m
  BY <1>10
<1> HIDE DEF e, new, p, m
<1>12. /\ clean' \in [Memory -> Seq(Version)]
       /\ LineInv' /\ ProposalInv' /\ OvertakenInv' /\ Grounded' /\ LedgerRebuilds'
       /\ Len(clean'[m]) \in 1..Len(clean'[m]) /\ clean'[m][Len(clean'[m])] = e
  <2>1. /\ proposals[e.proposal] # None /\ Found(e.proposal) # {}
        /\ IsInjective(proposals[e.proposal].evidence) => Cited(e.proposal) \subseteq raw
        /\ \A n \in Cited(e.proposal) :
             n < op.line /\ (n \in raw => CanFlow(ledger[n].scope, e.scope))
    BY <1>4, <1>7, <1>8
  <2>2. /\ ledger[op.line].what = "review" /\ ledger[op.line].about.proposal = e.proposal
        /\ ledger[op.line].by # Candidate[e.proposal].proposer
    BY <1>4, <1>7, <1>9
  <2>3. e.status # "revoked" /\ e.line = op.line /\ e \in Version
    BY <1>4
  <2> QED BY <1>1, <1>3, <2>1, <2>2, <2>3, VersionInserted
<1>13. TypeOK'
  BY <1>1, <1>5, <1>12 DEF MemoryInv, TypeOK
<1>14. MissingInv'
  BY <1>1, <1>2 DEF MissingInv, Missing
<1>15. HasEntry(q)'
  BY <1>4, <1>10, <1>11, <1>12 DEF HasEntry, Versions
<1>16. About'.proposal = q
  BY <1>1, <1>5, <1>7, <1>10 DEF About
<1>17. OperationInv'
  BY <1>1, <1>2, <1>5, <1>7, <1>10, <1>15, <1>16 DEF OperationInv, Cited
<1> QED BY <1>12, <1>13, <1>14, <1>17 DEF MemoryInv

LEMMA RevokeKeeps == ASSUME MemoryInv, SaveRevoked PROVE MemoryInv'
<1> DEFINE m == About
           last == Current(m)
           e == [last EXCEPT !.status = "revoked", !.line = op.line]
<1>1. /\ op # None /\ op.at = "act" /\ op.name = "revoked" /\ op' = None
      /\ clean' = [clean EXCEPT ![m] = Append(@, e)]
      /\ UNCHANGED <<ledger, raw, proposals, up, failures, unrecorded>>
  BY DEF SaveRevoked, Acting, Insert
<1>2. /\ m \in Memory /\ op.line \in Nat /\ op.line \in raw
  BY <1>1, ActingShape
<1>3. unrecorded = 0 => Missing = {}
  BY <1>1, ActingShape
<1>4. /\ clean[m] # <<>> /\ ledger[op.line].what = "revoked" /\ ledger[op.line].about = m
      /\ \A v \in Versions(m) : clean[m][v].line < op.line
  BY <1>1, <1>2 DEF MemoryInv, OperationInv, About
<1>5. clean[m] \in Seq(Version)
  BY <1>2, CleanShape DEF MemoryInv
<1>6. PICK v \in Versions(m) : clean[m][v] = last
  BY <1>4, <1>5 DEF Current, Versions
<1>7. last \in Version /\ last.line < op.line /\ last.line \in Nat
  BY <1>2, <1>4, <1>6, CleanShape DEF MemoryInv
<1>8. /\ e \in Version /\ e.line = op.line /\ e.status = "revoked" /\ e.scope = last.scope
      /\ e.proposal = last.proposal
  BY <1>2, <1>7 DEF Version
<1>9. RestsOnRules(m, v)
  BY <1>2, <1>6 DEF MemoryInv, Grounded, Versions
<1>10. /\ proposals[e.proposal] # None /\ Found(e.proposal) # {}
       /\ IsInjective(proposals[e.proposal].evidence) => Cited(e.proposal) \subseteq raw
       /\ \A n \in Cited(e.proposal) : n < last.line
  BY <1>6, <1>8, <1>9 DEF RestsOnRules
<1>11. \A n \in Cited(e.proposal) : n < op.line
  <2>1. e.proposal \in Proposal
    BY <1>8 DEF Version
  <2>2. \A n \in Cited(e.proposal) : n \in Nat
    BY <1>10, <2>1, CitedShape DEF MemoryInv
  <2> QED BY <1>2, <1>7, <1>10, <2>2
<1>12. \A n \in Cited(e.proposal) \cap raw : CanFlow(ledger[n].scope, e.scope)
  BY <1>2, <1>6, <1>8 DEF MemoryInv, ProposalInv
<1> HIDE DEF e, last, m
<1>13. /\ clean' \in [Memory -> Seq(Version)]
       /\ LineInv' /\ ProposalInv' /\ OvertakenInv' /\ Grounded' /\ LedgerRebuilds'
  BY <1>1, <1>2, <1>4, <1>8, <1>10, <1>11, <1>12, VersionInserted
<1>14. TypeOK' /\ OperationInv' /\ MissingInv'
  BY <1>1, <1>3, <1>13 DEF MemoryInv, TypeOK, OperationInv, MissingInv, Missing
<1> QED BY <1>13, <1>14 DEF MemoryInv

\* The second event of a promotion.
LEMMA AppendKeeps == ASSUME MemoryInv, AppendPromoted PROVE MemoryInv'
<1> DEFINE e == Event("promoted", ledger[op.line].scope, About, By, None)
           new == [op EXCEPT !.at = "record", !.line = Len(ledger) + 1]
<1>1. /\ op # None /\ op.at = "append" /\ ledger' = Append(ledger, e) /\ op' = new
      /\ UNCHANGED <<raw, proposals, clean, up, failures, unrecorded>>
  BY DEF AppendPromoted
<1>2. op.name = "promoted" /\ ledger[op.line].what = "review"
  BY <1>1 DEF MemoryInv, OperationInv
<1>3. /\ op \in Operation /\ up /\ op.line \in 1..Len(ledger) /\ Len(ledger) \in Nat
      /\ op.line \in Nat /\ ledger[op.line] \in Line /\ About \in Verdict
      /\ About.proposal \in Proposal
  BY <1>1, <1>2, ActingShape
<1>4. unrecorded = 0 => Missing = {}
  BY <1>1, ActingShape
<1>5. NextSequence \in Nat
  BY <1>3, SequenceBounded DEF MemoryInv
<1>6. e \in Line /\ e.what = "promoted" /\ e.about = About /\ e.key = None
      /\ e.sequence = NextSequence
  BY <1>3, <1>5 DEF Event, Line, Kind, By
<1>7. /\ new \in Operation /\ new # None /\ new.name = "promoted" /\ new.at = "record"
      /\ new.line = Len(ledger) + 1
  <2>1. Len(ledger) + 1 \in Nat
    BY <1>3
  <2>2. /\ new \in Operation /\ new.name = "promoted" /\ new.at = "record"
        /\ new.line = Len(ledger) + 1
    BY <1>2, <1>3, <2>1 DEF Operation
  <2> HIDE DEF new
  <2> QED BY <2>2, NoneAssumption
<1>8. /\ proposals[About.proposal] # None /\ proposals[About.proposal].decision = "pending"
      /\ \A n \in Cited(About.proposal) : n < op.line
      /\ HasEntry(About.proposal)
  BY <1>1, <1>2 DEF MemoryInv, OperationInv
<1>9. PICK p \in Proposal : p = About.proposal
  BY <1>3
<1>10. \A n \in Cited(p) : n \in Nat
  BY <1>8, <1>9, CitedShape DEF MemoryInv
<1> HIDE DEF e, new
<1>11. /\ ledger' \in Seq(Line) /\ Len(ledger') = Len(ledger) + 1 /\ ledger'[Len(ledger')] = e
       /\ raw' \subseteq 1..Len(ledger')
       /\ LineInv' /\ ProposalInv' /\ OvertakenInv' /\ Grounded' /\ LedgerRebuilds'
  BY <1>1, <1>3, <1>4, <1>6, LineAppended
<1>12. TypeOK'
  BY <1>1, <1>7, <1>11 DEF MemoryInv, TypeOK
<1>13. MissingInv'
  BY <1>1, <1>7 DEF MissingInv, Settled
<1>14. About' = About /\ op'.line = Len(ledger')
  BY <1>1, <1>6, <1>7, <1>11 DEF About
<1>15. HasEntry(p)'
  BY <1>1, <1>8, <1>9 DEF HasEntry, Versions
<1>16. \A n \in Cited(p) : n < Len(ledger')
  BY <1>3, <1>8, <1>9, <1>10, <1>11
<1>17. OperationInv'
  BY <1>1, <1>3, <1>6, <1>7, <1>8, <1>9, <1>11, <1>14, <1>15, <1>16 DEF OperationInv, Cited
<1> QED BY <1>11, <1>12, <1>13, <1>17 DEF MemoryInv

-----------------------------------------------------------------------------
LEMMA InitInv == Init => MemoryInv
<1> SUFFICES ASSUME Init PROVE MemoryInv
  OBVIOUS
<1>1. TypeOK
  BY DEF Init, TypeOK
<1>2. LineInv /\ OperationInv /\ ProposalInv /\ MissingInv /\ OvertakenInv /\ Grounded /\ LedgerRebuilds
  BY DEF Init, OvertakenInv, LineInv, OperationInv, ProposalInv, Versions, MissingInv, Missing, Grounded,
         LedgerRebuilds, Rebuildable
<1> QED BY <1>1, <1>2 DEF MemoryInv

LEMMA MemoryStep == MemoryInv /\ [Next]_vars => MemoryInv'
<1> SUFFICES ASSUME MemoryInv, [Next]_vars PROVE MemoryInv'
  OBVIOUS
<1>1. CASE UNCHANGED vars
  <2>1. TypeOK' /\ LineInv' /\ MissingInv' /\ LedgerRebuilds'
    BY SMTT(30), <1>1 DEF vars, MemoryInv, TypeOK, LineInv, MissingInv, Settled, Missing, LedgerRebuilds,
                Rebuildable
  <2>2. OperationInv' /\ ProposalInv'
    BY ZenonT(30), <1>1 DEF vars, MemoryInv, OperationInv, About, ProposalInv, Cited, HasEntry, Versions
  <2>3. Grounded'
    BY <1>1 DEF vars, MemoryInv, Grounded, RestsOnRules, Recorded, Found, Cited
  <2>4. OvertakenInv'
    <3>1. Missing' = Missing /\ Sequences' = Sequences /\ raw' = raw /\ ledger' = ledger
      BY <1>1 DEF vars, Missing, Sequences
    <3>2. NextSequence' = NextSequence
      BY <3>1 DEF NextSequence
    <3> QED BY <3>1, <3>2 DEF MemoryInv, OvertakenInv
  <2> QED BY <2>1, <2>2, <2>3, <2>4 DEF MemoryInv
<1> QED BY <1>1, RequestKeeps, RecordKeeps, SaveKeeps, DecideKeeps, PromoteKeeps, AppendKeeps,
           RevokeKeeps, EndKeeps, OpenKeeps DEF Next, Effect

\* The types and the invariant of the store hold in every state.
THEOREM MemoryInvariance == Spec => []MemoryInv
  BY InitInv, MemoryStep, PTL DEF Spec

\* capture() and review(): whatever crashes and exceptions left half done, every
\* version of a clean memory rests on an older review by another than the
\* proposer, or on a revocation, and on older evidence that is in SQLite: on one
\* event at least, and on all it cites unless it cites one twice.
THEOREM CleanIsGrounded == Spec => []Grounded
<1>1. MemoryInv => Grounded
  BY DEF MemoryInv
<1> QED BY <1>1, MemoryInvariance, PTL

\* ledger.py: unless an insert failed in a process that went on, the ledger
\* rebuilds SQLite after every crash, line by line.
THEOREM LedgerIsWhole == Spec => []LedgerRebuilds
<1>1. MemoryInv => LedgerRebuilds
  BY DEF MemoryInv
<1> QED BY <1>1, MemoryInvariance, PTL

\* Along _scope_can_flow() private evidence only reaches private entries of its
\* own owner, and permits() shows these to nobody else.
LEMMA FlowPermits ==
  ASSUME NEW s, NEW t, NEW r, CanFlow(s, t), Permits(t, r), s.visibility = "private"
  PROVE  Permits(s, r)
  BY DEF CanFlow, Permits

\* A requester is shown nothing that rests on the private evidence of another.
THEOREM PrivateStays == Spec => []PrivateStaysPrivate
<1>1. ASSUME MemoryInv, NEW r \in Scope, NEW m \in Retrieved(r),
             NEW n \in Cited(Current(m).proposal) \cap raw,
             ledger[n].scope.visibility = "private"
      PROVE  Permits(ledger[n].scope, r)
  <2>1. m \in Memory /\ clean[m] # <<>> /\ Permits(Current(m).scope, r)
    BY DEF Retrieved, Live
  <2>2. clean[m] \in Seq(Version)
    BY <1>1, <2>1, CleanShape DEF MemoryInv
  <2>3. Len(clean[m]) \in Versions(m)
    BY <2>1, <2>2 DEF Versions
  <2>4. CanFlow(ledger[n].scope, Current(m).scope)
    BY <1>1, <2>1, <2>3 DEF MemoryInv, ProposalInv, Current
  <2> QED BY <1>1, <2>1, <2>4, FlowPermits
<1>2. MemoryInv => PrivateStaysPrivate
  BY <1>1 DEF PrivateStaysPrivate
<1> QED BY <1>2, MemoryInvariance, PTL

\* A decision that was saved stands, and an approved proposal has its entry,
\* wherever the process died between the two.
THEOREM DecisionsAreFinal == Spec => DecisionsStand
<1>1. ASSUME MemoryInv, Next, NEW p \in Proposal, proposals[p] # None,
             proposals[p].decision # "pending"
      PROVE  /\ proposals'[p] = proposals[p]
             /\ proposals[p].decision = "approved" =>
                  \E v \in 1..Len(clean[Candidate[p].memory]) :
                    clean[Candidate[p].memory][v].proposal = p
  <2>1. proposals \in [Proposal -> Contract \cup {None}]
    BY <1>1 DEF MemoryInv, TypeOK
  <2>2. CASE SaveProposal
    <3>1. proposals[About.proposal] = None
      BY <1>1, <2>2 DEF SaveProposal, Acting, MemoryInv, OperationInv
    <3> QED BY <1>1, <2>1, <2>2, <3>1 DEF SaveProposal, MemoryInv, ProposalInv, HasEntry, Versions
  <2>3. CASE DecideAgainst \/ DecideFor
    <3>1. proposals[About.proposal].decision = "pending"
      BY <1>1, <2>3 DEF DecideAgainst, DecideFor, Acting, MemoryInv, OperationInv
    <3> QED BY <1>1, <2>1, <2>3, <3>1
            DEF DecideAgainst, DecideFor, Save, MemoryInv, ProposalInv, HasEntry, Versions
  <2>4. CASE UNCHANGED proposals
    BY <1>1, <2>4 DEF MemoryInv, ProposalInv, HasEntry, Versions
  <2> QED BY <1>1, <2>2, <2>3, <2>4
          DEF Next, Request, Capture, Propose, Review, Revoke, Start, RecordRow, Effect, Promote,
              AppendPromoted, SaveRevoked, Stop, Raise, Open
<1>2. MemoryInv /\ [Next]_vars =>
        [\A p \in Proposal :
           (proposals[p] # None /\ proposals[p].decision # "pending") =>
             /\ proposals'[p] = proposals[p]
             /\ proposals[p].decision = "approved" =>
                  \E v \in 1..Len(clean[Candidate[p].memory]) :
                    clean[Candidate[p].memory][v].proposal = p]_vars
  BY <1>1
<1> QED BY <1>2, MemoryInvariance, PTL DEF Spec, DecisionsStand

=============================================================================
