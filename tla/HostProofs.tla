----------------------------- MODULE HostProofs -----------------------------
(***************************************************************************)
(* What holds of the hosts that share a world, for any number of them.     *)
(*                                                                         *)
(* The ownership lease (OwnershipLease), for any owners, leases, TTL and   *)
(* time: its types; behind one coordination server exclusive ownership;    *)
(* and, unless rows are pruned, fencing tokens that only grow.  The        *)
(* leader's lease is such a lease: LeaderQuorum implements OwnershipLease, *)
(* so exclusive ownership carries over, and every holder was elected.      *)
(*                                                                         *)
(* The hosts' own lives (RuntimeHost): no lease outlives its host but      *)
(* those that a crash or a late heartbeat leaves behind.                   *)
(*                                                                         *)
(* The files of the world they serve (WorldFiles): the log keeps its word, *)
(* and no state has effects that the log lacks.                            *)
(***************************************************************************)
EXTENDS LeaderQuorum, RuntimeHost, WorldFiles,
        FiniteSetTheorems, SequenceTheorems, WellFoundedInduction, TLAPS

-----------------------------------------------------------------------------
(* The lease of a runtime.                                                 *)

\* What a host is granted is a lease and what the store records is a record.
LEMMA GrantType ==
  ASSUME TypeOK, NEW h \in Host, Grant(h)
  PROVE  TypeOK'
<1>1. NextToken \in Nat
  BY DEF NextToken, TypeOK, Record
<1>2. OwnerOf[h] \in OwnerId
  BY HostAssumption
<1>3. issued + 1 \in Nat /\ now + TTL \in Nat
  BY BoundAssumption DEF TypeOK
<1>4. rec' \in Record /\ rec'.lease = issued'
  BY <1>1, <1>2, <1>3 DEF Grant, Record
<1>5. grant'[h] \in Lease /\ grant'[h].lease = issued' /\ grant'[h].owner = OwnerOf[h]
  BY <1>1, <1>2, <1>3 DEF Grant, Lease, TypeOK
<1>6. \A g \in Host \ {h} : grant'[g] = grant[g]
  BY DEF Grant, TypeOK
<1>7. grant' \in [Host -> Lease \cup {None}]
  BY <1>5, <1>6 DEF Grant, TypeOK
<1>8. newest' \in [OwnerId -> Nat] /\ highest' \in Nat
  BY <1>1, <1>2, <1>3 DEF Grant, TypeOK, Larger
<1>9. \A g \in Host : grant'[g] # None =>
        grant'[g].lease <= issued' /\ grant'[g].owner = OwnerOf[g]
  <2>1. \A g \in Host \ {h} : grant[g] # None => grant[g].lease \in Nat
    BY DEF TypeOK, Lease
  <2> QED BY <2>1, <1>3, <1>5, <1>6 DEF Grant, TypeOK
<1>10. \A g \in Host : pending'[g] # None =>
         /\ ~Serial /\ grant'[g] # None
         /\ pending'[g].status # "expired" => pending'[g].lease = grant'[g].lease
  BY <1>6 DEF Grant, TypeOK
<1> QED BY <1>3, <1>4, <1>7, <1>8, <1>9, <1>10 DEF Grant, TypeOK

\* The record that renew or release makes of the one it read.
LEMMA RequiredType ==
  ASSUME TypeOK, NEW h \in Host, Required(h)
  PROVE  /\ rec \in Record /\ rec.lease <= issued /\ rec.lease \in Nat
         /\ rec.owner = OwnerOf[h] /\ rec.lease = grant[h].lease
         /\ rec.expires \in Nat /\ rec.token \in Nat
         /\ grant[h] \in Lease /\ pending[h] = None /\ grant[h] # None
  BY DEF Required, TypeOK, Active, Record, Lease

\* What a host keeps of its lease is a lease of the same number and owner.
LEMMA KeptType ==
  ASSUME TypeOK, NEW h \in Host, grant[h] # None, NEW r \in Record
  PROVE  /\ Kept(h, r) \in Lease \cup {None}
         /\ Kept(h, r) # None => /\ Kept(h, r).lease = grant[h].lease
                                 /\ Kept(h, r).owner = grant[h].owner
                                 /\ r.status # "expired" => Kept(h, r).expires = r.expires
  BY NoneAssumption DEF Kept, TypeOK, Lease, Record

\* A record keeps all but its status when it is marked.
LEMMA MarkedType ==
  ASSUME NEW r \in Record, NEW s \in {"active", "expired", "released"}
  PROVE  /\ Marked(r, s) \in Record /\ Marked(r, s).status = s
         /\ Marked(r, s).lease = r.lease /\ Marked(r, s).owner = r.owner
         /\ Marked(r, s).token = r.token /\ Marked(r, s).expires = r.expires
  BY DEF Marked, Record

\* The row after an UPDATE is a record of a lease that was issued.
LEMMA StoredType ==
  ASSUME TypeOK, NEW r \in Record, r.status # "expired" => r.lease <= issued
  PROVE  /\ Stored(r) \in Record \cup {None}
         /\ Stored(r) # None => Stored(r).lease <= issued
<1>1. rec # None => Marked(rec, "expired") \in Record /\ Marked(rec, "expired").lease = rec.lease
  BY MarkedType DEF TypeOK
<1> QED BY <1>1 DEF Stored, TypeOK

\* Writing a record made from the one that was read, now or later.
LEMMA UpdateType ==
  ASSUME TypeOK, NEW h \in Host, grant[h] # None, NEW r \in Record,
         r.lease <= issued, r.status # "expired" => r.lease = grant[h].lease,
         Update(h, r)
  PROVE  TypeOK'
<1>1. /\ Kept(h, r) \in Lease \cup {None}
      /\ Kept(h, r) # None => /\ Kept(h, r).lease = grant[h].lease
                              /\ Kept(h, r).owner = grant[h].owner
  BY KeptType
<1>2. /\ grant[h].lease <= issued
      /\ Stored(r) \in Record \cup {None} /\ (Stored(r) # None => Stored(r).lease <= issued)
  BY StoredType DEF TypeOK
<1>3. CASE Serial
  <2>1. grant' \in [Host -> Lease \cup {None}]
    BY <1>1, <1>3 DEF Update, TypeOK
  <2>2. \A g \in Host : grant'[g] = IF g = h THEN Kept(h, r) ELSE grant[g]
    BY <1>3 DEF Update, TypeOK
  <2>3. \A g \in Host : grant'[g] # None =>
          grant'[g].lease <= issued /\ grant'[g].owner = OwnerOf[g]
    BY <1>1, <1>2, <2>2 DEF TypeOK
  <2>4. \A g \in Host : pending'[g] = None
    BY <1>3 DEF Update, TypeOK
  <2> QED BY <1>2, <1>3, <2>1, <2>3, <2>4 DEF Update, TypeOK, history
<1>4. CASE ~Serial
  <2>1. pending' \in [Host -> Record \cup {None}]
    BY <1>4 DEF Update, TypeOK
  <2>2. \A g \in Host : pending'[g] # None =>
          /\ grant[g] # None
          /\ pending'[g].status # "expired" => pending'[g].lease = grant[g].lease
    BY <1>4 DEF Update, TypeOK
  <2> QED BY <1>2, <1>4, <2>1, <2>2 DEF Update, TypeOK, history
<1> QED BY <1>3, <1>4 DEF TypeOK

\* Every step of a host keeps the types.
LEMMA HostStepType ==
  ASSUME TypeOK, NEW h \in Host, HostStep(h)
  PROVE  TypeOK'
<1>1. CASE Acquire(h)
  BY <1>1, GrantType DEF Acquire
<1>2. CASE Recover(h)
  BY <1>2, GrantType DEF Recover
<1>3. CASE Lapse(h)
  <2> DEFINE r == Marked(rec, "expired")
  <2>1. grant[h] # None /\ Update(h, r) /\ rec \in Record /\ rec.lease <= issued
    BY <1>3 DEF Lapse, Active, TypeOK
  <2>2. r \in Record /\ r.lease <= issued /\ r.status = "expired"
    BY <2>1, MarkedType
  <2>3. HIDE DEF r
  <2> QED BY <2>1, <2>2, UpdateType
<1>4. CASE Renew(h)
  <2> DEFINE r == [owner |-> rec.owner, lease |-> rec.lease, expires |-> now + TTL,
                   token |-> rec.token, status |-> rec.status]
  <2>1. Required(h) /\ Update(h, r)
    BY <1>4 DEF Renew
  <2>2. now + TTL \in Nat
    BY BoundAssumption DEF TypeOK
  <2>3. r \in Record /\ r.lease = grant[h].lease /\ r.lease <= issued /\ grant[h] # None
    BY <2>1, <2>2, RequiredType DEF Record
  <2>4. HIDE DEF r
  <2> QED BY <2>1, <2>3, UpdateType
<1>5. CASE Release(h)
  <2> DEFINE r == Marked(rec, "released")
  <2>1. Required(h) /\ Update(h, r)
    BY <1>5 DEF Release
  <2>2. r \in Record /\ r.lease = grant[h].lease /\ r.lease <= issued /\ grant[h] # None
    BY <2>1, RequiredType, MarkedType
  <2>3. HIDE DEF r
  <2> QED BY <2>1, <2>2, UpdateType
<1>6. CASE Write(h)
  <2>1. /\ pending[h] \in Record /\ grant[h] # None /\ grant[h] \in Lease
        /\ pending[h].status # "expired" => pending[h].lease = grant[h].lease
        /\ grant[h].lease <= issued
    BY <1>6 DEF Write, TypeOK
  <2>2. rec' \in Record \cup {None} /\ (rec' # None => rec'.lease <= issued)
    BY <1>6, <2>1, StoredType DEF Write
  <2>3. /\ Kept(h, pending[h]) \in Lease \cup {None}
        /\ Kept(h, pending[h]) # None => /\ Kept(h, pending[h]).lease = grant[h].lease
                                         /\ Kept(h, pending[h]).owner = grant[h].owner
    BY <2>1, KeptType
  <2>4. \A g \in Host : grant'[g] = IF g = h THEN Kept(h, pending[h]) ELSE grant[g]
    BY <1>6 DEF Write, TypeOK
  <2>5. grant' \in [Host -> Lease \cup {None}]
    BY <1>6, <2>3 DEF Write, TypeOK
  <2>6. \A g \in Host : grant'[g] # None =>
          grant'[g].lease <= issued /\ grant'[g].owner = OwnerOf[g]
    BY <2>1, <2>3, <2>4 DEF TypeOK
  <2>7. pending' \in [Host -> Record \cup {None}]
    BY <1>6 DEF Write, TypeOK
  <2>8. \A g \in Host : pending'[g] # None => g # h /\ pending'[g] = pending[g]
    BY <1>6 DEF Write, TypeOK
  <2>9. \A g \in Host : pending'[g] # None =>
          /\ ~Serial /\ grant'[g] # None
          /\ pending'[g].status # "expired" => pending'[g].lease = grant'[g].lease
    BY <2>4, <2>8 DEF TypeOK
  <2> QED BY <1>6, <2>2, <2>5, <2>6, <2>7, <2>9 DEF Write, TypeOK, history
<1>7. CASE Crash(h)
  BY <1>7 DEF Crash, TypeOK, history
<1> QED BY <1>1, <1>2, <1>3, <1>4, <1>5, <1>6, <1>7 DEF HostStep

\* Every step keeps the types.
LEMMA TypeStep == TypeOK /\ [Next]_vars => TypeOK'
<1> SUFFICES ASSUME TypeOK, [Next]_vars PROVE TypeOK'
  OBVIOUS
<1>1. CASE Tick
  BY <1>1 DEF Tick, TypeOK, history
<1>2. CASE Prune
  BY <1>2 DEF Prune, TypeOK, history
<1>3. CASE \E h \in Host : HostStep(h)
  BY <1>3, HostStepType
<1>4. CASE UNCHANGED vars
  BY <1>4 DEF vars, TypeOK
<1> QED BY <1>1, <1>2, <1>3, <1>4 DEF Next

\* Types, whether hosts interleave or not.
THEOREM LeaseTyping == Spec => []TypeOK
<1>1. Init => TypeOK
  BY DEF Init, TypeOK
<1> QED BY <1>1, TypeStep, PTL DEF Spec

-----------------------------------------------------------------------------
(* Exclusive ownership.                                                    *)

\* A new lease: its host owns the runtime, and no host of another owner did.
LEMMA GrantInv ==
  ASSUME LeaseInv, NEW h \in Host, Grant(h), MayRecover(h)
  PROVE  LeasesApart' /\ OwnedIsRecorded'
<1>1. \A g \in Host \ {h} : grant'[g] = grant[g]
  BY DEF Grant, LeaseInv, TypeOK
<1>2. /\ grant'[h] = [owner |-> OwnerOf[h], lease |-> issued + 1, expires |-> now + TTL,
                      token |-> NextToken]
      /\ rec' = [owner |-> OwnerOf[h], lease |-> issued + 1, expires |-> now + TTL,
                 token |-> NextToken, status |-> "active"]
      /\ issued' = issued + 1 /\ now' = now
  BY DEF Grant, LeaseInv, TypeOK
<1>3. \A o \in OwnerId : newest'[o] = IF o = OwnerOf[h] THEN issued + 1 ELSE newest[o]
  BY HostAssumption DEF Grant, LeaseInv, TypeOK
<1>4. issued \in Nat /\ now + TTL \in Nat
  BY BoundAssumption DEF LeaseInv, TypeOK
<1>5. \A g \in Host : grant[g] # None =>
        /\ grant[g].lease \in Nat /\ grant[g].lease <= issued /\ grant[g].expires \in Nat
  BY DEF LeaseInv, TypeOK, Lease
<1>6. LeasesApart'
  <2>1. \A o \in OwnerId : newest'[o] <= issued'
    BY <1>2, <1>3, <1>4 DEF LeaseInv, LeasesApart, TypeOK
  <2>2. \A g \in Host \ {h} : grant'[g] # None => grant'[g].lease # issued + 1
    BY <1>1, <1>4, <1>5
  <2>3. \A f, g \in Host :
          (grant'[f] # None /\ grant'[g] # None /\ grant'[f].lease = grant'[g].lease) => f = g
    BY <1>1, <1>2, <2>2 DEF LeaseInv, LeasesApart
  <2> QED BY <2>1, <2>3 DEF LeasesApart
<1>7. ASSUME NEW g \in Host, g # h
      PROVE  ~Owns(g)'
  <2> SUFFICES ASSUME Owns(g)' PROVE FALSE
    OBVIOUS
  <2>1. /\ grant[g] # None /\ grant[g].expires > now
        /\ grant[g].lease = newest'[OwnerOf[g]]
    BY <1>1, <1>2, <1>7 DEF Owns
  <2>2. OwnerOf[g] \in OwnerId
    BY HostAssumption
  <2>3. CASE OwnerOf[g] = OwnerOf[h]
    BY <1>3, <1>4, <1>5, <2>1, <2>2, <2>3
  <2>4. CASE OwnerOf[g] # OwnerOf[h]
    <3>1. Owns(g)
      BY <1>3, <2>1, <2>2, <2>4 DEF Owns
    <3>2. Active /\ rec.owner = OwnerOf[g] /\ rec.expires >= grant[g].expires
      BY <3>1 DEF LeaseInv, OwnedIsRecorded
    <3>3. rec.expires \in Nat /\ now \in Nat /\ grant[g].expires \in Nat
      BY <1>5, <2>1, <3>2 DEF LeaseInv, TypeOK, Record, Active
    <3>4. ~Free
      BY <2>1, <3>2, <3>3 DEF Free
    <3> QED BY <2>4, <3>2, <3>4 DEF MayRecover
  <2> QED BY <2>3, <2>4
<1>8. OwnedIsRecorded'
  <2>1. ASSUME NEW g \in Host, Owns(g)'
        PROVE  /\ Active' /\ rec'.owner = OwnerOf[g] /\ rec'.lease = grant'[g].lease
               /\ rec'.expires >= grant'[g].expires
    <3>1. g = h
      BY <1>7, <2>1
    <3>2. rec' # None
      <4>1. NextToken \in Nat /\ OwnerOf[h] \in OwnerId
        BY HostAssumption DEF NextToken, LeaseInv, TypeOK, Record
      <4>2. rec' \in Record
        BY <1>2, <1>4, <4>1 DEF Record
      <4> QED BY <4>2, NoneAssumption
    <3> QED BY <1>2, <1>4, <3>1, <3>2 DEF Active
  <2> QED BY <2>1 DEF OwnedIsRecorded
<1> QED BY <1>6, <1>8

\* A host that renews its lease owns no less than before, one that releases it
\* owns nothing, and no other host is concerned.
LEMMA UpdateInv ==
  ASSUME LeaseInv, Serial, NEW h \in Host, Required(h), NEW r \in Record,
         r.lease = rec.lease, r.owner = rec.owner, r.status \in {"active", "released"},
         Update(h, r)
  PROVE  LeasesApart' /\ OwnedIsRecorded'
<1>1. /\ rec' = r /\ now' = now /\ issued' = issued /\ newest' = newest
      /\ \A g \in Host : grant'[g] = IF g = h THEN Kept(h, r) ELSE grant[g]
  BY DEF Update, Stored, Required, Active, history, LeaseInv, TypeOK
<1>2. /\ grant[h] # None /\ rec.owner = OwnerOf[h] /\ rec.lease = grant[h].lease
      /\ rec.lease \in Nat
  BY RequiredType DEF LeaseInv
<1>3. /\ Kept(h, r) # None => /\ Kept(h, r).lease = grant[h].lease
                              /\ Kept(h, r).expires = r.expires
                              /\ r.status = "active"
  BY <1>2, KeptType DEF LeaseInv, Kept
<1>4. LeasesApart'
  BY <1>1, <1>2, <1>3 DEF LeaseInv, LeasesApart
<1>5. ASSUME NEW g \in Host, Owns(g)'
      PROVE  /\ Active' /\ rec'.owner = OwnerOf[g] /\ rec'.lease = grant'[g].lease
             /\ rec'.expires >= grant'[g].expires
  <2>1. CASE g = h
    <3>1. Kept(h, r) # None
      BY <1>1, <1>5, <2>1 DEF Owns
    <3>2. r # None /\ r.expires \in Nat
      BY NoneAssumption DEF Record
    <3> QED BY <1>1, <1>2, <1>3, <2>1, <3>1, <3>2 DEF Active
  <2>2. CASE g # h
    <3>1. Owns(g)
      BY <1>1, <1>5, <2>2 DEF Owns
    <3>2. rec.lease = grant[g].lease /\ grant[g] # None
      BY <3>1 DEF LeaseInv, OwnedIsRecorded, Owns
    <3> QED BY <1>2, <2>2, <3>2 DEF LeaseInv, LeasesApart
  <2> QED BY <2>1, <2>2
<1> QED BY <1>4, <1>5 DEF OwnedIsRecorded

\* Steps that give no host more than it had, and leave the record of an
\* unexpired lease alone.
LEMMA OthersInv ==
  ASSUME LeaseInv, NEW t \in Nat, now <= t, now' = t, issued' = issued, newest' = newest,
         \A g \in Host : grant'[g] \in {grant[g], None},
         Active /\ rec.expires > now => rec' = rec
  PROVE  LeasesApart' /\ OwnedIsRecorded'
<1>1. LeasesApart'
  BY DEF LeaseInv, LeasesApart
<1>2. ASSUME NEW g \in Host, Owns(g)'
      PROVE  /\ Active' /\ rec'.owner = OwnerOf[g] /\ rec'.lease = grant'[g].lease
             /\ rec'.expires >= grant'[g].expires
  <2>1. grant'[g] = grant[g] /\ grant[g] # None
    BY <1>2 DEF Owns
  <2>2. grant[g].expires \in Nat /\ now \in Nat
    BY <2>1 DEF LeaseInv, TypeOK, Lease
  <2>3. Owns(g)
    BY <1>2, <2>1, <2>2 DEF Owns
  <2>4. Active /\ rec.owner = OwnerOf[g] /\ rec.lease = grant[g].lease
        /\ rec.expires >= grant[g].expires
    BY <2>3 DEF LeaseInv, OwnedIsRecorded
  <2>5. rec.expires \in Nat
    BY <2>4 DEF LeaseInv, TypeOK, Active, Record
  <2>6. rec' = rec
    BY <2>2, <2>3, <2>4, <2>5 DEF Owns
  <2> QED BY <2>1, <2>4, <2>6 DEF Active
<1> QED BY <1>1, <1>2 DEF OwnedIsRecorded

\* Every step keeps the invariant if renew and release do not interleave.
LEMMA LeaseInvStep ==
  ASSUME Serial
  PROVE  LeaseInv /\ [Next]_vars => LeaseInv'
<1> SUFFICES ASSUME LeaseInv, [Next]_vars PROVE LeaseInv'
  OBVIOUS
<1>1. TypeOK'
  BY TypeStep DEF LeaseInv
<1>2. now \in Nat /\ now + 1 \in Nat
  BY DEF LeaseInv, TypeOK
<1>3. CASE Tick
  BY <1>1, <1>2, <1>3, OthersInv DEF Tick, history, LeaseInv
<1>4. CASE Prune
  BY <1>1, <1>2, <1>4, OthersInv DEF Prune, history, Active, LeaseInv
<1>5. ASSUME NEW h \in Host, HostStep(h)
      PROVE  LeaseInv'
  <2>1. CASE Acquire(h)
    BY <1>1, <2>1, GrantInv DEF Acquire, MayRecover, LeaseInv
  <2>2. CASE Recover(h)
    BY <1>1, <2>2, GrantInv DEF Recover, LeaseInv
  <2>3. CASE Lapse(h)
    <3>1. ~(rec.expires > now)
      BY <2>3 DEF Lapse, LeaseInv, TypeOK, Active, Record
    <3>2. \A g \in Host : grant'[g] = grant[g]
      BY <2>3, MarkedType DEF Lapse, Update, Kept, Active, LeaseInv, TypeOK
    <3> QED BY <1>1, <1>2, <2>3, <3>1, <3>2, OthersInv DEF Lapse, Update, history, LeaseInv
  <2>4. CASE Renew(h)
    <3> DEFINE r == [owner |-> rec.owner, lease |-> rec.lease, expires |-> now + TTL,
                     token |-> rec.token, status |-> rec.status]
    <3>1. Required(h) /\ Update(h, r)
      BY <2>4 DEF Renew
    <3>2. now + TTL \in Nat
      BY <1>2, BoundAssumption
    <3>3. r \in Record /\ r.lease = rec.lease /\ r.owner = rec.owner /\ r.status = "active"
      BY <3>1, <3>2, RequiredType DEF Record, LeaseInv, Required, Active
    <3>4. HIDE DEF r
    <3> QED BY <1>1, <3>1, <3>3, UpdateInv DEF LeaseInv
  <2>5. CASE Release(h)
    <3> DEFINE r == Marked(rec, "released")
    <3>1. Required(h) /\ Update(h, r)
      BY <2>5 DEF Release
    <3>2. r \in Record /\ r.lease = rec.lease /\ r.owner = rec.owner /\ r.status = "released"
      BY <3>1, RequiredType, MarkedType DEF LeaseInv
    <3>3. HIDE DEF r
    <3> QED BY <1>1, <3>1, <3>2, UpdateInv DEF LeaseInv
  <2>6. CASE Write(h)
    BY <2>6 DEF Write, LeaseInv, TypeOK
  <2>7. CASE Crash(h)
    <3>1. \A g \in Host : grant'[g] \in {grant[g], None}
      BY <2>7 DEF Crash, LeaseInv, TypeOK
    <3> QED BY <1>1, <1>2, <2>7, <3>1, OthersInv DEF Crash, history, LeaseInv
  <2> QED BY <1>5, <2>1, <2>2, <2>3, <2>4, <2>5, <2>6, <2>7 DEF HostStep
<1>6. CASE UNCHANGED vars
  BY <1>1, <1>2, <1>6, OthersInv DEF vars, LeaseInv
<1> QED BY <1>3, <1>4, <1>5, <1>6 DEF Next

\* The record of a lease that is owned is that lease's and active, behind one
\* coordination server.
THEOREM LeaseInvariance ==
  ASSUME Serial
  PROVE  Spec => []LeaseInv
<1>1. Init => LeaseInv
  BY DEF Init, LeaseInv, TypeOK, LeasesApart, OwnedIsRecorded, Owns
<1>2. LeaseInv /\ [Next]_vars => LeaseInv'
  BY LeaseInvStep
<1> QED BY <1>1, <1>2, PTL DEF Spec

\* Behind one coordination server hosts of different owners never both own the
\* runtime, however many there are and whatever the TTL is.
THEOREM Exclusive ==
  ASSUME Serial
  PROVE  Spec => []ExclusiveOwnership
<1>1. LeaseInv => ExclusiveOwnership
  BY DEF LeaseInv, OwnedIsRecorded, ExclusiveOwnership
<1>2. Spec => []LeaseInv
  BY LeaseInvariance
<1> QED BY <1>1, <1>2, PTL

-----------------------------------------------------------------------------
(* Fencing.                                                                *)

\* While no row is deleted, the record carries the highest token.
LEMMA HighestStep ==
  ASSUME Serial, ~Prunes
  PROVE  TypeOK /\ RecordHasHighest /\ [Next]_vars => RecordHasHighest'
<1> SUFFICES ASSUME TypeOK, RecordHasHighest, [Next]_vars PROVE RecordHasHighest'
  OBVIOUS
<1>1. CASE Tick
  BY <1>1 DEF Tick, RecordHasHighest, history
<1>2. CASE Prune
  BY <1>2 DEF Prune
<1>3. ASSUME NEW h \in Host, HostStep(h)
      PROVE  RecordHasHighest'
  <2>1. CASE Grant(h)
    <3>1. NextToken \in Nat /\ NextToken > highest /\ highest \in Nat
      BY DEF NextToken, RecordHasHighest, TypeOK, Record
    <3>2. highest' = NextToken /\ rec'.token = NextToken
      BY <2>1, <3>1 DEF Grant, Larger
    <3>3. OwnerOf[h] \in OwnerId /\ issued + 1 \in Nat /\ now + TTL \in Nat
      BY HostAssumption, BoundAssumption DEF TypeOK
    <3>4. rec' \in Record
      BY <2>1, <3>1, <3>3 DEF Grant, Record
    <3> QED BY <3>2, <3>4, NoneAssumption DEF RecordHasHighest
  <2>2. CASE Lapse(h)
    <3>1. rec # None /\ rec \in Record /\ rec.status = "active"
      BY <2>2 DEF Lapse, Active, TypeOK
    <3>2. rec' = Marked(rec, "expired") /\ highest' = highest
      BY <2>2, <3>1, MarkedType DEF Lapse, Update, Stored, Active, history
    <3>3. rec'.token = rec.token /\ rec' \in Record
      BY <3>1, <3>2, MarkedType
    <3> QED BY <3>1, <3>2, <3>3, NoneAssumption DEF RecordHasHighest
  <2>3. CASE Renew(h)
    <3>1. rec # None /\ rec \in Record
      BY <2>3, RequiredType DEF Renew, Required, Active
    <3>2. now + TTL \in Nat
      BY BoundAssumption DEF TypeOK
    <3>3. rec'.token = rec.token /\ rec' \in Record /\ highest' = highest
      BY <2>3, <3>1, <3>2 DEF Renew, Required, Active, Update, Stored, history, Record
    <3> QED BY <3>1, <3>3, NoneAssumption DEF RecordHasHighest
  <2>4. CASE Release(h)
    <3>1. rec # None /\ rec \in Record
      BY <2>4, RequiredType DEF Release, Required, Active
    <3>2. rec' = Marked(rec, "released") /\ highest' = highest
      BY <2>4, <3>1, MarkedType DEF Release, Update, Stored, history
    <3>3. rec'.token = rec.token /\ rec' \in Record
      BY <3>1, <3>2, MarkedType
    <3> QED BY <3>1, <3>2, <3>3, NoneAssumption DEF RecordHasHighest
  <2>5. CASE Write(h)
    BY <2>5 DEF Write, TypeOK
  <2>6. CASE Crash(h)
    BY <2>6 DEF Crash, history, RecordHasHighest
  <2> QED BY <1>3, <2>1, <2>2, <2>3, <2>4, <2>5, <2>6 DEF HostStep, Acquire, Recover
<1>4. CASE UNCHANGED vars
  BY <1>4 DEF vars, RecordHasHighest
<1> QED BY <1>1, <1>2, <1>3, <1>4 DEF Next

\* Behind one coordination server that never prunes, each lease has a higher
\* fencing token than every lease before it.
THEOREM Fencing ==
  ASSUME Serial, ~Prunes
  PROVE  Spec => FencingGrows
<1>1. Init => TypeOK /\ RecordHasHighest
  BY DEF Init, TypeOK, RecordHasHighest
<1>2. TypeOK /\ RecordHasHighest /\ [Next]_vars => TypeOK' /\ RecordHasHighest'
  BY TypeStep, HighestStep
<1>3. ASSUME TypeOK, RecordHasHighest, [Next]_vars, NEW h \in Host,
             grant'[h] # None, issued' > issued, grant'[h].lease = issued'
      PROVE  grant'[h].token > highest
  <2>1. PICK g \in Host : Grant(g)
    BY <1>3 DEF Next, HostStep, Acquire, Recover, Lapse, Renew, Release, Update, Write,
                Crash, Tick, Prune, history, vars, TypeOK
  <2>2. grant'[g] = [owner |-> OwnerOf[g], lease |-> issued + 1, expires |-> now + TTL,
                     token |-> NextToken] /\ issued' = issued + 1
    BY <1>3, <2>1 DEF Grant, TypeOK
  <2>3. NextToken > highest
    BY <1>3 DEF NextToken, RecordHasHighest, TypeOK, Record
  <2>4. h = g
    <3>1. h # g => grant'[h] = grant[h]
      BY <1>3, <2>1 DEF Grant, TypeOK
    <3>2. grant[h] # None => grant[h].lease \in Nat /\ grant[h].lease <= issued /\ issued \in Nat
      BY <1>3 DEF TypeOK, Lease
    <3> QED BY <1>3, <2>2, <3>1, <3>2
  <2> QED BY <2>2, <2>3, <2>4
<1>4. TypeOK /\ RecordHasHighest /\ [Next]_vars =>
        [ \A h \in Host :
            (grant'[h] # None /\ issued' > issued /\ grant'[h].lease = issued')
              => grant'[h].token > highest ]_vars
  BY <1>3
<1> QED BY <1>1, <1>2, <1>4, PTL DEF Spec, FencingGrows


-----------------------------------------------------------------------------
(* The lease of a leader.                                                  *)

LEMMA StepIsLeaseStep == [LeaderNext]_leaderVars => [Next]_vars
<1> SUFFICES ASSUME [LeaderNext]_leaderVars PROVE [Next]_vars
  OBVIOUS
<1>1. CASE Tick
  BY <1>1 DEF Next
<1>2. ASSUME NEW h \in Host, OpenTerm(h) PROVE UNCHANGED vars
  BY <1>2 DEF OpenTerm, NewTerm
<1>3. ASSUME NEW h \in Host, AcquireLeader(h) \/ KeepLease(h) PROVE Next
  BY <1>3 DEF AcquireLeader, KeepLease, Next, HostStep
<1>4. ASSUME NEW h \in Host, NEW t \in Term, Vote(h, t) PROVE UNCHANGED vars
  BY <1>4 DEF Vote, RecordVote
<1>5. CASE UNCHANGED leaderVars
  BY <1>5 DEF leaderVars
<1> QED
  BY <1>1, <1>2, <1>3, <1>4, <1>5 DEF LeaderNext

\* Every behavior of the leader's lease is one of a runtime's lease.
THEOREM LeaderIsLease == LeaderSpec => Spec
<1>1. LeaderInit => Init
  BY DEF LeaderInit
<1> QED
  BY <1>1, StepIsLeaseStep, PTL DEF LeaderSpec, Spec

\* Never do two leaders of different owners hold the lease, by their own
\* clocks: hosts go through a coordination server.
THEOREM OneLeader ==
  ASSUME Serial
  PROVE  LeaderSpec => []ExclusiveOwnership
BY Exclusive, LeaderIsLease, PTL

-----------------------------------------------------------------------------
LEMMA Quorums == MaxTerms \in Nat /\ IsFiniteSet(Member) /\ QuorumSize \in Nat
<1>1. Cardinality(Member) \in Nat
  BY QuorumAssumption, FS_CardinalityType
<1> QED
  BY <1>1, QuorumAssumption

\* More votes are no fewer.
LEMMA MoreVotes ==
  ASSUME NEW V \in SUBSET Member, NEW W \in SUBSET Member, V \subseteq W,
         Cardinality(V) >= QuorumSize
  PROVE  Cardinality(W) >= QuorumSize
<1>1. IsFiniteSet(W)
  BY Quorums, FS_Subset
<1>2. Cardinality(V) <= Cardinality(W) /\ IsFiniteSet(V)
  BY <1>1, FS_Subset
<1>3. Cardinality(V) \in Nat /\ Cardinality(W) \in Nat
  BY <1>1, <1>2, FS_CardinalityType
<1> QED
  BY <1>2, <1>3, Quorums

\* Terms and votes are only added.
LEMMA VotesStand ==
  ASSUME QuorumOK, [LeaderNext]_leaderVars
  PROVE  /\ QuorumOK'
         /\ opened <= opened'
         /\ \A t \in Term : t <= opened => candidate'[t] = candidate[t]
         /\ \A t \in Term : votes[t] \subseteq votes'[t]
<1>1. ASSUME UNCHANGED quorum
      PROVE  /\ QuorumOK' /\ opened <= opened'
             /\ \A t \in Term : t <= opened => candidate'[t] = candidate[t]
             /\ \A t \in Term : votes[t] \subseteq votes'[t]
  BY <1>1, Quorums DEF quorum, QuorumOK
<1>2. ASSUME NEW h \in Host, OpenTerm(h)
      PROVE  /\ QuorumOK' /\ opened <= opened'
             /\ \A t \in Term : t <= opened => candidate'[t] = candidate[t]
             /\ \A t \in Term : votes[t] \subseteq votes'[t]
  <2>1. opened + 1 \in Term /\ opened' = opened + 1 /\ opened' \in 0..MaxTerms
    BY <1>2, Quorums DEF OpenTerm, NewTerm, QuorumOK, Term
  <2>2. \A t \in Term : t # opened + 1 => candidate'[t] = candidate[t]
    BY <1>2 DEF OpenTerm, NewTerm, QuorumOK
  <2>3. candidate' \in [Term -> Member \cup {None}] /\ votes' = votes
    BY <1>2 DEF OpenTerm, NewTerm, QuorumOK
  <2>4. \A t \in Term : t > opened' => candidate'[t] = None /\ votes'[t] = {}
    BY <2>1, <2>2, <2>3, Quorums DEF QuorumOK, Term
  <2>5. \A t \in Term : t <= opened => candidate'[t] = candidate[t]
    BY <2>1, <2>2, Quorums DEF QuorumOK, Term
  <2>6. QuorumOK'
    BY <2>1, <2>3, <2>4 DEF QuorumOK
  <2> QED
    BY <2>1, <2>3, <2>5, <2>6, Quorums DEF QuorumOK
<1>3. ASSUME NEW h \in Host, NEW s \in Term, Vote(h, s)
      PROVE  /\ QuorumOK' /\ opened <= opened'
             /\ \A t \in Term : t <= opened => candidate'[t] = candidate[t]
             /\ \A t \in Term : votes[t] \subseteq votes'[t]
  <2>1. votes' \in [Term -> SUBSET Member]
    BY <1>3 DEF Vote, RecordVote, QuorumOK
  <2>2. \A t \in Term : t > opened => votes'[t] = votes[t]
    BY <1>3, Quorums DEF Vote, RecordVote, QuorumOK, Term
  <2>3. \A t \in Term : votes[t] \subseteq votes'[t]
    BY <1>3 DEF Vote, RecordVote, QuorumOK
  <2> QED
    BY <1>3, <2>1, <2>2, <2>3, Quorums DEF Vote, RecordVote, QuorumOK
<1> QED
  BY <1>1, <1>2, <1>3 DEF LeaderNext, AcquireLeader, KeepLease, leaderVars

\* An election stands.
LEMMA StillElected ==
  ASSUME QuorumOK, [LeaderNext]_leaderVars, NEW o, Elected(o)
  PROVE  Elected(o)'
<1> PICK t \in Term : t <= opened /\ candidate[t] = o /\ Cardinality(votes[t]) >= QuorumSize
  BY DEF Elected
<1>1. t <= opened' /\ candidate'[t] = o
  <2>1. opened \in Nat /\ opened' \in Nat /\ t \in Nat
    BY VotesStand, Quorums DEF QuorumOK, Term
  <2> QED
    BY <2>1, VotesStand
<1>2. Cardinality(votes'[t]) >= QuorumSize
  BY VotesStand, MoreVotes DEF QuorumOK
<1> QED
  BY <1>1, <1>2 DEF Elected

\* A host that has a lease after the step had one before, or was elected.
LEMMA HoldersElected ==
  ASSUME TypeOK, LeadersElected, [LeaderNext]_leaderVars, NEW h \in Host, grant'[h] # None
  PROVE  Elected(OwnerOf[h])
<1> USE DEF LeadersElected
<1>1. CASE grant[h] # None
  BY <1>1
<1>2. CASE grant[h] = None
  <2>1. pending[h] = None
    BY <1>2 DEF TypeOK
  <2>2. ASSUME NEW g \in Host, KeepLease(g) PROVE grant'[h] = grant[h]
    BY <1>2, <2>1, <2>2
    DEF KeepLease, Lapse, Renew, Release, Crash, Required, Update, TypeOK
  <2>3. ASSUME NEW g \in Host, AcquireLeader(g) PROVE Elected(OwnerOf[h])
    <3>1. g = h
      BY <1>2, <2>3 DEF AcquireLeader, Acquire, Recover, Grant, TypeOK
    <3> QED
      BY <2>3, <3>1 DEF AcquireLeader, HasQuorum, Elected
  <2>4. ASSUME UNCHANGED grant PROVE FALSE
    BY <1>2, <2>4
  <2> QED
    BY <2>2, <2>3, <2>4, <1>2
    DEF LeaderNext, leaderVars, vars, Tick, OpenTerm, Vote
<1> QED
  BY <1>1, <1>2

\* Whoever holds the leader's lease was elected: a quorum voted in a term of
\* which it is the candidate.
THEOREM LeadersWereElected == LeaderSpec => []LeadersElected
<1>1. LeaderInit => LeadersElected
  BY Quorums DEF LeaderInit, Init, LeadersElected, QuorumOK
<1>2. TypeOK /\ LeadersElected /\ [LeaderNext]_leaderVars => LeadersElected'
  <2> SUFFICES ASSUME TypeOK, LeadersElected, [LeaderNext]_leaderVars PROVE LeadersElected'
    OBVIOUS
  <2>1. QuorumOK'
    BY VotesStand DEF LeadersElected
  <2>2. ASSUME NEW h \in Host, grant'[h] # None PROVE Elected(OwnerOf[h])'
    BY <2>2, HoldersElected, StillElected DEF LeadersElected
  <2> QED
    BY <2>1, <2>2 DEF LeadersElected
<1>3. LeaderSpec => []TypeOK
  BY LeaderIsLease, LeaseTyping, PTL
<1> QED
  BY <1>1, <1>2, <1>3, PTL DEF LeaderSpec

-----------------------------------------------------------------------------
(* The lists and sequences of RuntimeHost.                                 *)

\* A set of naturals that has a member has a least one.
LEMMA Least == ASSUME NEW S \in SUBSET Nat, S # {} PROVE \E m \in S : \A i \in S : m <= i
<1> DEFINE R == OpToRel(<, Nat)
<1>1. IsWellFoundedOn(R, Nat)
  BY ZenonT(30), NatLessThanWellFounded
<1>2. \A i, m \in Nat : i < m => <<i, m>> \in R
  BY DEF OpToRel
<1> HIDE DEF R
<1>3. PICK m \in S : \A i \in S : <<i, m>> \notin R
  BY <1>1, WFMin
<1>4. m \in Nat /\ \A i \in S : i \in Nat /\ ~(i < m)
  BY <1>2, <1>3
<1> QED BY <1>4

\* f[i] is what is listed of the first i members of s.
Lists(f, n, s) ==
  /\ f \in [0 .. n -> Seq(World)] /\ f[0] = <<>>
  /\ \A i \in 1 .. n : f[i] = IF bound[s[i]] # "off" THEN Append(f[i - 1], s[i]) ELSE f[i - 1]

\* There is such a function for every beginning of s.
LEMMA ListsExist ==
  ASSUME NEW s \in Seq(World), NEW n \in 0 .. Len(s)
  PROVE  \E f : Lists(f, n, s)
<1> DEFINE Bad == {k \in 0 .. Len(s) : ~ \E f : Lists(f, k, s)}
<1> SUFFICES ASSUME Bad # {} PROVE FALSE
  OBVIOUS
<1>1. PICK k \in Bad : \A i \in Bad : k <= i
  <2>1. Bad \in SUBSET Nat
    OBVIOUS
  <2> HIDE DEF Bad
  <2> QED BY <2>1, Least
<1>2. k # 0
  <2> DEFINE f == [i \in 0 .. 0 |-> <<>>]
  <2>1. Lists(f, 0, s)
    BY DEF Lists
  <2> QED BY <2>1
<1>3. k \in 1 .. Len(s) /\ k - 1 \in 0 .. Len(s) /\ k - 1 \notin Bad
  BY <1>1, <1>2
<1>4. PICK f : Lists(f, k - 1, s)
  BY <1>3
<1> DEFINE v == IF bound[s[k]] # "off" THEN Append(f[k - 1], s[k]) ELSE f[k - 1]
           g == [i \in 0 .. k |-> IF i = k THEN v ELSE f[i]]
<1>5. s[k] \in World /\ f[k - 1] \in Seq(World)
  BY <1>3, <1>4 DEF Lists
<1>6. v \in Seq(World)
  BY <1>5
<1>7. Lists(g, k, s)
  <2>1. \A i \in 0 .. k : i = k \/ i \in 0 .. k - 1
    BY <1>3
  <2>2. g \in [0 .. k -> Seq(World)]
    <3> HIDE DEF v
    <3> QED BY <1>4, <1>6, <2>1 DEF Lists
  <2>3. 0 \in 0 .. k /\ 0 # k /\ g[0] = <<>>
    BY <1>3, <1>4 DEF Lists
  <2>4. ASSUME NEW i \in 1 .. k
        PROVE  g[i] = IF bound[s[i]] # "off" THEN Append(g[i - 1], s[i]) ELSE g[i - 1]
    <3>1. i \in 0 .. k /\ i - 1 \in 0 .. k /\ i - 1 # k /\ k \in Nat
      BY <1>3
    <3>2. g[i - 1] = f[i - 1] /\ g[i] = IF i = k THEN v ELSE f[i]
      BY <3>1
    <3>3. i # k => i \in 1 .. k - 1
      BY <1>3
    <3> HIDE DEF g
    <3> QED BY <1>4, <3>2, <3>3 DEF Lists
  <2> HIDE DEF g
  <2> QED BY <2>2, <2>3, <2>4 DEF Lists
<1> QED BY <1>1, <1>7

\* What hosts list is a sequence of worlds.
LEMMA EnabledType ==
  ASSUME NEW s \in Seq(World)
  PROVE  Enabled(s) \in Seq(World)
<1> DEFINE Eq(h) == h = [i \in 0 .. Len(s) |->
              IF i = 0 THEN <<>>
              ELSE IF bound[s[i]] # "off" THEN Append(h[i - 1], s[i]) ELSE h[i - 1]]
           list == CHOOSE h : Eq(h)
<1>1. Len(s) \in Nat /\ Len(s) \in 0 .. Len(s)
  OBVIOUS
<1>2. PICK f : Lists(f, Len(s), s)
  BY <1>1, ListsExist
<1>3. Eq(f)
  <2> DEFINE h == [i \in 0 .. Len(s) |->
              IF i = 0 THEN <<>>
              ELSE IF bound[s[i]] # "off" THEN Append(f[i - 1], s[i]) ELSE f[i - 1]]
  <2>1. \A i \in 0 .. Len(s) : f[i] = h[i]
    <3> SUFFICES ASSUME NEW i \in 0 .. Len(s) PROVE f[i] = h[i]
      OBVIOUS
    <3>1. i = 0 \/ i \in 1 .. Len(s)
      BY <1>1
    <3> QED BY <1>2, <3>1 DEF Lists
  <2>2. f = [i \in 0 .. Len(s) |-> f[i]]
    BY <1>2 DEF Lists
  <2>3. h = [i \in 0 .. Len(s) |-> h[i]]
    OBVIOUS
  <2> HIDE DEF h
  <2>4. f = h
    BY <2>1, <2>2, <2>3
  <2> QED BY <2>4 DEF h
<1>4. Eq(list)
  <2> HIDE DEF Eq
  <2> QED BY <1>3
<1>5. Enabled(s) = list[Len(s)]
  BY DEF Enabled
<1> HIDE DEF list
<1>6. list = [i \in 0 .. Len(s) |->
                IF i = 0 THEN <<>>
                ELSE IF bound[s[i]] # "off" THEN Append(list[i - 1], s[i]) ELSE list[i - 1]]
  BY <1>4
<1> DEFINE Bad == {i \in 0 .. Len(s) : list[i] \notin Seq(World)}
<1>7. Bad = {}
  <2> SUFFICES ASSUME Bad # {} PROVE FALSE
    OBVIOUS
  <2>1. PICK j \in Bad : \A i \in Bad : j <= i
    <3>1. Bad \in SUBSET Nat
      BY <1>1
    <3> HIDE DEF Bad
    <3> QED BY <3>1, Least
  <2>2. j # 0
    <3>1. 0 \in 0 .. Len(s) /\ list[0] = <<>>
      BY <1>1, <1>6
    <3>2. list[0] \in Seq(World)
      BY <3>1
    <3> QED BY <2>1, <3>2
  <2>3. j \in 1 .. Len(s) /\ j - 1 \in 0 .. Len(s) /\ j - 1 \notin Bad
    BY <1>1, <2>1, <2>2
  <2>4. list[j - 1] \in Seq(World) /\ s[j] \in World
    BY <2>3
  <2>5. list[j] = IF bound[s[j]] # "off" THEN Append(list[j - 1], s[j]) ELSE list[j - 1]
    BY <1>6, <2>1, <2>2
  <2>6. list[j] \in Seq(World)
    BY <2>4, <2>5
  <2> QED BY <2>6
<1> QED BY <1>1, <1>5, <1>7

\* The members of a sequence, when it is extended, or loses its head.
LEMMA RangeParts ==
  ASSUME NEW s \in Seq(World), NEW w \in World
  PROVE  /\ Range(Append(s, w)) = Range(s) \cup {w}
         /\ s # <<>> => /\ Head(s) \in World /\ Tail(s) \in Seq(World)
                        /\ Range(s) = Range(Tail(s)) \cup {Head(s)}
         /\ Range(<<>>) = {}
<1>1. Range(<<>>) = {}
  BY DEF Range
<1>2. Range(Append(s, w)) = Range(s) \cup {w}
  <2> DEFINE t == Append(s, w)
  <2>1. /\ DOMAIN t = 1 .. (Len(s) + 1) /\ DOMAIN s = 1 .. Len(s) /\ Len(s) \in Nat
        /\ t[Len(s) + 1] = w /\ \A i \in 1 .. Len(s) : t[i] = s[i]
    OBVIOUS
  <2> HIDE DEF t
  <2>2. \A i \in DOMAIN t : i \in DOMAIN s \/ i = Len(s) + 1
    BY <2>1
  <2>3. DOMAIN s \subseteq DOMAIN t /\ Len(s) + 1 \in DOMAIN t
    BY <2>1
  <2>4. Range(t) = Range(s) \cup {w}
    BY <2>1, <2>2, <2>3 DEF Range
  <2> QED BY <2>4 DEF t
<1>3. ASSUME s # <<>>
      PROVE  /\ Head(s) \in World /\ Tail(s) \in Seq(World)
             /\ Range(s) = Range(Tail(s)) \cup {Head(s)}
  <2> DEFINE t == Tail(s)
  <2>1. /\ Head(s) \in World /\ t \in Seq(World) /\ Head(s) = s[1] /\ Len(s) \in Nat \ {0}
        /\ DOMAIN t = 1 .. (Len(s) - 1) /\ DOMAIN s = 1 .. Len(s)
        /\ \A i \in 1 .. (Len(s) - 1) : t[i] = s[i + 1]
    BY <1>3
  <2> HIDE DEF t
  <2>2. \A i \in DOMAIN s : i = 1 \/ (i - 1 \in DOMAIN t /\ s[i] = t[i - 1])
    BY <2>1
  <2>3. 1 \in DOMAIN s /\ \A i \in DOMAIN t : i + 1 \in DOMAIN s /\ t[i] = s[i + 1]
    BY <2>1
  <2>4. Range(s) = Range(t) \cup {Head(s)}
    BY <2>1, <2>2, <2>3 DEF Range
  <2> QED BY <2>1, <2>4 DEF t
<1> QED BY <1>1, <1>2, <1>3

-----------------------------------------------------------------------------
\* The process of a host ends: its types.
LEMMA ExitsType ==
  ASSUME HostTypeOK, NEW h \in Host, Exits(h),
         lease' \in [World -> [owner : Host \cup {None}, live : BOOLEAN]],
         orphans' \subseteq World, crashes' \in Nat, UNCHANGED <<bound, damaged>>
  PROVE  HostTypeOK'
<1>1. /\ phase' = [phase EXCEPT ![h] = "down"] /\ todo' = [todo EXCEPT ![h] = <<>>]
      /\ worlds' = [worlds EXCEPT ![h] = <<>>] /\ granted' = [granted EXCEPT ![h] = {}]
      /\ beat' = [beat EXCEPT ![h] = Off]
  BY DEF Exits, Enter
<1>2. Off \in [World -> {"off", "waiting", "renewing", "outlasting"}]
  BY DEF Off
<1>3. <<>> \in Seq(World)
  OBVIOUS
<1> QED BY <1>1, <1>2, <1>3 DEF HostTypeOK

\* A lease goes on record.
LEMMA RecordedType ==
  ASSUME HostTypeOK, NEW h \in Host, NEW w \in World, Recorded(h, w)
  PROVE  /\ lease' \in [World -> [owner : Host \cup {None}, live : BOOLEAN]]
         /\ granted' \in [Host -> SUBSET World]
         /\ lease'[w].owner = h /\ w \in granted'[h]
         /\ \A v \in World \ {w} : /\ lease'[v] = lease[v]
                                    /\ \A g \in Host : v \in granted[g] => v \in granted'[g]
BY DEF HostTypeOK, Recorded

\* A lease is released.
LEMMA ReleaseType ==
  ASSUME HostTypeOK, NEW h \in Host, NEW w \in World, ReleaseLease(h, w)
  PROVE  /\ lease' \in [World -> [owner : Host \cup {None}, live : BOOLEAN]]
         /\ w \in granted[h] => ~lease'[w].live
         /\ \A v \in World : lease'[v].live => lease[v] = lease'[v]
<1>1. lease \in [World -> [owner : Host \cup {None}, live : BOOLEAN]]
  BY DEF HostTypeOK
<1>2. CASE Current(h, w)
  <2> DEFINE r == [lease[w] EXCEPT !.live = FALSE]
  <2>1. r \in [owner : Host \cup {None}, live : BOOLEAN] /\ ~r.live
    <3>1. lease[w] \in [owner : Host \cup {None}, live : BOOLEAN]
      BY <1>1
    <3> QED BY <3>1
  <2>2. lease' = [lease EXCEPT ![w] = r]
    BY <1>2 DEF ReleaseLease
  <2> HIDE DEF r
  <2> QED BY <1>1, <2>1, <2>2
<1>3. CASE ~Current(h, w)
  BY <1>1, <1>3 DEF ReleaseLease, Current
<1> QED BY <1>2, <1>3

\* The next world is registered.
LEMMA RegisteredType ==
  ASSUME HostTypeOK, NEW h \in Host, todo[h] # <<>>, Registered(h, Head(todo[h])),
         bound' \in [World -> {"off", "logged", "bare"}],
         UNCHANGED <<damaged, phase, beat, crashes>>
  PROVE  HostTypeOK'
<1> DEFINE w == Head(todo[h])
<1>1. todo[h] \in Seq(World) /\ worlds[h] \in Seq(World)
  BY DEF HostTypeOK
<1>2. w \in World /\ Tail(todo[h]) \in Seq(World)
  BY <1>1
<1>3. /\ Recorded(h, w) /\ orphans' = orphans \ {w}
      /\ worlds' = [worlds EXCEPT ![h] = Append(worlds[h], w)]
      /\ todo' = [todo EXCEPT ![h] = Tail(todo[h])]
  BY DEF Registered, Proceed
<1>4. /\ lease' \in [World -> [owner : Host \cup {None}, live : BOOLEAN]]
      /\ granted' \in [Host -> SUBSET World]
  BY <1>2, <1>3, RecordedType
<1> HIDE DEF w
<1>5. Append(worlds[h], w) \in Seq(World)
  BY <1>1, <1>2
<1>6. worlds' \in [Host -> Seq(World)] /\ todo' \in [Host -> Seq(World)]
  BY <1>2, <1>3, <1>5 DEF HostTypeOK
<1> QED BY <1>3, <1>4, <1>6 DEF HostTypeOK

\* Every step keeps the types of the hosts.
LEMMA HostsTypeStep ==
  ASSUME HostTypeOK, [HostNext]_hostVars
  PROVE  HostTypeOK'
<1>1. ASSUME NEW w \in World, Expire(w) PROVE HostTypeOK'
  <2>1. lease' = [lease EXCEPT ![w] = [lease[w] EXCEPT !.live = FALSE]]
    BY <1>1 DEF Expire
  <2>2. [lease[w] EXCEPT !.live = FALSE] \in [owner : Host \cup {None}, live : BOOLEAN]
    <3>1. lease[w] \in [owner : Host \cup {None}, live : BOOLEAN]
      BY DEF HostTypeOK
    <3> QED BY <3>1
  <2>3. lease' \in [World -> [owner : Host \cup {None}, live : BOOLEAN]]
    BY <2>1, <2>2 DEF HostTypeOK
  <2> QED BY <1>1, <2>3 DEF Expire, HostTypeOK
<1>2. ASSUME NEW h \in Host, Rehydrate(h) PROVE HostTypeOK'
  <2>1. ListEnabled(h) \in Seq(World)
    BY EnabledType, StartAssumption DEF ListEnabled
  <2> QED BY <1>2, <2>1 DEF Rehydrate, Enter, HostTypeOK
<1>3. ASSUME NEW h \in Host, Start(h) PROVE HostTypeOK'
  <2>1. PICK argv \in CommandLines :
             Enter(h, IF Len(argv) = 1 THEN "package" ELSE "packages", argv)
    BY <1>3 DEF Start
  <2>2. argv \in Seq(World)
    BY StartAssumption
  <2> QED BY <1>3, <2>1, <2>2 DEF Start, Enter, HostTypeOK
<1>4. ASSUME NEW h \in Host, Register(h) PROVE HostTypeOK'
  <2>1. CASE Grantable(h, Head(todo[h]))
    BY <1>4, <2>1, RegisteredType DEF Register, HostTypeOK
  <2>2. CASE ~Grantable(h, Head(todo[h]))
    <3>1. /\ phase' = [phase EXCEPT ![h] = "unwinding"]
          /\ todo' = [todo EXCEPT ![h] = worlds[h]]
          /\ UNCHANGED <<bound, damaged, lease, worlds, granted, beat, crashes, orphans>>
      BY <1>4, <2>2 DEF Register, Enter, Taken
    <3> QED BY <3>1 DEF HostTypeOK
  <2> QED BY <2>1, <2>2
<1>5. ASSUME NEW h \in Host, RegisterPackage(h) PROVE HostTypeOK'
  <2> DEFINE w == Head(todo[h])
             record == IF phase[h] = "package" THEN "logged" ELSE "bare"
  <2>1. todo[h] # <<>> /\ UNCHANGED <<damaged, crashes>>
    BY <1>5 DEF RegisterPackage
  <2>2. CASE Registered(h, w) /\ Bind(w, record) /\ UNCHANGED <<phase, beat>>
    <3>1. w \in World
      BY <2>1 DEF HostTypeOK
    <3>2. bound' \in [World -> {"off", "logged", "bare"}]
      BY <2>2 DEF Bind, HostTypeOK
    <3> QED BY <2>1, <2>2, <3>2, RegisteredType
  <2>3. CASE Exits(h) /\ LeavesBehind(h) /\ UNCHANGED <<bound, lease>>
    <3>1. orphans' \subseteq World
      BY <2>3 DEF LeavesBehind, HostTypeOK
    <3>2. lease' \in [World -> [owner : Host \cup {None}, live : BOOLEAN]] /\ crashes' \in Nat
      BY <2>1, <2>3 DEF HostTypeOK
    <3> QED BY <2>1, <2>3, <3>1, <3>2, ExitsType
  <2> QED BY <1>5, <2>2, <2>3 DEF RegisterPackage
<1>6. ASSUME NEW h \in Host, Run(h) PROVE HostTypeOK'
  <2> DEFINE b == [w \in World |-> IF h \in Beats /\ w \in Range(worlds[h]) THEN "waiting" ELSE "off"]
  <2>1. b \in [World -> {"off", "waiting", "renewing", "outlasting"}]
    OBVIOUS
  <2>2. beat' = [beat EXCEPT ![h] = b]
    BY <1>6 DEF Run, StartHeartbeats
  <2> HIDE DEF b
  <2> QED BY <1>6, <2>1, <2>2 DEF Run, HostTypeOK
<1>7. ASSUME NEW h \in Host, Unwind(h) PROVE HostTypeOK'
  <2>1. CASE todo[h] = <<>>
    BY <1>7, <2>1, ExitsType DEF Unwind, HostTypeOK
  <2>2. CASE todo[h] # <<>>
    <3>1. Head(todo[h]) \in World /\ Tail(todo[h]) \in Seq(World)
      BY <2>2 DEF HostTypeOK
    <3>2. lease' \in [World -> [owner : Host \cup {None}, live : BOOLEAN]]
      BY <1>7, <2>2, <3>1, ReleaseType DEF Unwind
    <3>3. /\ todo' = [todo EXCEPT ![h] = Tail(todo[h])]
          /\ UNCHANGED <<bound, damaged, phase, worlds, granted, beat, crashes, orphans>>
      BY <1>7, <2>2 DEF Unwind, Proceed
    <3>4. todo' \in [Host -> Seq(World)]
      BY <3>1, <3>3 DEF HostTypeOK
    <3> QED BY <3>2, <3>3, <3>4 DEF HostTypeOK
  <2> QED BY <2>1, <2>2
<1>8. ASSUME NEW h \in Host, Close(h) PROVE HostTypeOK'
  <2>1. CASE todo[h] = <<>>
    BY <1>8, <2>1, ExitsType DEF Close, HostTypeOK
  <2>2. CASE todo[h] # <<>>
    <3>1. Head(todo[h]) \in World /\ Tail(todo[h]) \in Seq(World)
      BY <2>2 DEF HostTypeOK
    <3>2. lease' \in [World -> [owner : Host \cup {None}, live : BOOLEAN]]
      BY <1>8, <2>2, <3>1, ReleaseType DEF Close
    <3>3. /\ todo' = [todo EXCEPT ![h] = Tail(todo[h])]
          /\ beat' = [beat EXCEPT ![h][Head(todo[h])] =
                        IF @ = "renewing" THEN "outlasting" ELSE "off"]
          /\ UNCHANGED <<bound, damaged, phase, worlds, granted, crashes, orphans>>
      BY <1>8, <2>2 DEF Close, Proceed, StillRenewing
    <3>4. todo' \in [Host -> Seq(World)]
      BY <3>1, <3>3 DEF HostTypeOK
    <3>5. beat' \in [Host -> [World -> {"off", "waiting", "renewing", "outlasting"}]]
      BY <3>1, <3>3 DEF HostTypeOK
    <3> QED BY <3>2, <3>3, <3>4, <3>5 DEF HostTypeOK
  <2> QED BY <2>1, <2>2
<1>9. ASSUME NEW h \in Host, Stop(h) PROVE HostTypeOK'
  BY <1>9 DEF Stop, Enter, HostTypeOK
<1>10. ASSUME NEW h \in Host, RunFails(h) \/ HostCrash(h) PROVE HostTypeOK'
  <2>1. orphans' \subseteq World
    BY <1>10 DEF RunFails, HostCrash, LeavesBehind, HostTypeOK
  <2>2. lease' = lease /\ crashes' = crashes + 1 /\ UNCHANGED <<bound, damaged>> /\ Exits(h)
    BY <1>10 DEF RunFails, HostCrash
  <2>3. lease' \in [World -> [owner : Host \cup {None}, live : BOOLEAN]] /\ crashes' \in Nat
    BY <2>2 DEF HostTypeOK
  <2> QED BY <2>1, <2>2, <2>3, ExitsType
<1>11. ASSUME NEW h \in Host, NEW w \in World, Renewing(h, w) PROVE HostTypeOK'
  <2>1. beat' \in [Host -> [World -> {"off", "waiting", "renewing", "outlasting"}]]
    BY <1>11 DEF Renewing, HostTypeOK
  <2> QED BY <1>11, <2>1 DEF Renewing, HostTypeOK
<1>12. ASSUME NEW h \in Host, NEW w \in World, Renewed(h, w) PROVE HostTypeOK'
  <2>1. beat' \in [Host -> [World -> {"off", "waiting", "renewing", "outlasting"}]]
    BY <1>12 DEF Renewed, HostTypeOK
  <2>2. /\ lease' \in [World -> [owner : Host \cup {None}, live : BOOLEAN]]
        /\ granted' \in [Host -> SUBSET World]
    BY <1>12, RecordedType DEF Renewed
  <2>3. orphans' \subseteq World
    BY <1>12 DEF Renewed, HostTypeOK
  <2> QED BY <1>12, <2>1, <2>2, <2>3 DEF Renewed, HostTypeOK
<1>13. ASSUME UNCHANGED hostVars PROVE HostTypeOK'
  BY <1>13 DEF hostVars, HostTypeOK
<1> QED BY <1>1, <1>2, <1>3, <1>4, <1>5, <1>6, <1>7, <1>8, <1>9, <1>10, <1>11, <1>12, <1>13
     DEF HostNext, Lifecycle

-----------------------------------------------------------------------------
(* No lease outlives its host but those that are left behind.              *)

\* A host's process ends when nothing is left that it would have to release, or
\* what it leaves behind is noted.
LEMMA ExitsStep ==
  ASSUME HostInv, HostTypeOK', NEW h \in Host, Exits(h), UNCHANGED lease,
         orphans \subseteq orphans',
         \A w \in World : lease[w].live /\ w \in granted[h] /\ w \in Keeps(h) => w \in orphans'
  PROVE  HostInv'
<1>1. /\ phase' = [phase EXCEPT ![h] = "down"] /\ todo' = [todo EXCEPT ![h] = <<>>]
      /\ worlds' = [worlds EXCEPT ![h] = <<>>] /\ granted' = [granted EXCEPT ![h] = {}]
      /\ beat' = [beat EXCEPT ![h] = Off]
  BY DEF Exits, Enter
<1>2. \A g \in Host \ {h} : /\ phase'[g] = phase[g] /\ todo'[g] = todo[g] /\ worlds'[g] = worlds[g]
                            /\ granted'[g] = granted[g] /\ beat'[g] = beat[g]
  BY <1>1 DEF HostInv, HostTypeOK
<1>3. \A g \in Host \ {h} : Keeps(g)' = Keeps(g)
  BY <1>2 DEF Keeps
<1>4. \A w \in World : beat'[h][w] = "off"
  BY <1>1 DEF HostInv, HostTypeOK, Off
<1>5. Accounted'
  <2> SUFFICES ASSUME NEW w \in World, lease[w].live, w \notin orphans'
               PROVE  \E g \in Host : /\ g = lease'[w].owner /\ phase'[g] # "down"
                                      /\ w \in granted'[g] /\ w \in Keeps(g)'
    BY DEF Accounted
  <2>1. PICK g \in Host : g = lease[w].owner /\ phase[g] # "down" /\ w \in granted[g] /\ w \in Keeps(g)
    BY DEF HostInv, Accounted
  <2>2. g # h
    BY <2>1
  <2> QED BY <1>2, <1>3, <2>1, <2>2
<1>6. BeatsForKept'
  BY <1>2, <1>3, <1>4 DEF HostInv, BeatsForKept
<1> QED BY <1>5, <1>6 DEF HostInv

\* A host goes from one phase to another and still keeps all it kept.
LEMMA PhaseStep ==
  ASSUME HostInv, HostTypeOK', NEW h \in Host, UNCHANGED <<lease, granted, orphans>>,
         phase'[h] # "down",
         \A g \in Host \ {h} : phase'[g] = phase[g] /\ Keeps(g)' = Keeps(g)
                               /\ beat'[g] = beat[g],
         phase[h] # "down" => Keeps(h) \subseteq Keeps(h)',
         \A w \in World : beat'[h][w] \in {"waiting", "renewing"} =>
           phase'[h] \in {"up", "closing"} /\ w \in Keeps(h)'
  PROVE  HostInv'
<1>1. Accounted'
  <2> SUFFICES ASSUME NEW w \in World, lease[w].live, w \notin orphans
               PROVE  \E g \in Host : /\ g = lease[w].owner /\ phase'[g] # "down"
                                      /\ w \in granted[g] /\ w \in Keeps(g)'
    BY DEF Accounted
  <2>1. PICK g \in Host : g = lease[w].owner /\ phase[g] # "down" /\ w \in granted[g] /\ w \in Keeps(g)
    BY DEF HostInv, Accounted
  <2>2. phase'[g] # "down" /\ w \in Keeps(g)'
    BY <2>1
  <2> QED BY <2>1, <2>2
<1>2. BeatsForKept'
  BY DEF HostInv, BeatsForKept
<1> QED BY <1>1, <1>2 DEF HostInv

\* A lease goes on record for a host that will release it, or that is noted.
LEMMA RecordedStep ==
  ASSUME HostInv, HostTypeOK', NEW h \in Host, NEW w \in World, Recorded(h, w),
         UNCHANGED phase, orphans \subseteq orphans' \cup {w},
         w \in orphans' \/ (phase[h] # "down" /\ w \in Keeps(h)'),
         \A g \in Host : Keeps(g) \subseteq Keeps(g)',
         \A g \in Host, v \in World : beat'[g][v] \in {"waiting", "renewing"} =>
           beat[g][v] \in {"waiting", "renewing"}
  PROVE  HostInv'
<1>1. /\ lease'[w].owner = h /\ w \in granted'[h]
      /\ \A v \in World \ {w} : /\ lease'[v] = lease[v]
                                 /\ \A g \in Host : v \in granted[g] => v \in granted'[g]
  BY RecordedType DEF HostInv
<1>2. Accounted'
  <2> SUFFICES ASSUME NEW v \in World, lease'[v].live, v \notin orphans'
               PROVE  \E g \in Host : /\ g = lease'[v].owner /\ phase'[g] # "down"
                                      /\ v \in granted'[g] /\ v \in Keeps(g)'
    BY DEF Accounted
  <2>1. CASE v = w
    BY <1>1, <2>1
  <2>2. CASE v # w
    <3>1. PICK g \in Host : g = lease[v].owner /\ phase[g] # "down" /\ v \in granted[g] /\ v \in Keeps(g)
      BY <1>1, <2>2 DEF HostInv, Accounted
    <3> QED BY <1>1, <2>2, <3>1
  <2> QED BY <2>1, <2>2
<1>3. BeatsForKept'
  BY DEF HostInv, BeatsForKept
<1> QED BY <1>2, <1>3 DEF HostInv

\* A host that gives its worlds back releases the next of them.
LEMMA ReleaseStep ==
  ASSUME HostInv, HostTypeOK', NEW h \in Host, phase[h] \in {"unwinding", "closing"},
         todo[h] # <<>>, ReleaseLease(h, Head(todo[h])), Proceed(h),
         UNCHANGED <<phase, worlds, granted, orphans>>,
         \A g \in Host, v \in World : beat'[g][v] \in {"waiting", "renewing"} =>
           beat[g][v] \in {"waiting", "renewing"} /\ ~(g = h /\ v = Head(todo[h]))
  PROVE  HostInv'
<1> DEFINE w == Head(todo[h])
<1>1. todo[h] \in Seq(World) /\ HostTypeOK
  BY DEF HostInv, HostTypeOK
<1>2. w \in World /\ Range(todo[h]) = Range(Tail(todo[h])) \cup {w}
  BY <1>1, RangeParts
<1>3. \A g \in Host : todo'[g] = IF g = h THEN Tail(todo[h]) ELSE todo[g]
  BY <1>1 DEF Proceed, HostTypeOK
<1>4. /\ Keeps(h) = Range(todo[h]) /\ Keeps(h)' = Range(Tail(todo[h]))
      /\ \A g \in Host \ {h} : Keeps(g)' = Keeps(g)
  BY <1>3 DEF Keeps
<1>5. /\ w \in granted[h] => ~lease'[w].live
      /\ \A v \in World : lease'[v].live => lease[v] = lease'[v]
  BY <1>1, <1>2, ReleaseType
<1> HIDE DEF w
<1>6. Accounted'
  <2> SUFFICES ASSUME NEW v \in World, lease'[v].live, v \notin orphans
               PROVE  \E g \in Host : /\ g = lease'[v].owner /\ phase[g] # "down"
                                      /\ v \in granted[g] /\ v \in Keeps(g)'
    BY DEF Accounted
  <2>1. PICK g \in Host : g = lease[v].owner /\ phase[g] # "down" /\ v \in granted[g] /\ v \in Keeps(g)
    BY <1>5 DEF HostInv, Accounted
  <2>2. g = h => v # w
    BY <1>5, <2>1
  <2>3. v \in Keeps(g)'
    BY <1>2, <1>4, <2>1, <2>2
  <2> QED BY <1>5, <2>1, <2>3
<1>7. BeatsForKept'
  <2> SUFFICES ASSUME NEW g \in Host, NEW v \in World, beat'[g][v] \in {"waiting", "renewing"}
               PROVE  phase[g] \in {"up", "closing"} /\ v \in Keeps(g)'
    BY DEF BeatsForKept
  <2>1. phase[g] \in {"up", "closing"} /\ v \in Keeps(g) /\ (g = h => v # w)
    BY DEF HostInv, BeatsForKept, w
  <2> QED BY <1>2, <1>4, <2>1
<1> QED BY <1>6, <1>7 DEF HostInv

\* The steps of a start.
LEMMA StartSteps ==
  ASSUME HostInv, HostTypeOK', NEW h \in Host,
         Rehydrate(h) \/ Start(h) \/ Run(h) \/ Stop(h)
  PROVE  HostInv'
<1> USE DEF Enter
<1>1. HostTypeOK
  BY DEF HostInv
<1>2. ASSUME NEW p, NEW ws, phase' = [phase EXCEPT ![h] = p], todo' = [todo EXCEPT ![h] = ws],
             UNCHANGED <<lease, worlds, granted, orphans>>,
             beat' = [beat EXCEPT ![h] = beat'[h]],
             \/ p \in {"registering", "package", "packages", "up"}
             \/ p = "closing" /\ ws = worlds[h],
             phase[h] \notin {"unwinding", "closing"},
             \A w \in World : beat'[h][w] \in {"waiting", "renewing"} =>
               p \in {"up", "closing"} /\ w \in Range(worlds[h])
      PROVE  HostInv'
  <2>1. phase'[h] = p /\ todo'[h] = ws /\ p # "down"
    BY <1>1, <1>2 DEF HostTypeOK
  <2>2. \A g \in Host \ {h} : phase'[g] = phase[g] /\ todo'[g] = todo[g] /\ beat'[g] = beat[g]
    BY <1>1, <1>2 DEF HostTypeOK
  <2>3. \A g \in Host \ {h} : Keeps(g)' = Keeps(g)
    BY <1>2, <2>2 DEF Keeps
  <2>4. Keeps(h) = Range(worlds[h]) /\ Keeps(h)' = Range(worlds[h])
    BY <1>2, <2>1 DEF Keeps
  <2> QED BY <1>2, <2>1, <2>2, <2>3, <2>4, PhaseStep
<1>3. ASSUME UNCHANGED beat PROVE beat' = [beat EXCEPT ![h] = beat'[h]]
  BY <1>1, <1>3 DEF HostTypeOK
<1>4. \A w \in World : beat[h][w] \in {"waiting", "renewing"} =>
        /\ phase[h] \in {"up", "closing"}
        /\ phase[h] # "closing" => w \in Range(worlds[h])
  BY DEF HostInv, BeatsForKept, Keeps
<1>5. CASE Rehydrate(h)
  <2>1. /\ phase[h] = "down" /\ phase' = [phase EXCEPT ![h] = "registering"]
        /\ todo' = [todo EXCEPT ![h] = ListEnabled(h)]
        /\ UNCHANGED <<lease, worlds, granted, orphans, beat>>
    BY <1>5 DEF Rehydrate
  <2> QED BY <1>2, <1>3, <1>4, <2>1
<1>6. CASE Start(h)
  <2>1. PICK p \in {"package", "packages"}, ws \in CommandLines :
             phase' = [phase EXCEPT ![h] = p] /\ todo' = [todo EXCEPT ![h] = ws]
    BY <1>6 DEF Start
  <2>2. phase[h] = "down" /\ UNCHANGED <<lease, worlds, granted, orphans, beat>>
    BY <1>6 DEF Start
  <2> QED BY <1>2, <1>3, <1>4, <2>1, <2>2
<1>7. CASE Run(h)
  <2>1. /\ phase[h] \in {"registering", "package", "packages"} /\ phase' = [phase EXCEPT ![h] = "up"]
        /\ UNCHANGED <<lease, worlds, granted, orphans, todo>>
    BY <1>7 DEF Run
  <2>2. todo' = [todo EXCEPT ![h] = todo[h]]
    BY <1>1, <2>1 DEF HostTypeOK
  <2>3. /\ beat' = [beat EXCEPT ![h] = beat'[h]]
        /\ \A w \in World : beat'[h][w] = "waiting" => w \in Range(worlds[h])
        /\ \A w \in World : beat'[h][w] # "renewing"
    BY <1>1, <1>7 DEF Run, StartHeartbeats, HostTypeOK
  <2> QED BY <1>2, <2>1, <2>2, <2>3
<1>8. CASE Stop(h)
  <2>1. /\ phase[h] = "up" /\ phase' = [phase EXCEPT ![h] = "closing"]
        /\ todo' = [todo EXCEPT ![h] = worlds[h]]
        /\ UNCHANGED <<lease, worlds, granted, orphans, beat>>
    BY <1>8 DEF Stop
  <2> QED BY <1>2, <1>3, <1>4, <2>1
<1> QED BY <1>5, <1>6, <1>7, <1>8

\* The next world is registered: it is one the host will release.
LEMMA RegisteredStep ==
  ASSUME HostInv, HostTypeOK', NEW h \in Host,
         phase[h] \in {"registering", "package", "packages"}, todo[h] # <<>>,
         Registered(h, Head(todo[h])), UNCHANGED <<phase, beat>>
  PROVE  HostInv'
<1> DEFINE w == Head(todo[h])
<1>1. HostTypeOK /\ todo[h] \in Seq(World) /\ worlds[h] \in Seq(World)
  BY DEF HostInv, HostTypeOK
<1>2. w \in World
  BY <1>1
<1>3. /\ Recorded(h, w) /\ orphans' = orphans \ {w}
      /\ worlds' = [worlds EXCEPT ![h] = Append(worlds[h], w)]
      /\ todo' = [todo EXCEPT ![h] = Tail(todo[h])]
  BY DEF Registered, Proceed
<1> HIDE DEF w
<1>4. Range(Append(worlds[h], w)) = Range(worlds[h]) \cup {w}
  BY <1>1, <1>2, RangeParts
<1>5. \A g \in Host : worlds'[g] = IF g = h THEN Append(worlds[h], w) ELSE worlds[g]
  BY <1>1, <1>3 DEF HostTypeOK
<1>6. \A g \in Host \ {h} : todo'[g] = todo[g]
  BY <1>1, <1>3 DEF HostTypeOK
<1>7. \A g \in Host \ {h} : Keeps(g)' = Keeps(g)
  BY <1>5, <1>6 DEF Keeps
<1>8. Keeps(h)' = Keeps(h) \cup {w}
  BY <1>4, <1>5 DEF Keeps
<1>9. \A g \in Host : Keeps(g) \subseteq Keeps(g)'
  BY <1>7, <1>8
<1>10. orphans \subseteq orphans' \cup {w} /\ phase[h] # "down" /\ w \in Keeps(h)'
  BY <1>3, <1>8
<1> QED BY <1>2, <1>3, <1>9, <1>10, RecordedStep

\* The invariant of the hosts.
THEOREM HostsInvariance == HostSpec => []HostInv
<1>1. HostInit => HostInv
  <2> SUFFICES ASSUME HostInit PROVE HostInv
    OBVIOUS
  <2>1. HostTypeOK
    BY DEF HostInit, Off, HostTypeOK
  <2> QED BY <2>1 DEF HostInit, Off, HostInv, Accounted, BeatsForKept
<1>2. HostInv /\ [HostNext]_hostVars => HostInv'
  <2> SUFFICES ASSUME HostInv, [HostNext]_hostVars PROVE HostInv'
    OBVIOUS
  <2>1. HostTypeOK' /\ HostTypeOK
    BY HostsTypeStep DEF HostInv
  <2>2. ASSUME NEW h \in Host, Register(h) PROVE HostInv'
    <3>1. CASE Grantable(h, Head(todo[h]))
      BY <2>1, <2>2, <3>1, RegisteredStep DEF Register
    <3>2. CASE ~Grantable(h, Head(todo[h]))
      <4>1. /\ phase[h] = "registering" /\ phase' = [phase EXCEPT ![h] = "unwinding"]
            /\ todo' = [todo EXCEPT ![h] = worlds[h]]
            /\ UNCHANGED <<lease, worlds, granted, beat, orphans>>
        BY <2>2, <3>2 DEF Register, Enter, Taken
      <4>2. \A g \in Host : /\ phase'[g] = IF g = h THEN "unwinding" ELSE phase[g]
                            /\ todo'[g] = IF g = h THEN worlds[h] ELSE todo[g]
        BY <2>1, <4>1 DEF HostTypeOK
      <4>3. \A g \in Host : Keeps(g)' = Keeps(g)
        BY <4>1, <4>2 DEF Keeps
      <4>4. \A w \in World : beat[h][w] \notin {"waiting", "renewing"}
        BY <4>1 DEF HostInv, BeatsForKept
      <4> QED BY <2>1, <4>1, <4>2, <4>3, <4>4, PhaseStep
    <3> QED BY <3>1, <3>2
  <2>3. ASSUME NEW h \in Host, RegisterPackage(h) PROVE HostInv'
    <3>1. CASE Exits(h) /\ LeavesBehind(h) /\ UNCHANGED lease
      <4>1. orphans \subseteq orphans' /\ \A w \in World : lease[w].live /\ w \in granted[h] => w \in orphans'
        BY <3>1 DEF LeavesBehind, Current
      <4> QED BY <2>1, <3>1, <4>1, ExitsStep
    <3>2. CASE Registered(h, Head(todo[h])) /\ UNCHANGED <<phase, beat>>
      BY <2>1, <2>3, <3>2, RegisteredStep DEF RegisterPackage
    <3> QED BY <2>3, <3>1, <3>2 DEF RegisterPackage
  <2>4. ASSUME NEW h \in Host, Unwind(h) PROVE HostInv'
    <3>1. CASE todo[h] = <<>>
      <4>1. Keeps(h) = {}
        BY <2>4, <3>1 DEF Unwind, Keeps, Range
      <4> QED BY <2>1, <2>4, <3>1, <4>1, ExitsStep DEF Unwind
    <3>2. CASE todo[h] # <<>>
      <4>1. /\ phase[h] = "unwinding" /\ ReleaseLease(h, Head(todo[h])) /\ Proceed(h)
            /\ UNCHANGED <<phase, worlds, granted, beat, orphans>>
        BY <2>4, <3>2 DEF Unwind
      <4>2. \A w \in World : beat[h][w] \notin {"waiting", "renewing"}
        BY <4>1 DEF HostInv, BeatsForKept
      <4> QED BY <2>1, <3>2, <4>1, <4>2, ReleaseStep
    <3> QED BY <3>1, <3>2
  <2>5. ASSUME NEW h \in Host, Close(h) PROVE HostInv'
    <3>1. CASE todo[h] = <<>>
      <4>1. Keeps(h) = {}
        BY <2>5, <3>1 DEF Close, Keeps, Range
      <4> QED BY <2>1, <2>5, <3>1, <4>1, ExitsStep DEF Close
    <3>2. CASE todo[h] # <<>>
      <4> DEFINE w == Head(todo[h])
      <4>1. /\ phase[h] = "closing" /\ ReleaseLease(h, w) /\ Proceed(h)
            /\ beat' = [beat EXCEPT ![h][w] = IF @ = "renewing" THEN "outlasting" ELSE "off"]
            /\ UNCHANGED <<phase, worlds, granted, orphans>>
        BY <2>5, <3>2 DEF Close, StillRenewing
      <4>2. w \in World
        BY <2>1, <3>2 DEF HostTypeOK
      <4>3. \A g \in Host, v \in World : beat'[g][v] =
              IF g = h /\ v = w THEN IF beat[h][w] = "renewing" THEN "outlasting" ELSE "off"
              ELSE beat[g][v]
        BY <2>1, <4>1, <4>2 DEF HostTypeOK
      <4> QED BY <2>1, <3>2, <4>1, <4>3, ReleaseStep
    <3> QED BY <3>1, <3>2
  <2>6. ASSUME NEW h \in Host, RunFails(h) \/ HostCrash(h) PROVE HostInv'
    <3>1. /\ Exits(h) /\ UNCHANGED lease /\ orphans \subseteq orphans'
          /\ \A w \in World : lease[w].live /\ w \in granted[h] => w \in orphans'
      BY <2>6 DEF RunFails, HostCrash, LeavesBehind, Current
    <3> QED BY <2>1, <3>1, ExitsStep
  <2>7. ASSUME NEW w \in World, Expire(w) PROVE HostInv'
    <3>1. /\ UNCHANGED <<phase, todo, worlds, granted, beat, orphans>>
          /\ \A v \in World : lease'[v].live => lease'[v] = lease[v]
      <4>1. lease' = [lease EXCEPT ![w] = [lease[w] EXCEPT !.live = FALSE]]
        BY <2>7 DEF Expire
      <4>2. lease[w] \in [owner : Host \cup {None}, live : BOOLEAN]
        BY <2>1 DEF HostTypeOK
      <4>3. ~lease'[w].live /\ \A v \in World \ {w} : lease'[v] = lease[v]
        BY <2>1, <4>1, <4>2 DEF HostTypeOK
      <4> QED BY <2>7, <4>3 DEF Expire
    <3>2. \A g \in Host : Keeps(g)' = Keeps(g)
      BY <3>1 DEF Keeps
    <3>3. Accounted' /\ BeatsForKept'
      BY <3>1, <3>2 DEF HostInv, Accounted, BeatsForKept
    <3> QED BY <2>1, <3>3 DEF HostInv
  <2>8. ASSUME NEW h \in Host, NEW w \in World, Renewing(h, w) PROVE HostInv'
    <3>1. /\ UNCHANGED <<lease, phase, todo, worlds, granted, orphans>>
          /\ beat[h][w] = "waiting"
          /\ \A g \in Host, v \in World : (g = h /\ v = w) \/ beat'[g][v] = beat[g][v]
      BY <2>1, <2>8 DEF Renewing, HostTypeOK
    <3>2. \A g \in Host : Keeps(g)' = Keeps(g)
      BY <3>1 DEF Keeps
    <3>3. Accounted'
      BY <3>1, <3>2 DEF HostInv, Accounted
    <3>4. BeatsForKept'
      BY <3>1, <3>2 DEF HostInv, BeatsForKept
    <3> QED BY <2>1, <3>3, <3>4 DEF HostInv
  <2>9. ASSUME NEW h \in Host, NEW w \in World, Renewed(h, w) PROVE HostInv'
    <3>1. /\ Recorded(h, w) /\ UNCHANGED <<phase, todo, worlds>>
          /\ beat[h][w] \in {"renewing", "outlasting"}
          /\ beat' = [beat EXCEPT ![h][w] = IF @ = "outlasting" THEN "off" ELSE "waiting"]
          /\ orphans' = IF beat[h][w] = "outlasting" THEN orphans \cup {w} ELSE orphans
      BY <2>9 DEF Renewed
    <3>2. \A g \in Host : Keeps(g)' = Keeps(g)
      BY <3>1 DEF Keeps
    <3>3. w \in orphans' \/ (phase[h] # "down" /\ w \in Keeps(h)')
      BY <3>1, <3>2 DEF HostInv, BeatsForKept
    <3>4. \A g \in Host, v \in World : beat'[g][v] =
            IF g = h /\ v = w THEN IF beat[h][w] = "outlasting" THEN "off" ELSE "waiting"
            ELSE beat[g][v]
      BY <2>1, <3>1 DEF HostTypeOK
    <3>5. \A g \in Host, v \in World : beat'[g][v] \in {"waiting", "renewing"} =>
            beat[g][v] \in {"waiting", "renewing"}
      BY <3>1, <3>4
    <3>6. orphans \subseteq orphans' \cup {w}
      BY <3>1
    <3> QED BY <2>1, <3>1, <3>2, <3>3, <3>5, <3>6, RecordedStep
  <2>10. ASSUME UNCHANGED hostVars PROVE HostInv'
    <3>1. UNCHANGED <<lease, phase, todo, worlds, granted, beat, orphans>>
      BY <2>10 DEF hostVars
    <3>2. \A g \in Host : Keeps(g)' = Keeps(g)
      BY <3>1 DEF Keeps
    <3>3. Accounted' /\ BeatsForKept'
      BY <3>1, <3>2 DEF HostInv, Accounted, BeatsForKept
    <3> QED BY <2>1, <3>3 DEF HostInv
  <2> QED BY <2>1, <2>2, <2>3, <2>4, <2>5, <2>6, <2>7, <2>8, <2>9, <2>10, StartSteps
      DEF HostNext, Lifecycle
<1> QED BY <1>1, <1>2, PTL DEF HostSpec

\* A rehydration that another host's lease ends, and every stop, take back all they
\* took (NothingLeftBehind of RuntimeHost), for any hosts, worlds and number of
\* crashes; what a main() that ends outside its try leaves behind is named.
THEOREM TakenBack == HostSpec => []NothingLeftBehind
<1>1. HostInv => NothingLeftBehind
  BY DEF HostInv, Accounted, NothingLeftBehind
<1> QED BY <1>1, HostsInvariance, PTL

-----------------------------------------------------------------------------
(* The lines of WorldFiles.                                                *)

\* The lines of a cut write are the batch's, and only the last can be cut short.
LEMMA CutsType ==
  ASSUME NEW b \in Nat, NEW cut \in Cuts(b)
  PROVE  /\ cut \in Seq(LogRecord)
         /\ \A i \in DOMAIN cut : cut[i].batch = b /\ (cut[i].cut # "none" => i = Len(cut))
<1> DEFINE s == Batch(b)
<1>1. /\ s \in Seq(LogRecord) /\ Len(s) = 2
      /\ \A i \in 1 .. 2 : s[i] \in LogRecord /\ s[i].batch = b /\ s[i].cut = "none"
  BY DEF Batch, Line, LogRecord
<1>2. \A k \in 0 .. 2 : /\ SubSeq(s, 1, k) \in Seq(LogRecord) /\ Len(SubSeq(s, 1, k)) = k
                        /\ \A i \in 1 .. k : SubSeq(s, 1, k)[i] = s[i]
  <2> HIDE DEF s
  <2> TAKE k \in 0 .. 2
  <2>1. 1 \in Int /\ k \in Int /\ \A i \in 1 .. k : s[i] \in LogRecord
    <3>1. k \in Int /\ \A i \in 1 .. k : i \in 1 .. 2
      OBVIOUS
    <3> QED BY <1>1, <3>1
  <2>2. /\ SubSeq(s, 1, k) \in Seq(LogRecord)
        /\ Len(SubSeq(s, 1, k)) = IF 1 <= k THEN k - 1 + 1 ELSE 0
        /\ \A i \in 1 .. k - 1 + 1 : SubSeq(s, 1, k)[i] = s[1 + i - 1]
    BY <2>1, SubSeqProperties
  <2> QED BY <2>2
<1>3. CASE cut \in {<<>>, SubSeq(s, 1, 1), s}
  <2> HIDE DEF s
  <2>1. CASE cut = <<>>
    BY <2>1
  <2>2. CASE cut = SubSeq(s, 1, 1)
    BY <1>1, <1>2, <2>2
  <2>3. CASE cut = s
    BY <1>1, <2>3
  <2> QED BY <1>3, <2>1, <2>2, <2>3
<1>4. ASSUME NEW n \in 1 .. 2, NEW c \in {"inside", "newline"},
             cut = SubSeq(s, 1, n - 1) \o <<Line(b, n, c)>>
      PROVE  /\ cut \in Seq(LogRecord)
             /\ \A i \in DOMAIN cut : cut[i].batch = b /\ (cut[i].cut # "none" => i = Len(cut))
  <2> DEFINE t == SubSeq(s, 1, n - 1)
             l == Line(b, n, c)
  <2>1. t \in Seq(LogRecord) /\ Len(t) = n - 1 /\ \A i \in 1 .. n - 1 : t[i].batch = b /\ t[i].cut = "none"
    BY <1>1, <1>2
  <2>2. l \in LogRecord /\ l.batch = b
    BY DEF Line, LogRecord
  <2>3. cut = t \o <<l>>
    BY <1>4
  <2> HIDE DEF t, l
  <2>4. cut \in Seq(LogRecord) /\ Len(cut) = n /\ cut[n] = l /\ \A i \in 1 .. n - 1 : cut[i] = t[i]
    BY <2>1, <2>2, <2>3
  <2> QED BY <2>1, <2>2, <2>4
<1>5. cut \in {<<>>, SubSeq(s, 1, 1), s}
        \/ \E n \in 1 .. 2, c \in {"inside", "newline"} : cut = SubSeq(s, 1, n - 1) \o <<Line(b, n, c)>>
  BY DEF Cuts
<1> QED BY <1>3, <1>4, <1>5

\* A whole batch is one of the cuts of its write.
LEMMA BatchType ==
  ASSUME NEW b \in Nat
  PROVE  /\ Batch(b) \in Seq(LogRecord) /\ Len(Batch(b)) = 2
         /\ Batch(b)[1] = Line(b, 1, "none") /\ Batch(b)[2] = Line(b, 2, "none")
         /\ Batch(b) \in Cuts(b)
BY DEF Batch, Line, LogRecord, Cuts

\* What is appended to a log is a log.
LEMMA AppendedType ==
  ASSUME NEW f \in Seq(LogRecord), NEW s \in Seq(LogRecord)
  PROVE  Appended(f, s) \in Seq(LogRecord)
<1>1. CASE OpenEnd(f) /\ s # <<>>
  <2> DEFINE l == Line(Last(f).batch, Last(f).part, "inside")
  <2>1. Last(f) \in LogRecord /\ Front(f) \in Seq(LogRecord)
    BY <1>1 DEF OpenEnd, Last, Front
  <2>2. l \in LogRecord
    BY <2>1 DEF Line, LogRecord
  <2>3. Tail(s) \in Seq(LogRecord)
    BY <1>1
  <2>4. Appended(f, s) = Front(f) \o <<l>> \o Tail(s)
    BY <1>1 DEF Appended
  <2> HIDE DEF l
  <2> QED BY <2>1, <2>2, <2>3, <2>4
<1>2. CASE ~(OpenEnd(f) /\ s # <<>>)
  BY <1>2 DEF Appended
<1> QED BY <1>1, <1>2

\* The log after a failed append is a log.
LEMMA UndoneType ==
  ASSUME NEW f \in Seq(LogRecord), NEW s \in Seq(LogRecord), NEW n \in Nat
  PROVE  Undone(f, s, n) \in Seq(LogRecord)
<1> DEFINE w == Appended(f, s)
           z == <<Line(0, 1, "inside")>>
<1>1. w \in Seq(LogRecord)
  BY AppendedType
<1>2. z \in Seq(LogRecord)
  BY DEF Line, LogRecord
<1>3. n <= Len(w) => SubSeq(w, 1, n) \in Seq(LogRecord)
  BY <1>1
<1>4. Appended(w, z) \in Seq(LogRecord)
  BY <1>1, <1>2, AppendedType
<1> QED BY <1>3, <1>4 DEF Undone

-----------------------------------------------------------------------------
\* A step that leaves the log unspoilt leaves it as it is or appends to it what a
\* write of a batch leaves, after a last line that is whole.
LEMMA Growth ==
  ASSUME NEW b, NEW s \in Seq(LogRecord), file \in Seq(LogRecord),
         CutAtEnd, ~(s # <<>> /\ OpenEnd(file)),
         \A i \in DOMAIN s : s[i].batch = b /\ (s[i].cut # "none" => i = Len(s)),
         file' = Appended(file, s)
  PROVE  /\ file' = file \o s /\ Len(file') = Len(file) + Len(s)
         /\ \A i \in 1 .. Len(file) : file'[i] = file[i]
         /\ \A i \in 1 .. Len(s) : file'[Len(file) + i] = s[i]
         /\ \A i \in DOMAIN file' : i > Len(file) => file'[i].batch = b
         /\ CutAtEnd' 
         /\ Logged(file) \subseteq Logged(file)'
         /\ Logged(file)' \subseteq Logged(file) \cup {b}
         /\ s # <<>> => b \in Logged(file)'
<1>1. /\ file' = file \o s /\ Len(file') = Len(file) + Len(s)
      /\ file' \in Seq(LogRecord)
  <2>1. s = <<>> => file \o s = file
    OBVIOUS
  <2>2. file' = file \o s
    BY <2>1 DEF Appended
  <2> QED BY <2>2
<1>2. /\ \A i \in 1 .. Len(file) : file'[i] = file[i]
      /\ \A i \in 1 .. Len(s) : file'[Len(file) + i] = s[i]
  BY <1>1
<1>3. \A i \in DOMAIN file' : i > Len(file) => i - Len(file) \in 1 .. Len(s) /\ file'[i] = s[i - Len(file)]
  <2> SUFFICES ASSUME NEW i \in DOMAIN file', i > Len(file)
               PROVE  i - Len(file) \in 1 .. Len(s) /\ file'[i] = s[i - Len(file)]
    OBVIOUS
  <2>1. i \in 1 .. (Len(file) + Len(s))
    BY <1>1
  <2> QED BY <1>2, <2>1
<1>4. \A i \in DOMAIN file' : i > Len(file) => file'[i].batch = b
  BY <1>3
<1>5. CutAtEnd'
  <2> SUFFICES ASSUME NEW i \in DOMAIN file', file'[i].cut # "none" PROVE i = Len(file')
    BY DEF CutAtEnd
  <2>1. CASE i > Len(file)
    BY <1>1, <1>3, <2>1
  <2>2. CASE i <= Len(file)
    <3>1. i \in DOMAIN file /\ file'[i] = file[i]
      BY <1>1, <1>2, <2>2
    <3>2. i = Len(file) /\ OpenEnd(file)
      BY <3>1 DEF CutAtEnd, OpenEnd
    <3>3. s = <<>>
      BY <3>2
    <3> QED BY <1>1, <3>2, <3>3
  <2> QED BY <1>1, <2>1, <2>2
<1>6. Logged(file) \subseteq Logged(file)'
  BY SMTT(30), <1>1, <1>2 DEF Logged
<1>7. Logged(file)' \subseteq Logged(file) \cup {b}
  <2> SUFFICES ASSUME NEW i \in DOMAIN file' PROVE file'[i].batch \in Logged(file) \cup {b}
    BY DEF Logged
  <2>1. CASE i > Len(file)
    BY <1>4, <2>1
  <2>2. CASE i <= Len(file)
    BY <1>1, <1>2, <2>2 DEF Logged
  <2> QED BY <1>1, <2>1, <2>2
<1>8. ASSUME s # <<>> PROVE b \in Logged(file)'
  <2>1. 1 \in 1 .. Len(s) /\ s[1].batch = b
    BY <1>8
  <2>2. Len(file) + 1 \in DOMAIN file' /\ file'[Len(file) + 1] = s[1]
    BY <1>1, <1>2, <2>1
  <2> QED BY <2>1, <2>2 DEF Logged
<1> QED BY <1>1, <1>2, <1>4, <1>5, <1>6, <1>7, <1>8

\* The log has grown, by lines of one batch.
GrownBy(b) ==
  /\ file' \in Seq(LogRecord) /\ Len(file) <= Len(file')
  /\ \A i \in 1 .. Len(file) : file'[i] = file[i]
  /\ \A i \in DOMAIN file' : i > Len(file) => file'[i].batch = b

\* Where another batch ends is not moved by that.
LEMMA EndsKept ==
  ASSUME file \in Seq(LogRecord), NEW b, GrownBy(b), NEW c, c # b
  PROVE  Ends(c)' = Ends(c) /\ (Whole(c) => Whole(c)')
<1>1. DOMAIN file \subseteq DOMAIN file'
  BY DEF GrownBy
<1>2. \A i \in DOMAIN file : file'[i] = file[i]
  BY DEF GrownBy
<1>3. \A i \in DOMAIN file' : file'[i].batch = c => i \in DOMAIN file
  BY DEF GrownBy
<1>4. Ends(c)' = Ends(c)
  BY <1>1, <1>2, <1>3 DEF Ends
<1>5. ASSUME Whole(c) PROVE Whole(c)'
  <2>1. PICK i \in DOMAIN file : /\ i > 1 /\ file[i - 1] = Line(c, 1, "none")
                                 /\ file[i] = Line(c, 2, "none")
    BY <1>5 DEF Whole
  <2>2. i - 1 \in DOMAIN file
    BY <2>1
  <2>3. i \in DOMAIN file' /\ file'[i - 1] = file[i - 1] /\ file'[i] = file[i]
    BY <1>1, <1>2, <2>1, <2>2
  <2> QED BY <2>1, <2>3 DEF Whole, Line
<1> QED BY <1>4, <1>5

\* The log keeps its word when it grows by a batch that was not acknowledged.
LEMMA WordKept ==
  ASSUME FilesTypeOK, LogKeepsItsWord, ~spoilt, NEW b, GrownBy(b),
         b \notin Range(acked), acked' = acked, CutAtEnd',
         Logged(file)' \cap refused' = {}
  PROVE  LogKeepsItsWord'
<1>1. file \in Seq(LogRecord) /\ acked \in Seq(Nat)
  BY DEF FilesTypeOK
<1>2. \A c \in Range(acked) :
        Ends(c)' = Ends(c) /\ (Whole(c) => Whole(c)')
  BY <1>1, EndsKept
<1>3. \A c \in Range(acked)' : Whole(c)'
  BY <1>2 DEF LogKeepsItsWord, Range
<1>4. \A i \in DOMAIN acked : acked[i] \in Range(acked)
  BY DEF Range
<1>5. \A i, j \in DOMAIN acked' : \A m \in Ends(acked[i])', n \in Ends(acked[j])' : i < j <=> m < n
  <2> SUFFICES ASSUME NEW i \in DOMAIN acked, NEW j \in DOMAIN acked,
                      NEW m \in Ends(acked[i])', NEW n \in Ends(acked[j])'
               PROVE  i < j <=> m < n
    OBVIOUS
  <2>1. PICK c \in Range(acked), d \in Range(acked) :
               c = acked[i] /\ d = acked[j] /\ c = acked'[i] /\ d = acked'[j]
    BY <1>4
  <2>2. \A x \in Ends(c), y \in Ends(d) : i < j <=> x < y
    BY <2>1 DEF LogKeepsItsWord
  <2>3. m \in Ends(c)' /\ n \in Ends(d)'
    BY <2>1 DEF Ends
  <2> QED BY <1>2, <2>2, <2>3
<1>6. \A i \in DOMAIN file' : file'[i].cut = "inside" => i = Len(file')
  BY DEF CutAtEnd
<1> QED BY <1>3, <1>5, <1>6 DEF LogKeepsItsWord

\* And when the batch it grows by is whole, last, and acknowledged.
LEMMA WordGiven ==
  ASSUME FilesTypeOK, LogKeepsItsWord, ~spoilt, NEW b \in Nat, GrownBy(b),
         b \notin Range(acked) \cup Logged(file), acked' = Append(acked, b),
         Len(file') = Len(file) + 2,
         file'[Len(file) + 1] = Line(b, 1, "none"),
         file'[Len(file) + 2] = Line(b, 2, "none"),
         CutAtEnd', Logged(file)' \cap refused' = {}
  PROVE  LogKeepsItsWord'
<1>1. file \in Seq(LogRecord) /\ acked \in Seq(Nat)
  BY DEF FilesTypeOK
<1>2. \A c \in Range(acked) :
        Ends(c)' = Ends(c) /\ (Whole(c) => Whole(c)')
  BY <1>1, EndsKept
<1>3. /\ Len(acked') = Len(acked) + 1 /\ acked'[Len(acked) + 1] = b
      /\ \A i \in DOMAIN acked : acked'[i] = acked[i] /\ acked[i] \in Range(acked)
  <2>1. /\ Len(acked') = Len(acked) + 1 /\ acked'[Len(acked) + 1] = b
        /\ \A i \in 1 .. Len(acked) : acked'[i] = acked[i]
    BY <1>1
  <2>2. DOMAIN acked = 1 .. Len(acked)
    BY <1>1
  <2> QED BY <2>1, <2>2 DEF Range
<1>4. \A i \in DOMAIN acked' : i \in DOMAIN acked \/ i = Len(acked) + 1
  BY <1>1, <1>3
<1>5. Range(acked)' \subseteq Range(acked) \cup {b}
  BY <1>3, <1>4 DEF Range
<1>6. Whole(b)'
  <2>1. Len(file) + 2 \in DOMAIN file' /\ Len(file) + 2 > 1 /\ (Len(file) + 2) - 1 = Len(file) + 1
    BY <1>1 DEF GrownBy
  <2> QED BY <2>1 DEF Whole, Line
<1>7. \A c \in Range(acked)' : Whole(c)'
  BY <1>2, <1>5, <1>6 DEF LogKeepsItsWord
<1>8. Ends(b)' = {Len(file) + 2}
  <2>1. \A i \in DOMAIN file : file[i].batch # b
    BY DEF Logged
  <2>2. \A i \in DOMAIN file' : i \in DOMAIN file \/ i = Len(file) + 1 \/ i = Len(file) + 2
    <3>1. DOMAIN file = 1 .. Len(file) /\ DOMAIN file' = 1 .. (Len(file) + 2) /\ Len(file) \in Nat
      BY <1>1 DEF GrownBy
    <3> QED BY <3>1
  <2>3. \A i \in DOMAIN file : file'[i] = file[i]
    BY DEF GrownBy
  <2>4. Len(file) + 2 \in DOMAIN file'
    BY <1>1 DEF GrownBy
  <2> QED BY <2>1, <2>2, <2>3, <2>4 DEF Ends, Line
<1>9. \A c \in Range(acked) : \A m \in Ends(c) : m \in Nat /\ m < Len(file) + 2
  BY <1>1 DEF Ends
<1>10. \A i, j \in DOMAIN acked' : \A m \in Ends(acked[i])', n \in Ends(acked[j])' : i < j <=> m < n
  <2> SUFFICES ASSUME NEW i \in DOMAIN acked', NEW j \in DOMAIN acked',
                      NEW m \in Ends(acked[i])', NEW n \in Ends(acked[j])'
               PROVE  i < j <=> m < n
    OBVIOUS
  <2>1. ASSUME NEW k \in DOMAIN acked, NEW x \in Ends(acked[k])'
        PROVE  \E c \in Range(acked) : c = acked[k] /\ x \in Ends(c)
    <3>1. PICK c \in Range(acked) : c = acked[k] /\ c = acked'[k]
      BY <1>3
    <3>2. x \in Ends(c)'
      BY <2>1, <3>1 DEF Ends
    <3> QED BY <1>2, <3>1, <3>2
  <2>2. ASSUME NEW k, k = Len(acked) + 1, NEW x \in Ends(acked[k])'
        PROVE  x = Len(file) + 2
    <3>1. x \in Ends(b)'
      BY <1>3, <2>2 DEF Ends
    <3> QED BY <1>8, <3>1
  <2>3. CASE i \in DOMAIN acked /\ j \in DOMAIN acked
    <3>1. PICK c \in Range(acked) : c = acked[i] /\ m \in Ends(c)
      BY <2>1, <2>3
    <3>2. PICK d \in Range(acked) : d = acked[j] /\ n \in Ends(d)
      BY <2>1, <2>3
    <3> QED BY <2>3, <3>1, <3>2 DEF LogKeepsItsWord
  <2>4. CASE i \in DOMAIN acked /\ j = Len(acked) + 1
    <3>1. i < j
      BY <1>1, <2>4
    <3>2. m \in Nat /\ m < Len(file) + 2
      BY <1>9, <2>1, <2>4
    <3>3. n = Len(file) + 2
      BY <2>2, <2>4
    <3> QED BY <3>1, <3>2, <3>3
  <2>5. CASE i = Len(acked) + 1 /\ j \in DOMAIN acked
    <3>1. ~(i < j)
      BY <1>1, <2>5
    <3>2. n \in Nat /\ n < Len(file) + 2
      BY <1>9, <2>1, <2>5
    <3>3. m = Len(file) + 2
      BY <2>2, <2>5
    <3> QED BY <1>1, <3>1, <3>2, <3>3
  <2>6. CASE i = Len(acked) + 1 /\ j = Len(acked) + 1
    <3>1. m = Len(file) + 2 /\ n = Len(file) + 2
      BY <2>2, <2>6
    <3> QED BY <1>1, <2>6, <3>1
  <2> QED BY <1>4, <2>3, <2>4, <2>5, <2>6
<1>11. \A i \in DOMAIN file' : file'[i].cut = "inside" => i = Len(file')
  BY DEF CutAtEnd
<1> QED BY <1>7, <1>10, <1>11 DEF LogKeepsItsWord

-----------------------------------------------------------------------------
\* Every step keeps the types of the files and of the runtimes.
LEMMA FilesTypeStep ==
  ASSUME FilesTypeOK, [FilesNext]_filesVars
  PROVE  FilesTypeOK'
<1> USE DEF FilesTypeOK, bounds, answers
<1>1. ASSUME NEW p \in Host, Open(p) PROVE FilesTypeOK'
  <2>1. Logged(file) \subseteq Nat
    <3>1. \A i \in DOMAIN file : file[i] \in LogRecord
      OBVIOUS
    <3> QED BY <3>1 DEF Logged, LogRecord
  <2>2. [log |-> Logged(file), state |-> snap.state] \in Runtime
    BY <2>1 DEF Runtime
  <2> QED BY <1>1, <2>2, FilesAssumption DEF Open
<1>2. ASSUME NEW p \in Host, CloseWorld(p) PROVE FilesTypeOK'
  BY <1>2 DEF CloseWorld
<1>3. ASSUME NEW p \in Host, Begin(p) PROVE FilesTypeOK'
  <2>1. rt[p] \in Runtime
    BY <1>3 DEF Begin
  <2>2. [batch |-> batches + 1, offset |-> Len(file), before |-> rt[p].state] \in Writing
    BY <2>1 DEF Runtime, Writing
  <2>3. writing' \in [Host -> Writing \cup {None}]
    BY <1>3, <2>2 DEF Begin
  <2>4. [rt[p] EXCEPT !.state = rt[p].state \cup {batches + 1}] \in Runtime
    BY <2>1 DEF Runtime
  <2>5. rt' = [rt EXCEPT ![p] = [rt[p] EXCEPT !.state = rt[p].state \cup {batches + 1}]]
    BY <1>3 DEF Begin
  <2>6. rt' \in [Host -> Runtime \cup {None}] /\ rt'[p] # None
        /\ \A q \in Host : rt[q] # None => rt'[q] # None
    <3> DEFINE r == [rt[p] EXCEPT !.state = rt[p].state \cup {batches + 1}]
    <3>1. r \in Runtime /\ r # None /\ rt' = [rt EXCEPT ![p] = r]
      BY <2>4, <2>5, FilesAssumption
    <3> HIDE DEF r
    <3> QED BY <3>1
  <2>7. \A q \in Host : writing'[q] # None => rt'[q] # None
    BY <1>3, <2>6 DEF Begin
  <2> QED BY <1>3, <2>3, <2>6, <2>7 DEF Begin
<1>4. ASSUME NEW p \in Host, Written(p) PROVE FilesTypeOK'
  <2> DEFINE b == writing[p].batch
  <2>1. writing[p] \in Writing /\ rt[p] \in Runtime /\ b \in Nat
    BY <1>4 DEF Written, Writing
  <2>2. file' \in Seq(LogRecord)
    BY <1>4, <2>1, BatchType, AppendedType DEF Written
  <2>3. [rt[p] EXCEPT !.log = rt[p].log \cup {b}] \in Runtime
    BY <2>1 DEF Runtime
  <2>4. rt' = [rt EXCEPT ![p] = [rt[p] EXCEPT !.log = rt[p].log \cup {b}]]
    BY <1>4 DEF Written
  <2>5. rt' \in [Host -> Runtime \cup {None}]
        /\ \A q \in Host : rt[q] # None => rt'[q] # None
    BY <2>3, <2>4, FilesAssumption
  <2>6. acked' \in Seq(Nat) /\ spoilt' \in BOOLEAN
    BY <1>4, <2>1 DEF Written
  <2> QED BY <1>4, <2>2, <2>5, <2>6 DEF Written
<1>5. ASSUME NEW p \in Host, Refused(p) PROVE FilesTypeOK'
  <2>1. writing[p] \in Writing /\ rt[p] \in Runtime
    BY <1>5 DEF Refused
  <2>2. writing[p].batch \in Nat /\ writing[p].offset \in Nat /\ writing[p].before \subseteq Nat
    BY <2>1 DEF Writing
  <2>3. PICK cut \in Cuts(writing[p].batch) :
             \/ /\ file' = Undone(file, cut, writing[p].offset)
                /\ spoilt' = (spoilt \/ Len(file) # writing[p].offset)
             \/ file' = Appended(file, cut) /\ spoilt' = TRUE
    BY <1>5 DEF Refused
  <2>4. cut \in Seq(LogRecord)
    BY <2>2, CutsType
  <2>5. file' \in Seq(LogRecord) /\ spoilt' \in BOOLEAN
    <3>1. Undone(file, cut, writing[p].offset) \in Seq(LogRecord)
      BY <2>2, <2>4, UndoneType
    <3>2. Appended(file, cut) \in Seq(LogRecord)
      BY <2>4, AppendedType
    <3> QED BY <2>3, <3>1, <3>2
  <2>6. [rt[p] EXCEPT !.state = writing[p].before] \in Runtime
    BY <2>1, <2>2 DEF Runtime
  <2>7. rt' = [rt EXCEPT ![p] = [rt[p] EXCEPT !.state = writing[p].before]]
    BY <1>5 DEF Refused, StateAfter
  <2>8. rt' \in [Host -> Runtime \cup {None}]
        /\ \A q \in Host : rt[q] # None => rt'[q] # None
    BY <2>6, <2>7, FilesAssumption
  <2> QED BY <1>5, <2>2, <2>5, <2>8 DEF Refused
<1>6. ASSUME NEW p \in Host, Save(p) PROVE FilesTypeOK'
  <2>1. rt[p].state \subseteq Nat
    BY <1>6 DEF Save, Runtime
  <2> QED BY <1>6, <2>1 DEF Save
<1>7. ASSUME NEW p \in Host, Dies(p) PROVE FilesTypeOK'
  <2>1. /\ rt' = [rt EXCEPT ![p] = None] /\ writing' = [writing EXCEPT ![p] = None]
        /\ deaths' = deaths + 1 /\ UNCHANGED <<batches, faults, acked, refused>>
    BY <1>7 DEF Dies
  <2>2. CASE writing[p] = None
    <3>1. snap' \in {snap, [kind |-> "torn", state |-> {}]} /\ UNCHANGED <<file, spoilt>>
      BY <1>7, <2>2 DEF Dies
    <3>2. snap' \in [kind : {"none", "whole", "torn"}, state : SUBSET Nat]
      BY <3>1
    <3> QED BY <2>1, <3>1, <3>2
  <2>3. CASE writing[p] # None
    <3>1. writing[p].batch \in Nat
      BY <2>3 DEF Writing
    <3>2. PICK cut \in Cuts(writing[p].batch) :
               /\ file' = Appended(file, cut)
               /\ spoilt' = (spoilt \/ (cut # <<>> /\ OpenEnd(file)))
      BY <1>7, <2>3 DEF Dies
    <3>3. file' \in Seq(LogRecord) /\ spoilt' \in BOOLEAN
      BY <3>1, <3>2, CutsType, AppendedType
    <3> QED BY <1>7, <2>1, <2>3, <3>3 DEF Dies
  <2> QED BY <2>2, <2>3
<1>8. ASSUME UNCHANGED filesVars PROVE FilesTypeOK'
  BY <1>8 DEF filesVars
<1> QED BY <1>1, <1>2, <1>3, <1>4, <1>5, <1>6, <1>7, <1>8 DEF FilesNext

-----------------------------------------------------------------------------
(* An unspoilt log keeps its word, and the states are logged.              *)

\* What is said of the files alone stays true while they stay as they are.
LEMMA SameFiles ==
  ASSUME FilesInv, ~spoilt, UNCHANGED <<file, acked, refused>>,
         batches' \in Nat, batches <= batches'
  PROVE  LogKeepsItsWord' /\ Begun' /\ CutAtEnd'
<1>1. LogKeepsItsWord'
  BY DEF FilesInv, LogKeepsItsWord, Whole, Ends, Logged, Range
<1>2. Begun'
  <2>1. Logged(file)' = Logged(file) /\ Range(acked)' = Range(acked)
    BY DEF Logged, Range
  <2>2. 1 .. batches \subseteq 1 .. batches'
    BY DEF FilesInv, FilesTypeOK
  <2> QED BY <2>1, <2>2 DEF FilesInv, Begun
<1>3. CutAtEnd'
  BY DEF FilesInv, CutAtEnd
<1> QED BY <1>1, <1>2, <1>3

\* A step that touches neither the log nor an append.
LEMMA QuietStep ==
  ASSUME FilesInv, FilesTypeOK', ~spoilt,
         UNCHANGED <<file, acked, refused, batches, writing>>,
         \A p \in Host : writing[p] # None => rt'[p] = rt[p],
         StateIsLogged'
  PROVE  FilesInv'
<1>1. LogKeepsItsWord' /\ Begun' /\ CutAtEnd'
  BY SameFiles DEF FilesInv, FilesTypeOK
<1>2. Fresh'
  <2>1. Logged(file)' = Logged(file) /\ Range(acked)' = Range(acked)
    BY DEF Logged, Range
  <2> QED BY <2>1 DEF FilesInv, Fresh
<1>3. WritingIsNext'
  BY DEF FilesInv, WritingIsNext
<1> QED BY <1>1, <1>2, <1>3 DEF FilesInv

\* What a cut write of a fresh batch makes of a log that it does not spoil.
LEMMA CutStep ==
  ASSUME FilesInv, ~spoilt, NEW b \in Nat, NEW s \in Cuts(b),
         file' = Appended(file, s), ~(s # <<>> /\ OpenEnd(file))
  PROVE  /\ GrownBy(b) /\ CutAtEnd' /\ Len(file') = Len(file) + Len(s)
         /\ \A i \in 1 .. Len(s) : file'[Len(file) + i] = s[i]
         /\ Logged(file) \subseteq Logged(file)'
         /\ Logged(file)' \subseteq Logged(file) \cup {b}
         /\ s # <<>> => b \in Logged(file)'
<1>1. file \in Seq(LogRecord) /\ CutAtEnd
  BY DEF FilesInv, FilesTypeOK
<1>2. /\ s \in Seq(LogRecord)
      /\ \A i \in DOMAIN s : s[i].batch = b /\ (s[i].cut # "none" => i = Len(s))
  BY CutsType
<1>3. /\ file' = file \o s /\ Len(file') = Len(file) + Len(s)
      /\ \A i \in 1 .. Len(file) : file'[i] = file[i]
      /\ \A i \in 1 .. Len(s) : file'[Len(file) + i] = s[i]
      /\ \A i \in DOMAIN file' : i > Len(file) => file'[i].batch = b
      /\ CutAtEnd'
      /\ Logged(file) \subseteq Logged(file)'
      /\ Logged(file)' \subseteq Logged(file) \cup {b}
      /\ s # <<>> => b \in Logged(file)'
  BY <1>1, <1>2, Growth
<1>4. file' \in Seq(LogRecord) /\ Len(file) <= Len(file')
  BY <1>1, <1>2, <1>3
<1> QED BY <1>3, <1>4 DEF GrownBy

\* A process opens the world: it has no effect that the log it read has not.
LEMMA OpenStep ==
  ASSUME FilesInv, FilesTypeOK', NEW p \in Host, Open(p), ~spoilt
  PROVE  FilesInv'
<1> DEFINE r == [log |-> Logged(file), state |-> snap.state]
<1>1. /\ rt[p] = None /\ rt' = [rt EXCEPT ![p] = r]
      /\ UNCHANGED <<file, snap, writing, batches, acked, refused, spoilt>>
  BY DEF Open, bounds, answers
<1>2. writing[p] = None
  BY <1>1 DEF FilesInv, FilesTypeOK
<1>3. \A q \in Host : rt'[q] = IF q = p THEN r ELSE rt[q]
  BY <1>1 DEF FilesInv, FilesTypeOK
<1>4. StateIsLogged'
  BY <1>1, <1>3 DEF FilesInv, StateIsLogged, Logged
<1> QED BY <1>1, <1>2, <1>3, <1>4, QuietStep

\* A process ends between two calls.
LEMMA CloseStep ==
  ASSUME FilesInv, FilesTypeOK', NEW p \in Host, CloseWorld(p), ~spoilt
  PROVE  FilesInv'
<1>1. /\ writing[p] = None /\ rt' = [rt EXCEPT ![p] = None]
      /\ UNCHANGED <<file, snap, writing, batches, acked, refused, spoilt>>
  BY DEF CloseWorld, bounds, answers
<1>2. \A q \in Host : rt'[q] = IF q = p THEN None ELSE rt[q]
  BY <1>1 DEF FilesInv, FilesTypeOK
<1>3. StateIsLogged'
  BY <1>1, <1>2 DEF FilesInv, StateIsLogged, Logged
<1> QED BY <1>1, <1>2, <1>3, QuietStep

\* The snapshot is that of a runtime between two calls.
LEMMA SaveStep ==
  ASSUME FilesInv, FilesTypeOK', NEW p \in Host, Save(p), ~spoilt
  PROVE  FilesInv'
<1>1. /\ rt[p] # None /\ writing[p] = None /\ snap'.state = rt[p].state
      /\ UNCHANGED <<file, rt, writing, batches, acked, refused, spoilt>>
  BY DEF Save, bounds, answers
<1>2. rt[p].state \subseteq Logged(file)
  BY <1>1 DEF FilesInv, StateIsLogged
<1>3. StateIsLogged'
  BY <1>1, <1>2 DEF FilesInv, StateIsLogged, Logged
<1> QED BY <1>1, <1>3, QuietStep

\* A process begins an append: the batch is new.
LEMMA BeginStep ==
  ASSUME FilesInv, FilesTypeOK', NEW p \in Host,
         Begin(p), ~spoilt
  PROVE  FilesInv'
<1> DEFINE b == batches + 1
           w == [batch |-> b, offset |-> Len(file), before |-> rt[p].state]
<1>1. /\ rt[p] # None /\ writing[p] = None /\ batches' = b
      /\ writing' = [writing EXCEPT ![p] = w]
      /\ rt' = [rt EXCEPT ![p] = [rt[p] EXCEPT !.state = rt[p].state \cup {b}]]
      /\ UNCHANGED <<file, snap, acked, refused, spoilt>>
  BY DEF Begin, answers
<1>2. batches \in Nat /\ b \in Nat /\ 1 .. b = 1 .. batches \cup {b} /\ b \notin 1 .. batches
  BY DEF FilesInv, FilesTypeOK
<1>3. rt[p].state \subseteq rt[p].log /\ rt[p].log \subseteq Logged(file)
  BY <1>1 DEF FilesInv, StateIsLogged
<1>4. \A q \in Host : writing'[q] = IF q = p THEN w ELSE writing[q]
  BY <1>1 DEF FilesInv, FilesTypeOK
<1>5. /\ \A q \in Host \ {p} : rt'[q] = rt[q]
      /\ rt'[p].log = rt[p].log /\ rt'[p].state = rt[p].state \cup {b}
  <2>1. rt[p] \in Runtime
    BY <1>1 DEF FilesInv, FilesTypeOK
  <2>2. rt'[p] = [rt[p] EXCEPT !.state = rt[p].state \cup {b}]
    BY <1>1 DEF FilesInv, FilesTypeOK
  <2> QED BY <1>1, <2>1, <2>2 DEF Runtime, FilesInv, FilesTypeOK
<1>6. LogKeepsItsWord' /\ Begun' /\ CutAtEnd'
  BY <1>1, <1>2, SameFiles
<1>7. Logged(file)' = Logged(file) /\ Range(acked)' = Range(acked)
  BY <1>1 DEF Logged, Range
<1>8. b \notin Logged(file) \cup Range(acked) \cup refused
  BY <1>2 DEF FilesInv, Begun
<1>9. Fresh'
  <2>1. \A q \in Host \ {p} : writing[q] # None =>
          /\ writing[q].batch \in 1 .. b /\ writing[q].batch # b
          /\ writing[q].batch \notin Logged(file) \cup Range(acked) \cup refused
          /\ \A o \in Host : writing[o] # None /\ writing[o].batch = writing[q].batch => o = q
    BY <1>2 DEF FilesInv, Fresh
  <2>2. w.batch = b /\ b \in 1 .. b
    BY <1>2
  <2> HIDE DEF w, b
  <2> QED BY <1>1, <1>4, <1>7, <1>8, <2>1, <2>2 DEF Fresh
<1>10. WritingIsNext'
  <2>1. w.before = rt[p].state /\ w.batch = b
    OBVIOUS
  <2> HIDE DEF w, b
  <2> QED BY <1>3, <1>4, <1>5, <2>1 DEF FilesInv, WritingIsNext
<1>11. StateIsLogged'
  <2>1. writing'[p] # None
    <3>1. w \in Writing
      BY <1>1, <1>2 DEF Writing, FilesInv, FilesTypeOK, Runtime
    <3> QED BY <1>4, <3>1, FilesAssumption
  <2>2. Logged(file)' = Logged(file) /\ snap' = snap
    BY <1>1, <1>7
  <2>3. \A q \in Host \ {p} : writing'[q] = writing[q] /\ rt'[q] = rt[q]
    BY <1>4, <1>5
  <2> HIDE DEF w, b
  <2> QED BY <1>1, <1>3, <1>5, <2>1, <2>2, <2>3 DEF FilesInv, StateIsLogged
<1> QED BY <1>6, <1>9, <1>10, <1>11 DEF FilesInv

\* The batch is written and acknowledged, after a last line that is whole.
LEMMA WrittenStep ==
  ASSUME FilesInv, FilesTypeOK', NEW p \in Host, Written(p), ~spoilt, ~spoilt'
  PROVE  FilesInv'
<1> DEFINE b == writing[p].batch
<1>1. /\ writing[p] # None /\ file' = Appended(file, Batch(b))
      /\ ~OpenEnd(file) /\ acked' = Append(acked, b)
      /\ rt' = [rt EXCEPT ![p] = [rt[p] EXCEPT !.log = rt[p].log \cup {b}]]
      /\ writing' = [writing EXCEPT ![p] = None]
      /\ UNCHANGED <<snap, batches, refused>>
  BY DEF Written, bounds
<1>2. /\ b \in Nat /\ b \in 1 .. batches
      /\ b \notin Logged(file) \cup Range(acked) \cup refused
      /\ \A q \in Host : writing[q] # None /\ writing[q].batch = b => q = p
  BY <1>1 DEF FilesInv, Fresh
<1>3. /\ writing[p].before \subseteq rt[p].log /\ rt[p].state \subseteq rt[p].log \cup {b}
      /\ rt[p] \in Runtime /\ rt[p].log \subseteq Logged(file)
  BY <1>1 DEF FilesInv, WritingIsNext, FilesTypeOK, StateIsLogged
<1>4. /\ Batch(b) \in Cuts(b) /\ Len(Batch(b)) = 2 /\ Batch(b) # <<>>
      /\ Batch(b)[1] = Line(b, 1, "none") /\ Batch(b)[2] = Line(b, 2, "none")
  BY <1>2, BatchType
<1>5. /\ GrownBy(b) /\ CutAtEnd' /\ Len(file') = Len(file) + 2
      /\ file'[Len(file) + 1] = Line(b, 1, "none")
      /\ file'[Len(file) + 2] = Line(b, 2, "none")
      /\ Logged(file) \subseteq Logged(file)'
      /\ Logged(file)' \subseteq Logged(file) \cup {b}
      /\ b \in Logged(file)'
  <2> HIDE DEF b
  <2> DEFINE t == Batch(b)
  <2>1. t \in Cuts(b) /\ Len(t) = 2 /\ ~(t # <<>> /\ OpenEnd(file))
        /\ file' = Appended(file, t) /\ t # <<>>
        /\ t[1] = Line(b, 1, "none") /\ t[2] = Line(b, 2, "none")
    BY <1>1, <1>4
  <2> HIDE DEF t
  <2>2. /\ GrownBy(b) /\ CutAtEnd' /\ Len(file') = Len(file) + Len(t)
        /\ \A i \in 1 .. Len(t) : file'[Len(file) + i] = t[i]
        /\ Logged(file) \subseteq Logged(file)'
        /\ Logged(file)' \subseteq Logged(file) \cup {b}
        /\ t # <<>> => b \in Logged(file)'
    BY <1>2, <2>1, CutStep
  <2> QED BY <2>1, <2>2
<1>6. /\ \A q \in Host : writing'[q] = IF q = p THEN None ELSE writing[q]
      /\ \A q \in Host \ {p} : rt'[q] = rt[q]
      /\ rt'[p].log = rt[p].log \cup {b} /\ rt'[p].state = rt[p].state
  BY <1>1, <1>3 DEF FilesInv, FilesTypeOK, Runtime
<1> HIDE DEF b
<1>7. Range(acked)' = Range(acked) \cup {b}
  <2>1. acked \in Seq(Nat)
    BY DEF FilesInv, FilesTypeOK
  <2>2. /\ DOMAIN acked' = 1 .. (Len(acked) + 1) /\ acked'[Len(acked) + 1] = b
        /\ DOMAIN acked = 1 .. Len(acked) /\ Len(acked) \in Nat
        /\ \A i \in 1 .. Len(acked) : acked'[i] = acked[i]
    BY <1>1, <1>2, <2>1
  <2>3. \A i \in DOMAIN acked' : i \in DOMAIN acked \/ i = Len(acked) + 1
    BY <2>2
  <2>4. DOMAIN acked \subseteq DOMAIN acked' /\ Len(acked) + 1 \in DOMAIN acked'
    BY <2>2
  <2>5. Range(acked) = {acked[i] : i \in DOMAIN acked}
    BY DEF Range
  <2>6. Range(acked)' = {acked'[i] : i \in DOMAIN acked'}
    BY DEF Range
  <2> QED BY <2>2, <2>3, <2>4, <2>5, <2>6
<1>8. Logged(file)' \cap refused' = {}
  BY <1>1, <1>2, <1>5 DEF FilesInv, LogKeepsItsWord
<1>9. LogKeepsItsWord'
  BY <1>1, <1>2, <1>5, <1>8, WordGiven DEF FilesInv
<1>10. Begun'
  BY <1>1, <1>2, <1>5, <1>7 DEF FilesInv, Begun
<1>11. Fresh'
  BY <1>1, <1>2, <1>5, <1>6, <1>7 DEF FilesInv, Fresh
<1>12. WritingIsNext'
  BY <1>6 DEF FilesInv, WritingIsNext
<1>13. StateIsLogged'
  BY <1>1, <1>3, <1>5, <1>6 DEF FilesInv, StateIsLogged
<1> QED BY <1>5, <1>9, <1>10, <1>11, <1>12, <1>13 DEF FilesInv

\* The batch is refused, its write undone: the log is as it was when it began.
LEMMA RefusedStep ==
  ASSUME FilesInv, FilesTypeOK', NEW p \in Host, Refused(p), ~spoilt, ~spoilt'
  PROVE  FilesInv'
<1> DEFINE b == writing[p].batch
<1>1. /\ writing[p] # None /\ refused' = refused \cup {b}
      /\ rt' = [rt EXCEPT ![p] = [rt[p] EXCEPT !.state = writing[p].before]]
      /\ writing' = [writing EXCEPT ![p] = None]
      /\ UNCHANGED <<snap, batches, acked>>
  BY DEF Refused, StateAfter
<1>2. file' = file
  <2>1. PICK cut : file' = Undone(file, cut, writing[p].offset) /\ Len(file) = writing[p].offset
    BY DEF Refused
  <2> QED BY <2>1 DEF Undone
<1>3. /\ b \in Nat /\ b \in 1 .. batches
      /\ b \notin Logged(file) \cup Range(acked) \cup refused
      /\ \A q \in Host : writing[q] # None /\ writing[q].batch = b => q = p
  BY <1>1 DEF FilesInv, Fresh
<1>4. writing[p].before \subseteq rt[p].log /\ rt[p] \in Runtime /\ rt[p].log \subseteq Logged(file)
  BY <1>1 DEF FilesInv, WritingIsNext, FilesTypeOK, StateIsLogged
<1>5. /\ \A q \in Host : writing'[q] = IF q = p THEN None ELSE writing[q]
      /\ \A q \in Host \ {p} : rt'[q] = rt[q]
      /\ rt'[p].log = rt[p].log /\ rt'[p].state = writing[p].before
  BY <1>1, <1>4 DEF FilesInv, FilesTypeOK, Runtime
<1> HIDE DEF b
<1>6. /\ Logged(file)' = Logged(file) /\ Range(acked)' = Range(acked)
      /\ CutAtEnd'
  BY <1>1, <1>2 DEF Logged, Range, FilesInv, CutAtEnd
<1>7. LogKeepsItsWord'
  <2>1. GrownBy(b)
    BY <1>2 DEF GrownBy, FilesInv, FilesTypeOK
  <2>2. Logged(file)' \cap refused' = {}
    BY <1>1, <1>3, <1>6 DEF FilesInv, LogKeepsItsWord
  <2> QED BY <1>1, <1>3, <1>6, <2>1, <2>2, WordKept DEF FilesInv
<1>8. Begun'
  BY <1>1, <1>3, <1>6 DEF FilesInv, Begun
<1>9. Fresh'
  BY <1>1, <1>3, <1>5, <1>6 DEF FilesInv, Fresh
<1>10. WritingIsNext'
  BY <1>5 DEF FilesInv, WritingIsNext
<1>11. StateIsLogged'
  BY <1>1, <1>4, <1>5, <1>6 DEF FilesInv, StateIsLogged
<1> QED BY <1>6, <1>7, <1>8, <1>9, <1>10, <1>11 DEF FilesInv

\* A process dies: what it was writing was not acknowledged.
LEMMA CrashStep ==
  ASSUME FilesInv, FilesTypeOK', NEW p \in Host, Dies(p), ~spoilt, ~spoilt'
  PROVE  FilesInv'
<1>1. /\ rt' = [rt EXCEPT ![p] = None] /\ writing' = [writing EXCEPT ![p] = None]
      /\ UNCHANGED <<batches, acked, refused>>
  BY DEF Dies
<1>2. /\ \A q \in Host : rt'[q] = IF q = p THEN None ELSE rt[q]
      /\ \A q \in Host : writing'[q] = IF q = p THEN None ELSE writing[q]
  BY <1>1 DEF FilesInv, FilesTypeOK
<1>3. CASE writing[p] = None
  <2>1. UNCHANGED file /\ snap' \in {snap, [kind |-> "torn", state |-> {}]}
    BY <1>3 DEF Dies
  <2>2. writing' = writing
    BY <1>1, <1>3 DEF FilesInv, FilesTypeOK
  <2>3. StateIsLogged'
    BY <1>2, <2>1 DEF FilesInv, StateIsLogged, Logged
  <2> QED BY <1>1, <1>2, <1>3, <2>1, <2>2, <2>3, QuietStep
<1>4. CASE writing[p] # None
  <2> DEFINE b == writing[p].batch
  <2>1. PICK cut \in Cuts(b) :
             /\ file' = Appended(file, cut)
             /\ ~(cut # <<>> /\ OpenEnd(file)) /\ snap' = snap
    BY <1>4 DEF Dies
  <2>2. /\ b \in Nat /\ b \in 1 .. batches
        /\ b \notin Logged(file) \cup Range(acked) \cup refused
        /\ \A q \in Host : writing[q] # None /\ writing[q].batch = b => q = p
    BY <1>4, <2>1 DEF FilesInv, Fresh
  <2> HIDE DEF b
  <2>3. /\ GrownBy(b) /\ CutAtEnd'
        /\ Logged(file) \subseteq Logged(file)'
        /\ Logged(file)' \subseteq Logged(file) \cup {b}
    BY <2>1, <2>2, CutStep
  <2>4. Range(acked)' = Range(acked)
    BY <1>1 DEF Range
  <2>5. Logged(file)' \cap refused' = {}
    BY <1>1, <2>2, <2>3 DEF FilesInv, LogKeepsItsWord
  <2>6. LogKeepsItsWord'
    BY <1>1, <2>2, <2>3, <2>5, WordKept DEF FilesInv
  <2>7. Begun'
    BY <1>1, <2>2, <2>3, <2>4 DEF FilesInv, Begun
  <2>8. Fresh'
    BY <1>1, <1>2, <2>2, <2>3, <2>4 DEF FilesInv, Fresh
  <2>9. WritingIsNext'
    BY <1>2 DEF FilesInv, WritingIsNext
  <2>10. StateIsLogged'
    BY <1>2, <2>1, <2>3 DEF FilesInv, StateIsLogged
  <2> QED BY <2>3, <2>6, <2>7, <2>8, <2>9, <2>10 DEF FilesInv
<1> QED BY <1>3, <1>4

\* The invariant of the files.
THEOREM FilesInvariance == FilesSpec => []FilesInv
<1>1. FilesInit => FilesInv
  <2> SUFFICES ASSUME FilesInit PROVE FilesInv
    OBVIOUS
  <2>1. FilesTypeOK
    <3>1. /\ file \in Seq(LogRecord) /\ acked \in Seq(Nat)
          /\ snap \in [kind : {"none", "whole", "torn"}, state : SUBSET Nat]
      BY DEF FilesInit
    <3>2. /\ rt \in [Host -> Runtime \cup {None}]
          /\ writing \in [Host -> Writing \cup {None}]
          /\ \A p \in Host : writing[p] = None
      BY DEF FilesInit
    <3> QED BY <3>1, <3>2 DEF FilesInit, FilesTypeOK
  <2>2. ~spoilt /\ file = <<>> /\ acked = <<>> /\ refused = {} /\ snap.state = {}
        /\ \A p \in Host : rt[p] = None /\ writing[p] = None
    BY DEF FilesInit
  <2>3. Logged(file) = {} /\ Range(acked) = {}
    BY <2>2 DEF Logged, Range
  <2> QED
    BY <2>1, <2>2, <2>3 DEF FilesInv, Begun, Fresh, CutAtEnd,
         WritingIsNext, LogKeepsItsWord, StateIsLogged
<1>2. FilesInv /\ [FilesNext]_filesVars => FilesInv'
  <2> SUFFICES ASSUME FilesInv, [FilesNext]_filesVars PROVE FilesInv'
    OBVIOUS
  <2>1. FilesTypeOK'
    BY FilesTypeStep DEF FilesInv
  <2>2. CASE spoilt'
    BY <2>1, <2>2 DEF FilesInv, LogKeepsItsWord, StateIsLogged
  <2>3. CASE ~spoilt'
    <3>1. ~spoilt
      <4>1. UNCHANGED filesVars => UNCHANGED spoilt
        BY DEF filesVars, answers
      <4>2. ASSUME NEW p \in Host, Open(p) \/ CloseWorld(p) \/ Begin(p) \/ Save(p)
            PROVE  UNCHANGED spoilt
        BY <4>2 DEF Open, CloseWorld, Begin, Save, answers
      <4>3. ASSUME NEW p \in Host, Written(p) PROVE spoilt => spoilt'
        BY <4>3 DEF Written
      <4>4. ASSUME NEW p \in Host, Refused(p) PROVE spoilt => spoilt'
        BY <4>4 DEF Refused
      <4>5. ASSUME NEW p \in Host, Dies(p) PROVE spoilt => spoilt'
        BY <4>5 DEF Dies
      <4> QED BY <2>3, <4>1, <4>2, <4>3, <4>4, <4>5 DEF FilesNext
    <3>2. CASE UNCHANGED filesVars
      <4>1. UNCHANGED <<file, snap, rt, writing, batches, acked, refused, spoilt>>
        BY <3>2 DEF filesVars, bounds, answers
      <4>2. StateIsLogged'
        BY <4>1 DEF FilesInv, StateIsLogged, Logged
      <4> QED BY <2>1, <3>1, <4>1, <4>2, QuietStep
    <3>3. CASE FilesNext
      BY <2>1, <2>3, <3>1, <3>3, OpenStep, CloseStep, SaveStep, BeginStep, WrittenStep,
         RefusedStep, CrashStep DEF FilesNext
    <3> QED BY <3>2, <3>3
  <2> QED BY <2>2, <2>3
<1> QED BY <1>1, <1>2, PTL DEF FilesSpec

\* The log keeps its word (LogKeepsItsWord of WorldFiles), for any processes, any
\* number of batches, deaths and failures, and every cut of a write.
THEOREM LogKept == FilesSpec => []LogKeepsItsWord
<1>1. FilesInv => LogKeepsItsWord
  BY DEF FilesInv
<1> QED BY <1>1, FilesInvariance, PTL

\* No state has an effect that the log lacks (StateIsLogged of WorldFiles).
THEOREM StateLogged == FilesSpec => []StateIsLogged
<1>1. FilesInv => StateIsLogged
  BY DEF FilesInv
<1> QED BY <1>1, FilesInvariance, PTL

=============================================================================
