--------------------------- MODULE OwnershipLease ---------------------------
(***************************************************************************)
(* RuntimeOwnershipLeaseStore of                                           *)
(* src/compilableworld_mcp/runtime_ownership.py: the exclusive lease on    *)
(* one (world, runtime) pair, shared by hosts through a SQLite file.       *)
(*                                                                         *)
(* acquire and recover are one transaction each (BEGIN IMMEDIATE).  The    *)
(* others read first and write later: require() reads and checks the       *)
(* record, the UPDATE that marks it expired, or the _write() of renew and  *)
(* release with a whole record made from what was read, is a transaction   *)
(* of its own.  Hosts that share the file interleave between the two       *)
(* (Serial = FALSE); behind one coordination server, whose handlers run to *)
(* completion on its event loop, they do not (Serial = TRUE).              *)
(*                                                                         *)
(* The clock is the machine's, in units of the lease; reading it and       *)
(* obtaining the database lock are one step.  `revision' and `issued_at'   *)
(* decide nothing and are left out.                                        *)
(***************************************************************************)
EXTENDS Integers, Hosts

CONSTANTS
  OwnerId,    \* configured owner identities
  OwnerOf,    \* [Host -> OwnerId]; a restarted host is another Host
  TTL,        \* ttl_seconds
  Serial,     \* do require, renew and release run without interleaving?
  Prunes,     \* does an operator call prune()?
  MaxTime,    \* bound: no lease reaches beyond this time
  MaxLeases   \* bound: so many leases are issued

Lease  == [owner : OwnerId, lease : Nat, expires : Nat, token : Nat]
Record == [owner : OwnerId, lease : Nat, expires : Nat, token : Nat,
           status : {"active", "expired", "released"}]

ASSUME HostAssumption == OwnerOf \in [Host -> OwnerId]
ASSUME BoundAssumption == TTL \in Nat \ {0} /\ MaxTime \in Nat /\ MaxLeases \in Nat
ASSUME ModeAssumption == Serial \in BOOLEAN /\ Prunes \in BOOLEAN
ASSUME NoneAssumption == None \notin Lease /\ None \notin Record

VARIABLES
  now,        \* int(time.time())
  rec,        \* the row of the runtime, or None
  grant,      \* the RuntimeLeaseGrant each host keeps, or None
  pending,    \* the record a host's call has read and has yet to write, or None
  issued,     \* number of leases issued: the next uuid4
  newest,     \* history: the latest lease issued to each owner, 0 if none
  highest     \* history: the highest fencing token ever issued

vars == <<now, rec, grant, pending, issued, newest, highest>>
history == <<issued, newest, highest>>

-----------------------------------------------------------------------------
Init ==
  /\ now = 0 /\ rec = None
  /\ grant = [h \in Host |-> None] /\ pending = [h \in Host |-> None]
  /\ issued = 0 /\ newest = [o \in OwnerId |-> 0] /\ highest = 0

Tick ==
  /\ now < MaxTime /\ now' = now + 1
  /\ UNCHANGED <<rec, grant, pending, history>>

WithinBounds == now + TTL <= MaxTime

\* Mutant of NextToken: a released lease starts the tokens anew.
NextTokenAfresh == IF rec = None \/ rec.status = "released" THEN 1 ELSE rec.token + 1

NextToken == IF rec = None THEN 1 ELSE rec.token + 1

Larger(x, y) == IF x > y THEN x ELSE y

\* A new lease for host h, recorded and returned in one transaction.
Grant(h) ==
  /\ pending[h] = None
  /\ WithinBounds /\ issued < MaxLeases
  /\ rec' = [owner |-> OwnerOf[h], lease |-> issued + 1, expires |-> now + TTL,
             token |-> NextToken, status |-> "active"]
  /\ grant' = [grant EXCEPT ![h] = [owner |-> OwnerOf[h], lease |-> issued + 1,
                                    expires |-> now + TTL, token |-> NextToken]]
  /\ issued' = issued + 1
  /\ newest' = [newest EXCEPT ![OwnerOf[h]] = issued + 1]
  /\ highest' = Larger(highest, NextToken)
  /\ UNCHANGED <<now, pending>>

Active == rec # None /\ rec.status = "active"

\* Mutant of Free: a lease is free only once somebody noticed that it expired.
FreeWhenMarked == ~Active

\* acquire() finds no record, one that ended, or one that expired by now.
Free == Active => rec.expires <= now

Acquire(h) == Free /\ Grant(h)

\* Mutant of MayRecover: any owner may recover an unexpired lease.
MayRecoverAny(h) == TRUE

\* recover() also takes an unexpired lease of the same owner.
MayRecover(h) == ~Free => rec.owner = OwnerOf[h]

Recover(h) == MayRecover(h) /\ Grant(h)

\* require() returns the record: unexpired, and the one of this grant.
Required(h) ==
  /\ grant[h] # None /\ pending[h] = None
  /\ Active /\ rec.expires > now
  /\ rec.owner = grant[h].owner /\ rec.lease = grant[h].lease
  /\ rec.token = grant[h].token

\* What the host keeps of the lease once record r is written: an expiry that
\* require() noticed is raised, and the host is left with what it had.
Kept(h, r) ==
  IF r.status = "released" THEN None
  ELSE IF r.status = "expired" THEN grant[h]
  ELSE [owner |-> grant[h].owner, lease |-> grant[h].lease,
        expires |-> r.expires, token |-> grant[h].token]

\* The record as its status changes.
Marked(r, s) ==
  [owner |-> r.owner, lease |-> r.lease, expires |-> r.expires,
   token |-> r.token, status |-> s]

\* The row after the UPDATE: a row that was pruned meanwhile stays away, and
\* "expired" is written over any active record, not only the one that was read.
Stored(r) ==
  IF rec = None \/ (r.status = "expired" /\ ~Active) THEN rec
  ELSE IF r.status = "expired" THEN Marked(rec, "expired")
  ELSE r

\* The second transaction, here or later.
Update(h, r) ==
  IF Serial
  THEN /\ rec' = Stored(r) /\ grant' = [grant EXCEPT ![h] = Kept(h, r)]
       /\ UNCHANGED <<now, pending, history>>
  ELSE /\ pending' = [pending EXCEPT ![h] = r]
       /\ UNCHANGED <<now, rec, grant, history>>

\* require() raises, but the expiry it noticed is written.
Lapse(h) ==
  /\ grant[h] # None /\ pending[h] = None
  /\ Active /\ rec.expires <= now
  /\ Update(h, Marked(rec, "expired"))

Renew(h) ==
  /\ Required(h) /\ WithinBounds
  /\ Update(h, [owner |-> rec.owner, lease |-> rec.lease, expires |-> now + TTL,
                token |-> rec.token, status |-> rec.status])

Release(h) == Required(h) /\ Update(h, Marked(rec, "released"))

Write(h) ==
  /\ pending[h] # None
  /\ rec' = Stored(pending[h])
  /\ grant' = [grant EXCEPT ![h] = Kept(h, pending[h])]
  /\ pending' = [pending EXCEPT ![h] = None]
  /\ UNCHANGED <<now, history>>

Prune ==
  /\ Prunes
  /\ rec # None /\ rec.status # "active" /\ rec.expires <= now
  /\ rec' = None
  /\ UNCHANGED <<now, grant, pending, history>>

Crash(h) ==
  /\ grant[h] # None
  /\ grant' = [grant EXCEPT ![h] = None]
  /\ pending' = [pending EXCEPT ![h] = None]
  /\ UNCHANGED <<now, rec, history>>

HostStep(h) ==
  \/ Acquire(h) \/ Recover(h) \/ Lapse(h)
  \/ Renew(h) \/ Release(h) \/ Write(h) \/ Crash(h)

Next == Tick \/ Prune \/ \E h \in Host : HostStep(h)

Spec == Init /\ [][Next]_vars

\* Time passes; a host that began to write writes or dies.
FairSpec == Spec /\ WF_vars(Tick) /\ \A h \in Host : WF_vars(Write(h))

-----------------------------------------------------------------------------
\* Every variable has its type, every lease is one that was issued, and what a
\* host has yet to write is an expiry or about the lease it holds.
TypeOK ==
  /\ now \in Nat /\ issued \in Nat /\ highest \in Nat
  /\ newest \in [OwnerId -> Nat]
  /\ rec \in Record \cup {None}
  /\ grant \in [Host -> Lease \cup {None}]
  /\ pending \in [Host -> Record \cup {None}]
  /\ rec # None => rec.lease <= issued
  /\ \A h \in Host : grant[h] # None =>
       grant[h].lease <= issued /\ grant[h].owner = OwnerOf[h]
  /\ \A h \in Host : pending[h] # None =>
       /\ ~Serial /\ grant[h] # None
       /\ pending[h].status # "expired" => pending[h].lease = grant[h].lease

\* By its own clock the host may go on, and its owner did not recover the
\* lease elsewhere since.
Owns(h) ==
  /\ grant[h] # None
  /\ grant[h].expires > now
  /\ grant[h].lease = newest[OwnerOf[h]]

\* Two hosts of different owners never both own the runtime, whichever of them
\* renew, release, recover, crash or let their lease expire.
ExclusiveOwnership ==
  \A g, h \in Host : Owns(g) /\ Owns(h) => OwnerOf[g] = OwnerOf[h]

\* What makes it inductive: the record of a lease that is owned is that lease's,
\* still active, and expires no sooner than the host believes.
OwnedIsRecorded ==
  \A h \in Host : Owns(h) =>
    /\ Active
    /\ rec.owner = OwnerOf[h] /\ rec.lease = grant[h].lease
    /\ rec.expires >= grant[h].expires

\* A lease belongs to one host only, and none is newer than the issued ones.
LeasesApart ==
  /\ \A o \in OwnerId : newest[o] <= issued
  /\ \A g, h \in Host :
       (grant[g] # None /\ grant[h] # None /\ grant[g].lease = grant[h].lease) => g = h

LeaseInv == TypeOK /\ LeasesApart /\ OwnedIsRecorded

\* The record carries the highest token there is: consumers that reject lower
\* tokens reject every lease but the recorded one.
RecordHasHighest == IF rec = None THEN highest = 0 ELSE rec.token = highest

\* Every lease that is issued has a higher fencing token than all before it.
FencingGrows ==
  [][ \A h \in Host :
        (grant'[h] # None /\ issued' > issued /\ grant'[h].lease = issued')
          => grant'[h].token > highest ]_vars

\* A lease whose hosts are gone does not keep the runtime for ever.
OrphanIsFreed ==
  (Active /\ \A h \in Host : grant[h] # None => grant[h].lease # rec.lease) ~> Free

=============================================================================
