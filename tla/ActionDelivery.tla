--------------------------- MODULE ActionDelivery ---------------------------
(***************************************************************************)
(* How SecureActionMCPGateway.submit_action executes an action once per    *)
(* idempotency key and hands its receipt to the outbox, and how            *)
(* ActionCommitJournalStore.recover_outbox finishes what a crash left      *)
(* (src/compilableworld_mcp/action_gateway.py, action_ledger.py,           *)
(* action_journal.py and the enqueue of outbox.py).                        *)
(*                                                                         *)
(* Every request is a call of submit_action: `at' is where it stands       *)
(* between the calls of the three stores and of the kernel, each of which  *)
(* is one transaction.  An idempotency key stands for the pair of session  *)
(* and key; the action id is made afresh by every request, so a request    *)
(* names its action.  Of a result only the status of the kernel's receipt  *)
(* is kept.  Audit, durability projection and metadata decide nothing.     *)
(***************************************************************************)
EXTENDS Naturals

CONSTANTS
  Request,        \* calls of submit_action, client retries included
  Key,            \* idempotency keys
  Body,           \* normalized actions (fingerprints)
  KeyOf,          \* [Request -> Key]
  BodyOf,         \* [Request -> Body]
  None,           \* no row, no receipt, no reply
  SharedStore,    \* are journal and outbox one SQLite database?
  LedgerDurable,  \* is the reservation store a SQLite database?
  MaxCrashes,     \* bound: the host crashes so often
  MaxFaults       \* bound: a call raises so often

Receipt  == {"completed", "scheduled", "rejected"}
Accepted == {"completed", "scheduled"}

Reservation ==
  [body : Body, act : Request, status : {"reserved", "completed", "failed"},
   result : Receipt \cup {None}]
Entry ==
  [act : Request, created : Nat,
   status : {"prepared", "runtime_committed", "outbox_enqueued"},
   result : Receipt \cup {None}]
Place == {"new", "looked", "reserved", "prepared", "executed", "fallback",
          "recorded", "queued", "finish", "done"}

ASSUME RequestAssumption == KeyOf \in [Request -> Key] /\ BodyOf \in [Request -> Body]
ASSUME BoundAssumption == MaxCrashes \in Nat /\ MaxFaults \in Nat
ASSUME ModeAssumption == SharedStore \in BOOLEAN /\ LedgerDurable \in BOOLEAN
ASSUME NoneAssumption ==
  None \notin Receipt /\ None \notin Reservation /\ None \notin Entry /\ None # "refused"

VARIABLES
  ledger,     \* [Key -> reservation or None]: ActionReservationStore
  journal,    \* [Key -> entry or None]: ActionCommitJournalStore
  outbox,     \* [Request -> receipt or None]: the row with dedupe key action:<id>
  at,         \* where each request stands
  executed,   \* [Request -> receipt or None]: what the kernel did with its action
  reply,      \* [Request -> receipt, "refused" or None]: what the client was told
  rec,        \* recover_outbox(): where it stands, the entries it read, the current one
  created,    \* journal rows so far: orders them as created_at does
  crashes, faults

stores == <<ledger, journal, outbox>>
bounds == <<crashes, faults>>
vars == <<stores, at, executed, reply, rec, created, bounds>>

Idle == [at |-> "idle", todo |-> {}, key |-> None]

Init ==
  /\ ledger = [k \in Key |-> None] /\ journal = [k \in Key |-> None]
  /\ outbox = [r \in Request |-> None]
  /\ at = [r \in Request |-> "new"]
  /\ executed = [r \in Request |-> None] /\ reply = [r \in Request |-> None]
  /\ rec = Idle /\ created = 0 /\ crashes = 0 /\ faults = 0

-----------------------------------------------------------------------------
(* submit_action().                                                        *)

Go(r, place) == at' = [at EXCEPT ![r] = place]

\* The call returns, or raises ("refused").
Answer(r, what) ==
  /\ Go(r, "done")
  /\ reply' = [reply EXCEPT ![r] = what]

Held(r)    == ledger[KeyOf[r]] # None
Same(r)    == ledger[KeyOf[r]].body = BodyOf[r]
Settled(r) == ledger[KeyOf[r]].status # "reserved"

\* Mutant of Resolve: the fingerprint of the request is not compared.
ResolveAnyBody(r) ==
  Answer(r, IF Settled(r) THEN ledger[KeyOf[r]].result ELSE "refused")

\* _resolve_existing() and _replay(): a conflict, an action in flight, or the
\* recorded result.
Resolve(r) ==
  Answer(r, IF Same(r) /\ Settled(r) THEN ledger[KeyOf[r]].result ELSE "refused")

\* The first look at the reservation; one in flight passes.
Look(r) ==
  /\ at[r] = "new"
  /\ IF Held(r) /\ (Same(r) => Settled(r)) THEN Resolve(r)
     ELSE Go(r, "looked") /\ UNCHANGED reply
  /\ UNCHANGED <<stores, executed, rec, created, bounds>>

RateLimited(r) ==
  /\ at[r] = "looked" /\ Answer(r, "refused")
  /\ UNCHANGED <<stores, executed, rec, created, bounds>>

Reserve(r) ==
  /\ at[r] = "looked"
  /\ IF Held(r) THEN Resolve(r) /\ UNCHANGED ledger
     ELSE /\ ledger' = [ledger EXCEPT ![KeyOf[r]] =
                          [body |-> BodyOf[r], act |-> r, status |-> "reserved", result |-> None]]
          /\ Go(r, "reserved") /\ UNCHANGED reply
  /\ UNCHANGED <<journal, outbox, executed, rec, created, bounds>>

\* Mutant of Known: an entry that exists is taken whoever made it.
KnownToAll(r) == TRUE

\* _assert_identity()
Known(r) == journal[KeyOf[r]].act = r

Prepare(r) ==
  /\ at[r] = "reserved"
  /\ IF journal[KeyOf[r]] # None
     THEN /\ IF Known(r) THEN Go(r, "prepared") /\ UNCHANGED reply ELSE Answer(r, "refused")
          /\ UNCHANGED <<journal, created>>
     ELSE /\ journal' = [journal EXCEPT ![KeyOf[r]] =
                           [act |-> r, created |-> created, status |-> "prepared", result |-> None]]
          /\ created' = created + 1
          /\ Go(r, "prepared") /\ UNCHANGED reply
  /\ UNCHANGED <<ledger, outbox, executed, rec, bounds>>

Execute(r) ==
  /\ at[r] = "prepared"
  /\ \E s \in Receipt : executed' = [executed EXCEPT ![r] = s]
  /\ Go(r, "executed")
  /\ UNCHANGED <<stores, reply, rec, created, bounds>>

Journalled(k, status, s) ==
  journal' = [journal EXCEPT ![k] =
                [act |-> journal[k].act, created |-> journal[k].created,
                 status |-> status, result |-> s]]

\* enqueue(): the dedupe key finds a row that is there already.
Enqueued(a, s) ==
  outbox' = [outbox EXCEPT ![a] = IF outbox[a] # None THEN outbox[a] ELSE s]

\* record_runtime_and_enqueue_outbox(): one transaction.
HandOver(r) ==
  /\ SharedStore /\ at[r] = "executed"
  /\ Journalled(KeyOf[r], "outbox_enqueued", executed[r])
  /\ Enqueued(r, executed[r])
  /\ Go(r, "finish")
  /\ UNCHANGED <<ledger, executed, reply, rec, created, bounds>>

\* It raised OutboxError and was rolled back.
HandOverFails(r) ==
  /\ SharedStore /\ at[r] = "executed" /\ faults < MaxFaults
  /\ Go(r, "fallback") /\ faults' = faults + 1
  /\ UNCHANGED <<stores, executed, reply, rec, created, crashes>>

\* record_runtime_committed(), before enqueue() or instead of it.
Record(r) ==
  /\ at[r] = "fallback" \/ (~SharedStore /\ at[r] = "executed")
  /\ Journalled(KeyOf[r], "runtime_committed", executed[r])
  /\ Go(r, IF at[r] = "fallback" THEN "finish" ELSE "recorded")
  /\ UNCHANGED <<ledger, outbox, executed, reply, rec, created, bounds>>

Enqueue(r) ==
  /\ at[r] = "recorded"
  /\ Enqueued(r, executed[r])
  /\ Go(r, "queued")
  /\ UNCHANGED <<ledger, journal, executed, reply, rec, created, bounds>>

\* Mutant of EnqueueFails: the error is not noticed.
EnqueueFailsUnnoticed(r) ==
  /\ at[r] = "recorded" /\ faults < MaxFaults
  /\ Go(r, "queued") /\ faults' = faults + 1
  /\ UNCHANGED <<stores, executed, reply, rec, created, crashes>>

\* OutboxError: the journal keeps the receipt for a later delivery.
EnqueueFails(r) ==
  /\ at[r] = "recorded" /\ faults < MaxFaults
  /\ Go(r, "finish") /\ faults' = faults + 1
  /\ UNCHANGED <<stores, executed, reply, rec, created, crashes>>

Mark(r) ==
  /\ at[r] = "queued"
  /\ Journalled(KeyOf[r], "outbox_enqueued", journal[KeyOf[r]].result)
  /\ Go(r, "finish")
  /\ UNCHANGED <<ledger, outbox, executed, reply, rec, created, bounds>>

\* Mutant of Completable: a settled reservation is settled again.
CompletableAgain(k, a) == ledger[k] # None /\ ledger[k].act = a

\* _assert_completable()
Completable(k, a) ==
  ledger[k] # None /\ ledger[k].act = a /\ ledger[k].status = "reserved"

Completed(k, a, s, succeeded) ==
  ledger' = [ledger EXCEPT ![k] =
               [body |-> ledger[k].body, act |-> a, result |-> s,
                status |-> IF succeeded THEN "completed" ELSE "failed"]]

\* Mutant of Finish: whatever the kernel answered counts as a success.
FinishAlwaysWell(r) ==
  /\ at[r] = "finish"
  /\ IF Completable(KeyOf[r], r)
     THEN /\ Completed(KeyOf[r], r, executed[r], TRUE)
          /\ Answer(r, executed[r])
     ELSE Answer(r, "refused") /\ UNCHANGED ledger
  /\ UNCHANGED <<journal, outbox, executed, rec, created, bounds>>

\* complete() and the reply; it raises if the reservation is final by now.
Finish(r) ==
  /\ at[r] = "finish"
  /\ IF Completable(KeyOf[r], r)
     THEN /\ Completed(KeyOf[r], r, executed[r], executed[r] \in Accepted)
          /\ Answer(r, executed[r])
     ELSE Answer(r, "refused") /\ UNCHANGED ledger
  /\ UNCHANGED <<journal, outbox, executed, rec, created, bounds>>

Running(r) == at[r] \notin {"new", "done"}

\* A store or the kernel raises what submit_action does not handle.
Raise(r) ==
  /\ Running(r) /\ faults < MaxFaults
  /\ Answer(r, "refused") /\ faults' = faults + 1
  /\ UNCHANGED <<stores, executed, rec, created, crashes>>

RequestStep(r) ==
  \/ Look(r) \/ RateLimited(r) \/ Reserve(r) \/ Prepare(r) \/ Execute(r)
  \/ HandOver(r) \/ HandOverFails(r) \/ Record(r) \/ Enqueue(r) \/ EnqueueFails(r)
  \/ Mark(r) \/ Finish(r)

-----------------------------------------------------------------------------
(* recover_outbox(), with the reservation store.  An entry's action and    *)
(* receipt do not change once it is committed, so the entries that         *)
(* pending_delivery() read are kept by their keys.                         *)

Pending == {k \in Key : journal[k] # None /\ journal[k].status = "runtime_committed"}

RecoverBegin ==
  /\ rec.at = "idle" /\ Pending # {}
  /\ rec' = [at |-> "loop", todo |-> Pending, key |-> None]
  /\ UNCHANGED <<stores, at, executed, reply, created, bounds>>

RecoverEnqueue ==
  /\ rec.at = "loop"
  /\ \E k \in rec.todo :
       /\ \A j \in rec.todo : journal[k].created <= journal[j].created
       /\ Enqueued(journal[k].act, journal[k].result)
       /\ rec' = [at |-> "look", todo |-> rec.todo, key |-> k]
  /\ UNCHANGED <<ledger, journal, at, executed, reply, created, bounds>>

RecoverLook ==
  /\ rec.at = "look"
  /\ rec' = [at |-> IF ledger[rec.key] # None /\ ledger[rec.key].status = "reserved"
                    THEN "complete" ELSE "mark",
             todo |-> rec.todo, key |-> rec.key]
  /\ UNCHANGED <<stores, at, executed, reply, created, bounds>>

\* Only a receipt "completed" counts as a success here.
RecoverComplete ==
  /\ rec.at = "complete"
  /\ IF Completable(rec.key, journal[rec.key].act)
     THEN /\ Completed(rec.key, journal[rec.key].act, journal[rec.key].result,
                       journal[rec.key].result = "completed")
          /\ rec' = [at |-> "mark", todo |-> rec.todo, key |-> rec.key]
     ELSE rec' = Idle /\ UNCHANGED ledger
  /\ UNCHANGED <<journal, outbox, at, executed, reply, created, bounds>>

\* Mutant of RecoverMark: everything that was read is marked at once.
RecoverMarkAll ==
  /\ rec.at = "mark"
  /\ journal' = [k \in Key |->
       IF k \in rec.todo
       THEN [act |-> journal[k].act, created |-> journal[k].created,
             status |-> "outbox_enqueued", result |-> journal[k].result]
       ELSE journal[k]]
  /\ rec' = Idle
  /\ UNCHANGED <<ledger, outbox, at, executed, reply, created, bounds>>

RecoverMark ==
  /\ rec.at = "mark"
  /\ Journalled(rec.key, "outbox_enqueued", journal[rec.key].result)
  /\ rec' = IF rec.todo = {rec.key} THEN Idle
            ELSE [at |-> "loop", todo |-> rec.todo \ {rec.key}, key |-> None]
  /\ UNCHANGED <<ledger, outbox, at, executed, reply, created, bounds>>

RecoverRaise ==
  /\ rec.at # "idle" /\ faults < MaxFaults
  /\ rec' = Idle /\ faults' = faults + 1
  /\ UNCHANGED <<stores, at, executed, reply, created, crashes>>

RecoverStep ==
  RecoverBegin \/ RecoverEnqueue \/ RecoverLook \/ RecoverComplete \/ RecoverMark

-----------------------------------------------------------------------------
\* The host dies with all its calls; a ledger in memory dies with it.
Crash ==
  /\ crashes < MaxCrashes
  /\ \E r \in Request : Running(r)
  /\ at' = [r \in Request |-> IF Running(r) THEN "done" ELSE at[r]]
  /\ ledger' = IF LedgerDurable THEN ledger ELSE [k \in Key |-> None]
  /\ rec' = Idle /\ crashes' = crashes + 1
  /\ UNCHANGED <<journal, outbox, executed, reply, created, faults>>

Next ==
  \/ \E r \in Request : RequestStep(r) \/ Raise(r)
  \/ RecoverStep \/ RecoverRaise \/ Crash

Spec == Init /\ [][Next]_vars

\* The host runs recover_outbox() again while something is pending.
RecoverySpec == Spec /\ WF_vars(RecoverStep)

\* Calls that began go on as well, unless their host dies: a call has finitely
\* many steps, so fairness to all of them together lets each one end.
FairSpec ==
  RecoverySpec /\ WF_vars(\E r \in Request : Running(r) /\ RequestStep(r))

-----------------------------------------------------------------------------
TypeOK ==
  /\ ledger \in [Key -> Reservation \cup {None}]
  /\ journal \in [Key -> Entry \cup {None}]
  /\ outbox \in [Request -> Receipt \cup {None}]
  /\ at \in [Request -> Place]
  /\ executed \in [Request -> Receipt \cup {None}]
  /\ reply \in [Request -> Receipt \cup {None, "refused"}]
  /\ rec \in [at : {"idle", "loop", "look", "complete", "mark"},
              todo : SUBSET Key, key : Key \cup {None}]
  /\ created \in Nat /\ crashes \in Nat /\ faults \in Nat

\* However clients retry, hosts crash and recovery runs, the actions of an
\* idempotency key are executed at most once altogether.
AtMostOnce ==
  \A q, r \in Request :
    (KeyOf[q] = KeyOf[r] /\ executed[q] # None /\ executed[r] # None) => q = r

\* What the outbox delivers is the receipt of an action that was executed, and
\* an entry that counts as handed over is in the outbox.
HandedOver ==
  /\ \A r \in Request : outbox[r] # None => outbox[r] = executed[r]
  /\ \A k \in Key : (journal[k] # None /\ journal[k].status = "outbox_enqueued")
       => outbox[journal[k].act] # None

\* A settled reservation tells what the kernel did, and never calls a success
\* what was rejected.
LedgerTellsTruth ==
  \A k \in Key : (ledger[k] # None /\ ledger[k].status # "reserved") =>
    /\ ledger[k].result = executed[ledger[k].act] /\ ledger[k].result # None
    /\ KeyOf[ledger[k].act] = k /\ BodyOf[ledger[k].act] = ledger[k].body
    /\ ledger[k].status = "completed" => ledger[k].result \in Accepted

\* Every answer that is a receipt is the receipt of the one execution of that
\* key, for the action the client asked for.
RepliesAgree ==
  \A r \in Request : reply[r] \in Receipt =>
    \E q \in Request : /\ KeyOf[q] = KeyOf[r] /\ BodyOf[q] = BodyOf[r]
                       /\ executed[q] = reply[r]

\* A settled reservation is settled for good, whatever runs beside it.
SettledStays ==
  [][ \A k \in Key : (ledger[k] # None /\ ledger[k].status # "reserved")
        => ledger'[k] = ledger[k] ]_vars

\* What makes them inductive.  From prepare() on, the journal entry of the key
\* is the request's own; the kernel's answer is known exactly from there on.
Begun    == {"prepared", "executed", "fallback", "recorded", "queued", "finish"}
Answered == Begun \ {"prepared"}

RequestInv ==
  \A r \in Request :
    /\ (at[r] \in Begun \/ executed[r] # None) =>
         journal[KeyOf[r]] # None /\ journal[KeyOf[r]].act = r
    /\ at[r] \in Answered => executed[r] # None
    /\ at[r] \in Place \ (Answered \cup {"done"}) => executed[r] = None
    /\ at[r] \in {"recorded", "queued"} => journal[KeyOf[r]].status # "prepared"
    /\ at[r] = "queued" => outbox[r] # None

Committed(k) == journal[k] # None /\ journal[k].status # "prepared"

JournalInv ==
  \A k \in Key :
    /\ journal[k] # None => KeyOf[journal[k].act] = k
    /\ Committed(k) => /\ journal[k].result = executed[journal[k].act]
                       /\ journal[k].result # None

LedgerInv ==
  \A k \in Key : ledger[k] # None =>
    KeyOf[ledger[k].act] = k /\ BodyOf[ledger[k].act] = ledger[k].body

RecoverInv ==
  /\ \A k \in rec.todo : Committed(k)
  /\ rec.at \in {"look", "complete", "mark"} =>
       rec.key \in rec.todo /\ outbox[journal[rec.key].act] # None

DeliveryInv ==
  /\ TypeOK /\ RequestInv /\ JournalInv /\ LedgerInv /\ RecoverInv
  /\ HandedOver /\ LedgerTellsTruth /\ RepliesAgree

\* Every receipt that the journal holds for delivery reaches the outbox.
Delivered ==
  \A r \in Request :
    (\E k \in Pending : journal[k].act = r) ~> outbox[r] # None

\* docs/MCP_ACTION_COMMIT_JOURNAL_M12_LOCAL_SLICE.md and the docstring of
\* recover_outbox(): what was committed can be finalized after a crash.
CommittedIsSettled ==
  \A k \in Key :
    (journal[k] # None /\ journal[k].status # "prepared")
      ~> (ledger[k] # None /\ ledger[k].status # "reserved")

\* tests/test_mcp_action_control.py,
\* test_scheduled_long_action_is_accepted_not_misreported_as_failed.
ScheduledIsAccepted ==
  \A k \in Key : (ledger[k] # None /\ ledger[k].status = "failed")
    => ledger[k].result # "scheduled"

=============================================================================
