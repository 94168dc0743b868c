----------------------- MODULE ActionDeliveryProofs -------------------------
(***************************************************************************)
(* What holds of the action delivery for any requests, keys and actions,   *)
(* however often hosts crash and calls fail, with either kind of stores:   *)
(* its types, the inductive invariant DeliveryInv, and from it execution   *)
(* at most once per key.                                                   *)
(***************************************************************************)
EXTENDS ActionDelivery, TLAPS

\* Moving a request, or answering it, keeps the types.
LEMMA GoType ==
  ASSUME TypeOK, NEW r \in Request, NEW p \in Place, Go(r, p)
  PROVE  at' \in [Request -> Place]
  BY DEF Go, TypeOK

LEMMA AnswerType ==
  ASSUME TypeOK, NEW r \in Request, NEW s \in Receipt \cup {None, "refused"}, Answer(r, s)
  PROVE  at' \in [Request -> Place] /\ reply' \in [Request -> Receipt \cup {None, "refused"}]
  BY DEF Answer, Go, TypeOK, Place

\* A reservation's result is one, when it is settled and its truth is told.
LEMMA ResolveType ==
  ASSUME TypeOK, NEW r \in Request, Held(r), Resolve(r)
  PROVE  at' \in [Request -> Place] /\ reply' \in [Request -> Receipt \cup {None, "refused"}]
<1>1. KeyOf[r] \in Key
  BY RequestAssumption
<1>2. ledger[KeyOf[r]].result \in Receipt \cup {None}
  BY <1>1 DEF Held, TypeOK, Reservation
<1> QED BY <1>2, AnswerType DEF Resolve

LEMMA JournalledType ==
  ASSUME TypeOK, NEW k \in Key, journal[k] # None,
         NEW status \in {"prepared", "runtime_committed", "outbox_enqueued"},
         NEW s \in Receipt \cup {None}, Journalled(k, status, s)
  PROVE  journal' \in [Key -> Entry \cup {None}]
  BY DEF Journalled, TypeOK, Entry

LEMMA EnqueuedType ==
  ASSUME TypeOK, NEW r \in Request, NEW s \in Receipt \cup {None}, Enqueued(r, s)
  PROVE  outbox' \in [Request -> Receipt \cup {None}]
  BY DEF Enqueued, TypeOK

LEMMA CompletedType ==
  ASSUME TypeOK, NEW k \in Key, NEW r \in Request, Completable(k, r),
         NEW s \in Receipt \cup {None}, NEW b \in BOOLEAN, Completed(k, r, s, b)
  PROVE  ledger' \in [Key -> Reservation \cup {None}]
  BY DEF Completable, Completed, TypeOK, Reservation

\* Every step of a request keeps the types, given the invariant.
LEMMA RequestStepType ==
  ASSUME TypeOK, RequestInv, NEW r \in Request, RequestStep(r)
  PROVE  TypeOK'
<1>k. KeyOf[r] \in Key /\ BodyOf[r] \in Body
  BY RequestAssumption
<1>1. CASE Look(r)
  BY <1>1, ResolveType, GoType DEF Look, TypeOK, stores, bounds, Place
<1>2. CASE RateLimited(r)
  BY <1>2, AnswerType DEF RateLimited, TypeOK, stores, bounds
<1>3. CASE Reserve(r)
  <2>1. CASE Held(r)
    BY <1>3, <2>1, ResolveType DEF Reserve, TypeOK, bounds
  <2>2. CASE ~Held(r)
    <3>1. ledger' \in [Key -> Reservation \cup {None}]
      BY <1>k, <1>3, <2>2 DEF Reserve, TypeOK, Reservation
    <3>2. at' \in [Request -> Place]
      BY <1>3, <2>2, GoType DEF Reserve, Place
    <3> QED BY <1>3, <2>2, <3>1, <3>2 DEF Reserve, TypeOK, bounds
  <2> QED BY <2>1, <2>2
<1>4. CASE Prepare(r)
  <2>1. CASE journal[KeyOf[r]] # None
    BY <1>4, <2>1, GoType, AnswerType DEF Prepare, TypeOK, bounds, Place
  <2>2. CASE journal[KeyOf[r]] = None
    <3>1. journal' \in [Key -> Entry \cup {None}] /\ created' \in Nat
      BY <1>k, <1>4, <2>2 DEF Prepare, TypeOK, Entry
    <3>2. at' \in [Request -> Place]
      BY <1>4, <2>2, GoType DEF Prepare, Place
    <3> QED BY <1>4, <2>2, <3>1, <3>2 DEF Prepare, TypeOK, bounds
  <2> QED BY <2>1, <2>2
<1>5. CASE Execute(r)
  <2>1. executed' \in [Request -> Receipt \cup {None}]
    BY <1>5 DEF Execute, TypeOK
  <2> QED BY <1>5, <2>1, GoType DEF Execute, TypeOK, stores, bounds, Place
<1>j. at[r] \in Begun => journal[KeyOf[r]] # None
  BY DEF RequestInv
<1>s. executed[r] \in Receipt \cup {None}
  BY DEF TypeOK
<1>6. CASE HandOver(r)
  <2>1. journal' \in [Key -> Entry \cup {None}]
    BY <1>k, <1>j, <1>s, <1>6, JournalledType DEF HandOver, Begun
  <2> QED BY <1>6, <1>s, <2>1, EnqueuedType, GoType DEF HandOver, TypeOK, bounds, Place
<1>7. CASE HandOverFails(r)
  BY <1>7, GoType DEF HandOverFails, TypeOK, stores, Place
<1>8. CASE Record(r)
  <2>1. journal' \in [Key -> Entry \cup {None}]
    BY <1>k, <1>j, <1>s, <1>8, JournalledType DEF Record, Begun
  <2> QED BY <1>8, <2>1, GoType DEF Record, TypeOK, bounds, Place
<1>9. CASE Enqueue(r)
  BY <1>9, <1>s, EnqueuedType, GoType DEF Enqueue, TypeOK, bounds, Place
<1>10. CASE EnqueueFails(r)
  BY <1>10, GoType DEF EnqueueFails, TypeOK, stores, Place
<1>11. CASE Mark(r)
  <2>1. journal[KeyOf[r]] # None
    BY <1>j, <1>11 DEF Mark, Begun
  <2>2. journal[KeyOf[r]].result \in Receipt \cup {None}
    BY <1>k, <2>1 DEF TypeOK, Entry
  <2>3. journal' \in [Key -> Entry \cup {None}]
    BY <1>k, <1>11, <2>1, <2>2, JournalledType DEF Mark
  <2> QED BY <1>11, <2>3, GoType DEF Mark, TypeOK, bounds, Place
<1>12. CASE Finish(r)
  <2>1. CASE Completable(KeyOf[r], r)
    <3>1. ledger' \in [Key -> Reservation \cup {None}]
      <4> DEFINE b == executed[r] \in Accepted
      <4>1. b \in BOOLEAN /\ Completed(KeyOf[r], r, executed[r], b)
        BY <1>12, <2>1 DEF Finish
      <4>2. HIDE DEF b
      <4> QED BY <1>k, <1>s, <2>1, <4>1, CompletedType
    <3>2. at' \in [Request -> Place] /\ reply' \in [Request -> Receipt \cup {None, "refused"}]
      BY <1>s, <1>12, <2>1, AnswerType DEF Finish
    <3> QED BY <1>12, <3>1, <3>2 DEF Finish, TypeOK, bounds
  <2>2. CASE ~Completable(KeyOf[r], r)
    BY <1>12, <2>2, AnswerType DEF Finish, TypeOK, bounds
  <2> QED BY <2>1, <2>2
<1> QED BY <1>1, <1>2, <1>3, <1>4, <1>5, <1>6, <1>7, <1>8, <1>9, <1>10, <1>11, <1>12
        DEF RequestStep

\* The entry that recovery works on is a committed one.
LEMMA CurrentEntry ==
  ASSUME TypeOK, RecoverInv, rec.at \in {"look", "complete", "mark"}
  PROVE  /\ rec.key \in Key /\ rec.key \in rec.todo /\ Committed(rec.key)
         /\ journal[rec.key] # None /\ journal[rec.key] \in Entry
         /\ journal[rec.key].act \in Request
         /\ journal[rec.key].result \in Receipt \cup {None}
         /\ outbox[journal[rec.key].act] # None
  BY DEF TypeOK, RecoverInv, Committed, Entry

\* Every step of recovery and every failure keeps the types.
LEMMA OtherStepType ==
  ASSUME TypeOK, RecoverInv,
         RecoverStep \/ RecoverRaise \/ Crash \/ (\E r \in Request : Raise(r)) \/ UNCHANGED vars
  PROVE  TypeOK'
<1>1. CASE RecoverBegin
  BY <1>1 DEF RecoverBegin, TypeOK, Pending, stores, bounds
<1>2. CASE RecoverEnqueue
  <2>1. PICK k \in rec.todo :
          /\ Enqueued(journal[k].act, journal[k].result)
          /\ rec' = [at |-> "look", todo |-> rec.todo, key |-> k]
    BY <1>2 DEF RecoverEnqueue
  <2>2. k \in Key /\ journal[k] \in Entry
    BY DEF RecoverInv, Committed, TypeOK
  <2>3. outbox' \in [Request -> Receipt \cup {None}]
    BY <2>1, <2>2, EnqueuedType DEF Entry
  <2> QED BY <1>2, <2>1, <2>2, <2>3 DEF RecoverEnqueue, TypeOK, bounds
<1>3. CASE RecoverLook
  BY <1>3, CurrentEntry DEF RecoverLook, TypeOK, stores, bounds
<1>4. CASE RecoverComplete
  <2>1. rec.at = "complete" /\ rec.key \in Key
    BY <1>4, CurrentEntry DEF RecoverComplete
  <2>2. CASE Completable(rec.key, journal[rec.key].act)
    <3>1. ledger' \in [Key -> Reservation \cup {None}]
      BY <1>4, <2>1, <2>2, CurrentEntry, CompletedType DEF RecoverComplete
    <3> QED BY <1>4, <2>1, <2>2, <3>1 DEF RecoverComplete, TypeOK, bounds
  <2>3. CASE ~Completable(rec.key, journal[rec.key].act)
    BY <1>4, <2>3 DEF RecoverComplete, TypeOK, bounds, Idle
  <2> QED BY <2>2, <2>3
<1>5. CASE RecoverMark
  <2>1. journal' \in [Key -> Entry \cup {None}]
    BY <1>5, CurrentEntry, JournalledType DEF RecoverMark
  <2>2. rec' \in [at : {"idle", "loop", "look", "complete", "mark"},
                  todo : SUBSET Key, key : Key \cup {None}]
    BY <1>5 DEF RecoverMark, TypeOK, Idle
  <2> QED BY <1>5, <2>1, <2>2 DEF RecoverMark, TypeOK, bounds
<1>6. CASE RecoverRaise
  BY <1>6 DEF RecoverRaise, TypeOK, Idle, stores
<1>7. CASE Crash
  BY <1>7 DEF Crash, TypeOK, Idle, Place
<1>8. CASE \E r \in Request : Raise(r)
  BY <1>8, AnswerType DEF Raise, TypeOK, stores
<1>9. CASE UNCHANGED vars
  BY <1>9 DEF vars, TypeOK, stores, bounds
<1> QED BY <1>1, <1>2, <1>3, <1>4, <1>5, <1>6, <1>7, <1>8, <1>9 DEF RecoverStep

-----------------------------------------------------------------------------
(* What the stores hold, while requests and recovery move.                 *)

StoreInv == JournalInv /\ LedgerInv /\ HandedOver /\ LedgerTellsTruth

\* Only the places of requests, recovery and the replies change.
LEMMA StoresStay ==
  ASSUME StoreInv, UNCHANGED <<stores, executed>>
  PROVE  StoreInv'
  BY DEF StoreInv, JournalInv, LedgerInv, HandedOver, LedgerTellsTruth, Committed, stores

\* A reservation is made for a key that has none.
LEMMA ReserveStores ==
  ASSUME TypeOK, StoreInv, NEW r \in Request, ~Held(r),
         ledger' = [ledger EXCEPT ![KeyOf[r]] =
                      [body |-> BodyOf[r], act |-> r, status |-> "reserved", result |-> None]],
         UNCHANGED <<journal, outbox, executed>>
  PROVE  StoreInv'
<1>1. \A k \in Key : k # KeyOf[r] => ledger'[k] = ledger[k]
  BY DEF TypeOK
<1>2. ledger'[KeyOf[r]] = [body |-> BodyOf[r], act |-> r, status |-> "reserved", result |-> None]
  BY RequestAssumption DEF TypeOK
<1>3. LedgerInv' /\ LedgerTellsTruth'
  BY <1>1, <1>2, RequestAssumption DEF StoreInv, LedgerInv, LedgerTellsTruth
<1> QED BY <1>3 DEF StoreInv, JournalInv, HandedOver, Committed

\* An entry is made for a key that has none.
LEMMA PrepareStores ==
  ASSUME TypeOK, StoreInv, NEW r \in Request, journal[KeyOf[r]] = None,
         journal' = [journal EXCEPT ![KeyOf[r]] =
                       [act |-> r, created |-> created, status |-> "prepared", result |-> None]],
         UNCHANGED <<ledger, outbox, executed>>
  PROVE  StoreInv'
<1>1. \A k \in Key : k # KeyOf[r] => journal'[k] = journal[k]
  BY DEF TypeOK
<1>2. journal'[KeyOf[r]] =
        [act |-> r, created |-> created, status |-> "prepared", result |-> None]
  BY RequestAssumption DEF TypeOK
<1>3. JournalInv' /\ HandedOver'
  BY <1>1, <1>2 DEF StoreInv, JournalInv, HandedOver, Committed
<1> QED BY <1>3 DEF StoreInv, LedgerInv, LedgerTellsTruth

\* The kernel answers an action that it had not executed and that nothing but
\* a prepared entry knows.
LEMMA ExecuteStores ==
  ASSUME TypeOK, StoreInv, NEW r \in Request, NEW s \in Receipt, executed[r] = None,
         executed' = [executed EXCEPT ![r] = s], UNCHANGED stores
  PROVE  StoreInv'
<1>1. \A q \in Request : executed[q] # None => executed'[q] = executed[q]
  BY DEF TypeOK
<1>2. JournalInv'
  <2>1. \A k \in Key : Committed(k) =>
          executed[journal[k].act] # None /\ journal[k].act \in Request
    BY DEF StoreInv, JournalInv, TypeOK, Entry, Committed
  <2> QED BY <1>1, <2>1 DEF StoreInv, JournalInv, Committed, stores
<1>3. HandedOver'
  BY <1>1 DEF StoreInv, HandedOver, stores, TypeOK
<1>4. LedgerTellsTruth'
  <2>1. \A k \in Key : (ledger[k] # None /\ ledger[k].status # "reserved") =>
          executed[ledger[k].act] # None /\ ledger[k].act \in Request
    BY DEF StoreInv, LedgerTellsTruth, TypeOK, Reservation
  <2> QED BY <1>1, <2>1 DEF StoreInv, LedgerTellsTruth, stores
<1> QED BY <1>2, <1>3, <1>4 DEF StoreInv, LedgerInv, stores

\* The entry of an executed action is written, before or after its row of the
\* outbox, or together with it.
LEMMA JournalStores ==
  ASSUME TypeOK, StoreInv, NEW k \in Key, journal[k] # None,
         NEW status \in {"runtime_committed", "outbox_enqueued"},
         executed[journal[k].act] # None,
         Journalled(k, status, executed[journal[k].act]),
         outbox' \in [Request -> Receipt \cup {None}],
         \A q \in Request : outbox'[q] \in {outbox[q], executed[q]},
         \A q \in Request : outbox[q] # None => outbox'[q] # None,
         status = "outbox_enqueued" => outbox'[journal[k].act] # None,
         UNCHANGED <<ledger, executed>>
  PROVE  StoreInv'
<1>1. \A j \in Key : j # k => journal'[j] = journal[j]
  BY DEF Journalled, TypeOK
<1>2. journal'[k] = [act |-> journal[k].act, created |-> journal[k].created,
                     status |-> status, result |-> executed[journal[k].act]]
  BY DEF Journalled, TypeOK
<1>3. JournalInv'
  BY <1>1, <1>2 DEF StoreInv, JournalInv, Committed
<1>4. \A q \in Request : outbox'[q] # None => outbox'[q] = executed'[q]
  BY DEF StoreInv, HandedOver
<1>5. \A j \in Key : (journal'[j] # None /\ journal'[j].status = "outbox_enqueued")
        => outbox'[journal'[j].act] # None
  <2>1. \A j \in Key : journal[j] # None => journal[j].act \in Request
    BY DEF TypeOK, Entry
  <2> QED BY <1>1, <1>2, <2>1 DEF StoreInv, HandedOver
<1> QED BY <1>3, <1>4, <1>5 DEF StoreInv, LedgerInv, LedgerTellsTruth, HandedOver

\* The receipt of an executed action is put into the outbox.
LEMMA EnqueueStores ==
  ASSUME TypeOK, StoreInv, NEW r \in Request, executed[r] # None,
         Enqueued(r, executed[r]), UNCHANGED <<ledger, journal, executed>>
  PROVE  StoreInv' /\ outbox'[r] # None
         /\ \A q \in Request : outbox[q] # None => outbox'[q] # None
<1>1. \A q \in Request : outbox'[q] = IF q = r /\ outbox[q] = None THEN executed[q] ELSE outbox[q]
  BY DEF Enqueued, TypeOK
<1>2. \A k \in Key : journal[k] # None => journal[k].act \in Request
  BY DEF TypeOK, Entry
<1>3. HandedOver'
  BY <1>1, <1>2 DEF StoreInv, HandedOver
<1> QED BY <1>1, <1>3 DEF StoreInv, JournalInv, LedgerInv, LedgerTellsTruth, Committed

\* A reservation is settled with what the kernel did.
LEMMA CompleteStores ==
  ASSUME TypeOK, StoreInv, NEW k \in Key, NEW r \in Request, Completable(k, r),
         executed[r] # None, NEW b \in BOOLEAN, b => executed[r] \in Accepted,
         Completed(k, r, executed[r], b), UNCHANGED <<journal, outbox, executed>>
  PROVE  StoreInv'
<1>1. \A j \in Key : j # k => ledger'[j] = ledger[j]
  BY DEF Completed, TypeOK
<1>2. ledger'[k] = [body |-> ledger[k].body, act |-> r, result |-> executed[r],
                    status |-> IF b THEN "completed" ELSE "failed"]
  BY DEF Completed, TypeOK
<1>3. KeyOf[r] = k /\ BodyOf[r] = ledger[k].body
  BY DEF Completable, StoreInv, LedgerInv
<1>4. LedgerInv' /\ LedgerTellsTruth'
  <2>1. ledger'[k].act = r /\ ledger'[k].body = ledger[k].body /\ ledger'[k].result = executed[r]
        /\ (ledger'[k].status = "completed" => b)
    BY <1>2
  <2> QED BY <1>1, <1>3, <2>1 DEF StoreInv, LedgerInv, LedgerTellsTruth
<1> QED BY <1>4 DEF StoreInv, JournalInv, HandedOver, Committed

\* A request that began its execution has its own entry.
LEMMA OwnEntry ==
  ASSUME TypeOK, RequestInv, NEW r \in Request, at[r] \in Begun
  PROVE  /\ KeyOf[r] \in Key /\ journal[KeyOf[r]] # None /\ journal[KeyOf[r]].act = r
         /\ at[r] \in Answered => executed[r] # None
  BY RequestAssumption DEF RequestInv

\* Every step of a request keeps what the stores hold.
LEMMA RequestStores ==
  ASSUME DeliveryInv, NEW r \in Request, RequestStep(r)
  PROVE  StoreInv'
<1> USE DEF DeliveryInv
<1>i. StoreInv /\ TypeOK /\ RequestInv
  BY DEF StoreInv
<1>1. CASE Look(r)
  BY <1>i, <1>1, StoresStay DEF Look, stores
<1>2. CASE RateLimited(r)
  BY <1>i, <1>2, StoresStay DEF RateLimited, stores
<1>3. CASE Reserve(r)
  BY <1>i, <1>3, StoresStay, ReserveStores DEF Reserve, stores
<1>4. CASE Prepare(r)
  BY <1>i, <1>4, StoresStay, PrepareStores DEF Prepare, stores
<1>5. CASE Execute(r)
  <2>1. executed[r] = None
    BY <1>i, <1>5 DEF Execute, RequestInv, Place, Answered, Begun
  <2>2. PICK s \in Receipt : executed' = [executed EXCEPT ![r] = s]
    BY <1>5 DEF Execute
  <2> QED BY <1>i, <1>5, <2>1, <2>2, ExecuteStores DEF Execute
<1>6. CASE HandOver(r)
  <2>1. /\ KeyOf[r] \in Key /\ journal[KeyOf[r]] # None
        /\ journal[KeyOf[r]].act = r /\ executed[r] # None
    BY <1>i, <1>6, OwnEntry DEF HandOver, Begun, Answered
  <2>2. \A q \in Request : outbox'[q] = IF q = r /\ outbox[q] = None THEN executed[q] ELSE outbox[q]
    BY <1>i, <1>6 DEF HandOver, Enqueued, TypeOK
  <2>3. outbox' \in [Request -> Receipt \cup {None}]
    BY <1>i, <1>6, EnqueuedType DEF HandOver, TypeOK
  <2> QED BY <1>i, <1>6, <2>1, <2>2, <2>3, JournalStores DEF HandOver
<1>7. CASE HandOverFails(r)
  BY <1>i, <1>7, StoresStay DEF HandOverFails, stores
<1>8. CASE Record(r)
  <2>1. /\ KeyOf[r] \in Key /\ journal[KeyOf[r]] # None
        /\ journal[KeyOf[r]].act = r /\ executed[r] # None
    BY <1>i, <1>8, OwnEntry DEF Record, Begun, Answered
  <2> QED BY <1>i, <1>8, <2>1, JournalStores DEF Record, TypeOK
<1>9. CASE Enqueue(r)
  <2>1. executed[r] # None
    BY <1>i, <1>9, OwnEntry DEF Enqueue, Begun, Answered
  <2> QED BY <1>i, <1>9, <2>1, EnqueueStores DEF Enqueue
<1>10. CASE EnqueueFails(r)
  BY <1>i, <1>10, StoresStay DEF EnqueueFails, stores
<1>11. CASE Mark(r)
  <2>1. /\ KeyOf[r] \in Key /\ journal[KeyOf[r]] # None
        /\ journal[KeyOf[r]].act = r /\ executed[r] # None
    BY <1>i, <1>11, OwnEntry DEF Mark, Begun, Answered
  <2>2. outbox[r] # None /\ journal[KeyOf[r]].result = executed[r]
    BY <1>11, <2>1 DEF Mark, RequestInv, JournalInv, Committed
  <2> QED BY <1>i, <1>11, <2>1, <2>2, JournalStores DEF Mark, TypeOK
<1>12. CASE Finish(r)
  <2>1. executed[r] # None /\ KeyOf[r] \in Key
    BY <1>i, <1>12, OwnEntry DEF Finish, Begun, Answered
  <2>2. CASE Completable(KeyOf[r], r)
    <3> DEFINE b == executed[r] \in Accepted
    <3>1. b \in BOOLEAN /\ (b => executed[r] \in Accepted)
      OBVIOUS
    <3>2. Completed(KeyOf[r], r, executed[r], b) /\ UNCHANGED <<journal, outbox, executed>>
      BY <1>12, <2>2 DEF Finish
    <3>3. HIDE DEF b
    <3> QED BY <1>i, <2>1, <2>2, <3>1, <3>2, CompleteStores
  <2>3. CASE ~Completable(KeyOf[r], r)
    BY <1>i, <1>12, <2>3, StoresStay DEF Finish, stores
  <2> QED BY <2>2, <2>3
<1> QED BY <1>1, <1>2, <1>3, <1>4, <1>5, <1>6, <1>7, <1>8, <1>9, <1>10, <1>11, <1>12
        DEF RequestStep

\* So does every step of recovery and every failure.
LEMMA OtherStores ==
  ASSUME DeliveryInv,
         RecoverStep \/ RecoverRaise \/ Crash \/ (\E r \in Request : Raise(r)) \/ UNCHANGED vars
  PROVE  StoreInv'
<1>i. StoreInv /\ TypeOK /\ RequestInv /\ RecoverInv
  BY DEF StoreInv, DeliveryInv
<1>1. CASE RecoverBegin
  BY <1>i, <1>1, StoresStay DEF RecoverBegin, stores
<1>2. CASE RecoverEnqueue
  <2>1. PICK k \in rec.todo : Enqueued(journal[k].act, journal[k].result)
    BY <1>2 DEF RecoverEnqueue
  <2>2. /\ k \in Key /\ journal[k].act \in Request
        /\ journal[k].result = executed[journal[k].act] /\ executed[journal[k].act] # None
    BY <1>i DEF RecoverInv, Committed, TypeOK, Entry, StoreInv, JournalInv
  <2> QED BY <1>i, <1>2, <2>1, <2>2, EnqueueStores DEF RecoverEnqueue
<1>3. CASE RecoverLook
  BY <1>i, <1>3, StoresStay DEF RecoverLook, stores
<1>4. CASE RecoverComplete
  <2>1. CASE Completable(rec.key, journal[rec.key].act)
    <3>1. /\ rec.key \in Key /\ journal[rec.key].act \in Request
          /\ journal[rec.key].result = executed[journal[rec.key].act]
          /\ executed[journal[rec.key].act] # None
      BY <1>i, <1>4, CurrentEntry DEF RecoverComplete, StoreInv, JournalInv
    <3> DEFINE b == journal[rec.key].result = "completed"
    <3>2. b \in BOOLEAN /\ (b => executed[journal[rec.key].act] \in Accepted)
      BY <3>1 DEF Accepted
    <3>3. Completed(rec.key, journal[rec.key].act, executed[journal[rec.key].act], b)
          /\ UNCHANGED <<journal, outbox, executed>>
      BY <1>4, <2>1, <3>1 DEF RecoverComplete
    <3>4. HIDE DEF b
    <3> QED BY <1>i, <2>1, <3>1, <3>2, <3>3, CompleteStores
  <2>2. CASE ~Completable(rec.key, journal[rec.key].act)
    BY <1>i, <1>4, <2>2, StoresStay DEF RecoverComplete, stores
  <2> QED BY <2>1, <2>2
<1>5. CASE RecoverMark
  <2>1. /\ rec.key \in Key /\ journal[rec.key] # None /\ outbox[journal[rec.key].act] # None
        /\ journal[rec.key].result = executed[journal[rec.key].act]
        /\ executed[journal[rec.key].act] # None
    BY <1>i, <1>5, CurrentEntry DEF RecoverMark, StoreInv, JournalInv
  <2> QED BY <1>i, <1>5, <2>1, JournalStores DEF RecoverMark, TypeOK
<1>6. CASE RecoverRaise
  BY <1>i, <1>6, StoresStay DEF RecoverRaise, stores
<1>7. CASE Crash
  <2>1. CASE LedgerDurable
    BY <1>i, <1>7, <2>1, StoresStay DEF Crash, stores
  <2>2. CASE ~LedgerDurable
    <3>1. \A k \in Key : ledger'[k] = None
      BY <1>7, <2>2 DEF Crash
    <3> QED BY <1>i, <1>7, <3>1 DEF Crash, StoreInv, JournalInv, LedgerInv, HandedOver,
                                    LedgerTellsTruth, Committed
  <2> QED BY <2>1, <2>2
<1>8. CASE \E r \in Request : Raise(r)
  BY <1>i, <1>8, StoresStay DEF Raise, stores
<1>9. CASE UNCHANGED vars
  BY <1>i, <1>9, StoresStay DEF vars, stores
<1> QED BY <1>1, <1>2, <1>3, <1>4, <1>5, <1>6, <1>7, <1>8, <1>9 DEF RecoverStep

-----------------------------------------------------------------------------
(* Requests and their entries.                                             *)

\* An entry that exists stays its action's, and stays committed; a row of the
\* outbox stays.
EntriesStay ==
  /\ \A k \in Key : journal[k] # None =>
       /\ journal'[k] # None /\ journal'[k].act = journal[k].act
       /\ journal[k].status # "prepared" => journal'[k].status # "prepared"
  /\ \A q \in Request : outbox[q] # None => outbox'[q] # None

\* Writing an entry changes neither its action nor that of another key.
LEMMA JournalledStays ==
  ASSUME TypeOK, NEW k \in Key, journal[k] # None, NEW s \in Receipt \cup {None},
         NEW status \in {"runtime_committed", "outbox_enqueued"}, Journalled(k, status, s)
  PROVE  /\ \A j \in Key : journal[j] # None =>
              /\ journal'[j] # None /\ journal'[j].act = journal[j].act
              /\ journal[j].status # "prepared" => journal'[j].status # "prepared"
         /\ journal'[k].status = status
<1>1. \A j \in Key : j # k => journal'[j] = journal[j]
  BY DEF Journalled, TypeOK
<1>2. journal'[k] = [act |-> journal[k].act, created |-> journal[k].created,
                     status |-> status, result |-> s]
  BY DEF Journalled, TypeOK
<1>3. journal'[k] \in Entry
  BY <1>2 DEF TypeOK, Entry
<1> QED BY <1>1, <1>2, <1>3, NoneAssumption

LEMMA EnqueuedStays ==
  ASSUME TypeOK, NEW r \in Request, NEW s, Enqueued(r, s)
  PROVE  \A q \in Request : outbox[q] # None => outbox'[q] # None
  BY DEF Enqueued, TypeOK

\* No step of a request takes an entry or a row away.
LEMMA RequestKeeps ==
  ASSUME DeliveryInv, NEW r \in Request, RequestStep(r)
  PROVE  EntriesStay
<1>i. TypeOK /\ RequestInv /\ KeyOf[r] \in Key /\ executed[r] \in Receipt \cup {None}
  BY RequestAssumption DEF DeliveryInv, TypeOK
<1>1. CASE Look(r) \/ RateLimited(r) \/ Reserve(r) \/ Execute(r) \/ HandOverFails(r)
           \/ EnqueueFails(r) \/ Finish(r)
  BY <1>1 DEF Look, RateLimited, Reserve, Execute, HandOverFails, EnqueueFails, Finish,
              EntriesStay, stores
<1>2. CASE Prepare(r)
  BY <1>i, <1>2 DEF Prepare, EntriesStay, TypeOK
<1>3. CASE HandOver(r)
  BY <1>i, <1>3, OwnEntry, JournalledStays, EnqueuedStays DEF HandOver, EntriesStay, Begun
<1>4. CASE Record(r)
  BY <1>i, <1>4, OwnEntry, JournalledStays DEF Record, EntriesStay, Begun
<1>5. CASE Enqueue(r)
  BY <1>i, <1>5, EnqueuedStays DEF Enqueue, EntriesStay
<1>6. CASE Mark(r)
  <2>1. journal[KeyOf[r]] # None /\ journal[KeyOf[r]].result \in Receipt \cup {None}
    BY <1>i, <1>6, OwnEntry DEF Mark, Begun, TypeOK, Entry
  <2> QED BY <1>i, <1>6, <2>1, JournalledStays DEF Mark, EntriesStay
<1> QED BY <1>1, <1>2, <1>3, <1>4, <1>5, <1>6 DEF RequestStep

LEMMA OtherKeeps ==
  ASSUME DeliveryInv,
         RecoverStep \/ RecoverRaise \/ Crash \/ (\E r \in Request : Raise(r)) \/ UNCHANGED vars
  PROVE  EntriesStay
<1>i. TypeOK /\ RecoverInv
  BY DEF DeliveryInv
<1>1. CASE RecoverEnqueue
  <2>1. PICK k \in rec.todo : Enqueued(journal[k].act, journal[k].result)
    BY <1>1 DEF RecoverEnqueue
  <2>2. k \in Key /\ journal[k].act \in Request
    BY <1>i DEF RecoverInv, Committed, TypeOK, Entry
  <2> QED BY <1>i, <1>1, <2>1, <2>2, EnqueuedStays DEF RecoverEnqueue, EntriesStay
<1>2. CASE RecoverMark
  BY <1>i, <1>2, CurrentEntry, JournalledStays DEF RecoverMark, EntriesStay
<1>3. CASE RecoverBegin \/ RecoverLook \/ RecoverComplete \/ RecoverRaise \/ Crash
           \/ (\E r \in Request : Raise(r)) \/ UNCHANGED vars
  BY <1>3 DEF RecoverBegin, RecoverLook, RecoverComplete, RecoverRaise, Crash, Raise, vars,
              EntriesStay, stores
<1> QED BY <1>1, <1>2, <1>3 DEF RecoverStep

\* What RequestInv says of one request.
Sound(r) ==
  /\ (at[r] \in Begun \/ executed[r] # None) =>
       journal[KeyOf[r]] # None /\ journal[KeyOf[r]].act = r
  /\ at[r] \in Answered => executed[r] # None
  /\ at[r] \in Place \ (Answered \cup {"done"}) => executed[r] = None
  /\ at[r] \in {"recorded", "queued"} => journal[KeyOf[r]].status # "prepared"
  /\ at[r] = "queued" => outbox[r] # None

\* A request that stays where it is, or is done with, stays sound.
LEMMA SoundStays ==
  ASSUME TypeOK, NEW q \in Request, Sound(q), EntriesStay,
         at'[q] = at[q] \/ at'[q] = "done", executed'[q] = executed[q]
  PROVE  Sound(q)'
<1>1. KeyOf[q] \in Key
  BY RequestAssumption
<1> QED BY <1>1 DEF Sound, EntriesStay, Begun, Answered

\* The other requests do not notice a step of this one.
LEMMA OthersSound ==
  ASSUME DeliveryInv, NEW r \in Request, RequestStep(r), NEW q \in Request, q # r
  PROVE  Sound(q)'
<1>1. TypeOK /\ Sound(q)
  BY DEF DeliveryInv, RequestInv, Sound
<1>2. at'[q] = at[q]
  BY <1>1 DEF RequestStep, Look, RateLimited, Reserve, Prepare, Execute, HandOver,
              HandOverFails, Record, Enqueue, EnqueueFails, Mark, Finish, Resolve, Answer,
              Go, TypeOK
<1>3. executed'[q] = executed[q]
  BY <1>1 DEF RequestStep, Look, RateLimited, Reserve, Prepare, Execute, HandOver,
              HandOverFails, Record, Enqueue, EnqueueFails, Mark, Finish, TypeOK
<1> QED BY <1>1, <1>2, <1>3, RequestKeeps, SoundStays

\* Every step of a request keeps it sound.
LEMMA RequestSound ==
  ASSUME DeliveryInv, NEW r \in Request, RequestStep(r)
  PROVE  Sound(r)'
<1>i. TypeOK /\ Sound(r) /\ EntriesStay /\ KeyOf[r] \in Key /\ RequestInv
  BY RequestKeeps, RequestAssumption DEF DeliveryInv, RequestInv, Sound
<1>0. ASSUME NEW s, Answer(r, s), UNCHANGED executed
      PROVE  Sound(r)'
  <2>1. at'[r] = "done"
    BY <1>i, <1>0 DEF Answer, Go, TypeOK
  <2> QED BY <1>i, <1>0, <2>1, SoundStays
<1>1. CASE Look(r)
  <2>1. CASE Resolve(r)
    BY <1>0, <1>1, <2>1 DEF Look, Resolve
  <2>2. CASE Go(r, "looked")
    <3>1. at'[r] = "looked" /\ executed'[r] = None
      BY <1>i, <1>1, <2>2 DEF Look, Go, TypeOK, Sound, Place, Answered, Begun
    <3> QED BY <3>1 DEF Sound, Begun, Answered
  <2> QED BY <1>1, <2>1, <2>2 DEF Look
<1>2. CASE RateLimited(r)
  BY <1>0, <1>2 DEF RateLimited
<1>3. CASE Reserve(r)
  <2>1. CASE Resolve(r)
    BY <1>0, <1>3, <2>1 DEF Reserve, Resolve
  <2>2. CASE Go(r, "reserved")
    <3>1. at'[r] = "reserved" /\ executed'[r] = None
      BY <1>i, <1>3, <2>2 DEF Reserve, Go, TypeOK, Sound, Place, Answered, Begun
    <3> QED BY <3>1 DEF Sound, Begun, Answered
  <2> QED BY <1>3, <2>1, <2>2 DEF Reserve
<1>4. CASE Prepare(r)
  <2>1. CASE Answer(r, "refused")
    BY <1>0, <1>4, <2>1 DEF Prepare
  <2>2. CASE Go(r, "prepared")
    <3>1. at'[r] = "prepared" /\ executed'[r] = None
      BY <1>i, <1>4, <2>2 DEF Prepare, Go, TypeOK, Sound, Place, Answered, Begun
    <3>2. CASE journal[KeyOf[r]] # None
      <4>1. journal' = journal /\ (Known(r) \/ Answer(r, "refused"))
        BY <1>4, <3>2 DEF Prepare
      <4>2. ~Answer(r, "refused")
        BY <1>i, <3>1 DEF Answer, Go, TypeOK
      <4> QED BY <3>1, <3>2, <4>1, <4>2 DEF Known, Sound, Begun, Answered
    <3>3. CASE journal[KeyOf[r]] = None
      <4>1. journal'[KeyOf[r]] =
              [act |-> r, created |-> created, status |-> "prepared", result |-> None]
        BY <1>i, <1>4, <3>3 DEF Prepare, TypeOK
      <4>2. journal'[KeyOf[r]] \in Entry /\ journal'[KeyOf[r]].act = r
        BY <1>i, <4>1 DEF TypeOK, Entry
      <4> QED BY <3>1, <4>2, NoneAssumption DEF Sound, Begun, Answered
    <3> QED BY <3>2, <3>3
  <2> QED BY <1>4, <2>1, <2>2 DEF Prepare
<1>5. CASE Execute(r)
  <2>1. at'[r] = "executed" /\ executed'[r] \in Receipt
    BY <1>i, <1>5 DEF Execute, Go, TypeOK
  <2> QED BY <1>i, <1>5, <2>1, NoneAssumption, OwnEntry
          DEF Execute, stores, Sound, Begun, Answered
<1>6. CASE HandOver(r) \/ HandOverFails(r) \/ EnqueueFails(r)
  <2>1. at'[r] \in {"finish", "fallback"} /\ at[r] \in Answered /\ executed'[r] = executed[r]
    BY <1>i, <1>6 DEF HandOver, HandOverFails, EnqueueFails, Go, TypeOK, Answered, Begun
  <2> QED BY <1>i, <2>1 DEF Sound, EntriesStay, Begun, Answered
<1>7. CASE Record(r)
  <2>1. /\ at[r] \in Answered /\ executed'[r] = executed[r]
        /\ at'[r] \in {"finish", "recorded"}
    BY <1>i, <1>7 DEF Record, Go, TypeOK, Answered, Begun
  <2>2. journal'[KeyOf[r]].status = "runtime_committed"
    BY <1>i, <1>7, <2>1, OwnEntry, JournalledStays DEF Record, TypeOK, Answered
  <2> QED BY <1>i, <2>1, <2>2 DEF Sound, EntriesStay, Begun, Answered
<1>8. CASE Enqueue(r)
  <2>1. /\ at[r] = "recorded" /\ at'[r] = "queued" /\ executed'[r] = executed[r]
        /\ executed[r] # None
    BY <1>i, <1>8, OwnEntry DEF Enqueue, Go, TypeOK, Begun, Answered
  <2>2. outbox'[r] # None
    BY <1>i, <1>8, <2>1 DEF Enqueue, Enqueued, TypeOK
  <2> QED BY <1>i, <2>1, <2>2 DEF Sound, EntriesStay, Begun, Answered
<1>9. CASE Mark(r)
  <2>1. at[r] \in Answered /\ at'[r] = "finish" /\ executed'[r] = executed[r]
    BY <1>i, <1>9 DEF Mark, Go, TypeOK, Answered, Begun
  <2> QED BY <1>i, <2>1 DEF Sound, EntriesStay, Begun, Answered
<1>10. CASE Finish(r)
  BY <1>0, <1>10 DEF Finish
<1> QED BY <1>1, <1>2, <1>3, <1>4, <1>5, <1>6, <1>7, <1>8, <1>9, <1>10 DEF RequestStep

\* Recovery and failures move requests nowhere but out.
LEMMA OtherSound ==
  ASSUME DeliveryInv, NEW q \in Request,
         RecoverStep \/ RecoverRaise \/ Crash \/ (\E r \in Request : Raise(r)) \/ UNCHANGED vars
  PROVE  Sound(q)'
<1>1. TypeOK /\ Sound(q) /\ EntriesStay
  BY OtherKeeps DEF DeliveryInv, RequestInv, Sound
<1>2. (at'[q] = at[q] \/ at'[q] = "done") /\ executed'[q] = executed[q]
  BY <1>1 DEF RecoverStep, RecoverBegin, RecoverEnqueue, RecoverLook, RecoverComplete,
              RecoverMark, RecoverRaise, Crash, Raise, Answer, Go, vars, TypeOK
<1> QED BY <1>1, <1>2, SoundStays

-----------------------------------------------------------------------------
(* Recovery and replies.                                                   *)

\* Recovery goes on with the entries it read, which stay committed.
LEMMA RecoverStays ==
  ASSUME TypeOK, RecoverInv, EntriesStay,
         rec'.todo \subseteq rec.todo,
         rec'.at \in {"look", "complete", "mark"} =>
           /\ rec'.key \in rec'.todo
           /\ outbox[journal[rec'.key].act] # None \/ outbox'[journal[rec'.key].act] # None
  PROVE  RecoverInv'
<1>1. \A k \in rec.todo : Committed(k)' /\ journal'[k].act = journal[k].act
                         /\ journal[k].act \in Request
  BY DEF RecoverInv, Committed, EntriesStay, TypeOK, Entry
<1> QED BY <1>1 DEF RecoverInv, EntriesStay

LEMMA RequestRecover ==
  ASSUME DeliveryInv, NEW r \in Request, RequestStep(r)
  PROVE  RecoverInv'
<1>1. rec' = rec
  BY DEF RequestStep, Look, RateLimited, Reserve, Prepare, Execute, HandOver,
         HandOverFails, Record, Enqueue, EnqueueFails, Mark, Finish
<1> QED BY <1>1, RequestKeeps, RecoverStays DEF DeliveryInv, RecoverInv

LEMMA OtherRecover ==
  ASSUME DeliveryInv,
         RecoverStep \/ RecoverRaise \/ Crash \/ (\E r \in Request : Raise(r)) \/ UNCHANGED vars
  PROVE  RecoverInv'
<1>i. TypeOK /\ RecoverInv /\ EntriesStay
  BY OtherKeeps DEF DeliveryInv
<1>1. CASE RecoverBegin
  BY <1>1 DEF RecoverBegin, RecoverInv, Pending, Committed, stores
<1>2. CASE RecoverEnqueue
  <2>1. PICK k \in rec.todo :
          /\ Enqueued(journal[k].act, journal[k].result)
          /\ rec' = [at |-> "look", todo |-> rec.todo, key |-> k]
    BY <1>2 DEF RecoverEnqueue
  <2>2. /\ journal[k].act \in Request /\ Committed(k)
        /\ journal[k].result # None
    BY <1>i DEF RecoverInv, Committed, TypeOK, Entry, DeliveryInv, JournalInv
  <2>3. outbox'[journal[k].act] # None
    BY <1>i, <2>1, <2>2 DEF Enqueued, TypeOK
  <2> QED BY <1>i, <2>1, <2>3, RecoverStays
<1>3. CASE RecoverLook
  BY <1>i, <1>3, CurrentEntry, RecoverStays DEF RecoverLook
<1>4. CASE RecoverComplete
  BY <1>i, <1>4, CurrentEntry, RecoverStays DEF RecoverComplete, Idle
<1>5. CASE RecoverMark
  BY <1>i, <1>5, RecoverStays DEF RecoverMark, Idle
<1>6. CASE RecoverRaise \/ Crash
  BY <1>i, <1>6, RecoverStays DEF RecoverRaise, Crash, Idle
<1>7. CASE (\E r \in Request : Raise(r)) \/ UNCHANGED vars
  <2>1. rec' = rec
    BY <1>7 DEF Raise, vars
  <2> QED BY <1>i, <2>1, RecoverStays DEF RecoverInv
<1> QED BY <1>1, <1>2, <1>3, <1>4, <1>5, <1>6, <1>7 DEF RecoverStep

\* Replies stay right while executions stay, and a new one that is right.
LEMMA RepliesStay ==
  ASSUME TypeOK, RepliesAgree,
         \A q \in Request : executed[q] # None => executed'[q] = executed[q],
         \A r \in Request : reply'[r] = reply[r] \/ reply'[r] = "refused" \/
           \E q \in Request : /\ KeyOf[q] = KeyOf[r] /\ BodyOf[q] = BodyOf[r]
                              /\ executed[q] = reply'[r]
  PROVE  RepliesAgree'
<1> SUFFICES ASSUME NEW r \in Request, reply'[r] \in Receipt
             PROVE  \E q \in Request : /\ KeyOf[q] = KeyOf[r] /\ BodyOf[q] = BodyOf[r]
                                       /\ executed'[q] = reply'[r]
  BY DEF RepliesAgree
<1>1. reply'[r] # None /\ reply'[r] # "refused"
  BY NoneAssumption DEF Receipt
<1>2. PICK q \in Request : /\ KeyOf[q] = KeyOf[r] /\ BodyOf[q] = BodyOf[r]
                           /\ executed[q] = reply'[r]
  BY <1>1 DEF RepliesAgree
<1> QED BY <1>1, <1>2

LEMMA RequestReplies ==
  ASSUME DeliveryInv, NEW r \in Request, RequestStep(r)
  PROVE  RepliesAgree'
<1>i. TypeOK /\ RepliesAgree /\ RequestInv /\ LedgerTellsTruth /\ KeyOf[r] \in Key
  BY RequestAssumption DEF DeliveryInv
<1>1. ASSUME NEW s, Answer(r, s), UNCHANGED executed,
             s = "refused" \/ \E q \in Request : /\ KeyOf[q] = KeyOf[r] /\ BodyOf[q] = BodyOf[r]
                                                 /\ executed[q] = s
      PROVE  RepliesAgree'
  <2>1. \A q \in Request : reply'[q] = IF q = r THEN s ELSE reply[q]
    BY <1>i, <1>1 DEF Answer, TypeOK
  <2> QED BY <1>i, <1>1, <2>1, RepliesStay
<1>2. ASSUME Held(r), Resolve(r), UNCHANGED executed
      PROVE  RepliesAgree'
  <2>1. CASE Same(r) /\ Settled(r)
    <3>1. /\ ledger[KeyOf[r]].act \in Request
          /\ KeyOf[ledger[KeyOf[r]].act] = KeyOf[r]
          /\ BodyOf[ledger[KeyOf[r]].act] = BodyOf[r]
          /\ executed[ledger[KeyOf[r]].act] = ledger[KeyOf[r]].result
      BY <1>i, <1>2, <2>1 DEF Held, Same, Settled, LedgerTellsTruth, TypeOK, Reservation
    <3> QED BY <1>1, <1>2, <2>1, <3>1 DEF Resolve
  <2>2. CASE ~(Same(r) /\ Settled(r))
    BY <1>1, <1>2, <2>2 DEF Resolve
  <2> QED BY <2>1, <2>2
<1>3. CASE Look(r)
  BY <1>i, <1>2, <1>3, RepliesStay DEF Look
<1>4. CASE RateLimited(r)
  BY <1>1, <1>4 DEF RateLimited
<1>5. CASE Reserve(r)
  BY <1>i, <1>2, <1>5, RepliesStay DEF Reserve
<1>6. CASE Prepare(r)
  BY <1>i, <1>1, <1>6, RepliesStay DEF Prepare
<1>7. CASE Execute(r)
  <2>1. executed[r] = None
    BY <1>i, <1>7 DEF Execute, RequestInv, Place, Answered, Begun
  <2> QED BY <1>i, <1>7, <2>1, RepliesStay DEF Execute, TypeOK
<1>8. CASE HandOver(r) \/ HandOverFails(r) \/ Record(r) \/ Enqueue(r) \/ EnqueueFails(r) \/ Mark(r)
  BY <1>i, <1>8, RepliesStay
     DEF HandOver, HandOverFails, Record, Enqueue, EnqueueFails, Mark
<1>9. CASE Finish(r)
  BY <1>1, <1>9 DEF Finish
<1> QED BY <1>3, <1>4, <1>5, <1>6, <1>7, <1>8, <1>9 DEF RequestStep

LEMMA OtherReplies ==
  ASSUME DeliveryInv,
         RecoverStep \/ RecoverRaise \/ Crash \/ (\E r \in Request : Raise(r)) \/ UNCHANGED vars
  PROVE  RepliesAgree'
<1>1. TypeOK /\ RepliesAgree
  BY DEF DeliveryInv
<1>2. /\ executed' = executed
      /\ \A q \in Request : reply'[q] = reply[q] \/ reply'[q] = "refused"
  BY <1>1 DEF RecoverStep, RecoverBegin, RecoverEnqueue, RecoverLook, RecoverComplete,
              RecoverMark, RecoverRaise, Crash, Raise, Answer, vars, TypeOK
<1> QED BY <1>1, <1>2, RepliesStay

-----------------------------------------------------------------------------
\* Every step keeps the invariant.
LEMMA DeliveryStep == DeliveryInv /\ [Next]_vars => DeliveryInv'
<1> SUFFICES ASSUME DeliveryInv, [Next]_vars PROVE DeliveryInv'
  OBVIOUS
<1>1. CASE \E r \in Request : RequestStep(r)
  <2>1. PICK r \in Request : RequestStep(r)
    BY <1>1
  <2>2. \A q \in Request : Sound(q)'
    BY <2>1, OthersSound, RequestSound
  <2>3. TypeOK'
    BY <2>1, RequestStepType DEF DeliveryInv
  <2>4. RequestInv'
    BY <2>2 DEF Sound, RequestInv
  <2> QED BY <2>1, <2>3, <2>4, RequestStores, RequestRecover, RequestReplies
          DEF DeliveryInv, StoreInv
<1>2. CASE RecoverStep \/ RecoverRaise \/ Crash \/ (\E r \in Request : Raise(r)) \/ UNCHANGED vars
  <2>1. \A q \in Request : Sound(q)'
    BY <1>2, OtherSound
  <2>2. TypeOK'
    BY <1>2, OtherStepType DEF DeliveryInv
  <2>3. RequestInv'
    BY <2>1 DEF Sound, RequestInv
  <2> QED BY <1>2, <2>2, <2>3, OtherStores, OtherRecover, OtherReplies
          DEF DeliveryInv, StoreInv
<1> QED BY <1>1, <1>2 DEF Next

\* The stores, requests, recovery and replies agree in every state, whatever
\* fails and with either kind of stores.
THEOREM DeliveryInvariance == Spec => []DeliveryInv
<1>1. Init => DeliveryInv
  BY NoneAssumption
     DEF Init, Idle, DeliveryInv, TypeOK, RequestInv, JournalInv, LedgerInv, RecoverInv,
         HandedOver, LedgerTellsTruth, RepliesAgree, Committed, Begun, Answered, Place, Receipt
<1> QED BY <1>1, DeliveryStep, PTL DEF Spec

\* The actions of an idempotency key are executed at most once altogether,
\* even when the ledger is lost with its host.
THEOREM ExecutedOnce == Spec => []AtMostOnce
<1>1. DeliveryInv => AtMostOnce
  BY DEF DeliveryInv, RequestInv, AtMostOnce
<1> QED BY <1>1, DeliveryInvariance, PTL

\* The outbox delivers receipts of executed actions only, and holds all that
\* the journal calls handed over.
THEOREM Handover == Spec => []HandedOver
<1>1. DeliveryInv => HandedOver
  BY DEF DeliveryInv
<1> QED BY <1>1, DeliveryInvariance, PTL

\* A settled reservation shows the result of its own action, and is completed
\* only if the kernel accepted it, whoever settled it.
THEOREM LedgerTells == Spec => []LedgerTellsTruth
<1>1. DeliveryInv => LedgerTellsTruth
  BY DEF DeliveryInv
<1> QED BY <1>1, DeliveryInvariance, PTL

\* A client is only ever told the receipt of the one execution of its key, and
\* only if it asked for that action.
THEOREM Replies == Spec => []RepliesAgree
<1>1. DeliveryInv => RepliesAgree
  BY DEF DeliveryInv
<1> QED BY <1>1, DeliveryInvariance, PTL

\* With a durable ledger a settled reservation is never changed again, by a
\* late request, by recovery or by a crash.
THEOREM SettlingIsFinal ==
  ASSUME LedgerDurable
  PROVE  Spec => SettledStays
<1>1. ASSUME DeliveryInv, [Next]_vars, NEW k \in Key, ledger[k] # None,
             ledger[k].status # "reserved"
      PROVE  ledger'[k] = ledger[k]
  <2>1. TypeOK
    BY <1>1 DEF DeliveryInv
  <2>2. CASE \E r \in Request : RequestStep(r)
    <3>1. PICK r \in Request : RequestStep(r)
      BY <2>2
    <3>2. CASE Reserve(r)
      BY <1>1, <2>1, <3>2 DEF Reserve, Held, TypeOK
    <3>3. CASE Finish(r)
      BY <1>1, <2>1, <3>3 DEF Finish, Completable, Completed, TypeOK
    <3>4. CASE ~Reserve(r) /\ ~Finish(r)
      BY <3>1, <3>4 DEF RequestStep, Look, RateLimited, Prepare, Execute, HandOver,
                        HandOverFails, Record, Enqueue, EnqueueFails, Mark, stores
    <3> QED BY <3>2, <3>3, <3>4
  <2>3. CASE RecoverComplete
    BY <1>1, <2>1, <2>3 DEF RecoverComplete, Completable, Completed, TypeOK
  <2>4. CASE Crash
    BY <2>4 DEF Crash
  <2>5. CASE \/ RecoverBegin \/ RecoverEnqueue \/ RecoverLook \/ RecoverMark \/ RecoverRaise
             \/ (\E r \in Request : Raise(r)) \/ UNCHANGED vars
    BY <2>5 DEF RecoverBegin, RecoverEnqueue, RecoverLook, RecoverMark, RecoverRaise, Raise,
                vars, stores
  <2> QED BY <1>1, <2>2, <2>3, <2>4, <2>5 DEF Next, RecoverStep
<1>2. DeliveryInv /\ [Next]_vars =>
        [ \A k \in Key : (ledger[k] # None /\ ledger[k].status # "reserved")
            => ledger'[k] = ledger[k] ]_vars
  BY <1>1
<1> QED BY <1>2, DeliveryInvariance, PTL DEF Spec, SettledStays

=============================================================================
