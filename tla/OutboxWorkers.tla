--------------------------- MODULE OutboxWorkers ---------------------------
(***************************************************************************)
(* From the runtime's event log to consumers: RuntimeEventOutboxBridge     *)
(* (src/compilableworld_mcp/runtime_event_outbox.py) copies events into    *)
(* the outbox, workers claim rows and acknowledge or return them (claim,   *)
(* ack and retry of src/compilableworld_mcp/outbox.py).                    *)
(*                                                                         *)
(* enqueue() and claim() are one transaction each.  ack() and retry() read *)
(* the row and check the claim, and write the whole row in a transaction   *)
(* of its own: `call' is what such a call has yet to write.  The bridge's  *)
(* cursor and the list of rows a worker claimed exist in memory only.  A   *)
(* worker id makes one call at a time; a worker that dies comes back under *)
(* its id and knows nothing.  An event is its position in the log, whose   *)
(* dedupe key <runtime>:<event id> identifies its row.                     *)
(***************************************************************************)
EXTENDS Naturals, FiniteSets

CONSTANTS
  Worker,       \* worker ids
  Bridge,       \* bridges of the runtime, one per host that drains its log
  Limits,       \* limits that claim() is called with
  Delays,       \* retry_after_seconds
  None,         \* no row, no call
  MaxLog,       \* bound: events in the log
  MaxTime,      \* bound: no row becomes available later
  MaxAttempts,  \* bound: a consumer takes an event at this attempt at last
  MaxLosses     \* bound: bridges restart and workers die so often

Event == 1..MaxLog
Row ==
  [status : {"pending", "claimed", "acked"}, created : Nat, available : Nat,
   attempts : Nat, by : Worker \cup {None}]
Call == [event : Event, row : Row]

ASSUME BoundAssumption ==
  /\ MaxLog \in Nat /\ MaxTime \in Nat /\ MaxAttempts \in Nat /\ MaxLosses \in Nat
  /\ Limits \subseteq Nat \ {0} /\ Delays \subseteq Nat
ASSUME NoneAssumption ==
  /\ None \notin Worker /\ None \notin Row /\ None \notin Call
  /\ Worker \cap {"absent", "waiting", "acked"} = {}

VARIABLES
  log,      \* number of events in runtime.event_log
  cursor,   \* [Bridge -> position]: RuntimeEventOutboxBridge.cursor
  rows,     \* [Event -> row or None]: the table mcp_outbox
  hand,     \* [Worker -> events]: what claim() returned and is not finished
  call,     \* [Worker -> call or None]: an ack() or retry() that has read its row
  now,      \* int(time.time())
  losses    \* bound

vars == <<log, cursor, rows, hand, call, now, losses>>

-----------------------------------------------------------------------------
Init ==
  /\ log = 0 /\ cursor = [b \in Bridge |-> 0]
  /\ rows = [e \in Event |-> None]
  /\ hand = [w \in Worker |-> {}] /\ call = [w \in Worker |-> None]
  /\ now = 0 /\ losses = 0

Tick ==
  /\ now < MaxTime /\ now' = now + 1
  /\ UNCHANGED <<log, cursor, rows, hand, call, losses>>

\* The runtime publishes an event.
Append ==
  /\ log < MaxLog /\ log' = log + 1
  /\ UNCHANGED <<cursor, rows, hand, call, now, losses>>

Fresh == [status |-> "pending", created |-> now, available |-> now, attempts |-> 0, by |-> None]

\* Mutant of Enqueued: the dedupe key is not looked up.
EnqueuedAgain(e) == [rows EXCEPT ![e] = Fresh]

\* enqueue(): an existing row with the dedupe key is returned as it is.
Enqueued(e) == IF rows[e] = None THEN [rows EXCEPT ![e] = Fresh] ELSE rows

\* Mutant of Drain: the cursor moves although enqueue() raised.
DrainRegardless(b) ==
  /\ cursor[b] < log
  /\ cursor' = [cursor EXCEPT ![b] = cursor[b] + 1]
  /\ rows' \in {rows, Enqueued(cursor[b] + 1)}
  /\ UNCHANGED <<log, hand, call, now, losses>>

\* One turn of the loop of drain(); an enqueue() that raises ends the loop and
\* leaves the cursor where it was.
Drain(b) ==
  /\ cursor[b] < log
  /\ rows' = Enqueued(cursor[b] + 1)
  /\ cursor' = [cursor EXCEPT ![b] = cursor[b] + 1]
  /\ UNCHANGED <<log, hand, call, now, losses>>

RestartBridge(b) ==
  /\ cursor[b] > 0 /\ losses < MaxLosses
  /\ cursor' = [cursor EXCEPT ![b] = 0] /\ losses' = losses + 1
  /\ UNCHANGED <<log, rows, hand, call, now>>

Ready ==
  {e \in Event : rows[e] # None /\ rows[e].status = "pending" /\ rows[e].available <= now}

\* The first rows by creation time, as many as the limit allows; rows of one
\* second are ordered by their random ids.
Batches(limit) ==
  {batch \in SUBSET Ready :
     /\ batch # {} /\ Cardinality(batch) <= limit
     /\ batch # Ready => Cardinality(batch) = limit
     /\ \A e \in batch, f \in Ready \ batch : rows[e].created <= rows[f].created}

Taken(e, w) ==
  [status |-> "claimed", created |-> rows[e].created, available |-> rows[e].available,
   attempts |-> rows[e].attempts + 1, by |-> w]

\* claim(): one transaction; the worker has finished what it claimed before.
Claim(w) ==
  /\ hand[w] = {}
  /\ \E limit \in Limits : \E batch \in Batches(limit) :
       /\ rows' = [e \in Event |-> IF e \in batch THEN Taken(e, w) ELSE rows[e]]
       /\ hand' = [hand EXCEPT ![w] = batch]
  /\ UNCHANGED <<log, cursor, call, now, losses>>

\* _assert_claim()
ClaimedBy(e, w) == rows[e] # None /\ rows[e].status = "claimed" /\ rows[e].by = w

Returned(r, delay) ==
  [status |-> "pending", created |-> r.created, available |-> now + delay,
   attempts |-> r.attempts, by |-> None]

Finished(r) ==
  [status |-> "acked", created |-> r.created, available |-> r.available,
   attempts |-> r.attempts, by |-> None]

\* ack() or retry() has read the row of e and made the row it will write.
Begin(w, e, row) ==
  /\ e \in hand[w] /\ call[w] = None /\ ClaimedBy(e, w)
  /\ call' = [call EXCEPT ![w] = [event |-> e, row |-> row]]
  /\ UNCHANGED <<log, cursor, rows, hand, now, losses>>

BeginAck(w, e) == Begin(w, e, Finished(rows[e]))

\* The consumer failed.
BeginRetry(w, e) ==
  /\ rows[e] # None /\ rows[e].attempts < MaxAttempts
  /\ \E delay \in Delays : now + delay <= MaxTime /\ Begin(w, e, Returned(rows[e], delay))

\* _write(): the whole row, under no condition.
Write(w) ==
  /\ call[w] # None
  /\ rows' = [rows EXCEPT ![call[w].event] = call[w].row]
  /\ hand' = [hand EXCEPT ![w] = hand[w] \ {call[w].event}]
  /\ call' = [call EXCEPT ![w] = None]
  /\ UNCHANGED <<log, cursor, now, losses>>

Die(w) ==
  /\ hand[w] # {} /\ losses < MaxLosses
  /\ hand' = [hand EXCEPT ![w] = {}] /\ call' = [call EXCEPT ![w] = None]
  /\ losses' = losses + 1
  /\ UNCHANGED <<log, cursor, rows, now>>

Finish(w) == \E e \in Event : BeginAck(w, e) \/ BeginRetry(w, e)

Next ==
  \/ Tick \/ Append
  \/ \E b \in Bridge : Drain(b) \/ RestartBridge(b)
  \/ \E w \in Worker : Claim(w) \/ Finish(w) \/ Write(w) \/ Die(w)

Spec == Init /\ [][Next]_vars

\* Time passes, a bridge is drained again and again, and a worker that has rows
\* goes on with them and then asks for more.
FairSpec ==
  /\ Spec /\ WF_vars(Tick)
  /\ \A b \in Bridge : WF_vars(Drain(b))
  /\ \A w \in Worker : WF_vars(Claim(w)) /\ WF_vars(Finish(w)) /\ WF_vars(Write(w))

-----------------------------------------------------------------------------
TypeOK ==
  /\ log \in 0..MaxLog /\ now \in Nat /\ losses \in Nat
  /\ cursor \in [Bridge -> 0..MaxLog]
  /\ rows \in [Event -> Row \cup {None}]
  /\ hand \in [Worker -> SUBSET Event]
  /\ call \in [Worker -> Call \cup {None}]

\* Every event before a bridge's cursor has its row.
NothingSkipped ==
  \A b \in Bridge : cursor[b] <= log /\ \A e \in 1..cursor[b] : rows[e] # None

\* A row that a worker has is claimed by it and by nobody else, and a call in
\* flight writes a row that did not change since it was read.
HandsAreClaims ==
  \A w \in Worker :
    /\ \A e \in hand[w] : ClaimedBy(e, w)
    /\ call[w] # None =>
         /\ call[w].event \in hand[w] /\ call[w].row.status # "claimed"
         /\ call[w].row.attempts = rows[call[w].event].attempts

\* Nothing between the log and a worker's hands is lost or held twice, although
\* ack() and retry() check a row in one transaction and overwrite it in another
\* and a restarted bridge reads the log from its start.
QueueInv == TypeOK /\ NothingSkipped /\ HandsAreClaims

Place(e) ==
  CASE rows[e] = None -> "absent"
    [] rows[e] # None /\ rows[e].status = "pending" -> "waiting"
    [] rows[e] # None /\ rows[e].status = "acked" -> "acked"
    [] OTHER -> rows[e].by

Abstract == INSTANCE EventDelivery WITH place <- [e \in Event |-> Place(e)]

\* The outbox implements its abstract specification: whatever bridges restart
\* and workers die, an event is with one worker at a time, is acknowledged by
\* the worker that has it, and is never delivered after that.
DeliversOnceAcked == Abstract!Spec

\* The row of a worker that died: claim() passes it over for ever.
Stranded(e) ==
  rows[e] # None /\ rows[e].status = "claimed" /\ e \notin hand[rows[e].by]

\* Every event of the log is acknowledged in the end, unless a worker died
\* with its row.
EventsArrive ==
  \A e \in Event : (e <= log) ~> (rows[e] # None /\ (rows[e].status = "acked" \/ Stranded(e)))

=============================================================================
