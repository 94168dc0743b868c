------------------------- MODULE OutboxWorkersProofs -------------------------
(***************************************************************************)
(* For any number of workers, bridges and events: QueueInv is an invariant *)
(* of OutboxWorkers, and OutboxWorkers implements EventDelivery.           *)
(***************************************************************************)
EXTENDS OutboxWorkers, TLAPS

\* Of the bounds, what the steps need.
LEMMA Bounds == MaxLog \in Nat /\ Event = 1..MaxLog /\ Limits \subseteq Nat /\ Delays \subseteq Nat
BY BoundAssumption DEF Event

\* A row in any of its forms is a row.
LEMMA RowShape ==
  ASSUME NEW r \in Row, NEW s \in {"pending", "claimed", "acked"}, NEW a \in Nat,
         NEW n \in Nat, NEW b \in Worker \cup {None}
  PROVE  [status |-> s, created |-> r.created, available |-> a, attempts |-> n, by |-> b] \in Row
BY DEF Row

\* The invariant holds initially.
LEMMA InitQueueInv == Init => QueueInv
<1> SUFFICES ASSUME Init PROVE QueueInv
  OBVIOUS
<1>1. TypeOK
  BY Bounds DEF Init, TypeOK
<1>2. NothingSkipped
  BY Bounds DEF Init, NothingSkipped
<1>3. HandsAreClaims
  BY DEF Init, HandsAreClaims
<1> QED
  BY <1>1, <1>2, <1>3 DEF QueueInv

\* A worker's row is claimed, so no other worker has it.
LEMMA Exclusive ==
  ASSUME QueueInv, NEW v \in Worker, NEW w \in Worker, NEW e \in Event,
         e \in hand[v], e \in hand[w]
  PROVE  v = w
BY DEF QueueInv, HandsAreClaims, ClaimedBy

\* Tick and Append touch neither rows nor hands.
LEMMA ClockKeeps == ASSUME QueueInv, Tick \/ Append PROVE QueueInv'
<1>1. TypeOK'
  BY Bounds DEF QueueInv, TypeOK, Tick, Append
<1>2. NothingSkipped'
  <2>1. log' >= log /\ log' \in Nat
    BY Bounds DEF QueueInv, TypeOK, Tick, Append
  <2> QED
    BY <2>1, Bounds DEF QueueInv, TypeOK, NothingSkipped, Tick, Append
<1>3. HandsAreClaims'
  BY DEF QueueInv, HandsAreClaims, ClaimedBy, Tick, Append
<1> QED
  BY <1>1, <1>2, <1>3 DEF QueueInv

\* What is enqueued is new: a row that is there stays as it is.
LEMMA EnqueueKeeps ==
  ASSUME QueueInv, NEW e \in Event
  PROVE  /\ Enqueued(e) \in [Event -> Row \cup {None}]
         /\ Enqueued(e)[e] # None
         /\ \A f \in Event : rows[f] # None => Enqueued(e)[f] = rows[f]
<1>1. Fresh \in Row
  BY DEF QueueInv, TypeOK, Fresh, Row
<1>2. Fresh # None
  BY <1>1, NoneAssumption
<1>3. rows \in [Event -> Row \cup {None}]
  BY DEF QueueInv, TypeOK
<1>4. CASE rows[e] = None
  <2>1. Enqueued(e) = [rows EXCEPT ![e] = Fresh]
    BY <1>4 DEF Enqueued
  <2> QED
    BY <2>1, <1>1, <1>2, <1>3, <1>4
<1>5. CASE rows[e] # None
  BY <1>3, <1>5 DEF Enqueued
<1> QED
  BY <1>4, <1>5

LEMMA DrainKeeps == ASSUME QueueInv, NEW b \in Bridge, Drain(b) PROVE QueueInv'
<1> DEFINE e == cursor[b] + 1
<1>1. e \in Event /\ cursor[b] \in 0..MaxLog /\ log \in 0..MaxLog
  BY Bounds DEF QueueInv, TypeOK, Drain
<1>2. /\ rows' \in [Event -> Row \cup {None}] /\ rows'[e] # None
      /\ \A f \in Event : rows[f] # None => rows'[f] = rows[f]
  BY <1>1, EnqueueKeeps DEF Drain
<1>3. cursor' = [cursor EXCEPT ![b] = e] /\ cursor \in [Bridge -> 0..MaxLog]
  BY DEF Drain, QueueInv, TypeOK
<1>4. TypeOK'
  BY <1>1, <1>2, <1>3, Bounds DEF QueueInv, TypeOK, Drain
<1>5. NothingSkipped'
  <2> SUFFICES ASSUME NEW d \in Bridge
               PROVE  cursor'[d] <= log /\ \A f \in 1..cursor'[d] : rows'[f] # None
    BY DEF NothingSkipped, Drain
  <2>1. cursor[d] <= log /\ cursor[d] \in 0..MaxLog /\ \A f \in 1..cursor[d] : rows[f] # None
    BY <1>3 DEF QueueInv, NothingSkipped
  <2>2. CASE d = b
    <3>1. cursor'[d] = e /\ e <= log
      BY <2>2, <1>1, <1>3 DEF Drain
    <3>2. ASSUME NEW f \in 1..e PROVE rows'[f] # None
      <4>1. f = e \/ f \in 1..cursor[b]
        BY <1>1
      <4>2. f \in Event
        BY <1>1, Bounds
      <4> QED
        BY <4>1, <4>2, <1>2, <2>1, <2>2
    <3> QED
      BY <3>1, <3>2
  <2>3. CASE d # b
    <3>1. cursor'[d] = cursor[d]
      BY <2>3, <1>3
    <3>2. 1..cursor[d] \subseteq Event
      BY <2>1, Bounds
    <3> QED
      BY <3>1, <3>2, <2>1, <1>2
  <2> QED
    BY <2>2, <2>3
<1>6. HandsAreClaims'
  <2> SUFFICES ASSUME NEW w \in Worker
               PROVE  /\ \A f \in hand[w] : ClaimedBy(f, w)'
                      /\ call[w] # None =>
                           /\ call[w].event \in hand[w] /\ call[w].row.status # "claimed"
                           /\ call[w].row.attempts = rows'[call[w].event].attempts
    BY DEF HandsAreClaims, Drain
  <2>1. hand[w] \subseteq Event
    BY DEF QueueInv, TypeOK
  <2>2. \A f \in hand[w] : rows[f] # None /\ rows'[f] = rows[f]
    BY <2>1, <1>2 DEF QueueInv, HandsAreClaims, ClaimedBy
  <2> QED
    BY <2>2 DEF QueueInv, HandsAreClaims, ClaimedBy
<1> QED
  BY <1>4, <1>5, <1>6 DEF QueueInv

LEMMA RestartKeeps == ASSUME QueueInv, NEW b \in Bridge, RestartBridge(b) PROVE QueueInv'
<1>1. TypeOK'
  BY Bounds DEF QueueInv, TypeOK, RestartBridge
<1>2. NothingSkipped'
  BY Bounds DEF QueueInv, TypeOK, NothingSkipped, RestartBridge
<1>3. HandsAreClaims'
  BY DEF QueueInv, HandsAreClaims, ClaimedBy, RestartBridge
<1> QED
  BY <1>1, <1>2, <1>3 DEF QueueInv

\* claim() takes pending rows, which nobody has.
LEMMA ClaimKeeps == ASSUME QueueInv, NEW w \in Worker, Claim(w) PROVE QueueInv'
<1> PICK limit \in Limits : \E batch \in Batches(limit) :
       /\ rows' = [e \in Event |-> IF e \in batch THEN Taken(e, w) ELSE rows[e]]
       /\ hand' = [hand EXCEPT ![w] = batch]
  BY DEF Claim
<1>1. PICK batch \in Batches(limit) :
        /\ rows' = [e \in Event |-> IF e \in batch THEN Taken(e, w) ELSE rows[e]]
        /\ hand' = [hand EXCEPT ![w] = batch]
  OBVIOUS
<1>2. batch \subseteq Event /\ \A e \in batch : rows[e] # None /\ rows[e].status = "pending"
  BY <1>1 DEF Batches, Ready
<1>3. \A e \in batch : rows[e] \in Row
  BY <1>2 DEF QueueInv, TypeOK
<1>4. \A e \in batch : Taken(e, w) \in Row /\ Taken(e, w).status = "claimed" /\ Taken(e, w).by = w
  BY <1>3 DEF Taken, Row
<1>5. \A e \in batch : Taken(e, w) # None
  BY <1>4, NoneAssumption
<1>6. TypeOK'
  <2>1. rows' \in [Event -> Row \cup {None}]
    BY <1>1, <1>4 DEF QueueInv, TypeOK
  <2>2. hand' \in [Worker -> SUBSET Event]
    BY <1>1, <1>2 DEF QueueInv, TypeOK
  <2> QED
    BY <2>1, <2>2 DEF QueueInv, TypeOK, Claim
<1>7. NothingSkipped'
  <2>1. \A e \in Event : rows[e] # None => rows'[e] # None
    BY <1>1, <1>5
  <2>2. \A b \in Bridge : 1..cursor[b] \subseteq Event
    BY Bounds DEF QueueInv, TypeOK
  <2> QED
    BY <2>1, <2>2 DEF QueueInv, NothingSkipped, Claim
<1>8. HandsAreClaims'
  <2> SUFFICES ASSUME NEW v \in Worker
               PROVE  /\ \A f \in hand'[v] : ClaimedBy(f, v)'
                      /\ call[v] # None =>
                           /\ call[v].event \in hand'[v] /\ call[v].row.status # "claimed"
                           /\ call[v].row.attempts = rows'[call[v].event].attempts
    BY DEF HandsAreClaims, Claim
  <2>1. CASE v = w
    <3>1. hand[w] = {} /\ hand'[w] = batch
      BY <1>1 DEF Claim, QueueInv, TypeOK
    <3>2. call[w] = None
      BY <3>1 DEF QueueInv, HandsAreClaims
    <3>3. \A f \in batch : rows'[f] = Taken(f, w)
      BY <1>1, <1>2
    <3> QED
      BY <2>1, <3>1, <3>2, <3>3, <1>4, <1>5 DEF ClaimedBy
  <2>2. CASE v # w
    <3>1. hand'[v] = hand[v] /\ hand[v] \subseteq Event
      BY <2>2, <1>1 DEF QueueInv, TypeOK
    <3>2. \A f \in hand[v] : f \notin batch
      BY <1>2 DEF QueueInv, HandsAreClaims, ClaimedBy
    <3>3. \A f \in hand[v] : rows'[f] = rows[f]
      BY <3>1, <3>2, <1>1
    <3> QED
      BY <3>1, <3>3 DEF QueueInv, HandsAreClaims, ClaimedBy
  <2> QED
    BY <2>1, <2>2
<1> QED
  BY <1>6, <1>7, <1>8 DEF QueueInv

\* What an ack() or a retry() is going to write is a row that claims nothing.
LEMMA BeginKeeps ==
  ASSUME QueueInv, NEW w \in Worker, NEW e \in Event, NEW row \in Row,
         row.status # "claimed", row.attempts = rows[e].attempts, Begin(w, e, row)
  PROVE  QueueInv'
<1>1. call' = [call EXCEPT ![w] = [event |-> e, row |-> row]] /\ e \in hand[w]
  BY DEF Begin
<1>2. TypeOK'
  BY <1>1 DEF QueueInv, TypeOK, Begin, Call
<1>3. NothingSkipped'
  BY DEF QueueInv, NothingSkipped, Begin
<1>4. HandsAreClaims'
  BY <1>1 DEF QueueInv, TypeOK, HandsAreClaims, ClaimedBy, Begin
<1> QED
  BY <1>2, <1>3, <1>4 DEF QueueInv

LEMMA FinishKeeps == ASSUME QueueInv, NEW w \in Worker, Finish(w) PROVE QueueInv'
<1>1. PICK e \in Event : BeginAck(w, e) \/ BeginRetry(w, e)
  BY DEF Finish
<1>2. rows[e] # None
  BY <1>1 DEF BeginAck, BeginRetry, Begin, ClaimedBy
<1>3. rows[e] \in Row
  BY <1>2 DEF QueueInv, TypeOK
<1>4. CASE BeginAck(w, e)
  <2>1. Finished(rows[e]) \in Row /\ Finished(rows[e]).status = "acked"
        /\ Finished(rows[e]).attempts = rows[e].attempts
    BY <1>3 DEF Finished, Row
  <2> QED
    BY <2>1, <1>4, BeginKeeps DEF BeginAck
<1>5. CASE BeginRetry(w, e)
  <2>1. PICK delay \in Delays : Begin(w, e, Returned(rows[e], delay))
    BY <1>5 DEF BeginRetry
  <2>2. now + delay \in Nat
    BY Bounds DEF QueueInv, TypeOK
  <2>3. Returned(rows[e], delay) \in Row /\ Returned(rows[e], delay).status = "pending"
        /\ Returned(rows[e], delay).attempts = rows[e].attempts
    BY <1>3, <2>2 DEF Returned, Row
  <2> QED
    BY <2>1, <2>3, BeginKeeps
<1> QED
  BY <1>1, <1>4, <1>5

\* The row that is overwritten is still the one that was read.
LEMMA WriteKeeps == ASSUME QueueInv, NEW w \in Worker, Write(w) PROVE QueueInv'
<1> DEFINE e == call[w].event
<1>1. /\ call[w] \in Call /\ e \in Event /\ call[w].row \in Row /\ call[w].row # None
      /\ e \in hand[w]
  BY NoneAssumption DEF QueueInv, TypeOK, HandsAreClaims, Write, Call
<1>2. rows' = [rows EXCEPT ![e] = call[w].row] /\ hand' = [hand EXCEPT ![w] = hand[w] \ {e}]
      /\ call' = [call EXCEPT ![w] = None]
  BY DEF Write
<1>3. TypeOK'
  BY <1>1, <1>2 DEF QueueInv, TypeOK, Write
<1>4. NothingSkipped'
  <2>1. \A b \in Bridge : 1..cursor[b] \subseteq Event
    BY Bounds DEF QueueInv, TypeOK
  <2>2. \A f \in Event : rows[f] # None => rows'[f] # None
    BY <1>1, <1>2 DEF QueueInv, TypeOK
  <2> QED
    BY <2>1, <2>2 DEF QueueInv, NothingSkipped, Write
<1>5. HandsAreClaims'
  <2> SUFFICES ASSUME NEW v \in Worker
               PROVE  /\ \A f \in hand'[v] : ClaimedBy(f, v)'
                      /\ call'[v] # None =>
                           /\ call'[v].event \in hand'[v] /\ call'[v].row.status # "claimed"
                           /\ call'[v].row.attempts = rows'[call'[v].event].attempts
    BY DEF HandsAreClaims
  <2>1. \A f \in Event : f # e => rows'[f] = rows[f]
    BY <1>2 DEF QueueInv, TypeOK
  <2>2. CASE v = w
    BY <1>2, <2>1, <2>2 DEF QueueInv, TypeOK, HandsAreClaims, ClaimedBy
  <2>3. CASE v # w
    <3>1. hand'[v] = hand[v] /\ call'[v] = call[v] /\ hand[v] \subseteq Event
      BY <1>2, <2>3 DEF QueueInv, TypeOK
    <3>2. e \notin hand[v]
      BY <1>1, <2>3, Exclusive
    <3> QED
      BY <3>1, <3>2, <2>1 DEF QueueInv, HandsAreClaims, ClaimedBy
  <2> QED
    BY <2>2, <2>3
<1> QED
  BY <1>3, <1>4, <1>5 DEF QueueInv

LEMMA DieKeeps == ASSUME QueueInv, NEW w \in Worker, Die(w) PROVE QueueInv'
<1>1. TypeOK'
  BY DEF QueueInv, TypeOK, Die
<1>2. NothingSkipped'
  BY DEF QueueInv, NothingSkipped, Die
<1>3. HandsAreClaims'
  BY DEF QueueInv, TypeOK, HandsAreClaims, ClaimedBy, Die
<1> QED
  BY <1>1, <1>2, <1>3 DEF QueueInv

LEMMA NextKeeps == QueueInv /\ [Next]_vars => QueueInv'
<1> SUFFICES ASSUME QueueInv, [Next]_vars PROVE QueueInv'
  OBVIOUS
<1>1. CASE Tick \/ Append
  BY <1>1, ClockKeeps
<1>2. ASSUME NEW b \in Bridge, Drain(b) \/ RestartBridge(b) PROVE QueueInv'
  BY <1>2, DrainKeeps, RestartKeeps
<1>3. ASSUME NEW w \in Worker, Claim(w) \/ Finish(w) \/ Write(w) \/ Die(w) PROVE QueueInv'
  BY <1>3, ClaimKeeps, FinishKeeps, WriteKeeps, DieKeeps
<1>4. CASE UNCHANGED vars
  BY <1>4 DEF vars, QueueInv, TypeOK, NothingSkipped, HandsAreClaims, ClaimedBy
<1> QED
  BY <1>1, <1>2, <1>3, <1>4 DEF Next

\* Bridges that restart skip no event, and a row is in one worker's hands at
\* most: the unguarded write of ack() and retry() overwrites the row it read.
THEOREM QueueSafe == Spec => []QueueInv
BY InitQueueInv, NextKeeps, PTL DEF Spec

-----------------------------------------------------------------------------
(* The refinement: one lemma per action that is not a stutter.             *)

\* The mapped state, as the abstract actions use it.
LEMMA Mapped ==
  ASSUME QueueInv, NEW e \in Event
  PROVE  /\ rows[e] = None => Place(e) = "absent"
         /\ (rows[e] # None /\ rows[e].status = "pending") => Place(e) = "waiting"
         /\ (rows[e] # None /\ rows[e].status = "acked") => Place(e) = "acked"
         /\ (rows[e] # None /\ rows[e].status = "claimed") => Place(e) = rows[e].by
BY DEF Place

\* An event whose row does not change keeps its place.
LEMMA SamePlace ==
  ASSUME NEW e \in Event, rows'[e] = rows[e]
  PROVE  Place(e)' = Place(e)
BY DEF Place

LEMMA DrainRefines ==
  ASSUME QueueInv, NEW b \in Bridge, Drain(b)
  PROVE  Abstract!Next \/ UNCHANGED [e \in Event |-> Place(e)]
<1> PICK e \in Event : e = cursor[b] + 1
  BY Bounds DEF QueueInv, TypeOK, Drain
<1>2. rows' = Enqueued(e) /\ rows \in [Event -> Row \cup {None}]
  BY DEF Drain, QueueInv, TypeOK
<1>3. CASE rows[e] # None
  BY <1>2, <1>3, SamePlace DEF Enqueued
<1>4. CASE rows[e] = None
  <2>1. rows' = [rows EXCEPT ![e] = Fresh]
    BY <1>2, <1>4 DEF Enqueued
  <2>2. Fresh \in Row /\ Fresh.status = "pending"
    BY DEF QueueInv, TypeOK, Fresh, Row
  <2>3. rows'[e] = Fresh /\ Fresh # None
    BY <2>1, <2>2, <1>2, NoneAssumption
  <2>4. Place(e) = "absent" /\ Place(e)' = "waiting"
    BY <1>4, <2>2, <2>3 DEF Place
  <2>5. \A f \in Event : f # e => Place(f)' = Place(f)
    BY <2>1, <1>2, SamePlace
  <2>6. Abstract!Put(e)
    BY <2>4, <2>5 DEF Abstract!Put
  <2> QED
    BY <2>6 DEF Abstract!Next
<1> QED
  BY <1>3, <1>4

LEMMA ClaimRefines ==
  ASSUME QueueInv, NEW w \in Worker, Claim(w)
  PROVE  Abstract!Next
<1> PICK limit \in Limits : \E batch \in Batches(limit) :
       rows' = [e \in Event |-> IF e \in batch THEN Taken(e, w) ELSE rows[e]]
  BY DEF Claim
<1>1. PICK batch \in Batches(limit) :
        rows' = [e \in Event |-> IF e \in batch THEN Taken(e, w) ELSE rows[e]]
  OBVIOUS
<1>2. batch \subseteq Event /\ \A e \in batch : rows[e] # None /\ rows[e].status = "pending"
  BY <1>1 DEF Batches, Ready
<1>3. \A e \in batch : Taken(e, w) \in Row /\ Taken(e, w).status = "claimed" /\ Taken(e, w).by = w
  BY <1>2 DEF QueueInv, TypeOK, Taken, Row
<1>4. \A e \in batch : rows'[e] = Taken(e, w) /\ Taken(e, w) # None
  BY <1>1, <1>2, <1>3, NoneAssumption
<1>5. \A e \in batch : Place(e) = "waiting" /\ Place(e)' = w
  BY <1>2, <1>3, <1>4 DEF Place
<1>6. \A e \in Event : e \notin batch => Place(e)' = Place(e)
  BY <1>1, SamePlace
<1>7. Abstract!Take(w, batch)
  BY <1>2, <1>5, <1>6 DEF Abstract!Take
<1> QED
  BY <1>2, <1>7 DEF Abstract!Next

LEMMA WriteRefines ==
  ASSUME QueueInv, NEW w \in Worker, Write(w)
  PROVE  Abstract!Next
<1> PICK e \in Event, r \in Row : e = call[w].event /\ r = call[w].row
  BY DEF QueueInv, TypeOK, Write, Call
<1>1. r # None /\ r.status # "claimed" /\ ClaimedBy(e, w)
  BY NoneAssumption DEF QueueInv, HandsAreClaims, Write
<1>2. rows' = [rows EXCEPT ![e] = r] /\ rows \in [Event -> Row \cup {None}]
  BY DEF Write, QueueInv, TypeOK
<1>3. rows'[e] = r
  BY <1>2
<1>4. Place(e) = w
  BY <1>1 DEF Place, ClaimedBy
<1>5. \A f \in Event : f # e => Place(f)' = Place(f)
  BY <1>2, SamePlace
<1>6. CASE r.status = "pending"
  <2>1. Place(e)' = "waiting"
    BY <1>1, <1>3, <1>6 DEF Place
  <2>2. Abstract!Return(w, e)
    BY <1>4, <1>5, <2>1 DEF Abstract!Return
  <2> QED
    BY <2>2 DEF Abstract!Next
<1>7. CASE r.status = "acked"
  <2>1. Place(e)' = "acked"
    BY <1>1, <1>3, <1>7 DEF Place
  <2>2. Abstract!Acknowledge(w, e)
    BY <1>4, <1>5, <2>1 DEF Abstract!Acknowledge
  <2> QED
    BY <2>2 DEF Abstract!Next
<1> QED
  BY <1>1, <1>6, <1>7 DEF Row

LEMMA StepRefines ==
  QueueInv /\ [Next]_vars => [Abstract!Next]_([e \in Event |-> Place(e)])
<1> SUFFICES ASSUME QueueInv, [Next]_vars
             PROVE  Abstract!Next \/ UNCHANGED [e \in Event |-> Place(e)]
  OBVIOUS
<1>1. ASSUME rows' = rows PROVE UNCHANGED [e \in Event |-> Place(e)]
  BY <1>1, SamePlace
<1>2. CASE Tick \/ Append
  BY <1>1, <1>2 DEF Tick, Append
<1>3. ASSUME NEW b \in Bridge, Drain(b) \/ RestartBridge(b)
      PROVE  Abstract!Next \/ UNCHANGED [e \in Event |-> Place(e)]
  BY <1>1, <1>3, DrainRefines DEF RestartBridge
<1>4. ASSUME NEW w \in Worker, Claim(w) \/ Finish(w) \/ Write(w) \/ Die(w)
      PROVE  Abstract!Next \/ UNCHANGED [e \in Event |-> Place(e)]
  <2>1. CASE Finish(w) \/ Die(w)
    BY <1>1, <2>1 DEF Finish, BeginAck, BeginRetry, Begin, Die
  <2> QED
    BY <1>4, <2>1, ClaimRefines, WriteRefines
<1>5. CASE UNCHANGED vars
  BY <1>1, <1>5 DEF vars
<1> QED
  BY <1>2, <1>3, <1>4, <1>5 DEF Next

\* The initial states map to initial states.
LEMMA InitRefines == Init => Abstract!Init
BY DEF Init, Abstract!Init, Place

\* The outbox delivers as EventDelivery says: an acknowledged event is never
\* delivered again, and only the worker that has an event acknowledges it or
\* gives it back.
THEOREM OutboxImplementsDelivery == Spec => DeliversOnceAcked
<1>1. Spec => []QueueInv
  BY QueueSafe
<1> QED
  BY <1>1, InitRefines, StepRefines, PTL DEF Spec, DeliversOnceAcked, Abstract!Spec

=============================================================================
