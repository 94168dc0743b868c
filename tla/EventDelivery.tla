---------------------------- MODULE EventDelivery ----------------------------
(***************************************************************************)
(* What TransactionalOutbox promises its consumers                         *)
(* (src/compilableworld_mcp/outbox.py): an event waits, is with one        *)
(* worker, waits again when the worker returns it, and is acknowledged     *)
(* once, for good, by the worker that has it.  OutboxWorkers implements    *)
(* this specification.                                                     *)
(***************************************************************************)
CONSTANTS Event, Worker

VARIABLE place    \* [Event -> "absent", "waiting", "acked" or the worker that has it]

Init == place = [e \in Event |-> "absent"]

Put(e) ==
  /\ place[e] = "absent"
  /\ place' = [place EXCEPT ![e] = "waiting"]

\* One worker takes several events at once; none of them is with another.
Take(w, batch) ==
  /\ \A e \in batch : place[e] = "waiting"
  /\ place' = [e \in Event |-> IF e \in batch THEN w ELSE place[e]]

Return(w, e) ==
  /\ place[e] = w
  /\ place' = [place EXCEPT ![e] = "waiting"]

Acknowledge(w, e) ==
  /\ place[e] = w
  /\ place' = [place EXCEPT ![e] = "acked"]

Next ==
  \/ \E e \in Event : Put(e)
  \/ \E w \in Worker : \/ \E batch \in SUBSET Event : Take(w, batch)
                       \/ \E e \in Event : Return(w, e) \/ Acknowledge(w, e)

Spec == Init /\ [][Next]_place

=============================================================================
