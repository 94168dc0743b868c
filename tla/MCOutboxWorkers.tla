--------------------------- MODULE MCOutboxWorkers ---------------------------
(* Two workers and two bridges over a short log. *)
EXTENDS OutboxWorkers

CONSTANTS w1, w2, b1, b2

=============================================================================
