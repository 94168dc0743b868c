------------------------------- MODULE Hosts -------------------------------
(* What the models of hosts share: the hosts, and what stands for nothing. *)
CONSTANTS
  Host,  \* the processes that serve worlds, or want to
  None   \* Python's None: no record, no lease, no runtime, nothing to write

=============================================================================
