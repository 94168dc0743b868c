--------------------------- MODULE MCSecureSessions ---------------------------
(* Sessions of one principal, used by two threads.                          *)
EXTENDS SecureSessions, TLC

CONSTANTS alice, r1, r2

MCPrincipalExp == alice :> 3

Threads == Permutations({r1, r2})

=============================================================================
