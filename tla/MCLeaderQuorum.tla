---------------------------- MODULE MCLeaderQuorum ----------------------------
(* Four hosts of three owners: h1 and h2 are a process and its restart.    *)
EXTENDS LeaderQuorum, TLC

CONSTANTS h1, h2, h3, h4, o1, o2, o3

MCOwnerOf == h1 :> o1 @@ h2 :> o1 @@ h3 :> o2 @@ h4 :> o3

=============================================================================
