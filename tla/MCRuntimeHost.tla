---------------------------- MODULE MCRuntimeHost ----------------------------
(***************************************************************************)
(* Two hosts, each with an owner id of its own; one recovers its leases    *)
(* and renews them.  Both are started from the registry or with packages.  *)
(***************************************************************************)
EXTENDS RuntimeHost, TLC

CONSTANTS a, b, town, wood

MCSorted       == <<town, wood>>
MCCommandLines == {<<town>>, <<town, wood>>}

=============================================================================
