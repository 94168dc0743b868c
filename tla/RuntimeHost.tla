----------------------------- MODULE RuntimeHost -----------------------------
(***************************************************************************)
(* Hosts that serve worlds and come back after a crash: start-up from      *)
(* packages or from the binding registry (main of                          *)
(* src/compilableworld_mcp/server.py, rehydrate_runtime_bindings and       *)
(* register_runtime of service.py, RuntimeBindingStore), the heartbeats    *)
(* that renew a host's leases (RuntimeOwnershipHeartbeat), and close().    *)
(*                                                                         *)
(* Hosts share one ownership database and one binding database.  A lease   *)
(* is its owner and whether it is live, and may lapse at any time that no  *)
(* renewal is under way; OwnershipLease has the tokens, the store and its  *)
(* clock.  Reading a lease and writing it back are steps of their own, so  *)
(* the threads of one host, and hosts beside each other, interleave.       *)
(***************************************************************************)
EXTENDS Naturals, Sequences, FiniteSets, SequencesExt, Hosts

CONSTANTS
  World,
  Sorted,        \* the worlds in the order of their ids
  CommandLines,  \* the packages a host may be started with, in order
  Recovers,      \* hosts started with --recover-ownership
  Beats,         \* hosts started with --heartbeat
  MaxCrashes     \* bound: crashes of hosts, and of starts at their last step

ASSUME StartAssumption ==
  /\ Recovers \subseteq Host /\ Beats \subseteq Host
  /\ Sorted \in Seq(World) /\ IsInjective(Sorted)
  /\ CommandLines \subseteq Seq(World) \ {<<>>}

VARIABLES
  bound,     \* RuntimeBindingStore: [World -> off, logged or bare]
  damaged,   \* worlds whose event log or snapshot file cannot be read
  lease,     \* [World -> [owner, live]]: the store's record
  phase,     \* [Host -> where its process is]
  todo,      \* [Host -> worlds the phase has yet to handle, in order]
  worlds,    \* [Host -> worlds registered with its service, in order]
  granted,   \* [Host -> worlds whose record in the store is this host's grant]
  beat,      \* [Host -> [World -> its heartbeat: off, waiting, renewing,
             \*   or renewing although the host no longer waits for it]]
  crashes,
  orphans    \* history: worlds whose lease was left behind

hostVars == <<bound, damaged, lease, phase, todo, worlds, granted, beat, crashes, orphans>>

-----------------------------------------------------------------------------
Off == [w \in World |-> "off"]

HostInit ==
  /\ bound \in [World -> {"off", "logged"}] /\ damaged \in SUBSET World
  /\ lease = [w \in World |-> [owner |-> None, live |-> FALSE]]
  /\ phase = [h \in Host |-> "down"] /\ todo = [h \in Host |-> <<>>]
  /\ worlds = [h \in Host |-> <<>>] /\ granted = [h \in Host |-> {}]
  /\ beat = [h \in Host |-> Off]
  /\ crashes = 0 /\ orphans = {}

Enter(h, p, ws) ==
  /\ phase' = [phase EXCEPT ![h] = p] /\ todo' = [todo EXCEPT ![h] = ws]

Proceed(h) == todo' = [todo EXCEPT ![h] = Tail(@)]

\* require(): the lease is recorded, unexpired, and this host's grant.
Current(h, w) == lease[w].live /\ w \in granted[h]

\* The process is over: its threads and its memory are gone.
Exits(h) ==
  /\ Enter(h, "down", <<>>)
  /\ worlds' = [worlds EXCEPT ![h] = <<>>] /\ granted' = [granted EXCEPT ![h] = {}]
  /\ beat' = [beat EXCEPT ![h] = Off]

\* The leases that the process has are left behind.
LeavesBehind(h) == orphans' = orphans \cup {w \in World : Current(h, w)}

\* h's lease of w is on record; a grant that another host has is stale from now.
Recorded(h, w) ==
  /\ lease' = [lease EXCEPT ![w] = [owner |-> h, live |-> TRUE]]
  /\ granted' = [g \in Host |-> IF g = h THEN granted[g] \cup {w} ELSE granted[g] \ {w}]

-----------------------------------------------------------------------------
(* Start-up.                                                               *)

\* The worlds of ws that are bound: SelectSeq as a recursive function, which a
\* proof can unfold.
Enabled(ws) ==
  LET list[i \in 0 .. Len(ws)] ==
        IF i = 0 THEN <<>>
        ELSE IF bound[ws[i]] # "off" THEN Append(list[i - 1], ws[i]) ELSE list[i - 1]
  IN  list[Len(ws)]

\* Mutant of ListEnabled: hosts list the bindings in orders of their own.
ListAsStored(h) == Enabled(IF h \in Beats THEN Sorted ELSE Reverse(Sorted))

\* list_enabled(), ordered by world.
ListEnabled(h) == Enabled(Sorted)

\* from_package() with the log of the binding, and load_snapshot().
Readable(w) == bound[w] = "logged" => w \notin damaged

\* rehydrate_runtime_bindings() prepares all runtimes before it registers one; a
\* host that cannot read one of them is down again.
Rehydrate(h) ==
  /\ phase[h] = "down"
  /\ \A w \in Range(ListEnabled(h)) : Readable(w)
  /\ Enter(h, "registering", ListEnabled(h))
  /\ UNCHANGED <<bound, damaged, lease, worlds, granted, beat, crashes, orphans>>

Start(h) ==
  /\ phase[h] = "down"
  /\ \E argv \in CommandLines :
       Enter(h, IF Len(argv) = 1 THEN "package" ELSE "packages", argv)
  /\ UNCHANGED <<bound, damaged, lease, worlds, granted, beat, crashes, orphans>>

\* acquire() finds the lease free, or recover() finds it the owner's own.
Grantable(h, w) == ~lease[w].live \/ (h \in Recovers /\ lease[w].owner = h)

\* register_runtime().
Registered(h, w) ==
  /\ Recorded(h, w) /\ orphans' = orphans \ {w}
  /\ worlds' = [worlds EXCEPT ![h] = Append(@, w)]
  /\ Proceed(h)

\* Mutant of Taken: the world that was registered last is forgotten.
TakenBefore(h) == IF worlds[h] = <<>> THEN <<>> ELSE Front(worlds[h])

\* The worlds to take back when a start fails.
Taken(h) == worlds[h]

\* The next runtime is registered, or somebody else's lease ends the start.
Register(h) ==
  /\ phase[h] = "registering" /\ todo[h] # <<>>
  /\ IF Grantable(h, Head(todo[h]))
     THEN Registered(h, Head(todo[h])) /\ UNCHANGED phase
     ELSE /\ Enter(h, "unwinding", Taken(h))
          /\ UNCHANGED <<lease, granted, worlds, orphans>>
  /\ UNCHANGED <<bound, damaged, beat, crashes>>

\* register_package(): from_package() with the log the host was given.
Loads(w, record) == record = "logged" => w \notin damaged

\* register() of a new binding, update() of one there is: the whole record.
Bind(w, record) == bound' = [bound EXCEPT ![w] = record]

\* main() with packages: the next one is loaded, registered and bound, unless
\* its world is registered already.  With
\* several there is no --event-log, and a binding that exists is replaced as a
\* whole.  A package that fails ends main() before the try whose finally would
\* call close().
RegisterPackage(h) ==
  /\ phase[h] \in {"package", "packages"} /\ todo[h] # <<>>
  /\ LET w == Head(todo[h])
         record == IF phase[h] = "package" THEN "logged" ELSE "bare"
     IN  IF Loads(w, record) /\ w \notin Range(worlds[h]) /\ Grantable(h, w)
         THEN /\ Registered(h, w) /\ Bind(w, record)
              /\ UNCHANGED <<phase, beat>>
         ELSE Exits(h) /\ LeavesBehind(h) /\ UNCHANGED <<bound, lease>>
  /\ UNCHANGED <<damaged, crashes>>

\* start_runtime_ownership_heartbeat() of each world, if the host has heartbeats.
StartHeartbeats(h) ==
  beat' = [beat EXCEPT ![h] =
    [w \in World |-> IF h \in Beats /\ w \in Range(worlds[h]) THEN "waiting" ELSE "off"]]

\* The heartbeats are started, and the server runs.
Run(h) ==
  /\ phase[h] \in {"registering", "package", "packages"} /\ todo[h] = <<>>
  /\ phase' = [phase EXCEPT ![h] = "up"] /\ StartHeartbeats(h)
  /\ UNCHANGED <<bound, damaged, lease, todo, worlds, granted, crashes, orphans>>

\* All is registered, but the host cannot run: a heartbeat refuses its interval,
\* or the MCP package is missing.  main() is over before the try whose finally
\* would call close(), whichever way the worlds were registered.
RunFails(h) ==
  /\ phase[h] \in {"registering", "package", "packages"} /\ todo[h] = <<>>
  /\ crashes < MaxCrashes /\ crashes' = crashes + 1
  /\ Exits(h) /\ LeavesBehind(h)
  /\ UNCHANGED <<bound, damaged, lease>>

-----------------------------------------------------------------------------
(* Leases: renewal, expiry, release.                                       *)

\* The heartbeat's thread looks at the lease; one that is lost ends the thread.
Renewing(h, w) ==
  /\ beat[h][w] = "waiting"
  /\ beat' = [beat EXCEPT ![h][w] = IF Current(h, w) THEN "renewing" ELSE "off"]
  /\ UNCHANGED <<bound, damaged, lease, phase, todo, worlds, granted, crashes, orphans>>

\* And writes back the record it looked at, with a later expiry.
Renewed(h, w) ==
  /\ beat[h][w] \in {"renewing", "outlasting"}
  /\ Recorded(h, w)
  /\ beat' = [beat EXCEPT ![h][w] = IF @ = "outlasting" THEN "off" ELSE "waiting"]
  /\ orphans' = IF beat[h][w] = "outlasting" THEN orphans \cup {w} ELSE orphans
  /\ UNCHANGED <<bound, damaged, phase, todo, worlds, crashes>>

Expire(w) ==
  /\ lease[w].live
  /\ lease' = [lease EXCEPT ![w].live = FALSE]
  /\ UNCHANGED <<bound, damaged, phase, todo, worlds, granted, beat, crashes, orphans>>

\* release(): a lease that was lost cannot be released; both callers go on.
ReleaseLease(h, w) ==
  lease' = IF Current(h, w) THEN [lease EXCEPT ![w].live = FALSE] ELSE lease

\* The start is taken back: the worlds are forgotten and their leases released.
Unwind(h) ==
  /\ phase[h] = "unwinding"
  /\ IF todo[h] = <<>>
     THEN Exits(h) /\ UNCHANGED <<lease, orphans>>
     ELSE ReleaseLease(h, Head(todo[h])) /\ Proceed(h)
          /\ UNCHANGED <<phase, worlds, granted, beat, orphans>>
  /\ UNCHANGED <<bound, damaged, crashes>>

\* The server ends; close() goes through the worlds.
Stop(h) ==
  /\ phase[h] = "up"
  /\ Enter(h, "closing", worlds[h])
  /\ UNCHANGED <<bound, damaged, lease, worlds, granted, beat, crashes, orphans>>

\* Mutant of StillRenewing: the thread is told to stop and not joined.
StillRenewingUnnoticed(h, w) == "renewing"

\* What is left of a renewal that is under way once join() timed out.
StillRenewing(h, w) == "outlasting"

\* stop_runtime_ownership_heartbeat(release = True) of the next world: its
\* thread begins no other renewal, and one under way is joined or given up.
Close(h) ==
  /\ phase[h] = "closing"
  /\ IF todo[h] = <<>>
     THEN Exits(h) /\ UNCHANGED <<lease, orphans>>
     ELSE LET w == Head(todo[h]) IN
          /\ ReleaseLease(h, w) /\ Proceed(h)
          /\ beat' = [beat EXCEPT ![h][w] =
               IF @ = "renewing" THEN StillRenewing(h, w) ELSE "off"]
          /\ UNCHANGED <<phase, worlds, granted, orphans>>
  /\ UNCHANGED <<bound, damaged, crashes>>

\* The process dies, or an error of the store ends it.
HostCrash(h) ==
  /\ phase[h] # "down"
  /\ crashes < MaxCrashes /\ crashes' = crashes + 1
  /\ Exits(h) /\ LeavesBehind(h)
  /\ UNCHANGED <<bound, damaged, lease>>

Lifecycle(h) == Register(h) \/ RegisterPackage(h) \/ Run(h) \/ Unwind(h) \/ Close(h)

HostNext ==
  \/ \E w \in World : Expire(w)
  \/ \E h \in Host :
       \/ Rehydrate(h) \/ Start(h) \/ Lifecycle(h) \/ RunFails(h) \/ Stop(h) \/ HostCrash(h)
       \/ \E w \in World : Renewing(h, w) \/ Renewed(h, w)

HostSpec == HostInit /\ [][HostNext]_hostVars

\* A lease nobody renews.
Abandoned(w) == \A h \in Host : beat[h][w] = "off"

\* Hosts are started again; a process goes on; an abandoned lease lapses.
HostFairSpec ==
  /\ HostSpec
  /\ \A h \in Host : /\ WF_hostVars(Rehydrate(h) \/ Start(h)) /\ WF_hostVars(Lifecycle(h))
                     /\ \A w \in World : WF_hostVars(Renewing(h, w)) /\ WF_hostVars(Renewed(h, w))
  /\ \A w \in World : WF_hostVars(Abandoned(w) /\ Expire(w))

-----------------------------------------------------------------------------
\* No lease outlives its host's process but those of a host that crashed, whose
\* main() ended outside its try (at a package, at the heartbeats or at the server),
\* or whose heartbeat outlasted the join: a rehydration that another host's lease
\* ends, and a stop, take back all they took.
NothingLeftBehind ==
  \A w \in World :
    (lease[w].live /\ phase[lease[w].owner] = "down") => w \in orphans

\* While the files can be read, the worlds are served again and again: hosts that
\* start at the same time do not keep each other from starting for ever, and
\* neither does what a dead host held.  The starts that fail at their last step are
\* few: a host that could never run would take the leases again and again.
ServedAgain == damaged = {} => []<>(\E h \in Host : phase[h] = "up")

-----------------------------------------------------------------------------
(* What makes NothingLeftBehind inductive.                                 *)

HostTypeOK ==
  /\ bound \in [World -> {"off", "logged", "bare"}] /\ damaged \subseteq World
  /\ lease \in [World -> [owner : Host \cup {None}, live : BOOLEAN]]
  /\ phase \in [Host -> {"down", "registering", "package", "packages", "up", "unwinding", "closing"}]
  /\ todo \in [Host -> Seq(World)] /\ worlds \in [Host -> Seq(World)]
  /\ granted \in [Host -> SUBSET World]
  /\ beat \in [Host -> [World -> {"off", "waiting", "renewing", "outlasting"}]]
  /\ crashes \in Nat /\ orphans \subseteq World

\* The worlds whose leases h has yet to release when it is to give back all.
Keeps(h) == Range(IF phase[h] \in {"unwinding", "closing"} THEN todo[h] ELSE worlds[h])

\* A live lease that nobody left behind is the grant of a host that runs, and in
\* what this host will release.
Accounted ==
  \A w \in World : (lease[w].live /\ w \notin orphans) =>
    \E h \in Host : /\ h = lease[w].owner /\ phase[h] # "down"
                    /\ w \in granted[h] /\ w \in Keeps(h)

\* A heartbeat that may still renew a lease is that of a world its host will release.
BeatsForKept ==
  \A h \in Host, w \in World :
    beat[h][w] \in {"waiting", "renewing"} => phase[h] \in {"up", "closing"} /\ w \in Keeps(h)

HostInv == HostTypeOK /\ Accounted /\ BeatsForKept

=============================================================================
