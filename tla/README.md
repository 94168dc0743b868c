# CompilableWorld runtime: a TLA+ verification

TLA+ models of the CompilableWorld runtime (`src/`), model-checked with TLC on
small instances and, for the cores, proved with TLAPS for every instance. Paths
below are relative to the repository; `kernel.py:562` means
`src/compilableworld/kernel.py`, line 562.

1. [The system](#1-the-system): components, state, interactions, what is hard
2. [The modules](#2-the-modules): how state and actions correspond to the code
3. [The runs](#3-the-runs): what TLC checks, bounds, fairness
4. [The proofs](#4-the-proofs): what TLAPS proves, from what, and how
5. [What the code does not keep](#5-what-the-code-does-not-keep)
6. [What is not modelled](#6-what-is-not-modelled)
7. [What is left to do](#7-what-is-left-to-do)

## 1. The system

A world is compiled from authored packages into an IR and executed by a
deterministic, tick-driven kernel. Hosts (terminal, web, MCP) parse commands
into `ActionIR`s, submit them and advance the tick. Everything the kernel does
is appended to an event log that must be able to rebuild it. Around the kernel
the MCP layer adds ownership of a runtime by one host, sessions, idempotent
action delivery with a commit journal and an outbox, and audit. The agent
memory kernel is a separate service beside it.

### 1.1 Components

| Component | State | Operations | Interacts with |
|---|---|---|---|
| World kernel (`compilableworld/kernel.py`) | scheduler tick and heap, registry of actions, runtime record of every long action (route cursor, branches, retries, child steps), versioned world state, event log | submit, advance, cancel, interrupt, commit_reaction, save/load snapshot, replay | modules (evaluate), event bus subscribers, event log file |
| World modules (`modules.py`, `state_machine.py`, `combat_formulas.py`, `dialogue.py`, `functions.py`) | none of their own: cells of the state store; the function cache | evaluate(action), reactions to published events | kernel commit / commit_reaction |
| Entity transaction (`entity_transaction.py`, `player_generation.py`, `schema_registry.py`) | registry and state owned by new entities | atomic create with rollback | kernel registry and state store |
| World compiler (`compiler.py`, `action_behavior.py`, `studio*.py`, `narrative.py`) | none (pure) | compile and validate packages | its guarantees are assumptions of the kernel model |
| Terminal and web hosts (`gateway.py`, `webgateway.py`, `cli.py`, `scenarios.py`) | one runtime, one lock | parse commands, submit, advance | kernel |
| Runtime ownership (`runtime_ownership.py`) | one lease record per (world, runtime): owner, lease hash, expiry, status, revision, fencing token | acquire, require, renew, release, recover, prune, heartbeat | service, coordination |
| Coordination and quorum (`runtime_coordination.py`, `runtime_quorum.py`) | terms, votes; a lease record for the leader | open_term, record_vote, acquire_leader, renew, release | ownership store |
| Action delivery (`action_gateway.py`, `action_ledger.py`, `action_journal.py`, `outbox.py`, `runtime_event_outbox.py`, `runtime_durability.py`) | idempotency ledger, commit journal, outbox, durability projection | reserve, prepare, runtime_committed, enqueue, complete, claim, ack, retry, recover | kernel submit, outbox consumers |
| Sessions and access (`session_store.py`, `security.py`, `secure_gateway.py`, `rate_limit.py`, `revocation.py`, ...) | sessions, principals, revocations, rate windows | open, rotate, close, revoke, consume | service |
| Audit (`audit.py`, `audit_store.py`) | hash chain of envelopes and anchors | append, verify, anchor | gateways |
| MCP service and transports (`service.py`, `server.py`, `runtime_bindings.py`, ...) | registered runtimes, bindings | register, rehydrate, start, stop, close | everything above |
| Agent memory kernel (`agent_memory_kernel/`) | JSONL ledger of raw events beside SQLite, proposals, clean memories, checkpoints | capture, propose, review, promote, revoke, reconcile | SQLite, ledger file |

### 1.2 What is hard, and what makes each part correct

**World kernel.** One thread, but an `advance()` is long: it decides the phase
boundaries of all long actions on live state (running child actions that commit
cells), appends one batch, publishes events whose subscribers interrupt other
actors' actions, pops the ready actions and executes each one with a batch of
its own. Any append may raise `KernelTransactionError`, and each place undoes
something else. Correct means: the log replays into the live state; an actor
has one long action; an action executes only at its terminal phase; effects
happen once although gates are retried and ticks rolled back; what ended stays
ended; what was scheduled ends.

**Behaviors with phases.** The compiler searches the authored graph once; the
kernel then walks it with one of two interpreters, one that keeps a route and
one that recomputes its position from the queue each tick. Correct means: the
compiler accepts the legal graphs and no others, and both interpreters walk the
phases as the author was told.

**World modules and reactions.** The events of an action are published depth
first; quests and state machines commit, log and publish inside that delivery,
and any append in the middle of it may fail and unwind all of it; the actor at the
root may have been replaced meanwhile. Correct means: items are in one place,
bodies consistent, each quest pays once to whom it belongs, and the log is a
gapless history.

**Files.** Nothing locks log and snapshot; a process may die in the middle of a
write. Correct means: what was acknowledged stays, what was refused is gone, and
no restored state has effects that the log lacks.

**Ownership.** Hosts share a SQLite file; `acquire` and `recover` are one
transaction, the other calls read in one and write in another. A leader also
needs a quorum of votes in a term of its own. Correct means: two owners never
both own a runtime, tokens grow, leaders were elected, and the lease of a dead
host becomes free.

**Hosts.** A start registers several worlds one by one and has to take all back
when one of them is held; a heartbeat thread renews leases while `close()`
releases them. Correct means: what was taken is given back, and hosts do not keep
each other from starting for ever.

**Action delivery.** A request passes through three stores and the kernel, each
step a transaction, with crashes, exceptions, client retries and a recovery
loop beside it. Correct means: an idempotency key executes once; what clients,
ledger, journal and outbox say agrees with what the kernel did; what was
committed is delivered.

**Outbox.** Workers claim rows, check their claim in one transaction and write
in another, and die with rows in hand. Correct means: an event is with one
worker, is acknowledged once, and arrives.

**Sessions.** A session exists in the store and in memory, and every request
passes several checks that are steps of their own. Correct means: what ended
stays ended, one of several rotations wins, and a late request does nothing.

**Memory.** A ledger file and SQLite are written in turn, a promotion in three
commits. Correct means: the ledger rebuilds SQLite, versions rest on decisions
and evidence that are there, and private evidence stays private.

`PROJECT.json` lists the hazards at their lines with the properties aimed at them.

## 2. The modules

| Module | What it is | Extends |
|---|---|---|
| `WorldKernel` | scheduler, long actions, tick, interruption, log | |
| `KernelSnapshot` | what a snapshot holds and what loading one checks | `WorldKernel` |
| `ActionGraph` | the compiler's search of an authored action graph | |
| `ActionWalk` | compile, then walk: both interpreters of behaviors with phases | `ActionGraph` |
| `PhaseWalk` | abstract: what an author is promised of a behavior with phases | |
| `WorldModules` | the rules of the built-in verbs, as operators | |
| `Reactions` | depth-first publication, machines, quests, new players | `WorldModules` |
| `WorldFiles` | event log and snapshot file, torn writes, two processes | `Hosts` |
| `Hosts` | the constants that the models of hosts share | |
| `OwnershipLease` | the lease of one runtime, hosts, crashes, clock | `Hosts` |
| `LeaderQuorum` | terms, votes and the leader lease | `OwnershipLease` |
| `RuntimeHost` | start, heartbeats and close of hosts with several worlds | `Hosts` |
| `ActionDelivery` | `submit_action()` and `recover_outbox()` over the stores | |
| `OutboxWorkers` | event bridge, claims, acknowledgements of competing workers | |
| `EventDelivery` | abstract: what the outbox promises its consumers | |
| `SecureSessions` | sessions in store and memory, tokens, grants, rate window | |
| `MemoryGovernance` | ledger, SQLite, proposals, reviews, versions | |
| `*Proofs` | theorems: `WorldKernelProofs` (with `KernelSnapshot`), `ActionWalkProofs` (with `ActionGraph`), `ReactionsProofs`, `HostProofs` (both leases, `RuntimeHost`, `WorldFiles`), `ActionDeliveryProofs`, `OutboxWorkersProofs`, `SecureSessionsProofs`, `MemoryGovernanceProofs` | the module |
| `MC*` | small instances for TLC | the module |

Definitions marked "Mutant of ..." are the ways a plausible bug would change
the definition that follows; no action uses them. They show that each checked
property depends on the code.

### 2.1 WorldKernel

| Variable | In the code |
|---|---|
| `tick`, `counter` | `Scheduler.tick`, `Scheduler._counter` |
| `act` | `WorldRuntime.actions` (status, actor, target, verb) |
| `queue` | `Scheduler._queue` joined with `WorldRuntime.action_runtime` |
| `cell` | `StateStore`: a Boolean with a version for each actor |
| `image` | the value `replay()` folds from the durable records |
| `effects` | history: how often each phase of an action took effect |
| `pc`, `todo`, `hits`, `ready`, `before` | where `advance()` is, and its local variables |

Actions between two ticks: `SubmitRefused`, `SubmitNow`, `SubmitDelayed`,
`SubmitLong` (`submit()`, `kernel.py:511`, with `_execute()`), `Cancel`
(`cancel_action()`). A tick is a sequence of steps because failures and
interruptions bite in its middle: `BeginTick` takes the copies and the entries
whose boundary is now; for each entry in heap order one of `ChildFails`,
`Progresses`, `Retries`, `GivesUp`; then `TickLogged` or `TickRollsBack`; then
`PublishHit` for each event that interrupts; then `PopReady` and `ExecuteReady`
for each popped action, which completes, is rejected, is rolled back, or
completes and raises because the interruption it caused cannot be appended.
Nothing else runs between these steps: `Submit` and `Cancel` need `Idle`.

The log is represented by its meaning. `replay()` is a fold over the records,
so the model keeps the fold's value: appending a record applies replay's own
handler, with its checks (`image.ok` becomes false where replay raises). That
makes "the log replays into the live state" one comparison
(`ReplayFaithful`), with no bound on the length of the log.

The authored behavior is data: constants `Phase`, `Branches`, `Ticks`,
`Longest`, `Gated`, `Policy`, with what the compiler validates as
`GraphAssumption` (a default branch of lowest priority in every phase but the
terminal one, no cycle: `Longest` bounds every route; `ActionWalkProofs` proves
that the compiler lets nothing else through). World modules are three
kinds of effect on cells (`open`, `strike`, `step`), accepted or rejected at
will.

### 2.2 OwnershipLease

`rec` is the row, `grant[h]` the `RuntimeLeaseGrant` host `h` keeps,
`pending[h]` the record it has read and not yet written. With `Serial = TRUE`
`renew`, `release` and `require` are one step, as behind a coordination server
whose handlers run to completion; with `Serial = FALSE` the write is a step of
its own (`Write`), as for hosts that open the SQLite file themselves. `newest`
and `highest` are history: a host *owns* the runtime (`Owns`) when its own
clock says so and its owner has not recovered the lease elsewhere. A restarted
process is another `Host` of the same `OwnerId`. All clocks are one clock in
units of the lease; reading it and taking the lock are one step.

### 2.3 ActionDelivery

`ledger`, `journal` and `outbox` are the three stores, `at[r]` where call `r`
of `submit_action()` stands between two of their transactions, `executed[r]`
what the kernel did, `reply[r]` what the client heard, `rec` the loop of
`recover_outbox()`. `SharedStore` selects between the one-transaction handoff
(`HandOver`) and record / enqueue / mark; `LedgerDurable` says whether the
reservations survive a crash (the default store is in memory). `Raise` is an
exception that nothing handles, at any place; `Crash` ends all running calls.
One recovery loop runs at a time. Keys stand for (session, key) pairs, bodies
for fingerprints; the kernel answers with any receipt status.

### 2.4 KernelSnapshot

`Snapshot` is what `save_snapshot()` writes of a kernel state; `Accepts` is the
validation of `load_snapshot()` record by record (cursor, branches, completed
steps, retries, due ticks); `Restored` is the runtime it builds, with the counter
that is never below an order in the queue. There are no actions of its own: the
property says that whatever state the kernel reaches between two calls, loading
its snapshot gives that state back.

### 2.5 ActionGraph, ActionWalk, PhaseWalk

`ActionGraph` is the depth-first search of `compiler.py` with `path`, `visited`
and the `longest` duration of each finished phase; `Check` rejects what the loop
before the search rejects. Limits on identifiers and on the sum of durations,
conditions and child specifications are left out.

`ActionWalk` continues where the search ends: `Submit` queues a compiled action,
`Advance` is one tick. For `static_dag` the record keeps phase and due tick
(`StaticBoundary`); for `linear` the kernel keeps no position and compares the
ticks elapsed, computed back from the due tick in the queue, with the phases'
ends (`LinearBoundary`): a retry must move that due tick by exactly the interval,
or later boundaries are missed. `PhaseWalk` is what both implement: stay in a
phase for its ticks, take one branch out of it, run its child once, wait at a
gate as long as the policy allows. The mapping is `Promise` in `ActionWalk`; the
run checks it with fairness, and its safety part is proved.

### 2.6 WorldModules and Reactions

`WorldModules` translates `evaluate()` of each module: an operator from the world
`w` (a record of all cells) to a set of outcomes, empty for a rejection; dice make
several. An exchange of blows is a composition, in the order of
`_resolve_formula()`: a volley (its damage, how many of its blows land and when it
ends: `LandedOf`, `Left`), the target after it (`Taken`), the statuses of both an
exchange older and a shield that ends gone with its points (`Older`), and the
counter volley against the health the attacker had before (`Self`, `Countered`).
MP and FP are one pool, and the order of misses within a volley is abstracted.

In `Reactions` an action executes (`Submit`, or `Schedule` and `Fire`), and
`agenda` holds the rest of the recursion of `EventBus.publish()`, flattened:
`Deliver` makes the next callback, whose own events go in front. The bus calls the
subscribed modules in the order of their registration (`QuestsFirst`), a module
its machines or quests in the order of the package (`MachineOrder`, `QuestOrder`).
An append that fails anywhere (`LogMayFail`) undoes that reaction and clears the
agenda, since the exception unwinds every `publish()` under way. `ActorOf` walks
the causes of an event as `resolve_state_machine_actor()` does, down to the event's
target when the actor at the root is gone; its limit of 64 causes
(`state_machine.py:125`) is left out. The events of a machine are aimed at its
`Owner`, an entity or, for a machine of the world, nobody (`modules.py:582`); the
owner may be a player. `CreatePlayer` replaces a player and hands over what it
carried; the machines it owned are back in their initial states, since their cells
go with the old player's (`Owned`); what it had scheduled still fires. What
the compiler checks of authored quests and machines (no way out of a terminal
state, one transition for a state, event and priority, every source reachable,
terminal events as the only triggers among those reactions emit) is
`AuthoringAssumption`, part by part. `BeginOK` is what a world may be at the start;
it asks that those who are there have health, which the compiler does not check
(section 5). `haunted` and `created` are history: the items that actions of
replaced players touched, and who replaced whom when the log had which length
(`There`: who was in the registry when an event was logged).

### 2.7 WorldFiles

`file` is the log's lines, `snap` the snapshot file, `rt[p]` the runtime of a
process and `writing[p]` an append under way. A crash leaves any part of the
batch in the file (`Cuts`); a line without its newline is glued to what is
appended next (`Appended`). `Refused` is an append that raises, with `truncate()`
to the length taken before the write (`Undone`): the file is as it was, also when
its last line had no newline, unless another process wrote or truncated meanwhile;
then it cuts what that one wrote, or fills with zeros. `spoilt` is history and
marks exactly the damage the properties except.

### 2.8 LeaderQuorum

The record of `OwnershipLease` under the leader's key, with `opened`,
`candidate` and `votes` beside it. `AcquireLeader` is the quorum check followed by
`Acquire` or `Recover`, in one handler of the coordination server
(`Serial = TRUE`). Renewals do not ask for the quorum again, as in the code. The
plain acquire endpoint, which accepts the leader's key and asks for no term, is
not an action.

### 2.9 RuntimeHost

One process per `Host`: `Rehydrate` (start from the binding registry) or `Start`
(with packages), `Register` or `RegisterPackage` for each world, `Run`, then
`Stop` and one `Close` per world, or `Unwind` after a failed registration. After
the last world a start may still fail (`RunFails`): a heartbeat refuses its interval,
or the MCP package is missing; either way `main()` ends before the `try` whose
`finally` calls `close()`, also when the worlds came from the registry.
A lease is its owner and whether it is live; `Renewing` reads and `Renewed` writes,
so a renewal that outlasts its join stores the lease of a host that is gone.
`orphans` is history: leases left behind by a crash, by a `main()` that ended
outside that `try` (at a package or in `RunFails`), or by such a renewal.

### 2.10 OutboxWorkers and EventDelivery

`log` and `cursor[b]` are the runtime's events and the in-memory position of each
bridge, `rows` the table, `hand[w]` what a worker claimed, `call[w]` an `ack()`
or `retry()` that has read its row and not yet written it. `EventDelivery` says
where an event can be: absent, waiting, with one worker, acknowledged; the
mapping is `Place`. A worker id makes one call at a time, so that nothing can
change a claimed row between the read and the write of an `ack()`; two processes
under one id are left out. Within one second the order of rows is arbitrary.

### 2.11 SecureSessions

`store` is the lifecycle table, `live` the sessions in the service's memory,
`req[r]` where a request stands between authentication, the check of the store,
the look into memory and its work. An action looks twice: `Look` is
`runtime_for_security()` and `Submit` is `runtime.submit()`; the journal's
`prepare()` lies between, no lock is held, and nobody looks again. Operators deny,
grant, withdraw and revoke between any two of these; calls may fail; the host
crashes, starts and rehydrates before it serves
(docs/MCP_REHYDRATION_M12_LOCAL_SLICE.md:34). Tokens are numbers with the one they
replaced. `hits` are the rows of the limiter, which deletes those before its
cutoff; `admitted` is history, every admission with its time.

### 2.12 MemoryGovernance

`ledger` is the file, `raw` the lines SQLite has, `proposals` and `clean` the
other tables; `op` is the operation under way, which a crash (`Stop`) or an
exception (`Raise`) may cut between any two commits. `Open` reconciles. A proposal
cites a list of events (`References`), which may name one twice or one that does not
exist; `Found` is what `review()` finds of it, repetitions included, and `Validated`
counts as `governance.py:106` does. The append to the ledger is atomic: a line torn
by a crash in the middle of its write is left out (section 5). Confidence and tokens
are data, all candidates are of one kind about one subject, one process uses the
store.

## 3. The runs

Every run passes; the last column counts distinct states.

| Run | Question | Bounds | States |
|---|---|---|---|
| `KernelReplay` | Without failures: does the log always replay into the live queue and cells, does every snapshot load, does everything scheduled end? | 2 actors, 2 actions, submissions up to tick 3, 8 ticks | 343,130 |
| `KernelFaults` | With any append failing and delayed actions: one long action per actor, cells and queue backed by the log, effects once, what ended stays ended? | 2 actors, 2 actions, submissions up to tick 3, 7 ticks | 731,206 |
| `action_walk` | Are exactly the legal graphs compiled, can the kernel run them, and do both interpreters walk the phases as promised? | 4 phases: all 50,625 graphs with up to 3 successors each; 1 rule broken; linear ones with any gates; 2 retries | 134,267 |
| `reactions` | Do items, bodies, quests and histories stay consistent in every cascade? | 2 players, 2 creatures, 2 items, 2 machines, one of them a player's, 2 quests, 3 actions, 1 new player; taking, dropping and shielding may be scheduled | 1,273,221 |
| `world_files` | What do log and snapshot keep, wherever two processes die? | 4 batches of two records, 2 deaths, 2 failing appends | 2,974,510 |
| `leader_quorum` | Is there one leader, elected, with growing tokens, and is the lease of a dead one freed? | 4 hosts of 3 owners, 2 of 3 votes, 2 terms, TTL 2, time 5, 3 leases | 449,646 |
| `runtime_host` | Is everything given back, and do hosts come up again and again? | 2 hosts, 2 worlds, 2 crashes or starts that fail at their last step | 454,624 |
| `delivery_separate` | Separate databases, durable ledger: do the stores tell what happened, stay settled, and is every committed receipt delivered? | 3 requests (one a retry), 1 crash, 1 exception | 528,264 |
| `delivery_shared` | Shared database, ledger lost in a crash: executed once, replies agree? | 4 requests (one reuses a key for another body), 1 crash, 1 exception | 303,630 |
| `outbox_workers` | Does the outbox implement `EventDelivery`, and does every event arrive? | 2 workers, 2 bridges, 2 events, 2 attempts, time 3, 1 loss | 182,486 |
| `secure_sessions` | Do sessions end once, tokens form a chain, late requests do nothing? | 2 threads, 1 principal, 1 session, 3 tokens, TTL 2, time 3, 2 disturbances | 1,100,153 |
| `memory_governance` | What do ledger, decisions and scopes keep? | 2 proposals, 3 scopes, 2 actors, 5 lists of up to 3 references, 6 ledger lines, 1 failure | 566,828 |

*Why the bounds suffice for the interesting cases.* The kernel instance has a
branch that depends on the world, a child action that closes the gate behind it
(so it is retried), a child that strikes and interrupts another actor, and a route
of three ticks: eight ticks hold a complete long action with both retries and its
successor, and two actors are what an interruption needs. Four phases give
diamonds, cross edges and cycles of every length up to four. In `reactions` one
opened door completes a machine, which alerts another and completes a quest, which
ends the other machine: four levels of nesting from one action, with a failure
possible at each; the second machine is a player's, so its events are aimed at one
who may have done nothing. A list of three references is the shortest in which one
that is repeated makes up for a missing one. Three hosts are a process, its
restart and a rival; the fourth in `leader_quorum` makes a second rival, and two
terms are what it takes for an old quorum to meet a new one. Two hosts that take
two worlds in either order are the smallest instance in which they could block
each other. One crash and one exception at any step, with recovery running beside,
produce all pairs of a failure and a concurrent step. A principal token expires
within the run of `secure_sessions`, later than a session's. Bounds are the
constants that begin with `Max`, and `LastSubmit`; each is named as a bound where
it is declared and appears in a guard only. `Submitted` and `LateVerbs` select the
inputs of `reactions`, `References` those of `memory_governance`. `CHECK_DEADLOCK FALSE` everywhere: every instance ends when
its bounded inputs are used up, and the code may stop there too. Symmetry is used
where no liveness is checked, and only over identities that the instance treats
alike (actions and actors; a request and its retry; threads; processes).

*Fairness.*
- `KernelReplay`: `WF(Advance)`, a host that keeps calling `advance()`; an
  `advance()` that began runs to its end, there is no other thread.
- `action_walk`: `WF(Advance)`, the same host; nothing makes it submit.
- `leader_quorum`: `WF(Tick)`, time passes; nobody is assumed to call anything.
- `runtime_host`: a process that is down is started again (by a supervisor,
  outside the code), one that runs goes on, its heartbeat threads go on, and a
  lease that nobody renews lapses. Nothing makes a start fail at its last step, and
  it does so as seldom as hosts crash: `ServedAgain` says nothing of a host that can
  never run, which takes the leases at every start.
- `delivery_separate`: `WF(RecoverStep)` alone, the host calls
  `recover_outbox()` again while something is pending and the loop goes on;
  requests may hang.
- `outbox_workers`: time passes, a bridge is drained again and again, a worker
  that has rows goes on with them and then asks for more (the loops of the hosts).

## 4. The proofs

TLAPS checks every theorem for all values of the constants that satisfy the
named assumptions of the modules: any actors, actions, graphs and policies; any
items, machines, quests and authored transitions; any hosts, owners, members,
quorum size and TTL; any requests and keys; any workers, bridges and events; any
sessions, scopes and memories; any number of crashes, exceptions and ticks. A
theorem with an assumption of its own beyond these says so below.

The properties are seldom inductive. The definition that is, with a comment on
each conjunct, stands in the component's module behind its properties (for
`GraphInv` in its proof module). TLC was given it as an invariant of the
component's run before it was proved; the runs do not repeat that. The proof
modules go action by action and conjunct by conjunct.

**WorldKernelProofs.** `Typing` (`[]TypeOK`) says also that what a tick holds is
empty outside of it. On it rest four invariants, each of which also holds of the
copies a failed append brings back (`before`), since nothing else would hold
after the rollback:

- `KernelInv` (`Invariance`). That an action executes only at its terminal phase
  needs the due tick to leave room for the longest route ahead (`HasRoom`), which
  a retry preserves only because it moves due tick and boundary together; this
  needs every boundary to be ahead (`BoundaryAhead`) and branches to be authored
  ones (`OnBranches`). `OneLong` and `TerminalOnly` follow.
- `HistoryInv` (`History`): how often each phase took effect is tied to the
  cursor. A phase whose child took effect lies behind it, or is the cursor's and
  in its steps, so a retry, which keeps the steps, does not run it again
  (`Counted`); and the image has every queued entry as the queue has it, for as
  long as `replay()` accepts the log (`Recorded`). `EffectsOnceHolds`,
  `LoggedWorkHolds` and the action property `EndIsFinal` follow, whichever
  appends fail.
- `RouteInv` (`Routes`): what a route has behind it. The visited phases come ever
  closer to the end, each left along its branch, and the steps are the children
  of those branches (`Travelled`); a retry is within its policy (`Retrying`).
  This is what `load_snapshot()` checks record by record.
- `Punctual` and `Mirrored`: a route is popped at the tick its last phase ends, and
  the image is the queue together with what was popped and not yet executed.
  `Punctual` needs `~LogMayFail`; `Mirrored` also `Delays = {}`, no delayed actions
  without a behavior. The code keeps neither otherwise (section 5), so the
  theorems assume them: `SnapshotAccepted` the first, `ReplayHolds` and
  `SnapshotHolds` both, which is the setting of the run `KernelReplay`.

**ReactionsProofs.** `Invariance` proves `[](TypeOK /\ ReactionsInv)`, from which
`Accountable`, `Bodily`, `Gapless`, `OnceEach` and `Belonging` follow. `Earnings`
adds `PurseHolds` to it and gives `RewardsEarned` for packages in which each quest
has one reward (`OneReward`; section 5 has what other packages do): quests are
listed once each, so one more that is completed adds what it is worth once
(`TotalAdds`). Why the conjuncts are needed:

- `Everyone` (rooms and registry agree): a `take` by an actor that is gone meets
  an item whose room reads `None` too; only with it is that case seen to be the
  only one, the one `ItemsAccounted` excepts. `Mindful` ties what is scheduled to
  its actor, so that what it touches is known to be excepted.
- `Caused` (causes come before effects) makes the walk along the causes end at an
  action. `Aimed` closes the gap between that walk and `ActorOf`, which takes the
  event's target when the actor at the root is gone: a cascade begun by a replaced
  player is aimed at no player who exists but one whose own machine has reacted in
  it (`Engaged`). That is inductive because players are created only when the agenda
  is empty, and only machines aim events at players, at their owner, and
  `QuestModule`, at the one it progresses. `Remembered` (the history of creations
  tells who is in the registry) carries what holds now over to what `QuestsBelong`
  says of the time an event was logged.
- `Dated` and `StaysDone` make the history of a quest begin when its player is
  created, and that of a machine when its owner is replaced (`Renewed`), and keep
  a quest that is authored completed from being completed again.

The combat operators are proved about for any number of blows up to four and any
damage (`BlowsAreLesser`, `VolleyDoes`, `BlowDoes`, `BodiesStay`, gathered in
`EvaluateDoes`); `Commits` and `Unwinds` once for every reaction (`DeliverDoes`).
The lemmas about recursive functions (`RootIs`, `RootStays`, `ActorIs`,
`Flattened`, `TotalIs`) are proved by least counterexample: the least number for
which a claim fails has a predecessor for which it holds.

**ActionWalkProofs.** *The compiler*: `SearchInvariance` proves `[]GraphInv`, the
invariant of the depth-first search: the path follows edges, what is finished
leads only to what is finished, nothing finished leads back, and each finished
phase has the duration of its longest way to the end. `CompilesWhatIsLegal`
concludes that a verdict is right both ways, for any finite set of phases and any
order in which the branches are visited; `CompiledRuns` concludes that what is
compiled satisfies `GraphAssumption`, which the kernel proofs assume.

*The walk*: `WalkImplementsPhases` proves that both interpreters implement
`PhaseWalk`, step by step, for any phases, durations, branches and retry policy.
It rests on `WalkInv` (`WalkInvariance`): the due tick leaves room for what is left
of the phase and for all that may follow (`OnTime`, with equality for linear
behaviors and at the terminal phase), so an action is popped in the tick its last
phase ends and never before; a retry waits for one attempt after the other, so
counting attempts and comparing ticks with the timeout come to the same
(`Retrying`); no phase ahead has a selected branch (`SelectedBehind`). The kernel's
computed position of a linear behavior meets the end of the phase it logged last
and of no other (`BoundaryIs`, from `UntilGrows`: the sums of the durations grow).

**HostProofs.** One module for what hosts share. *The leases*: `LeaseTyping` holds
in both modes. With `Serial = TRUE`, `LeaseInvariance` proves that an owned lease
is the recorded, active one and expires no sooner than its host believes; with
`LeasesApart` (no two hosts hold the same lease) it gives `Exclusive`. `Fencing`
proves that tokens grow when nothing is pruned, from `RecordHasHighest`.
`LeaderIsLease` proves that the leader protocol implements the lease protocol
(every step is one of the lease or leaves it alone), so `OneLeader` inherits
exclusiveness. `LeadersWereElected` is inductive with `TypeOK` of the lease: votes
are only added, and terms keep their candidate.

*The hosts* (`RuntimeHost`): `HostsInvariance` proves
`[]HostInv`. That a live lease which nobody left behind belongs to a host that
runs is not inductive: the host must also hold it as its grant, or the release
would do nothing, and have it among the worlds it will release (`Keeps`: those
registered, or when it closes or unwinds those it has yet to handle), or the exit
would leave it (`Accounted`). A heartbeat may store a lease again, so one that
still may is a heartbeat of such a world (`BeatsForKept`). `TakenBack` follows.
`EnabledType` (what a host lists is a sequence of worlds) is proved by least
counterexample, and `StartAssumption` has the worlds listed once each.

*The files* (`WorldFiles`): `FilesInvariance` proves `[]FilesInv`. While
nothing spoilt it, the log only grows, by lines of one batch after a last line that
is whole (`Growth`, over all cuts of a write); an append that fails leaves it as it
was. A batch that is written is in no file, has no answer and one writer
(`Fresh`), so what it leaves when its process dies is no part of an acknowledged or
refused batch, and a runtime in the middle of a call has its log's effects and
that batch's (`WritingIsNext`). `LogKept` and `StateLogged` follow, for any number
of processes: nothing in the argument needs them to take turns. `FilesAssumption`:
`None` is no runtime and no append.

**ActionDeliveryProofs.** `DeliveryInvariance` proves `[]DeliveryInv`: a
request between `prepare()` and `complete()` owns the journal entry of its key
(`RequestInv`), committed entries carry the kernel's answer (`JournalInv`),
reservations are of their key (`LedgerInv`), recovery works on committed
entries it has enqueued (`RecoverInv`). Entries never change owner, so
`ExecutedOnce`, `Handover`, `LedgerTells` and `Replies` follow. `SettlingIsFinal`
proves the action property `SettledStays` for a durable ledger.

**OutboxWorkersProofs.** `QueueSafe` proves `[]QueueInv`: nothing before a
cursor lacks its row, a row in a worker's hand is claimed by that worker, and a
call in flight writes a row nobody changed since it was read. With it,
`OutboxImplementsDelivery` maps every step to a step of `EventDelivery` or a
stutter; the overwrite of a whole row is a `Return` or `Acknowledge` only because
of the last conjunct.

**SecureSessionsProofs.** `SessionInvariance` proves `[]SessionInv`. A request is
described by where it stands (`Sound`): while it is served it names a token of its
session; once it passed the store's check it is not late; one that closes has left
the memory; one that opens is alone with a session that is in memory and not on
record. `Quiet` says that no request gets the runtime for a session recorded as
closed; nothing holds the request back after that. Records name issued tokens, and
a closed session is not live (`StoreInv`). `Chain`, `LateDoNothing`, `EndIsFinal`
and `Quiet` follow. `Rate` needs `RateInv` alone: rows that the limiter deleted
have left the window for good, so the rows it counts are all that matter; a window
that slides is covered by the one that ends at the latest admission in it.

**MemoryGovernanceProofs.** `MemoryInvariance` proves `[]MemoryInv`: lines cite
earlier lines (`LineInv`); the running operation's line is the last one until a
promotion appends its second (`OperationInv`), so what it rests on is older;
proposals cite nothing newer, and an entry's evidence may flow to its scope as far as
it is there (`ProposalInv`); only the line under way lacks its row (`MissingInv`).
What is not there when a proposal is reviewed must not get its row later, or nobody
would have looked at its scope: a line without a row has a sequence that a later row
takes, and is never inserted then (`OvertakenInv`). That the count of the events
found tells whether all are there, but only for a list that names none twice, is
`CountTells`.
`CleanIsGrounded`, `LedgerIsWhole`, `PrivateStays` and the action property
`DecisionsAreFinal` follow.

**Only model-checked.**

- All liveness (`ScheduledEnds`, `WalksThePhases`, `ServedAgain`, `Delivered`,
  `EventsArrive`, `OrphanIsFreed`): fairness and `ENABLED` are outside the prover's
  reach. Of the refinement of `PhaseWalk` that is its fairness, `FairSpec`.

## 5. What the code does not keep

Met while modelling. The named definitions are in the modules; put as the only
property into a configuration of the module, each is refuted by TLC. They are
no runs of the project, which keeps those for what the code does keep; where a
property of a run excepts such a case, it excepts that case only.

*Kernel.*
- A delayed action without an authored behavior logs `action.scheduled` and no
  terminal lifecycle event, so it is pending again after a replay
  (`kernel.py:562`; `ReplayRebuildsQueue` with `Delays = {1}`). `KernelReplay`
  therefore has no delayed actions.
- An exception while the ready actions execute drops those behind it: out of the
  queue, still `scheduled` (`kernel.py:1381`; `NothingLostOnInterrupt`).
- After an append that fails while a tick publishes, a route at its terminal phase
  stays in the idle queue overdue: the action completes one tick late, `replay()`
  refuses the log (`LogReplays`), and a snapshot saved in between is refused by
  `load_snapshot()` (`kernel.py:2094`, `2115`). `Punctual` and `SnapshotLoads` hold
  only where appends do not fail.
- A replaced player's pending `take` still executes; the removed actor's room and
  a carried item's room both read `None`, so it carries off an item its successor
  inherited, although `kernel.py:395` to `399` promise that replaced actors leave
  nothing behind. `ItemsAccounted` excepts the items of such actions.
- The event of a machine that a player owns is aimed at that player
  (`modules.py:582`). When the action at the root is of one who is gone, the player
  so aimed at stands in for it (`state_machine.py:138`): its quests progress for what
  another did (`QuestsOfActor`). `QuestsBelong` allows this case only.
- `create_player()` is not logged, dead actors can attack, and a legacy quest is
  completed by any subscribed event while its requirements hold.
- The compiler takes any number for the health of an entity and marks it alive
  (`compiler.py:366`), so one authored with 0 stands with no health from the start;
  `BeginOK` excludes it. A legacy quest may be authored with any initial state
  (`compiler.py:1456`) and then never completes unless it is `available`.
- A quest may reach `completed` by transitions with different rewards: what it
  pays depends on the one taken. The purse of `RewardsEarned` is exact for packages
  in which each quest has one reward (`OneReward`).

*Files.*
- A line torn in its middle keeps the world from starting for good.
- A crash that cuts only the newline lets the next append be glued to the line:
  acknowledged and unreadable. `truncate()` after a failed append cuts what
  another process wrote. Both set `spoilt`.
- `event_count` of a snapshot is never compared with the log.

*Ownership, leader, hosts.*
- On a database that hosts share, the unconditional write of `renew()` or
  `release()` undoes a recovery that happened after its read
  (`runtime_ownership.py:307`; `ExclusiveOwnership` with `Serial = FALSE`).
- `prune()` restarts the fencing tokens (`FencingGrows` with `Prunes = TRUE`).
- A session keeps executing on a binding whose lease lapsed (`service.py:468`).
- The plain acquire endpoint accepts the leader's key without a term, and quorums
  of older terms stay valid.
- A heartbeat that refuses its interval (`server.py:186`) and a missing MCP package
  (`server.py:192`) end `main()` outside the `try` whose `finally` closes, also after a
  start from the registry: the leases stay until their TTL. So does a start with
  packages that fails at one of them. `NothingLeftBehind` excepts these ends by name.
- Starts with packages make bindings bare (the paths of log and snapshot are lost
  when there are several packages), and take worlds in the order of the command
  line: hosts started in different orders, or beside a damaged file, can starve each
  other for as long as they are restarted that way. A heartbeat thread ends silently
  on an error that is no `RuntimeOwnershipError`.

*Delivery and outbox.*
- After a crash between the outbox handoff and `complete()` nothing settles the
  reservation (`action_journal.py:321`; `CommittedIsSettled`).
- A scheduled action is recovered as failed, while the gateway counts it as
  accepted (`action_journal.py:336`; `ScheduledIsAccepted`).
- With an in-memory ledger a retry after a crash makes recovery stop at the same
  entry every time (`Delivered` with `LedgerDurable = FALSE`).
- The rows of a worker that died stay claimed: `claim()` selects pending rows
  only. `EventsArrive` excepts them (`Stranded`).

*Sessions and memory.*
- An action whose request got the runtime (`action_gateway.py:141`) before the session
  is closed runs after it: `prepare()` comes between, and nobody looks at the session
  again before `runtime.submit()` (149; `NothingAfterClose`).
- `governance.py:106` compares how many events were found with how many different ones
  are cited. `service.py:215` keeps repetitions and drops what is missing, so
  references `[a, a, missing]` are approved (`EvidenceThere`). `Grounded` asks for all
  of the evidence where none is named twice, and for some of it otherwise.
- A crash in the middle of a close lets the session come back, a lost answer to
  a rotation locks its client out, one session without its grant keeps all from
  being rehydrated, and `open_world_session()` leaves a session without a token in
  memory when it raises.
- A crash between the clean memory and the saved decision lets a proposal be
  reviewed and promoted again (`PromotedOnce`); an insert that fails in a process
  that goes on gives two ledger lines one sequence (`Rebuildable`). A torn ledger
  line blocks every start.
- Entries in scopes that cannot see each other may contradict.

## 6. What is not modelled

- *Kernel*: inspection calls, retention of old records, the context that modules
  are given, subscribers other than the built-in modules and the interruption.
- *Modules*: dialogue choice, formula tables, skills, equipment, search loot.
- *Compiler*: everything but action behaviors, quests and state machines: a
  translation of packages, entity by entity, that ends in a document or an error;
  nothing runs beside it.
- *Ownership*: the wire format of leases, skew between the hosts' clocks.
- *Delivery*: the durability projection, several recovery loops at once.
- *Sessions*: signatures, OIDC, policies, pruning, the read-only requests.
- *Memory*: redaction, checkpoints, the context compiler, a second process.
- *Not at all* (status `not_modelled` in `PROJECT.json`): function registry,
  studio and narrative tooling, terminal and web hosts, runtime durability, audit
  chain, memory adapters. They are pure, or keep an append-only record in one
  transaction per entry, or make calls that are actions of the models above:
  there is no interleaving or failure of their own for a model checker to explore.
- `RuntimeHost` abstracts tokens and clock of `OwnershipLease`; `WorldFiles`
  abstracts the effects that `WorldKernel` logs. No module composes these pairs
  state by state; the claim each takes from the other is named in its header.

## 7. What is left to do

1. `ActionLife`, the abstract lifecycle of an action, with `WorldKernel` shown to
   implement it.
