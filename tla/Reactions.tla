------------------------------ MODULE Reactions ------------------------------
(***************************************************************************)
(* How the world reacts: the events of an executed action are published to *)
(* the state machines and quests of the package, whose reactions commit,   *)
(* log and publish events of their own (EventBus, commit_reaction and      *)
(* _execute of src/compilableworld/kernel.py, StateMachineModule and       *)
(* QuestModule of modules.py, resolve_state_machine_actor of               *)
(* state_machine.py).  The verbs are those of WorldModules.                *)
(*                                                                         *)
(* publish() is depth first: a reaction publishes its events inside the    *)
(* delivery of the event it reacts to, before other subscribers see that   *)
(* event.  `agenda' is the rest of this recursion, flattened: the          *)
(* deliveries still to make, the next one first.  A KernelTransactionError *)
(* anywhere in it unwinds all of it up to the caller.                      *)
(*                                                                         *)
(* Players are replaced while actions they scheduled are pending; what     *)
(* executes such an action does not look at the registry again.            *)
(***************************************************************************)
EXTENDS WorldModules, SequencesExt

CONSTANTS
  Transitions,    \* [Quest -> set of authored transitions; {} for a legacy one]
  Legacy,         \* [Quest -> [needs, reward]]: requirements of a legacy quest
  Steps,          \* [Machine -> set of transitions]
  Owner,          \* [Machine -> its owner if that is an entity, else None]
  Start,          \* [Quest \cup Machine -> initial_state]
  MachineOrder,   \* the package's machines, and its quests, in their order
  QuestOrder,
  QuestsFirst,    \* does the manifest name the quests' module first?
  Spawn,          \* world.player_spawn
  FirstPlayer,    \* the player the session begins with
  LogMayFail,     \* may EventLog.append_batch raise?
  Begin,          \* the worlds a package may start from
  Submitted,      \* bound: the actions that players submit, of Actions
  LateVerbs,      \* bound: verbs that are scheduled with a delay
  MaxLater,       \* bound: so many scheduled actions are pending at once
  MaxCreated,     \* bound: so many players are created
  MaxActions      \* bound: so many actions are submitted

VARIABLES
  w,          \* the StateStore: a record of all cells
  exists,     \* the registry: actors that are entities
  log,        \* EventLog: [type, target, what, cause, from]
  acts,       \* WorldRuntime.actions: their actors, in the order of submission
  later,      \* scheduled actions, in the order they are due
  agenda,     \* deliveries [event, to] that publish() still has to make
  created,    \* history: [who, old, at]: the players created, those they replaced,
              \* and the log's length then
  haunted     \* history: items that actions of replaced players touched

vars == <<w, exists, log, acts, later, agenda, created, haunted>>

Terminal == {"completed", "failed"}

\* The events that machines and quests emit.
Names ==
  [fsm   |-> [transitioned |-> "fsm.transitioned", completed |-> "fsm.completed",
              failed |-> "fsm.failed"],
   quest |-> [transitioned |-> "quest.transitioned", completed |-> "quest.completed",
              failed |-> "quest.failed"]]

-----------------------------------------------------------------------------
(* What the compiler lets an author write.                                 *)

\* The events that may trigger a transition: those of the modules' verbs, and of
\* the events that reactions emit only the terminal ones.  (Those of the life of an
\* action with a behavior, WorldKernel's, are left out but for action.failed.)
Triggering ==
  {"moved", "unlocked", "opened", "added", "removed", "given", "damaged", "defeated", "missed",
   "cast", "responded", "searched", "action.failed"}
    \cup {Names[kind][state] : kind \in {"quest", "fsm"}, state \in Terminal}

EdgeOK(e) ==
  e.from # e.to /\ e.from \notin Terminal /\ e.on \in Triggering /\ e.priority \in Nat

\* No two transitions of a state wait for an event with the same priority.
OneEach(E) ==
  \A e, f \in E : (e.from = f.from /\ e.on = f.on /\ e.priority = f.priority) => e = f

\* The states to which transitions lead, whatever their conditions.
Reached(E, first) ==
  LET within[n \in 0 .. Cardinality(E)] ==
        IF n = 0 THEN {first}
        ELSE within[n - 1] \cup {e.to : e \in {f \in E : f.from \in within[n - 1]}}
  IN  within[Cardinality(E)]

AllReached(E, first) == \A e \in E : e.from \in Reached(E, first)

\* A machine has neither requirements nor rewards.
MachineOK(m) ==
  /\ Steps[m] # {} /\ IsFiniteSet(Steps[m]) /\ OneEach(Steps[m]) /\ AllReached(Steps[m], Start[m])
  /\ \A e \in Steps[m] : EdgeOK(e) /\ e.needs = {} /\ e.reward = 0

RequirementOK(r) ==
  \/ r.kind = "deliver" /\ r.item \in Item /\ r.to \in Actor
  \/ r.kind = "reach" /\ r.to \in Room

RewardOK(reward, state) == reward \in Nat /\ (reward # 0 => state = "completed")

\* A quest without transitions is a legacy one, with requirements and a reward.
QuestOK(q) ==
  /\ IsFiniteSet(Transitions[q]) /\ OneEach(Transitions[q]) /\ AllReached(Transitions[q], Start[q])
  /\ \A e \in Transitions[q] :
       EdgeOK(e) /\ RewardOK(e.reward, e.to) /\ \A r \in e.needs : RequirementOK(r)
  /\ Transitions[q] = {} =>
       RewardOK(Legacy[q].reward, "completed") /\ \A r \in Legacy[q].needs : RequirementOK(r)

\* The states of quests and machines.
State ==
  {"available", "completed"} \cup {Start[x] : x \in Quest \cup Machine}
    \cup {e.to : e \in UNION ({Transitions[q] : q \in Quest} \cup {Steps[m] : m \in Machine})}

\* All cells of a world.
World ==
  [room : [Thing -> Room \cup {None}], carrier : [Item -> Actor \cup {None}],
   locked : [Door -> BOOLEAN], open : [Door -> BOOLEAN],
   health : [Actor -> Nat], alive : [Actor -> BOOLEAN],
   temp : [Actor -> Nat], shield : [Actor -> Nat], haste : [Actor -> Nat], mana : [Actor -> Nat],
   searched : [Actor -> Nat], wallet : [Actor -> Nat],
   quest : [Actor -> [Quest -> State]], fsm : [Machine -> State]]

\* A world to begin with: whoever is there is in a room, unhurt and without a
\* shield; an item is in a room or with somebody; nothing has happened yet, and
\* the purse is empty.
BeginOK(v) ==
  /\ v \in World
  /\ \A a \in Actor : v.room[a] # None <=> a \in Creature \cup {FirstPlayer}
  /\ \A i \in Item : /\ v.room[i] = None <=> v.carrier[i] # None
                     /\ v.carrier[i] \in Creature \cup {FirstPlayer, None}
  /\ \A a \in Actor : v.alive[a] /\ v.health[a] > 0 /\ v.temp[a] = 0
  /\ v.wallet[FirstPlayer] = 0
  /\ v.quest[FirstPlayer] = [q \in Quest |-> Start[q]] /\ v.fsm = [m \in Machine |-> Start[m]]

ASSUME PackageAssumption ==
  /\ \A v \in Begin : BeginOK(v)
  /\ Spawn \in Room /\ FirstPlayer \in Player
  /\ MachineOrder \in Seq(Machine) /\ Quest \cap Machine = {}
  /\ Owner \in [Machine -> Thing \cup Door \cup {None}]
  /\ QuestOrder \in Seq(Quest) /\ Range(QuestOrder) = Quest /\ IsInjective(QuestOrder)
  /\ Submitted \subseteq Actions
  /\ MaxLater \in Nat /\ MaxCreated \in Nat /\ MaxActions \in Nat

ASSUME AuthoringAssumption == (\A m \in Machine : MachineOK(m)) /\ (\A q \in Quest : QuestOK(q))

-----------------------------------------------------------------------------
(* Who an event belongs to.                                                *)

ByAction(n) == [kind |-> "action", n |-> n]
ByEvent(n)  == [kind |-> "event", n |-> n]

\* Mutant of ActorOf: the target of the event comes first.
ActorOfTarget(n) ==
  IF log[n].target \in exists \cap Player THEN log[n].target ELSE None

\* resolve_state_machine_actor(): along the causes to an action whose actor is
\* still an entity, else the target of an entity with the quest component.
ActorOf(n) ==
  LET walk[i \in 0 .. Len(log)] ==
        IF i = 0 THEN None
        ELSE IF log[i].cause.kind = "event" THEN walk[log[i].cause.n]
        ELSE IF log[i].cause.kind = "action" /\ acts[log[i].cause.n] \in exists
             THEN acts[log[i].cause.n]
        ELSE None
  IN  IF walk[n] # None THEN walk[n]
      ELSE IF log[n].target \in exists \cap Player THEN log[n].target
      ELSE None

-----------------------------------------------------------------------------
(* Publishing.                                                             *)

QuestTriggers ==
  UNION { IF Transitions[q] = {} THEN {"given", "moved"} ELSE {e.on : e \in Transitions[q]}
          : q \in Quest }

MachineTriggers == {e.on : e \in UNION {Steps[m] : m \in Machine}}

\* The callbacks of a module go through all its machines or quests.
Called(type) ==
  LET machines == IF type \in MachineTriggers THEN MachineOrder ELSE <<>>
      quests   == IF type \in QuestTriggers THEN QuestOrder ELSE <<>>
  IN  IF QuestsFirst THEN quests \o machines ELSE machines \o quests

\* The deliveries of event n: every machine or quest of a subscribed module.
Deliveries(n, type) ==
  [i \in 1 .. Len(Called(type)) |-> [event |-> n, to |-> Called(type)[i]]]

\* The deliveries of the events evs that are logged from position n + 1 on.
Publish(evs, n) == FlattenSeq([i \in 1 .. Len(evs) |-> Deliveries(n + i, evs[i].type)])

Logged(evs, cause) ==
  [i \in 1 .. Len(evs) |-> [type |-> evs[i].type, target |-> evs[i].target,
                            what |-> evs[i].what, cause |-> cause]]

-----------------------------------------------------------------------------
Init ==
  /\ w \in Begin
  /\ exists = Creature \cup {FirstPlayer}
  /\ log = <<>> /\ acts = <<>> /\ later = <<>> /\ agenda = <<>>
  /\ created = <<>> /\ haunted = {}

Idle == agenda = <<>>

\* The events evs of action n are logged and published.
Emits(n, evs) ==
  /\ log' = log \o Logged(evs, ByAction(n))
  /\ agenda' = Publish(evs, Len(log))

\* _execute() of action n: commit, append, publish.
Completes(n, x) ==
  \E o \in Evaluate(w, exists, x) :
    /\ w' = o.world /\ Emits(n, o.events)
    /\ haunted' = IF x.actor \notin exists /\ x.on \in Item
                  THEN haunted \cup {x.on} ELSE haunted

\* _fail().
Fails(n, x) ==
  /\ Emits(n, <<Event("action.failed", x.actor, x.verb)>>)
  /\ UNCHANGED <<w, haunted>>

\* The events cannot be appended, and the state is restored.
Raises == LogMayFail /\ UNCHANGED <<w, log, agenda, haunted>>

\* Whether the actor is still an entity is not asked again.
Executes(n, x) ==
  \/ Completes(n, x)
  \/ Evaluate(w, exists, x) = {} /\ Fails(n, x)
  \/ Raises

\* submit() without a delay.
Submit(x) ==
  /\ Idle /\ Len(acts) < MaxActions
  /\ acts' = Append(acts, x.actor)
  /\ IF x.actor \in exists THEN Executes(Len(acts) + 1, x)
     ELSE Fails(Len(acts) + 1, x) \/ Raises
  /\ UNCHANGED <<exists, later, created>>

\* submit() with a delay.
Schedule(x) ==
  /\ Idle /\ x.actor \in exists /\ Len(acts) < MaxActions
  /\ x.verb \in LateVerbs /\ Len(later) < MaxLater
  /\ acts' = Append(acts, x.actor)
  /\ later' = Append(later, [n |-> Len(acts) + 1, action |-> x])
  /\ UNCHANGED <<w, exists, log, agenda, created, haunted>>

\* advance() reaches the due tick of the next scheduled action.
Fire ==
  /\ Idle /\ later # <<>>
  /\ later' = Tail(later)
  /\ Executes(Head(later).n, Head(later).action)
  /\ UNCHANGED <<exists, acts, created>>

-----------------------------------------------------------------------------
(* commit_reaction().                                                      *)

\* Mutant of Unwinds: the reaction's deltas are not taken back.
UnwindsCommitted(after) ==
  /\ LogMayFail
  /\ agenda' = <<>> /\ w' = after
  /\ UNCHANGED <<exists, log, acts, later, created, haunted>>

\* The events cannot be appended: the deltas are taken back, and the exception
\* ends every publish() under way.
Unwinds(after) ==
  /\ LogMayFail
  /\ agenda' = <<>>
  /\ UNCHANGED <<w, exists, log, acts, later, created, haunted>>

\* The reaction of x to event n: after is the world with its deltas.
Commits(after, evs, n) ==
  \/ /\ w' = after
     /\ log' = log \o Logged(evs, ByEvent(n))
     /\ agenda' = Publish(evs, Len(log)) \o Tail(agenda)
     /\ UNCHANGED <<exists, acts, later, created, haunted>>
  \/ Unwinds(after)

Passes == agenda' = Tail(agenda) /\ UNCHANGED <<w, exists, log, acts, later, created, haunted>>

\* The transitions of E that the event ev triggers in this state.
Triggered(E, state, ev) ==
  {e \in E : e.from = state /\ e.on = ev.type /\ e.match \in {None, ev.what}}

\* Of the enabled ones, the one with the highest priority.
Foremost(E) == CHOOSE e \in E : \A f \in E : f.priority <= e.priority

\* <kind>.transitioned, and the terminal event that others may react to.
Announced(kind, target, what, e) ==
  <<Event(Names[kind].transitioned, target, <<what, e.from, e.to>>)>>
    \o (IF e.to \in Terminal THEN <<Event(Names[kind][e.to], target, what)>> ELSE <<>>)

\* The events of a machine are aimed at its owner if that is an entity: a player,
\* another character, an item or a door.
MachineReacts(m, n) ==
  LET E == Triggered(Steps[m], w.fsm[m], log[n])
      e == Foremost(E)
  IN  IF E = {} THEN Passes
      ELSE Commits([w EXCEPT !.fsm[m] = e.to], Announced("fsm", Owner[m], m, e), n)

\* deliver:<item>:<target> and reach:<room>.
Met(needs, a) ==
  \A r \in needs : IF r.kind = "deliver" THEN w.carrier[r.item] = r.to ELSE w.room[a] = r.to

Rewarded(a, q, state, coins) ==
  [w EXCEPT !.quest[a][q] = state, !.wallet[a] = @ + coins]

\* An authored quest follows the transition that the event triggers.
Authored(a, q, n) ==
  LET E == {e \in Triggered(Transitions[q], w.quest[a][q], log[n]) : Met(e.needs, a)}
      e == Foremost(E)
  IN  IF E = {} THEN Passes
      ELSE Commits(Rewarded(a, q, e.to, e.reward), Announced("quest", a, q, e), n)

\* Mutant of LegacyOpen: a quest completes again.
LegacyOpenAgain(a, q) == Met(Legacy[q].needs, a)

LegacyOpen(a, q) == w.quest[a][q] = "available" /\ Met(Legacy[q].needs, a)

\* A legacy quest completes on whatever event the quest module is called for.
LegacyCompletes(a, q, n) ==
  IF ~LegacyOpen(a, q) THEN Passes
  ELSE Commits(Rewarded(a, q, "completed", Legacy[q].reward),
               <<Event("quest.completed", a, q)>>, n)

QuestReacts(q, n) ==
  LET a == ActorOf(n) IN
  IF a = None THEN Passes
  ELSE IF Transitions[q] # {} THEN Authored(a, q, n) ELSE LegacyCompletes(a, q, n)

\* The next callback of the recursion.
Deliver ==
  /\ agenda # <<>>
  /\ LET x == Head(agenda).to
         n == Head(agenda).event
     IN  IF x \in Machine THEN MachineReacts(x, n) ELSE QuestReacts(x, n)

-----------------------------------------------------------------------------
\* The machines whose state goes with the cells of the player old.
Owned(old) == {m \in Machine : old # None /\ Owner[m] = old}

\* The cells of p as create_player() seeds them for a generated player; those that
\* old owned are removed, and read as they did at the beginning.
Seeded(p, old) ==
  [w EXCEPT
     !.room    = [x \in Thing |-> IF x = p THEN Spawn ELSE IF x = old THEN None ELSE @[x]],
     !.health[p] = MaxHealth, !.alive[p] = TRUE, !.wallet[p] = 0,
     !.temp[p] = 0, !.shield[p] = 0, !.haste[p] = 0, !.searched[p] = 0,
     !.mana    = [x \in Actor |-> IF x = p THEN 2 ELSE IF x = old THEN 0 ELSE @[x]],
     !.quest[p] = [q \in Quest |-> Start[q]],
     !.fsm     = [m \in Machine |-> IF m \in Owned(old) THEN Start[m] ELSE @[m]],
     !.carrier = [i \in Item |-> IF @[i] # None /\ @[i] \in {old, p} THEN p ELSE @[i]]]

\* create_player(): p replaces old, if any, and what old carried is p's.  The id
\* may be the one it replaces.  Nothing of this is logged.
CreatePlayer(p) ==
  \E old \in (Player \cap exists) \cup {None} :
    /\ Idle /\ Len(created) < MaxCreated
    /\ p \notin exists \ {old}
    /\ w' = Seeded(p, old)
    /\ exists' = (exists \ {old}) \cup {p}
    /\ created' = Append(created, [who |-> p, old |-> old, at |-> Len(log)])
    /\ UNCHANGED <<log, acts, later, agenda, haunted>>

Submission == \E x \in Submitted : Submit(x) \/ Schedule(x)

Next == Submission \/ Fire \/ Deliver \/ \E p \in Player : CreatePlayer(p)

Spec == Init /\ [][Next]_vars

-----------------------------------------------------------------------------
(* What holds whatever is published inside what, and whatever cannot be    *)
(* appended in the middle of it.                                           *)

\* An item is in a room or with somebody who exists, never in both places and
\* never in none, however it is taken, dropped, handed on or inherited from a
\* replaced player; only an action that such a player had scheduled before it
\* was replaced can take an item out of the world.
ItemsAccounted ==
  \A i \in Item \ haunted :
    /\ w.room[i] = None <=> w.carrier[i] # None
    /\ w.carrier[i] \in exists \cup {None}

\* Nobody walks with no health or lies with some, whichever blows land on both
\* sides of an exchange, and shield points never outlive the shield.
BodiesConsistent ==
  \A a \in exists :
    /\ w.alive[a] <=> w.health[a] > 0
    /\ w.temp[a] > 0 => w.shield[a] > 0

\* The length of the log when p was created.
Born(p) == Max({0} \cup {created[i].at : i \in {j \in DOMAIN created : created[j].who = p}})

Happened(type, target, what, since) ==
  {i \in since + 1 .. Len(log) :
     log[i].type = type /\ log[i].target = target /\ log[i].what = what}

\* What a quest pays, by whichever of its transitions it is completed.
Rewards(q) ==
  IF Transitions[q] = {} THEN {Legacy[q].reward}
  ELSE {e.reward : e \in {f \in Transitions[q] : f.to = "completed"}}

\* A package in which that is one reward for each quest.
OneReward == \A q \in Quest : \A r, s \in Rewards(q) : r = s

Worth(q) == IF Rewards(q) = {} THEN 0 ELSE CHOOSE r \in Rewards(q) : TRUE

\* What the quests of S are worth.
Total(S) ==
  LET sum[i \in 0 .. Len(QuestOrder)] ==
        IF i = 0 THEN 0
        ELSE sum[i - 1] + IF QuestOrder[i] \in S THEN Worth(QuestOrder[i]) ELSE 0
  IN  sum[Len(QuestOrder)]

\* A quest may be authored to be completed from the start.
Completed(p, q) == w.quest[p][q] = "completed" /\ Start[q] # "completed"

\* A quest that is completed was completed by exactly one logged event, however
\* many events of one action, or of the reactions to it, would complete it.
CompletedOnce ==
  \A p \in Player \cap exists : \A q \in Quest :
    Cardinality(Happened("quest.completed", p, q, Born(p))) = IF Completed(p, q) THEN 1 ELSE 0

\* A player's purse holds the reward of every quest it completed, once each.
PurseHolds ==
  \A p \in Player \cap exists : w.wallet[p] = Total({q \in Quest : Completed(p, q)})

\* However reactions are nested, replayed by other events or cut off by an append
\* that fails, a completed quest was completed once and paid for once.
RewardsEarned == CompletedOnce /\ PurseHolds

\* The changes of x for target that are logged after since.
Changes(kind, target, x, since) ==
  {i \in since + 1 .. Len(log) :
     log[i].type = Names[kind].transitioned /\ log[i].target = target /\ log[i].what[1] = x}

\* The state that the changes before position n lead to.
StateAt(n, changes, first) ==
  LET earlier == {i \in changes : i < n}
  IN  IF earlier = {} THEN first ELSE log[Max(earlier)].what[3]

\* From the initial state, each change begins where the one before it ended, and
\* the last one ended in the present state.
Chained(changes, first, last) ==
  /\ \A i \in changes : log[i].what[2] = StateAt(i, changes, first)
  /\ StateAt(Len(log) + 1, changes, first) = last

\* The length of the log when the owner of m was last replaced, and m with it.
Renewed(m) ==
  Max({0} \cup {created[i].at : i \in {j \in DOMAIN created : m \in Owned(created[j].old)}})

\* Reactions run nested in each other and in whatever order the bus calls them,
\* but the log tells of every machine and quest one gapless history, from its
\* initial state to the present one; it begins anew with the player it belongs to.
TransitionsChain ==
  /\ \A m \in Machine : Chained(Changes("fsm", Owner[m], m, Renewed(m)), Start[m], w.fsm[m])
  /\ \A p \in Player \cap exists : \A q \in Quest :
       Transitions[q] # {} =>
         Chained(Changes("quest", p, q, Born(p)), Start[q], w.quest[p][q])

\* The action at the end of an event's causes.
Root(n) ==
  LET walk[i \in 1 .. Len(log)] ==
        IF log[i].cause.kind = "event" THEN walk[log[i].cause.n] ELSE log[i].cause.n
  IN  walk[n]

\* Was p in the registry when event n was logged?  It had been there from the start
\* or was created before, and nobody had replaced it since.
There(p, n) ==
  \E i \in {0} \cup DOMAIN created :
    /\ IF i = 0 THEN p = FirstPlayer ELSE created[i].who = p /\ created[i].at < n
    /\ \A j \in DOMAIN created :
         (i < j /\ created[j].at < n /\ created[j].old = p) => created[j].who = p

OfMachines == {"fsm.transitioned", "fsm.completed", "fsm.failed"}
OfQuests   == {"quest.transitioned", "quest.completed", "quest.failed"}

\* In the cascade of event n, and up to it, a machine that p owns has reacted.
Engaged(p, n) ==
  \E i \in 1 .. n : Root(i) = Root(n) /\ log[i].type \in OfMachines /\ log[i].target = p

\* Quests progress for the player whose action began the cascade, not for whom
\* some event on the way was aimed at, as long as that player is there.  When it
\* is not (it was replaced while its action was pending, or never was), a quest
\* progresses only for a player whose own machine has reacted to the action.
QuestsBelong ==
  \A n \in DOMAIN log : log[n].type \in OfQuests =>
    IF There(acts[Root(n)], n) THEN log[n].target = acts[Root(n)]
    ELSE Engaged(log[n].target, n)

\* It is refuted that quests progress only for the one who acted.
QuestsOfActor ==
  \A n \in DOMAIN log : log[n].type \in OfQuests => acts[Root(n)] = log[n].target

-----------------------------------------------------------------------------
(* What makes these inductive.                                             *)

\* What a payload tells.
What ==
  Thing \cup Room \cup Door \cup (Item \X Actor) \cup Verb \cup Quest \cup Machine
    \cup ((Quest \cup Machine) \X State \X State)

\* The names of events, those of changes of state included.
EventType == Triggering \cup {Names[kind].transitioned : kind \in {"quest", "fsm"}}

TypeOK ==
  /\ w \in World /\ exists \subseteq Actor /\ Creature \subseteq exists
  /\ log \in Seq([type : EventType, target : Thing \cup Door \cup {None}, what : What,
                  cause : [kind : {"action", "event"}, n : Nat]])
  /\ acts \in Seq(Player)
  /\ later \in Seq([n : Nat, action : Actions])
  /\ agenda \in Seq([event : Nat, to : Machine \cup Quest])
  /\ created \in Seq([who : Player, old : Player \cup {None}, at : Nat])
  /\ haunted \subseteq Item

\* Exactly those are in a room who are in the registry.
Housed(v, ex) == \A a \in Actor : v.room[a] # None <=> a \in ex

Everyone == Housed(w, exists)

\* Scheduled actions are actions of those who submitted them.
Mindful == \A i \in DOMAIN later : /\ later[i].n \in DOMAIN acts
                                   /\ later[i].action.actor = acts[later[i].n]

\* Causes come before effects.
Caused ==
  \A n \in DOMAIN log :
    IF log[n].cause.kind = "event" THEN log[n].cause.n \in 1 .. n - 1
    ELSE log[n].cause.n \in DOMAIN acts

\* What is still to be delivered is logged; and if its cascade was begun by the
\* action of one who is not there, it is aimed at no player but one whose machine
\* has reacted in it.
Aimed ==
  \A i \in DOMAIN agenda :
    LET n == agenda[i].event IN
    /\ n \in DOMAIN log
    /\ \/ acts[Root(n)] \in exists
       \/ log[n].target \notin Player \cap exists
       \/ Engaged(log[n].target, n)

\* Players are created as the log grows.
Dated == \A i \in DOMAIN created : created[i].at <= Len(log)

\* What was created and replaced tells who is in the registry now.
Remembered == \A p \in Player : There(p, Len(log) + 1) <=> p \in exists

\* A quest that is completed from the start stays so.
StaysDone ==
  \A p \in Player \cap exists : \A q \in Quest :
    Start[q] = "completed" => w.quest[p][q] = "completed"

ReactionsInv ==
  /\ Everyone /\ Mindful /\ Caused /\ Aimed /\ Dated /\ Remembered /\ StaysDone
  /\ ItemsAccounted /\ BodiesConsistent /\ TransitionsChain /\ CompletedOnce /\ QuestsBelong

=============================================================================
