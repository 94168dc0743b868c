---------------------------- MODULE WorldModules ----------------------------
(***************************************************************************)
(* The rules of the built-in world modules (src/compilableworld/modules.py *)
(* with combat_formulas.py): what each verb an actor can submit makes of   *)
(* the world, and the events it emits.                                     *)
(*                                                                         *)
(* A module's evaluate() reads the world and answers with deltas and       *)
(* events, or rejects.  Here each verb is an operator of the world w (a    *)
(* record of all cells) that gives the set of its outcomes [world, events];*)
(* an empty set is a rejection.  Dice make more than one outcome.  A cell  *)
(* that is absent reads as None or as the default the code passes to get().*)
(* Wording, room descriptions and the choice of a dialogue line (there is  *)
(* always one) are left out; MP and FP are one pool, counted in casts.    *)
(***************************************************************************)
EXTENDS Integers, Sequences, FiniteSets

CONSTANTS
  Player, Creature,     \* ids of player actors, and of the other characters
  Item, Door, Room,
  Quest, Machine,       \* authored quests and state machines
  None,                 \* Python's None
  Exits,                \* set of [from, to, door], both ways of each edge
  DoorRoom, KeyOf,      \* [Door -> Room], [Door -> Item or None]
  Portable,             \* items with metadata.portable
  Gifted,               \* actors with the authored combat attributes
  Combatant,            \* actors with the component `combatant'
  MaxHealth,            \* health.max of every actor
  Swings,               \* [Gifted -> [Gifted -> 1 .. 4]]: action_economy()
  HastySwings,          \* the same, with the swinging side's haste
  Damage,               \* damage of a blow that lands
  ShieldHp, Turns       \* temp_hp of the shield; exchanges a status lasts

Actor == Player \cup Creature
Thing == Actor \cup Item

ASSUME ThingsApart ==
  /\ Player \cap Creature = {} /\ Actor \cap Item = {} /\ Thing \cap Door = {}
  /\ None \notin Thing \cup Room \cup Door

\* What the rules take from the package: edges between rooms, doors in rooms, and
\* the numbers of combat_formulas.
ASSUME RulesAssumption ==
  /\ Exits \subseteq [from : Room, to : Room, door : Door \cup {None}]
  /\ DoorRoom \in [Door -> Room] /\ KeyOf \in [Door -> Item \cup {None}]
  /\ Gifted \subseteq Actor
  /\ Swings \in [Gifted -> [Gifted -> 1 .. 4]] /\ HastySwings \in [Gifted -> [Gifted -> 1 .. 4]]
  /\ Damage \subseteq Nat /\ ShieldHp \in Nat
  /\ MaxHealth \in Nat \ {0} /\ Turns \in Nat \ {0}

Outcome(w, evs) == {[world |-> w, events |-> evs]}

\* An event: its type, the target of the envelope, and the payload fields
\* that reactions look at.
Event(type, target, what) == [type |-> type, target |-> target, what |-> what]

Here(w, a, x) == w.room[a] = w.room[x]

-----------------------------------------------------------------------------
(* Movement, doors, items.                                                 *)

Passable(w, d) == d # None => ~w.locked[d] /\ w.open[d]

Move(w, a, to) ==
  IF \E e \in Exits : e.from = w.room[a] /\ e.to = to /\ Passable(w, e.door)
  THEN Outcome([w EXCEPT !.room[a] = to], <<Event("moved", a, to)>>)
  ELSE {}

Unlock(w, a, d) ==
  IF /\ w.room[a] = DoorRoom[d] /\ w.locked[d]
     /\ KeyOf[d] # None => w.carrier[KeyOf[d]] = a
  THEN Outcome([w EXCEPT !.locked[d] = FALSE], <<Event("unlocked", d, d)>>)
  ELSE {}

Open(w, a, d) ==
  IF w.room[a] = DoorRoom[d] /\ ~w.locked[d] /\ ~w.open[d]
  THEN Outcome([w EXCEPT !.open[d] = TRUE], <<Event("opened", d, d)>>)
  ELSE {}

Take(w, a, i) ==
  IF i \in Portable /\ Here(w, a, i)
  THEN Outcome([w EXCEPT !.room[i] = None, !.carrier[i] = a], <<Event("added", a, i)>>)
  ELSE {}

\* Mutant of Drop: the item keeps its carrier.
DropKeeping(w, a, i) ==
  IF w.carrier[i] = a
  THEN Outcome([w EXCEPT !.room[i] = w.room[a]], <<Event("removed", a, i)>>)
  ELSE {}

Drop(w, a, i) ==
  IF w.carrier[i] = a
  THEN Outcome([w EXCEPT !.carrier[i] = None, !.room[i] = w.room[a]], <<Event("removed", a, i)>>)
  ELSE {}

\* The key of a door that is still locked must not be given away.
Needed(w, i) == \E d \in Door : KeyOf[d] = i /\ w.locked[d]

Give(w, a, i, to) ==
  IF w.carrier[i] = a /\ Here(w, a, to) /\ ~Needed(w, i)
  THEN Outcome([w EXCEPT !.carrier[i] = to], <<Event("given", a, <<i, to>>)>>)
  ELSE {}

-----------------------------------------------------------------------------
(* Combat.  One attack is one exchange: the attacker's blows, then those of*)
(* a combatant that was hit and still stands, against the attacker's health*)
(* as the world has it before the exchange.                                *)

Least(x, y) == IF x < y THEN x ELSE y
Below(x, y) == IF x > y THEN x - y ELSE 0

\* apply_damage(): a shield absorbs first.
Struck(h, d) ==
  LET absorbed == Least(h.temp, d)
  IN  [health |-> Below(h.health, d - absorbed), temp |-> h.temp - absorbed]

\* Health and shield after n blows of damage d.
Blows(h, d) ==
  LET after[n \in 0 .. 4] == IF n = 0 THEN h ELSE Struck(after[n - 1], d)
  IN  after

\* How many of at most n blows may land: the exchange ends with the one that
\* brings the health to 0.
Landed(h, d, n) == {k \in 0 .. n : k > 0 => Blows(h, d)[k - 1].health > 0}

Repeat(e, n) == [i \in 1 .. n |-> e]

\* A volley: the damage of its blows, and how many of them land.
LandedOf(h, n) ==
  {b \in [damage : Damage, land : 0 .. 4] : b.land \in Landed(h, b.damage, n)}

\* What a volley leaves of x.
Left(h, b) == Blows(h, b.damage)[b.land]

\* The events of a volley b of n blows against x; misses are not told apart from
\* misses in another order.
Volley(x, h, b, n) ==
  Repeat(Event("damaged", x, x), b.land)
    \o (IF Left(h, b).health = 0 THEN <<Event("defeated", x, x)>>
        ELSE Repeat(Event("missed", x, x), n - b.land))

Vital(w, x) == [health |-> w.health[x], temp |-> w.temp[x]]

Wounded(w, x, h) ==
  [w EXCEPT !.health[x] = h.health, !.temp[x] = h.temp,
            !.alive[x] = (IF h.health = 0 THEN FALSE ELSE @)]

\* Mutant of Aged: the shield's points outlive the status.
AgedStatusOnly(w, x) ==
  [w EXCEPT !.shield[x] = Below(@, 1), !.haste[x] = Below(@, 1)]

\* A status is one exchange older; the shield's points go with the status.
Aged(w, x) ==
  [w EXCEPT !.shield[x] = Below(@, 1), !.haste[x] = Below(@, 1),
            !.temp[x] = IF w.shield[x] = 1 THEN 0 ELSE @]

SwingsOf(w, a, t) == IF w.haste[a] > 0 THEN HastySwings[a][t] ELSE Swings[a][t]

\* x after a volley at it.
Taken(w, x, h, b) == IF b.land > 0 THEN Wounded(w, x, Left(h, b)) ELSE w

\* The statuses of both age after the attacker's volley; a shield that ends takes
\* along what the volley left of it.
Older(w, a, t) == IF a = t THEN Aged(w, t) ELSE Aged(Aged(w, t), a)

\* The attacker as the counter blows meet it: its health is the one before.
Self(w, a) == [health |-> w.health[a], temp |-> IF w.shield[a] = 1 THEN 0 ELSE w.temp[a]]

\* _resolve_formula(): volley b, and the counter volley of a combatant that was
\* hit and still stands.
Countered(w, a, t, b) ==
  LET first == Volley(t, Vital(w, t), b, SwingsOf(w, a, t))
      older == Older(Taken(w, t, Vital(w, t), b), a, t)
  IN  IF b.land = 0 \/ Left(Vital(w, t), b).health = 0 \/ t \notin Combatant \/ w.health[a] = 0
      THEN Outcome(older, first)
      ELSE { [world  |-> Taken(older, a, Self(w, a), c),
              events |-> first \o Volley(a, Self(w, a), c, SwingsOf(w, t, a))]
               : c \in LandedOf(Self(w, a), SwingsOf(w, t, a)) }

Exchange(w, a, t) ==
  UNION {Countered(w, a, t, b) : b \in LandedOf(Vital(w, t), SwingsOf(w, a, t))}

\* _resolve_simple(): one blow each, and no shield; the health of an attacker
\* that attacks itself is the one before the exchange for the counter blow.
Bare(w, x, d) == [health |-> Below(w.health[x], d), temp |-> w.temp[x]]

\* The events of a blow that lands.
Blow(x, h, d) ==
  <<Event("damaged", x, x)>> \o (IF h <= d THEN <<Event("defeated", x, x)>> ELSE <<>>)

Scuffle(w, a, t) ==
  Outcome(w, <<Event("missed", t, t)>>) \cup UNION {
    LET after == Wounded(w, t, Bare(w, t, d))
        first == Blow(t, w.health[t], d)
    IN  IF w.health[t] <= d \/ t \notin Combatant \/ w.health[a] = 0
        THEN Outcome(after, first)
        ELSE Outcome(after, Append(first, Event("missed", a, a)))
             \cup { [world  |-> Wounded(after, a, Bare(w, a, b)),
                     events |-> first \o Blow(a, w.health[a], b)] : b \in Damage }
    : d \in Damage }

\* Nothing asks whether the attacker itself is alive.
Attack(w, a, t) ==
  IF ~Here(w, a, t) \/ ~w.alive[t] THEN {}
  ELSE IF {a, t} \subseteq Gifted THEN Exchange(w, a, t) ELSE Scuffle(w, a, t)

-----------------------------------------------------------------------------
(* Magic, dialogue, exploration.                                           *)

Shield(w, a) ==
  IF a \in Gifted /\ w.mana[a] > 0
  THEN Outcome([w EXCEPT !.mana[a] = @ - 1, !.temp[a] = ShieldHp, !.shield[a] = Turns],
               <<Event("cast", a, "shield")>>)
  ELSE {}

Hasten(w, a) ==
  IF a \in Gifted /\ w.mana[a] > 0
  THEN Outcome([w EXCEPT !.mana[a] = @ - 1, !.haste[a] = Turns], <<Event("cast", a, "haste")>>)
  ELSE {}

Talk(w, a, s) ==
  IF s # a /\ Here(w, a, s) /\ w.alive[s] THEN Outcome(w, <<Event("responded", a, s)>>) ELSE {}

Search(w, a) ==
  IF w.alive[a] /\ w.room[a] # None
  THEN Outcome([w EXCEPT !.searched[a] = @ + 1], <<Event("searched", a, w.room[a])>>)
  ELSE {}

-----------------------------------------------------------------------------
(* What the verbs make of a submitted action [actor, verb, on, to]; `exists'*)
(* is the registry.                                                        *)

Verb == {"move", "unlock", "open", "take", "drop", "give", "attack", "shield", "haste",
         "talk", "search"}

Targets(verb) ==
  CASE verb = "move" -> Room
    [] verb \in {"unlock", "open"} -> Door
    [] verb \in {"take", "drop", "give"} -> Item
    [] verb \in {"attack", "talk"} -> Actor
    [] verb \in {"shield", "haste", "search"} -> {None}

Recipients(verb) == IF verb = "give" THEN Actor ELSE {None}

Actions == UNION { [actor : Player, verb : {v}, on : Targets(v), to : Recipients(v)] : v \in Verb }

Evaluate(w, exists, x) ==
  CASE x.verb = "move"   -> Move(w, x.actor, x.on)
    [] x.verb = "unlock" -> Unlock(w, x.actor, x.on)
    [] x.verb = "open"   -> Open(w, x.actor, x.on)
    [] x.verb = "take"   -> Take(w, x.actor, x.on)
    [] x.verb = "drop"   -> Drop(w, x.actor, x.on)
    [] x.verb = "give"   -> IF x.to \in exists THEN Give(w, x.actor, x.on, x.to) ELSE {}
    [] x.verb = "attack" -> IF x.on \in exists THEN Attack(w, x.actor, x.on) ELSE {}
    [] x.verb = "talk"   -> IF x.on \in exists THEN Talk(w, x.actor, x.on) ELSE {}
    [] x.verb = "shield" -> Shield(w, x.actor)
    [] x.verb = "haste"  -> Hasten(w, x.actor)
    [] x.verb = "search" -> Search(w, x.actor)

=============================================================================
