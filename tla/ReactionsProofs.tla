--------------------------- MODULE ReactionsProofs ---------------------------
(***************************************************************************)
(* Proofs about Reactions for every set of players, items, machines and    *)
(* quests, every authored package the compiler accepts, and every bound.   *)
(***************************************************************************)
EXTENDS Reactions, FiniteSetTheorems, SequenceTheorems, WellFoundedInduction, TLAPS

-----------------------------------------------------------------------------
(* The rules of the modules.                                               *)

\* What an event of a verb is.
Plain ==
  [type : {"moved", "unlocked", "opened", "added", "removed", "given", "damaged", "defeated",
           "missed", "cast", "responded", "searched"},
   target : Actor \cup Door, what : What]

\* What no verb writes.
Untold(v, u) == u.quest = v.quest /\ u.fsm = v.fsm /\ u.wallet = v.wallet

\* The cells of bodies.
SameBodies(v, u) == /\ u.health = v.health /\ u.alive = v.alive
                    /\ u.temp = v.temp /\ u.shield = v.shield

\* The cells of places.
SamePlaces(v, u) == u.room = v.room /\ u.carrier = v.carrier

\* The types of the cells.
LEMMA Cells ==
  ASSUME NEW v \in World
  PROVE  /\ v.room \in [Thing -> Room \cup {None}] /\ v.carrier \in [Item -> Actor \cup {None}]
         /\ v.locked \in [Door -> BOOLEAN] /\ v.open \in [Door -> BOOLEAN]
         /\ v.health \in [Actor -> Nat] /\ v.alive \in [Actor -> BOOLEAN]
         /\ v.temp \in [Actor -> Nat] /\ v.shield \in [Actor -> Nat]
         /\ v.haste \in [Actor -> Nat] /\ v.mana \in [Actor -> Nat]
         /\ v.searched \in [Actor -> Nat] /\ v.wallet \in [Actor -> Nat]
         /\ v.quest \in [Actor -> [Quest -> State]] /\ v.fsm \in [Machine -> State]
BY DEF World

\* Worlds with other rooms and carriers, other doors, other bodies, other pools.
LEMMA SetPlaces ==
  ASSUME NEW v \in World, NEW r \in [Thing -> Room \cup {None}], NEW c \in [Item -> Actor \cup {None}],
         NEW u, u = [v EXCEPT !.room = r, !.carrier = c]
  PROVE  /\ u \in World /\ u.room = r /\ u.carrier = c
         /\ Untold(v, u) /\ SameBodies(v, u)
BY DEF World, Untold, SameBodies

LEMMA SetRoom ==
  ASSUME NEW v \in World, NEW r \in [Thing -> Room \cup {None}],
         NEW u, u = [v EXCEPT !.room = r]
  PROVE  /\ u \in World /\ u.room = r /\ u.carrier = v.carrier
         /\ Untold(v, u) /\ SameBodies(v, u)
BY DEF World, Untold, SameBodies

LEMMA SetCarrier ==
  ASSUME NEW v \in World, NEW c \in [Item -> Actor \cup {None}],
         NEW u, u = [v EXCEPT !.carrier = c]
  PROVE  /\ u \in World /\ u.room = v.room /\ u.carrier = c
         /\ Untold(v, u) /\ SameBodies(v, u)
BY DEF World, Untold, SameBodies

LEMMA SetDoors ==
  ASSUME NEW v \in World, NEW d \in [Door -> BOOLEAN],
         NEW u, u = [v EXCEPT !.locked = d] \/ u = [v EXCEPT !.open = d]
  PROVE  u \in World /\ SamePlaces(v, u) /\ Untold(v, u) /\ SameBodies(v, u)
BY ZenonT(30) DEF World, Untold, SameBodies, SamePlaces

LEMMA SetVitals ==
  ASSUME NEW v \in World, NEW h \in [Actor -> Nat], NEW t \in [Actor -> Nat],
         NEW l \in [Actor -> BOOLEAN],
         NEW u, u = [v EXCEPT !.health = h, !.temp = t, !.alive = l]
  PROVE  /\ u \in World /\ u.health = h /\ u.temp = t /\ u.alive = l /\ u.shield = v.shield
         /\ Untold(v, u) /\ SamePlaces(v, u)
BY DEF World, Untold, SamePlaces

LEMMA SetStatuses ==
  ASSUME NEW v \in World, NEW s \in [Actor -> Nat], NEW h \in [Actor -> Nat],
         NEW t \in [Actor -> Nat],
         NEW u, u = [v EXCEPT !.shield = s, !.haste = h, !.temp = t]
  PROVE  /\ u \in World /\ u.health = v.health /\ u.alive = v.alive
         /\ u.shield = s /\ u.temp = t
         /\ Untold(v, u) /\ SamePlaces(v, u)
BY DEF World, Untold, SamePlaces

LEMMA SetShield ==
  ASSUME NEW v \in World, NEW m \in [Actor -> Nat], NEW t \in [Actor -> Nat],
         NEW s \in [Actor -> Nat],
         NEW u, u = [v EXCEPT !.mana = m, !.temp = t, !.shield = s]
  PROVE  /\ u \in World /\ u.health = v.health /\ u.alive = v.alive
         /\ u.shield = s /\ u.temp = t
         /\ Untold(v, u) /\ SamePlaces(v, u)
BY DEF World, Untold, SamePlaces

LEMMA SetHaste ==
  ASSUME NEW v \in World, NEW m \in [Actor -> Nat], NEW h \in [Actor -> Nat],
         NEW u, u = [v EXCEPT !.mana = m, !.haste = h]
  PROVE  u \in World /\ SamePlaces(v, u) /\ Untold(v, u) /\ SameBodies(v, u)
BY DEF World, Untold, SamePlaces, SameBodies

LEMMA SetSearched ==
  ASSUME NEW v \in World, NEW n \in [Actor -> Nat],
         NEW u, u = [v EXCEPT !.searched = n]
  PROVE  u \in World /\ SamePlaces(v, u) /\ Untold(v, u) /\ SameBodies(v, u)
BY DEF World, Untold, SamePlaces, SameBodies

-----------------------------------------------------------------------------
\* One event.
LEMMA OneEvent ==
  ASSUME NEW t \in {"moved", "unlocked", "opened", "added", "removed", "given", "damaged",
                    "defeated", "missed", "cast", "responded", "searched"},
         NEW x \in Actor \cup Door, NEW y \in What
  PROVE  /\ Event(t, x, y) \in Plain /\ <<Event(t, x, y)>> \in Seq(Plain)
         /\ Len(<<Event(t, x, y)>>) = 1 /\ <<Event(t, x, y)>>[1].target = x
<1>1. Event(t, x, y) \in Plain /\ Event(t, x, y).target = x
  BY DEF Event, Plain
<1> QED BY <1>1

\* A step of a replaced player is aimed at nobody else.
AtSelf(a, evs) == \A i \in DOMAIN evs : evs[i].target \in {a} \cup Door

LEMMA MoveDoes ==
  ASSUME NEW v \in World, NEW a \in Actor, NEW to \in Room, NEW o \in Move(v, a, to)
  PROVE  /\ o.world \in World /\ Untold(v, o.world) /\ SameBodies(v, o.world)
         /\ o.events \in Seq(Plain)
         /\ o.world.room = [v.room EXCEPT ![a] = to] /\ o.world.carrier = v.carrier
         /\ v.room[a] \in Room
<1>1. PICK e \in Exits : e.from = v.room[a] /\ e.to = to /\ Passable(v, e.door)
  BY DEF Move
<1>2. o = [world |-> [v EXCEPT !.room = [v.room EXCEPT ![a] = to]], events |-> <<Event("moved", a, to)>>]
  BY DEF Move, Outcome
<1>3. <<Event("moved", a, to)>> \in Seq(Plain)
  BY OneEvent DEF What
<1>4. v.room[a] \in Room
  BY <1>1, RulesAssumption
<1>5. [v.room EXCEPT ![a] = to] \in [Thing -> Room \cup {None}]
  BY Cells DEF Thing
<1> QED BY <1>2, <1>3, <1>4, <1>5, SetRoom

LEMMA UnlockDoes ==
  ASSUME NEW v \in World, NEW a \in Actor, NEW d \in Door, NEW o \in Unlock(v, a, d) \cup Open(v, a, d)
  PROVE  /\ o.world \in World /\ Untold(v, o.world) /\ SameBodies(v, o.world)
         /\ o.events \in Seq(Plain) /\ SamePlaces(v, o.world) /\ AtSelf(a, o.events)
<1> DEFINE f == [v.locked EXCEPT ![d] = FALSE]
           g == [v.open EXCEPT ![d] = TRUE]
<1>1. \/ o = [world |-> [v EXCEPT !.locked = f], events |-> <<Event("unlocked", d, d)>>]
      \/ o = [world |-> [v EXCEPT !.open = g], events |-> <<Event("opened", d, d)>>]
  BY DEF Unlock, Open, Outcome
<1>2. f \in [Door -> BOOLEAN] /\ g \in [Door -> BOOLEAN]
  BY Cells
<1>3. d \in What /\ d \in Actor \cup Door
  BY DEF What
<1>4. ASSUME NEW t \in {"unlocked", "opened"}
      PROVE  <<Event(t, d, d)>> \in Seq(Plain) /\ AtSelf(a, <<Event(t, d, d)>>)
  BY <1>3, OneEvent DEF AtSelf
<1> HIDE DEF f, g
<1>5. \/ o.world = [v EXCEPT !.locked = f] /\ o.events = <<Event("unlocked", d, d)>>
      \/ o.world = [v EXCEPT !.open = g] /\ o.events = <<Event("opened", d, d)>>
  BY <1>1
<1>6. o.world \in World /\ Untold(v, o.world) /\ SameBodies(v, o.world) /\ SamePlaces(v, o.world)
  BY <1>2, <1>5, SetDoors
<1>7. o.events \in Seq(Plain) /\ AtSelf(a, o.events)
  BY <1>4, <1>5
<1> QED BY <1>6, <1>7

LEMMA TakeDoes ==
  ASSUME NEW v \in World, NEW a \in Actor, NEW i \in Item, NEW o \in Take(v, a, i)
  PROVE  /\ o.world \in World /\ Untold(v, o.world) /\ SameBodies(v, o.world)
         /\ o.events \in Seq(Plain) /\ AtSelf(a, o.events)
         /\ v.room[a] = v.room[i]
         /\ o.world.room = [v.room EXCEPT ![i] = None]
         /\ o.world.carrier = [v.carrier EXCEPT ![i] = a]
<1> DEFINE c == [v.carrier EXCEPT ![i] = a]
           r == [v.room EXCEPT ![i] = None]
<1>1. /\ o = [world |-> [v EXCEPT !.room = r, !.carrier = c], events |-> <<Event("added", a, i)>>]
      /\ v.room[a] = v.room[i]
  BY DEF Take, Outcome, Here
<1>2. r \in [Thing -> Room \cup {None}] /\ c \in [Item -> Actor \cup {None}]
  BY Cells DEF Thing
<1>3. <<Event("added", a, i)>> \in Seq(Plain) /\ AtSelf(a, <<Event("added", a, i)>>)
  BY OneEvent DEF What, Thing, AtSelf
<1> HIDE DEF c, r
<1>4. o.world = [v EXCEPT !.room = r, !.carrier = c] /\ o.events = <<Event("added", a, i)>>
  BY <1>1
<1>5. /\ o.world \in World /\ o.world.room = r /\ o.world.carrier = c
      /\ Untold(v, o.world) /\ SameBodies(v, o.world)
  BY ZenonT(30), <1>2, <1>4, SetPlaces
<1> QED BY <1>1, <1>3, <1>4, <1>5 DEF c, r

LEMMA DropDoes ==
  ASSUME NEW v \in World, NEW a \in Actor, NEW i \in Item, NEW o \in Drop(v, a, i)
  PROVE  /\ o.world \in World /\ Untold(v, o.world) /\ SameBodies(v, o.world)
         /\ o.events \in Seq(Plain) /\ AtSelf(a, o.events)
         /\ v.carrier[i] = a
         /\ o.world.room = [v.room EXCEPT ![i] = v.room[a]]
         /\ o.world.carrier = [v.carrier EXCEPT ![i] = None]
<1> DEFINE c == [v.carrier EXCEPT ![i] = None]
           r == [v.room EXCEPT ![i] = v.room[a]]
<1>1. /\ o = [world |-> [v EXCEPT !.carrier = c, !.room = r], events |-> <<Event("removed", a, i)>>]
      /\ v.carrier[i] = a
  BY DEF Drop, Outcome
<1>2. r \in [Thing -> Room \cup {None}] /\ c \in [Item -> Actor \cup {None}]
  BY Cells DEF Thing
<1>3. <<Event("removed", a, i)>> \in Seq(Plain) /\ AtSelf(a, <<Event("removed", a, i)>>)
  BY OneEvent DEF What, Thing, AtSelf
<1> HIDE DEF c, r
<1>4. [v EXCEPT !.carrier = c, !.room = r] = [v EXCEPT !.room = r, !.carrier = c]
  BY <1>2 DEF World
<1>5. /\ o.world = [v EXCEPT !.room = r, !.carrier = c]
      /\ o.events = <<Event("removed", a, i)>>
  BY <1>1, <1>4
<1>6. /\ o.world \in World /\ o.world.room = r /\ o.world.carrier = c
      /\ Untold(v, o.world) /\ SameBodies(v, o.world)
  BY ZenonT(30), <1>2, <1>5, SetPlaces
<1> QED BY <1>1, <1>3, <1>5, <1>6 DEF c, r

LEMMA GiveDoes ==
  ASSUME NEW v \in World, NEW a \in Actor, NEW i \in Item, NEW to \in Actor, NEW o \in Give(v, a, i, to)
  PROVE  /\ o.world \in World /\ Untold(v, o.world) /\ SameBodies(v, o.world)
         /\ o.events \in Seq(Plain)
         /\ v.carrier[i] = a /\ v.room[a] = v.room[to]
         /\ o.world.room = v.room
         /\ o.world.carrier = [v.carrier EXCEPT ![i] = to]
<1>1. /\ o = [world |-> [v EXCEPT !.carrier = [v.carrier EXCEPT ![i] = to]],
              events |-> <<Event("given", a, <<i, to>>)>>]
      /\ v.carrier[i] = a /\ v.room[a] = v.room[to]
  BY DEF Give, Outcome, Here
<1>2. [v.carrier EXCEPT ![i] = to] \in [Item -> Actor \cup {None}]
  BY Cells
<1>3. <<Event("given", a, <<i, to>>)>> \in Seq(Plain)
  <2>1. <<i, to>> \in What
    BY DEF What
  <2> QED BY <2>1, OneEvent
<1> QED BY <1>1, <1>2, <1>3, SetCarrier

LEMMA TalkDoes ==
  ASSUME NEW v \in World, NEW a \in Actor, NEW s \in Actor, NEW o \in Talk(v, a, s)
  PROVE  /\ o.world = v /\ o.events \in Seq(Plain) /\ v.room[a] = v.room[s]
<1>1. o = [world |-> v, events |-> <<Event("responded", a, s)>>] /\ v.room[a] = v.room[s]
  BY DEF Talk, Outcome, Here
<1> QED BY <1>1, OneEvent DEF What, Thing

LEMMA SearchDoes ==
  ASSUME NEW v \in World, NEW a \in Actor, NEW o \in Search(v, a)
  PROVE  /\ o.world \in World /\ Untold(v, o.world) /\ SameBodies(v, o.world) /\ SamePlaces(v, o.world)
         /\ o.events \in Seq(Plain) /\ v.room[a] # None
<1>1. /\ o = [world |-> [v EXCEPT !.searched = [v.searched EXCEPT ![a] = v.searched[a] + 1]],
              events |-> <<Event("searched", a, v.room[a])>>]
      /\ v.room[a] # None
  BY DEF Search, Outcome
<1>2. [v.searched EXCEPT ![a] = v.searched[a] + 1] \in [Actor -> Nat]
  BY Cells
<1>3. v.room[a] \in What
  BY <1>1, Cells DEF What, Thing
<1>4. <<Event("searched", a, v.room[a])>> \in Seq(Plain)
  BY <1>3, OneEvent
<1> QED BY <1>1, <1>2, <1>4, SetSearched

-----------------------------------------------------------------------------
(* Bodies.                                                                 *)

\* Nobody lies with health or walks without, and shields do not outlive their
\* status.
Sound(v, a) == (v.alive[a] <=> v.health[a] > 0) /\ (v.temp[a] > 0 => v.shield[a] > 0)

LEMMA ShieldDoes ==
  ASSUME NEW v \in World, NEW a \in Actor, NEW o \in Shield(v, a)
  PROVE  /\ o.world \in World /\ Untold(v, o.world) /\ SamePlaces(v, o.world)
         /\ o.events \in Seq(Plain) /\ AtSelf(a, o.events)
         /\ \A x \in Actor : Sound(v, x) => Sound(o.world, x)
<1> DEFINE m == [v.mana EXCEPT ![a] = v.mana[a] - 1]
           t == [v.temp EXCEPT ![a] = ShieldHp]
           s == [v.shield EXCEPT ![a] = Turns]
<1>1. /\ o = [world |-> [v EXCEPT !.mana = m, !.temp = t, !.shield = s],
              events |-> <<Event("cast", a, "shield")>>]
      /\ v.mana[a] > 0
  BY DEF Shield, Outcome
<1>2. m \in [Actor -> Nat] /\ t \in [Actor -> Nat] /\ s \in [Actor -> Nat]
  BY <1>1, Cells, RulesAssumption
<1>3. "shield" \in What
  BY DEF What, Verb
<1>4. <<Event("cast", a, "shield")>> \in Seq(Plain) /\ AtSelf(a, <<Event("cast", a, "shield")>>)
  BY <1>3, OneEvent DEF AtSelf
<1>5. \A x \in Actor : t[x] > 0 => s[x] > 0 \/ (x # a /\ v.temp[x] > 0)
  BY Cells, RulesAssumption
<1>6. \A x \in Actor \ {a} : s[x] = v.shield[x]
  BY Cells
<1> HIDE DEF m, t, s
<1>7. /\ o.world \in World /\ o.world.health = v.health /\ o.world.alive = v.alive
      /\ o.world.shield = s /\ o.world.temp = t
      /\ Untold(v, o.world) /\ SamePlaces(v, o.world)
  BY ZenonT(30), <1>1, <1>2, SetShield
<1>8. \A x \in Actor : Sound(v, x) => Sound(o.world, x)
  BY <1>5, <1>6, <1>7 DEF Sound
<1> QED BY <1>1, <1>4, <1>7, <1>8

LEMMA HastenDoes ==
  ASSUME NEW v \in World, NEW a \in Actor, NEW o \in Hasten(v, a)
  PROVE  /\ o.world \in World /\ Untold(v, o.world) /\ SameBodies(v, o.world) /\ SamePlaces(v, o.world)
         /\ o.events \in Seq(Plain) /\ AtSelf(a, o.events)
<1> DEFINE m == [v.mana EXCEPT ![a] = v.mana[a] - 1]
           h == [v.haste EXCEPT ![a] = Turns]
<1>1. /\ o = [world |-> [v EXCEPT !.mana = m, !.haste = h],
              events |-> <<Event("cast", a, "haste")>>]
      /\ v.mana[a] > 0
  BY DEF Hasten, Outcome
<1>2. m \in [Actor -> Nat] /\ h \in [Actor -> Nat]
  BY <1>1, Cells, RulesAssumption
<1>3. "haste" \in What
  BY DEF What, Verb
<1>4. <<Event("cast", a, "haste")>> \in Seq(Plain) /\ AtSelf(a, <<Event("cast", a, "haste")>>)
  BY <1>3, OneEvent DEF AtSelf
<1> HIDE DEF m, h
<1> QED BY ZenonT(30), <1>1, <1>2, <1>4, SetHaste

\* Health and shield points.
Vit == [health : Nat, temp : Nat]

\* A blow takes health and shield points, at most to 0.
Lesser(h, g) == /\ g.health \in Nat /\ g.temp \in Nat
                /\ g.health <= h.health /\ g.temp <= h.temp

LEMMA StruckIsLesser ==
  ASSUME NEW h \in Vit, NEW d \in Nat
  PROVE  Struck(h, d) \in Vit /\ Lesser(h, Struck(h, d))
BY DEF Struck, Least, Below, Lesser, Vit

\* So do any number of blows.
LEMMA BlowsAreLesser ==
  ASSUME NEW h \in Vit, NEW d \in Nat, NEW k \in 0 .. 4
  PROVE  Blows(h, d)[k] \in Vit /\ Lesser(h, Blows(h, d)[k])
<1> DEFINE s1 == Struck(h, d)
           s2 == Struck(s1, d)
           s3 == Struck(s2, d)
           s4 == Struck(s3, d)
           Eq(f) == f = [n \in 0 .. 4 |-> IF n = 0 THEN h ELSE Struck(f[n - 1], d)]
           after == CHOOSE f : Eq(f)
           g == [n \in 0 .. 4 |-> IF n = 0 THEN h ELSE IF n = 1 THEN s1 ELSE IF n = 2 THEN s2
                                  ELSE IF n = 3 THEN s3 ELSE s4]
<1>1. s1 \in Vit /\ s2 \in Vit /\ s3 \in Vit /\ s4 \in Vit
  <2>1. s1 \in Vit
    BY StruckIsLesser
  <2>2. s2 \in Vit
    BY <2>1, StruckIsLesser
  <2>3. s3 \in Vit
    BY <2>2, StruckIsLesser
  <2> QED BY <2>1, <2>2, <2>3, StruckIsLesser
<1>2. Eq(g)
  <2> HIDE DEF s1, s2, s3, s4
  <2>1. s1 = Struck(h, d) /\ s2 = Struck(s1, d) /\ s3 = Struck(s2, d) /\ s4 = Struck(s3, d)
    BY DEF s1, s2, s3, s4
  <2>2. /\ g[0] = h /\ g[1] = s1 /\ g[2] = s2 /\ g[3] = s3 /\ g[4] = s4
    OBVIOUS
  <2>3. \A n \in 0 .. 4 : n = 0 \/ n = 1 \/ n = 2 \/ n = 3 \/ n = 4
    OBVIOUS
  <2>4. \A n \in 0 .. 4 : g[n] = IF n = 0 THEN h ELSE Struck(g[n - 1], d)
    <3> HIDE DEF g
    <3> SUFFICES ASSUME NEW n \in 0 .. 4 PROVE g[n] = IF n = 0 THEN h ELSE Struck(g[n - 1], d)
      OBVIOUS
    <3>1. CASE n = 0
      BY <3>1, <2>2
    <3>2. CASE n = 1
      BY <3>2, <2>1, <2>2
    <3>3. CASE n = 2
      BY <3>3, <2>1, <2>2
    <3>4. CASE n = 3
      BY <3>4, <2>1, <2>2
    <3>5. CASE n = 4
      BY <3>5, <2>1, <2>2
    <3> QED BY <2>3, <3>1, <3>2, <3>3, <3>4, <3>5
  <2>5. g = [n \in 0 .. 4 |-> g[n]]
    OBVIOUS
  <2> HIDE DEF g
  <2> QED BY <2>4, <2>5
<1>3. Eq(after)
  <2> HIDE DEF Eq, g
  <2> QED BY <1>2
<1>4. Blows(h, d) = after
  BY DEF Blows
<1> HIDE DEF after
<1>5. \A n \in 0 .. 4 : after[n] = IF n = 0 THEN h ELSE Struck(after[n - 1], d)
  BY <1>3
<1>6. after[0] \in Vit /\ Lesser(h, after[0])
  BY <1>5 DEF Lesser, Vit
<1>7. ASSUME NEW n \in 0 .. 3, after[n] \in Vit, Lesser(h, after[n])
      PROVE  after[n + 1] \in Vit /\ Lesser(h, after[n + 1])
  <2>1. after[n + 1] = Struck(after[n], d)
    BY <1>5
  <2>2. after[n + 1] \in Vit /\ Lesser(after[n], after[n + 1])
    BY <1>7, <2>1, StruckIsLesser
  <2> QED BY <1>7, <2>2 DEF Lesser, Vit
<1>8. after[1] \in Vit /\ Lesser(h, after[1])
  BY <1>6, <1>7
<1>9. after[2] \in Vit /\ Lesser(h, after[2])
  BY <1>7, <1>8
<1>10. after[3] \in Vit /\ Lesser(h, after[3])
  BY <1>7, <1>9
<1>11. after[4] \in Vit /\ Lesser(h, after[4])
  BY <1>7, <1>10
<1>12. k = 0 \/ k = 1 \/ k = 2 \/ k = 3 \/ k = 4
  OBVIOUS
<1> QED BY <1>4, <1>6, <1>8, <1>9, <1>10, <1>11, <1>12


LEMMA Repeated ==
  ASSUME NEW e \in Plain, NEW n \in Nat
  PROVE  Repeat(e, n) \in Seq(Plain)
BY DEF Repeat

\* A volley is a sequence of events, and leaves no more than there was.
LEMMA VolleyDoes ==
  ASSUME NEW x \in Actor, NEW h \in Vit, NEW n \in 0 .. 4, NEW b \in LandedOf(h, n)
  PROVE  /\ Volley(x, h, b, n) \in Seq(Plain)
         /\ b.land \in 0 .. 4 /\ Left(h, b) \in Vit /\ Lesser(h, Left(h, b))
<1>1. b.damage \in Nat /\ b.land \in 0 .. 4 /\ b.land \in 0 .. n
  BY RulesAssumption DEF LandedOf, Landed
<1>2. Blows(h, b.damage)[b.land] \in Vit /\ Lesser(h, Blows(h, b.damage)[b.land])
  BY <1>1, BlowsAreLesser
<1>3. Left(h, b) \in Vit /\ Lesser(h, Left(h, b))
  BY <1>2 DEF Left
<1>4. x \in What /\ x \in Actor \cup Door
  BY DEF What, Thing
<1>5. /\ Event("damaged", x, x) \in Plain /\ Event("missed", x, x) \in Plain
      /\ <<Event("defeated", x, x)>> \in Seq(Plain)
  BY <1>4, OneEvent
<1>6. b.land \in Nat /\ n - b.land \in Nat
  BY <1>1
<1>7. Repeat(Event("damaged", x, x), b.land) \in Seq(Plain)
  BY <1>5, <1>6, Repeated
<1>8. Repeat(Event("missed", x, x), n - b.land) \in Seq(Plain)
  BY <1>5, <1>6, Repeated
<1>9. Volley(x, h, b, n) \in Seq(Plain)
  BY <1>5, <1>7, <1>8 DEF Volley
<1> QED BY <1>1, <1>3, <1>9

\* A wounded body.
LEMMA WoundedDoes ==
  ASSUME NEW v \in World, NEW x \in Actor, NEW h \in Vit, NEW u, u = Wounded(v, x, h)
  PROVE  /\ u \in World /\ Untold(v, u) /\ SamePlaces(v, u) /\ u.shield = v.shield
         /\ u.health[x] = h.health /\ u.temp[x] = h.temp
         /\ u.alive[x] <=> h.health # 0 /\ v.alive[x]
         /\ \A y \in Actor \ {x} : /\ u.health[y] = v.health[y] /\ u.temp[y] = v.temp[y]
                                   /\ u.alive[y] <=> v.alive[y]
<1> DEFINE g == [v.health EXCEPT ![x] = h.health]
           t == [v.temp EXCEPT ![x] = h.temp]
           l == [v.alive EXCEPT ![x] = IF h.health = 0 THEN FALSE ELSE v.alive[x]]
<1>1. u = [v EXCEPT !.health = g, !.temp = t, !.alive = l]
  BY DEF Wounded
<1>2. g \in [Actor -> Nat] /\ t \in [Actor -> Nat] /\ l \in [Actor -> BOOLEAN]
  BY Cells DEF Vit
<1>3. /\ g[x] = h.health /\ t[x] = h.temp /\ (l[x] <=> h.health # 0 /\ v.alive[x])
      /\ \A y \in Actor \ {x} : g[y] = v.health[y] /\ t[y] = v.temp[y] /\ (l[y] <=> v.alive[y])
  BY Cells
<1> HIDE DEF g, t, l
<1>4. /\ u \in World /\ u.health = g /\ u.temp = t /\ u.alive = l /\ u.shield = v.shield
      /\ Untold(v, u) /\ SamePlaces(v, u)
  BY ZenonT(30), <1>1, <1>2 DEF World, Untold, SamePlaces
<1> QED BY <1>3, <1>4

\* Who was alive and has no more shield than its status allows stays sound.
LEMMA WoundedIsSound ==
  ASSUME NEW v \in World, NEW x \in Actor, NEW h \in Vit, NEW u, u = Wounded(v, x, h),
         v.alive[x], h.temp > 0 => v.shield[x] > 0,
         NEW y \in Actor, Sound(v, y)
  PROVE  Sound(u, y)
<1>1. /\ u.shield = v.shield
      /\ u.health[x] = h.health /\ u.temp[x] = h.temp /\ (u.alive[x] <=> h.health # 0 /\ v.alive[x])
      /\ y # x => u.health[y] = v.health[y] /\ u.temp[y] = v.temp[y] /\ (u.alive[y] <=> v.alive[y])
  BY WoundedDoes
<1>2. h.health \in Nat
  BY DEF Vit
<1>3. CASE y = x
  BY <1>1, <1>2, <1>3 DEF Sound
<1>4. CASE y # x
  BY <1>1, <1>4 DEF Sound
<1> QED BY <1>3, <1>4

\* A status that is one exchange older.
LEMMA AgedDoes ==
  ASSUME NEW v \in World, NEW x \in Actor, NEW u, u = Aged(v, x)
  PROVE  /\ u \in World /\ Untold(v, u) /\ SamePlaces(v, u)
         /\ u.health = v.health /\ u.alive = v.alive
         /\ u.shield[x] = Below(v.shield[x], 1)
         /\ \A y \in Actor \ {x} : u.shield[y] = v.shield[y]
         /\ \A y \in Actor : Sound(v, y) => Sound(u, y)
<1> DEFINE s == [v.shield EXCEPT ![x] = Below(v.shield[x], 1)]
           h == [v.haste EXCEPT ![x] = Below(v.haste[x], 1)]
           t == [v.temp EXCEPT ![x] = IF v.shield[x] = 1 THEN 0 ELSE v.temp[x]]
<1>1. u = [v EXCEPT !.shield = s, !.haste = h, !.temp = t]
  BY DEF Aged
<1>2. s \in [Actor -> Nat] /\ h \in [Actor -> Nat] /\ t \in [Actor -> Nat]
  BY Cells DEF Below
<1>3. \A y \in Actor : (v.temp[y] > 0 => v.shield[y] > 0) => (t[y] > 0 => s[y] > 0)
  <2> SUFFICES ASSUME NEW y \in Actor, v.temp[y] > 0 => v.shield[y] > 0, t[y] > 0 PROVE s[y] > 0
    OBVIOUS
  <2>1. CASE y = x
    <3>1. v.shield[x] \in Nat /\ v.temp[x] \in Nat
      BY Cells
    <3>2. t[x] = (IF v.shield[x] = 1 THEN 0 ELSE v.temp[x]) /\ s[x] = Below(v.shield[x], 1)
      BY Cells
    <3>3. v.shield[x] # 1 /\ v.shield[x] > 0
      BY <2>1, <3>1, <3>2
    <3> QED BY <2>1, <3>1, <3>2, <3>3 DEF Below
  <2>2. CASE y # x
    BY <2>2, Cells
  <2> QED BY <2>1, <2>2
<1> HIDE DEF s, h, t
<1>4. /\ u \in World /\ u.health = v.health /\ u.alive = v.alive
      /\ u.shield = s /\ u.temp = t /\ Untold(v, u) /\ SamePlaces(v, u)
  BY ZenonT(30), <1>1, <1>2 DEF World, Untold, SamePlaces
<1>5. \A y \in Actor : Sound(v, y) => Sound(u, y)
  BY <1>3, <1>4 DEF Sound
<1>6. s[x] = Below(v.shield[x], 1) /\ \A y \in Actor \ {x} : s[y] = v.shield[y]
  BY Cells DEF s
<1> QED BY <1>4, <1>5, <1>6

\* A volley's target afterwards.
LEMMA TakenDoes ==
  ASSUME NEW v \in World, NEW x \in Actor, NEW h, NEW b, Left(h, b) \in Vit,
         NEW u, u = Taken(v, x, h, b),
         v.alive[x], Left(h, b).temp > 0 => v.shield[x] > 0
  PROVE  /\ u \in World /\ Untold(v, u) /\ SamePlaces(v, u) /\ u.shield = v.shield
         /\ \A y \in Actor : Sound(v, y) => Sound(u, y)
         /\ Left(h, b).health # 0 => u.alive[x]
         /\ \A y \in Actor \ {x} : u.alive[y] <=> v.alive[y]
<1> DEFINE l == Left(h, b)
<1>1. CASE ~(b.land > 0)
  <2>1. u = v
    BY <1>1 DEF Taken
  <2> QED BY <2>1 DEF Untold, SamePlaces
<1>2. CASE b.land > 0
  <2>1. u = Wounded(v, x, l)
    BY <1>2 DEF Taken
  <2> HIDE DEF l
  <2>2. l \in Vit /\ (l.temp > 0 => v.shield[x] > 0)
    BY DEF l
  <2>3. /\ u \in World /\ Untold(v, u) /\ SamePlaces(v, u) /\ u.shield = v.shield
        /\ l.health # 0 => u.alive[x]
        /\ \A y \in Actor \ {x} : u.alive[y] <=> v.alive[y]
    BY <2>1, <2>2, WoundedDoes
  <2>4. \A y \in Actor : Sound(v, y) => Sound(u, y)
    BY <2>1, <2>2, WoundedIsSound
  <2> QED BY <2>3, <2>4 DEF l
<1> QED BY <1>1, <1>2

LEMMA Alike ==
  ASSUME NEW u, NEW v, NEW x
  PROVE  /\ Untold(u, v) /\ Untold(v, x) => Untold(u, x)
         /\ SamePlaces(u, v) /\ SamePlaces(v, x) => SamePlaces(u, x)
BY DEF Untold, SamePlaces

\* Both after the attacker's volley.
LEMMA OlderDoes ==
  ASSUME NEW v \in World, NEW a \in Actor, NEW t \in Actor, NEW u, u = Older(v, a, t)
  PROVE  /\ u \in World /\ Untold(v, u) /\ SamePlaces(v, u)
         /\ u.alive = v.alive /\ u.shield[a] = Below(v.shield[a], 1)
         /\ \A y \in Actor : Sound(v, y) => Sound(u, y)
<1>1. CASE a = t
  <2>1. u = Aged(v, t)
    BY <1>1 DEF Older
  <2>2. /\ u \in World /\ Untold(v, u) /\ SamePlaces(v, u) /\ u.alive = v.alive
        /\ u.shield[t] = Below(v.shield[t], 1)
        /\ \A y \in Actor : Sound(v, y) => Sound(u, y)
    BY <2>1, AgedDoes
  <2>3. u.shield[a] = Below(v.shield[a], 1)
    BY <1>1, <2>2, Cells
  <2> QED BY <2>2, <2>3
<1>2. CASE a # t
  <2>1. PICK m : m = Aged(v, t)
    OBVIOUS
  <2>2. u = Aged(m, a)
    BY <1>2, <2>1 DEF Older
  <2>3. /\ m \in World /\ Untold(v, m) /\ SamePlaces(v, m) /\ m.alive = v.alive
        /\ \A y \in Actor \ {t} : m.shield[y] = v.shield[y]
        /\ \A y \in Actor : Sound(v, y) => Sound(m, y)
    BY SMTT(30), <2>1, AgedDoes
  <2>4. /\ u \in World /\ Untold(m, u) /\ SamePlaces(m, u) /\ u.alive = m.alive
        /\ u.shield[a] = Below(m.shield[a], 1)
        /\ \A y \in Actor : Sound(m, y) => Sound(u, y)
    BY <2>2, <2>3, AgedDoes
  <2>5. m.shield[a] = v.shield[a]
    BY <1>2, <2>3, Cells
  <2>6. u.shield[a] = Below(v.shield[a], 1)
    BY <2>3, <2>4, <2>5, Cells
  <2> QED BY <2>3, <2>4, <2>6, Alike
<1> QED BY <1>1, <1>2

LEMMA SwingsDo ==
  ASSUME NEW v, NEW a \in Gifted, NEW t \in Gifted
  PROVE  SwingsOf(v, a, t) \in 0 .. 4
<1>1. Swings[a][t] \in 1 .. 4 /\ HastySwings[a][t] \in 1 .. 4
  BY RulesAssumption
<1> QED BY <1>1 DEF SwingsOf

LEMMA Appended ==
  ASSUME NEW p \in Seq(Plain), NEW q \in Seq(Plain)
  PROVE  p \o q \in Seq(Plain)
OBVIOUS

\* An exchange keeps bodies sound.
LEMMA CounteredDoes ==
  ASSUME NEW v \in World, NEW a \in Gifted, NEW t \in Gifted, v.alive[t], Sound(v, a), Sound(v, t),
         NEW b \in LandedOf(Vital(v, t), SwingsOf(v, a, t)), NEW o \in Countered(v, a, t, b)
  PROVE  /\ o.world \in World /\ Untold(v, o.world) /\ SamePlaces(v, o.world)
         /\ o.events \in Seq(Plain)
         /\ \A y \in Actor : Sound(v, y) => Sound(o.world, y)
<1> DEFINE n == SwingsOf(v, a, t)
           m == SwingsOf(v, t, a)
           h == Vital(v, t)
           s == Self(v, a)
           first == Volley(t, h, b, n)
<1>1. n \in 0 .. 4 /\ m \in 0 .. 4 /\ a \in Actor /\ t \in Actor
  BY SwingsDo, RulesAssumption
<1>2. h \in Vit /\ s \in Vit /\ h.temp = v.temp[t]
  BY <1>1, Cells DEF Vit, Vital, Self
<1>3. s.temp > 0 => Below(v.shield[a], 1) > 0
  <2>1. v.shield[a] \in Nat /\ v.temp[a] \in Nat
    BY <1>1, Cells
  <2>2. s.temp > 0 => v.shield[a] # 1 /\ v.shield[a] > 0
    BY <2>1 DEF Self, Sound
  <2> QED BY <2>1, <2>2 DEF Below
<1>4. b \in LandedOf(h, n)
  OBVIOUS
<1>5. PICK one : one = Taken(v, t, h, b)
  OBVIOUS
<1>6. PICK two : two = Older(one, a, t)
  OBVIOUS
<1>7. \/ o.world = two /\ o.events = first
      \/ /\ Left(h, b).health # 0 /\ v.health[a] # 0
         /\ \E c \in LandedOf(s, m) : /\ o.world = Taken(two, a, s, c)
                                      /\ o.events = first \o Volley(a, s, c, m)
  BY <1>5, <1>6 DEF Countered, Outcome
<1> HIDE DEF n, m, h, s
<1>8. Left(h, b) \in Vit /\ Lesser(h, Left(h, b)) /\ first \in Seq(Plain)
  BY <1>1, <1>2, <1>4, VolleyDoes
<1>9. Left(h, b).temp > 0 => v.shield[t] > 0
  <2>1. v.temp[t] \in Nat /\ v.shield[t] \in Nat
    BY <1>1, Cells
  <2> QED BY <1>2, <1>8, <2>1 DEF Sound, Lesser, Vit
<1>10. /\ one \in World /\ Untold(v, one) /\ SamePlaces(v, one) /\ one.shield = v.shield
       /\ \A y \in Actor : Sound(v, y) => Sound(one, y)
       /\ Left(h, b).health # 0 => one.alive[t]
       /\ \A y \in Actor \ {t} : one.alive[y] <=> v.alive[y]
  BY <1>1, <1>5, <1>8, <1>9, TakenDoes
<1>11. /\ two \in World /\ Untold(one, two) /\ SamePlaces(one, two)
       /\ two.alive = one.alive /\ two.shield[a] = Below(v.shield[a], 1)
       /\ \A y \in Actor : Sound(one, y) => Sound(two, y)
  <2>1. /\ two \in World /\ Untold(one, two) /\ SamePlaces(one, two)
        /\ two.alive = one.alive /\ two.shield[a] = Below(one.shield[a], 1)
        /\ \A y \in Actor : Sound(one, y) => Sound(two, y)
    BY SMTT(30), <1>1, <1>6, <1>10, OlderDoes
  <2> QED BY <1>10, <2>1
<1>12. /\ Untold(v, two) /\ SamePlaces(v, two)
       /\ \A y \in Actor : Sound(v, y) => Sound(two, y)
  BY <1>10, <1>11, Alike
<1>13. CASE o.world = two /\ o.events = first
  BY <1>8, <1>11, <1>12, <1>13
<1>14. ASSUME Left(h, b).health # 0, v.health[a] # 0,
              NEW c \in LandedOf(s, m), o.world = Taken(two, a, s, c),
              o.events = first \o Volley(a, s, c, m)
       PROVE  /\ o.world \in World /\ Untold(v, o.world) /\ SamePlaces(v, o.world)
              /\ o.events \in Seq(Plain)
              /\ \A y \in Actor : Sound(v, y) => Sound(o.world, y)
  <2>1. Left(s, c) \in Vit /\ Lesser(s, Left(s, c)) /\ Volley(a, s, c, m) \in Seq(Plain)
    BY <1>1, <1>2, VolleyDoes
  <2>2. o.events \in Seq(Plain)
    <3> HIDE DEF first
    <3> QED BY <1>8, <1>14, <2>1, Appended
  <2>3. Left(s, c).temp > 0 => two.shield[a] > 0
    BY <1>2, <1>3, <1>11, <2>1 DEF Lesser, Vit
  <2>4. v.alive[a]
    BY <1>1, <1>14, Cells DEF Sound
  <2>5. two.alive[a]
    BY <1>1, <1>10, <1>11, <1>14, <2>4
  <2>6. /\ o.world \in World /\ Untold(two, o.world) /\ SamePlaces(two, o.world)
        /\ \A y \in Actor : Sound(two, y) => Sound(o.world, y)
    BY <1>1, <1>11, <1>14, <2>1, <2>3, <2>5, TakenDoes
  <2> QED BY <1>12, <2>2, <2>6, Alike
<1> QED BY <1>7, <1>13, <1>14

LEMMA BlowDoes ==
  ASSUME NEW x \in Actor, NEW h, NEW d
  PROVE  Blow(x, h, d) \in Seq(Plain)
<1>1. x \in What /\ x \in Actor \cup Door
  BY DEF What, Thing
<1>2. <<Event("damaged", x, x)>> \in Seq(Plain) /\ <<Event("defeated", x, x)>> \in Seq(Plain)
  BY <1>1, OneEvent
<1> QED BY <1>2 DEF Blow

\* One blow without a shield.
LEMMA BareDoes ==
  ASSUME NEW v \in World, NEW x \in Actor, NEW y \in Actor, NEW d \in Damage
  PROVE  Bare(v, x, d) \in Vit /\ Bare(v, x, d).temp = v.temp[x]
BY Cells, RulesAssumption DEF Bare, Below, Vit

\* A scuffle keeps them sound.
LEMMA ScuffleDoes ==
  ASSUME NEW v \in World, NEW a \in Actor, NEW t \in Actor, v.alive[t], Sound(v, a), Sound(v, t),
         NEW o \in Scuffle(v, a, t)
  PROVE  /\ o.world \in World /\ Untold(v, o.world) /\ SamePlaces(v, o.world)
         /\ o.events \in Seq(Plain)
         /\ \A y \in Actor : Sound(v, y) => Sound(o.world, y)
<1>0. /\ \A x \in Actor : x \in What /\ x \in Actor \cup Door
  BY DEF What, Thing
<1>1. <<Event("missed", t, t)>> \in Seq(Plain) /\ Event("missed", a, a) \in Plain
  BY <1>0, OneEvent
<1>2. CASE o.world = v /\ o.events = <<Event("missed", t, t)>>
  BY <1>1, <1>2 DEF Untold, SamePlaces
<1>3. ASSUME NEW d \in Damage, NEW u, u = Wounded(v, t, Bare(v, t, d)),
             NEW f, f = Blow(t, v.health[t], d),
             \/ o.world = u /\ o.events = f
             \/ o.world = u /\ o.events = Append(f, Event("missed", a, a))
             \/ /\ ~(v.health[t] <= d) /\ v.health[a] # 0
                /\ \E b \in Damage : /\ o.world = Wounded(u, a, Bare(v, a, b))
                                     /\ o.events = f \o Blow(a, v.health[a], b)
      PROVE  /\ o.world \in World /\ Untold(v, o.world) /\ SamePlaces(v, o.world)
             /\ o.events \in Seq(Plain)
             /\ \A y \in Actor : Sound(v, y) => Sound(o.world, y)
  <2>1. Bare(v, t, d) \in Vit /\ Bare(v, t, d).temp = v.temp[t] /\ f \in Seq(Plain)
    BY <1>3, BareDoes, BlowDoes
  <2>2. Bare(v, t, d).temp > 0 => v.shield[t] > 0
    BY <2>1 DEF Sound
  <2>3. /\ u \in World /\ Untold(v, u) /\ SamePlaces(v, u) /\ u.shield = v.shield
        /\ u.alive[t] <=> Bare(v, t, d).health # 0
        /\ \A y \in Actor \ {t} : u.alive[y] <=> v.alive[y]
    BY <1>3, <2>1, WoundedDoes
  <2>4. \A y \in Actor : Sound(v, y) => Sound(u, y)
    BY <1>3, <2>1, <2>2, WoundedIsSound
  <2>5. CASE o.world = u /\ o.events \in {f, Append(f, Event("missed", a, a))}
    BY SMTT(30), <1>1, <2>1, <2>3, <2>4, <2>5
  <2>6. ASSUME ~(v.health[t] <= d), v.health[a] # 0, NEW b \in Damage,
               o.world = Wounded(u, a, Bare(v, a, b)), o.events = f \o Blow(a, v.health[a], b)
        PROVE  /\ o.world \in World /\ Untold(v, o.world) /\ SamePlaces(v, o.world)
               /\ o.events \in Seq(Plain)
               /\ \A y \in Actor : Sound(v, y) => Sound(o.world, y)
    <3>1. Bare(v, a, b) \in Vit /\ Bare(v, a, b).temp = v.temp[a]
      BY BareDoes
    <3>2. o.events \in Seq(Plain)
      BY <2>1, <2>6, BlowDoes
    <3>3. Bare(v, a, b).temp > 0 => u.shield[a] > 0
      BY <2>3, <3>1 DEF Sound
    <3>4. v.alive[a]
      BY <2>6, Cells DEF Sound
    <3>5. Bare(v, t, d).health # 0
      BY <2>6, Cells, RulesAssumption DEF Bare, Below
    <3>6. u.alive[a]
      BY <2>3, <3>4, <3>5
    <3>7. o.world \in World /\ Untold(u, o.world) /\ SamePlaces(u, o.world)
      BY <2>3, <2>6, <3>1, WoundedDoes
    <3>8. \A y \in Actor : Sound(u, y) => Sound(o.world, y)
      BY <2>3, <2>6, <3>1, <3>3, <3>6, WoundedIsSound
    <3> QED BY <2>3, <2>4, <3>2, <3>7, <3>8, Alike
  <2> QED BY <1>3, <2>5, <2>6
<1>4. \/ o.world = v /\ o.events = <<Event("missed", t, t)>>
      \/ \E d \in Damage :
           \/ /\ o.world = Wounded(v, t, Bare(v, t, d)) /\ o.events = Blow(t, v.health[t], d)
           \/ /\ o.world = Wounded(v, t, Bare(v, t, d))
              /\ o.events = Append(Blow(t, v.health[t], d), Event("missed", a, a))
           \/ /\ ~(v.health[t] <= d) /\ v.health[a] # 0
              /\ \E b \in Damage :
                   /\ o.world = Wounded(Wounded(v, t, Bare(v, t, d)), a, Bare(v, a, b))
                   /\ o.events = Blow(t, v.health[t], d) \o Blow(a, v.health[a], b)
  BY SMTT(30) DEF Scuffle, Outcome
<1> QED BY <1>2, <1>3, <1>4

\* So does an attack; only somebody in a place can make one.
LEMMA AttackDoes ==
  ASSUME NEW v \in World, NEW a \in Actor, NEW t \in Actor, Sound(v, a), Sound(v, t),
         NEW o \in Attack(v, a, t)
  PROVE  /\ o.world \in World /\ Untold(v, o.world) /\ SamePlaces(v, o.world)
         /\ o.events \in Seq(Plain) /\ v.room[a] = v.room[t]
         /\ \A y \in Actor : Sound(v, y) => Sound(o.world, y)
<1>1. /\ v.room[a] = v.room[t] /\ v.alive[t]
      /\ o \in IF {a, t} \subseteq Gifted THEN Exchange(v, a, t) ELSE Scuffle(v, a, t)
  BY DEF Attack, Here
<1>2. CASE {a, t} \subseteq Gifted
  <2>1. PICK b \in LandedOf(Vital(v, t), SwingsOf(v, a, t)) : o \in Countered(v, a, t, b)
    BY <1>1, <1>2 DEF Exchange
  <2> QED BY <1>1, <1>2, <2>1, CounteredDoes
<1>3. CASE ~({a, t} \subseteq Gifted)
  BY <1>1, <1>3, ScuffleDoes
<1> QED BY <1>2, <1>3

-----------------------------------------------------------------------------
(* What any verb makes of a world.                                         *)

\* One item's part of ItemsAccounted.
Accounted(v, ex, i) ==
  (v.room[i] = None <=> v.carrier[i] # None) /\ v.carrier[i] \in ex \cup {None}

LEMMA PlacesStay ==
  ASSUME NEW v, NEW u, SamePlaces(v, u), NEW ex
  PROVE  /\ Housed(v, ex) => Housed(u, ex)
         /\ \A i \in Item : Accounted(v, ex, i) => Accounted(u, ex, i)
BY DEF SamePlaces, Housed, Accounted

LEMMA BodiesStay ==
  ASSUME NEW v, NEW u, SameBodies(v, u), NEW a
  PROVE  Sound(v, a) => Sound(u, a)
BY DEF SameBodies, Sound

LEMMA ActionTypes ==
  ASSUME NEW x \in Actions
  PROVE  /\ x.actor \in Player /\ x.actor \in Actor /\ x.verb \in Verb
         /\ x.on \in Targets(x.verb) /\ x.to \in Recipients(x.verb)
BY DEF Actions, Actor

\* One action of a in the world v, with the registry ex.
Result(v, ex, x, o) ==
  /\ o.world \in World /\ Untold(v, o.world) /\ o.events \in Seq(Plain)
  /\ Housed(o.world, ex)
  /\ \A a \in ex : Sound(o.world, a)
  /\ x.actor \notin ex => AtSelf(x.actor, o.events)
  /\ \A i \in Item : (x.actor \in ex \/ i # x.on) /\ Accounted(v, ex, i) => Accounted(o.world, ex, i)

\* What changes no place, and only who is somewhere can do.
LEMMA ResultHere ==
  ASSUME NEW v, NEW ex \in SUBSET Actor, Housed(v, ex), NEW x, NEW o,
         o.world \in World, Untold(v, o.world), o.events \in Seq(Plain),
         SamePlaces(v, o.world), \A a \in ex : Sound(o.world, a),
         x.actor \in ex \/ AtSelf(x.actor, o.events)
  PROVE  Result(v, ex, x, o)
BY PlacesStay DEF Result

LEMMA ItemsResult ==
  ASSUME NEW v \in World, NEW ex \in SUBSET Actor, Housed(v, ex), \A a \in ex : Sound(v, a),
         NEW x \in Actions, x.verb \in {"take", "drop", "give"}, NEW o \in Evaluate(v, ex, x)
  PROVE  Result(v, ex, x, o)
<1> DEFINE a == x.actor
           i == x.on
<1>1. a \in Actor /\ i \in Item /\ x.to \in Recipients(x.verb)
  BY ActionTypes DEF Targets
<1>2. None \notin Room /\ Actor \cap Item = {} /\ None \notin Actor
  BY ThingsApart DEF Thing
<1>3. CASE x.verb = "take"
  <2>1. o \in Take(v, a, i)
    BY <1>3 DEF Evaluate
  <2> HIDE DEF a, i
  <2>2. /\ o.world \in World /\ Untold(v, o.world) /\ SameBodies(v, o.world)
        /\ o.events \in Seq(Plain) /\ AtSelf(a, o.events)
        /\ v.room[a] = v.room[i]
        /\ o.world.room = [v.room EXCEPT ![i] = None]
        /\ o.world.carrier = [v.carrier EXCEPT ![i] = a]
    BY <1>1, <2>1, TakeDoes
  <2>3. Housed(o.world, ex)
    BY <1>1, <1>2, <2>2, Cells DEF Housed
  <2>4. \A b \in ex : Sound(o.world, b)
    BY <2>2, BodiesStay
  <2>5. ASSUME NEW j \in Item, a \in ex \/ j # i, Accounted(v, ex, j)
        PROVE  Accounted(o.world, ex, j)
    <3>1. CASE j = i
      <4>1. o.world.room[i] = None /\ o.world.carrier[i] = a
        BY <1>1, <2>2, Cells DEF Thing
      <4> QED BY <1>1, <1>2, <2>5, <3>1, <4>1 DEF Accounted
    <3>2. CASE j # i
      <4>1. o.world.room[j] = v.room[j] /\ o.world.carrier[j] = v.carrier[j]
        BY <2>2, <3>2, Cells DEF Thing
      <4> QED BY <2>5, <4>1 DEF Accounted
    <3> QED BY <3>1, <3>2
  <2> QED BY <2>2, <2>3, <2>4, <2>5 DEF Result, a, i
<1>4. CASE x.verb = "drop"
  <2>1. o \in Drop(v, a, i)
    BY <1>4 DEF Evaluate
  <2> HIDE DEF a, i
  <2>2. /\ o.world \in World /\ Untold(v, o.world) /\ SameBodies(v, o.world)
        /\ o.events \in Seq(Plain) /\ AtSelf(a, o.events)
        /\ o.world.room = [v.room EXCEPT ![i] = v.room[a]]
        /\ o.world.carrier = [v.carrier EXCEPT ![i] = None]
    BY <1>1, <2>1, DropDoes
  <2>3. Housed(o.world, ex)
    BY <1>1, <1>2, <2>2, Cells DEF Housed
  <2>4. \A b \in ex : Sound(o.world, b)
    BY <2>2, BodiesStay
  <2>5. ASSUME NEW j \in Item, a \in ex \/ j # i, Accounted(v, ex, j)
        PROVE  Accounted(o.world, ex, j)
    <3>1. CASE j = i
      <4>1. o.world.room[i] = v.room[a] /\ o.world.carrier[i] = None
        BY <1>1, <2>2, Cells DEF Thing
      <4>2. v.room[a] # None
        BY <1>1, <2>5, <3>1 DEF Housed
      <4> QED BY <3>1, <4>1, <4>2 DEF Accounted
    <3>2. CASE j # i
      <4>1. o.world.room[j] = v.room[j] /\ o.world.carrier[j] = v.carrier[j]
        BY <2>2, <3>2, Cells DEF Thing
      <4> QED BY <2>5, <4>1 DEF Accounted
    <3> QED BY <3>1, <3>2
  <2> QED BY <2>2, <2>3, <2>4, <2>5 DEF Result, a, i
<1>5. CASE x.verb = "give"
  <2>1. x.to \in ex /\ o \in Give(v, a, i, x.to) /\ x.to \in Actor
    BY <1>1, <1>5 DEF Evaluate, Recipients
  <2> HIDE DEF a, i
  <2>2. /\ o.world \in World /\ Untold(v, o.world) /\ SameBodies(v, o.world)
        /\ o.events \in Seq(Plain)
        /\ v.carrier[i] = a /\ v.room[a] = v.room[x.to]
        /\ o.world.room = v.room
        /\ o.world.carrier = [v.carrier EXCEPT ![i] = x.to]
    BY <1>1, <2>1, GiveDoes
  <2>3. Housed(o.world, ex)
    BY <2>2 DEF Housed
  <2>4. \A b \in ex : Sound(o.world, b)
    BY <2>2, BodiesStay
  <2>5. a \in ex
    BY <1>1, <2>1, <2>2 DEF Housed
  <2>6. ASSUME NEW j \in Item, Accounted(v, ex, j)
        PROVE  Accounted(o.world, ex, j)
    <3>1. CASE j = i
      <4>1. o.world.room[i] = v.room[i] /\ o.world.carrier[i] = x.to
        BY <1>1, <2>2, Cells
      <4> QED BY <1>1, <1>2, <2>1, <2>2, <2>6, <3>1, <4>1 DEF Accounted
    <3>2. CASE j # i
      <4>1. o.world.room[j] = v.room[j] /\ o.world.carrier[j] = v.carrier[j]
        BY <2>2, <3>2, Cells
      <4> QED BY <2>6, <4>1 DEF Accounted
    <3> QED BY <3>1, <3>2
  <2> QED BY <2>2, <2>3, <2>4, <2>5, <2>6 DEF Result, a, i
<1> QED BY <1>3, <1>4, <1>5

LEMMA EvaluateDoes ==
  ASSUME NEW v \in World, NEW ex \in SUBSET Actor, Housed(v, ex), \A a \in ex : Sound(v, a),
         NEW x \in Actions, NEW o \in Evaluate(v, ex, x)
  PROVE  Result(v, ex, x, o)
<1> DEFINE a == x.actor
           t == x.on
<1>1. a \in Actor /\ x.verb \in Verb /\ t \in Targets(x.verb)
  BY ActionTypes
<1>2. None \notin Room /\ Actor \cap Item = {} /\ None \notin Actor
  BY ThingsApart DEF Thing
<1>3. CASE x.verb = "move"
  <2>1. t \in Room /\ o \in Move(v, a, t)
    BY <1>1, <1>3 DEF Evaluate, Targets
  <2> HIDE DEF a, t
  <2>2. /\ o.world \in World /\ Untold(v, o.world) /\ SameBodies(v, o.world)
        /\ o.events \in Seq(Plain)
        /\ o.world.room = [v.room EXCEPT ![a] = t] /\ o.world.carrier = v.carrier
        /\ v.room[a] \in Room
    BY <1>1, <2>1, MoveDoes
  <2>3. a \in ex
    BY <1>1, <1>2, <2>2 DEF Housed
  <2>4. Housed(o.world, ex)
    BY <1>1, <1>2, <2>1, <2>2, <2>3, Cells DEF Housed, Thing
  <2>5. \A b \in ex : Sound(o.world, b)
    BY <2>2, BodiesStay
  <2>6. ASSUME NEW j \in Item, Accounted(v, ex, j)
        PROVE  Accounted(o.world, ex, j)
    <3>1. o.world.room[j] = v.room[j]
      BY <1>1, <1>2, <2>2, Cells DEF Thing
    <3> QED BY <2>2, <2>6, <3>1 DEF Accounted
  <2> QED BY <2>2, <2>3, <2>4, <2>5, <2>6 DEF Result, a
<1>4. CASE x.verb \in {"unlock", "open"}
  <2>1. t \in Door /\ o \in Unlock(v, a, t) \cup Open(v, a, t)
    BY <1>1, <1>4 DEF Evaluate, Targets
  <2> HIDE DEF a, t
  <2>2. /\ o.world \in World /\ Untold(v, o.world) /\ SameBodies(v, o.world)
        /\ o.events \in Seq(Plain) /\ SamePlaces(v, o.world) /\ AtSelf(a, o.events)
    BY <1>1, <2>1, UnlockDoes
  <2>3. \A b \in ex : Sound(o.world, b)
    BY <2>2, BodiesStay
  <2> QED BY <2>2, <2>3, ResultHere DEF a
<1>5. CASE x.verb \in {"take", "drop", "give"}
  BY <1>5, ItemsResult
<1>6. CASE x.verb = "attack"
  <2>1. t \in Actor /\ t \in ex /\ o \in Attack(v, a, t)
    BY <1>1, <1>6 DEF Evaluate, Targets
  <2> HIDE DEF a, t
  <2>2. v.room[a] = v.room[t]
    BY <2>1 DEF Attack, Here
  <2>3. a \in ex
    BY <1>1, <2>1, <2>2 DEF Housed
  <2>4. /\ o.world \in World /\ Untold(v, o.world) /\ SamePlaces(v, o.world)
        /\ o.events \in Seq(Plain)
        /\ \A y \in Actor : Sound(v, y) => Sound(o.world, y)
    BY <2>1, <2>3, <1>1, AttackDoes
  <2>5. \A b \in ex : Sound(o.world, b)
    BY <2>4
  <2> QED BY <2>3, <2>4, <2>5, ResultHere DEF a
<1>7. CASE x.verb = "shield"
  <2>1. o \in Shield(v, a)
    BY <1>7 DEF Evaluate
  <2> HIDE DEF a
  <2>2. /\ o.world \in World /\ Untold(v, o.world) /\ SamePlaces(v, o.world)
        /\ o.events \in Seq(Plain) /\ AtSelf(a, o.events)
        /\ \A y \in Actor : Sound(v, y) => Sound(o.world, y)
    BY <1>1, <2>1, ShieldDoes
  <2>3. \A b \in ex : Sound(o.world, b)
    BY <2>2
  <2> QED BY <2>2, <2>3, ResultHere DEF a
<1>8. CASE x.verb = "haste"
  <2>1. o \in Hasten(v, a)
    BY <1>8 DEF Evaluate
  <2> HIDE DEF a
  <2>2. /\ o.world \in World /\ Untold(v, o.world) /\ SamePlaces(v, o.world)
        /\ o.events \in Seq(Plain) /\ AtSelf(a, o.events) /\ SameBodies(v, o.world)
    BY <1>1, <2>1, HastenDoes
  <2>3. \A b \in ex : Sound(o.world, b)
    BY <2>2, BodiesStay
  <2> QED BY <2>2, <2>3, ResultHere DEF a
<1>9. CASE x.verb = "talk"
  <2>1. t \in Actor /\ t \in ex /\ o \in Talk(v, a, t)
    BY <1>1, <1>9 DEF Evaluate, Targets
  <2> HIDE DEF a, t
  <2>2. o.world = v /\ o.events \in Seq(Plain) /\ v.room[a] = v.room[t]
    BY <1>1, <2>1, TalkDoes
  <2>3. a \in ex
    BY <1>1, <2>1, <2>2 DEF Housed
  <2>4. Untold(v, o.world) /\ SamePlaces(v, o.world)
    BY <2>2 DEF Untold, SamePlaces
  <2> QED BY <2>2, <2>3, <2>4, ResultHere DEF a
<1>10. CASE x.verb = "search"
  <2>1. o \in Search(v, a)
    BY <1>10 DEF Evaluate
  <2> HIDE DEF a
  <2>2. /\ o.world \in World /\ Untold(v, o.world) /\ SamePlaces(v, o.world)
        /\ o.events \in Seq(Plain) /\ SameBodies(v, o.world) /\ v.room[a] # None
    BY <1>1, <2>1, SearchDoes
  <2>3. \A b \in ex : Sound(o.world, b)
    BY <2>2, BodiesStay
  <2>4. a \in ex
    BY <1>1, <2>2 DEF Housed
  <2> QED BY <2>2, <2>3, <2>4, ResultHere DEF a
<1> QED BY <1>1, <1>3, <1>4, <1>5, <1>6, <1>7, <1>8, <1>9, <1>10 DEF Verb

-----------------------------------------------------------------------------
(* Least and greatest numbers, and the transition with the highest         *)
(* priority.                                                               *)

LEMMA Lowest == ASSUME NEW S \in SUBSET Nat, S # {} PROVE \E m \in S : \A i \in S : m <= i
<1> DEFINE R == OpToRel(<, Nat)
<1>1. IsWellFoundedOn(R, Nat)
  BY ZenonT(30), NatLessThanWellFounded
<1>2. \A i, m \in Nat : i < m => <<i, m>> \in R
  BY DEF OpToRel
<1> HIDE DEF R
<1>3. PICK m \in S : \A i \in S : <<i, m>> \notin R
  BY <1>1, WFMin
<1>4. m \in Nat /\ \A i \in S : i \in Nat /\ ~(i < m)
  BY <1>2, <1>3
<1> QED BY <1>4

LEMMA Greatest ==
  ASSUME NEW S, S # {}, NEW n \in Nat, S \subseteq 0 .. n
  PROVE  Max(S) \in S /\ \A i \in S : Max(S) >= i
<1> DEFINE B == {k \in Nat : \A i \in S : i <= k}
<1>1. B \in SUBSET Nat /\ n \in B
  OBVIOUS
<1>2. PICK m \in B : \A k \in B : m <= k
  <2> HIDE DEF B
  <2> QED BY <1>1, Lowest
<1>3. m \in S
  <2> SUFFICES ASSUME m \notin S PROVE FALSE
    OBVIOUS
  <2>1. \A i \in S : i \in Nat /\ i <= m /\ i # m
    BY <1>2
  <2>2. m # 0
    <3>1. PICK i \in S : TRUE
      OBVIOUS
    <3> QED BY <2>1, <3>1
  <2>3. m - 1 \in B
    BY <1>1, <1>2, <2>1, <2>2
  <2> QED BY <1>2, <2>3
<1>4. \A i \in S : m >= i
  BY <1>2
<1>5. \E x \in S : \A y \in S : x >= y
  BY <1>3, <1>4
<1> QED BY <1>5 DEF Max

LEMMA Highest ==
  ASSUME NEW E, IsFiniteSet(E), E # {}, \A e \in E : e.priority \in Nat
  PROVE  \E e \in E : \A f \in E : f.priority <= e.priority
<1> DEFINE Top(F) == \E e \in F : \A f \in F : f.priority <= e.priority
           Bad == {n \in Nat : \E F \in SUBSET E : /\ F # {} /\ ~Top(F)
                                                   /\ IsFiniteSet(F) /\ Cardinality(F) = n}
<1> SUFFICES ASSUME ~Top(E) PROVE FALSE
  OBVIOUS
<1>1. Bad \in SUBSET Nat /\ Bad # {}
  <2>1. Cardinality(E) \in Nat /\ E \in SUBSET E
    BY FS_CardinalityType
  <2>2. Cardinality(E) \in Bad
    BY <2>1
  <2> QED BY <2>2
<1>2. PICK n \in Bad : \A k \in Bad : n <= k
  <2> HIDE DEF Bad
  <2> QED BY <1>1, Lowest
<1>3. PICK F \in SUBSET E : F # {} /\ ~Top(F) /\ IsFiniteSet(F) /\ Cardinality(F) = n
  BY <1>2
<1>4. PICK x : x \in F
  BY <1>3
<1> DEFINE G == F \ {x}
<1>5. IsFiniteSet(G) /\ Cardinality(G) = n - 1 /\ G \in SUBSET E /\ n \in Nat
  BY <1>2, <1>3, <1>4, FS_RemoveElement
<1>6. Cardinality(G) \in Nat
  BY <1>5, FS_CardinalityType
<1>7. G # {}
  <2> SUFFICES ASSUME G = {} PROVE FALSE
    OBVIOUS
  <2>1. F = {x}
    BY <1>4
  <2> QED BY <1>3, <1>4, <2>1
<1>8. Cardinality(G) \notin Bad
  <2>1. Cardinality(G) < n
    BY <1>5
  <2> DEFINE k == Cardinality(G)
  <2> HIDE DEF Bad, k
  <2>2. k \in Nat /\ k < n /\ n \in Nat
    BY <1>5, <1>6, <2>1 DEF k
  <2>3. k \notin Bad
    BY <1>2, <2>2
  <2> QED BY <2>3 DEF k
<1>9. Top(G)
  <2> HIDE DEF Top, G
  <2> QED BY <1>5, <1>6, <1>7, <1>8
<1>10. PICK e \in G : \A f \in G : f.priority <= e.priority
  BY <1>9
<1>11. e \in F /\ e.priority \in Nat /\ x.priority \in Nat
  BY <1>4, <1>10
<1>12. CASE x.priority <= e.priority
  BY <1>3, <1>10, <1>11, <1>12
<1>13. CASE ~(x.priority <= e.priority)
  <2>1. \A f \in F : f.priority <= x.priority
    <3> SUFFICES ASSUME NEW f \in F PROVE f.priority <= x.priority
      OBVIOUS
    <3>1. f.priority \in Nat
      BY <1>3
    <3>2. f = x \/ f \in G
      OBVIOUS
    <3> QED BY SMTT(30), <1>10, <1>11, <1>13, <3>1, <3>2
  <2> QED BY <1>3, <1>4, <2>1
<1> QED BY <1>12, <1>13

\* The transition that is followed is one of the enabled ones.
LEMMA ForemostIs ==
  ASSUME NEW S, IsFiniteSet(S), \A e \in S : e.priority \in Nat, NEW E \in SUBSET S, E # {}
  PROVE  Foremost(E) \in E
<1>1. IsFiniteSet(E)
  BY FS_Subset
<1>2. \E e \in E : \A f \in E : f.priority <= e.priority
  BY <1>1, Highest
<1> QED BY <1>2 DEF Foremost

-----------------------------------------------------------------------------
(* Publishing.                                                             *)

\* f[i] is the first i sequences of ss in one.
Flat(f, n, ss, S) ==
  /\ f \in [1 .. n -> Seq(S)]
  /\ \A i \in 1 .. n : f[i] = IF i = 1 THEN ss[i] ELSE f[i - 1] \o ss[i]

LEMMA FlatExists ==
  ASSUME NEW S, NEW ss \in Seq(Seq(S)), NEW n \in 0 .. Len(ss)
  PROVE  \E f : Flat(f, n, ss, S)
<1> DEFINE Bad == {k \in 0 .. Len(ss) : ~ \E f : Flat(f, k, ss, S)}
<1> SUFFICES ASSUME Bad # {} PROVE FALSE
  OBVIOUS
<1>1. PICK k \in Bad : \A i \in Bad : k <= i
  <2>1. Bad \in SUBSET Nat
    OBVIOUS
  <2> HIDE DEF Bad
  <2> QED BY <2>1, Lowest
<1>2. k # 0
  <2>1. Flat([i \in 1 .. 0 |-> <<>>], 0, ss, S)
    BY DEF Flat
  <2> QED BY <2>1
<1>3. k \in 1 .. Len(ss) /\ k - 1 \in 0 .. Len(ss) /\ k - 1 \notin Bad
  <2>1. k \in 0 .. Len(ss) /\ Len(ss) \in Nat
    OBVIOUS
  <2>2. k \in 1 .. Len(ss) /\ k - 1 \in 0 .. Len(ss)
    BY <1>2, <2>1
  <2> HIDE DEF Bad
  <2>3. k - 1 \notin Bad
    BY <1>1, <2>2
  <2> QED BY <2>2, <2>3
<1>4. PICK f : Flat(f, k - 1, ss, S)
  BY <1>3
<1> DEFINE last == IF k = 1 THEN ss[k] ELSE f[k - 1] \o ss[k]
           g == [i \in 1 .. k |-> IF i = k THEN last ELSE f[i]]
<1>5. last \in Seq(S)
  <2>1. ss[k] \in Seq(S)
    BY <1>3
  <2>2. k # 1 => f[k - 1] \in Seq(S)
    <3>1. k # 1 => k - 1 \in 1 .. k - 1
      BY <1>3
    <3> QED BY <1>4, <3>1 DEF Flat
  <2> QED BY <2>1, <2>2
<1>6. g \in [1 .. k -> Seq(S)] /\ g[k] = last /\ \A i \in 1 .. k - 1 : g[i] = f[i]
  <2>1. /\ \A i \in 1 .. k : i # k => i \in 1 .. k - 1
        /\ \A i \in 1 .. k - 1 : i \in 1 .. k /\ i # k
        /\ k \in 1 .. k
    BY <1>3
  <2>2. f \in [1 .. k - 1 -> Seq(S)]
    BY <1>4 DEF Flat
  <2> HIDE DEF last
  <2>3. \A i \in 1 .. k : (IF i = k THEN last ELSE f[i]) \in Seq(S)
    BY <1>5, <2>1, <2>2
  <2> QED BY <2>1, <2>3
<1> HIDE DEF g
<1>7. ASSUME NEW i \in 1 .. k
      PROVE  g[i] = IF i = 1 THEN ss[i] ELSE g[i - 1] \o ss[i]
  <2>1. i # 1 => g[i - 1] = f[i - 1]
    <3>1. i # 1 => i - 1 \in 1 .. k - 1
      BY <1>3
    <3> QED BY <1>6, <3>1
  <2>2. CASE i = k
    BY <1>6, <2>1, <2>2
  <2>3. CASE i # k
    <3>1. i \in 1 .. k - 1
      BY <1>3, <2>3
    <3> QED BY <1>4, <1>6, <2>1, <3>1 DEF Flat
  <2> QED BY <2>2, <2>3
<1>8. Flat(g, k, ss, S)
  BY <1>6, <1>7 DEF Flat
<1> QED BY <1>1, <1>8

\* What sequences of S are flattened to is one.
LEMMA Flattened ==
  ASSUME NEW S, NEW ss \in Seq(Seq(S))
  PROVE  FlattenSeq(ss) \in Seq(S)
<1> DEFINE n == Len(ss)
           Eq(h) == h = [i \in 1 .. n |-> IF i = 1 THEN ss[i] ELSE h[i - 1] \o ss[i]]
           flatten == CHOOSE h : Eq(h)
<1>1. n \in Nat /\ n \in 0 .. n
  OBVIOUS
<1>2. CASE n = 0
  <2>1. FlattenSeq(ss) = ss /\ ss = <<>>
    BY <1>2 DEF FlattenSeq
  <2> QED BY <2>1
<1>3. CASE n # 0
  <2>1. PICK f : Flat(f, n, ss, S)
    BY <1>1, FlatExists
  <2>2. Eq(f)
    <3>1. f = [i \in 1 .. n |-> f[i]]
      BY <2>1 DEF Flat
    <3> DEFINE h == [i \in 1 .. n |-> IF i = 1 THEN ss[i] ELSE f[i - 1] \o ss[i]]
    <3>2. \A i \in 1 .. n : f[i] = h[i]
      BY <2>1 DEF Flat
    <3>3. h = [i \in 1 .. n |-> h[i]]
      OBVIOUS
    <3> HIDE DEF h
    <3>4. f = h
      BY <3>1, <3>2, <3>3
    <3> QED BY <3>4 DEF h
  <2>3. Eq(flatten)
    <3> HIDE DEF Eq
    <3> QED BY <2>2
  <2>4. FlattenSeq(ss) = flatten[n]
    BY <1>3 DEF FlattenSeq
  <2> HIDE DEF flatten
  <2>5. flatten = [i \in 1 .. n |-> IF i = 1 THEN ss[i] ELSE flatten[i - 1] \o ss[i]]
    BY <2>3
  <2> DEFINE Bad == {i \in 1 .. n : flatten[i] # f[i]}
  <2>6. Bad = {}
    <3> SUFFICES ASSUME Bad # {} PROVE FALSE
      OBVIOUS
    <3>1. PICK j \in Bad : \A i \in Bad : j <= i
      <4>1. Bad \in SUBSET Nat
        BY <1>1
      <4> HIDE DEF Bad
      <4> QED BY <4>1, Lowest
    <3>2. j # 1 => j - 1 \in 1 .. n /\ j - 1 \notin Bad
      BY <1>1, <3>1
    <3>3. j # 1 => flatten[j - 1] = f[j - 1]
      BY <3>2
    <3>4. flatten[j] = IF j = 1 THEN ss[j] ELSE flatten[j - 1] \o ss[j]
      BY <2>5, <3>1
    <3>5. flatten[j] = f[j]
      BY <2>1, <3>1, <3>3, <3>4 DEF Flat
    <3> QED BY <3>5
  <2>7. n \in 1 .. n
    BY <1>1, <1>3
  <2>8. flatten[n] = f[n] /\ f[n] \in Seq(S)
    BY <2>1, <2>6, <2>7 DEF Flat
  <2> QED BY <2>4, <2>8
<1> QED BY <1>2, <1>3

LEMMA CalledAre ==
  ASSUME NEW type
  PROVE  Called(type) \in Seq(Machine \cup Quest)
<1>1. MachineOrder \in Seq(Machine \cup Quest) /\ QuestOrder \in Seq(Machine \cup Quest)
  BY PackageAssumption, SeqMonotonic
<1> DEFINE ms == IF type \in MachineTriggers THEN MachineOrder ELSE <<>>
           qs == IF type \in QuestTriggers THEN QuestOrder ELSE <<>>
<1>2. ms \in Seq(Machine \cup Quest) /\ qs \in Seq(Machine \cup Quest)
  BY <1>1
<1>3. Called(type) = IF QuestsFirst THEN qs \o ms ELSE ms \o qs
  BY DEF Called
<1> HIDE DEF ms, qs
<1> QED BY <1>2, <1>3

\* What is published is to be delivered, of all events from n + 1 on, to machines
\* and quests.
LEMMA Published ==
  ASSUME NEW n \in Nat, NEW T, NEW evs \in Seq(T)
  PROVE  Publish(evs, n) \in Seq([event : n + 1 .. n + Len(evs), to : Machine \cup Quest])
<1> DEFINE S == [event : n + 1 .. n + Len(evs), to : Machine \cup Quest]
           ss == [i \in 1 .. Len(evs) |-> Deliveries(n + i, evs[i].type)]
<1>1. ASSUME NEW i \in 1 .. Len(evs)
      PROVE  Deliveries(n + i, evs[i].type) \in Seq(S)
  <2> DEFINE c == Called(evs[i].type)
  <2>1. c \in Seq(Machine \cup Quest)
    BY CalledAre
  <2>2. Deliveries(n + i, evs[i].type) = [j \in 1 .. Len(c) |-> [event |-> n + i, to |-> c[j]]]
    BY DEF Deliveries
  <2> HIDE DEF c
  <2>3. n + i \in n + 1 .. n + Len(evs)
    OBVIOUS
  <2>4. \A j \in 1 .. Len(c) : [event |-> n + i, to |-> c[j]] \in S
    BY <2>1, <2>3
  <2>5. Len(c) \in Nat
    BY <2>1
  <2> HIDE DEF S
  <2> QED BY <2>2, <2>4, <2>5, IsASeq
<1>2. Len(evs) \in Nat
  OBVIOUS
<1>3. Publish(evs, n) = FlattenSeq(ss)
  BY DEF Publish
<1>4. ss \in Seq(Seq(S))
  <2> HIDE DEF S
  <2> QED BY <1>1, <1>2, IsASeq
<1> HIDE DEF S, ss
<1>5. FlattenSeq(ss) \in Seq(S)
  BY <1>4, Flattened
<1> QED BY <1>3, <1>5 DEF S

-----------------------------------------------------------------------------
(* The action that events go back to.                                      *)

\* Root, of any log.
RootIn(l, n) ==
  LET walk[i \in 1 .. Len(l)] ==
        IF l[i].cause.kind = "event" THEN walk[l[i].cause.n] ELSE l[i].cause.n
  IN  walk[n]

\* The events that cause others are before them.
Ordered(l) == \A i \in 1 .. Len(l) : l[i].cause.kind = "event" => l[i].cause.n \in 1 .. i - 1

\* f leads from the first k events of l to their actions.
Roots(f, k, l) ==
  /\ f = [i \in 1 .. k |-> f[i]]
  /\ \A i \in 1 .. k : f[i] = IF l[i].cause.kind = "event" THEN f[l[i].cause.n] ELSE l[i].cause.n

LEMMA RootsExist ==
  ASSUME NEW l, Len(l) \in Nat, Ordered(l), NEW n \in 0 .. Len(l)
  PROVE  \E f : Roots(f, n, l)
<1> DEFINE Bad == {k \in 0 .. Len(l) : ~ \E f : Roots(f, k, l)}
<1> SUFFICES ASSUME Bad # {} PROVE FALSE
  OBVIOUS
<1>1. PICK k \in Bad : \A i \in Bad : k <= i
  <2>1. Bad \in SUBSET Nat
    OBVIOUS
  <2> HIDE DEF Bad
  <2> QED BY <2>1, Lowest
<1>2. k # 0
  <2>1. Roots([i \in 1 .. 0 |-> 0], 0, l)
    BY DEF Roots
  <2> QED BY <2>1
<1>3. k \in 1 .. Len(l) /\ k - 1 \in 0 .. Len(l) /\ k - 1 \notin Bad
  <2>1. k \in 1 .. Len(l) /\ k - 1 \in 0 .. Len(l)
    BY <1>2
  <2> HIDE DEF Bad
  <2>2. k - 1 \notin Bad
    BY <1>1, <2>1
  <2> QED BY <2>1, <2>2
<1>4. PICK f : Roots(f, k - 1, l)
  BY <1>3
<1> DEFINE last == IF l[k].cause.kind = "event" THEN f[l[k].cause.n] ELSE l[k].cause.n
           g == [i \in 1 .. k |-> IF i = k THEN last ELSE f[i]]
<1>5. g = [i \in 1 .. k |-> g[i]] /\ g[k] = last /\ \A i \in 1 .. k - 1 : g[i] = f[i]
  <2>1. k \in 1 .. k /\ \A i \in 1 .. k - 1 : i \in 1 .. k /\ i # k
    BY <1>3
  <2> HIDE DEF last
  <2> QED BY <2>1
<1>6. ASSUME NEW i \in 1 .. k
      PROVE  g[i] = IF l[i].cause.kind = "event" THEN g[l[i].cause.n] ELSE l[i].cause.n
  <2> HIDE DEF g
  <2>1. l[i].cause.kind = "event" => l[i].cause.n \in 1 .. i - 1
    BY <1>3 DEF Ordered
  <2>2. l[i].cause.kind = "event" => g[l[i].cause.n] = f[l[i].cause.n]
    <3> DEFINE j == l[i].cause.n
    <3>1. j \in 1 .. i - 1 => j \in 1 .. k - 1
      BY <1>3
    <3> QED BY <1>5, <2>1, <3>1
  <2>3. CASE i = k
    BY <1>5, <2>2, <2>3
  <2>4. CASE i # k
    <3>1. i \in 1 .. k - 1
      BY <1>3, <2>4
    <3> QED BY <1>4, <1>5, <2>2, <3>1 DEF Roots
  <2> QED BY <2>3, <2>4
<1> HIDE DEF g
<1>7. Roots(g, k, l)
  BY <1>5, <1>6 DEF Roots
<1> QED BY <1>1, <1>7

LEMMA RootIs ==
  ASSUME NEW l, Len(l) \in Nat, Ordered(l), NEW n \in 1 .. Len(l)
  PROVE  RootIn(l, n) = IF l[n].cause.kind = "event" THEN RootIn(l, l[n].cause.n) ELSE l[n].cause.n
<1> DEFINE Eq(h) == h = [i \in 1 .. Len(l) |->
                           IF l[i].cause.kind = "event" THEN h[l[i].cause.n] ELSE l[i].cause.n]
           walk == CHOOSE h : Eq(h)
<1>1. PICK f : Roots(f, Len(l), l)
  <2>1. Len(l) \in 0 .. Len(l)
    OBVIOUS
  <2> QED BY <2>1, RootsExist
<1>2. Eq(f)
  <2> DEFINE h == [i \in 1 .. Len(l) |->
                     IF l[i].cause.kind = "event" THEN f[l[i].cause.n] ELSE l[i].cause.n]
  <2>1. f = [i \in 1 .. Len(l) |-> f[i]] /\ \A i \in 1 .. Len(l) : f[i] = h[i]
    BY <1>1 DEF Roots
  <2>2. h = [i \in 1 .. Len(l) |-> h[i]]
    OBVIOUS
  <2> HIDE DEF h
  <2>3. f = h
    BY <2>1, <2>2
  <2> QED BY SMTT(30), <2>3 DEF h
<1>3. Eq(walk)
  <2> HIDE DEF Eq
  <2> QED BY <1>2
<1>4. \A i : RootIn(l, i) = walk[i]
  BY DEF RootIn
<1> HIDE DEF walk
<1>5. walk[n] = IF l[n].cause.kind = "event" THEN walk[l[n].cause.n] ELSE l[n].cause.n
  BY <1>3
<1> QED BY <1>4, <1>5

\* What is appended to a log does not change what came before.
LEMMA RootStays ==
  ASSUME NEW l, NEW m, Len(l) \in Nat, Len(m) \in Nat, Ordered(l), Ordered(m), Len(l) <= Len(m),
         \A i \in 1 .. Len(l) : m[i] = l[i]
  PROVE  \A i \in 1 .. Len(l) : RootIn(m, i) = RootIn(l, i)
<1> DEFINE Bad == {i \in 1 .. Len(l) : RootIn(m, i) # RootIn(l, i)}
<1> SUFFICES ASSUME Bad # {} PROVE FALSE
  OBVIOUS
<1>1. PICK k \in Bad : \A i \in Bad : k <= i
  <2>1. Bad \in SUBSET Nat
    OBVIOUS
  <2> HIDE DEF Bad
  <2> QED BY <2>1, Lowest
<1>2. k \in 1 .. Len(l) /\ k \in 1 .. Len(m) /\ m[k] = l[k]
  OBVIOUS
<1>3. RootIn(l, k) = IF l[k].cause.kind = "event" THEN RootIn(l, l[k].cause.n) ELSE l[k].cause.n
  BY <1>2, RootIs
<1>4. RootIn(m, k) = IF l[k].cause.kind = "event" THEN RootIn(m, l[k].cause.n) ELSE l[k].cause.n
  BY <1>2, RootIs
<1>5. l[k].cause.kind = "event" => l[k].cause.n \in 1 .. k - 1
  BY <1>2 DEF Ordered
<1>6. ASSUME NEW j \in 1 .. k - 1 PROVE RootIn(m, j) = RootIn(l, j)
  <2>1. j \in 1 .. Len(l) /\ ~(k <= j)
    BY <1>2
  <2>2. j \notin Bad
    <3> HIDE DEF Bad
    <3> QED BY <1>1, <2>1
  <2> QED BY <2>1, <2>2
<1>7. RootIn(m, k) = RootIn(l, k)
  BY <1>3, <1>4, <1>5, <1>6
<1> QED BY <1>7

\* All of them go back to some action.
LEMMA RootIsAction ==
  ASSUME NEW l, Len(l) \in Nat, Ordered(l), NEW D,
         \A i \in 1 .. Len(l) : l[i].cause.kind # "event" => l[i].cause.n \in D
  PROVE  \A i \in 1 .. Len(l) : RootIn(l, i) \in D
<1> DEFINE Bad == {i \in 1 .. Len(l) : RootIn(l, i) \notin D}
<1> SUFFICES ASSUME Bad # {} PROVE FALSE
  OBVIOUS
<1>1. PICK k \in Bad : \A i \in Bad : k <= i
  <2>1. Bad \in SUBSET Nat
    OBVIOUS
  <2> HIDE DEF Bad
  <2> QED BY <2>1, Lowest
<1>2. k \in 1 .. Len(l)
  OBVIOUS
<1>3. RootIn(l, k) = IF l[k].cause.kind = "event" THEN RootIn(l, l[k].cause.n) ELSE l[k].cause.n
  BY <1>2, RootIs
<1>4. l[k].cause.kind = "event" => l[k].cause.n \in 1 .. k - 1
  BY <1>2 DEF Ordered
<1>5. ASSUME NEW j \in 1 .. k - 1 PROVE RootIn(l, j) \in D
  <2>1. j \in 1 .. Len(l) /\ ~(k <= j)
    BY <1>2
  <2>2. j \notin Bad
    <3> HIDE DEF Bad
    <3> QED BY <1>1, <2>1
  <2> QED BY <2>1, <2>2
<1>6. RootIn(l, k) \in D
  BY <1>2, <1>3, <1>4, <1>5
<1> QED BY <1>6

\* Whose quests an event moves.
LEMMA ActorIs ==
  ASSUME Len(log) \in Nat, Ordered(log), exists \subseteq Actor,
         \A i \in 1 .. Len(log) : log[i].cause.kind \in {"action", "event"},
         NEW n \in 1 .. Len(log)
  PROVE  ActorOf(n) = IF acts[RootIn(log, n)] \in exists THEN acts[RootIn(log, n)]
                      ELSE IF log[n].target \in exists \cap Player THEN log[n].target
                      ELSE None
<1> DEFINE N == 0 .. Len(log)
           Via(h, i) == IF i = 0 THEN None
                        ELSE IF log[i].cause.kind = "event" THEN h[log[i].cause.n]
                        ELSE IF log[i].cause.kind = "action" /\ acts[log[i].cause.n] \in exists
                             THEN acts[log[i].cause.n]
                        ELSE None
           Eq(h) == h = [i \in N |-> Via(h, i)]
           walk == CHOOSE h : Eq(h)
           g == [i \in N |-> IF i # 0 /\ acts[RootIn(log, i)] \in exists
                             THEN acts[RootIn(log, i)] ELSE None]
<1>1. \A i \in N : i = 0 \/ i \in 1 .. Len(log)
  OBVIOUS
<1>2. ASSUME NEW i \in 1 .. Len(log)
      PROVE  /\ log[i].cause.kind = "event" =>
                  log[i].cause.n \in 1 .. i - 1 /\ log[i].cause.n \in N /\ log[i].cause.n # 0
             /\ RootIn(log, i) = IF log[i].cause.kind = "event" THEN RootIn(log, log[i].cause.n)
                                 ELSE log[i].cause.n
             /\ log[i].cause.kind \in {"action", "event"}
  <2>1. log[i].cause.kind = "event" => log[i].cause.n \in 1 .. i - 1
    BY DEF Ordered
  <2>2. \A j \in 1 .. i - 1 : j \in N /\ j # 0
    OBVIOUS
  <2> QED BY <2>1, <2>2, RootIs
<1>3. ASSUME NEW i \in N PROVE g[i] = Via(g, i)
  <2>1. CASE i = 0
    BY <2>1
  <2>2. CASE i \in 1 .. Len(log)
    <3>1. i # 0
      BY <2>2
    <3>2. g[i] = IF acts[RootIn(log, i)] \in exists THEN acts[RootIn(log, i)] ELSE None
      BY <3>1
    <3>3. CASE log[i].cause.kind = "event"
      <4>1. g[log[i].cause.n] = IF acts[RootIn(log, log[i].cause.n)] \in exists
                                THEN acts[RootIn(log, log[i].cause.n)] ELSE None
        BY <1>2, <2>2, <3>3
      <4> HIDE DEF g
      <4> QED BY <1>2, <2>2, <3>1, <3>2, <3>3, <4>1
    <3>4. CASE log[i].cause.kind # "event"
      <4> HIDE DEF g
      <4> QED BY <1>2, <2>2, <3>1, <3>2, <3>4
    <3> QED BY <3>3, <3>4
  <2> QED BY <1>1, <2>1, <2>2
<1>4. Eq(g)
  <2>1. g = [i \in N |-> g[i]]
    OBVIOUS
  <2> HIDE DEF g, Via
  <2> QED BY <1>3, <2>1
<1>5. Eq(walk)
  <2> HIDE DEF Eq
  <2> QED BY <1>4
<1>6. ActorOf(n) = IF walk[n] # None THEN walk[n]
                   ELSE IF log[n].target \in exists \cap Player THEN log[n].target ELSE None
  BY DEF ActorOf
<1> HIDE DEF walk
<1>7. \A i \in N : walk[i] = Via(walk, i)
  <2> HIDE DEF Via
  <2> QED BY <1>5
<1> DEFINE Bad == {i \in N : walk[i] # g[i]}
<1>8. Bad = {}
  <2> HIDE DEF g
  <2> SUFFICES ASSUME Bad # {} PROVE FALSE
    OBVIOUS
  <2>1. PICK k \in Bad : \A i \in Bad : k <= i
    <3>1. Bad \in SUBSET Nat
      OBVIOUS
    <3> HIDE DEF Bad
    <3> QED BY <3>1, Lowest
  <2>2. ASSUME NEW j \in 1 .. k - 1 PROVE walk[j] = g[j]
    <3>1. j \in N /\ ~(k <= j)
      OBVIOUS
    <3>2. j \notin Bad
      <4> HIDE DEF Bad
      <4> QED BY <2>1, <3>1
    <3> QED BY <3>1, <3>2
  <2>3. walk[k] = Via(walk, k) /\ g[k] = Via(g, k) /\ k \in N
    BY <1>3, <1>7
  <2>4. k \in 1 .. Len(log) /\ log[k].cause.kind = "event" => walk[log[k].cause.n] = g[log[k].cause.n]
    BY <1>2, <2>2
  <2>5. Via(walk, k) = Via(g, k)
    BY <1>1, <2>3, <2>4
  <2> QED BY <2>3, <2>5
<1>9. n \in N /\ n # 0
  OBVIOUS
<1>10. walk[n] = IF acts[RootIn(log, n)] \in exists THEN acts[RootIn(log, n)] ELSE None
  <2>1. walk[n] = g[n]
    BY <1>8, <1>9
  <2> QED BY <1>9, <2>1
<1>11. None \notin exists
  BY ThingsApart DEF Thing
<1> QED BY <1>6, <1>10, <1>11

-----------------------------------------------------------------------------
(* Logs.                                                                   *)

Evt == [type : EventType, target : Thing \cup Door \cup {None}, what : What]
Cause == [kind : {"action", "event"}, n : Nat]
Entry == [type : EventType, target : Thing \cup Door \cup {None}, what : What,
          cause : [kind : {"action", "event"}, n : Nat]]

\* What an action's own events are.
Told ==
  [type : {"moved", "unlocked", "opened", "added", "removed", "given", "damaged", "defeated",
           "missed", "cast", "responded", "searched", "action.failed"},
   target : Actor \cup Door, what : What]

LEMMA PlainIsTold == Plain \subseteq Told /\ Told \subseteq Evt
<1>1. ASSUME NEW e \in Plain PROVE e \in Told
  BY DEF Plain, Told
<1>2. ASSUME NEW e \in Told PROVE e \in Evt
  <2>1. e = [type |-> e.type, target |-> e.target, what |-> e.what]
    BY DEF Told
  <2>2. e.target \in Thing \cup Door \cup {None} /\ e.what \in What
    BY DEF Told, Thing
  <2>3. e.type \in {"moved", "unlocked", "opened", "added", "removed", "given", "damaged",
                    "defeated", "missed", "cast", "responded", "searched", "action.failed"}
    BY DEF Told
  <2>4. e.type \in EventType
    BY <2>3 DEF EventType, Triggering
  <2> QED BY <2>1, <2>2, <2>4 DEF Evt
<1> QED BY <1>1, <1>2

\* l is followed by the events evs of one cause.
Grown(l, m, evs, cause) ==
  /\ Len(m) = Len(l) + Len(evs) /\ Len(l) \in Nat /\ Len(evs) \in Nat
  /\ \A i \in 1 .. Len(l) : m[i] = l[i]
  /\ \A j \in 1 .. Len(evs) :
       /\ m[Len(l) + j].type = evs[j].type /\ m[Len(l) + j].target = evs[j].target
       /\ m[Len(l) + j].what = evs[j].what /\ m[Len(l) + j].cause = cause

LEMMA LogGrows ==
  ASSUME NEW l \in Seq(Entry), NEW evs \in Seq(Evt), NEW cause \in Cause,
         NEW m, m = l \o Logged(evs, cause)
  PROVE  m \in Seq(Entry) /\ Grown(l, m, evs, cause)
<1> DEFINE r == Logged(evs, cause)
<1>1. r = [i \in 1 .. Len(evs) |-> [type |-> evs[i].type, target |-> evs[i].target,
                                    what |-> evs[i].what, cause |-> cause]]
  BY DEF Logged
<1>2. Len(evs) \in Nat /\ \A i \in 1 .. Len(evs) : evs[i] \in Evt
  OBVIOUS
<1>3. \A i \in 1 .. Len(evs) :
        [type |-> evs[i].type, target |-> evs[i].target, what |-> evs[i].what, cause |-> cause] \in Entry
  BY <1>2 DEF Entry, Evt, Cause
<1>4. r \in Seq(Entry) /\ Len(r) = Len(evs)
  <2> HIDE DEF r
  <2>1. r \in [1 .. Len(evs) -> Entry]
    BY <1>1, <1>3
  <2>2. DOMAIN r = 1 .. Len(evs)
    BY <1>1
  <2>3. r \in Seq(Entry)
    BY <1>2, <2>1, SeqDef
  <2> QED BY <1>2, <2>2, <2>3, LenProperties
<1>5. \A j \in 1 .. Len(evs) : /\ r[j].type = evs[j].type /\ r[j].target = evs[j].target
                               /\ r[j].what = evs[j].what /\ r[j].cause = cause
  BY <1>1
<1> HIDE DEF r
<1>6. m = l \o r
  BY DEF r
<1>7. m \in Seq(Entry) /\ Len(m) = Len(l) + Len(evs) /\ Len(l) \in Nat
  <2>1. l \o r \in Seq(Entry) /\ Len(l \o r) = Len(l) + Len(r)
    BY <1>4, ConcatProperties
  <2>2. Len(l) \in Nat
    BY LenProperties
  <2> QED BY <1>4, <1>6, <2>1, <2>2
<1>8. \A i \in 1 .. Len(l) + Len(r) : m[i] = IF i <= Len(l) THEN l[i] ELSE r[i - Len(l)]
  BY <1>4, <1>6, ConcatProperties
<1>9. \A i \in 1 .. Len(l) : m[i] = l[i]
  BY <1>2, <1>4, <1>7, <1>8
<1>10. ASSUME NEW j \in 1 .. Len(evs) PROVE m[Len(l) + j] = r[j]
  <2> DEFINE i == Len(l) + j
  <2>1. i \in 1 .. Len(l) + Len(r) /\ ~(i <= Len(l)) /\ i - Len(l) = j
    BY <1>2, <1>4, <1>7
  <2> HIDE DEF i
  <2>2. m[i] = r[j]
    BY <1>8, <2>1
  <2> QED BY <2>2 DEF i
<1> QED BY <1>2, <1>5, <1>7, <1>9, <1>10 DEF Grown

\* The changes of one machine or quest in l.
IsChange(e, kind, target, x) ==
  e.type = Names[kind].transitioned /\ e.target = target /\ e.what[1] = x

ChangesIn(l, kind, target, x, since) ==
  {i \in since + 1 .. Len(l) : IsChange(l[i], kind, target, x)}

StateIn(l, n, C, first) ==
  LET earlier == {i \in C : i < n}
  IN  IF earlier = {} THEN first ELSE l[Max(earlier)].what[3]

ChainIn(l, C, first, last) ==
  /\ \A i \in C : l[i].what[2] = StateIn(l, i, C, first)
  /\ StateIn(l, Len(l) + 1, C, first) = last

\* The state before n depends on the changes before n.
LEMMA StateStays ==
  ASSUME NEW l, NEW m, Len(l) \in Nat, \A i \in 1 .. Len(l) : m[i] = l[i],
         NEW C, NEW D, NEW n, NEW k, NEW first,
         {i \in C : i < n} = {i \in D : i < k}, {i \in C : i < n} \subseteq 1 .. Len(l)
  PROVE  StateIn(m, k, D, first) = StateIn(l, n, C, first)
<1> DEFINE earlier == {i \in C : i < n}
<1>1. CASE earlier = {}
  BY <1>1 DEF StateIn
<1>2. CASE earlier # {}
  <2>1. earlier \subseteq 0 .. Len(l)
    OBVIOUS
  <2>2. Max(earlier) \in earlier
    <3> HIDE DEF earlier
    <3> QED BY <1>2, <2>1, Greatest
  <2>3. m[Max(earlier)] = l[Max(earlier)]
    BY <2>2
  <2> QED BY <1>2, <2>3 DEF StateIn
<1> QED BY <1>1, <1>2

LEMMA ChainStays ==
  ASSUME NEW l, NEW m, Len(l) \in Nat, Len(m) \in Nat, Len(l) <= Len(m),
         \A i \in 1 .. Len(l) : m[i] = l[i],
         NEW C, C \subseteq 1 .. Len(l), NEW first, NEW last, ChainIn(l, C, first, last)
  PROVE  ChainIn(m, C, first, last)
<1>1. ASSUME NEW i \in C PROVE m[i].what[2] = StateIn(m, i, C, first)
  <2>1. l[i].what[2] = StateIn(l, i, C, first)
    BY DEF ChainIn
  <2>2. {j \in C : j < i} \subseteq 1 .. Len(l)
    OBVIOUS
  <2>3. StateIn(m, i, C, first) = StateIn(l, i, C, first)
    BY <2>2, StateStays
  <2> QED BY <2>1, <2>3
<1>2. StateIn(m, Len(m) + 1, C, first) = last
  <2>0. \A j \in C : j < Len(l) + 1 /\ j < Len(m) + 1
    OBVIOUS
  <2>1. {j \in C : j < Len(l) + 1} = {j \in C : j < Len(m) + 1}
    BY <2>0
  <2>2. {j \in C : j < Len(l) + 1} \subseteq 1 .. Len(l)
    OBVIOUS
  <2>3. StateIn(m, Len(m) + 1, C, first) = StateIn(l, Len(l) + 1, C, first)
    BY <2>1, <2>2, StateStays
  <2> QED BY <2>3 DEF ChainIn
<1> QED BY <1>1, <1>2 DEF ChainIn

LEMMA ChainGrows ==
  ASSUME NEW l, NEW m, Len(l) \in Nat, Len(m) \in Nat, Len(l) + 1 <= Len(m),
         \A i \in 1 .. Len(l) : m[i] = l[i],
         NEW C, C \subseteq 1 .. Len(l), NEW first, NEW last, ChainIn(l, C, first, last),
         m[Len(l) + 1].what[2] = last
  PROVE  ChainIn(m, C \cup {Len(l) + 1}, first, m[Len(l) + 1].what[3])
<1> DEFINE k == Len(l) + 1
           D == C \cup {k}
<1>0. k \in Nat /\ \A j \in C : j < k
  OBVIOUS
<1>1. ASSUME NEW i \in C PROVE m[i].what[2] = StateIn(m, i, D, first)
  <2>1. l[i].what[2] = StateIn(l, i, C, first)
    BY DEF ChainIn
  <2>2. {j \in C : j < i} \subseteq 1 .. Len(l) /\ {j \in C : j < i} = {j \in D : j < i}
    <3>1. ~(k < i)
      OBVIOUS
    <3> HIDE DEF k
    <3> QED BY <3>1
  <2> HIDE DEF D
  <2>3. StateIn(m, i, D, first) = StateIn(l, i, C, first)
    BY <2>2, StateStays
  <2> QED BY <2>1, <2>3
<1>2. m[k].what[2] = StateIn(m, k, D, first)
  <2>1. {j \in C : j < k} = {j \in D : j < k} /\ {j \in C : j < k} \subseteq 1 .. Len(l)
    <3>1. ~(k < k)
      BY <1>0
    <3> HIDE DEF k
    <3> QED BY <1>0, <3>1
  <2> HIDE DEF D
  <2>2. StateIn(m, k, D, first) = StateIn(l, k, C, first)
    BY SMTT(30), <2>1, StateStays
  <2> QED BY <2>2 DEF ChainIn
<1>3. StateIn(m, Len(m) + 1, D, first) = m[k].what[3]
  <2> DEFINE E == {j \in D : j < Len(m) + 1}
  <2>0. /\ \A j \in C : j < Len(m) + 1 /\ j \in 0 .. k
        /\ k < Len(m) + 1 /\ k \in 0 .. k
    OBVIOUS
  <2>1. E = D /\ D \subseteq 0 .. k /\ k \in D
    <3> HIDE DEF k
    <3> QED BY <2>0
  <2> HIDE DEF D
  <2>2. Max(D) \in D /\ \A i \in D : Max(D) >= i
    BY <1>0, <2>1, Greatest
  <2>3. Max(D) = k
    <3>1. Max(D) \in 0 .. k /\ Max(D) >= k
      BY <2>1, <2>2
    <3> HIDE DEF k
    <3> QED BY <1>0, <3>1
  <2> QED BY <2>1, <2>3 DEF StateIn
<1> HIDE DEF k
<1>4. ChainIn(m, D, first, m[k].what[3])
  BY <1>1, <1>2, <1>3 DEF ChainIn
<1> QED BY <1>4 DEF k

\* Events that are no changes of x, and one that is.
LEMMA NoChange ==
  ASSUME NEW l, NEW m, NEW evs, NEW cause, Grown(l, m, evs, cause),
         NEW kind, NEW target, NEW x, NEW since \in Nat,
         \A j \in 1 .. Len(evs) : ~IsChange(evs[j], kind, target, x)
  PROVE  ChangesIn(m, kind, target, x, since) = ChangesIn(l, kind, target, x, since)
<1>1. ASSUME NEW i \in 1 .. Len(m), i \notin 1 .. Len(l)
      PROVE  ~IsChange(m[i], kind, target, x)
  <2> DEFINE j == i - Len(l)
  <2>1. j \in 1 .. Len(evs) /\ i = Len(l) + j
    BY <1>1 DEF Grown
  <2> HIDE DEF j
  <2> QED BY <2>1 DEF Grown, IsChange
<1>2. \A i \in 1 .. Len(l) : m[i] = l[i] /\ i \in 1 .. Len(m)
  BY DEF Grown
<1>3. Len(l) \in Nat /\ Len(m) \in Nat
  BY DEF Grown
<1> QED BY <1>1, <1>2, <1>3 DEF ChangesIn

LEMMA OneChange ==
  ASSUME NEW l, NEW m, NEW evs, NEW cause, Grown(l, m, evs, cause),
         NEW kind, NEW target, NEW x, NEW since \in Nat, since <= Len(l),
         Len(evs) >= 1, IsChange(evs[1], kind, target, x),
         \A j \in 2 .. Len(evs) : ~IsChange(evs[j], kind, target, x)
  PROVE  ChangesIn(m, kind, target, x, since)
           = ChangesIn(l, kind, target, x, since) \cup {Len(l) + 1}
<1>1. ASSUME NEW i \in 1 .. Len(m), i \notin 1 .. Len(l), i # Len(l) + 1
      PROVE  ~IsChange(m[i], kind, target, x)
  <2> DEFINE j == i - Len(l)
  <2>0. /\ Len(l) \in Nat /\ Len(evs) \in Nat /\ Len(m) = Len(l) + Len(evs)
        /\ i \in 1 .. Len(m) /\ i \notin 1 .. Len(l) /\ i # Len(l) + 1
    BY <1>1 DEF Grown
  <2>1. j \in 2 .. Len(evs) /\ i = Len(l) + j /\ j \in 1 .. Len(evs)
    BY <2>0
  <2> HIDE DEF j
  <2> QED BY <2>1 DEF Grown, IsChange
<1>2. \A i \in 1 .. Len(l) : m[i] = l[i] /\ i \in 1 .. Len(m)
  BY DEF Grown
<1>3. Len(l) \in Nat /\ Len(m) \in Nat
  BY DEF Grown
<1>4. Len(l) + 1 \in since + 1 .. Len(m)
  BY DEF Grown
<1>5. IsChange(m[Len(l) + 1], kind, target, x)
  <2>1. 1 \in 1 .. Len(evs)
    BY DEF Grown
  <2> QED BY <2>1 DEF Grown, IsChange
<1> QED BY <1>1, <1>2, <1>3, <1>4, <1>5 DEF ChangesIn

-----------------------------------------------------------------------------
(* Transitions and what they announce.                                     *)

LEMMA StepIs ==
  ASSUME NEW m \in Machine, NEW s, NEW ev, Triggered(Steps[m], s, ev) # {}
  PROVE  LET e == Foremost(Triggered(Steps[m], s, ev)) IN
         e \in Steps[m] /\ e.from = s /\ e.from \notin Terminal /\ e.to \in State
<1> DEFINE E == Triggered(Steps[m], s, ev)
<1>1. /\ IsFiniteSet(Steps[m]) /\ \A e \in Steps[m] : EdgeOK(e) /\ e.priority \in Nat
  BY AuthoringAssumption DEF MachineOK, EdgeOK
<1>2. E \in SUBSET Steps[m] /\ \A e \in E : e.from = s
  BY DEF Triggered
<1> HIDE DEF E
<1>3. E # {}
  BY DEF E
<1>4. Foremost(E) \in E
  BY <1>1, <1>2, <1>3, ForemostIs
<1>5. \A e \in Steps[m] : e.to \in State
  BY DEF State
<1>6. Foremost(E).from \notin Terminal
  BY <1>1, <1>2, <1>4 DEF EdgeOK
<1> QED BY <1>2, <1>4, <1>5, <1>6 DEF E

LEMMA AuthoredIs ==
  ASSUME NEW q \in Quest, NEW E \in SUBSET Transitions[q], E # {}
  PROVE  /\ Foremost(E) \in E /\ Foremost(E).to \in State /\ Foremost(E).from \notin Terminal
         /\ Foremost(E).reward \in Nat
<1>1. /\ IsFiniteSet(Transitions[q])
      /\ \A e \in Transitions[q] : EdgeOK(e) /\ e.priority \in Nat /\ e.reward \in Nat
  BY AuthoringAssumption DEF QuestOK, EdgeOK, RewardOK
<1>2. Foremost(E) \in E
  BY <1>1, ForemostIs
<1>3. \A e \in Transitions[q] : e.to \in State
  BY DEF State
<1> QED BY <1>1, <1>2, <1>3 DEF EdgeOK

\* What a transition announces.
AnnouncedAs(evs, kind, target, what, e) ==
  /\ evs \in Seq(Evt)
  /\ Len(evs) = IF e.to \in Terminal THEN 2 ELSE 1
  /\ evs[1] = Event(Names[kind].transitioned, target, <<what, e.from, e.to>>)
  /\ e.to \in Terminal => evs[2] = Event(Names[kind][e.to], target, what)
  /\ \A j \in 1 .. Len(evs) : evs[j].target = target

LEMMA AnnouncedIs ==
  ASSUME NEW kind \in {"fsm", "quest"}, NEW target \in Thing \cup Door \cup {None},
         NEW what \in Machine \cup Quest, NEW e, e.from \in State, e.to \in State,
         NEW evs, evs = Announced(kind, target, what, e)
  PROVE  AnnouncedAs(evs, kind, target, what, e)
<1> DEFINE one == Event(Names[kind].transitioned, target, <<what, e.from, e.to>>)
           two == Event(Names[kind][e.to], target, what)
<1>1. one \in Evt
  <2>1. <<what, e.from, e.to>> \in What
    BY DEF What
  <2>2. Names[kind].transitioned \in EventType
    BY DEF EventType
  <2> QED BY <2>1, <2>2 DEF Event, Evt
<1>2. ASSUME e.to \in Terminal PROVE two \in Evt
  <2>1. what \in What
    BY DEF What
  <2>2. Names[kind][e.to] \in EventType
    BY <1>2 DEF EventType, Triggering
  <2> QED BY <2>1, <2>2 DEF Event, Evt
<1>3. one.target = target /\ two.target = target
  BY DEF Event
<1> HIDE DEF one, two
<1>4. evs = <<one>> \o (IF e.to \in Terminal THEN <<two>> ELSE <<>>)
  BY DEF Announced, one, two
<1>5. CASE e.to \in Terminal
  <2>1. <<one>> \in Seq(Evt) /\ <<two>> \in Seq(Evt) /\ evs = <<one>> \o <<two>>
    BY <1>1, <1>2, <1>4, <1>5
  <2>2. /\ Len(<<one>>) = 1 /\ Len(<<two>>) = 1
        /\ <<one>>[1] = one /\ <<two>>[1] = two
    OBVIOUS
  <2>3. /\ evs \in Seq(Evt) /\ Len(evs) = 2
        /\ \A i \in 1 .. 2 : evs[i] = IF i <= 1 THEN <<one>>[i] ELSE <<two>>[i - 1]
    BY <2>1, <2>2, ConcatProperties
  <2>4. evs[1] = one /\ evs[2] = two
    BY <2>2, <2>3
  <2>5. \A j \in 1 .. Len(evs) : evs[j].target = target
    <3>1. \A j \in 1 .. 2 : j = 1 \/ j = 2
      OBVIOUS
    <3> QED BY <1>3, <2>3, <2>4, <3>1
  <2> QED BY <1>5, <2>3, <2>4, <2>5 DEF one, two, AnnouncedAs
<1>6. CASE e.to \notin Terminal
  <2>1. evs = <<one>>
    BY <1>4, <1>6
  <2> QED BY <1>1, <1>3, <1>6, <2>1 DEF one, two, AnnouncedAs
<1> QED BY <1>5, <1>6

\* A list of one event.
LEMMA SingleEvent ==
  ASSUME NEW e \in Evt
  PROVE  <<e>> \in Seq(Evt) /\ Len(<<e>>) = 1 /\ <<e>>[1] = e
OBVIOUS

\* Deliveries that are left over, and those that come before them.
LEMMA Agendas ==
  ASSUME NEW S, NEW s \in Seq(S), s # <<>>, NEW t \in Seq(S)
  PROVE  /\ Head(s) \in S /\ Tail(s) \in Seq(S) /\ t \o Tail(s) \in Seq(S)
         /\ Len(s) >= 1 /\ Head(s) = s[1]
OBVIOUS

-----------------------------------------------------------------------------
(* The kinds of steps.                                                     *)

\* A world in which whoever is registered is somewhere and whole, and every item
\* is accounted for.
Whole(v, ex, hs) ==
  /\ v \in World /\ Housed(v, ex)
  /\ \A a \in ex : Sound(v, a)
  /\ \A i \in Item \ hs : Accounted(v, ex, i)

LEMMA WholeIs ==
  ASSUME TypeOK
  PROVE  Everyone /\ ItemsAccounted /\ BodiesConsistent <=> Whole(w, exists, haunted)
BY DEF TypeOK, Everyone, ItemsAccounted, BodiesConsistent, Whole, Housed, Sound, Accounted

\* An execution of action k of the actor a: either nothing of it remains, or its
\* events are logged and to be delivered.
Acted(k, a) ==
  /\ Whole(w', exists, haunted') /\ Untold(w, w') /\ haunted' \subseteq Item
  /\ \/ log' = log /\ agenda' = agenda
     \/ \E evs \in Seq(Told) :
          /\ log' = log \o Logged(evs, ByAction(k)) /\ agenda' = Publish(evs, Len(log))
          /\ a \notin exists => AtSelf(a, evs)

LEMMA FailsDoes ==
  ASSUME TypeOK, Whole(w, exists, haunted), NEW x \in Actions, NEW k, Fails(k, x)
  PROVE  Acted(k, x.actor)
<1> DEFINE e == Event("action.failed", x.actor, x.verb)
<1>1. x.actor \in Actor /\ x.verb \in What
  BY ActionTypes DEF What
<1>2. e \in Told /\ e.target = x.actor
  BY <1>1 DEF Told, Event
<1> HIDE DEF e
<1>3. <<e>> \in Seq(Told) /\ AtSelf(x.actor, <<e>>)
  BY <1>2 DEF AtSelf
<1>4. /\ log' = log \o Logged(<<e>>, ByAction(k)) /\ agenda' = Publish(<<e>>, Len(log))
      /\ w' = w /\ haunted' = haunted
  BY DEF Fails, Emits, e
<1>5. Untold(w, w') /\ haunted' \subseteq Item /\ Whole(w', exists, haunted')
  BY <1>4 DEF Untold, TypeOK
<1> QED BY <1>3, <1>4, <1>5 DEF Acted

LEMMA RaisesDoes ==
  ASSUME TypeOK, Whole(w, exists, haunted), NEW a, NEW k, Raises
  PROVE  Acted(k, a)
BY DEF Raises, Acted, Untold, TypeOK, Whole

LEMMA ExecutesDoes ==
  ASSUME TypeOK, Whole(w, exists, haunted), NEW x \in Actions, NEW k, Executes(k, x)
  PROVE  Acted(k, x.actor)
<1>1. CASE Completes(k, x)
  <2>1. PICK o \in Evaluate(w, exists, x) :
          /\ w' = o.world /\ Emits(k, o.events)
          /\ haunted' = IF x.actor \notin exists /\ x.on \in Item
                        THEN haunted \cup {x.on} ELSE haunted
    BY <1>1 DEF Completes
  <2>2. w \in World /\ exists \in SUBSET Actor /\ haunted \subseteq Item
    BY DEF TypeOK
  <2>3. Result(w, exists, x, o)
    BY <2>2, EvaluateDoes DEF Whole
  <2>4. o.events \in Seq(Told)
    BY <2>3, PlainIsTold, SeqMonotonic DEF Result
  <2>5. haunted' \subseteq Item
    BY <2>1, <2>2
  <2>6. \A i \in Item \ haunted' : Accounted(w', exists, i)
    BY <2>1, <2>3 DEF Result, Whole
  <2>7. Whole(w', exists, haunted') /\ Untold(w, w')
    BY <2>1, <2>3, <2>6 DEF Result, Whole
  <2> QED BY <2>1, <2>3, <2>4, <2>5, <2>7 DEF Acted, Emits, Result
<1>2. CASE Fails(k, x)
  BY <1>2, FailsDoes
<1>3. CASE Raises
  BY <1>3, RaisesDoes
<1> QED BY <1>1, <1>2, <1>3 DEF Executes

LEMMA WholeStays ==
  ASSUME NEW v, NEW u \in World, SamePlaces(v, u), SameBodies(v, u),
         NEW ex, NEW hs, Whole(v, ex, hs)
  PROVE  Whole(u, ex, hs)
BY PlacesStay, BodiesStay DEF Whole

LEMMA SetFsm ==
  ASSUME NEW v \in World, NEW m \in Machine, NEW s \in State, NEW u, u = [v EXCEPT !.fsm[m] = s]
  PROVE  /\ u \in World /\ SamePlaces(v, u) /\ SameBodies(v, u)
         /\ u.fsm[m] = s /\ u.quest = v.quest /\ u.wallet = v.wallet
         /\ \A x \in Machine \ {m} : u.fsm[x] = v.fsm[x]
<1> DEFINE f == [v.fsm EXCEPT ![m] = s]
<1>1. f \in [Machine -> State] /\ f[m] = s /\ \A x \in Machine \ {m} : f[x] = v.fsm[x]
  BY Cells
<1>2. u = [v EXCEPT !.fsm = f]
  OBVIOUS
<1> HIDE DEF f
<1>3. u \in World /\ SamePlaces(v, u) /\ SameBodies(v, u) /\ u.fsm = f
      /\ u.quest = v.quest /\ u.wallet = v.wallet
  BY ZenonT(30), <1>1, <1>2 DEF World, SamePlaces, SameBodies
<1> QED BY <1>1, <1>3

LEMMA SetQuest ==
  ASSUME TypeOK, NEW a \in Actor, NEW q \in Quest, NEW s \in State, NEW coins \in Nat,
         NEW u, u = Rewarded(a, q, s, coins)
  PROVE  /\ u \in World /\ SamePlaces(w, u) /\ SameBodies(w, u)
         /\ u.quest[a][q] = s /\ u.fsm = w.fsm
         /\ \A b \in Actor, x \in Quest : <<b, x>> # <<a, q>> => u.quest[b][x] = w.quest[b][x]
         /\ u.wallet[a] = w.wallet[a] + coins /\ \A b \in Actor \ {a} : u.wallet[b] = w.wallet[b]
<1> DEFINE f == [w.quest EXCEPT ![a] = [w.quest[a] EXCEPT ![q] = s]]
           g == [w.wallet EXCEPT ![a] = w.wallet[a] + coins]
<1>0. w \in World
  BY DEF TypeOK
<1>1. f \in [Actor -> [Quest -> State]] /\ f[a][q] = s
  BY <1>0, Cells
<1>2. ASSUME NEW b \in Actor, NEW x \in Quest, <<b, x>> # <<a, q>>
      PROVE  f[b][x] = w.quest[b][x]
  <2>1. w.quest \in [Actor -> [Quest -> State]]
    BY <1>0, Cells
  <2>2. CASE b = a
    <3>1. x # q
      BY <1>2, <2>2
    <3>2. f[b] = [w.quest[a] EXCEPT ![q] = s]
      BY <2>1, <2>2
    <3> QED BY <2>1, <2>2, <3>1, <3>2
  <2>3. CASE b # a
    BY <2>1, <2>3
  <2> QED BY <2>2, <2>3
<1>3. /\ g \in [Actor -> Nat] /\ g[a] = w.wallet[a] + coins
      /\ \A b \in Actor \ {a} : g[b] = w.wallet[b]
  BY <1>0, Cells
<1>4. u = [w EXCEPT !.quest = f, !.wallet = g]
  BY DEF Rewarded
<1> HIDE DEF f, g
<1>5. /\ u \in World /\ SamePlaces(w, u) /\ SameBodies(w, u)
      /\ u.quest = f /\ u.wallet = g /\ u.fsm = w.fsm
  BY ZenonT(30), <1>0, <1>1, <1>3, <1>4 DEF World, SamePlaces, SameBodies
<1> QED BY <1>1, <1>2, <1>3, <1>5

\* A delivery to which nobody reacts, or whose reaction cannot be logged.
Quiet ==
  /\ agenda' \in {Tail(agenda), <<>>}
  /\ UNCHANGED <<w, exists, log, acts, later, created, haunted>>

\* A reaction to the event n.
Reacted(v, evs, n) ==
  /\ w' = v /\ log' = log \o Logged(evs, ByEvent(n))
  /\ agenda' = Publish(evs, Len(log)) \o Tail(agenda)
  /\ UNCHANGED <<exists, acts, later, created, haunted>>

MachineStep(m, e, n) ==
  /\ e \in Steps[m] /\ e.from = w.fsm[m] /\ e.from \in State /\ e.to \in State
  /\ Reacted([w EXCEPT !.fsm[m] = e.to], Announced("fsm", Owner[m], m, e), n)

QuestStep(a, q, e, n) ==
  /\ Transitions[q] # {} /\ e.from = w.quest[a][q] /\ e.from \in State /\ e.to \in State
  /\ e.from \notin Terminal /\ e.reward \in Nat /\ e \in Transitions[q]
  /\ Reacted(Rewarded(a, q, e.to, e.reward), Announced("quest", a, q, e), n)

LegacyStep(a, q, n) ==
  /\ Transitions[q] = {} /\ w.quest[a][q] = "available" /\ Legacy[q].reward \in Nat
  /\ Reacted(Rewarded(a, q, "completed", Legacy[q].reward), <<Event("quest.completed", a, q)>>, n)

\* In the cascade of event n, and up to it, a machine that p owns has reacted.
EngagedIn(l, p, n) ==
  \E i \in 1 .. n : RootIn(l, i) = RootIn(l, n) /\ l[i].type \in OfMachines /\ l[i].target = p

\* Only whoever began the cascade can be meant, as long as it exists; and else one
\* whose machine has reacted in it.
Meant(n, a) ==
  /\ a \in Player \cap exists
  /\ IF acts[RootIn(log, n)] \in exists THEN a = acts[RootIn(log, n)] ELSE EngagedIn(log, a, n)

LEMMA EngagedIs ==
  /\ \A p, n : Engaged(p, n) <=> EngagedIn(log, p, n)
  /\ \A p, n : Engaged(p, n)' <=> EngagedIn(log', p, n)
BY DEF Engaged, EngagedIn, Root, RootIn

\* It remains so as the log grows, for what follows in the same cascade.
LEMMA EngagedGrows ==
  ASSUME NEW l, NEW m, Len(l) \in Nat,
         \A i \in 1 .. Len(l) : m[i] = l[i] /\ RootIn(m, i) = RootIn(l, i),
         NEW n \in 1 .. Len(l), NEW k \in Nat, n <= k, RootIn(m, k) = RootIn(l, n),
         NEW p, EngagedIn(l, p, n)
  PROVE  EngagedIn(m, p, k)
<1>1. PICK i \in 1 .. n : RootIn(l, i) = RootIn(l, n) /\ l[i].type \in OfMachines /\ l[i].target = p
  BY DEF EngagedIn
<1>2. i \in 1 .. Len(l) /\ i \in 1 .. k
  OBVIOUS
<1> QED BY <1>1, <1>2 DEF EngagedIn

LEMMA WellLogged ==
  ASSUME TypeOK, Caused
  PROVE  /\ Len(log) \in Nat /\ Ordered(log) /\ exists \subseteq Actor /\ DOMAIN log = 1 .. Len(log)
         /\ \A i \in 1 .. Len(log) : log[i] \in Entry /\ log[i].cause.kind \in {"action", "event"}
         /\ \A n : Root(n) = RootIn(log, n)
<1>1. log \in Seq(Entry) /\ exists \subseteq Actor
  BY DEF TypeOK, Entry
<1>2. Len(log) \in Nat /\ DOMAIN log = 1 .. Len(log) /\ \A i \in 1 .. Len(log) : log[i] \in Entry
  BY <1>1
<1>3. \A i \in 1 .. Len(log) : log[i].cause.kind \in {"action", "event"}
  BY <1>2 DEF Entry
<1>4. Ordered(log)
  BY <1>2 DEF Caused, Ordered
<1>5. \A n : Root(n) = RootIn(log, n)
  BY DEF Root, RootIn
<1> QED BY <1>1, <1>2, <1>3, <1>4, <1>5

LEMMA MeantIs ==
  ASSUME TypeOK, Caused, Aimed, agenda # <<>>, NEW n, n = Head(agenda).event
  PROVE  /\ n \in 1 .. Len(log)
         /\ ActorOf(n) # None => Meant(n, ActorOf(n))
<1>1. 1 \in DOMAIN agenda /\ Head(agenda) = agenda[1]
  BY DEF TypeOK
<1>2. /\ n \in 1 .. Len(log)
      /\ \/ acts[RootIn(log, n)] \in exists
         \/ log[n].target \notin Player \cap exists
         \/ EngagedIn(log, log[n].target, n)
  BY <1>1, WellLogged, EngagedIs DEF Aimed
<1>3. ActorOf(n) = IF acts[RootIn(log, n)] \in exists THEN acts[RootIn(log, n)]
                   ELSE IF log[n].target \in exists \cap Player THEN log[n].target
                   ELSE None
  BY <1>2, WellLogged, ActorIs
<1>4. acts[RootIn(log, n)] \in Player
  <2>1. \A i \in 1 .. Len(log) : log[i].cause.kind # "event" => log[i].cause.n \in DOMAIN acts
    BY WellLogged DEF Caused
  <2>2. RootIn(log, n) \in DOMAIN acts
    BY <1>2, <2>1, WellLogged, RootIsAction
  <2> QED BY <2>2 DEF TypeOK
<1> QED BY <1>2, <1>3, <1>4 DEF Meant

\* Every delivery is one of these.
LEMMA DeliverDoes ==
  ASSUME TypeOK, Caused, Aimed, Deliver
  PROVE  \E n \in 1 .. Len(log) :
           /\ agenda # <<>> /\ n = Head(agenda).event
           /\ \/ Quiet
              \/ \E m \in Machine : \E e : MachineStep(m, e, n)
              \/ \E a, e : \E q \in Quest : Meant(n, a) /\ QuestStep(a, q, e, n)
              \/ \E a : \E q \in Quest : Meant(n, a) /\ LegacyStep(a, q, n)
<1> DEFINE x == Head(agenda).to
           n == Head(agenda).event
<1>1. /\ agenda # <<>> /\ x \in Machine \cup Quest
      /\ IF x \in Machine THEN MachineReacts(x, n) ELSE QuestReacts(x, n)
  <2>1. agenda # <<>> /\ agenda \in Seq([event : Nat, to : Machine \cup Quest])
    BY DEF Deliver, TypeOK
  <2>2. Head(agenda) \in [event : Nat, to : Machine \cup Quest]
    BY <2>1, HeadTailProperties
  <2> QED BY <2>1, <2>2 DEF Deliver
<1>2. n \in 1 .. Len(log) /\ (ActorOf(n) # None => Meant(n, ActorOf(n)))
  BY <1>1, MeantIs
<1>3. w \in World /\ exists \subseteq Actor
  BY DEF TypeOK
<1> HIDE DEF x, n
<1>4. \A v, evs : Commits(v, evs, n) => Reacted(v, evs, n) \/ Quiet
  BY DEF Commits, Unwinds, Reacted, Quiet
<1>5. Passes => Quiet
  BY DEF Passes, Quiet
<1>6. ASSUME x \in Machine
      PROVE  Quiet \/ \E m \in Machine : \E e : MachineStep(m, e, n)
  <2> DEFINE E == Triggered(Steps[x], w.fsm[x], log[n])
             e == Foremost(E)
  <2>1. MachineReacts(x, n)
    BY <1>1, <1>6
  <2>2. CASE E = {}
    BY <1>5, <2>1, <2>2 DEF MachineReacts
  <2>3. CASE E # {}
    <3>1. Commits([w EXCEPT !.fsm[x] = e.to], Announced("fsm", Owner[x], x, e), n)
      BY <2>1, <2>3 DEF MachineReacts
    <3>2. e \in Steps[x] /\ e.from = w.fsm[x] /\ e.to \in State
      BY <1>6, <2>3, StepIs
    <3>3. w.fsm[x] \in State
      BY <1>3, <1>6, Cells
    <3> HIDE DEF e
    <3> QED BY <1>4, <1>6, <3>1, <3>2, <3>3 DEF MachineStep
  <2> QED BY <2>2, <2>3
<1>7. ASSUME x \notin Machine
      PROVE  \/ Quiet
             \/ \E a, e : \E q \in Quest : Meant(n, a) /\ QuestStep(a, q, e, n)
             \/ \E a : \E q \in Quest : Meant(n, a) /\ LegacyStep(a, q, n)
  <2> DEFINE a == ActorOf(n)
  <2>1. QuestReacts(x, n) /\ x \in Quest
    BY <1>1, <1>7
  <2>2. CASE a = None
    BY <1>5, <2>1, <2>2 DEF QuestReacts
  <2>3. CASE a # None
    <3>1. Meant(n, a) /\ a \in Actor
      BY <1>2, <2>3 DEF Meant, Actor
    <3>2. CASE Transitions[x] # {}
      <4> DEFINE E == {e \in Triggered(Transitions[x], w.quest[a][x], log[n]) : Met(e.needs, a)}
                 e == Foremost(E)
      <4>1. Authored(a, x, n)
        BY <2>1, <2>3, <3>2 DEF QuestReacts
      <4>2. CASE E = {}
        BY <1>5, <4>1, <4>2 DEF Authored
      <4>3. CASE E # {}
        <5>1. Commits(Rewarded(a, x, e.to, e.reward), Announced("quest", a, x, e), n)
          BY <4>1, <4>3 DEF Authored
        <5>2. E \in SUBSET Transitions[x] /\ \A f \in E : f.from = w.quest[a][x]
          BY DEF Triggered
        <5> HIDE DEF E
        <5>3. e \in E /\ e \in Transitions[x] /\ e.to \in State /\ e.from \notin Terminal /\ e.reward \in Nat
          BY <2>1, <4>3, <5>2, AuthoredIs
        <5>4. w.quest[a][x] \in State
          BY <1>3, <2>1, <3>1, Cells
        <5> HIDE DEF e, a
        <5>5. Quiet \/ QuestStep(a, x, e, n)
          BY <1>4, <3>2, <5>1, <5>2, <5>3, <5>4 DEF QuestStep
        <5> QED BY <2>1, <3>1, <5>5
      <4> QED BY <4>2, <4>3
    <3>3. CASE Transitions[x] = {}
      <4>1. LegacyCompletes(a, x, n)
        BY <2>1, <2>3, <3>3 DEF QuestReacts
      <4>2. Legacy[x].reward \in Nat
        BY <2>1, <3>3, AuthoringAssumption DEF QuestOK, RewardOK
      <4> HIDE DEF a
      <4>3. CASE ~LegacyOpen(a, x)
        BY <1>5, <4>1, <4>3 DEF LegacyCompletes
      <4>4. CASE LegacyOpen(a, x)
        <5>1. w.quest[a][x] = "available"
          BY <4>4 DEF LegacyOpen
        <5>2. Commits(Rewarded(a, x, "completed", Legacy[x].reward),
                      <<Event("quest.completed", a, x)>>, n)
          BY <4>1, <4>4 DEF LegacyCompletes
        <5>3. Quiet \/ LegacyStep(a, x, n)
          BY <1>4, <3>3, <4>2, <5>1, <5>2 DEF LegacyStep
        <5> QED BY <2>1, <3>1, <5>3
      <4> QED BY <4>3, <4>4
    <3> QED BY <3>2, <3>3
  <2> QED BY <2>2, <2>3
<1> QED BY <1>1, <1>2, <1>6, <1>7 DEF n

-----------------------------------------------------------------------------
(* Histories of one machine or one quest, and when a player was created.   *)

OneChain(l, kind, target, x, since, first, last) ==
  ChainIn(l, ChangesIn(l, kind, target, x, since), first, last)

LEMMA ChainKept ==
  ASSUME NEW l, NEW m, NEW evs, NEW cause, Grown(l, m, evs, cause),
         NEW kind, NEW target, NEW x, NEW since \in Nat, NEW first, NEW last,
         \A j \in 1 .. Len(evs) : ~IsChange(evs[j], kind, target, x),
         OneChain(l, kind, target, x, since, first, last)
  PROVE  OneChain(m, kind, target, x, since, first, last)
<1> DEFINE C == ChangesIn(l, kind, target, x, since)
<1>1. ChangesIn(m, kind, target, x, since) = C
  BY NoChange
<1>2. C \subseteq 1 .. Len(l)
  BY DEF ChangesIn
<1>3. /\ Len(l) \in Nat /\ Len(m) \in Nat /\ Len(l) <= Len(m)
      /\ \A i \in 1 .. Len(l) : m[i] = l[i]
  BY DEF Grown
<1>4. ChainIn(l, C, first, last)
  BY DEF OneChain
<1> HIDE DEF C
<1>5. ChainIn(m, C, first, last)
  BY <1>2, <1>3, <1>4, ChainStays
<1> QED BY <1>1, <1>5 DEF OneChain

LEMMA ChainMoved ==
  ASSUME NEW l, NEW m, NEW evs, NEW cause, Grown(l, m, evs, cause),
         NEW kind, NEW target, NEW x, NEW since \in Nat, since <= Len(l), NEW first, NEW last,
         Len(evs) >= 1, IsChange(evs[1], kind, target, x), evs[1].what[2] = last,
         \A j \in 2 .. Len(evs) : ~IsChange(evs[j], kind, target, x),
         OneChain(l, kind, target, x, since, first, last)
  PROVE  OneChain(m, kind, target, x, since, first, evs[1].what[3])
<1> DEFINE C == ChangesIn(l, kind, target, x, since)
<1>1. ChangesIn(m, kind, target, x, since) = C \cup {Len(l) + 1}
  BY OneChange
<1>2. C \subseteq 1 .. Len(l)
  BY DEF ChangesIn
<1>3. /\ Len(l) \in Nat /\ Len(m) \in Nat /\ Len(l) + 1 <= Len(m)
      /\ \A i \in 1 .. Len(l) : m[i] = l[i]
  BY DEF Grown
<1>4. ChainIn(l, C, first, last)
  BY DEF OneChain
<1>5. m[Len(l) + 1].what = evs[1].what
  <2>1. 1 \in 1 .. Len(evs)
    BY DEF Grown
  <2> QED BY <2>1 DEF Grown
<1> HIDE DEF C
<1>6. ChainIn(m, C \cup {Len(l) + 1}, first, m[Len(l) + 1].what[3])
  BY <1>2, <1>3, <1>4, <1>5, ChainGrows
<1> QED BY <1>1, <1>5, <1>6 DEF OneChain

HappenedIn(l, type, target, what, since) ==
  {i \in since + 1 .. Len(l) : l[i].type = type /\ l[i].target = target /\ l[i].what = what}

LEMMA NotAgain ==
  ASSUME NEW l, NEW m, NEW evs, NEW cause, Grown(l, m, evs, cause),
         NEW type, NEW target, NEW what, NEW since \in Nat,
         \A j \in 1 .. Len(evs) : ~(evs[j].type = type /\ evs[j].target = target /\ evs[j].what = what)
  PROVE  HappenedIn(m, type, target, what, since) = HappenedIn(l, type, target, what, since)
<1>1. ASSUME NEW i \in 1 .. Len(m), i \notin 1 .. Len(l)
      PROVE  ~(m[i].type = type /\ m[i].target = target /\ m[i].what = what)
  <2> DEFINE j == i - Len(l)
  <2>1. j \in 1 .. Len(evs) /\ i = Len(l) + j
    BY <1>1 DEF Grown
  <2> HIDE DEF j
  <2> QED BY <2>1 DEF Grown
<1>2. \A i \in 1 .. Len(l) : m[i] = l[i] /\ i \in 1 .. Len(m)
  BY DEF Grown
<1>3. Len(l) \in Nat /\ Len(m) \in Nat
  BY DEF Grown
<1> QED BY <1>1, <1>2, <1>3 DEF HappenedIn

LEMMA OnceMore ==
  ASSUME NEW l, NEW m, NEW evs, NEW cause, Grown(l, m, evs, cause),
         NEW type, NEW target, NEW what, NEW since \in Nat, since <= Len(l),
         NEW k \in 1 .. Len(evs), evs[k].type = type, evs[k].target = target, evs[k].what = what,
         \A j \in 1 .. Len(evs) :
           j # k => ~(evs[j].type = type /\ evs[j].target = target /\ evs[j].what = what)
  PROVE  HappenedIn(m, type, target, what, since)
           = HappenedIn(l, type, target, what, since) \cup {Len(l) + k}
<1>0. /\ Len(l) \in Nat /\ Len(evs) \in Nat /\ Len(m) = Len(l) + Len(evs) /\ Len(m) \in Nat
  BY DEF Grown
<1>1. ASSUME NEW i \in 1 .. Len(m), i \notin 1 .. Len(l), i # Len(l) + k
      PROVE  ~(m[i].type = type /\ m[i].target = target /\ m[i].what = what)
  <2> DEFINE j == i - Len(l)
  <2>1. j \in 1 .. Len(evs) /\ i = Len(l) + j /\ j # k
    BY <1>0, <1>1
  <2> HIDE DEF j
  <2> QED BY ZenonT(30), <2>1 DEF Grown
<1>2. \A i \in 1 .. Len(l) : m[i] = l[i] /\ i \in 1 .. Len(m)
  BY DEF Grown
<1>3. Len(l) + k \in since + 1 .. Len(m)
  BY <1>0
<1>4. m[Len(l) + k].type = type /\ m[Len(l) + k].target = target /\ m[Len(l) + k].what = what
  BY DEF Grown
<1> QED BY <1>0, <1>1, <1>2, <1>3, <1>4 DEF HappenedIn

\* What is remembered of a player who is created.
Creation == [who : Player, old : Player \cup {None}, at : Nat]

\* The last date of the creations with the numbers in J.
LastAt(c, J) == Max({0} \cup {c[i].at : i \in J})

\* Born and Renewed, of any history.
BornIn(c, p)    == LastAt(c, {j \in DOMAIN c : c[j].who = p})
RenewedIn(c, m) == LastAt(c, {j \in DOMAIN c : m \in Owned(c[j].old)})

LEMMA LastBounded ==
  ASSUME NEW c, NEW n \in Nat, \A i \in DOMAIN c : c[i].at \in 0 .. n, NEW J \in SUBSET DOMAIN c
  PROVE  LastAt(c, J) \in 0 .. n
<1> DEFINE S == {0} \cup {c[i].at : i \in J}
<1>1. S # {} /\ S \subseteq 0 .. n
  OBVIOUS
<1>2. LastAt(c, J) = Max(S)
  BY DEF LastAt
<1> HIDE DEF S
<1> QED BY <1>1, <1>2, Greatest

LEMMA BornBounded ==
  ASSUME NEW c, NEW n \in Nat, \A i \in DOMAIN c : c[i].at \in 0 .. n
  PROVE  (\A p : BornIn(c, p) \in 0 .. n) /\ \A m : RenewedIn(c, m) \in 0 .. n
<1>1. ASSUME NEW p PROVE BornIn(c, p) \in 0 .. n
  <2> DEFINE J == {j \in DOMAIN c : c[j].who = p}
  <2>1. J \in SUBSET DOMAIN c
    OBVIOUS
  <2> HIDE DEF J
  <2>2. LastAt(c, J) \in 0 .. n
    BY <2>1, LastBounded
  <2> QED BY <2>2 DEF BornIn, J
<1>2. ASSUME NEW m PROVE RenewedIn(c, m) \in 0 .. n
  <2> DEFINE J == {j \in DOMAIN c : m \in Owned(c[j].old)}
  <2>1. J \in SUBSET DOMAIN c
    OBVIOUS
  <2> HIDE DEF J
  <2>2. LastAt(c, J) \in 0 .. n
    BY <2>1, LastBounded
  <2> QED BY <2>2 DEF RenewedIn, J
<1> QED BY <1>1, <1>2

\* p is the last to be created, in the place of old, when the log has n events.
Newborn(c, d, p, old, n) ==
  /\ c \in Seq(Creation) /\ n \in Nat /\ \A i \in DOMAIN c : c[i].at \in 0 .. n
  /\ p \in Player /\ old \in Player \cup {None}
  /\ d = Append(c, [who |-> p, old |-> old, at |-> n])

LEMMA NewbornIs ==
  ASSUME NEW c, NEW d, NEW p, NEW old, NEW n, Newborn(c, d, p, old, n)
  PROVE  /\ d \in Seq(Creation) /\ n \in Nat
         /\ DOMAIN d = 1 .. Len(c) + 1 /\ DOMAIN c = 1 .. Len(c) /\ Len(c) \in Nat
         /\ \A i \in DOMAIN c : d[i] = c[i]
         /\ \A i \in DOMAIN c : i \in DOMAIN d
         /\ d[Len(c) + 1] = [who |-> p, old |-> old, at |-> n]
         /\ \A i \in DOMAIN d : i = Len(c) + 1 \/ i \in DOMAIN c
         /\ \A i \in DOMAIN d : d[i].at \in 0 .. n
<1> DEFINE r == [who |-> p, old |-> old, at |-> n]
<1>1. /\ c \in Seq(Creation) /\ n \in Nat /\ \A i \in DOMAIN c : c[i].at \in 0 .. n
      /\ d = Append(c, r) /\ r \in Creation /\ r.at = n
  BY DEF Newborn, Creation
<1>2. r = [who |-> p, old |-> old, at |-> n]
  OBVIOUS
<1> HIDE DEF r
<1>3. /\ d \in Seq(Creation) /\ DOMAIN d = 1 .. Len(c) + 1 /\ DOMAIN c = 1 .. Len(c) /\ Len(c) \in Nat
      /\ \A i \in 1 .. Len(c) : d[i] = c[i]
      /\ d[Len(c) + 1] = r
  BY <1>1, AppendProperties, LenProperties
<1>4. \A i \in 1 .. Len(c) + 1 : i = Len(c) + 1 \/ i \in 1 .. Len(c)
  BY <1>3
<1>5. \A i \in 1 .. Len(c) : i \in 1 .. Len(c) + 1
  BY <1>3
<1>6. \A i \in DOMAIN d : d[i].at \in 0 .. n
  BY <1>1, <1>3, <1>4
<1> QED BY <1>1, <1>2, <1>3, <1>4, <1>5, <1>6

\* The last date is now if the new creation counts, and else what it was.
LEMMA LastAppended ==
  ASSUME NEW c, NEW d, NEW p, NEW old, NEW n, Newborn(c, d, p, old, n),
         NEW J \in SUBSET DOMAIN c, NEW K \in SUBSET DOMAIN d, J = K \ {Len(c) + 1}
  PROVE  LastAt(d, K) = IF Len(c) + 1 \in K THEN n ELSE LastAt(c, J)
<1>1. /\ n \in Nat /\ \A i \in DOMAIN c : d[i] = c[i]
      /\ d[Len(c) + 1].at = n /\ \A i \in DOMAIN d : d[i].at \in 0 .. n
  <2>1. /\ n \in Nat /\ \A i \in DOMAIN c : d[i] = c[i]
        /\ d[Len(c) + 1] = [who |-> p, old |-> old, at |-> n]
        /\ \A i \in DOMAIN d : d[i].at \in 0 .. n
    BY NewbornIs
  <2> QED BY <2>1
<1>2. CASE Len(c) + 1 \in K
  <2> DEFINE S == {0} \cup {d[i].at : i \in K}
  <2>1. n \in S /\ S \subseteq 0 .. n
    <3>1. \A i \in K : d[i].at \in 0 .. n
      BY <1>1
    <3> QED BY <1>1, <1>2, <3>1
  <2>2. LastAt(d, K) = Max(S)
    BY DEF LastAt
  <2> HIDE DEF S
  <2>3. Max(S) \in S /\ \A i \in S : Max(S) >= i
    BY <1>1, <2>1, Greatest
  <2>4. Max(S) \in 0 .. n /\ Max(S) >= n
    BY <1>1, <2>1, <2>3
  <2> QED BY <1>1, <1>2, <2>2, <2>4
<1>3. CASE Len(c) + 1 \notin K
  <2>1. K = J
    BY <1>3
  <2>2. {d[i].at : i \in J} = {c[i].at : i \in J}
    BY <1>1
  <2> QED BY <1>3, <2>1, <2>2 DEF LastAt
<1> QED BY <1>2, <1>3

LEMMA BornAppended ==
  ASSUME NEW c, NEW d, NEW p, NEW old, NEW n, Newborn(c, d, p, old, n)
  PROVE  /\ BornIn(d, p) = n
         /\ \A b \in Player \ {p} : BornIn(d, b) = BornIn(c, b)
         /\ \A m : RenewedIn(d, m) = IF m \in Owned(old) THEN n ELSE RenewedIn(c, m)
<1>1. /\ DOMAIN d = 1 .. Len(c) + 1 /\ DOMAIN c = 1 .. Len(c) /\ Len(c) \in Nat
      /\ \A i \in DOMAIN c : d[i] = c[i] /\ i \in DOMAIN d
      /\ d[Len(c) + 1] = [who |-> p, old |-> old, at |-> n]
      /\ \A i \in DOMAIN d : i = Len(c) + 1 \/ i \in DOMAIN c
  BY NewbornIs
<1>2. Len(c) + 1 \in DOMAIN d /\ Len(c) + 1 \notin DOMAIN c
  BY <1>1
<1>3. ASSUME NEW b PROVE BornIn(d, b) = IF b = p THEN n ELSE BornIn(c, b)
  <2> DEFINE J == {j \in DOMAIN c : c[j].who = b}
             K == {j \in DOMAIN d : d[j].who = b}
  <2>1. J \in SUBSET DOMAIN c /\ K \in SUBSET DOMAIN d /\ (Len(c) + 1 \in K <=> b = p)
    BY <1>1, <1>2
  <2>2. J = K \ {Len(c) + 1}
    BY <1>1, <1>2
  <2>3. BornIn(c, b) = LastAt(c, J) /\ BornIn(d, b) = LastAt(d, K)
    BY DEF BornIn
  <2> HIDE DEF J, K
  <2> QED BY <2>1, <2>2, <2>3, LastAppended
<1>4. ASSUME NEW m PROVE RenewedIn(d, m) = IF m \in Owned(old) THEN n ELSE RenewedIn(c, m)
  <2> DEFINE J == {j \in DOMAIN c : m \in Owned(c[j].old)}
             K == {j \in DOMAIN d : m \in Owned(d[j].old)}
  <2>1. J \in SUBSET DOMAIN c /\ K \in SUBSET DOMAIN d /\ (Len(c) + 1 \in K <=> m \in Owned(old))
    BY <1>1, <1>2
  <2>2. J = K \ {Len(c) + 1}
    BY <1>1, <1>2
  <2>3. RenewedIn(c, m) = LastAt(c, J) /\ RenewedIn(d, m) = LastAt(d, K)
    BY DEF RenewedIn
  <2> HIDE DEF J, K
  <2> QED BY <2>1, <2>2, <2>3, LastAppended
<1> QED BY <1>3, <1>4

\* In the state and in the next one.
LEMMA Histories ==
  /\ \A p : Born(p) = BornIn(created, p)
  /\ \A p : Born(p)' = BornIn(created', p)
  /\ \A m : Renewed(m) = RenewedIn(created, m)
  /\ \A m : Renewed(m)' = RenewedIn(created', m)
  /\ TransitionsChain <=>
       /\ \A m \in Machine : OneChain(log, "fsm", Owner[m], m, RenewedIn(created, m), Start[m], w.fsm[m])
       /\ \A p \in Player \cap exists : \A q \in Quest :
            Transitions[q] # {} =>
              OneChain(log, "quest", p, q, BornIn(created, p), Start[q], w.quest[p][q])
  /\ TransitionsChain' <=>
       /\ \A m \in Machine : OneChain(log', "fsm", Owner[m], m, RenewedIn(created', m), Start[m], w'.fsm[m])
       /\ \A p \in Player \cap exists' : \A q \in Quest :
            Transitions[q] # {} =>
              OneChain(log', "quest", p, q, BornIn(created', p), Start[q], w'.quest[p][q])
  /\ CompletedOnce <=>
       \A p \in Player \cap exists : \A q \in Quest :
         Cardinality(HappenedIn(log, "quest.completed", p, q, BornIn(created, p)))
           = IF w.quest[p][q] = "completed" /\ Start[q] # "completed" THEN 1 ELSE 0
  /\ CompletedOnce' <=>
       \A p \in Player \cap exists' : \A q \in Quest :
         Cardinality(HappenedIn(log', "quest.completed", p, q, BornIn(created', p)))
           = IF w'.quest[p][q] = "completed" /\ Start[q] # "completed" THEN 1 ELSE 0
<1>1. /\ \A p : Born(p) = BornIn(created, p)
      /\ \A m : Renewed(m) = RenewedIn(created, m)
  BY DEF Born, BornIn, Renewed, RenewedIn, LastAt
<1>2. /\ \A p : Born(p)' = BornIn(created', p)
      /\ \A m : Renewed(m)' = RenewedIn(created', m)
  BY DEF Born, BornIn, Renewed, RenewedIn, LastAt
<1>3. TransitionsChain <=>
       /\ \A m \in Machine : OneChain(log, "fsm", Owner[m], m, RenewedIn(created, m), Start[m], w.fsm[m])
       /\ \A p \in Player \cap exists : \A q \in Quest :
            Transitions[q] # {} =>
              OneChain(log, "quest", p, q, BornIn(created, p), Start[q], w.quest[p][q])
  BY DEF TransitionsChain, Chained, Changes, StateAt, OneChain, ChainIn, ChangesIn, StateIn, IsChange,
         Born, BornIn, Renewed, RenewedIn, LastAt
<1>4. TransitionsChain' <=>
       /\ \A m \in Machine : OneChain(log', "fsm", Owner[m], m, RenewedIn(created', m), Start[m], w'.fsm[m])
       /\ \A p \in Player \cap exists' : \A q \in Quest :
            Transitions[q] # {} =>
              OneChain(log', "quest", p, q, BornIn(created', p), Start[q], w'.quest[p][q])
  BY DEF TransitionsChain, Chained, Changes, StateAt, OneChain, ChainIn, ChangesIn, StateIn, IsChange,
         Born, BornIn, Renewed, RenewedIn, LastAt
<1>5. CompletedOnce <=>
       \A p \in Player \cap exists : \A q \in Quest :
         Cardinality(HappenedIn(log, "quest.completed", p, q, BornIn(created, p)))
           = IF w.quest[p][q] = "completed" /\ Start[q] # "completed" THEN 1 ELSE 0
  BY <1>1 DEF CompletedOnce, Happened, HappenedIn, Completed
<1>6. CompletedOnce' <=>
       \A p \in Player \cap exists' : \A q \in Quest :
         Cardinality(HappenedIn(log', "quest.completed", p, q, BornIn(created', p)))
           = IF w'.quest[p][q] = "completed" /\ Start[q] # "completed" THEN 1 ELSE 0
  BY <1>2 DEF CompletedOnce, Happened, HappenedIn, Completed
<1> QED BY <1>1, <1>2, <1>3, <1>4, <1>5, <1>6

-----------------------------------------------------------------------------
(* Actions that are submitted, scheduled or due.                           *)

Ongoing ==
  /\ acts' \in Seq(Player) /\ Len(acts) <= Len(acts') /\ \A i \in 1 .. Len(acts) : acts'[i] = acts[i]
  /\ later' \in Seq([n : Nat, action : Actions]) /\ Mindful'
  /\ agenda = <<>> /\ UNCHANGED <<exists, created>>

Waiting == Ongoing /\ UNCHANGED <<w, log, agenda, haunted>>

Acting(k, a) == Ongoing /\ k \in 1 .. Len(acts') /\ acts'[k] = a /\ Acted(k, a)

LEMMA Submitting ==
  ASSUME TypeOK, Mindful, NEW x \in Actions, acts' = Append(acts, x.actor)
  PROVE  /\ acts' \in Seq(Player) /\ Len(acts') = Len(acts) + 1 /\ Len(acts) \in Nat
         /\ \A i \in 1 .. Len(acts) : acts'[i] = acts[i]
         /\ acts'[Len(acts) + 1] = x.actor
         /\ \A i \in DOMAIN later : /\ later[i].n \in 1 .. Len(acts')
                                    /\ later[i].action.actor = acts'[later[i].n]
<1>1. x.actor \in Player /\ acts \in Seq(Player)
  BY ActionTypes DEF TypeOK
<1>2. /\ acts' \in Seq(Player) /\ Len(acts') = Len(acts) + 1 /\ Len(acts) \in Nat
      /\ \A i \in 1 .. Len(acts) : acts'[i] = acts[i]
      /\ acts'[Len(acts) + 1] = x.actor
  BY <1>1, AppendProperties, LenProperties
<1>3. ASSUME NEW i \in DOMAIN later
      PROVE  later[i].n \in 1 .. Len(acts') /\ later[i].action.actor = acts'[later[i].n]
  <2>1. later[i].n \in 1 .. Len(acts) /\ later[i].action.actor = acts[later[i].n]
    BY <1>1 DEF Mindful
  <2> QED BY <1>2, <2>1
<1> QED BY <1>2, <1>3

LEMMA ActsDo ==
  ASSUME TypeOK, Mindful, Whole(w, exists, haunted), Submission \/ Fire
  PROVE  Waiting \/ \E k, a : Acting(k, a)
<1>1. ASSUME NEW x \in Submitted, Submit(x) PROVE \E k, a : Acting(k, a)
  <2>1. x \in Actions /\ acts' = Append(acts, x.actor)
    BY <1>1, PackageAssumption DEF Submit
  <2>2. /\ agenda = <<>> /\ UNCHANGED <<exists, later, created>>
        /\ \/ Executes(Len(acts) + 1, x) \/ Fails(Len(acts) + 1, x) \/ Raises
    BY <1>1 DEF Submit, Idle
  <2>3. Acted(Len(acts) + 1, x.actor)
    BY <2>1, <2>2, ExecutesDoes, FailsDoes, RaisesDoes
  <2>4. /\ acts' \in Seq(Player) /\ Len(acts') = Len(acts) + 1 /\ Len(acts) \in Nat
        /\ \A i \in 1 .. Len(acts) : acts'[i] = acts[i]
        /\ acts'[Len(acts) + 1] = x.actor
        /\ \A i \in DOMAIN later : /\ later[i].n \in 1 .. Len(acts')
                                   /\ later[i].action.actor = acts'[later[i].n]
    BY <2>1, Submitting
  <2>5. Mindful'
    BY <2>2, <2>4 DEF Mindful
  <2>6. Ongoing
    BY <2>2, <2>4, <2>5 DEF Ongoing, TypeOK
  <2> QED BY <2>3, <2>4, <2>6 DEF Acting
<1>2. ASSUME NEW x \in Submitted, Schedule(x) PROVE Waiting
  <2>1. x \in Actions /\ acts' = Append(acts, x.actor)
    BY <1>2, PackageAssumption DEF Schedule
  <2>2. /\ agenda = <<>> /\ UNCHANGED <<w, exists, log, agenda, created, haunted>>
        /\ later' = Append(later, [n |-> Len(acts) + 1, action |-> x])
    BY <1>2 DEF Schedule, Idle
  <2>3. /\ acts' \in Seq(Player) /\ Len(acts') = Len(acts) + 1 /\ Len(acts) \in Nat
        /\ \A i \in 1 .. Len(acts) : acts'[i] = acts[i]
        /\ acts'[Len(acts) + 1] = x.actor
        /\ \A i \in DOMAIN later : /\ later[i].n \in 1 .. Len(acts')
                                   /\ later[i].action.actor = acts'[later[i].n]
    BY <2>1, Submitting
  <2> DEFINE r == [n |-> Len(acts) + 1, action |-> x]
  <2>4. r \in [n : Nat, action : Actions] /\ later \in Seq([n : Nat, action : Actions])
    BY <2>1, <2>3 DEF TypeOK
  <2>5. r.n = Len(acts) + 1 /\ r.action.actor = x.actor /\ later' = Append(later, r)
    BY <2>2
  <2> HIDE DEF r
  <2>6. /\ later' \in Seq([n : Nat, action : Actions]) /\ DOMAIN later' = 1 .. Len(later) + 1
        /\ DOMAIN later = 1 .. Len(later) /\ Len(later) \in Nat
        /\ \A i \in 1 .. Len(later) : later'[i] = later[i]
        /\ later'[Len(later) + 1] = r
    BY <2>4, <2>5, AppendProperties, LenProperties
  <2>7. \A i \in 1 .. Len(later) + 1 : i \in 1 .. Len(later) \/ i = Len(later) + 1
    BY <2>6
  <2>8. ASSUME NEW i \in DOMAIN later'
        PROVE  later'[i].n \in DOMAIN acts' /\ later'[i].action.actor = acts'[later'[i].n]
    <3>1. DOMAIN acts' = 1 .. Len(acts') /\ Len(acts) + 1 \in 1 .. Len(acts')
      BY <2>3
    <3>2. CASE i \in 1 .. Len(later)
      BY <2>3, <2>6, <3>1, <3>2
    <3>3. CASE i = Len(later) + 1
      BY <2>3, <2>5, <2>6, <3>1, <3>3
    <3> QED BY <2>6, <2>7, <3>2, <3>3
  <2>9. Mindful'
    BY <2>8 DEF Mindful
  <2> QED BY <2>2, <2>3, <2>6, <2>9 DEF Waiting, Ongoing
<1>3. ASSUME Fire PROVE \E k, a : Acting(k, a)
  <2> DEFINE k == Head(later).n
             x == Head(later).action
  <2>1. /\ agenda = <<>> /\ later # <<>> /\ later' = Tail(later) /\ Executes(k, x)
        /\ UNCHANGED <<exists, acts, created>>
    BY <1>3 DEF Fire, Idle
  <2>2. /\ later \in Seq([n : Nat, action : Actions]) /\ acts \in Seq(Player)
    BY DEF TypeOK
  <2>3. /\ Head(later) \in [n : Nat, action : Actions] /\ Tail(later) \in Seq([n : Nat, action : Actions])
        /\ Len(Tail(later)) = Len(later) - 1
        /\ \A i \in 1 .. Len(Tail(later)) : Tail(later)[i] = later[i + 1]
        /\ Head(later) = later[1] /\ 1 \in DOMAIN later
    <3>1. Head(later) = later[1] /\ 1 \in DOMAIN later
      BY <2>1, <2>2
    <3> QED BY <2>1, <2>2, <3>1, HeadTailProperties
  <2>4. x \in Actions /\ k \in DOMAIN acts /\ x.actor = acts[k]
    BY <2>3 DEF Mindful
  <2>5. Acted(k, x.actor)
    <3> HIDE DEF k, x
    <3> QED BY <2>1, <2>4, ExecutesDoes
  <2>6. /\ DOMAIN later' = 1 .. Len(later) - 1 /\ DOMAIN later = 1 .. Len(later) /\ Len(later) \in Nat
        /\ DOMAIN acts = 1 .. Len(acts) /\ Len(acts) \in Nat
    BY <2>1, <2>2, <2>3, LenProperties
  <2>7. ASSUME NEW i \in DOMAIN later'
        PROVE  later'[i].n \in DOMAIN acts' /\ later'[i].action.actor = acts'[later'[i].n]
    <3>1. later'[i] = later[i + 1] /\ i + 1 \in DOMAIN later
      BY <2>1, <2>3, <2>6
    <3> QED BY <2>1, <3>1 DEF Mindful
  <2>8. Mindful'
    BY <2>7 DEF Mindful
  <2>9. Ongoing
    BY <2>1, <2>2, <2>3, <2>6, <2>8 DEF Ongoing
  <2> HIDE DEF k, x
  <2>10. Acting(k, x.actor)
    BY <2>1, <2>4, <2>5, <2>6, <2>9 DEF Acting
  <2> QED BY <2>10
<1> QED BY <1>1, <1>2, <1>3 DEF Submission

-----------------------------------------------------------------------------
(* A player who is created.                                                *)

LEMMA SeededIs ==
  ASSUME TypeOK, NEW p \in Player, NEW old \in (Player \cap exists) \cup {None},
         NEW u, u = Seeded(p, old)
  PROVE  /\ u \in World
         /\ \A m \in Machine : u.fsm[m] = IF m \in Owned(old) THEN Start[m] ELSE w.fsm[m]
         /\ \A x \in Thing : u.room[x] = IF x = p THEN Spawn ELSE IF x = old THEN None ELSE w.room[x]
         /\ \A i \in Item : u.carrier[i] = IF w.carrier[i] # None /\ w.carrier[i] \in {old, p}
                                           THEN p ELSE w.carrier[i]
         /\ u.quest[p] = [q \in Quest |-> Start[q]] /\ u.wallet[p] = 0
         /\ Sound(u, p)
         /\ \A a \in Actor \ {p} : /\ u.quest[a] = w.quest[a] /\ u.wallet[a] = w.wallet[a]
                                   /\ Sound(w, a) => Sound(u, a)
<1> DEFINE room == [x \in Thing |-> IF x = p THEN Spawn ELSE IF x = old THEN None ELSE w.room[x]]
           health == [w.health EXCEPT ![p] = MaxHealth]
           alive == [w.alive EXCEPT ![p] = TRUE]
           wallet == [w.wallet EXCEPT ![p] = 0]
           temp == [w.temp EXCEPT ![p] = 0]
           shield == [w.shield EXCEPT ![p] = 0]
           haste == [w.haste EXCEPT ![p] = 0]
           searched == [w.searched EXCEPT ![p] = 0]
           mana == [x \in Actor |-> IF x = p THEN 2 ELSE IF x = old THEN 0 ELSE w.mana[x]]
           quest == [w.quest EXCEPT ![p] = [q \in Quest |-> Start[q]]]
           fsm == [m \in Machine |-> IF m \in Owned(old) THEN Start[m] ELSE w.fsm[m]]
           carrier == [i \in Item |-> IF w.carrier[i] # None /\ w.carrier[i] \in {old, p}
                                      THEN p ELSE w.carrier[i]]
<1>1. /\ w \in World /\ p \in Actor /\ Spawn \in Room /\ MaxHealth \in Nat \ {0}
  BY PackageAssumption, RulesAssumption DEF TypeOK, Actor
<1>2. u = [w EXCEPT !.room = room, !.health = health, !.alive = alive, !.wallet = wallet,
                    !.temp = temp, !.shield = shield, !.haste = haste, !.searched = searched,
                    !.mana = mana, !.quest = quest, !.fsm = fsm, !.carrier = carrier]
  BY DEF Seeded
<1>3. /\ room \in [Thing -> Room \cup {None}] /\ carrier \in [Item -> Actor \cup {None}]
  BY <1>1, Cells
<1>4. /\ health \in [Actor -> Nat] /\ alive \in [Actor -> BOOLEAN] /\ wallet \in [Actor -> Nat]
      /\ temp \in [Actor -> Nat] /\ shield \in [Actor -> Nat] /\ haste \in [Actor -> Nat]
      /\ searched \in [Actor -> Nat]
  BY <1>1, Cells
<1>5. mana \in [Actor -> Nat] /\ fsm \in [Machine -> State]
  <2>1. \A m \in Machine : Start[m] \in State
    BY DEF State
  <2> QED BY <1>1, <2>1, Cells
<1>6. quest \in [Actor -> [Quest -> State]] /\ quest[p] = [q \in Quest |-> Start[q]]
      /\ \A a \in Actor \ {p} : quest[a] = w.quest[a]
  <2>1. [q \in Quest |-> Start[q]] \in [Quest -> State]
    BY DEF State
  <2> QED BY <1>1, <2>1, Cells
<1>7. /\ health[p] = MaxHealth /\ alive[p] = TRUE /\ temp[p] = 0 /\ wallet[p] = 0
      /\ \A a \in Actor \ {p} : /\ health[a] = w.health[a] /\ (alive[a] <=> w.alive[a])
                                /\ temp[a] = w.temp[a] /\ shield[a] = w.shield[a]
                                /\ wallet[a] = w.wallet[a]
  BY <1>1, Cells
<1>8. /\ \A x \in Thing : room[x] = IF x = p THEN Spawn ELSE IF x = old THEN None ELSE w.room[x]
      /\ \A i \in Item : carrier[i] = IF w.carrier[i] # None /\ w.carrier[i] \in {old, p}
                                      THEN p ELSE w.carrier[i]
      /\ \A m \in Machine : fsm[m] = IF m \in Owned(old) THEN Start[m] ELSE w.fsm[m]
  OBVIOUS
<1> HIDE DEF room, health, alive, wallet, temp, shield, haste, searched, mana, quest, fsm, carrier
<1>9. /\ u.room = room /\ u.carrier = carrier /\ u.health = health /\ u.alive = alive
      /\ u.temp = temp /\ u.shield = shield /\ u.quest = quest /\ u.wallet = wallet /\ u.fsm = fsm
  BY <1>1, <1>2 DEF World
<1>10. u \in World
  <2>1. u = [room |-> room, carrier |-> carrier, locked |-> w.locked, open |-> w.open,
             health |-> health, alive |-> alive, temp |-> temp, shield |-> shield,
             haste |-> haste, mana |-> mana, searched |-> searched, wallet |-> wallet,
             quest |-> quest, fsm |-> fsm]
    BY ZenonT(30), <1>1, <1>2 DEF World
  <2>2. /\ w.locked \in [Door -> BOOLEAN] /\ w.open \in [Door -> BOOLEAN]
    BY <1>1, Cells
  <2> QED BY <1>3, <1>4, <1>5, <1>6, <2>1, <2>2 DEF World
<1>11. Sound(u, p)
  BY <1>1, <1>7, <1>9 DEF Sound
<1>12. \A a \in Actor \ {p} : Sound(w, a) => Sound(u, a)
  BY <1>7, <1>9 DEF Sound
<1> QED BY <1>6, <1>7, <1>8, <1>9, <1>10, <1>11, <1>12

\* p is created, in the place of old; the machines of old begin anew.
Replaces(p, old) ==
  /\ exists' = (exists \ {old}) \cup {p}
  /\ created' = Append(created, [who |-> p, old |-> old, at |-> Len(log)])
  /\ \A m \in Machine : w'.fsm[m] = IF m \in Owned(old) THEN Start[m] ELSE w.fsm[m]

LEMMA Creates ==
  ASSUME TypeOK, Whole(w, exists, haunted), NEW p \in Player, CreatePlayer(p)
  PROVE  /\ w' \in World /\ Whole(w', exists', haunted) /\ exists' \subseteq Actor /\ Creature \subseteq exists'
         /\ exists' \subseteq exists \cup {p}
         /\ \E old \in Player \cup {None} : Replaces(p, old)
         /\ w'.quest[p] = [q \in Quest |-> Start[q]] /\ w'.wallet[p] = 0
         /\ \A a \in Actor \ {p} : w'.quest[a] = w.quest[a] /\ w'.wallet[a] = w.wallet[a]
         /\ agenda = <<>> /\ UNCHANGED <<log, acts, later, agenda, haunted>>
<1>1. PICK old \in (Player \cap exists) \cup {None} :
        /\ p \notin exists \ {old} /\ w' = Seeded(p, old) /\ exists' = (exists \ {old}) \cup {p}
        /\ created' = Append(created, [who |-> p, old |-> old, at |-> Len(log)])
        /\ agenda = <<>> /\ UNCHANGED <<log, acts, later, agenda, haunted>>
  BY DEF CreatePlayer, Idle
<1>2. /\ w' \in World
      /\ \A m \in Machine : w'.fsm[m] = IF m \in Owned(old) THEN Start[m] ELSE w.fsm[m]
      /\ \A x \in Thing : w'.room[x] = IF x = p THEN Spawn ELSE IF x = old THEN None ELSE w.room[x]
      /\ \A i \in Item : w'.carrier[i] = IF w.carrier[i] # None /\ w.carrier[i] \in {old, p}
                                         THEN p ELSE w.carrier[i]
      /\ w'.quest[p] = [q \in Quest |-> Start[q]] /\ w'.wallet[p] = 0
      /\ Sound(w', p)
      /\ \A a \in Actor \ {p} : /\ w'.quest[a] = w.quest[a] /\ w'.wallet[a] = w.wallet[a]
                                /\ Sound(w, a) => Sound(w', a)
  BY <1>1, SeededIs
<1>3. /\ Player \cap Creature = {} /\ Actor \cap Item = {} /\ None \notin Actor /\ None \notin Thing
      /\ None \notin Room /\ Spawn \in Room /\ p \in Actor /\ exists \subseteq Actor /\ Creature \subseteq exists
  BY ThingsApart, PackageAssumption DEF Thing, Actor, TypeOK
<1>4. exists' \subseteq Actor /\ Creature \subseteq exists' /\ exists' \subseteq exists \cup {p}
  BY <1>1, <1>3
<1>5. Housed(w', exists')
  <2> SUFFICES ASSUME NEW a \in Actor PROVE w'.room[a] # None <=> a \in exists'
    BY DEF Housed
  <2>1. w.room[a] # None <=> a \in exists
    BY DEF Whole, Housed
  <2>2. w'.room[a] = IF a = p THEN Spawn ELSE IF a = old THEN None ELSE w.room[a]
    BY <1>2 DEF Thing
  <2> QED BY <1>1, <1>3, <2>1, <2>2
<1>6. \A a \in exists' : Sound(w', a)
  BY <1>1, <1>2, <1>3 DEF Whole
<1>7. \A i \in Item \ haunted : Accounted(w', exists', i)
  <2> SUFFICES ASSUME NEW i \in Item \ haunted PROVE Accounted(w', exists', i)
    OBVIOUS
  <2>1. Accounted(w, exists, i)
    BY DEF Whole
  <2>2. w'.room[i] = w.room[i]
    <3>1. i \in Thing /\ i # p /\ i # old
      BY <1>3 DEF Thing
    <3> QED BY <1>2, <3>1
  <2>3. w'.carrier[i] = IF w.carrier[i] # None /\ w.carrier[i] \in {old, p} THEN p ELSE w.carrier[i]
    BY <1>2
  <2> QED BY <1>1, <1>3, <2>1, <2>2, <2>3 DEF Accounted
<1>8. old \in Player \cup {None} /\ Replaces(p, old)
  BY <1>1, <1>2 DEF Replaces
<1> QED BY <1>1, <1>2, <1>4, <1>5, <1>6, <1>7, <1>8 DEF Whole

-----------------------------------------------------------------------------
(* Types, places and bodies.                                               *)

LEMMA WholeIsNext ==
  ASSUME TypeOK'
  PROVE  (Everyone /\ ItemsAccounted /\ BodiesConsistent)' <=> Whole(w', exists', haunted')
BY DEF TypeOK, Everyone, ItemsAccounted, BodiesConsistent, Whole, Housed, Sound, Accounted

Upcoming(n, m) == [event : n + 1 .. m, to : Machine \cup Quest]
Delivery == [event : Nat, to : Machine \cup Quest]

\* What is logged and published by an action, and by a reaction.
LEMMA ActingLogs ==
  ASSUME TypeOK, NEW k, NEW a, Acting(k, a)
  PROVE  \/ log' = log /\ agenda' = agenda
         \/ \E evs \in Seq(Told) :
              /\ evs \in Seq(Evt) /\ log' \in Seq(Entry) /\ Grown(log, log', evs, ByAction(k))
              /\ agenda' \in Seq(Upcoming(Len(log), Len(log')))
              /\ a \notin exists => AtSelf(a, evs)
<1>1. CASE log' = log /\ agenda' = agenda
  BY <1>1
<1>2. ASSUME NEW evs \in Seq(Told), log' = log \o Logged(evs, ByAction(k)),
             agenda' = Publish(evs, Len(log)), a \notin exists => AtSelf(a, evs)
      PROVE  /\ evs \in Seq(Evt) /\ log' \in Seq(Entry) /\ Grown(log, log', evs, ByAction(k))
             /\ agenda' \in Seq(Upcoming(Len(log), Len(log')))
  <2>1. evs \in Seq(Evt)
    BY PlainIsTold, SeqMonotonic
  <2>2. log \in Seq(Entry) /\ Len(log) \in Nat
    BY LenProperties DEF TypeOK, Entry
  <2>3. ByAction(k) \in Cause
    <3>1. k \in Nat
      BY LenProperties DEF Acting, Ongoing
    <3> QED BY <3>1 DEF ByAction, Cause
  <2>4. log' \in Seq(Entry) /\ Grown(log, log', evs, ByAction(k))
    BY <1>2, <2>1, <2>2, <2>3, LogGrows
  <2>5. agenda' \in Seq([event : Len(log) + 1 .. Len(log) + Len(evs), to : Machine \cup Quest])
    BY <1>2, <2>2, Published
  <2>6. Len(log') = Len(log) + Len(evs)
    BY <2>4 DEF Grown
  <2> QED BY <2>1, <2>4, <2>5, <2>6 DEF Upcoming
<1> QED BY <1>1, <1>2 DEF Acting, Acted

LEMMA ReactedLogs ==
  ASSUME TypeOK, agenda # <<>>, NEW n \in Nat, NEW evs \in Seq(Evt), NEW v, Reacted(v, evs, n)
  PROVE  /\ log' \in Seq(Entry) /\ Grown(log, log', evs, ByEvent(n))
         /\ \E new \in Seq(Upcoming(Len(log), Len(log'))) : agenda' = new \o Tail(agenda)
<1>1. log \in Seq(Entry) /\ Len(log) \in Nat
  BY LenProperties DEF TypeOK, Entry
<1>2. ByEvent(n) \in Cause
  BY DEF ByEvent, Cause
<1>3. log' \in Seq(Entry) /\ Grown(log, log', evs, ByEvent(n))
  BY <1>1, <1>2, LogGrows DEF Reacted
<1>4. Publish(evs, Len(log)) \in Seq([event : Len(log) + 1 .. Len(log) + Len(evs), to : Machine \cup Quest])
  BY <1>1, Published
<1>5. Len(log') = Len(log) + Len(evs)
  BY <1>3 DEF Grown
<1>6. Publish(evs, Len(log)) \in Seq(Upcoming(Len(log), Len(log')))
  BY <1>4, <1>5 DEF Upcoming
<1> QED BY <1>3, <1>6 DEF Reacted

\* The events of the three kinds of reactions.
LEMMA ReactionEvents ==
  ASSUME TypeOK
  PROVE  /\ \A m \in Machine : \A e, n : MachineStep(m, e, n) => Announced("fsm", Owner[m], m, e) \in Seq(Evt)
         /\ \A a \in Actor, q \in Quest : \A e, n :
              QuestStep(a, q, e, n) => Announced("quest", a, q, e) \in Seq(Evt)
         /\ \A a \in Actor, q \in Quest :
              /\ Event("quest.completed", a, q) \in Evt
              /\ <<Event("quest.completed", a, q)>> \in Seq(Evt)
<1>1. ASSUME NEW m \in Machine, NEW e, NEW n, MachineStep(m, e, n)
      PROVE  Announced("fsm", Owner[m], m, e) \in Seq(Evt)
  <2>1. e.from \in State /\ e.to \in State /\ Owner[m] \in Thing \cup Door \cup {None}
    BY <1>1, PackageAssumption DEF MachineStep
  <2> QED BY <2>1, AnnouncedIs DEF AnnouncedAs
<1>2. ASSUME NEW a \in Actor, NEW q \in Quest, NEW e, NEW n, QuestStep(a, q, e, n)
      PROVE  Announced("quest", a, q, e) \in Seq(Evt)
  <2>1. e.from \in State /\ e.to \in State /\ a \in Thing \cup Door \cup {None}
    BY <1>2 DEF QuestStep, Thing
  <2> QED BY <2>1, AnnouncedIs DEF AnnouncedAs
<1>3. ASSUME NEW a \in Actor, NEW q \in Quest
      PROVE  Event("quest.completed", a, q) \in Evt
  <2>1. q \in What
    BY DEF What
  <2>2. "quest.completed" \in EventType
    BY DEF EventType, Triggering, Names, Terminal
  <2> QED BY <2>1, <2>2 DEF Event, Evt, Thing
<1>4. \A e \in Evt : <<e>> \in Seq(Evt)
  OBVIOUS
<1> QED BY <1>1, <1>2, <1>3, <1>4

LEMMA AgendaTypes ==
  ASSUME TypeOK
  PROVE  /\ \A n \in Nat : \A m : Seq(Upcoming(n, m)) \subseteq Seq(Delivery)
         /\ agenda # <<>> => Tail(agenda) \in Seq(Delivery)
<1>1. ASSUME NEW n \in Nat, NEW m, NEW s \in Seq(Upcoming(n, m)) PROVE s \in Seq(Delivery)
  <2>1. Upcoming(n, m) \subseteq Delivery
    BY DEF Upcoming, Delivery
  <2> QED BY <2>1, SeqMonotonic
<1>2. agenda # <<>> => Tail(agenda) \in Seq(Delivery)
  BY HeadTailProperties DEF TypeOK, Delivery
<1> QED BY <1>1, <1>2

\* A reaction that leaves a world a world.
LEMMA ReactionTypes ==
  ASSUME TypeOK, Whole(w, exists, haunted), agenda # <<>>, NEW n \in Nat, NEW evs \in Seq(Evt),
         NEW v \in World, SamePlaces(w, v), SameBodies(w, v), Reacted(v, evs, n)
  PROVE  TypeOK' /\ Whole(w', exists', haunted')
<1>1. log' \in Seq(Entry)
  BY ReactedLogs
<1>2. PICK new \in Seq(Upcoming(Len(log), Len(log'))) : agenda' = new \o Tail(agenda)
  BY ReactedLogs
<1>3. Len(log) \in Nat
  BY LenProperties DEF TypeOK
<1>4. new \in Seq(Delivery) /\ Tail(agenda) \in Seq(Delivery)
  BY <1>3, AgendaTypes
<1>5. agenda' \in Seq(Delivery)
  BY <1>2, <1>4, ConcatProperties
<1>6. w' = v /\ UNCHANGED <<exists, acts, later, created, haunted>>
  BY DEF Reacted
<1>7. Whole(w', exists', haunted')
  BY <1>6, WholeStays
<1> QED BY <1>1, <1>5, <1>6, <1>7 DEF TypeOK, Entry, Delivery

LEMMA TypesStep ==
  ASSUME TypeOK, Whole(w, exists, haunted), Mindful, Caused, Aimed, Next
  PROVE  TypeOK' /\ Whole(w', exists', haunted')
<1>0. /\ w \in World /\ exists \subseteq Actor /\ Len(log) \in Nat
  BY LenProperties DEF TypeOK
<1>1. CASE Waiting
  BY <1>1 DEF Waiting, Ongoing, TypeOK, Whole
<1>2. ASSUME NEW k, NEW a, Acting(k, a) PROVE TypeOK' /\ Whole(w', exists', haunted')
  <2>1. /\ Whole(w', exists, haunted') /\ haunted' \subseteq Item
        /\ acts' \in Seq(Player) /\ later' \in Seq([n : Nat, action : Actions])
        /\ UNCHANGED <<exists, created>>
    BY <1>2 DEF Acting, Acted, Ongoing
  <2>2. log' \in Seq(Entry) /\ agenda' \in Seq(Delivery)
    <3>1. CASE log' = log /\ agenda' = agenda
      BY <3>1 DEF TypeOK, Entry, Delivery
    <3>2. CASE log' \in Seq(Entry) /\ agenda' \in Seq(Upcoming(Len(log), Len(log')))
      BY <1>0, <3>2, AgendaTypes
    <3> QED BY <1>2, <3>1, <3>2, ActingLogs
  <2>3. w' \in World
    BY <2>1 DEF Whole
  <2> QED BY <2>1, <2>2, <2>3 DEF TypeOK, Entry, Delivery
<1>3. ASSUME Deliver PROVE TypeOK' /\ Whole(w', exists', haunted')
  <2>1. PICK n \in 1 .. Len(log) :
           /\ agenda # <<>>
           /\ \/ Quiet
              \/ \E m \in Machine : \E e : MachineStep(m, e, n)
              \/ \E a, e : \E q \in Quest : Meant(n, a) /\ QuestStep(a, q, e, n)
              \/ \E a : \E q \in Quest : Meant(n, a) /\ LegacyStep(a, q, n)
    BY <1>3, DeliverDoes
  <2>2. n \in Nat
    BY <1>0
  <2>3. CASE Quiet
    <3>1. CASE agenda' = Tail(agenda)
      BY <2>1, <2>3, <3>1, AgendaTypes DEF Quiet, TypeOK, Delivery
    <3>2. CASE agenda' = <<>>
      BY <2>3, <3>2 DEF Quiet, TypeOK, Delivery
    <3>3. Whole(w', exists', haunted')
      BY <2>3 DEF Quiet, Whole
    <3> QED BY <2>3, <3>1, <3>2, <3>3 DEF Quiet
  <2>4. ASSUME NEW m \in Machine, NEW e, MachineStep(m, e, n)
        PROVE  TypeOK' /\ Whole(w', exists', haunted')
    <3> DEFINE v == [w EXCEPT !.fsm[m] = e.to]
    <3>1. Announced("fsm", Owner[m], m, e) \in Seq(Evt)
      BY <2>4, ReactionEvents
    <3>2. e.to \in State /\ Reacted(v, Announced("fsm", Owner[m], m, e), n)
      BY <2>4 DEF MachineStep
    <3>3. v \in World /\ SamePlaces(w, v) /\ SameBodies(w, v)
      BY <1>0, <3>2, SetFsm
    <3> HIDE DEF v
    <3> QED BY <2>1, <2>2, <3>1, <3>2, <3>3, ReactionTypes
  <2>5. ASSUME NEW a, NEW e, NEW q \in Quest, Meant(n, a), QuestStep(a, q, e, n)
        PROVE  TypeOK' /\ Whole(w', exists', haunted')
    <3> DEFINE v == Rewarded(a, q, e.to, e.reward)
    <3>0. a \in Actor
      BY <2>5 DEF Meant, Actor
    <3>1. Announced("quest", a, q, e) \in Seq(Evt)
      BY <2>5, <3>0, ReactionEvents
    <3>2. e.to \in State /\ e.reward \in Nat /\ Reacted(v, Announced("quest", a, q, e), n)
      BY <2>5 DEF QuestStep
    <3>3. v \in World /\ SamePlaces(w, v) /\ SameBodies(w, v)
      BY <3>0, <3>2, SetQuest
    <3> HIDE DEF v
    <3> QED BY <2>1, <2>2, <3>1, <3>2, <3>3, ReactionTypes
  <2>6. ASSUME NEW a, NEW q \in Quest, Meant(n, a), LegacyStep(a, q, n)
        PROVE  TypeOK' /\ Whole(w', exists', haunted')
    <3> DEFINE v == Rewarded(a, q, "completed", Legacy[q].reward)
               evs == <<Event("quest.completed", a, q)>>
    <3>0. a \in Actor
      BY <2>6 DEF Meant, Actor
    <3>1. evs \in Seq(Evt)
      BY <3>0, ReactionEvents
    <3>2. "completed" \in State /\ Legacy[q].reward \in Nat /\ Reacted(v, evs, n)
      BY <2>6 DEF LegacyStep, State
    <3>3. v \in World /\ SamePlaces(w, v) /\ SameBodies(w, v)
      BY <3>0, <3>2, SetQuest
    <3> HIDE DEF v, evs
    <3> QED BY <2>1, <2>2, <3>1, <3>2, <3>3, ReactionTypes
  <2> QED BY <2>1, <2>3, <2>4, <2>5, <2>6
<1>4. ASSUME NEW p \in Player, CreatePlayer(p) PROVE TypeOK' /\ Whole(w', exists', haunted')
  <2>1. /\ w' \in World /\ Whole(w', exists', haunted) /\ exists' \subseteq Actor /\ Creature \subseteq exists'
        /\ UNCHANGED <<log, acts, later, agenda, haunted>>
        /\ \E old \in Player \cup {None} : Replaces(p, old)
    BY <1>4, Creates
  <2>2. created' \in Seq([who : Player, old : Player \cup {None}, at : Nat])
    <3>1. PICK old \in Player \cup {None} : Replaces(p, old)
      BY <2>1
    <3>2. [who |-> p, old |-> old, at |-> Len(log)] \in [who : Player, old : Player \cup {None}, at : Nat]
      BY <1>0
    <3> QED BY <3>1, <3>2, AppendProperties DEF TypeOK, Replaces
  <2> QED BY <2>1, <2>2 DEF TypeOK
<1> QED BY <1>1, <1>2, <1>3, <1>4, ActsDo DEF Next

-----------------------------------------------------------------------------
(* What each step does to the log.                                         *)

\* The events evs are what the step logs, and their cause was there before.
Logs(evs, cause) ==
  /\ Grown(log, log', evs, cause)
  /\ cause.kind \in {"action", "event"}
  /\ IF cause.kind = "event" THEN cause.n \in 1 .. Len(log) ELSE cause.n \in 1 .. Len(acts')
  /\ Len(acts) <= Len(acts') /\ \A i \in 1 .. Len(acts) : acts'[i] = acts[i]

\* No events, or those of an action: quests and machines stay as they are.
Calm ==
  /\ Untold(w, w') /\ UNCHANGED <<exists, created>>
  /\ \/ log' = log /\ Len(acts) <= Len(acts') /\ \A i \in 1 .. Len(acts) : acts'[i] = acts[i]
     \/ \E evs \in Seq(Told) : \E k : Logs(evs, ByAction(k))

LEMMA LogsReaction ==
  ASSUME TypeOK, agenda # <<>>, NEW n \in 1 .. Len(log), NEW evs \in Seq(Evt), NEW v, Reacted(v, evs, n)
  PROVE  Logs(evs, ByEvent(n))
<1>1. n \in Nat
  OBVIOUS
<1>2. Grown(log, log', evs, ByEvent(n))
  BY <1>1, ReactedLogs
<1>3. acts' = acts /\ Len(acts) \in Nat
  BY LenProperties DEF Reacted, TypeOK
<1> QED BY <1>2, <1>3 DEF Logs, ByEvent

LEMMA StepKinds ==
  ASSUME TypeOK, Whole(w, exists, haunted), Mindful, Caused, Aimed, Next
  PROVE  \/ Calm
         \/ \E n \in 1 .. Len(log), m \in Machine : \E e :
              /\ MachineStep(m, e, n) /\ Announced("fsm", Owner[m], m, e) \in Seq(Evt)
              /\ Logs(Announced("fsm", Owner[m], m, e), ByEvent(n))
         \/ \E n \in 1 .. Len(log), q \in Quest : \E a, e :
              /\ Meant(n, a) /\ QuestStep(a, q, e, n) /\ Announced("quest", a, q, e) \in Seq(Evt)
              /\ Logs(Announced("quest", a, q, e), ByEvent(n))
         \/ \E n \in 1 .. Len(log), q \in Quest : \E a :
              /\ Meant(n, a) /\ LegacyStep(a, q, n) /\ <<Event("quest.completed", a, q)>> \in Seq(Evt)
              /\ Logs(<<Event("quest.completed", a, q)>>, ByEvent(n))
         \/ \E p \in Player : CreatePlayer(p)
<1>1. CASE Waiting
  BY <1>1 DEF Waiting, Ongoing, Calm, Untold
<1>2. ASSUME NEW k, NEW a, Acting(k, a) PROVE Calm
  <2>1. /\ Untold(w, w') /\ UNCHANGED <<exists, created>> /\ k \in 1 .. Len(acts')
        /\ Len(acts) <= Len(acts') /\ \A i \in 1 .. Len(acts) : acts'[i] = acts[i]
    BY <1>2 DEF Acting, Acted, Ongoing
  <2>2. CASE log' = log /\ agenda' = agenda
    BY <2>1, <2>2 DEF Calm
  <2>3. ASSUME NEW evs \in Seq(Told), Grown(log, log', evs, ByAction(k)) PROVE Calm
    <3>1. Logs(evs, ByAction(k))
      BY <2>1, <2>3 DEF Logs, ByAction
    <3> QED BY <2>1, <3>1 DEF Calm
  <2> QED BY <1>2, <2>2, <2>3, ActingLogs
<1>3. CASE Deliver
  <2>1. PICK n \in 1 .. Len(log) :
           /\ agenda # <<>>
           /\ \/ Quiet
              \/ \E m \in Machine : \E e : MachineStep(m, e, n)
              \/ \E a, e : \E q \in Quest : Meant(n, a) /\ QuestStep(a, q, e, n)
              \/ \E a : \E q \in Quest : Meant(n, a) /\ LegacyStep(a, q, n)
    BY <1>3, DeliverDoes
  <2>2. CASE Quiet
    <3>1. Len(acts) \in Nat
      BY LenProperties DEF TypeOK
    <3> QED BY <2>2, <3>1 DEF Quiet, Calm, Untold
  <2>3. ASSUME NEW m \in Machine, NEW e, MachineStep(m, e, n)
        PROVE  /\ Announced("fsm", Owner[m], m, e) \in Seq(Evt)
               /\ Logs(Announced("fsm", Owner[m], m, e), ByEvent(n))
    <3>1. Announced("fsm", Owner[m], m, e) \in Seq(Evt)
      BY <2>3, ReactionEvents
    <3> QED BY <2>1, <2>3, <3>1, LogsReaction DEF MachineStep
  <2>4. ASSUME NEW a, NEW e, NEW q \in Quest, Meant(n, a), QuestStep(a, q, e, n)
        PROVE  /\ Announced("quest", a, q, e) \in Seq(Evt)
               /\ Logs(Announced("quest", a, q, e), ByEvent(n))
    <3>1. a \in Actor
      BY <2>4 DEF Meant, Actor
    <3>2. Announced("quest", a, q, e) \in Seq(Evt)
      BY <2>4, <3>1, ReactionEvents
    <3> QED BY <2>1, <2>4, <3>2, LogsReaction DEF QuestStep
  <2>5. ASSUME NEW a, NEW q \in Quest, Meant(n, a), LegacyStep(a, q, n)
        PROVE  /\ <<Event("quest.completed", a, q)>> \in Seq(Evt)
               /\ Logs(<<Event("quest.completed", a, q)>>, ByEvent(n))
    <3>1. a \in Actor
      BY <2>5 DEF Meant, Actor
    <3>2. <<Event("quest.completed", a, q)>> \in Seq(Evt)
      BY <3>1, ReactionEvents
    <3> QED BY <2>1, <2>5, <3>2, LogsReaction DEF LegacyStep
  <2> QED BY <2>1, <2>2, <2>3, <2>4, <2>5
<1> QED BY <1>1, <1>2, <1>3, ActsDo DEF Next

\* What was logged keeps its causes, and what is logged now has one.
LEMMA RootsGrow ==
  ASSUME TypeOK, TypeOK', Caused, NEW evs, NEW cause, Logs(evs, cause)
  PROVE  /\ Caused'
         /\ \A i : Root(i)' = RootIn(log', i)
         /\ \A i \in 1 .. Len(log) : log'[i] = log[i] /\ RootIn(log', i) = RootIn(log, i)
         /\ \A j \in 1 .. Len(evs) :
              RootIn(log', Len(log) + j) = IF cause.kind = "event" THEN RootIn(log, cause.n) ELSE cause.n
<1>1. /\ Len(log) \in Nat /\ Len(log') \in Nat /\ Len(evs) \in Nat /\ Len(log') = Len(log) + Len(evs)
      /\ \A i \in 1 .. Len(log) : log'[i] = log[i]
      /\ \A j \in 1 .. Len(evs) : log'[Len(log) + j].cause = cause
  <2>1. Grown(log, log', evs, cause)
    BY DEF Logs
  <2>2. Len(log) \in Nat /\ Len(evs) \in Nat /\ Len(log') = Len(log) + Len(evs)
    BY <2>1 DEF Grown
  <2>3. \A i \in 1 .. Len(log) : log'[i] = log[i]
    BY <2>1 DEF Grown
  <2>4. \A j \in 1 .. Len(evs) : log'[Len(log) + j].cause = cause
    BY ZenonT(30), <2>1 DEF Grown
  <2> QED BY <2>2, <2>3, <2>4
<1>2. /\ DOMAIN log = 1 .. Len(log) /\ DOMAIN log' = 1 .. Len(log')
      /\ DOMAIN acts = 1 .. Len(acts) /\ DOMAIN acts' = 1 .. Len(acts')
      /\ Len(acts) \in Nat /\ Len(acts') \in Nat
  BY LenProperties DEF TypeOK
<1>3. \A i \in 1 .. Len(log') : i \in 1 .. Len(log) \/ \E j \in 1 .. Len(evs) : i = Len(log) + j
  <2> SUFFICES ASSUME NEW i \in 1 .. Len(log'), i \notin 1 .. Len(log)
               PROVE  \E j \in 1 .. Len(evs) : i = Len(log) + j
    OBVIOUS
  <2>1. i - Len(log) \in 1 .. Len(evs) /\ i = Len(log) + (i - Len(log))
    BY <1>1
  <2> QED BY <2>1
<1>4. ASSUME NEW i \in 1 .. Len(log')
      PROVE  IF log'[i].cause.kind = "event" THEN log'[i].cause.n \in 1 .. i - 1
             ELSE log'[i].cause.n \in DOMAIN acts'
  <2>1. CASE i \in 1 .. Len(log)
    <3>1. IF log[i].cause.kind = "event" THEN log[i].cause.n \in 1 .. i - 1
          ELSE log[i].cause.n \in DOMAIN acts
      BY <1>2, <2>1 DEF Caused
    <3>2. \A k \in 1 .. Len(acts) : k \in 1 .. Len(acts')
      BY <1>2 DEF Logs
    <3>3. log'[i] = log[i]
      BY <1>1, <2>1
    <3> QED BY <1>2, <3>1, <3>2, <3>3
  <2>2. ASSUME NEW j \in 1 .. Len(evs), i = Len(log) + j
        PROVE  IF log'[i].cause.kind = "event" THEN log'[i].cause.n \in 1 .. i - 1
               ELSE log'[i].cause.n \in DOMAIN acts'
    <3>1. log'[i].cause = cause
      BY <1>1, <2>2
    <3>2. \A k \in 1 .. Len(log) : k \in 1 .. i - 1
      BY <1>1, <2>2
    <3> QED BY <1>2, <3>1, <3>2 DEF Logs
  <2> QED BY <1>3, <2>1, <2>2
<1>5. Caused'
  BY <1>2, <1>4 DEF Caused
<1>6. Ordered(log) /\ Ordered(log')
  BY <1>4, WellLogged DEF Ordered
<1>7. \A i : Root(i)' = RootIn(log', i)
  BY DEF Root, RootIn
<1>8. \A i \in 1 .. Len(log) : RootIn(log', i) = RootIn(log, i)
  BY <1>1, <1>6, RootStays
<1>9. ASSUME NEW j \in 1 .. Len(evs)
      PROVE  RootIn(log', Len(log) + j) = IF cause.kind = "event" THEN RootIn(log, cause.n) ELSE cause.n
  <2> DEFINE i == Len(log) + j
  <2>1. i \in 1 .. Len(log') /\ log'[i].cause = cause
    BY <1>1
  <2> HIDE DEF i
  <2>2. RootIn(log', i) = IF cause.kind = "event" THEN RootIn(log', cause.n) ELSE cause.n
    BY <1>1, <1>6, <2>1, RootIs
  <2>3. cause.kind = "event" => RootIn(log', cause.n) = RootIn(log, cause.n)
    BY <1>8 DEF Logs
  <2> QED BY <2>2, <2>3 DEF i
<1> QED BY <1>1, <1>5, <1>7, <1>8, <1>9

-----------------------------------------------------------------------------
(* Causes, deliveries and dates.                                           *)

LEMMA CausedStep ==
  ASSUME TypeOK, TypeOK', Whole(w, exists, haunted), Mindful, Caused, Aimed, Next
  PROVE  Caused' /\ Len(log) \in Nat /\ Len(log') \in Nat /\ Len(log) <= Len(log')
<1>0. /\ Len(log) \in Nat /\ Len(log') \in Nat
      /\ DOMAIN log = 1 .. Len(log) /\ DOMAIN acts = 1 .. Len(acts) /\ DOMAIN acts' = 1 .. Len(acts')
      /\ Len(acts) \in Nat /\ Len(acts') \in Nat
  BY LenProperties DEF TypeOK
<1>1. ASSUME NEW evs, NEW cause, Logs(evs, cause) PROVE Caused' /\ Len(log) <= Len(log')
  <2>1. Len(log) <= Len(log')
    BY <1>1 DEF Logs, Grown
  <2> QED BY <1>1, <2>1, RootsGrow
<1>2. ASSUME log' = log, Len(acts) <= Len(acts') PROVE Caused' /\ Len(log) <= Len(log')
  <2>1. \A k \in DOMAIN acts : k \in DOMAIN acts'
    BY <1>0, <1>2
  <2> QED BY <1>0, <1>2, <2>1 DEF Caused
<1>3. CASE Calm
  BY <1>1, <1>2, <1>3 DEF Calm
<1>4. ASSUME NEW p \in Player, CreatePlayer(p) PROVE Caused' /\ Len(log) <= Len(log')
  BY <1>0, <1>2, <1>4 DEF CreatePlayer
<1> QED BY <1>0, <1>1, <1>3, <1>4, StepKinds

\* A delivery touches neither actions nor the registry.
LEMMA Delivered ==
  ASSUME TypeOK, Caused, Aimed, Deliver
  PROVE  UNCHANGED <<exists, acts, later, created, haunted>>
<1>1. Quiet => UNCHANGED <<exists, acts, later, created, haunted>>
  BY DEF Quiet
<1>2. \A v, evs, n : Reacted(v, evs, n) => UNCHANGED <<exists, acts, later, created, haunted>>
  BY DEF Reacted
<1>3. \A m, e, n : MachineStep(m, e, n) => UNCHANGED <<exists, acts, later, created, haunted>>
  BY <1>2 DEF MachineStep
<1>4. \A a, q, e, n : QuestStep(a, q, e, n) => UNCHANGED <<exists, acts, later, created, haunted>>
  BY <1>2 DEF QuestStep
<1>5. \A a, q, n : LegacyStep(a, q, n) => UNCHANGED <<exists, acts, later, created, haunted>>
  BY <1>2 DEF LegacyStep
<1> QED BY <1>1, <1>3, <1>4, <1>5, DeliverDoes

LEMMA MindfulStep ==
  ASSUME TypeOK, Whole(w, exists, haunted), Mindful, Caused, Aimed, Next
  PROVE  Mindful'
<1>1. CASE Waiting
  BY <1>1 DEF Waiting, Ongoing
<1>2. ASSUME NEW k, NEW a, Acting(k, a) PROVE Mindful'
  BY <1>2 DEF Acting, Ongoing
<1>3. CASE Deliver
  <2>1. acts' = acts /\ later' = later
    BY <1>3, Delivered
  <2> QED BY <2>1 DEF Mindful
<1>4. ASSUME NEW p \in Player, CreatePlayer(p) PROVE Mindful'
  BY <1>4 DEF CreatePlayer, Mindful
<1> QED BY <1>1, <1>2, <1>3, <1>4, ActsDo DEF Next

LEMMA BornBefore ==
  ASSUME TypeOK, Dated
  PROVE  /\ Len(log) \in Nat /\ \A i \in DOMAIN created : created[i].at \in 0 .. Len(log)
         /\ \A p : BornIn(created, p) \in Nat /\ BornIn(created, p) <= Len(log)
         /\ \A m : RenewedIn(created, m) \in Nat /\ RenewedIn(created, m) <= Len(log)
<1>1. Len(log) \in Nat /\ created \in Seq(Creation)
  BY LenProperties DEF TypeOK, Creation
<1>2. ASSUME NEW i \in DOMAIN created PROVE created[i].at \in 0 .. Len(log)
  <2>1. created[i] \in Creation
    BY <1>1, ElementOfSeq, LenProperties
  <2> QED BY <1>1, <2>1 DEF Dated, Creation
<1>3. /\ \A p : BornIn(created, p) \in 0 .. Len(log)
      /\ \A m : RenewedIn(created, m) \in 0 .. Len(log)
  BY <1>1, <1>2, BornBounded
<1> QED BY <1>1, <1>2, <1>3

LEMMA CreatesNow ==
  ASSUME TypeOK, Dated, Whole(w, exists, haunted), NEW p \in Player, CreatePlayer(p)
  PROVE  \E old \in Player \cup {None} :
           /\ Replaces(p, old) /\ Newborn(created, created', p, old, Len(log))
           /\ log' = log
<1>1. (\E old \in Player \cup {None} : Replaces(p, old)) /\ log' = log
  BY Creates
<1>2. PICK old \in Player \cup {None} : Replaces(p, old)
  BY <1>1
<1>3. created \in Seq(Creation)
  BY DEF TypeOK, Creation
<1>4. Newborn(created, created', p, old, Len(log))
  BY <1>2, <1>3, BornBefore DEF Newborn, Replaces
<1> QED BY <1>1, <1>2, <1>4

LEMMA DatedStep ==
  ASSUME TypeOK, TypeOK', Whole(w, exists, haunted), Mindful, Caused, Aimed, Dated, Next
  PROVE  Dated'
<1>1. Len(log) \in Nat /\ Len(log') \in Nat /\ Len(log) <= Len(log')
  BY CausedStep
<1>2. \A i \in DOMAIN created : created[i].at \in 0 .. Len(log)
  BY BornBefore
<1>3. CASE created' = created
  BY <1>1, <1>2, <1>3 DEF Dated
<1>4. ASSUME NEW p \in Player, CreatePlayer(p) PROVE Dated'
  <2>1. PICK old \in Player \cup {None} : Newborn(created, created', p, old, Len(log)) /\ log' = log
    BY <1>4, CreatesNow
  <2>2. \A i \in DOMAIN created' : created'[i].at \in 0 .. Len(log)
    BY <2>1, NewbornIs
  <2> QED BY <1>1, <2>1, <2>2 DEF Dated
<1>5. created' = created \/ \E p \in Player : CreatePlayer(p)
  <2>1. Waiting \/ (\E k, a : Acting(k, a)) => created' = created
    BY DEF Waiting, Acting, Ongoing
  <2> QED BY <2>1, ActsDo, Delivered DEF Next
<1> QED BY <1>3, <1>4, <1>5

\* A delivery of i is for the actor that began its cascade, for nobody's quests, or
\* for one whose machine has reacted in it.
AimedAt(l, ac, ex, i) ==
  /\ i \in 1 .. Len(l)
  /\ \/ ac[RootIn(l, i)] \in ex
     \/ l[i].target \notin Player \cap ex
     \/ EngagedIn(l, l[i].target, i)

LEMMA AimedIs ==
  /\ TypeOK => (Aimed <=> \A i \in DOMAIN agenda : AimedAt(log, acts, exists, agenda[i].event))
  /\ TypeOK' => (Aimed' <=> \A i \in DOMAIN agenda' : AimedAt(log', acts', exists', agenda'[i].event))
<1>1. TypeOK => DOMAIN log = 1 .. Len(log)
  BY DEF TypeOK
<1>2. TypeOK' => DOMAIN log' = 1 .. Len(log')
  BY DEF TypeOK
<1>3. (\A i : Root(i) = RootIn(log, i)) /\ \A i : Root(i)' = RootIn(log', i)
  BY DEF Root, RootIn
<1>4. TypeOK => (Aimed <=> \A i \in DOMAIN agenda : AimedAt(log, acts, exists, agenda[i].event))
  BY <1>1, <1>3, EngagedIs DEF Aimed, AimedAt
<1>5. TypeOK' => (Aimed' <=> \A i \in DOMAIN agenda' : AimedAt(log', acts', exists', agenda'[i].event))
  BY <1>2, <1>3, EngagedIs DEF Aimed, AimedAt
<1> QED BY <1>4, <1>5

\* The events of a reaction are aimed like the event it reacts to.
LEMMA AimedReaction ==
  ASSUME TypeOK, TypeOK', Caused, Aimed, agenda # <<>>, NEW n \in 1 .. Len(log),
         NEW evs \in Seq(Evt), NEW v, Reacted(v, evs, n), NEW target,
         \A j \in 1 .. Len(evs) : evs[j].target = target,
         (\A j \in 1 .. Len(evs) : evs[j].type \in OfMachines) \/ Meant(n, target)
  PROVE  Aimed'
<1>0. n \in Nat /\ DOMAIN agenda = 1 .. Len(agenda) /\ Len(agenda) \in Nat
  BY LenProperties DEF TypeOK
<1>1. /\ Logs(evs, ByEvent(n)) /\ Grown(log, log', evs, ByEvent(n))
      /\ \E new \in Seq(Upcoming(Len(log), Len(log'))) : agenda' = new \o Tail(agenda)
  BY <1>0, ReactedLogs, LogsReaction
<1>2. PICK new \in Seq(Upcoming(Len(log), Len(log'))) : agenda' = new \o Tail(agenda)
  BY <1>1
<1>3. /\ \A i \in 1 .. Len(log) : log'[i] = log[i] /\ RootIn(log', i) = RootIn(log, i)
      /\ \A j \in 1 .. Len(evs) : RootIn(log', Len(log) + j) = RootIn(log, n)
  BY <1>1, RootsGrow DEF ByEvent
<1>4. /\ Len(log) \in Nat /\ Len(evs) \in Nat /\ Len(log') = Len(log) + Len(evs)
      /\ \A j \in 1 .. Len(evs) : /\ log'[Len(log) + j].target = evs[j].target
                                  /\ log'[Len(log) + j].type = evs[j].type
  BY <1>1 DEF Grown
<1>5. acts' = acts /\ exists' = exists
  BY DEF Reacted
<1>6. ASSUME NEW i \in Len(log) + 1 .. Len(log') PROVE AimedAt(log', acts', exists', i)
  <2> DEFINE j == i - Len(log)
  <2>1. j \in 1 .. Len(evs) /\ i = Len(log) + j /\ i \in 1 .. Len(log')
    BY <1>4
  <2> HIDE DEF j
  <2>2. log'[i].target = target /\ log'[i].type = evs[j].type /\ RootIn(log', i) = RootIn(log, n)
    BY <1>3, <1>4, <2>1
  <2>3. CASE evs[j].type \in OfMachines
    <3>1. i \in 1 .. i
      BY <2>1
    <3>2. EngagedIn(log', target, i)
      BY <2>2, <2>3, <3>1 DEF EngagedIn
    <3> QED BY <2>1, <2>2, <3>2 DEF AimedAt
  <2>4. CASE Meant(n, target)
    <3>1. acts[RootIn(log, n)] \in exists \/ EngagedIn(log, target, n)
      BY <2>4 DEF Meant
    <3>2. ASSUME EngagedIn(log, target, n) PROVE EngagedIn(log', target, i)
      <4>1. i \in Nat /\ n <= i
        BY <1>4
      <4> QED BY <1>3, <1>4, <2>2, <3>2, <4>1, EngagedGrows
    <3> QED BY <1>5, <2>1, <2>2, <3>1, <3>2 DEF AimedAt
  <2> QED BY <2>1, <2>3, <2>4
<1>7. ASSUME NEW i, AimedAt(log, acts, exists, i) PROVE AimedAt(log', acts', exists', i)
  <2>1. /\ i \in 1 .. Len(log) /\ i \in 1 .. Len(log') /\ i \in Nat /\ i <= i
        /\ log'[i] = log[i] /\ RootIn(log', i) = RootIn(log, i)
    BY <1>3, <1>4, <1>7 DEF AimedAt
  <2>2. EngagedIn(log, log[i].target, i) => EngagedIn(log', log[i].target, i)
    BY <1>3, <1>4, <2>1, EngagedGrows
  <2> QED BY <1>5, <1>7, <2>1, <2>2 DEF AimedAt
<1>8. /\ Tail(agenda) \in Seq(Delivery) /\ Len(Tail(agenda)) = Len(agenda) - 1
      /\ \A i \in 1 .. Len(Tail(agenda)) : Tail(agenda)[i] = agenda[i + 1]
  BY HeadTailProperties DEF TypeOK, Delivery
<1>9. \A i \in 1 .. Len(new) : AimedAt(log', acts', exists', new[i].event)
  <2>1. \A i \in 1 .. Len(new) : new[i] \in Upcoming(Len(log), Len(log'))
    OBVIOUS
  <2>2. \A d \in Upcoming(Len(log), Len(log')) : d.event \in Len(log) + 1 .. Len(log')
    BY DEF Upcoming
  <2> QED BY <1>6, <2>1, <2>2
<1>10. ASSUME NEW i \in 1 .. Len(Tail(agenda)) PROVE AimedAt(log', acts', exists', Tail(agenda)[i].event)
  <2>1. i + 1 \in DOMAIN agenda /\ Tail(agenda)[i] = agenda[i + 1]
    BY <1>0, <1>8
  <2>2. AimedAt(log, acts, exists, agenda[i + 1].event)
    BY <2>1, AimedIs
  <2> QED BY <1>7, <2>1, <2>2
<1>11. \A i \in DOMAIN agenda' : AimedAt(log', acts', exists', agenda'[i].event)
  <2>1. new \in Seq(Delivery) /\ Len(new) \in Nat
    BY <1>0, <1>4, <1>8, AgendaTypes, LenProperties
  <2> DEFINE tail == Tail(agenda)
  <2>2. /\ tail \in Seq(Delivery) /\ agenda' = new \o tail
        /\ \A i \in 1 .. Len(tail) : AimedAt(log', acts', exists', tail[i].event)
    BY <1>2, <1>8, <1>10
  <2> HIDE DEF tail
  <2>3. /\ DOMAIN agenda' = 1 .. Len(new) + Len(tail) /\ Len(tail) \in Nat
        /\ \A i \in 1 .. Len(new) + Len(tail) :
             agenda'[i] = IF i <= Len(new) THEN new[i] ELSE tail[i - Len(new)]
    BY <2>1, <2>2, ConcatProperties, LenProperties
  <2> SUFFICES ASSUME NEW i \in 1 .. Len(new) + Len(tail)
               PROVE  AimedAt(log', acts', exists', agenda'[i].event)
    BY <2>3
  <2>4. CASE i <= Len(new)
    <3>1. i \in 1 .. Len(new) /\ agenda'[i] = new[i]
      BY <2>1, <2>3, <2>4
    <3> QED BY <1>9, <3>1
  <2>5. CASE ~(i <= Len(new))
    <3>1. i - Len(new) \in 1 .. Len(tail) /\ agenda'[i] = tail[i - Len(new)]
      BY <2>1, <2>3, <2>5
    <3> QED BY <2>2, <3>1
  <2> QED BY <2>4, <2>5
<1> QED BY <1>11, AimedIs

\* What machines and quests announce.
MachineTold(evs, m, e) ==
  /\ evs \in Seq(Evt) /\ Len(evs) = IF e.to \in Terminal THEN 2 ELSE 1
  /\ evs[1] = Event("fsm.transitioned", Owner[m], <<m, e.from, e.to>>)
  /\ \A j \in 1 .. Len(evs) : evs[j].type \in {"fsm.transitioned", "fsm.completed", "fsm.failed"}
  /\ \A j \in 2 .. Len(evs) : evs[j].type \in {"fsm.completed", "fsm.failed"}
  /\ \A j \in 1 .. Len(evs) : evs[j].target = Owner[m]

QuestTold(evs, a, q, e) ==
  /\ evs \in Seq(Evt) /\ Len(evs) = IF e.to \in Terminal THEN 2 ELSE 1
  /\ evs[1] = Event("quest.transitioned", a, <<q, e.from, e.to>>)
  /\ e.to = "completed" => evs[2] = Event("quest.completed", a, q)
  /\ e.to = "failed" => evs[2] = Event("quest.failed", a, q)
  /\ \A j \in 2 .. Len(evs) : evs[j].type \in {"quest.completed", "quest.failed"}
  /\ \A j \in 1 .. Len(evs) : evs[j].target = a

LEMMA OneTwo ==
  /\ \A j \in 1 .. 1 : j = 1
  /\ \A j \in 1 .. 2 : j = 1 \/ j = 2
  /\ \A j \in 2 .. 1 : FALSE
  /\ \A j \in 2 .. 2 : j = 2
OBVIOUS

LEMMA MachineTells ==
  ASSUME NEW m \in Machine, NEW e, e.from \in State, e.to \in State,
         NEW evs, evs = Announced("fsm", Owner[m], m, e)
  PROVE  MachineTold(evs, m, e)
<1>1. "fsm" \in {"fsm", "quest"} /\ Owner[m] \in Thing \cup Door \cup {None} /\ m \in Machine \cup Quest
  BY PackageAssumption
<1>2. AnnouncedAs(evs, "fsm", Owner[m], m, e)
  BY <1>1, AnnouncedIs
<1>3. /\ Names["fsm"].transitioned = "fsm.transitioned"
      /\ \A s \in Terminal : Names["fsm"][s] \in {"fsm.completed", "fsm.failed"}
  BY DEF Names, Terminal
<1>4. /\ evs[1] = Event("fsm.transitioned", Owner[m], <<m, e.from, e.to>>)
      /\ e.to \in Terminal => evs[2] = Event(Names["fsm"][e.to], Owner[m], m)
      /\ Len(evs) = IF e.to \in Terminal THEN 2 ELSE 1
  BY <1>2, <1>3 DEF AnnouncedAs
<1>5. Len(evs) = IF e.to \in Terminal THEN 2 ELSE 1
  BY <1>4
<1>6. /\ \A j \in 1 .. Len(evs) : j = 1 \/ (j = 2 /\ e.to \in Terminal)
      /\ \A j \in 2 .. Len(evs) : j = 2 /\ e.to \in Terminal
  <2>1. CASE e.to \in Terminal
    <3>1. Len(evs) = 2
      BY <1>5, <2>1
    <3> QED BY <2>1, <3>1, OneTwo
  <2>2. CASE e.to \notin Terminal
    <3>1. Len(evs) = 1
      BY <1>5, <2>2
    <3> QED BY <3>1, OneTwo
  <2> QED BY <2>1, <2>2
<1>7. evs[1].type = "fsm.transitioned" /\ (e.to \in Terminal => evs[2].type \in {"fsm.completed", "fsm.failed"})
  BY <1>3, <1>4 DEF Event
<1>8. evs \in Seq(Evt) /\ \A j \in 1 .. Len(evs) : evs[j].target = Owner[m]
  BY <1>2 DEF AnnouncedAs
<1>9. \A j \in 1 .. Len(evs) : evs[j].type \in {"fsm.transitioned", "fsm.completed", "fsm.failed"}
  BY <1>6, <1>7
<1>10. \A j \in 2 .. Len(evs) : evs[j].type \in {"fsm.completed", "fsm.failed"}
  BY <1>6, <1>7
<1> QED BY <1>4, <1>8, <1>9, <1>10 DEF MachineTold

LEMMA QuestTells ==
  ASSUME NEW q \in Quest, NEW a \in Actor, NEW e, e.from \in State, e.to \in State,
         NEW evs, evs = Announced("quest", a, q, e)
  PROVE  QuestTold(evs, a, q, e)
<1>1. "quest" \in {"fsm", "quest"} /\ a \in Thing \cup Door \cup {None} /\ q \in Machine \cup Quest
  BY DEF Thing
<1>2. AnnouncedAs(evs, "quest", a, q, e)
  BY <1>1, AnnouncedIs
<1>3. /\ Names["quest"].transitioned = "quest.transitioned"
      /\ Names["quest"]["completed"] = "quest.completed" /\ Names["quest"]["failed"] = "quest.failed"
  BY DEF Names
<1>4. "completed" \in Terminal /\ "failed" \in Terminal /\ \A s \in Terminal : s = "completed" \/ s = "failed"
  BY DEF Terminal
<1>5. /\ evs[1] = Event("quest.transitioned", a, <<q, e.from, e.to>>)
      /\ e.to \in Terminal => evs[2] = Event(Names["quest"][e.to], a, q)
      /\ Len(evs) = IF e.to \in Terminal THEN 2 ELSE 1
  BY <1>2, <1>3 DEF AnnouncedAs
<1>6. /\ e.to = "completed" => evs[2] = Event("quest.completed", a, q)
      /\ e.to = "failed" => evs[2] = Event("quest.failed", a, q)
  BY <1>3, <1>4, <1>5
<1>7. \A j \in 2 .. Len(evs) : j = 2 /\ e.to \in Terminal
  <2>1. CASE e.to \in Terminal
    <3>1. Len(evs) = 2
      BY <1>5, <2>1
    <3> QED BY <2>1, <3>1, OneTwo
  <2>2. CASE e.to \notin Terminal
    <3>1. Len(evs) = 1
      BY <1>5, <2>2
    <3> QED BY <3>1, OneTwo
  <2> QED BY <2>1, <2>2
<1>8. \A j \in 2 .. Len(evs) : evs[j].type \in {"quest.completed", "quest.failed"}
  BY <1>4, <1>6, <1>7 DEF Event
<1>9. evs \in Seq(Evt) /\ \A j \in 1 .. Len(evs) : evs[j].target = a
  BY <1>2 DEF AnnouncedAs
<1> QED BY <1>5, <1>6, <1>8, <1>9 DEF QuestTold

LEMMA AimedStep ==
  ASSUME TypeOK, TypeOK', Whole(w, exists, haunted), Mindful, Caused, Aimed, Next
  PROVE  Aimed'
<1>0. /\ Len(log) \in Nat /\ Player \cap Door = {}
      /\ DOMAIN agenda' = 1 .. Len(agenda') /\ Len(agenda') \in Nat
      /\ DOMAIN agenda = 1 .. Len(agenda) /\ Len(agenda) \in Nat
  BY ThingsApart, LenProperties DEF Thing, Actor, TypeOK
<1>1. CASE agenda' = <<>>
  BY <1>1, AimedIs
<1>2. ASSUME NEW k, NEW a, Acting(k, a), NEW evs \in Seq(Told), evs \in Seq(Evt),
             Grown(log, log', evs, ByAction(k)),
             agenda' \in Seq(Upcoming(Len(log), Len(log'))), a \notin exists => AtSelf(a, evs)
      PROVE  Aimed'
  <2>1. /\ k \in 1 .. Len(acts') /\ acts'[k] = a /\ exists' = exists
        /\ Len(acts) <= Len(acts') /\ \A i \in 1 .. Len(acts) : acts'[i] = acts[i]
    BY <1>2 DEF Acting, Ongoing
  <2>2. Logs(evs, ByAction(k))
    BY <1>2, <2>1 DEF Logs, ByAction
  <2>3. \A j \in 1 .. Len(evs) : RootIn(log', Len(log) + j) = k
    BY <2>2, RootsGrow DEF ByAction
  <2>4. /\ Len(evs) \in Nat /\ Len(log') = Len(log) + Len(evs) /\ DOMAIN evs = 1 .. Len(evs)
        /\ \A j \in 1 .. Len(evs) : log'[Len(log) + j].target = evs[j].target
    BY <1>2 DEF Grown
  <2>5. ASSUME NEW i \in Len(log) + 1 .. Len(log') PROVE AimedAt(log', acts', exists', i)
    <3> DEFINE j == i - Len(log)
    <3>1. j \in 1 .. Len(evs) /\ i = Len(log) + j /\ i \in 1 .. Len(log')
      BY <1>0, <2>4
    <3> HIDE DEF j
    <3>2. RootIn(log', i) = k /\ log'[i].target = evs[j].target
      BY <2>3, <2>4, <3>1
    <3>3. CASE a \in exists
      BY <2>1, <3>1, <3>2, <3>3 DEF AimedAt
    <3>4. CASE a \notin exists
      <4>1. evs[j].target \in {a} \cup Door
        BY <1>2, <2>4, <3>1, <3>4 DEF AtSelf
      <4> QED BY <1>0, <2>1, <3>1, <3>2, <3>4, <4>1 DEF AimedAt
    <3> QED BY <3>3, <3>4
  <2>6. \A i \in 1 .. Len(agenda') : agenda'[i] \in Upcoming(Len(log), Len(log'))
    BY <1>2
  <2>7. \A d \in Upcoming(Len(log), Len(log')) : d.event \in Len(log) + 1 .. Len(log')
    BY DEF Upcoming
  <2> QED BY <1>0, <2>5, <2>6, <2>7, AimedIs
<1>3. ASSUME NEW k, NEW a, Acting(k, a) PROVE Aimed'
  <2>1. agenda = <<>>
    BY <1>3 DEF Acting, Ongoing
  <2> QED BY <1>1, <1>2, <1>3, <2>1, ActingLogs
<1>4. CASE Deliver
  <2>1. PICK n \in 1 .. Len(log) :
           /\ agenda # <<>>
           /\ \/ Quiet
              \/ \E m \in Machine : \E e : MachineStep(m, e, n)
              \/ \E a, e : \E q \in Quest : Meant(n, a) /\ QuestStep(a, q, e, n)
              \/ \E a : \E q \in Quest : Meant(n, a) /\ LegacyStep(a, q, n)
    BY <1>4, DeliverDoes
  <2>2. CASE Quiet
    <3>1. UNCHANGED <<exists, log, acts>> /\ agenda' \in {Tail(agenda), <<>>}
      BY <2>2 DEF Quiet
    <3>2. CASE agenda' = Tail(agenda)
      <4>1. /\ Len(agenda') = Len(agenda) - 1
            /\ \A i \in 1 .. Len(agenda') : agenda'[i] = agenda[i + 1]
        BY <2>1, <3>2, HeadTailProperties DEF TypeOK
      <4>2. \A i \in 1 .. Len(agenda') : i + 1 \in DOMAIN agenda
        BY <1>0, <4>1
      <4> QED BY <1>0, <3>1, <4>1, <4>2, AimedIs
    <3> QED BY <1>1, <3>1, <3>2
  <2>3. ASSUME NEW m \in Machine, NEW e, MachineStep(m, e, n) PROVE Aimed'
    <3> DEFINE evs == Announced("fsm", Owner[m], m, e)
               v == [w EXCEPT !.fsm[m] = e.to]
    <3>1. evs = Announced("fsm", Owner[m], m, e)
      OBVIOUS
    <3>2. e.from \in State /\ e.to \in State /\ Reacted(v, evs, n)
      BY <2>3 DEF MachineStep
    <3> HIDE DEF evs, v
    <3>3. /\ evs \in Seq(Evt) /\ \A j \in 1 .. Len(evs) : evs[j].target = Owner[m]
          /\ \A j \in 1 .. Len(evs) : evs[j].type \in OfMachines
      <4>1. MachineTold(evs, m, e)
        BY <3>1, <3>2, MachineTells
      <4> QED BY <4>1 DEF MachineTold, OfMachines
    <3> QED BY <2>1, <3>2, <3>3, AimedReaction
  <2>4. ASSUME NEW a, NEW e, NEW q \in Quest, Meant(n, a), QuestStep(a, q, e, n) PROVE Aimed'
    <3> DEFINE evs == Announced("quest", a, q, e)
               v == Rewarded(a, q, e.to, e.reward)
    <3>1. evs = Announced("quest", a, q, e)
      OBVIOUS
    <3>2. e.from \in State /\ e.to \in State /\ Reacted(v, evs, n) /\ a \in Actor
      BY <2>4 DEF QuestStep, Meant, Actor
    <3> HIDE DEF evs, v
    <3>3. evs \in Seq(Evt) /\ \A j \in 1 .. Len(evs) : evs[j].target = a
      <4>1. QuestTold(evs, a, q, e)
        BY <3>1, <3>2, QuestTells
      <4> QED BY <4>1 DEF QuestTold
    <3> QED BY <2>1, <2>4, <3>2, <3>3, AimedReaction
  <2>5. ASSUME NEW a, NEW q \in Quest, Meant(n, a), LegacyStep(a, q, n) PROVE Aimed'
    <3> DEFINE one == Event("quest.completed", a, q)
               v == Rewarded(a, q, "completed", Legacy[q].reward)
    <3>1. Reacted(v, <<one>>, n) /\ a \in Actor
      BY <2>5 DEF LegacyStep, Meant, Actor
    <3>2. one \in Evt /\ one.target = a
      BY <3>1, ReactionEvents DEF Event
    <3> HIDE DEF one, v
    <3>3. <<one>> \in Seq(Evt) /\ \A j \in 1 .. Len(<<one>>) : <<one>>[j].target = a
      BY <3>2
    <3> QED BY <2>1, <2>5, <3>1, <3>3, AimedReaction
  <2> QED BY <2>1, <2>2, <2>3, <2>4, <2>5
<1>5. ASSUME NEW p \in Player, CreatePlayer(p) PROVE Aimed'
  BY <1>1, <1>5 DEF CreatePlayer, Idle
<1>6. CASE Waiting
  BY <1>1, <1>6 DEF Waiting, Ongoing
<1> QED BY <1>3, <1>4, <1>5, <1>6, ActsDo DEF Next

-----------------------------------------------------------------------------
(* Who was in the registry, and whose quests progress.                     *)

\* There, of any history.
ThereIn(c, p, n) ==
  \E i \in {0} \cup DOMAIN c :
    /\ IF i = 0 THEN p = FirstPlayer ELSE c[i].who = p /\ c[i].at < n
    /\ \A j \in DOMAIN c : (i < j /\ c[j].at < n /\ c[j].old = p) => c[j].who = p

\* In the state and in the next one.
LEMMA ThereIs ==
  /\ \A p, n : There(p, n) <=> ThereIn(created, p, n)
  /\ \A p, n : There(p, n)' <=> ThereIn(created', p, n)
  /\ Remembered <=> \A p \in Player : ThereIn(created, p, Len(log) + 1) <=> p \in exists
  /\ Remembered' <=> \A p \in Player : ThereIn(created', p, Len(log') + 1) <=> p \in exists'
BY DEF There, ThereIn, Remembered

\* While nobody is created, it makes no difference how long the log has become.
LEMMA ThereLate ==
  ASSUME NEW c, NEW n \in Nat, \A i \in DOMAIN c : c[i].at \in 0 .. n,
         NEW k \in Nat, n < k, NEW p
  PROVE  ThereIn(c, p, k) <=> ThereIn(c, p, n + 1)
<1>1. \A i \in DOMAIN c : c[i].at < k /\ c[i].at < n + 1
  OBVIOUS
<1> QED BY <1>1 DEF ThereIn

\* Who is created now was not there when something was logged before.
LEMMA ThereBefore ==
  ASSUME NEW c, NEW d, NEW p, NEW old, NEW n, Newborn(c, d, p, old, n),
         NEW k \in 1 .. n, NEW b
  PROVE  ThereIn(d, b, k) <=> ThereIn(c, b, k)
<1>1. /\ DOMAIN c = 1 .. Len(c) /\ Len(c) \in Nat /\ n \in Nat
      /\ \A i \in DOMAIN c : d[i] = c[i] /\ i \in DOMAIN d
      /\ d[Len(c) + 1] = [who |-> p, old |-> old, at |-> n]
      /\ \A i \in DOMAIN d : i = Len(c) + 1 \/ i \in DOMAIN c
  BY NewbornIs
<1>2. ~(d[Len(c) + 1].at < k) /\ Len(c) + 1 # 0
  BY <1>1
<1>3. ASSUME NEW i
      PROVE  (\A j \in DOMAIN d : (i < j /\ d[j].at < k /\ d[j].old = b) => d[j].who = b)
               <=> \A j \in DOMAIN c : (i < j /\ c[j].at < k /\ c[j].old = b) => c[j].who = b
  BY <1>1, <1>2
<1>4. ASSUME NEW i
      PROVE  (i \in DOMAIN d /\ d[i].who = b /\ d[i].at < k)
               <=> (i \in DOMAIN c /\ c[i].who = b /\ c[i].at < k)
  BY <1>1, <1>2
<1>5. 0 \notin DOMAIN c /\ 0 \notin DOMAIN d
  BY <1>1
<1>6. ASSUME ThereIn(d, b, k) PROVE ThereIn(c, b, k)
  <2>1. PICK i \in {0} \cup DOMAIN d :
          /\ IF i = 0 THEN b = FirstPlayer ELSE d[i].who = b /\ d[i].at < k
          /\ \A j \in DOMAIN d : (i < j /\ d[j].at < k /\ d[j].old = b) => d[j].who = b
    BY <1>6 DEF ThereIn
  <2>2. i \in {0} \cup DOMAIN c
    BY <1>4, <2>1
  <2>3. IF i = 0 THEN b = FirstPlayer ELSE c[i].who = b /\ c[i].at < k
    BY <1>4, <2>1
  <2> QED BY <1>3, <2>1, <2>2, <2>3 DEF ThereIn
<1>7. ASSUME ThereIn(c, b, k) PROVE ThereIn(d, b, k)
  <2>1. PICK i \in {0} \cup DOMAIN c :
          /\ IF i = 0 THEN b = FirstPlayer ELSE c[i].who = b /\ c[i].at < k
          /\ \A j \in DOMAIN c : (i < j /\ c[j].at < k /\ c[j].old = b) => c[j].who = b
    BY <1>7 DEF ThereIn
  <2>2. i \in {0} \cup DOMAIN d
    BY <1>4, <2>1
  <2>3. IF i = 0 THEN b = FirstPlayer ELSE d[i].who = b /\ d[i].at < k
    BY <1>4, <2>1
  <2> QED BY <1>3, <2>1, <2>2, <2>3 DEF ThereIn
<1> QED BY <1>6, <1>7

\* It is there now, and whom it replaced is not.
LEMMA ThereNow ==
  ASSUME NEW c, NEW d, NEW p, NEW old, NEW n, Newborn(c, d, p, old, n), NEW b
  PROVE  ThereIn(d, b, n + 1) <=> b = p \/ (ThereIn(c, b, n + 1) /\ b # old)
<1>1. /\ DOMAIN c = 1 .. Len(c) /\ Len(c) \in Nat /\ n \in Nat /\ DOMAIN d = 1 .. Len(c) + 1
      /\ \A i \in DOMAIN c : d[i] = c[i] /\ i \in DOMAIN d
      /\ d[Len(c) + 1] = [who |-> p, old |-> old, at |-> n]
      /\ \A i \in DOMAIN d : i = Len(c) + 1 \/ i \in DOMAIN c
  BY NewbornIs
<1> DEFINE K == Len(c) + 1
<1>2. /\ K \in DOMAIN d /\ K # 0 /\ d[K].who = p /\ d[K].old = old /\ d[K].at < n + 1
      /\ \A i \in {0} \cup DOMAIN c : i < K /\ i # K
      /\ \A i \in DOMAIN d : ~(K < i)
      /\ \A i \in DOMAIN d : i = K \/ i \in DOMAIN c
  BY <1>1
<1> HIDE DEF K
<1>3. ASSUME b = p PROVE ThereIn(d, b, n + 1)
  BY <1>2, <1>3 DEF ThereIn
<1>4. ASSUME b # p, ThereIn(d, b, n + 1) PROVE ThereIn(c, b, n + 1) /\ b # old
  <2>1. PICK i \in {0} \cup DOMAIN d :
          /\ IF i = 0 THEN b = FirstPlayer ELSE d[i].who = b /\ d[i].at < n + 1
          /\ \A j \in DOMAIN d : (i < j /\ d[j].at < n + 1 /\ d[j].old = b) => d[j].who = b
    BY <1>4 DEF ThereIn
  <2>2. i \in {0} \cup DOMAIN c
    BY <1>2, <1>4, <2>1
  <2>3. b # old
    BY <1>2, <1>4, <2>1, <2>2
  <2>4. IF i = 0 THEN b = FirstPlayer ELSE c[i].who = b /\ c[i].at < n + 1
    BY <1>1, <2>1, <2>2
  <2>5. \A j \in DOMAIN c : (i < j /\ c[j].at < n + 1 /\ c[j].old = b) => c[j].who = b
    BY <1>1, <2>1
  <2> QED BY <2>2, <2>3, <2>4, <2>5 DEF ThereIn
<1>5. ASSUME ThereIn(c, b, n + 1), b # old PROVE ThereIn(d, b, n + 1)
  <2>1. PICK i \in {0} \cup DOMAIN c :
          /\ IF i = 0 THEN b = FirstPlayer ELSE c[i].who = b /\ c[i].at < n + 1
          /\ \A j \in DOMAIN c : (i < j /\ c[j].at < n + 1 /\ c[j].old = b) => c[j].who = b
    BY <1>5 DEF ThereIn
  <2>2. i \in {0} \cup DOMAIN d
    BY <1>1, <2>1
  <2>3. IF i = 0 THEN b = FirstPlayer ELSE d[i].who = b /\ d[i].at < n + 1
    BY <1>1, <2>1
  <2>4. ASSUME NEW j \in DOMAIN d, i < j, d[j].at < n + 1, d[j].old = b PROVE d[j].who = b
    <3>1. j \in DOMAIN c /\ d[j] = c[j]
      BY <1>1, <1>2, <1>5, <2>4
    <3> QED BY <2>1, <2>4, <3>1
  <2> QED BY <2>2, <2>3, <2>4 DEF ThereIn
<1> QED BY <1>3, <1>4, <1>5

LEMMA RememberedStep ==
  ASSUME TypeOK, TypeOK', Whole(w, exists, haunted), Mindful, Caused, Aimed, Dated, Remembered, Next
  PROVE  Remembered'
<1>0. /\ Len(log) \in Nat /\ Len(log') \in Nat /\ Len(log) <= Len(log')
      /\ \A i \in DOMAIN created : created[i].at \in 0 .. Len(log)
  BY CausedStep, BornBefore
<1>1. ASSUME exists' = exists, created' = created PROVE Remembered'
  <2> SUFFICES ASSUME NEW b \in Player
               PROVE  ThereIn(created', b, Len(log') + 1) <=> b \in exists'
    BY ThereIs
  <2>1. ThereIn(created, b, Len(log) + 1) <=> b \in exists
    BY ThereIs
  <2>2. Len(log') + 1 \in Nat /\ Len(log) < Len(log') + 1
    BY <1>0
  <2>3. ThereIn(created, b, Len(log') + 1) <=> ThereIn(created, b, Len(log) + 1)
    BY <1>0, <2>2, ThereLate
  <2> QED BY <1>1, <2>1, <2>3
<1>2. ASSUME NEW p \in Player, CreatePlayer(p) PROVE Remembered'
  <2>1. PICK old \in Player \cup {None} :
          Replaces(p, old) /\ Newborn(created, created', p, old, Len(log)) /\ log' = log
    BY <1>2, CreatesNow
  <2> SUFFICES ASSUME NEW b \in Player
               PROVE  ThereIn(created', b, Len(log') + 1) <=> b \in exists'
    BY ThereIs
  <2>2. ThereIn(created, b, Len(log) + 1) <=> b \in exists
    BY ThereIs
  <2>3. ThereIn(created', b, Len(log) + 1) <=> b = p \/ (ThereIn(created, b, Len(log) + 1) /\ b # old)
    BY <2>1, ThereNow
  <2> QED BY <2>1, <2>2, <2>3 DEF Replaces
<1>3. (exists' = exists /\ created' = created) \/ \E p \in Player : CreatePlayer(p)
  <2>1. Waiting \/ (\E k, a : Acting(k, a)) => exists' = exists /\ created' = created
    BY DEF Waiting, Acting, Ongoing
  <2> QED BY <2>1, ActsDo, Delivered DEF Next
<1> QED BY <1>1, <1>2, <1>3

\* Does a quest's event of the target t belong, with the action k, at position n?
Belongs(c, l, ac, t, n) ==
  IF ThereIn(c, ac[RootIn(l, n)], n) THEN t = ac[RootIn(l, n)] ELSE EngagedIn(l, t, n)

LEMMA BelongIs ==
  /\ QuestsBelong <=>
       \A n \in DOMAIN log : log[n].type \in OfQuests => Belongs(created, log, acts, log[n].target, n)
  /\ QuestsBelong' <=>
       \A n \in DOMAIN log' : log'[n].type \in OfQuests => Belongs(created', log', acts', log'[n].target, n)
<1>1. (\A i : Root(i) = RootIn(log, i)) /\ \A i : Root(i)' = RootIn(log', i)
  BY DEF Root, RootIn
<1>2. QuestsBelong <=>
        \A n \in DOMAIN log : log[n].type \in OfQuests => Belongs(created, log, acts, log[n].target, n)
  BY <1>1, ThereIs, EngagedIs DEF QuestsBelong, Belongs
<1>3. QuestsBelong' <=>
        \A n \in DOMAIN log' : log'[n].type \in OfQuests => Belongs(created', log', acts', log'[n].target, n)
  BY <1>1, ThereIs, EngagedIs DEF QuestsBelong, Belongs
<1> QED BY <1>2, <1>3

LEMMA BelongGrows ==
  ASSUME TypeOK, TypeOK', Caused, Dated, Remembered, QuestsBelong, NEW evs, NEW cause, Logs(evs, cause),
         created' = created,
         \A j \in 1 .. Len(evs) : evs[j].type \in OfQuests =>
           /\ cause.kind = "event" /\ acts' = acts /\ Meant(cause.n, evs[j].target)
  PROVE  QuestsBelong'
<1>1. /\ \A i \in 1 .. Len(log) : log'[i] = log[i] /\ RootIn(log', i) = RootIn(log, i)
      /\ \A j \in 1 .. Len(evs) :
           RootIn(log', Len(log) + j) = IF cause.kind = "event" THEN RootIn(log, cause.n) ELSE cause.n
  BY RootsGrow
<1>2. /\ Len(log) \in Nat /\ Len(evs) \in Nat /\ Len(log') = Len(log) + Len(evs)
      /\ \A j \in 1 .. Len(evs) : /\ log'[Len(log) + j].type = evs[j].type
                                  /\ log'[Len(log) + j].target = evs[j].target
  BY DEF Logs, Grown
<1>3. /\ DOMAIN log = 1 .. Len(log) /\ DOMAIN log' = 1 .. Len(log') /\ DOMAIN acts = 1 .. Len(acts)
      /\ \A i \in DOMAIN acts : acts[i] \in Player
  BY WellLogged DEF TypeOK
<1>4. \A i \in 1 .. Len(log) : RootIn(log, i) \in DOMAIN acts
  <2>1. \A i \in 1 .. Len(log) : log[i].cause.kind # "event" => log[i].cause.n \in DOMAIN acts
    BY <1>3 DEF Caused
  <2> QED BY <2>1, WellLogged, RootIsAction
<1>5. ASSUME NEW i \in 1 .. Len(log'), log'[i].type \in OfQuests
      PROVE  Belongs(created', log', acts', log'[i].target, i)
  <2>1. CASE i \in 1 .. Len(log)
    <3>1. Belongs(created, log, acts, log[i].target, i) /\ log'[i] = log[i]
      BY <1>1, <1>3, <1>5, <2>1, BelongIs
    <3>2. acts'[RootIn(log', i)] = acts[RootIn(log, i)]
      BY <1>1, <1>3, <1>4, <2>1 DEF Logs
    <3>3. EngagedIn(log, log[i].target, i) => EngagedIn(log', log[i].target, i)
      <4>1. i \in Nat /\ i <= i /\ RootIn(log', i) = RootIn(log, i)
        BY <1>1, <2>1
      <4> QED BY <1>1, <1>2, <2>1, <4>1, EngagedGrows
    <3> QED BY <3>1, <3>2, <3>3 DEF Belongs
  <2>2. ASSUME NEW j \in 1 .. Len(evs), i = Len(log) + j
        PROVE  Belongs(created', log', acts', log'[i].target, i)
    <3> DEFINE t == evs[j].target
               n == cause.n
               a == acts[RootIn(log, n)]
    <3>1. log'[i].target = t /\ evs[j].type \in OfQuests
      BY <1>2, <1>5, <2>2
    <3>2. acts' = acts /\ Meant(n, t) /\ n \in 1 .. Len(log) /\ RootIn(log', i) = RootIn(log, n)
      BY <1>1, <2>2, <3>1 DEF Logs
    <3>3. a \in Player
      BY <1>3, <1>4, <3>2
    <3>4. ThereIn(created, a, i) <=> a \in exists
      <4>1. i \in Nat /\ Len(log) < i /\ \A k \in DOMAIN created : created[k].at \in 0 .. Len(log)
        BY <1>2, <2>2, BornBefore
      <4>2. ThereIn(created, a, Len(log) + 1) <=> a \in exists
        BY <3>3, ThereIs
      <4> HIDE DEF a
      <4> QED BY <1>2, <4>1, <4>2, ThereLate
    <3>5. EngagedIn(log, t, n) => EngagedIn(log', t, i)
      <4>1. i \in Nat /\ n <= i
        BY <1>2, <2>2, <3>2
      <4> HIDE DEF t, n
      <4> QED BY <1>1, <1>2, <3>2, <4>1, EngagedGrows
    <3>6. IF a \in exists THEN t = a ELSE EngagedIn(log, t, n)
      BY <3>2 DEF Meant
    <3>7. acts'[RootIn(log', i)] = a
      BY <3>2
    <3> HIDE DEF t, n, a
    <3> QED BY <3>1, <3>4, <3>5, <3>6, <3>7 DEF Belongs
  <2>3. i \in 1 .. Len(log) \/ \E j \in 1 .. Len(evs) : i = Len(log) + j
    <3>1. CASE i \notin 1 .. Len(log)
      <4>1. i - Len(log) \in 1 .. Len(evs) /\ i = Len(log) + (i - Len(log))
        BY <1>2, <3>1
      <4> QED BY <4>1
    <3> QED BY <3>1
  <2> QED BY <2>1, <2>2, <2>3
<1> QED BY <1>3, <1>5, BelongIs

LEMMA BelongStep ==
  ASSUME TypeOK, TypeOK', Whole(w, exists, haunted), Mindful, Caused, Aimed, Dated, Remembered,
         QuestsBelong, Next
  PROVE  QuestsBelong'
<1>0. /\ DOMAIN log = 1 .. Len(log) /\ Len(log) \in Nat
      /\ \A i \in 1 .. Len(log) : RootIn(log, i) \in 1 .. Len(acts)
  <2>1. \A i \in 1 .. Len(log) : log[i].cause.kind # "event" => log[i].cause.n \in DOMAIN acts
    BY WellLogged DEF Caused
  <2>2. DOMAIN acts = 1 .. Len(acts)
    BY DEF TypeOK
  <2> QED BY <2>1, <2>2, WellLogged, RootIsAction
<1>1. CASE Calm
  <2>1. ASSUME NEW evs \in Seq(Told), NEW k, Logs(evs, ByAction(k)) PROVE QuestsBelong'
    <3>1. \A j \in 1 .. Len(evs) : evs[j] \in Told
      OBVIOUS
    <3>2. \A e \in Told : e.type \notin OfQuests
      BY DEF Told, OfQuests
    <3>3. created' = created
      BY <1>1 DEF Calm
    <3> QED BY <2>1, <3>1, <3>2, <3>3, BelongGrows
  <2>2. ASSUME log' = log, \A i \in 1 .. Len(acts) : acts'[i] = acts[i] PROVE QuestsBelong'
    <3>1. created' = created
      BY <1>1 DEF Calm
    <3>2. \A i \in 1 .. Len(log) : acts'[RootIn(log, i)] = acts[RootIn(log, i)]
      BY <1>0, <2>2
    <3> QED BY <1>0, <2>2, <3>1, <3>2, BelongIs DEF Belongs
  <2> QED BY <1>1, <2>1, <2>2 DEF Calm
<1>2. ASSUME NEW n \in 1 .. Len(log), NEW m \in Machine, NEW e, MachineStep(m, e, n),
             Logs(Announced("fsm", Owner[m], m, e), ByEvent(n))
      PROVE  QuestsBelong'
  <2> DEFINE evs == Announced("fsm", Owner[m], m, e)
  <2>0. evs = Announced("fsm", Owner[m], m, e)
    OBVIOUS
  <2> HIDE DEF evs
  <2>1. e.from \in State /\ e.to \in State /\ created' = created
    BY <1>2 DEF MachineStep, Reacted
  <2>2. \A j \in 1 .. Len(evs) : evs[j].type \in {"fsm.transitioned", "fsm.completed", "fsm.failed"}
    BY <2>0, <2>1, MachineTells DEF MachineTold
  <2>4. \A j \in 1 .. Len(evs) : evs[j].type \notin OfQuests
    BY <2>2 DEF OfQuests
  <2>5. Logs(evs, ByEvent(n))
    BY <1>2, <2>0
  <2> QED BY <2>1, <2>4, <2>5, BelongGrows
<1>3. ASSUME NEW n \in 1 .. Len(log), NEW evs, NEW a, Meant(n, a), acts' = acts, created' = created,
             Logs(evs, ByEvent(n)), \A j \in 1 .. Len(evs) : evs[j].target = a
      PROVE  QuestsBelong'
  BY <1>3, BelongGrows DEF ByEvent
<1>4. ASSUME NEW n \in 1 .. Len(log), NEW q \in Quest, NEW a, NEW e, Meant(n, a), QuestStep(a, q, e, n),
             Logs(Announced("quest", a, q, e), ByEvent(n))
      PROVE  QuestsBelong'
  <2>1. e.from \in State /\ e.to \in State /\ a \in Actor /\ acts' = acts /\ created' = created
    BY <1>4 DEF QuestStep, Meant, Actor, Reacted
  <2> DEFINE evs == Announced("quest", a, q, e)
  <2>2. evs = Announced("quest", a, q, e)
    OBVIOUS
  <2> HIDE DEF evs
  <2>3. \A j \in 1 .. Len(evs) : evs[j].target = a
    <3>1. QuestTold(evs, a, q, e)
      BY <2>1, <2>2, QuestTells
    <3> QED BY <3>1 DEF QuestTold
  <2> QED BY <1>3, <1>4, <2>1, <2>2, <2>3
<1>5. ASSUME NEW n \in 1 .. Len(log), NEW q \in Quest, NEW a, Meant(n, a), LegacyStep(a, q, n),
             Logs(<<Event("quest.completed", a, q)>>, ByEvent(n))
      PROVE  QuestsBelong'
  <2>1. acts' = acts /\ created' = created
    BY <1>5 DEF LegacyStep, Reacted
  <2> DEFINE evs == <<Event("quest.completed", a, q)>>
  <2>2. \A j \in 1 .. Len(evs) : evs[j].target = a
    BY DEF Event
  <2> HIDE DEF evs
  <2> QED BY <1>3, <1>5, <2>1, <2>2 DEF evs
<1>6. ASSUME NEW p \in Player, CreatePlayer(p) PROVE QuestsBelong'
  <2>1. PICK old \in Player \cup {None} :
          Newborn(created, created', p, old, Len(log)) /\ log' = log
    BY <1>6, CreatesNow
  <2>2. acts' = acts
    BY <1>6 DEF CreatePlayer
  <2>3. \A n \in 1 .. Len(log) : \A b : ThereIn(created', b, n) <=> ThereIn(created, b, n)
    BY <2>1, ThereBefore
  <2> QED BY <1>0, <2>1, <2>2, <2>3, BelongIs DEF Belongs
<1> QED BY <1>1, <1>2, <1>4, <1>5, <1>6, StepKinds

-----------------------------------------------------------------------------
(* Quests and machines have one history, and are completed once.           *)

LEMMA Transitioned ==
  /\ Names["fsm"].transitioned = "fsm.transitioned" /\ Names["quest"].transitioned = "quest.transitioned"
  /\ \A e \in Told : e.type \notin {"fsm.transitioned", "quest.transitioned", "quest.completed"}
BY DEF Names, Told

\* The state of one quest, or of one machine, is set.
QuestSet(a, q, s) ==
  /\ w'.quest[a][q] = s /\ w'.fsm = w.fsm /\ exists' = exists /\ created' = created
  /\ \A b \in Actor, x \in Quest : <<b, x>> # <<a, q>> => w'.quest[b][x] = w.quest[b][x]

\* The player is paid.
Paid(a, coins) ==
  w'.wallet[a] = w.wallet[a] + coins /\ \A b \in Actor \ {a} : w'.wallet[b] = w.wallet[b]

MachineSet(m, s) ==
  /\ w'.fsm[m] = s /\ w'.quest = w.quest /\ w'.wallet = w.wallet /\ exists' = exists /\ created' = created
  /\ \A x \in Machine \ {m} : w'.fsm[x] = w.fsm[x]

LEMMA MachineCells ==
  ASSUME TypeOK, NEW m \in Machine, NEW e, NEW n, MachineStep(m, e, n)
  PROVE  MachineSet(m, e.to) /\ e.from = w.fsm[m] /\ e.from \in State /\ e.to \in State
<1> DEFINE v == [w EXCEPT !.fsm[m] = e.to]
<1>1. /\ w \in World /\ e.from = w.fsm[m] /\ e.from \in State /\ e.to \in State
      /\ Reacted(v, Announced("fsm", Owner[m], m, e), n)
  BY DEF MachineStep, TypeOK
<1>2. v.fsm[m] = e.to /\ v.quest = w.quest /\ v.wallet = w.wallet /\ \A x \in Machine \ {m} : v.fsm[x] = w.fsm[x]
  BY <1>1, SetFsm
<1> HIDE DEF v
<1> QED BY <1>1, <1>2 DEF Reacted, MachineSet

LEMMA QuestCells ==
  ASSUME TypeOK, NEW a \in Actor, NEW q \in Quest, NEW s \in State, NEW coins \in Nat, NEW evs, NEW n,
         Reacted(Rewarded(a, q, s, coins), evs, n)
  PROVE  QuestSet(a, q, s) /\ Paid(a, coins)
<1> DEFINE v == Rewarded(a, q, s, coins)
<1>1. /\ v.quest[a][q] = s /\ v.fsm = w.fsm
      /\ \A b \in Actor, x \in Quest : <<b, x>> # <<a, q>> => v.quest[b][x] = w.quest[b][x]
      /\ v.wallet[a] = w.wallet[a] + coins /\ \A b \in Actor \ {a} : v.wallet[b] = w.wallet[b]
  BY SetQuest
<1>2. Reacted(v, evs, n)
  OBVIOUS
<1> HIDE DEF v
<1> QED BY <1>1, <1>2 DEF Reacted, QuestSet, Paid

\* What is known of a step when it sets a machine's or a quest's state.
MachineGoes ==
  \E m \in Machine : \E e, evs, cause :
    /\ MachineSet(m, e.to) /\ e.from = w.fsm[m]
    /\ MachineTold(evs, m, e) /\ Grown(log, log', evs, cause)

QuestGoes ==
  \E q \in Quest, a \in Player \cap exists : \E e, evs, cause :
    /\ e \in Transitions[q] /\ e.from = w.quest[a][q] /\ e.from \notin Terminal
    /\ QuestSet(a, q, e.to) /\ Paid(a, e.reward)
    /\ QuestTold(evs, a, q, e) /\ Grown(log, log', evs, cause)

LegacyGoes ==
  \E q \in Quest, a \in Player \cap exists : \E evs, cause :
    /\ Transitions[q] = {} /\ w.quest[a][q] = "available"
    /\ QuestSet(a, q, "completed") /\ Paid(a, Legacy[q].reward)
    /\ evs = <<Event("quest.completed", a, q)>> /\ Grown(log, log', evs, cause)

LEMMA Setting ==
  ASSUME TypeOK, Whole(w, exists, haunted), Mindful, Caused, Aimed, Next
  PROVE  Calm \/ MachineGoes \/ QuestGoes \/ LegacyGoes \/ \E p \in Player : CreatePlayer(p)
<1>1. ASSUME NEW n \in 1 .. Len(log), NEW m \in Machine, NEW e, MachineStep(m, e, n),
             Logs(Announced("fsm", Owner[m], m, e), ByEvent(n))
      PROVE  MachineGoes
  <2> DEFINE evs == Announced("fsm", Owner[m], m, e)
  <2>1. evs = Announced("fsm", Owner[m], m, e) /\ Grown(log, log', evs, ByEvent(n))
    BY <1>1 DEF Logs
  <2> HIDE DEF evs
  <2>2. MachineSet(m, e.to) /\ e.from = w.fsm[m] /\ e.from \in State /\ e.to \in State
    BY <1>1, MachineCells
  <2>3. MachineTold(evs, m, e)
    BY <2>1, <2>2, MachineTells
  <2> QED BY <2>1, <2>2, <2>3 DEF MachineGoes
<1>2. ASSUME NEW n \in 1 .. Len(log), NEW q \in Quest, NEW a, NEW e, Meant(n, a), QuestStep(a, q, e, n),
             Logs(Announced("quest", a, q, e), ByEvent(n))
      PROVE  QuestGoes
  <2> DEFINE evs == Announced("quest", a, q, e)
  <2>1. evs = Announced("quest", a, q, e) /\ Grown(log, log', evs, ByEvent(n))
    BY <1>2 DEF Logs
  <2> HIDE DEF evs
  <2>2. /\ a \in Player \cap exists /\ a \in Actor /\ e.from = w.quest[a][q] /\ e.from \notin Terminal
        /\ e.from \in State /\ e.to \in State /\ e.reward \in Nat /\ e \in Transitions[q]
        /\ Reacted(Rewarded(a, q, e.to, e.reward), evs, n)
    BY <1>2, <2>1 DEF QuestStep, Meant, Actor
  <2>3. QuestSet(a, q, e.to) /\ Paid(a, e.reward)
    BY <2>2, QuestCells
  <2>4. QuestTold(evs, a, q, e)
    BY <2>1, <2>2, QuestTells
  <2> QED BY <2>1, <2>2, <2>3, <2>4 DEF QuestGoes
<1>3. ASSUME NEW n \in 1 .. Len(log), NEW q \in Quest, NEW a, Meant(n, a), LegacyStep(a, q, n),
             Logs(<<Event("quest.completed", a, q)>>, ByEvent(n))
      PROVE  LegacyGoes
  <2> DEFINE evs == <<Event("quest.completed", a, q)>>
  <2>1. evs = <<Event("quest.completed", a, q)>> /\ Grown(log, log', evs, ByEvent(n))
    BY <1>3 DEF Logs
  <2> HIDE DEF evs
  <2>2. /\ a \in Player \cap exists /\ a \in Actor /\ Transitions[q] = {} /\ w.quest[a][q] = "available"
        /\ Legacy[q].reward \in Nat /\ "completed" \in State
        /\ Reacted(Rewarded(a, q, "completed", Legacy[q].reward), evs, n)
    BY <1>3, <2>1 DEF LegacyStep, Meant, Actor, State
  <2>3. QuestSet(a, q, "completed") /\ Paid(a, Legacy[q].reward)
    BY <2>2, QuestCells
  <2> QED BY <2>1, <2>2, <2>3 DEF LegacyGoes
<1> QED BY <1>1, <1>2, <1>3, StepKinds

LEMMA StaysDoneStep ==
  ASSUME TypeOK, Whole(w, exists, haunted), Mindful, Caused, Aimed, StaysDone, Next
  PROVE  StaysDone'
<1>0. Player \subseteq Actor
  BY DEF Actor
<1>1. CASE Calm
  BY <1>1 DEF Calm, Untold, StaysDone
<1>2. CASE MachineGoes
  BY <1>2 DEF MachineGoes, MachineSet, StaysDone
<1>3. ASSUME NEW q \in Quest, NEW a \in Player \cap exists, NEW s, QuestSet(a, q, s),
             Start[q] = "completed" => s = "completed"
      PROVE  StaysDone'
  <2> SUFFICES ASSUME NEW p \in Player \cap exists', NEW x \in Quest, Start[x] = "completed"
               PROVE  w'.quest[p][x] = "completed"
    BY DEF StaysDone
  <2>1. p \in Player \cap exists
    BY <1>3 DEF QuestSet
  <2>2. CASE <<p, x>> = <<a, q>>
    BY <1>3, <2>2 DEF QuestSet
  <2>3. CASE <<p, x>> # <<a, q>>
    BY <1>0, <1>3, <2>1, <2>3 DEF QuestSet, StaysDone
  <2> QED BY <2>2, <2>3
<1>4. CASE QuestGoes
  <2>1. PICK q \in Quest, a \in Player \cap exists :
          \E e : QuestSet(a, q, e.to) /\ e.from = w.quest[a][q] /\ e.from \notin Terminal
    BY <1>4 DEF QuestGoes
  <2>2. Start[q] # "completed"
    BY <2>1 DEF StaysDone, Terminal
  <2> QED BY <1>3, <2>1, <2>2
<1>5. CASE LegacyGoes
  BY <1>3, <1>5 DEF LegacyGoes
<1>6. ASSUME NEW p \in Player, CreatePlayer(p) PROVE StaysDone'
  <2>1. /\ exists' \subseteq exists \cup {p} /\ w'.quest[p] = [q \in Quest |-> Start[q]]
        /\ \A a \in Actor \ {p} : w'.quest[a] = w.quest[a]
    BY <1>6, Creates
  <2> QED BY <1>0, <2>1 DEF StaysDone
<1> QED BY <1>1, <1>2, <1>4, <1>5, <1>6, Setting

\* Nobody's history is longer, and nobody's state another.
LEMMA ChainCalm ==
  ASSUME TypeOK, Dated, TransitionsChain, NEW evs, NEW cause, Grown(log, log', evs, cause),
         exists' = exists, created' = created, w'.fsm = w.fsm,
         \A p \in Player \cap exists, q \in Quest : Transitions[q] # {} => w'.quest[p][q] = w.quest[p][q],
         \A j \in 1 .. Len(evs) : evs[j].type \notin {"fsm.transitioned", "quest.transitioned"}
  PROVE  TransitionsChain'
<1>1. ASSUME NEW m \in Machine PROVE OneChain(log', "fsm", Owner[m], m, RenewedIn(created', m), Start[m], w'.fsm[m])
  <2>1. \A j \in 1 .. Len(evs) : ~IsChange(evs[j], "fsm", Owner[m], m)
    BY Transitioned DEF IsChange
  <2>2. OneChain(log, "fsm", Owner[m], m, RenewedIn(created, m), Start[m], w'.fsm[m])
    BY Histories
  <2>3. RenewedIn(created, m) \in Nat
    BY BornBefore
  <2> QED BY <2>1, <2>2, <2>3, ChainKept
<1>2. ASSUME NEW p \in Player \cap exists', NEW q \in Quest, Transitions[q] # {}
      PROVE  OneChain(log', "quest", p, q, BornIn(created', p), Start[q], w'.quest[p][q])
  <2>1. \A j \in 1 .. Len(evs) : ~IsChange(evs[j], "quest", p, q)
    BY Transitioned DEF IsChange
  <2>2. OneChain(log, "quest", p, q, BornIn(created', p), Start[q], w'.quest[p][q])
    BY <1>2, Histories
  <2>3. BornIn(created', p) \in Nat
    BY BornBefore
  <2> QED BY <2>1, <2>2, <2>3, ChainKept
<1> QED BY <1>1, <1>2, Histories

LEMMA ChainMachine ==
  ASSUME TypeOK, Dated, TransitionsChain, MachineGoes
  PROVE  TransitionsChain'
<1>1. PICK m \in Machine : \E e, evs, cause :
        /\ MachineSet(m, e.to) /\ e.from = w.fsm[m]
        /\ MachineTold(evs, m, e) /\ Grown(log, log', evs, cause)
  BY DEF MachineGoes
<1>2. PICK e, evs, cause :
        /\ MachineSet(m, e.to) /\ e.from = w.fsm[m]
        /\ MachineTold(evs, m, e) /\ Grown(log, log', evs, cause)
  BY <1>1
<1>3. /\ evs[1] = Event("fsm.transitioned", Owner[m], <<m, e.from, e.to>>) /\ Len(evs) \in Nat /\ Len(evs) >= 1
      /\ \A j \in 1 .. Len(evs) : evs[j].type # "quest.transitioned"
      /\ \A j \in 2 .. Len(evs) : evs[j].type # "fsm.transitioned"
  <2>1. /\ evs[1] = Event("fsm.transitioned", Owner[m], <<m, e.from, e.to>>) /\ Len(evs) \in {1, 2}
        /\ \A j \in 1 .. Len(evs) : evs[j].type \in {"fsm.transitioned", "fsm.completed", "fsm.failed"}
        /\ \A j \in 2 .. Len(evs) : evs[j].type \in {"fsm.completed", "fsm.failed"}
    BY <1>2 DEF MachineTold
  <2>2. \A j \in 1 .. Len(evs) : evs[j].type # "quest.transitioned"
    BY <2>1
  <2>3. \A j \in 2 .. Len(evs) : evs[j].type # "fsm.transitioned"
    BY <2>1
  <2>4. Len(evs) \in Nat /\ Len(evs) >= 1
    BY <2>1
  <2> QED BY <2>1, <2>2, <2>3, <2>4
<1>4. evs[1].type = "fsm.transitioned" /\ evs[1].target = Owner[m] /\ evs[1].what = <<m, e.from, e.to>>
  BY <1>3 DEF Event
<1>5. OneChain(log', "fsm", Owner[m], m, RenewedIn(created', m), Start[m], w'.fsm[m])
  <2>1. IsChange(evs[1], "fsm", Owner[m], m) /\ evs[1].what[2] = w.fsm[m] /\ evs[1].what[3] = w'.fsm[m]
    BY <1>2, <1>4, Transitioned DEF IsChange, MachineSet
  <2>2. \A j \in 2 .. Len(evs) : ~IsChange(evs[j], "fsm", Owner[m], m)
    BY <1>3, Transitioned DEF IsChange
  <2>3. OneChain(log, "fsm", Owner[m], m, RenewedIn(created, m), Start[m], w.fsm[m])
    BY Histories
  <2>4. RenewedIn(created, m) \in Nat /\ RenewedIn(created, m) <= Len(log) /\ created' = created
    BY <1>2, BornBefore DEF MachineSet
  <2>5. OneChain(log', "fsm", Owner[m], m, RenewedIn(created, m), Start[m], evs[1].what[3])
    BY <1>2, <1>3, <2>1, <2>2, <2>3, <2>4, ChainMoved
  <2> QED BY <2>1, <2>4, <2>5
<1>6. ASSUME NEW x \in Machine \ {m}
      PROVE  OneChain(log', "fsm", Owner[x], x, RenewedIn(created', x), Start[x], w'.fsm[x])
  <2>1. ~IsChange(evs[1], "fsm", Owner[x], x)
    BY <1>4 DEF IsChange
  <2>2. \A j \in 2 .. Len(evs) : ~IsChange(evs[j], "fsm", Owner[x], x)
    BY <1>3, Transitioned DEF IsChange
  <2>3. \A j \in 1 .. Len(evs) : ~IsChange(evs[j], "fsm", Owner[x], x)
    <3>1. \A j \in 1 .. Len(evs) : j = 1 \/ j \in 2 .. Len(evs)
      BY <1>3
    <3> QED BY <2>1, <2>2, <3>1
  <2>4. OneChain(log, "fsm", Owner[x], x, RenewedIn(created, x), Start[x], w'.fsm[x])
    BY <1>2, Histories DEF MachineSet
  <2>5. RenewedIn(created, x) \in Nat /\ created' = created
    BY <1>2, BornBefore DEF MachineSet
  <2> QED BY <1>2, <2>3, <2>4, <2>5, ChainKept
<1>7. ASSUME NEW p \in Player \cap exists', NEW q \in Quest, Transitions[q] # {}
      PROVE  OneChain(log', "quest", p, q, BornIn(created', p), Start[q], w'.quest[p][q])
  <2>1. \A j \in 1 .. Len(evs) : ~IsChange(evs[j], "quest", p, q)
    BY <1>3, Transitioned DEF IsChange
  <2>2. OneChain(log, "quest", p, q, BornIn(created', p), Start[q], w'.quest[p][q])
    BY <1>2, <1>7, Histories DEF MachineSet
  <2>3. BornIn(created', p) \in Nat
    BY <1>2, BornBefore DEF MachineSet
  <2> QED BY <1>2, <2>1, <2>2, <2>3, ChainKept
<1> QED BY <1>5, <1>6, <1>7, Histories

LEMMA ChainQuest ==
  ASSUME TypeOK, Dated, TransitionsChain, QuestGoes
  PROVE  TransitionsChain'
<1>1. PICK q \in Quest, a \in Player \cap exists : \E e, evs, cause :
        /\ QuestSet(a, q, e.to) /\ e.from = w.quest[a][q] /\ e.from \notin Terminal
        /\ QuestTold(evs, a, q, e) /\ Grown(log, log', evs, cause)
  BY DEF QuestGoes
<1>2. PICK e, evs, cause :
        /\ QuestSet(a, q, e.to) /\ e.from = w.quest[a][q]
        /\ QuestTold(evs, a, q, e) /\ Grown(log, log', evs, cause)
  BY <1>1
<1>3. /\ evs[1] = Event("quest.transitioned", a, <<q, e.from, e.to>>) /\ Len(evs) \in Nat /\ Len(evs) >= 1
      /\ \A j \in 2 .. Len(evs) : evs[j].type \notin {"fsm.transitioned", "quest.transitioned"}
  BY <1>2 DEF QuestTold, Grown
<1>4. evs[1].type = "quest.transitioned" /\ evs[1].target = a /\ evs[1].what = <<q, e.from, e.to>>
  BY <1>3 DEF Event
<1>5. \A j \in 1 .. Len(evs) : j = 1 \/ j \in 2 .. Len(evs)
  BY <1>3
<1>6. ASSUME NEW m \in Machine PROVE OneChain(log', "fsm", Owner[m], m, RenewedIn(created', m), Start[m], w'.fsm[m])
  <2>1. \A j \in 1 .. Len(evs) : ~IsChange(evs[j], "fsm", Owner[m], m)
    BY <1>3, <1>4, <1>5, Transitioned DEF IsChange
  <2>2. OneChain(log, "fsm", Owner[m], m, RenewedIn(created, m), Start[m], w'.fsm[m])
    BY <1>2, Histories DEF QuestSet
  <2>3. RenewedIn(created, m) \in Nat /\ created' = created
    BY <1>2, BornBefore DEF QuestSet
  <2> QED BY <1>2, <2>1, <2>2, <2>3, ChainKept
<1>7. ASSUME NEW p \in Player \cap exists', NEW x \in Quest, Transitions[x] # {}
      PROVE  OneChain(log', "quest", p, x, BornIn(created', p), Start[x], w'.quest[p][x])
  <2>1. /\ p \in Player \cap exists /\ p \in Actor /\ created' = created
        /\ BornIn(created, p) \in Nat /\ BornIn(created, p) <= Len(log)
        /\ OneChain(log, "quest", p, x, BornIn(created, p), Start[x], w.quest[p][x])
    BY <1>2, <1>7, Histories, BornBefore DEF QuestSet, Actor
  <2>2. \A j \in 2 .. Len(evs) : ~IsChange(evs[j], "quest", p, x)
    BY <1>3, Transitioned DEF IsChange
  <2>3. CASE p = a /\ x = q
    <3>1. IsChange(evs[1], "quest", p, x) /\ evs[1].what[2] = w.quest[p][x] /\ evs[1].what[3] = w'.quest[p][x]
      BY <1>2, <1>4, <2>3, Transitioned DEF IsChange, QuestSet
    <3>2. OneChain(log', "quest", p, x, BornIn(created, p), Start[x], evs[1].what[3])
      BY <1>2, <1>3, <2>1, <2>2, <3>1, ChainMoved
    <3> QED BY <2>1, <3>1, <3>2
  <2>4. CASE ~(p = a /\ x = q)
    <3>1. ~IsChange(evs[1], "quest", p, x)
      BY <1>4, <2>4 DEF IsChange
    <3>2. \A j \in 1 .. Len(evs) : ~IsChange(evs[j], "quest", p, x)
      BY <1>5, <2>2, <3>1
    <3>3. <<p, x>> # <<a, q>>
      BY <2>4
    <3>4. w'.quest[p][x] = w.quest[p][x]
      BY <1>2, <2>1, <3>3 DEF QuestSet
    <3> QED BY <1>2, <2>1, <3>2, <3>4, ChainKept
  <2> QED BY <2>3, <2>4
<1> QED BY <1>6, <1>7, Histories

\* A player who is created has a history of its own, which begins then.
LEMMA FreshChain ==
  ASSUME NEW l, Len(l) \in Nat, NEW kind, NEW target, NEW x, NEW first
  PROVE  OneChain(l, kind, target, x, Len(l), first, first)
<1>1. ChangesIn(l, kind, target, x, Len(l)) = {}
  BY DEF ChangesIn
<1>2. ChainIn(l, {}, first, first)
  BY DEF ChainIn, StateIn
<1> QED BY <1>1, <1>2 DEF OneChain

LEMMA ChainStep ==
  ASSUME TypeOK, Whole(w, exists, haunted), Mindful, Caused, Aimed, Dated, TransitionsChain, Next
  PROVE  TransitionsChain'
<1>0. Player \subseteq Actor
  BY DEF Actor
<1>1. CASE Calm
  <2>1. CASE log' = log
    <3>1. w'.quest = w.quest /\ w'.fsm = w.fsm /\ exists' = exists /\ created' = created
      BY <1>1 DEF Calm, Untold
    <3> QED BY <2>1, <3>1, Histories
  <2>2. ASSUME NEW evs \in Seq(Told), NEW k, Logs(evs, ByAction(k)) PROVE TransitionsChain'
    <3>1. \A j \in 1 .. Len(evs) : evs[j] \in Told
      OBVIOUS
    <3>2. \A j \in 1 .. Len(evs) : evs[j].type \notin {"fsm.transitioned", "quest.transitioned"}
      BY <3>1, Transitioned
    <3>3. /\ exists' = exists /\ created' = created /\ w'.fsm = w.fsm
          /\ \A p \in Player \cap exists, q \in Quest : Transitions[q] # {} => w'.quest[p][q] = w.quest[p][q]
      BY <1>1 DEF Calm, Untold
    <3>4. Grown(log, log', evs, ByAction(k))
      BY <2>2 DEF Logs
    <3> QED BY <3>2, <3>3, <3>4, ChainCalm
  <2> QED BY <1>1, <2>1, <2>2 DEF Calm
<1>2. CASE MachineGoes
  BY <1>2, ChainMachine
<1>3. CASE QuestGoes
  BY <1>3, ChainQuest
<1>4. CASE LegacyGoes
  <2>1. PICK q \in Quest, a \in Player \cap exists : \E evs, cause :
          /\ Transitions[q] = {} /\ QuestSet(a, q, "completed") /\ w.quest[a][q] = "available"
          /\ evs = <<Event("quest.completed", a, q)>> /\ Grown(log, log', evs, cause)
    BY <1>4 DEF LegacyGoes
  <2>2. PICK evs, cause : evs = <<Event("quest.completed", a, q)>> /\ Grown(log, log', evs, cause)
    BY <2>1
  <2>3. \A j \in 1 .. Len(evs) : evs[j].type \notin {"fsm.transitioned", "quest.transitioned"}
    BY <2>2 DEF Event
  <2>4. exists' = exists /\ created' = created /\ w'.fsm = w.fsm
    BY <2>1 DEF QuestSet
  <2>5. ASSUME NEW p \in Player \cap exists, NEW x \in Quest, Transitions[x] # {}
        PROVE  w'.quest[p][x] = w.quest[p][x]
    <3>1. x # q
      BY <2>1, <2>5
    <3>2. <<p, x>> # <<a, q>>
      BY <3>1
    <3> QED BY <1>0, <2>1, <3>2 DEF QuestSet
  <2> QED BY <2>2, <2>3, <2>4, <2>5, ChainCalm
<1>5. ASSUME NEW p \in Player, CreatePlayer(p) PROVE TransitionsChain'
  <2>1. /\ exists' \subseteq exists \cup {p} /\ w'.quest[p] = [q \in Quest |-> Start[q]]
        /\ \A a \in Actor \ {p} : w'.quest[a] = w.quest[a]
        /\ log' = log
    BY <1>5, Creates
  <2>2. PICK old \in Player \cup {None} : Replaces(p, old) /\ Newborn(created, created', p, old, Len(log))
    BY <1>5, CreatesNow
  <2>3. /\ BornIn(created', p) = Len(log) /\ Len(log) \in Nat
        /\ \A b \in Player \ {p} : BornIn(created', b) = BornIn(created, b)
        /\ \A m \in Machine :
             RenewedIn(created', m) = IF m \in Owned(old) THEN Len(log) ELSE RenewedIn(created, m)
    BY <2>2, BornAppended, BornBefore
  <2>4. ASSUME NEW m \in Machine
        PROVE  OneChain(log', "fsm", Owner[m], m, RenewedIn(created', m), Start[m], w'.fsm[m])
    <3>1. w'.fsm[m] = IF m \in Owned(old) THEN Start[m] ELSE w.fsm[m]
      BY <2>2 DEF Replaces
    <3>2. CASE m \in Owned(old)
      BY <2>1, <2>3, <3>1, <3>2, FreshChain
    <3>3. CASE m \notin Owned(old)
      BY <2>1, <2>3, <3>1, <3>3, Histories
    <3> QED BY <3>2, <3>3
  <2>5. ASSUME NEW b \in Player \cap exists', NEW q \in Quest, Transitions[q] # {}
        PROVE  OneChain(log', "quest", b, q, BornIn(created', b), Start[q], w'.quest[b][q])
    <3>1. CASE b = p
      <4>1. w'.quest[b][q] = Start[q]
        BY <2>1, <3>1
      <4> QED BY <2>1, <2>3, <3>1, <4>1, FreshChain
    <3>2. CASE b # p
      <4>1. b \in Player \cap exists /\ w'.quest[b] = w.quest[b] /\ BornIn(created', b) = BornIn(created, b)
        BY <1>0, <2>1, <2>3, <3>2
      <4> QED BY <2>1, <2>5, <4>1, Histories
    <3> QED BY <3>1, <3>2
  <2> QED BY <2>4, <2>5, Histories
<1> QED BY <1>1, <1>2, <1>3, <1>4, <1>5, Setting

LEMMA OnceCalm ==
  ASSUME TypeOK, Dated, CompletedOnce, NEW evs, NEW cause, Grown(log, log', evs, cause),
         exists' = exists, created' = created,
         \A p \in Player \cap exists, q \in Quest :
           w'.quest[p][q] = "completed" <=> w.quest[p][q] = "completed",
         \A j \in 1 .. Len(evs) : evs[j].type # "quest.completed"
  PROVE  CompletedOnce'
<1> SUFFICES ASSUME NEW p \in Player \cap exists', NEW q \in Quest
             PROVE  Cardinality(HappenedIn(log', "quest.completed", p, q, BornIn(created', p)))
                      = IF w'.quest[p][q] = "completed" /\ Start[q] # "completed" THEN 1 ELSE 0
  BY Histories
<1>1. p \in Player \cap exists /\ BornIn(created, p) \in Nat
  BY BornBefore
<1>2. Cardinality(HappenedIn(log, "quest.completed", p, q, BornIn(created, p)))
        = IF w.quest[p][q] = "completed" /\ Start[q] # "completed" THEN 1 ELSE 0
  BY <1>1, Histories
<1>3. HappenedIn(log', "quest.completed", p, q, BornIn(created, p))
        = HappenedIn(log, "quest.completed", p, q, BornIn(created, p))
  <2>1. \A j \in 1 .. Len(evs) :
          ~(evs[j].type = "quest.completed" /\ evs[j].target = p /\ evs[j].what = q)
    OBVIOUS
  <2> QED BY <1>1, <2>1, NotAgain
<1>4. w'.quest[p][q] = "completed" <=> w.quest[p][q] = "completed"
  BY <1>1
<1> QED BY <1>2, <1>3, <1>4

\* A quest that was not completed is completed by one event.
LEMMA OnceNow ==
  ASSUME TypeOK, Dated, StaysDone, CompletedOnce, NEW evs, NEW cause, Grown(log, log', evs, cause),
         NEW q \in Quest, NEW a \in Player \cap exists, QuestSet(a, q, "completed"),
         w.quest[a][q] # "completed",
         NEW k \in 1 .. Len(evs), evs[k] = Event("quest.completed", a, q),
         \A j \in 1 .. Len(evs) : j # k => evs[j].type # "quest.completed"
  PROVE  CompletedOnce'
<1> SUFFICES ASSUME NEW p \in Player \cap exists', NEW x \in Quest
             PROVE  Cardinality(HappenedIn(log', "quest.completed", p, x, BornIn(created', p)))
                      = IF w'.quest[p][x] = "completed" /\ Start[x] # "completed" THEN 1 ELSE 0
  BY Histories
<1>0. evs[k].type = "quest.completed" /\ evs[k].target = a /\ evs[k].what = q
  BY DEF Event
<1> DEFINE b == BornIn(created, p)
           H == HappenedIn(log, "quest.completed", p, x, b)
           G == HappenedIn(log', "quest.completed", p, x, b)
<1>1. /\ p \in Player \cap exists /\ p \in Actor /\ created' = created
      /\ Len(log) \in Nat /\ b \in Nat /\ b <= Len(log)
  BY BornBefore DEF QuestSet, Actor
<1>2. Cardinality(H) = IF w.quest[p][x] = "completed" /\ Start[x] # "completed" THEN 1 ELSE 0
  BY <1>1, Histories
<1>3. CASE p = a /\ x = q
  <2>1. Start[x] # "completed" /\ w'.quest[p][x] = "completed" /\ Cardinality(H) = 0
    BY <1>1, <1>2, <1>3 DEF StaysDone, QuestSet
  <2>2. H = {}
    <3>1. H \subseteq b + 1 .. Len(log)
      BY DEF HappenedIn
    <3> HIDE DEF H, b
    <3>2. IsFiniteSet(b + 1 .. Len(log))
      <4>1. b + 1 \in Int /\ Len(log) \in Int
        BY <1>1
      <4> QED BY <4>1, FS_Interval
    <3>3. IsFiniteSet(H)
      BY <3>1, <3>2, FS_Subset
    <3> QED BY <2>1, <3>3, FS_EmptySet
  <2>3. G = H \cup {Len(log) + k}
    <3>1. evs[k].type = "quest.completed" /\ evs[k].target = p /\ evs[k].what = x
      BY <1>0, <1>3
    <3>2. \A j \in 1 .. Len(evs) :
            j # k => ~(evs[j].type = "quest.completed" /\ evs[j].target = p /\ evs[j].what = x)
      OBVIOUS
    <3> HIDE DEF b
    <3> QED BY <1>1, <3>1, <3>2, OnceMore
  <2> HIDE DEF G, H, b
  <2>4. Cardinality(G) = 1
    BY <2>2, <2>3, FS_Singleton
  <2> QED BY <1>1, <2>1, <2>4 DEF G, b
<1>4. CASE ~(p = a /\ x = q)
  <2>1. \A j \in 1 .. Len(evs) :
          ~(evs[j].type = "quest.completed" /\ evs[j].target = p /\ evs[j].what = x)
    BY <1>0, <1>4
  <2>2. G = H
    <3> HIDE DEF b
    <3> QED BY <1>1, <2>1, NotAgain
  <2>3. w'.quest[p][x] = w.quest[p][x]
    <3>1. <<p, x>> # <<a, q>>
      BY <1>4
    <3> QED BY <1>1, <3>1 DEF QuestSet
  <2> HIDE DEF H
  <2>4. Cardinality(G) = IF w'.quest[p][x] = "completed" /\ Start[x] # "completed" THEN 1 ELSE 0
    BY <1>2, <2>2, <2>3
  <2> QED BY <1>1, <2>4
<1> QED BY <1>3, <1>4

LEMMA OnceStep ==
  ASSUME TypeOK, Whole(w, exists, haunted), Mindful, Caused, Aimed, Dated, StaysDone, CompletedOnce, Next
  PROVE  CompletedOnce'
<1>0. Player \subseteq Actor
  BY DEF Actor
<1>1. CASE Calm
  <2>0. w'.quest = w.quest /\ exists' = exists /\ created' = created
    BY <1>1 DEF Calm, Untold
  <2>1. CASE log' = log
    BY <2>0, <2>1, Histories
  <2>2. ASSUME NEW evs \in Seq(Told), NEW k, Logs(evs, ByAction(k)) PROVE CompletedOnce'
    <3>1. \A j \in 1 .. Len(evs) : evs[j] \in Told
      OBVIOUS
    <3>2. \A j \in 1 .. Len(evs) : evs[j].type # "quest.completed"
      BY <3>1, Transitioned
    <3>3. Grown(log, log', evs, ByAction(k))
      BY <2>2 DEF Logs
    <3> QED BY <2>0, <3>2, <3>3, OnceCalm
  <2> QED BY <1>1, <2>1, <2>2 DEF Calm
<1>2. CASE MachineGoes
  <2>1. PICK m \in Machine : \E e, evs, cause :
          MachineSet(m, e.to) /\ MachineTold(evs, m, e) /\ Grown(log, log', evs, cause)
    BY <1>2 DEF MachineGoes
  <2>2. PICK e, evs, cause : MachineSet(m, e.to) /\ MachineTold(evs, m, e) /\ Grown(log, log', evs, cause)
    BY <2>1
  <2>3. \A j \in 1 .. Len(evs) : evs[j].type # "quest.completed"
    <3>1. \A j \in 1 .. Len(evs) : evs[j].type \in {"fsm.transitioned", "fsm.completed", "fsm.failed"}
      BY <2>2 DEF MachineTold
    <3> QED BY <3>1
  <2>4. w'.quest = w.quest /\ exists' = exists /\ created' = created
    BY <2>2 DEF MachineSet
  <2> QED BY <2>2, <2>3, <2>4, OnceCalm
<1>3. CASE QuestGoes
  <2>1. PICK q \in Quest, a \in Player \cap exists : \E e, evs, cause :
          /\ QuestSet(a, q, e.to) /\ e.from = w.quest[a][q] /\ e.from \notin Terminal
          /\ QuestTold(evs, a, q, e) /\ Grown(log, log', evs, cause)
    BY <1>3 DEF QuestGoes
  <2>2. PICK e, evs, cause :
          /\ QuestSet(a, q, e.to) /\ w.quest[a][q] \notin Terminal
          /\ QuestTold(evs, a, q, e) /\ Grown(log, log', evs, cause)
    BY <2>1
  <2>3. /\ evs[1].type = "quest.transitioned" /\ Len(evs) = (IF e.to \in Terminal THEN 2 ELSE 1)
        /\ e.to = "completed" => evs[2] = Event("quest.completed", a, q)
        /\ e.to = "failed" => evs[2].type = "quest.failed"
    BY <2>2 DEF QuestTold, Event
  <2>4. w.quest[a][q] # "completed" /\ "completed" \in Terminal /\ \A s \in Terminal : s \in {"completed", "failed"}
    BY <2>2 DEF Terminal
  <2>5. CASE e.to = "completed"
    <3>1. Len(evs) = 2
      BY <2>3, <2>4, <2>5
    <3>2. 2 \in 1 .. Len(evs) /\ \A j \in 1 .. Len(evs) : j # 2 => evs[j].type # "quest.completed"
      BY <2>3, <3>1
    <3>3. QuestSet(a, q, "completed")
      BY <2>2, <2>5
    <3> QED BY <2>2, <2>3, <2>4, <2>5, <3>2, <3>3, OnceNow
  <2>6. CASE e.to # "completed"
    <3>1. \A j \in 1 .. Len(evs) : evs[j].type # "quest.completed"
      <4>1. CASE e.to \in Terminal
        <5>1. Len(evs) = 2 /\ evs[2].type = "quest.failed"
          BY <2>3, <2>4, <2>6, <4>1
        <5> QED BY <2>3, <5>1, OneTwo
      <4>2. CASE e.to \notin Terminal
        <5>1. Len(evs) = 1
          BY <2>3, <4>2
        <5> QED BY <2>3, <5>1, OneTwo
      <4> QED BY <4>1, <4>2
    <3>2. exists' = exists /\ created' = created
      BY <2>2 DEF QuestSet
    <3>3. ASSUME NEW p \in Player \cap exists, NEW x \in Quest
          PROVE  w'.quest[p][x] = "completed" <=> w.quest[p][x] = "completed"
      <4>1. CASE p = a /\ x = q
        BY <2>2, <2>4, <2>6, <4>1 DEF QuestSet
      <4>2. CASE ~(p = a /\ x = q)
        <5>1. <<p, x>> # <<a, q>>
          BY <4>2
        <5> QED BY <1>0, <2>2, <5>1 DEF QuestSet
      <4> QED BY <4>1, <4>2
    <3> QED BY <2>2, <3>1, <3>2, <3>3, OnceCalm
  <2> QED BY <2>5, <2>6
<1>4. CASE LegacyGoes
  <2>1. PICK q \in Quest, a \in Player \cap exists : \E evs, cause :
          /\ QuestSet(a, q, "completed") /\ w.quest[a][q] = "available"
          /\ evs = <<Event("quest.completed", a, q)>> /\ Grown(log, log', evs, cause)
    BY <1>4 DEF LegacyGoes
  <2>2. PICK evs, cause : evs = <<Event("quest.completed", a, q)>> /\ Grown(log, log', evs, cause)
    BY <2>1
  <2>3. /\ 1 \in 1 .. Len(evs) /\ evs[1] = Event("quest.completed", a, q)
        /\ \A j \in 1 .. Len(evs) : j # 1 => evs[j].type # "quest.completed"
    BY <2>2
  <2> QED BY <2>1, <2>2, <2>3, OnceNow
<1>5. ASSUME NEW p \in Player, CreatePlayer(p) PROVE CompletedOnce'
  <2>1. /\ exists' \subseteq exists \cup {p} /\ w'.quest[p] = [q \in Quest |-> Start[q]]
        /\ \A a \in Actor \ {p} : w'.quest[a] = w.quest[a]
        /\ log' = log
    BY <1>5, Creates
  <2>2. /\ BornIn(created', p) = Len(log) /\ Len(log) \in Nat
        /\ \A b \in Player \ {p} : BornIn(created', b) = BornIn(created, b)
    <3>1. PICK old \in Player \cup {None} : Newborn(created, created', p, old, Len(log))
      BY <1>5, CreatesNow
    <3> QED BY <3>1, BornAppended, BornBefore
  <2>3. ASSUME NEW b \in Player \cap exists', NEW q \in Quest
        PROVE  Cardinality(HappenedIn(log', "quest.completed", b, q, BornIn(created', b)))
                 = IF w'.quest[b][q] = "completed" /\ Start[q] # "completed" THEN 1 ELSE 0
    <3>1. CASE b = p
      <4>1. w'.quest[b][q] = Start[q]
        BY <2>1, <3>1
      <4>2. HappenedIn(log', "quest.completed", b, q, BornIn(created', b)) = {}
        BY <2>1, <2>2, <3>1 DEF HappenedIn
      <4> QED BY <4>1, <4>2, FS_EmptySet
    <3>2. CASE b # p
      <4>1. b \in Player \cap exists /\ w'.quest[b] = w.quest[b] /\ BornIn(created', b) = BornIn(created, b)
        BY <1>0, <2>1, <2>2, <3>2
      <4> QED BY <2>1, <4>1, Histories
    <3> QED BY <3>1, <3>2
  <2> QED BY <2>3, Histories
<1> QED BY <1>1, <1>2, <1>3, <1>4, <1>5, Setting

-----------------------------------------------------------------------------
(* What quests are worth.                                                  *)

LEMMA WorthType == \A q \in Quest : Worth(q) \in Nat
<1> SUFFICES ASSUME NEW q \in Quest PROVE Worth(q) \in Nat
  OBVIOUS
<1>1. Rewards(q) \subseteq Nat
  <2>1. QuestOK(q)
    BY AuthoringAssumption
  <2> QED BY <2>1 DEF QuestOK, RewardOK, Rewards
<1> QED BY <1>1 DEF Worth

\* In a package with one reward for each quest, that is what it is worth.
LEMMA WorthIs ==
  ASSUME OneReward, NEW q \in Quest
  PROVE  /\ Transitions[q] = {} => Worth(q) = Legacy[q].reward
         /\ \A e \in Transitions[q] : e.to = "completed" => Worth(q) = e.reward
<1>1. \A r \in Rewards(q) : Worth(q) = r
  BY DEF Worth, OneReward
<1> QED BY <1>1 DEF Rewards

\* What the i-th quest adds.
Value(S, i) == IF QuestOrder[i] \in S THEN Worth(QuestOrder[i]) ELSE 0

\* f[i] is what those of the first i quests are worth that are in S.
Sums(f, n, S) ==
  /\ f \in [0 .. n -> Nat] /\ f[0] = 0
  /\ \A i \in 1 .. n : f[i] = f[i - 1] + Value(S, i)

LEMMA QuestsListed ==
  /\ Len(QuestOrder) \in Nat
  /\ \A i \in 1 .. Len(QuestOrder) : QuestOrder[i] \in Quest
  /\ \A i, j \in 1 .. Len(QuestOrder) : QuestOrder[i] = QuestOrder[j] => i = j
  /\ \A q \in Quest : \E i \in 1 .. Len(QuestOrder) : QuestOrder[i] = q
BY PackageAssumption DEF Range, IsInjective

LEMMA ValueType == \A S, i : i \in 1 .. Len(QuestOrder) => Value(S, i) \in Nat
BY QuestsListed, WorthType DEF Value

LEMMA SumsExist ==
  ASSUME NEW S, NEW n \in 0 .. Len(QuestOrder)
  PROVE  \E f : Sums(f, n, S)
<1> DEFINE Bad == {k \in 0 .. Len(QuestOrder) : ~ \E f : Sums(f, k, S)}
<1> SUFFICES ASSUME Bad # {} PROVE FALSE
  OBVIOUS
<1>0. Len(QuestOrder) \in Nat
  BY QuestsListed
<1>1. PICK k \in Bad : \A i \in Bad : k <= i
  <2>1. Bad \in SUBSET Nat
    BY <1>0
  <2> HIDE DEF Bad
  <2> QED BY <2>1, Lowest
<1>2. k # 0
  <2> DEFINE f == [i \in 0 .. 0 |-> 0]
  <2>1. Sums(f, 0, S)
    BY DEF Sums
  <2> QED BY <2>1
<1>3. k \in 1 .. Len(QuestOrder) /\ k - 1 \in 0 .. Len(QuestOrder) /\ k - 1 \notin Bad
  <2>1. k \in 1 .. Len(QuestOrder) /\ k - 1 \in 0 .. Len(QuestOrder)
    BY <1>0, <1>2
  <2> HIDE DEF Bad
  <2>2. k - 1 \notin Bad
    BY <1>0, <1>1, <2>1
  <2> QED BY <2>1, <2>2
<1>4. PICK f : Sums(f, k - 1, S)
  BY <1>3
<1> DEFINE last == f[k - 1] + Value(S, k)
           g == [i \in 0 .. k |-> IF i = k THEN last ELSE f[i]]
<1>5. k \in Nat /\ last \in Nat
  <2>1. k \in Nat /\ k - 1 \in 0 .. k - 1
    BY <1>0, <1>3
  <2>2. f[k - 1] \in Nat
    BY <1>4, <2>1 DEF Sums
  <2> QED BY <1>3, <2>1, <2>2, ValueType
<1>6. \A i \in 0 .. k : i = k \/ i \in 0 .. k - 1
  BY <1>5
<1> HIDE DEF last
<1>7. g \in [0 .. k -> Nat] /\ g[k] = last /\ \A i \in 0 .. k - 1 : g[i] = f[i]
  <2>1. k \in 0 .. k /\ \A i \in 0 .. k - 1 : i \in 0 .. k /\ i # k
    BY <1>5
  <2>2. g[k] = last /\ \A i \in 0 .. k - 1 : g[i] = f[i]
    BY <2>1
  <2>3. \A i \in 0 .. k - 1 : f[i] \in Nat
    BY <1>4 DEF Sums
  <2>4. \A i \in 0 .. k : g[i] \in Nat
    <3> HIDE DEF g
    <3> QED BY <1>5, <1>6, <2>2, <2>3
  <2> QED BY <2>2, <2>4
<1> HIDE DEF g
<1>8. ASSUME NEW i \in 1 .. k PROVE g[i] = g[i - 1] + Value(S, i)
  <2>1. i - 1 \in 0 .. k - 1 /\ (i = k \/ (i \in 1 .. k - 1 /\ i \in 0 .. k - 1))
    BY <1>5
  <2> QED BY <1>4, <1>7, <2>1 DEF Sums, last
<1>9. 0 \in 0 .. k - 1
  BY <1>3, <1>5
<1>10. Sums(g, k, S)
  BY <1>4, <1>7, <1>8, <1>9 DEF Sums
<1> QED BY <1>1, <1>10

LEMMA TotalIs ==
  ASSUME NEW S
  PROVE  \E f : Sums(f, Len(QuestOrder), S) /\ Total(S) = f[Len(QuestOrder)]
<1> DEFINE n == Len(QuestOrder)
           Eq(h) == h = [i \in 0 .. n |-> IF i = 0 THEN 0
                                          ELSE h[i - 1] + IF QuestOrder[i] \in S
                                                          THEN Worth(QuestOrder[i]) ELSE 0]
           sum == CHOOSE h : Eq(h)
<1>0. n \in Nat /\ n \in 0 .. n
  BY QuestsListed
<1>1. PICK f : Sums(f, n, S)
  BY <1>0, SumsExist
<1>2. Eq(f)
  <2> DEFINE h == [i \in 0 .. n |-> IF i = 0 THEN 0
                                    ELSE f[i - 1] + IF QuestOrder[i] \in S
                                                    THEN Worth(QuestOrder[i]) ELSE 0]
  <2>1. \A i \in 0 .. n : f[i] = h[i]
    <3> SUFFICES ASSUME NEW i \in 0 .. n PROVE f[i] = h[i]
      OBVIOUS
    <3>1. i = 0 \/ i \in 1 .. n
      BY <1>0
    <3> QED BY <1>1, <3>1 DEF Sums, Value
  <2>2. f = [i \in 0 .. n |-> f[i]]
    BY <1>1 DEF Sums
  <2>3. h = [i \in 0 .. n |-> h[i]]
    OBVIOUS
  <2> HIDE DEF h
  <2>4. f = h
    BY <2>1, <2>2, <2>3
  <2> QED BY <2>4 DEF h
<1>3. Eq(sum)
  <2> HIDE DEF Eq
  <2> QED BY <1>2
<1>4. Total(S) = sum[n]
  BY DEF Total
<1> HIDE DEF sum
<1>5. \A i \in 0 .. n : sum[i] = f[i]
  <2> DEFINE Off == {i \in 0 .. n : sum[i] # f[i]}
  <2> SUFFICES ASSUME Off # {} PROVE FALSE
    OBVIOUS
  <2>1. PICK k \in Off : \A i \in Off : k <= i
    <3>1. Off \in SUBSET Nat
      BY <1>0
    <3> HIDE DEF Off
    <3> QED BY <3>1, Lowest
  <2>2. k \in 0 .. n /\ sum[k] # f[k]
    OBVIOUS
  <2>3. sum[0] = 0 /\ f[0] = 0
    <3>1. 0 \in 0 .. n
      BY <1>0
    <3> QED BY <1>1, <1>3, <3>1 DEF Sums
  <2>4. k \in 1 .. n /\ k - 1 \in 0 .. n /\ k - 1 < k
    BY <1>0, <2>2, <2>3
  <2>5. sum[k - 1] = f[k - 1]
    <3> HIDE DEF Off
    <3>1. k - 1 \notin Off
      BY <1>0, <2>1, <2>4
    <3> QED BY <2>4, <3>1 DEF Off
  <2>6. sum[k] = sum[k - 1] + Value(S, k)
    BY <1>3, <2>4 DEF Value
  <2> QED BY <1>1, <2>2, <2>4, <2>5, <2>6 DEF Sums
<1> QED BY <1>0, <1>1, <1>4, <1>5

LEMMA TotalOfNone == Total({}) = 0
<1> DEFINE n == Len(QuestOrder)
<1>0. n \in Nat
  BY QuestsListed
<1>1. PICK f : Sums(f, n, {}) /\ Total({}) = f[n]
  BY TotalIs
<1> DEFINE Off == {i \in 0 .. n : f[i] # 0}
<1> SUFFICES ASSUME Off # {} PROVE FALSE
  BY <1>0, <1>1
<1>2. PICK k \in Off : \A i \in Off : k <= i
  <2>1. Off \in SUBSET Nat
    BY <1>0
  <2> HIDE DEF Off
  <2> QED BY <2>1, Lowest
<1>3. k \in 1 .. n /\ k - 1 \in 0 .. n /\ k - 1 < k /\ f[k] # 0
  BY <1>0, <1>1, <1>2 DEF Sums
<1>4. f[k - 1] = 0
  <2> HIDE DEF Off
  <2>1. k - 1 \notin Off
    BY <1>0, <1>2, <1>3
  <2> QED BY <1>3, <2>1 DEF Off
<1>5. f[k] = f[k - 1] + Value({}, k) /\ Value({}, k) = 0
  BY <1>1, <1>3 DEF Sums, Value
<1> QED BY <1>3, <1>4, <1>5

\* One more quest is worth so much more: it is listed once.
LEMMA TotalAdds ==
  ASSUME NEW S, NEW q \in Quest, q \notin S
  PROVE  Total(S \cup {q}) = Total(S) + Worth(q)
<1> DEFINE n == Len(QuestOrder)
           T == S \cup {q}
<1>0. n \in Nat /\ Worth(q) \in Nat
  BY QuestsListed, WorthType
<1>1. PICK f : Sums(f, n, S) /\ Total(S) = f[n]
  BY TotalIs
<1>2. PICK g : Sums(g, n, T) /\ Total(T) = g[n]
  BY TotalIs
<1>3. PICK j \in 1 .. n : QuestOrder[j] = q
  BY QuestsListed
<1>4. \A i \in 1 .. n : /\ Value(S, i) \in Nat /\ Value(T, i) \in Nat
                        /\ Value(T, i) = Value(S, i) + IF i = j THEN Worth(q) ELSE 0
  <2> SUFFICES ASSUME NEW i \in 1 .. n
               PROVE  /\ Value(S, i) \in Nat /\ Value(T, i) \in Nat
                      /\ Value(T, i) = Value(S, i) + IF i = j THEN Worth(q) ELSE 0
    OBVIOUS
  <2>1. Value(S, i) \in Nat /\ Value(T, i) \in Nat
    BY ValueType
  <2>2. CASE i = j
    <3>1. Value(T, i) = Worth(q) /\ Value(S, i) = 0
      BY <1>3, <2>2 DEF Value
    <3> QED BY <1>0, <2>1, <2>2, <3>1
  <2>3. CASE i # j
    <3>1. QuestOrder[i] # q
      BY <1>3, <2>3, QuestsListed
    <3>2. Value(T, i) = Value(S, i)
      BY <3>1 DEF Value
    <3> QED BY <2>1, <2>3, <3>2
  <2> QED BY <2>2, <2>3
<1> DEFINE d(i) == IF i < j THEN 0 ELSE Worth(q)
           Off == {i \in 0 .. n : g[i] # f[i] + d(i)}
<1>5. Off = {}
  <2> SUFFICES ASSUME Off # {} PROVE FALSE
    OBVIOUS
  <2>1. PICK k \in Off : \A i \in Off : k <= i
    <3>1. Off \in SUBSET Nat
      BY <1>0
    <3> HIDE DEF Off
    <3> QED BY <3>1, Lowest
  <2>2. k \in 0 .. n /\ g[k] # f[k] + d(k)
    OBVIOUS
  <2>3. k # 0
    <3>1. g[0] = 0 /\ f[0] = 0 /\ 0 < j
      BY <1>1, <1>2, <1>3 DEF Sums
    <3> QED BY <2>2, <3>1
  <2>4. k \in 1 .. n /\ k - 1 \in 0 .. n /\ k - 1 < k
    BY <1>0, <2>2, <2>3
  <2>5. g[k - 1] = f[k - 1] + d(k - 1)
    <3> HIDE DEF Off
    <3>1. k - 1 \notin Off
      BY <1>0, <2>1, <2>4
    <3> QED BY <2>4, <3>1 DEF Off
  <2>6. /\ f[k] = f[k - 1] + Value(S, k) /\ g[k] = g[k - 1] + Value(T, k)
        /\ f[k - 1] \in Nat /\ f[k] \in Nat
    BY <1>1, <1>2, <2>4 DEF Sums
  <2>7. d(k) = d(k - 1) + IF k = j THEN Worth(q) ELSE 0
    BY <1>0, <1>3, <2>4
  <2>8. d(k - 1) \in Nat
    BY <1>0
  <2> DEFINE more == IF k = j THEN Worth(q) ELSE 0
  <2>9. more \in Nat /\ Value(S, k) \in Nat /\ Value(T, k) = Value(S, k) + more
    BY <1>0, <1>4, <2>4
  <2>10. d(k) = d(k - 1) + more
    BY <2>7
  <2> HIDE DEF d, T, more
  <2>11. g[k] = (f[k - 1] + d(k - 1)) + (Value(S, k) + more)
    BY <2>5, <2>6, <2>9
  <2>12. f[k] + d(k) = (f[k - 1] + Value(S, k)) + (d(k - 1) + more)
    BY <2>6, <2>10
  <2>13. g[k] = f[k] + d(k)
    BY SMTT(30), <2>6, <2>8, <2>9, <2>11, <2>12
  <2> QED BY <2>2, <2>13
<1>6. g[n] = f[n] + Worth(q)
  <2>1. n \in 0 .. n /\ d(n) = Worth(q)
    BY <1>0, <1>3
  <2> QED BY <1>5, <2>1
<1> QED BY <1>1, <1>2, <1>6

-----------------------------------------------------------------------------
(* Purses.                                                                 *)

\* In the state and in the next one.
DoneIn(v, p) == {q \in Quest : v.quest[p][q] = "completed" /\ Start[q] # "completed"}

LEMMA Purses ==
  /\ PurseHolds <=> \A p \in Player \cap exists : w.wallet[p] = Total(DoneIn(w, p))
  /\ PurseHolds' <=> \A p \in Player \cap exists' : w'.wallet[p] = Total(DoneIn(w', p))
<1>1. PurseHolds <=> \A p \in Player \cap exists : w.wallet[p] = Total(DoneIn(w, p))
  BY DEF PurseHolds, Completed, DoneIn
<1>2. PurseHolds' <=> \A p \in Player \cap exists' : w'.wallet[p] = Total(DoneIn(w', p))
  BY DEF PurseHolds, Completed, DoneIn, Total
<1> QED BY <1>1, <1>2

\* No quest is completed and nobody is paid.
LEMMA PurseCalm ==
  ASSUME PurseHolds, exists' = exists, \A p \in Player \cap exists : w'.wallet[p] = w.wallet[p],
         \A p \in Player \cap exists, q \in Quest :
           w'.quest[p][q] = "completed" <=> w.quest[p][q] = "completed"
  PROVE  PurseHolds'
<1> SUFFICES ASSUME NEW p \in Player \cap exists PROVE w'.wallet[p] = Total(DoneIn(w', p))
  BY Purses
<1>1. DoneIn(w', p) = DoneIn(w, p)
  BY DEF DoneIn
<1> QED BY <1>1, Purses

\* A quest is completed, and what it is worth is paid.
LEMMA PursePaid ==
  ASSUME TypeOK, PurseHolds, StaysDone, NEW q \in Quest, NEW a \in Player \cap exists,
         QuestSet(a, q, "completed"), w.quest[a][q] # "completed", Paid(a, Worth(q))
  PROVE  PurseHolds'
<1> SUFFICES ASSUME NEW p \in Player \cap exists PROVE w'.wallet[p] = Total(DoneIn(w', p))
  BY Purses DEF QuestSet
<1>0. p \in Actor /\ a \in Actor
  BY DEF Actor
<1>1. \A x \in Quest : <<p, x>> # <<a, q>> => w'.quest[p][x] = w.quest[p][x]
  BY <1>0 DEF QuestSet
<1>2. CASE p = a
  <2>1. Start[q] # "completed" /\ q \notin DoneIn(w, p)
    BY <1>2 DEF StaysDone, DoneIn
  <2>2. \A x \in Quest \ {q} : w'.quest[p][x] = w.quest[p][x]
    BY <1>1
  <2>3. DoneIn(w', p) = DoneIn(w, p) \cup {q}
    BY <1>2, <2>1, <2>2 DEF DoneIn, QuestSet
  <2>4. w'.wallet[p] = w.wallet[p] + Worth(q) /\ w.wallet[p] = Total(DoneIn(w, p))
    BY <1>2, Purses DEF Paid
  <2> QED BY <2>1, <2>3, <2>4, TotalAdds
<1>3. CASE p # a
  <2>1. DoneIn(w', p) = DoneIn(w, p)
    BY <1>1, <1>3 DEF DoneIn
  <2> QED BY <1>0, <1>3, <2>1, Purses DEF Paid
<1> QED BY <1>2, <1>3

LEMMA PurseStep ==
  ASSUME TypeOK, Whole(w, exists, haunted), Mindful, Caused, Aimed, StaysDone,
         OneReward, PurseHolds, Next
  PROVE  PurseHolds'
<1>0. Player \subseteq Actor /\ w.wallet \in [Actor -> Nat]
  BY Cells DEF Actor, TypeOK
<1>1. CASE Calm
  BY <1>1, PurseCalm DEF Calm, Untold
<1>2. CASE MachineGoes
  BY <1>2, PurseCalm DEF MachineGoes, MachineSet
<1>3. CASE QuestGoes
  <2>1. PICK q \in Quest, a \in Player \cap exists : \E e :
          /\ e \in Transitions[q] /\ e.from = w.quest[a][q] /\ e.from \notin Terminal
          /\ QuestSet(a, q, e.to) /\ Paid(a, e.reward)
    BY <1>3 DEF QuestGoes
  <2>2. PICK e \in Transitions[q] :
          /\ w.quest[a][q] \notin Terminal /\ QuestSet(a, q, e.to) /\ Paid(a, e.reward)
    BY <2>1
  <2>3. w.quest[a][q] # "completed" /\ a \in Actor
    BY <1>0, <2>2 DEF Terminal
  <2>4. CASE e.to = "completed"
    <3>1. Worth(q) = e.reward
      BY <2>4, WorthIs
    <3> QED BY <2>2, <2>3, <2>4, <3>1, PursePaid
  <2>5. CASE e.to # "completed"
    <3>1. e.reward = 0
      BY <2>5, AuthoringAssumption DEF QuestOK, RewardOK
    <3>2. \A p \in Player \cap exists : w'.wallet[p] = w.wallet[p]
      BY <1>0, <2>2, <3>1 DEF Paid
    <3>3. ASSUME NEW p \in Player \cap exists, NEW x \in Quest
          PROVE  w'.quest[p][x] = "completed" <=> w.quest[p][x] = "completed"
      <4>1. CASE p = a /\ x = q
        BY <2>2, <2>3, <2>5, <4>1 DEF QuestSet
      <4>2. CASE ~(p = a /\ x = q)
        <5>1. <<p, x>> # <<a, q>>
          BY <4>2
        <5> QED BY <1>0, <2>2, <5>1 DEF QuestSet
      <4> QED BY <4>1, <4>2
    <3>4. exists' = exists
      BY <2>2 DEF QuestSet
    <3> QED BY <3>2, <3>3, <3>4, PurseCalm
  <2> QED BY <2>4, <2>5
<1>4. CASE LegacyGoes
  <2>1. PICK q \in Quest, a \in Player \cap exists :
          /\ Transitions[q] = {} /\ w.quest[a][q] = "available"
          /\ QuestSet(a, q, "completed") /\ Paid(a, Legacy[q].reward)
    BY <1>4 DEF LegacyGoes
  <2>2. Worth(q) = Legacy[q].reward /\ w.quest[a][q] # "completed"
    BY <2>1, WorthIs
  <2> QED BY <2>1, <2>2, PursePaid
<1>5. ASSUME NEW p \in Player, CreatePlayer(p) PROVE PurseHolds'
  <2>1. /\ exists' \subseteq exists \cup {p}
        /\ w'.quest[p] = [q \in Quest |-> Start[q]] /\ w'.wallet[p] = 0
        /\ \A a \in Actor \ {p} : w'.quest[a] = w.quest[a] /\ w'.wallet[a] = w.wallet[a]
    BY <1>5, Creates
  <2>2. ASSUME NEW b \in Player \cap exists' PROVE w'.wallet[b] = Total(DoneIn(w', b))
    <3>1. CASE b = p
      <4>1. DoneIn(w', p) = {}
        BY <2>1 DEF DoneIn
      <4> QED BY <2>1, <3>1, <4>1, TotalOfNone
    <3>2. CASE b # p
      <4>1. b \in Player \cap exists /\ w'.wallet[b] = w.wallet[b] /\ w'.quest[b] = w.quest[b]
        BY <1>0, <2>1, <3>2
      <4>2. DoneIn(w', b) = DoneIn(w, b)
        BY <4>1 DEF DoneIn
      <4> QED BY <4>1, <4>2, Purses
    <3> QED BY <3>1, <3>2
  <2> QED BY <2>2, Purses
<1> QED BY <1>1, <1>2, <1>3, <1>4, <1>5, Setting

-----------------------------------------------------------------------------
(* The theorems.                                                           *)

LEMMA Starting ==
  ASSUME Init
  PROVE  TypeOK /\ ReactionsInv
<1>1. /\ w \in Begin /\ exists = Creature \cup {FirstPlayer} /\ log = <<>> /\ acts = <<>> /\ later = <<>>
      /\ agenda = <<>> /\ created = <<>> /\ haunted = {}
  BY DEF Init
<1>2. BeginOK(w) /\ FirstPlayer \in Player
  BY <1>1, PackageAssumption
<1>3. TypeOK
  BY <1>1, <1>2 DEF TypeOK, BeginOK, Actor
<1>4. Everyone
  BY <1>1, <1>2 DEF Everyone, Housed, BeginOK
<1>5. Mindful /\ Caused /\ Aimed /\ Dated /\ QuestsBelong
  BY <1>1 DEF Mindful, Caused, Aimed, Dated, QuestsBelong
<1>6. Player \cap Creature = {} /\ exists \subseteq Actor
  BY <1>1, <1>2, ThingsApart DEF Actor
<1>7. \A p \in Player \cap exists : p = FirstPlayer
  BY <1>1, <1>6
<1>8. \A q \in Quest : w.quest[FirstPlayer][q] = Start[q]
  BY <1>2 DEF BeginOK
<1>9. StaysDone
  BY <1>7, <1>8 DEF StaysDone
<1>10. ItemsAccounted
  <2>1. ASSUME NEW i \in Item
        PROVE  (w.room[i] = None <=> w.carrier[i] # None) /\ w.carrier[i] \in exists \cup {None}
    <3>1. (w.room[i] = None <=> w.carrier[i] # None) /\ w.carrier[i] \in Creature \cup {FirstPlayer, None}
      BY <1>2 DEF BeginOK
    <3>2. \A c : c \in Creature \cup {FirstPlayer, None} => c \in exists \cup {None}
      BY <1>1
    <3> QED BY <3>1, <3>2
  <2> QED BY <2>1 DEF ItemsAccounted
<1>11. BodiesConsistent
  BY <1>2, <1>6 DEF BodiesConsistent, BeginOK
<1>12. /\ Len(log) = 0 /\ \A p : BornIn(created, p) \in 0 .. 0
       /\ \A m : RenewedIn(created, m) \in 0 .. 0
  <2>1. Len(log) = 0 /\ \A i \in DOMAIN created : created[i].at \in 0 .. 0
    BY <1>1
  <2> QED BY <2>1, BornBounded
<1>13. (\A p : BornIn(created, p) = Len(log)) /\ \A m : RenewedIn(created, m) = Len(log)
  BY <1>12
<1>14. TransitionsChain
  <2>1. ASSUME NEW m \in Machine PROVE OneChain(log, "fsm", Owner[m], m, RenewedIn(created, m), Start[m], w.fsm[m])
    <3>1. w.fsm[m] = Start[m]
      BY <1>2 DEF BeginOK
    <3>2. OneChain(log, "fsm", Owner[m], m, Len(log), Start[m], Start[m])
      BY <1>12, FreshChain
    <3> QED BY <1>13, <3>1, <3>2
  <2>2. ASSUME NEW p \in Player \cap exists, NEW q \in Quest
        PROVE  OneChain(log, "quest", p, q, BornIn(created, p), Start[q], w.quest[p][q])
    <3>1. w.quest[p][q] = Start[q]
      BY <1>7, <1>8
    <3>2. OneChain(log, "quest", p, q, Len(log), Start[q], Start[q])
      BY <1>12, FreshChain
    <3> QED BY <1>13, <3>1, <3>2
  <2> QED BY <2>1, <2>2, Histories
<1>15. CompletedOnce
  <2>1. ASSUME NEW p \in Player \cap exists, NEW q \in Quest
        PROVE  Cardinality(HappenedIn(log, "quest.completed", p, q, BornIn(created, p)))
                 = IF w.quest[p][q] = "completed" /\ Start[q] # "completed" THEN 1 ELSE 0
    <3>1. w.quest[p][q] = Start[q]
      BY <1>7, <1>8
    <3>2. HappenedIn(log, "quest.completed", p, q, BornIn(created, p)) = {}
      BY <1>12, <1>13 DEF HappenedIn
    <3> QED BY <3>1, <3>2, FS_EmptySet
  <2> QED BY <2>1, Histories
<1>16. Remembered
  <2>1. \A p \in Player : p \in exists <=> p = FirstPlayer
    BY <1>1, <1>2, <1>6
  <2>2. \A p, n : ThereIn(created, p, n) <=> p = FirstPlayer
    BY <1>1 DEF ThereIn
  <2> QED BY <2>1, <2>2, ThereIs
<1> QED BY <1>3, <1>4, <1>5, <1>9, <1>10, <1>11, <1>14, <1>15, <1>16 DEF ReactionsInv

LEMMA Reacting ==
  ASSUME TypeOK, ReactionsInv, [Next]_vars
  PROVE  TypeOK' /\ ReactionsInv'
<1>1. CASE Next
  <2>1. Whole(w, exists, haunted)
    BY WholeIs DEF ReactionsInv
  <2>2. /\ Mindful /\ Caused /\ Aimed /\ Dated /\ Remembered /\ StaysDone
        /\ TransitionsChain /\ CompletedOnce /\ QuestsBelong
    BY DEF ReactionsInv
  <2>3. TypeOK' /\ Whole(w', exists', haunted')
    BY <1>1, <2>1, <2>2, TypesStep
  <2>4. Everyone' /\ ItemsAccounted' /\ BodiesConsistent'
    BY <2>3, WholeIsNext
  <2>5. Mindful' /\ Caused' /\ Aimed' /\ Dated' /\ Remembered'
    BY <1>1, <2>1, <2>2, <2>3, MindfulStep, CausedStep, AimedStep, DatedStep, RememberedStep
  <2>6. StaysDone'
    BY <1>1, <2>1, <2>2, StaysDoneStep
  <2>7. TransitionsChain'
    BY <1>1, <2>1, <2>2, ChainStep
  <2>8. CompletedOnce'
    BY <1>1, <2>1, <2>2, OnceStep
  <2>9. QuestsBelong'
    BY <1>1, <2>1, <2>2, <2>3, BelongStep
  <2> QED BY <2>3, <2>4, <2>5, <2>6, <2>7, <2>8, <2>9 DEF ReactionsInv
<1>2. CASE UNCHANGED vars
  <2>1. TypeOK'
    BY <1>2 DEF TypeOK, vars
  <2>2. Everyone' /\ Mindful' /\ Caused' /\ Dated' /\ StaysDone' /\ ItemsAccounted' /\ BodiesConsistent'
    BY <1>2 DEF ReactionsInv, Everyone, Mindful, Caused, Dated, StaysDone, ItemsAccounted,
                BodiesConsistent, vars
  <2>3. Aimed' /\ QuestsBelong'
    <3>1. log' = log /\ acts' = acts /\ agenda' = agenda /\ exists' = exists /\ created' = created
      BY <1>2 DEF vars
    <3>2. Aimed'
      BY <2>1, <3>1, AimedIs DEF ReactionsInv
    <3>3. QuestsBelong'
      BY <3>1, BelongIs DEF ReactionsInv
    <3> QED BY <3>2, <3>3
  <2>4. w' = w /\ exists' = exists /\ log' = log /\ created' = created
    BY <1>2 DEF vars
  <2>5. TransitionsChain' /\ CompletedOnce' /\ Remembered'
    BY <2>4, Histories, ThereIs DEF ReactionsInv
  <2> QED BY <2>1, <2>2, <2>3, <2>5 DEF ReactionsInv
<1> QED BY <1>1, <1>2

\* In every state, with whatever package, players and failing appends, every
\* variable is of its type and everything below holds together.
THEOREM Invariance == Spec => [](TypeOK /\ ReactionsInv)
<1>1. Init => TypeOK /\ ReactionsInv
  BY Starting
<1>2. TypeOK /\ ReactionsInv /\ [Next]_vars => (TypeOK /\ ReactionsInv)'
  BY Reacting
<1> QED BY <1>1, <1>2, PTL DEF Spec

\* The types of the store, the log, the actions and the deliveries.
THEOREM Typing == Spec => []TypeOK
<1>1. TypeOK /\ ReactionsInv => TypeOK
  OBVIOUS
<1> QED BY <1>1, Invariance, PTL

\* However items are taken, dropped, handed on, inherited by a player who replaces
\* another, or moved while a cascade is published, an item that no action of a
\* replaced player touched is in one place only, and with somebody who exists.
THEOREM Accountable == Spec => []ItemsAccounted
<1>1. TypeOK /\ ReactionsInv => ItemsAccounted
  BY DEF ReactionsInv
<1> QED BY <1>1, Invariance, PTL

\* Whoever strikes whom, and however many blows an exchange has, those who exist are
\* alive exactly if they have health, and have shield points only under a shield.
THEOREM Bodily == Spec => []BodiesConsistent
<1>1. TypeOK /\ ReactionsInv => BodiesConsistent
  BY DEF ReactionsInv
<1> QED BY <1>1, Invariance, PTL

\* However deep reactions are nested, and wherever an append fails and unwinds them,
\* the log tells of each machine and each authored quest one history without gaps, since
\* the player it belongs to was created or replaced.
THEOREM Gapless == Spec => []TransitionsChain
<1>1. TypeOK /\ ReactionsInv => TransitionsChain
  BY DEF ReactionsInv
<1> QED BY <1>1, Invariance, PTL

\* A quest is completed by one event or by none, as its state says, since its player
\* was created.
THEOREM OnceEach == Spec => []CompletedOnce
<1>1. TypeOK /\ ReactionsInv => CompletedOnce
  BY DEF ReactionsInv
<1> QED BY <1>1, Invariance, PTL

\* Where each quest has one reward, purses hold what the completed quests are worth,
\* however often their conditions were met and whatever was taken back.
THEOREM Earnings ==
  ASSUME OneReward
  PROVE  Spec => []RewardsEarned
<1> DEFINE Inv == TypeOK /\ ReactionsInv /\ PurseHolds
<1>1. Init => Inv
  <2> SUFFICES ASSUME Init PROVE Inv
    OBVIOUS
  <2>1. TypeOK /\ ReactionsInv
    BY Starting
  <2>2. /\ exists = Creature \cup {FirstPlayer} /\ FirstPlayer \in Player
        /\ w.wallet[FirstPlayer] = 0 /\ w.quest[FirstPlayer] = [q \in Quest |-> Start[q]]
    BY PackageAssumption DEF Init, BeginOK
  <2>3. Player \cap Creature = {}
    BY ThingsApart
  <2>4. DoneIn(w, FirstPlayer) = {}
    BY <2>2 DEF DoneIn
  <2>5. PurseHolds
    BY <2>2, <2>3, <2>4, TotalOfNone, Purses
  <2> QED BY <2>1, <2>5
<1>2. Inv /\ [Next]_vars => Inv'
  <2> SUFFICES ASSUME Inv, [Next]_vars PROVE Inv'
    OBVIOUS
  <2>1. TypeOK' /\ ReactionsInv'
    BY Reacting
  <2>2. CASE Next
    <3>1. Whole(w, exists, haunted)
      BY WholeIs DEF ReactionsInv
    <3>2. Mindful /\ Caused /\ Aimed /\ StaysDone
      BY DEF ReactionsInv
    <3> QED BY <2>1, <2>2, <3>1, <3>2, PurseStep
  <2>3. CASE UNCHANGED vars
    <3>1. w' = w /\ exists' = exists
      BY <2>3 DEF vars
    <3> QED BY <2>1, <3>1, PurseCalm
  <2> QED BY <2>2, <2>3
<1>3. Inv => RewardsEarned
  BY DEF ReactionsInv, RewardsEarned
<1> QED BY <1>1, <1>2, <1>3, PTL DEF Spec

\* Only the quests of the player whose action began a cascade move within it, whoever
\* be the targets of its events, unless that player is gone, or never was there: then
\* only those of a player whose own machine has reacted to the action.
THEOREM Belonging == Spec => []QuestsBelong
<1>1. TypeOK /\ ReactionsInv => QuestsBelong
  BY DEF ReactionsInv
<1> QED BY <1>1, Invariance, PTL
=============================================================================
