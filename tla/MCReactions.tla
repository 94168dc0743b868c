---------------------------- MODULE MCReactions ----------------------------
(***************************************************************************)
(* A hall and a vault behind a door, a guard, a key and a gift; in the     *)
(* vault, where new players come in, a rat.  Opening the door completes    *)
(* the machine `gate', which alerts the machine `watch' and completes the  *)
(* quest `errand' of whoever gave the gift away; that ends the watch.      *)
(* The watch is the first player's own: talk that comes to nothing,        *)
(* whoever tried it, completes it, and with it fails the errand.  The      *)
(* legacy quest `reach' wants its actor in the vault.                      *)
(***************************************************************************)
EXTENDS Reactions, TLC

CONSTANTS p1, p2, guard, rat, key, gift, door, hall, vault

Edge(from, on, match, to, needs, reward) ==
  [from |-> from, on |-> on, match |-> match, to |-> to, priority |-> 0,
   needs |-> needs, reward |-> reward]

MCExits    == {[from |-> hall, to |-> vault, door |-> door],
               [from |-> vault, to |-> hall, door |-> door]}
MCDoorRoom == door :> hall
MCKeyOf    == door :> key
MCGifted   == {p1, p2, guard}
Swing(n)   == [a \in MCGifted |-> [b \in MCGifted |-> n]]
MCSwings   == Swing(1)
MCHasty    == Swing(2)

Given    == [kind |-> "deliver", item |-> gift, to |-> guard]
InVault  == [kind |-> "reach", item |-> None, to |-> vault]

MCTransitions ==
  [errand |-> {[Edge("available", "given", <<gift, guard>>, "active", {Given}, 0)
                  EXCEPT !.priority = 1],
               Edge("available", "given", None, "failed", {}, 0),
               Edge("active", "fsm.completed", "gate", "completed", {}, 2),
               Edge("available", "fsm.completed", "watch", "failed", {}, 0),
               Edge("active", "defeated", guard, "failed", {}, 0)},
   reach  |-> {}]
MCLegacy == [q \in {"errand", "reach"} |-> [needs |-> {InVault}, reward |-> 1]]
MCSteps ==
  [gate  |-> {Edge("shut", "opened", door, "completed", {}, 0)},
   watch |-> {Edge("calm", "fsm.completed", "gate", "alert", {}, 0),
              Edge("calm", "action.failed", "talk", "completed", {}, 0),
              Edge("alert", "quest.completed", "errand", "failed", {}, 0)}]
MCOwner == [gate |-> None, watch |-> p1]
MCStart == [errand |-> "available", reach |-> "available", gate |-> "shut", watch |-> "calm"]
MCMachineOrder == <<"gate", "watch">>
MCQuestOrder == <<"errand", "reach">>

Does(actor, verb, on, to) == [actor |-> actor, verb |-> verb, on |-> on, to |-> to]

MCSubmitted ==
  {Does(p1, "move", vault, None), Does(p1, "unlock", door, None), Does(p1, "open", door, None),
   Does(p1, "take", key, None), Does(p1, "drop", gift, None), Does(p1, "give", gift, guard),
   Does(p1, "attack", guard, None), Does(p1, "shield", None, None), Does(p1, "haste", None, None),
   Does(p2, "take", gift, None), Does(p2, "drop", gift, None), Does(p2, "open", door, None),
   Does(p2, "attack", p1, None), Does(p2, "attack", rat, None),
   Does(p2, "talk", rat, None), Does(p2, "search", None, None)}

\* The door may be locked; the key lies in the hall or the first player has it.
MCBegin ==
  { [room    |-> (gift :> None @@ key :> (IF held THEN None ELSE hall))
                   @@ [x \in {p1, guard} |-> hall] @@ (p2 :> None) @@ (rat :> vault),
     carrier |-> gift :> p1 @@ key :> (IF held THEN p1 ELSE None),
     locked  |-> door :> locked, open |-> door :> FALSE,
     health  |-> [a \in Actor |-> MaxHealth], alive |-> [a \in Actor |-> TRUE],
     temp    |-> [a \in Actor |-> 0], shield |-> [a \in Actor |-> 0],
     haste   |-> [a \in Actor |-> 0], mana |-> [a \in Actor |-> 2],
     searched |-> [a \in Actor |-> 0], wallet |-> [a \in Actor |-> 0],
     quest   |-> [a \in Actor |-> [q \in Quest |-> MCStart[q]]],
     fsm     |-> [m \in Machine |-> MCStart[m]]]
    : <<held, locked>> \in {<<TRUE, TRUE>>, <<FALSE, FALSE>>} }

\* Each quest of this package has one reward.
ASSUME MCOneReward == OneReward

=============================================================================
