---------------------------- MODULE MCActionWalk -----------------------------
(***************************************************************************)
(* Behaviors of four phases: every graph in which a phase has at most      *)
(* three successors, and graphs that break another rule in one phase; and  *)
(* linear behaviors with one or two branches and any gates and retries.    *)
(***************************************************************************)
EXTENDS ActionWalk, TLC

MCPhase == 1 .. 4
MCTicks == <<1, 2, 1, 3>>

B(n, w, p) == [priority |-> n, when |-> w, next |-> p]

\* The branches to a set of phases, the smallest of them by the fallback.
To(S) == {B(Cardinality({i \in S : i < p}), \E i \in S : i < p, p) : p \in S}

Proper == {To(S) : S \in {T \in SUBSET MCPhase : Cardinality(T) <= 3}}

\* No fallback, two, one above a condition, two of a priority, too many, and one
\* that leads nowhere.
Improper == {{B(0, TRUE, 2)}, {B(0, FALSE, 2), B(1, FALSE, 3)}, {B(1, FALSE, 2), B(0, TRUE, 3)},
             {B(0, FALSE, 2), B(0, TRUE, 3)}, To(MCPhase), {B(0, FALSE, Unknown)}}

Sound == [branches : [MCPhase -> Proper], gated : {{2, 3, 4}}, retried : {{2, 4}}]

\* Changes to a graph that would be compiled.
Chain == <<{B(0, FALSE, 2), B(1, TRUE, 3)}, {B(0, FALSE, 3)}, {B(0, FALSE, 4)}, {}>>
Broken ==
  [branches : {Chain} \cup {[Chain EXCEPT ![p] = s] : p \in MCPhase, s \in Improper},
   gated : {{}, {1}, {2, 3}}, retried : {{}, {1}, {2}}]

MCAuthored == Sound \cup Broken

MCOrder  == <<1, 2, 3, 4>>
MCPolicy == [max |-> 2, interval |-> 2, timeout |-> 4]

\* Out of each phase but the last one branch, or two of which one is conditional.
Onward(p) == IF p = 4 THEN {{}} ELSE {{B(0, FALSE, p + 1)}, {B(0, FALSE, p + 1), B(1, TRUE, p + 1)}}

MCLines ==
  {r \in [branches : {f \in [MCPhase -> UNION {Onward(p) : p \in MCPhase}] :
                        \A p \in MCPhase : f[p] \in Onward(p)},
          gated : SUBSET {2, 3, 4}, retried : SUBSET {2, 3, 4}] : r.retried \subseteq r.gated}

=============================================================================
