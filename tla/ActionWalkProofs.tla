--------------------------- MODULE ActionWalkProofs ---------------------------
(***************************************************************************)
(* Proofs about ActionGraph and ActionWalk for any finite set of phases,   *)
(* any authored routings, linear behaviors, durations and retry policies:  *)
(* the search compiles exactly the legal behaviors, what it compiles is    *)
(* what the kernel builds on, and the kernel walks it as PhaseWalk says.   *)
(***************************************************************************)
EXTENDS ActionWalk, FiniteSetTheorems, WellFoundedInduction, TLAPS

Legal == ShapeOK /\ (\A p \in Phase : PhaseOK(p)) /\ Acyclic /\ Reachable

\* Once the checks of the single phases passed.
Checked ==
  verdict \in {"visiting", "compiled"} =>
    ShapeOK /\ (\A p \in Phase : PhaseOK(p)) /\ terminal \in Ends

\* The calls under way are a route from the entry phase, without repetition, that
\* has not come to a phase that was visited.
PathInv ==
  verdict = "visiting" =>
    /\ path # <<>> => path[1] = Entry
    /\ path = <<>> => Entry \in visited
    /\ \A i \in 1 .. Len(path) - 1 : path[i + 1] \in Succ(path[i])
    /\ \A i \in 1 .. Len(path) : path[i] \notin visited
    /\ \A i, j \in 1 .. Len(path) : path[i] = path[j] => i = j

\* What was visited is closed, has no cycle, is within reach, and was measured.
Closed == \A p \in visited : Succ(p) \subseteq visited

NoCycle ==
  \A S \in SUBSET visited : S # {} => \E p \in S : Succ(p) \cap S = {}

Found ==
  \A S \in SUBSET Phase :
    (Entry \in S /\ \A p \in S : Succ(p) \cap Phase \subseteq S)
      => visited \subseteq S /\ (verdict = "visiting" => OnPath \subseteq S)

Measured ==
  \A p \in visited :
    /\ longest[p] >= Ticks[p]
    /\ p \in Ends => longest[p] = Ticks[p]
    /\ \A q \in Succ(p) : longest[p] >= Ticks[p] + longest[q]

Ended ==
  /\ verdict = "checking" => visited = {} /\ path = <<>>
  /\ verdict = "compiled" => visited = Phase
  /\ verdict = "rejected" => ~Legal

GraphInv ==
  TypeOK /\ Checked /\ PathInv /\ Closed /\ NoCycle /\ Found /\ Measured /\ Ended

-----------------------------------------------------------------------------
\* A step changes nothing of the behavior itself.
LEMMA SameRouting ==
  ASSUME routing' = routing
  PROVE  /\ \A p : Branches(p)' = Branches(p) /\ Succ(p)' = Succ(p)
         /\ Ends' = Ends
         /\ (ShapeOK <=> ShapeOK') /\ \A p : (PhaseOK(p) <=> PhaseOK(p)')
         /\ (Legal <=> Legal')
<1>1. \A p : Branches(p)' = Branches(p) /\ Succ(p)' = Succ(p)
  BY DEF Branches, Succ
<1>2. Ends' = Ends
  BY <1>1 DEF Ends, Branches
<1>3. ShapeOK <=> ShapeOK'
  BY DEF ShapeOK, Ends, Branches
<1>4. \A p : (PhaseOK(p) <=> PhaseOK(p)')
  BY DEF PhaseOK, FallbackIsLast, Ends, Branches, Succ
<1>5. Legal <=> Legal'
  BY DEF Legal, Acyclic, Reachable, ShapeOK, PhaseOK, FallbackIsLast, Ends, Branches, Succ
<1> QED BY <1>1, <1>2, <1>3, <1>4, <1>5

\* A successor of a well-formed phase is another phase.
LEMMA SuccTyped ==
  ASSUME TypeOK, NEW p \in Phase, PhaseOK(p)
  PROVE  Succ(p) \subseteq Phase \ {p}
BY DEF TypeOK, PhaseOK, Succ, Branches, Routing, Branch

-----------------------------------------------------------------------------
LEMMA BeginInv ==
  ASSUME routing \in Routing, verdict = "checking", terminal = None,
         path = <<>>, visited = {}, longest = [p \in Phase |-> 0]
  PROVE  GraphInv
<1>1. TypeOK
  BY DEF TypeOK
<1>2. Checked /\ PathInv /\ Closed /\ Measured /\ Ended
  BY DEF Checked, PathInv, Closed, Measured, Ended
<1>3. NoCycle
  BY DEF NoCycle
<1>4. Found
  BY DEF Found
<1> QED BY <1>1, <1>2, <1>3, <1>4 DEF GraphInv

LEMMA InitInv ==
  ASSUME Init
  PROVE  GraphInv
BY AuthoredAssumption, BeginInv DEF Init

\* A CompileError leaves everything but the verdict.
LEMMA RejectInv ==
  ASSUME GraphInv, Reject, ~Legal
  PROVE  GraphInv'
<1> USE DEF GraphInv, Reject
<1>1. TypeOK'
  BY DEF TypeOK
<1>2. Checked' /\ PathInv'
  BY DEF Checked, PathInv
<1>3. Closed' /\ NoCycle' /\ Measured'
  BY SameRouting DEF Closed, NoCycle, Measured
<1>4. Found'
  BY SameRouting DEF Found
<1>5. Ended'
  BY SameRouting DEF Ended
<1> QED BY <1>1, <1>2, <1>3, <1>4, <1>5

LEMMA CheckInv ==
  ASSUME GraphInv, Check
  PROVE  GraphInv'
<1>1. CASE ~(ShapeOK /\ \A p \in Phase : PhaseOK(p))
  <2>1. Reject /\ ~Legal
    BY <1>1 DEF Check, Legal
  <2> QED BY <2>1, RejectInv
<1>2. CASE ShapeOK /\ \A p \in Phase : PhaseOK(p)
  <2>1. /\ verdict = "checking" /\ verdict' = "visiting"
        /\ terminal' \in Ends /\ path' = <<Entry>>
        /\ UNCHANGED <<routing, visited, longest>>
    BY <1>2 DEF Check, Reject
  <2>2. visited = {} /\ visited' = {}
    BY <2>1 DEF GraphInv, Ended
  <2>3. Entry \in Phase /\ path' \in Seq(Phase) /\ Len(path') = 1 /\ path'[1] = Entry
    BY <2>1, PhaseAssumption
  <2>4. TypeOK'
    BY <2>1, <2>3 DEF GraphInv, TypeOK, Ends
  <2>5. Checked'
    BY <1>2, <2>1, SameRouting DEF Checked
  <2>6. PathInv'
    BY <2>1, <2>2, <2>3 DEF PathInv
  <2>7. Closed' /\ NoCycle' /\ Measured'
    BY <2>2 DEF Closed, NoCycle, Measured
  <2>8. OnPath' = {Entry}
    BY <2>3, <2>1 DEF OnPath
  <2>9. Found'
    BY <2>2, <2>8 DEF Found
  <2>10. Ended'
    BY <2>1 DEF Ended
  <2> QED BY <2>4, <2>5, <2>6, <2>7, <2>9, <2>10 DEF GraphInv
<1> QED BY <1>1, <1>2

\* The innermost call.
LEMMA TopTyped ==
  ASSUME GraphInv, verdict = "visiting", path # <<>>
  PROVE  /\ Len(path) \in Nat \ {0} /\ Top = path[Len(path)]
         /\ Top \in Phase /\ Top \in OnPath /\ Top \notin visited
         /\ OnPath = {path[i] : i \in 1 .. Len(path)} /\ OnPath \subseteq Phase
         /\ Succ(Top) \subseteq Phase \ {Top}
<1>1. path \in Seq(Phase) /\ Len(path) \in Nat \ {0}
  BY DEF GraphInv, TypeOK
<1>2. Top = path[Len(path)] /\ Top \in Phase /\ Top \notin visited
  BY <1>1 DEF Top, GraphInv, PathInv
<1>3. OnPath = {path[i] : i \in 1 .. Len(path)} /\ OnPath \subseteq Phase /\ Top \in OnPath
  BY <1>1 DEF OnPath, Top
<1>4. Succ(Top) \subseteq Phase \ {Top}
  BY <1>2, SuccTyped DEF GraphInv, Checked
<1> QED BY <1>1, <1>2, <1>3, <1>4

\* A phase that is met while it is visited closes a cycle.
LEMMA CycleIsReal ==
  ASSUME GraphInv, verdict = "visiting", path # <<>>,
         NEW q \in Succ(Top), Cyclic(q)
  PROVE  ~Legal
<1>1. PICK j \in 1 .. Len(path) : path[j] = q
  BY TopTyped DEF Cyclic
<1> DEFINE S == {path[i] : i \in j .. Len(path)}
<1>2. S \in SUBSET Phase /\ S # {}
  BY <1>1, TopTyped DEF GraphInv, TypeOK
<1>3. ASSUME NEW p \in S
      PROVE  Succ(p) \cap S # {}
  <2>1. PICK i \in j .. Len(path) : p = path[i]
    OBVIOUS
  <2>2. CASE i = Len(path)
    <3>1. q \in Succ(p) /\ q \in S
      BY <2>1, <2>2, <1>1, TopTyped
    <3> QED BY <3>1
  <2>3. CASE i # Len(path)
    <3>1. path[i + 1] \in Succ(p)
      BY <2>1, <2>3, <1>1, TopTyped DEF GraphInv, PathInv
    <3>2. path[i + 1] \in S
      BY <2>1, <2>3, <1>1, TopTyped
    <3> QED BY <3>1, <3>2
  <2> QED BY <2>2, <2>3
<1>4. ~Acyclic
  BY <1>2, <1>3 DEF Acyclic
<1> QED BY <1>4 DEF Legal

LEMMA VisitInv ==
  ASSUME GraphInv, Visit
  PROVE  GraphInv'
<1>1. verdict = "visiting" /\ path # <<>>
  BY DEF Visit
<1>2. PICK q \in Succ(Top) :
        \/ Cyclic(q) /\ Reject
        \/ /\ ~Cyclic(q) /\ q \notin visited
           /\ path' = Append(path, q)
           /\ UNCHANGED <<routing, verdict, terminal, visited, longest>>
  BY DEF Visit
<1>3. CASE Cyclic(q) /\ Reject
  BY <1>1, <1>3, CycleIsReal, RejectInv
<1>4. CASE /\ ~Cyclic(q) /\ q \notin visited
           /\ path' = Append(path, q)
           /\ UNCHANGED <<routing, verdict, terminal, visited, longest>>
  <2>1. q \in Phase /\ path \in Seq(Phase) /\ q \notin OnPath
    BY <1>1, <1>4, TopTyped DEF GraphInv, TypeOK, Cyclic
  <2>2. /\ path' \in Seq(Phase) /\ Len(path') = Len(path) + 1 /\ path' # <<>>
        /\ path'[Len(path) + 1] = q /\ \A i \in 1 .. Len(path) : path'[i] = path[i]
    BY <1>4, <2>1
  <2>3. TypeOK'
    BY <1>4, <2>2 DEF GraphInv, TypeOK
  <2>4. Checked' /\ Closed' /\ NoCycle' /\ Measured' /\ Ended'
    BY <1>1, <1>4, SameRouting DEF GraphInv, Checked, Closed, NoCycle, Measured, Ended
  <2>5. PathInv'
    <3>1. path'[1] = Entry
      BY <1>1, <2>2, TopTyped DEF GraphInv, PathInv
    <3>2. ASSUME NEW i \in 1 .. Len(path') - 1
          PROVE  path'[i + 1] \in Succ(path'[i])
      BY <1>1, <2>2, TopTyped DEF GraphInv, PathInv
    <3>3. \A i \in 1 .. Len(path') : path'[i] \notin visited
      BY <1>1, <1>4, <2>2, TopTyped DEF GraphInv, PathInv
    <3>4. \A i, j \in 1 .. Len(path') : path'[i] = path'[j] => i = j
      BY <1>1, <2>1, <2>2, TopTyped DEF GraphInv, PathInv
    <3> QED BY <1>1, <1>4, <2>2, <3>1, <3>2, <3>3, <3>4, SameRouting DEF PathInv
  <2>6. OnPath' = OnPath \cup {q}
    BY <1>1, <2>2, TopTyped DEF OnPath
  <2>7. Found'
    BY <1>1, <1>4, <2>1, <2>6, TopTyped, SameRouting DEF GraphInv, Found
  <2> QED BY <2>3, <2>4, <2>5, <2>7 DEF GraphInv
<1> QED BY <1>2, <1>3, <1>4

LEMMA LeaveInv ==
  ASSUME GraphInv, Leave
  PROVE  GraphInv'
<1>1. /\ verdict = "visiting" /\ path # <<>> /\ Succ(Top) \subseteq visited
      /\ visited' = visited \cup {Top}
      /\ path' = SubSeq(path, 1, Len(path) - 1)
      /\ UNCHANGED <<routing, verdict, terminal>>
  BY DEF Leave
<1>2. PICK tail \in Tails(Top) :
        /\ \A t \in Tails(Top) : t <= tail
        /\ longest' = [longest EXCEPT ![Top] = Ticks[Top] + tail]
  BY DEF Leave
<1>3. visited \subseteq Phase /\ longest \in [Phase -> Nat] /\ path \in Seq(Phase)
  BY DEF GraphInv, TypeOK
<1>4. tail \in Nat /\ Ticks \in [Phase -> Nat \ {0}]
  BY SMTT(30), <1>1, <1>2, <1>3, TopTyped, PhaseAssumption DEF Tails
<1>5. /\ longest'[Top] = Ticks[Top] + tail /\ longest' \in [Phase -> Nat]
      /\ \A p \in visited : longest'[p] = longest[p]
  BY SMTT(30), <1>1, <1>2, <1>3, <1>4, TopTyped
<1>6. /\ path' \in Seq(Phase) /\ Len(path') = Len(path) - 1
      /\ \A i \in 1 .. Len(path') : path'[i] = path[i] /\ i \in 1 .. Len(path) /\ i # Len(path)
  <2>1. Len(path) - 1 \in Nat /\ Len(path) - 1 <= Len(path)
    BY <1>1, TopTyped
  <2>2. \A i \in 1 .. Len(path) - 1 : path[i] \in Phase /\ i \in 1 .. Len(path) /\ i # Len(path)
    BY <1>3, <2>1
  <2>3. path' = [i \in 1 .. Len(path) - 1 |-> path[i]]
    BY <1>1, <2>1
  <2>4. path' \in Seq(Phase) /\ Len(path') = Len(path) - 1
    BY <2>1, <2>2, <2>3
  <2> QED BY <2>2, <2>3, <2>4
<1>7. TypeOK'
  BY <1>1, <1>3, <1>5, <1>6, TopTyped DEF GraphInv, TypeOK
<1>8. Checked' /\ Ended'
  BY <1>1, SameRouting DEF GraphInv, Checked, Ended
<1>9. PathInv'
  <2>1. path' # <<>> => path'[1] = Entry
    BY <1>1, <1>6, TopTyped DEF GraphInv, PathInv
  <2>2. path' = <<>> => Entry \in visited'
    <3> SUFFICES ASSUME path' = <<>> PROVE Entry \in visited'
      OBVIOUS
    <3>1. Len(path) = 1
      BY <1>6, <1>1, TopTyped
    <3>2. Top = Entry
      BY <3>1, <1>1, TopTyped DEF GraphInv, PathInv
    <3> QED BY <3>2, <1>1
  <2>3. \A i \in 1 .. Len(path') - 1 : path'[i + 1] \in Succ(path'[i])
    <3> SUFFICES ASSUME NEW i \in 1 .. Len(path') - 1
                 PROVE  path'[i + 1] \in Succ(path'[i])
      OBVIOUS
    <3>1. path'[i] = path[i] /\ path'[i + 1] = path[i + 1] /\ i \in 1 .. Len(path) - 1
      BY SMTT(30), <1>6, <1>1, TopTyped
    <3> QED BY <3>1, <1>1 DEF GraphInv, PathInv
  <2>4. \A i \in 1 .. Len(path') : path'[i] \notin visited'
    BY SMTT(30), <1>1, <1>6, TopTyped DEF GraphInv, PathInv
  <2>5. \A i, j \in 1 .. Len(path') : path'[i] = path'[j] => i = j
    BY <1>1, <1>6 DEF GraphInv, PathInv
  <2> QED BY <1>1, <2>1, <2>2, <2>3, <2>4, <2>5, SameRouting DEF PathInv
<1>10. Closed'
  BY <1>1, SameRouting DEF GraphInv, Closed
<1>11. NoCycle'
  <2> SUFFICES ASSUME NEW S \in SUBSET visited', S # {}
               PROVE  \E p \in S : Succ(p) \cap S = {}
    BY <1>1, SameRouting DEF NoCycle
  <2>1. CASE S \ {Top} = {}
    BY <1>1, <2>1, TopTyped
  <2>2. CASE S \ {Top} # {}
    <3>1. S \ {Top} \in SUBSET visited
      BY <1>1
    <3>2. PICK p \in S \ {Top} : Succ(p) \cap (S \ {Top}) = {}
      BY <2>2, <3>1 DEF GraphInv, NoCycle
    <3>3. Top \notin Succ(p)
      BY <1>1, <3>1, <3>2, TopTyped DEF GraphInv, Closed
    <3> QED BY <3>2, <3>3
  <2> QED BY <2>1, <2>2
<1>12. Found'
  <2>1. OnPath' \subseteq OnPath
    <3>1. DOMAIN path' = 1 .. Len(path')
      BY <1>6
    <3>2. DOMAIN path = 1 .. Len(path)
      BY <1>3
    <3> QED BY <1>6, <3>1, <3>2 DEF OnPath
  <2>2. Top \in OnPath
    BY <1>1, TopTyped
  <2> QED BY <1>1, <2>1, <2>2, SameRouting DEF GraphInv, Found
<1>13. Measured'
  <2>1. ASSUME NEW p \in visited
        PROVE  /\ longest'[p] >= Ticks[p]
               /\ p \in Ends => longest'[p] = Ticks[p]
               /\ \A q \in Succ(p) : longest'[p] >= Ticks[p] + longest'[q]
    BY <1>5, <1>1 DEF GraphInv, Measured, Closed
  <2>2. /\ longest'[Top] >= Ticks[Top]
        /\ \A q \in Succ(Top) : longest'[Top] >= Ticks[Top] + longest'[q]
    <3>1. longest'[Top] >= Ticks[Top]
      BY <1>1, <1>4, <1>5, TopTyped
    <3>2. ASSUME NEW q \in Succ(Top)
          PROVE  longest'[Top] >= Ticks[Top] + longest'[q]
      <4>1. q \in visited /\ q \in Phase /\ longest'[q] = longest[q] /\ longest[q] \in Nat
        BY <1>1, <1>3, <1>5
      <4>2. longest[q] <= tail
        BY <1>2 DEF Tails
      <4>3. Ticks[Top] \in Nat
        BY <1>1, <1>4, TopTyped
      <4> QED BY <4>1, <4>2, <4>3, <1>4, <1>5
    <3> QED BY <3>1, <3>2
  <2>3. Top \in Ends => longest'[Top] = Ticks[Top]
    <3> SUFFICES ASSUME Top \in Ends PROVE longest'[Top] = Ticks[Top]
      OBVIOUS
    <3>1. Succ(Top) = {}
      BY DEF Ends, Succ
    <3>2. Tails(Top) = {0}
      BY <3>1 DEF Tails
    <3>3. Ticks[Top] \in Nat
      BY <1>1, <1>4, TopTyped
    <3> QED BY <3>2, <3>3, <1>2, <1>5
  <2> QED BY <1>1, <2>1, <2>2, <2>3, SameRouting DEF Measured
<1> QED BY <1>7, <1>8, <1>9, <1>10, <1>11, <1>12, <1>13 DEF GraphInv

LEMMA FinishInv ==
  ASSUME GraphInv, Finish
  PROVE  GraphInv'
<1>1. verdict = "visiting" /\ path = <<>>
  BY DEF Finish
<1>2. CASE visited = Phase
  <2>1. verdict' = "compiled" /\ UNCHANGED <<routing, terminal, path, visited, longest>>
    BY <1>2 DEF Finish
  <2>2. TypeOK' /\ PathInv' /\ Ended'
    BY <1>2, <2>1 DEF GraphInv, TypeOK, PathInv, Ended
  <2>3. Checked'
    BY <1>1, <2>1, SameRouting DEF GraphInv, Checked
  <2>4. Closed' /\ NoCycle' /\ Measured'
    BY <2>1, SameRouting DEF GraphInv, Closed, NoCycle, Measured
  <2>5. Found'
    BY <2>1, SameRouting DEF GraphInv, Found
  <2> QED BY <2>2, <2>3, <2>4, <2>5 DEF GraphInv
<1>3. CASE visited # Phase
  <2>1. Reject
    BY <1>3 DEF Finish
  <2>2. visited \in SUBSET Phase /\ Entry \in visited
    BY <1>1 DEF GraphInv, TypeOK, PathInv
  <2>3. \A p \in visited : Succ(p) \cap Phase \subseteq visited
    BY DEF GraphInv, Closed
  <2>4. ~Reachable
    BY <1>3, <2>2, <2>3 DEF Reachable
  <2> QED BY <2>1, <2>4, RejectInv DEF Legal
<1> QED BY <1>2, <1>3

LEMMA StepInv ==
  ASSUME GraphInv, [Next]_vars
  PROVE  GraphInv'
<1>1. CASE Next
  BY <1>1, CheckInv, VisitInv, LeaveInv, FinishInv DEF Next
<1>2. CASE UNCHANGED vars
  <2>1. TypeOK' /\ Checked' /\ PathInv'
    BY <1>2, SameRouting DEF vars, GraphInv, TypeOK, Checked, PathInv
  <2>2. Closed' /\ NoCycle' /\ Measured' /\ Ended'
    BY <1>2, SameRouting DEF vars, GraphInv, Closed, NoCycle, Measured, Ended
  <2>3. Found'
    BY <1>2, SameRouting DEF vars, GraphInv, Found, OnPath
  <2> QED BY <2>1, <2>2, <2>3 DEF GraphInv
<1> QED BY <1>1, <1>2

\* What the search knows at every step: what it visited is closed, without a
\* cycle, within reach and measured.
THEOREM SearchInvariance == Spec => []GraphInv
<1>1. Init => GraphInv
  BY InitInv
<1>2. GraphInv /\ [Next]_vars => GraphInv'
  BY StepInv
<1> QED BY <1>1, <1>2, PTL DEF Spec

\* The compiler accepts the legal behaviors and no others, whatever the order in
\* which it looks at the branches.
THEOREM CompilesWhatIsLegal == Spec => []VerdictIsRight
<1>1. GraphInv => VerdictIsRight
  <2> SUFFICES ASSUME GraphInv PROVE VerdictIsRight
    OBVIOUS
  <2>1. verdict = "compiled" => Legal
    <3> SUFFICES ASSUME verdict = "compiled" PROVE Legal
      OBVIOUS
    <3>1. visited = Phase
      BY DEF GraphInv, Ended
    <3>2. Acyclic
      BY <3>1 DEF GraphInv, NoCycle, Acyclic
    <3>3. Reachable
      BY <3>1 DEF GraphInv, Found, Reachable
    <3> QED BY <3>2, <3>3 DEF GraphInv, Checked, Legal
  <2>2. verdict = "rejected" => ~Legal
    BY DEF GraphInv, Ended
  <2> QED BY <2>1, <2>2 DEF VerdictIsRight, Legal
<1> QED BY <1>1, SearchInvariance, PTL

\* The one phase without branches ends the graph, and is not the entry phase.
LEMMA OneEnd ==
  ASSUME GraphInv, verdict = "compiled"
  PROVE  Ends = {terminal} /\ terminal \in Phase /\ terminal # Entry
<1>1. Ends \in SUBSET Phase /\ terminal \in Ends /\ ShapeOK /\ visited = Phase
  BY DEF GraphInv, Checked, Ended, Ends
<1>2. IsFiniteSet(Ends)
  BY <1>1, PhaseAssumption, FS_Subset
<1>3. PICK x : Ends = {x}
  BY <1>1, <1>2, FS_Singleton DEF ShapeOK
<1>4. Ends = {terminal} /\ terminal \in Phase
  BY <1>1, <1>3
<1>5. terminal # Entry
  <2> SUFFICES ASSUME terminal = Entry PROVE FALSE
    OBVIOUS
  <2>1. Succ(Entry) = {}
    BY <1>4 DEF Ends, Succ
  <2>2. Phase \subseteq {Entry}
    BY <1>1, <2>1, PhaseAssumption DEF GraphInv, Found
  <2>3. PICK p \in Phase : Cardinality(Branches(p)) >= 2
    BY <1>1 DEF ShapeOK
  <2>4. Branches(p) = {}
    BY <2>2, <2>3, <1>4 DEF Ends
  <2> QED BY <2>3, <2>4, FS_EmptySet
<1> QED BY <1>4, <1>5

\* What the search measured is what the kernel builds on.
LEMMA CanRun ==
  ASSUME GraphInv
  PROVE  KernelCanRun
<1> SUFFICES ASSUME verdict = "compiled"
             PROVE  /\ terminal \in Phase /\ terminal # Entry /\ Branches(terminal) = {}
                    /\ longest[terminal] = Ticks[terminal]
                    /\ \A p \in Phase : \A b \in Branches(p) :
                         b.next \in Phase /\ longest[p] >= Ticks[p] + longest[b.next]
                    /\ \A p \in Phase \ {terminal} : longest[p] > Ticks[p] /\ FallbackIsLast(p)
                    /\ routing.retried \subseteq routing.gated
                    /\ routing.gated \subseteq Phase \ {Entry}
  BY DEF KernelCanRun
<1>1. /\ Ends = {terminal} /\ terminal \in Phase /\ terminal # Entry
      /\ visited = Phase /\ \A p \in Phase : PhaseOK(p)
  BY OneEnd DEF GraphInv, Ended, Checked
<1>2. Branches(terminal) = {} /\ longest[terminal] = Ticks[terminal]
  BY <1>1 DEF Ends, GraphInv, Measured
<1>3. ASSUME NEW p \in Phase, NEW b \in Branches(p)
      PROVE  b.next \in Phase /\ longest[p] >= Ticks[p] + longest[b.next]
  <2>1. b.next \in Succ(p)
    BY DEF Succ
  <2> QED BY <2>1, <1>1, SuccTyped DEF GraphInv, Measured
<1>4. ASSUME NEW p \in Phase \ {terminal}
      PROVE  longest[p] > Ticks[p] /\ FallbackIsLast(p)
  <2>1. p \notin Ends /\ FallbackIsLast(p)
    BY <1>1 DEF PhaseOK
  <2>2. PICK b \in Branches(p) : TRUE
    BY <2>1 DEF Ends
  <2>3. b.next \in Phase /\ longest[p] >= Ticks[p] + longest[b.next]
    BY <1>3, <2>2
  <2>4. longest[b.next] >= Ticks[b.next]
    BY <2>3, <1>1 DEF GraphInv, Measured
  <2>5. Ticks[b.next] \in Nat \ {0} /\ Ticks[p] \in Nat
    BY <2>3, PhaseAssumption
  <2>6. longest[b.next] \in Nat /\ longest[p] \in Nat
    BY <2>3 DEF GraphInv, TypeOK
  <2> QED BY <2>1, <2>3, <2>4, <2>5, <2>6
<1>5. routing.retried \subseteq routing.gated /\ routing.gated \subseteq Phase \ {Entry}
  <2>1. routing.retried \subseteq Phase /\ routing.gated \subseteq Phase
    BY DEF GraphInv, TypeOK, Routing
  <2> QED BY <2>1, <1>1, PhaseAssumption DEF PhaseOK
<1> QED BY <1>1, <1>2, <1>3, <1>4, <1>5

\* What WorldKernel assumes of its behavior holds of every compiled one.
THEOREM CompiledRuns == Spec => []KernelCanRun
BY SearchInvariance, CanRun, PTL

-----------------------------------------------------------------------------
(* The ends of the phases of a linear behavior. *)

LEMMA Lowest == ASSUME NEW S \in SUBSET Nat, S # {} PROVE \E m \in S : \A i \in S : m <= i
<1> DEFINE R == OpToRel(<, Nat)
<1>1. IsWellFoundedOn(R, Nat)
  BY ZenonT(30), NatLessThanWellFounded
<1>2. \A i, m \in Nat : i < m => <<i, m>> \in R
  BY DEF OpToRel
<1> HIDE DEF R
<1>3. PICK m \in S : \A i \in S : <<i, m>> \notin R
  BY <1>1, WFMin
<1>4. m \in Nat /\ \A i \in S : i \in Nat /\ ~(i < m)
  BY <1>2, <1>3
<1> QED BY <1>4

\* The order has each phase once and begins with the entry phase.
LEMMA OrderIs ==
  /\ Len(Order) \in Nat \ {0} /\ Order[1] = Entry
  /\ \A i \in 1..Len(Order) : Order[i] \in Phase
  /\ \A i, j \in 1..Len(Order) : Order[i] = Order[j] => i = j
  /\ \A p \in Phase : \E i \in 1..Len(Order) : p = Order[i]
<1>1. Order \in Seq(Phase) /\ Order # <<>> /\ DOMAIN Order = 1..Len(Order)
  BY WalkAssumption
<1>2. \A i, j \in 1..Len(Order) : Order[i] = Order[j] => i = j
  BY <1>1, WalkAssumption DEF IsInjective
<1>3. \A p \in Phase : \E i \in 1..Len(Order) : p = Order[i]
  BY <1>1, WalkAssumption DEF Range
<1> QED BY <1>1, <1>2, <1>3, WalkAssumption

\* The sums of the ticks of the first phases, up to n.
Sums(f, n) ==
  /\ f \in [0..n -> Nat] /\ f[0] = 0
  /\ \A i \in 1..n : f[i] = f[i - 1] + Ticks[Order[i]]

LEMMA TicksAre == \A i \in 1..Len(Order) : Ticks[Order[i]] \in Nat \ {0}
BY OrderIs, PhaseAssumption

LEMMA SumsExist ==
  ASSUME NEW n \in 0..Len(Order)
  PROVE  \E f : Sums(f, n)
<1> DEFINE Bad == {k \in 0..Len(Order) : ~ \E f : Sums(f, k)}
<1> SUFFICES ASSUME Bad # {} PROVE FALSE
  OBVIOUS
<1>0. Len(Order) \in Nat
  BY OrderIs
<1>1. PICK k \in Bad : \A i \in Bad : k <= i
  <2>1. Bad \in SUBSET Nat
    BY <1>0
  <2> HIDE DEF Bad
  <2> QED BY <2>1, Lowest
<1>2. k # 0
  <2> DEFINE f == [i \in 0..0 |-> 0]
  <2>1. Sums(f, 0)
    BY DEF Sums
  <2> QED BY <2>1
<1>3. k \in 1..Len(Order) /\ k - 1 \in 0..Len(Order) /\ k - 1 \notin Bad
  <2>1. k \in 1..Len(Order) /\ k - 1 \in 0..Len(Order)
    BY <1>0, <1>2
  <2> HIDE DEF Bad
  <2>2. k - 1 \notin Bad
    BY <1>0, <1>1, <2>1
  <2> QED BY <2>1, <2>2
<1>4. PICK f : Sums(f, k - 1)
  BY <1>3
<1> DEFINE last == f[k - 1] + Ticks[Order[k]]
           g == [i \in 0..k |-> IF i = k THEN last ELSE f[i]]
<1>5. k \in Nat /\ last \in Nat
  <2>1. k \in Nat /\ k - 1 \in 0..k - 1
    BY <1>0, <1>3
  <2>2. f[k - 1] \in Nat
    BY <1>4, <2>1 DEF Sums
  <2> QED BY <1>3, <2>1, <2>2, TicksAre
<1>6. \A i \in 0..k : i = k \/ i \in 0..k - 1
  BY <1>5
<1> HIDE DEF last
<1>7. g \in [0..k -> Nat] /\ g[k] = last /\ \A i \in 0..k - 1 : g[i] = f[i]
  <2>1. k \in 0..k /\ \A i \in 0..k - 1 : i \in 0..k /\ i # k
    BY <1>5
  <2>2. g[k] = last /\ \A i \in 0..k - 1 : g[i] = f[i]
    BY <2>1
  <2>3. \A i \in 0..k - 1 : f[i] \in Nat
    BY <1>4 DEF Sums
  <2>4. \A i \in 0..k : g[i] \in Nat
    <3> HIDE DEF g
    <3> QED BY <1>5, <1>6, <2>2, <2>3
  <2> QED BY <2>2, <2>4
<1> HIDE DEF g
<1>8. ASSUME NEW i \in 1..k PROVE g[i] = g[i - 1] + Ticks[Order[i]]
  <2>1. i - 1 \in 0..k - 1 /\ (i = k \/ (i \in 1..k - 1 /\ i \in 0..k - 1))
    BY <1>5
  <2> QED BY <1>4, <1>7, <2>1 DEF Sums, last
<1>9. 0 \in 0..k - 1
  BY <1>3, <1>5
<1>10. Sums(g, k)
  BY <1>4, <1>7, <1>8, <1>9 DEF Sums
<1> QED BY <1>1, <1>10

LEMMA UntilIs == Sums(Until, Len(Order))
<1> DEFINE n == Len(Order)
           Eq(h) == h = [i \in 0..n |-> IF i = 0 THEN 0 ELSE h[i - 1] + Ticks[Order[i]]]
<1>0. n \in Nat /\ n \in 0..n /\ 0 \in 0..n
  BY OrderIs
<1>1. PICK f : Sums(f, n)
  BY <1>0, SumsExist
<1>2. Eq(f)
  <2> DEFINE h == [i \in 0..n |-> IF i = 0 THEN 0 ELSE f[i - 1] + Ticks[Order[i]]]
  <2>1. \A i \in 0..n : f[i] = h[i]
    <3> SUFFICES ASSUME NEW i \in 0..n PROVE f[i] = h[i]
      OBVIOUS
    <3>1. i = 0 \/ i \in 1..n
      BY <1>0
    <3> QED BY <1>1, <3>1 DEF Sums
  <2>2. f = [i \in 0..n |-> f[i]]
    BY <1>1 DEF Sums
  <2>3. h = [i \in 0..n |-> h[i]]
    OBVIOUS
  <2> HIDE DEF h
  <2>4. f = h
    BY <2>1, <2>2, <2>3
  <2> QED BY <2>4 DEF h
<1> DEFINE sum == CHOOSE h : Eq(h)
<1>3. Eq(sum)
  <2> HIDE DEF Eq
  <2> QED BY <1>2
<1>4. Until = sum
  BY DEF Until
<1>5. Eq(Until)
  <2> HIDE DEF Eq, sum
  <2> QED BY <1>3, <1>4
<1>6. \A i \in 0..n : Until[i] = f[i]
  <2> DEFINE Off == {i \in 0..n : Until[i] # f[i]}
  <2> SUFFICES ASSUME Off # {} PROVE FALSE
    OBVIOUS
  <2>1. PICK k \in Off : \A i \in Off : k <= i
    <3>1. Off \in SUBSET Nat
      BY <1>0
    <3> HIDE DEF Off
    <3> QED BY <3>1, Lowest
  <2>2. k \in 0..n /\ Until[k] # f[k]
    OBVIOUS
  <2>3. Until[0] = 0 /\ f[0] = 0
    BY <1>0, <1>1, <1>5 DEF Sums
  <2>4. k \in 1..n /\ k - 1 \in 0..n /\ k - 1 < k
    BY <1>0, <2>2, <2>3
  <2>5. Until[k - 1] = f[k - 1]
    <3> HIDE DEF Off
    <3>1. k - 1 \notin Off
      BY <1>0, <2>1, <2>4
    <3> QED BY <2>4, <3>1 DEF Off
  <2>6. Until[k] = Until[k - 1] + Ticks[Order[k]]
    BY <1>5, <2>4
  <2> QED BY <1>1, <2>2, <2>4, <2>5, <2>6 DEF Sums
<1>7. Until = f
  <2>1. Until = [i \in 0..n |-> Until[i]]
    BY <1>5
  <2>2. f = [i \in 0..n |-> f[i]]
    BY <1>1 DEF Sums
  <2> QED BY <1>6, <2>1, <2>2
<1> QED BY <1>1, <1>7

\* A phase that comes later ends later.
LEMMA UntilGrows ==
  ASSUME NEW i \in 0..Len(Order), NEW j \in 0..Len(Order), i < j
  PROVE  Until[i] < Until[j]
<1> DEFINE Bad == {k \in 0..Len(Order) : i < k /\ ~(Until[i] < Until[k])}
<1> SUFFICES ASSUME Bad # {} PROVE FALSE
  OBVIOUS
<1>0. Len(Order) \in Nat
  BY OrderIs
<1>1. PICK k \in Bad : \A m \in Bad : k <= m
  <2>1. Bad \in SUBSET Nat
    BY <1>0
  <2> HIDE DEF Bad
  <2> QED BY <2>1, Lowest
<1>2. k \in 1..Len(Order) /\ k - 1 \in 0..Len(Order) /\ i < k /\ ~(Until[i] < Until[k])
  BY <1>0
<1>3. /\ Until[k] = Until[k - 1] + Ticks[Order[k]] /\ Ticks[Order[k]] \in Nat \ {0}
      /\ Until[k] \in Nat /\ Until[k - 1] \in Nat /\ Until[i] \in Nat
  BY <1>0, <1>2, UntilIs, TicksAre DEF Sums
<1>4. i < k - 1
  <2> DEFINE x == Until[k - 1]  z == Ticks[Order[k]]
  <2>0. x \in Nat /\ z \in Nat \ {0} /\ Until[k] = x + z
    BY <1>3
  <2> HIDE DEF x, z
  <2>1. x < Until[k]
    BY <2>0
  <2>2. i # k - 1
    BY Zenon, <1>2, <2>1 DEF x
  <2> QED BY <1>0, <1>2, <2>2
<1>5. k - 1 \notin Bad
  <2>1. k \in Nat /\ ~(k <= k - 1)
    BY <1>0, <1>2
  <2> SUFFICES ASSUME k - 1 \in Bad PROVE FALSE
    OBVIOUS
  <2> HIDE DEF Bad
  <2>2. k <= k - 1
    BY <1>1
  <2> QED BY <2>1, <2>2
<1>6. Until[i] < Until[k - 1]
  BY Zenon, <1>2, <1>4, <1>5
<1> DEFINE x == Until[i]
           y == Until[k - 1]
           z == Ticks[Order[k]]
<1>7. x \in Nat /\ y \in Nat /\ z \in Nat \ {0} /\ x < y /\ ~(x < y + z)
  <2>1. Until[k] = y + z
    BY <1>3
  <2>2. ~(x < Until[k])
    BY <1>2
  <2>3. x < y
    BY <1>6
  <2> QED BY Zenon, <1>3, <2>1, <2>2, <2>3
<1> HIDE DEF x, y, z
<1> QED BY <1>7

-----------------------------------------------------------------------------
(* Where an action is. *)

\* The phase the action is in, of a linear behavior and of a compiled one.
LEMMA OnLine ==
  ASSUME WalkInv, model = "linear"
  PROVE  /\ Len(passed) \in 1..Len(Order) /\ Position = Order[Len(passed)]
         /\ Branches(Position) = {} <=> Len(passed) = Len(Order)
         /\ \A b \in Branches(Position) :
              Len(passed) + 1 \in 1..Len(Order) /\ b.next = Order[Len(passed) + 1]
<1>1. routing \in Lines /\ passed \in Seq(Phase) /\ passed # <<>> /\ Len(passed) <= Len(Order)
  BY DEF WalkInv, WalkTypeOK, Submitted, Located
<1>2. Len(passed) \in Nat \ {0} /\ Len(Order) \in Nat \ {0}
  BY <1>1, OrderIs
<1>3. Len(passed) \in 1..Len(passed) /\ Len(passed) \in 1..Len(Order)
  BY <1>1, <1>2
<1>4. Position = Order[Len(passed)]
  BY <1>3 DEF Position, WalkInv, Located
<1>5. CASE Len(passed) = Len(Order)
  <2>1. Branches(Position) = {}
    BY <1>1, <1>4, <1>5, WalkAssumption DEF Branches
  <2> QED BY <1>3, <1>4, <1>5, <2>1
<1>6. CASE Len(passed) # Len(Order)
  <2>1. Len(passed) \in 1..(Len(Order) - 1) /\ Len(passed) + 1 \in 1..Len(Order)
    BY <1>2, <1>3, <1>6
  <2>2. /\ Branches(Position) # {}
        /\ \A b \in Branches(Position) : b.next = Order[Len(passed) + 1]
    BY <1>1, <1>4, <2>1, WalkAssumption DEF Branches
  <2> QED BY <1>3, <1>4, <1>6, <2>1, <2>2
<1> QED BY <1>5, <1>6

LEMMA OnRoute ==
  ASSUME GraphInv, WalkInv, model = "static_dag", outcome # "idle"
  PROVE  /\ verdict = "compiled" /\ terminal \in Phase
         /\ route.at = Position /\ Position \in Phase
         /\ longest \in [Phase -> Nat] /\ longest[Position] >= Ticks[Position]
         /\ Branches(Position) = {} <=> Position = terminal
         /\ Position = terminal <=> longest[Position] = Ticks[Position]
         /\ \A p \in Phase : \A b \in Branches(p) :
              b.next \in Phase /\ longest[p] >= Ticks[p] + longest[b.next]
         /\ longest[terminal] = Ticks[terminal]
<1>1. verdict = "compiled" /\ route.at = Position /\ route.at \in Phase
  BY DEF WalkInv, WalkTypeOK, Submitted, Located
<1>2. KernelCanRun
  BY CanRun
<1>3. longest \in [Phase -> Nat]
  BY DEF GraphInv, TypeOK
<1>4. ASSUME NEW p \in Phase \ {terminal} PROVE Branches(p) # {} /\ longest[p] > Ticks[p]
  BY <1>1, <1>2 DEF KernelCanRun, FallbackIsLast
<1>5. Branches(terminal) = {} /\ longest[terminal] = Ticks[terminal] /\ terminal \in Phase
  BY <1>1, <1>2 DEF KernelCanRun
<1>6. Position = terminal \/ Position \in Phase \ {terminal}
  BY <1>1
<1>7. \A p \in Phase : \A b \in Branches(p) :
        b.next \in Phase /\ longest[p] >= Ticks[p] + longest[b.next]
  BY <1>1, <1>2 DEF KernelCanRun
<1>8. longest[Position] \in Nat /\ Ticks[Position] \in Nat /\ Position \in Phase
  BY <1>1, <1>3, PhaseAssumption
<1>9. CASE Position = terminal
  BY <1>1, <1>3, <1>5, <1>7, <1>8, <1>9
<1>10. CASE Position \in Phase \ {terminal}
  <2>1. Branches(Position) # {} /\ longest[Position] > Ticks[Position]
    BY <1>4, <1>10
  <2> QED BY <1>1, <1>3, <1>5, <1>7, <1>8, <1>10, <2>1
<1> QED BY <1>6, <1>9, <1>10

LEMMA LeftIs ==
  ASSUME outcome = "pending"
  PROVE  /\ retry # None => Left = retry.next - tick
         /\ retry = None /\ model = "linear" => Left = Until[Len(passed)] - Elapsed(tick)
         /\ retry = None /\ model # "linear" => Left = route.due - tick
BY DEF Left

\* The ticks that are left of the phase, and those that may follow.
LEMMA HereIs ==
  ASSUME GraphInv, WalkInv, outcome = "pending"
  PROVE  /\ Position \in Phase /\ Ticks[Position] \in Nat \ {0}
         /\ tick \in Nat /\ due \in Nat /\ Left \in Nat \ {0} /\ Rest \in Nat
         /\ Rest = 0 <=> Branches(Position) = {}
         /\ due >= tick + Left + Rest
         /\ Branches(Position) = {} => due = tick + Left
<1>1. tick \in Nat /\ due \in Nat /\ Left > 0 /\ due >= tick + Left + Rest
  BY DEF WalkInv, WalkTypeOK, OnTime
<1>2. retry # None => retry.next \in Nat
  BY DEF WalkInv, WalkTypeOK, Retry
<1>3. CASE model = "linear"
  <2> DEFINE l == Len(passed)
             n == Len(Order)
  <2>1. /\ l \in 1..n /\ n \in Nat \ {0} /\ Position = Order[l]
        /\ Branches(Position) = {} <=> l = n
    BY <1>3, OnLine, OrderIs
  <2>2. Until[l] \in Nat /\ Until[n] \in Nat /\ l \in 0..n /\ n \in 0..n
    BY <2>1, UntilIs DEF Sums
  <2>3. Duration = Until[n] /\ Rest = Until[n] - Until[l]
    BY <1>3 DEF Duration, Rest
  <2>4. l = n \/ Until[l] < Until[n]
    BY <2>1, <2>2, UntilGrows
  <2>5. Rest \in Nat /\ (Rest = 0 <=> Branches(Position) = {})
    <3> HIDE DEF l, n
    <3> QED BY <2>1, <2>2, <2>3, <2>4
  <2>6. retry = None => Left = Until[l] - (tick - (due - Until[n]))
    BY <1>3, <2>3, LeftIs DEF Elapsed
  <2>7. Left \in Nat \ {0}
    <3> HIDE DEF l, n
    <3>1. CASE retry # None
      <4>1. Left = retry.next - tick
        BY <3>1, LeftIs
      <4> QED BY <1>1, <1>2, <3>1, <4>1
    <3>2. CASE retry = None
      BY <1>1, <2>2, <2>6, <3>2
    <3> QED BY <3>1, <3>2
  <2>8. Position \in Phase /\ Ticks[Position] \in Nat \ {0}
    BY <2>1, OrderIs, TicksAre
  <2>9. due = tick + Left + Rest
    BY <1>3 DEF WalkInv, OnTime
  <2> QED BY <1>1, <2>5, <2>7, <2>8, <2>9
<1>4. CASE model = "static_dag"
  <2>1. /\ Position \in Phase /\ route.due \in Nat
        /\ longest[Position] \in Nat /\ Ticks[Position] \in Nat \ {0}
    BY <1>4, OnRoute, PhaseAssumption DEF WalkInv, WalkTypeOK
  <2>2. Rest = longest[Position] - Ticks[Position] /\ longest[Position] >= Ticks[Position]
    BY <1>4, OnRoute DEF Rest
  <2>3. Rest \in Nat /\ (Rest = 0 <=> Branches(Position) = {})
    BY <1>4, <2>1, <2>2, OnRoute
  <2>4. Left = IF retry # None THEN retry.next - tick ELSE route.due - tick
    BY <1>4, LeftIs
  <2>5. Left \in Nat \ {0}
    BY <1>1, <1>2, <2>1, <2>4
  <2>6. Branches(Position) = {} => due = tick + Left + Rest
    BY <1>4, OnRoute DEF WalkInv, OnTime
  <2> QED BY <1>1, <2>1, <2>3, <2>5, <2>6
<1> QED BY <1>3, <1>4 DEF WalkInv, WalkTypeOK

\* An action leaves the phase it is in, at the last tick of it, or none.
LEMMA BoundaryIs ==
  ASSUME GraphInv, WalkInv, outcome = "pending"
  PROVE  /\ Left = 1 /\ Branches(Position) # {} => Boundary(tick + 1) = {Position}
         /\ Left # 1 \/ Branches(Position) = {} => Boundary(tick + 1) = {}
<1>1. tick \in Nat /\ due \in Nat /\ Left \in Nat \ {0}
  BY HereIs
<1>2. retry # None => retry.next \in Nat /\ Left = retry.next - tick /\ Branches(Position) # {}
  BY LeftIs DEF WalkInv, WalkTypeOK, Retry, Retrying
<1>3. Waiting(tick + 1) <=> retry # None /\ Left # 1
  BY <1>1, <1>2 DEF Waiting
<1>4. CASE Waiting(tick + 1)
  BY <1>3, <1>4 DEF Boundary
<1>5. CASE ~Waiting(tick + 1) /\ model = "static_dag"
  <2>1. Boundary(tick + 1) = StaticBoundary(tick + 1) /\ route.at = Position
    BY <1>5, OnRoute DEF Boundary
  <2>2. retry = None => (tick + 1 = route.due <=> Left = 1)
    <3>1. route.due \in Nat
      BY DEF WalkInv, WalkTypeOK
    <3> QED BY <1>1, <1>5, <3>1, LeftIs
  <2> QED BY <1>3, <1>5, <2>1, <2>2 DEF StaticBoundary
<1>6. CASE ~Waiting(tick + 1) /\ model = "linear"
  <2> DEFINE l == Len(passed)
             n == Len(Order)
             e == Elapsed(tick + 1)
  <2>1. /\ Boundary(tick + 1) = {Order[i] : i \in {j \in 1..(n - 1) : e = Until[j]}}
        /\ l \in 1..n /\ n \in Nat \ {0} /\ Position = Order[l]
        /\ Branches(Position) = {} <=> l = n
    BY <1>6, OnLine, OrderIs DEF Boundary, LinearBoundary
  <2>2. /\ Until[l] \in Nat /\ Until[n] \in Nat /\ Until[l - 1] \in Nat
        /\ l \in 0..n /\ n \in 0..n /\ l - 1 \in 0..n
        /\ Until[l] = Until[l - 1] + Ticks[Position] /\ Ticks[Position] \in Nat
    <3>1. l \in 0..n /\ n \in 0..n /\ l - 1 \in 0..n
      <4> HIDE DEF l, n
      <4> QED BY <2>1
    <3>2. Until[l] \in Nat /\ Until[n] \in Nat /\ Until[l - 1] \in Nat
      BY <3>1, UntilIs DEF Sums
    <3>3. Until[l] = Until[l - 1] + Ticks[Position] /\ Ticks[Position] \in Nat
      BY <2>1, UntilIs, TicksAre DEF Sums
    <3> QED BY <3>1, <3>2, <3>3
  <2>3. due = tick + Left + (Until[n] - Until[l])
    BY <1>6 DEF WalkInv, OnTime, Duration, Rest
  <2>4. e = Until[l] + 1 - Left
    <3>1. e = (tick + 1) - (due - Until[n])
      BY <1>6 DEF Elapsed, Duration
    <3> HIDE DEF e, l, n
    <3> QED BY <1>1, <2>2, <2>3, <3>1
  <2>5. Left = 1 \/ (retry = None /\ Left <= Ticks[Position])
    BY <1>3, <1>6 DEF WalkInv, OnTime
  <2>6. Until[l - 1] < e /\ e <= Until[l] /\ (e = Until[l] <=> Left = 1)
    <3>1. Left <= Ticks[Position] \/ (Left = 1 /\ Ticks[Position] \in Nat \ {0})
      BY <2>1, <2>5, TicksAre
    <3> HIDE DEF e, l, n
    <3> QED BY <1>1, <2>2, <2>4, <3>1
  <2>7. ASSUME NEW j \in 1..(n - 1), e = Until[j] PROVE j = l
    <3>1. j \in 0..n /\ Until[j] \in Nat
      BY <2>1, <2>2, UntilIs DEF Sums
    <3>2. ~(j < l)
      <4> SUFFICES ASSUME j < l PROVE FALSE
        OBVIOUS
      <4>1. j = l - 1 \/ j < l - 1
        BY <2>2, <3>1
      <4>2. Until[j] <= Until[l - 1]
        <5>1. j < l - 1 => Until[j] < Until[l - 1]
          BY <2>2, <3>1, UntilGrows
        <5>2. j = l - 1 => Until[j] = Until[l - 1]
          OBVIOUS
        <5> HIDE DEF l, n
        <5> QED BY <2>2, <3>1, <4>1, <5>1, <5>2
      <4> HIDE DEF e, l, n
      <4> QED BY <2>2, <2>6, <2>7, <3>1, <4>2
    <3>3. ~(l < j)
      <4> SUFFICES ASSUME l < j PROVE FALSE
        OBVIOUS
      <4>1. Until[l] < Until[j]
        BY <2>2, <3>1, UntilGrows
      <4> HIDE DEF e, l, n
      <4> QED BY <2>2, <2>6, <2>7, <3>1, <4>1
    <3> QED BY <2>2, <3>1, <3>2, <3>3
  <2>8. CASE Left = 1 /\ l # n
    <3>1. l \in 1..(n - 1) /\ e = Until[l]
      BY <2>1, <2>6, <2>8
    <3> HIDE DEF e, l, n
    <3> QED BY <2>1, <2>7, <2>8, <3>1
  <2>9. CASE Left # 1 \/ l = n
    <3>1. \A j \in 1..(n - 1) : e # Until[j]
      <4> SUFFICES ASSUME NEW j \in 1..(n - 1), e = Until[j] PROVE FALSE
        OBVIOUS
      <4>1. j = l /\ j # n
        BY <2>1, <2>7
      <4> QED BY <2>6, <2>9, <4>1
    <3> HIDE DEF e, l, n
    <3> QED BY <2>1, <2>9, <3>1
  <2> QED BY <2>8, <2>9
<1> QED BY <1>4, <1>5, <1>6 DEF WalkInv, WalkTypeOK

-----------------------------------------------------------------------------
(* The steps. *)

LEMMA LineIsRouting ==
  ASSUME NEW r \in Lines
  PROVE  r \in Routing
BY WalkAssumption

LEMMA WalkInitInv ==
  ASSUME WalkInit
  PROVE  GraphInv /\ WalkInv /\ Promise!Init
<1>1. GraphInv
  <2>1. routing \in Routing
    BY AuthoredAssumption, LineIsRouting DEF WalkInit, Init
  <2> QED BY <2>1, BeginInv DEF WalkInit, Init
<1>2. Len(passed) = 1 /\ passed[1] = Entry /\ Position = Entry
  BY DEF WalkInit, Position
<1>3. WalkTypeOK
  <2>1. <<Entry>> \in Seq(Phase) /\ <<Entry>> # <<>> /\ Ticks[Entry] \in Nat
    BY PhaseAssumption
  <2>2. model \in {"static_dag", "linear"}
    BY DEF WalkInit
  <2> QED BY <2>1, <2>2, PhaseAssumption DEF WalkInit, WalkTypeOK
<1>4. Submitted /\ Idle /\ OnTime /\ Retrying
  BY DEF WalkInit, Submitted, Idle, OnTime, Retrying
<1>5. SelectedBehind
  BY DEF WalkInit, SelectedBehind
<1>6. Located
  BY <1>2, OrderIs DEF WalkInit, Located
<1>7. Promise!Init
  BY <1>2, PhaseAssumption DEF Promise!Init, WalkInit, Left
<1> QED BY <1>1, <1>3, <1>4, <1>5, <1>6, <1>7 DEF WalkInv

\* While it is compiled, nothing of the behavior runs.
LEMMA CompileStep ==
  ASSUME WalkInv, Compile
  PROVE  WalkInv' /\ UNCHANGED Promise!vars
<1>1. model = "static_dag" /\ verdict # "compiled" /\ outcome = "idle"
  <2>1. verdict # "compiled"
    BY DEF Compile, Next, Check, Visit, Leave, Finish
  <2> QED BY <2>1 DEF Compile, WalkInv, Submitted, WalkTypeOK
<1>2. UNCHANGED <<routing, model, outcome, tick, due, route, retry, selected, steps, passed>>
  BY DEF Compile, walk, Next, Check, Visit, Leave, Finish, Reject
<1>3. Position' = Position /\ Left' = Left
  BY <1>1, <1>2 DEF Position, Left
<1>4. WalkTypeOK' /\ Submitted' /\ Idle' /\ OnTime' /\ Retrying'
  BY <1>1, <1>2 DEF WalkInv, WalkTypeOK, Submitted, Idle, OnTime, Retrying
<1>5. SelectedBehind'
  BY <1>1, <1>2 DEF WalkInv, Idle, SelectedBehind
<1>6. Located'
  BY <1>1, <1>2, <1>3 DEF WalkInv, Located
<1>7. UNCHANGED Promise!vars
  BY <1>2, <1>3 DEF Promise!vars
<1> QED BY <1>4, <1>5, <1>6, <1>7 DEF WalkInv

\* What is in the queue from now on is in its first phase.
LEMMA SubmitStep ==
  ASSUME GraphInv, WalkInv, Submit
  PROVE  WalkInv' /\ Promise!Submit
<1>1. /\ outcome = "idle" /\ outcome' = "pending" /\ due' = Duration
      /\ model = "static_dag" => verdict = "compiled"
      /\ UNCHANGED <<vars, model, tick, route, retry, selected, steps, passed>>
  BY DEF Submit
<1>2. /\ tick = 0 /\ passed = <<Entry>> /\ retry = None
      /\ route = [at |-> Entry, due |-> Ticks[Entry]]
      /\ model \in {"static_dag", "linear"}
  BY <1>1 DEF WalkInv, Idle, WalkTypeOK
<1>3. /\ Len(passed) = 1 /\ passed[1] = Entry /\ Position = Entry
      /\ Position' = Position /\ Duration' = Duration
  BY <1>1, <1>2 DEF Position, Duration, vars
<1>4. Entry \in Phase /\ Ticks[Entry] \in Nat \ {0}
  BY PhaseAssumption
<1>5. Left = Ticks[Entry]
  BY <1>1 DEF Left
<1>6. ASSUME model = "linear"
      PROVE  Duration \in Nat /\ Left' = Ticks[Entry] /\ OnTime'
  <2> DEFINE n == Len(Order)
  <2>1. n \in Nat \ {0} /\ 1 \in 0..n /\ n \in 0..n /\ 1 \in 1..n /\ Order[1] = Entry
    BY OrderIs
  <2>2. Until[1] = Ticks[Entry] /\ Until[n] \in Nat /\ Until[1] <= Until[n]
    <3>1. Until[0] = 0 /\ Until[1] = Until[0] + Ticks[Order[1]]
      BY <2>1, UntilIs DEF Sums
    <3>2. Until[1] = Ticks[Entry]
      BY <1>4, <2>1, <3>1
    <3>3. n = 1 \/ Until[1] < Until[n]
      <4>1. n = 1 \/ 1 < n
        <5> HIDE DEF n
        <5> QED BY <2>1
      <4>2. ASSUME 1 < n PROVE Until[1] < Until[n]
        BY <2>1, <4>2, UntilGrows
      <4> QED BY <4>1, <4>2
    <3>4. Until[n] \in Nat
      BY <2>1, UntilIs DEF Sums
    <3> HIDE DEF n
    <3> QED BY <1>4, <3>2, <3>3, <3>4
  <2>3. Duration = Until[n] /\ Duration \in Nat
    BY <1>6, <2>2 DEF Duration
  <2>4. Left' = Until[1] - (tick - (due' - Duration))
    BY <1>1, <1>2, <1>3, <1>6 DEF Left, Elapsed
  <2>5. Left' = Ticks[Entry]
    <3>1. tick = 0 /\ due' = Until[n] /\ Duration = Until[n]
      BY <1>1, <1>2, <2>3
    <3> HIDE DEF n
    <3> QED BY <1>4, <2>2, <2>4, <3>1
  <2>6. Rest' = Duration - Until[1]
    BY <1>1, <1>3, <1>6 DEF Rest
  <2>7. OnTime'
    <3>1. due' = tick' + Left' + Rest' /\ Left' > 0 /\ Left' <= Ticks[Position']
      <4> HIDE DEF n
      <4> QED BY <1>1, <1>2, <1>3, <1>4, <2>2, <2>3, <2>5, <2>6
    <3>2. tick' \in Nat /\ due' \in Nat
      BY <1>1, <1>2, <2>3
    <3> QED BY <1>6, <1>1, <3>1, <3>2 DEF OnTime
  <2> QED BY <2>3, <2>5, <2>7
<1>7. ASSUME model = "static_dag"
      PROVE  Duration \in Nat /\ Left' = Ticks[Entry] /\ OnTime'
  <2>1. KernelCanRun /\ longest \in [Phase -> Nat]
    BY CanRun DEF GraphInv, TypeOK
  <2>2. Entry # terminal /\ longest[Entry] > Ticks[Entry] /\ longest[Entry] \in Nat
    BY <1>1, <1>4, <1>7, <2>1 DEF KernelCanRun
  <2>3. Duration = longest[Entry] /\ Duration \in Nat
    BY <1>7, <2>2 DEF Duration
  <2>4. Left' = Ticks[Entry]
    BY <1>1, <1>2, <1>4, <1>7 DEF Left
  <2>5. Rest' = longest[Entry] - Ticks[Entry]
    BY <1>1, <1>3, <1>7 DEF Rest, vars
  <2>6. OnTime'
    <3>1. due' = tick' + Left' + Rest' /\ Left' > 0
      BY <1>1, <1>2, <1>4, <2>2, <2>3, <2>4, <2>5
    <3>2. tick' \in Nat /\ due' \in Nat
      BY <1>1, <1>2, <2>3
    <3> QED BY <1>1, <1>7, <3>1, <3>2 DEF OnTime
  <2> QED BY <2>3, <2>4, <2>6
<1>8. Duration \in Nat /\ Left' = Ticks[Entry] /\ OnTime'
  BY <1>2, <1>6, <1>7
<1>9. WalkTypeOK' /\ Submitted' /\ Idle' /\ Retrying' /\ Located'
  <2>1. WalkTypeOK'
    BY <1>1, <1>8 DEF WalkInv, WalkTypeOK
  <2>2. Submitted' /\ Idle'
    BY <1>1 DEF WalkInv, Submitted, Idle, vars
  <2>3. Retrying'
    BY <1>1, <1>2 DEF Retrying
  <2>4. Located'
    BY <1>1, <1>3 DEF WalkInv, Located
  <2> QED BY <2>1, <2>2, <2>3, <2>4
<1>10. SelectedBehind'
  BY <1>1 DEF WalkInv, Idle, SelectedBehind
<1>11. Promise!Submit
  BY <1>1, <1>3, <1>5, <1>8 DEF Promise!Submit, vars
<1> QED BY <1>8, <1>9, <1>10, <1>11 DEF WalkInv

\* The branches the kernel chooses from are those that may be taken.
LEMMA ChosenIs ==
  ASSUME GraphInv, WalkInv, outcome = "pending", NEW b \in Chosen(Position)
  PROVE  b \in Branches(Position) /\ b # None /\ b \in Branch /\ b.next \in Phase
<1>1. Position \in Phase
  BY HereIs
<1>2. b \in Branches(Position)
  BY <1>1 DEF Chosen, WalkInv, SelectedBehind
<1>3. b \in Branch
  BY <1>1, <1>2 DEF GraphInv, TypeOK, Routing, Branches
<1>4. b.next \in Phase
  BY <1>1, <1>2, OnLine, OrderIs, OnRoute DEF WalkInv, WalkTypeOK
<1> QED BY <1>2, <1>3, <1>4, WalkAssumption

LEMMA AdvanceIs ==
  ASSUME GraphInv, WalkInv, Advance
  PROVE  /\ outcome = "pending" /\ tick' = tick + 1
         /\ UNCHANGED <<vars, model>>
         /\ \/ Left = 1 /\ Branches(Position) # {} /\ Decide(Position)
            \/ /\ Left # 1 \/ Branches(Position) = {}
               /\ outcome' = Popped(tick + 1, due)
               /\ UNCHANGED <<due, route, retry, selected, steps, passed>>
<1>1. outcome = "pending" /\ tick' = tick + 1 /\ UNCHANGED <<vars, model>>
  BY DEF Advance
<1>2. CASE Left = 1 /\ Branches(Position) # {}
  <2>1. Boundary(tick + 1) = {Position}
    BY <1>1, <1>2, BoundaryIs
  <2> QED BY <1>1, <1>2, <2>1 DEF Advance
<1>3. CASE Left # 1 \/ Branches(Position) = {}
  <2>1. Boundary(tick + 1) = {}
    BY <1>1, <1>3, BoundaryIs
  <2> QED BY <1>1, <1>3, <2>1 DEF Advance
<1> QED BY <1>2, <1>3

\* What does not move keeps its place, its rest and its chosen branch.
LEMMA SamePlace ==
  ASSUME UNCHANGED <<vars, model, passed>>
  PROVE  /\ Position' = Position /\ Duration' = Duration /\ Rest' = Rest
         /\ \A p : Branches(p)' = Branches(p)
BY DEF Position, Duration, Rest, Branches, vars

\* An action that ends keeps what a route needs no more.
LEMMA EndStep ==
  ASSUME WalkInv, outcome' \in {"completed", "failed"}, tick' \in Nat,
         outcome = "pending", UNCHANGED <<vars, model, due, route, retry, selected, passed>>
  PROVE  WalkInv' /\ Left' = 0
<1>1. Left' = 0
  BY DEF Left
<1>2. Position' = Position /\ \A p : Branches(p)' = Branches(p)
  BY SamePlace
<1>3. WalkTypeOK'
  BY DEF WalkInv, WalkTypeOK
<1>4. Submitted' /\ Idle' /\ OnTime' /\ Retrying'
  BY DEF WalkInv, Submitted, Idle, OnTime, Retrying, vars
<1>5. SelectedBehind'
  BY <1>2 DEF WalkInv, SelectedBehind, vars
<1>6. Located'
  BY <1>2 DEF WalkInv, Located
<1> QED BY <1>1, <1>3, <1>4, <1>5, <1>6 DEF WalkInv

\* A tick in a phase, or the last one of the last phase.
LEMMA PassStep ==
  ASSUME GraphInv, WalkInv, outcome = "pending", tick' = tick + 1,
         UNCHANGED <<vars, model>>,
         Left # 1 \/ Branches(Position) = {}, outcome' = Popped(tick + 1, due),
         UNCHANGED <<due, route, retry, selected, steps, passed>>
  PROVE  WalkInv' /\ (Promise!Stay \/ Promise!Complete)
<1>1. /\ tick \in Nat /\ due \in Nat /\ Left \in Nat \ {0} /\ Rest \in Nat
      /\ due >= tick + Left + Rest /\ (Branches(Position) = {} => due = tick + Left)
  BY HereIs
<1>2. /\ Position' = Position /\ Duration' = Duration /\ Rest' = Rest
      /\ \A p : Branches(p)' = Branches(p)
  BY SamePlace
<1>3. routing' = routing /\ Branches(Position) = routing.branches[Position]
  BY DEF vars, Branches
<1>4. CASE Left = 1
  <2>1. outcome' = "completed"
    BY <1>1, <1>4 DEF Popped
  <2>2. WalkInv' /\ Left' = 0
    BY <1>1, <2>1, EndStep
  <2> QED BY <1>2, <1>3, <1>4, <2>1, <2>2 DEF Promise!Complete, Promise!AtBoundary
<1>5. CASE Left # 1
  <2>1. outcome' = "pending" /\ Left > 1
    BY <1>1, <1>5 DEF Popped
  <2>2. Left' = Left - 1
    <3>1. CASE retry # None
      <4>1. Left' = retry.next - (tick + 1) /\ Left = retry.next - tick /\ retry.next \in Nat
        BY <2>1, <3>1 DEF Left, WalkInv, WalkTypeOK, Retry
      <4> QED BY <1>1, <4>1
    <3>2. CASE retry = None /\ model = "linear"
      <4> DEFINE u == Until[Len(passed)]
                 c == due - Duration
      <4>1. Left' = u - ((tick + 1) - c) /\ Left = u - (tick - c)
        BY <1>2, <2>1, <3>2 DEF Left, Elapsed
      <4>2. u \in Nat /\ c \in Int
        <5>1. Len(passed) \in 0..Len(Order) /\ Len(Order) \in 0..Len(Order)
          BY <3>2, OnLine, OrderIs
        <5> QED BY <1>1, <3>2, <5>1, UntilIs DEF Sums, Duration
      <4> HIDE DEF u, c
      <4> QED BY <1>1, <4>1, <4>2
    <3>3. CASE retry = None /\ model # "linear"
      <4>1. Left' = route.due - (tick + 1) /\ Left = route.due - tick /\ route.due \in Nat
        BY <2>1, <3>3 DEF Left, WalkInv, WalkTypeOK
      <4> QED BY <1>1, <4>1
    <3> QED BY <3>1, <3>2, <3>3
  <2>3. WalkTypeOK'
    BY <1>1, <2>1 DEF WalkInv, WalkTypeOK
  <2>4. Submitted' /\ Idle' /\ Retrying'
    BY <1>2, <2>1 DEF WalkInv, Submitted, Idle, Retrying, vars
  <2>5. SelectedBehind' /\ Located'
    BY <1>2 DEF WalkInv, SelectedBehind, Located, vars
  <2>6. OnTime'
    <3>1. Left' > 0 /\ due' >= tick' + Left' + Rest'
      BY <1>1, <1>2, <2>1, <2>2
    <3>2. due = tick + Left + Rest => due' = tick' + Left' + Rest'
      BY <1>1, <1>2, <2>2
    <3>3. ASSUME model = "linear", retry = None PROVE Left' <= Ticks[Position']
      <4>1. Left <= Ticks[Position] /\ Ticks[Position] \in Nat
        BY <3>3, HereIs DEF WalkInv, OnTime
      <4> QED BY <1>1, <1>2, <2>2, <4>1
    <3> QED BY <1>2, <3>1, <3>2, <3>3 DEF WalkInv, OnTime, vars
  <2> QED BY <1>2, <1>3, <2>1, <2>2, <2>3, <2>4, <2>5, <2>6 DEF WalkInv, Promise!Stay
<1> QED BY <1>4, <1>5

LEMMA FailStep ==
  ASSUME GraphInv, WalkInv, outcome = "pending", tick' = tick + 1,
         UNCHANGED <<vars, model>>, Left = 1,
         NEW b \in Chosen(Position), ChildFails(Position, b) \/ GivesUp(Position, b)
  PROVE  WalkInv' /\ Promise!Fail
<1>1. /\ outcome' = "failed" /\ UNCHANGED <<due, route, retry, selected, passed>>
      /\ \/ <<Position, b>> \notin steps /\ steps' = steps
         \/ b.next \in routing.gated /\ steps' = steps \cup {<<Position, b>>}
  BY DEF ChildFails, GivesUp
<1>2. WalkInv' /\ Left' = 0
  <2>1. tick' \in Nat
    BY HereIs
  <2> QED BY <1>1, <2>1, EndStep
<1>3. Position' = Position /\ routing' = routing
  BY <1>1 DEF Position, vars
<1>4. b \in Promise!Open
  BY DEF Promise!Open, Chosen, Branches
<1> QED BY <1>1, <1>2, <1>3, <1>4 DEF Promise!Fail, Promise!AtBoundary

\* The branch of a phase is on record, and no phase that is ahead has one.
LEMMA Choosing ==
  ASSUME GraphInv, WalkInv, outcome = "pending",
         NEW b \in Chosen(Position), selected' = [selected EXCEPT ![Position] = b]
  PROVE  /\ selected' \in [Phase -> Branch \cup {None}]
         /\ selected'[Position] = b
         /\ \A p \in Phase : selected'[p] # None =>
              /\ selected'[p] \in Branches(p)
              /\ IF model = "linear" THEN \E i \in 1..Len(passed) : p = Order[i]
                 ELSE p = Position \/ longest[p] > longest[Position]
<1>1. /\ Position \in Phase /\ b \in Branches(Position) /\ b \in Branch
      /\ selected \in [Phase -> Branch \cup {None}]
  BY HereIs, ChosenIs DEF WalkInv, WalkTypeOK
<1>2. selected' \in [Phase -> Branch \cup {None}] /\ selected'[Position] = b
  BY <1>1
<1>3. ASSUME NEW p \in Phase, p # Position PROVE selected'[p] = selected[p]
  BY <1>1, <1>3
<1>4. model = "linear" => \E i \in 1..Len(passed) : Position = Order[i]
  <2> SUFFICES ASSUME model = "linear" PROVE \E i \in 1..Len(passed) : Position = Order[i]
    OBVIOUS
  <2>1. Len(passed) \in 1..Len(Order) /\ Position = Order[Len(passed)]
    BY OnLine
  <2>2. Len(passed) \in 1..Len(passed)
    BY <2>1, OrderIs
  <2> QED BY <2>1, <2>2
<1>5. ASSUME NEW p \in Phase, selected'[p] # None
      PROVE  /\ selected'[p] \in Branches(p)
             /\ IF model = "linear" THEN \E i \in 1..Len(passed) : p = Order[i]
                ELSE p = Position \/ longest[p] > longest[Position]
  <2>1. CASE p = Position
    BY <1>1, <1>2, <1>4, <2>1
  <2>2. CASE p # Position
    BY <1>3, <1>5, <2>2 DEF WalkInv, SelectedBehind
  <2> QED BY <2>1, <2>2
<1> QED BY <1>2, <1>5

\* On to the next phase: all its ticks are ahead, and what may follow fits.
LEMMA EnterStep ==
  ASSUME GraphInv, WalkInv, outcome = "pending", tick' = tick + 1,
         UNCHANGED <<vars, model>>, Left = 1, Branches(Position) # {},
         NEW b \in Chosen(Position), Progresses(Position, b)
  PROVE  WalkInv' /\ Promise!Enter(b)
<1> DEFINE q == b.next
           l == Len(passed)
           n == Len(Order)
<1>1. /\ tick \in Nat /\ due \in Nat /\ Rest \in Nat /\ due >= tick + 1 + Rest
      /\ Position \in Phase /\ Ticks[Position] \in Nat \ {0}
  BY HereIs
<1>2. b \in Branches(Position) /\ b # None /\ b \in Branch /\ q \in Phase
  BY ChosenIs
<1>3. Ticks[q] \in Nat \ {0}
  BY <1>2, PhaseAssumption
<1>4. /\ steps' = steps \cup {<<Position, b>>} /\ retry' = None
      /\ selected' = [selected EXCEPT ![Position] = b]
      /\ passed' = Append(passed, q)
      /\ route' = [at |-> q, due |-> tick' + Ticks[q]]
      /\ due' = IF model = "static_dag" /\ q = terminal THEN route'.due ELSE due
      /\ outcome' = Popped(tick', due')
  BY DEF Progresses
<1>5. passed \in Seq(Phase) /\ l \in Nat /\ model \in {"static_dag", "linear"}
  BY DEF WalkInv, WalkTypeOK
<1>6. /\ passed' \in Seq(Phase) /\ passed' # <<>> /\ Len(passed') = l + 1
      /\ passed'[l + 1] = q /\ \A i \in 1..l : passed'[i] = passed[i]
      /\ Position' = q
  <2>1. Append(passed, q) \in Seq(Phase) /\ Len(Append(passed, q)) = l + 1
    BY <1>2, <1>5
  <2>2. Append(passed, q)[l + 1] = q /\ \A i \in 1..l : Append(passed, q)[i] = passed[i]
    BY <1>2, <1>5
  <2>3. Append(passed, q) # <<>>
    BY <1>5, <2>1
  <2>4. Position' = passed'[Len(passed')]
    BY DEF Position
  <2> HIDE DEF q, l
  <2> QED BY <1>4, <2>1, <2>2, <2>3, <2>4
<1>7. /\ routing' = routing /\ longest' = longest /\ terminal' = terminal /\ model' = model
      /\ verdict' = verdict /\ Duration' = Duration
      /\ \A p : Branches(p)' = Branches(p)
  BY DEF vars, Duration, Branches
<1>8. /\ selected' \in [Phase -> Branch \cup {None}] /\ selected'[Position] = b
      /\ \A p \in Phase : selected'[p] # None =>
           /\ selected'[p] \in Branches(p)
           /\ IF model = "linear" THEN \E i \in 1..l : p = Order[i]
              ELSE p = Position \/ longest[p] > longest[Position]
  BY <1>4, Choosing
<1>9. ASSUME model = "linear"
      PROVE  /\ outcome' = "pending" /\ due' = due /\ Left' = Ticks[q] /\ Rest' \in Nat
             /\ due' = tick' + Left' + Rest' /\ selected'[q] = None
             /\ Located' /\ SelectedBehind'
  <2>1. /\ l \in 1..n /\ l + 1 \in 1..n /\ q = Order[l + 1] /\ Position = Order[l]
        /\ l \in 0..n /\ l + 1 \in 0..n /\ n \in 0..n /\ n \in Nat
    BY <1>2, <1>9, OnLine, OrderIs
  <2>2. /\ Until[l] \in Nat /\ Until[l + 1] \in Nat /\ Until[n] \in Nat
        /\ Until[l + 1] = Until[l] + Ticks[q]
    <3>1. Until[l + 1] = Until[(l + 1) - 1] + Ticks[Order[l + 1]] /\ (l + 1) - 1 = l
      BY <2>1, UntilIs DEF Sums
    <3>2. Until[l] \in Nat /\ Until[l + 1] \in Nat /\ Until[n] \in Nat
      BY <2>1, UntilIs DEF Sums
    <3>3. Until[l + 1] = Until[l] + Ticks[q]
      BY <2>1, <3>1
    <3> QED BY <3>2, <3>3
  <2>3. Until[l + 1] <= Until[n]
    <3>1. l + 1 = n \/ l + 1 < n
      <4> HIDE DEF l, n
      <4> QED BY <2>1
    <3>2. ASSUME l + 1 < n PROVE Until[l + 1] < Until[n]
      BY <2>1, <3>2, UntilGrows
    <3> HIDE DEF l, n
    <3> QED BY <2>2, <3>1, <3>2
  <2>4. due = tick + 1 + (Until[n] - Until[l]) /\ Duration = Until[n]
    BY <1>9 DEF WalkInv, OnTime, Rest, Duration
  <2>5. due' = due /\ due > tick'
    <3>1. due' = due
      BY <1>4, <1>9
    <3> HIDE DEF l, n, q
    <3> QED BY <1>1, <1>3, <2>2, <2>3, <2>4, <3>1
  <2>6. outcome' = "pending"
    BY <1>1, <1>4, <2>5 DEF Popped
  <2>7. Left' = Until[l + 1] - (tick' - (due - Until[n]))
    BY <1>4, <1>6, <1>7, <1>9, <2>4, <2>5, <2>6 DEF Left, Elapsed
  <2>8. Rest' = Until[n] - Until[l + 1]
    BY <1>6, <1>7, <1>9, <2>4 DEF Rest
  <2>9. Left' = Ticks[q] /\ Rest' \in Nat /\ due' = tick' + Left' + Rest'
    <3> HIDE DEF l, n, q
    <3> QED BY <1>1, <1>3, <2>2, <2>3, <2>4, <2>5, <2>7, <2>8
  <2>10. selected'[q] = None
    <3> SUFFICES ASSUME selected'[q] # None PROVE FALSE
      OBVIOUS
    <3>1. PICK i \in 1..l : q = Order[i]
      BY <1>2, <1>8, <1>9
    <3>2. i = l + 1
      <4>1. i \in 1..n /\ Order[i] = Order[l + 1]
        BY <2>1, <3>1
      <4> QED BY <2>1, <4>1, OrderIs
    <3> QED BY <1>5, <3>1, <3>2
  <2>11. Located'
    <3>1. \A i \in 1..l : passed[i] = Order[i]
      BY <1>9 DEF WalkInv, Located
    <3>2. \A i \in 1..(l + 1) : i \in 1..l \/ i = l + 1
      BY <1>5
    <3> QED BY <1>6, <1>7, <1>9, <2>1, <3>1, <3>2 DEF Located
  <2>12. SelectedBehind'
    <3>1. \A i \in 1..l : i \in 1..(l + 1)
      BY <1>5
    <3> QED BY <1>6, <1>7, <1>8, <1>9, <3>1 DEF SelectedBehind
  <2> QED BY <2>5, <2>6, <2>9, <2>10, <2>11, <2>12
<1>10. ASSUME model = "static_dag"
       PROVE  /\ outcome' = "pending" /\ due' \in Nat /\ Left' = Ticks[q] /\ Rest' \in Nat
              /\ due' >= tick' + Left' + Rest' /\ selected'[q] = None
              /\ q = terminal => due' = tick' + Left' + Rest'
              /\ Located' /\ SelectedBehind'
  <2>1. /\ longest \in [Phase -> Nat] /\ verdict = "compiled"
        /\ longest[Position] >= Ticks[Position] + longest[q]
        /\ longest[terminal] = Ticks[terminal]
    BY <1>1, <1>2, <1>10, OnRoute
  <2>2. longest[q] \in Nat /\ longest[Position] \in Nat /\ longest[q] >= Ticks[q]
    <3>1. verdict' = "compiled" /\ visited = Phase
      BY <2>1 DEF GraphInv, Ended, vars
    <3> QED BY <1>1, <1>2, <2>1, <3>1 DEF GraphInv, Measured
  <2>3. Rest = longest[Position] - Ticks[Position] /\ Rest' = longest[q] - Ticks[q]
    BY <1>6, <1>7, <1>10 DEF Rest
  <2>4. /\ due' \in Nat /\ due' >= tick' + Ticks[q] + Rest'
        /\ q = terminal => due' = tick' + Ticks[q] + Rest'
    <3>1. CASE q = terminal
      <4>1. due' = tick' + Ticks[q] /\ Rest' = 0
        BY <1>3, <1>4, <1>10, <2>1, <2>2, <2>3, <3>1
      <4> HIDE DEF q
      <4> QED BY <1>1, <1>3, <4>1
    <3>2. CASE q # terminal
      <4>1. due' = due
        BY <1>4, <3>2
      <4> HIDE DEF q
      <4> QED BY <1>1, <1>3, <2>1, <2>2, <2>3, <3>2, <4>1
    <3> QED BY <3>1, <3>2
  <2>5. Rest' \in Nat
    BY <1>3, <2>2, <2>3
  <2>6. outcome' = "pending"
    BY <1>1, <1>3, <1>4, <2>4, <2>5 DEF Popped
  <2>7. Left' = Ticks[q]
    <3>1. Left' = (tick' + Ticks[q]) - tick'
      BY <1>4, <1>7, <1>10, <2>6 DEF Left
    <3> QED BY <1>1, <1>3, <3>1
  <2>8. longest[Position] > longest[q]
    <3> HIDE DEF q
    <3> QED BY <1>1, <2>1, <2>2
  <2>9. selected'[q] = None
    <3> SUFFICES ASSUME selected'[q] # None PROVE FALSE
      OBVIOUS
    <3>1. q = Position \/ longest[q] > longest[Position]
      BY <1>2, <1>8, <1>10
    <3> HIDE DEF q
    <3> QED BY <2>2, <2>8, <3>1
  <2>10. Located'
    BY <1>4, <1>6, <1>7, <1>10 DEF Located
  <2>11. SelectedBehind'
    <3> SUFFICES ASSUME NEW p \in Phase, selected'[p] # None
                 PROVE  selected'[p] \in Branches(p) /\ (p = q \/ longest[p] > longest[q])
      BY <1>6, <1>7, <1>10 DEF SelectedBehind
    <3>1. selected'[p] \in Branches(p) /\ (p = Position \/ longest[p] > longest[Position])
      BY <1>8, <1>10
    <3>2. longest[p] \in Nat
      BY <2>1
    <3> HIDE DEF q
    <3> QED BY <2>2, <2>8, <3>1, <3>2
  <2> QED BY <2>4, <2>5, <2>6, <2>7, <2>9, <2>10, <2>11
<1>11. /\ outcome' = "pending" /\ due' \in Nat /\ Left' = Ticks[q] /\ Rest' \in Nat
       /\ due' >= tick' + Left' + Rest' /\ selected'[q] = None
       /\ model = "linear" \/ q = terminal => due' = tick' + Left' + Rest'
       /\ Located' /\ SelectedBehind'
  <2> HIDE DEF q
  <2>1. CASE model = "linear"
    BY <1>1, <1>3, <1>9, <2>1
  <2>2. CASE model = "static_dag"
    BY <1>10, <2>2
  <2> QED BY <1>5, <2>1, <2>2
<1>12. WalkTypeOK'
  <2>1. tick' \in Nat /\ route' \in [at : Phase, due : Nat]
    BY <1>1, <1>2, <1>3, <1>4
  <2> QED BY <1>4, <1>5, <1>6, <1>7, <1>8, <1>11, <2>1 DEF WalkTypeOK
<1>13. Submitted' /\ Idle' /\ Retrying'
  <2>1. Submitted'
    BY <1>7, <1>11 DEF WalkInv, Submitted
  <2> QED BY <1>4, <1>11, <2>1 DEF Idle, Retrying
<1>14. OnTime'
  BY <1>3, <1>6, <1>7, <1>11 DEF OnTime
<1>15. Promise!Enter(b)
  <2>1. b \in Promise!Open
    BY DEF Promise!Open, Chosen, Branches
  <2> QED BY <1>4, <1>6, <1>7, <1>11, <2>1 DEF Promise!Enter, Promise!AtBoundary
<1> QED BY <1>11, <1>12, <1>13, <1>14, <1>15 DEF WalkInv

\* One attempt more: the policy allows it, and the due tick moves with the phase.
LEMMA WaitStep ==
  ASSUME GraphInv, WalkInv, outcome = "pending", tick' = tick + 1,
         UNCHANGED <<vars, model>>, Left = 1, Branches(Position) # {},
         NEW b \in Chosen(Position), Retries(Position, b)
  PROVE  WalkInv' /\ Promise!Wait(b)
<1> DEFINE m == Policy.max
           v == Policy.interval
           t == Policy.timeout
           waits == IF retry = None THEN 0 ELSE retry.attempts
<1>1. /\ tick \in Nat /\ due \in Nat /\ Rest \in Nat /\ due >= tick + 1 + Rest
      /\ Position \in Phase
  BY HereIs
<1>2. m \in Nat \ {0} /\ v \in Nat \ {0} /\ t \in Nat \ {0}
  BY WalkAssumption
<1>3. /\ b.next \in routing.gated /\ b.next \in routing.retried
      /\ Attempt <= m /\ tick' + v <= FirstFail + t
      /\ steps' = steps \cup {<<Position, b>>}
      /\ selected' = [selected EXCEPT ![Position] = b]
      /\ retry' = [attempts |-> Attempt, first |-> FirstFail, next |-> tick' + v]
      /\ due' = due + v /\ outcome' = Popped(tick', due')
      /\ UNCHANGED <<route, passed>>
  BY DEF Retries, MayRetry
<1>4. /\ Position' = Position /\ Duration' = Duration /\ Rest' = Rest
      /\ \A p : Branches(p)' = Branches(p)
  BY <1>3, SamePlace
<1>5. routing' = routing /\ longest' = longest /\ terminal' = terminal /\ verdict' = verdict
  BY DEF vars
<1>6. /\ waits \in Nat /\ Attempt = waits + 1 /\ FirstFail \in Nat
      /\ tick' = FirstFail + waits * v
  <2>1. CASE retry = None
    BY <1>1, <1>2, <2>1 DEF Attempt, FirstFail
  <2>2. CASE retry # None
    <3>1. /\ retry.attempts \in Nat /\ retry.first \in Nat /\ retry.next \in Nat
          /\ retry.next = retry.first + retry.attempts * v
      BY <2>2 DEF WalkInv, WalkTypeOK, Retry, Retrying
    <3>2. retry.next = tick'
      <4>1. retry.next - tick = 1
        BY <2>2, LeftIs
      <4> QED BY <1>1, <3>1, <4>1
    <3>3. waits = retry.attempts /\ FirstFail = retry.first /\ Attempt = retry.attempts + 1
      BY <2>2 DEF Attempt, FirstFail
    <3> QED BY <3>1, <3>2, <3>3
  <2> QED BY <2>1, <2>2
<1> HIDE DEF waits, m, v, t
<1>7. (waits + 1) * v = waits * v + v /\ waits * v \in Nat
  BY <1>2, <1>6
<1>8. waits < m /\ (waits + 1) * v <= t
  <2>1. waits < m
    BY <1>2, <1>3, <1>6
  <2> DEFINE x == waits * v
  <2>2. x \in Nat /\ (waits + 1) * v = x + v /\ tick' = FirstFail + x
    BY <1>6, <1>7
  <2> HIDE DEF x
  <2> QED BY <1>2, <1>3, <1>6, <2>1, <2>2
<1>9. /\ due' \in Nat /\ due' > tick' /\ tick' \in Nat /\ tick' + v \in Nat
      /\ due' >= tick' + v + Rest
      /\ due = tick + 1 + Rest => due' = tick' + v + Rest
  BY <1>1, <1>2, <1>3
<1>10. outcome' = "pending"
  BY <1>3, <1>9 DEF Popped
<1>11. retry' \in Retry /\ retry' # None /\ retry'.next = tick' + v
  <2>1. Attempt \in Nat
    BY <1>6
  <2> QED BY <1>3, <1>6, <1>9, <2>1, WalkAssumption DEF Retry
<1>12. Left' = v
  <2>1. Left' = (tick' + v) - tick'
    BY <1>10, <1>11 DEF Left
  <2> QED BY <1>2, <1>9, <2>1
<1>13. /\ selected' \in [Phase -> Branch \cup {None}] /\ selected'[Position] = b
       /\ SelectedBehind'
  <2>1. /\ selected' \in [Phase -> Branch \cup {None}] /\ selected'[Position] = b
        /\ \A p \in Phase : selected'[p] # None =>
             /\ selected'[p] \in Branches(p)
             /\ IF model = "linear" THEN \E i \in 1..Len(passed) : p = Order[i]
                ELSE p = Position \/ longest[p] > longest[Position]
    BY <1>3, Choosing
  <2> QED BY <1>3, <1>4, <1>5, <2>1 DEF SelectedBehind
<1>14. WalkTypeOK'
  BY <1>3, <1>9, <1>10, <1>11, <1>13 DEF WalkInv, WalkTypeOK
<1>15. Submitted' /\ Idle' /\ Located'
  BY <1>3, <1>4, <1>5, <1>10 DEF WalkInv, Submitted, Idle, Located
<1>16. OnTime'
  BY <1>2, <1>4, <1>5, <1>9, <1>11, <1>12 DEF WalkInv, OnTime
<1>17. Retrying'
  <2>1. retry'.attempts = waits + 1 /\ retry'.first = FirstFail
    BY <1>3, <1>6
  <2>2. waits + 1 \in 1..m
    BY <1>2, <1>6, <1>8
  <2> DEFINE x == waits * v
  <2>3. (waits + 1) * v = x + v /\ tick' = FirstFail + x /\ x \in Nat
    BY <1>6, <1>7
  <2>4. retry'.next = retry'.first + retry'.attempts * v
    <3> HIDE DEF x
    <3>1. tick' + v = FirstFail + (x + v)
      BY <1>2, <1>6, <2>3
    <3> QED BY <1>11, <2>1, <2>3, <3>1
  <2> QED BY <1>4, <2>1, <2>2, <2>4 DEF Retrying, m, v
<1>18. Promise!Wait(b)
  <2>1. b \in Promise!Open
    BY DEF Promise!Open, Chosen, Branches
  <2>2. (IF retry' = None THEN 0 ELSE retry'.attempts) = waits + 1
    BY <1>3, <1>6, <1>11
  <2> QED BY <1>3, <1>4, <1>5, <1>8, <1>10, <1>12, <1>13, <2>1, <2>2
          DEF Promise!Wait, Promise!AtBoundary, waits, m, v, t
<1> QED BY <1>13, <1>14, <1>15, <1>16, <1>17, <1>18 DEF WalkInv

-----------------------------------------------------------------------------
LEMMA AdvanceStep ==
  ASSUME GraphInv, WalkInv, Advance
  PROVE  WalkInv' /\ Promise!Tick
<1>1. /\ outcome = "pending" /\ tick' = tick + 1 /\ UNCHANGED <<vars, model>>
      /\ \/ Left = 1 /\ Branches(Position) # {} /\ Decide(Position)
         \/ /\ Left # 1 \/ Branches(Position) = {}
            /\ outcome' = Popped(tick + 1, due)
            /\ UNCHANGED <<due, route, retry, selected, steps, passed>>
  BY AdvanceIs
<1>2. CASE Left = 1 /\ Branches(Position) # {} /\ Decide(Position)
  <2>1. PICK b \in Chosen(Position) :
          \/ ChildFails(Position, b) \/ GivesUp(Position, b)
          \/ Progresses(Position, b) \/ Retries(Position, b)
    BY <1>2 DEF Decide
  <2>2. b \in Promise!Open
    BY DEF Promise!Open, Chosen, Branches
  <2>3. CASE ChildFails(Position, b) \/ GivesUp(Position, b)
    BY <1>1, <1>2, <2>3, FailStep DEF Promise!Tick
  <2>4. CASE Progresses(Position, b)
    BY <1>1, <1>2, <2>2, <2>4, EnterStep DEF Promise!Tick
  <2>5. CASE Retries(Position, b)
    BY <1>1, <1>2, <2>2, <2>5, WaitStep DEF Promise!Tick
  <2> QED BY <2>1, <2>3, <2>4, <2>5
<1>3. CASE /\ Left # 1 \/ Branches(Position) = {}
           /\ outcome' = Popped(tick + 1, due)
           /\ UNCHANGED <<due, route, retry, selected, steps, passed>>
  BY <1>1, <1>3, PassStep DEF Promise!Tick
<1> QED BY <1>1, <1>2, <1>3

LEMMA WalkStep ==
  ASSUME GraphInv, WalkInv, [WalkNext]_walkVars
  PROVE  GraphInv' /\ WalkInv' /\ [Promise!Next]_(Promise!vars)
<1>1. GraphInv'
  <2>1. [Next]_vars
    BY DEF WalkNext, Compile, Submit, Advance, walkVars
  <2> QED BY <2>1, StepInv
<1>2. CASE Compile
  BY <1>1, <1>2, CompileStep
<1>3. CASE Submit
  BY <1>1, <1>3, SubmitStep DEF Promise!Next
<1>4. CASE Advance
  BY <1>1, <1>4, AdvanceStep DEF Promise!Next
<1>5. CASE UNCHANGED walkVars
  <2>1. UNCHANGED <<vars, model, outcome, tick, due, route, retry, selected, steps, passed>>
    BY <1>5 DEF walkVars, walk
  <2>2. /\ Position' = Position /\ Duration' = Duration /\ Rest' = Rest
        /\ \A p : Branches(p)' = Branches(p)
    BY <2>1, SamePlace
  <2>3. Left' = Left
    BY <2>1, <2>2 DEF Left, Elapsed
  <2>4. WalkTypeOK' /\ Submitted' /\ Idle'
    BY <2>1 DEF WalkInv, WalkTypeOK, Submitted, Idle, vars
  <2>5. SelectedBehind' /\ Located'
    BY <2>1, <2>2 DEF WalkInv, SelectedBehind, Located, vars
  <2>6. OnTime' /\ Retrying'
    BY <2>1, <2>2, <2>3 DEF WalkInv, OnTime, Retrying, vars
  <2>7. UNCHANGED Promise!vars
    BY <2>1, <2>2, <2>3 DEF Promise!vars, vars
  <2> QED BY <1>1, <2>4, <2>5, <2>6, <2>7 DEF WalkInv
<1> QED BY <1>2, <1>3, <1>4, <1>5 DEF WalkNext

\* Between two ticks an action is in the phase it entered last, with a due tick
\* that leaves room for its retries and for every way on, however it was compiled.
THEOREM WalkInvariance == WalkSpec => [](GraphInv /\ WalkInv)
<1>1. WalkInit => GraphInv /\ WalkInv
  BY WalkInitInv
<1>2. GraphInv /\ WalkInv /\ [WalkNext]_walkVars => (GraphInv /\ WalkInv)'
  BY WalkStep
<1> QED BY <1>1, <1>2, PTL DEF WalkSpec

\* Both interpreters walk from phase to phase as promised, whatever the behavior,
\* its durations and its retry policy: a phase takes its ticks, a branch is taken
\* once and its child action runs once, and a gate is tried as often as it may be.
THEOREM WalkImplementsPhases == WalkSpec => Promise!Spec
<1>1. WalkInit => Promise!Init
  BY WalkInitInv
<1>2. GraphInv /\ WalkInv /\ [WalkNext]_walkVars => [Promise!Next]_(Promise!vars)
  BY WalkStep
<1> QED BY <1>1, <1>2, WalkInvariance, PTL DEF WalkSpec, Promise!Spec

=============================================================================
