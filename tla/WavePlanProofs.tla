--------------------------- MODULE WavePlanProofs ---------------------------
(***************************************************************************)
(* Proofs about the build planner, for every inventory, every requirement  *)
(* graph and every wave limit.  RequirementsBuiltEarlier is not inductive: *)
(* it speaks of the finished plan only.  PlanInv carries what makes it     *)
(* true along the way -- edges behind an unsatisfied requirement survive   *)
(* the cycle breaker, and the waves laid so far respect every edge kept.   *)
(***************************************************************************)
EXTENDS WavePlan, FiniteSetTheorems, WellFoundedInduction, TLAPS

(* The phases in which scheduling is the graph of the request. *)
Solving == phase = "planning" \/ status \in {"cycle", "too_deep", "planned"}

UnsatisfiedEdgesKept ==
  Solving => \A c \in building : MustPrecede(c) \cap building \subseteq scheduling[c]

WavesFollowGraph ==
  \A c \in Packages :
    /\ wave[c] <= depth
    /\ scheduling[c] \subseteq building
    /\ wave[c] # 0 => \A p \in scheduling[c] : wave[p] # 0 /\ wave[p] < wave[c]

WavesComeLast ==
  (phase \in {"asked", "closing"} \/ todo # {}) =>
    depth = 0 /\ \A c \in Packages : wave[c] = 0

GraphComesAfterClosing ==
  phase \in {"asked", "closing"} => \A c \in Packages : scheduling[c] = {}

PlannedIsComplete ==
  status = "planned" => Unplaced = {} /\ depth <= MaxWaves

StatusComesLast == phase # "done" => status = "none"

WorklistStartsEmpty == phase = "asked" => pending = {}

PlanInv ==
  /\ TypeOK
  /\ UnsatisfiedEdgesKept
  /\ WavesFollowGraph
  /\ WavesComeLast
  /\ GraphComesAfterClosing
  /\ PlannedIsComplete
  /\ StatusComesLast
  /\ WorklistStartsEmpty

-----------------------------------------------------------------------------
(* What resolve_edges returns is a set of recipes of the inventory. *)
LEMMA EdgesType ==
  ASSUME TypeOK, NEW c \in Packages
  PROVE  /\ Edges(c) \subseteq Packages
         /\ MustPrecede(c) \subseteq Edges(c)
BY DEF TypeOK, Edges, MustPrecede, ProvidersFor

LEMMA ScheduleType ==
  ASSUME TypeOK, NEW selection \in SUBSET Packages
  PROVE  /\ Schedule(selection) \in [Packages -> SUBSET Packages]
         /\ \A c \in Packages : Schedule(selection)[c] \subseteq selection
         /\ EdgePairs(Schedule(selection)) \in SUBSET (Packages \X Packages)
BY EdgesType DEF Schedule, EdgePairs

(* A witnessed edge has no unsatisfied requirement behind it. *)
LEMMA WitnessedIsNotRequired ==
  ASSUME NEW c, NEW p, Witnessed(c, p)
  PROVE  p \notin MustPrecede(c)
BY DEF Witnessed, Reasons, MustPrecede

-----------------------------------------------------------------------------
LEMMA InitEstablishes == Init => PlanInv
BY PlanAssumption
   DEF Init, PlanInv, TypeOK, UnsatisfiedEdgesKept, Solving, WavesFollowGraph,
       WavesComeLast, GraphComesAfterClosing, PlannedIsComplete, StatusComesLast,
       WorklistStartsEmpty

LEMMA FinishPreserves ==
  ASSUME PlanInv, phase # "done", NEW verdict,
         verdict \in {"unsurveyed", "unknown", "blocked", "cycle", "too_deep", "planned"},
         verdict \in {"cycle", "too_deep", "planned"} => phase = "planning",
         verdict = "planned" => Unplaced = {} /\ depth <= MaxWaves,
         Finish(verdict)
  PROVE  PlanInv'
<1>1. TypeOK'
  BY DEF PlanInv, TypeOK, Finish, inputs
<1>2. UnsatisfiedEdgesKept'
  BY DEF PlanInv, UnsatisfiedEdgesKept, Solving, MustPrecede, ProvidersFor, Finish, inputs
<1>3. WavesFollowGraph' /\ WavesComeLast'
  BY DEF PlanInv, WavesFollowGraph, WavesComeLast, Finish
<1>4. GraphComesAfterClosing' /\ PlannedIsComplete' /\ StatusComesLast' /\ WorklistStartsEmpty'
  BY DEF PlanInv, GraphComesAfterClosing, PlannedIsComplete, StatusComesLast,
         WorklistStartsEmpty, Unplaced, Finish
<1>. QED  BY <1>1, <1>2, <1>3, <1>4 DEF PlanInv

LEMMA PlanPreserves ==
  ASSUME PlanInv, phase \in {"asked", "closing"}, pending = {},
         NEW selection \in SUBSET Packages, Plan(selection)
  PROVE  PlanInv'
<1>1. TypeOK'
  BY ScheduleType DEF PlanInv, TypeOK, Plan, inputs
<1>2. UnsatisfiedEdgesKept'
  <2>1. \A c \in selection : MustPrecede(c) \subseteq Edges(c)
    BY EdgesType DEF PlanInv
  <2>. QED  BY <2>1, EdgesType
       DEF PlanInv, UnsatisfiedEdgesKept, Schedule, MustPrecede, ProvidersFor,
           Plan, inputs
<1>3. WavesFollowGraph' /\ WavesComeLast'
  BY ScheduleType DEF PlanInv, TypeOK, WavesFollowGraph, WavesComeLast, Plan
<1>4. GraphComesAfterClosing' /\ PlannedIsComplete' /\ StatusComesLast' /\ WorklistStartsEmpty'
  BY DEF PlanInv, GraphComesAfterClosing, PlannedIsComplete, StatusComesLast,
         WorklistStartsEmpty, Plan
<1>. QED  BY <1>1, <1>2, <1>3, <1>4 DEF PlanInv

LEMMA StackPreserves ==
  ASSUME PlanInv,
         StartStack \/ \E c \in Packages : CloseOver(c)
  PROVE  PlanInv'
<1>1. TypeOK'
  <2>1. CASE StartStack
    BY <2>1 DEF PlanInv, TypeOK, StartStack, inputs, UnknownName
  <2>2. ASSUME NEW c \in Packages, CloseOver(c) PROVE TypeOK'
    <3>1. UNION {ProvidersFor(c, r) : r \in rows[c] \ satisfied[c]} \subseteq Packages
      BY EdgesType DEF PlanInv, MustPrecede
    <3>. QED  BY <2>2, <3>1 DEF PlanInv, TypeOK, CloseOver, inputs
  <2>. QED  BY <2>1, <2>2
<1>2. UnsatisfiedEdgesKept'
  BY DEF PlanInv, StatusComesLast, UnsatisfiedEdgesKept, Solving, StartStack, CloseOver
<1>3. WavesFollowGraph'
  BY DEF PlanInv, TypeOK, WavesFollowGraph, GraphComesAfterClosing, StartStack, CloseOver
<1>4. WavesComeLast' /\ GraphComesAfterClosing'
  BY DEF PlanInv, WavesComeLast, GraphComesAfterClosing, StartStack, CloseOver
<1>5. PlannedIsComplete' /\ StatusComesLast' /\ WorklistStartsEmpty'
  BY DEF PlanInv, PlannedIsComplete, StatusComesLast,
         WorklistStartsEmpty, StartStack, CloseOver
<1>. QED  BY <1>1, <1>2, <1>3, <1>4, <1>5 DEF PlanInv

LEMMA VisitPreserves ==
  ASSUME PlanInv, NEW c \in Packages, NEW p \in Packages, VisitEdge(c, p)
  PROVE  PlanInv'
<1>1. TypeOK'
  BY DEF PlanInv, TypeOK, VisitEdge, inputs
<1>2. UnsatisfiedEdgesKept'
  <2>1. Solving
    BY DEF VisitEdge, Solving
  <2>2. \A d \in building : MustPrecede(d) \cap building \subseteq scheduling'[d]
    <3>1. CASE Reachable(scheduling, p, c) /\ Witnessed(c, p)
      BY <2>1, <3>1, WitnessedIsNotRequired
      DEF PlanInv, TypeOK, UnsatisfiedEdgesKept, VisitEdge
    <3>2. CASE ~(Reachable(scheduling, p, c) /\ Witnessed(c, p))
      BY <2>1, <3>2 DEF PlanInv, UnsatisfiedEdgesKept, VisitEdge
    <3>. QED  BY <3>1, <3>2
  <2>. QED  BY <2>2 DEF UnsatisfiedEdgesKept, MustPrecede, ProvidersFor, VisitEdge, inputs
<1>3. WavesFollowGraph' /\ WavesComeLast'
  BY DEF PlanInv, TypeOK, WavesFollowGraph, WavesComeLast, VisitEdge
<1>4. GraphComesAfterClosing' /\ PlannedIsComplete' /\ StatusComesLast' /\ WorklistStartsEmpty'
  BY DEF PlanInv, GraphComesAfterClosing, PlannedIsComplete, StatusComesLast,
         WorklistStartsEmpty, VisitEdge
<1>. QED  BY <1>1, <1>2, <1>3, <1>4 DEF PlanInv

LEMMA LayPreserves ==
  ASSUME PlanInv, LayWave
  PROVE  PlanInv'
<1>1. TypeOK'
  BY DEF PlanInv, TypeOK, LayWave, inputs
<1>2. UnsatisfiedEdgesKept'
  BY DEF PlanInv, UnsatisfiedEdgesKept, Solving, MustPrecede, ProvidersFor, LayWave, inputs
<1>3. WavesFollowGraph'
  <2>. SUFFICES ASSUME NEW c \in Packages
                PROVE  /\ wave'[c] <= depth'
                       /\ scheduling'[c] \subseteq building'
                       /\ wave'[c] # 0 =>
                            \A p \in scheduling'[c] : wave'[p] # 0 /\ wave'[p] < wave'[c]
    BY DEF WavesFollowGraph
  <2>1. /\ depth \in Nat /\ depth' = depth + 1
        /\ scheduling' = scheduling /\ building' = building
        /\ building \subseteq Packages
        /\ scheduling[c] \subseteq building
        /\ \A p \in Packages : /\ wave[p] \in Nat /\ wave[p] <= depth
                               /\ wave'[p] = IF p \in Ready THEN depth + 1 ELSE wave[p]
    BY DEF PlanInv, TypeOK, WavesFollowGraph, LayWave
  <2>2. CASE c \in Ready
    <3>1. \A p \in scheduling[c] : wave[p] # 0 /\ p \notin Ready
      BY <2>1, <2>2 DEF Ready, Unplaced
    <3>. QED  BY <2>1, <2>2, <3>1
  <2>3. CASE c \notin Ready
    <3>1. wave[c] # 0 => \A p \in scheduling[c] : wave[p] # 0 /\ wave[p] < wave[c]
      BY DEF PlanInv, WavesFollowGraph
    <3>2. \A p \in Packages : wave[p] # 0 => p \notin Ready
      BY DEF Ready, Unplaced
    <3>. QED  BY <2>1, <2>3, <3>1, <3>2
  <2>. QED  BY <2>2, <2>3
<1>4. WavesComeLast' /\ GraphComesAfterClosing'
  BY DEF PlanInv, WavesComeLast, GraphComesAfterClosing, LayWave
<1>5. PlannedIsComplete' /\ StatusComesLast' /\ WorklistStartsEmpty'
  BY DEF PlanInv, PlannedIsComplete, StatusComesLast,
         WorklistStartsEmpty, LayWave
<1>. QED  BY <1>1, <1>2, <1>3, <1>4, <1>5 DEF PlanInv

-----------------------------------------------------------------------------
LEMMA NextPreserves == PlanInv /\ [Next]_vars => PlanInv'
<1>. SUFFICES ASSUME PlanInv, [Next]_vars PROVE PlanInv'
  OBVIOUS
<1>1. CASE RefuseUnsurveyed \/ RefuseUnknown \/ RefuseBlocked
  BY <1>1, FinishPreserves DEF RefuseUnsurveyed, RefuseUnknown, RefuseBlocked
<1>2. CASE StartStack \/ \E c \in Packages : CloseOver(c)
  BY <1>2, StackPreserves
<1>3. CASE StartPlan
  <2>1. phase = "asked" => pending = {}
    BY DEF PlanInv, WorklistStartsEmpty
  <2>. QED  BY <1>3, <2>1, PlanPreserves DEF StartPlan, PlanInv, TypeOK, UnknownName
<1>4. ASSUME NEW c \in Packages, NEW p \in Packages, VisitEdge(c, p) PROVE PlanInv'
  BY <1>4, VisitPreserves
<1>5. CASE LayWave
  BY <1>5, LayPreserves
<1>6. CASE FinishPlan
  <2>. DEFINE verdict == IF Unplaced # {} THEN "cycle"
                         ELSE IF TooDeep THEN "too_deep" ELSE "planned"
  <2>1. phase = "planning" /\ Finish(verdict)
    BY <1>6 DEF FinishPlan
  <2>2. verdict = "planned" => Unplaced = {} /\ depth <= MaxWaves
    BY PlanAssumption DEF PlanInv, TypeOK, TooDeep
  <2>. QED  BY <2>1, <2>2, FinishPreserves
<1>7. CASE UNCHANGED vars
  BY <1>7 DEF vars, inputs, PlanInv, TypeOK, UnsatisfiedEdgesKept, Solving, MustPrecede,
     ProvidersFor, WavesFollowGraph, WavesComeLast, GraphComesAfterClosing,
     PlannedIsComplete, StatusComesLast, WorklistStartsEmpty, Unplaced
<1>. QED  BY <1>1, <1>2, <1>3, <1>4, <1>5, <1>6, <1>7 DEF Next

(* The inductive invariant of the planner.                                 *)
THEOREM PlanInvariant == Spec => []PlanInv
BY InitEstablishes, NextPreserves, PTL DEF Spec

(* Every variable of the planner keeps its type. *)
THEOREM PlanTypeCorrect == Spec => []TypeOK
<1>1. PlanInv => TypeOK
  BY DEF PlanInv
<1>. QED  BY <1>1, PlanInvariant, PTL

(* In every finished plan, a factory provider of a requirement CentOS does *)
(* not satisfy is in a strictly earlier wave than its consumer.            *)
THEOREM ProvidersBuildEarlier == Spec => []RequirementsBuiltEarlier
<1>1. PlanInv => RequirementsBuiltEarlier
  <2>. SUFFICES ASSUME PlanInv, status = "planned", NEW c \in building
                PROVE  /\ wave[c] \in 1 .. MaxWaves
                       /\ \A p \in MustPrecede(c) \cap building : wave[p] < wave[c]
    BY DEF RequirementsBuiltEarlier
  <2>1. c \in Packages /\ wave[c] \in Nat /\ depth \in Nat /\ wave[c] <= depth
    BY DEF PlanInv, TypeOK, WavesFollowGraph
  <2>2. wave[c] # 0 /\ depth <= MaxWaves
    BY DEF PlanInv, PlannedIsComplete, Unplaced
  <2>3. MustPrecede(c) \cap building \subseteq scheduling[c]
    BY DEF PlanInv, UnsatisfiedEdgesKept, Solving
  <2>. QED  BY <2>1, <2>2, <2>3, PlanAssumption DEF PlanInv, WavesFollowGraph
<1>. QED  BY <1>1, PlanInvariant, PTL

-----------------------------------------------------------------------------
(* NoIdleWave needs to know why a recipe without a wave still waits: a     *)
(* predecessor of it has no wave either, or was in the last one laid.      *)
WaitsForLastWave ==
  (phase = "planning" /\ depth > 0) =>
    \A c \in Unplaced : \E p \in scheduling[c] : wave[p] \in {0, depth}

TightInv == PlanInv /\ NoIdleWave /\ WaitsForLastWave

LEMMA InitTight == Init => NoIdleWave /\ WaitsForLastWave
BY DEF Init, NoIdleWave, WaitsForLastWave

LEMMA LayTight ==
  ASSUME TightInv, LayWave
  PROVE  NoIdleWave' /\ WaitsForLastWave'
<1>1. /\ depth \in Nat /\ depth' = depth + 1
      /\ scheduling' = scheduling /\ building' = building
      /\ building \subseteq Packages
      /\ phase = "planning"
      /\ \A p \in Packages : /\ wave[p] \in Nat /\ wave[p] <= depth
                             /\ scheduling[p] \subseteq building
                             /\ wave'[p] = IF p \in Ready THEN depth + 1 ELSE wave[p]
  BY DEF TightInv, PlanInv, TypeOK, WavesFollowGraph, LayWave
<1>2. NoIdleWave'
  <2>. SUFFICES ASSUME NEW c \in building, wave'[c] > 1
                PROVE  \E p \in scheduling[c] : wave'[p] = wave'[c] - 1
    BY <1>1 DEF NoIdleWave
  <2>1. CASE c \in Ready
    <3>1. depth > 0 /\ c \in Unplaced /\ scheduling[c] \cap Unplaced = {}
      BY <1>1, <2>1 DEF Ready
    <3>2. PICK p \in scheduling[c] : wave[p] \in {0, depth}
      BY <1>1, <3>1 DEF TightInv, WaitsForLastWave
    <3>3. p \in building /\ p \notin Unplaced
      BY <1>1, <3>1, <3>2
    <3>4. wave[p] = depth /\ p \notin Ready
      BY <3>2, <3>3 DEF Unplaced, Ready
    <3>. QED  BY <1>1, <2>1, <3>2, <3>3, <3>4
  <2>2. CASE c \notin Ready
    <3>1. PICK p \in scheduling[c] : wave[p] = wave[c] - 1
      BY <1>1, <2>2 DEF TightInv, NoIdleWave
    <3>2. p \in Packages /\ wave[p] # 0
      BY <1>1, <2>2, <3>1
    <3>3. p \notin Ready
      BY <3>2 DEF Ready, Unplaced
    <3>. QED  BY <1>1, <2>2, <3>1, <3>2, <3>3
  <2>. QED  BY <2>1, <2>2
<1>3. WaitsForLastWave'
  <2>. SUFFICES ASSUME NEW c \in building, wave'[c] = 0
                PROVE  \E p \in scheduling[c] : wave'[p] \in {0, depth'}
    BY <1>1 DEF WaitsForLastWave, Unplaced
  <2>1. c \in Unplaced /\ c \notin Ready
    BY <1>1 DEF Unplaced
  <2>2. PICK p \in scheduling[c] : p \in Unplaced
    BY <2>1 DEF Ready
  <2>. QED  BY <1>1, <2>2 DEF Unplaced
<1>. QED  BY <1>2, <1>3

LEMMA NextTight == TightInv /\ [Next]_vars => TightInv'
<1>. SUFFICES ASSUME TightInv, [Next]_vars PROVE NoIdleWave' /\ WaitsForLastWave'
  BY NextPreserves DEF TightInv
<1>1. CASE LayWave
  BY <1>1, LayTight
<1>2. ASSUME NEW v, Finish(v) PROVE NoIdleWave' /\ WaitsForLastWave'
  BY <1>2 DEF TightInv, NoIdleWave, WaitsForLastWave, Finish
<1>3. CASE UNCHANGED vars
  BY <1>3 DEF vars, inputs, TightInv, NoIdleWave, WaitsForLastWave, Unplaced
<1>4. CASE StartPlan \/ StartStack \/ (\E c \in Packages : CloseOver(c))
           \/ (\E c, p \in Packages : VisitEdge(c, p))
  <2>1. /\ depth = 0 /\ \A c \in Packages : wave[c] = 0
        /\ depth' = depth /\ wave' = wave
    BY <1>4 DEF TightInv, PlanInv, WavesComeLast, StartPlan, Plan, StartStack,
                CloseOver, VisitEdge
  <2>2. building' \subseteq Packages
    BY NextPreserves DEF TightInv, PlanInv, TypeOK
  <2>. QED  BY <2>1, <2>2 DEF NoIdleWave, WaitsForLastWave
<1>. QED
  BY <1>1, <1>2, <1>3, <1>4
  DEF Next, RefuseUnsurveyed, RefuseUnknown, RefuseBlocked, FinishPlan

(* Every recipe beyond the first wave has a predecessor in the wave just   *)
(* before its own, whatever the graph: no more waves than the longest      *)
(* chain (build_graph.py, waves).                                          *)
THEOREM NoWaveIsIdle == Spec => []NoIdleWave
<1>1. Init => TightInv
  BY InitEstablishes, InitTight DEF TightInv
<1>2. TightInv => NoIdleWave
  BY DEF TightInv
<1>. QED  BY <1>1, <1>2, NextTight, PTL DEF Spec

-----------------------------------------------------------------------------
(* The worklist of --stack.  While it runs, the selection is within every  *)
(* selection that would do, and only consumers on the worklist may still   *)
(* miss a provider.                                                        *)
WouldDo(S) == request \subseteq S /\ \A c \in S : MustPrecede(c) \subseteq S

Closing ==
  phase = "closing" =>
    /\ request \subseteq building
    /\ \A c \in building \ pending : MustPrecede(c) \subseteq building
    /\ \A S \in SUBSET Packages : WouldDo(S) => building \subseteq S

StackInv == PlanInv /\ Closing /\ StackIsLeastClosure

LEMMA NextStack == StackInv /\ [Next]_vars => StackInv'
<1>. SUFFICES ASSUME StackInv, [Next]_vars PROVE Closing' /\ StackIsLeastClosure'
  BY NextPreserves DEF StackInv
<1>1. building \subseteq Packages
  BY DEF StackInv, PlanInv, TypeOK
<1>2. CASE StartStack
  BY <1>2 DEF StackInv, Closing, WouldDo, MustPrecede, ProvidersFor,
              StackIsLeastClosure, StartStack, inputs
<1>3. ASSUME NEW c \in Packages, CloseOver(c) PROVE Closing' /\ StackIsLeastClosure'
  <2>1. /\ building' = building \cup MustPrecede(c)
        /\ pending' = (pending \ {c}) \cup (MustPrecede(c) \ building)
        /\ phase = "closing" /\ phase' = "closing" /\ c \in building
        /\ UNCHANGED <<rows, providers, satisfied, request>>
    BY <1>3 DEF StackInv, PlanInv, TypeOK, CloseOver, MustPrecede, inputs
  <2>2. \A d \in Packages : MustPrecede(d)' = MustPrecede(d)
    BY <2>1 DEF MustPrecede, ProvidersFor
  <2>3. \A S : WouldDo(S)' <=> WouldDo(S)
    BY <2>1 DEF WouldDo, MustPrecede, ProvidersFor
  <2>4. \A d \in building' \ pending' : MustPrecede(d) \subseteq building'
    BY <2>1 DEF StackInv, Closing
  <2>5. ASSUME NEW S \in SUBSET Packages, WouldDo(S) PROVE building' \subseteq S
    BY <2>1, <2>5 DEF StackInv, Closing, WouldDo
  <2>6. request' \subseteq building'
    BY <2>1 DEF StackInv, Closing
  <2>7. \A d \in building' \ pending' : d \in Packages
    BY NextPreserves DEF StackInv, PlanInv, TypeOK
  <2>8. Closing'
    BY <2>2, <2>3, <2>4, <2>5, <2>6, <2>7 DEF Closing
  <2>. QED  BY <2>1, <2>8 DEF StackIsLeastClosure
<1>4. ASSUME phase = "closing", pending = {}, building' = building,
             UNCHANGED <<rows, providers, satisfied, request>>, phase' # "closing"
      PROVE  Closing' /\ StackIsLeastClosure'
  <2>1. WouldDo(building) /\ \A S \in SUBSET building : WouldDo(S) => S = building
    BY <1>1, <1>4 DEF StackInv, Closing, WouldDo
  <2>. QED
    BY <1>4, <2>1
    DEF Closing, StackIsLeastClosure, WouldDo, MustPrecede, ProvidersFor
<1>5. ASSUME phase \in {"planning", "done"}, phase' \in {"planning", "done"},
             status \in {"unsurveyed", "unknown"} => status' = status,
             UNCHANGED <<rows, providers, satisfied, request, stack, building>>
      PROVE  Closing' /\ StackIsLeastClosure'
  BY <1>5 DEF StackInv, Closing, StackIsLeastClosure, MustPrecede, ProvidersFor
<1>6. CASE RefuseUnsurveyed \/ RefuseUnknown
  BY <1>6 DEF RefuseUnsurveyed, RefuseUnknown, Finish, Closing, StackIsLeastClosure
<1>7. CASE RefuseBlocked
  BY <1>4, <1>7 DEF RefuseBlocked, Finish, inputs
<1>8. CASE StartPlan
  <2>1. CASE phase = "asked"
    BY <1>8, <2>1 DEF StartPlan, Plan, inputs, Closing, StackIsLeastClosure
  <2>2. CASE phase # "asked"
    BY <1>4, <1>8, <2>2 DEF StartPlan, Plan, inputs
  <2>. QED  BY <2>1, <2>2
<1>9. CASE (\E c, p \in Packages : VisitEdge(c, p)) \/ LayWave \/ FinishPlan
  <2>1. phase = "planning" /\ status = "none"
    BY <1>9 DEF VisitEdge, LayWave, FinishPlan, StackInv, PlanInv, StatusComesLast
  <2>. QED  BY <1>5, <1>9, <2>1 DEF VisitEdge, LayWave, FinishPlan, Finish, inputs
<1>10. CASE UNCHANGED vars
  BY <1>10 DEF vars, inputs, StackInv, Closing, WouldDo, StackIsLeastClosure,
               MustPrecede, ProvidersFor
<1>. QED
  BY <1>2, <1>3, <1>6, <1>7, <1>8, <1>9, <1>10 DEF Next

(* --stack selects the least set of recipes that holds the targets and all *)
(* that CentOS cannot supply to its members (build_graph.py, plan).        *)
THEOREM StackIsLeast == Spec => []StackIsLeastClosure
<1>1. Init => StackInv
  BY InitEstablishes DEF Init, StackInv, Closing, StackIsLeastClosure
<1>2. StackInv => StackIsLeastClosure
  BY DEF StackInv
<1>. QED  BY <1>1, <1>2, NextStack, PTL DEF Spec

-----------------------------------------------------------------------------
(* Cycles.  A set of recipes in which each has a predecessor stands for    *)
(* the cycles within it; a least such set is one on which everything       *)
(* reaches everything.                                                     *)
LEMMA PackagesFinite == IsFiniteSet(Packages)
BY PlanAssumption, FS_Interval DEF Packages

LEMMA LeastOfNaturals ==
  ASSUME NEW N \in SUBSET Nat, N # {}
  PROVE  \E n \in N : \A m \in N : n <= m
<1>. DEFINE R == OpToRel(<, Nat)
<1>1. PICK n \in N : \A m \in N : <<m, n>> \notin R
  <2>1. IsWellFoundedOn(R, Nat)
    BY NatLessThanWellFounded
  <2>. HIDE DEF R
  <2>. QED  BY <2>1, WFMin
<1>2. \A m \in N : ~(m < n)
  BY <1>1 DEF OpToRel
<1>. QED  BY <1>2

LEMMA LeastCyclic ==
  ASSUME TypeOK, NEW graph, HasCycle(graph)
  PROVE  \E M \in SUBSET building :
           /\ Cyclic(graph, M)
           /\ \A T \in SUBSET M : Cyclic(graph, T) => T = M
<1>. DEFINE Sizes == {Cardinality(S) : S \in {T \in SUBSET building : Cyclic(graph, T)}}
<1>1. \A S \in SUBSET building : IsFiniteSet(S) /\ Cardinality(S) \in Nat
  BY PackagesFinite, FS_Subset, FS_CardinalityType DEF TypeOK
<1>2. Sizes \in SUBSET Nat /\ Sizes # {}
  BY <1>1 DEF HasCycle
<1>3. PICK n \in Sizes : \A m \in Sizes : n <= m
  <2>. HIDE DEF Sizes
  <2>. QED  BY <1>2, LeastOfNaturals
<1>4. PICK M \in SUBSET building : Cyclic(graph, M) /\ Cardinality(M) = n
  OBVIOUS
<1>5. ASSUME NEW T \in SUBSET M, Cyclic(graph, T) PROVE T = M
  <2>1. Cardinality(T) \in Sizes
    BY <1>5
  <2>2. Cardinality(M) <= Cardinality(T)
    BY <1>3, <1>4, <2>1
  <2>3. Cardinality(T) <= Cardinality(M) /\ (Cardinality(M) = Cardinality(T) => M = T)
    BY <1>1, FS_Subset
  <2>4. Cardinality(T) \in Nat /\ Cardinality(M) \in Nat
    BY <1>1
  <2>. QED  BY <2>2, <2>3, <2>4
<1>. QED  BY <1>4, <1>5

LEMMA LeastCyclicIsConnected ==
  ASSUME NEW graph, NEW M \in SUBSET building, Cyclic(graph, M),
         \A T \in SUBSET M : Cyclic(graph, T) => T = M,
         NEW c \in M, NEW p \in graph[c] \cap M
  PROVE  Reachable(graph, p, c)
<1>. SUFFICES ASSUME NEW S \in SUBSET building, p \in S, Closed(graph, S)
              PROVE  c \in S
  BY DEF Reachable
<1>1. Cyclic(graph, M \cap S)
  <2>1. p \in M \cap S
    OBVIOUS
  <2>2. ASSUME NEW n \in M \cap S PROVE graph[n] \cap (M \cap S) # {}
    BY <2>2 DEF Cyclic, Closed
  <2>. QED  BY <2>1, <2>2 DEF Cyclic
<1>2. M \cap S = M
  BY <1>1
<1>. QED  BY <1>2

(* An edge whose end leads back to its start lies on a cycle: the recipes  *)
(* outside the largest closed set that avoids its start.                   *)
LEMMA BackEdgeClosesCycle ==
  ASSUME NEW graph, \A n \in building : graph[n] \subseteq building,
         NEW c \in building, NEW p \in graph[c], Reachable(graph, p, c)
  PROVE  HasCycle(graph)
<1>. DEFINE Avoiding == {S \in SUBSET building : Closed(graph, S) /\ c \notin S}
            Outside == building \ UNION Avoiding
<1>1. c \in Outside /\ p \in building
  OBVIOUS
<1>2. p \in Outside
  BY <1>1 DEF Reachable
<1>3. ASSUME NEW n \in Outside PROVE graph[n] \cap Outside # {}
  <2>1. CASE n = c
    BY <1>2, <2>1
  <2>2. CASE n # c
    <3>. SUFFICES ASSUME graph[n] \cap Outside = {} PROVE FALSE
      OBVIOUS
    <3>. DEFINE More == (UNION Avoiding) \cup {n}
    <3>1. More \in SUBSET building /\ c \notin More
      BY <2>2
    <3>2. graph[n] \subseteq UNION Avoiding
      OBVIOUS
    <3>3. \A m \in UNION Avoiding : graph[m] \subseteq UNION Avoiding
      BY DEF Closed
    <3>4. Closed(graph, More)
      <4>. HIDE DEF Avoiding
      <4>. QED  BY <3>2, <3>3 DEF Closed
    <3>5. More \in Avoiding
      BY <3>1, <3>4
    <3>. QED  BY <3>5
  <2>. QED  BY <2>1, <2>2
<1>. HIDE DEF Outside
<1>4. Outside \subseteq building
  BY DEF Outside
<1>. QED  BY <1>2, <1>3, <1>4 DEF HasCycle, Cyclic

(* What the cycle breaker has decided so far: an edge it has visited and   *)
(* kept leads nowhere back, or stands for something CentOS does not have.  *)
Decided ==
  Solving =>
    /\ \A c \in Packages : scheduling[c] \subseteq Schedule(building)[c]
    /\ \A e \in todo : e[2] \in scheduling[e[1]]
    /\ \A c \in building : \A p \in scheduling[c] :
         <<c, p>> \in todo \/ ~Reachable(scheduling, p, c) \/ p \in MustPrecede(c)

CycleInv == PlanInv /\ Decided /\ AcyclicGraphKept /\ CycleErrorExact

(* Dropping edges makes nothing reachable. *)
LEMMA FewerEdgesReachLess ==
  ASSUME NEW graph, NEW fewer, \A n \in building : fewer[n] \subseteq graph[n],
         NEW p, NEW c, Reachable(fewer, p, c)
  PROVE  Reachable(graph, p, c)
BY DEF Reachable, Closed

LEMMA PlanDecides ==
  ASSUME PlanInv, NEW selection \in SUBSET Packages, Plan(selection),
         phase \in {"asked", "closing"}
  PROVE  Decided' /\ AcyclicGraphKept' /\ CycleErrorExact'
<1>1. Schedule(selection)' = Schedule(selection)
  BY DEF Plan, inputs, Schedule, Edges, ProvidersFor
<1>2. /\ scheduling' = Schedule(selection) /\ building' = selection
      /\ todo' = EdgePairs(Schedule(selection))
      /\ status' = "none"
      /\ Schedule(selection) \in [Packages -> SUBSET Packages]
  BY ScheduleType DEF PlanInv, StatusComesLast, Plan
<1>3. Decided'
  BY <1>1, <1>2 DEF Decided, EdgePairs
<1>4. AcyclicGraphKept'
  BY <1>1, <1>2 DEF AcyclicGraphKept
<1>. QED  BY <1>2, <1>3, <1>4 DEF CycleErrorExact

LEMMA VisitDecides ==
  ASSUME CycleInv, NEW c \in Packages, NEW p \in Packages, VisitEdge(c, p)
  PROVE  Decided' /\ AcyclicGraphKept' /\ CycleErrorExact'
<1>1. /\ UNCHANGED <<inputs, phase, status, building>>
      /\ phase = "planning" /\ status = "none"
      /\ <<c, p>> \in todo /\ todo' = todo \ {<<c, p>>}
  BY DEF VisitEdge, CycleInv, PlanInv, StatusComesLast
<1>2. /\ scheduling \in [Packages -> SUBSET Packages]
      /\ building \in SUBSET Packages
      /\ \A n \in Packages : scheduling[n] \subseteq building
      /\ todo \in SUBSET (Packages \X Packages)
  BY DEF CycleInv, PlanInv, TypeOK, WavesFollowGraph
<1>3. /\ Schedule(building)' = Schedule(building)
      /\ \A d \in Packages : MustPrecede(d)' = MustPrecede(d)
      /\ \A graph, m, n : Reachable(graph, m, n)' <=> Reachable(graph, m, n)
  BY <1>1 DEF inputs, Schedule, Edges, ProvidersFor, MustPrecede, Reachable
<1>4. /\ p \in scheduling[c]
      /\ c \in building
      /\ p \in Edges(c)
  BY <1>1, <1>2 DEF CycleInv, Decided, Solving, Schedule
<1>5. /\ \A n \in Packages : scheduling'[n] \subseteq scheduling[n]
      /\ \A d \in Packages : scheduling[d] \ scheduling'[d] \subseteq
           (IF d = c THEN {p} ELSE {})
  BY <1>2 DEF VisitEdge
<1>6. p \in scheduling'[c] => ~Reachable(scheduling, p, c) \/ p \in MustPrecede(c)
  <2>1. ~Witnessed(c, p) => p \in MustPrecede(c)
    BY <1>4 DEF Witnessed, Reasons, MustPrecede, Edges
  <2>. QED  BY <1>2, <2>1 DEF VisitEdge
<1>7. Decided'
  <2>1. \A d \in Packages : scheduling'[d] \subseteq Schedule(building)[d]
    BY <1>1, <1>5 DEF CycleInv, Decided, Solving
  <2>2. \A e \in todo' : e[2] \in scheduling'[e[1]]
    BY <1>1, <1>2, <1>5 DEF CycleInv, Decided, Solving
  <2>3. ASSUME NEW d \in building, NEW q \in scheduling'[d]
        PROVE  \/ <<d, q>> \in todo'
               \/ ~Reachable(scheduling', q, d)
               \/ q \in MustPrecede(d)
    <3>1. ~Reachable(scheduling, q, d) => ~Reachable(scheduling', q, d)
      BY <1>2, <1>5, FewerEdgesReachLess
    <3>2. CASE d = c /\ q = p
      BY <1>6, <3>1, <3>2
    <3>3. CASE ~(d = c /\ q = p)
      <4>1. \/ <<d, q>> \in todo
            \/ ~Reachable(scheduling, q, d)
            \/ q \in MustPrecede(d)
        BY <1>1, <1>2, <1>5 DEF CycleInv, Decided, Solving
      <4>. QED  BY <1>1, <3>1, <3>3, <4>1
    <3>. QED  BY <3>2, <3>3
  <2>. QED  BY <1>1, <1>2, <1>3, <2>1, <2>2, <2>3 DEF Decided
<1>8. AcyclicGraphKept'
  <2>1. HasCycle(Schedule(building)) \/ scheduling = Schedule(building)
    BY <1>1 DEF CycleInv, AcyclicGraphKept
  <2>2. CASE HasCycle(Schedule(building))
    BY <1>1, <1>3, <2>2 DEF AcyclicGraphKept, HasCycle
  <2>3. CASE scheduling = Schedule(building) /\ Reachable(scheduling, p, c)
    <3>1. HasCycle(Schedule(building))
      BY <1>2, <1>4, <2>3, BackEdgeClosesCycle
    <3>. QED  BY <1>1, <1>3, <3>1 DEF AcyclicGraphKept, HasCycle
  <2>4. CASE scheduling = Schedule(building) /\ ~Reachable(scheduling, p, c)
    BY <1>3, <2>4 DEF VisitEdge, AcyclicGraphKept
  <2>. QED  BY <2>1, <2>2, <2>3, <2>4
<1>. QED  BY <1>1, <1>7, <1>8 DEF CycleErrorExact

(* Once every edge is visited, what is left of a cycle needs a factory     *)
(* provider at every edge.                                                 *)
LEMMA CyclesLeftAreReal ==
  ASSUME PlanInv, Decided, Solving, todo = {}, HasCycle(scheduling)
  PROVE  HasCycle([c \in Packages |-> MustPrecede(c)])
<1>1. PICK M \in SUBSET building :
        /\ Cyclic(scheduling, M)
        /\ \A T \in SUBSET M : Cyclic(scheduling, T) => T = M
  BY LeastCyclic DEF PlanInv
<1>2. building \subseteq Packages
  BY DEF PlanInv, TypeOK
<1>3. ASSUME NEW c \in M PROVE MustPrecede(c) \cap M # {}
  <2>1. PICK p \in scheduling[c] : p \in M
    BY <1>1 DEF Cyclic
  <2>2. Reachable(scheduling, p, c)
    BY <1>1, <2>1, LeastCyclicIsConnected
  <2>. QED  BY <2>1, <2>2 DEF Decided
<1>. QED  BY <1>1, <1>2, <1>3 DEF HasCycle, Cyclic

(* A selection whose recipes all have a wave has no such cycle: a recipe   *)
(* of its earliest wave would have a provider in an earlier one.           *)
LEMMA LayeredIsAcyclic ==
  ASSUME PlanInv, Solving, Unplaced = {}
  PROVE  ~HasCycle([c \in Packages |-> MustPrecede(c)])
<1>. SUFFICES ASSUME NEW S \in SUBSET building,
                     Cyclic([c \in Packages |-> MustPrecede(c)], S)
              PROVE  FALSE
  BY DEF HasCycle
<1>1. building \subseteq Packages /\ wave \in [Packages -> Nat]
  BY DEF PlanInv, TypeOK
<1>. DEFINE N == {wave[c] : c \in S}
<1>2. N \in SUBSET Nat /\ N # {}
  BY <1>1 DEF Cyclic
<1>3. PICK n \in N : \A m \in N : n <= m
  <2>. HIDE DEF N
  <2>. QED  BY <1>2, LeastOfNaturals
<1>4. PICK c \in S : wave[c] = n
  OBVIOUS
<1>5. PICK p \in S : p \in MustPrecede(c)
  BY <1>1 DEF Cyclic
<1>6. p \in scheduling[c]
  BY <1>5 DEF PlanInv, UnsatisfiedEdgesKept
<1>7. wave[c] # 0
  BY DEF Unplaced
<1>8. wave[p] < wave[c]
  BY <1>1, <1>6, <1>7 DEF PlanInv, WavesFollowGraph
<1>. QED  BY <1>1, <1>3, <1>4, <1>8

LEMMA FinishDecides ==
  ASSUME CycleInv, FinishPlan
  PROVE  CycleErrorExact'
<1>1. /\ phase = "planning" /\ Solving /\ todo = {}
      /\ UNCHANGED <<inputs, building>>
      /\ status' = IF Unplaced # {} THEN "cycle"
                   ELSE IF TooDeep THEN "too_deep" ELSE "planned"
  BY DEF FinishPlan, Finish, Solving
<1>2. [c \in Packages |-> MustPrecede(c)]' = [c \in Packages |-> MustPrecede(c)]
  BY <1>1 DEF inputs, MustPrecede, ProvidersFor
<1>3. Unplaced # {} => HasCycle([c \in Packages |-> MustPrecede(c)])
  <2>1. Unplaced # {} => Cyclic(scheduling, Unplaced)
    BY DEF FinishPlan, Ready, Cyclic
  <2>2. Unplaced # {} => HasCycle(scheduling)
    BY <2>1 DEF HasCycle, Unplaced
  <2>. QED  BY <1>1, <2>2, CyclesLeftAreReal DEF CycleInv
<1>4. Unplaced = {} => ~HasCycle([c \in Packages |-> MustPrecede(c)])
  BY <1>1, LayeredIsAcyclic DEF CycleInv
<1>5. CASE Unplaced # {}
  BY <1>1, <1>2, <1>3, <1>5 DEF CycleErrorExact, HasCycle
<1>6. CASE Unplaced = {}
  BY <1>1, <1>2, <1>4, <1>6 DEF CycleErrorExact, HasCycle
<1>. QED  BY <1>5, <1>6

LEMMA NextDecides == CycleInv /\ [Next]_vars => CycleInv'
<1>. SUFFICES ASSUME CycleInv, [Next]_vars
              PROVE  Decided' /\ AcyclicGraphKept' /\ CycleErrorExact'
  BY NextPreserves DEF CycleInv
<1>. DEFINE Same == UNCHANGED <<inputs, building, scheduling, todo>>
<1>1. ASSUME Same
      PROVE  /\ Schedule(building)' = Schedule(building)
             /\ \A d \in Packages : MustPrecede(d)' = MustPrecede(d)
             /\ \A graph, m, n : Reachable(graph, m, n)' <=> Reachable(graph, m, n)
             /\ [c \in Packages |-> MustPrecede(c)]' = [c \in Packages |-> MustPrecede(c)]
             /\ \A graph : HasCycle(graph)' <=> HasCycle(graph)
  BY <1>1 DEF inputs, Schedule, Edges, ProvidersFor, MustPrecede, Reachable, HasCycle
<1>2. ASSUME Same, Solving' => Solving,
             phase' \in {"planning", "done"} =>
               \/ phase \in {"planning", "done"} /\ status' = status
               \/ phase = "planning"
               \/ status' \in {"unsurveyed", "unknown", "blocked"}
      PROVE  Decided' /\ AcyclicGraphKept'
  <2>1. building \subseteq Packages
    BY DEF CycleInv, PlanInv, TypeOK
  <2>2. Decided'
    BY <1>1, <1>2, <2>1 DEF CycleInv, Decided
  <2>3. AcyclicGraphKept'
    BY <1>1, <1>2 DEF CycleInv, PlanInv, StatusComesLast, AcyclicGraphKept
  <2>. QED  BY <2>2, <2>3
<1>3. CASE StartStack \/ \E c \in Packages : CloseOver(c)
  BY <1>3 DEF StartStack, CloseOver, CycleInv, PlanInv, StatusComesLast, Decided, Solving,
              AcyclicGraphKept, CycleErrorExact
<1>4. CASE RefuseUnsurveyed \/ RefuseUnknown \/ RefuseBlocked
  <2>1. /\ Same
        /\ status' \in {"unsurveyed", "unknown", "blocked"} /\ phase' = "done"
    BY <1>4 DEF RefuseUnsurveyed, RefuseUnknown, RefuseBlocked, Finish
  <2>. QED  BY <1>2, <2>1 DEF Solving, CycleErrorExact
<1>5. CASE StartPlan
  BY <1>5, PlanDecides DEF StartPlan, CycleInv, PlanInv, TypeOK, UnknownName
<1>6. ASSUME NEW c \in Packages, NEW p \in Packages, VisitEdge(c, p)
      PROVE  Decided' /\ AcyclicGraphKept' /\ CycleErrorExact'
  BY <1>6, VisitDecides
<1>7. CASE LayWave
  BY <1>2, <1>7 DEF LayWave, Solving, CycleInv, PlanInv, StatusComesLast, CycleErrorExact
<1>8. CASE FinishPlan
  <2>1. Same /\ Solving /\ phase = "planning"
    BY <1>8 DEF FinishPlan, Finish, Solving
  <2>. QED  BY <1>2, <1>8, <2>1, FinishDecides
<1>9. CASE UNCHANGED vars
  <2>1. Same /\ UNCHANGED <<phase, status>>
    BY <1>9 DEF vars
  <2>2. CycleErrorExact'
    BY <1>1, <2>1 DEF CycleInv, CycleErrorExact
  <2>. QED  BY <1>2, <2>1, <2>2 DEF Solving
<1>. QED  BY <1>3, <1>4, <1>5, <1>6, <1>7, <1>8, <1>9 DEF Next

(* The cycle invariant holds of every plan under way or made.              *)
THEOREM CycleInvariant == Spec => []CycleInv
<1>1. Init => CycleInv
  BY InitEstablishes
  DEF Init, CycleInv, Decided, Solving, AcyclicGraphKept, CycleErrorExact
<1>. QED  BY <1>1, NextDecides, PTL DEF Spec

(* A request whose recipes do not depend on each other in a circle is laid *)
(* out with its whole graph: the breaker drops edges on cycles only.       *)
THEOREM OnlyCyclesAreBroken == Spec => []AcyclicGraphKept
<1>1. CycleInv => AcyclicGraphKept
  BY DEF CycleInv
<1>. QED  BY <1>1, CycleInvariant, PTL

(* The planner reports a cycle exactly when the requirements CentOS does   *)
(* not satisfy are cyclic: whichever edges fell before, no breakable graph *)
(* is given up and no unbreakable one is planned.                          *)
THEOREM CycleErrorsAreExact == Spec => []CycleErrorExact
<1>1. CycleInv => CycleErrorExact
  BY DEF CycleInv
<1>. QED  BY <1>1, CycleInvariant, PTL
-----------------------------------------------------------------------------
(* Why the planner ends.  What is left to do, as a number: the recipes the *)
(* closure has not visited, the edges the breaker has not visited, the     *)
(* recipes without a wave, and one for each phase to come.                 *)
Unvisited == Packages \ (building \ pending)

Remaining ==
  LET n == NumPackages
  IN CASE phase = "asked" -> n * n + n + n + 3
       [] phase = "closing" -> Cardinality(Unvisited) + n * n + n + 2
       [] phase = "planning" -> Cardinality(todo) + Cardinality(Unplaced) + 1
       [] OTHER -> 0

MostSteps == NumPackages * NumPackages + NumPackages + NumPackages + 3

LEMMA PackagesCounted ==
  /\ NumPackages \in Nat /\ NumPackages * NumPackages \in Nat
  /\ IsFiniteSet(Packages) /\ Cardinality(Packages) = NumPackages
  /\ IsFiniteSet(Packages \X Packages)
  /\ Cardinality(Packages \X Packages) = NumPackages * NumPackages
<1>1. NumPackages \in Nat
  BY PlanAssumption
<1>2. IsFiniteSet(1..NumPackages) /\ Cardinality(1..NumPackages) = NumPackages
  BY <1>1, FS_Interval
<1>3. IsFiniteSet(Packages) /\ Cardinality(Packages) = NumPackages
  BY <1>2 DEF Packages
<1>. QED  BY <1>1, <1>3, FS_Product

(* Each of the three worklists is a finite set, of known size at most.     *)
LEMMA WorklistsCounted ==
  ASSUME TypeOK
  PROVE  /\ IsFiniteSet(Unvisited) /\ Cardinality(Unvisited) \in 0..NumPackages
         /\ IsFiniteSet(todo) /\ Cardinality(todo) \in 0..NumPackages * NumPackages
         /\ IsFiniteSet(Unplaced) /\ Cardinality(Unplaced) \in 0..NumPackages
<1>1. /\ Unvisited \in SUBSET Packages /\ Unplaced \in SUBSET Packages
      /\ todo \in SUBSET (Packages \X Packages)
  BY DEF TypeOK, Unvisited, Unplaced
<1>2. IsFiniteSet(Unvisited) /\ Cardinality(Unvisited) <= NumPackages
  BY <1>1, PackagesCounted, FS_Subset
<1>3. IsFiniteSet(Unplaced) /\ Cardinality(Unplaced) <= NumPackages
  BY <1>1, PackagesCounted, FS_Subset
<1>4. IsFiniteSet(todo) /\ Cardinality(todo) <= NumPackages * NumPackages
  BY <1>1, PackagesCounted, FS_Subset
<1>. QED  BY <1>2, <1>3, <1>4, FS_CardinalityType

LEMMA RemainingTyped ==
  ASSUME TypeOK
  PROVE  /\ Remaining \in 0..MostSteps
         /\ phase = "closing" => Remaining >= NumPackages * NumPackages + NumPackages + 2
         /\ phase = "planning" =>
              Remaining \in 1..NumPackages * NumPackages + NumPackages + 1
<1>1. /\ NumPackages \in Nat /\ NumPackages * NumPackages \in Nat
      /\ Cardinality(Unvisited) \in 0..NumPackages
      /\ Cardinality(todo) \in 0..NumPackages * NumPackages
      /\ Cardinality(Unplaced) \in 0..NumPackages
  BY PackagesCounted, WorklistsCounted
<1>2. phase \in {"asked", "closing", "planning", "done"}
  BY DEF TypeOK
<1>3. CASE phase = "asked"
  BY <1>1, <1>3 DEF Remaining, MostSteps
<1>4. CASE phase = "closing"
  BY <1>1, <1>4 DEF Remaining, MostSteps
<1>5. CASE phase = "planning"
  BY <1>1, <1>5 DEF Remaining, MostSteps
<1>6. CASE phase = "done"
  BY <1>1, <1>6 DEF Remaining, MostSteps
<1>. QED  BY <1>2, <1>3, <1>4, <1>5, <1>6

(* A phase that ends leaves less than it found.                            *)
LEMMA PhaseRunsDry ==
  ASSUME TypeOK, TypeOK',
         \/ phase # "done" /\ phase' = "done"
         \/ phase = "asked" /\ phase' \in {"closing", "planning"}
         \/ phase = "closing" /\ phase' = "planning"
  PROVE  Remaining' < Remaining
<1>. DEFINE n == NumPackages
<1>1. n \in Nat /\ n * n \in Nat
  BY PackagesCounted
<1>2. /\ Remaining \in 0..MostSteps
      /\ phase = "closing" => Remaining >= n * n + n + 2
      /\ phase = "planning" => Remaining \in 1..n * n + n + 1
  BY RemainingTyped
<1>3. /\ Remaining' \in 0..MostSteps
      /\ phase' = "planning" => Remaining' \in 1..n * n + n + 1
  <2>1. (/\ Remaining \in 0..MostSteps
         /\ phase = "closing" => Remaining >= NumPackages * NumPackages + NumPackages + 2
         /\ phase = "planning" =>
              Remaining \in 1..NumPackages * NumPackages + NumPackages + 1)'
    BY RemainingTyped, PTL
  <2>. QED  BY <2>1 DEF MostSteps
<1>4. phase = "asked" => Remaining = n * n + n + n + 3
  BY DEF Remaining
<1>5. phase' = "done" => Remaining' = 0
  BY DEF Remaining
<1>6. phase' = "closing" => Remaining' = Cardinality(Unvisited)' + n * n + n + 2
  BY DEF Remaining
<1>7. Cardinality(Unvisited)' \in 0..n
  <2>1. (Cardinality(Unvisited) \in 0..NumPackages)'
    BY WorklistsCounted, PTL
  <2>. QED  BY <2>1
<1>8. phase \in {"asked", "closing", "planning", "done"}
  BY DEF TypeOK
<1>. HIDE DEF n
<1>9. CASE phase' = "done"
  BY <1>1, <1>2, <1>4, <1>5, <1>8, <1>9
<1>10. CASE phase = "asked" /\ phase' = "closing"
  BY <1>1, <1>4, <1>6, <1>7, <1>10
<1>11. CASE phase = "asked" /\ phase' = "planning"
  BY <1>1, <1>3, <1>4, <1>11
<1>12. CASE phase = "closing" /\ phase' = "planning"
  BY <1>1, <1>2, <1>3, <1>12
<1>. QED  BY <1>9, <1>10, <1>11, <1>12

LEMMA CloseOverRunsDry ==
  ASSUME TypeOK, NEW c \in Packages, CloseOver(c)
  PROVE  Remaining' < Remaining
<1>1. phase = "closing" /\ phase' = "closing"
  BY DEF CloseOver
<1>2. Unvisited' = Unvisited \ {c} /\ c \in Unvisited
  BY DEF CloseOver, Unvisited, TypeOK
<1>3. IsFiniteSet(Unvisited) /\ Cardinality(Unvisited) \in Nat
  BY WorklistsCounted
<1>4. Cardinality(Unvisited)' = Cardinality(Unvisited) - 1
  BY <1>2, <1>3, FS_RemoveElement
<1>. QED  BY <1>1, <1>3, <1>4, PackagesCounted DEF Remaining

LEMMA VisitEdgeRunsDry ==
  ASSUME TypeOK, NEW c \in Packages, NEW p \in Packages, VisitEdge(c, p)
  PROVE  Remaining' < Remaining
<1>1. phase = "planning" /\ phase' = "planning"
  BY DEF VisitEdge
<1>2. todo' = todo \ {<<c, p>>} /\ <<c, p>> \in todo /\ Unplaced' = Unplaced
  BY DEF VisitEdge, Unplaced
<1>3. /\ IsFiniteSet(todo) /\ Cardinality(todo) \in Nat
      /\ Cardinality(Unplaced) \in Nat
  BY WorklistsCounted
<1>4. Cardinality(todo)' = Cardinality(todo) - 1
  BY <1>2, <1>3, FS_RemoveElement
<1>. QED  BY <1>1, <1>2, <1>3, <1>4 DEF Remaining

LEMMA LayWaveRunsDry ==
  ASSUME TypeOK, LayWave
  PROVE  Remaining' < Remaining
<1>1. phase = "planning" /\ phase' = "planning" /\ todo' = todo
  BY DEF LayWave
<1>2. Unplaced' \in SUBSET Unplaced /\ Unplaced' # Unplaced
  <2>1. building' = building /\ building \in SUBSET Packages /\ Ready \in SUBSET Unplaced
    BY DEF LayWave, TypeOK, Ready
  <2>2. PICK q \in Ready : q \in Unplaced
    BY <2>1 DEF LayWave
  <2>3. \A p \in Packages : wave'[p] = IF p \in Ready THEN depth + 1 ELSE wave[p]
    BY DEF LayWave
  <2>4. depth + 1 # 0
    BY DEF TypeOK
  <2>. QED  BY <2>1, <2>2, <2>3, <2>4 DEF Unplaced
<1>3. /\ IsFiniteSet(Unplaced) /\ Cardinality(Unplaced) \in Nat
      /\ Cardinality(todo) \in Nat
  BY WorklistsCounted
<1>4. Cardinality(Unplaced') < Cardinality(Unplaced) /\ Cardinality(Unplaced') \in Nat
  BY <1>2, <1>3, FS_Subset, FS_CardinalityType
<1>. QED  BY <1>1, <1>3, <1>4 DEF Remaining

LEMMA NextRunsDry == TypeOK /\ TypeOK' /\ Next => Remaining' < Remaining
<1>. SUFFICES ASSUME TypeOK, TypeOK', Next PROVE Remaining' < Remaining
  OBVIOUS
<1>1. CASE RefuseUnsurveyed \/ RefuseUnknown \/ RefuseBlocked \/ FinishPlan
  BY <1>1, PhaseRunsDry DEF RefuseUnsurveyed, RefuseUnknown, RefuseBlocked, FinishPlan, Finish
<1>2. CASE StartStack
  BY <1>2, PhaseRunsDry DEF StartStack
<1>3. CASE StartPlan
  BY <1>3, PhaseRunsDry DEF StartPlan, Plan
<1>. QED  BY <1>1, <1>2, <1>3, CloseOverRunsDry, VisitEdgeRunsDry, LayWaveRunsDry DEF Next

(* The planner answers every request on an inventory of n recipes within   *)
(* n*n + 2n + 3 steps: each step of the worklist, of the cycle breaker and *)
(* of the layering leaves less to do (build_graph.py, plan).               *)
THEOREM PlannerRunsDry ==
  Spec => [](Remaining \in 0..MostSteps) /\ [][Remaining' < Remaining]_vars
<1>1. TypeOK => Remaining \in 0..MostSteps
  BY RemainingTyped
<1>2. TypeOK /\ TypeOK' /\ [Next]_vars => [Remaining' < Remaining]_vars
  BY NextRunsDry
<1>. QED  BY <1>1, <1>2, PlanTypeCorrect, PTL DEF Spec

(* Nor does it stop short of a verdict: while edges are left, one comes    *)
(* before all others (bootstrap_edges, the sorted loops).                  *)
FirstEdgeExists ==
  todo # {} =>
    \E c, p \in Packages : <<c, p>> \in todo /\ \A e \in todo : Before(<<c, p>>, e)

(* The loops of bootstrap_edges always have a next edge to visit, whatever *)
(* the inventory.                                                          *)
THEOREM BreakerFindsEdge == Spec => []FirstEdgeExists
<1>1. TypeOK => FirstEdgeExists
  <2>. SUFFICES ASSUME todo \in SUBSET (Packages \X Packages), todo # {}
                PROVE  \E c, p \in Packages :
                         <<c, p>> \in todo /\ \A e \in todo : Before(<<c, p>>, e)
    BY DEF TypeOK, FirstEdgeExists
  <2>. DEFINE Consumers == {c \in Packages : \E p \in Packages : <<c, p>> \in todo}
  <2>1. Packages \subseteq Nat
    BY PlanAssumption DEF Packages
  <2>2. Consumers \in SUBSET Nat /\ Consumers # {}
    <3>1. PICK e \in todo : TRUE
      OBVIOUS
    <3>2. e = <<e[1], e[2]>> /\ e[1] \in Packages /\ e[2] \in Packages
      OBVIOUS
    <3>3. e[1] \in Consumers
      BY <3>1, <3>2
    <3>. QED  BY <2>1, <3>3
  <2>3. PICK c \in Consumers : \A d \in Consumers : c <= d
    <3>. HIDE DEF Consumers
    <3>. QED  BY <2>2, LeastOfNaturals
  <2>. DEFINE Of == {p \in Packages : <<c, p>> \in todo}
  <2>4. Of \in SUBSET Nat /\ Of # {}
    BY <2>1
  <2>5. PICK p \in Of : \A q \in Of : p <= q
    <3>. HIDE DEF Of
    <3>. QED  BY <2>4, LeastOfNaturals
  <2>6. ASSUME NEW e \in todo PROVE Before(<<c, p>>, e)
    <3>1. e = <<e[1], e[2]>> /\ e[1] \in Packages /\ e[2] \in Packages
      OBVIOUS
    <3>2. e[1] \in Consumers /\ (e[1] = c => e[2] \in Of)
      BY <3>1
    <3>3. c <= e[1] /\ (e[1] = c => p <= e[2])
      BY <2>3, <2>5, <3>2
    <3>4. c \in Nat /\ e[1] \in Nat
      BY <2>1, <3>1
    <3>. QED  BY <3>3, <3>4 DEF Before
  <2>. QED  BY <2>6
<1>. QED  BY <1>1, PlanTypeCorrect, PTL

-----------------------------------------------------------------------------
(* Every wave has a recipe in it.                                          *)
NoEmptyWave == \A d \in 1..depth : \E p \in building : wave[p] = d

LEMMA NextFills == PlanInv /\ PlanInv' /\ NoEmptyWave /\ [Next]_vars => NoEmptyWave'
<1>. SUFFICES ASSUME PlanInv, PlanInv', NoEmptyWave, [Next]_vars PROVE NoEmptyWave'
  OBVIOUS
<1>1. CASE LayWave
  <2>1. depth \in Nat /\ depth' = depth + 1 /\ building' = building
    BY <1>1 DEF LayWave, PlanInv, TypeOK
  <2>2. PICK q \in Ready : q \in Packages /\ q \in building
    BY <1>1 DEF LayWave, Ready, Unplaced, PlanInv, TypeOK
  <2>3. wave'[q] = depth'
    BY <1>1, <2>1, <2>2 DEF LayWave
  <2>4. ASSUME NEW p \in building, wave[p] # 0 PROVE wave'[p] = wave[p]
    BY <1>1, <2>4 DEF LayWave, Ready, Unplaced, PlanInv, TypeOK
  <2>5. ASSUME NEW d \in 1..depth' PROVE \E p \in building' : wave'[p] = d
    <3>1. CASE d = depth'
      BY <2>1, <2>2, <2>3, <3>1
    <3>2. CASE d # depth'
      <4>1. d \in 1..depth /\ d # 0
        BY <2>1, <3>2
      <4>2. PICK p \in building : wave[p] = d
        BY <4>1 DEF NoEmptyWave
      <4>. QED  BY <2>1, <2>4, <4>1, <4>2
    <3>. QED  BY <3>1, <3>2
  <2>. QED  BY <2>5 DEF NoEmptyWave
<1>2. CASE phase' \in {"asked", "closing"} \/ (phase \in {"asked", "closing"} /\ UNCHANGED depth)
  <2>1. depth' = 0
    BY <1>2 DEF PlanInv, WavesComeLast
  <2>. QED  BY <2>1 DEF NoEmptyWave
<1>3. CASE UNCHANGED <<building, wave, depth>>
  BY <1>3 DEF NoEmptyWave
<1>4. ASSUME Next PROVE \/ LayWave \/ UNCHANGED <<building, wave, depth>>
                        \/ phase \in {"asked", "closing"} /\ UNCHANGED depth
  BY <1>4 DEF Next, RefuseUnsurveyed, RefuseUnknown, StartStack, CloseOver, RefuseBlocked,
              StartPlan, Plan, VisitEdge, FinishPlan, Finish
<1>5. CASE UNCHANGED vars
  BY <1>3, <1>5 DEF vars
<1>. QED  BY <1>1, <1>2, <1>3, <1>4, <1>5

(* A plan is refused as too deep for the workflow's static jobs only when  *)
(* it has more recipes than there are jobs: no wave is laid for nothing    *)
(* (build_graph.py, plan, on MAX_WAVES).                                   *)
TooDeepIsDeep == status = "too_deep" => Cardinality(building) > MaxWaves

DeepPlansKnown == status = "too_deep" => depth > MaxWaves

LEMMA NextDeep == PlanInv /\ DeepPlansKnown /\ [Next]_vars => DeepPlansKnown'
<1>. SUFFICES ASSUME PlanInv, DeepPlansKnown, [Next]_vars, status' = "too_deep"
              PROVE  depth' > MaxWaves
  BY DEF DeepPlansKnown
<1>1. phase # "done" => status = "none"
  BY DEF PlanInv, StatusComesLast
<1>2. CASE status = "too_deep"
  <2>1. UNCHANGED depth
    BY <1>1, <1>2 DEF Next, vars, RefuseUnsurveyed, RefuseUnknown, StartStack, CloseOver,
                      RefuseBlocked, StartPlan, Plan, VisitEdge, LayWave, FinishPlan, Finish
  <2>. QED  BY <1>2, <2>1 DEF DeepPlansKnown
<1>3. CASE status # "too_deep"
  <2>1. FinishPlan
    BY <1>3 DEF Next, vars, RefuseUnsurveyed, RefuseUnknown, StartStack, CloseOver,
                RefuseBlocked, StartPlan, Plan, VisitEdge, LayWave, Finish
  <2>. QED  BY <2>1 DEF FinishPlan, Finish, TooDeep
<1>. QED  BY <1>2, <1>3

(* The error about too many waves is given to no inventory that is smaller *)
(* than the wave limit (build_graph.py, waves).                            *)
THEOREM TooDeepNeedsRecipes == Spec => []TooDeepIsDeep
<1>1. PlanInv /\ NoEmptyWave /\ DeepPlansKnown => TooDeepIsDeep
  <2>. SUFFICES ASSUME PlanInv, NoEmptyWave, depth > MaxWaves
                PROVE  Cardinality(building) > MaxWaves
    BY DEF DeepPlansKnown, TooDeepIsDeep
  <2>. DEFINE first == [d \in 1..depth |-> CHOOSE p \in building : wave[p] = d]
  <2>1. depth \in Nat /\ building \in SUBSET Packages
    BY DEF PlanInv, TypeOK
  <2>2. ASSUME NEW d \in 1..depth PROVE first[d] \in building /\ wave[first[d]] = d
    BY DEF NoEmptyWave
  <2>. HIDE DEF first
  <2>3. first \in Injection(1..depth, building)
    <3>1. first \in [1..depth -> building]
      BY <2>2 DEF first
    <3>2. \A a, b \in 1..depth : first[a] = first[b] => a = b
      BY <2>2
    <3>. QED  BY <3>1, <3>2 DEF Injection, IsInjective
  <2>4. IsFiniteSet(building) /\ Cardinality(building) \in Nat
    BY <2>1, PackagesCounted, FS_Subset, FS_CardinalityType
  <2>5. Cardinality(1..depth) <= Cardinality(building)
    BY <2>3, <2>4, FS_Injection
  <2>6. Cardinality(1..depth) = depth
    BY <2>1, FS_Interval
  <2>. QED  BY <2>1, <2>4, <2>5, <2>6, PlanAssumption
<1>2. Init => NoEmptyWave /\ DeepPlansKnown
  BY DEF Init, NoEmptyWave, DeepPlansKnown
<1>. QED  BY <1>1, <1>2, NextFills, NextDeep, PlanInvariant, PTL DEF Spec
=============================================================================
