------------------------------ MODULE WavePlan ------------------------------
(***************************************************************************)
(* The build planner of the package factory (factory/tools/build_graph.py, *)
(* function plan): which recipes a stack build selects, which BuildRequires *)
(* edges may be dropped to break a bootstrap cycle, and the waves the      *)
(* remaining graph is layered into.  The waves feed the sixteen static     *)
(* build jobs of .github/workflows/factory-build.yml.                      *)
(*                                                                         *)
(* A recipe is its position in the sorted inventory, so "sorted by name"   *)
(* is the order of the naturals; 0 stands for a name the inventory does    *)
(* not have.  A requirement is an atom: what matters of it is which        *)
(* recipes provide it and whether CentOS satisfies it for a consumer.      *)
(***************************************************************************)
EXTENDS Naturals

CONSTANTS
  NumPackages,  \* recipes in the inventory
  Requirements, \* distinct BuildRequires strings
  MaxWaves      \* static build jobs in the workflow (16 in the source)

ASSUME PlanAssumption ==
  /\ NumPackages \in Nat
  /\ MaxWaves \in Nat

Packages == 1 .. NumPackages
UnknownName == 0

VARIABLES
  rows,       \* rows[c]: requirements of recipe c
  providers,  \* providers[r]: recipes one of whose capabilities r names
  surveyed,   \* base-satisfied.json exists and has entries
  satisfied,  \* satisfied[c]: requirements of c with a CentOS base witness
  blocked,    \* recipes whose sources the factory cannot supply
  stack,      \* --stack: close the request over what CentOS cannot supply
  request,    \* names asked for: --packages, or the GNOME targets
  phase,      \* "asked", "closing", "planning" or "done"
  status,     \* verdict, "none" until done
  building,   \* recipes to build
  pending,    \* consumers the stack closure still has to visit
  scheduling, \* scheduling[c]: recipes that must build before c
  todo,       \* edges the cycle breaker still has to visit
  wave,       \* wave[p]: number of p's wave, from 1; 0 while unplaced
  depth       \* waves laid so far

inputs == <<rows, providers, surveyed, satisfied, blocked, stack, request>>
vars == <<inputs, phase, status, building, pending, scheduling, todo,
          wave, depth>>

-----------------------------------------------------------------------------
(* resolve_edges: a requirement binds a consumer to every recipe that      *)
(* provides a capability it names, itself excepted.                        *)
ProvidersFor(c, r) == providers[r] \ {c}

Edges(c) == UNION {ProvidersFor(c, r) : r \in rows[c]}

(* The requirements that make c depend on p. *)
Reasons(c, p) == {r \in rows[c] : p \in ProvidersFor(c, r)}

(* Mutant of Witnessed: one satisfied requirement excuses the edge. *)
WitnessedByOne(c, p) == Reasons(c, p) \cap satisfied[c] # {}

(* A cyclic edge may go only if every requirement behind it has an exact   *)
(* witness in CentOS.                                                      *)
Witnessed(c, p) == Reasons(c, p) # {} /\ Reasons(c, p) \subseteq satisfied[c]

Closed(graph, S) == \A n \in S : graph[n] \subseteq S

(* Mutant of Reachable: looks one edge far. *)
ReachableDirectly(graph, start, target) == target \in graph[start]

(* reachable(start, target): target is in every set that holds start and   *)
(* is closed under the graph.                                              *)
Reachable(graph, start, target) ==
  \A S \in SUBSET building : (start \in S /\ Closed(graph, S)) => target \in S

(* Visiting order: consumers by name, then their providers by name. *)
Before(e, f) == e[1] < f[1] \/ (e[1] = f[1] /\ e[2] <= f[2])

(* The graph restricted to a selection, and the edges of a graph. *)
Schedule(selection) ==
  [c \in Packages |-> IF c \in selection THEN Edges(c) \cap selection ELSE {}]

EdgePairs(graph) == {e \in Packages \X Packages : e[2] \in graph[e[1]]}

Unplaced == {p \in building : wave[p] = 0}

(* Mutant of Ready: takes one recipe off the queue per wave. *)
ReadyOne ==
  {p \in Unplaced : /\ scheduling[p] \cap Unplaced = {}
                    /\ \A q \in Unplaced : q < p => scheduling[q] \cap Unplaced # {}}

(* Unplaced recipes whose predecessors all have a wave. *)
Ready == {p \in Unplaced : scheduling[p] \cap Unplaced = {}}

-----------------------------------------------------------------------------
Init ==
  /\ rows \in [Packages -> SUBSET Requirements]
  /\ providers \in [Requirements -> SUBSET Packages]
  /\ surveyed \in BOOLEAN
  /\ satisfied \in [Packages -> SUBSET Requirements]
  /\ \A c \in Packages : satisfied[c] \subseteq (IF surveyed THEN rows[c] ELSE {})
  /\ blocked \in SUBSET Packages
  /\ stack \in BOOLEAN
  /\ request \in SUBSET (Packages \cup {UnknownName})
  /\ phase = "asked"
  /\ status = "none"
  /\ building = {}
  /\ pending = {}
  /\ scheduling = [c \in Packages |-> {}]
  /\ todo = {}
  /\ wave = [p \in Packages |-> 0]
  /\ depth = 0

Finish(verdict) ==
  /\ phase' = "done"
  /\ status' = verdict
  /\ UNCHANGED <<inputs, building, pending, scheduling, todo, wave, depth>>

(* A stack cannot be chosen without knowing what CentOS provides.  The     *)
(* survey writes an entry for every recipe, whether or not CentOS          *)
(* satisfies any of its requirements, so only a missing one is empty.      *)
RefuseUnsurveyed ==
  /\ phase = "asked"
  /\ stack /\ ~surveyed
  /\ Finish("unsurveyed")

RefuseUnknown ==
  /\ phase = "asked"
  /\ ~(stack /\ ~surveyed)
  /\ UnknownName \in request
  /\ Finish("unknown")

StartStack ==
  /\ phase = "asked"
  /\ stack /\ surveyed
  /\ UnknownName \notin request
  /\ phase' = "closing"
  /\ building' = request
  /\ pending' = request
  /\ UNCHANGED <<inputs, status, scheduling, todo, wave, depth>>

(* Mutants of CloseOver: selects direct providers only; leaves the visited *)
(* consumer on the worklist.                                               *)
CloseOverDirectly(c) ==
  /\ phase = "closing"
  /\ c \in pending
  /\ LET added == (UNION {ProvidersFor(c, r) : r \in rows[c] \ satisfied[c]})
                    \ building
     IN  building' = building \cup added
  /\ pending' = pending \ {c}
  /\ UNCHANGED <<inputs, phase, status, scheduling, todo, wave, depth>>

CloseOverForever(c) ==
  /\ phase = "closing"
  /\ c \in pending
  /\ LET added == (UNION {ProvidersFor(c, r) : r \in rows[c] \ satisfied[c]})
                    \ building
     IN  /\ building' = building \cup added
         /\ pending' = pending \cup added
  /\ UNCHANGED <<inputs, phase, status, scheduling, todo, wave, depth>>

(* One turn of the stack worklist: a requirement CentOS satisfies adds     *)
(* nothing, any other adds every factory provider not yet selected.        *)
CloseOver(c) ==
  /\ phase = "closing"
  /\ c \in pending
  /\ LET added == (UNION {ProvidersFor(c, r) : r \in rows[c] \ satisfied[c]})
                    \ building
     IN  /\ building' = building \cup added
         /\ pending' = (pending \ {c}) \cup added
  /\ UNCHANGED <<inputs, phase, status, scheduling, todo, wave, depth>>

RefuseBlocked ==
  /\ phase = "closing"
  /\ pending = {}
  /\ blocked \cap building # {}
  /\ Finish("blocked")

Plan(selection) ==
  /\ phase' = "planning"
  /\ building' = selection
  /\ scheduling' = Schedule(selection)
  /\ todo' = EdgePairs(Schedule(selection))
  /\ UNCHANGED <<inputs, status, pending, wave, depth>>

(* Mutant of StartPlan: the names a caller passes are not looked up. *)
StartPlanUnchecked ==
  \/ /\ phase = "closing"
     /\ pending = {}
     /\ blocked \cap building = {}
     /\ Plan(building)
  \/ /\ phase = "asked"
     /\ ~stack
     /\ Plan(request)

(* bootstrap_edges begins: on the stack, or on the packages the caller     *)
(* named.                                                                  *)
StartPlan ==
  \/ /\ phase = "closing"
     /\ pending = {}
     /\ blocked \cap building = {}
     /\ Plan(building)
  \/ /\ phase = "asked"
     /\ ~stack
     /\ UnknownName \notin request
     /\ Plan(request)

(* Mutant of VisitEdge: drops witnessed edges on no cycle as well. *)
VisitEdgeAnywhere(c, p) ==
  /\ phase = "planning"
  /\ <<c, p>> \in todo
  /\ \A e \in todo : Before(<<c, p>>, e)
  /\ todo' = todo \ {<<c, p>>}
  /\ scheduling' = IF Witnessed(c, p) THEN [scheduling EXCEPT ![c] = @ \ {p}]
                   ELSE scheduling
  /\ UNCHANGED <<inputs, phase, status, building, pending, wave, depth>>

(* One edge of bootstrap_edges. *)
VisitEdge(c, p) ==
  /\ phase = "planning"
  /\ <<c, p>> \in todo
  /\ \A e \in todo : Before(<<c, p>>, e)
  /\ todo' = todo \ {<<c, p>>}
  /\ scheduling' =
       IF Reachable(scheduling, p, c) /\ Witnessed(c, p)
       THEN [scheduling EXCEPT ![c] = @ \ {p}]
       ELSE scheduling
  /\ UNCHANGED <<inputs, phase, status, building, pending, wave, depth>>

(* One turn of the loop of waves: everything whose predecessors are all in *)
(* earlier waves forms the next wave.                                      *)
LayWave ==
  /\ phase = "planning"
  /\ todo = {}
  /\ Ready # {}
  /\ wave' = [p \in Packages |-> IF p \in Ready THEN depth + 1 ELSE wave[p]]
  /\ depth' = depth + 1
  /\ UNCHANGED <<inputs, phase, status, building, pending, scheduling, todo>>

(* The workflow refuses a plan deeper than its static jobs. *)
TooDeep == depth > MaxWaves

(* waves returns, or raises on what it could not place; the workflow then  *)
(* counts the waves.                                                       *)
FinishPlan ==
  /\ phase = "planning"
  /\ todo = {}
  /\ Ready = {}
  /\ Finish(IF Unplaced # {} THEN "cycle"
            ELSE IF TooDeep THEN "too_deep" ELSE "planned")

Next ==
  \/ RefuseUnsurveyed
  \/ RefuseUnknown
  \/ StartStack
  \/ \E c \in Packages : CloseOver(c)
  \/ RefuseBlocked
  \/ StartPlan
  \/ \E c, p \in Packages : VisitEdge(c, p)
  \/ LayWave
  \/ FinishPlan

Spec == Init /\ [][Next]_vars

(* The planner is one sequential process that nothing interrupts. *)
FairSpec == Spec /\ WF_vars(Next)

-----------------------------------------------------------------------------
TypeOK ==
  /\ rows \in [Packages -> SUBSET Requirements]
  /\ providers \in [Requirements -> SUBSET Packages]
  /\ surveyed \in BOOLEAN
  /\ satisfied \in [Packages -> SUBSET Requirements]
  /\ blocked \in SUBSET Packages
  /\ stack \in BOOLEAN
  /\ request \in SUBSET (Packages \cup {UnknownName})
  /\ phase \in {"asked", "closing", "planning", "done"}
  /\ status \in {"none", "unsurveyed", "unknown", "blocked", "cycle",
                 "too_deep", "planned"}
  /\ building \in SUBSET Packages
  /\ pending \in SUBSET building
  /\ scheduling \in [Packages -> SUBSET Packages]
  /\ todo \in SUBSET (Packages \X Packages)
  /\ wave \in [Packages -> Nat]
  /\ depth \in Nat

(* The providers c must find in the factory: those of some requirement     *)
(* CentOS does not satisfy.                                                *)
MustPrecede(c) == UNION {ProvidersFor(c, r) : r \in rows[c] \ satisfied[c]}

(* A non-empty set in which every member has a predecessor holds a cycle.  *)
Cyclic(graph, S) == S # {} /\ \A n \in S : graph[n] \cap S # {}

HasCycle(graph) == \E S \in SUBSET building : Cyclic(graph, S)

(* The plan keeps its promise to the builder: in a finished plan every     *)
(* selected recipe has a wave, and each selected provider of a requirement *)
(* CentOS does not satisfy is in a strictly earlier one, whatever edges    *)
(* the cycle breaker dropped on the way (build_graph.py waves and          *)
(* bootstrap_edges; the wave jobs admit strictly earlier waves only).      *)
RequirementsBuiltEarlier ==
  status = "planned" =>
    \A c \in building :
      /\ wave[c] \in 1 .. MaxWaves
      /\ \A p \in MustPrecede(c) \cap building : wave[p] < wave[c]

(* The cycle breaker touches nothing when there is no cycle to break: an   *)
(* acyclic selection keeps its whole graph (bootstrap_edges, "break only   *)
(* cyclic edges").                                                         *)
AcyclicGraphKept ==
  phase \in {"planning", "done"} =>
    HasCycle(Schedule(building)) \/ scheduling = Schedule(building)
      \/ status \in {"unsurveyed", "unknown", "blocked"}

(* The planner reports a cycle exactly when the requirements CentOS cannot *)
(* satisfy are themselves cyclic: it neither gives up on a breakable graph *)
(* nor plans an unbreakable one, for every order in which edges fall.      *)
CycleErrorExact ==
  status \in {"cycle", "too_deep", "planned"} =>
    (status = "cycle" <=> HasCycle([c \in Packages |-> MustPrecede(c)]))

(* No recipe waits for nothing: each one beyond the first wave has a       *)
(* predecessor in the wave just before its own, so the number of waves is  *)
(* the length of the longest chain (waves, "topologically layer").         *)
NoIdleWave ==
  \A c \in building : wave[c] > 1 => \E p \in scheduling[c] : wave[p] = wave[c] - 1

(* The stack is the least selection that holds the targets and, with a     *)
(* recipe, all it cannot get from CentOS (plan, the --stack worklist).     *)
StackIsLeastClosure ==
  (stack /\ phase \in {"planning", "done"} /\ status \notin {"unsurveyed", "unknown"}) =>
    /\ request \subseteq building
    /\ \A c \in building : MustPrecede(c) \subseteq building
    /\ \A S \in SUBSET building :
         (request \subseteq S /\ \A c \in S : MustPrecede(c) \subseteq S) => S = building

(* Every request gets a verdict: the worklist, the breaker and the layering *)
(* all run dry.                                                            *)
Terminates == <>(phase = "done")
=============================================================================
