-------------------------- MODULE StackBuildProofs --------------------------
(***************************************************************************)
(* Proofs about the stack build, for every set of recipes, every survey,   *)
(* every plan, any number of workers and of interruptions.                 *)
(***************************************************************************)
EXTENDS StackBuild, TLAPS

-----------------------------------------------------------------------------
(* Nothing is built, or checked, before the preflight of a survey passed.  *)
Surveyed ==
  /\ preflight = "passed" => survey # None
  /\ proc.phase # "idle" \/ verdict # "none" => preflight = "passed"

(* RPMs are cut short by interruptions only.                               *)
TornByKills == kills = 0 => torn = {}

TypeInv == StackTypeOK /\ Surveyed /\ TornByKills

LEMMA WaveFacts == 0 \in Waves /\ Waves \subseteq Nat /\ None \notin Waves
BY StackAssumption DEF Waves

LEMMA NoProcTyped == NoProc \in Procs /\ NoProc.phase = "idle" /\ Unreported \in [Packages -> Statuses]
<1>1. Unreported \in [Packages -> Statuses]
  BY DEF Unreported, Statuses
<1> QED
  BY <1>1, WaveFacts DEF NoProc, Procs, ProcPhases

LEMMA EnterTyped ==
  ASSUME TypeInv, NEW w \in Waves, NEW only \in BOOLEAN,
         NEW memory \in [Packages -> Statuses], Enter(w, only, memory)
  PROVE  /\ proc' \in Procs
         /\ proc'.phase = "build" /\ proc'.wave = w
         /\ fresh' \in BOOLEAN
         /\ last' \in Waves \cup {-1}
<1>1. InWave(w) \subseteq Packages
  BY DEF InWave
<1> QED
  BY <1>1 DEF Enter, Procs, ProcPhases, TypeInv, StackTypeOK

LEMMA EndedTyped ==
  ASSUME TypeInv, NEW p \in Packages, NEW how \in {"ok", "deps", "fault"},
         NEW status \in Statuses, NEW rpms \in {None} \cup SUBSET Names,
         Ended(p, how, status, rpms)
  PROVE  /\ proc' \in Procs
         /\ proc'.phase = proc.phase
         /\ result' \in [Packages -> {"none", "ok", "deps", "fault"}]
         /\ output' \in [Packages -> {None} \cup SUBSET Names]
<1>1. proc \in Procs /\ proc.memory \in [Packages -> Statuses]
  BY DEF TypeInv, StackTypeOK, Procs
<1>2. [proc.memory EXCEPT ![p] = status] \in [Packages -> Statuses]
  BY <1>1
<1>3. proc' = [proc EXCEPT !.building = @ \ {p}, !.memory = [proc.memory EXCEPT ![p] = status]]
  BY <1>1 DEF Ended, Procs
<1>4. proc' \in Procs /\ proc'.phase = proc.phase
  BY <1>1, <1>2, <1>3 DEF Procs
<1> QED
  BY <1>4 DEF Ended, TypeInv, StackTypeOK

LEMMA TypeInvStep == TypeInv /\ [StackNext]_stackVars => TypeInv'
<1> SUFFICES ASSUME TypeInv, [StackNext]_stackVars PROVE TypeInv'
  OBVIOUS
<1> USE DEF TypeInv
<1>1. CASE Extract
  BY <1>1 DEF Extract, StackTypeOK, Surveyed, TornByKills, Plans
<1>2. CASE Preflight
  BY <1>2 DEF Preflight, StackTypeOK, Surveyed, TornByKills
<1>3. ASSUME NEW w \in Waves, StartWave(w) PROVE TypeInv'
  BY <1>3, EnterTyped DEF StartWave, StackTypeOK, Surveyed, TornByKills
<1>4. CASE StartAll
  BY <1>4, EnterTyped, WaveFacts, NoProcTyped DEF StartAll, StackTypeOK, Surveyed, TornByKills
<1>5. ASSUME NEW p \in Packages, Begin(p) PROVE TypeInv'
  <2>1. proc' \in Procs /\ proc'.phase = proc.phase
    BY <1>5 DEF Begin, StackTypeOK, Procs
  <2> QED
    BY <1>5, <2>1 DEF Begin, StackTypeOK, Surveyed, TornByKills
<1>6. ASSUME NEW p \in Packages, Finish(p) PROVE TypeInv'
  <2>1. survey \in SurveyType
    BY <1>6, StackAssumption DEF Finish, StackTypeOK, Surveyed, TornByKills
  <2>2. survey.implicit[p] \subseteq Names
    BY <2>1 DEF SurveyType
  <2>3. PICK how \in {"ok", "deps", "fault"}, status \in Statuses, rpms \in {None} \cup SUBSET Names :
          Ended(p, how, status, rpms)
    BY <1>6, <2>2 DEF Finish, Statuses
  <2> QED
    BY <1>6, <2>3, EndedTyped DEF Finish, StackTypeOK, Surveyed, TornByKills
<1>7. CASE Copy
  <2>1. proc' \in Procs /\ proc'.phase = "report" /\ proc.phase = "build"
    BY <1>7 DEF Copy, WaveBuilt, StackTypeOK, Procs, ProcPhases
  <2> QED
    BY <1>7, <2>1 DEF Copy, StackTypeOK, Surveyed, TornByKills
<1>8. CASE Write
  <2>1. proc' \in Procs /\ proc'.phase = "clean" /\ proc.memory \in [Packages -> Statuses]
    BY <1>8 DEF Write, StackTypeOK, Procs, ProcPhases
  <2> QED
    BY <1>8, <2>1 DEF Write, StackTypeOK, Surveyed, TornByKills
<1>9. CASE Clean
  <2>1. proc.memory \in [Packages -> Statuses]
    BY DEF StackTypeOK, Procs
  <2>2. CASE HasNext(proc.wave) /\ Enter(proc.wave + 1, FALSE, proc.memory)
    BY <1>9, <2>1, <2>2, EnterTyped DEF Clean, HasNext, StackTypeOK, Surveyed, TornByKills
  <2>3. CASE proc' = NoProc /\ UNCHANGED <<last, fresh>>
    BY <1>9, <2>3, NoProcTyped DEF Clean, StackTypeOK, Surveyed, TornByKills
  <2> QED
    BY <1>9, <2>2, <2>3 DEF Clean
<1>10. CASE Kill
  <2>0. PICK some \in SUBSET (IF WaveBuilt THEN Copied ELSE {}) :
          /\ prior' = [p \in Packages |-> IF p \in some THEN output[p] ELSE prior[p]]
          /\ \/ torn' = torn \ some
             \/ \E p \in some : torn' = (torn \ some) \cup {p}
    BY <1>10 DEF Kill
  <2>1. prior' \in [Packages -> {None} \cup SUBSET Names]
    BY <2>0 DEF StackTypeOK
  <2>2. torn' \in SUBSET Packages
    <3>1. some \subseteq Packages
      BY <2>0 DEF Copied, InWave
    <3> QED
      BY <2>0, <3>1 DEF StackTypeOK
  <2>3. kills' \in Nat /\ kills' # 0 /\ proc' \in Procs /\ proc'.phase = "idle"
    BY <1>10, NoProcTyped DEF Kill, StackTypeOK
  <2>4. /\ report' \in [Packages -> Statuses] \cup {None}
        /\ UNCHANGED <<survey, wave, preflight, output, result, verdict, last, fresh>>
    BY <1>10 DEF Kill, StackTypeOK
  <2> QED
    BY <2>1, <2>2, <2>3, <2>4 DEF StackTypeOK, Surveyed, TornByKills
<1>11. CASE Check
  BY <1>11 DEF Check, StackTypeOK, Surveyed, TornByKills
<1>12. CASE UNCHANGED stackVars
  BY <1>12 DEF stackVars, StackTypeOK, Surveyed, TornByKills
<1> QED
  BY <1>1, <1>2, <1>3, <1>4, <1>5, <1>6, <1>7, <1>8, <1>9, <1>10, <1>11, <1>12 DEF StackNext

(* The state of the stack build always has its type, and nothing is built  *)
(* before the preflight passed (factory-stack.yml, the condition of every  *)
(* wave's step).                                                           *)
THEOREM StackTypes == StackSpec => []StackTypeOK /\ []Surveyed
<1>1. StackInit => TypeInv
  BY NoProcTyped DEF StackInit, TypeInv, StackTypeOK, Surveyed, TornByKills
<1>2. TypeInv /\ [StackNext]_stackVars => TypeInv'
  BY TypeInvStep
<1>3. TypeInv => StackTypeOK /\ Surveyed
  BY DEF TypeInv
<1> QED
  BY <1>1, <1>2, <1>3, PTL DEF StackSpec

-----------------------------------------------------------------------------
(* A recipe that a report, on disk or in memory, calls built has RPMs in   *)
(* work/prior; while its wave is being built, in work/rpms.                *)
InHand(p) == p \in InWave(proc.wave) \ (proc.todo \cup proc.building)

ReportOK ==
  /\ proc.phase = "build" =>
       /\ proc.todo \cup proc.building \subseteq InWave(proc.wave)
       /\ proc.todo \cap proc.building = {}
  /\ report # None => \A p \in Packages : report[p] = "ok" => prior[p] # None
  /\ verdict = "passed" => \A p \in Planned : prior[p] # None
  /\ proc.phase = "build" =>
       \A p \in Packages : proc.memory[p] = "ok" =>
         IF InHand(p) THEN output[p] # None ELSE prior[p] # None
  /\ proc.phase \in {"report", "clean"} =>
       \A p \in Packages : proc.memory[p] = "ok" => prior[p] # None

LEMMA EnterReportOK ==
  ASSUME TypeInv, ReportOK, NEW w \in Waves, NEW only \in BOOLEAN,
         NEW memory \in [Packages -> Statuses],
         \A p \in Packages : memory[p] = "ok" => prior[p] # None,
         Enter(w, only, memory),
         UNCHANGED <<wave, output, prior, report, verdict>>
  PROVE  ReportOK'
<1>1. /\ proc'.phase = "build" /\ proc'.wave = w /\ proc'.memory = memory
      /\ proc'.todo = InWave(w) /\ proc'.building = {}
  BY DEF Enter
<1>2. \A p \in Packages : ~InHand(p)'
  BY <1>1 DEF InHand, InWave
<1>3. proc'.todo \cup proc'.building \subseteq InWave(w)' /\ proc'.todo \cap proc'.building = {}
  BY <1>1 DEF InWave
<1> QED
  BY <1>1, <1>2, <1>3 DEF ReportOK, Planned

(* RPMs are copied, all of those of the wave or some of them.              *)
LEMMA CopyKeepsBuilt ==
  ASSUME TypeInv, ReportOK, WaveBuilt, NEW some \in SUBSET Copied,
         prior' = [p \in Packages |-> IF p \in some THEN output[p] ELSE prior[p]]
  PROVE  /\ \A p \in Packages : prior[p] # None => prior'[p] # None
         /\ \A p \in some : prior'[p] # None
<1>1. \A p \in Copied : p \in Packages /\ output[p] # None
  BY DEF ReportOK, WaveBuilt, Copied, InHand, InWave
<1> QED
  BY <1>1

LEMMA ReportOKStep == TypeInv /\ ReportOK /\ [StackNext]_stackVars => ReportOK'
<1> SUFFICES ASSUME TypeInv, ReportOK, [StackNext]_stackVars PROVE ReportOK'
  OBVIOUS
<1>1. CASE Extract
  <2>1. verdict = "none"
    BY <1>1 DEF Extract, TypeInv, StackTypeOK, Surveyed
  <2>2. proc.phase = "idle"
    BY <1>1 DEF Extract, TypeInv, StackTypeOK, Surveyed
  <2> QED
    BY <1>1, <2>1, <2>2 DEF Extract, ReportOK
<1>2. CASE Preflight
  BY <1>2 DEF Preflight, ReportOK, Planned, InHand, InWave
<1>3. ASSUME NEW w \in Waves, StartWave(w) PROVE ReportOK'
  BY <1>3, EnterReportOK DEF StartWave, ReportOK, TypeInv, StackTypeOK
<1>4. CASE StartAll
  <2>1. \A p \in Packages : Unreported[p] = "ok" => prior[p] # None
    BY DEF Unreported
  <2> QED
    BY <1>4, <2>1, EnterReportOK, NoProcTyped, WaveFacts DEF StartAll
<1>5. ASSUME NEW p \in Packages, Begin(p) PROVE ReportOK'
  <2>1. /\ proc'.phase = "build" /\ proc'.wave = proc.wave /\ proc'.memory = proc.memory
        /\ proc'.todo \cup proc'.building = proc.todo \cup proc.building
        /\ p \in proc.todo
    BY <1>5 DEF Begin, TypeInv, StackTypeOK, Procs
  <2>2. \A q \in Packages : InHand(q)' <=> InHand(q)
    BY <1>5, <2>1 DEF Begin, InHand, InWave
  <2>3. ~InHand(p) /\ \A q \in Packages : q # p => output'[q] = output[q]
    BY <1>5, <2>1 DEF Begin, InHand, TypeInv, StackTypeOK
  <2>4. proc'.todo \cap proc'.building = {}
    BY <1>5 DEF Begin, ReportOK, TypeInv, StackTypeOK, Procs
  <2> QED
    BY <1>5, <2>1, <2>2, <2>3, <2>4 DEF Begin, ReportOK, Planned, InWave
<1>6. ASSUME NEW p \in Packages, Finish(p) PROVE ReportOK'
  <2>1. survey \in SurveyType
    BY <1>6, StackAssumption DEF Finish, TypeInv, StackTypeOK, Surveyed
  <2>2. PICK how \in {"ok", "deps", "fault"}, status \in Statuses, rpms \in {None} \cup SUBSET Names :
          Ended(p, how, status, rpms) /\ (status = "ok" => rpms # None)
    BY <1>6, <2>1, StackAssumption DEF Finish, Statuses, SurveyType
  <2>3. /\ proc'.phase = "build" /\ proc'.wave = proc.wave /\ proc'.todo = proc.todo
        /\ proc'.building = proc.building \ {p}
        /\ proc'.memory = [proc.memory EXCEPT ![p] = status]
        /\ output' = [output EXCEPT ![p] = rpms]
    BY <1>6, <2>2 DEF Finish, Ended, TypeInv, StackTypeOK, Procs
  <2>4. \A q \in Packages : q # p =>
          (InHand(q)' <=> InHand(q)) /\ output'[q] = output[q] /\ proc'.memory[q] = proc.memory[q]
    BY <1>6, <2>3 DEF Finish, InHand, InWave, TypeInv, StackTypeOK, Procs
  <2>5. proc'.memory[p] = "ok" => output'[p] # None
    BY <2>2, <2>3 DEF TypeInv, StackTypeOK, Procs
  <2>6. proc'.memory[p] = "ok" => InHand(p)'
    BY <1>6, <2>3 DEF Finish, InHand, InWave, ReportOK
  <2> QED
    BY <1>6, <2>3, <2>4, <2>5, <2>6 DEF Finish, ReportOK, Planned, InWave
<1>7. CASE Copy
  <2>1. /\ proc'.phase = "report" /\ proc'.memory = proc.memory /\ proc.phase = "build"
        /\ proc.todo = {} /\ proc.building = {}
    BY <1>7 DEF Copy, WaveBuilt, TypeInv, StackTypeOK, Procs
  <2>2. /\ \A p \in Packages : prior[p] # None => prior'[p] # None
        /\ \A p \in Copied : prior'[p] # None
    BY <1>7, CopyKeepsBuilt DEF Copy
  <2>3. \A p \in Packages : proc.memory[p] = "ok" => prior'[p] # None
    BY <2>1, <2>2 DEF ReportOK, InHand, Copied, InWave
  <2> QED
    BY <1>7, <2>1, <2>2, <2>3 DEF Copy, ReportOK, Planned
<1>8. CASE Write
  BY <1>8 DEF Write, ReportOK, Planned, TypeInv, StackTypeOK, Procs
<1>9. CASE Clean
  <2>1. CASE HasNext(proc.wave) /\ Enter(proc.wave + 1, FALSE, proc.memory)
    <3>1. proc.wave + 1 \in Waves /\ proc.memory \in [Packages -> Statuses]
      BY <2>1 DEF HasNext, TypeInv, StackTypeOK, Procs
    <3> QED
      BY <1>9, <2>1, <3>1, EnterReportOK DEF Clean, ReportOK
  <2>2. CASE proc' = NoProc
    BY <1>9, <2>2, NoProcTyped DEF Clean, ReportOK, Planned
  <2> QED
    BY <1>9, <2>1, <2>2 DEF Clean
<1>10. CASE Kill
  <2>1. \A p \in Packages : prior[p] # None => prior'[p] # None
    BY <1>10, CopyKeepsBuilt DEF Kill
  <2>2. report' = None \/ report' = report
    BY <1>10 DEF Kill
  <2> QED
    BY <1>10, <2>1, <2>2, NoProcTyped DEF Kill, ReportOK, Planned
<1>11. CASE Check
  BY <1>11 DEF Check, ReportOK, Planned, Complete
<1>12. CASE UNCHANGED stackVars
  BY <1>12 DEF stackVars, ReportOK, Planned, InHand, InWave
<1> QED
  BY <1>1, <1>2, <1>3, <1>4, <1>5, <1>6, <1>7, <1>8, <1>9, <1>10, <1>11, <1>12 DEF StackNext

LEMMA WaveTyped ==
  ASSUME TypeInv, NEW p \in Packages
  PROVE  wave[p] # None => wave[p] \in Nat
BY WaveFacts DEF TypeInv, StackTypeOK

LEMMA LastTyped == TypeInv => last \in Int
BY WaveFacts DEF TypeInv, StackTypeOK

(* A checkout where no wave was begun again.  Nothing of the last wave is  *)
(* called built before that wave is over, nothing cut short is called      *)
(* built, and once everything is, no wave is left to begin.                *)
Known(p) == wave[p] # None /\ wave[p] <= last

Whole ==
  /\ survey = None => last = -1
  /\ proc.phase # "idle" =>
       /\ proc.wave = last
       /\ \A p \in torn : wave[p] # last
       /\ \A p \in Packages : proc.memory[p] = "ok" => Known(p) /\ p \notin torn
  /\ report # None =>
       \A p \in Packages : report[p] = "ok" =>
         /\ Known(p) /\ p \notin torn
         /\ proc.phase = "build" => wave[p] # last
  /\ \A p \in torn : Known(p)
  /\ verdict = "passed" =>
       proc.phase = "idle" /\ \A p \in Planned : Known(p) /\ p \notin torn

WholeInv == fresh => Whole

LEMMA EnterWhole ==
  ASSUME TypeInv, Whole, NEW w \in Waves, w > last, NEW only, NEW memory \in [Packages -> Statuses],
         InWave(w) # {}, proc.phase # "build", survey # None,
         \A p \in Packages : memory[p] = "ok" => Known(p) /\ p \notin torn,
         Enter(w, only, memory), UNCHANGED <<survey, wave, torn, report, verdict>>
  PROVE  Whole'
<1>1. /\ proc'.phase = "build" /\ proc'.wave = w /\ last' = w /\ proc'.memory = memory
  BY DEF Enter
<1>2. w \in Int /\ last \in Int
  BY WaveFacts DEF TypeInv, StackTypeOK
<1>3. \A p \in Packages : Known(p) => Known(p)' /\ wave[p] # w
  <2> TAKE p \in Packages
  <2>1. wave[p] # None => wave[p] \in Int
    BY WaveTyped
  <2> QED
    BY <1>1, <1>2, <2>1 DEF Known
<1>4. verdict # "passed"
  <2>1. PICK p \in Packages : wave[p] = w
    BY DEF InWave
  <2>2. p \in Planned /\ ~Known(p)
    BY <1>2, <2>1, WaveFacts DEF Planned, Known
  <2> QED
    BY <2>2 DEF Whole
<1>5. torn \subseteq Packages
  BY DEF TypeInv, StackTypeOK
<1>6. \A p \in torn : wave'[p] # last' /\ Known(p)'
  BY <1>1, <1>3, <1>5 DEF Whole
<1>7. \A p \in Packages : proc'.memory[p] = "ok" => Known(p)' /\ p \notin torn'
  BY <1>1, <1>3
<1>8. report' # None => \A p \in Packages : report'[p] = "ok" =>
        Known(p)' /\ p \notin torn' /\ wave'[p] # last'
  BY <1>1, <1>3 DEF Whole
<1> QED
  BY <1>1, <1>4, <1>6, <1>7, <1>8 DEF Whole

LEMMA WholeStep == TypeInv /\ ReportOK /\ WholeInv /\ [StackNext]_stackVars => WholeInv'
<1> SUFFICES ASSUME TypeInv, ReportOK, WholeInv, [StackNext]_stackVars, fresh' PROVE Whole'
  BY DEF WholeInv
<1>t. torn \subseteq Packages
  BY DEF TypeInv, StackTypeOK
<1>s. preflight = "passed" \/ proc.phase # "idle" => survey # None
  BY DEF TypeInv, Surveyed
<1>a. ASSUME fresh, UNCHANGED <<survey, wave, proc, torn, report, verdict, last>> PROVE Whole'
  BY <1>a DEF WholeInv, Whole, Known, Planned
<1>1. CASE Extract
  <2>1. fresh /\ proc.phase = "idle" /\ verdict = "none"
    BY <1>1 DEF Extract, TypeInv, StackTypeOK, Surveyed
  <2>2. Whole /\ last = -1
    BY <1>1, <2>1 DEF Extract, WholeInv, Whole
  <2>3. \A p \in Packages : ~Known(p)
    <3>1. \A p \in Packages : wave[p] # None => wave[p] \in Nat
      BY WaveTyped
    <3> QED
      BY <2>2, <3>1 DEF Known
  <2>4. torn = {} /\ (report # None => \A p \in Packages : report[p] # "ok")
    BY <2>2, <2>3, <1>t DEF Whole
  <2> QED
    BY <1>1, <2>1, <2>2, <2>4 DEF Extract, Whole
<1>2. CASE Preflight
  BY <1>2, <1>a DEF Preflight
<1>3. ASSUME NEW w \in Waves, StartWave(w) PROVE Whole'
  <2>1. fresh /\ w > last /\ Whole
    BY <1>3 DEF StartWave, Enter, WholeInv
  <2>2. report \in [Packages -> Statuses] /\ \A p \in Packages : report[p] = "ok" => Known(p) /\ p \notin torn
    BY <1>3, <2>1 DEF StartWave, Whole, TypeInv, StackTypeOK
  <2> QED
    BY <1>3, <2>1, <2>2, <1>s, EnterWhole DEF StartWave
<1>4. CASE StartAll
  <2>1. fresh /\ 0 > last /\ Whole
    BY <1>4 DEF StartAll, Enter, WholeInv
  <2>2. \A p \in Packages : Unreported[p] # "ok"
    BY DEF Unreported
  <2> QED
    BY <1>4, <2>1, <2>2, <1>s, EnterWhole, NoProcTyped, WaveFacts DEF StartAll
<1>5. ASSUME NEW p \in Packages, Begin(p) PROVE Whole'
  <2>1. /\ proc'.phase = "build" /\ proc'.wave = proc.wave /\ proc'.memory = proc.memory
        /\ fresh /\ proc.phase = "build" /\ UNCHANGED <<survey, wave, torn, report, verdict, last>>
    BY <1>5 DEF Begin, TypeInv, StackTypeOK, Procs
  <2> QED
    BY <2>1 DEF WholeInv, Whole, Known, Planned
<1>6. ASSUME NEW p \in Packages, Finish(p) PROVE Whole'
  <2>0. survey \in SurveyType
    BY <1>6, StackAssumption DEF Finish, TypeInv, StackTypeOK, Surveyed
  <2>1. PICK how \in {"ok", "deps", "fault"}, status \in Statuses,
               rpms \in {None} \cup SUBSET Names : Ended(p, how, status, rpms)
    BY <1>6, <2>0 DEF Finish, Statuses, SurveyType
  <2>2. /\ proc'.phase = "build" /\ proc'.wave = proc.wave /\ p \in proc.building
        /\ proc'.memory = [proc.memory EXCEPT ![p] = status]
        /\ fresh /\ proc.phase = "build" /\ UNCHANGED <<survey, wave, torn, report, verdict, last>>
    BY <1>6, <2>1 DEF Finish, Ended, TypeInv, StackTypeOK, Procs
  <2>3. Whole
    BY <2>2 DEF WholeInv
  <2>4. wave[p] = last
    BY <2>2, <2>3 DEF Whole, ReportOK, InWave
  <2>5. last \in Waves
    BY <2>2, <2>3 DEF Whole, TypeInv, StackTypeOK, Procs
  <2>6. Known(p) /\ p \notin torn
    BY <2>2, <2>3, <2>4, <2>5, WaveFacts DEF Whole, Known
  <2>7. \A q \in Packages : q # p => proc'.memory[q] = proc.memory[q]
    BY <2>2 DEF TypeInv, StackTypeOK, Procs
  <2> QED
    BY <2>2, <2>3, <2>6, <2>7 DEF Whole, Known, Planned
<1>7. CASE Copy
  <2>1. /\ proc'.phase = "report" /\ proc'.memory = proc.memory /\ proc'.wave = proc.wave
        /\ proc.phase = "build" /\ torn' = torn \ Copied /\ fresh
        /\ UNCHANGED <<survey, wave, report, verdict, last>>
    BY <1>7 DEF Copy, WaveBuilt, TypeInv, StackTypeOK, Procs
  <2> QED
    BY <2>1 DEF WholeInv, Whole, Known, Planned
<1>8. CASE Write
  <2>1. /\ proc'.phase = "clean" /\ proc'.memory = proc.memory /\ proc'.wave = proc.wave
        /\ proc.phase = "report" /\ report' = proc.memory /\ fresh
        /\ UNCHANGED <<survey, wave, torn, verdict, last>>
    BY <1>8 DEF Write, TypeInv, StackTypeOK, Procs
  <2> QED
    BY <2>1 DEF WholeInv, Whole, Known, Planned
<1>9. CASE Clean
  <2>1. CASE HasNext(proc.wave) /\ Enter(proc.wave + 1, FALSE, proc.memory)
    <3>1. fresh /\ proc.wave + 1 > last /\ Whole /\ proc.phase = "clean"
      BY <1>9, <2>1 DEF Enter, Clean, WholeInv
    <3>2. /\ proc.wave + 1 \in Waves /\ InWave(proc.wave + 1) # {}
          /\ proc.memory \in [Packages -> Statuses]
      BY <2>1 DEF HasNext, TypeInv, StackTypeOK, Procs
    <3>3. \A p \in Packages : proc.memory[p] = "ok" => Known(p) /\ p \notin torn
      BY <3>1 DEF Whole
    <3> QED
      BY <1>9, <2>1, <3>1, <3>2, <3>3, <1>s, EnterWhole DEF Clean
  <2>2. CASE proc' = NoProc /\ UNCHANGED <<last, fresh>>
    BY <1>9, <2>2, NoProcTyped DEF Clean, WholeInv, Whole, Known, Planned
  <2> QED
    BY <1>9, <2>1, <2>2 DEF Clean
<1>10. CASE Kill
  <2>1. PICK some \in SUBSET (IF WaveBuilt THEN Copied ELSE {}) :
          \/ torn' = torn \ some
          \/ \E p \in some : torn' = (torn \ some) \cup {p}
    BY <1>10 DEF Kill
  <2>2. /\ fresh /\ Whole /\ proc.phase # "idle" /\ proc'.phase = "idle"
        /\ report' = None \/ report' = report
        /\ UNCHANGED <<survey, wave, verdict, last>>
    BY <1>10, NoProcTyped DEF Kill, WholeInv
  <2>3. \A p \in torn' : p \in torn \/ (p \in Copied /\ proc.phase = "build")
    BY <2>1 DEF WaveBuilt
  <2>4. last \in Waves
    BY <2>2 DEF Whole, TypeInv, StackTypeOK, Procs
  <2>5. \A p \in Copied : wave[p] = last /\ Known(p)
    BY <2>2, <2>4, WaveFacts DEF Copied, InWave, Whole, Known
  <2>6. verdict # "passed"
    BY <2>2 DEF Whole
  <2>7. \A p \in torn' : Known(p)
    BY <2>2, <2>3, <2>5 DEF Whole
  <2>8. report' # None => \A p \in Packages : report'[p] = "ok" => Known(p) /\ p \notin torn'
    BY <2>2, <2>3, <2>5 DEF Whole
  <2> QED
    BY <2>2, <2>6, <2>7, <2>8 DEF Whole, Known
<1>11. CASE Check
  <2>1. fresh /\ Whole /\ proc.phase = "idle" /\ UNCHANGED <<survey, wave, proc, torn, report, last>>
        /\ (verdict' = "passed" => Complete)
    BY <1>11 DEF Check, WholeInv
  <2>2. Complete => \A p \in Planned : Known(p) /\ p \notin torn
    BY <2>1 DEF Complete, Whole, Planned
  <2> QED
    BY <2>1, <2>2 DEF Whole, Known, Planned
<1>12. CASE UNCHANGED stackVars
  BY <1>12, <1>a DEF stackVars
<1> QED
  BY <1>1, <1>2, <1>3, <1>4, <1>5, <1>6, <1>7, <1>8, <1>9, <1>10, <1>11, <1>12 DEF StackNext

(* When build_stack.py --check passes, work/prior has RPMs of every        *)
(* planned recipe, whatever was repeated or interrupted, and has them      *)
(* whole when no wave was begun again (build_stack.py, check_report).      *)
THEOREM StackChecked == StackSpec => []CheckedMeansBuilt
<1>1. StackInit => TypeInv /\ ReportOK /\ WholeInv
  BY NoProcTyped DEF StackInit, TypeInv, StackTypeOK, Surveyed, TornByKills, ReportOK,
     Unreported, WholeInv, Whole
<1>2. TypeInv /\ ReportOK /\ WholeInv /\ [StackNext]_stackVars =>
        (TypeInv /\ ReportOK /\ WholeInv)'
  BY TypeInvStep, ReportOKStep, WholeStep
<1>3. TypeInv /\ ReportOK /\ WholeInv => CheckedMeansBuilt
  BY DEF ReportOK, WholeInv, Whole, CheckedMeansBuilt
<1> QED
  BY <1>1, <1>2, <1>3, PTL DEF StackSpec

-----------------------------------------------------------------------------
(* A checkout where no wave was repeated, or interrupted.  What is waiting *)
(* or being built is of the last wave and was never built; what an earlier *)
(* wave built is in work/prior, and what the last one built is once it is  *)
(* over; and work/prior holds nothing else.                                *)
Fresh ==
  /\ preflight = "passed" => Witnessed
  /\ survey = None => \A p \in Packages : result[p] = "none"
  /\ proc.phase # "idle" => proc.wave = last
  /\ \A p \in Packages : result[p] # "none" => wave[p] # None /\ wave[p] <= last
  /\ \A p \in Packages : prior[p] # None =>
       /\ result[p] = "ok" /\ prior[p] = output[p]
       /\ proc.phase = "build" => wave[p] # last
  /\ \A p \in Packages : result[p] = "ok" =>
       /\ output[p] # None
       /\ prior[p] = None => proc.phase = "build" /\ wave[p] = last /\ proc.memory[p] = "ok"
  /\ proc.phase = "build" =>
       /\ \A p \in proc.todo \cup proc.building : result[p] = "none" /\ wave[p] = last
       /\ \A p \in InWave(last) \ (proc.todo \cup proc.building) :
            proc.memory[p] = "ok" => result[p] = "ok"

(* Why a requirement r of p is met by nothing.                             *)
Lost(p, r) ==
  /\ \A s \in survey.base[r] : s \in Packages /\ result[s] = "ok"
  /\ \A q \in Earlier(p, r) :
       result[q] = "ok" => Explicit(q, r) = {} /\ r.name \notin output[q]

FreshInv == Undisturbed => Fresh /\ FailureHasCause

(* A requirement that dnf does not find for certain has lost everything    *)
(* the preflight counted on.                                               *)
LEMMA NotCertainIsLost ==
  ASSUME TypeInv, Fresh, torn = {}, proc.phase = "build",
         NEW p \in proc.building, p \in Packages, survey \in SurveyType,
         NEW r \in survey.needs[p], ~Certain(r)
  PROVE  Lost(p, r)
<1>1. \A s \in survey.base[r] : s \in Packages /\ result[s] = "ok"
  BY DEF Certain, Fresh
<1>2. ASSUME NEW q \in Earlier(p, r), result[q] = "ok"
      PROVE  Explicit(q, r) = {} /\ r.name \notin output[q]
  <2>1. q \in Packages /\ q \in Matched(r) /\ wave[q] < wave[p]
    BY <1>2 DEF Earlier, Matched
  <2>2. wave[p] = last /\ wave[q] # last
    BY <2>1, <1>2, LastTyped, WaveTyped DEF Fresh
  <2>3. prior[q] # None /\ prior[q] = output[q]
    BY <2>1, <2>2, <1>2 DEF Fresh
  <2>4. ~Offers(q, r)
    BY <2>1, <2>3 DEF Certain
  <2>5. r \in Requirements /\ r.kind \in Kinds
    BY StackAssumption DEF SurveyType
  <2>6. CASE r.kind = "plain"
    BY <2>3, <2>4, <2>6 DEF Offers
  <2>7. CASE r.kind = "versioned"
    BY <2>1, <2>4, <2>7 DEF Offers, Matched, RpmMatches
  <2>8. CASE r.kind = "rich"
    BY <2>1, <2>8 DEF Matched
  <2> QED
    BY <2>5, <2>6, <2>7, <2>8 DEF Kinds
<1> QED
  BY <1>1, <1>2 DEF Lost

LEMMA EnterFresh ==
  ASSUME TypeInv, Fresh, NEW w \in Waves, w > last, NEW only, NEW memory,
         proc.phase # "build", Enter(w, only, memory),
         UNCHANGED <<survey, wave, preflight, output, prior, result>>
  PROVE  Fresh'
<1>1. /\ proc'.phase = "build" /\ proc'.wave = w /\ last' = w
      /\ proc'.todo = InWave(w) /\ proc'.building = {}
  BY DEF Enter
<1>2. w \in Int /\ last \in Int
  BY WaveFacts, LastTyped
<1>3. \A p \in Packages : result[p] # "none" => wave[p] # w /\ wave[p] <= last'
  BY <1>1, <1>2, WaveTyped DEF Fresh
<1>4. Witnessed' <=> Witnessed
  BY DEF Witnessed, Planned, Earlier, Matched, Explicit
<1>5. \A p \in InWave(w) : p \in Packages /\ result[p] = "none" /\ wave[p] = w
  BY <1>3 DEF InWave
<1>6. \A p \in Packages : prior[p] # None => result[p] = "ok" /\ prior[p] = output[p] /\ wave[p] # w
  BY <1>3 DEF Fresh
<1>7. \A p \in Packages : result[p] = "ok" => output[p] # None /\ prior[p] # None
  BY DEF Fresh
<1>8. InWave(w)' = InWave(w)
  BY DEF InWave
<1> QED
  BY <1>1, <1>3, <1>4, <1>5, <1>6, <1>7, <1>8 DEF Fresh

LEMMA UndisturbedBefore == TypeInv /\ [StackNext]_stackVars /\ Undisturbed' => Undisturbed
<1> SUFFICES ASSUME TypeInv, [StackNext]_stackVars, fresh', kills' = 0 PROVE fresh /\ kills = 0
  BY DEF Undisturbed
<1>1. kills \in Nat
  BY DEF TypeInv, StackTypeOK
<1>2. ~Kill
  <2>1. Kill => kills' = kills + 1
    BY Zenon DEF Kill
  <2> QED
    BY <1>1, <2>1
<1>3. kills' = kills
  BY <1>2 DEF StackNext, Extract, Preflight, StartWave, StartAll, Begin, Finish, Copy, Write,
     Clean, Check, stackVars
<1>4. fresh' = fresh \/ \E w : fresh' = (fresh /\ w > last)
  BY <1>2, Zenon DEF StackNext, Extract, Preflight, StartWave, StartAll, Begin, Finish, Copy,
     Write, Clean, Check, Enter, stackVars
<1>5. fresh
  BY <1>4
<1> QED
  BY <1>3, <1>5

LEMMA FreshStep == TypeInv /\ ReportOK /\ FreshInv /\ [StackNext]_stackVars => FreshInv'
<1> SUFFICES ASSUME TypeInv, ReportOK, FreshInv, [StackNext]_stackVars, Undisturbed'
             PROVE  (Fresh /\ FailureHasCause)'
  BY DEF FreshInv
<1>u. Undisturbed /\ Fresh /\ FailureHasCause /\ fresh' /\ kills' = 0
  BY UndisturbedBefore DEF FreshInv, Undisturbed
<1>v. fresh /\ kills = 0 /\ torn = {}
  BY <1>u DEF Undisturbed, TypeInv, TornByKills
<1>a. (\A p \in Packages : result'[p] = "deps" => \E r \in survey.needs[p] : Lost(p, r)')
        /\ survey' = survey => FailureHasCause'
  BY DEF FailureHasCause, Lost
<1>b. ASSUME UNCHANGED <<survey, wave, result, output>> PROVE FailureHasCause'
  BY <1>b, <1>u DEF FailureHasCause, Undisturbed, Earlier, Matched, Planned, Explicit
<1>d. ASSUME UNCHANGED <<survey, wave>> PROVE Witnessed' <=> Witnessed
  BY <1>d DEF Witnessed, Planned, Earlier, Matched, Explicit
<1>c. ASSUME UNCHANGED <<survey, wave, preflight, proc, output, prior, result, last>>
      PROVE  Fresh'
  BY <1>c, <1>d, <1>u DEF Fresh, InWave
<1>1. CASE Extract
  <2>1. fresh /\ proc.phase = "idle" /\ preflight' # "passed"
    BY <1>1, <1>v DEF Extract, TypeInv, StackTypeOK, Surveyed
  <2>2. Fresh /\ \A p \in Packages : result[p] = "none" /\ prior[p] = None
    BY <1>u, <1>1, <2>1 DEF Extract, Fresh
  <2>3. Fresh'
    BY <1>1, <2>1, <2>2 DEF Extract, Fresh
  <2> QED
    BY <1>1, <2>2, <2>3 DEF Extract, FailureHasCause
<1>2. CASE Preflight
  <2>1. fresh /\ (preflight' = "passed" => Witnessed) /\ proc.phase = "idle"
    BY <1>2, <1>v DEF Preflight, TypeInv, StackTypeOK, Surveyed
  <2>2. FailureHasCause'
    BY <1>2, <2>1, <1>b DEF Preflight
  <2>3. Fresh'
    BY <1>u, <1>2, <2>1, <1>d DEF Preflight, Fresh, InWave
  <2> QED
    BY <2>2, <2>3
<1>3. ASSUME NEW w \in Waves, StartWave(w) PROVE (Fresh /\ FailureHasCause)'
  <2>1. fresh /\ w > last
    BY <1>3, <1>u, <1>v DEF StartWave, Enter
  <2>2. Fresh'
    BY <1>u, <1>3, <2>1, EnterFresh DEF StartWave
  <2> QED
    BY <1>3, <2>1, <2>2, <1>b DEF StartWave
<1>4. CASE StartAll
  <2>1. fresh /\ 0 > last
    BY <1>4, <1>u, <1>v DEF StartAll, Enter
  <2>2. Fresh'
    BY <1>u, <1>4, <2>1, EnterFresh, WaveFacts DEF StartAll
  <2> QED
    BY <1>4, <2>1, <2>2, <1>b DEF StartAll
<1>5. ASSUME NEW p \in Packages, Begin(p) PROVE (Fresh /\ FailureHasCause)'
  <2>1. /\ proc'.phase = "build" /\ proc'.wave = proc.wave /\ proc'.memory = proc.memory
        /\ proc'.todo \cup proc'.building = proc.todo \cup proc.building
        /\ p \in proc.todo /\ fresh /\ proc.phase = "build"
    BY <1>5, <1>v DEF Begin, TypeInv, StackTypeOK, Procs
  <2>2. result[p] = "none" /\ Fresh
    BY <1>u, <2>1 DEF Fresh
  <2>3. \A q \in Packages : q # p => output'[q] = output[q]
    BY <1>5, <1>v DEF Begin, TypeInv, StackTypeOK
  <2>4. prior[p] = None
    BY <2>2 DEF Fresh
  <2>5. Fresh'
    BY <1>5, <2>1, <2>2, <2>3, <2>4, <1>d DEF Begin, Fresh, InWave
  <2>6. ASSUME NEW q \in Packages, NEW r \in survey.needs[q], Lost(q, r) PROVE Lost(q, r)'
    BY <1>5, <2>2, <2>3, <2>6 DEF Begin, Lost, Earlier, Matched, Planned, Explicit
  <2>7. FailureHasCause'
    BY <1>u, <1>5, <2>1, <2>6, <1>a DEF Begin, FailureHasCause, Lost
  <2> QED
    BY <2>5, <2>7
<1>6. ASSUME NEW p \in Packages, Finish(p) PROVE (Fresh /\ FailureHasCause)'
  <2>1. fresh /\ Fresh /\ proc.phase = "build" /\ p \in proc.building /\ UNCHANGED <<survey, wave, preflight, prior, last>>
    BY <1>u, <1>6 DEF Finish
  <2>2. survey \in SurveyType
    BY <2>1, StackAssumption DEF TypeInv, StackTypeOK, Surveyed
  <2>3. PICK how \in {"ok", "deps", "fault"}, status \in Statuses, rpms \in {None} \cup SUBSET Names :
          /\ Ended(p, how, status, rpms)
          /\ how = "ok" => status = "ok" /\ rpms # None
          /\ status = "ok" => how = "ok"
          /\ how = "deps" => \E r \in survey.needs[p] : ~Certain(r)
    BY <1>6, <2>2, StackAssumption DEF Finish, Statuses, SurveyType
  <2>4. /\ proc'.phase = "build" /\ proc'.wave = proc.wave /\ proc'.todo = proc.todo
        /\ proc'.building = proc.building \ {p}
        /\ proc'.memory = [proc.memory EXCEPT ![p] = status]
        /\ output' = [output EXCEPT ![p] = rpms]
        /\ result' = [result EXCEPT ![p] = how]
    BY <2>1, <2>3 DEF Ended, TypeInv, StackTypeOK, Procs
  <2>5. /\ result[p] = "none" /\ wave[p] = last /\ prior[p] = None /\ p \notin proc.todo
        /\ wave[p] # None
    <3>1. result[p] = "none" /\ wave[p] = last /\ prior[p] = None /\ p \notin proc.todo
      BY <2>1 DEF Fresh, ReportOK
    <3>2. last \in Waves
      BY <2>1 DEF Fresh, TypeInv, StackTypeOK, Procs
    <3> QED
      BY <3>1, <3>2, WaveFacts
  <2>6. \A q \in Packages : q # p =>
          result'[q] = result[q] /\ output'[q] = output[q] /\ proc'.memory[q] = proc.memory[q]
    BY <2>4 DEF TypeInv, StackTypeOK, Procs
  <2>7. result'[p] = how /\ output'[p] = rpms /\ proc'.memory[p] = status
    BY <2>4 DEF TypeInv, StackTypeOK, Procs
  <2>8. Fresh'
    <3>0. survey # None
      BY <2>1, StackAssumption DEF TypeInv, StackTypeOK, Surveyed
    <3>1. (preflight = "passed" => Witnessed)' /\ (proc.phase # "idle" => proc.wave = last)'
      BY <2>1, <2>4, <1>d DEF Fresh
    <3>2. \A q \in Packages : result'[q] # "none" => wave'[q] # None /\ wave'[q] <= last'
      BY <2>1, <2>5, <2>6, LastTyped, WaveTyped, WaveFacts DEF Fresh, TypeInv, StackTypeOK
    <3>3. \A q \in Packages : prior'[q] # None =>
            result'[q] = "ok" /\ prior'[q] = output'[q] /\ wave'[q] # last'
      BY <2>1, <2>5, <2>6 DEF Fresh
    <3>4. \A q \in Packages : result'[q] = "ok" =>
            output'[q] # None /\ (prior'[q] = None => wave'[q] = last' /\ proc'.memory[q] = "ok")
      BY <2>1, <2>3, <2>5, <2>6, <2>7 DEF Fresh
    <3>5. \A q \in proc'.todo \cup proc'.building : q # p /\ result'[q] = "none" /\ wave'[q] = last'
      <4>1. \A q \in proc'.todo \cup proc'.building : q # p /\ q \in Packages
        BY <2>4, <2>5 DEF TypeInv, StackTypeOK, Procs
      <4> QED
        BY <2>1, <2>4, <2>6, <4>1 DEF Fresh
    <3>6. \A q \in InWave(last)' \ (proc'.todo \cup proc'.building) :
            proc'.memory[q] = "ok" => result'[q] = "ok"
      BY <2>1, <2>3, <2>4, <2>6, <2>7 DEF Fresh, InWave
    <3> QED
      BY <2>1, <2>4, <3>0, <3>1, <3>2, <3>3, <3>4, <3>5, <3>6 DEF Fresh
  <2>9. ASSUME NEW q \in Packages, wave[q] # None, wave[q] <= last,
               NEW r \in survey.needs[q], Lost(q, r)
        PROVE  Lost(q, r)'
    <3>1. p \notin Earlier(q, r)
      BY <2>5, <2>9, LastTyped, WaveTyped DEF Earlier
    <3>2. Earlier(q, r)' = Earlier(q, r) /\ Earlier(q, r) \subseteq Packages
      BY <2>1 DEF Earlier, Matched, Planned, Explicit
    <3> QED
      BY <2>1, <2>5, <2>6, <2>9, <3>1, <3>2 DEF Lost, Explicit
  <2>10. ASSUME NEW q \in Packages, result'[q] = "deps"
         PROVE  \E r \in survey.needs[q] : Lost(q, r)'
    <3>1. CASE q = p
      <4>1. PICK r \in survey.needs[p] : ~Certain(r)
        BY <2>3, <2>7, <2>10, <3>1
      <4>2. Lost(p, r)
        BY <2>1, <2>2, <4>1, <1>v, NotCertainIsLost
      <4>3. wave[p] # None /\ wave[p] <= last
        BY <2>5, LastTyped
      <4> QED
        BY <2>9, <3>1, <4>2, <4>3
    <3>2. CASE q # p
      <4>1. result[q] = "deps"
        BY <2>6, <2>10, <3>2
      <4>2. PICK r \in survey.needs[q] : Lost(q, r)
        BY <1>u, <2>1, <4>1 DEF FailureHasCause, Lost
      <4>3. wave[q] # None /\ wave[q] <= last
        BY <2>1, <4>1 DEF Fresh
      <4> QED
        BY <2>9, <4>2, <4>3
    <3> QED
      BY <3>1, <3>2
  <2> QED
    BY <2>1, <2>8, <2>10, <1>a
<1>7. CASE Copy
  <2>1. /\ proc'.phase = "report" /\ proc'.memory = proc.memory /\ proc'.wave = proc.wave
        /\ proc.phase = "build" /\ proc.todo = {} /\ proc.building = {} /\ fresh /\ Fresh
        /\ UNCHANGED <<survey, wave, preflight, output, result, last>>
    BY <1>u, <1>7 DEF Copy, WaveBuilt, TypeInv, StackTypeOK, Procs
  <2>2. \A p \in Packages : prior'[p] = IF p \in Copied THEN output[p] ELSE prior[p]
    BY <1>7 DEF Copy
  <2>3. \A p \in Packages : p \in Copied <=> wave[p] = last /\ proc.memory[p] = "ok"
    BY <2>1 DEF Copied, InWave, Fresh
  <2>4. \A p \in Copied : result[p] = "ok" /\ output[p] # None
    BY <2>1, <2>3 DEF Copied, InWave, Fresh
  <2>5. \A p \in Packages : prior'[p] # None => result[p] = "ok" /\ prior'[p] = output[p]
    BY <2>1, <2>2, <2>4 DEF Fresh
  <2>6. \A p \in Packages : result[p] = "ok" => output[p] # None /\ prior'[p] # None
    BY <2>1, <2>2, <2>3 DEF Fresh
  <2>7. Fresh'
    BY <2>1, <2>5, <2>6, <1>d DEF Fresh
  <2> QED
    BY <2>1, <2>7, <1>b
<1>8. CASE Write
  <2>1. proc.phase = "report" /\ proc'.phase = "clean" /\ proc'.wave = proc.wave /\ fresh /\ Fresh
    BY <1>u, <1>8 DEF Write, TypeInv, StackTypeOK, Procs
  <2>2. Fresh'
    BY <1>8, <2>1, <1>d DEF Write, Fresh
  <2> QED
    BY <1>8, <2>1, <2>2, <1>b DEF Write
<1>9. CASE Clean
  <2>1. CASE HasNext(proc.wave) /\ Enter(proc.wave + 1, FALSE, proc.memory)
    <3>1. fresh /\ proc.wave + 1 > last /\ proc.wave + 1 \in Waves /\ proc.phase # "build"
      BY <1>9, <2>1, <1>u, <1>v DEF Enter, HasNext, Clean
    <3>2. Fresh'
      BY <1>u, <1>9, <2>1, <3>1, EnterFresh DEF Clean
    <3> QED
      BY <1>9, <3>1, <3>2, <1>b DEF Clean
  <2>2. CASE proc' = NoProc /\ UNCHANGED <<last, fresh>>
    <3>1. proc'.phase = "idle" /\ proc.phase = "clean" /\ fresh /\ Fresh
      BY <1>u, <1>9, <2>2, NoProcTyped DEF Clean
    <3>2. Fresh'
      BY <1>9, <2>2, <3>1, <1>d DEF Clean, Fresh
    <3> QED
      BY <1>9, <3>1, <3>2, <1>b DEF Clean
  <2> QED
    BY <1>9, <2>1, <2>2 DEF Clean
<1>10. CASE Kill
  BY <1>10, <1>u, <1>v DEF Kill
<1>11. CASE Check
  <2> QED
    BY <1>11, <1>b, <1>c DEF Check
<1>12. CASE UNCHANGED stackVars
  <2> QED
    BY <1>12, <1>b, <1>c DEF stackVars
<1> QED
  BY <1>1, <1>2, <1>3, <1>4, <1>5, <1>6, <1>7, <1>8, <1>9, <1>10, <1>11, <1>12 DEF StackNext

LEMMA FreshInvHolds == StackSpec => [](TypeInv /\ FreshInv)
<1>1. StackInit => TypeInv /\ ReportOK /\ FreshInv
  BY NoProcTyped DEF StackInit, TypeInv, StackTypeOK, Surveyed, TornByKills, ReportOK, Unreported,
     FreshInv, Fresh, FailureHasCause
<1>2. TypeInv /\ ReportOK /\ FreshInv /\ [StackNext]_stackVars =>
        (TypeInv /\ ReportOK /\ FreshInv)'
  BY TypeInvStep, ReportOKStep, FreshStep
<1> QED
  BY <1>1, <1>2, PTL DEF StackSpec

(* Where no wave was repeated or interrupted, a build sees what earlier    *)
(* waves built, and nothing else (build_stack.py, lines 4-5).              *)
THEOREM StackWavesOrdered == StackSpec => []EarlierWavesOnly
<1>1. TypeInv /\ FreshInv => EarlierWavesOnly
  <2> SUFFICES ASSUME TypeInv, FreshInv, Undisturbed, proc.phase = "build",
                      NEW p \in Packages, prior[p] # None
               PROVE  wave[p] < proc.wave /\ result[p] = "ok"
    BY DEF EarlierWavesOnly
  <2>1. result[p] = "ok" /\ wave[p] # last /\ wave[p] # None /\ wave[p] <= last /\ proc.wave = last
    BY DEF FreshInv, Fresh
  <2> QED
    BY <2>1, LastTyped, WaveTyped
<1> QED
  BY <1>1, FreshInvHolds, PTL

(* There, a build that misses a requirement misses it because something    *)
(* the preflight counted on failed, changed or hid a package of CentOS,    *)
(* and never because of the order of the plan (dependency_preflight.py).   *)
THEOREM StackFailuresHaveCauses == StackSpec => []FailureHasCause
<1>1. FreshInv => FailureHasCause
  BY DEF FreshInv, FailureHasCause
<1> QED
  BY <1>1, FreshInvHolds, PTL
=============================================================================
