----------------------------- MODULE StackBuild ------------------------------
(***************************************************************************)
(* One checkout of factory-stack.yml: extract_buildrequires.py surveys the *)
(* recipes and CentOS, dependency_preflight.py asks for a witness of every *)
(* build requirement, and build_stack.py builds the plan wave by wave.     *)
(* Which plan build_graph.py makes is the subject of WavePlan; here it is  *)
(* any division into waves, and the preflight has to reject the bad ones.  *)
(***************************************************************************)
EXTENDS Integers, FiniteSets

CONSTANTS
  Packages,     \* the recipes
  None,         \* not planned, no RPMs, no survey
  Foreign,      \* sources of CentOS packages that are not recipes here
  Names,        \* names of capabilities
  Requirements, \* build requirements: [name, kind]
  Surveys,      \* what the survey may find
  MaxWaves,     \* waves the workflow has steps for: 16
  Workers,      \* builds at a time: 2
  MaxKills,     \* bound: commands that die half-way
  StackFaults   \* what may go wrong: "build", "clean"

Kinds == {"plain", "versioned", "rich"}
Waves == 0..MaxWaves - 1

(* base[r]: the sources of the CentOS packages that satisfy r; declared:   *)
(* the capabilities a spec provides, without a version, or with one that   *)
(* is good or bad for those who ask for one; implicit: what CentOS's build *)
(* of the same source has in its payload.                                  *)
SurveyType == [needs : [Packages -> SUBSET Requirements],
               base : [Requirements -> SUBSET (Packages \cup Foreign)],
               declared : [Packages -> [Names -> SUBSET {"plain", "good", "bad"}]],
               implicit : [Packages -> SUBSET Names]]

ASSUME StackAssumption ==
  /\ IsFiniteSet(Packages)
  /\ None \notin Packages \cup Foreign
  /\ Packages \cap Foreign = {}
  /\ Requirements \subseteq [name : Names, kind : Kinds]
  /\ Surveys \subseteq SurveyType
  /\ \A s \in Surveys, r \in Requirements : r.kind = "rich" => s.base[r] = {}
  /\ \A generated \in SUBSET Names : generated # None
  /\ None \notin Surveys
  /\ None \notin Waves
  /\ MaxWaves \in Nat \ {0}
  /\ Workers \in Nat \ {0}
  /\ MaxKills \in Nat
  /\ StackFaults \subseteq {"build", "clean"}

VARIABLES
  survey,    \* work/graph/rows
  wave,      \* wave[p]: where the plan has p, None when it does not build p
  preflight, \* the verdict of the preflight
  proc,      \* the build_stack.py command under way
  output,    \* output[p]: the generated capabilities of work/rpms/p, or None
  prior,     \* prior[p]: those of p's RPMs in work/prior, or None
  result,    \* result[p]: how the last build of p ended
  torn,      \* the recipes whose RPMs in work/prior were cut short
  report,    \* report[p]: p's status in stack-report.json; None: cut short
  verdict,   \* what build_stack.py --check said last
  last,      \* the last wave started
  fresh,     \* no wave was begun again
  kills

stackVars == <<survey, wave, preflight, proc, output, prior, torn, result, report,
               verdict, last, fresh, kills>>

(* Divisions of some recipes into waves, none of them empty.               *)
Plans ==
  {plan \in [Packages -> Waves \cup {None}] :
     \A p \in Packages : plan[p] # None =>
       \A w \in 0..plan[p] - 1 : \E q \in Packages : plan[q] = w}

Planned == {p \in Packages : wave[p] # None}
InWave(w) == {p \in Packages : wave[p] = w}

ProcPhases == {"idle", "build", "report", "clean"}
Statuses == {"absent", "ok", "failed"}
Procs == [phase : ProcPhases, only : BOOLEAN, wave : Waves, todo : SUBSET Packages,
          building : SUBSET Packages, memory : [Packages -> Statuses]]

Unreported == [p \in Packages |-> "absent"]
NoProc == [phase |-> "idle", only |-> TRUE, wave |-> 0, todo |-> {},
           building |-> {}, memory |-> Unreported]

-----------------------------------------------------------------------------
Explicit(p, r) == survey.declared[p][r.name]

(* rpm_matches: an unversioned Provides says nothing about a version.      *)
RpmMatches(cap, r) == r.kind = "plain" \/ cap = "good"

(* write_factory_witnesses: the recipes that provide what r asks for.  A    *)
(* generated capability counts only for a name the spec says nothing of.   *)
Matched(r) ==
  {p \in Packages :
     /\ r.kind # "rich"
     /\ \/ \E cap \in Explicit(p, r) : RpmMatches(cap, r)
        \/ /\ Explicit(p, r) = {}
           /\ r.name \in survey.implicit[p]
           /\ r.kind = "plain"}

(* Mutant of Earlier: a witness may be built beside its consumer.          *)
EarlierOrBeside(p, r) ==
  {q \in Matched(r) \cap Planned : wave[q] <= wave[p]}

Earlier(p, r) == {q \in Matched(r) \cap Planned : wave[q] < wave[p]}

(* check: a witness for every requirement of everything that is planned.   *)
Witnessed ==
  \A p \in Planned : \A r \in survey.needs[p] : survey.base[r] # {} \/ Earlier(p, r) # {}

(* RPMs of q offer what its spec declares, and the capabilities that this  *)
(* build generated; those have a version nobody checked.                   *)
Offers(q, r) ==
  IF r.kind = "plain" THEN Explicit(q, r) # {} \/ r.name \in prior[q]
  ELSE r.kind = "versioned" /\ Explicit(q, r) \cap {"good", "plain"} # {}

(* dnf builddep finds r for certain.  Packages of the factory repository,  *)
(* having priority=1, hide the packages CentOS built from the same source. *)
Certain(r) ==
  \/ \E s \in survey.base[r] : s \in Packages => prior[s] = None
  \/ \E q \in Packages \ torn : prior[q] # None /\ Offers(q, r)

Possible(r) ==
  \/ Certain(r)
  \/ survey.base[r] # {}
  \/ r.kind = "rich"
  \/ \E q \in Packages : prior[q] # None /\ r.name \in prior[q]

-----------------------------------------------------------------------------
StackInit ==
  /\ survey = None
  /\ wave = [p \in Packages |-> None]
  /\ preflight = "pending"
  /\ proc = NoProc
  /\ output = [p \in Packages |-> None]
  /\ prior = [p \in Packages |-> None]
  /\ torn = {}
  /\ result = [p \in Packages |-> "none"]
  /\ report = Unreported
  /\ verdict = "none"
  /\ last = -1
  /\ fresh = TRUE
  /\ kills = 0

(* extract_buildrequires.py: every query of every spec answers, or the job *)
(* is over.  The plan is made from the same rows.                          *)
Extract ==
  /\ survey = None
  /\ preflight = "pending"
  /\ \/ /\ survey' \in Surveys
        /\ wave' \in Plans
        /\ UNCHANGED preflight
     \/ /\ preflight' = "failed"
        /\ UNCHANGED <<survey, wave>>
  /\ UNCHANGED <<proc, output, prior, torn, result, report, verdict, last, fresh, kills>>

(* dependency_preflight.py: the plan is the one the rows still give, and   *)
(* every requirement has a witness.                                        *)
Preflight ==
  /\ survey # None
  /\ preflight = "pending"
  /\ \E current \in BOOLEAN :
       preflight' = IF current /\ Witnessed THEN "passed" ELSE "failed"
  /\ UNCHANGED <<survey, wave, proc, output, prior, torn, result, report, verdict,
                 last, fresh, kills>>

Enter(w, only, memory) ==
  /\ proc' = [phase |-> "build", only |-> only, wave |-> w, todo |-> InWave(w),
              building |-> {}, memory |-> memory]
  /\ fresh' = (fresh /\ w > last)
  /\ last' = w

(* build_stack.py --wave w: it goes on with the report on disk, if that can *)
(* be read, whatever came of the waves before.                             *)
StartWave(w) ==
  /\ preflight = "passed"
  /\ proc.phase = "idle"
  /\ InWave(w) # {}
  /\ report # None
  /\ Enter(w, TRUE, report)
  /\ UNCHANGED <<survey, wave, preflight, output, prior, torn, result, report, verdict, kills>>

(* build_stack.py: all the waves, under a new report.                      *)
StartAll ==
  /\ preflight = "passed"
  /\ proc.phase = "idle"
  /\ InWave(0) # {}
  /\ Enter(0, FALSE, Unreported)
  /\ UNCHANGED <<survey, wave, preflight, output, prior, torn, result, report, verdict, kills>>

(* A worker takes p, and removes what an earlier build of it left.         *)
Begin(p) ==
  /\ proc.phase = "build"
  /\ p \in proc.todo
  /\ Cardinality(proc.building) < Workers
  /\ proc' = [proc EXCEPT !.todo = @ \ {p}, !.building = @ \cup {p}]
  /\ output' = [output EXCEPT ![p] = None]
  /\ UNCHANGED <<survey, wave, preflight, prior, torn, result, report, verdict, last,
                 fresh, kills>>

(* Mutant of Ended: what a build left decides, not how it ended.           *)
EndedByFiles(p, how, status, rpms) ==
  /\ result' = [result EXCEPT ![p] = how]
  /\ output' = [output EXCEPT ![p] = IF rpms = None THEN {} ELSE rpms]
  /\ proc' = [proc EXCEPT !.building = @ \ {p}, !.memory[p] = "ok"]

(* A failed build leaves no output behind.                                 *)
Ended(p, how, status, rpms) ==
  /\ result' = [result EXCEPT ![p] = how]
  /\ output' = [output EXCEPT ![p] = rpms]
  /\ proc' = [proc EXCEPT !.building = @ \ {p}, !.memory[p] = status]

(* The build of p ends: with RPMs; because dnf builddep finds a            *)
(* requirement nowhere; or for reasons of its own, building none included. *)
(* An RPM cut short may be passed over, or fail createrepo_c.              *)
Finish(p) ==
  /\ proc.phase = "build"
  /\ p \in proc.building
  /\ \/ /\ \A r \in survey.needs[p] : Possible(r)
        /\ \E generated \in SUBSET survey.implicit[p] : Ended(p, "ok", "ok", generated)
     \/ /\ \E r \in survey.needs[p] : ~Certain(r)
        /\ Ended(p, "deps", "failed", None)
     \/ /\ "build" \in StackFaults \/ torn # {}
        /\ Ended(p, "fault", "failed", None)
  /\ UNCHANGED <<survey, wave, preflight, prior, torn, report, verdict, last, fresh, kills>>

(* The successes of this wave, for the next ones.                          *)
Copied == {p \in InWave(proc.wave) : proc.memory[p] = "ok"}

WaveBuilt == proc.phase = "build" /\ proc.todo = {} /\ proc.building = {}

Copy ==
  /\ WaveBuilt
  /\ prior' = [p \in Packages |-> IF p \in Copied THEN output[p] ELSE prior[p]]
  /\ torn' = torn \ Copied
  /\ proc' = [proc EXCEPT !.phase = "report"]
  /\ UNCHANGED <<survey, wave, preflight, output, result, report, verdict, last,
                 fresh, kills>>

Write ==
  /\ proc.phase = "report"
  /\ report' = proc.memory
  /\ proc' = [proc EXCEPT !.phase = "clean"]
  /\ UNCHANGED <<survey, wave, preflight, output, prior, torn, result, verdict, last,
                 fresh, kills>>

(* Mutant of HasNext: one more wave than there are.                        *)
NextAlways(w) == TRUE

HasNext(w) == w + 1 \in Waves /\ InWave(w + 1) # {}

(* The build trees are removed; when they cannot be, the command ends.     *)
Clean ==
  /\ proc.phase = "clean"
  /\ \/ /\ ~proc.only
        /\ HasNext(proc.wave)
        /\ Enter(proc.wave + 1, FALSE, proc.memory)
     \/ /\ proc.only \/ ~HasNext(proc.wave) \/ "clean" \in StackFaults
        /\ proc' = NoProc
        /\ UNCHANGED <<last, fresh>>
  /\ UNCHANGED <<survey, wave, preflight, output, prior, torn, result, report, verdict, kills>>

(* The command is killed: some of the RPMs may have been copied, the last   *)
(* of them in part; the report may be cut short.                           *)
Kill ==
  /\ kills < MaxKills
  /\ proc.phase # "idle"
  /\ \E some \in SUBSET (IF WaveBuilt THEN Copied ELSE {}) :
       /\ prior' = [p \in Packages |-> IF p \in some THEN output[p] ELSE prior[p]]
       /\ \/ torn' = torn \ some
          \/ \E p \in some : torn' = (torn \ some) \cup {p}
  /\ \/ UNCHANGED report
     \/ proc.phase = "report" /\ report' = None
  /\ proc' = NoProc
  /\ kills' = kills + 1
  /\ UNCHANGED <<survey, wave, preflight, output, result, verdict, last, fresh>>

(* Mutant of Complete: a recipe that is not in the report did not fail.    *)
NoneFailed == report # None /\ \A p \in Planned : report[p] # "failed"

Complete == report # None /\ \A p \in Planned : report[p] = "ok"

(* build_stack.py --check, before the consumer transaction is solved       *)
(* against work/prior.                                                     *)
Check ==
  /\ preflight = "passed"
  /\ proc.phase = "idle"
  /\ verdict' = IF Complete THEN "passed" ELSE "failed"
  /\ UNCHANGED <<survey, wave, preflight, proc, output, prior, torn, result, report,
                 last, fresh, kills>>

StackNext ==
  \/ Extract
  \/ Preflight
  \/ \E w \in Waves : StartWave(w)
  \/ StartAll
  \/ \E p \in Packages : Begin(p) \/ Finish(p)
  \/ Copy
  \/ Write
  \/ Clean
  \/ Kill
  \/ Check

StackSpec == StackInit /\ [][StackNext]_stackVars

-----------------------------------------------------------------------------
StackTypeOK ==
  /\ survey \in Surveys \cup {None}
  /\ wave \in [Packages -> Waves \cup {None}]
  /\ preflight \in {"pending", "passed", "failed"}
  /\ proc \in Procs
  /\ output \in [Packages -> {None} \cup SUBSET Names]
  /\ prior \in [Packages -> {None} \cup SUBSET Names]
  /\ result \in [Packages -> {"none", "ok", "deps", "fault"}]
  /\ torn \in SUBSET Packages
  /\ report \in [Packages -> Statuses] \cup {None}
  /\ verdict \in {"none", "passed", "failed"}
  /\ last \in Waves \cup {-1}
  /\ fresh \in BOOLEAN
  /\ kills \in Nat

(* No wave was begun again, and no command was interrupted.                *)
Undisturbed == fresh /\ kills = 0

(* "Only earlier-wave successes enter its dependency repository"           *)
(* (build_stack.py, lines 4-5): while a wave builds in an undisturbed      *)
(* checkout, work/prior holds nothing else, however the builds of the wave *)
(* interleave and whatever failed before.                                  *)
EarlierWavesOnly ==
  Undisturbed /\ proc.phase = "build" =>
    \A p \in Packages : prior[p] # None => wave[p] < proc.wave /\ result[p] = "ok"

(* What the preflight is for (dependency_preflight.py: "before starting    *)
(* any compilation"): in such a checkout a build never misses a            *)
(* requirement because of the plan.  When dnf builddep finds r nowhere,    *)
(* every package of CentOS that satisfies it is hidden by a rebuilt one,   *)
(* and every recipe the preflight counted on failed, or no longer          *)
(* generates the capability.                                               *)
FailureHasCause ==
  Undisturbed => \A p \in Packages : result[p] = "deps" =>
    \E r \in survey.needs[p] :
      /\ \A s \in survey.base[r] : s \in Packages /\ result[s] = "ok"
      /\ \A q \in Earlier(p, r) :
           result[q] = "ok" => Explicit(q, r) = {} /\ r.name \notin output[q]

(* When --check passes, the repository that the consumer transaction is    *)
(* solved against has RPMs of every planned recipe, whatever was repeated, *)
(* interrupted or could not be cleaned on the way; and all of them whole,  *)
(* when no wave was begun again.  A wave that was, and is killed while it  *)
(* copies, can leave an RPM cut short that the report of its first build   *)
(* vouches for (build_stack.py, check_report and lines 68-72;              *)
(* factory-stack.yml, its last step).                                      *)
CheckedMeansBuilt ==
  verdict = "passed" =>
    \A p \in Planned : prior[p] # None /\ (fresh => p \notin torn)
==============================================================================
