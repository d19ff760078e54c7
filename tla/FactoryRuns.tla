----------------------------- MODULE FactoryRuns ------------------------------
(***************************************************************************)
(* The binary lane of the package factory: factory-build.yml, the wave     *)
(* jobs of factory-build-stage.yml and factory-publish.yml.  Pushes and    *)
(* dispatches ask for runs; at most one run per ref is in flight and one   *)
(* pending; a run selects recipes against the published image's label,     *)
(* builds them wave by wave, and moves the ref's stream tag in one step to *)
(* a repository image that keeps every RPM the run did not replace.  The   *)
(* failed jobs of a run can be run again, in the same queue, with all the  *)
(* outputs and artifacts that the run has left.                            *)
(***************************************************************************)
EXTENDS Factory

CONSTANTS
  Refs,      \* branches the workflow runs on
  Main,      \* refs/heads/main, the one ref a push starts a run on
  Tags,      \* stream tags of the repository image
  TagOf,     \* TagOf[r]: the tag runs on r publish under
  Faults,    \* what may go wrong: "build", "step", "pull"
  Asks,      \* workflow_dispatch inputs people use
  Reruns,    \* TRUE when people re-run the failed jobs of a run
  MaxRequests \* bound on the pushes and dispatches of a behaviour

ASSUME RunsAssumption ==
  /\ Main \in Refs
  /\ TagOf \in [Refs -> Tags]
  /\ Faults \subseteq {"build", "step", "pull"}
  /\ Asks \subseteq [only : SUBSET Packages, full : BOOLEAN, publish : BOOLEAN]
  /\ Reruns \in BOOLEAN
  /\ MaxRequests \in Nat

VARIABLES
  head,       \* head[r]: recipes at the tip of r
  requests,   \* pushes and dispatches so far
  pending,    \* pending[r]: the run waiting in r's concurrency group
  run,        \* run[r]: the run in flight, None when the group is free
  verdict,    \* verdict[r]: conclusion of the last run on r
  rerunnable, \* rerunnable[r]: the run that ended last with failed jobs
  tags        \* tags[t]: image the stream tag points to

vars == <<head, requests, pending, run, verdict, rerunnable, tags>>

Evidence == {"metadata", "signature", "provenance"}

Images == [rpms : Contents, state : States, evidence : SUBSET Evidence]

ASSUME NoImageAssumption == None \notin Images

Requests == [sha : Recipes, only : SUBSET Packages, full : BOOLEAN,
             publish : BOOLEAN]

Phases == {"prepare", "build", "resolved", "sealed", "pushed", "attested"}

(* A run: what was asked, the seed image and selection its prepare job     *)
(* handed to every later job, the builds this attempt has still to do, the *)
(* RPMs all its attempts uploaded, the builds that failed in this one, and *)
(* the signatures its image carries.                                       *)
Runs == [asked : Requests, phase : Phases, seed : Images \cup {None},
         list : SUBSET Buildable, todo : SUBSET Buildable, made : Contents,
         failed : SUBSET Buildable, evidence : SUBSET Evidence]

ASSUME NoRunAssumption == None \notin Requests /\ None \notin Runs

-----------------------------------------------------------------------------
SeedRpms(seed) == IF seed = None THEN NoRpms ELSE seed.rpms

SeedState(seed) == IF seed = None THEN NothingKnown ELSE seed.state

(* Mutant of ResolvedImages: tries latest before the branch's own stream. *)
LatestFirst(r) ==
  IF tags[TagOf[Main]] # None THEN {tags[TagOf[Main]]} ELSE {tags[TagOf[r]]}

(* The images prepare may resolve for r: its own stream, else latest, else *)
(* nothing.  A pull that fails counts as an image that does not exist.     *)
ResolvedImages(r) ==
  IF "pull" \in Faults THEN {tags[TagOf[r]], tags[TagOf[Main]], None}
  ELSE IF tags[TagOf[r]] # None THEN {tags[TagOf[r]]}
  ELSE {tags[TagOf[Main]]}

Built(run_r) == {p \in Packages : run_r.made[p] # None}

(* Mutants of Admitted: takes whatever this run has built so far; compares *)
(* the waves the wrong way round.                                          *)
AdmittedSoFar(run_r, p, q) == run_r.made[q] # None

AdmittedBackwards(run_r, p, q) == run_r.made[q] # None /\ Wave[p] < Wave[q]

(* A wave job admits this run's builds of strictly earlier waves.          *)
Admitted(run_r, p, q) == run_r.made[q] # None /\ Wave[q] < Wave[p]

(* What p finds when it builds: the seed, with earlier waves replaced.     *)
BuildInput(run_r, p) ==
  [q \in Packages |->
     IF q \notin BuildRequires[p] THEN None
     ELSE IF Admitted(run_r, p, q) THEN VersionIn(run_r.made, q)
     ELSE VersionIn(SeedRpms(run_r.seed), q)]

(* The repository to publish: the seed with this run's builds replaced,    *)
(* source by source.                                                       *)
Candidate(run_r) ==
  [p \in Packages |-> IF run_r.made[p] # None THEN run_r.made[p]
                      ELSE SeedRpms(run_r.seed)[p]]

(* Mutant of CandidateState: records every recipe the run attempted. *)
CandidateStateOfList(run_r) ==
  [p \in Packages |-> IF p \in run_r.list THEN run_r.asked.sha[p]
                      ELSE SeedState(run_r.seed)[p]]

(* Its label: the checked-out digest of what was replaced, the seed's for  *)
(* the rest.                                                               *)
CandidateState(run_r) ==
  [p \in Packages |-> IF run_r.made[p] # None THEN run_r.asked.sha[p]
                      ELSE SeedState(run_r.seed)[p]]

-----------------------------------------------------------------------------
Init ==
  /\ \E recipes \in Recipes : head = [r \in Refs |-> recipes]
  /\ requests = 0
  /\ pending = [r \in Refs |-> None]
  /\ run = [r \in Refs |-> None]
  /\ verdict = [r \in Refs |-> "none"]
  /\ rerunnable = [r \in Refs |-> None]
  /\ tags = [t \in Tags |-> None]

PushRequest(recipes) ==
  [sha |-> recipes, only |-> {}, full |-> FALSE, publish |-> TRUE]

NewRun(request) ==
  [asked |-> request, phase |-> "prepare", seed |-> None, list |-> {}, todo |-> {},
   made |-> NoRpms, failed |-> {}, evidence |-> {}]

(* A new run joins the concurrency group of its ref and waits in place of  *)
(* the one that waited, which is cancelled and can be run again.           *)
Join(r, request) ==
  /\ pending' = [pending EXCEPT ![r] = NewRun(request)]
  /\ rerunnable' = IF Reruns /\ pending[r] # None
                   THEN [rerunnable EXCEPT ![r] = pending[r]] ELSE rerunnable

(* Mutant of Push: the run that waits is kept, as it was queued first. *)
PushBehindPending(r, recipes) ==
  /\ requests < MaxRequests
  /\ recipes # head[r]
  /\ head' = [head EXCEPT ![r] = recipes]
  /\ requests' = requests + 1
  /\ IF r = Main /\ pending[r] = None THEN Join(r, PushRequest(recipes))
     ELSE UNCHANGED <<pending, rerunnable>>
  /\ UNCHANGED <<run, verdict, tags>>

(* A push to main asks for a run of its own commit, in place of the one    *)
(* that waits; a push elsewhere asks for nothing.                          *)
Push(r, recipes) ==
  /\ requests < MaxRequests
  /\ recipes # head[r]
  /\ head' = [head EXCEPT ![r] = recipes]
  /\ requests' = requests + 1
  /\ IF r = Main THEN Join(r, PushRequest(recipes)) ELSE UNCHANGED <<pending, rerunnable>>
  /\ UNCHANGED <<run, verdict, tags>>

(* workflow_dispatch joins the same concurrency group. *)
Dispatch(r, ask) ==
  /\ requests < MaxRequests
  /\ requests' = requests + 1
  /\ Join(r, [sha |-> head[r], only |-> ask.only, full |-> ask.full,
               publish |-> ask.publish])
  /\ UNCHANGED <<head, run, verdict, tags>>

Start(r) ==
  /\ run[r] = None
  /\ pending[r] # None
  /\ run' = [run EXCEPT ![r] = pending[r]]
  /\ pending' = [pending EXCEPT ![r] = None]
  /\ UNCHANGED <<head, requests, verdict, rerunnable, tags>>

(* "Re-run failed jobs" keeps what prepare handed out and every artifact.  *)
(* A build that failed or was cut off is made again, and with it all of    *)
(* the later waves, whose jobs need its job; then publish is.              *)
FailedJobs(run_r) ==
  LET missing == run_r.todo \cup run_r.failed
  IN [run_r EXCEPT
       !.phase = IF @ = "prepare" THEN "prepare" ELSE "build",
       !.todo = {p \in run_r.list :
                   p \in missing \/ \E q \in missing : Wave[q] < Wave[p]},
       !.failed = {},
       !.evidence = {}]

(* A run ends; unless it is green it has jobs that can be run again.       *)
Conclude(r, conclusion) ==
  /\ run' = [run EXCEPT ![r] = None]
  /\ verdict' = [verdict EXCEPT ![r] = conclusion]
  /\ rerunnable' = IF Reruns /\ conclusion # "green"
                   THEN [rerunnable EXCEPT ![r] = FailedJobs(run[r])] ELSE rerunnable

(* The selection is made once, against the label of the image every later  *)
(* job is seeded from.  Nothing to build ends the run.                     *)
Prepare(r) ==
  /\ run[r] # None
  /\ run[r].phase = "prepare"
  /\ \E seed \in ResolvedImages(r) :
       LET asked == run[r].asked
           list == Select(SeedState(seed), asked.sha, asked.only, asked.full)
       IN IF list = {} THEN Conclude(r, "green")
          ELSE /\ run' = [run EXCEPT ![r] =
                    [run[r] EXCEPT !.phase = "build", !.seed = seed, !.list = list,
                                   !.todo = list]]
               /\ UNCHANGED <<verdict, rerunnable>>
  /\ UNCHANGED <<head, requests, pending, tags>>

(* The matrix job of one recipe; it needs every earlier wave to have ended, *)
(* well or not.  It uploads its RPMs or nothing; what an earlier attempt   *)
(* of the run uploaded stays then.                                         *)
BuildPackage(r, p) ==
  /\ run[r] # None
  /\ run[r].phase = "build"
  /\ p \in run[r].todo
  /\ \A q \in run[r].todo : ~(Wave[q] < Wave[p])
  /\ \/ run' = [run EXCEPT ![r] = [run[r] EXCEPT !.todo = @ \ {p}, !.made[p] =
            [ver |-> run[r].asked.sha[p], links |-> BuildInput(run[r], p)]]]
     \/ /\ "build" \in Faults
        /\ run' = [run EXCEPT ![r] =
             [run[r] EXCEPT !.todo = @ \ {p}, !.failed = @ \cup {p}]]
  /\ UNCHANGED <<head, requests, pending, verdict, rerunnable, tags>>

(* A run is red when any of its jobs is. *)
Conclusion(run_r) == IF run_r.failed = {} THEN "green" ELSE "red"

BuildsEnded(r) ==
  /\ run[r] # None
  /\ run[r].phase = "build"
  /\ run[r].todo = {}

(* skip_publish. *)
SkipPublish(r) ==
  /\ BuildsEnded(r)
  /\ ~run[r].asked.publish
  /\ Conclude(r, Conclusion(run[r]))
  /\ UNCHANGED <<head, requests, pending, tags>>

(* Mutant of NothingToPublish: waits for a build that did succeed. *)
NothingToPublishYet(r) == FALSE /\ UNCHANGED vars

(* No recipe of the list left an RPM: every later step is skipped. *)
NothingToPublish(r) ==
  /\ BuildsEnded(r)
  /\ run[r].asked.publish
  /\ Built(run[r]) = {}
  /\ Conclude(r, "red")
  /\ UNCHANGED <<head, requests, pending, tags>>

SeedVerified(seed) == seed # None => "signature" \in seed.evidence

(* Mutant of Resolve: the transaction is not run. *)
ResolveNothing(r) ==
  /\ BuildsEnded(r)
  /\ run[r].asked.publish
  /\ Built(run[r]) # {}
  /\ run' = [run EXCEPT ![r] = [run[r] EXCEPT !.phase = "resolved"]]
  /\ UNCHANGED <<head, requests, pending, verdict, rerunnable, tags>>

(* Verify the seed, assemble the candidate and resolve the consumer        *)
(* transaction against it.  A run is refused when that is all that fails.  *)
Resolve(r) ==
  /\ BuildsEnded(r)
  /\ run[r].asked.publish
  /\ Built(run[r]) # {}
  /\ IF SeedVerified(run[r].seed) /\ Installable(Candidate(run[r]))
     THEN /\ run' = [run EXCEPT ![r] = [run[r] EXCEPT !.phase = "resolved"]]
          /\ UNCHANGED <<verdict, rerunnable>>
     ELSE Conclude(r, IF run[r].failed = {} THEN "refused" ELSE "red")
  /\ UNCHANGED <<head, requests, pending, tags>>

(* One signing step of the publish job. *)
Sign(r, from, to, what) ==
  /\ run[r] # None
  /\ run[r].phase = from
  /\ run' = [run EXCEPT ![r] =
       [run[r] EXCEPT !.phase = to, !.evidence = @ \cup {what}]]
  /\ UNCHANGED <<head, requests, pending, verdict, rerunnable, tags>>

SignMetadata(r) == Sign(r, "resolved", "sealed", "metadata")
PushImage(r) == Sign(r, "sealed", "pushed", "signature")
Attest(r) == Sign(r, "pushed", "attested", "provenance")

(* Mutant of MoveTag: moves the tag as soon as the image is pushed. *)
MoveTagEarly(r) ==
  /\ run[r] # None
  /\ run[r].phase \in {"pushed", "attested"}
  /\ tags' = [tags EXCEPT ![TagOf[r]] =
       [rpms |-> Candidate(run[r]), state |-> CandidateState(run[r]),
        evidence |-> run[r].evidence]]
  /\ Conclude(r, Conclusion(run[r]))
  /\ UNCHANGED <<head, requests, pending>>

MoveTag(r) ==
  /\ run[r] # None
  /\ run[r].phase = "attested"
  /\ tags' = [tags EXCEPT ![TagOf[r]] =
       [rpms |-> Candidate(run[r]), state |-> CandidateState(run[r]),
        evidence |-> run[r].evidence]]
  /\ Conclude(r, Conclusion(run[r]))
  /\ UNCHANGED <<head, requests, pending>>

(* A step outside the builds fails, a runner dies or somebody cancels the  *)
(* run.                                                                    *)
Fail(r) ==
  /\ "step" \in Faults
  /\ run[r] # None
  /\ Conclude(r, "red")
  /\ UNCHANGED <<head, requests, pending, tags>>

(* "Re-run failed jobs": the run joins the queue like any other, and the   *)
(* one that waited is cancelled.                                           *)
Rerun(r) ==
  /\ rerunnable[r] # None
  /\ pending' = [pending EXCEPT ![r] = rerunnable[r]]
  /\ rerunnable' = [rerunnable EXCEPT ![r] = pending[r]]
  /\ UNCHANGED <<head, requests, run, verdict, tags>>

(* What a run does by itself. *)
RunStep(r) ==
  \/ Start(r)
  \/ Prepare(r)
  \/ \E p \in Packages : BuildPackage(r, p)
  \/ SkipPublish(r)
  \/ NothingToPublish(r)
  \/ Resolve(r)
  \/ SignMetadata(r)
  \/ PushImage(r)
  \/ Attest(r)
  \/ MoveTag(r)

Next ==
  \E r \in Refs :
    \/ \E recipes \in Recipes : Push(r, recipes)
    \/ \E ask \in Asks : Dispatch(r, ask)
    \/ RunStep(r)
    \/ Fail(r)
    \/ Rerun(r)

Spec == Init /\ [][Next]_vars

(* GitHub starts pending runs and runs jobs; people need not do anything.  *)
FairSpec == Spec /\ \A r \in Refs : WF_vars(RunStep(r))

-----------------------------------------------------------------------------
TypeOK ==
  /\ head \in [Refs -> Recipes]
  /\ requests \in Nat
  /\ pending \in [Refs -> Runs \cup {None}]
  /\ run \in [Refs -> Runs \cup {None}]
  /\ verdict \in [Refs -> {"none", "green", "refused", "red"}]
  /\ rerunnable \in [Refs -> Runs \cup {None}]
  /\ tags \in [Tags -> Images \cup {None}]

Published(r) == SeedRpms(tags[TagOf[r]])

(* No run in flight and none pending. *)
Quiet(r) == run[r] = None /\ pending[r] = None

(* The label of r's image names the recipes at r's head. *)
PublishedFromHead(r) ==
  \A p \in Buildable : SeedState(tags[TagOf[r]])[p] = head[r][p]

(* The label is the sole memory of the factory: what it says of a recipe   *)
(* is what the RPMs beside it were built from, through failed builds,      *)
(* carried-over seeds and first images of a branch (factory-publish.yml,   *)
(* "Replace successful builds and record their inputs").                   *)
WitnessFaithful ==
  \A t \in Tags : tags[t] # None =>
    \A p \in Packages : tags[t].state[p] = VersionIn(tags[t].rpms, p)

(* Whatever fails and whenever, a stream tag only ever points to an image  *)
(* the consumer can install and whose signatures and provenance exist      *)
(* (factory-publish.yml, the transaction and "Move the stream tag after    *)
(* signatures and provenance").                                            *)
TagVerified ==
  \A t \in Tags : tags[t] # None =>
    tags[t].evidence = Evidence /\ Installable(tags[t].rpms)

(* When main is quiet and its last run was green, everything at its head   *)
(* is published, although pending runs were replaced on the way            *)
(* (factory-build.yml, the comment on concurrency).                        *)
GreenMeansPublished ==
  Quiet(Main) /\ verdict[Main] = "green" => PublishedFromHead(Main)

(* Recipes whose RPMs are this attempt's, or need not be made again. *)
Current(run_r) == Built(run_r) \ (run_r.todo \cup run_r.failed)

(* A build is linked against the run's builds of earlier waves and the     *)
(* seed's copy of everything else, in whatever order the jobs of its wave  *)
(* finish, fail and are run again (factory-build-stage.yml, "never admit   *)
(* same-wave siblings").  What a later attempt failed to build again is    *)
(* left out: its RPMs may be older than the library they are used with.    *)
BuildInputsOrdered ==
  \A r \in Refs : run[r] # None =>
    \A p \in Current(run[r]) : \A q \in BuildRequires[p] :
      run[r].made[p].links[q] =
        IF q \in Built(run[r]) /\ Wave[q] < Wave[p] THEN run[r].made[q].ver
        ELSE VersionIn(SeedRpms(run[r].seed), q)

(* After a green run nothing in the repository is linked against a copy    *)
(* of a library the repository no longer has (rebuild_plan.py, select, on  *)
(* dependents).                                                            *)
NoStaleConsumer ==
  Quiet(Main) /\ verdict[Main] = "green" =>
    \A p \in Buildable : Published(Main)[p] # None => LinksHold(Published(Main), p)

KeepPrevious ==
  \A t \in Tags : tags[t] # None /\ tags'[t] # tags[t] =>
    \E r \in Refs :
      /\ TagOf[r] = t
      /\ run[r] # None
      /\ \A p \in Packages \ Built(run[r]) : tags'[t].rpms[p] = tags[t].rpms[p]

(* When a stream tag moves, every recipe the run did not build keeps the   *)
(* RPMs the stream had until that moment (factory-publish.yml, "A failed   *)
(* package keeps its previous build").                                     *)
KeepsPrevious == [][KeepPrevious]_vars

(* A pending run may be replaced because the newer one builds and          *)
(* publishes every change since the last publication all the same          *)
(* (factory-build.yml, the comment on concurrency).                        *)
ReplacementKeepsChanges ==
  [][pending[Main] # None /\ pending'[Main] # None /\ pending'[Main] # pending[Main] =>
       LET state == SeedState(tags[TagOf[Main]])
           newer == pending'[Main].asked
       IN /\ newer.publish
          /\ \A p \in Buildable : state[p] # head'[Main][p] =>
               p \in Select(state, newer.sha, newer.only, newer.full)]_vars

(* What a consumer of each stream sees. *)
Streams == [t \in Tags |-> IF tags[t] = None THEN None ELSE tags[t].rpms]

Repo == INSTANCE PublishedRepo WITH repo <- Streams

(* Consumers see one repository per stream that moves between installable  *)
(* contents and never loses a recipe: the runs implement PublishedRepo.    *)
RepoSpec == Repo!Spec

(* Every run ends and every queue drains, whichever builds and steps fail. *)
QueueDrains == \A r \in Refs : pending[r] # None ~> Quiet(r)

(* No build fails and no step does, but a transaction may refuse. *)
NoRunFails == [](verdict[Main] # "red")

(* While nothing fails by itself, pushes end up published: the selection,  *)
(* the waves and the replaced runs never leave a candidate that the        *)
(* consumer transaction refuses, run after run, and keeps the repository   *)
(* behind main with (factory-publish.yml, "The transaction gates the       *)
(* tag").  This is for waves that keep every edge; where the planner drops *)
(* one, the transaction may well refuse for ever.                          *)
Converges == NoRunFails => (requests > 0 ~> PublishedFromHead(Main))

(* Nor is anything in it ever linked against a copy of a library that it   *)
(* no longer has, once a run is over (rebuild_plan.py, select).            *)
NeverStale == NoRunFails => []NoStaleConsumer
=============================================================================
