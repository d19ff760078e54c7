------------------------- MODULE FactoryRunsProofs --------------------------
(***************************************************************************)
(* Proofs about the runs of the factory, for every set of recipes, refs,   *)
(* faults, dispatches and pushes.                                          *)
(***************************************************************************)
EXTENDS FactoryRuns, FiniteSetTheorems, WellFoundedInduction, TLAPS

-----------------------------------------------------------------------------
(* What the rebuild plan selects can be built. *)
LEMMA SelectType ==
  ASSUME NEW witness, NEW recipes, NEW only, NEW full
  PROVE  Select(witness, recipes, only, full) \subseteq Buildable
<1> DEFINE seeds == Changed(witness, recipes, only, full)
<1>1. seeds \subseteq Buildable
  BY DEF Changed
<1>2. FollowsConsumers(Buildable)
  BY DEF FollowsConsumers
<1>3. Buildable \in SUBSET Packages
  BY DEF Buildable
<1> QED
  BY <1>1, <1>2, <1>3 DEF Select, DragAlong

LEMMA SeedType ==
  ASSUME NEW seed \in Images \cup {None}
  PROVE  SeedRpms(seed) \in Contents /\ SeedState(seed) \in States
BY DEF SeedRpms, SeedState, Images, NoRpms, NothingKnown, Contents, States

LEMMA VersionType ==
  ASSUME NEW rpms \in Contents, NEW p \in Packages
  PROVE  VersionIn(rpms, p) \in Versions \cup {None}
BY DEF VersionIn, Contents, Builds

(* The build of a recipe records versions the factory knows. *)
LEMMA BuildInputType ==
  ASSUME NEW x \in Runs, NEW p \in Packages
  PROVE  BuildInput(x, p) \in [Packages -> Versions \cup {None}]
<1>1. x.made \in Contents /\ x.seed \in Images \cup {None}
  BY DEF Runs
<1>2. SeedRpms(x.seed) \in Contents
  BY <1>1, SeedType
<1> QED
  BY <1>1, <1>2, VersionType DEF BuildInput

LEMMA CandidateType ==
  ASSUME NEW x \in Runs
  PROVE  Candidate(x) \in Contents /\ CandidateState(x) \in States
<1>1. /\ x.made \in Contents
      /\ x.seed \in Images \cup {None}
      /\ x.asked.sha \in [Packages -> Versions]
  BY DEF Runs, Requests, Recipes
<1>2. SeedRpms(x.seed) \in Contents /\ SeedState(x.seed) \in States
  BY <1>1, SeedType
<1>3. Candidate(x) \in Contents
  BY <1>1, <1>2 DEF Candidate, Contents
<1>4. CandidateState(x) \in States
  BY <1>1, <1>2 DEF CandidateState, States
<1> QED
  BY <1>3, <1>4

LEMMA ResolvedImagesType ==
  ASSUME TypeOK, NEW r \in Refs
  PROVE  ResolvedImages(r) \subseteq Images \cup {None}
BY RunsAssumption DEF TypeOK, ResolvedImages

-----------------------------------------------------------------------------
(* What a step may do to the runs of a ref, field by field.  Every proof   *)
(* below goes through the moves of this section, never through the actions *)
(* again.                                                                  *)
LinkedBuild(x, p) == [ver |-> x.asked.sha[p], links |-> BuildInput(x, p)]

MayBuild(x, p) ==
  /\ x.phase = "build" /\ p \in x.todo
  /\ \A q \in x.todo : ~(Wave[q] < Wave[p])

Prepared(r, x, y) ==
  /\ x.phase = "prepare" /\ y.phase = "build"
  /\ y.seed \in ResolvedImages(r)
  /\ y.list = Select(SeedState(y.seed), x.asked.sha, x.asked.only, x.asked.full)
  /\ y.todo = y.list
  /\ y.made = x.made /\ y.failed = x.failed

BuiltOne(x, y) ==
  /\ y.phase = "build" /\ y.seed = x.seed /\ y.list = x.list
  /\ \E p \in Packages :
       /\ MayBuild(x, p)
       /\ y.todo = x.todo \ {p}
       /\ \/ y.made = [x.made EXCEPT ![p] = LinkedBuild(x, p)] /\ y.failed = x.failed
          \/ y.made = x.made /\ y.failed = x.failed \cup {p}

NextPhase(x, y) ==
  \/ /\ x.phase = "build" /\ y.phase = "resolved"
     /\ x.todo = {}
     /\ Installable(Candidate(x))
     /\ y.evidence = x.evidence
  \/ /\ x.phase = "resolved" /\ y.phase = "sealed"
     /\ y.evidence = x.evidence \cup {"metadata"}
  \/ /\ x.phase = "sealed" /\ y.phase = "pushed"
     /\ y.evidence = x.evidence \cup {"signature"}
  \/ /\ x.phase = "pushed" /\ y.phase = "attested"
     /\ y.evidence = x.evidence \cup {"provenance"}

PublishedOn(x, y) ==
  /\ NextPhase(x, y)
  /\ y.seed = x.seed /\ y.list = x.list /\ y.todo = x.todo
  /\ y.made = x.made /\ y.failed = x.failed

Worked(r, x, y) ==
  /\ y \in Runs
  /\ y.asked = x.asked
  /\ Prepared(r, x, y) \/ BuiltOne(x, y) \/ PublishedOn(x, y)

WorksOn(r) == run'[r] # None /\ Worked(r, run[r], run'[r])

RunMoves(r) ==
  \/ run'[r] = run[r]
  \/ run[r] = None /\ run'[r] = pending[r]
  \/ run[r] # None /\ run'[r] = None
  \/ run[r] # None /\ Worked(r, run[r], run'[r])

PendingMoves(r) ==
  \/ pending'[r] \in {None, pending[r], rerunnable[r]}
  \/ \E q \in Requests : pending'[r] = NewRun(q)

RerunnableMoves(r) ==
  \/ rerunnable'[r] \in {rerunnable[r], pending[r]}
  \/ run[r] # None /\ rerunnable'[r] = FailedJobs(run[r])

LEMMA NewRunFields ==
  ASSUME NEW q \in Requests
  PROVE  /\ NewRun(q) \in Runs /\ NewRun(q) # None
         /\ NewRun(q).asked = q /\ NewRun(q).phase = "prepare"
         /\ NewRun(q).seed = None /\ NewRun(q).made = NoRpms
         /\ NewRun(q).list = {} /\ NewRun(q).todo = {} /\ NewRun(q).failed = {}
<1>1. NoRpms \in Contents
  BY DEF NoRpms, Contents
<1>2. NewRun(q) \in Runs
  BY <1>1 DEF NewRun, Runs, Phases
<1> QED
  BY <1>2, NoRunAssumption DEF NewRun

(* The jobs that are run again: what is missing and what waves after it.   *)
LEMMA FailedJobsFields ==
  ASSUME NEW x \in Runs
  PROVE  /\ FailedJobs(x) \in Runs /\ FailedJobs(x) # None
         /\ FailedJobs(x).asked = x.asked /\ FailedJobs(x).seed = x.seed
         /\ FailedJobs(x).list = x.list /\ FailedJobs(x).made = x.made
         /\ FailedJobs(x).failed = {}
         /\ FailedJobs(x).phase = IF x.phase = "prepare" THEN "prepare" ELSE "build"
         /\ FailedJobs(x).todo =
              {p \in x.list : \/ p \in x.todo \cup x.failed
                              \/ \E q \in x.todo \cup x.failed : Wave[q] < Wave[p]}
<1> DEFINE todo == {p \in x.list : \/ p \in x.todo \cup x.failed
                                   \/ \E q \in x.todo \cup x.failed : Wave[q] < Wave[p]}
           phase == IF x.phase = "prepare" THEN "prepare" ELSE "build"
<1>1. FailedJobs(x) = [x EXCEPT !.phase = phase, !.todo = todo, !.failed = {},
                                !.evidence = {}]
  BY DEF FailedJobs
<1>2. todo \in SUBSET Buildable /\ phase \in Phases
  BY DEF Runs, Phases
<1> HIDE DEF todo, phase
<1>3. /\ FailedJobs(x) \in Runs
      /\ FailedJobs(x).asked = x.asked /\ FailedJobs(x).seed = x.seed
      /\ FailedJobs(x).list = x.list /\ FailedJobs(x).made = x.made
      /\ FailedJobs(x).failed = {} /\ FailedJobs(x).phase = phase
      /\ FailedJobs(x).todo = todo
  BY <1>1, <1>2 DEF Runs
<1> QED
  BY <1>3, NoRunAssumption DEF todo, phase

-----------------------------------------------------------------------------
LEMMA InitTyped == Init => TypeOK
BY DEF Init, TypeOK

(* The parts of TypeOK that speak of runs, and the moves that keep them.   *)
RunsTyped ==
  /\ run \in [Refs -> Runs \cup {None}]
  /\ pending \in [Refs -> Runs \cup {None}]
  /\ rerunnable \in [Refs -> Runs \cup {None}]
  /\ verdict \in [Refs -> {"none", "green", "refused", "red"}]

Moves == \A s \in Refs : RunMoves(s) /\ PendingMoves(s) /\ RerunnableMoves(s)

LEMMA JoinMoves ==
  ASSUME TypeOK, NEW r \in Refs, NEW q \in Requests, Join(r, q),
         UNCHANGED <<run, verdict>>
  PROVE  RunsTyped' /\ Moves
<1>1. NewRun(q) \in Runs
  BY NewRunFields
<1>2. /\ pending' = [pending EXCEPT ![r] = NewRun(q)]
      /\ rerunnable' = rerunnable \/ rerunnable' = [rerunnable EXCEPT ![r] = pending[r]]
  BY DEF Join
<1> HIDE DEF NewRun
<1> QED
  BY <1>1, <1>2
  DEF TypeOK, RunsTyped, Moves, RunMoves, PendingMoves, RerunnableMoves

LEMMA PushMoves ==
  ASSUME TypeOK, NEW r \in Refs, NEW recipes \in Recipes, Push(r, recipes)
  PROVE  TypeOK' /\ Moves
<1>1. PushRequest(recipes) \in Requests
  BY DEF PushRequest, Requests
<1>2. CASE Join(r, PushRequest(recipes))
  <2>1. RunsTyped' /\ Moves
    BY <1>1, <1>2, JoinMoves DEF Push
  <2>2. head' \in [Refs -> Recipes] /\ requests' \in Nat /\ UNCHANGED tags
    BY DEF TypeOK, Push
  <2> QED
    BY <2>1, <2>2 DEF TypeOK, RunsTyped
<1>3. CASE UNCHANGED <<pending, rerunnable>>
  BY <1>3 DEF TypeOK, Push, Moves, RunMoves, PendingMoves, RerunnableMoves
<1> QED
  BY <1>2, <1>3 DEF Push

LEMMA DispatchMoves ==
  ASSUME TypeOK, NEW r \in Refs, NEW ask \in Asks, Dispatch(r, ask)
  PROVE  TypeOK' /\ Moves
<1>1. ask \in [only : SUBSET Packages, full : BOOLEAN, publish : BOOLEAN]
  BY RunsAssumption
<1>2. [sha |-> head[r], only |-> ask.only, full |-> ask.full, publish |-> ask.publish]
        \in Requests
  BY <1>1 DEF TypeOK, Requests
<1>3. RunsTyped' /\ Moves
  BY <1>2, JoinMoves DEF Dispatch
<1> QED
  BY <1>3 DEF TypeOK, RunsTyped, Dispatch

LEMMA StartMoves ==
  ASSUME TypeOK, NEW r \in Refs, Start(r)
  PROVE  TypeOK' /\ Moves
BY DEF TypeOK, Start, Moves, RunMoves, PendingMoves, RerunnableMoves

LEMMA ConcludeMoves ==
  ASSUME TypeOK, NEW r \in Refs, run[r] # None, NEW c \in {"green", "refused", "red"},
         Conclude(r, c), UNCHANGED pending
  PROVE  RunsTyped' /\ Moves
<1>1. FailedJobs(run[r]) \in Runs
  BY FailedJobsFields DEF TypeOK
<1>2. /\ run' = [run EXCEPT ![r] = None]
      /\ verdict' = [verdict EXCEPT ![r] = c]
      /\ \/ rerunnable' = rerunnable
         \/ rerunnable' = [rerunnable EXCEPT ![r] = FailedJobs(run[r])]
  BY DEF Conclude
<1> QED
  BY <1>1, <1>2 DEF TypeOK, RunsTyped, Moves, RunMoves, PendingMoves, RerunnableMoves

(* A step of a run in flight that leaves the queue alone. *)
LEMMA WorkMoves ==
  ASSUME TypeOK, NEW r \in Refs, run[r] # None, NEW x, Worked(r, run[r], x),
         run' = [run EXCEPT ![r] = x],
         UNCHANGED <<head, requests, pending, verdict, rerunnable, tags>>
  PROVE  TypeOK' /\ Moves /\ WorksOn(r)
<1>1. x \in Runs /\ x # None
  BY NoRunAssumption DEF Worked
<1>2. run'[r] = x
  BY DEF TypeOK
<1>3. WorksOn(r)
  BY <1>1, <1>2 DEF WorksOn
<1> QED
  BY <1>1, <1>2, <1>3 DEF TypeOK, Moves, RunMoves, PendingMoves, RerunnableMoves

LEMMA PrepareMoves ==
  ASSUME TypeOK, NEW r \in Refs, Prepare(r)
  PROVE  /\ TypeOK' /\ Moves
         /\ \E seed \in ResolvedImages(r) :
              \/ /\ Select(SeedState(seed), run[r].asked.sha, run[r].asked.only,
                           run[r].asked.full) = {}
                 /\ Conclude(r, "green")
              \/ WorksOn(r)
<1>1. run[r] \in Runs /\ run[r] # None /\ run[r].phase = "prepare"
  BY DEF TypeOK, Prepare
<1>2. PICK seed \in ResolvedImages(r) :
        LET list == Select(SeedState(seed), run[r].asked.sha, run[r].asked.only,
                           run[r].asked.full)
        IN IF list = {} THEN Conclude(r, "green")
           ELSE /\ run' = [run EXCEPT ![r] = [@ EXCEPT !.phase = "build", !.seed = seed,
                                                       !.list = list, !.todo = list]]
                /\ UNCHANGED <<verdict, rerunnable>>
  BY DEF Prepare
<1> DEFINE list == Select(SeedState(seed), run[r].asked.sha, run[r].asked.only,
                          run[r].asked.full)
           x == [run[r] EXCEPT !.phase = "build", !.seed = seed, !.list = list,
                               !.todo = list]
<1>3. CASE list = {}
  <2>1. Conclude(r, "green") /\ UNCHANGED pending
    BY <1>2, <1>3 DEF Prepare
  <2>2. RunsTyped' /\ Moves
    BY <1>1, <2>1, ConcludeMoves
  <2>3. TypeOK' /\ Moves
    BY <2>2 DEF TypeOK, RunsTyped, Prepare
  <2> QED
    BY <1>3, <2>1, <2>3
<1>4. CASE list # {}
  <2>1. list \in SUBSET Buildable
    BY SelectType
  <2>2. list = Select(SeedState(seed), run[r].asked.sha, run[r].asked.only,
                      run[r].asked.full)
    OBVIOUS
  <2> HIDE DEF list
  <2>3. run' = [run EXCEPT ![r] = x] /\ UNCHANGED <<verdict, rerunnable>>
    BY <1>2, <1>4 DEF list
  <2>4. seed \in Images \cup {None}
    BY ResolvedImagesType
  <2>5. /\ x \in Runs /\ x.asked = run[r].asked /\ x.phase = "build"
        /\ x.seed = seed /\ x.list = list /\ x.todo = list
        /\ x.made = run[r].made /\ x.failed = run[r].failed
    BY <1>1, <2>1, <2>4 DEF Runs, Phases
  <2> HIDE DEF x
  <2>6. Worked(r, run[r], x)
    BY <1>1, <2>2, <2>5 DEF Worked, Prepared
  <2> QED
    BY <1>1, <2>3, <2>6, WorkMoves DEF Prepare
<1> QED
  BY <1>3, <1>4

LEMMA BuildPackageMoves ==
  ASSUME TypeOK, NEW r \in Refs, NEW p \in Packages, BuildPackage(r, p)
  PROVE  TypeOK' /\ Moves /\ WorksOn(r)
<1> DEFINE old == run[r]
           build == LinkedBuild(old, p)
           x == [old EXCEPT !.todo = @ \ {p}, !.made[p] = build]
           y == [old EXCEPT !.todo = @ \ {p}, !.failed = @ \cup {p}]
<1>1. /\ old \in Runs /\ old # None /\ old.phase = "build"
      /\ MayBuild(old, p) /\ p \in Buildable
  BY DEF TypeOK, BuildPackage, Runs, MayBuild
<1>2. build \in Builds
  BY <1>1, BuildInputType DEF LinkedBuild, Builds, Runs, Requests, Recipes
<1>3. run' = [run EXCEPT ![r] = x] \/ run' = [run EXCEPT ![r] = y]
  BY DEF BuildPackage, LinkedBuild
<1>4. build = LinkedBuild(old, p)
  OBVIOUS
<1> HIDE DEF build, old
<1>5. /\ x \in Runs /\ x.asked = old.asked /\ x.phase = "build" /\ x.seed = old.seed
      /\ x.list = old.list /\ x.todo = old.todo \ {p} /\ x.failed = old.failed
      /\ x.made = [old.made EXCEPT ![p] = build]
  BY <1>1, <1>2 DEF Runs, Contents
<1>6. /\ y \in Runs /\ y.asked = old.asked /\ y.phase = "build" /\ y.seed = old.seed
      /\ y.list = old.list /\ y.todo = old.todo \ {p} /\ y.failed = old.failed \cup {p}
      /\ y.made = old.made
  BY <1>1 DEF Runs
<1> HIDE DEF x, y
<1>7. Worked(r, old, x) /\ Worked(r, old, y)
  BY <1>1, <1>4, <1>5, <1>6 DEF Worked, BuiltOne
<1> QED
  BY <1>1, <1>3, <1>7, WorkMoves DEF BuildPackage, old

LEMMA ResolveMoves ==
  ASSUME TypeOK, NEW r \in Refs, Resolve(r)
  PROVE  /\ TypeOK' /\ Moves
         /\ WorksOn(r) \/ \E c \in {"refused", "red"} : Conclude(r, c)
<1>1. /\ run[r] \in Runs /\ run[r] # None /\ run[r].phase = "build" /\ run[r].todo = {}
  BY DEF TypeOK, Resolve, BuildsEnded
<1> DEFINE x == [run[r] EXCEPT !.phase = "resolved"]
<1>2. CASE SeedVerified(run[r].seed) /\ Installable(Candidate(run[r]))
  <2>1. /\ x \in Runs /\ x.asked = run[r].asked /\ x.phase = "resolved"
        /\ x.seed = run[r].seed /\ x.list = run[r].list /\ x.todo = run[r].todo
        /\ x.made = run[r].made /\ x.failed = run[r].failed
        /\ x.evidence = run[r].evidence
    BY <1>1 DEF Runs, Phases
  <2>2. run' = [run EXCEPT ![r] = x] /\ UNCHANGED <<verdict, rerunnable>>
    BY <1>2 DEF Resolve
  <2> HIDE DEF x
  <2>3. Worked(r, run[r], x)
    BY <1>1, <1>2, <2>1 DEF Worked, PublishedOn, NextPhase
  <2> QED
    BY <1>1, <2>2, <2>3, WorkMoves DEF Resolve
<1>3. CASE ~(SeedVerified(run[r].seed) /\ Installable(Candidate(run[r])))
  <2>1. \E c \in {"refused", "red"} : Conclude(r, c)
    BY <1>3 DEF Resolve
  <2>2. RunsTyped' /\ Moves
    BY <1>1, <2>1, ConcludeMoves DEF Resolve
  <2>3. TypeOK' /\ Moves
    BY <2>2 DEF TypeOK, RunsTyped, Resolve
  <2> QED
    BY <2>1, <2>3
<1> QED
  BY <1>2, <1>3

LEMMA SignMoves ==
  ASSUME TypeOK, NEW r \in Refs, SignMetadata(r) \/ PushImage(r) \/ Attest(r)
  PROVE  TypeOK' /\ Moves /\ WorksOn(r)
<1>1. PICK from, to, what :
        /\ Sign(r, from, to, what)
        /\ \/ from = "resolved" /\ to = "sealed" /\ what = "metadata"
           \/ from = "sealed" /\ to = "pushed" /\ what = "signature"
           \/ from = "pushed" /\ to = "attested" /\ what = "provenance"
  BY DEF SignMetadata, PushImage, Attest
<1>2. run[r] \in Runs /\ run[r] # None /\ run[r].phase = from
  BY <1>1 DEF TypeOK, Sign
<1> DEFINE x == [run[r] EXCEPT !.phase = to, !.evidence = run[r].evidence \cup {what}]
<1>3. /\ run' = [run EXCEPT ![r] = x]
      /\ UNCHANGED <<head, requests, pending, verdict, rerunnable, tags>>
  BY <1>1 DEF Sign
<1>4. /\ x \in Runs /\ x.asked = run[r].asked /\ x.phase = to
      /\ x.seed = run[r].seed /\ x.list = run[r].list /\ x.todo = run[r].todo
      /\ x.made = run[r].made /\ x.failed = run[r].failed
      /\ x.evidence = run[r].evidence \cup {what}
  BY <1>1, <1>2 DEF Runs, Phases, Evidence
<1> HIDE DEF x
<1>5. Worked(r, run[r], x)
  BY <1>1, <1>2, <1>4 DEF Worked, PublishedOn, NextPhase
<1> QED
  BY <1>2, <1>3, <1>5, WorkMoves

(* What an image that MoveTag publishes is made of. *)
ImageOf(x) ==
  [rpms |-> Candidate(x), state |-> CandidateState(x), evidence |-> x.evidence]

LEMMA ImageOfType ==
  ASSUME NEW x \in Runs
  PROVE  /\ ImageOf(x) \in Images /\ ImageOf(x) # None
         /\ ImageOf(x).rpms = Candidate(x) /\ ImageOf(x).state = CandidateState(x)
         /\ ImageOf(x).evidence = x.evidence
<1>1. ImageOf(x) \in Images
  BY CandidateType DEF ImageOf, Images, Runs
<1> QED
  BY <1>1, NoImageAssumption DEF ImageOf

LEMMA MoveTagMoves ==
  ASSUME TypeOK, NEW r \in Refs, MoveTag(r)
  PROVE  /\ TypeOK' /\ Moves
         /\ run[r] \in Runs /\ run[r] # None /\ run[r].phase = "attested"
         /\ run'[r] = None
         /\ tags' = [tags EXCEPT ![TagOf[r]] = ImageOf(run[r])]
<1>1. run[r] \in Runs /\ run[r] # None /\ run[r].phase = "attested"
  BY DEF TypeOK, MoveTag
<1>2. RunsTyped' /\ Moves
  BY <1>1, ConcludeMoves DEF MoveTag, Conclusion
<1>3. tags' = [tags EXCEPT ![TagOf[r]] = ImageOf(run[r])]
  BY DEF MoveTag, ImageOf
<1>4. run'[r] = None
  BY DEF TypeOK, MoveTag, Conclude
<1> QED
  BY <1>1, <1>2, <1>3, <1>4, ImageOfType DEF TypeOK, RunsTyped, MoveTag

LEMMA EndMoves ==
  ASSUME TypeOK, NEW r \in Refs, SkipPublish(r) \/ NothingToPublish(r) \/ Fail(r)
  PROVE  TypeOK' /\ Moves
<1>1. /\ run[r] # None /\ UNCHANGED <<head, requests, pending, tags>>
      /\ \E c \in {"green", "refused", "red"} : Conclude(r, c)
  BY DEF SkipPublish, NothingToPublish, BuildsEnded, Fail, Conclusion
<1>2. RunsTyped' /\ Moves
  BY <1>1, ConcludeMoves
<1> QED
  BY <1>1, <1>2 DEF TypeOK, RunsTyped

LEMMA RerunMoves ==
  ASSUME TypeOK, NEW r \in Refs, Rerun(r)
  PROVE  TypeOK' /\ Moves
BY DEF TypeOK, Rerun, Moves, RunMoves, PendingMoves, RerunnableMoves

(* Every step is made of moves, and only MoveTag moves a tag. *)
LEMMA NextMoves ==
  ASSUME TypeOK, [Next]_vars
  PROVE  /\ TypeOK' /\ Moves
         /\ UNCHANGED tags \/ \E r \in Refs : MoveTag(r)
<1>1. CASE UNCHANGED vars
  BY <1>1 DEF TypeOK, vars, Moves, RunMoves, PendingMoves, RerunnableMoves
<1>2. CASE Next
  <2> PICK r \in Refs :
        \/ \E recipes \in Recipes : Push(r, recipes)
        \/ \E ask \in Asks : Dispatch(r, ask)
        \/ RunStep(r)
        \/ Fail(r)
        \/ Rerun(r)
    BY <1>2 DEF Next
  <2>1. CASE \E recipes \in Recipes : Push(r, recipes)
    BY <2>1, PushMoves DEF Push
  <2>2. CASE \E ask \in Asks : Dispatch(r, ask)
    BY <2>2, DispatchMoves DEF Dispatch
  <2>3. CASE Start(r)
    BY <2>3, StartMoves DEF Start
  <2>4. CASE Prepare(r)
    BY <2>4, PrepareMoves DEF Prepare
  <2>5. CASE \E p \in Packages : BuildPackage(r, p)
    BY <2>5, BuildPackageMoves DEF BuildPackage
  <2>6. CASE SkipPublish(r) \/ NothingToPublish(r) \/ Fail(r)
    BY <2>6, EndMoves DEF SkipPublish, NothingToPublish, Fail
  <2>7. CASE Resolve(r)
    BY <2>7, ResolveMoves DEF Resolve
  <2>8. CASE SignMetadata(r) \/ PushImage(r) \/ Attest(r)
    BY <2>8, SignMoves DEF SignMetadata, PushImage, Attest, Sign
  <2>9. CASE MoveTag(r)
    BY <2>9, MoveTagMoves
  <2>10. CASE Rerun(r)
    BY <2>10, RerunMoves DEF Rerun
  <2> QED
    BY <2>1, <2>2, <2>3, <2>4, <2>5, <2>6, <2>7, <2>8, <2>9, <2>10 DEF RunStep
<1> QED
  BY <1>1, <1>2

(* Every reachable state is well typed: no run selects a blocked recipe,   *)
(* no candidate holds a build of unknown inputs, and what waits in a queue *)
(* is a run.                                                               *)
THEOREM RunsTypeCorrect == Spec => []TypeOK
<1>1. Init => TypeOK
  BY InitTyped
<1>2. TypeOK /\ [Next]_vars => TypeOK'
  BY NextMoves
<1> QED
  BY <1>1, <1>2, PTL DEF Spec

-----------------------------------------------------------------------------
(* WitnessFaithful speaks of published images only.  It is kept because an *)
(* image inherits a label that was faithful in its seed and adds digests   *)
(* of the commit its own builds were made from, in whichever attempt.      *)
Faithful(image) ==
  image # None =>
    \A p \in Packages : image.state[p] = VersionIn(image.rpms, p)

MadeFromSha(x) ==
  \A p \in Packages : x.made[p] # None => x.made[p].ver = x.asked.sha[p]

RunFaithful(x) == x # None => Faithful(x.seed) /\ MadeFromSha(x)

FaithfulInv ==
  /\ TypeOK
  /\ \A t \in Tags : Faithful(tags[t])
  /\ \A r \in Refs : /\ RunFaithful(run[r])
                     /\ RunFaithful(pending[r])
                     /\ RunFaithful(rerunnable[r])

(* The label beside a candidate is the one of the candidate's RPMs. *)
LEMMA CandidateFaithful ==
  ASSUME NEW x \in Runs, x # None, RunFaithful(x)
  PROVE  Faithful(ImageOf(x))
<1>1. SUFFICES ASSUME NEW p \in Packages
               PROVE  CandidateState(x)[p] = VersionIn(Candidate(x), p)
  BY ImageOfType DEF Faithful
<1>2. CASE x.made[p] # None
  BY <1>2 DEF RunFaithful, MadeFromSha, CandidateState, Candidate, VersionIn
<1>3. CASE x.made[p] = None
  <2>1. SeedState(x.seed)[p] = VersionIn(SeedRpms(x.seed), p)
    BY DEF RunFaithful, Faithful, SeedState, SeedRpms, NothingKnown, NoRpms, VersionIn
  <2> QED
    BY <1>3, <2>1 DEF CandidateState, Candidate, VersionIn
<1> QED
  BY <1>2, <1>3

LEMMA WorkedFaithful ==
  ASSUME FaithfulInv, NEW r \in Refs, NEW x \in Runs, x # None, RunFaithful(x),
         NEW y, Worked(r, x, y)
  PROVE  RunFaithful(y)
<1>1. y.asked = x.asked
  BY DEF Worked
<1>2. CASE Prepared(r, x, y)
  <2>1. Faithful(y.seed)
    BY <1>2, RunsAssumption DEF Prepared, ResolvedImages, FaithfulInv, Faithful
  <2> QED
    BY <1>1, <1>2, <2>1 DEF Prepared, RunFaithful, MadeFromSha
<1>3. CASE BuiltOne(x, y)
  <2>1. PICK p \in Packages :
          \/ y.made = [x.made EXCEPT ![p] = LinkedBuild(x, p)]
          \/ y.made = x.made
    BY <1>3 DEF BuiltOne
  <2>2. LinkedBuild(x, p).ver = x.asked.sha[p] /\ x.made \in [Packages -> Builds \cup {None}]
    BY DEF LinkedBuild, Runs, Contents
  <2>3. MadeFromSha(y)
    BY <1>1, <2>1, <2>2 DEF RunFaithful, MadeFromSha
  <2> QED
    BY <1>3, <2>3 DEF BuiltOne, RunFaithful
<1>4. CASE PublishedOn(x, y)
  BY <1>1, <1>4 DEF PublishedOn, RunFaithful, MadeFromSha
<1> QED
  BY <1>2, <1>3, <1>4 DEF Worked

LEMMA NewRunFaithful ==
  ASSUME NEW q \in Requests
  PROVE  RunFaithful(NewRun(q))
BY NewRunFields DEF RunFaithful, Faithful, MadeFromSha, NoRpms

LEMMA FailedJobsFaithful ==
  ASSUME NEW x \in Runs, x # None, RunFaithful(x)
  PROVE  RunFaithful(FailedJobs(x))
BY FailedJobsFields DEF RunFaithful, MadeFromSha

LEMMA NextFaithful ==
  ASSUME FaithfulInv, [Next]_vars
  PROVE  FaithfulInv'
<1>1. TypeOK /\ TypeOK' /\ Moves
  BY NextMoves DEF FaithfulInv
<1>2. ASSUME NEW s \in Refs
      PROVE  /\ RunFaithful(run'[s])
             /\ RunFaithful(pending'[s])
             /\ RunFaithful(rerunnable'[s])
  <2>1. /\ RunMoves(s) /\ PendingMoves(s) /\ RerunnableMoves(s)
        /\ RunFaithful(run[s]) /\ RunFaithful(pending[s]) /\ RunFaithful(rerunnable[s])
        /\ run[s] # None => run[s] \in Runs
    BY <1>1 DEF Moves, FaithfulInv, TypeOK
  <2>2. RunFaithful(None)
    BY DEF RunFaithful
  <2>3. RunFaithful(run'[s])
    BY <2>1, <2>2, WorkedFaithful DEF RunMoves
  <2>4. RunFaithful(pending'[s])
    BY <2>1, <2>2, NewRunFaithful DEF PendingMoves
  <2>5. RunFaithful(rerunnable'[s])
    BY <2>1, FailedJobsFaithful DEF RerunnableMoves
  <2> QED
    BY <2>3, <2>4, <2>5
<1>3. \A t \in Tags : Faithful(tags'[t])
  <2>1. ASSUME NEW r \in Refs, MoveTag(r)
        PROVE  \A t \in Tags : Faithful(tags'[t])
    <3>1. /\ run[r] \in Runs /\ run[r] # None
          /\ tags' = [tags EXCEPT ![TagOf[r]] = ImageOf(run[r])]
      BY <1>1, <2>1, MoveTagMoves
    <3>2. Faithful(ImageOf(run[r]))
      BY <3>1, CandidateFaithful DEF FaithfulInv
    <3> QED
      BY <1>1, <3>1, <3>2 DEF FaithfulInv, TypeOK
  <2>2. UNCHANGED tags \/ \E r \in Refs : MoveTag(r)
    BY <1>1, NextMoves
  <2> QED
    BY <2>1, <2>2 DEF FaithfulInv
<1> QED
  BY <1>1, <1>2, <1>3 DEF FaithfulInv, RunFaithful, Faithful, MadeFromSha

(* The state label of a published image names the inputs of the RPMs       *)
(* beside it, whatever fails, whatever is dispatched or re-run, and even   *)
(* when a failed pull loses the seed.                                      *)
THEOREM LabelTellsTheTruth == Spec => []WitnessFaithful
<1>1. Init => FaithfulInv
  BY InitTyped DEF Init, FaithfulInv, Faithful, RunFaithful
<1>2. FaithfulInv /\ [Next]_vars => FaithfulInv'
  BY NextFaithful
<1>3. FaithfulInv => WitnessFaithful
  BY DEF FaithfulInv, WitnessFaithful, Faithful
<1> QED
  BY <1>1, <1>2, <1>3, PTL DEF Spec

-----------------------------------------------------------------------------
(* TagVerified holds because each phase of the publish job implies what    *)
(* the steps before it have established about the candidate.               *)
RunVerified(x) ==
  x # None =>
    /\ x.phase \in {"resolved", "sealed", "pushed", "attested"} =>
         Installable(Candidate(x))
    /\ x.phase \in {"sealed", "pushed", "attested"} => "metadata" \in x.evidence
    /\ x.phase \in {"pushed", "attested"} => "signature" \in x.evidence
    /\ x.phase = "attested" => "provenance" \in x.evidence

ImageVerified(image) ==
  image # None => image.evidence = Evidence /\ Installable(image.rpms)

VerifiedInv ==
  /\ TypeOK
  /\ \A t \in Tags : ImageVerified(tags[t])
  /\ \A r \in Refs : /\ RunVerified(run[r])
                     /\ RunVerified(pending[r])
                     /\ RunVerified(rerunnable[r])

LEMMA WorkedVerified ==
  ASSUME NEW r \in Refs, NEW x \in Runs, x # None, RunVerified(x), NEW y, Worked(r, x, y)
  PROVE  RunVerified(y)
<1>1. CASE Prepared(r, x, y) \/ BuiltOne(x, y)
  BY <1>1 DEF Prepared, BuiltOne, RunVerified
<1>2. CASE PublishedOn(x, y)
  <2>1. Candidate(y) = Candidate(x)
    BY <1>2 DEF PublishedOn, Candidate
  <2>2. NextPhase(x, y)
    BY <1>2 DEF PublishedOn
  <2> QED
    BY <2>1, <2>2 DEF NextPhase, RunVerified
<1> QED
  BY <1>1, <1>2 DEF Worked

LEMMA NextVerified ==
  ASSUME VerifiedInv, [Next]_vars
  PROVE  VerifiedInv'
<1>1. TypeOK /\ TypeOK' /\ Moves
  BY NextMoves DEF VerifiedInv
<1>2. ASSUME NEW s \in Refs
      PROVE  /\ RunVerified(run'[s])
             /\ RunVerified(pending'[s])
             /\ RunVerified(rerunnable'[s])
  <2>1. /\ RunMoves(s) /\ PendingMoves(s) /\ RerunnableMoves(s)
        /\ RunVerified(run[s]) /\ RunVerified(pending[s]) /\ RunVerified(rerunnable[s])
        /\ run[s] # None => run[s] \in Runs
    BY <1>1 DEF Moves, VerifiedInv, TypeOK
  <2>2. RunVerified(None) /\ \A q \in Requests : RunVerified(NewRun(q))
    BY NewRunFields DEF RunVerified
  <2>3. RunVerified(run'[s])
    BY <2>1, <2>2, WorkedVerified DEF RunMoves
  <2>4. RunVerified(pending'[s])
    BY <2>1, <2>2 DEF PendingMoves
  <2>5. run[s] # None => RunVerified(FailedJobs(run[s]))
    BY <2>1, FailedJobsFields DEF RunVerified
  <2>6. RunVerified(rerunnable'[s])
    BY <2>1, <2>5 DEF RerunnableMoves
  <2> QED
    BY <2>3, <2>4, <2>6
<1>3. \A t \in Tags : ImageVerified(tags'[t])
  <2>1. ASSUME NEW r \in Refs, MoveTag(r)
        PROVE  \A t \in Tags : ImageVerified(tags'[t])
    <3>1. /\ run[r] \in Runs /\ run[r] # None /\ run[r].phase = "attested"
          /\ tags' = [tags EXCEPT ![TagOf[r]] = ImageOf(run[r])]
      BY <1>1, <2>1, MoveTagMoves
    <3>2. Installable(Candidate(run[r])) /\ run[r].evidence = Evidence
      BY <3>1 DEF VerifiedInv, RunVerified, Runs, Evidence
    <3>3. ImageVerified(ImageOf(run[r]))
      BY <3>1, <3>2, ImageOfType DEF ImageVerified
    <3> QED
      BY <1>1, <3>1, <3>3 DEF VerifiedInv, TypeOK
  <2>2. UNCHANGED tags \/ \E r \in Refs : MoveTag(r)
    BY <1>1, NextMoves
  <2> QED
    BY <2>1, <2>2 DEF VerifiedInv
<1> QED
  BY <1>1, <1>2, <1>3 DEF VerifiedInv, RunVerified, ImageVerified

(* A stream tag never points to an image that the consumer cannot install  *)
(* or that lacks a signature or its provenance.                            *)
THEOREM TagsStayVerified == Spec => []TagVerified
<1>1. Init => VerifiedInv
  BY InitTyped DEF Init, VerifiedInv, ImageVerified, RunVerified
<1>2. VerifiedInv /\ [Next]_vars => VerifiedInv'
  BY NextVerified
<1>3. VerifiedInv => TagVerified
  BY DEF VerifiedInv, ImageVerified, TagVerified
<1> QED
  BY <1>1, <1>2, <1>3, PTL DEF Spec

-----------------------------------------------------------------------------
(* KeepsPrevious needs what the runs of this factory do not enforce by     *)
(* themselves: pulls that do not fail, no re-run of failed jobs, and no    *)
(* two branches whose names are cut to one tag.  Then the concurrency      *)
(* group makes the seed of a run the image its tag still points to.        *)
SerialRuns ==
  /\ "pull" \notin Faults
  /\ ~Reruns
  /\ \A r, s \in Refs : TagOf[r] = TagOf[s] => r = s

SeedIsCurrent(r) ==
  (run[r] # None /\ run[r].phase # "prepare" /\ tags[TagOf[r]] # None) =>
    run[r].seed = tags[TagOf[r]]

SeedInv ==
  /\ TypeOK
  /\ \A r \in Refs : rerunnable[r] = None
  /\ \A r \in Refs : pending[r] # None => pending[r].phase = "prepare"
  /\ \A r \in Refs : SeedIsCurrent(r)

LEMMA NothingRerun ==
  ASSUME ~Reruns, SeedInv, [Next]_vars
  PROVE  UNCHANGED rerunnable
<1>1. \A r \in Refs : ~Rerun(r)
  BY DEF Rerun, SeedInv
<1>2. \A r, c : Conclude(r, c) => UNCHANGED rerunnable
  BY DEF Conclude
<1>3. \A r, q : Join(r, q) => UNCHANGED rerunnable
  BY DEF Join
<1> QED
  BY <1>1, <1>2, <1>3
  DEF Next, vars, RunStep, Push, Dispatch, Start, Prepare, BuildPackage, SkipPublish,
      NothingToPublish, Resolve, SignMetadata, PushImage, Attest, Sign, MoveTag, Fail

LEMMA NextSeed ==
  ASSUME SerialRuns, SeedInv, [Next]_vars
  PROVE  SeedInv'
<1>1. TypeOK /\ TypeOK' /\ Moves
  BY NextMoves DEF SeedInv
<1>2. UNCHANGED rerunnable
  BY NothingRerun DEF SerialRuns
<1>3. ASSUME NEW s \in Refs, pending'[s] # None
      PROVE  pending'[s].phase = "prepare"
  BY <1>1, <1>3, NewRunFields DEF Moves, PendingMoves, SeedInv
<1>4. ASSUME NEW s \in Refs, tags'[TagOf[s]] = tags[TagOf[s]]
      PROVE  SeedIsCurrent(s)'
  <2>1. /\ RunMoves(s) /\ SeedIsCurrent(s)
        /\ pending[s] # None => pending[s].phase = "prepare"
    BY <1>1 DEF Moves, SeedInv
  <2>2. ASSUME run[s] # None, Worked(s, run[s], run'[s])
        PROVE  SeedIsCurrent(s)'
    <3>1. CASE Prepared(s, run[s], run'[s])
      BY <1>4, <3>1 DEF Prepared, ResolvedImages, SerialRuns, SeedIsCurrent
    <3>2. CASE BuiltOne(run[s], run'[s]) \/ PublishedOn(run[s], run'[s])
      <4>1. run'[s].seed = run[s].seed /\ run[s].phase # "prepare"
        BY <3>2 DEF BuiltOne, MayBuild, PublishedOn, NextPhase
      <4> QED
        BY <1>4, <2>1, <2>2, <4>1 DEF SeedIsCurrent
    <3> QED
      BY <2>2, <3>1, <3>2 DEF Worked
  <2> QED
    BY <1>4, <2>1, <2>2 DEF RunMoves, SeedIsCurrent
<1>5. ASSUME NEW r \in Refs, MoveTag(r), NEW s \in Refs
      PROVE  SeedIsCurrent(s)'
  <2>1. run'[r] = None /\ tags' = [tags EXCEPT ![TagOf[r]] = ImageOf(run[r])]
    BY <1>1, <1>5, MoveTagMoves
  <2>2. CASE s = r
    BY <2>1, <2>2 DEF SeedIsCurrent
  <2>3. CASE s # r
    <3>1. tags'[TagOf[s]] = tags[TagOf[s]]
      BY <1>1, <2>1, <2>3, RunsAssumption DEF SerialRuns, TypeOK
    <3> QED
      BY <1>4, <3>1
  <2> QED
    BY <2>2, <2>3
<1>6. \A s \in Refs : SeedIsCurrent(s)'
  <2>1. UNCHANGED tags \/ \E r \in Refs : MoveTag(r)
    BY <1>1, NextMoves
  <2> QED
    BY <1>4, <1>5, <2>1
<1> QED
  BY <1>1, <1>2, <1>3, <1>6 DEF SeedInv

LEMMA InitSeed == Init => SeedInv
BY InitTyped DEF Init, SeedInv, SeedIsCurrent

LEMMA MoveTagKeeps ==
  ASSUME SeedInv, NEW r \in Refs, MoveTag(r), tags[TagOf[r]] # None
  PROVE  \A p \in Packages :
           Candidate(run[r])[p] =
             IF p \in Built(run[r]) THEN run[r].made[p] ELSE tags[TagOf[r]].rpms[p]
<1>1. run[r].seed = tags[TagOf[r]]
  BY DEF SeedInv, SeedIsCurrent, MoveTag
<1> QED
  BY <1>1 DEF Candidate, SeedRpms, Built

LEMMA StepKeepsPrevious ==
  ASSUME SeedInv, [Next]_vars
  PROVE  KeepPrevious
<1>1. CASE UNCHANGED tags
  BY <1>1 DEF KeepPrevious
<1>2. ASSUME NEW r \in Refs, MoveTag(r)
      PROVE  KeepPrevious
  <2> SUFFICES ASSUME NEW t \in Tags, tags[t] # None, tags'[t] # tags[t]
               PROVE  /\ TagOf[r] = t
                      /\ run[r] # None
                      /\ \A p \in Packages \ Built(run[r]) :
                           tags'[t].rpms[p] = tags[t].rpms[p]
    BY DEF KeepPrevious
  <2>1. /\ run[r] \in Runs /\ run[r] # None
        /\ tags' = [tags EXCEPT ![TagOf[r]] = ImageOf(run[r])]
    BY <1>2, MoveTagMoves DEF SeedInv
  <2>2. TagOf[r] = t
    BY <2>1 DEF SeedInv, TypeOK
  <2>3. tags'[t].rpms = Candidate(run[r])
    BY <2>1, <2>2, ImageOfType DEF SeedInv, TypeOK
  <2> QED
    BY <1>2, <2>1, <2>2, <2>3, MoveTagKeeps
<1> QED
  BY <1>1, <1>2, NextMoves DEF SeedInv

(* A move of a stream tag replaces what the run built and leaves the rest  *)
(* as it was, whichever builds and steps fail.                             *)
THEOREM PreviousBuildsKept ==
  ASSUME SerialRuns
  PROVE  Spec => KeepsPrevious
<1>1. Init => SeedInv
  BY InitSeed
<1>2. SeedInv /\ [Next]_vars => SeedInv'
  BY NextSeed
<1>3. SeedInv /\ [Next]_vars => [KeepPrevious]_vars
  BY StepKeepsPrevious
<1> QED
  BY <1>1, <1>2, <1>3, PTL DEF Spec, KeepsPrevious

-----------------------------------------------------------------------------
(* Runs and repository share one notion of RPMs and of installable. *)
LEMMA SameFactory ==
  /\ Repo!Contents = Contents
  /\ \A rpms : Repo!Installable(rpms) <=> Installable(rpms)
BY DEF Repo!Contents, Contents, Repo!Builds, Builds, Repo!Installable, Installable,
       Repo!LinksHold, LinksHold, Repo!VersionIn, VersionIn

LEMMA StreamsOpen == Init => Repo!Init
BY DEF Init, Repo!Init, Streams

LEMMA MoveTagIsRepoStep ==
  ASSUME SeedInv, VerifiedInv, NEW r \in Refs, MoveTag(r)
  PROVE  Repo!Open(TagOf[r]) \/ Repo!Replace(TagOf[r])
<1> DEFINE t == TagOf[r]
           rpms == Candidate(run[r])
           image == ImageOf(run[r])
<1>1. /\ t \in Tags /\ run[r] \in Runs /\ run[r] # None /\ run[r].phase = "attested"
      /\ tags' = [tags EXCEPT ![t] = image]
  BY RunsAssumption, MoveTagMoves DEF SeedInv
<1>2. rpms \in Contents /\ image \in Images /\ image # None /\ image.rpms = rpms
  BY <1>1, CandidateType, ImageOfType
<1>3. Installable(rpms)
  BY <1>1 DEF VerifiedInv, RunVerified
<1>4. tags[t] # None => \A p \in Packages : rpms[p] = None => tags[t].rpms[p] = None
  BY MoveTagKeeps DEF Built
<1> HIDE DEF t, image, rpms
<1>5. rpms # None
  BY <1>2, AbsenceAssumption
<1>6. tags \in [Tags -> Images \cup {None}]
  BY DEF SeedInv, TypeOK
<1>7. /\ Streams' \in [Tags -> Contents \cup {None}]
      /\ \A u \in Tags \ {t} : Streams'[u] = Streams[u]
      /\ Streams'[t] = rpms
  BY <1>1, <1>2, <1>6 DEF Streams, Images
<1>8. Repo!Moves(t)
  BY <1>3, <1>5, <1>7, SameFactory DEF Repo!Moves
<1>9. /\ Streams[t] = None => tags[t] = None
      /\ tags[t] # None => Streams[t] = tags[t].rpms
  BY <1>1, <1>6, AbsenceAssumption DEF Streams, Images
<1>10. CASE Streams[t] = None
  BY <1>8, <1>10 DEF Repo!Open, t
<1>11. CASE Streams[t] # None
  <2>1. tags[t] # None
    BY <1>1, <1>11 DEF Streams
  <2>2. \A p \in Packages : Streams'[t][p] = None => Streams[t][p] = None
    BY <1>4, <1>7, <1>9, <2>1
  <2> QED
    BY <1>8, <1>11, <2>2 DEF Repo!Replace, t
<1> QED
  BY <1>10, <1>11

(* The runs implement the published repository: a consumer who looks at a  *)
(* stream sees it move between installable contents and lose no recipe.    *)
THEOREM RunsImplementPublishedRepo ==
  ASSUME SerialRuns
  PROVE  Spec => RepoSpec
<1>1. Init => SeedInv /\ VerifiedInv /\ Repo!Init
  BY InitSeed, StreamsOpen, InitTyped DEF Init, VerifiedInv, ImageVerified, RunVerified
<1>2. SeedInv /\ VerifiedInv /\ [Next]_vars => SeedInv' /\ VerifiedInv'
  BY NextSeed, NextVerified
<1>3. SeedInv /\ VerifiedInv /\ [Next]_vars => [Repo!Next]_Streams
  <2> SUFFICES ASSUME SeedInv, VerifiedInv, [Next]_vars
               PROVE  [Repo!Next]_Streams
    OBVIOUS
  <2>1. CASE UNCHANGED tags
    BY <2>1 DEF Streams
  <2>2. ASSUME NEW r \in Refs, MoveTag(r)
        PROVE  Repo!Next
    <3>1. TagOf[r] \in Tags
      BY RunsAssumption
    <3> QED
      BY <2>2, <3>1, MoveTagIsRepoStep DEF Repo!Next
  <2> QED
    BY <2>1, <2>2, NextMoves DEF SeedInv
<1> QED
  BY <1>1, <1>2, <1>3, PTL DEF Spec, RepoSpec, Repo!Spec

-----------------------------------------------------------------------------
(* BuildInputsOrdered looks at builds made long ago.  It stays true since  *)
(* a build is made only when every earlier wave of the list is over, and   *)
(* is made again whenever one of an earlier wave is: no library of an      *)
(* earlier wave can appear after its consumers.                            *)
LinkedInOrder(x, p) ==
  \A q \in BuildRequires[p] :
    x.made[p].links[q] =
      IF x.made[q] # None /\ Wave[q] < Wave[p] THEN x.made[q].ver
      ELSE VersionIn(SeedRpms(x.seed), q)

Missing(x) == x.todo \cup x.failed

RunOrdered(x) ==
  x # None =>
    /\ Missing(x) \subseteq x.list /\ Built(x) \subseteq x.list
    /\ x.phase # "prepare" => x.list \subseteq Missing(x) \cup Built(x)
    /\ x.phase = "prepare" => x.list = {}
    /\ \A p \in Current(x) : LinkedInOrder(x, p)
    /\ \A p \in x.list \ x.todo : \A q \in x.todo : ~(Wave[q] < Wave[p])

OrderedInv ==
  /\ TypeOK
  /\ \A r \in Refs : /\ RunOrdered(run[r])
                     /\ RunOrdered(pending[r])
                     /\ RunOrdered(rerunnable[r])

LEMMA BuiltOneOrdered ==
  ASSUME NEW x \in Runs, x # None, RunOrdered(x), NEW y \in Runs, y.asked = x.asked,
         BuiltOne(x, y)
  PROVE  RunOrdered(y)
<1>1. PICK p \in Packages :
        /\ MayBuild(x, p)
        /\ y.todo = x.todo \ {p}
        /\ \/ y.made = [x.made EXCEPT ![p] = LinkedBuild(x, p)] /\ y.failed = x.failed
           \/ y.made = x.made /\ y.failed = x.failed \cup {p}
  BY DEF BuiltOne
<1>2. /\ y.phase = "build" /\ x.phase = "build" /\ y.seed = x.seed /\ y.list = x.list
      /\ p \in x.todo /\ \A q \in x.todo : ~(Wave[q] < Wave[p])
  BY <1>1 DEF BuiltOne, MayBuild
<1>3. /\ x.made \in [Packages -> Builds \cup {None}] /\ x.todo \subseteq Packages
      /\ x.list \subseteq Packages
      /\ y.made \in [Packages -> Builds \cup {None}]
  BY DEF Runs, Contents, Buildable
<1>4. \A q \in Packages : Wave[q] \in Nat /\ BuildRequires[q] \subseteq Packages
  BY FactoryAssumption
<1>5. /\ Missing(x) \subseteq x.list /\ Built(x) \subseteq x.list
      /\ x.list \subseteq Missing(x) \cup Built(x)
      /\ \A q \in x.list \ x.todo : \A s \in x.todo : ~(Wave[s] < Wave[q])
      /\ \A q \in Current(x) : LinkedInOrder(x, q)
  BY <1>2 DEF RunOrdered
<1>6. \A q \in y.list \ y.todo : \A s \in y.todo : ~(Wave[s] < Wave[q])
  BY <1>1, <1>2, <1>5
<1>7. \A q \in Packages \ {p} : y.made[q] = x.made[q]
  BY <1>1, <1>3
<1>8. \A q \in Packages : q # p /\ q \in Current(y) => q \in Current(x)
  BY <1>1, <1>7 DEF Current, Built
(* What p links is over, what links p comes later or was made without it.  *)
<1>9. ASSUME NEW q \in Current(y), q # p
      PROVE  LinkedInOrder(y, q)
  <2>1. q \in Packages /\ q \in Current(x) /\ q \in x.list /\ q \notin x.todo
    BY <1>5, <1>8, <1>9 DEF Current, Built
  <2>2. ~(Wave[p] < Wave[q])
    BY <1>2, <1>5, <2>1
  <2>3. LinkedInOrder(x, q) /\ y.made[q] = x.made[q]
    BY <1>5, <1>7, <1>9, <2>1
  <2>4. \A s \in BuildRequires[q] : Wave[s] < Wave[q] => y.made[s] = x.made[s]
    BY <1>4, <1>7, <2>1, <2>2
  <2> QED
    BY <1>2, <2>3, <2>4 DEF LinkedInOrder
<1>10. ASSUME p \in Current(y)
       PROVE  LinkedInOrder(y, p)
  <2>1. /\ y.made = [x.made EXCEPT ![p] = LinkedBuild(x, p)]
    BY <1>1, <1>10 DEF Current
  <2>2. y.made[p].links = BuildInput(x, p)
    BY <1>3, <2>1 DEF LinkedBuild
  <2>3. ASSUME NEW q \in BuildRequires[p]
        PROVE  y.made[p].links[q] =
                 IF y.made[q] # None /\ Wave[q] < Wave[p] THEN y.made[q].ver
                 ELSE VersionIn(SeedRpms(y.seed), q)
    <3>1. q \in Packages
      BY <1>4
    <3>2. y.made[p].links[q] =
            IF x.made[q] # None /\ Wave[q] < Wave[p] THEN x.made[q].ver
            ELSE VersionIn(SeedRpms(x.seed), q)
      BY <2>2, <3>1 DEF BuildInput, Admitted, VersionIn
    <3>3. Wave[q] < Wave[p] => y.made[q] = x.made[q]
      BY <1>4, <1>7, <3>1
    <3> QED
      BY <1>2, <3>2, <3>3
  <2> QED
    BY <2>3 DEF LinkedInOrder
<1>11. /\ Missing(y) \subseteq y.list /\ Built(y) \subseteq y.list
       /\ y.list \subseteq Missing(y) \cup Built(y)
  <2>1. y.made[p] # None \/ p \in y.failed
    <3>1. LinkedBuild(x, p) \in Builds
      BY BuildInputType DEF LinkedBuild, Builds, Runs, Requests, Recipes
    <3>2. LinkedBuild(x, p) # None
      BY <3>1, AbsenceAssumption
    <3> QED
      BY <1>1, <1>3, <3>2
  <2> QED
    BY <1>1, <1>2, <1>3, <1>5, <1>7, <2>1 DEF Missing, Built
<1> QED
  BY <1>2, <1>6, <1>9, <1>10, <1>11 DEF RunOrdered

LEMMA PreparedOrdered ==
  ASSUME NEW r \in Refs, NEW x \in Runs, x # None, RunOrdered(x), NEW y, Prepared(r, x, y)
  PROVE  RunOrdered(y)
<1>1. x.failed = {} /\ Built(x) = {}
  BY DEF Prepared, RunOrdered, Missing
<1>2. /\ y.phase = "build" /\ y.todo = y.list /\ y.failed = {}
      /\ Built(y) = {} /\ Current(y) = {}
  BY <1>1 DEF Prepared, Built, Current
<1> QED
  BY <1>2 DEF RunOrdered, Missing

LEMMA PublishedOnOrdered ==
  ASSUME NEW x, x # None, RunOrdered(x), NEW y, PublishedOn(x, y)
  PROVE  RunOrdered(y)
<1>1. x.phase # "prepare" /\ y.phase # "prepare"
  BY DEF PublishedOn, NextPhase
<1>2. /\ y.seed = x.seed /\ y.list = x.list /\ y.todo = x.todo
      /\ y.made = x.made /\ y.failed = x.failed
  BY DEF PublishedOn
<1> QED
  BY <1>1, <1>2 DEF RunOrdered, Missing, Built, Current, LinkedInOrder

LEMMA FailedJobsOrdered ==
  ASSUME NEW x \in Runs, x # None, RunOrdered(x)
  PROVE  RunOrdered(FailedJobs(x))
<1> DEFINE y == FailedJobs(x)
<1>1. /\ y.list = x.list /\ y.made = x.made /\ y.seed = x.seed /\ y.failed = {}
      /\ y.phase = "prepare" <=> x.phase = "prepare"
      /\ y.todo = {p \in x.list : \/ p \in x.todo \cup x.failed
                                  \/ \E q \in x.todo \cup x.failed : Wave[q] < Wave[p]}
  BY FailedJobsFields
<1> HIDE DEF y
<1>2. \A p \in Packages : Wave[p] \in Nat
  BY FactoryAssumption
<1>3. x.list \subseteq Packages /\ Missing(x) \subseteq Packages
  BY DEF Runs, Buildable, Missing
<1>4. Missing(x) \subseteq y.todo /\ y.todo \subseteq y.list /\ Missing(y) = y.todo
  BY <1>1 DEF RunOrdered, Missing
<1>5. Built(y) = Built(x) /\ Current(y) \subseteq Current(x)
  BY <1>1, <1>4 DEF Built, Current, Missing
<1>6. \A p \in y.list \ y.todo : \A q \in y.todo : ~(Wave[q] < Wave[p])
  <2> SUFFICES ASSUME NEW p \in y.list \ y.todo, NEW q \in y.todo, Wave[q] < Wave[p]
               PROVE  FALSE
    OBVIOUS
  <2>1. PICK s \in x.todo \cup x.failed : s = q \/ Wave[s] < Wave[q]
    BY <1>1
  <2>2. s \in Packages /\ p \in Packages /\ q \in Packages
    BY <1>1, <1>3 DEF Missing
  <2>3. Wave[s] < Wave[p]
    BY <1>2, <2>1, <2>2
  <2> QED
    BY <1>1, <2>1, <2>3
<1>7. \A p \in Current(y) : LinkedInOrder(y, p)
  BY <1>1, <1>5 DEF RunOrdered, LinkedInOrder
<1>8. RunOrdered(y)
  BY <1>1, <1>4, <1>5, <1>6, <1>7 DEF RunOrdered
<1> QED
  BY <1>8 DEF y

LEMMA NextOrdered ==
  ASSUME OrderedInv, [Next]_vars
  PROVE  OrderedInv'
<1>1. TypeOK /\ TypeOK' /\ Moves
  BY NextMoves DEF OrderedInv
<1>2. ASSUME NEW s \in Refs
      PROVE  /\ RunOrdered(run'[s])
             /\ RunOrdered(pending'[s])
             /\ RunOrdered(rerunnable'[s])
  <2>1. /\ RunMoves(s) /\ PendingMoves(s) /\ RerunnableMoves(s)
        /\ RunOrdered(run[s]) /\ RunOrdered(pending[s]) /\ RunOrdered(rerunnable[s])
        /\ run[s] # None => run[s] \in Runs
    BY <1>1 DEF Moves, OrderedInv, TypeOK
  <2>2. RunOrdered(None)
    BY DEF RunOrdered
  <2>3. ASSUME NEW q \in Requests
        PROVE  RunOrdered(NewRun(q))
    <3>1. Built(NewRun(q)) = {} /\ Current(NewRun(q)) = {} /\ Missing(NewRun(q)) = {}
      BY NewRunFields DEF Built, Current, Missing, NoRpms
    <3> QED
      BY <3>1, NewRunFields DEF RunOrdered
  <2>4. ASSUME run[s] # None, Worked(s, run[s], run'[s])
        PROVE  RunOrdered(run'[s])
    BY <2>1, <2>4, PreparedOrdered, BuiltOneOrdered, PublishedOnOrdered DEF Worked
  <2>5. RunOrdered(run'[s])
    BY <2>1, <2>2, <2>4 DEF RunMoves
  <2>6. RunOrdered(pending'[s])
    BY <2>1, <2>2, <2>3 DEF PendingMoves
  <2>7. RunOrdered(rerunnable'[s])
    BY <2>1, FailedJobsOrdered DEF RerunnableMoves
  <2> QED
    BY <2>5, <2>6, <2>7
<1> QED
  BY <1>1, <1>2 DEF OrderedInv, RunOrdered, Missing, Built, Current, LinkedInOrder

(* A build is linked against the run's builds of strictly earlier waves    *)
(* and the seed's copy of all else, however the jobs of its wave           *)
(* interleave, fail or are run again.                                      *)
THEOREM BuildsLinkInOrder == Spec => []BuildInputsOrdered
<1>1. Init => OrderedInv
  BY InitTyped DEF Init, OrderedInv, RunOrdered
<1>2. OrderedInv /\ [Next]_vars => OrderedInv'
  BY NextOrdered
<1>3. OrderedInv => BuildInputsOrdered
  BY FactoryAssumption
  DEF OrderedInv, RunOrdered, LinkedInOrder, BuildInputsOrdered, Current, Built
<1> QED
  BY <1>1, <1>2, <1>3, PTL DEF Spec

-----------------------------------------------------------------------------
(* GreenMeansPublished is about the last run of main alone.  It holds as   *)
(* every request there is one to publish all that changed, the newest one  *)
(* names the head, and the repository stands still while a run works; a    *)
(* request for one package or for a trial would break it, and so would a   *)
(* run of an older commit that is run again.                               *)
PlainRequests == SerialRuns /\ \A ask \in Asks : ask.only = {} /\ ask.publish

UpToDate(x, image) ==
  x # None =>
    /\ x.asked.only = {} /\ x.asked.publish
    /\ x.phase # "prepare" =>
         /\ x.seed = image
         /\ \A p \in Buildable : SeedState(image)[p] # x.asked.sha[p] => p \in x.list
    /\ x.phase \notin {"prepare", "build"} => x.todo = {}

NewestAsked ==
  /\ pending[Main] # None =>
       /\ pending[Main].asked.sha = head[Main]
       /\ pending[Main].asked.only = {} /\ pending[Main].asked.publish
  /\ pending[Main] = None /\ run[Main] # None => run[Main].asked.sha = head[Main]

GreenInv ==
  /\ SeedInv
  /\ OrderedInv
  /\ UpToDate(run[Main], tags[TagOf[Main]])
  /\ NewestAsked
  /\ GreenMeansPublished

(* What a step has to establish. *)
StillGreen ==
  /\ UpToDate(run[Main], tags[TagOf[Main]])
  /\ NewestAsked
  /\ GreenMeansPublished

(* A selection holds every recipe whose label is not its digest.           *)
LEMMA SelectsChanges ==
  ASSUME NEW state, NEW recipes \in Recipes, NEW full, NEW p \in Buildable,
         state[p] # recipes[p]
  PROVE  p \in Select(state, recipes, {}, full)
<1>1. p \in Changed(state, recipes, {}, full) /\ p \in Packages
  BY DEF Changed, Buildable
<1> QED
  BY <1>1 DEF Select, DragAlong

(* What a run on another ref does to the variables of main: nothing. *)
LEMMA OthersKeepMain ==
  ASSUME TypeOK, NEW r \in Refs, r # Main,
         \/ \E recipes \in Recipes : Push(r, recipes)
         \/ \E ask \in Asks : Dispatch(r, ask)
         \/ RunStep(r)
         \/ Fail(r)
         \/ Rerun(r)
  PROVE  /\ head'[Main] = head[Main] /\ pending'[Main] = pending[Main]
         /\ run'[Main] = run[Main] /\ verdict'[Main] = verdict[Main]
         /\ rerunnable'[Main] = rerunnable[Main]
<1>1. Main \in Refs
  BY RunsAssumption
<1>2. ASSUME NEW q, Join(r, q)
      PROVE  pending'[Main] = pending[Main] /\ rerunnable'[Main] = rerunnable[Main]
  BY <1>1, <1>2 DEF Join, TypeOK
<1>3. ASSUME NEW c, Conclude(r, c)
      PROVE  /\ run'[Main] = run[Main] /\ verdict'[Main] = verdict[Main]
             /\ rerunnable'[Main] = rerunnable[Main]
  BY <1>1, <1>3 DEF Conclude, TypeOK
<1>4. CASE (\E recipes \in Recipes : Push(r, recipes)) \/ (\E ask \in Asks : Dispatch(r, ask))
  BY <1>1, <1>2, <1>4 DEF Push, Dispatch, TypeOK
<1>5. CASE Start(r) \/ Rerun(r)
  BY <1>1, <1>5 DEF Start, Rerun, TypeOK
<1>6. CASE Prepare(r) \/ (\E p \in Packages : BuildPackage(r, p))
  BY <1>1, <1>3, <1>6 DEF Prepare, BuildPackage, TypeOK
<1>7. CASE SkipPublish(r) \/ NothingToPublish(r) \/ Resolve(r) \/ MoveTag(r) \/ Fail(r)
  BY <1>1, <1>3, <1>7 DEF SkipPublish, NothingToPublish, Resolve, MoveTag, Fail, TypeOK
<1>8. CASE SignMetadata(r) \/ PushImage(r) \/ Attest(r)
  BY <1>1, <1>8 DEF SignMetadata, PushImage, Attest, Sign, TypeOK
<1> QED
  BY <1>4, <1>5, <1>6, <1>7, <1>8 DEF RunStep

(* Nor does it move the tag of main, when no other branch has that tag. *)
MainAlone == \A r \in Refs : TagOf[r] = TagOf[Main] => r = Main

LEMMA OthersKeepTag ==
  ASSUME TypeOK, MainAlone, NEW r \in Refs, r # Main,
         \/ \E recipes \in Recipes : Push(r, recipes)
         \/ \E ask \in Asks : Dispatch(r, ask)
         \/ RunStep(r)
         \/ Fail(r)
         \/ Rerun(r)
  PROVE  tags'[TagOf[Main]] = tags[TagOf[Main]]
<1>1. CASE UNCHANGED tags
  BY <1>1
<1>2. CASE MoveTag(r)
  <2>1. tags' = [tags EXCEPT ![TagOf[r]] = ImageOf(run[r])]
    BY <1>2, MoveTagMoves
  <2> QED
    BY <2>1, RunsAssumption DEF MainAlone, TypeOK
<1> QED
  BY <1>1, <1>2
  DEF RunStep, Push, Dispatch, Start, Prepare, BuildPackage, SkipPublish,
      NothingToPublish, Resolve, SignMetadata, PushImage, Attest, Sign, Fail, Rerun

LEMMA OthersStayGreen ==
  ASSUME PlainRequests, GreenInv, NEW r \in Refs, r # Main,
         \/ \E recipes \in Recipes : Push(r, recipes)
         \/ \E ask \in Asks : Dispatch(r, ask)
         \/ RunStep(r)
         \/ Fail(r)
         \/ Rerun(r)
  PROVE  StillGreen'
<1>1. TypeOK /\ MainAlone
  BY RunsAssumption DEF GreenInv, SeedInv, PlainRequests, SerialRuns, MainAlone
<1>2. /\ head'[Main] = head[Main] /\ pending'[Main] = pending[Main]
      /\ run'[Main] = run[Main] /\ verdict'[Main] = verdict[Main]
      /\ tags'[TagOf[Main]] = tags[TagOf[Main]]
  BY <1>1, OthersKeepMain, OthersKeepTag
<1> QED
  BY <1>2
  DEF GreenInv, StillGreen, NewestAsked, GreenMeansPublished, Quiet, PublishedFromHead,
      UpToDate

LEMMA RequestStaysGreen ==
  ASSUME PlainRequests, GreenInv,
         \/ \E recipes \in Recipes : Push(Main, recipes)
         \/ \E ask \in Asks : Dispatch(Main, ask)
  PROVE  StillGreen'
<1>1. PICK q \in Requests :
        /\ Join(Main, q)
        /\ q.sha = head'[Main] /\ q.only = {} /\ q.publish
        /\ UNCHANGED <<run, tags>>
  <2>1. ASSUME NEW recipes \in Recipes, Push(Main, recipes)
        PROVE  /\ PushRequest(recipes) \in Requests /\ head'[Main] = recipes
               /\ Join(Main, PushRequest(recipes)) /\ UNCHANGED <<run, tags>>
    BY <2>1, RunsAssumption DEF PushRequest, Requests, Push, GreenInv, SeedInv, TypeOK
  <2>2. CASE \E recipes \in Recipes : Push(Main, recipes)
    BY <2>1, <2>2 DEF PushRequest
  <2>3. ASSUME NEW ask \in Asks, Dispatch(Main, ask)
        PROVE  \E q \in Requests :
                 /\ Join(Main, q)
                 /\ q.sha = head'[Main] /\ q.only = {} /\ q.publish
                 /\ UNCHANGED <<run, tags>>
    <3> DEFINE q == [sha |-> head[Main], only |-> ask.only, full |-> ask.full,
                     publish |-> ask.publish]
    <3>1. ask \in [only : SUBSET Packages, full : BOOLEAN, publish : BOOLEAN]
      BY RunsAssumption
    <3>2. ask.only = {} /\ ask.publish
      BY DEF PlainRequests
    <3>3. q \in Requests
      BY <3>1, RunsAssumption DEF Requests, GreenInv, SeedInv, TypeOK
    <3>4. q.sha = head'[Main] /\ q.only = {} /\ q.publish
      BY <2>3, <3>2 DEF Dispatch
    <3>5. Join(Main, q) /\ UNCHANGED <<run, tags>>
      BY <2>3 DEF Dispatch
    <3> QED
      BY <3>3, <3>4, <3>5
  <2> QED
    BY <2>2, <2>3
<1>2. pending'[Main] = NewRun(q)
  BY <1>1, RunsAssumption DEF Join, GreenInv, SeedInv, TypeOK
<1>3. NewRun(q) # None /\ NewRun(q).asked = q
  BY NewRunFields
<1> QED
  BY <1>1, <1>2, <1>3
  DEF GreenInv, StillGreen, NewestAsked, GreenMeansPublished, Quiet, UpToDate

LEMMA StartStaysGreen ==
  ASSUME PlainRequests, GreenInv, Start(Main)
  PROVE  StillGreen'
<1>1. /\ run'[Main] = pending[Main] /\ pending'[Main] = None
      /\ pending[Main] # None /\ head' = head /\ tags' = tags
      /\ pending[Main].phase = "prepare"
  BY RunsAssumption DEF Start, GreenInv, SeedInv, TypeOK
<1> QED
  BY <1>1
  DEF GreenInv, StillGreen, NewestAsked, UpToDate, GreenMeansPublished, Quiet

(* A run of main that goes on, or does not end green, leaves nothing to    *)
(* show but what it knows itself.                                          *)
LEMMA WorkStaysGreen ==
  ASSUME GreenInv, run[Main] # None,
         head'[Main] = head[Main], pending'[Main] = pending[Main],
         tags'[TagOf[Main]] = tags[TagOf[Main]],
         run'[Main] = None => verdict'[Main] # "green",
         run'[Main] # None => run'[Main].asked = run[Main].asked,
         UpToDate(run'[Main], tags[TagOf[Main]])
  PROVE  StillGreen'
<1>1. UpToDate(run[Main], tags[TagOf[Main]])'
  BY DEF UpToDate
<1>2. NewestAsked'
  BY DEF GreenInv, NewestAsked
<1> QED
  BY <1>1, <1>2 DEF StillGreen, GreenMeansPublished, Quiet

(* A working step keeps a run up to date. *)
LEMMA WorkedUpToDate ==
  ASSUME PlainRequests, NEW x \in Runs, x # None, NEW y,
         UpToDate(x, tags[TagOf[Main]]), Worked(Main, x, y)
  PROVE  UpToDate(y, tags[TagOf[Main]])
<1> DEFINE image == tags[TagOf[Main]]
<1>1. x.asked.only = {} /\ x.asked.publish /\ y.asked = x.asked /\ x.asked.sha \in Recipes
  BY DEF UpToDate, Worked, Runs, Requests
<1>2. CASE Prepared(Main, x, y)
  <2>1. y.seed = image
    BY <1>2 DEF Prepared, ResolvedImages, PlainRequests, SerialRuns
  <2>2. y.list = Select(SeedState(image), x.asked.sha, {}, x.asked.full)
    BY <1>1, <1>2, <2>1 DEF Prepared
  <2>3. \A p \in Buildable : SeedState(image)[p] # x.asked.sha[p] => p \in y.list
    BY <1>1, <2>2, SelectsChanges
  <2> QED
    BY <1>1, <1>2, <2>1, <2>3 DEF Prepared, UpToDate
<1>3. CASE BuiltOne(x, y)
  BY <1>1, <1>3 DEF BuiltOne, MayBuild, UpToDate
<1>4. CASE PublishedOn(x, y)
  BY <1>1, <1>4 DEF PublishedOn, NextPhase, UpToDate
<1> QED
  BY <1>2, <1>3, <1>4 DEF Worked

LEMMA PrepareStaysGreen ==
  ASSUME PlainRequests, GreenInv, Prepare(Main)
  PROVE  StillGreen'
<1> DEFINE image == tags[TagOf[Main]]
           asked == run[Main].asked
           list == Select(SeedState(image), asked.sha, {}, asked.full)
<1>1. /\ run[Main] \in Runs /\ run[Main] # None /\ Main \in Refs /\ TypeOK
      /\ UNCHANGED <<head, pending, tags>>
  BY RunsAssumption DEF Prepare, GreenInv, SeedInv, TypeOK
<1>2. asked.only = {} /\ asked.publish /\ asked.sha \in Recipes
  BY <1>1 DEF GreenInv, UpToDate, Runs, Requests
<1>3. CASE Conclude(Main, "green") /\ list = {}
  <2>1. run'[Main] = None /\ verdict'[Main] = "green"
    BY <1>1, <1>3 DEF Conclude, TypeOK
  <2>2. UpToDate(run[Main], tags[TagOf[Main]])' /\ NewestAsked'
    BY <1>1, <2>1 DEF UpToDate, NewestAsked, GreenInv
  <2>3. pending[Main] = None => asked.sha = head[Main]
    BY <1>1 DEF GreenInv, NewestAsked
  <2>4. \A p \in Buildable : SeedState(image)[p] = asked.sha[p]
    BY <1>2, <1>3, SelectsChanges
  <2>5. GreenMeansPublished'
    BY <1>1, <2>3, <2>4 DEF GreenMeansPublished, Quiet, PublishedFromHead, SeedState
  <2> QED
    BY <2>2, <2>5 DEF StillGreen
<1>4. CASE WorksOn(Main)
  <2>1. UpToDate(run'[Main], tags[TagOf[Main]])
    BY <1>1, <1>4, WorkedUpToDate DEF GreenInv, WorksOn
  <2> QED
    BY <1>1, <1>4, <2>1, WorkStaysGreen DEF WorksOn, Worked
<1>5. ResolvedImages(Main) = {image}
  BY DEF ResolvedImages, PlainRequests, SerialRuns
<1> QED
  BY <1>1, <1>2, <1>3, <1>4, <1>5, PrepareMoves

(* A run that works on without ending, or ends without being green. *)
LEMMA OwnStepStaysGreen ==
  ASSUME PlainRequests, GreenInv,
         \/ \E p \in Packages : BuildPackage(Main, p)
         \/ SkipPublish(Main)
         \/ NothingToPublish(Main)
         \/ Resolve(Main)
         \/ SignMetadata(Main) \/ PushImage(Main) \/ Attest(Main)
         \/ Fail(Main)
  PROVE  StillGreen'
<1>1. /\ run[Main] \in Runs /\ run[Main] # None /\ Main \in Refs /\ TypeOK
      /\ UpToDate(run[Main], tags[TagOf[Main]])
      /\ UNCHANGED <<head, pending, tags>>
  BY RunsAssumption
  DEF BuildPackage, SkipPublish, NothingToPublish, Resolve, BuildsEnded, SignMetadata,
      PushImage, Attest, Sign, Fail, GreenInv, SeedInv, TypeOK
<1>2. ~SkipPublish(Main)
  BY <1>1 DEF SkipPublish, BuildsEnded, UpToDate
<1>3. WorksOn(Main) \/ \E c \in {"refused", "red"} : Conclude(Main, c)
  BY <1>1, <1>2, BuildPackageMoves, ResolveMoves, SignMoves DEF NothingToPublish, Fail
<1>4. CASE WorksOn(Main)
  <2>1. UpToDate(run'[Main], tags[TagOf[Main]])
    BY <1>1, <1>4, WorkedUpToDate DEF WorksOn
  <2> QED
    BY <1>1, <1>4, <2>1, WorkStaysGreen DEF WorksOn, Worked
<1>5. CASE \E c \in {"refused", "red"} : Conclude(Main, c)
  <2>1. run'[Main] = None /\ verdict'[Main] # "green"
    BY <1>1, <1>5 DEF Conclude, TypeOK
  <2> QED
    BY <1>1, <2>1, WorkStaysGreen DEF UpToDate
<1> QED
  BY <1>3, <1>4, <1>5

LEMMA MoveStaysGreen ==
  ASSUME PlainRequests, GreenInv, MoveTag(Main)
  PROVE  StillGreen'
<1> DEFINE x == run[Main]
<1>1. /\ x \in Runs /\ x # None /\ x.phase = "attested" /\ TypeOK /\ Main \in Refs
      /\ run'[Main] = None
      /\ tags' = [tags EXCEPT ![TagOf[Main]] = ImageOf(x)]
      /\ RunOrdered(x) /\ UpToDate(x, tags[TagOf[Main]])
  BY MoveTagMoves, RunsAssumption DEF GreenInv, SeedInv, OrderedInv
<1>2. UNCHANGED <<head, pending>> /\ verdict'[Main] = Conclusion(x)
  BY <1>1 DEF MoveTag, Conclude, TypeOK
<1>3. tags'[TagOf[Main]] = ImageOf(x)
  BY <1>1, RunsAssumption DEF TypeOK
<1>4. UpToDate(run[Main], tags[TagOf[Main]])' /\ NewestAsked'
  BY <1>1, <1>2 DEF UpToDate, NewestAsked, GreenInv
<1>5. ASSUME pending[Main] = None, Conclusion(x) = "green", NEW p \in Buildable
      PROVE  CandidateState(x)[p] = head[Main][p]
  <2>1. x.asked.sha = head[Main] /\ x.failed = {} /\ x.todo = {}
    BY <1>1, <1>5 DEF GreenInv, NewestAsked, Conclusion, UpToDate
  <2>2. p \in x.list => x.made[p] # None
    BY <1>1, <2>1 DEF RunOrdered, Missing, Built
  <2>3. SeedState(x.seed)[p] # x.asked.sha[p] => p \in x.list
    BY <1>1, <1>5 DEF UpToDate
  <2> QED
    BY <2>1, <2>2, <2>3 DEF CandidateState, Buildable
<1>6. GreenMeansPublished'
  <2>1. SeedState(tags'[TagOf[Main]]) = CandidateState(x)
    BY <1>1, <1>3, ImageOfType DEF SeedState
  <2>2. SeedState(tags[TagOf[Main]])' = CandidateState(x)
    BY <2>1 DEF SeedState
  <2> QED
    BY <1>2, <1>5, <2>2 DEF GreenMeansPublished, Quiet, PublishedFromHead
<1> QED
  BY <1>4, <1>6 DEF StillGreen

LEMMA NextGreen ==
  ASSUME PlainRequests, GreenInv, [Next]_vars
  PROVE  GreenInv'
<1>1. SeedInv' /\ OrderedInv'
  BY NextSeed, NextOrdered DEF PlainRequests, GreenInv
<1>2. StillGreen'
  <2>1. CASE UNCHANGED vars
    BY <2>1
    DEF vars, GreenInv, StillGreen, NewestAsked, GreenMeansPublished, Quiet,
        PublishedFromHead, UpToDate
  <2>2. CASE Next
    <3> PICK r \in Refs :
          \/ \E recipes \in Recipes : Push(r, recipes)
          \/ \E ask \in Asks : Dispatch(r, ask)
          \/ RunStep(r)
          \/ Fail(r)
          \/ Rerun(r)
      BY <2>2 DEF Next
    <3>1. CASE r # Main
      BY <3>1, OthersStayGreen
    <3>2. CASE r = Main
      <4>1. ~Rerun(Main)
        BY RunsAssumption DEF Rerun, GreenInv, SeedInv
      <4> QED
        BY <3>2, <4>1, RequestStaysGreen, StartStaysGreen, PrepareStaysGreen,
           OwnStepStaysGreen, MoveStaysGreen DEF RunStep
    <3> QED
      BY <3>1, <3>2
  <2> QED
    BY <2>1, <2>2
<1> QED
  BY <1>1, <1>2 DEF GreenInv, StillGreen

(* With plain requests only, a quiet main whose last run is green has all  *)
(* of its head published, however many pending runs were replaced on the   *)
(* way and whichever builds and steps failed before.                       *)
THEOREM GreenIsPublished ==
  ASSUME PlainRequests
  PROVE  Spec => []GreenMeansPublished
<1>1. Init => GreenInv
  BY InitSeed, InitTyped, RunsAssumption
  DEF Init, GreenInv, OrderedInv, RunOrdered, UpToDate, NewestAsked, GreenMeansPublished
<1>2. GreenInv /\ [Next]_vars => GreenInv'
  BY NextGreen
<1>3. GreenInv => GreenMeansPublished
  BY DEF GreenInv
<1> QED
  BY <1>1, <1>2, <1>3, PTL DEF Spec

-----------------------------------------------------------------------------
(* NeverStale.  A consumer of what a run rebuilds is rebuilt with it, in a *)
(* later wave; so as long as no build is missing, everything that main     *)
(* publishes is linked against what it publishes.  That needs waves that   *)
(* follow the requirements, as the planner lays them when CentOS stands in *)
(* for none, and a tag of main that no other branch moves.                 *)
WavesFollowRequires ==
  \A p \in Packages : \A q \in BuildRequires[p] : Wave[q] < Wave[p]

Linked(rpms) == \A p \in Buildable : rpms[p] # None => LinksHold(rpms, p)

TakesAlong(list) ==
  \A q \in list : \A p \in Buildable : q \in BuildRequires[p] => p \in list

RunLinked(x) ==
  x # None =>
    /\ Linked(SeedRpms(x.seed))
    /\ x.phase # "prepare" => TakesAlong(x.list)
    /\ x.phase \notin {"prepare", "build"} => x.todo = {}

LinkInv ==
  /\ OrderedInv
  /\ Linked(SeedRpms(tags[TagOf[Main]]))
  /\ RunLinked(run[Main]) /\ RunLinked(pending[Main]) /\ RunLinked(rerunnable[Main])

LEMMA NothingLinked == Linked(SeedRpms(None)) /\ Linked(NoRpms)
BY DEF Linked, SeedRpms, NoRpms, Buildable

(* The rebuild plan takes the consumers along. *)
LEMMA SelectTakesAlong ==
  ASSUME NEW witness, NEW recipes, NEW only, NEW full
  PROVE  TakesAlong(Select(witness, recipes, only, full))
<1> DEFINE seeds == Changed(witness, recipes, only, full)
<1>1. SUFFICES ASSUME NEW q \in DragAlong(seeds), NEW p \in Buildable, q \in BuildRequires[p]
               PROVE  p \in DragAlong(seeds)
  BY DEF TakesAlong, Select
<1> HIDE DEF seeds
<1>2. ASSUME NEW S \in SUBSET Packages, seeds \subseteq S, FollowsConsumers(S)
      PROVE  p \in S
  <2>1. q \in S
    BY <1>1, <1>2 DEF DragAlong
  <2> QED
    BY <1>1, <1>2, <2>1 DEF FollowsConsumers
<1> QED
  BY <1>2 DEF DragAlong, Buildable

(* A run that built all of its list leaves a repository without a stale    *)
(* consumer: what was rebuilt was linked against the new copies, what was  *)
(* not requires nothing that was.                                          *)
LEMMA CandidateLinked ==
  ASSUME WavesFollowRequires, NEW x \in Runs, x # None, RunOrdered(x), RunLinked(x),
         x.phase \notin {"prepare", "build"}, x.failed = {}
  PROVE  Linked(Candidate(x))
<1> DEFINE c == Candidate(x)
           s == SeedRpms(x.seed)
<1>1. \A p \in Packages : c[p] = IF x.made[p] # None THEN x.made[p] ELSE s[p]
  BY DEF Candidate
<1>2. /\ \A p \in Packages : x.made[p] # None <=> p \in x.list
      /\ \A p \in x.list : LinkedInOrder(x, p)
  <2>1. x.todo = {} /\ x.list \subseteq Packages
    BY DEF RunLinked, Runs, Buildable
  <2> QED
    BY <2>1 DEF RunOrdered, Missing, Built, Current
<1>3. Linked(s) /\ TakesAlong(x.list)
  BY DEF RunLinked
<1>4. \A p \in Packages : BuildRequires[p] \subseteq Packages
  BY FactoryAssumption
<1>5. SUFFICES ASSUME NEW p \in Buildable, c[p] # None, NEW q \in BuildRequires[p]
               PROVE  c[p].links[q] = VersionIn(c, q)
  BY DEF Linked, LinksHold
<1>6. p \in Packages /\ q \in Packages
  BY <1>4 DEF Buildable
<1> HIDE DEF c, s
<1>7. CASE x.made[p] # None
  <2>1. x.made[p].links[q] =
          IF x.made[q] # None /\ Wave[q] < Wave[p] THEN x.made[q].ver ELSE VersionIn(s, q)
    BY <1>2, <1>6, <1>7 DEF LinkedInOrder, s
  <2>2. Wave[q] < Wave[p]
    BY <1>6 DEF WavesFollowRequires
  <2> QED
    BY <1>1, <1>6, <1>7, <2>1, <2>2 DEF VersionIn
<1>8. CASE x.made[p] = None
  <2>1. x.made[q] = None
    BY <1>2, <1>3, <1>6, <1>8 DEF TakesAlong
  <2>2. s[p] # None /\ s[p].links[q] = VersionIn(s, q)
    BY <1>1, <1>3, <1>5, <1>6, <1>8 DEF Linked, LinksHold
  <2> QED
    BY <1>1, <1>6, <1>8, <2>1, <2>2 DEF VersionIn
<1> QED
  BY <1>7, <1>8

(* What is new, what works on and what is run again stays linked.          *)
LEMMA NewRunLinked ==
  ASSUME NEW q \in Requests
  PROVE  RunLinked(NewRun(q))
BY NewRunFields, NothingLinked DEF RunLinked

LEMMA WorkedLinked ==
  ASSUME NEW x, x # None, RunLinked(x), Linked(SeedRpms(tags[TagOf[Main]])),
         NEW y, Worked(Main, x, y)
  PROVE  RunLinked(y)
<1>1. CASE Prepared(Main, x, y)
  <2>1. y.seed = None \/ y.seed = tags[TagOf[Main]]
    BY <1>1 DEF Prepared, ResolvedImages
  <2>2. Linked(SeedRpms(y.seed))
    BY <2>1, NothingLinked
  <2>3. TakesAlong(y.list)
    BY <1>1, SelectTakesAlong DEF Prepared
  <2> QED
    BY <1>1, <2>2, <2>3 DEF Prepared, RunLinked
<1>2. CASE BuiltOne(x, y)
  BY <1>2 DEF BuiltOne, MayBuild, RunLinked
<1>3. CASE PublishedOn(x, y)
  BY <1>3 DEF PublishedOn, NextPhase, RunLinked
<1> QED
  BY <1>1, <1>2, <1>3 DEF Worked

LEMMA FailedJobsLinked ==
  ASSUME NEW x \in Runs, x # None, RunLinked(x)
  PROVE  RunLinked(FailedJobs(x))
BY FailedJobsFields DEF RunLinked

LEMMA TagStaysLinked ==
  ASSUME WavesFollowRequires, MainAlone, LinkInv, [Next]_vars, verdict'[Main] # "red"
  PROVE  Linked(SeedRpms(tags'[TagOf[Main]]))
<1>1. /\ TypeOK /\ Main \in Refs /\ TagOf[Main] \in Tags
      /\ Linked(SeedRpms(tags[TagOf[Main]]))
  BY RunsAssumption DEF LinkInv, OrderedInv
<1>2. CASE UNCHANGED tags
  BY <1>1, <1>2
<1>3. CASE MoveTag(Main)
  <2>1. /\ run[Main] \in Runs /\ run[Main] # None /\ run[Main].phase = "attested"
        /\ tags'[TagOf[Main]] = ImageOf(run[Main])
    BY <1>1, <1>3, MoveTagMoves DEF TypeOK
  <2>2. run[Main].failed = {}
    BY <1>1, <1>3 DEF MoveTag, Conclude, Conclusion, TypeOK
  <2>3. Linked(Candidate(run[Main]))
    BY <1>1, <2>1, <2>2, CandidateLinked DEF LinkInv, OrderedInv
  <2> QED
    BY <2>1, <2>3, ImageOfType DEF SeedRpms
<1>4. ASSUME NEW r \in Refs, r # Main, MoveTag(r)
      PROVE  tags'[TagOf[Main]] = tags[TagOf[Main]]
  BY <1>1, <1>4, OthersKeepTag DEF RunStep
<1> QED
  BY <1>1, <1>2, <1>3, <1>4, NextMoves

LEMMA NextLinked ==
  ASSUME WavesFollowRequires, MainAlone, LinkInv, [Next]_vars, verdict'[Main] # "red"
  PROVE  LinkInv'
<1>1. OrderedInv'
  BY NextOrdered DEF LinkInv
<1>2. /\ RunMoves(Main) /\ PendingMoves(Main) /\ RerunnableMoves(Main)
      /\ Linked(SeedRpms(tags[TagOf[Main]]))
      /\ RunLinked(run[Main]) /\ RunLinked(pending[Main]) /\ RunLinked(rerunnable[Main])
      /\ run[Main] # None => run[Main] \in Runs
  BY NextMoves, RunsAssumption DEF LinkInv, OrderedInv, TypeOK, Moves
<1>3. RunLinked(None)
  BY DEF RunLinked
<1>4. RunLinked(run'[Main])
  BY <1>2, <1>3, WorkedLinked DEF RunMoves
<1>5. RunLinked(pending'[Main])
  BY <1>2, <1>3, NewRunLinked DEF PendingMoves
<1>6. RunLinked(rerunnable'[Main])
  BY <1>2, FailedJobsLinked DEF RerunnableMoves
<1>7. Linked(SeedRpms(tags'[TagOf[Main]]))
  BY TagStaysLinked
<1> QED
  BY <1>1, <1>4, <1>5, <1>6, <1>7 DEF LinkInv, RunLinked

(* While no run of main fails, nothing it publishes is linked against a    *)
(* copy of a library that the repository no longer has, whatever is        *)
(* dispatched, re-run or lost on a pull, on main and elsewhere: the        *)
(* selection by inputs is enough (rebuild_plan.py, select).                *)
THEOREM SuccessIsNeverStale ==
  ASSUME WavesFollowRequires, MainAlone
  PROVE  Spec => NeverStale
<1>1. Init => LinkInv
  BY InitTyped, NothingLinked, RunsAssumption
  DEF Init, LinkInv, OrderedInv, RunOrdered, RunLinked
<1>2. LinkInv /\ verdict'[Main] # "red" /\ [Next]_vars => LinkInv'
  BY NextLinked
<1>3. LinkInv => NoStaleConsumer
  BY DEF LinkInv, Linked, NoStaleConsumer, Published
<1>4. Init /\ [][Next]_vars /\ [](verdict[Main] # "red") => []LinkInv
  <2> DEFINE Sound == verdict[Main] # "red"
  <2>1. LinkInv /\ Sound' /\ [Next]_vars => LinkInv'
    BY <1>2
  <2> HIDE DEF Sound
  <2>2. Init /\ [][Next]_vars /\ []Sound => []LinkInv
    BY <1>1, <2>1, PTL
  <2> QED
    BY <2>2 DEF Sound
<1> QED
  BY <1>3, <1>4, PTL DEF Spec, NeverStale, NoRunFails

-----------------------------------------------------------------------------
(* Why a run ends.  What is left of it, as a number: its phases to come    *)
(* and, while it builds, the recipes it has still to do.                   *)
StepsLeft(x) ==
  IF x = None THEN 0
  ELSE CASE x.phase = "prepare" -> Cardinality(Packages) + 6
         [] x.phase = "build" -> Cardinality(x.todo) + 5
         [] x.phase = "resolved" -> 4
         [] x.phase = "sealed" -> 3
         [] x.phase = "pushed" -> 2
         [] OTHER -> 1

(* Whatever changes a run in flight, its own steps, a failure or somebody  *)
(* who cancels it, leaves less of it.                                      *)
RunsGetShorter ==
  \A r \in Refs : run[r] # None /\ run'[r] # run[r] =>
    StepsLeft(run'[r]) < StepsLeft(run[r])

LEMMA TodoCounted ==
  ASSUME IsFiniteSet(Packages), NEW x \in Runs
  PROVE  /\ IsFiniteSet(x.todo)
         /\ Cardinality(Packages) \in Nat
         /\ Cardinality(x.todo) \in 0..Cardinality(Packages)
<1>1. x.todo \in SUBSET Packages
  BY DEF Runs, Buildable
<1>2. IsFiniteSet(x.todo) /\ Cardinality(x.todo) <= Cardinality(Packages)
  BY <1>1, FS_Subset
<1> QED
  BY <1>2, FS_CardinalityType

LEMMA StepsLeftTyped ==
  ASSUME IsFiniteSet(Packages), NEW x \in Runs \cup {None}
  PROVE  /\ StepsLeft(x) \in 0..Cardinality(Packages) + 6
         /\ x # None => StepsLeft(x) > 0
<1>1. CASE x = None
  <2>1. Cardinality(Packages) \in Nat
    BY FS_CardinalityType
  <2> QED
    BY <1>1, <2>1 DEF StepsLeft
<1>2. CASE x # None
  <2>1. /\ Cardinality(Packages) \in Nat
        /\ Cardinality(x.todo) \in 0..Cardinality(Packages)
    BY <1>2, TodoCounted
  <2> QED
    BY <1>2, <2>1 DEF StepsLeft
<1> QED
  BY <1>1, <1>2

LEMMA WorkShortens ==
  ASSUME IsFiniteSet(Packages), NEW r \in Refs, NEW x \in Runs, x # None,
         NEW y, y # None, Worked(r, x, y)
  PROVE  StepsLeft(y) < StepsLeft(x)
<1>1. /\ y \in Runs /\ IsFiniteSet(x.todo)
      /\ Cardinality(Packages) \in Nat
      /\ Cardinality(x.todo) \in 0..Cardinality(Packages)
      /\ Cardinality(y.todo) \in 0..Cardinality(Packages)
  BY TodoCounted DEF Worked
<1>2. CASE Prepared(r, x, y)
  BY <1>1, <1>2 DEF Prepared, StepsLeft
<1>3. CASE BuiltOne(x, y)
  <2>1. PICK p \in x.todo : y.todo = x.todo \ {p} /\ x.phase = "build" /\ y.phase = "build"
    BY <1>3 DEF BuiltOne, MayBuild
  <2>2. Cardinality(y.todo) = Cardinality(x.todo) - 1
    BY <1>1, <2>1, FS_RemoveElement
  <2> QED
    BY <1>1, <2>1, <2>2 DEF StepsLeft
<1>4. CASE PublishedOn(x, y)
  BY <1>1, <1>4 DEF PublishedOn, NextPhase, StepsLeft
<1> QED
  BY <1>2, <1>3, <1>4 DEF Worked

LEMMA NextShortens ==
  ASSUME IsFiniteSet(Packages), TypeOK, [Next]_vars
  PROVE  RunsGetShorter
<1>1. Moves /\ run \in [Refs -> Runs \cup {None}]
  BY NextMoves DEF TypeOK
<1>2. SUFFICES ASSUME NEW r \in Refs, run[r] # None, run'[r] # run[r]
               PROVE  StepsLeft(run'[r]) < StepsLeft(run[r])
  BY DEF RunsGetShorter
<1>3. run[r] \in Runs /\ RunMoves(r)
  BY <1>1, <1>2 DEF Moves
<1>4. CASE run'[r] = None
  <2>1. StepsLeft(run[r]) \in Nat /\ StepsLeft(run[r]) > 0
    BY <1>2, <1>3, StepsLeftTyped, FS_CardinalityType
  <2>2. StepsLeft(run'[r]) = 0
    BY <1>4 DEF StepsLeft
  <2> QED
    BY <2>1, <2>2
<1>5. CASE run'[r] # None
  BY <1>2, <1>3, <1>5, WorkShortens DEF RunMoves
<1> QED
  BY <1>4, <1>5

(* Every run of a finite inventory ends: it has at most six steps more     *)
(* than there are recipes, and whatever changes it leaves fewer, for any   *)
(* waves, faults and dispatches (factory-build.yml, its chain of jobs).    *)
THEOREM RunsEnd ==
  ASSUME IsFiniteSet(Packages)
  PROVE  Spec => /\ [](\A r \in Refs : StepsLeft(run[r]) \in 0..Cardinality(Packages) + 6)
                 /\ [][RunsGetShorter]_vars
<1>1. TypeOK => \A r \in Refs : StepsLeft(run[r]) \in 0..Cardinality(Packages) + 6
  BY StepsLeftTyped DEF TypeOK
<1>2. TypeOK /\ [Next]_vars => [RunsGetShorter]_vars
  BY NextShortens
<1> QED
  BY <1>1, <1>2, RunsTypeCorrect, PTL DEF Spec

(* Nor does a run wait for itself: while recipes are left to build, there  *)
(* is one whose earlier waves are all over.                                *)
SomeCanBuild ==
  \A r \in Refs : run[r] # None /\ run[r].phase = "build" /\ run[r].todo # {} =>
    \E p \in Packages : MayBuild(run[r], p)

(* The wave jobs of factory-build.yml never wait for each other in a ring, *)
(* nor do those of a run that is run again.                                *)
THEOREM NoWaveIsStuck == Spec => []SomeCanBuild
<1>1. TypeOK => SomeCanBuild
  <2> SUFFICES ASSUME NEW x \in Runs, x.phase = "build", x.todo # {}
               PROVE  \E p \in Packages : MayBuild(x, p)
    BY DEF TypeOK, SomeCanBuild
  <2>1. x.todo \subseteq Packages
    BY DEF Runs, Buildable
  <2>2. \A p \in Packages : Wave[p] \in Nat
    BY FactoryAssumption
  <2> DEFINE Waves == {Wave[p] : p \in x.todo}
             R == OpToRel(<, Nat)
  <2>3. Waves \subseteq Nat /\ Waves # {}
    BY <2>1, <2>2
  <2>4. PICK n \in Waves : \A m \in Waves : <<m, n>> \notin R
    <3>1. IsWellFoundedOn(R, Nat)
      BY NatLessThanWellFounded
    <3> HIDE DEF R, Waves
    <3> QED
      BY <2>3, <3>1, WFMin
  <2>5. \A m \in Waves : ~(m < n)
    BY <2>3, <2>4 DEF OpToRel
  <2>6. PICK p \in x.todo : n = Wave[p]
    OBVIOUS
  <2>7. MayBuild(x, p)
    BY <2>5, <2>6 DEF MayBuild
  <2> QED
    BY <2>1, <2>7
<1> QED
  BY <1>1, RunsTypeCorrect, PTL
=============================================================================
