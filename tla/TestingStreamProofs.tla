------------------------ MODULE TestingStreamProofs ------------------------
(***************************************************************************)
(* Proofs about the testing stream, for every number of commits, every     *)
(* set of faults and head branches, with and without merge groups.         *)
(***************************************************************************)
EXTENDS TestingStream, TLAPS

-----------------------------------------------------------------------------
(* The concurrency groups are distinct, and so are the NVIDIA ones. *)
LEMMA LaneFacts ==
  /\ Regular \in PushLanes
  /\ PushLanes \subseteq Lanes
  /\ \A a \in Architectures : ArchLane(a) \in PushLanes /\ ArchLane(a) # Regular
  /\ \A a, b \in Architectures : ArchLane(a) = ArchLane(b) => a = b
  /\ \A c \in Commits : QueueLane(c) \in Lanes /\ QueueLane(c) \notin PushLanes
<1>1. \A c \in Commits : c # 0
  BY CommitsAssumption DEF Commits
<1> QED
  BY <1>1 DEF Regular, PushLanes, Lanes, ArchLane, ArchLanes, QueueLane, Architectures

LEMMA RunFacts ==
  /\ IdleRun \in Runs /\ IdleRun.phase = "idle"
  /\ \A c \in Commits : NewRun(c) \in Runs /\ NewRun(c).phase = "build" /\ NewRun(c).commit = c
  /\ \A x \in Runs, p \in Phases : [x EXCEPT !.phase = p] \in Runs
  /\ \A x \in Runs, p \in Phases, s \in SUBSET Architectures :
       [x EXCEPT !.phase = p, !.archs = s] \in Runs
  /\ \A x \in Runs, b \in BOOLEAN : [x EXCEPT !.stopped = b] \in Runs
<1>1. 0 \in 0..MaxCommits /\ \A c \in Commits : c \in 0..MaxCommits
  BY CommitsAssumption DEF Commits
<1>2. IdleRun \in Runs
  BY <1>1 DEF IdleRun, Runs, Phases
<1>3. \A c \in Commits : NewRun(c) \in Runs /\ NewRun(c).phase = "build" /\ NewRun(c).commit = c
  BY <1>1 DEF IdleRun, NewRun, Runs, Phases
<1>4. \A x \in Runs, p \in Phases : [x EXCEPT !.phase = p] \in Runs
  BY DEF Runs
<1>5. \A x \in Runs, p \in Phases, s \in SUBSET Architectures :
        [x EXCEPT !.phase = p, !.archs = s] \in Runs
  BY DEF Runs
<1>6. \A x \in Runs, b \in BOOLEAN : [x EXCEPT !.stopped = b] \in Runs
  BY DEF Runs
<1> QED
  BY <1>2, <1>3, <1>4, <1>5, <1>6 DEF IdleRun

LEMMA StepToType ==
  ASSUME NEW l \in Lanes, NEW p \in Phases, run \in [Lanes -> Runs], StepTo(l, p)
  PROVE  /\ run' \in [Lanes -> Runs]
         /\ \A k \in Lanes \ {l} : run'[k] = run[k]
         /\ p = "idle" => run'[l] = IdleRun
         /\ p # "idle" => run'[l] = [run[l] EXCEPT !.phase = p]
BY RunFacts DEF StepTo

(* An assembly moves on, or the manifest run waiting behind it begins. *)
LEMMA AssemblyTypes ==
  ASSUME TypeOK, NEW c \in Commits
  PROVE  /\ \A p \in AssemblyPhases : AssemblyTo(c, p) =>
              /\ assembly' \in [Commits -> AssemblyPhases]
              /\ pending' \in [Commits -> Conclusions \cup {NoTrigger}]
         /\ EndAssembly(c) =>
              /\ assembly' \in [Commits -> AssemblyPhases]
              /\ pending' \in [Commits -> Conclusions \cup {NoTrigger}]
BY DEF TypeOK, AssemblyTo, EndAssembly, Begin, AssemblyPhases

LEMMA DispatchType ==
  ASSUME TypeOK, NEW v \in Variants, NEW i \in Digests, NEW c \in 0..MaxCommits
  PROVE  DispatchOn(v, i, c) => tests' \subseteq Tests
<1>1. [variant |-> v, commit |-> c, expects |-> i, phase |-> "asked", digest |-> NoIndex] \in Tests
  BY DEF Tests, TestPhases, Digests
<1> QED
  BY <1>1 DEF TypeOK, TestsTyped, DispatchOn

-----------------------------------------------------------------------------
LEMMA InitTypeOK == Init => TypeOK
<1> SUFFICES ASSUME Init PROVE TypeOK
  OBVIOUS
<1>1. run \in [Lanes -> Runs]
  BY RunFacts DEF Init
<1>2. waiting \in [PushLanes -> 0..head] /\ 0 \in 0..MaxCommits /\ 0 \in 0..MaxReruns
  BY CommitsAssumption, StreamAssumption DEF Init, NoTests
<1>3. testing \in [Variants -> Digests]
  BY DEF Init, NoTests, Digests
<1> QED
  BY <1>1, <1>2, <1>3 DEF Init, NoTests, TypeOK, TestsTyped, AssemblyPhases

(* A push stops the builds under way and asks for new ones. *)
LEMMA PushTypeOK ==
  ASSUME TypeOK, PushImage \/ PushDocs
  PROVE  TypeOK'
<1>1. head \in 0..MaxCommits /\ head' = head + 1 /\ head' \in 0..MaxCommits
  BY CommitsAssumption DEF TypeOK, TestsTyped, PushImage, PushDocs
<1>2. changes' \subseteq 1..head' /\ queued' \subseteq 1..head'
  BY <1>1 DEF TypeOK, PushImage, PushDocs, buildVars
<1>3. run' \in [Lanes -> Runs]
  <2>1. CASE PushDocs
    BY <2>1 DEF PushDocs, TypeOK, buildVars
  <2>2. CASE PushImage
    <3>1. run \in [Lanes -> Runs]
      BY DEF TypeOK
    <3>2. \A l \in Lanes :
            [run[l] EXCEPT !.stopped =
               run[l].phase = "build" /\ (run[l].stopped \/ l \in PushLanes)] \in Runs
      BY <3>1 DEF Runs
    <3> QED
      BY <2>2, <3>2 DEF PushImage
  <2> QED
    BY <2>1, <2>2
<1>4. waiting' \in [PushLanes -> 0..head']
  <2>1. CASE PushDocs
    BY <1>1, <2>1 DEF PushDocs, TypeOK, buildVars
  <2>2. CASE PushImage
    BY <1>1, <2>2 DEF PushImage
  <2> QED
    BY <2>1, <2>2
<1> QED
  BY <1>1, <1>2, <1>3, <1>4
  DEF PushImage, PushDocs, TypeOK, TestsTyped, buildVars, assemblyVars, testVars

(* A build of a commit that was pushed is asked for again, or begins. *)
LEMMA BeginBuildTypeOK ==
  ASSUME TypeOK,
         \A a \in Architectures, c \in Commits : outcome[a][c] = "failure" => c \in 1..head,
         \/ \E l \in PushLanes : StartBuild(l)
         \/ \E c \in Commits : MergeGroup(c)
         \/ \E a \in Architectures, c \in Commits : RerunArchBuild(a, c)
  PROVE  TypeOK'
<1>1. ASSUME NEW l \in PushLanes, StartBuild(l) PROVE TypeOK'
  <2>1. waiting[l] \in Commits /\ head \in 0..MaxCommits
    BY <1>1, CommitsAssumption DEF StartBuild, TypeOK, TestsTyped, Commits
  <2>2. run' \in [Lanes -> Runs]
    BY <1>1, <2>1, LaneFacts, RunFacts DEF StartBuild, TypeOK
  <2>3. waiting' \in [PushLanes -> 0..head']
    BY <1>1, <2>1 DEF StartBuild, TypeOK
  <2> QED
    BY <1>1, <2>2, <2>3 DEF StartBuild, TypeOK, TestsTyped, assemblyVars, testVars
<1>2. ASSUME NEW c \in Commits, MergeGroup(c) PROVE TypeOK'
  <2>1. c \in 1..head
    BY <1>2, CommitsAssumption DEF MergeGroup, TypeOK, TestsTyped, Commits
  <2> QED
    BY <1>2, <2>1, LaneFacts, RunFacts
    DEF MergeGroup, TypeOK, TestsTyped, assemblyVars, testVars
<1>3. ASSUME NEW a \in Architectures, NEW c \in Commits, RerunArchBuild(a, c) PROVE TypeOK'
  <2>1. reruns' \in 0..MaxReruns
    <3>1. reruns \in 0..MaxReruns /\ reruns < MaxReruns /\ reruns' = reruns + 1
      BY <1>3 DEF RerunArchBuild, TypeOK
    <3> QED
      BY <3>1, StreamAssumption
  <2>2. outcome' \in [Builds -> [Commits -> Conclusions \cup {NoTrigger}]]
    BY <1>3 DEF RerunArchBuild, TypeOK, Builds
  <2>3. run' \in [Lanes -> Runs] /\ waiting' \in [PushLanes -> 0..head']
    <3>1. ArchLane(a) \in Lanes /\ ArchLane(a) \in PushLanes
      BY LaneFacts
    <3>2. c \in 0..head /\ head' = head
      BY <1>3, CommitsAssumption DEF RerunArchBuild, TypeOK, TestsTyped
    <3>3. run[ArchLane(a)] \in Runs
      BY <3>1 DEF TypeOK
    <3>4. (run[ArchLane(a)].phase = "build") \in BOOLEAN
      OBVIOUS
    <3>5. [run[ArchLane(a)] EXCEPT !.stopped = run[ArchLane(a)].phase = "build"] \in Runs
      BY <3>3, <3>4, RunFacts
    <3> QED
      BY <1>3, <3>1, <3>2, <3>5 DEF RerunArchBuild, TypeOK
  <2> QED
    BY <1>3, <2>1, <2>2, <2>3 DEF RerunArchBuild, TypeOK, TestsTyped, assemblyVars, testVars
<1> QED
  BY <1>1, <1>2, <1>3

(* A build ends; an index is published, checked and signed, or its job     *)
(* fails.                                                                  *)
LEMMA RegularTypeOK ==
  ASSUME TypeOK, NEW l \in Lanes, run[l].phase # "idle" => run[l].commit \in 1..head,
         \/ \E archs \in SUBSET Architectures, conclusion \in Conclusions :
              EndBuild(l, archs, conclusion)
         \/ PublishManifest(l) \/ VerifyManifest(l) \/ SignManifest(l)
         \/ FailPublishing(l)
  PROVE  TypeOK'
<1>1. run[l] \in Runs /\ run[l].archs \in SUBSET Architectures
  BY DEF TypeOK, Runs
<1>2. run[l].phase # "idle" => run[l].commit \in Commits /\ IndexBuilt(l) \in Indexes
  BY <1>1, CommitsAssumption DEF TypeOK, TestsTyped, Commits, IndexBuilt, Indexes
<1>3. \A p \in Phases : StepTo(l, p) => run' \in [Lanes -> Runs]
  BY StepToType DEF TypeOK
<1>4. Uranium \in Variants /\ Uranium \in Builds
  BY DEF Variants, Builds
<1>5. ASSUME NEW archs \in SUBSET Architectures, NEW conclusion \in Conclusions,
             EndBuild(l, archs, conclusion)
      PROVE  TypeOK'
  <2>1. run' \in [Lanes -> Runs]
    BY <1>1, <1>5, RunFacts DEF EndBuild, TypeOK, Phases
  <2>2. run[l].commit \in Commits
    BY <1>2, <1>5 DEF EndBuild
  <2>3. outcome' \in [Builds -> [Commits -> Conclusions \cup {NoTrigger}]]
    BY <1>4, <1>5, <2>2 DEF EndBuild, TypeOK
  <2>4. red' \subseteq Variants \X Commits
    <3>1. red' = red \/ red' = red \cup {<<Uranium, run[l].commit>>}
      BY <1>5 DEF EndBuild
    <3> QED
      BY <1>4, <2>2, <3>1 DEF TypeOK
  <2> QED
    BY <1>5, <2>1, <2>3, <2>4 DEF EndBuild, TypeOK, TestsTyped, assemblyVars, testVars
<1>6. ASSUME PublishManifest(l) PROVE TypeOK'
  <2>1. testing' \in [Variants -> Digests]
    BY <1>2, <1>4, <1>6 DEF PublishManifest, TypeOK, TestsTyped, Digests
  <2> QED
    BY <1>3, <1>6, <2>1 DEF PublishManifest, TypeOK, TestsTyped, Phases, assemblyVars, testVars
<1>7. ASSUME VerifyManifest(l) PROVE TypeOK'
  <2>1. run' \in [Lanes -> Runs]
    BY <1>3, <1>7 DEF VerifyManifest, Phases
  <2>2. red' \subseteq Variants \X Commits
    <3>1. red' = red \/ red' = red \cup {<<Uranium, run[l].commit>>}
      BY <1>7 DEF VerifyManifest
    <3>2. run[l].commit \in Commits
      BY <1>2, <1>7 DEF VerifyManifest
    <3> QED
      BY <1>4, <3>1, <3>2 DEF TypeOK
  <2> QED
    BY <1>7, <2>1, <2>2 DEF VerifyManifest, TypeOK, TestsTyped, assemblyVars, testVars
<1>8. ASSUME SignManifest(l) PROVE TypeOK'
  <2>1. run' \in [Lanes -> Runs]
    BY <1>3, <1>8 DEF SignManifest, Phases
  <2>2. signed' \subseteq Variants \X Indexes
    BY <1>2, <1>4, <1>8 DEF SignManifest, TypeOK
  <2> QED
    BY <1>8, <2>1, <2>2 DEF SignManifest, TypeOK, TestsTyped, assemblyVars, testVars
<1>9. ASSUME FailPublishing(l) PROVE TypeOK'
  <2>1. run' \in [Lanes -> Runs]
    BY <1>3, <1>9 DEF FailPublishing, Phases
  <2>2. red' \subseteq Variants \X Commits
    BY <1>2, <1>4, <1>9 DEF FailPublishing, TypeOK
  <2> QED
    BY <1>9, <2>1, <2>2 DEF FailPublishing, TypeOK, TestsTyped, assemblyVars, testVars
<1> QED
  BY <1>5, <1>6, <1>7, <1>8, <1>9

LEMMA TriggerTypeOK ==
  ASSUME TypeOK, run[Regular].phase # "idle" => run[Regular].commit \in 1..head,
         TriggerPostTesting
  PROVE  TypeOK'
<1>1. run' \in [Lanes -> Runs]
  BY StepToType, LaneFacts DEF TypeOK, TriggerPostTesting, Phases
<1>2. IndexBuilt(Regular) \in Digests /\ head \in 0..MaxCommits
  BY LaneFacts, CommitsAssumption
  DEF TypeOK, TestsTyped, TriggerPostTesting, IndexBuilt, Digests, Indexes, Commits, Runs
<1>3. tests' \subseteq Tests
  BY <1>2, DispatchType DEF TriggerPostTesting, Dispatch, Variants
<1> QED
  BY <1>1, <1>3 DEF TriggerPostTesting, TypeOK, TestsTyped, assemblyVars

(* An NVIDIA build ends and the workflow_run event is raised. *)
LEMMA EndArchBuildTypeOK ==
  ASSUME TypeOK, NEW a \in Architectures, NEW conclusion \in Conclusions,
         EndArchBuild(a, conclusion),
         run[ArchLane(a)].commit \in Commits
  PROVE  TypeOK'
<1>1. run' \in [Lanes -> Runs]
  BY StepToType, LaneFacts DEF TypeOK, EndArchBuild, Phases
<1>2. outcome' \in [Builds -> [Commits -> Conclusions \cup {NoTrigger}]]
  BY DEF EndArchBuild, TypeOK, Builds
<1>3. Begin(conclusion) \in AssemblyPhases
  BY DEF Begin, AssemblyPhases
<1>4. /\ assembly' \in [Commits -> AssemblyPhases]
      /\ pending' \in [Commits -> Conclusions \cup {NoTrigger}]
  BY <1>3 DEF EndArchBuild, Completed, AskForAssembly, TypeOK
<1> QED
  BY <1>1, <1>2, <1>4 DEF EndArchBuild, TypeOK, TestsTyped, testVars

(* The steps of a manifest run. *)
LEMMA AssemblyTypeOK ==
  ASSUME TypeOK, NEW c \in Commits, AssemblyStep(c)
  PROVE  TypeOK'
<1>1. \A p \in AssemblyPhases : AssemblyTo(c, p) =>
        /\ assembly' \in [Commits -> AssemblyPhases]
        /\ pending' \in [Commits -> Conclusions \cup {NoTrigger}]
  BY AssemblyTypes
<1>2. EndAssembly(c) =>
        /\ assembly' \in [Commits -> AssemblyPhases]
        /\ pending' \in [Commits -> Conclusions \cup {NoTrigger}]
  BY AssemblyTypes
<1>3. /\ Nvidia \in Variants
      /\ IndexOf(c) \in Indexes /\ IndexOf(c) \in Digests
      /\ [commit |-> c, archs |-> Succeeded(c)] \in Digests
  BY DEF Variants, IndexOf, Indexes, Digests, Succeeded
<1>4. CASE FindRuns(c)
  BY <1>1, <1>2, <1>4
  DEF FindRuns, AssemblyPhases, TypeOK, TestsTyped, buildVars, testVars
<1>5. CASE PublishNvidia(c)
  BY <1>1, <1>3, <1>5
  DEF PublishNvidia, AssemblyPhases, TypeOK, TestsTyped, buildVars, testVars
<1>6. CASE VerifyNvidia(c)
  BY <1>1, <1>6
  DEF VerifyNvidia, AssemblyPhases, TypeOK, TestsTyped, buildVars, testVars
<1>7. CASE SignNvidia(c)
  BY <1>1, <1>3, <1>7
  DEF SignNvidia, AssemblyPhases, TypeOK, TestsTyped, buildVars, testVars
<1>8. ASSUME NEW branch \in HeadBranches, TriggerNvidia(c, branch) PROVE TypeOK'
  <2>1. head \in 0..MaxCommits /\ 0 \in 0..MaxCommits
    BY CommitsAssumption DEF TypeOK, TestsTyped
  <2>2. tests' \subseteq Tests
    BY <1>3, <1>8, <2>1, DispatchType DEF TriggerNvidia
  <2> QED
    BY <1>2, <1>8, <2>2 DEF TriggerNvidia, TypeOK, TestsTyped, buildVars
<1>9. CASE FailAssembly(c)
  BY <1>2, <1>3, <1>9 DEF FailAssembly, TypeOK, TestsTyped, buildVars, testVars
<1> QED
  BY <1>4, <1>5, <1>6, <1>7, <1>8, <1>9 DEF AssemblyStep

(* A test goes on with the same digest asked for, or is over and recorded  *)
(* at most once.                                                           *)
LEMMA TestMoves ==
  ASSUME NEW t \in Tests, Proceed(t) \/ Finish(t)
  PROVE  \/ /\ t.phase = "asked" /\ Resolves(t)
            /\ ReplaceBy(t, [t EXCEPT !.phase = "resolved", !.digest = testing[t.variant]])
         \/ /\ t.phase = "resolved" /\ MultiArch(testing[t.variant])
            /\ t.variant = Nvidia
            /\ ReplaceBy(t, [t EXCEPT !.phase = "checked"])
         \/ /\ t.phase = "resolved" /\ MultiArch(testing[t.variant])
            /\ t.variant = Uranium
            /\ Pass(t)
         \/ t.phase = "checked" /\ Pass(t)
         \/ tests' = tests \ {t} /\ passed' = passed
BY DEF Proceed, Finish, Succeed, ResolveDigest, CheckNvidia, CheckUranium, RunSuite, FailTest, ListsBoth

LEMMA TestTypeOK ==
  ASSUME TypeOK, NEW v \in Variants, TestStep(v)
  PROVE  TypeOK'
<1> PICK t \in tests : t.variant = v /\ (Proceed(t) \/ Finish(t))
  BY DEF TestStep, RunTests
<1>1. t \in Tests /\ testing[t.variant] \in Digests
  BY DEF TypeOK, TestsTyped, Tests
<1>2. /\ [t EXCEPT !.phase = "resolved", !.digest = testing[t.variant]] \in Tests
      /\ [t EXCEPT !.phase = "checked"] \in Tests
  BY <1>1 DEF Tests, TestPhases
<1>3. [variant |-> t.variant, commit |-> t.commit, digest |-> t.digest,
       pulled |-> testing[t.variant]] \in Records
  BY <1>1 DEF Records, Tests
<1>4. tests' \subseteq Tests /\ passed' \subseteq Records
  BY <1>1, <1>2, <1>3, TestMoves DEF ReplaceBy, Pass, TypeOK, TestsTyped
<1> QED
  BY <1>4 DEF TestStep, RunTests, TypeOK, TestsTyped, buildVars, assemblyVars

-----------------------------------------------------------------------------
(* What the runs in flight can rely on.  A run builds a commit that was    *)
(* pushed, and signs and tests only complete indexes.                      *)
LaneOK(l) ==
  run[l].phase # "idle" =>
    /\ run[l].commit \in 1..head
    /\ run[l].phase \in {"sign", "trigger"} => run[l].archs = Architectures
LanesOK == \A l \in Lanes : LaneOK(l)

(* Merge groups that have not come up hold no concurrency group.           *)
QueueOK == \A c \in Commits \ queued : run[QueueLane(c)].phase = "idle"

(* The NVIDIA build of a commit that is asked for or under way has no      *)
(* outcome yet, so a successful one is never built again.                  *)
OutcomesOK ==
  \A a \in Architectures :
    /\ \A c \in Commits : c > head => outcome[a][c] = NoTrigger
    /\ waiting[ArchLane(a)] # 0 => outcome[a][waiting[ArchLane(a)]] = NoTrigger
    /\ run[ArchLane(a)].phase = "build" =>
         /\ outcome[a][run[ArchLane(a)].commit] = NoTrigger
         /\ run[ArchLane(a)].commit # waiting[ArchLane(a)]

(* A manifest run publishes what both architectures built.                 *)
AssembliesOK ==
  \A c \in Commits :
    /\ assembly[c] # "idle" => c <= head
    /\ assembly[c] = "publish" => BothBuilt(c)

NvidiaComplete == testing[Nvidia] # NoIndex => MultiArch(testing[Nvidia])

BuildsOK == LanesOK /\ QueueOK /\ OutcomesOK /\ AssembliesOK

-----------------------------------------------------------------------------
(* Manifest runs and tests leave the builds alone.                         *)
LEMMA AssemblyOutside ==
  ASSUME NEW c \in Commits, AssemblyStep(c)
  PROVE  UNCHANGED <<head, run, waiting, queued, outcome>>
BY DEF AssemblyStep, FindRuns, PublishNvidia, VerifyNvidia, SignNvidia, TriggerNvidia,
       FailAssembly, buildVars

LEMMA TestOutside ==
  ASSUME NEW v \in Variants, TestStep(v)
  PROVE  UNCHANGED <<head, run, waiting, queued, outcome, assembly, testing, signed, red>>
BY DEF TestStep, RunTests, buildVars, assemblyVars

(* The steps of a run that publishes uranium.                              *)
RegularStep(l) ==
  \/ \E archs \in SUBSET Architectures, conclusion \in Conclusions :
       EndBuild(l, archs, conclusion)
  \/ PublishManifest(l) \/ VerifyManifest(l) \/ SignManifest(l)
  \/ FailPublishing(l)

(* All that may happen, in the order the lemmas below look at it.          *)
LEMMA NextCases ==
  Next =>
    \/ PushImage \/ PushDocs
    \/ \E l \in PushLanes : StartBuild(l)
    \/ \E c \in Commits : MergeGroup(c)
    \/ \E a \in Architectures, c \in Commits : RerunArchBuild(a, c)
    \/ \E l \in Lanes \ ArchLanes : RegularStep(l)
    \/ TriggerPostTesting
    \/ \E a \in Architectures, conclusion \in Conclusions : EndArchBuild(a, conclusion)
    \/ \E c \in Commits : AssemblyStep(c)
    \/ \E v \in Variants : TestStep(v)
BY DEF Next, SystemStep, BuildStep, RegularStep

(* A regular step frees its concurrency group or moves on in it.           *)
LEMMA RegularMoves ==
  ASSUME TypeOK, NEW l \in Lanes, RegularStep(l)
  PROVE  /\ \A k \in Lanes \ {l} : run'[k] = run[k]
         /\ run[l].phase # "idle"
         /\ run' \in [Lanes -> Runs]
         /\ \/ run'[l] = IdleRun
            \/ /\ run'[l].commit = run[l].commit
               /\ run'[l].phase \in {"sign", "trigger"} =>
                    \/ run[l].phase = "verify" /\ MultiArch(IndexBuilt(l))
                    \/ run[l].phase = "sign"
               /\ run[l].phase # "build" => run'[l].archs = run[l].archs
         /\ UNCHANGED <<head, waiting, queued, assembly>>
         /\ \A a \in Architectures : outcome'[a] = outcome[a]
<1>1. run \in [Lanes -> Runs]
  BY DEF TypeOK
<1>2. Uranium \notin Architectures
  BY DEF Uranium, Architectures
<1>3. ASSUME NEW archs \in SUBSET Architectures, NEW conclusion \in Conclusions,
             EndBuild(l, archs, conclusion)
      PROVE  /\ \A k \in Lanes \ {l} : run'[k] = run[k]
             /\ run' \in [Lanes -> Runs]
             /\ \/ run'[l] = IdleRun
                \/ /\ run'[l].commit = run[l].commit
                   /\ run'[l].phase = "publish"
             /\ \A a \in Architectures : outcome'[a] = outcome[a]
  <2>1. run[l] \in Runs
    BY <1>1
  <2>2. /\ [run[l] EXCEPT !.phase = "publish", !.archs = archs] \in Runs
        /\ [run[l] EXCEPT !.phase = "publish", !.archs = archs].commit = run[l].commit
        /\ [run[l] EXCEPT !.phase = "publish", !.archs = archs].phase = "publish"
    BY <2>1 DEF Runs, Phases
  <2>3. outcome' = outcome \/ outcome' = [outcome EXCEPT ![Uranium][run[l].commit] = conclusion]
    BY <1>3 DEF EndBuild
  <2>4. \A a \in Architectures : outcome'[a] = outcome[a]
    BY <1>2, <2>3 DEF TypeOK, Builds
  <2> QED
    BY <1>1, <1>3, <2>1, <2>2, <2>4, RunFacts DEF EndBuild
<1>4. ASSUME NEW p \in Phases, StepTo(l, p)
      PROVE  /\ \A k \in Lanes \ {l} : run'[k] = run[k]
             /\ run' \in [Lanes -> Runs]
             /\ p = "idle" => run'[l] = IdleRun
             /\ p # "idle" => /\ run'[l].commit = run[l].commit
                              /\ run'[l].phase = p
                              /\ run'[l].archs = run[l].archs
  <2>1. run[l] \in Runs
    BY <1>1
  <2>2. LET x == [run[l] EXCEPT !.phase = p]
        IN x.commit = run[l].commit /\ x.phase = p /\ x.archs = run[l].archs
    BY <2>1 DEF Runs
  <2> QED
    BY <1>1, <1>4, <2>2, StepToType
<1>5. CASE \E archs \in SUBSET Architectures, conclusion \in Conclusions :
             EndBuild(l, archs, conclusion)
  BY <1>3, <1>5 DEF EndBuild, assemblyVars
<1>6. CASE PublishManifest(l)
  BY <1>4, <1>6 DEF PublishManifest, Phases, assemblyVars
<1>7. CASE VerifyManifest(l)
  BY <1>4, <1>7 DEF VerifyManifest, Phases, assemblyVars
<1>8. CASE SignManifest(l)
  BY <1>4, <1>8 DEF SignManifest, Phases, assemblyVars
<1>9. CASE FailPublishing(l)
  BY <1>4, <1>9 DEF FailPublishing, Phases, assemblyVars
<1> QED
  BY <1>5, <1>6, <1>7, <1>8, <1>9 DEF RegularStep

(* A push leaves every run where it is.                                    *)
LEMMA PushMoves ==
  ASSUME TypeOK, PushImage \/ PushDocs
  PROVE  /\ head \in 0..MaxCommits /\ head' = head + 1
         /\ \A l \in Lanes : /\ run'[l].phase = run[l].phase
                              /\ run'[l].commit = run[l].commit
                              /\ run'[l].archs = run[l].archs
         /\ \A l \in PushLanes : waiting'[l] \in {0, head + 1, waiting[l]}
         /\ UNCHANGED <<queued, outcome, assembly, pending, testing, signed, red, testVars>>
<1>1. run \in [Lanes -> Runs]
  BY DEF TypeOK
<1>2. CASE PushDocs
  BY <1>2 DEF PushDocs, TypeOK, TestsTyped, buildVars, assemblyVars
<1>3. CASE PushImage
  <2>1. \A l \in Lanes : /\ run'[l].phase = run[l].phase
                         /\ run'[l].commit = run[l].commit
                         /\ run'[l].archs = run[l].archs
    BY <1>1, <1>3 DEF PushImage, Runs
  <2>2. \A l \in PushLanes : waiting'[l] \in {0, head + 1, waiting[l]}
    BY <1>3 DEF PushImage
  <2> QED
    BY <1>3, <2>1, <2>2 DEF PushImage, TypeOK, TestsTyped, assemblyVars
<1> QED
  BY <1>2, <1>3

(* A re-run waits; what holds the concurrency group is told to stop.       *)
LEMMA RerunMoves ==
  ASSUME TypeOK, NEW a \in Architectures, NEW c \in Commits, RerunArchBuild(a, c)
  PROVE  /\ \A l \in Lanes : /\ run'[l].phase = run[l].phase
                              /\ run'[l].commit = run[l].commit
                              /\ run'[l].archs = run[l].archs
         /\ outcome[a][c] = "failure"
         /\ outcome' = [outcome EXCEPT ![a][c] = NoTrigger]
         /\ waiting' = [waiting EXCEPT ![ArchLane(a)] = c]
         /\ UNCHANGED <<head, changes, queued, assembly, pending, testing, signed, red, testVars>>
<1>1. run \in [Lanes -> Runs] /\ ArchLane(a) \in Lanes
  BY LaneFacts DEF TypeOK
<1>2. run' = [run EXCEPT ![ArchLane(a)] =
                [run[ArchLane(a)] EXCEPT !.stopped = run[ArchLane(a)].phase = "build"]]
  BY <1>1 DEF RerunArchBuild
<1>3. \A l \in Lanes : /\ run'[l].phase = run[l].phase
                       /\ run'[l].commit = run[l].commit
                       /\ run'[l].archs = run[l].archs
  BY <1>1, <1>2 DEF Runs
<1> QED
  BY <1>3 DEF RerunArchBuild, assemblyVars

(* The next step of run l begins a build of c; c was not building.         *)
BeginsIn(l, c) ==
  /\ run' = [run EXCEPT ![l] = NewRun(c)]
  /\ UNCHANGED <<head, assembly>>

-----------------------------------------------------------------------------
LEMMA LanesStep ==
  ASSUME TypeOK, LanesOK, OutcomesOK, [Next]_vars
  PROVE  LanesOK'
<1> USE DEF LanesOK, LaneOK
<1>0. /\ run \in [Lanes -> Runs] /\ head \in 0..MaxCommits
      /\ waiting \in [PushLanes -> 0..head]
  BY DEF TypeOK, TestsTyped
<1>1. CASE PushImage \/ PushDocs
  BY <1>0, <1>1, PushMoves
<1>2. ASSUME NEW l \in Lanes, NEW c \in 1..head, BeginsIn(l, c) PROVE LanesOK'
  <2>1. c \in Commits
    BY <1>0, CommitsAssumption DEF Commits
  <2> QED
    BY <1>0, <1>2, <2>1, RunFacts DEF BeginsIn
<1>3. CASE \E l \in PushLanes : StartBuild(l)
  <2> PICK l \in PushLanes : StartBuild(l)
    BY <1>3
  <2>1. waiting[l] \in 1..head /\ l \in Lanes
    BY <1>0, LaneFacts DEF StartBuild
  <2> QED
    BY <1>2, <2>1 DEF StartBuild, BeginsIn, assemblyVars
<1>4. CASE \E c \in Commits : MergeGroup(c)
  <2> PICK c \in Commits : MergeGroup(c)
    BY <1>4
  <2>1. c \in 1..head /\ QueueLane(c) \in Lanes
    BY <1>0, CommitsAssumption, LaneFacts DEF MergeGroup, Commits
  <2> QED
    BY <1>2, <2>1 DEF MergeGroup, BeginsIn, assemblyVars
<1>5. CASE \E a \in Architectures, c \in Commits : RerunArchBuild(a, c)
  <2> PICK a \in Architectures, c \in Commits : RerunArchBuild(a, c)
    BY <1>5
  <2> QED
    BY <1>0, RerunMoves
<1>6. CASE \E l \in Lanes \ ArchLanes : RegularStep(l)
  <2> PICK l \in Lanes : RegularStep(l)
    BY <1>6
  <2>1. /\ \A k \in Lanes \ {l} : run'[k] = run[k]
        /\ run[l].phase # "idle" /\ head' = head
        /\ \/ run'[l] = IdleRun
           \/ /\ run'[l].commit = run[l].commit
              /\ run'[l].phase \in {"sign", "trigger"} =>
                   \/ run[l].phase = "verify" /\ MultiArch(IndexBuilt(l))
                   \/ run[l].phase = "sign"
              /\ run[l].phase # "build" => run'[l].archs = run[l].archs
    BY RegularMoves
  <2>2. LaneOK(l)'
    BY <2>1, RunFacts DEF MultiArch, IndexBuilt
  <2>3. ASSUME NEW k \in Lanes \ {l} PROVE LaneOK(k)'
    BY <2>1, <2>3
  <2> QED
    BY <2>2, <2>3
<1>7. ASSUME NEW l \in Lanes, StepTo(l, "idle"), head' = head PROVE LanesOK'
  <2>1. run'[l] = IdleRun /\ \A k \in Lanes \ {l} : run'[k] = run[k]
    BY <1>0, <1>7, StepToType DEF Phases
  <2>2. LaneOK(l)'
    BY <2>1, RunFacts
  <2>3. ASSUME NEW k \in Lanes \ {l} PROVE LaneOK(k)'
    BY <1>7, <2>1, <2>3
  <2> QED
    BY <2>2, <2>3
<1>8. CASE TriggerPostTesting
  <2>1. StepTo(Regular, "idle") /\ head' = head
    BY <1>8 DEF TriggerPostTesting
  <2> QED
    BY <1>0, <1>7, <2>1, LaneFacts
<1>9. CASE \E a \in Architectures, conclusion \in Conclusions : EndArchBuild(a, conclusion)
  <2> PICK a \in Architectures, conclusion \in Conclusions : EndArchBuild(a, conclusion)
    BY <1>9
  <2>1. StepTo(ArchLane(a), "idle") /\ head' = head
    BY DEF EndArchBuild
  <2> QED
    BY <1>0, <1>7, <2>1, LaneFacts
<1>10. CASE (\E c \in Commits : AssemblyStep(c)) \/ (\E v \in Variants : TestStep(v))
  BY <1>10, AssemblyOutside, TestOutside
<1>11. CASE UNCHANGED vars
  BY <1>11 DEF vars, buildVars
<1> HIDE DEF LanesOK, LaneOK
<1> QED
  BY <1>1, <1>3, <1>4, <1>5, <1>6, <1>8, <1>9, <1>10, <1>11, NextCases

(* Only its merge group takes the concurrency group of a commit.           *)
LEMMA QueueStep ==
  ASSUME TypeOK, QueueOK, [Next]_vars
  PROVE  QueueOK'
<1> USE DEF QueueOK
<1>0. run \in [Lanes -> Runs]
  BY DEF TypeOK
<1> DEFINE Kept == /\ queued' = queued
                  /\ \A c \in Commits \ queued : run'[QueueLane(c)].phase = "idle"
<1>1. Kept => QueueOK'
  OBVIOUS
<1>2. CASE PushImage \/ PushDocs
  BY <1>2, PushMoves, LaneFacts
<1>3. CASE \E l \in PushLanes : StartBuild(l)
  <2> PICK l \in PushLanes : StartBuild(l)
    BY <1>3
  <2>1. \A c \in Commits : QueueLane(c) \in Lanes /\ QueueLane(c) # l
    BY LaneFacts
  <2> QED
    BY <1>0, <2>1 DEF StartBuild
<1>4. CASE \E c \in Commits : MergeGroup(c)
  <2> PICK c \in Commits : MergeGroup(c)
    BY <1>4
  <2>1. queued' = queued \cup {c} /\ run' = [run EXCEPT ![QueueLane(c)] = NewRun(c)]
    BY DEF MergeGroup
  <2>2. \A d \in Commits \ {c} : QueueLane(d) # QueueLane(c) /\ QueueLane(d) \in Lanes
    BY LaneFacts DEF QueueLane
  <2> QED
    BY <1>0, <2>1, <2>2
<1>5. CASE \E a \in Architectures, c \in Commits : RerunArchBuild(a, c)
  <2> PICK a \in Architectures, c \in Commits : RerunArchBuild(a, c)
    BY <1>5
  <2> QED
    BY <1>0, LaneFacts, RerunMoves
<1>6. CASE \E l \in Lanes \ ArchLanes : RegularStep(l)
  <2> PICK l \in Lanes : RegularStep(l)
    BY <1>6
  <2>1. /\ run[l].phase # "idle"
        /\ \A k \in Lanes \ {l} : run'[k] = run[k]
    BY RegularMoves
  <2>2. queued' = queued
    BY RegularMoves
  <2>3. \A c \in Commits \ queued : QueueLane(c) \in Lanes \ {l}
    BY <2>1, LaneFacts
  <2> QED
    BY <2>1, <2>2, <2>3
<1>7. ASSUME NEW l \in PushLanes, StepTo(l, "idle"), queued' = queued PROVE QueueOK'
  <2>1. \A c \in Commits : QueueLane(c) \in Lanes \ {l}
    BY LaneFacts
  <2>2. \A k \in Lanes \ {l} : run'[k] = run[k]
    BY <1>0, <1>7, LaneFacts, StepToType DEF Phases
  <2> QED
    BY <1>7, <2>1, <2>2
<1>8. CASE TriggerPostTesting
  <2>1. StepTo(Regular, "idle") /\ queued' = queued
    BY <1>8 DEF TriggerPostTesting
  <2> QED
    BY <1>7, <2>1, LaneFacts
<1>9. CASE \E a \in Architectures, conclusion \in Conclusions : EndArchBuild(a, conclusion)
  <2> PICK a \in Architectures, conclusion \in Conclusions : EndArchBuild(a, conclusion)
    BY <1>9
  <2>1. StepTo(ArchLane(a), "idle") /\ queued' = queued
    BY DEF EndArchBuild
  <2> QED
    BY <1>7, <2>1, LaneFacts
<1>10. CASE (\E c \in Commits : AssemblyStep(c)) \/ (\E v \in Variants : TestStep(v))
  BY <1>10, AssemblyOutside, TestOutside
<1>11. CASE UNCHANGED vars
  BY <1>11 DEF vars, buildVars
<1> HIDE DEF QueueOK
<1> QED
  BY <1>2, <1>3, <1>4, <1>5, <1>6, <1>8, <1>9, <1>10, <1>11, NextCases

(* A successful build is never asked for again, so outcomes only change    *)
(* for builds under way and for failed builds run again.                   *)
LEMMA OutcomesStep ==
  ASSUME TypeOK, LanesOK, OutcomesOK, [Next]_vars
  PROVE  OutcomesOK'
<1> SUFFICES ASSUME NEW a \in Architectures
             PROVE  /\ \A c \in Commits : c > head' => outcome'[a][c] = NoTrigger
                    /\ waiting'[ArchLane(a)] # 0 => outcome'[a][waiting'[ArchLane(a)]] = NoTrigger
                    /\ run'[ArchLane(a)].phase = "build" =>
                         /\ outcome'[a][run'[ArchLane(a)].commit] = NoTrigger
                         /\ run'[ArchLane(a)].commit # waiting'[ArchLane(a)]
  BY DEF OutcomesOK
<1> DEFINE l == ArchLane(a)
          w == waiting[l]
          Goal == /\ \A c \in Commits : c > head' => outcome'[a][c] = NoTrigger
                  /\ waiting'[l] # 0 => outcome'[a][waiting'[l]] = NoTrigger
                  /\ run'[l].phase = "build" =>
                       /\ outcome'[a][run'[l].commit] = NoTrigger
                       /\ run'[l].commit # waiting'[l]
<1> SUFFICES Goal
  OBVIOUS
<1>0. /\ run \in [Lanes -> Runs] /\ head \in 0..MaxCommits
      /\ waiting \in [PushLanes -> 0..head] /\ w \in 0..head
      /\ outcome \in [Builds -> [Commits -> Conclusions \cup {NoTrigger}]]
      /\ l \in Lanes /\ l \in PushLanes /\ a \in Builds
      /\ run[l].phase # "idle" => run[l].commit \in 1..head
      /\ MaxCommits \in Nat
  BY LaneFacts, CommitsAssumption DEF TypeOK, TestsTyped, Builds, LanesOK, LaneOK
<1>1. /\ \A c \in Commits : c > head => outcome[a][c] = NoTrigger
      /\ w # 0 => outcome[a][w] = NoTrigger
      /\ run[l].phase = "build" => outcome[a][run[l].commit] = NoTrigger /\ run[l].commit # w
  BY DEF OutcomesOK
<1>2. CASE PushImage \/ PushDocs
  <2>1. /\ head' = head + 1 /\ outcome' = outcome
        /\ run'[l].phase = run[l].phase /\ run'[l].commit = run[l].commit
        /\ waiting'[l] \in {0, head + 1, w}
    BY <1>0, <1>2, PushMoves
  <2>2. head < MaxCommits
    BY <1>2 DEF PushImage, PushDocs
  <2>3. head + 1 \in Commits
    BY <1>0, <2>2 DEF Commits
  <2>4. \A c \in Commits : c > head + 1 => c > head
    BY <1>0 DEF Commits
  <2>5. outcome[a][head + 1] = NoTrigger
    BY <1>0, <1>1, <2>3
  <2>6. run[l].phase = "build" => run[l].commit \notin {0, head + 1, w}
    BY <1>0, <1>1
  <2> QED
    BY <1>1, <2>1, <2>4, <2>5, <2>6
<1>3. ASSUME NEW k \in Lanes \ {l}, NEW x,
             run' = [run EXCEPT ![k] = x], UNCHANGED <<head, outcome, waiting>>
      PROVE  Goal
  BY <1>0, <1>1, <1>3
<1>4. CASE \E k \in PushLanes : StartBuild(k)
  <2> PICK k \in PushLanes : StartBuild(k)
    BY <1>4
  <2>1. CASE k = l
    <3>1. w # 0 /\ w \in Commits
      BY <1>0, <2>1 DEF StartBuild, Commits
    <3>2. run'[l] = NewRun(w) /\ waiting'[l] = 0 /\ head' = head /\ outcome' = outcome
      BY <1>0, <2>1 DEF StartBuild
    <3> QED
      BY <1>1, <3>1, <3>2, RunFacts
  <2>2. CASE k # l
    BY <1>0, <1>1, <2>2 DEF StartBuild
  <2> QED
    BY <2>1, <2>2
<1>5. CASE \E c \in Commits : MergeGroup(c)
  <2> PICK c \in Commits : MergeGroup(c)
    BY <1>5
  <2>1. QueueLane(c) \in Lanes \ {l}
    BY <1>0, LaneFacts
  <2> QED
    BY <1>3, <2>1 DEF MergeGroup
<1>6. CASE \E b \in Architectures, c \in Commits : RerunArchBuild(b, c)
  <2> PICK b \in Architectures, c \in Commits : RerunArchBuild(b, c)
    BY <1>6
  <2>1. CASE a = b
    <3>1. /\ run'[l].phase = run[l].phase /\ run'[l].commit = run[l].commit
          /\ waiting'[l] = c /\ head' = head
          /\ outcome[a][c] = "failure"
          /\ outcome'[a] = [outcome[a] EXCEPT ![c] = NoTrigger]
      BY <1>0, <2>1, RerunMoves
    <3>2. run[l].phase = "build" => run[l].commit # c /\ run[l].commit \in Commits
      BY <1>0, <1>1, <3>1 DEF NoTrigger, Commits
    <3>3. \A d \in Commits : outcome'[a][d] \in {outcome[a][d], NoTrigger}
      BY <1>0, <3>1
    <3>4. outcome'[a][c] = NoTrigger
      BY <1>0, <3>1
    <3> QED
      BY <1>1, <3>1, <3>2, <3>3, <3>4
  <2>2. CASE a # b
    <3>1. ArchLane(b) \in Lanes /\ ArchLane(b) # l /\ b \in Builds
      BY <2>2, LaneFacts DEF Builds
    <3>2. /\ run'[l].phase = run[l].phase /\ run'[l].commit = run[l].commit
          /\ waiting'[l] = w /\ head' = head
          /\ outcome'[a] = outcome[a]
      BY <1>0, <2>2, <3>1, RerunMoves
    <3> QED
      BY <1>1, <3>2
  <2> QED
    BY <2>1, <2>2
<1>7. CASE \E k \in Lanes \ ArchLanes : RegularStep(k)
  <2> PICK k \in Lanes \ ArchLanes : RegularStep(k)
    BY <1>7
  <2>1. k # l
    BY DEF ArchLanes
  <2>2. run'[l] = run[l] /\ waiting' = waiting /\ head' = head /\ outcome'[a] = outcome[a]
    BY <1>0, <2>1, RegularMoves
  <2> QED
    BY <1>1, <2>2
<1>8. CASE TriggerPostTesting
  <2>1. /\ StepTo(Regular, "idle") /\ UNCHANGED <<head, outcome, waiting>>
        /\ Regular # l /\ Regular \in Lanes
    BY <1>8, LaneFacts DEF TriggerPostTesting
  <2> QED
    BY <1>3, <2>1 DEF StepTo
<1>9. CASE \E b \in Architectures, conclusion \in Conclusions : EndArchBuild(b, conclusion)
  <2> PICK b \in Architectures, conclusion \in Conclusions : EndArchBuild(b, conclusion)
    BY <1>9
  <2> DEFINE c == run[ArchLane(b)].commit
  <2>1. StepTo(ArchLane(b), "idle") /\ waiting' = waiting /\ head' = head
    BY DEF EndArchBuild
  <2>2. ArchLane(b) \in Lanes /\ b \in Builds
    BY LaneFacts DEF Builds
  <2>3. CASE a = b
    <3>1. run'[l] = IdleRun
      BY <1>0, <2>1, <2>3, StepToType DEF Phases
    <3>2. outcome'[a] = [outcome[a] EXCEPT ![c] = conclusion] /\ run[l].phase = "build"
      BY <1>0, <2>3 DEF EndArchBuild
    <3>3. c \in 1..head /\ c # w
      BY <1>0, <1>1, <2>3, <3>2
    <3>4. \A d \in Commits : d # c => outcome'[a][d] = outcome[a][d]
      BY <1>0, <3>2
    <3>5. w # 0 => w \in Commits
      BY <1>0 DEF Commits
    <3>6. \A d \in Commits : d > head => d # c
      BY <1>0, <3>3 DEF Commits
    <3> QED
      BY <1>1, <2>1, <3>1, <3>3, <3>4, <3>5, <3>6, RunFacts
  <2>4. CASE a # b
    <3>1. ArchLane(b) # l
      BY <2>4, LaneFacts
    <3>2. run'[l] = run[l]
      BY <1>0, <2>1, <2>2, <3>1, StepToType DEF Phases
    <3>3. outcome'[a] = outcome[a]
      BY <1>0, <2>2, <2>4 DEF EndArchBuild
    <3> QED
      BY <1>1, <2>1, <3>2, <3>3
  <2> QED
    BY <2>3, <2>4
<1>10. CASE (\E c \in Commits : AssemblyStep(c)) \/ (\E v \in Variants : TestStep(v))
  BY <1>1, <1>10, AssemblyOutside, TestOutside
<1>11. CASE UNCHANGED vars
  BY <1>1, <1>11 DEF vars, buildVars
<1> HIDE DEF Goal
<1> QED
  BY <1>2, <1>4, <1>5, <1>6, <1>7, <1>8, <1>9, <1>10, <1>11, NextCases

(* Both architectures stay built while their index is being published.     *)
LEMMA AssembliesStep ==
  ASSUME TypeOK, LanesOK, OutcomesOK, AssembliesOK, [Next]_vars
  PROVE  AssembliesOK'
<1> SUFFICES \A c \in Commits :
               /\ assembly'[c] # "idle" => c <= head'
               /\ assembly'[c] = "publish" => \A a \in Architectures : outcome'[a][c] = "success"
  <2>1. \A c \in Commits :
          BothBuilt(c)' <=> \A a \in Architectures : outcome'[a][c] = "success"
    BY DEF BothBuilt, Succeeded
  <2> QED
    BY <2>1 DEF AssembliesOK
<1> TAKE c \in Commits
<1> DEFINE Goal == /\ assembly'[c] # "idle" => c <= head'
                   /\ assembly'[c] = "publish" =>
                        \A a \in Architectures : outcome'[a][c] = "success"
<1>0. /\ head \in 0..MaxCommits /\ c \in Nat
      /\ assembly \in [Commits -> AssemblyPhases]
      /\ outcome \in [Builds -> [Commits -> Conclusions \cup {NoTrigger}]]
      /\ Architectures \subseteq Builds
  BY CommitsAssumption DEF TypeOK, TestsTyped, Commits, Builds
<1>1. (assembly[c] # "idle" => c <= head) /\ (assembly[c] = "publish" => BothBuilt(c))
  BY DEF AssembliesOK
<1>2. BothBuilt(c) <=> \A a \in Architectures : outcome[a][c] = "success"
  BY DEF BothBuilt, Succeeded
<1>3. BothBuilt(c)' <=> \A a \in Architectures : outcome'[a][c] = "success"
  BY DEF BothBuilt, Succeeded
<1>4. ASSUME assembly' = assembly, head' \in {head, head + 1},
             \A a \in Architectures : outcome[a][c] = "success" => outcome'[a][c] = "success"
      PROVE  Goal
  BY <1>0, <1>1, <1>2, <1>3, <1>4
<1>5. CASE PushImage \/ PushDocs
  BY <1>4, <1>5, PushMoves
<1>6. CASE (\E l \in PushLanes : StartBuild(l)) \/ (\E d \in Commits : MergeGroup(d))
  BY <1>4, <1>6 DEF StartBuild, MergeGroup, assemblyVars
<1>7. CASE \E a \in Architectures, d \in Commits : RerunArchBuild(a, d)
  <2> PICK a \in Architectures, d \in Commits : RerunArchBuild(a, d)
    BY <1>7
  <2>1. /\ outcome[a][d] = "failure" /\ outcome' = [outcome EXCEPT ![a][d] = NoTrigger]
        /\ assembly' = assembly /\ head' = head
    BY DEF RerunArchBuild, assemblyVars
  <2>2. \A b \in Architectures : outcome[b][c] = "success" => outcome'[b][c] = "success"
    BY <1>0, <2>1
  <2> QED
    BY <1>4, <2>1, <2>2
<1>8. CASE \E l \in Lanes \ ArchLanes : RegularStep(l)
  BY <1>4, <1>8, RegularMoves
<1>9. CASE TriggerPostTesting
  BY <1>4, <1>9 DEF TriggerPostTesting, assemblyVars
<1>10. CASE \E a \in Architectures, conclusion \in Conclusions : EndArchBuild(a, conclusion)
  <2> PICK a \in Architectures, conclusion \in Conclusions : EndArchBuild(a, conclusion)
    BY <1>10
  <2> DEFINE d == run[ArchLane(a)].commit
  <2>1. /\ outcome[a][d] = NoTrigger /\ d \in 1..head
        /\ run[ArchLane(a)].phase = "build"
    BY LaneFacts DEF OutcomesOK, LanesOK, LaneOK, EndArchBuild
  <2>2. outcome' = [outcome EXCEPT ![a][d] = conclusion] /\ head' = head
    BY DEF EndArchBuild
  <2>3. \A b \in Architectures : outcome[b][c] = "success" => outcome'[b][c] = "success"
    BY <1>0, <2>1, <2>2 DEF NoTrigger
  <2>4. assembly'[c] # "idle" => assembly[c] # "idle" \/ d = c
    BY <1>0 DEF EndArchBuild, Completed, AskForAssembly, Commits
  <2>5. assembly'[c] = "publish" => assembly[c] = "publish"
    BY <1>0 DEF EndArchBuild, Completed, AskForAssembly, Begin
  <2> QED
    BY <1>0, <1>1, <1>2, <1>3, <2>1, <2>2, <2>3, <2>4, <2>5
<1>11. CASE \E d \in Commits : AssemblyStep(d)
  <2> PICK d \in Commits : AssemblyStep(d)
    BY <1>11
  <2>1. outcome' = outcome /\ head' = head
    BY AssemblyOutside
  <2>2. d # c => assembly'[c] = assembly[c]
    BY <1>0 DEF AssemblyStep, FindRuns, PublishNvidia, VerifyNvidia, SignNvidia, TriggerNvidia,
                FailAssembly, AssemblyTo, EndAssembly
  <2>3. d = c => assembly[c] # "idle"
    BY DEF AssemblyStep, FindRuns, PublishNvidia, VerifyNvidia, SignNvidia, TriggerNvidia,
           FailAssembly
  <2>4. d = c /\ assembly'[c] = "publish" => BothBuilt(c)
    BY <1>0 DEF AssemblyStep, FindRuns, PublishNvidia, VerifyNvidia, SignNvidia, TriggerNvidia,
                FailAssembly, AssemblyTo, EndAssembly, Begin
  <2> QED
    BY <1>1, <1>2, <1>3, <2>1, <2>2, <2>3, <2>4
<1>12. CASE \E v \in Variants : TestStep(v)
  BY <1>4, <1>12, TestOutside
<1>13. CASE UNCHANGED vars
  BY <1>4, <1>13 DEF vars, buildVars, assemblyVars
<1> HIDE DEF Goal
<1> QED
  BY <1>5, <1>6, <1>7, <1>8, <1>9, <1>10, <1>11, <1>12, <1>13, NextCases

LEMMA InitBuildsOK == Init => BuildsOK
<1> SUFFICES ASSUME Init PROVE BuildsOK
  OBVIOUS
<1>1. \A l \in Lanes : run[l].phase = "idle"
  BY RunFacts DEF Init
<1>2. LanesOK /\ QueueOK
  BY <1>1, LaneFacts DEF LanesOK, LaneOK, QueueOK
<1>3. OutcomesOK
  BY <1>1, LaneFacts DEF Init, OutcomesOK, Builds
<1>4. AssembliesOK
  BY DEF Init, AssembliesOK
<1> QED
  BY <1>2, <1>3, <1>4 DEF BuildsOK

LEMMA TypeStep ==
  ASSUME TypeOK, BuildsOK, [Next]_vars
  PROVE  TypeOK'
<1>1. CASE PushImage \/ PushDocs
  BY <1>1, PushTypeOK
<1>2. CASE \/ \E l \in PushLanes : StartBuild(l)
           \/ \E c \in Commits : MergeGroup(c)
           \/ \E a \in Architectures, c \in Commits : RerunArchBuild(a, c)
  <2>1. \A a \in Architectures, c \in Commits : outcome[a][c] = "failure" => c \in 1..head
    BY CommitsAssumption DEF BuildsOK, OutcomesOK, TypeOK, TestsTyped, Commits, NoTrigger
  <2> QED
    BY <1>2, <2>1, BeginBuildTypeOK
<1>3. \A l \in Lanes : run[l].phase # "idle" => run[l].commit \in 1..head /\ run[l].commit \in Commits
  BY CommitsAssumption DEF BuildsOK, LanesOK, LaneOK, TypeOK, TestsTyped, Commits
<1>4. CASE \E l \in Lanes \ ArchLanes : RegularStep(l)
  BY <1>3, <1>4, RegularTypeOK DEF RegularStep
<1>5. CASE TriggerPostTesting
  BY <1>3, <1>5, LaneFacts, TriggerTypeOK
<1>6. CASE \E a \in Architectures, conclusion \in Conclusions : EndArchBuild(a, conclusion)
  <2> PICK a \in Architectures, conclusion \in Conclusions : EndArchBuild(a, conclusion)
    BY <1>6
  <2>1. run[ArchLane(a)].commit \in Commits
    BY <1>3, LaneFacts DEF EndArchBuild
  <2> QED
    BY <2>1, EndArchBuildTypeOK
<1>7. CASE \E c \in Commits : AssemblyStep(c)
  BY <1>7, AssemblyTypeOK
<1>8. CASE \E v \in Variants : TestStep(v)
  BY <1>8, TestTypeOK
<1>9. CASE UNCHANGED vars
  BY <1>9 DEF vars, buildVars, assemblyVars, testVars, TypeOK, TestsTyped
<1> QED
  BY <1>1, <1>2, <1>4, <1>5, <1>6, <1>7, <1>8, <1>9, NextCases

LEMMA BuildsStep ==
  ASSUME TypeOK, BuildsOK, [Next]_vars
  PROVE  BuildsOK'
BY LanesStep, QueueStep, OutcomesStep, AssembliesStep DEF BuildsOK

(* Every reachable state of the testing stream is well typed.              *)
THEOREM StreamTypeCorrect == Spec => []TypeOK
<1> USE DEF vars
<1>1. Init => TypeOK /\ BuildsOK
  BY InitTypeOK, InitBuildsOK
<1>2. TypeOK /\ BuildsOK /\ [Next]_vars => (TypeOK /\ BuildsOK)'
  BY TypeStep, BuildsStep
<1> QED
  BY <1>1, <1>2, PTL DEF Spec

-----------------------------------------------------------------------------
(* A run that is past its build has an index to publish, sign and test.    *)
LEMMA IndexOfLane ==
  ASSUME TypeOK, BuildsOK, NEW l \in Lanes, run[l].phase # "idle"
  PROVE  /\ IndexBuilt(l) \in Indexes
         /\ IndexBuilt(l).commit = run[l].commit
         /\ run[l].phase \in {"sign", "trigger"} => MultiArch(IndexBuilt(l))
<1>1. run[l] \in Runs /\ run[l].commit \in Commits
  BY CommitsAssumption DEF BuildsOK, LanesOK, LaneOK, TypeOK, TestsTyped, Commits
<1>2. run[l].phase \in {"sign", "trigger"} => run[l].archs = Architectures
  BY DEF BuildsOK, LanesOK, LaneOK
<1> QED
  BY <1>1, <1>2 DEF IndexBuilt, Indexes, Runs, MultiArch

LEMMA IndexOfCommit ==
  \A c \in Commits : /\ IndexOf(c) \in Indexes /\ MultiArch(IndexOf(c))
                     /\ IndexOf(c).commit = c
                     /\ \A i \in Indexes : i.commit = c /\ MultiArch(i) => i = IndexOf(c)
BY DEF IndexOf, Indexes, MultiArch

(* Only these steps touch a tag or a signature.                            *)
LEMMA TagMoves ==
  ASSUME Next
  PROVE  \/ \E l \in Lanes : PublishManifest(l) \/ SignManifest(l)
         \/ \E c \in Commits : PublishNvidia(c) \/ SignNvidia(c)
         \/ UNCHANGED <<testing, signed>>
<1>1. CASE PushImage \/ PushDocs
  BY <1>1 DEF PushImage, PushDocs
<1>2. CASE \E l \in PushLanes : StartBuild(l)
  BY <1>2 DEF StartBuild
<1>3. CASE \E c \in Commits : MergeGroup(c)
  BY <1>3 DEF MergeGroup
<1>4. CASE \E a \in Architectures, c \in Commits : RerunArchBuild(a, c)
  BY <1>4 DEF RerunArchBuild
<1>5. CASE \E l \in Lanes \ ArchLanes : RegularStep(l)
  BY <1>5 DEF RegularStep, EndBuild, VerifyManifest, FailPublishing
<1>6. CASE TriggerPostTesting
  BY <1>6 DEF TriggerPostTesting
<1>7. CASE \E a \in Architectures, conclusion \in Conclusions : EndArchBuild(a, conclusion)
  BY <1>7 DEF EndArchBuild
<1>8. CASE \E c \in Commits : AssemblyStep(c)
  BY <1>8 DEF AssemblyStep, FindRuns, VerifyNvidia, TriggerNvidia, FailAssembly
<1>9. CASE \E v \in Variants : TestStep(v)
  BY <1>9, TestOutside
<1> QED
  BY <1>1, <1>2, <1>3, <1>4, <1>5, <1>6, <1>7, <1>8, <1>9, NextCases

(* A stream's tag moves the way TestingTags says, or not at all.           *)
LEMMA TagsStep ==
  ASSUME TypeOK, BuildsOK, [Next]_vars
  PROVE  [Tags!Next]_(Tags!tagVars)
<1> SUFFICES ASSUME ~UNCHANGED <<testing, signed>> PROVE Tags!Next
  BY DEF Tags!tagVars
<1>1. Next
  BY DEF vars
<1>2. CASE \E l \in Lanes : PublishManifest(l) \/ SignManifest(l)
  <2> PICK l \in Lanes : PublishManifest(l) \/ SignManifest(l)
    BY <1>2
  <2>1. run[l].phase # "idle"
    BY DEF PublishManifest, SignManifest
  <2>2. IndexBuilt(l) \in Indexes /\ (run[l].phase = "sign" => MultiArch(IndexBuilt(l)))
    BY <2>1, IndexOfLane
  <2>3. Uranium \in Variants /\ Uranium # Nvidia
    BY DEF Variants, Uranium, Nvidia
  <2>4. Tags!Publish(Uranium, IndexBuilt(l)) \/ Tags!Sign(Uranium, IndexBuilt(l))
    BY <2>2, <2>3 DEF PublishManifest, SignManifest, Tags!Publish, Tags!Sign, Tags!MultiArch,
                      MultiArch, Tags!Architectures, Architectures, Tags!Nvidia, Nvidia
  <2> QED
    BY <2>2, <2>3, <2>4 DEF Tags!Next, Tags!Variants, Variants, Tags!Indexes, Indexes,
       Tags!Commits, Commits, Tags!Architectures, Architectures, Tags!Uranium, Uranium,
       Tags!Nvidia, Nvidia
<1>3. CASE \E c \in Commits : PublishNvidia(c) \/ SignNvidia(c)
  <2> PICK c \in Commits : PublishNvidia(c) \/ SignNvidia(c)
    BY <1>3
  <2>1. ASSUME PublishNvidia(c)
        PROVE  testing' = [testing EXCEPT ![Nvidia] = IndexOf(c)] /\ signed' = signed
    BY <2>1 DEF PublishNvidia, BuildsOK, AssembliesOK, BothBuilt, IndexOf
  <2>2. IndexOf(c) \in Indexes /\ MultiArch(IndexOf(c)) /\ Nvidia \in Variants
    BY IndexOfCommit DEF Variants
  <2>3. Tags!Publish(Nvidia, IndexOf(c)) \/ Tags!Sign(Nvidia, IndexOf(c))
    BY <2>1, <2>2 DEF SignNvidia, Tags!Publish, Tags!Sign, Tags!MultiArch, MultiArch,
                      Tags!Architectures, Architectures
  <2> QED
    BY <2>2, <2>3 DEF Tags!Next, Tags!Variants, Variants, Tags!Indexes, Indexes,
       Tags!Commits, Commits, Tags!Architectures, Architectures, Tags!Uranium, Uranium,
       Tags!Nvidia, Nvidia
<1> QED
  BY <1>1, <1>2, <1>3, TagMoves

LEMMA InitTags == Init => Tags!Init
BY DEF Init, NoTests, Tags!Init, NoIndex, Tags!NoIndex, Variants, Tags!Variants, Uranium,
       Tags!Uranium, Nvidia, Tags!Nvidia

(* The streams keep what they promise their readers, however the builds,   *)
(* re-runs and manifest runs of any number of pushes interleave.           *)
THEOREM StreamsImplementTestingTags == Spec => TagsSpec
<1>1. Init => TypeOK /\ BuildsOK
  BY InitTypeOK, InitBuildsOK
<1>2. TypeOK /\ BuildsOK /\ [Next]_vars => (TypeOK /\ BuildsOK)'
  BY TypeStep, BuildsStep
<1>3. TypeOK /\ BuildsOK /\ [Next]_vars => [Tags!Next]_(Tags!tagVars)
  BY TagsStep
<1> QED
  BY <1>1, <1>2, <1>3, InitTags, PTL DEF Spec, TagsSpec, Tags!Spec

-----------------------------------------------------------------------------
(* UnsignedAccounted, one variant at a time.                               *)
InHand(l, i) == run[l].phase \in {"verify", "sign"} /\ IndexBuilt(l) = i

UraniumAccounted ==
  \/ testing[Uranium] = NoIndex
  \/ <<Uranium, testing[Uranium]>> \in signed
  \/ <<Uranium, testing[Uranium].commit>> \in red
  \/ \E l \in Lanes : InHand(l, testing[Uranium])

NvidiaAccounted ==
  \/ testing[Nvidia] = NoIndex
  \/ <<Nvidia, testing[Nvidia]>> \in signed
  \/ <<Nvidia, testing[Nvidia].commit>> \in red
  \/ /\ assembly[testing[Nvidia].commit] \in {"verify", "sign"}
     /\ testing[Nvidia].commit \in Commits

LEMMA Accounted == NvidiaAccounted /\ UraniumAccounted => UnsignedAccounted
<1>1. Uranium # Nvidia
  BY DEF Uranium, Nvidia
<1> QED
  BY <1>1 DEF NvidiaAccounted, UraniumAccounted, InHand, UnsignedAccounted, Variants

(* Signatures and red jobs stay, so while the tag does not move it is      *)
(* enough to look at the jobs at work on what it names.                    *)
LEMMA UraniumStays ==
  ASSUME UraniumAccounted, testing'[Uranium] = testing[Uranium],
         signed \subseteq signed', red \subseteq red',
         \A l \in Lanes : InHand(l, testing[Uranium]) =>
           \/ InHand(l, testing[Uranium])'
           \/ <<Uranium, testing[Uranium]>> \in signed'
           \/ <<Uranium, testing[Uranium].commit>> \in red'
  PROVE  UraniumAccounted'
BY DEF UraniumAccounted

LEMMA UraniumStep ==
  ASSUME TypeOK, BuildsOK, UraniumAccounted, [Next]_vars
  PROVE  UraniumAccounted'
<1>0. run \in [Lanes -> Runs] /\ testing \in [Variants -> Digests] /\ Uranium \in Variants
  BY DEF TypeOK, TestsTyped, Variants
<1> DEFINE i == testing[Uranium]
<1>1. ASSUME NEW k \in Lanes, run[k].phase \notin {"verify", "sign"},
             \A l \in Lanes \ {k} : run'[l] = run[l],
             testing' = testing, signed \subseteq signed', red \subseteq red'
      PROVE  UraniumAccounted'
  <2>1. \A l \in Lanes : InHand(l, i) => InHand(l, i)'
    BY <1>1 DEF InHand, IndexBuilt
  <2> QED
    BY <1>1, <2>1, UraniumStays
<1>2. ASSUME run' = run, testing'[Uranium] = testing[Uranium],
             signed \subseteq signed', red \subseteq red'
      PROVE  UraniumAccounted'
  <2>1. \A l \in Lanes : InHand(l, i) => InHand(l, i)'
    BY <1>2 DEF InHand, IndexBuilt
  <2> QED
    BY <1>2, <2>1, UraniumStays
<1>3. CASE PushImage \/ PushDocs
  <2>1. \A l \in Lanes : InHand(l, i) => InHand(l, i)'
    BY <1>3, PushMoves DEF InHand, IndexBuilt
  <2> QED
    BY <1>3, <2>1, PushMoves, UraniumStays
<1>4. CASE \E l \in PushLanes : StartBuild(l)
  BY <1>0, <1>1, <1>4, LaneFacts DEF StartBuild
<1>5. CASE \E c \in Commits : MergeGroup(c)
  <2> PICK c \in Commits : MergeGroup(c)
    BY <1>5
  <2>1. run[QueueLane(c)].phase = "idle"
    BY DEF MergeGroup, BuildsOK, QueueOK
  <2> QED
    BY <1>0, <1>1, <2>1, LaneFacts DEF MergeGroup
<1>6. CASE \E a \in Architectures, c \in Commits : RerunArchBuild(a, c)
  <2>1. \A l \in Lanes : InHand(l, i) => InHand(l, i)'
    BY <1>6, RerunMoves DEF InHand, IndexBuilt
  <2> QED
    BY <1>6, <2>1, RerunMoves, UraniumStays
<1>7. CASE \E l \in Lanes \ ArchLanes : RegularStep(l)
  <2> PICK k \in Lanes \ ArchLanes : RegularStep(k)
    BY <1>7
  <2>0. /\ \A l \in Lanes \ {k} : run'[l] = run[l]
        /\ run[k] \in Runs /\ run' \in [Lanes -> Runs]
    BY <1>0, RegularMoves
  <2>1. CASE \E archs \in SUBSET Architectures, conclusion \in Conclusions :
               EndBuild(k, archs, conclusion)
    BY <1>1, <2>0, <2>1 DEF EndBuild
  <2>2. ASSUME NEW p \in {"verify", "sign"}, StepTo(k, p)
        PROVE  run'[k].phase = p /\ IndexBuilt(k)' = IndexBuilt(k)
    BY <1>0, <2>0, <2>2 DEF StepTo, IndexBuilt, Runs
  <2>3. CASE PublishManifest(k)
    <3>1. testing'[Uranium] = IndexBuilt(k)
      BY <1>0, <2>3 DEF PublishManifest
    <3>2. InHand(k, testing[Uranium])'
      BY <2>2, <2>3, <3>1 DEF PublishManifest, InHand
    <3> QED
      BY <3>2 DEF UraniumAccounted
  <2>4. ASSUME testing' = testing, signed \subseteq signed', red \subseteq red',
               InHand(k, i) => \/ InHand(k, i)'
                               \/ <<Uranium, i>> \in signed'
                               \/ <<Uranium, i.commit>> \in red'
        PROVE  UraniumAccounted'
    <3>1. \A l \in Lanes \ {k} : InHand(l, i) => InHand(l, i)'
      BY <2>0, <2>4 DEF InHand, IndexBuilt
    <3> QED
      BY <2>4, <3>1, UraniumStays
  <2>5. CASE VerifyManifest(k)
    <3>1. InHand(k, i) => IndexBuilt(k) = i /\ i.commit = run[k].commit
      BY DEF InHand, IndexBuilt
    <3>2. InHand(k, i) => InHand(k, i)' \/ <<Uranium, i.commit>> \in red'
      BY <2>2, <2>5, <3>1 DEF VerifyManifest, InHand
    <3> QED
      BY <2>4, <2>5, <3>2 DEF VerifyManifest
  <2>6. CASE SignManifest(k)
    BY <2>4, <2>6 DEF SignManifest, InHand
  <2>7. CASE FailPublishing(k)
    <3>1. InHand(k, i) => i.commit = run[k].commit
      BY DEF InHand, IndexBuilt
    <3> QED
      BY <2>4, <2>7, <3>1 DEF FailPublishing
  <2> QED
    BY <2>1, <2>3, <2>5, <2>6, <2>7 DEF RegularStep
<1>8. CASE TriggerPostTesting
  BY <1>0, <1>1, <1>8, LaneFacts, StepToType DEF TriggerPostTesting, Phases
<1>9. CASE \E a \in Architectures, conclusion \in Conclusions : EndArchBuild(a, conclusion)
  <2> PICK a \in Architectures, conclusion \in Conclusions : EndArchBuild(a, conclusion)
    BY <1>9
  <2>1. ArchLane(a) \in Lanes /\ run[ArchLane(a)].phase = "build"
        /\ StepTo(ArchLane(a), "idle")
    BY LaneFacts DEF EndArchBuild
  <2> QED
    BY <1>0, <1>1, <2>1, StepToType DEF EndArchBuild, Phases
<1>10. CASE \E c \in Commits : AssemblyStep(c)
  <2> PICK c \in Commits : AssemblyStep(c)
    BY <1>10
  <2>1. run' = run
    BY AssemblyOutside
  <2>2. Uranium # Nvidia
    BY DEF Uranium, Nvidia
  <2>3. testing' = testing \/ \E x : testing' = [testing EXCEPT ![Nvidia] = x]
    BY DEF AssemblyStep, FindRuns, PublishNvidia, VerifyNvidia, SignNvidia, TriggerNvidia,
           FailAssembly
  <2>4. signed \subseteq signed' /\ red \subseteq red'
    BY DEF AssemblyStep, FindRuns, PublishNvidia, VerifyNvidia, SignNvidia, TriggerNvidia,
           FailAssembly
  <2> QED
    BY <1>0, <1>2, <2>1, <2>2, <2>3, <2>4
<1>11. CASE \E v \in Variants : TestStep(v)
  BY <1>2, <1>11, TestOutside
<1>12. CASE UNCHANGED vars
  BY <1>2, <1>12 DEF vars, buildVars
<1> QED
  BY <1>3, <1>4, <1>5, <1>6, <1>7, <1>8, <1>9, <1>10, <1>11, <1>12, NextCases

(* As long as the tag stays, so does the job at work on what it names.     *)
LEMMA NvidiaStays ==
  ASSUME NvidiaAccounted, testing'[Nvidia] = testing[Nvidia],
         signed \subseteq signed', red \subseteq red',
         \A c \in Commits : assembly[c] \in {"verify", "sign"} => assembly'[c] = assembly[c]
  PROVE  NvidiaAccounted'
BY DEF NvidiaAccounted

LEMMA NvidiaStep ==
  ASSUME TypeOK, BuildsOK, NvidiaComplete, NvidiaAccounted, [Next]_vars
  PROVE  NvidiaAccounted'
<1>0. /\ assembly \in [Commits -> AssemblyPhases]
      /\ testing \in [Variants -> Digests]
      /\ Uranium \in Variants /\ Nvidia \in Variants /\ Uranium # Nvidia
  BY DEF TypeOK, TestsTyped, Variants, Uranium, Nvidia
<1> DEFINE i == testing[Nvidia]
<1>1. ASSUME assembly' = assembly, testing'[Nvidia] = testing[Nvidia],
             signed \subseteq signed', red \subseteq red'
      PROVE  NvidiaAccounted'
  BY <1>1, NvidiaStays
<1>2. CASE PushImage \/ PushDocs
  BY <1>1, <1>2, PushMoves
<1>3. CASE (\E l \in PushLanes : StartBuild(l)) \/ (\E c \in Commits : MergeGroup(c))
  BY <1>1, <1>3 DEF StartBuild, MergeGroup, assemblyVars
<1>4. CASE \E a \in Architectures, c \in Commits : RerunArchBuild(a, c)
  BY <1>1, <1>4 DEF RerunArchBuild, assemblyVars
<1>5. CASE \E l \in Lanes \ ArchLanes : RegularStep(l)
  <2>1. assembly' = assembly
    BY <1>5, RegularMoves
  <2>2. testing' = testing \/ \E x : testing' = [testing EXCEPT ![Uranium] = x]
    BY <1>5 DEF RegularStep, EndBuild, PublishManifest, VerifyManifest, SignManifest,
                FailPublishing
  <2>3. signed \subseteq signed' /\ red \subseteq red'
    BY <1>5 DEF RegularStep, EndBuild, PublishManifest, VerifyManifest, SignManifest,
                FailPublishing
  <2> QED
    BY <1>0, <1>1, <2>1, <2>2, <2>3
<1>6. CASE TriggerPostTesting
  BY <1>1, <1>6 DEF TriggerPostTesting, assemblyVars
<1>7. CASE \E a \in Architectures, conclusion \in Conclusions : EndArchBuild(a, conclusion)
  <2>1. \A c \in Commits : assembly[c] \in {"verify", "sign"} => assembly'[c] = assembly[c]
    BY <1>0, <1>7 DEF EndArchBuild, Completed, AskForAssembly
  <2>2. UNCHANGED <<testing, signed, red>>
    BY <1>7 DEF EndArchBuild
  <2> QED
    BY <2>1, <2>2, NvidiaStays
<1>8. CASE \E c \in Commits : AssemblyStep(c)
  <2> PICK c \in Commits : AssemblyStep(c)
    BY <1>8
  <2>1. \A d \in Commits \ {c} : assembly'[d] = assembly[d]
    BY <1>0 DEF AssemblyStep, FindRuns, PublishNvidia, VerifyNvidia, SignNvidia,
                TriggerNvidia, FailAssembly, AssemblyTo, EndAssembly
  <2>2. CASE FindRuns(c)
    BY <1>0, <2>1, <2>2, NvidiaStays DEF FindRuns
  <2>3. CASE PublishNvidia(c)
    <3>1. testing'[Nvidia].commit = c
      BY <1>0, <2>3 DEF PublishNvidia
    <3>2. assembly'[c] = "verify"
      BY <1>0, <2>3 DEF PublishNvidia, AssemblyTo
    <3> QED
      BY <3>1, <3>2 DEF NvidiaAccounted
  <2>4. ASSUME testing' = testing, signed \subseteq signed', red \subseteq red',
               i # NoIndex /\ i.commit = c =>
                 \/ assembly[c] \notin {"verify", "sign"}
                 \/ assembly'[c] \in {"verify", "sign"}
                 \/ <<Nvidia, i>> \in signed'
                 \/ <<Nvidia, i.commit>> \in red'
        PROVE  NvidiaAccounted'
    BY <2>1, <2>4 DEF NvidiaAccounted
  <2>5. CASE VerifyNvidia(c)
    BY <1>0, <2>4, <2>5 DEF VerifyNvidia, AssemblyTo
  <2>6. CASE SignNvidia(c)
    <3>1. i # NoIndex /\ i.commit = c => i = IndexOf(c)
      BY <1>0, IndexOfCommit DEF NvidiaComplete, Digests
    <3> QED
      BY <2>4, <2>6, <3>1 DEF SignNvidia
  <2>7. CASE \E branch \in HeadBranches : TriggerNvidia(c, branch)
    BY <2>4, <2>7 DEF TriggerNvidia
  <2>8. CASE FailAssembly(c)
    BY <2>4, <2>8 DEF FailAssembly
  <2> QED
    BY <2>2, <2>3, <2>5, <2>6, <2>7, <2>8 DEF AssemblyStep
<1>9. CASE \E v \in Variants : TestStep(v)
  BY <1>1, <1>9, TestOutside
<1>10. CASE UNCHANGED vars
  BY <1>1, <1>10 DEF vars, assemblyVars
<1> QED
  BY <1>2, <1>3, <1>4, <1>5, <1>6, <1>7, <1>8, <1>9, <1>10, NextCases

(* A tag step of TestingTags keeps uranium-nvidia's index complete.        *)
LEMMA NvidiaStaysComplete ==
  ASSUME TypeOK, BuildsOK, NvidiaComplete, [Next]_vars
  PROVE  NvidiaComplete'
<1>1. testing \in [Variants -> Digests] /\ Nvidia \in Variants
  BY DEF TypeOK, TestsTyped, Variants
<1>2. [Tags!Next]_(Tags!tagVars)
  BY TagsStep
<1> QED
  BY <1>1, <1>2 DEF NvidiaComplete, Tags!Next, Tags!tagVars, Tags!Publish, Tags!Sign,
     Tags!MultiArch, MultiArch, Tags!Architectures, Architectures, Tags!Nvidia, Nvidia

(* An unsigned :testing has a job on its way to sign it, or a red one.     *)
THEOREM NothingUnsignedAndGreen == Spec => []UnsignedAccounted
<1> DEFINE Inv == TypeOK /\ BuildsOK /\ NvidiaComplete /\ NvidiaAccounted /\ UraniumAccounted
<1>1. Init => Inv
  BY InitTypeOK, InitBuildsOK
  DEF Init, NoTests, NvidiaComplete, NvidiaAccounted, UraniumAccounted, Variants
<1>2. Inv /\ [Next]_vars => Inv'
  BY TypeStep, BuildsStep, NvidiaStaysComplete, NvidiaStep, UraniumStep
<1>3. Inv => UnsignedAccounted
  BY Accounted
<1> HIDE DEF Inv
<1> QED
  BY <1>1, <1>2, <1>3, PTL DEF Spec

-----------------------------------------------------------------------------
(* VouchesForSigned.  A run that is about to ask for a test has signed what *)
(* it asks about, signatures stay, and a test resolves nothing else.       *)
SignedFirst ==
  /\ \A l \in Lanes : run[l].phase = "trigger" => <<Uranium, IndexBuilt(l)>> \in signed
  /\ \A c \in Commits : assembly[c] = "trigger" => <<Nvidia, IndexOf(c)>> \in signed

Sound(v, i) == i # NoIndex /\ MultiArch(i) /\ <<v, i>> \in signed

TestsVouch ==
  \A t \in tests :
    /\ Sound(t.variant, t.expects)
    /\ t.phase # "asked" => t.digest = t.expects /\ testing[t.variant] # NoIndex
    /\ t.phase = "checked" => t.variant = Nvidia

LEMMA NoIndexIsNone == NoIndex \notin Indexes
BY CommitsAssumption DEF NoIndex, Indexes, Commits

LEMMA SoundKept ==
  ASSUME signed \subseteq signed'
  PROVE  \A v, i : Sound(v, i) => Sound(v, i)'
BY DEF Sound, MultiArch

LEMMA SignedKept ==
  ASSUME [Next]_vars
  PROVE  signed \subseteq signed'
BY TagMoves DEF vars, PublishManifest, SignManifest, PublishNvidia, SignNvidia

(* A tag that names an index goes on naming one.                           *)
LEMMA TagsStay ==
  ASSUME TypeOK, BuildsOK, [Next]_vars
  PROVE  \A v \in Variants : testing[v] # NoIndex => testing'[v] # NoIndex
<1>1. testing \in [Variants -> Digests] /\ NoIndex \notin Indexes
  BY NoIndexIsNone DEF TypeOK, TestsTyped
<1>2. UNCHANGED testing \/ \E v \in Variants, i \in Indexes : testing' = [testing EXCEPT ![v] = i]
  BY TagsStep
  DEF Tags!Next, Tags!tagVars, Tags!Publish, Tags!Sign, Tags!Variants, Variants,
      Tags!Indexes, Indexes, Tags!Commits, Commits, Tags!Architectures, Architectures,
      Tags!Uranium, Uranium, Tags!Nvidia, Nvidia
<1> QED
  BY <1>1, <1>2

LEMMA SignedFirstStep ==
  ASSUME TypeOK, BuildsOK, SignedFirst, [Next]_vars
  PROVE  SignedFirst'
<1>0. /\ run \in [Lanes -> Runs] /\ assembly \in [Commits -> AssemblyPhases]
      /\ signed \subseteq signed'
  BY SignedKept DEF TypeOK
<1>1. ASSUME UNCHANGED assembly,
             \A l \in Lanes : run'[l].phase = "trigger" =>
               \/ run[l].phase = "trigger" /\ IndexBuilt(l)' = IndexBuilt(l)
               \/ <<Uranium, IndexBuilt(l)'>> \in signed'
      PROVE  SignedFirst'
  BY <1>0, <1>1 DEF SignedFirst, IndexOf
<1>2. ASSUME UNCHANGED run,
             \A c \in Commits : assembly'[c] = "trigger" =>
               assembly[c] = "trigger" \/ <<Nvidia, IndexOf(c)>> \in signed'
      PROVE  SignedFirst'
  BY <1>0, <1>2 DEF SignedFirst, IndexBuilt, IndexOf
<1>3. ASSUME UNCHANGED assembly, NEW k \in Lanes, run'[k].phase # "trigger",
             \A l \in Lanes \ {k} : run'[l] = run[l]
      PROVE  SignedFirst'
  BY <1>1, <1>3 DEF IndexBuilt
<1>4. CASE PushImage \/ PushDocs
  BY <1>1, <1>4, PushMoves DEF IndexBuilt
<1>5. CASE \E l \in PushLanes : StartBuild(l)
  <2> PICK l \in PushLanes : StartBuild(l)
    BY <1>5
  <2>1. /\ run' = [run EXCEPT ![l] = NewRun(waiting[l])] /\ l \in Lanes /\ UNCHANGED assembly
    BY LaneFacts DEF StartBuild, assemblyVars
  <2>2. run'[l].phase = "build"
    BY <1>0, <2>1 DEF NewRun, IdleRun
  <2> QED
    BY <1>0, <1>3, <2>1, <2>2
<1>6. CASE \E c \in Commits : MergeGroup(c)
  <2> PICK c \in Commits : MergeGroup(c)
    BY <1>6
  <2>1. /\ run' = [run EXCEPT ![QueueLane(c)] = NewRun(c)] /\ QueueLane(c) \in Lanes
        /\ UNCHANGED assembly
    BY LaneFacts DEF MergeGroup, assemblyVars
  <2> QED
    BY <1>0, <1>3, <2>1, RunFacts
<1>7. CASE \E a \in Architectures, c \in Commits : RerunArchBuild(a, c)
  BY <1>1, <1>7, RerunMoves DEF IndexBuilt
<1>8. CASE \E l \in Lanes \ ArchLanes : RegularStep(l)
  <2> PICK l \in Lanes : RegularStep(l)
    BY <1>8
  <2>1. UNCHANGED assembly /\ \A k \in Lanes \ {l} : run'[k] = run[k]
    BY RegularMoves
  <2>2. run[l] \in Runs
    BY <1>0
  <2>3. CASE SignManifest(l)
    <3>1. IndexBuilt(l)' = IndexBuilt(l) \/ run'[l].phase # "trigger"
      <4>1. [run[l] EXCEPT !.phase = "trigger"].commit = run[l].commit
            /\ [run[l] EXCEPT !.phase = "trigger"].archs = run[l].archs
        BY <2>2 DEF Runs
      <4>2. run'[l] \in {IdleRun, [run[l] EXCEPT !.phase = "trigger"]}
        BY <1>0, <2>3 DEF SignManifest, StepTo
      <4> QED
        BY <4>1, <4>2, RunFacts DEF IndexBuilt
    <3>2. <<Uranium, IndexBuilt(l)>> \in signed'
      BY <2>3 DEF SignManifest
    <3> QED
      BY <1>1, <2>1, <3>1, <3>2 DEF IndexBuilt
  <2>4. CASE ~SignManifest(l)
    <3>1. run'[l].phase # "trigger"
      <4>1. \A p \in Phases : [run[l] EXCEPT !.phase = p].phase = p
        BY <2>2 DEF Runs
      <4>2. \A p \in Phases : StepTo(l, p) => run'[l].phase = p
        BY <1>0, <4>1, RunFacts DEF StepTo
      <4>3. \A archs : [run[l] EXCEPT !.phase = "publish", !.archs = archs].phase = "publish"
        BY <2>2 DEF Runs
      <4>4. CASE \E archs \in SUBSET Architectures, conclusion \in Conclusions :
                   EndBuild(l, archs, conclusion)
        <5>1. PICK archs \in SUBSET Architectures :
                run' = [run EXCEPT ![l] = IF archs = {} THEN IdleRun
                          ELSE [run[l] EXCEPT !.phase = "publish", !.archs = archs]]
          BY <4>4 DEF EndBuild
        <5>2. run'[l] \in {IdleRun, [run[l] EXCEPT !.phase = "publish", !.archs = archs]}
          BY <1>0, <5>1
        <5> QED
          BY <4>3, <5>2, RunFacts
      <4>5. CASE PublishManifest(l) \/ VerifyManifest(l) \/ FailPublishing(l)
        BY <4>2, <4>5 DEF PublishManifest, VerifyManifest, FailPublishing, Phases
      <4> QED
        BY <2>4, <4>4, <4>5 DEF RegularStep
    <3> QED
      BY <1>3, <2>1, <3>1
  <2> QED
    BY <2>3, <2>4
<1>9. CASE TriggerPostTesting
  <2>1. /\ StepTo(Regular, "idle") /\ UNCHANGED assembly
        /\ Regular \in Lanes /\ "idle" \in Phases
    BY <1>9, LaneFacts DEF TriggerPostTesting, assemblyVars, Phases
  <2> QED
    BY <1>0, <1>3, <2>1, StepToType, RunFacts
<1>10. CASE \E a \in Architectures, conclusion \in Conclusions : EndArchBuild(a, conclusion)
  <2> PICK a \in Architectures, conclusion \in Conclusions : EndArchBuild(a, conclusion)
    BY <1>10
  <2> DEFINE l == ArchLane(a)
  <2>1. StepTo(l, "idle") /\ l \in Lanes /\ "idle" \in Phases
    BY LaneFacts DEF EndArchBuild, Phases
  <2>2. run'[l] = IdleRun /\ \A k \in Lanes \ {l} : run'[k] = run[k]
    BY <1>0, <2>1, StepToType
  <2>3. \A c \in Commits : assembly'[c] = "trigger" => assembly[c] = "trigger"
    BY <1>0 DEF EndArchBuild, Completed, AskForAssembly, Begin
  <2> QED
    BY <1>0, <2>2, <2>3, RunFacts DEF SignedFirst, IndexBuilt, IndexOf
<1>11. CASE \E c \in Commits : AssemblyStep(c)
  <2> PICK c \in Commits : AssemblyStep(c)
    BY <1>11
  <2>1. \A d \in Commits \ {c} : assembly'[d] = assembly[d]
    BY <1>0 DEF AssemblyStep, FindRuns, PublishNvidia, VerifyNvidia, SignNvidia,
                TriggerNvidia, FailAssembly, AssemblyTo, EndAssembly
  <2>2. assembly'[c] = "trigger" => <<Nvidia, IndexOf(c)>> \in signed'
    BY <1>0 DEF AssemblyStep, FindRuns, PublishNvidia, VerifyNvidia, SignNvidia,
                TriggerNvidia, FailAssembly, AssemblyTo, EndAssembly, Begin
  <2> QED
    BY <1>2, <2>1, <2>2, AssemblyOutside
<1>12. CASE \E v \in Variants : TestStep(v)
  BY <1>2, <1>12, TestOutside
<1>13. CASE UNCHANGED vars
  BY <1>2, <1>13 DEF vars, buildVars, assemblyVars
<1> QED
  BY <1>4, <1>5, <1>6, <1>7, <1>8, <1>9, <1>10, <1>11, <1>12, <1>13, NextCases

(* All that touches tests but their own steps: a dispatch for what was     *)
(* signed.                                                                 *)
LEMMA DispatchesSigned ==
  ASSUME TypeOK, BuildsOK, SignedFirst, Next, ~\E v \in Variants : TestStep(v)
  PROVE  /\ passed' = passed
         /\ \/ tests' = tests
            \/ \E v \in Variants : \E i, c : DispatchOn(v, i, c) /\ Sound(v, i)
<1>1. CASE PushImage \/ PushDocs
  BY <1>1 DEF PushImage, PushDocs, testVars
<1>2. CASE (\E l \in PushLanes : StartBuild(l)) \/ (\E c \in Commits : MergeGroup(c))
  BY <1>2 DEF StartBuild, MergeGroup, testVars
<1>3. CASE \E a \in Architectures, c \in Commits : RerunArchBuild(a, c)
  BY <1>3 DEF RerunArchBuild, testVars
<1>4. CASE \E l \in Lanes \ ArchLanes : RegularStep(l)
  BY <1>4 DEF RegularStep, EndBuild, PublishManifest, VerifyManifest, SignManifest,
              FailPublishing, testVars
<1>5. CASE TriggerPostTesting
  <2>1. run[Regular].phase = "trigger" /\ Regular \in Lanes /\ Uranium \in Variants
    BY <1>5, LaneFacts DEF TriggerPostTesting, Variants
  <2>2. <<Uranium, IndexBuilt(Regular)>> \in signed /\ MultiArch(IndexBuilt(Regular))
        /\ IndexBuilt(Regular) \in Indexes
    BY <2>1, IndexOfLane DEF SignedFirst
  <2>3. Sound(Uranium, IndexBuilt(Regular))
    BY <2>2, NoIndexIsNone DEF Sound
  <2> QED
    BY <1>5, <2>1, <2>3 DEF TriggerPostTesting, Dispatch
<1>6. CASE \E a \in Architectures, conclusion \in Conclusions : EndArchBuild(a, conclusion)
  BY <1>6 DEF EndArchBuild, testVars
<1>7. CASE \E c \in Commits : AssemblyStep(c)
  <2> PICK c \in Commits : AssemblyStep(c)
    BY <1>7
  <2>1. CASE \E branch \in HeadBranches : TriggerNvidia(c, branch)
    <3>1. <<Nvidia, IndexOf(c)>> \in signed
      BY <2>1 DEF TriggerNvidia, SignedFirst
    <3>2. Sound(Nvidia, IndexOf(c)) /\ Nvidia \in Variants
      BY <3>1, IndexOfCommit, NoIndexIsNone DEF Sound, Variants
    <3> QED
      BY <2>1, <3>2 DEF TriggerNvidia
  <2>2. CASE ~\E branch \in HeadBranches : TriggerNvidia(c, branch)
    BY <2>2 DEF AssemblyStep, FindRuns, PublishNvidia, VerifyNvidia, SignNvidia, FailAssembly,
                testVars
  <2> QED
    BY <2>1, <2>2
<1> QED
  BY <1>1, <1>2, <1>3, <1>4, <1>5, <1>6, <1>7, NextCases

LEMMA VouchStep ==
  ASSUME TypeOK, BuildsOK, NvidiaComplete, SignedFirst, TestsVouch, VouchesForSigned, [Next]_vars
  PROVE  TestsVouch' /\ VouchesForSigned'
<1>0. signed \subseteq signed' /\ tests \subseteq Tests
  BY SignedKept DEF TypeOK, TestsTyped
<1>1. \A t \in tests :
        /\ Sound(t.variant, t.expects)'
        /\ t.phase # "asked" => t.digest = t.expects /\ testing'[t.variant] # NoIndex
        /\ t.phase = "checked" => t.variant = Nvidia
  BY <1>0, SoundKept, TagsStay DEF TestsVouch, Tests
<1>2. passed' = passed => VouchesForSigned'
  BY <1>0 DEF VouchesForSigned, MultiArch
<1>3. CASE \E v \in Variants : TestStep(v)
  <2> PICK t \in tests : Proceed(t) \/ Finish(t)
    BY <1>3 DEF TestStep, RunTests
  <2>1. /\ t \in Tests /\ testing' = testing /\ signed' = signed
        /\ Sound(t.variant, t.expects)
        /\ t.phase # "asked" => t.digest = t.expects /\ testing[t.variant] # NoIndex
        /\ t.phase = "checked" => t.variant = Nvidia
    BY <1>0, <1>3, TestOutside DEF TestsVouch
  <2>2. ASSUME NEW u, ReplaceBy(t, u), u.variant = t.variant, u.expects = t.expects,
               u.digest = t.expects, u.phase = "checked" => t.variant = Nvidia,
               testing[t.variant] # NoIndex
        PROVE  TestsVouch' /\ VouchesForSigned'
    <3>1. Sound(t.variant, t.expects)'
      BY <2>1, SoundKept
    <3>2. tests' \subseteq tests \cup {u} /\ passed' = passed
      BY <2>2 DEF ReplaceBy
    <3> QED
      BY <1>1, <1>2, <2>1, <2>2, <3>1, <3>2 DEF TestsVouch
  <2>3. CASE t.phase = "asked" /\ Resolves(t)
             /\ ReplaceBy(t, [t EXCEPT !.phase = "resolved", !.digest = testing[t.variant]])
    <3> DEFINE u == [t EXCEPT !.phase = "resolved", !.digest = testing[t.variant]]
    <3>1. /\ u.variant = t.variant /\ u.expects = t.expects /\ u.phase = "resolved"
          /\ u.digest = testing[t.variant]
      BY <2>1 DEF Tests
    <3>2. testing[t.variant] # NoIndex /\ testing[t.variant] = t.expects
      BY <2>1, <2>3 DEF Resolves, Sound
    <3> HIDE DEF u
    <3>3. u.digest = t.expects /\ (u.phase = "checked" => t.variant = Nvidia)
      BY <3>1, <3>2
    <3> QED
      BY <2>2, <2>3, <3>1, <3>2, <3>3 DEF u
  <2>4. CASE t.phase = "resolved" /\ t.variant = Nvidia
             /\ ReplaceBy(t, [t EXCEPT !.phase = "checked"])
    <3> DEFINE u == [t EXCEPT !.phase = "checked"]
    <3>1. u.variant = t.variant /\ u.expects = t.expects /\ u.digest = t.digest
      BY <2>1 DEF Tests
    <3> HIDE DEF u
    <3>2. u.digest = t.expects /\ testing[t.variant] # NoIndex
      BY <2>1, <2>4, <3>1
    <3> QED
      BY <2>2, <2>4, <3>1, <3>2 DEF u
  <2>5. CASE t.phase # "asked" /\ MultiArch(testing[t.variant]) /\ Pass(t)
    <3>1. TestsVouch'
      BY <1>1, <2>5 DEF Pass, TestsVouch
    <3>2. Sound(t.variant, t.digest)
      BY <2>1, <2>5
    <3> QED
      BY <1>0, <2>5, <3>1, <3>2 DEF Pass, VouchesForSigned, Sound
  <2>6. t.phase = "checked" => MultiArch(testing[t.variant])
    BY <2>1 DEF NvidiaComplete
  <2>7. CASE tests' = tests \ {t} /\ passed' = passed
    BY <1>1, <1>2, <2>7 DEF TestsVouch
  <2> QED
    BY <2>1, <2>3, <2>4, <2>5, <2>6, <2>7, TestMoves
<1>4. CASE Next /\ ~\E v \in Variants : TestStep(v)
  <2>1. passed' = passed
    BY <1>4, DispatchesSigned
  <2>2. CASE tests' = tests
    BY <1>1, <1>2, <2>1, <2>2 DEF TestsVouch
  <2>3. CASE \E v \in Variants : \E i, c : DispatchOn(v, i, c) /\ Sound(v, i)
    <3>1. PICK v \in Variants : \E i, c : DispatchOn(v, i, c) /\ Sound(v, i)
      BY <2>3
    <3>2. PICK i, c : DispatchOn(v, i, c) /\ Sound(v, i)
      BY <3>1
    <3>3. Sound(v, i)'
      BY <1>0, <3>2, SoundKept
    <3> QED
      BY <1>1, <1>2, <2>1, <3>2, <3>3 DEF TestsVouch, DispatchOn
  <2> QED
    BY <1>4, <2>2, <2>3, DispatchesSigned
<1>5. CASE UNCHANGED vars
  BY <1>1, <1>2, <1>5 DEF vars, testVars, TestsVouch
<1> QED
  BY <1>3, <1>4, <1>5

(* A green end-to-end run vouches for an index that was complete and       *)
(* signed before anybody asked for the run, and the tag named a complete   *)
(* one when the run last read it, although tags move between the two or    *)
(* three times a run reads them.                                           *)
THEOREM GreenRunsVouchForSigned == Spec => []VouchesForSigned
<1> DEFINE Inv == /\ TypeOK /\ BuildsOK /\ NvidiaComplete
                  /\ SignedFirst /\ TestsVouch /\ VouchesForSigned
<1>1. Init => Inv
  <2>1. Init => SignedFirst
    BY RunFacts DEF Init, SignedFirst
  <2> QED
    BY <2>1, InitTypeOK, InitBuildsOK
    DEF Init, NoTests, NvidiaComplete, TestsVouch, VouchesForSigned, Variants
<1>2. Inv /\ [Next]_vars => Inv'
  BY TypeStep, BuildsStep, NvidiaStaysComplete, SignedFirstStep, VouchStep
<1>3. Inv => VouchesForSigned
  OBVIOUS
<1> HIDE DEF Inv
<1> QED
  BY <1>1, <1>2, <1>3, PTL DEF Spec

-----------------------------------------------------------------------------
(* TestedRevision needs patience, and no merge groups: whatever is built,  *)
(* assembled or tested is then the newest change, and the head stands      *)
(* still until its tests are over.                                         *)
Newest(d, c) == d \in changes /\ d <= c /\ \A e \in changes : e <= c => e <= d

Published == {"verify", "sign", "trigger"}

BuildsNewest ==
  /\ \A l \in Lanes : run[l].phase # "idle" => Newest(run[l].commit, head)
  /\ \A l \in PushLanes : waiting[l] # 0 => Newest(waiting[l], head)
  /\ \A a \in Architectures, c \in Commits : outcome[a][c] # NoTrigger => c \in changes
  /\ \A c \in Commits : /\ assembly[c] # "idle" => Newest(c, head)
                        /\ pending[c] # NoTrigger => assembly[c] # "idle"

TagsNewest ==
  /\ run[Regular].phase \in Published => Newest(testing[Uranium].commit, head)
  /\ \A c \in Commits : assembly[c] \in Published => Newest(testing[Nvidia].commit, head)

TestsNewest ==
  \A t \in tests :
    /\ t.commit \in {0, head}
    /\ Newest(testing[t.variant].commit, head)
    /\ t.phase # "asked" => Newest(t.digest.commit, head)

RecordNewest(r) ==
  r.commit # 0 => /\ r.commit <= head
                  /\ Newest(r.digest.commit, r.commit)
                  /\ Newest(r.pulled.commit, r.commit)

RecordsNewest == \A r \in passed : RecordNewest(r)

CalmInv == TypeOK /\ BuildsNewest /\ TagsNewest /\ TestsNewest /\ RecordsNewest

LEMMA NewestKept ==
  ASSUME UNCHANGED changes
  PROVE  \A d, c : Newest(d, c)' <=> Newest(d, c)
BY DEF Newest

LEMMA CalmPush ==
  ASSUME IsCalm, CalmInv, PushImage \/ PushDocs
  PROVE  BuildsNewest' /\ TagsNewest' /\ TestsNewest' /\ RecordsNewest'
<1>1. /\ head \in Nat /\ head' = head + 1
      /\ changes \subseteq 1..head
      /\ changes' \in {changes, changes \cup {head + 1}}
      /\ UNCHANGED <<outcome, assembly, pending, testing, testVars>>
      /\ BuildsDone
  BY PushMoves DEF CalmInv, TypeOK, TestsTyped, IsCalm, PushImage, PushDocs
<1>2. \A l \in Lanes : run'[l].phase = "idle"
  BY <1>1, PushMoves DEF CalmInv, BuildsDone
<1>3. /\ \A c \in Commits : assembly'[c] = "idle" /\ pending'[c] = NoTrigger
      /\ tests' = {}
  BY <1>1 DEF BuildsDone, CalmInv, BuildsNewest, testVars
<1>4. ASSUME NEW l \in PushLanes, waiting'[l] # 0
      PROVE  Newest(waiting[l], head)'
  <2>1. waiting'[l] = head + 1 /\ head + 1 \in changes'
    BY <1>1, <1>4 DEF BuildsDone, PushImage, PushDocs, buildVars
  <2> QED
    BY <1>1, <2>1 DEF Newest
<1>5. BuildsNewest'
  <2>1. \A a \in Architectures, c \in Commits : outcome'[a][c] # NoTrigger => c \in changes'
    BY <1>1 DEF CalmInv, BuildsNewest
  <2> QED
    BY <1>2, <1>3, <1>4, <2>1 DEF BuildsNewest
<1>6. RecordsNewest'
  <2> SUFFICES ASSUME NEW r \in passed, r.commit # 0
               PROVE  /\ r.commit <= head + 1
                      /\ Newest(r.digest.commit, r.commit)'
                      /\ Newest(r.pulled.commit, r.commit)'
    BY <1>1 DEF RecordsNewest, RecordNewest, testVars
  <2>1. /\ r.commit <= head /\ r.commit \in Nat
        /\ Newest(r.digest.commit, r.commit) /\ Newest(r.pulled.commit, r.commit)
    BY CommitsAssumption DEF CalmInv, RecordsNewest, RecordNewest, TypeOK, TestsTyped, Records
  <2> QED
    BY <1>1, <2>1 DEF Newest
<1> QED
  BY <1>2, <1>3, <1>5, <1>6, LaneFacts DEF TagsNewest, TestsNewest, Published

(* A build of the change that was waiting begins.                          *)
LEMMA CalmBegin ==
  ASSUME CalmInv, NEW l \in PushLanes, StartBuild(l)
  PROVE  BuildsNewest' /\ TagsNewest' /\ TestsNewest' /\ RecordsNewest'
<1>1. /\ run' = [run EXCEPT ![l] = NewRun(waiting[l])]
      /\ waiting[l] \in Commits
      /\ Newest(waiting[l], head)
      /\ UNCHANGED <<head, changes, assembly, pending, testing, testVars, outcome>>
      /\ \A k \in PushLanes : waiting'[k] \in {0, waiting[k]}
  BY CommitsAssumption
  DEF StartBuild, CalmInv, TypeOK, TestsTyped, BuildsNewest, Commits, assemblyVars
<1>2. /\ \A k \in Lanes \ {l} : run'[k] = run[k]
      /\ run'[l].commit = waiting[l] /\ run'[l].phase = "build"
  BY <1>1, LaneFacts, RunFacts DEF CalmInv, TypeOK
<1>3. BuildsNewest'
  BY <1>1, <1>2, NewestKept DEF CalmInv, BuildsNewest
<1>4. TagsNewest'
  BY <1>1, <1>2, NewestKept, LaneFacts DEF CalmInv, TagsNewest, Published
<1> QED
  BY <1>1, <1>3, <1>4, NewestKept DEF CalmInv, TestsNewest, RecordsNewest, RecordNewest, testVars

(* A build of the head is asked for again.                                 *)
LEMMA CalmRerun ==
  ASSUME IsCalm, CalmInv, NEW a \in Architectures, NEW c \in Commits, RerunArchBuild(a, c)
  PROVE  BuildsNewest' /\ TagsNewest' /\ TestsNewest' /\ RecordsNewest'
<1>1. /\ \A l \in Lanes : run'[l].phase = run[l].phase /\ run'[l].commit = run[l].commit
      /\ outcome' = [outcome EXCEPT ![a][c] = NoTrigger]
      /\ outcome[a][c] = "failure"
      /\ waiting' = [waiting EXCEPT ![ArchLane(a)] = c]
      /\ UNCHANGED <<head, changes, assembly, pending, testing, testVars>>
  BY RerunMoves DEF CalmInv
<1>2. Newest(c, head)
  <2>1. c = head /\ c \in changes /\ changes \subseteq 1..head
    BY <1>1 DEF RerunArchBuild, IsCalm, CalmInv, TypeOK, BuildsNewest, NoTrigger
  <2> QED
    BY <2>1, CommitsAssumption DEF Newest, CalmInv, TypeOK, TestsTyped
<1>3. \A b \in Architectures, d \in Commits : outcome'[b][d] \in {NoTrigger, outcome[b][d]}
  BY <1>1 DEF CalmInv, TypeOK, Builds
<1>4. \A l \in PushLanes : waiting'[l] \in {c, waiting[l]}
  BY <1>1 DEF CalmInv, TypeOK
<1>5. BuildsNewest'
  BY <1>1, <1>2, <1>3, <1>4, NewestKept DEF CalmInv, BuildsNewest
<1>6. TagsNewest'
  BY <1>1, NewestKept, LaneFacts DEF CalmInv, TagsNewest, Published
<1> QED
  BY <1>1, <1>5, <1>6, NewestKept DEF CalmInv, TestsNewest, RecordsNewest, RecordNewest, testVars

LEMMA CalmRegular ==
  ASSUME CalmInv, NEW l \in Lanes \ ArchLanes, RegularStep(l)
  PROVE  BuildsNewest' /\ TagsNewest' /\ TestsNewest' /\ RecordsNewest'
<1>1. /\ UNCHANGED <<head, changes, waiting, assembly, pending, testVars>>
      /\ \A a \in Architectures : outcome'[a] = outcome[a]
      /\ \A k \in Lanes \ {l} : run'[k] = run[k]
      /\ run'[l] = IdleRun \/ run'[l].commit = run[l].commit
      /\ run[l].phase # "idle"
  BY RegularMoves
  DEF CalmInv, RegularStep, EndBuild, PublishManifest, VerifyManifest, SignManifest,
      FailPublishing, assemblyVars
<1>2. /\ Newest(run[l].commit, head)
      /\ run'[l].phase # "idle" => run'[l].commit = run[l].commit
  BY <1>1, RunFacts DEF CalmInv, BuildsNewest
<1>3. BuildsNewest'
  BY <1>1, <1>2, NewestKept DEF CalmInv, BuildsNewest
(* A run gets past publish by moving the tag to its own index.             *)
<1>4. /\ \/ UNCHANGED testing /\ (run'[l].phase \in Published => run[l].phase \in Published)
         \/ testing' = [testing EXCEPT ![Uranium] = IndexBuilt(l)]
  <2>1. run \in [Lanes -> Runs] /\ run[l] \in Runs
    BY DEF CalmInv, TypeOK
  <2>2. ASSUME NEW p \in Phases, StepTo(l, p) PROVE run'[l].phase = p
    <3>1. [run[l] EXCEPT !.phase = p].phase = p
      BY <2>1 DEF Runs
    <3> QED
      BY <2>1, <2>2, <3>1, StepToType, RunFacts
  <2>3. CASE \E archs \in SUBSET Architectures, conclusion \in Conclusions :
               EndBuild(l, archs, conclusion)
    <3>1. PICK archs \in SUBSET Architectures :
            /\ run' = [run EXCEPT ![l] = IF archs = {} THEN IdleRun
                        ELSE [run[l] EXCEPT !.phase = "publish", !.archs = archs]]
            /\ UNCHANGED testing
      BY <2>3 DEF EndBuild
    <3>2. run'[l].phase \in {"idle", "publish"}
      <4>1. [run[l] EXCEPT !.phase = "publish", !.archs = archs].phase = "publish"
        BY <2>1 DEF Runs
      <4> QED
        BY <2>1, <3>1, <4>1, RunFacts
    <3> QED
      BY <3>1, <3>2 DEF Published
  <2>4. CASE PublishManifest(l)
    BY <2>4 DEF PublishManifest
  <2>5. CASE VerifyManifest(l) \/ SignManifest(l)
    BY <2>5 DEF VerifyManifest, SignManifest, Published
  <2>6. CASE FailPublishing(l)
    BY <2>2, <2>6 DEF FailPublishing, Phases, Published
  <2> QED
    BY <2>3, <2>4, <2>5, <2>6 DEF RegularStep
<1>5. CASE /\ UNCHANGED testing
           /\ run'[l].phase \in Published => run[l].phase \in Published
  <2>1. TagsNewest'
    BY <1>1, <1>5, NewestKept, LaneFacts DEF CalmInv, TagsNewest
  <2> QED
    BY <1>1, <1>3, <1>5, <2>1, NewestKept
    DEF CalmInv, TestsNewest, RecordsNewest, RecordNewest, testVars
<1>6. CASE testing' = [testing EXCEPT ![Uranium] = IndexBuilt(l)]
  <2>1. /\ testing'[Uranium].commit = run[l].commit
        /\ testing'[Nvidia] = testing[Nvidia]
        /\ \A t \in tests : t.variant \in {Uranium, Nvidia}
    BY <1>6 DEF CalmInv, TypeOK, TestsTyped, Tests, Variants, Uranium, Nvidia, IndexBuilt
  <2>2. TagsNewest'
    BY <1>1, <1>2, <2>1, NewestKept DEF CalmInv, TagsNewest
  <2>3. TestsNewest'
    BY <1>1, <1>2, <2>1, NewestKept DEF CalmInv, TestsNewest, testVars
  <2> QED
    BY <1>1, <1>3, <2>2, <2>3, NewestKept DEF CalmInv, RecordsNewest, RecordNewest, testVars
<1> QED
  BY <1>4, <1>5, <1>6

(* A test is dispatched for a tag that names the newest change.            *)
LEMMA CalmDispatch ==
  ASSUME CalmInv, NEW v \in Variants, NEW i, NEW c \in {0, head}, DispatchOn(v, i, c),
         Newest(testing[v].commit, head), UNCHANGED <<head, changes, testing>>
  PROVE  TestsNewest'
BY NewestKept DEF CalmInv, TestsNewest, DispatchOn

LEMMA CalmTrigger ==
  ASSUME CalmInv, TriggerPostTesting
  PROVE  BuildsNewest' /\ TagsNewest' /\ TestsNewest' /\ RecordsNewest'
<1>1. /\ run' = [run EXCEPT ![Regular] = IdleRun]
      /\ run[Regular].phase \in Published
      /\ DispatchOn(Uranium, IndexBuilt(Regular), head) /\ Uranium \in Variants
      /\ UNCHANGED <<head, changes, waiting, outcome, assembly, pending, testing, passed>>
  BY DEF TriggerPostTesting, Dispatch, StepTo, Published, Variants, assemblyVars
<1>2. /\ \A k \in Lanes \ {Regular} : run'[k] = run[k]
      /\ run'[Regular].phase = "idle"
  BY <1>1, LaneFacts, RunFacts DEF CalmInv, TypeOK
<1>3. BuildsNewest'
  BY <1>1, <1>2, NewestKept DEF CalmInv, BuildsNewest
<1>4. TagsNewest'
  BY <1>1, <1>2, NewestKept DEF CalmInv, TagsNewest, Published
<1>5. TestsNewest'
  BY <1>1, CalmDispatch DEF CalmInv, TagsNewest
<1> QED
  BY <1>1, <1>3, <1>4, <1>5, NewestKept DEF CalmInv, RecordsNewest, RecordNewest

LEMMA CalmArchBuild ==
  ASSUME CalmInv, NEW a \in Architectures, NEW conclusion \in Conclusions,
         EndArchBuild(a, conclusion)
  PROVE  BuildsNewest' /\ TagsNewest' /\ TestsNewest' /\ RecordsNewest'
<1> DEFINE l == ArchLane(a)
           c == run[l].commit
<1>1. /\ l \in Lanes /\ l # Regular
      /\ run' = [run EXCEPT ![l] = IdleRun]
      /\ Newest(c, head) /\ run[l].phase = "build"
      /\ outcome' = [outcome EXCEPT ![a][c] = conclusion]
      /\ UNCHANGED <<head, changes, waiting, testing, testVars>>
      /\ AskForAssembly(c, conclusion)
  BY LaneFacts DEF EndArchBuild, Completed, StepTo, CalmInv, BuildsNewest
<1>2. c \in Commits /\ c \in changes
  <2>1. c \in changes
    BY <1>1 DEF Newest
  <2>2. changes \subseteq Commits
    BY CommitsAssumption DEF CalmInv, TypeOK, TestsTyped, Commits
  <2> QED
    BY <2>1, <2>2
<1>3. /\ \A k \in Lanes \ {l} : run'[k] = run[k]
      /\ run'[l].phase = "idle"
  BY <1>1, RunFacts DEF CalmInv, TypeOK
<1>4. \A b \in Architectures, d \in Commits : outcome'[b][d] # NoTrigger => d \in changes
  BY <1>1, <1>2 DEF CalmInv, TypeOK, BuildsNewest, Builds
<1> HIDE DEF l, c
<1>5. /\ \A d \in Commits \ {c} : assembly'[d] = assembly[d] /\ pending'[d] = pending[d]
      /\ assembly'[c] \notin Published \/ assembly'[c] = assembly[c]
      /\ pending'[c] # NoTrigger => assembly'[c] # "idle"
  BY <1>1, <1>2
  DEF AskForAssembly, Begin, Published, CalmInv, TypeOK, BuildsNewest
<1>6. BuildsNewest'
  BY <1>1, <1>2, <1>3, <1>4, <1>5, NewestKept DEF CalmInv, BuildsNewest
<1>7. TagsNewest'
  BY <1>1, <1>2, <1>3, <1>5, NewestKept, LaneFacts DEF CalmInv, TagsNewest
<1> QED
  BY <1>1, <1>6, <1>7, NewestKept DEF CalmInv, TestsNewest, RecordsNewest, RecordNewest, testVars

LEMMA CalmAssembly ==
  ASSUME CalmInv, NEW c \in Commits, AssemblyStep(c)
  PROVE  BuildsNewest' /\ TagsNewest' /\ TestsNewest' /\ RecordsNewest'
<1>1. /\ UNCHANGED <<head, changes, run, waiting, outcome, passed>>
      /\ assembly[c] # "idle"
  BY DEF AssemblyStep, FindRuns, PublishNvidia, VerifyNvidia, SignNvidia, TriggerNvidia,
         FailAssembly, buildVars, testVars
<1>2. Newest(c, head)
  BY <1>1 DEF CalmInv, BuildsNewest
<1>3. /\ \A d \in Commits \ {c} : assembly'[d] = assembly[d] /\ pending'[d] = pending[d]
      /\ pending'[c] # NoTrigger => assembly'[c] # "idle"
  <2>1. CASE EndAssembly(c)
    BY <2>1 DEF EndAssembly, CalmInv, TypeOK
  <2>2. ASSUME NEW p \in AssemblyPhases \ {"idle"}, AssemblyTo(c, p)
        PROVE  /\ \A d \in Commits \ {c} : assembly'[d] = assembly[d] /\ pending'[d] = pending[d]
               /\ assembly'[c] # "idle"
    BY <2>2 DEF AssemblyTo, CalmInv, TypeOK
  <2> QED
    BY <2>1, <2>2
    DEF AssemblyStep, FindRuns, PublishNvidia, VerifyNvidia, SignNvidia, TriggerNvidia,
        FailAssembly, AssemblyPhases
<1>4. BuildsNewest'
  BY <1>1, <1>2, <1>3, NewestKept DEF CalmInv, BuildsNewest
<1>5. CASE PublishNvidia(c)
  <2>1. /\ testing' = [testing EXCEPT ![Nvidia] = [commit |-> c, archs |-> Succeeded(c)]]
        /\ UNCHANGED tests
    BY <1>5 DEF PublishNvidia, testVars
  <2>2. /\ testing'[Nvidia].commit = c
        /\ testing'[Uranium] = testing[Uranium]
        /\ \A t \in tests : t.variant \in {Uranium, Nvidia}
    BY <2>1 DEF CalmInv, TypeOK, TestsTyped, Tests, Variants, Uranium, Nvidia
  <2>3. TagsNewest'
    BY <1>1, <1>2, <2>2, NewestKept DEF CalmInv, TagsNewest
  <2>4. TestsNewest'
    BY <1>1, <1>2, <2>1, <2>2, NewestKept DEF CalmInv, TestsNewest
  <2> QED
    BY <1>1, <1>4, <2>3, <2>4, NewestKept DEF CalmInv, RecordsNewest, RecordNewest
<1>6. CASE ~PublishNvidia(c)
  <2>1. /\ UNCHANGED testing
        /\ assembly'[c] \in Published => assembly[c] \in Published
        /\ \/ UNCHANGED tests
           \/ /\ assembly[c] \in Published
              /\ \E d \in {0, head} : DispatchOn(Nvidia, IndexOf(c), d)
    BY <1>6
    DEF AssemblyStep, FindRuns, VerifyNvidia, SignNvidia, TriggerNvidia, FailAssembly,
        EndAssembly, AssemblyTo, Begin, Published, CalmInv, TypeOK, testVars
  <2>2. TagsNewest'
    BY <1>1, <1>3, <2>1, NewestKept DEF CalmInv, TagsNewest
  <2>3. TestsNewest'
    BY <1>1, <2>1, CalmDispatch, NewestKept DEF CalmInv, TestsNewest, TagsNewest, Variants
  <2> QED
    BY <1>1, <1>4, <2>2, <2>3, NewestKept DEF CalmInv, RecordsNewest, RecordNewest
<1> QED
  BY <1>5, <1>6

LEMMA CalmTest ==
  ASSUME CalmInv, NEW v \in Variants, TestStep(v)
  PROVE  BuildsNewest' /\ TagsNewest' /\ TestsNewest' /\ RecordsNewest'
<1>1. /\ UNCHANGED <<head, changes, run, waiting, outcome, assembly, pending, testing>>
      /\ \E t \in tests : Proceed(t) \/ Finish(t)
  BY DEF TestStep, RunTests, buildVars, assemblyVars
<1>2. BuildsNewest' /\ TagsNewest'
  BY <1>1, NewestKept DEF CalmInv, BuildsNewest, TagsNewest
<1> SUFFICES TestsNewest' /\ RecordsNewest'
  BY <1>2
<1> PICK t \in tests : Proceed(t) \/ Finish(t)
  BY <1>1
<1>3. /\ t \in Tests /\ t.commit \in {0, head}
      /\ Newest(testing[t.variant].commit, head)
      /\ t.phase # "asked" => Newest(t.digest.commit, head)
  BY DEF CalmInv, TypeOK, TestsTyped, TestsNewest
<1>4. ASSUME NEW u, ReplaceBy(t, u), u.commit = t.commit, u.variant = t.variant,
             Newest(u.digest.commit, head)
      PROVE  TestsNewest' /\ RecordsNewest'
  <2>1. tests' \subseteq tests \cup {u} /\ passed' = passed
    BY <1>4 DEF ReplaceBy
  <2> QED
    BY <1>1, <1>3, <1>4, <2>1, NewestKept DEF CalmInv, TestsNewest, RecordsNewest, RecordNewest
<1>5. CASE ReplaceBy(t, [t EXCEPT !.phase = "resolved", !.digest = testing[t.variant]])
  <2> DEFINE u == [t EXCEPT !.phase = "resolved", !.digest = testing[t.variant]]
  <2>1. u.commit = t.commit /\ u.variant = t.variant /\ u.digest = testing[t.variant]
    BY <1>3 DEF Tests
  <2>2. ReplaceBy(t, u)
    BY <1>5
  <2> HIDE DEF u
  <2> QED
    BY <1>3, <1>4, <2>1, <2>2
<1>6. CASE t.phase = "resolved" /\ ReplaceBy(t, [t EXCEPT !.phase = "checked"])
  <2> DEFINE u == [t EXCEPT !.phase = "checked"]
  <2>1. u.commit = t.commit /\ u.variant = t.variant /\ u.digest = t.digest
    BY <1>3 DEF Tests
  <2>2. ReplaceBy(t, u)
    BY <1>6
  <2> HIDE DEF u
  <2> QED
    BY <1>3, <1>4, <1>6, <2>1, <2>2
<1>7. CASE t.phase # "asked" /\ Pass(t)
  <2> DEFINE r == [variant |-> t.variant, commit |-> t.commit,
                   digest |-> t.digest, pulled |-> testing[t.variant]]
  <2>1. tests' \subseteq tests /\ passed' = passed \cup {r}
    BY <1>7 DEF Pass
  <2>2. head <= head
    BY CommitsAssumption DEF CalmInv, TypeOK, TestsTyped
  <2>3. RecordNewest(r)
    BY <1>3, <1>7, <2>2 DEF RecordNewest
  <2>4. RecordsNewest'
    BY <1>1, <2>1, <2>3, NewestKept DEF CalmInv, RecordsNewest, RecordNewest
  <2> QED
    BY <1>1, <2>1, <2>4, NewestKept DEF CalmInv, TestsNewest
<1>8. CASE tests' = tests \ {t} /\ passed' = passed
  BY <1>1, <1>8, NewestKept DEF CalmInv, TestsNewest, RecordsNewest, RecordNewest
<1> QED
  BY <1>2, <1>3, <1>5, <1>6, <1>7, <1>8, TestMoves

LEMMA CalmStep ==
  ASSUME IsCalm, CalmInv, [Next]_vars, TypeOK'
  PROVE  CalmInv'
<1>1. CASE UNCHANGED vars
  BY <1>1, NewestKept
  DEF vars, buildVars, assemblyVars, testVars, CalmInv, BuildsNewest, TagsNewest,
      TestsNewest, RecordsNewest, RecordNewest
<1>2. CASE Next
  <2>1. ~\E c \in Commits : MergeGroup(c)
    BY DEF MergeGroup, IsCalm
  <2> QED
    BY <1>2, <2>1, NextCases, CalmPush, CalmBegin, CalmRerun, CalmRegular, CalmTrigger,
       CalmArchBuild, CalmAssembly, CalmTest DEF CalmInv
<1> QED
  BY <1>1, <1>2

LEMMA FollowedKept == [Next]_vars => UNCHANGED followed
<1> SUFFICES ASSUME [Next]_vars PROVE UNCHANGED followed
  OBVIOUS
<1>1. CASE \/ PushImage \/ PushDocs \/ TriggerPostTesting
           \/ \E l \in PushLanes : StartBuild(l)
           \/ \E c \in Commits : MergeGroup(c)
           \/ \E a \in Architectures, c \in Commits : RerunArchBuild(a, c)
           \/ \E a \in Architectures, conclusion \in Conclusions : EndArchBuild(a, conclusion)
  BY <1>1 DEF PushImage, PushDocs, TriggerPostTesting, StartBuild, MergeGroup, RerunArchBuild,
              EndArchBuild
<1>2. CASE \E l \in Lanes \ ArchLanes : RegularStep(l)
  BY <1>2 DEF RegularStep, EndBuild, PublishManifest, VerifyManifest, SignManifest, FailPublishing
<1>3. CASE \E c \in Commits : AssemblyStep(c)
  BY <1>3 DEF AssemblyStep, FindRuns, PublishNvidia, VerifyNvidia, SignNvidia, TriggerNvidia,
              FailAssembly
<1>4. CASE \E v \in Variants : TestStep(v)
  BY <1>4 DEF TestStep
<1>5. CASE UNCHANGED vars
  BY <1>5 DEF vars
<1> QED
  BY <1>1, <1>2, <1>3, <1>4, <1>5, NextCases

(* When pushes wait for the builds and the tests under way, a recorded     *)
(* end-to-end run has tested the images of the commit it is recorded on,   *)
(* whichever builds, jobs and suites fail or are run again.                *)
THEOREM CalmTestsTheirRevision == Spec => []CalmTestedRevision
<1> DEFINE Inv == TypeOK /\ BuildsOK /\ (IsCalm => CalmInv)
<1>1. Init => Inv
  <2> SUFFICES ASSUME Init PROVE BuildsNewest /\ TagsNewest /\ TestsNewest /\ RecordsNewest
    BY InitTypeOK, InitBuildsOK DEF CalmInv
  <2>1. \A l \in Lanes : run[l].phase = "idle"
    BY RunFacts DEF Init
  <2>2. /\ \A a \in Architectures, c \in Commits : outcome[a][c] = NoTrigger
        /\ \A c \in Commits : assembly[c] = "idle" /\ pending[c] = NoTrigger
        /\ \A l \in PushLanes : waiting[l] = 0
    BY DEF Init, Builds
  <2>3. BuildsNewest
    BY <2>1, <2>2 DEF BuildsNewest
  <2>4. TagsNewest
    BY <2>1, <2>2, LaneFacts DEF TagsNewest, Published
  <2> QED
    BY <2>3, <2>4 DEF Init, NoTests, TestsNewest, RecordsNewest
<1>2. Inv /\ [Next]_vars => Inv'
  <2> SUFFICES ASSUME Inv, [Next]_vars PROVE Inv'
    OBVIOUS
  <2>1. TypeOK' /\ BuildsOK'
    BY TypeStep, BuildsStep
  <2>2. IsCalm' => IsCalm
    BY FollowedKept DEF IsCalm
  <2> QED
    BY <2>1, <2>2, CalmStep
<1>3. CalmInv => TestedRevision
  <2> SUFFICES ASSUME CalmInv, NEW c, NEW d, Newest(d, c) PROVE d = Content(c)
    BY DEF TestedRevision, CalmInv, RecordsNewest, RecordNewest
  <2> DEFINE earlier == {e \in changes : e <= c}
  <2>1. /\ d \in earlier
        /\ \A e \in earlier : e <= d
        /\ \A e \in earlier : e \in Nat
    BY DEF CalmInv, TypeOK, Newest
  <2>2. \A x \in earlier : (\A e \in earlier : e <= x) => x = d
    BY <2>1
  <2> QED
    BY <2>1, <2>2 DEF Content
<1>4. Inv => CalmTestedRevision
  BY <1>3 DEF CalmTestedRevision
<1> QED
  BY <1>1, <1>2, <1>4, PTL DEF Spec
=============================================================================
