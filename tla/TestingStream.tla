---------------------------- MODULE TestingStream ----------------------------
(***************************************************************************)
(* From a push to the testing branch to a recorded end-to-end run:         *)
(* .github/workflows/build-regular.yml, build-nvidia.yml and               *)
(* build-nvidia-aarch64.yml, build-nvidia-manifest.yml, post-testing-e2e   *)
(* .yml and post-testing-e2e-nvidia.yml.  Every job of every run may       *)
(* interleave with every other, within GitHub's concurrency groups.        *)
(***************************************************************************)
EXTENDS PostTesting

CONSTANTS
  Slices,        \* bound: variants a behaviour may follow, with "patience"
                 \* where pushes wait for builds and tests, and nothing
                 \* goes through the merge queue of main meanwhile
  HeadBranches,  \* what a workflow_run event reports as head_branch
  MaxReruns      \* bound: failed NVIDIA builds run again by hand

ASSUME StreamAssumption ==
  /\ Slices \subseteq SUBSET (Variants \cup {"patience"})
  /\ HeadBranches \subseteq {"testing", "main"}
  /\ MaxReruns \in Nat

(* The workflow and the ref a concurrency group is named after: pushes     *)
(* share the group of the testing ref, 0 here, and every merge group is a  *)
(* ref of its own.                                                         *)
Regular == <<"build-regular", 0>>
ArchLane(a) == <<"build-nvidia", a>>
ArchLanes == {ArchLane(a) : a \in Architectures}
QueueLane(c) == <<"build-regular", c>>
PushLanes == {Regular} \cup ArchLanes
Lanes == PushLanes \cup {QueueLane(c) : c \in Commits}

Phases == {"idle", "build", "publish", "verify", "sign", "trigger"}
Runs == [phase : Phases, commit : 0..MaxCommits, archs : SUBSET Architectures,
         stopped : BOOLEAN]
IdleRun == [phase |-> "idle", commit |-> 0, archs |-> {}, stopped |-> FALSE]
NewRun(c) == [IdleRun EXCEPT !.phase = "build", !.commit = c]

AssemblyPhases == {"idle", "find", "publish", "verify", "sign", "trigger"}
Conclusions == {"success", "failure"}

(* The builds of a push: one of uranium, one of each uranium-nvidia.       *)
Builds == {Uranium} \cup Architectures

VARIABLES
  followed,  \* the variants this behaviour is about, and its patience
  changes,   \* commits that touch more than workflows and documentation
  run,       \* run[l]: the run that holds concurrency group l
  waiting,   \* waiting[l]: the commit of the pending run of a push group
  queued,    \* commits the merge queue of main has tested
  outcome,   \* outcome[b][c]: how the latest build b of push c ended
  reruns,    \* NVIDIA builds run again so far
  assembly,  \* assembly[c]: the manifest run of head_sha c
  pending,   \* pending[c]: what triggered the pending manifest run of c
  signed,    \* <<variant, digest>> pairs that carry a signature
  red        \* <<variant, commit>> pairs whose publishing job failed

buildVars == <<run, waiting, queued, outcome, reruns>>
assemblyVars == <<assembly, pending>>
vars == <<followed, head, changes, buildVars, assemblyVars, testing, signed, red, testVars>>

NoTrigger == "none"

IsCalm == "patience" \in followed

Init ==
  /\ followed \in Slices
  /\ changes = {}
  /\ run = [l \in Lanes |-> IdleRun]
  /\ waiting = [l \in PushLanes |-> 0]
  /\ queued = {}
  /\ outcome = [b \in Builds |-> [c \in Commits |-> NoTrigger]]
  /\ reruns = 0
  /\ assembly = [c \in Commits |-> "idle"]
  /\ pending = [c \in Commits |-> NoTrigger]
  /\ signed = {}
  /\ red = {}
  /\ NoTests

-----------------------------------------------------------------------------
(* Nothing is being built, assembled or tested.                            *)
BuildsDone ==
  /\ \A l \in Lanes : run[l].phase = "idle"
  /\ \A l \in PushLanes : waiting[l] = 0
  /\ \A c \in Commits : assembly[c] = "idle"
  /\ tests = {}

LanesFollowed ==
  {l \in PushLanes : (IF l = Regular THEN Uranium ELSE Nvidia) \in followed}

(* A push of anything but workflows and documentation asks for a run of    *)
(* every build workflow and stops the one under way (cancel-in-progress),  *)
(* which matters to its build only: the jobs behind it say if: always().   *)
PushImage ==
  /\ head < MaxCommits
  /\ IsCalm => BuildsDone
  /\ head' = head + 1
  /\ changes' = changes \cup {head + 1}
  /\ run' = [l \in Lanes |->
               [run[l] EXCEPT !.stopped =
                  run[l].phase = "build" /\ (run[l].stopped \/ l \in PushLanes)]]
  /\ waiting' = [l \in PushLanes |-> IF l \in LanesFollowed THEN head + 1 ELSE 0]
  /\ UNCHANGED <<followed, queued, outcome, reruns, assemblyVars, testing, signed, red, testVars>>

(* paths-ignore: the head moves and nothing is built.                      *)
PushDocs ==
  /\ head < MaxCommits
  /\ IsCalm => BuildsDone
  /\ head' = head + 1
  /\ UNCHANGED <<followed, changes, buildVars, assemblyVars, testing, signed, red, testVars>>

StartBuild(l) ==
  /\ run[l].phase = "idle"
  /\ waiting[l] # 0
  /\ run' = [run EXCEPT ![l] = NewRun(waiting[l])]
  /\ waiting' = [waiting EXCEPT ![l] = 0]
  /\ UNCHANGED <<followed, head, changes, queued, outcome, reruns, assemblyVars, testing,
                 signed, red, testVars>>

(* Mutant of MergeGroup: any commit, pushed to testing or not.             *)
MergeGroupAny(c) ==
  /\ ~IsCalm
  /\ Uranium \in followed
  /\ c \notin queued
  /\ queued' = queued \cup {c}
  /\ run' = [run EXCEPT ![QueueLane(c)] = NewRun(c)]
  /\ UNCHANGED <<followed, head, changes, waiting, outcome, reruns, assemblyVars, testing,
                 signed, red, testVars>>

(* The promotion of c waits in the merge queue of main: build-regular runs *)
(* for the merge group as it does for a push.                              *)
MergeGroup(c) ==
  /\ ~IsCalm
  /\ Uranium \in followed
  /\ c <= head
  /\ c \notin queued
  /\ queued' = queued \cup {c}
  /\ run' = [run EXCEPT ![QueueLane(c)] = NewRun(c)]
  /\ UNCHANGED <<followed, head, changes, waiting, outcome, reruns, assemblyVars, testing,
                 signed, red, testVars>>

-----------------------------------------------------------------------------
(* build-regular.yml.  The build job, an external reusable workflow, ends  *)
(* with the digests of the architectures it pushed; create-manifest runs   *)
(* whatever became of it (if: always()) and needs at least one.            *)
EndBuild(l, archs, conclusion) ==
  /\ run[l].phase = "build"
  /\ conclusion = "success" => archs = Architectures
  /\ conclusion = "failure" => run[l].stopped \/ "build" \in Faults
  /\ run' = [run EXCEPT ![l] =
               IF archs = {} THEN IdleRun
               ELSE [run[l] EXCEPT !.phase = "publish", !.archs = archs]]
  /\ outcome' = IF l = Regular
                  THEN [outcome EXCEPT ![Uranium][run[l].commit] = conclusion] ELSE outcome
  /\ red' = IF archs = {} THEN red \cup {<<Uranium, run[l].commit>>} ELSE red
  /\ UNCHANGED <<followed, head, changes, waiting, queued, reruns, assemblyVars,
                 testing, signed, testVars>>

IndexBuilt(l) == [commit |-> run[l].commit, archs |-> run[l].archs]

StepTo(l, next) == run' = [run EXCEPT ![l] =
  IF next = "idle" THEN IdleRun ELSE [run[l] EXCEPT !.phase = next]]

PublishManifest(l) ==
  /\ run[l].phase = "publish"
  /\ testing' = [testing EXCEPT ![Uranium] = IndexBuilt(l)]
  /\ StepTo(l, "verify")
  /\ UNCHANGED <<followed, head, changes, waiting, queued, outcome, reruns, assemblyVars,
                 signed, red, testVars>>

(* Mutant of VerifyManifest: a partial index ends the job without failing. *)
VerifyManifestQuietly(l) ==
  /\ run[l].phase = "verify"
  /\ StepTo(l, IF MultiArch(IndexBuilt(l)) THEN "sign" ELSE "idle")
  /\ UNCHANGED <<followed, head, changes, waiting, queued, outcome, reruns, assemblyVars,
                 testing, signed, red, testVars>>

(* The manifest is checked once :testing names it.                         *)
VerifyManifest(l) ==
  /\ run[l].phase = "verify"
  /\ IF MultiArch(IndexBuilt(l))
       THEN StepTo(l, "sign") /\ UNCHANGED red
       ELSE StepTo(l, "idle") /\ red' = red \cup {<<Uranium, run[l].commit>>}
  /\ UNCHANGED <<followed, head, changes, waiting, queued, outcome, reruns, assemblyVars,
                 testing, signed, testVars>>

(* Only a run on the testing ref goes on to dispatch a test, and only if   *)
(* all of its build succeeded.                                             *)
SignManifest(l) ==
  /\ run[l].phase = "sign"
  /\ signed' = signed \cup {<<Uranium, IndexBuilt(l)>>}
  /\ StepTo(l, IF l = Regular /\ outcome[Uranium][run[l].commit] = "success"
                 THEN "trigger" ELSE "idle")
  /\ UNCHANGED <<followed, head, changes, waiting, queued, outcome, reruns, assemblyVars,
                 testing, red, testVars>>

TriggerPostTesting ==
  /\ run[Regular].phase = "trigger"
  /\ Dispatch(Uranium, IndexBuilt(Regular))
  /\ StepTo(Regular, "idle")
  /\ UNCHANGED <<followed, head, changes, waiting, queued, outcome, reruns, assemblyVars,
                 testing, signed, red, passed>>

(* Mutant of FailPublishing: the trigger job does not look at the results  *)
(* of the others, and hands on an empty digest.                            *)
FailPublishingTriggers(l) ==
  /\ "step" \in Faults
  /\ run[l].phase \in {"publish", "verify", "sign", "trigger"}
  /\ StepTo(l, "idle")
  /\ red' = red \cup {<<Uranium, run[l].commit>>}
  /\ Dispatch(Uranium, NoIndex)
  /\ UNCHANGED <<followed, head, changes, waiting, queued, outcome, reruns, assemblyVars,
                 testing, signed, passed>>

FailPublishing(l) ==
  /\ "step" \in Faults
  /\ run[l].phase \in {"publish", "verify", "sign", "trigger"}
  /\ StepTo(l, "idle")
  /\ red' = red \cup {<<Uranium, run[l].commit>>}
  /\ UNCHANGED <<followed, head, changes, waiting, queued, outcome, reruns, assemblyVars,
                 testing, signed, testVars>>

-----------------------------------------------------------------------------
(* build-nvidia.yml and build-nvidia-aarch64.yml, and the workflow_run     *)
(* event their completion raises.  Manifest runs share a group per commit: *)
(* one runs, one waits, and a newer one takes the place of the waiting.    *)
Begin(conclusion) == IF conclusion = "success" THEN "find" ELSE "idle"

AskForAssembly(c, conclusion) ==
  IF assembly[c] = "idle"
    THEN assembly' = [assembly EXCEPT ![c] = Begin(conclusion)] /\ UNCHANGED pending
    ELSE pending' = [pending EXCEPT ![c] = conclusion] /\ UNCHANGED assembly

(* Mutant of Completed: workflow_run names the amd64 workflow only.        *)
CompletedAmd64(a, c, conclusion) ==
  IF a = "amd64" THEN AskForAssembly(c, conclusion) ELSE UNCHANGED assemblyVars

Completed(a, c, conclusion) == AskForAssembly(c, conclusion)

EndArchBuild(a, conclusion) ==
  LET c == run[ArchLane(a)].commit IN
  /\ run[ArchLane(a)].phase = "build"
  /\ conclusion = "failure" => run[ArchLane(a)].stopped \/ "build" \in Faults
  /\ StepTo(ArchLane(a), "idle")
  /\ outcome' = [outcome EXCEPT ![a][c] = conclusion]
  /\ Completed(a, c, conclusion)
  /\ UNCHANGED <<followed, head, changes, waiting, queued, reruns, testing, signed, red, testVars>>

(* A failed build is run again by hand: it takes the place of a build that *)
(* waits and stops the one under way, be they of a newer commit            *)
(* (cancel-in-progress).  The patient let old ones be.                     *)
RerunArchBuild(a, c) ==
  LET l == ArchLane(a) IN
  /\ reruns < MaxReruns
  /\ outcome[a][c] = "failure"
  /\ IsCalm => c = head
  /\ reruns' = reruns + 1
  /\ waiting' = [waiting EXCEPT ![l] = c]
  /\ run' = [run EXCEPT ![l].stopped = run[l].phase = "build"]
  /\ outcome' = [outcome EXCEPT ![a][c] = NoTrigger]
  /\ UNCHANGED <<followed, head, changes, queued, assemblyVars, testing, signed, red, testVars>>

(* The manifest run of c ends and the waiting one, if any, takes over.     *)
EndAssembly(c) ==
  /\ assembly' = [assembly EXCEPT ![c] = Begin(pending[c])]
  /\ pending' = [pending EXCEPT ![c] = NoTrigger]

AssemblyTo(c, next) ==
  /\ assembly' = [assembly EXCEPT ![c] = next]
  /\ UNCHANGED pending

Succeeded(c) == {a \in Architectures : outcome[a][c] = "success"}

(* Mutant of BothBuilt: one architecture will do.                          *)
EitherBuilt(c) == Succeeded(c) # {}

(* find-runs and the merge of the digests: both architectures, or a clean  *)
(* exit and whichever completes next looks again.                          *)
BothBuilt(c) == Succeeded(c) = Architectures

FindRuns(c) ==
  /\ assembly[c] = "find"
  /\ IF BothBuilt(c)
       THEN AssemblyTo(c, "publish")
       ELSE EndAssembly(c)
  /\ UNCHANGED <<followed, head, changes, buildVars, testing, signed, red, testVars>>

PublishNvidia(c) ==
  /\ assembly[c] = "publish"
  /\ testing' = [testing EXCEPT ![Nvidia] = [commit |-> c, archs |-> Succeeded(c)]]
  /\ AssemblyTo(c, "verify")
  /\ UNCHANGED <<followed, head, changes, buildVars, signed, red, testVars>>

(* Verify and sign look at the digest this run published, not at the tag.  *)
VerifyNvidia(c) ==
  /\ assembly[c] = "verify"
  /\ AssemblyTo(c, "sign")
  /\ UNCHANGED <<followed, head, changes, buildVars, testing, signed, red, testVars>>

SignNvidia(c) ==
  /\ assembly[c] = "sign"
  /\ signed' = signed \cup {<<Nvidia, IndexOf(c)>>}
  /\ AssemblyTo(c, "trigger")
  /\ UNCHANGED <<followed, head, changes, buildVars, testing, red, testVars>>

(* Mutant of TriggerNvidia: the step is skipped unless head_branch says    *)
(* testing.                                                                *)
TriggerNvidiaOfTesting(c, branch) ==
  /\ assembly[c] = "trigger"
  /\ IF branch = "testing" THEN Dispatch(Nvidia, IndexOf(c)) ELSE UNCHANGED tests
  /\ EndAssembly(c)
  /\ UNCHANGED <<followed, head, changes, buildVars, testing, signed, red, passed>>

(* --ref head_branch, which often is main: the test is then recorded on    *)
(* the head of main.                                                       *)
TriggerNvidia(c, branch) ==
  /\ assembly[c] = "trigger"
  /\ DispatchOn(Nvidia, IndexOf(c), IF branch = "testing" THEN head ELSE 0)
  /\ EndAssembly(c)
  /\ UNCHANGED <<followed, head, changes, buildVars, testing, signed, red, passed>>

FailAssembly(c) ==
  /\ "step" \in Faults
  /\ assembly[c] \in {"publish", "verify", "sign", "trigger"}
  /\ EndAssembly(c)
  /\ red' = red \cup {<<Nvidia, c>>}
  /\ UNCHANGED <<followed, head, changes, buildVars, testing, signed, testVars>>

-----------------------------------------------------------------------------
BuildStep ==
  \/ \E l \in PushLanes : StartBuild(l)
  \/ \E l \in Lanes \ ArchLanes :
       \/ \E archs \in SUBSET Architectures, conclusion \in Conclusions :
            EndBuild(l, archs, conclusion)
       \/ PublishManifest(l) \/ VerifyManifest(l) \/ SignManifest(l)
       \/ FailPublishing(l)
  \/ TriggerPostTesting
  \/ \E a \in Architectures, conclusion \in Conclusions : EndArchBuild(a, conclusion)

AssemblyStep(c) ==
  \/ FindRuns(c) \/ PublishNvidia(c) \/ VerifyNvidia(c) \/ SignNvidia(c)
  \/ \E branch \in HeadBranches : TriggerNvidia(c, branch)
  \/ FailAssembly(c)

TestStep(v) ==
  /\ RunTests(v)
  /\ UNCHANGED <<followed, changes, buildVars, assemblyVars, signed, red>>

SystemStep == BuildStep \/ (\E c \in Commits : AssemblyStep(c)) \/ (\E v \in Variants : TestStep(v))

Next ==
  \/ PushImage \/ PushDocs
  \/ \E c \in Commits : MergeGroup(c)
  \/ \E a \in Architectures, c \in Commits : RerunArchBuild(a, c)
  \/ SystemStep

Spec == Init /\ [][Next]_vars

(* A job that can run is run by some runner; people may stop pushing,      *)
(* merging and re-running at any time.                                     *)
FairSpec ==
  /\ Spec
  /\ WF_vars(BuildStep)
  /\ \A c \in Commits : WF_vars(AssemblyStep(c))
  /\ \A v \in Variants : WF_vars(TestStep(v))

-----------------------------------------------------------------------------
TypeOK ==
  /\ followed \in Slices
  /\ changes \subseteq 1..head
  /\ run \in [Lanes -> Runs]
  /\ waiting \in [PushLanes -> 0..head]
  /\ queued \subseteq 1..head
  /\ outcome \in [Builds -> [Commits -> Conclusions \cup {NoTrigger}]]
  /\ reruns \in 0..MaxReruns
  /\ assembly \in [Commits -> AssemblyPhases]
  /\ pending \in [Commits -> Conclusions \cup {NoTrigger}]
  /\ signed \subseteq Variants \X Indexes
  /\ red \subseteq Variants \X Commits
  /\ TestsTyped

(* What the streams promise their readers: uranium-nvidia:testing always   *)
(* names a complete index, however the two architectures' builds, re-runs  *)
(* and manifest runs interleave, and only complete indexes are signed.     *)
Tags == INSTANCE TestingTags
TagsSpec == Tags!Spec

(* :testing is moved before the new index is verified and signed.  When it *)
(* names something unsigned, a job is about to sign it or has failed, so   *)
(* nobody finds an unsigned stream and every workflow green.               *)
UnsignedAccounted ==
  \A v \in Variants : LET i == testing[v] IN
    i # NoIndex /\ <<v, i>> \notin signed =>
      \/ <<v, i.commit>> \in red
      \/ v = Uranium /\ \E l \in Lanes :
           run[l].phase \in {"verify", "sign"} /\ IndexBuilt(l) = i
      \/ v = Nvidia /\ assembly[i.commit] \in {"verify", "sign"}

(* What a commit's images are built from: the last change up to it.        *)
Content(c) == LET earlier == {d \in changes : d <= c} IN
  CHOOSE d \in earlier : \A e \in earlier : e <= d

(* The end-to-end run recorded on a commit, which the promotion gate looks *)
(* up by head SHA, has checked and tested the images of that commit.       *)
TestedRevision ==
  \A r \in passed :
    r.commit # 0 => r.digest.commit = Content(r.commit) /\ r.pulled.commit = Content(r.commit)

(* It does for patient pushes.                                             *)
CalmTestedRevision == IsCalm => TestedRevision

(* A green end-to-end run vouches for a complete index that was signed     *)
(* before the run was asked for, and what it looked at last was complete,  *)
(* although tags move before they are signed, the check reads its tag two  *)
(* times and the suite a third (post-testing-e2e.yml, "Verified ... is an  *)
(* amd64/arm64 image index").                                              *)
VouchesForSigned ==
  \A r \in passed :
    <<r.variant, r.digest>> \in signed /\ MultiArch(r.digest) /\ MultiArch(r.pulled)

(* "The sibling's own completion will retry this": when both architectures *)
(* of a commit are built, in whichever order and after whatever re-runs,   *)
(* its index gets assembled and signed, or a red job says why not.         *)
Assembled ==
  \A c \in Commits :
    BothBuilt(c) ~> <<Nvidia, IndexOf(c)>> \in signed \/ <<Nvidia, c>> \in red

(* A test on main says as much of the index, though promotion, which looks *)
(* at the head of testing, does not find it.                               *)
TestedOnMain(v, c) ==
  \E r \in passed : r.variant = v /\ r.commit = 0 /\ r.digest = IndexOf(c)

Tested(c) ==
  /\ Uranium \in followed => TestedOn(Uranium, c)
  /\ Nvidia \in followed => TestedOn(Nvidia, c) \/ TestedOnMain(Nvidia, c)

Failed(c) ==
  \/ \E v \in Variants : <<v, c>> \in red
  \/ \E b \in Builds : outcome[b][c] = "failure"

(* A change that stays the head of testing ends up with a successful       *)
(* end-to-end run of each variant, recorded on it or, for uranium-nvidia,  *)
(* on main when head_branch said so, unless one of its own jobs failed: no *)
(* dispatch is lost.                                                       *)
HeadTested ==
  \A c \in Commits :
    c \in changes /\ head = c ~> head # c \/ Tested(c) \/ Failed(c)
=============================================================================
