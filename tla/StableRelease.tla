---------------------------- MODULE StableRelease ----------------------------
(***************************************************************************)
(* From a recorded end-to-end run to the :stable tags: the promotion of    *)
(* testing to main (promote-testing-to-main.yml, merge-queue-validate.yml) *)
(* and the releases (execute-release.yml).  The streams move underneath as *)
(* TestingTags allows, which is what TestingStream implements; a test is   *)
(* one step here, and PostTesting has the steps it takes.                  *)
(***************************************************************************)
EXTENDS OciImages

CONSTANTS
  Faults,       \* what may go wrong: "build", "step"
  Budgets,      \* bounds: pushes and releases a behaviour may have,
                \* whether it follows tests and promotion, and also the
                \* heartbeat, whether pushes wait for the builds under
                \* way, and what build-nvidia-manifest may find in
                \* head_branch
  MaxReleases,  \* bound on releases over all budgets
  DocsPushes    \* whether some pushes change no image

ASSUME ReleaseAssumption ==
  /\ Faults \subseteq {"build", "step"}
  /\ MaxReleases \in Nat
  /\ Budgets \subseteq [pushes : 0..MaxCommits, releases : 0..MaxReleases,
                       promotes : BOOLEAN, daily : BOOLEAN,
                       patient : BOOLEAN, branches : SUBSET {"testing", "main"}]
  /\ DocsPushes \in BOOLEAN

Releases == 1..MaxReleases

(* A test under way: the commit it is recorded on, 0 for one of main, and  *)
(* the digest it was given, if any.                                        *)
Tests == [variant : Variants, commit : 0..MaxCommits, expects : Digests]

(* The run of promote-testing-to-main that holds its concurrency group:    *)
(* whether it backfills, whether it may merge today, the head it read, and *)
(* the jobs it has left.  The heartbeat does what a push does.             *)
Events == {"push", "tests", "failed tests", "dispatch"}
Jobs == {"wait", "backfill", "promote"}
Evaluations == [backfills : BOOLEAN, window : BOOLEAN, head : Commits, todo : SUBSET Jobs]
NoEvaluation == [todo |-> {}]
NoEvent == "none"

(* What :stable of a variant names: a copy of an index, whose digest the   *)
(* conversion to OCI may have changed.                                     *)
Copies == [of : Indexes, converted : BOOLEAN]
NoCopy == [of |-> NoIndex, converted |-> FALSE]

ReleasePhases == {"unused", "resolve", "verify", "copy", "inspect", "compare",
                  "sign", "green", "red"}
ReleaseRuns == [phase : ReleasePhases, at : Variants, failed : BOOLEAN,
                digest : [Variants -> Digests], promoted : Copies \cup {NoCopy}]
UnusedRun == [phase |-> "unused", at |-> Uranium, failed |-> FALSE,
              digest |-> [v \in Variants |-> NoIndex], promoted |-> NoCopy]

VARIABLES
  budget,        \* the bounds of this behaviour
  head,          \* the head of the testing branch, commits being numbered
  testing,       \* testing[v]: the digest the :testing tag of v resolves to
  tests,         \* end-to-end runs dispatched and not over
  passed,        \* <<variant, head SHA>> of the successful ones
  changes,       \* commits that touch more than workflows and documentation
  published,     \* <<variant, commit>> pairs whose index reached :testing
  signed,        \* <<variant, digest>> pairs signed in the stream
  evaluation,    \* the promotion run, NoEvaluation when there is none
  waiting,       \* the event of the pending promotion run
  queue,         \* the commit in the merge queue of main, 0 for none
  main,          \* the testing commit main was last promoted to
  overtook,      \* commits pushed while a promotion run was under way
  release,       \* release[r]: the r-th run of execute-release
  stable,        \* stable[v]: what the :stable tag of v names
  stableSigned   \* <<variant, copy>> pairs signed by releases

testVars == <<tests, passed>>
streamVars == <<changes, published, signed>>
promotionVars == <<evaluation, waiting, queue, main, overtook>>
releaseVars == <<release, stable, stableSigned>>
vars == <<budget, head, testing, testVars, streamVars, promotionVars, releaseVars>>

Tags == INSTANCE TestingTags

Init ==
  /\ budget \in Budgets
  /\ head = 0
  /\ testing = [v \in Variants |-> NoIndex]
  /\ tests = {}
  /\ passed = {}
  /\ changes = {}
  /\ published = {}
  /\ signed = {}
  /\ evaluation = NoEvaluation
  /\ waiting = NoEvent
  /\ queue = 0
  /\ main = 0
  /\ overtook = {}
  /\ release = [r \in Releases |-> UnusedRun]
  /\ stable = [v \in Variants |-> NoCopy]
  /\ stableSigned = {}

-----------------------------------------------------------------------------
(* Mutant of InWindow: no day of the week ever matches.                    *)
InWindowByHand(event, thursday) == event = "dispatch"

(* check-release-window: Thursdays, and the hotfix escape hatch.           *)
InWindow(event, thursday) == thursday \/ event = "dispatch"

(* A run of the promotion workflow begins; a completed test that failed    *)
(* makes one that skips every job.                                         *)
Begin(event, thursday) ==
  IF event \in {NoEvent, "failed tests"} THEN NoEvaluation
  ELSE [backfills |-> event # "tests", window |-> InWindow(event, thursday),
        head |-> head', todo |-> {"wait"}]

Idle == evaluation = NoEvaluation

(* One run at a time; a newer event takes the place of a pending one.      *)
Ask(event) ==
  \/ /\ Idle
     /\ budget.promotes
     /\ \E thursday \in BOOLEAN : evaluation' = Begin(event, thursday)
     /\ UNCHANGED waiting
  \/ /\ ~Idle
     /\ waiting' = event
     /\ UNCHANGED evaluation
  \/ /\ ~budget.promotes
     /\ UNCHANGED <<evaluation, waiting>>

(* The run goes on with the jobs left, or makes room for the pending one.  *)
GoOn(left) ==
  IF left # {}
    THEN /\ evaluation' = [evaluation EXCEPT !.todo = left]
         /\ UNCHANGED waiting
    ELSE /\ \E thursday \in BOOLEAN : evaluation' = Begin(waiting, thursday)
         /\ waiting' = NoEvent

(* "Stop committing to testing while builds are in progress."              *)
BuildsDone == \A v \in Variants, c \in changes : <<v, IndexOf(c)>> \in signed

Push(image) ==
  /\ head < budget.pushes
  /\ budget.patient => BuildsDone
  /\ image \/ (DocsPushes /\ changes # {})
  /\ head' = head + 1
  /\ changes' = IF image THEN changes \cup {head + 1} ELSE changes
  /\ overtook' = IF Idle THEN overtook ELSE overtook \cup {head + 1}
  /\ Ask("push")
  /\ UNCHANGED <<budget, testing, testVars, published, signed, queue, main, releaseVars>>

(* The daily heartbeat, 04:00 UTC, and the hotfix escape hatch.            *)
Heartbeat(event) ==
  /\ head > 0
  /\ budget.promotes /\ budget.daily
  /\ UNCHANGED head
  /\ Ask(event)
  /\ UNCHANGED <<budget, testing, testVars, streamVars, queue, main, overtook, releaseVars>>

-----------------------------------------------------------------------------
(* Mutant of PublishIndex: builds of pull requests publish as well.        *)
PublishIndexAny(v, c, archs) ==
  /\ <<v, c>> \notin published
  /\ archs = Architectures \/ "build" \in Faults
  /\ Tags!Publish(v, [commit |-> c, archs |-> archs])
  /\ published' = published \cup {<<v, c>>}
  /\ UNCHANGED <<budget, head, testVars, changes, promotionVars, releaseVars>>

(* The streams: the build of a change publishes an index, perhaps partial. *)
PublishIndex(v, c, archs) ==
  /\ c \in changes
  /\ <<v, c>> \notin published
  /\ archs = Architectures \/ "build" \in Faults
  /\ Tags!Publish(v, [commit |-> c, archs |-> archs])
  /\ published' = published \cup {<<v, c>>}
  /\ UNCHANGED <<budget, head, testVars, changes, promotionVars, releaseVars>>

(* gh workflow run --ref: a test of v, recorded on commit c.               *)
Dispatch(v, expects, c) ==
  tests' = tests \cup {[variant |-> v, commit |-> c, expects |-> expects]}

TestedOn(v, c) == <<v, c>> \in passed

(* A complete index gets signed, and its test asked for: uranium's on the  *)
(* head of testing, uranium-nvidia's on that of head_branch.               *)
SignIndex(v, c, branch) ==
  /\ <<v, c>> \in published
  /\ <<v, IndexOf(c)>> \notin signed
  /\ Tags!Sign(v, IndexOf(c))
  /\ IF ~budget.promotes THEN UNCHANGED tests
     ELSE Dispatch(v, IndexOf(c), IF v = Nvidia /\ branch = "main" THEN 0 ELSE head)
  /\ UNCHANGED <<budget, head, passed, changes, published, promotionVars, releaseVars>>

Acceptable(t) ==
  LET i == testing[t.variant]
  IN i # NoIndex /\ t.expects \in {NoIndex, i} /\ MultiArch(i)

(* A test fails over what the tag names at that point; it may pass although*)
(* the tag has moved on since it looked.  The completion of a test on      *)
(* testing re-evaluates promotion.                                         *)
EndTest(t, passes) ==
  /\ UNCHANGED <<budget, head, testing, streamVars, queue, main, overtook, releaseVars>>
  /\ IF passes THEN testing[t.variant] # NoIndex ELSE ~Acceptable(t)
  /\ tests' = tests \ {t}
  /\ passed' = IF passes THEN passed \cup {<<t.variant, t.commit>>} ELSE passed
  /\ IF t.commit = 0 THEN UNCHANGED <<evaluation, waiting>>
     ELSE Ask(IF passes THEN "tests" ELSE "failed tests")

TestStep(v) ==
  \E t \in tests, passes \in BOOLEAN : t.variant = v /\ EndTest(t, passes)

-----------------------------------------------------------------------------
(* promote-testing-to-main.yml.  wait-nvidia-e2e polls for the head it     *)
(* read at its start; once it ends, in whatever way, the backfill runs     *)
(* unless a test completion started all this, and promote runs if it       *)
(* passed inside the window.                                               *)
Backfills == IF evaluation.backfills THEN {"backfill"} ELSE {}

WaitPasses ==
  /\ "wait" \in evaluation.todo
  /\ TestedOn(Nvidia, evaluation.head)
  /\ UNCHANGED head
  /\ GoOn(Backfills \cup (IF evaluation.window THEN {"promote"} ELSE {}))
  /\ UNCHANGED <<budget, testing, testVars, streamVars, queue, main, overtook, releaseVars>>

(* Mutant of WaitTimesOut: promote does not look at the result.            *)
WaitTimesOutPromotes ==
  /\ "wait" \in evaluation.todo
  /\ ~TestedOn(Nvidia, evaluation.head)
  /\ UNCHANGED head
  /\ GoOn(Backfills \cup (IF evaluation.window THEN {"promote"} ELSE {}))
  /\ UNCHANGED <<budget, testing, testVars, streamVars, queue, main, overtook, releaseVars>>

(* Thirty polls, thirty seconds apart.                                     *)
WaitTimesOut ==
  /\ "wait" \in evaluation.todo
  /\ ~TestedOn(Nvidia, evaluation.head)
  /\ UNCHANGED head
  /\ GoOn(Backfills)
  /\ UNCHANGED <<budget, testing, testVars, streamVars, queue, main, overtook, releaseVars>>

(* Post-Testing E2E is dispatched when the head has no successful run, and *)
(* once more in any case; of uranium both times.                           *)
DispatchMissing ==
  /\ "backfill" \in evaluation.todo
  /\ Dispatch(Uranium, NoIndex, head)
  /\ UNCHANGED head
  /\ GoOn(evaluation.todo \ {"backfill"})
  /\ UNCHANGED <<budget, testing, passed, streamVars, queue, main, overtook, releaseVars>>

(* reusable-promote-squash.yml: its gate wants a successful Post-Testing   *)
(* E2E run on the head; the squash of the head then enters the queue.      *)
Promote ==
  /\ "promote" \in evaluation.todo
  /\ queue' = IF TestedOn(Uranium, head) /\ head # main THEN head ELSE queue
  /\ UNCHANGED head
  /\ GoOn(evaluation.todo \ {"promote"})
  /\ UNCHANGED <<budget, testing, testVars, streamVars, main, overtook, releaseVars>>

EvaluationStep == WaitPasses \/ WaitTimesOut \/ DispatchMissing \/ Promote

-----------------------------------------------------------------------------
(* execute-release.yml has no concurrency group: runs overlap.             *)
Used(r) == release[r].phase # "unused"

StartRelease ==
  LET unused == {r \in Releases : r <= budget.releases /\ ~Used(r)} IN
  IF unused = {} THEN UNCHANGED release
  ELSE LET r == CHOOSE r \in unused : \A s \in unused : r <= s
       IN release' = [release EXCEPT ![r].phase = "resolve"]

(* merge-queue-validate passes every merge group; the squash commit on     *)
(* main is recognised by its message.                                      *)
Merge ==
  /\ queue # 0
  /\ main' = queue
  /\ queue' = 0
  /\ StartRelease
  /\ UNCHANGED <<budget, head, testing, testVars, streamVars, evaluation, waiting,
                 overtook, stable, stableSigned>>

(* By hand, or every day at 04:00 UTC.                                     *)
RequestRelease ==
  /\ \E r \in Releases : r <= budget.releases /\ ~Used(r)
  /\ StartRelease
  /\ UNCHANGED <<budget, head, testing, testVars, streamVars, promotionVars,
                 stable, stableSigned>>

(* The fields of run r a step sets, the phase last.                        *)
Set(r, run, phase) == release' = [release EXCEPT ![r] = [run EXCEPT !.phase = phase]]

Outside == <<budget, head, testing, testVars, streamVars, promotionVars>>

(* :testing of either variant, one after the other.                        *)
ResolveSource(r) ==
  LET v == release[r].at
      run == [release[r] EXCEPT !.digest[v] = testing[v],
                                !.at = IF v = Uranium THEN Nvidia ELSE Uranium]
  IN /\ release[r].phase = "resolve"
     /\ Set(r, run, IF testing[v] = NoIndex THEN "red"
                    ELSE IF v = Uranium THEN "resolve" ELSE "verify")
     /\ UNCHANGED <<stable, stableSigned, Outside>>

VerifySources(r) ==
  /\ release[r].phase = "verify"
  /\ Set(r, release[r],
         IF \A v \in Variants : <<v, release[r].digest[v]>> \in signed
           THEN "copy" ELSE "red")
  /\ UNCHANGED <<stable, stableSigned, Outside>>

(* The variant at hand is done, well or not; failures are counted and the  *)
(* loop goes on.                                                           *)
NextVariant(r, failed) ==
  LET run == [release[r] EXCEPT !.failed = @ \/ failed, !.at = Nvidia]
  IN Set(r, run, IF release[r].at = Uranium THEN "copy"
                 ELSE IF run.failed THEN "red" ELSE "green")

(* Mutant of CopyIndex: copies the tag, not the digest.                    *)
CopyTag(r) ==
  LET v == release[r].at
  IN /\ release[r].phase = "copy"
     /\ \E converted \in BOOLEAN :
          stable' = [stable EXCEPT ![v] = [of |-> testing[v], converted |-> converted]]
     /\ Set(r, release[r], "inspect")
     /\ UNCHANGED <<stableSigned, Outside>>

(* skopeo copy --all --format oci, by digest, of a complete index.         *)
CopyIndex(r) ==
  LET v == release[r].at
      i == release[r].digest[v]
  IN /\ release[r].phase = "copy"
     /\ MultiArch(i)
     /\ \E converted \in BOOLEAN :
          stable' = [stable EXCEPT ![v] = [of |-> i, converted |-> converted]]
     /\ Set(r, release[r], "inspect")
     /\ UNCHANGED <<stableSigned, Outside>>

RefuseIndex(r) ==
  /\ release[r].phase = "copy"
  /\ ~MultiArch(release[r].digest[release[r].at]) \/ "step" \in Faults
  /\ NextVariant(r, TRUE)
  /\ UNCHANGED <<stable, stableSigned, Outside>>

(* The tag is resolved again.                                              *)
InspectCopy(r) ==
  /\ release[r].phase = "inspect"
  /\ Set(r, [release[r] EXCEPT !.promoted = stable[release[r].at]], "compare")
  /\ UNCHANGED <<stable, stableSigned, Outside>>

(* The children of what it names by now are compared; a mismatch counts as *)
(* a failure, but what was resolved is signed all the same.                *)
CompareCopy(r) ==
  LET v == release[r].at
      run == [release[r] EXCEPT !.failed = @ \/ stable[v].of # release[r].digest[v]]
  IN /\ release[r].phase = "compare"
     /\ Set(r, run, "sign")
     /\ UNCHANGED <<stable, stableSigned, Outside>>

(* cosign sign, then cosign verify.                                        *)
SignCopy(r, verified) ==
  /\ release[r].phase = "sign"
  /\ verified \/ "step" \in Faults
  /\ stableSigned' = stableSigned \cup {<<release[r].at, release[r].promoted>>}
  /\ NextVariant(r, ~verified)
  /\ UNCHANGED <<stable, Outside>>

(* Mutant of FailToSign: the failure is not counted.                       *)
FailToSignQuietly(r) ==
  /\ "step" \in Faults
  /\ release[r].phase = "sign"
  /\ NextVariant(r, FALSE)
  /\ UNCHANGED <<stable, stableSigned, Outside>>

FailToSign(r) ==
  /\ "step" \in Faults
  /\ release[r].phase = "sign"
  /\ NextVariant(r, TRUE)
  /\ UNCHANGED <<stable, stableSigned, Outside>>

ReleaseStep(r) ==
  \/ ResolveSource(r) \/ VerifySources(r)
  \/ CopyIndex(r) \/ RefuseIndex(r)
  \/ InspectCopy(r) \/ CompareCopy(r) \/ FailToSign(r)
  \/ \E verified \in BOOLEAN : SignCopy(r, verified)

-----------------------------------------------------------------------------
StreamStep(v) ==
  \/ \E c \in Commits, archs \in SUBSET Architectures : PublishIndex(v, c, archs)
  \/ \E c \in Commits, branch \in budget.branches : SignIndex(v, c, branch)

Next ==
  \/ \E image \in BOOLEAN : Push(image)
  \/ Heartbeat("push")
  \/ Heartbeat("dispatch")
  \/ \E v \in Variants : StreamStep(v)
  \/ \E v \in Variants : TestStep(v)
  \/ EvaluationStep
  \/ Merge
  \/ RequestRelease
  \/ \E r \in Releases : ReleaseStep(r)

Spec == Init /\ [][Next]_vars

(* Thursday comes round whenever it keeps finding no promotion running.    *)
ThursdayHeartbeat ==
  /\ Idle
  /\ Heartbeat("push")
  /\ evaluation'.window

FairSpec ==
  /\ Spec
  /\ \A v \in Variants : WF_vars(StreamStep(v))
  /\ \A v \in Variants : WF_vars(TestStep(v))
  /\ WF_vars(EvaluationStep)
  /\ SF_vars(ThursdayHeartbeat)
  /\ WF_vars(Merge)

-----------------------------------------------------------------------------
TypeOK ==
  /\ budget \in Budgets
  /\ head \in 0..MaxCommits
  /\ testing \in [Variants -> Digests]
  /\ tests \subseteq Tests
  /\ passed \subseteq Variants \X (0..MaxCommits)
  /\ changes \subseteq 1..head
  /\ published \subseteq Variants \X changes
  /\ signed \subseteq Variants \X Indexes
  /\ evaluation \in Evaluations \cup {NoEvaluation}
  /\ waiting \in Events \cup {NoEvent}
  /\ queue \in 0..head
  /\ main \in 0..head
  /\ overtook \subseteq 1..head
  /\ release \in [Releases -> ReleaseRuns]
  /\ stable \in [Variants -> Copies \cup {NoCopy}]
  /\ stableSigned \subseteq Variants \X Copies

(* What :stable names is a copy of an index whose signature this release   *)
(* verified, although :testing moves on between the verification and the   *)
(* copy (execute-release.yml, promotion by digest).                        *)
StableWasVerified ==
  \A v \in Variants : stable[v] # NoCopy => <<v, stable[v].of>> \in signed

SignedCopy(v, copy) ==
  \/ <<v, copy>> \in stableSigned
  \/ ~copy.converted /\ <<v, copy.of>> \in signed

(* When :stable names a digest nobody has signed, a release is about to    *)
(* sign that very digest or some release is red: overlapping releases do   *)
(* not all go green over an unsigned :stable (execute-release.yml, "Failed *)
(* to sign promoted").                                                     *)
UnsignedStableReported ==
  \A v \in Variants :
    stable[v] = NoCopy \/ SignedCopy(v, stable[v])
      \/ \E r \in Releases :
           \/ release[r].failed
           \/ release[r].at = v /\ release[r].phase = "inspect"
           \/ release[r].at = v /\ release[r].phase \in {"compare", "sign"}
                /\ release[r].promoted = stable[v]

(* The gates of promotion are read by different jobs at different times:   *)
(* wait-nvidia-e2e looks for the head it read at its start, the reusable   *)
(* gate for the head it finds.  Whatever is merged to main has a           *)
(* successful end-to-end run of uranium on its head SHA, and one of        *)
(* uranium-nvidia too, unless it was pushed while a promotion run was      *)
(* under way.                                                              *)
MergedWasTested ==
  main # 0 => TestedOn(Uranium, main) /\ (TestedOn(Nvidia, main) \/ main \in overtook)

(* A commit that stays the head of testing gets promoted: wait, backfill,  *)
(* re-evaluation and gates do not wait for each other for good             *)
(* (promote-testing-to-main.yml, the comment on dispatch-missing-e2e),     *)
(* provided that pushes wait for builds and that uranium-nvidia's test is  *)
(* not recorded on main.  Requests are assumed to leave room between runs  *)
(* of minutes a day apart.                                                 *)
HeadPromoted ==
  budget.promotes /\ budget.daily /\ budget.patient /\ []<>Idle =>
    \A c \in Commits :
      head = c ~> head # c \/ main = c \/ TestedOn(Nvidia, 0)
=============================================================================
