------------------------ MODULE StableReleaseProofs ------------------------
(***************************************************************************)
(* Proofs about promotion and release, for every number of pushes and of   *)
(* overlapping releases, all faults and every schedule of events.          *)
(***************************************************************************)
EXTENDS StableRelease, WellFoundedInduction, TLAPS

-----------------------------------------------------------------------------
(* Promotion and tests start only once something was pushed.               *)
HeadKnown == ~Idle \/ tests # {} => head # 0

(* A promotion step or an event leaves the run typed, whatever it does.    *)
PromotionTyped ==
  /\ evaluation \in Evaluations \cup {NoEvaluation}
  /\ waiting \in Events \cup {NoEvent}

LEMMA BeginTyped ==
  ASSUME head' \in Commits, NEW e \in Events \cup {NoEvent}, NEW thursday \in BOOLEAN
  PROVE  Begin(e, thursday) \in Evaluations \cup {NoEvaluation}
BY DEF Begin, InWindow, Evaluations, Jobs, Events, NoEvent

LEMMA AskTyped ==
  ASSUME PromotionTyped, head' \in Commits, NEW e \in Events, Ask(e)
  PROVE  PromotionTyped'
<1>1. \A thursday \in BOOLEAN : Begin(e, thursday) \in Evaluations \cup {NoEvaluation}
  BY BeginTyped
<1> QED
  BY <1>1 DEF Ask, PromotionTyped

LEMMA GoOnTyped ==
  ASSUME PromotionTyped, head' \in Commits, ~Idle, NEW left \in SUBSET Jobs, GoOn(left)
  PROVE  PromotionTyped'
<1>1. \A thursday \in BOOLEAN : Begin(waiting, thursday) \in Evaluations \cup {NoEvaluation}
  BY BeginTyped DEF PromotionTyped
<1>2. [evaluation EXCEPT !.todo = left] \in Evaluations
  BY DEF PromotionTyped, Idle, Evaluations
<1> QED
  BY <1>1, <1>2 DEF GoOn, PromotionTyped

LEMMA DispatchTyped ==
  ASSUME TypeOK, NEW v \in Variants, NEW i \in Digests, NEW c \in 0..MaxCommits,
         Dispatch(v, i, c)
  PROVE  tests' \subseteq Tests
BY DEF TypeOK, Tests, Dispatch

LEMMA HeadInCommits == TypeOK /\ head # 0 => head \in Commits
BY CommitsAssumption DEF TypeOK, Commits

(* A release past its verification copies, inspects and signs what it      *)
(* verified, and there is something to inspect and to sign.                *)
CopiesOK ==
  \A r \in Releases :
    /\ release[r].phase \in {"copy", "inspect", "compare", "sign"} =>
         \A v \in Variants : <<v, release[r].digest[v]>> \in signed
    /\ release[r].phase = "inspect" => stable[release[r].at] # NoCopy
    /\ release[r].phase \in {"compare", "sign"} => release[r].promoted \in Copies

-----------------------------------------------------------------------------
LEMMA InitInv == Init => TypeOK /\ HeadKnown
<1> SUFFICES ASSUME Init PROVE TypeOK /\ HeadKnown
  OBVIOUS
<1>1. UnusedRun \in ReleaseRuns
  BY DEF UnusedRun, ReleaseRuns, ReleasePhases, Variants, Digests
<1>2. 0 \in 0..MaxCommits /\ testing \in [Variants -> Digests]
  BY CommitsAssumption DEF Init, Digests
<1> QED
  BY <1>1, <1>2 DEF Init, TypeOK, HeadKnown, Idle

LEMMA PushTyped ==
  ASSUME TypeOK, HeadKnown, NEW image \in BOOLEAN, Push(image)
  PROVE  TypeOK' /\ HeadKnown'
<1>1. /\ head \in 0..MaxCommits /\ budget.pushes \in 0..MaxCommits /\ head' = head + 1
      /\ head < budget.pushes
  BY ReleaseAssumption DEF TypeOK, Push
<1>2. head' \in 1..MaxCommits /\ head' \in Commits
  BY <1>1, CommitsAssumption DEF Commits
<1>3. PromotionTyped'
  BY <1>2, AskTyped DEF Push, PromotionTyped, TypeOK, Events
<1>4. changes' \subseteq 1..head' /\ changes \subseteq changes' /\ queue' \in 0..head' /\ main' \in 0..head'
  BY <1>1 DEF Push, TypeOK
<1>5. published' \subseteq Variants \X changes'
  BY <1>4 DEF Push, TypeOK
<1>6. overtook' \subseteq 1..head'
  BY <1>1 DEF Push, TypeOK
<1> QED
  BY <1>1, <1>2, <1>3, <1>4, <1>5, <1>6
  DEF Push, TypeOK, HeadKnown, PromotionTyped, testVars, releaseVars

LEMMA HeartbeatTyped ==
  ASSUME TypeOK, HeadKnown, NEW e \in Events, Heartbeat(e)
  PROVE  TypeOK' /\ HeadKnown'
<1>1. head' = head /\ head # 0 /\ head' \in Commits
  BY HeadInCommits DEF Heartbeat, TypeOK
<1>2. PromotionTyped'
  BY <1>1, AskTyped DEF Heartbeat, PromotionTyped, TypeOK
<1> QED
  BY <1>1, <1>2 DEF Heartbeat, TypeOK, HeadKnown, PromotionTyped, testVars,
                    streamVars, releaseVars

(* The stream publishes and signs indexes of changes.                      *)
LEMMA StreamTyped ==
  ASSUME TypeOK, HeadKnown, NEW v \in Variants, StreamStep(v)
  PROVE  TypeOK' /\ HeadKnown'
<1>1. ASSUME NEW c \in Commits, NEW archs \in SUBSET Architectures, PublishIndex(v, c, archs)
      PROVE  TypeOK' /\ HeadKnown'
  <2>1. [commit |-> c, archs |-> archs] \in Digests
    BY DEF Digests, Indexes
  <2>2. testing' \in [Variants -> Digests] /\ signed' = signed
    BY <1>1, <2>1 DEF PublishIndex, Tags!Publish, TypeOK
  <2>3. published' \subseteq Variants \X changes
    BY <1>1 DEF PublishIndex, TypeOK
  <2> QED
    BY <1>1, <2>2, <2>3 DEF PublishIndex, TypeOK, HeadKnown, Idle, testVars,
                            promotionVars, releaseVars
<1>2. ASSUME NEW c \in Commits, NEW branch, SignIndex(v, c, branch)
      PROVE  TypeOK' /\ HeadKnown'
  <2>1. IndexOf(c) \in Indexes /\ IndexOf(c) \in Digests
    BY DEF IndexOf, Indexes, Digests
  <2>2. head # 0
    <3>1. <<v, c>> \in Variants \X changes
      BY <1>2 DEF SignIndex, TypeOK
    <3>2. c \in 1..head
      BY <3>1 DEF TypeOK
    <3> QED
      BY <3>2
  <2>3. tests' \subseteq Tests
    <3>1. head \in 0..MaxCommits /\ 0 \in 0..MaxCommits
      BY CommitsAssumption DEF TypeOK
    <3>2. tests' = tests \/ \E x \in 0..MaxCommits : Dispatch(v, IndexOf(c), x)
      BY <1>2, <3>1 DEF SignIndex
    <3> QED
      BY <2>1, <3>2, DispatchTyped DEF TypeOK
  <2>4. signed' \subseteq Variants \X Indexes /\ testing' = testing
    BY <1>2, <2>1 DEF SignIndex, Tags!Sign, TypeOK
  <2> QED
    BY <1>2, <2>2, <2>3, <2>4 DEF SignIndex, TypeOK, HeadKnown, promotionVars,
                                  releaseVars
<1> QED
  BY <1>1, <1>2 DEF StreamStep

LEMMA TestTyped ==
  ASSUME TypeOK, HeadKnown, NEW v \in Variants, TestStep(v)
  PROVE  TypeOK' /\ HeadKnown'
<1> PICK t \in tests, passes \in BOOLEAN : EndTest(t, passes)
  BY DEF TestStep
<1>1. t \in Tests /\ <<t.variant, t.commit>> \in Variants \X (0..MaxCommits)
  BY DEF TypeOK, Tests
<1>2. tests' \subseteq Tests /\ passed' \subseteq Variants \X (0..MaxCommits)
  BY <1>1 DEF EndTest, TypeOK
<1>3. head' = head /\ head # 0 /\ head' \in Commits /\ testing' = testing
  BY HeadInCommits DEF EndTest, HeadKnown
<1>4. PromotionTyped'
  BY <1>3, AskTyped DEF EndTest, PromotionTyped, TypeOK, Events
<1> QED
  BY <1>2, <1>3, <1>4 DEF EndTest, TypeOK, HeadKnown, PromotionTyped, streamVars, releaseVars

LEMMA EvaluationTyped ==
  ASSUME TypeOK, HeadKnown, EvaluationStep
  PROVE  TypeOK' /\ HeadKnown'
<1>1. ~Idle /\ evaluation \in Evaluations
  BY DEF EvaluationStep, WaitPasses, WaitTimesOut, DispatchMissing, Promote, Idle, NoEvaluation,
         TypeOK
<1>2. head' = head /\ head # 0 /\ head' \in Commits
  BY <1>1, HeadInCommits DEF HeadKnown, EvaluationStep, WaitPasses, WaitTimesOut,
     DispatchMissing, Promote
<1>3. \E left \in SUBSET Jobs : GoOn(left)
  BY <1>1 DEF EvaluationStep, WaitPasses, WaitTimesOut, DispatchMissing, Promote, Backfills,
              Evaluations, Jobs
<1>4. PromotionTyped'
  BY <1>1, <1>2, <1>3, GoOnTyped DEF PromotionTyped, TypeOK
<1>5. tests' \subseteq Tests /\ UNCHANGED <<testing, passed>>
  <2>1. CASE DispatchMissing
    BY <2>1, <1>2, CommitsAssumption, DispatchTyped
    DEF DispatchMissing, Variants, Digests, Commits
  <2> QED
    BY <2>1 DEF EvaluationStep, WaitPasses, WaitTimesOut, Promote, TypeOK, testVars
<1>6. queue' \in 0..head /\ UNCHANGED <<main, overtook, budget, streamVars, releaseVars>>
  BY <1>2 DEF EvaluationStep, WaitPasses, WaitTimesOut, DispatchMissing, Promote, TypeOK
<1> QED
  BY <1>2, <1>4, <1>5, <1>6 DEF TypeOK, HeadKnown, PromotionTyped, streamVars,
                                releaseVars

LEMMA StartTyped ==
  ASSUME TypeOK, StartRelease
  PROVE  release' \in [Releases -> ReleaseRuns]
<1>1. release \in [Releases -> ReleaseRuns]
  BY DEF TypeOK
<1>2. \A r \in Releases : [release[r] EXCEPT !.phase = "resolve"] \in ReleaseRuns
  BY <1>1 DEF ReleaseRuns, ReleasePhases
<1>3. release' = release \/ \E r : release' = [release EXCEPT ![r].phase = "resolve"]
  BY DEF StartRelease
<1> QED
  BY <1>1, <1>2, <1>3

LEMMA RequestTyped ==
  ASSUME TypeOK, HeadKnown, Merge \/ RequestRelease
  PROVE  TypeOK' /\ HeadKnown'
<1>1. release' \in [Releases -> ReleaseRuns]
  BY StartTyped DEF Merge, RequestRelease
<1>2. queue' \in 0..head /\ main' \in 0..head /\ head' = head
  BY DEF Merge, RequestRelease, TypeOK, promotionVars
<1> QED
  BY <1>1, <1>2 DEF Merge, RequestRelease, TypeOK, HeadKnown, Idle, testVars,
                    streamVars, promotionVars

(* What a release run writes about itself.                                 *)
LEMMA RunTyped ==
  ASSUME TypeOK, NEW r \in Releases
  PROVE  /\ release[r] \in ReleaseRuns /\ release[r].at \in Variants
         /\ release[r].digest \in [Variants -> Digests]
         /\ \A x \in ReleaseRuns, p \in ReleasePhases : [x EXCEPT !.phase = p] \in ReleaseRuns
BY DEF TypeOK, ReleaseRuns

LEMMA NextVariantTyped ==
  ASSUME TypeOK, NEW r \in Releases, NEW failed \in BOOLEAN, NextVariant(r, failed)
  PROVE  release' \in [Releases -> ReleaseRuns]
<1> DEFINE run == [release[r] EXCEPT !.failed = @ \/ failed, !.at = Nvidia]
<1>1. run \in ReleaseRuns
  <2>1. release[r] \in ReleaseRuns /\ Nvidia \in Variants
    BY RunTyped DEF Variants
  <2>2. (release[r].failed \/ failed) \in BOOLEAN
    BY <2>1 DEF ReleaseRuns
  <2> QED
    BY <2>1, <2>2 DEF ReleaseRuns
<1>2. \A p \in ReleasePhases : [run EXCEPT !.phase = p] \in ReleaseRuns
  BY <1>1, RunTyped
<1>3. \E p \in ReleasePhases : release' = [release EXCEPT ![r] = [run EXCEPT !.phase = p]]
  BY DEF NextVariant, Set, ReleasePhases
<1> QED
  BY <1>2, <1>3 DEF TypeOK

LEMMA ReleaseTyped ==
  ASSUME TypeOK, HeadKnown, CopiesOK, NEW r \in Releases, ReleaseStep(r)
  PROVE  TypeOK' /\ HeadKnown'
<1>0. /\ release[r] \in ReleaseRuns /\ release[r].at \in Variants
      /\ release[r].digest \in [Variants -> Digests]
      /\ testing \in [Variants -> Digests]
      /\ stable \in [Variants -> Copies \cup {NoCopy}]
  BY RunTyped DEF TypeOK
<1>1. ASSUME NEW run \in ReleaseRuns, NEW p \in ReleasePhases, Set(r, run, p)
      PROVE  release' \in [Releases -> ReleaseRuns]
  BY <1>1, RunTyped DEF Set, TypeOK
<1>2. UNCHANGED Outside
  BY DEF ReleaseStep, ResolveSource, VerifySources, CopyIndex, RefuseIndex, InspectCopy,
         CompareCopy, SignCopy, FailToSign
<1>3. ASSUME release' \in [Releases -> ReleaseRuns],
             stable' \in [Variants -> Copies \cup {NoCopy}],
             stableSigned' \subseteq Variants \X Copies
      PROVE  TypeOK' /\ HeadKnown'
  BY <1>2, <1>3 DEF Outside, TypeOK, HeadKnown, Idle, testVars, streamVars,
                    promotionVars
<1>4. stableSigned \subseteq Variants \X Copies
  BY DEF TypeOK
<1>5. CASE ResolveSource(r)
  <2> DEFINE v == release[r].at
             run == [release[r] EXCEPT !.digest[v] = testing[v],
                                       !.at = IF v = Uranium THEN Nvidia ELSE Uranium]
  <2>1. run \in ReleaseRuns
    BY <1>0 DEF ReleaseRuns, Variants
  <2>2. \E p \in ReleasePhases : Set(r, run, p)
    BY <1>5 DEF ResolveSource, ReleasePhases
  <2> HIDE DEF run
  <2> QED
    BY <1>0, <1>1, <1>3, <1>4, <1>5, <2>1, <2>2 DEF ResolveSource
<1>6. CASE VerifySources(r)
  <2>1. \E p \in ReleasePhases : Set(r, release[r], p)
    BY <1>6 DEF VerifySources, ReleasePhases
  <2> QED
    BY <1>0, <1>1, <1>3, <1>4, <1>6, <2>1 DEF VerifySources
<1>7. CASE CopyIndex(r)
  <2>1. release' \in [Releases -> ReleaseRuns]
    BY <1>0, <1>1, <1>7 DEF CopyIndex, ReleasePhases
  <2>2. release[r].digest[release[r].at] \in Indexes
    <3>1. release[r].digest[release[r].at].archs # {}
      BY <1>7 DEF CopyIndex, MultiArch, Architectures
    <3> QED
      BY <1>0, <3>1 DEF Digests, NoIndex
  <2>3. stable' \in [Variants -> Copies \cup {NoCopy}]
    BY <1>0, <1>7, <2>2 DEF CopyIndex, Copies
  <2> QED
    BY <1>3, <1>4, <1>7, <2>1, <2>3 DEF CopyIndex
<1>8. CASE RefuseIndex(r)
  BY <1>0, <1>3, <1>4, <1>8, NextVariantTyped DEF RefuseIndex
<1>9. CASE InspectCopy(r)
  <2> DEFINE run == [release[r] EXCEPT !.promoted = stable[release[r].at]]
  <2>1. run \in ReleaseRuns
    BY <1>0 DEF ReleaseRuns
  <2>2. Set(r, run, "compare")
    BY <1>9 DEF InspectCopy
  <2> HIDE DEF run
  <2> QED
    BY <1>0, <1>1, <1>3, <1>4, <1>9, <2>1, <2>2 DEF InspectCopy, ReleasePhases
<1>10. CASE CompareCopy(r)
  <2> DEFINE v == release[r].at
             run == [release[r] EXCEPT !.failed = @ \/ stable[v].of # release[r].digest[v]]
  <2>1. run \in ReleaseRuns
    BY <1>0 DEF ReleaseRuns
  <2>2. Set(r, run, "sign")
    BY <1>10 DEF CompareCopy
  <2> HIDE DEF run
  <2> QED
    BY <1>0, <1>1, <1>3, <1>4, <1>10, <2>1, <2>2 DEF CompareCopy, ReleasePhases
<1>11. ASSUME NEW verified \in BOOLEAN, SignCopy(r, verified)
       PROVE  TypeOK' /\ HeadKnown'
  <2>1. release[r].promoted \in Copies
    BY <1>11 DEF SignCopy, CopiesOK
  <2>2. release' \in [Releases -> ReleaseRuns]
    BY <1>11, NextVariantTyped DEF SignCopy
  <2>3. stableSigned' \subseteq Variants \X Copies /\ stable' = stable
    BY <1>0, <1>4, <1>11, <2>1 DEF SignCopy
  <2> QED
    BY <1>0, <1>3, <2>2, <2>3
<1>12. CASE FailToSign(r)
  BY <1>0, <1>3, <1>4, <1>12, NextVariantTyped DEF FailToSign
<1> QED
  BY <1>5, <1>6, <1>7, <1>8, <1>9, <1>10, <1>11, <1>12 DEF ReleaseStep

LEMMA TypeStep ==
  ASSUME TypeOK, HeadKnown, CopiesOK, [Next]_vars
  PROVE  TypeOK' /\ HeadKnown'
<1>1. CASE UNCHANGED vars
  BY <1>1 DEF vars, TypeOK, HeadKnown, Idle, testVars, streamVars, promotionVars,
              releaseVars
<1>2. CASE \E image \in BOOLEAN : Push(image)
  BY <1>2, PushTyped
<1>3. CASE Heartbeat("push") \/ Heartbeat("dispatch")
  BY <1>3, HeartbeatTyped DEF Events
<1>4. CASE \E v \in Variants : StreamStep(v)
  BY <1>4, StreamTyped
<1>5. CASE \E v \in Variants : TestStep(v)
  BY <1>5, TestTyped
<1>6. CASE EvaluationStep
  BY <1>6, EvaluationTyped
<1>7. CASE Merge \/ RequestRelease
  BY <1>7, RequestTyped
<1>8. CASE \E r \in Releases : ReleaseStep(r)
  BY <1>8, ReleaseTyped
<1> QED
  BY <1>1, <1>2, <1>3, <1>4, <1>5, <1>6, <1>7, <1>8 DEF Next

-----------------------------------------------------------------------------
(* The other releases are not touched.                                     *)
Others(r) == \A s \in Releases \ {r} : release'[s] = release[s]

LEMMA SetMoves ==
  ASSUME TypeOK, NEW r \in Releases, NEW x \in ReleaseRuns, NEW p \in ReleasePhases, Set(r, x, p)
  PROVE  /\ release'[r].phase = p /\ release'[r].at = x.at /\ release'[r].failed = x.failed
         /\ release'[r].digest = x.digest /\ release'[r].promoted = x.promoted
         /\ Others(r)
<1>1. release'[r] = [x EXCEPT !.phase = p] /\ Others(r)
  BY DEF Set, TypeOK, Others
<1> QED
  BY <1>1 DEF ReleaseRuns

LEMMA NextVariantMoves ==
  ASSUME TypeOK, NEW r \in Releases, NEW failed \in BOOLEAN, NextVariant(r, failed)
  PROVE  /\ release'[r].phase \in {"copy", "red", "green"}
         /\ release'[r].digest = release[r].digest
         /\ release[r].failed \/ failed => release'[r].failed
         /\ Others(r)
<1> DEFINE x == [release[r] EXCEPT !.failed = @ \/ failed, !.at = Nvidia]
<1>1. release[r] \in ReleaseRuns /\ Nvidia \in Variants
  BY RunTyped DEF Variants
<1>2. (release[r].failed \/ failed) \in BOOLEAN
  BY <1>1 DEF ReleaseRuns
<1>3. /\ x \in ReleaseRuns /\ x.digest = release[r].digest
      /\ x.failed = (release[r].failed \/ failed)
  BY <1>1, <1>2 DEF ReleaseRuns
<1>4. \E p \in {"copy", "red", "green"} : Set(r, x, p)
  BY DEF NextVariant
<1> HIDE DEF x
<1> QED
  BY <1>3, <1>4, SetMoves DEF ReleasePhases

LEMMA LeastNatural ==
  ASSUME NEW S \in SUBSET Nat, S # {}
  PROVE  \E m \in S : \A n \in S : m <= n
<1> DEFINE R == {ss \in Nat \X Nat : ss[1] < ss[2]}
<1>1. IsWellFoundedOn(R, Nat)
  BY NatLessThanWellFounded DEF OpToRel
<1>2. \E m \in S : \A n \in S : ~(<<n, m>> \in R)
  <2> HIDE DEF R
  <2> QED
    BY <1>1, WFMin
<1>3. \A m, n \in Nat : n < m => <<n, m>> \in R
  OBVIOUS
<1>4. \A m, n \in Nat : ~(n < m) => m <= n
  OBVIOUS
<1> HIDE DEF R
<1> QED
  BY <1>2, <1>3, <1>4

(* A release begins with nothing resolved.                                 *)
LEMMA StartMoves ==
  ASSUME TypeOK, StartRelease
  PROVE  \A r \in Releases :
           \/ release'[r] = release[r]
           \/ release'[r].phase = "resolve" /\ release'[r].failed = release[r].failed
               /\ release[r].phase = "unused"
<1>1. CASE release' = release
  BY <1>1
<1>2. CASE release' # release
  <2> DEFINE unused == {r \in Releases : r <= budget.releases /\ ~Used(r)}
             k == CHOOSE r \in unused : \A s \in unused : r <= s
  <2>1. release' = [release EXCEPT ![k].phase = "resolve"] /\ unused # {}
    BY <1>2 DEF StartRelease
  <2>2. unused \in SUBSET Nat
    BY DEF Releases
  <2>3. \E r \in unused : \A s \in unused : r <= s
    BY <2>1, <2>2, LeastNatural
  <2>4. k \in unused
    BY <2>3
  <2>5. release[k] \in ReleaseRuns /\ release[k].phase = "unused"
    BY <2>4, RunTyped DEF Used
  <2>6. [release[k] EXCEPT !.phase = "resolve"].phase = "resolve"
        /\ [release[k] EXCEPT !.phase = "resolve"].failed = release[k].failed
    BY <2>5 DEF ReleaseRuns
  <2> HIDE DEF k
  <2> QED
    BY <2>1, <2>4, <2>5, <2>6 DEF TypeOK
<1> QED
  BY <1>1, <1>2

(* Only releases touch :stable and its signatures.                         *)
LEMMA OutsideReleases ==
  ASSUME TypeOK, Next, ~\E r \in Releases : ReleaseStep(r)
  PROVE  /\ signed \subseteq signed' /\ UNCHANGED <<stable, stableSigned>>
         /\ release' = release \/ StartRelease
<1>1. ASSUME NEW v \in Variants, StreamStep(v)
      PROVE  signed \subseteq signed' /\ UNCHANGED releaseVars
  BY <1>1 DEF StreamStep, PublishIndex, SignIndex, Tags!Publish, Tags!Sign
<1>2. ASSUME NEW e, Heartbeat(e) PROVE signed' = signed /\ UNCHANGED releaseVars
  BY <1>2 DEF Heartbeat, streamVars
<1>3. ASSUME NEW image \in BOOLEAN, Push(image) PROVE signed' = signed /\ UNCHANGED releaseVars
  BY <1>3 DEF Push
<1>4. ASSUME NEW v \in Variants, TestStep(v) PROVE signed' = signed /\ UNCHANGED releaseVars
  BY <1>4 DEF TestStep, EndTest, streamVars
<1>5. EvaluationStep => signed' = signed /\ UNCHANGED releaseVars
  BY DEF EvaluationStep, WaitPasses, WaitTimesOut, DispatchMissing, Promote, streamVars
<1>6. Merge \/ RequestRelease => signed' = signed /\ UNCHANGED <<stable, stableSigned>> /\ StartRelease
  BY DEF Merge, RequestRelease, streamVars
<1> QED
  BY <1>1, <1>2, <1>3, <1>4, <1>5, <1>6 DEF Next, releaseVars

(* A release that inspects remembers what the tag names.                   *)
LEMMA InspectMoves ==
  ASSUME TypeOK, NEW r \in Releases, InspectCopy(r)
  PROVE  /\ release'[r].phase = "compare" /\ release'[r].at = release[r].at
         /\ release'[r].promoted = stable[release[r].at]
         /\ release'[r].digest = release[r].digest
         /\ release'[r].failed = release[r].failed
         /\ Others(r)
<1> DEFINE x == [release[r] EXCEPT !.promoted = stable[release[r].at]]
<1>1. release[r] \in ReleaseRuns /\ release[r].at \in Variants
  BY RunTyped
<1>2. /\ x \in ReleaseRuns /\ x.digest = release[r].digest
      /\ x.failed = release[r].failed
      /\ x.at = release[r].at /\ x.promoted = stable[release[r].at]
  BY <1>1 DEF ReleaseRuns, TypeOK
<1>3. Set(r, x, "compare")
  BY DEF InspectCopy
<1> HIDE DEF x
<1> QED
  BY <1>2, <1>3, SetMoves DEF ReleasePhases

(* The comparison changes nothing but the count of failures.               *)
LEMMA CompareMoves ==
  ASSUME TypeOK, NEW r \in Releases, CompareCopy(r)
  PROVE  /\ release[r].phase = "compare" /\ release'[r].phase = "sign"
         /\ release'[r].at = release[r].at
         /\ release'[r].promoted = release[r].promoted
         /\ release'[r].digest = release[r].digest
         /\ release[r].failed => release'[r].failed
         /\ Others(r)
<1> DEFINE v == release[r].at
           x == [release[r] EXCEPT !.failed = @ \/ stable[v].of # release[r].digest[v]]
<1>1. release[r] \in ReleaseRuns
  BY RunTyped
<1>2. /\ x \in ReleaseRuns /\ x.digest = release[r].digest
      /\ release[r].failed => x.failed
      /\ x.at = release[r].at /\ x.promoted = release[r].promoted
  BY <1>1 DEF ReleaseRuns
<1>3. Set(r, x, "sign") /\ release[r].phase = "compare"
  BY DEF CompareCopy
<1> HIDE DEF x
<1> QED
  BY <1>2, <1>3, SetMoves DEF ReleasePhases

(* From its verification to its last signature a release is past it.       *)
Past == {"copy", "inspect", "compare", "sign"}

(* The step of one release, seen from the facts the invariants speak of.   *)
LEMMA ReleaseMoves ==
  ASSUME TypeOK, NEW r \in Releases, ReleaseStep(r)
  PROVE  /\ Others(r) /\ signed' = signed
         /\ release[r].failed => release'[r].failed
         /\ release'[r].phase \in Past =>
              /\ release'[r].digest = release[r].digest
              /\ \/ release[r].phase \in Past
                 \/ \A v \in Variants : <<v, release[r].digest[v]>> \in signed
         /\ release'[r].phase = "inspect" => CopyIndex(r)
         /\ release'[r].phase = "compare" => InspectCopy(r)
         /\ release'[r].phase = "sign" => CompareCopy(r)
<1>0. release[r] \in ReleaseRuns /\ release[r].at \in Variants
  BY RunTyped
<1>1. signed' = signed
  BY DEF ReleaseStep, ResolveSource, VerifySources, CopyIndex, RefuseIndex, InspectCopy,
         CompareCopy, SignCopy, FailToSign, Outside, streamVars
<1>2. CASE ResolveSource(r)
  <2> DEFINE v == release[r].at
             x == [release[r] EXCEPT !.digest[v] = testing[v],
                                     !.at = IF v = Uranium THEN Nvidia ELSE Uranium]
  <2>1. x \in ReleaseRuns /\ x.failed = release[r].failed
    BY <1>0 DEF ReleaseRuns, Variants, TypeOK
  <2>2. \E p \in {"red", "resolve", "verify"} : Set(r, x, p)
    BY <1>2 DEF ResolveSource
  <2> HIDE DEF x
  <2> QED
    BY <1>1, <2>1, <2>2, SetMoves DEF ReleasePhases, Past
<1>3. CASE VerifySources(r)
  <2>1. \/ Set(r, release[r], "red")
        \/ /\ Set(r, release[r], "copy")
           /\ \A v \in Variants : <<v, release[r].digest[v]>> \in signed
    BY <1>3 DEF VerifySources
  <2> QED
    BY <1>0, <1>1, <2>1, SetMoves DEF ReleasePhases, Past
<1>4. CASE CopyIndex(r)
  BY <1>0, <1>1, <1>4, SetMoves DEF CopyIndex, ReleasePhases, Past
<1>5. CASE InspectCopy(r)
  BY <1>1, <1>5, InspectMoves DEF InspectCopy, Past
<1>6. CASE CompareCopy(r)
  BY <1>1, <1>6, CompareMoves DEF Past
<1>7. CASE RefuseIndex(r) \/ FailToSign(r) \/ \E verified \in BOOLEAN : SignCopy(r, verified)
  <2>1. \E failed \in BOOLEAN : NextVariant(r, failed)
    BY <1>7 DEF RefuseIndex, SignCopy, FailToSign
  <2>2. release[r].phase \in Past
    BY <1>7 DEF RefuseIndex, SignCopy, FailToSign, Past
  <2> QED
    BY <1>1, <2>1, <2>2, NextVariantMoves
<1> QED
  BY <1>2, <1>3, <1>4, <1>5, <1>6, <1>7 DEF ReleaseStep

(* The tag of one variant moves, to a copy of what its release verified.   *)
LEMMA CopyMoves ==
  ASSUME TypeOK, NEW r \in Releases, CopyIndex(r)
  PROVE  /\ release[r].phase = "copy" /\ release'[r].phase = "inspect"
         /\ release'[r].at = release[r].at
         /\ stable'[release[r].at] \in Copies
         /\ stable'[release[r].at].of = release[r].digest[release[r].at]
         /\ \A v \in Variants \ {release[r].at} : stable'[v] = stable[v]
         /\ stableSigned' = stableSigned
<1>0. release[r] \in ReleaseRuns /\ release[r].at \in Variants
  BY RunTyped
<1> DEFINE i == release[r].digest[release[r].at]
<1>1. i \in Indexes
  <2>1. i \in Digests
    BY RunTyped
  <2>2. i.archs # {}
    BY DEF CopyIndex, MultiArch, Architectures
  <2> QED
    BY <2>1, <2>2 DEF Digests, NoIndex
<1>2. release'[r].phase = "inspect" /\ release'[r].at = release[r].at
  BY <1>0, SetMoves DEF CopyIndex, ReleasePhases
<1>3. PICK converted \in BOOLEAN :
        stable' = [stable EXCEPT ![release[r].at] = [of |-> i, converted |-> converted]]
  BY DEF CopyIndex
<1>4. [of |-> i, converted |-> converted] \in Copies
  BY <1>1 DEF Copies
<1>5. stable'[release[r].at] = [of |-> i, converted |-> converted]
  BY <1>0, <1>3 DEF TypeOK
<1>6. release[r].phase = "copy" /\ stableSigned' = stableSigned
  BY DEF CopyIndex
<1> QED
  BY <1>0, <1>2, <1>3, <1>4, <1>5, <1>6 DEF TypeOK

LEMMA StableMoves ==
  ASSUME NEW r \in Releases, ReleaseStep(r)
  PROVE  stable' = stable \/ CopyIndex(r)
BY DEF ReleaseStep, ResolveSource, VerifySources, RefuseIndex, InspectCopy, CompareCopy,
       SignCopy, FailToSign

LEMMA NoCopyIsNone == NoCopy \notin Copies /\ \A x \in Copies : x # NoCopy
<1>1. NoIndex \notin Indexes
  BY CommitsAssumption DEF NoIndex, Indexes, Commits
<1> QED
  BY <1>1 DEF NoCopy, Copies

LEMMA CopiesStep ==
  ASSUME TypeOK, HeadKnown, CopiesOK, [Next]_vars
  PROVE  CopiesOK'
<1>1. ASSUME stable' = stable, signed \subseteq signed', release' = release PROVE CopiesOK'
  BY <1>1 DEF CopiesOK
<1>2. CASE UNCHANGED vars
  BY <1>1, <1>2 DEF vars, streamVars, releaseVars
<1>3. CASE Next /\ ~\E r \in Releases : ReleaseStep(r)
  <2>1. CASE release' = release
    BY <1>1, <1>3, <2>1, OutsideReleases
  <2>2. CASE StartRelease
    BY <1>3, <2>2, OutsideReleases, StartMoves DEF CopiesOK
  <2> QED
    BY <1>3, <2>1, <2>2, OutsideReleases
<1>4. CASE \E r \in Releases : ReleaseStep(r)
  <2> PICK r \in Releases : ReleaseStep(r)
    BY <1>4
  <2>0. release[r] \in ReleaseRuns /\ release[r].at \in Variants
    BY RunTyped
  <2>1. \A s \in Releases, v \in Variants :
          release'[s].phase \in Past => <<v, release'[s].digest[v]>> \in signed'
    BY ReleaseMoves DEF CopiesOK, Others, Past
  <2>2. \A v \in Variants : stable[v] # NoCopy => stable'[v] # NoCopy
    BY StableMoves, CopyMoves, NoCopyIsNone
  <2>3. \A s \in Releases \ {r} :
          /\ release'[s].phase = "inspect" => stable'[release'[s].at] # NoCopy
          /\ release'[s].phase \in {"compare", "sign"} => release'[s].promoted \in Copies
    BY <2>2, ReleaseMoves, RunTyped DEF CopiesOK, Others
  <2>4. release'[r].phase = "inspect" => stable'[release'[r].at] # NoCopy
    BY CopyMoves, NoCopyIsNone, ReleaseMoves
  <2>5. release'[r].phase = "compare" => release'[r].promoted \in Copies
    <3>1. ASSUME InspectCopy(r) PROVE stable[release[r].at] \in Copies
      BY <2>0, <3>1 DEF CopiesOK, InspectCopy, TypeOK
    <3> QED
      BY <3>1, ReleaseMoves, InspectMoves
  <2>6. release'[r].phase = "sign" => release'[r].promoted \in Copies
    BY ReleaseMoves, CompareMoves DEF CopiesOK
  <2> QED
    BY <2>1, <2>3, <2>4, <2>5, <2>6 DEF CopiesOK, Past
<1> QED
  BY <1>2, <1>3, <1>4

(* Every reachable state of promotion and release is well typed.           *)
THEOREM ReleaseTypeCorrect == Spec => []TypeOK
<1>1. Init => TypeOK /\ HeadKnown /\ CopiesOK
  BY InitInv DEF Init, CopiesOK, UnusedRun
<1>2. TypeOK /\ HeadKnown /\ CopiesOK /\ [Next]_vars => (TypeOK /\ HeadKnown /\ CopiesOK)'
  BY TypeStep, CopiesStep
<1> QED
  BY <1>1, <1>2, PTL DEF Spec

-----------------------------------------------------------------------------
LEMMA VerifiedStep ==
  ASSUME TypeOK, CopiesOK, StableWasVerified, [Next]_vars
  PROVE  StableWasVerified'
<1>1. ASSUME stable' = stable, signed \subseteq signed' PROVE StableWasVerified'
  BY <1>1 DEF StableWasVerified
<1>2. CASE UNCHANGED vars
  BY <1>1, <1>2 DEF vars, streamVars, releaseVars
<1>3. CASE Next /\ ~\E r \in Releases : ReleaseStep(r)
  BY <1>1, <1>3, OutsideReleases
<1>4. CASE \E r \in Releases : ReleaseStep(r)
  <2> PICK r \in Releases : ReleaseStep(r)
    BY <1>4
  <2>1. signed' = signed
    BY ReleaseMoves
  <2>2. CASE CopyIndex(r)
    BY <2>1, <2>2, CopyMoves, RunTyped DEF StableWasVerified, CopiesOK
  <2> QED
    BY <1>1, <2>1, <2>2, StableMoves
<1> QED
  BY <1>2, <1>3, <1>4

(* :stable only ever names a copy of an index with a verified signature,   *)
(* whatever happens to :testing and however many releases overlap.         *)
THEOREM StableIsVerified == Spec => []StableWasVerified
<1> DEFINE Inv == TypeOK /\ HeadKnown /\ CopiesOK /\ StableWasVerified
<1>1. Init => Inv
  BY InitInv DEF Init, CopiesOK, UnusedRun, StableWasVerified
<1>2. Inv /\ [Next]_vars => Inv'
  BY TypeStep, CopiesStep, VerifiedStep
<1> QED
  BY <1>1, <1>2, PTL DEF Spec

-----------------------------------------------------------------------------
(* A release on which an unsigned :stable of v may rest.                   *)
Answers(r, v) ==
  \/ release[r].failed
  \/ release[r].at = v /\ release[r].phase = "inspect"
  \/ /\ release[r].at = v /\ release[r].phase \in {"compare", "sign"}
     /\ release[r].promoted = stable[v]

LEMMA ReportedStep ==
  ASSUME TypeOK, CopiesOK, UnsignedStableReported, [Next]_vars
  PROVE  UnsignedStableReported'
<1> SUFFICES ASSUME NEW v \in Variants
             PROVE  (\/ stable[v] = NoCopy \/ SignedCopy(v, stable[v])
                     \/ \E r \in Releases : Answers(r, v))'
  BY DEF UnsignedStableReported, Answers
<1>1. \/ stable[v] = NoCopy \/ SignedCopy(v, stable[v])
      \/ \E r \in Releases : Answers(r, v)
  BY DEF UnsignedStableReported, Answers
<1>2. ASSUME stable'[v] = stable[v], stableSigned \subseteq stableSigned',
             signed \subseteq signed', SignedCopy(v, stable[v])
      PROVE  SignedCopy(v, stable[v])'
  BY <1>2 DEF SignedCopy
<1>3. ASSUME UNCHANGED <<stable, stableSigned>>, signed \subseteq signed',
             \A r \in Releases : Answers(r, v) => Answers(r, v)'
      PROVE  (\/ stable[v] = NoCopy \/ SignedCopy(v, stable[v])
              \/ \E r \in Releases : Answers(r, v))'
  BY <1>1, <1>2, <1>3
<1>4. CASE UNCHANGED vars
  BY <1>3, <1>4 DEF vars, streamVars, releaseVars, Answers
<1>5. CASE Next /\ ~\E r \in Releases : ReleaseStep(r)
  <2>1. \A r \in Releases : Answers(r, v) => Answers(r, v)'
    BY <1>5, OutsideReleases, StartMoves DEF Answers
  <2> QED
    BY <1>3, <1>5, <2>1, OutsideReleases
<1>6. CASE \E r \in Releases : ReleaseStep(r)
  <2> PICK r \in Releases : ReleaseStep(r)
    BY <1>6
  <2>1. CASE CopyIndex(r) /\ release[r].at = v
    BY <2>1, CopyMoves DEF Answers
  <2>2. CASE CopyIndex(r) /\ release[r].at # v
    <3>1. stable'[v] = stable[v] /\ stableSigned' = stableSigned /\ signed' = signed
      BY <2>2, CopyMoves, ReleaseMoves
    <3>2. \A s \in Releases : Answers(s, v) => Answers(s, v)'
      BY <2>2, <3>1, ReleaseMoves DEF Answers, Others
    <3> QED
      BY <1>1, <1>2, <3>1, <3>2
  <2>3. CASE ~CopyIndex(r)
    <3>1. stable' = stable /\ stableSigned \subseteq stableSigned' /\ signed' = signed
      BY <2>3, StableMoves, ReleaseMoves
      DEF ReleaseStep, ResolveSource, VerifySources, RefuseIndex, InspectCopy, CompareCopy,
          SignCopy, FailToSign
    <3>2. \A s \in Releases \ {r} : Answers(s, v) => Answers(s, v)'
      BY <3>1, ReleaseMoves DEF Answers, Others
    <3>3. Answers(r, v) => Answers(r, v)' \/ SignedCopy(v, stable[v])'
      <4>1. CASE release[r].failed
        BY <4>1, ReleaseMoves DEF Answers
      <4>2. CASE release[r].phase = "inspect" /\ release[r].at = v
        <5>1. InspectCopy(r)
          BY <2>3, <4>2 DEF ReleaseStep, ResolveSource, VerifySources, RefuseIndex, CompareCopy,
                            SignCopy, FailToSign
        <5> QED
          BY <3>1, <4>2, <5>1, InspectMoves DEF Answers
      <4>3. CASE /\ release[r].phase = "compare" /\ release[r].at = v
                 /\ release[r].promoted = stable[v]
        <5>1. CompareCopy(r)
          BY <2>3, <4>3 DEF ReleaseStep, ResolveSource, VerifySources, RefuseIndex, InspectCopy,
                            SignCopy, FailToSign
        <5> QED
          BY <3>1, <4>3, <5>1, CompareMoves DEF Answers
      <4>4. CASE /\ release[r].phase = "sign" /\ release[r].at = v
                 /\ release[r].promoted = stable[v]
        <5>1. FailToSign(r) \/ \E verified \in BOOLEAN : SignCopy(r, verified)
          BY <2>3, <4>4 DEF ReleaseStep, ResolveSource, VerifySources, RefuseIndex, InspectCopy,
                            CompareCopy
        <5>2. ASSUME NEW verified \in BOOLEAN, SignCopy(r, verified)
              PROVE  SignedCopy(v, stable[v])'
          BY <3>1, <4>4, <5>2 DEF SignCopy, SignedCopy
        <5>3. FailToSign(r) => release'[r].failed
          BY NextVariantMoves DEF FailToSign
        <5> QED
          BY <5>1, <5>2, <5>3 DEF Answers
      <4> QED
        BY <4>1, <4>2, <4>3, <4>4 DEF Answers
    <3>4. SignedCopy(v, stable[v]) => SignedCopy(v, stable[v])'
      BY <1>2, <3>1
    <3> QED
      BY <1>1, <3>1, <3>2, <3>3, <3>4
  <2> QED
    BY <2>1, <2>2, <2>3
<1> QED
  BY <1>4, <1>5, <1>6

(* However releases overlap, an unsigned :stable is about to be signed or  *)
(* some release is red.                                                    *)
THEOREM UnsignedStableIsReported == Spec => []UnsignedStableReported
<1> DEFINE Inv == TypeOK /\ HeadKnown /\ CopiesOK /\ UnsignedStableReported
<1>1. Init => Inv
  BY InitInv DEF Init, CopiesOK, UnusedRun, UnsignedStableReported
<1>2. Inv /\ [Next]_vars => Inv'
  BY TypeStep, CopiesStep, ReportedStep
<1> QED
  BY <1>1, <1>2, PTL DEF Spec

-----------------------------------------------------------------------------
(* Tested of both variants, or of uranium and pushed during a run.         *)
Excused(c) == TestedOn(Uranium, c) /\ (TestedOn(Nvidia, c) \/ c \in overtook)

(* The head a promotion run read is behind by commits that overtook it,    *)
(* and promote is left to do only when uranium-nvidia was tested there.    *)
RunOK(x) ==
  x # NoEvaluation =>
    /\ x.head <= head
    /\ \A c \in 1..head : c <= x.head \/ c \in overtook
    /\ "promote" \in x.todo => TestedOn(Nvidia, x.head)

GatesOK ==
  /\ RunOK(evaluation)
  /\ queue # 0 => Excused(queue)
  /\ main # 0 => Excused(main)

(* A promotion run that has just begun on head h, or none.                 *)
Fresh(x, h) == x = NoEvaluation \/ (x.head = h /\ x.todo = {"wait"})

LEMMA BeginFresh == \A e, thursday : Fresh(Begin(e, thursday), head')
BY DEF Begin, Fresh

LEMMA AskFresh ==
  ASSUME NEW e, Ask(e)
  PROVE  evaluation' = evaluation \/ Fresh(evaluation', head')
BY BeginFresh DEF Ask

LEMMA GoOnFresh ==
  ASSUME TypeOK, ~Idle, NEW left, GoOn(left)
  PROVE  \/ evaluation'.head = evaluation.head /\ evaluation'.todo = left
         \/ Fresh(evaluation', head')
<1>1. evaluation \in Evaluations
  BY DEF TypeOK, Idle
<1> QED
  BY <1>1, BeginFresh DEF GoOn, Evaluations

(* Nothing was pushed since a run that has just begun.                     *)
LEMMA FreshOK ==
  ASSUME head' \in Nat, Fresh(evaluation', head')
  PROVE  RunOK(evaluation)'
BY DEF Fresh, RunOK

(* A recorded test stays recorded, and what overtook a run did so for good.*)
LEMMA ExcusedStays ==
  ASSUME passed \subseteq passed', overtook \subseteq overtook'
  PROVE  /\ \A v, c : TestedOn(v, c) => TestedOn(v, c)'
         /\ \A c : Excused(c) => Excused(c)'
BY DEF TestedOn, Excused

(* The promotion run is as it was, has just begun or has the jobs left     *)
(* that its last one allows.                                               *)
LEMMA GatesKept ==
  ASSUME TypeOK, GatesOK, head' = head, passed \subseteq passed', UNCHANGED <<queue, main, overtook>>,
         \/ evaluation' = evaluation
         \/ Fresh(evaluation', head')
         \/ /\ ~Idle /\ evaluation'.head = evaluation.head
            /\ "promote" \in evaluation'.todo => TestedOn(Nvidia, evaluation.head)
  PROVE  GatesOK'
<1>1. head' \in Nat
  BY DEF TypeOK
<1>2. CASE Fresh(evaluation', head')
  BY <1>1, <1>2, FreshOK, ExcusedStays DEF GatesOK
<1>3. CASE ~Fresh(evaluation', head')
  <2>1. RunOK(evaluation)'
    BY <1>3, ExcusedStays DEF GatesOK, RunOK, Idle
  <2> QED
    BY <2>1, ExcusedStays DEF GatesOK
<1> QED
  BY <1>2, <1>3

LEMMA GatesStep ==
  ASSUME TypeOK, GatesOK, [Next]_vars
  PROVE  GatesOK'
<1>1. CASE UNCHANGED vars
  BY <1>1, GatesKept DEF vars, testVars, promotionVars
<1>2. CASE \E image \in BOOLEAN : Push(image)
  <2>1. /\ head' = head + 1 /\ head \in Nat /\ UNCHANGED <<queue, main, passed>>
        /\ overtook' = IF Idle THEN overtook ELSE overtook \cup {head + 1}
    BY <1>2 DEF Push, testVars, TypeOK
  <2>2. evaluation' = evaluation \/ Fresh(evaluation', head')
    BY <1>2, AskFresh DEF Push
  <2>3. /\ \A v, c : TestedOn(v, c) => TestedOn(v, c)'
        /\ \A c : Excused(c) => Excused(c)'
    BY <2>1, ExcusedStays
  <2>4. RunOK(evaluation)'
    <3>1. CASE Fresh(evaluation', head')
      BY <2>1, <3>1, FreshOK
    <3>2. CASE Idle /\ evaluation' = evaluation
      BY <3>2 DEF Idle, RunOK
    <3>3. CASE ~Idle /\ evaluation' = evaluation
      <4>1. \A c \in 1..head' : c \in 1..head \/ c \in overtook'
        BY <2>1, <3>3
      <4>2. overtook \subseteq overtook'
        BY <2>1
      <4>3. evaluation.head \in Nat
        BY <3>3 DEF TypeOK, Idle, Evaluations, Commits
      <4>4. evaluation'.head <= head'
        BY <2>1, <3>3, <4>3 DEF GatesOK, RunOK, Idle
      <4>5. \A c \in 1..head' : c <= evaluation'.head \/ c \in overtook'
        BY <3>3, <4>1, <4>2 DEF GatesOK, RunOK, Idle
      <4>6. ("promote" \in evaluation.todo => TestedOn(Nvidia, evaluation.head))'
        BY <2>3, <3>3 DEF GatesOK, RunOK, Idle
      <4> QED
        BY <4>4, <4>5, <4>6 DEF RunOK
    <3> QED
      BY <2>2, <3>1, <3>2, <3>3
  <2> QED
    BY <2>1, <2>3, <2>4 DEF GatesOK
<1>3. CASE Heartbeat("push") \/ Heartbeat("dispatch")
  BY <1>3, AskFresh, GatesKept DEF Heartbeat, testVars
<1>4. CASE \E v \in Variants : StreamStep(v)
  BY <1>4, GatesKept DEF StreamStep, PublishIndex, SignIndex, testVars, promotionVars
<1>5. CASE \E v \in Variants : TestStep(v)
  <2> PICK t \in tests, passes \in BOOLEAN : EndTest(t, passes)
    BY <1>5 DEF TestStep
  <2>1. passed \subseteq passed'
    BY DEF EndTest
  <2>2. evaluation' = evaluation \/ Fresh(evaluation', head')
    BY AskFresh DEF EndTest
  <2> QED
    BY <2>1, <2>2, GatesKept DEF EndTest
<1>6. CASE EvaluationStep
  <2>0. /\ ~Idle /\ head' = head /\ passed' = passed /\ UNCHANGED <<main, overtook>>
    BY <1>6 DEF EvaluationStep, WaitPasses, WaitTimesOut, DispatchMissing, Promote, Idle,
                NoEvaluation, testVars
  <2>1. CASE WaitPasses
    BY <2>0, <2>1, GoOnFresh, GatesKept DEF WaitPasses
  <2>2. CASE WaitTimesOut
    <3>1. "promote" \notin Backfills
      BY DEF Backfills
    <3> QED
      BY <2>0, <2>2, <3>1, GoOnFresh, GatesKept DEF WaitTimesOut
  <2>3. CASE DispatchMissing
    BY <2>0, <2>3, GoOnFresh, GatesKept DEF DispatchMissing, GatesOK, RunOK, Idle
  <2>4. CASE Promote
    <3>1. \/ evaluation'.head = evaluation.head /\ "promote" \notin evaluation'.todo
          \/ Fresh(evaluation', head')
      BY <2>0, <2>4, GoOnFresh DEF Promote
    <3>2. head \in Nat /\ ~Idle /\ evaluation \in Evaluations
      BY <2>0 DEF TypeOK, Idle
    <3>3. RunOK(evaluation)'
      <4>1. CASE Fresh(evaluation', head')
        BY <2>0, <3>2, <4>1, FreshOK
      <4>2. CASE ~Fresh(evaluation', head')
        BY <2>0, <3>1, <3>2, <4>2 DEF GatesOK, RunOK, Idle
      <4> QED
        BY <4>1, <4>2
    <3>4. queue' = queue \/ (queue' = head /\ TestedOn(Uranium, head))
      BY <2>4 DEF Promote
    <3>5. queue' # 0 => Excused(queue')
      <4>1. CASE queue' = queue
        BY <4>1 DEF GatesOK
      <4>2. CASE queue' = head /\ head # 0 /\ TestedOn(Uranium, head)
        <5>1. head <= evaluation.head \/ head \in overtook
          BY <3>2, <4>2 DEF GatesOK, RunOK, Idle
        <5>2. CASE head \in overtook
          BY <4>2, <5>2 DEF Excused
        <5>3. CASE head <= evaluation.head
          <6>1. evaluation.head \in Nat /\ evaluation.head <= head
            BY <3>2 DEF GatesOK, RunOK, Idle, Evaluations, Commits
          <6>2. evaluation.head = head
            BY <3>2, <5>3, <6>1
          <6>3. TestedOn(Nvidia, evaluation.head)
            BY <2>4, <3>2 DEF Promote, GatesOK, RunOK, Idle
          <6> QED
            BY <4>2, <6>2, <6>3 DEF Excused
        <5> QED
          BY <5>1, <5>2, <5>3
      <4> QED
        BY <3>4, <4>1, <4>2
    <3> QED
      BY <2>0, <3>3, <3>5, ExcusedStays DEF GatesOK
  <2> QED
    BY <1>6, <2>1, <2>2, <2>3, <2>4 DEF EvaluationStep
<1>7. CASE Merge
  <2>1. /\ UNCHANGED <<head, passed, evaluation, overtook>>
        /\ queue # 0 /\ main' = queue /\ queue' = 0
    BY <1>7 DEF Merge, testVars
  <2>2. RunOK(evaluation)'
    BY <2>1 DEF GatesOK, RunOK, TestedOn
  <2> QED
    BY <2>1, <2>2, ExcusedStays DEF GatesOK
<1>8. CASE RequestRelease
  BY <1>8, GatesKept DEF RequestRelease, testVars, promotionVars
<1>9. CASE \E r \in Releases : ReleaseStep(r)
  <2>1. UNCHANGED <<head, testVars, promotionVars>>
    BY <1>9 DEF ReleaseStep, ResolveSource, VerifySources, CopyIndex, RefuseIndex, InspectCopy,
                CompareCopy, SignCopy, FailToSign, Outside
  <2> QED
    BY <2>1, GatesKept DEF testVars, promotionVars
<1> QED
  BY <1>1, <1>2, <1>3, <1>4, <1>5, <1>6, <1>7, <1>8, <1>9 DEF Next

(* Whatever is merged to main has a successful end-to-end run of uranium,  *)
(* and one of uranium-nvidia unless it overtook a promotion run: only a    *)
(* push between the reads of the two gates lets a commit through untested. *)
THEOREM MergesAreTested == Spec => []MergedWasTested
<1> DEFINE Inv == TypeOK /\ HeadKnown /\ CopiesOK /\ GatesOK
<1>1. Init => Inv
  BY InitInv DEF Init, CopiesOK, UnusedRun, GatesOK, RunOK
<1>2. Inv /\ [Next]_vars => Inv'
  BY TypeStep, CopiesStep, GatesStep
<1>3. Inv => MergedWasTested
  BY DEF GatesOK, MergedWasTested, Excused
<1> HIDE DEF Inv
<1> QED
  BY <1>1, <1>2, <1>3, PTL DEF Spec

=============================================================================
