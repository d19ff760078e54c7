------------------------- MODULE RecipeIntakeProofs -------------------------
(***************************************************************************)
(* The import of recipes, the locks and the jobs together: what was proved *)
(* of each holds of the whole.                                             *)
(***************************************************************************)
EXTENDS RecipeIntake, RecipeImportProofs, SourceStagingProofs

IntakeInv == ImportInv /\ Chosen /\ StagingInv

LEMMA IntakeInit == Init => IntakeInv
BY ImportInvInit, ChosenInit, StagingInvInit DEF Init, IntakeInv

LEMMA ImportUnchanged ==
  ImportInv /\ Chosen /\ UNCHANGED importVars => ImportInv' /\ Chosen'
BY ImportInvStep, ChosenStep

(* An import changes which sources a spec names, and nothing of the lock.  *)
LEMMA ImportLeavesLocks ==
  ASSUME IntakeInv, Import, ImportInv'
  PROVE  StagingInv' /\ DigestsKept
<1>1. SpecFollows /\ UNCHANGED <<lock, torn, committed, dropped, job>>
  BY DEF Import
<1>2. ASSUME NEW p \in Packages, recipe'[p].state \in {"partial", "whole"}
      PROVE  SourcesOf[recipe'[p].archive] \in SpecSources
  <2>1. recipe'[p].archive \in Archives
    BY <1>2 DEF ImportInv, Unpacked
  <2> QED
    BY <2>1, IntakeAssumption
<1>3. sources' \in [Packages -> SpecSources \cup {None}]
  BY <1>1, <1>2 DEF SpecFollows, IntakeInv, StagingInv, LocksInv, LocksTypeOK
<1>4. LocksInv'
  BY <1>1, <1>3 DEF IntakeInv, StagingInv, LocksInv, LocksTypeOK, CommittedAccepted
<1>5. JobInv' /\ DigestInv' /\ DigestsKept
  BY <1>1, JobUnchanged, DigestUnchanged, SameCommit DEF IntakeInv, StagingInv
<1> QED
  BY <1>4, <1>5 DEF StagingInv

LEMMA IntakeStep == IntakeInv /\ [Next]_vars => IntakeInv' /\ DigestsKept
<1> SUFFICES ASSUME IntakeInv, [Next]_vars PROVE IntakeInv' /\ DigestsKept
  OBVIOUS
<1> USE DEF IntakeInv
<1>1. CASE Import
  <2>1. ImportInv' /\ Chosen'
    BY <1>1, ImportInvStep, ChosenStep DEF Import
  <2> QED
    BY <1>1, <2>1, ImportLeavesLocks
<1>2. CASE Maintain
  BY <1>2, ImportUnchanged, LocksKeepStaging DEF Maintain
<1>3. CASE BuildCommitted
  <2>1. UNCHANGED lockVars
    BY <1>3 DEF BuildCommitted, JobStart, JobStep, FetchRefused, FetchKept, Generate, Fetch,
                Verify, Build, JobEnd, Swap, JobDies
  <2> QED
    BY <1>3, <2>1, ImportUnchanged, JobKeepsStaging DEF BuildCommitted
<1>4. CASE UNCHANGED vars
  <2>1. UNCHANGED importVars /\ UNCHANGED lockVars /\ UNCHANGED job
    BY <1>4 DEF vars
  <2> QED
    BY <2>1, ImportUnchanged, JobKeepsStaging
<1> QED
  BY <1>1, <1>2, <1>3, <1>4 DEF Next

LEMMA IntakeInvariant == Spec => []IntakeInv
<1>1. IntakeInv /\ [Next]_vars => IntakeInv'
  BY IntakeStep
<1> QED
  BY <1>1, IntakeInit, PTL DEF Spec

-----------------------------------------------------------------------------
(* Every variable keeps to its type; a location to download from is a URL, *)
(* for every source of every lock.                                         *)
THEOREM IntakeTypes == Spec => []TypeOK
<1>1. IntakeInv => TypeOK
  BY DEF IntakeInv, ImportInv, StagingInv, LocksInv, JobInv, TypeOK, StagingTypeOK
<1> QED
  BY <1>1, IntakeInvariant, PTL

(* A recipe with a recorded checksum is complete and of the package and    *)
(* the version recorded (seed_from_copr.py, main), with maintainers and    *)
(* jobs at work on the same checkout.                                      *)
THEOREM IntakeKeepsVersions == Spec => []RecordedVersionHolds
<1>1. IntakeInv => RecordedVersionHolds
  BY DEF IntakeInv, ImportInv
<1> QED
  BY <1>1, IntakeInvariant, PTL

(* Left to choose, a seeding takes no archive older than another of its    *)
(* package (seed_from_copr.py, pick_version), in the same company.         *)
THEOREM IntakeSeedsNewest == Spec => []SeedsNewest
<1>1. IntakeInv => SeedsNewest
  BY ChosenIsNewest DEF IntakeInv
<1> QED
  BY <1>1, IntakeInvariant, PTL

(* What is imported, locked and committed is built from the locked bytes,  *)
(* unless they are replaced after the verification, and in a fresh         *)
(* checkout from nothing else (source_pipeline.py, fetch_source and        *)
(* verify_staged).                                                         *)
THEOREM IntakeBuildsLocked == Spec => []BuiltFromLockedBytes
<1>1. IntakeInv => BuiltFromLockedBytes
  BY JobInvBuilt DEF IntakeInv, StagingInv
<1> QED
  BY <1>1, IntakeInvariant, PTL

(* No job fails because of a lock that validate.py let in, but for the     *)
(* four cases in which the stager's rules are not the validator's (see     *)
(* StagingAccepts), whichever recipes are seeded and however the lock is   *)
(* rendered and edited by then (validate.py, check_locks).                 *)
THEOREM IntakeAccepts == Spec => []AcceptedIsStageable
<1>1. IntakeInv => AcceptedIsStageable
  BY DEF IntakeInv, StagingInv, JobInv
<1> QED
  BY <1>1, IntakeInvariant, PTL

(* From one commit to the next, the digest of a URL that no render left    *)
(* out does not change, whatever upstream serves and however the lock was  *)
(* edited, torn or restored (render_source_locks.py, main).                *)
THEOREM IntakeKeepsDigests == Spec => CommitsKeepDigests
<1>1. IntakeInv /\ [Next]_vars => [DigestsKept]_lockVars
  BY IntakeStep
<1>2. Spec => [][DigestsKept]_lockVars
  BY <1>1, IntakeInvariant, PTL DEF Spec
<1> QED
  BY <1>2 DEF CommitsKeepDigests, DigestsKept

(* A job ends whatever the hosts answer, and whatever maintainers do in    *)
(* the checkout meanwhile: each of its steps goes down in an order without *)
(* an endless descent (source_pipeline.py, _fetch and fetch_source).       *)
THEOREM IntakeJobsRunDry ==
  /\ IsWellFoundedOn(Less, (Nat \X Nat) \X (Nat \X Nat))
  /\ Spec => [][WorkRunsDry]_vars
<1>1. Init => IntakeInv /\ WorkInv
  BY IntakeInit, WorkInvInit DEF Init
<1>2. IntakeInv /\ WorkInv /\ [Next]_vars =>
        (IntakeInv /\ WorkInv)' /\ [WorkRunsDry]_vars
  <2> SUFFICES ASSUME IntakeInv, WorkInv, [Next]_vars
               PROVE  (IntakeInv /\ WorkInv)' /\ WorkRunsDry
    OBVIOUS
  <2>1. IntakeInv' /\ JobInv /\ JobInv'
    BY IntakeStep DEF IntakeInv, StagingInv
  <2>2. \/ \E p \in Packages : JobStart(p)
        \/ JobStep \/ Swap \/ JobDies \/ UNCHANGED job
    BY DEF Next, vars, Import, Maintain, BuildCommitted
  <2> QED
    BY <2>1, <2>2, StepRunsDry
<1>3. Spec => [][WorkRunsDry]_vars
  BY <1>1, <1>2, PTL DEF Spec
<1> QED
  BY <1>3, LessWellFounded
=============================================================================
