---------------------------- MODULE RecipeIntake ------------------------------
(***************************************************************************)
(* From a Copr chroot to a build: a maintainer seeds recipes, locks their  *)
(* sources and commits what validate.py lets in; jobs build what was       *)
(* committed.  One maintainer works in one checkout, a command at a time.  *)
(***************************************************************************)
EXTENDS RecipeImport, SourceStaging

CONSTANT SourcesOf \* SourcesOf[a]: the sources the spec in archive a names

ASSUME IntakeAssumption ==
  /\ SourcesOf \in [Archives -> SpecSources]
  /\ \A a \in Archives : SourcesOf[a] \in SpecsOf[a.name]

vars == <<importVars, lockVars, job>>

Init == ImportInit /\ LocksInit /\ job = IdleJob

(* The spec of a recipe is the one its archive had when it was unpacked.   *)
SpecFollows ==
  sources' = [p \in Packages |->
    IF recipe'[p] = recipe[p] THEN sources[p]
    ELSE IF recipe'[p].state \in {"partial", "whole"} THEN SourcesOf[recipe'[p].archive]
    ELSE None]

Import == ImportNext /\ SpecFollows /\ UNCHANGED <<lock, torn, committed, dropped, job>>

(* Locking sources, and committing what every check of validate.py passes. *)
Maintain ==
  /\ seed.phase = "idle"
  /\ LocksStep \/ (Commit /\ ProvenanceComplete)
  /\ UNCHANGED <<importVars, job>>

BuildCommitted ==
  /\ \/ \E p \in Packages : JobStart(p)
     \/ JobStep
     \/ Swap
     \/ JobDies
  /\ UNCHANGED importVars

Next == Import \/ Maintain \/ BuildCommitted

Spec == Init /\ [][Next]_vars

(* A job that has started runs; people need not do anything.               *)
FairSpec == Spec /\ WF_vars(JobStep /\ UNCHANGED importVars)

TypeOK == ImportTypeOK /\ StagingTypeOK
===============================================================================
