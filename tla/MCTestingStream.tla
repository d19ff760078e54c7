--------------------------- MODULE MCTestingStream ---------------------------
(***************************************************************************)
(* Two instances of TestingStream in one, either variant by itself.        *)
(* Without patience: pushes at any time, merge groups, flaky suites.  With *)
(* it: the calm instance, in which pushes wait for what they started,      *)
(* which the properties about whole commits ask for.                       *)
(***************************************************************************)
EXTENDS TestingStream

Calm == INSTANCE TestingStream WITH Faults <- {"build", "step"}

MCNext == (~IsCalm /\ Next) \/ (IsCalm /\ Calm!Next)

MCSpec ==
  /\ Init
  /\ [][MCNext]_vars
  /\ WF_vars(IsCalm /\ Calm!BuildStep)
  /\ \A c \in Commits : WF_vars(IsCalm /\ Calm!AssemblyStep(c))
  /\ \A v \in Variants : WF_vars(IsCalm /\ Calm!TestStep(v))

-----------------------------------------------------------------------------
(* "The sibling's own completion will retry this": when both architectures *)
(* of a commit are built, in whichever order and after whatever re-runs,   *)
(* its index gets assembled and signed, or a red job says why not.         *)
CalmAssembled == []IsCalm => Assembled

(* A change that stays the head of testing ends up with a successful       *)
(* end-to-end run of both variants, unless one of its own jobs failed.     *)
CalmHeadTested == []IsCalm => HeadTested
=============================================================================
