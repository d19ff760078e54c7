----------------------------- MODULE MCWavePlan -----------------------------
(***************************************************************************)
(* Slices of WavePlan's input space for TLC.  Init leaves every input      *)
(* free; each slice fixes what its run does not ask about.                 *)
(***************************************************************************)
EXTENDS WavePlan

(* Requirement i names recipe i; any further requirement is a virtual      *)
(* capability that both of the first two recipes provide.                  *)
OwnAndVirtual ==
  [r \in Requirements |-> IF r \in Packages THEN {r} ELSE {1, 2}]

(* Rows without the requirement a recipe satisfies by itself. *)
RowsOfOthers ==
  {f \in [Packages -> SUBSET Requirements] : \A c \in Packages : c \notin f[c]}

WitnessesOf(f) ==
  {g \in [Packages -> SUBSET Requirements] : \A c \in Packages : g[c] \subseteq f[c]}

(* plan --packages over any selection, with witnesses per consumer. *)
InitPackages ==
  /\ stack = FALSE
  /\ surveyed = TRUE
  /\ blocked = {}
  /\ providers = OwnAndVirtual
  /\ request \in SUBSET (Packages \cup {UnknownName})
  /\ Packages \subseteq request
       \/ (request = {UnknownName})
       \/ (request = Packages \ {1})
  /\ rows \in RowsOfOthers
  /\ satisfied \in WitnessesOf(rows)
  /\ Init

(* plan --stack from any targets, with and without blocked recipes and the *)
(* CentOS survey.                                                          *)
InitStack ==
  /\ stack = TRUE
  /\ surveyed \in BOOLEAN
  /\ blocked \in {{}, {1}}
  /\ providers = OwnAndVirtual
  /\ request \in SUBSET (Packages \cup {UnknownName})
  /\ rows \in RowsOfOthers
  /\ \E W \in SUBSET Requirements :
       satisfied = [c \in Packages |-> IF surveyed THEN rows[c] \cap W ELSE {}]
  /\ Init

(* A request of each kind.                                                 *)
InitSlices == InitPackages \/ InitStack

SpecSlices == InitSlices /\ [][Next]_vars /\ WF_vars(Next)
=============================================================================
