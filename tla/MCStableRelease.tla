--------------------------- MODULE MCStableRelease ---------------------------
(***************************************************************************)
(* Instances of StableRelease for TLC.                                     *)
(***************************************************************************)
EXTENDS StableRelease

(* Two pushes promoted, patiently or while builds and promotions are under *)
(* way; two releases over moving streams; one release at any point of      *)
(* testing and promotion; and one push with head_branch as it happens.     *)
Promotions == [pushes |-> 2, releases |-> 0, promotes |-> TRUE, daily |-> TRUE,
               patient |-> TRUE, branches |-> {"testing"}]
Overtaking == [Promotions EXCEPT !.patient = FALSE, !.daily = FALSE]
Overlap == [Promotions EXCEPT !.releases = 2, !.promotes = FALSE]
OneRelease == [Promotions EXCEPT !.pushes = 1, !.releases = 1]
AnyBranch == [Promotions EXCEPT !.pushes = 1, !.branches = {"testing", "main"}]

OnlyPromotions == {Promotions}
All == {Promotions, Overtaking, Overlap, OneRelease, AnyBranch}
=============================================================================
