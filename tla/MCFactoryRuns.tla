---------------------------- MODULE MCFactoryRuns -----------------------------
(***************************************************************************)
(* Instances of FactoryRuns for TLC.  lib is a library; app, which the     *)
(* image installs, and tool and held, which it does not, are compiled      *)
(* against it, held being one whose sources the factory cannot supply.     *)
(***************************************************************************)
EXTENDS FactoryRuns, TLC

CONSTANTS lib, app, tool, held, main, feature, latest, branch

(* Everything else needs lib. *)
Uses == [p \in Packages |-> IF p = lib THEN {} ELSE {lib}]

(* The order the planner lays when no edge is dropped. *)
LibFirst == [p \in Packages |-> IF p = lib THEN 0 ELSE 1]

(* tool is compiled against app as well, which the graph has no edge for:  *)
(* both are in the wave after lib.                                         *)
Siblings ==
  [p \in Packages |-> CASE p = app -> {lib} [] p = tool -> {lib, app} [] OTHER -> {}]

AppOnly == {app} \cap Packages

StreamOf == [r \in Refs |-> IF r = main THEN latest ELSE branch]

NoAsks == {}

(* "Build only this package", a plain run, a full one and a trial. *)
SomeAsks ==
  {[only |-> {app}, full |-> FALSE, publish |-> TRUE],
   [only |-> {}, full |-> FALSE, publish |-> TRUE],
   [only |-> {}, full |-> TRUE, publish |-> FALSE]}

PlainAsks == {[only |-> {}, full |-> FALSE, publish |-> TRUE]}

AppAsks == {[only |-> {app}, full |-> FALSE, publish |-> TRUE]}

SomeVersions == Permutations(Versions)
=============================================================================
