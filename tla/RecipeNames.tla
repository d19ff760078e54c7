----------------------------- MODULE RecipeNames ------------------------------
(***************************************************************************)
(* What the parts of source intake agree on: the names of the recipes that *)
(* factory/packages may hold, and absence.                                 *)
(***************************************************************************)
CONSTANTS
  Packages, \* names of recipes
  None      \* no archive, no entry, no digest, nothing said

ASSUME NamesAssumption == None \notin Packages
===============================================================================
