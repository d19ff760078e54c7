------------------------------ MODULE Factory -------------------------------
(***************************************************************************)
(* What the parts of the package factory agree on: recipes, the versions   *)
(* of their inputs, the RPMs a build leaves, the repository image that     *)
(* carries them, and the selection rule of factory/tools/rebuild_plan.py.  *)
(***************************************************************************)
EXTENDS Naturals

CONSTANTS
  Packages,      \* recipes of the inventory
  Versions,      \* input digests a recipe can have
  BuildRequires, \* BuildRequires[p]: recipes p is compiled against
  Wave,          \* Wave[p]: the wave p builds in when selected
  Blocked,       \* recipes whose sources the factory cannot supply
  Installed,     \* recipes the consumer transaction installs when present
  Required,      \* recipes it installs at a version only the factory has
  None           \* absence: no image, no RPM, the copy in CentOS

ASSUME FactoryAssumption ==
  /\ BuildRequires \in [Packages -> SUBSET Packages]
  /\ Wave \in [Packages -> Nat]
  /\ Blocked \subseteq Packages
  /\ Installed \subseteq Packages
  /\ Required \subseteq Installed
  /\ None \notin Versions

Buildable == Packages \ Blocked

(* The recipes of a commit, each reduced to its input digest. *)
Recipes == [Packages -> Versions]

(* The RPMs of one recipe: the inputs they were built from and, per        *)
(* recipe, the version they were linked against (None: the CentOS copy).   *)
(* Every version of a library is taken to move its soname.                 *)
Builds == [ver : Versions, links : [Packages -> Versions \cup {None}]]

Contents == [Packages -> Builds \cup {None}]

VersionIn(rpms, p) == IF rpms[p] = None THEN None ELSE rpms[p].ver

NoRpms == [p \in Packages |-> None]
NothingKnown == [p \in Packages |-> None]

(* The label the image carries: the input digest of every build in it.     *)
States == [Packages -> Versions \cup {None}]

ASSUME AbsenceAssumption == None \notin Builds /\ None \notin Contents

-----------------------------------------------------------------------------
(* A build is linked against what the repository holds.                    *)
LinksHold(rpms, p) ==
  \A q \in BuildRequires[p] : rpms[p].links[q] = VersionIn(rpms, q)

(* The consumer transaction: what the image installs resolves against the  *)
(* candidate, and the GNOME 51 packages come from it.                      *)
Installable(rpms) ==
  /\ \A p \in Required : rpms[p] # None
  /\ \A p \in Installed : rpms[p] # None => LinksHold(rpms, p)

-----------------------------------------------------------------------------
(* Mutant of Changed: selects what cannot be built. *)
ChangedEvenBlocked(witness, recipes, only, full) ==
  {p \in Packages :
     IF only # {} THEN p \in only
     ELSE full \/ witness[p] = None \/ witness[p] # recipes[p]}

(* Recipes a run starts from: the ones asked for by name, or those whose   *)
(* inputs are not the published ones.                                      *)
Changed(witness, recipes, only, full) ==
  {p \in Buildable :
     IF only # {} THEN p \in only
     ELSE full \/ witness[p] = None \/ witness[p] # recipes[p]}

FollowsConsumers(S) ==
  \A q \in S : \A p \in Buildable : q \in BuildRequires[p] => p \in S

(* Mutant of DragAlong: consumers are left as they are. *)
DragNobody(seeds) == seeds

(* Every buildable consumer of a selected recipe is selected with it.      *)
DragAlong(seeds) ==
  {p \in Packages :
     \A S \in SUBSET Packages : (seeds \subseteq S /\ FollowsConsumers(S)) => p \in S}

Select(witness, recipes, only, full) ==
  DragAlong(Changed(witness, recipes, only, full))
=============================================================================
