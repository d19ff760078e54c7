---------------------------- MODULE RecipeImport ----------------------------
(***************************************************************************)
(* Seeding factory/packages from a Copr chroot: seed_from_copr.py and the  *)
(* two commands of import_srpm.py it runs, extract and record, which a     *)
(* maintainer may also run by hand.  The chroot goes on publishing, and    *)
(* any command may die half-way.  A source RPM stands for its checksum.    *)
(***************************************************************************)
EXTENDS RpmVersions, RecipeNames

CONSTANTS
  Archives, \* source RPMs the chroot may publish: [name, version, release]
  Asks,     \* command lines of seed_from_copr.py people use: these packages
            \* ({}: all), each at a version (None: unsaid), strictly or not
  MaxKills, \* bound: commands that die half-way
  Newest,   \* the version "newest" of a command line
  CutShort  \* a sidecar whose writer died

Versions == {a.version : a \in Archives}

ASSUME ImportAssumption ==
  /\ \A a \in Archives :
       a = [name |-> a.name, version |-> a.version, release |-> a.release]
       /\ a.name \in Packages
       /\ a.version \in VersionStrings /\ a.release \in VersionStrings
  /\ Asks \subseteq [only : SUBSET Packages, strict : BOOLEAN,
                     version : [Packages -> Versions \cup {Newest, None}]]
  /\ MaxKills \in Nat
  /\ {None, CutShort} \cap Archives = {}
  /\ {None, Newest} \cap Versions = {}
  /\ None \notin {Newest, CutShort}

VARIABLES
  chroot,   \* archives the chroot publishes
  recipe,   \* recipe[p]: the directory packages/p
  sidecar,  \* sidecar[p]: the archive .factory-upstream.json names, None
            \* without such a file
  seed,     \* the command under way
  finished, \* what the last seeding that ran to its end printed, or None
  kills

importVars == <<chroot, recipe, sidecar, seed, finished, kills>>

(* A directory with no spec yet, with a spec but not swept, or complete.   *)
Directories == [state : {"absent", "debris", "partial", "whole"},
                archive : Archives \cup {None}]
NoDirectory == [state |-> "absent", archive |-> None]
NoArchives == [p \in Packages |-> None]

Phases == {"idle", "pick", "extract", "record"}

(* The catalogue is read once; name, version and href are the package in   *)
(* hand, and byHand says that extract and record were typed, not run.      *)
Commands == [phase : Phases, byHand : BOOLEAN, entries : SUBSET Archives,
             ask : Asks \cup {None}, todo : SUBSET Packages,
             skipped : SUBSET Packages, failed : SUBSET Packages,
             name : Packages \cup {None}, version : Versions \cup {None},
             href : Archives \cup {None}]

NoCommand == [phase |-> "idle", byHand |-> FALSE, entries |-> {}, ask |-> None,
              todo |-> {}, skipped |-> {}, failed |-> {}, name |-> None,
              version |-> None, href |-> None]

Reports == [asked : SUBSET Packages, skipped : SUBSET Packages,
            failed : SUBSET Packages]

-----------------------------------------------------------------------------
(* available: the versions a catalogue has of p.                           *)
Available(entries, p) == {a.version : a \in {b \in entries : b.name = p}}

(* Mutant of PickVersion: the first in the order of the metadata.          *)
PickAnyVersion(versions) == versions

(* pick_version: the newest, not the last of a sort by text.               *)
PickVersion(versions) ==
  {v \in versions : \A w \in versions : Compare(v, w) >= 0}

AtLeast(a, b) ==
  LET order == Compare(a.version, b.version)
  IN IF order # 0 THEN order > 0 ELSE Compare(a.release, b.release) >= 0

Candidates(entries, p, version) ==
  {a \in entries : a.name = p /\ (version = None \/ a.version = version)}

(* Several versions and none named: a decision nobody made.                *)
Ambiguous(entries, p, version) ==
  version = None /\ \E a, b \in Candidates(entries, p, None) : a.version # b.version

(* Mutant of SelectSource: several versions are not refused.               *)
SelectAnySource(entries, p, version) ==
  {a \in Candidates(entries, p, version) :
     \A b \in Candidates(entries, p, version) : AtLeast(a, b)}

(* select_source: the newest archive of that package and version, none     *)
(* when it refuses, several when they compare equal.                       *)
SelectSource(entries, p, version) ==
  IF Ambiguous(entries, p, version) THEN {}
  ELSE {a \in Candidates(entries, p, version) :
          \A b \in Candidates(entries, p, version) : AtLeast(a, b)}

(* The version the command line and the catalogue come to.                 *)
Wanted(entries, p, asked) ==
  LET known == Available(entries, p)
  IN IF asked = Newest \/ (asked = None /\ \E v, w \in known : v # w)
     THEN PickVersion(known) ELSE {asked}

(* The recipes of inventory.py: directories with a spec.                   *)
Inventory == {p \in Packages : recipe[p].state \in {"partial", "whole"}}

Recorded == {p \in Packages : sidecar[p] \notin {None, CutShort}}

(* check_provenance.                                                       *)
ProvenanceComplete == Inventory \subseteq Recorded

-----------------------------------------------------------------------------
ImportInit ==
  /\ chroot \in SUBSET Archives
  /\ recipe = [p \in Packages |-> NoDirectory]
  /\ sidecar = NoArchives
  /\ seed = NoCommand
  /\ finished = None
  /\ kills = 0

(* A build finishes in Copr and the repository lists it.                   *)
Publish ==
  /\ \E a \in Archives \ chroot : chroot' = chroot \cup {a}
  /\ UNCHANGED <<recipe, sidecar, seed, finished, kills>>

(* seed_from_copr.py reads the catalogue.                                  *)
SeedStart ==
  /\ seed.phase = "idle"
  /\ \E ask \in Asks :
       seed' = [NoCommand EXCEPT !.phase = "pick", !.entries = chroot, !.ask = ask,
                  !.todo = IF ask.only # {} THEN ask.only
                           ELSE {a.name : a \in chroot}]
  /\ UNCHANGED <<chroot, recipe, sidecar, finished, kills>>

(* A command typed by hand ends there; a seeding goes on with the rest.     *)
Resume(failed) ==
  seed' = IF seed.byHand THEN NoCommand
          ELSE [seed EXCEPT !.phase = "pick", !.todo = @ \ {seed.name},
                  !.failed = IF failed THEN @ \cup {seed.name} ELSE @]

(* The next package: not in the chroot, ambiguous under --strict, refused  *)
(* by select_source, or handed to extract with the version alone.          *)
SeedPick(p) ==
  /\ seed.phase = "pick"
  /\ p \in seed.todo
  /\ LET asked == seed.ask.version[p]
     IN IF \/ Available(seed.entries, p) = {}
           \/ seed.ask.strict /\ Ambiguous(seed.entries, p, asked)
        THEN seed' = [seed EXCEPT !.todo = @ \ {p}, !.skipped = @ \cup {p}]
        ELSE \E v \in Wanted(seed.entries, p, asked) :
               IF SelectSource(seed.entries, p, v) = {}
               THEN seed' = [seed EXCEPT !.todo = @ \ {p}, !.failed = @ \cup {p}]
               ELSE \E a \in SelectSource(seed.entries, p, v) :
                      seed' = [seed EXCEPT !.phase = "extract", !.name = p,
                                           !.version = v, !.href = a]
  /\ UNCHANGED <<chroot, recipe, sidecar, finished, kills>>

(* import_srpm.py extract, typed by a maintainer.                          *)
ExtractByHand(p, version) ==
  /\ seed.phase = "idle"
  /\ seed' = [NoCommand EXCEPT !.phase = "extract", !.byHand = TRUE,
                               !.name = p, !.version = version]
  /\ UNCHANGED <<chroot, recipe, sidecar, finished, kills>>

(* extract reads the metadata again, and takes a from what it lists now;   *)
(* the directory must be empty.                                            *)
Extractable(a) ==
  /\ seed.phase = "extract"
  /\ a \in SelectSource(chroot, seed.name, seed.version)
  /\ recipe[seed.name].state = "absent"

Directory(state, a) ==
  recipe' = [recipe EXCEPT ![seed.name] = [state |-> state, archive |-> a]]

(* Downloaded, verified, unpacked, swept, and exactly one spec found.  By   *)
(* hand, the digest it prints is the one to record.                        *)
Extract ==
  /\ \E a \in chroot :
       /\ Extractable(a)
       /\ Directory("whole", a)
       /\ seed' = [seed EXCEPT !.phase = "record",
                               !.href = IF seed.byHand THEN a ELSE @]
  /\ UNCHANGED <<chroot, sidecar, finished, kills>>

(* Refused, unreachable or not the bytes the metadata promised.            *)
ExtractRefused ==
  /\ seed.phase = "extract"
  /\ Resume(TRUE)
  /\ UNCHANGED <<chroot, recipe, sidecar, finished, kills>>

(* cpio fails, or there is not exactly one spec: the directory stays.      *)
ExtractBroken ==
  /\ \E a \in chroot, state \in {"debris", "partial"} :
       Extractable(a) /\ Directory(state, a)
  /\ Resume(TRUE)
  /\ UNCHANGED <<chroot, sidecar, finished, kills>>

(* record: a seeding passes the checksum its own catalogue has for href.   *)
Record ==
  /\ seed.phase = "record"
  /\ sidecar' = [sidecar EXCEPT ![seed.name] = seed.href]
  /\ Resume(FALSE)
  /\ UNCHANGED <<chroot, recipe, finished, kills>>

RecordFails ==
  /\ seed.phase = "record"
  /\ Resume(TRUE)
  /\ UNCHANGED <<chroot, recipe, sidecar, finished, kills>>

(* The report; the exit status is the absence of failures.                 *)
SeedEnd ==
  /\ seed.phase = "pick"
  /\ seed.todo = {}
  /\ finished' = [asked |-> IF seed.ask.only # {} THEN seed.ask.only
                            ELSE {a.name : a \in seed.entries},
                  skipped |-> seed.skipped, failed |-> seed.failed]
  /\ seed' = NoCommand
  /\ UNCHANGED <<chroot, recipe, sidecar, kills>>

(* The command dies: interrupted, or an error it does not catch, as when   *)
(* git_tree_id fails.  Dying in extract may leave anything behind, and in  *)
(* record a sidecar nobody can read, where there was none.                 *)
Kill ==
  /\ kills < MaxKills
  /\ seed.phase # "idle"
  /\ \/ UNCHANGED <<recipe, sidecar>>
     \/ /\ \E a \in chroot, state \in {"debris", "partial", "whole"} :
             Extractable(a) /\ Directory(state, a)
        /\ UNCHANGED sidecar
     \/ /\ seed.phase = "record"
        /\ sidecar' = [sidecar EXCEPT ![seed.name] = CutShort]
        /\ UNCHANGED recipe
  /\ seed' = NoCommand
  /\ kills' = kills + 1
  /\ UNCHANGED <<chroot, finished>>

(* What a refusal asks for: the directory nobody recorded is removed.      *)
Clean(p) ==
  /\ seed.phase = "idle"
  /\ recipe[p].state # "absent"
  /\ p \notin Recorded
  /\ recipe' = [recipe EXCEPT ![p] = NoDirectory]
  /\ sidecar' = [sidecar EXCEPT ![p] = None]
  /\ UNCHANGED <<chroot, seed, finished, kills>>

ImportNext ==
  \/ Publish
  \/ SeedStart
  \/ \E p \in Packages : SeedPick(p) \/ Clean(p)
  \/ \E p \in Packages, v \in Versions \cup {None} : ExtractByHand(p, v)
  \/ Extract
  \/ ExtractRefused
  \/ ExtractBroken
  \/ Record
  \/ RecordFails
  \/ SeedEnd
  \/ Kill

ImportSpec == ImportInit /\ [][ImportNext]_importVars

-----------------------------------------------------------------------------
ImportTypeOK ==
  /\ chroot \subseteq Archives
  /\ recipe \in [Packages -> Directories]
  /\ sidecar \in [Packages -> Archives \cup {None, CutShort}]
  /\ seed \in Commands
  /\ finished \in Reports \cup {None}
  /\ kills \in Nat

(* The checksum beside a recipe is the one of the source RPM it was        *)
(* unpacked from (import_srpm.py, record: it "proves the download matches  *)
(* what the repository advertised").                                       *)
ChecksumNamesRecipe ==
  \A p \in Recorded : sidecar[p] = recipe[p].archive

(* What the code does guarantee while the chroot moves between a seeding's *)
(* own read of the metadata and the one extract makes: the recipe is       *)
(* complete, and is of the package and the version that were recorded      *)
(* (seed_from_copr.py, main, and select_source's refusal to choose).       *)
RecordedVersionHolds ==
  \A p \in Recorded :
    /\ recipe[p].state = "whole"
    /\ sidecar[p].name = p
    /\ recipe[p].archive.name = p
    /\ recipe[p].archive.version = sidecar[p].version

(* Left to choose, a seeding never takes an archive older than another of  *)
(* its package, be it a pre-release beside a release or the first of       *)
(* several releases (seed_from_copr.py, pick_version: "A string sort would *)
(* seed the whole desktop from RCs").                                      *)
SeedsNewest ==
  (/\ seed.phase \in {"extract", "record"}
   /\ ~seed.byHand
   /\ seed.ask.version[seed.name] \in {None, Newest})
    => \A a \in {b \in seed.entries : b.name = seed.name} :
        /\ ~Precedes(seed.href.version, a.version)
        /\ seed.href.version = a.version => ~Precedes(seed.href.release, a.release)
=============================================================================
