--------------------------- MODULE MCRecipeIntake -----------------------------
(***************************************************************************)
(* Instances of RecipeIntake for TLC.  The chroot has a release candidate  *)
(* and two releases of shell, and one of config, which has no upstream.    *)
(* The spec of shell names an archive and a crates bundle made from it.    *)
(***************************************************************************)
EXTENDS RecipeIntake, TLC

CONSTANTS shell, config, archive, newArchive, mirror, tarball, newTarball,
          crates, pam, odd, oddFile, good, changed

Dotted(n) == <<Number(50), Separator, Number(n)>>
Candidate == <<Number(50), Tilde, Word(1)>>
Build1(n) == <<Number(n)>>

Srpm(name, version, release) == [name |-> name, version |-> version, release |-> release]
SomeArchives ==
  {Srpm(shell, Candidate, Build1(1)), Srpm(shell, Dotted(0), Build1(9)),
   Srpm(shell, Dotted(0), Build1(10)), Srpm(config, Dotted(0), Build1(1))}

(* rpmvercmp is the order that Precedes states, on all versions of up to   *)
(* three segments.                                                         *)
SomeSegments == {Number(1), Number(2), Word(1), Separator, Tilde, Caret}
SomeVersions == {v \in UNION {[1..n -> SomeSegments] : n \in 1..3} : WellFormed(v)}

ASSUME CompareAgrees ==
  \A l, r \in SomeVersions :
    Compare(l, r) = IF Precedes(l, r) THEN -1 ELSE IF Precedes(r, l) THEN 1 ELSE 0

ShellSources == [remote |-> <<archive>>, local |-> {crates}]
NewShellSources == [remote |-> <<newArchive>>, local |-> {crates}]
OddSources == [remote |-> <<odd>>, local |-> {}]
ConfigSources == [remote |-> <<>>, local |-> {pam}]
Named == [p \in Packages |-> IF p = shell
            THEN {ShellSources, NewShellSources, OddSources} ELSE {ConfigSources}]
NamedBy == [a \in Archives |-> IF a.name = shell THEN ShellSources ELSE ConfigSources]
NextVersion == {<<ShellSources, NewShellSources>>, <<ShellSources, OddSources>>,
                <<NewShellSources, ShellSources>>}

LocalNames == [u \in Urls |-> CASE u = archive -> tarball [] u = newArchive -> newTarball
                                [] u = mirror -> tarball [] u = odd -> oddFile]
CratesOf == [b \in Bytes |-> b]

(* By hand: both digests and no checksum_type, sha256 alone, a misspelling.*)
Handwritten == {[fields |-> {"sha512", "sha256"}, type |-> ""],
                [fields |-> {"sha256"}, type |-> ""],
                [fields |-> {"sha512"}, type |-> "unknown"]}

Unsaid == [p \in Packages |-> None]
Everything(strict) == [only |-> {}, strict |-> strict, version |-> Unsaid]
SomeAsks == {Everything(TRUE), Everything(FALSE)}

(* Slices of Spec.  "import" explores the packages directory and the       *)
(* chroot alone, with everything that may go wrong there.  The others      *)
(* follow one archive of each recipe through one seeding, the lock,        *)
(* commits and jobs: "flow" with the lock as the tools write it, mirrors   *)
(* and bumps; "names" with a bump to a name the policy does not cover;     *)
(* "hand" with digests and generators written by hand.  A job works on its *)
(* own copy of a commit, so maintainers wait for it: what they do          *)
(* meanwhile it does not see.                                              *)
VARIABLE part

MCInit ==
  /\ Init
  /\ \/ part = "import"
     \/ part \in {"flow", "names", "hand"} /\ chroot =
          {Srpm(shell, Dotted(0), Build1(9)), Srpm(config, Dotted(0), Build1(1))}

Seeding ==
  /\ finished = None
  /\ \/ SeedStart /\ ~seed'.ask.strict
     \/ \E p \in Packages : SeedPick(p)
     \/ Extract \/ Record \/ SeedEnd
  /\ SpecFollows
  /\ UNCHANGED <<lock, torn, committed, dropped, job>>

AsToolsWrite == \A s \in Locked : s.spelling = ToolsSpelling /\ ~s.odd

Unmirrored == \A s \in Locked : s.mirrors = {}

InSlice ==
  \/ part = "flow" /\ AsToolsWrite' /\ sources[shell]' # OddSources
  \/ /\ part = "names" /\ AsToolsWrite'
     /\ Unmirrored' /\ ~torn' /\ sources[shell]' # NewShellSources
  \/ /\ part = "hand" /\ sources[shell]' \in {None, ShellSources}
     /\ Unmirrored' /\ ~torn' /\ job.package' # config /\ ~Swap /\ ~JobDies

MCNext ==
  /\ UNCHANGED part
  /\ \/ part = "import" /\ Import
     \/ /\ part # "import"
        /\ Seeding \/ (Maintain /\ job.phase = "idle") \/ (BuildCommitted /\ seed.phase = "idle")
        /\ InSlice

MCSpec ==
  MCInit /\ [][MCNext]_<<vars, part>> /\ WF_<<vars, part>>(part # "import" /\ JobStep /\ UNCHANGED <<importVars, part>>)
=============================================================================
