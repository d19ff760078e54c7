---------------------------- MODULE SourceStaging -----------------------------
(***************************************************************************)
(* One job that builds a recipe of the last commit: source_pipeline.py     *)
(* stages every locked source and verifies it again, and then either the   *)
(* SRPM gate (srpm_gate.py, packit_source0.py) or the binary lane          *)
(* (build_package.sh) runs rpmbuild.                                       *)
(***************************************************************************)
EXTENDS SourceLocks

CONSTANTS
  Unpackable,  \* files whose name is neither an archive nor a signature
  Attempts,    \* requests for one URL before it counts as failed: 4
  StageFaults  \* what may go wrong: "swap", "vendor", "kill"

ASSUME StagingAssumption ==
  /\ Unpackable \subseteq Files
  /\ Attempts \in Nat \ {0}
  /\ StageFaults \subseteq {"swap", "vendor", "kill"}

VARIABLE job

JobPhases == {"idle", "fetch", "staged", "verified", "built", "failed"}

(* named and entry: the sources of the spec and of the lock, as checked    *)
(* out; left: the locations of source k still to try, the one in hand      *)
(* first; attempt: requests made of it; files: what the recipe's directory *)
(* holds, nothing at first in a fresh checkout; late: something there was  *)
(* replaced after it had been verified.                                    *)
Jobs == [phase : JobPhases, package : Packages \cup {None},
         named : SpecSources, entry : Entries, k : Nat, left : Seq(Urls),
         attempt : Nat, fresh : BOOLEAN, late : BOOLEAN, files : [Files -> Bytes \cup {None}],
         why : {"", "lock", "network", "bytes", "spec"}]

NoFiles == [f \in Files |-> None]

IdleJob == [phase |-> "idle", package |-> None, named |-> NoSources,
            entry |-> NoUpstream, k |-> 0, left |-> <<>>, attempt |-> 0,
            fresh |-> TRUE, late |-> FALSE, files |-> NoFiles, why |-> ""]

-----------------------------------------------------------------------------
InHand == job.entry.sources[job.k]

(* The digest compared, and the algorithm the file is hashed with.         *)
Compared(s) == IF "sha512" \in s.spelling.fields THEN "sha512" ELSE "sha256"

Hashed(s) ==
  IF s.spelling.type # "" THEN s.spelling.type
  ELSE IF "sha256" \in s.spelling.fields THEN "sha256" ELSE "sha512"

Clear(s) == Hashed(s) = Compared(s)

Matches(s, bytes) == Clear(s) /\ bytes = s.digest

(* Mutant of Locations: a source nobody serves is asked for all the same.  *)
LocationsAlways(s) == <<s.url>> \o SetToSeq(s.mirrors)

(* The url, then the fallbacks.                                            *)
Locations(s) == IF s.url = None THEN <<>> ELSE <<s.url>> \o SetToSeq(s.mirrors)

JobFails(why) == job' = [job EXCEPT !.phase = "failed", !.why = why]

(* On to source k + 1, the last one done; files is the directory by now.   *)
Done(files) ==
  LET k == job.k + 1
  IN job' = IF k > Len(job.entry.sources)
            THEN [job EXCEPT !.phase = "staged", !.files = files]
            ELSE [job EXCEPT !.k = k, !.files = files, !.attempt = 0,
                             !.left = Locations(job.entry.sources[k])]

(* What fetch_source refuses before anything is fetched: no entry,         *)
(* blocked, nothing listed.                                                *)
Stageable(entry) ==
  /\ entry # None
  /\ entry.none \/ (~entry.blocked /\ entry.sources # <<>>)

(* A checkout of the last commit, fresh or over the directory the last job *)
(* left.  A recipe without upstream has nothing to stage.                  *)
JobStart(p) ==
  /\ job.phase = "idle"
  /\ committed.sources[p] # None
  /\ LET entry == committed.lock[p]
         fresh == [IdleJob EXCEPT
                     !.package = p, !.named = committed.sources[p],
                     !.entry = IF entry = None THEN NoUpstream ELSE entry,
                     !.fresh = job.package # p,
                     !.files = IF job.package = p THEN job.files ELSE NoFiles]
     IN job' = IF ~Stageable(entry) THEN [fresh EXCEPT !.phase = "failed", !.why = "lock"]
               ELSE IF entry.none THEN [fresh EXCEPT !.phase = "staged"]
               ELSE [fresh EXCEPT !.phase = "fetch", !.k = 1,
                                  !.left = Locations(entry.sources[1])]
  /\ UNCHANGED lockVars

(* A source without a digest, with one that hashlib raises over, or one    *)
(* that is not there and is not to be had: a name that the policy does not *)
(* cover, a generated: URL that nothing generates and nobody serves.       *)
Refused ==
  \/ InHand.digest = None
  \/ Hashed(InHand) = "unknown" /\ job.files[InHand.file] # None
  \/ /\ ~Matches(InHand, job.files[InHand.file])
     /\ InHand.odd \/ (InHand.from = None /\ InHand.file \in Unpackable)

FetchRefused ==
  /\ job.phase = "fetch"
  /\ Refused
  /\ JobFails("lock")
  /\ UNCHANGED lockVars

(* A file already there with the right bytes is kept.                      *)
FetchKept ==
  /\ job.phase = "fetch"
  /\ ~Refused
  /\ Matches(InHand, job.files[InHand.file])
  /\ Done(job.files)
  /\ UNCHANGED lockVars

(* What is missing when no bytes were the locked ones: bytes, or a digest  *)
(* that any bytes could have.                                              *)
Blame(why) == IF Clear(InHand) THEN why ELSE "lock"

(* The crates bundle is made from an archive this job has staged, and      *)
(* removed when it is not the locked one.                                  *)
Generate ==
  /\ job.phase = "fetch"
  /\ ~Refused
  /\ InHand.from # None
  /\ ~Matches(InHand, job.files[InHand.file])
  /\ \/ LET made == VendorOf[job.files[InHand.from]]
            left == IF Hashed(InHand) = "unknown" THEN made ELSE None
        IN IF \A j \in 1..job.k - 1 : job.entry.sources[j].file # InHand.from
           THEN JobFails("lock")
           ELSE IF Matches(InHand, made)
           THEN Done([job.files EXCEPT ![InHand.file] = made])
           ELSE job' = [job EXCEPT !.phase = "failed", !.why = Blame("bytes"),
                                   !.files[InHand.file] = left]
     \/ "vendor" \in StageFaults /\ JobFails("network")
  /\ UNCHANGED lockVars

(* Mutant of Answer: after the last location comes the first again.        *)
AnswerForEver(answer) ==
  IF answer = "busy" /\ job.attempt + 1 < Attempts
  THEN job' = [job EXCEPT !.attempt = @ + 1]
  ELSE IF Matches(InHand, answer)
       THEN Done([job.files EXCEPT ![InHand.file] = answer])
       ELSE job' = [job EXCEPT !.attempt = 0, !.left =
              IF Len(@) = 1 THEN Locations(InHand) ELSE Tail(@)]

(* What one request comes to.  A host that is busy is asked again, up to   *)
(* Attempts times; one that refuses, or serves other bytes than the locked *)
(* ones, is given up for the next location, unless hashlib raises.         *)
Answer(answer) ==
  IF answer = "busy" /\ job.attempt + 1 < Attempts
  THEN job' = [job EXCEPT !.attempt = @ + 1]
  ELSE IF Matches(InHand, answer)
       THEN Done([job.files EXCEPT ![InHand.file] = answer])
       ELSE IF Len(job.left) = 1 \/ (answer \in Bytes /\ Hashed(InHand) = "unknown")
            THEN JobFails(Blame("network"))
            ELSE job' = [job EXCEPT !.attempt = 0, !.left = Tail(@)]

Fetch ==
  /\ job.phase = "fetch"
  /\ ~Refused
  /\ InHand.from = None
  /\ ~Matches(InHand, job.files[InHand.file])
  /\ \E answer \in Bytes \cup {"busy", "gone"} : Answer(answer)
  /\ UNCHANGED lockVars

(* Something replaces a staged file, before the build verifies it or after *)
(* that: the SRPM gate verifies on the host and then starts the container. *)
Swap ==
  /\ "swap" \in StageFaults
  /\ job.phase \in {"staged", "verified"}
  /\ \E s \in ToSet(job.entry.sources), bytes \in Bytes \cup {None} :
       job' = [job EXCEPT !.files[s.file] = bytes,
                          !.late = @ \/ job.phase = "verified"]
  /\ UNCHANGED lockVars

(* Mutant of Verify: what was staged a moment ago is trusted.              *)
VerifyNothing ==
  /\ job.phase = "staged"
  /\ job' = [job EXCEPT !.phase = "verified"]
  /\ UNCHANGED lockVars

(* verify_staged: every source of the entry, from its bytes.               *)
Verify ==
  /\ job.phase = "staged"
  /\ IF \A s \in ToSet(job.entry.sources) : Matches(s, job.files[s.file])
     THEN job' = [job EXCEPT !.phase = "verified"]
     ELSE JobFails("bytes")
  /\ UNCHANGED lockVars

(* rpmbuild finds every source its spec names: with the recipe, staged, or *)
(* left there by an earlier job.                                           *)
LookedFor == {FileOf[u] : u \in ToSet(job.named.remote)} \cup job.named.local

SpecComplete == \A f \in LookedFor : f \in Carried \/ job.files[f] # None

(* Packit is handed Source0, or an empty archive for a recipe without      *)
(* upstream; the SRPM it leaves is looked for.  The binary lane calls      *)
(* rpmbuild itself.                                                        *)
Build ==
  /\ job.phase = "verified"
  /\ \/ SpecComplete /\ job' = [job EXCEPT !.phase = "built"]
     \/ JobFails("spec")
  /\ UNCHANGED lockVars

(* The job is killed; a file it was writing may be cut short, or be no     *)
(* bytes that anybody locked.                                              *)
JobDies ==
  /\ "kill" \in StageFaults
  /\ job.phase \in {"fetch", "staged", "verified"}
  /\ \E bytes \in (IF job.phase = "fetch" THEN Bytes ELSE {}) \cup {None} :
       job' = [IdleJob EXCEPT !.package = job.package,
                 !.files = IF bytes = None THEN job.files
                           ELSE [job.files EXCEPT ![InHand.file] = bytes]]
  /\ UNCHANGED lockVars

JobEnd ==
  /\ job.phase \in {"built", "failed"}
  /\ \/ job' = IdleJob
     \/ job' = [IdleJob EXCEPT !.package = job.package, !.files = job.files]
  /\ UNCHANGED lockVars

(* What a job does by itself.                                              *)
JobStep == FetchRefused \/ FetchKept \/ Generate \/ Fetch \/ Verify \/ Build \/ JobEnd

StagingNext ==
  \/ LocksNext /\ UNCHANGED job
  \/ \E p \in Packages : JobStart(p)
  \/ JobStep
  \/ Swap
  \/ JobDies

StagingSpec == LocksInit /\ job = IdleJob /\ [][StagingNext]_<<lockVars, job>>

-----------------------------------------------------------------------------
StagingTypeOK == LocksTypeOK /\ job \in Jobs

(* rpmbuild runs only when every file the lock names is there with the     *)
(* locked bytes, unless one is replaced after all were verified; and in a  *)
(* fresh checkout it finds nothing else among the files it looks for,      *)
(* whoever served or replaced what in between (factory/README.md, "Why     *)
(* nothing downloads during a build").                                     *)
BuiltFromLockedBytes ==
  job.phase = "built" =>
    /\ job.late \/ \A s \in ToSet(job.entry.sources) :
         s.digest # None /\ job.files[s.file] = s.digest
    /\ job.fresh => LookedFor \subseteq Carried \cup {s.file : s \in ToSet(job.entry.sources)}

(* What check_locks lets in and fetch_source cannot stage.                 *)
Unstageable(s) == s.file \in Unpackable \/ s.odd \/ ~Clear(s)

(* The two sets of rules agree but for four cases.  Once validate.py has   *)
(* let a lock in, the lock is not the reason a job fails, unless the       *)
(* recipe is listed as blocked, or a source has a name that is neither an  *)
(* archive nor a signature, a generated: URL other than cargo-vendor's, or *)
(* a digest that is compared under another algorithm than its own          *)
(* (validate.py, check_locks; source_pipeline.py, fetch_source).  Entries  *)
(* as the tools write them have none of the last two.                      *)
AcceptedIsStageable ==
  job.phase = "failed" /\ job.why = "lock" =>
    job.entry.blocked \/ \E s \in ToSet(job.entry.sources) : Unstageable(s)

(* A job ends, whatever the hosts answer: no host is asked for ever        *)
(* (source_pipeline.py, _fetch, and the fallbacks of fetch_source).        *)
JobsEnd == job.phase # "idle" ~> job.phase = "idle"
=============================================================================
