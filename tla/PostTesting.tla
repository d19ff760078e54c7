----------------------------- MODULE PostTesting -----------------------------
(***************************************************************************)
(* Post-testing verification: post-testing-e2e.yml for uranium and         *)
(* post-testing-e2e-nvidia.yml for uranium-nvidia.  Others dispatch the    *)
(* tests and move the tag they look at; promotion reads the record.        *)
(***************************************************************************)
EXTENDS OciImages

CONSTANT Faults  \* what may go wrong: "build", "step", "suite"

ASSUME FaultsAssumption == Faults \subseteq {"build", "step", "suite"}

VARIABLES
  head,     \* the head of the testing branch, commits being numbered
  testing,  \* testing[v]: the digest the :testing tag of v resolves to
  tests,    \* end-to-end runs dispatched and not over
  passed    \* successful end-to-end runs: head SHA and digest tested

testVars == <<tests, passed>>

(* A run of a test, on the head of testing or, as commit 0, of main, and   *)
(* the digest it was given and the one it resolved.                        *)
TestPhases == {"asked", "resolved", "checked"}
Tests == [variant : Variants, commit : 0..MaxCommits, expects : Digests,
          phase : TestPhases, digest : Digests]
Records == [variant : Variants, commit : 0..MaxCommits, digest : Digests, pulled : Digests]

NoTests ==
  /\ head = 0
  /\ testing = [v \in Variants |-> NoIndex]
  /\ tests = {}
  /\ passed = {}

TestsTyped ==
  /\ head \in 0..MaxCommits
  /\ testing \in [Variants -> Digests]
  /\ tests \subseteq Tests
  /\ passed \subseteq Records

(* gh workflow run --ref: the test is recorded on whatever the head of the *)
(* branch is by now.                                                       *)
DispatchOn(v, expects, commit) ==
  tests' = tests \cup {[variant |-> v, commit |-> commit, expects |-> expects,
                        phase |-> "asked", digest |-> NoIndex]}

Dispatch(v, expects) == DispatchOn(v, expects, head)

(* The mutant of Resolves does not compare digests.                        *)
ResolvesAny(t) == testing[t.variant] # NoIndex

(* What the tag resolves to is compared with the digest the test was given,*)
(* if any.                                                                 *)
Resolves(t) ==
  /\ testing[t.variant] # NoIndex
  /\ t.expects \in {NoIndex, testing[t.variant]}

ReplaceBy(t, next) ==
  /\ tests' = (tests \ {t}) \cup {next}
  /\ UNCHANGED passed

ResolveDigest(t) ==
  /\ t.phase = "asked"
  /\ Resolves(t)
  /\ ReplaceBy(t, [t EXCEPT !.phase = "resolved", !.digest = testing[t.variant]])

(* The architectures are those of the tag, which is read again; nobody     *)
(* compares what it names by then.                                         *)
ListsBoth(t) == t.phase = "resolved" /\ MultiArch(testing[t.variant])

CheckNvidia(t) ==
  /\ t.variant = Nvidia
  /\ ListsBoth(t)
  /\ ReplaceBy(t, [t EXCEPT !.phase = "checked"])

Pass(t) ==
  /\ tests' = tests \ {t}
  /\ passed' = passed \cup {[variant |-> t.variant, commit |-> t.commit,
                             digest |-> t.digest, pulled |-> testing[t.variant]]}

(* For uranium the check is the whole run.                                 *)
CheckUranium(t) ==
  /\ t.variant = Uranium
  /\ ListsBoth(t)
  /\ Pass(t)

(* The test suite is handed the tag, and pulls what it names by then.      *)
RunSuite(t) ==
  /\ t.phase = "checked"
  /\ Pass(t)

FailTest(t) ==
  /\ \/ t.phase = "asked" /\ ~Resolves(t)
     \/ t.phase = "resolved" /\ ~ListsBoth(t)
     \/ t.phase = "checked" /\ "suite" \in Faults
  /\ tests' = tests \ {t}
  /\ UNCHANGED passed

Proceed(t) == ResolveDigest(t) \/ CheckNvidia(t)
Succeed(t) == CheckUranium(t) \/ RunSuite(t)
Finish(t) == Succeed(t) \/ FailTest(t)

RunTests(v) ==
  /\ \E t \in tests : t.variant = v /\ (Proceed(t) \/ Finish(t))
  /\ UNCHANGED <<head, testing>>

(* A successful run of v is recorded on commit c.                          *)
TestedOn(v, c) == \E r \in passed : r.variant = v /\ r.commit = c
=============================================================================
