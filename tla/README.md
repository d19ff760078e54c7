# Verification of Bluefin LTS: package factory, image streams and releases

TLA+ modules, TLC configurations and TLAPS proofs for the parts of this
repository that decide something:

- the **package factory** (`factory/tools`, `.github/workflows/factory-*.yml`),
  which imports recipes, locks their sources, and turns them into a signed RPM
  repository image;
- the **image pipeline** (`build-regular.yml`, `build-nvidia*.yml`,
  `post-testing-e2e*.yml`), which turns a push to `testing` into the `:testing`
  tags of `uranium` and `uranium-nvidia` and an end-to-end run recorded on the
  commit;
- the **release pipeline** (`promote-testing-to-main.yml`,
  `merge-queue-validate.yml`, `execute-release.yml`), which promotes a tested
  commit to `main` and copies `:testing` to `:stable`.

Almost none of this can be tested before it runs in production: the state is in
a registry and in GitHub's queues, the processes are workflow runs that overlap
for hours, and a job that fails leaves the next one a world half changed.

Contents: [inventory](#inventory) · [modules](#modules-and-the-code-they-model) ·
[runs](#runs) · [fairness](#fairness) · [proofs](#proofs) ·
[findings](#findings) · [observations](#observations-without-a-run) ·
[not modelled](#what-is-not-modelled-and-why) · [plan](#plan)

## Inventory

### Components that are modelled

| Component | State | Operations | Talks to |
| --- | --- | --- | --- |
| **recipe import** `import_srpm.py`, `seed_from_copr.py` | recipe directories, provenance sidecars, the command under way | choose a version and an archive, unpack, record, report; by hand or for a whole chroot | Copr, which goes on publishing; source intake through the specs |
| **source intake** `source_pipeline.py`, `generate_vendor.py`, `render_source_locks.py`; **recipe inventory** `inventory.py`, `validate.py` | the lock file, the last commit, one job's copy of a recipe directory | render, edit by hand, validate and commit; fetch with retries and mirrors, generate crates, verify | upstream hosts; every build |
| **packit gate** `srpm_gate.py`, `packit_source0.py`; **package build** `build_package.sh` | that same directory, the build's end | stage, verify, build an SRPM or RPMs; what dnf finds | source intake, stack build |
| **stack build** `build_stack.py`, `factory-stack.yml`, with **build requirement extraction** and **dependency preflight** | survey, plan, verdict; `work/rpms`, `work/prior`, `stack-report.json` | survey, check for witnesses, build one wave or all, copy, report, clean, `--check` | planner in, consumer transaction out |
| **build planner** `build_graph.py` | selection, edge set, waves | close a stack over what CentOS cannot supply, refuse, break bootstrap cycles, layer waves | inventory, rpmspec rows and the CentOS survey in; the wave jobs of `factory-build.yml` out |
| **factory runs** `factory-build.yml`, `factory-build-stage.yml`, `factory-publish.yml`, `rebuild_plan.py`, `assemble_repo.py`, `publish_gate.py`, `consumer_transaction.sh` | per ref a run and a pending request; artifacts of the run; per stream tag an image with its RPMs, state label, signature and provenance | push, dispatch, start, prepare (resolve seed, select), build one recipe, assemble and resolve the consumer transaction, sign, push, attest, move tag, fail, re-run | registry (through the tag), GitHub's concurrency groups |
| **published repository** (the header of `factory-publish.yml`) | contents per stream tag | open a stream, replace its contents | whoever pulls it: image builds |
| **testing stream** `build-regular.yml`, `build-nvidia.yml`, `build-nvidia-aarch64.yml`, `build-nvidia-manifest.yml` | runs per concurrency group, outcome of each build per commit, manifest run and pending trigger per commit, `:testing` per variant, signatures | push, start, stop, finish a build; publish, verify, sign an index; `workflow_run`; dispatch a test; merge group; re-run of a failed build | registry, `post-testing-e2e*` (dispatch) |
| **post-testing verification** `post-testing-e2e.yml`, `post-testing-e2e-nvidia.yml` | dispatched tests, successful runs by head SHA | resolve the tag and compare digests, read the tag again for its architectures, run the suite on the tag | reads `:testing`; promotion reads its record |
| **stable release** `promote-testing-to-main.yml`, `merge-queue-validate.yml`, `execute-release.yml` | promotion run and its pending event, merge queue, head of main, release runs, `:stable` and its signatures | push, heartbeat, wait, backfill, window, promote, merge; resolve, verify, copy, inspect, compare, sign | record of tests, `:testing`, `:stable` |

What is hard in each, and what makes it correct (the properties are named where
one exists; `PROJECT.json` lists every hazard at its line):

- **Recipe import.** Versions are compared by a walk over two strings
  (`SeedsNewest`); the chroot moves between two reads of its metadata, and a
  command may die between unpacking and recording. Correct means that a recorded
  recipe is whole and is the version recorded (`RecordedVersionHolds`); that its
  checksum is that of the archive unpacked (`ChecksumNamesRecipe`) is false.
- **Source intake, gate.** The lock is its own memory: rendered from itself,
  edited by hand, torn by a writer that dies. Hosts are busy, gone, or serve
  other bytes; a file changes after it was staged. Correct means that digests do
  not move (`CommitsKeepDigests`), that the validator lets in what the stager
  can stage but for four cases (`AcceptedIsStageable`), that builds see locked
  bytes (`BuiltFromLockedBytes`) and that nobody asks a host for ever (`JobsEnd`).
- **Stack build.** Two workers share a work directory; a failed build leaves
  files; waves are repeated over what a killed command left. Correct means that
  a wave sees successes of earlier waves only (`EarlierWavesOnly`), that the
  preflight rejects every plan that could miss a requirement
  (`FailureHasCause`), and that `--check` tells the truth
  (`CheckedMeansBuilt`).
- **Build planner.** It drops edges of a dependency graph one at a time while it
  walks it, so the order decides which go; a worklist grows while it is worked
  off; a layering counts down. Correct means: what CentOS does not supply builds
  strictly earlier than what needs it (`RequirementsBuiltEarlier`); a cycle is
  reported exactly if there is one nobody can break (`CycleErrorExact`); nothing
  else is touched (`AcyclicGraphKept`); no wave waits for nothing (`NoIdleWave`);
  the stack is the smallest that suffices (`StackIsLeastClosure`); and all of it
  ends (`Terminates`).
- **Factory runs.** The one memory of what was built is a label on the published
  image: read once when a run begins, written hours later. Jobs of a wave run in
  any order and may each fail; pending runs are replaced by newer ones; branches
  share a starting point. Correct means: the label never lies
  (`WitnessFaithful`), a tag never points to something unsigned or uninstallable
  (`TagVerified`), failures cost nobody a package they had (`KeepsPrevious`), a
  build's input does not depend on who finishes first (`BuildInputsOrdered`),
  dropped pending runs lose no change (`GreenMeansPublished`), no consumer is left
  behind its library (`NeverStale` when nothing fails; `NoStaleConsumer` is false), the queue moves (`QueueDrains`) and the
  repository catches up with `main` (`Converges`).
- **Testing stream and verification.** Two architectures complete in any order,
  fail, are re-run; whoever completes last has to find the other; runs are
  cancelled half way; `:testing` moves *before* its index is verified and signed;
  a test is recorded on the branch's head, not on a digest. Correct means:
  complete indexes only (`TagsSpec`), nothing unsigned that nobody knows of
  (`UnsignedAccounted`), green tests that vouch for something signed
  (`VouchesForSigned`) and of the commit they are recorded on
  (`CalmTestedRevision`), no lost completion (`CalmAssembled`) and no lost dispatch
  (`CalmHeadTested`).
- **Stable release.** Two gates are read by different jobs minutes apart and must
  speak of one commit (`MergedWasTested`); wait, backfill, re-evaluation and
  window each need another to have happened (`HeadPromoted`); releases overlap
  with each other and with everything that moves `:testing`
  (`StableWasVerified`, `UnsignedStableReported`).

### Components that are not modelled

| Component | State and operations | Why |
| --- | --- | --- |
| **build root** `buildroot.py`, `container_policy.py`, `factory-load-buildroot` | a pinned builder image, pulled once per run and loaded from an artifact | no state of its own: a digest is compared once, and a bare image name cannot be pulled |
| **factory checks** `factory-validate.yml`, `factory-smoke.yml` | none | they run tools; what `validate.py` decides is the guard of `Commit` |
| **package cadence** `pkg-cadence.yml` | churn counts and intervals in a file | one writer, once a week, read by people |
| **image build** `build_scripts/`, `Containerfile`, `Justfile` | none between builds | sequential shell |
| **pull request and scan workflows** | none that the parts above read | nothing to interact with |

## Modules and the code they model

```
 RpmVersions   RecipeNames
        \       /        \
      RecipeImport    SourceLocks
            |             |
            |        SourceStaging           StackBuild
             \           /                       |
             RecipeIntake                   MCStackBuild
                  |                         StackBuildProofs
            MCRecipeIntake
 (RecipeImportProofs, SourceStagingProofs, RecipeIntakeProofs)

 WavePlan                      Factory
 build_graph.py plan          /       \
     |                PublishedRepo <== FactoryRuns
 MCWavePlan                  (RepoSpec)    |
 WavePlanProofs                     MCFactoryRuns, FactoryRunsProofs

               OciImages
              /         \
      TestingTags     PostTesting
          ^^            /      \
          || (TagsSpec)/        \
      TestingStream ==+        StableRelease  (streams move by TestingTags' actions)
           |                          |
   MCTestingStream,        MCStableRelease,
   TestingStreamProofs     StableReleaseProofs
```

A plain line is EXTENDS, a double arrow an implementation checked by TLC and
proved by TLAPS. Assume-guarantee joins the last two parts: `TestingStream`
implements `TestingTags`, and `StableRelease` lets the streams move by the
actions of `TestingTags`, so it does not carry the state of the builds.

### RecipeImport, SourceLocks, SourceStaging, RecipeIntake

From a Copr chroot to a build. A source RPM stands for its checksum, a version is
the sequence of its segments (`RpmVersions`, where `Compare` is `rpmvercmp`), and
a digest is the bytes it is of.

| Variable, action | Code |
| --- | --- |
| `chroot`, `Publish` | the repository metadata, which Copr adds to while commands run |
| `recipe`, `sidecar`, `Directory` | `packages/<name>`: absent, without a spec, not swept, or whole; `.factory-upstream.json` |
| `SeedStart`, `SeedPick`, `SeedEnd` | `seed_from_copr.py`: the catalogue read once, version and archive chosen from it, the report |
| `Extract`, `ExtractRefused`, `ExtractBroken` | `import_srpm.py extract`: reads the metadata *again*, and leaves its directory behind when it fails late |
| `Record`, `Kill`, `Clean` | the checksum of the *seeding's* catalogue; a command that dies, half a directory or a torn sidecar (`CutShort`) behind it; a directory removed by hand |
| `sources`, `lock`, `torn`, `committed` | what specs name, `config/upstream-sources.json`, and the last commit |
| `Render`, `RenderDies`, `Restore` | `render_source_locks.py --write`: digests from the old lock, else downloaded; a write in place; `git checkout` |
| `AddMirror`, `AddVendor`, `Spell` | what maintainers write by hand: `fallback_urls`, a generated crates bundle with any `generated:` URL, a digest as `sha512`, `sha256` or both, with a right, a wrong or no `checksum_type` |
| `Accepted`, `LocksValid`, `Commit` | `check_locks`, to which any digest and any `generated:` URL will do, and `check_provenance` |
| `Compared`, `Hashed`, `Matches`, `Refused`, `Blame` | `fetch_source`: the digest that is compared, the algorithm the file is hashed with, and what follows when they differ |
| `JobStart`, `Fetch`, `Answer`, `Generate`, `FetchKept`, `FetchRefused` | `fetch_source`: four requests per location, then the next; the crates bundle from an archive staged before |
| `Swap`, `Verify`, `Build`, `JobDies`, `JobEnd` | a staged file replaced before it is verified, or (`late`) after; `verify_staged`; rpmbuild or packit; a job over the directory of the last one, or in a fresh checkout |

`dropped` is a history variable: URLs that a render since the last commit left
out, or found with no `sha512` beside them. A digest is remembered by the lock
file alone and as a `sha512` alone (`render_source_locks.py:203`), so such a URL
is downloaded again, and `CommitsKeepDigests` speaks of the others. Within one
render a URL is taken to serve one content; between two it may change.

`RecipeIntake` composes both: an import gives a recipe its spec, a commit needs
provenance and locks, and a job builds what was committed.

### StackBuild (`build_stack.py` and what `factory-stack.yml` runs before it)

| Variable, action | Code |
| --- | --- |
| `survey`, `Extract` | the rows: requirements, CentOS packages that satisfy them, capabilities that specs declare or CentOS's build generated |
| `Matched`, `Witnessed`, `Preflight` | `write_factory_witnesses`, `check` |
| `StartWave`, `StartAll`, `Enter` | `--wave`, which keeps the report, and without, which does not |
| `Begin`, `Finish`, `Ended` | one build by one of two workers: its old output removed, RPMs or nothing left |
| `Certain`, `Possible`, `Offers` | what `dnf builddep` finds; the factory repository has `priority=1` and hides the packages CentOS built from the same source |
| `Copy`, `Write`, `Clean`, `Kill` | RPMs to `work/prior`, the report, the build trees; a death between any two of them, or in the middle: some RPMs copied, the last of them cut short (`torn`), or a report cut short (`None`) |
| `Complete`, `Check` | `check_report` |

The plan is *any* division into waves: which one `build_graph.py` makes is the
subject of `WavePlan`, and the preflight has to reject the bad ones.

### WavePlan (`factory/tools/build_graph.py`, `plan`)

A recipe is its position in the sorted inventory, since sorting by name decides
the order in which edges are visited. A requirement is an atom; what matters is
who provides it and whether CentOS satisfies it for a consumer.

| Variable, action | Code |
| --- | --- |
| `rows`, `providers`, `satisfied`, `surveyed`, `blocked`, `request`, `stack` | the inputs of `plan`: rpmspec rows, capability index, `base-satisfied.json`, inventory, `--packages` / `--stack` |
| `StartStack`, `CloseOver` | the worklist of `--stack` |
| `Refuse…` | the early exits: no survey, unknown name, blocked recipe |
| `StartPlan`, `VisitEdge` | `bootstrap_edges`: the graph, then one visit per edge in sorted order; an edge goes if it is on a cycle *of the graph as it is by then* and every requirement behind it has a CentOS witness |
| `LayWave`, `FinishPlan` | `waves`: all recipes with no unplaced predecessor; a rest is a cycle |
| `TooDeep` | the step after it in `factory-build.yml`: too many waves for the workflow |

`Reachable` and `HasCycle` are stated with closed sets rather than by recursion,
which is what lets the module be proved about.

### Factory, PublishedRepo, FactoryRuns

`Factory` holds what both sides agree on: a recipe is its input digest; an RPM is
the digest it was built from and what it was linked against; the selection rule
is `rebuild_plan.select`. Every version of a library is taken to move its soname,
the case `rebuild_plan.py` exists for.

`FactoryRuns` has one action per job or publishing step:

| Action | Code |
| --- | --- |
| `Push`, `Dispatch`, `Start` | triggers and concurrency group of `factory-build.yml`: one run and one pending run per ref (`Join`), the newer cancels the older |
| `Prepare` | resolve the published image (own stream, else `latest`, else none), read its label, `select`; an empty list ends the run green |
| `BuildPackage` | a matrix job of `factory-build-stage.yml`: after all earlier waves ended, against the seed plus this run's earlier waves; success or nothing |
| `SkipPublish`, `NothingToPublish`, `Resolve` | the conditions of `factory-publish.yml`, `publish_gate.py`, assembly, consumer transaction |
| `SignMetadata`, `PushImage`, `Attest`, `MoveTag` | the steps of the publish job, in their order |
| `Fail`, `Rerun` | any step outside a build fails or the run is cancelled; "re-run failed jobs" (`FailedJobs`): the run joins the queue like any other and cancels the one that waits there; the builds that failed or were cut off are made again, and with them all later waves, whose jobs need theirs; then comes publish. Outputs of `prepare` and artifacts of the first attempt stay |

A run that is not green, or was cancelled while it waited, can be run again; per
ref the model keeps the one that ended last (`rerunnable`). An artifact of the
first attempt stays when the build that would replace it fails, and is published:
`BuildInputsOrdered` leaves these RPMs out (`Current`) and says so.

`PublishedRepo` is the promise to whoever pulls the image: in one step from an
installable repository to an installable repository, and no recipe disappears.

### OciImages, TestingTags, PostTesting, TestingStream

Commits are numbers and an index is a commit and the architectures in it (two
builds of one commit are not told apart).

| Variable, action | Code |
| --- | --- |
| `run`, `waiting` | the concurrency groups of the three build workflows; a merge group is a ref, hence a group, of its own |
| `PushImage`, `PushDocs` | a push; `paths-ignore`; `cancel-in-progress` stops builds, not the jobs behind `if: always()` |
| `EndBuild`, `PublishManifest`, `VerifyManifest`, `SignManifest`, `TriggerPostTesting`, `FailPublishing` | `build-regular.yml`, job by job |
| `EndArchBuild`, `RerunArchBuild` | the NVIDIA builds and the `workflow_run` event they raise; a re-run joins the group like a push, and cancels a newer build |
| `FindRuns`, `PublishNvidia`, `VerifyNvidia`, `SignNvidia`, `TriggerNvidia`, `FailAssembly` | `build-nvidia-manifest.yml`; one run and one pending trigger per commit |
| `ResolveDigest`, `CheckUranium`, `CheckNvidia`, `RunSuite`, `FailTest` | the two verification workflows, one action per reading of the tag: the digest, then the architectures, then, for `uranium-nvidia`, the pull of the suite, which is external. The tag may move between any two |

### StableRelease

| Action | Code |
| --- | --- |
| `Push`, `Heartbeat`, `EndTest` | the triggers of `promote-testing-to-main.yml`; `Ask` is its concurrency group. A test ends in one step, which may pass whatever the tag names by then: more than the steps of `PostTesting` allow, never less |
| `PublishIndex`, `SignIndex` | the streams; a signed index dispatches its test, of `uranium-nvidia` on the head of `testing` or, when `head_branch` says so, of `main` |
| `WaitPasses`, `WaitTimesOut` | `wait-nvidia-e2e` |
| `DispatchMissing` | `dispatch-missing-e2e` |
| `Promote` | window check, gate and squash |
| `Merge`, `RequestRelease` | merge queue; triggers of `execute-release.yml`, which has no concurrency group |
| `ResolveSource`, `VerifySources`, `CopyIndex`, `RefuseIndex`, `InspectCopy`, `CompareCopy`, `SignCopy`, `FailToSign` | `execute-release.yml`, per variant, with its failure count: the copy's digest is read first, its children in a second read, and `cosign verify` may fail after `cosign sign` |

The reusable workflows of other repositories (build, test suite, squash) are
modelled by how this repository calls them.

## Runs

Every constant that makes a run small is named here. Counts are distinct states.

| Run | Asks | Instance | Result |
| --- | --- | --- | --- |
| `plan` | all planner properties | 3 recipes; requirement *i* is recipe *i*'s own capability, a 4th is a virtual one that recipes 1 and 2 provide; every row set, every witness set; `MaxWaves` 2; `--packages` and `--stack`, with unknown and blocked names | pass, 1.3M |
| `runs_streams` | types, labels, tags, kept packages, `PublishedRepo` | main and a branch with a stream each; a library, a consumer and a blocked recipe; 2 versions; 3 requests, pushes or dispatches of every kind; failing builds and steps | pass, 1.2M |
| `runs_siblings` | what a build links against | a library in the first wave, two consumers in the second, one of which is compiled against the other as well; 2 requests; failing builds, steps and pulls, every kind of dispatch, re-runs of failed jobs | pass, 3.1M |
| `runs_quiet` | green means published; the queue drains; the repository catches up; no stale consumer | 3 recipes, 3 requests; failing builds and steps, and none of them for the last two questions, where a transaction may still refuse | pass, 58k |
| `runs_forgotten` | is a pending run safely replaced? | as `runs_quiet`, without faults, with "build only this package" | **violated** |
| `runs_stale_consumer` | no stale consumer, with failing builds | 3 recipes, 3 requests, failing builds | **violated** |
| `testing` | streams, assembly, tests | either variant by itself, with patience and without; 2 pushes, documentation or not; 1 re-run; `workflow_run` reporting either branch. Without patience: pushes that stop each other's builds, merge groups, failing builds, steps and suites. With it: pushes that wait, failing builds and steps | pass, 228k |
| `release_main` | promotion and release | five budgets: two pushes promoted patiently; two that overtake builds, tests and the promotion under way; two overlapping releases over two moving commits; one release at any point of a promotion; one push with either `head_branch` | pass, 781k |
| `release_backfill` | is a head promoted, if it builds nothing? | 2 pushes that wait for builds, the second may be documentation, no faults | **violated** |
| `intake` | all of recipe import and source intake | 2 recipes; a release candidate and two releases of one of them, a recipe without upstream; an archive with a mirror and a crates bundle made from it, a newer archive, a name the policy does not cover; digests and generators written by hand; 2 contents of downloads; 4 requests per location; one command may die | pass, 781k |
| `import_moved` | is the recorded checksum that of the archive unpacked? | as `intake` | **violated** |
| `stack` | all of the stack build | every division of 3 recipes into waves, 54 surveys, 2 workers, one kill, in the middle of a copy or of a report included, failing builds and clean-up | pass, 223k |

**Why these bounds show something.**
A bootstrap cycle with a shared capability needs three recipes and one virtual
requirement: two edges of a cycle compete for being dropped, and dropping one
changes what is reachable for the other. A wave limit of 2 makes "too deep"
happen. For the runs, two versions make "changed" and "changed back" different;
three requests suffice for `runs_streams` because both refs select against their
own label, and the branch opens on `latest` while main may move. Three requests
also put one run in flight, one pending, and one replacing it. A library and two
siblings behind it are what `BuildInputsOrdered` needs: the consumer that is also
compiled against its sibling has one dependency whose build it must see and one
whose build, done or not, it must not. Two requests give that run a first attempt,
a re-run, and a newer run beside it. Two commits give the streams
an older and a newer index and a cancelled build; a third would repeat them. Two
releases are the least that overlap; the proofs cover any number.

For `intake`, a candidate beside a release is what a sort by text gets wrong, two
releases of one version are what the metadata may gain between two reads, and
releases 9 and 10 are out of order as text. The instance has four slices:
"import" explores the packages directory and the chroot alone, with every fault
there; the others follow one archive of each recipe through one seeding, then
locks, commits and jobs: "flow" with the lock as the tools write it, mirrors,
version bumps, torn files, swaps and deaths; "names" with a bump to a file name
the policy does not cover; "hand" with digests and generators written by hand. In
these maintainers wait for the job under way, which works on its own copy of a
commit and cannot see what they do; the proofs are of
`RecipeIntake` itself, without slices. Specs are edited forth and back, so a URL
is locked, left out and locked again. `LockFaults` leaves out "rpmspec", see the
observations. `RpmVersions` is checked by an assumption of `MCRecipeIntake`
against an order stated without a loop, on all versions of up to three segments;
`ComparesByKeys` and `CompareIsOrder` are about versions of any length.

For `stack`, three recipes in up to three waves hold a chain, a fork and two
siblings; the surveys have a capability that is declared without a version, with
a good or a bad one, or only generated, and CentOS packages that a rebuilt
recipe hides. Waves are repeated and interrupted in checkouts with two planned
recipes.

`SYMMETRY` on `Versions` is used in `runs_streams` and `runs_siblings` only:
versions are compared for equality and never ordered. No liveness run uses it.
`CHECK_DEADLOCK FALSE` is in every configuration because the systems may stop:
the planner ends, and people may stop pushing.

**Patience.** Some properties hold only while people wait, and they wait for
different things. `docs/skills/release/SKILL.md:99` asks them not to push while
*builds* are in progress; nothing enforces that. In `StableRelease` patience is
this and no more: a push waits for the builds of the one before. It is a premise
of `HeadPromoted` alone, which also takes the daily heartbeat and leaves out a
test that `head_branch` sent to `main`. In `TestingStream` patience is more than
the document asks for: pushes wait for assemblies and *tests* as well, and
nothing goes through the merge queue meanwhile, because a test that is under way
when the head or the tag moves is recorded on a commit it did not test, as the
observations say. `CalmTestedRevision`, `CalmAssembled` and `CalmHeadTested` are
about it; `head_branch` is either branch there, too, and a test recorded on `main`
counts as a dispatch that was not lost but that promotion does not find.

`MergedWasTested` and `VouchesForSigned` assume no patience. `MergedWasTested`
carries the race of the two gates as its exception: `overtook` holds the commits
that were pushed while a promotion run was under way, and only these may lack a
run of `uranium-nvidia`. `VouchesForSigned` is what remains of the digest check
over a tag that moves between the two or three readings of one test: the digest
compared was signed before the test was asked for, and what was looked at last is
a complete index, not necessarily the same.

`Converges` has the premise that no build and no step of a run fails. A consumer
transaction that refuses is not excluded (the verdict is "refused", not "red"):
that it does not refuse run after run is the point, and the mutant, which admits
waves the wrong way round, makes it do so. The waves of that instance keep every
edge; where the planner drops a bootstrap edge the transaction may well refuse
for good, which is a listed hazard and step 2 of the plan.

`HeadPromoted` has the premise `[]<>Idle`: events leave room between promotion
runs again and again, which a workflow of minutes run on daily and manual events
does.

Each property has a mutant in `PROJECT.json`: a plausible bug in a mapped
definition that makes TLC find the property violated under the run's own
configuration. The mutated operators stand beside the definitions they mutate
and are marked as such.

## Fairness

| Specification | Assumed | Why the code justifies it |
| --- | --- | --- |
| `RecipeIntake` | `WF(JobStep)` | a job that runs takes its next step; people, hosts and faults owe nothing |
| `WavePlan` | `WF(Next)` | one sequential process |
| `FactoryRuns` | `WF(RunStep(r))` per ref | GitHub starts a pending run when the group is free and runs jobs whose conditions hold; nobody need re-run anything |
| `TestingStream` | `WF(BuildStep)`, `WF(AssemblyStep(c))`, `WF(TestStep(v))` | the same, per workflow |
| `StableRelease` | `WF` of streams, tests, promotion steps, merge queue; `SF(ThursdayHeartbeat)` | the same; the schedule is daily, so a Thursday comes round whatever else happens at that hour, and it is not continuously enabled since runs come between |

Pushes, dispatches, merge groups, re-runs, and failures are never fair: people
may stop, and nothing has to fail.

## Proofs

8,338 obligations, all discharged by SMT, Zenon and LS4. Nothing is assumed but
the named assumptions on the constants, which TLC evaluates in every run.

| Module | Theorem | Statement | Extra assumption |
| --- | --- | --- | --- |
| WavePlanProofs | `PlanTypeCorrect`, `ProvidersBuildEarlier` | `TypeOK`, `RequirementsBuiltEarlier` | none |
| | `NoWaveIsIdle`, `StackIsLeast` | `NoIdleWave`, `StackIsLeastClosure` | none |
| | `OnlyCyclesAreBroken`, `CycleErrorsAreExact` | `AcyclicGraphKept`, `CycleErrorExact` | none |
| | `PlannerRunsDry`, `BreakerFindsEdge`, `TooDeepNeedsRecipes` | at most n² + 2n + 3 steps, each leaving fewer; the breaker never lacks a next edge; too deep only with more recipes than wave jobs | none |
| FactoryRunsProofs | `RunsTypeCorrect`, `LabelTellsTheTruth`, `TagsStayVerified`, `BuildsLinkInOrder` | `TypeOK`, `WitnessFaithful`, `TagVerified`, `BuildInputsOrdered` | none: all faults, re-runs, dispatches |
| | `PreviousBuildsKept`, `RunsImplementPublishedRepo` | `KeepsPrevious`, `RepoSpec` | `SerialRuns` |
| | `GreenIsPublished` | `GreenMeansPublished` | `PlainRequests` |
| | `SuccessIsNeverStale` | `NeverStale` | `WavesFollowRequires`, `MainAlone` |
| | `RunsEnd`, `NoWaveIsStuck` | an attempt over n recipes has at most n + 6 steps, each leaving fewer; no ring of waiting wave jobs | for the first, finitely many recipes |
| TestingStreamProofs | `StreamTypeCorrect`, `StreamsImplementTestingTags`, `GreenRunsVouchForSigned`, `NothingUnsignedAndGreen` | `TypeOK`, `TagsSpec`, `VouchesForSigned`, `UnsignedAccounted` | none |
| | `CalmTestsTheirRevision` | `CalmTestedRevision` | none |
| StableReleaseProofs | `ReleaseTypeCorrect`, `StableIsVerified`, `UnsignedStableIsReported` | `TypeOK`, `StableWasVerified`, `UnsignedStableReported` | none |
| | `MergesAreTested` | `MergedWasTested` | none |
| RecipeImportProofs | `ImportKeepsVersions`, `ImportSeedsNewest` | `RecordedVersionHolds`, `SeedsNewest` | none |
| | `ComparesByKeys`, `CompareIsOrder`, `NewestFound` | `rpmvercmp` is the order by segments; it is a total preorder; a choice from a catalogue finds something | for the last, a finite catalogue |
| SourceStagingProofs | `StagingBuildsLocked`, `StagingAccepts` | type correctness and `BuiltFromLockedBytes`, `AcceptedIsStageable` | none |
| | `JobsRunDry` | every step of a job goes down in a well-founded order | none |
| RecipeIntakeProofs | `IntakeTypes`, `IntakeKeepsVersions`, `IntakeSeedsNewest`, `IntakeBuildsLocked`, `IntakeAccepts`, `IntakeKeepsDigests`, `IntakeJobsRunDry` | `TypeOK`, `RecordedVersionHolds`, `SeedsNewest`, `BuiltFromLockedBytes`, `AcceptedIsStageable`, `CommitsKeepDigests`, and the descent of jobs, of the composition | none |
| StackBuildProofs | `StackTypes`, `StackChecked`, `StackWavesOrdered`, `StackFailuresHaveCauses` | `StackTypeOK`, `CheckedMeansBuilt`, `EarlierWavesOnly`, `FailureHasCause` | none |

**Import.** `ImportInv` adds to `RecordedVersionHolds` what the command in hand
has by each phase: after extract the directory is whole and of the version asked
for (`Unpacked`), and the archive about to be recorded is of that version
(`SeedInHand`). The two reads of the metadata may name different releases, but
`SelectSource` refuses to choose between versions, and the chroot only grows
while a command runs: a catalogue with one version of a package may not be the
latest, but the version handed to extract is in it.

`SeedsNewest` needs that comparing versions is an order, which the loop of
`rpmvercmp` does not show on its face: it walks two strings at once, and a tilde
or a missing segment ends it early. The proof says without a loop what the answer
is: the versions agree on what comes before the first segment where they differ,
and that segment decides (`ComparesByKeys`). That the loop computes this is
shown from the least position at which it could first go wrong, so the recursive
function is opened one step at a time and no induction over data is needed. The
order by segments is total and transitive (`CompareIsOrder`), a finite catalogue
has a greatest version (`NewestFound`), and a choice stays the newest of the
catalogue it was made from.

**Locks and staging.** `StagingInv` has three parts. `LocksInv`: entries are
typed, and the committed lock is one the validator let in. `DigestInv`: every
entry's digest for a URL agrees with every other's, in the working tree, in the
commit, and between the two unless a render left the URL out; this is why a
render may take *any* earlier digest. `JobInv`: the job's entry is an accepted
one, the sources before the one in hand are in the directory, no two of them
under one name, so staging one cannot spoil another, and what was verified has the
locked bytes unless it was replaced since (`Verified`). A file can only match where
the algorithm it is hashed with is the one of the digest (`Clear`); for
`AcceptedIsStageable` every way to blame the lock is traced to one of its four
cases. A fresh directory holds nothing but listed files, which `BuiltFromLockedBytes`
needs and a kept one does not give. `RecipeIntakeProofs` carries both invariants
through the composition, where an import is a change of `sources` and a commit
needs more than locks.

That nobody asks a host for ever has a safety half: `Work` is what a job has left
— phases, then sources of its entry, locations of the source in hand, attempts at
the location in hand — and every step of a job lowers it in the lexicographic
order, which has no endless descent (`JobsRunDry`). A retry lowers the last part,
a fallback the one before; that an attempt in hand is one of the four
(`WorkInv`) is the invariant it takes.

**Stack.** `FailureHasCause` rests on what the preflight checked, carried along
with what `work/prior` holds: in a fresh checkout every recipe of an earlier wave
that succeeded is in it, so dnf misses a requirement only if each witness failed,
was hidden, or lost the capability. It and `EarlierWavesOnly` speak of
`Undisturbed` checkouts: no wave begun again, no command killed. `CheckedMeansBuilt`
has two halves. RPMs are there in any checkout, because a status is ok in a report
only after the RPMs of that build were copied, and nothing is ever taken out of
`work/prior`. They are whole where no wave was begun again (`WholeInv`): a copy that
was cut short is of the wave in hand, whose report was not written, and without a
second run of that wave no report ever calls it ok.

**Planner.** `RequirementsBuiltEarlier` speaks of finished plans only, so it is
not inductive. `PlanInv` adds what makes it true on the way: the breaker never
drops an edge behind an unsatisfied requirement (`UnsatisfiedEdgesKept`), the
waves laid so far respect every edge that is left and a placed recipe's
predecessors are placed (`WavesFollowGraph`), and the order of the phases
(`WavesComeLast`, `GraphComesAfterClosing`, `StatusComesLast`,
`WorklistStartsEmpty`, `PlannedIsComplete`). The step that matters is `LayWave`:
what is ready has no unplaced predecessor, hence all of them are at most at the
current depth. `NoIdleWave` also needs why the others wait: a recipe without a
wave has a predecessor that has none either or was in the last one laid
(`WaitsForLastWave`). For `StackIsLeastClosure` the invariant bounds the worklist
from above: the selection so far is within every selection that would do.

Cycles need an argument about sets of any size, which is made without induction
over data: the least number in a set of cardinalities. A least set in which every
recipe has a predecessor is strongly connected (`LeastCyclicIsConnected`), so had
its edges all been visited, one of them would have been found to be on a cycle
and dropped, unless CentOS has no witness for it. Conversely an edge whose end
leads back to its start lies on a cycle (`BackEdgeClosesCycle`), and a graph laid
out in waves has none. `Decided` carries what the breaker knows: an edge it kept
either closed no cycle or stands for something CentOS does not have, and stays
that way, since edges are only ever dropped.

`Remaining` counts what the planner has left: recipes the worklist may still
take, edges to visit, recipes without a wave, and phases to come. Every step takes
something off it (`PlannerRunsDry`). `BreakerFindsEdge` says that the visit order
has a first edge in every set of edges: a least consumer, and its least provider.
Every wave laid holds a recipe, as something was ready when it was laid, so more
waves than `MaxWaves` take more recipes (`TooDeepNeedsRecipes`).

**Factory.** `FaithfulInv` extends "the label tells the truth" from tags to the
seeds of runs in flight, pending, and kept for a re-run, and adds that builds in
hand carry the commit of their run, whichever attempt made them; then the candidate's label is true recipe by
recipe, from the run where it built and from the seed where it did not.
`VerifiedInv` says of each phase what has been done by then; `MoveTag` is enabled
in the last only. `KeepsPrevious` holds because the concurrency group makes the
seed of a run the image its tag still points to (`SeedInv`); that takes
`SerialRuns` — pulls that do not fail, no re-run of failed jobs, no two
branches cut to one tag — and the observations below say what happens otherwise.
The refinement of `PublishedRepo` follows from `VerifiedInv` and `SeedInv`.
`OrderedInv` says of every RPM a run has made that the earlier waves of its list
are over and that it is linked against what they made, so no build of an earlier
wave can appear after its consumers; a re-run builds every later wave again, and
RPMs of which the second build failed are left out. A step moves a run in one of
four ways (`RunMoves`, `PendingMoves`, `RerunnableMoves`): it works, joins, ends or
is kept, and every invariant is shown for each way once. `GreenInv` follows a request of `main`: the
newest one names the head, the run's seed is the image the tag still points to,
its list holds every recipe whose label differs, and by publishing all of the
list has ended. `PlainRequests` is what `runs_forgotten` shows to be needed: no
dispatch for one package and no trial run; re-runs, which bring back an older
commit, are excluded by `SerialRuns`.

`NeverStale` speaks of behaviours in which no run of `main` fails. `LinkInv` says
that what main's image holds is linked against what it holds, as are the seed of
its run in flight, of the pending one and of the one kept for a re-run. In the candidate of a run
without failures there are three cases of a consumer and its library: both were
built, and the library ended in an earlier wave than the consumer, so the consumer
saw it; neither was, and the seed is consistent; or the consumer alone was, against
the seed's library. The fourth, the library alone, is what `select` rules out: a
recipe on the list brings its consumers along (`TakesAlong`).
`WavesFollowRequires` is what `WavePlan` guarantees when CentOS stands in for no
requirement: with a dropped bootstrap edge the consumer may see the old library.
`MainAlone` says no branch name is cut to the tag of `main`. Failing pulls,
dispatches, re-runs and whatever other branches do are all allowed.

`RunsEnd` counts recipes an attempt has left to build and steps of the publish
job (`StepsLeft`); `NoWaveIsStuck` takes, among the unfinished recipes, one of the
least wave.

**Testing stream.** `BuildsOK` holds what runs in flight can rely on: a run that
signs has a complete index (`LanesOK`), a merge group not yet seen has no run
(`QueueOK`), an NVIDIA build asked for or under way has no outcome yet
(`OutcomesOK`), and a manifest run that publishes has both builds
(`AssembliesOK`). The point of `OutcomesOK` is that a *successful* build is never
built again, so both outcomes stay put between `FindRuns` and `PublishNvidia`
although re-runs interleave. `VouchesForSigned` follows a test from its dispatch: a
job that is about to dispatch has signed (`SignedFirst`), so a test was handed a
signed digest or came without one (`TestsVouch`), and what it resolved is what it
was handed; nothing ties the later readings to it, and nothing is claimed of them
but completeness. `UnsignedAccounted` is proved one variant at a time;
a stopped build, a merge group and a push of the same commit may all hold the
same index. For `CalmTestedRevision`, `CalmInv` says that with patience everything
in flight — builds, assemblies, tags past publishing, tests — is of the newest
change at the head, and the head stands still until its tests are over. Patience
is a guard of `PushImage`, `PushDocs`, re-runs of old builds and the merge groups in
the slices that name it (`IsCalm`), so the theorem is of `TestingStream` as it stands; in
other slices it claims nothing.

**Release.** A run past its verification holds digests that are signed, and
signatures are never withdrawn (`CopiesOK`), hence `StableWasVerified`. For
`UnsignedStableReported` with any number of overlapping releases: whoever moves
`:stable` next inspects it; an inspection that finds the copy of another release
records a failure *and* signs what it found; and a release that signed last has
signed what the tag names, or the tag has been moved by a release that is yet to
inspect. For `MergedWasTested`, `GatesOK` says of the promotion run under way
that every commit newer than the head it read overtook it, and that promote is
left to do only if that head was tested; so the head promoted is the one that was
waited for, or overtook the run, whatever is pushed, dispatched or merged between
the two gates. Nothing but `Push` adds to `overtook`, and only while a run is under
way, so the exception is no wider than the race.

**Only model-checked.** Liveness: `Terminates`, `QueueDrains`, `Converges`,
`CalmAssembled`, `CalmHeadTested`, `HeadPromoted`, `JobsEnd`. The prover has no
support for `ENABLED`, on which fairness rests. For three of them the other half
is proved, for instances of any size: whatever happens to the planner, to a run in
flight or to a job brings it closer to its end (`PlannerRunsDry`, `RunsEnd`,
`JobsRunDry`). What TLC adds is that they are never stuck before it, and that
nothing but fairness is needed. Every safety property of the passing runs is
proved.

## Findings

- `runs_forgotten` — `factory-build.yml:51` calls replacing a pending run safe
  because a selection covers every change since the last publication. A
  dispatch of one package selects that package only; when it replaces the
  pending run of a push, the change has no run until the next push.
- `runs_stale_consumer` — `rebuild_plan.py:118` makes dragging consumers along a
  matter of correctness. It happens in the run that rebuilds the library only.
  If the consumer fails there and the image does not install it, the library is
  published and no later green run selects the consumer.
- `release_backfill` — `promote-testing-to-main.yml:149` promises that every
  evaluation backfills what is missing, so that promotion heals itself. It
  dispatches the test of `uranium` twice and that of `uranium-nvidia` never. A
  documentation push becomes a head nothing ever tests, and waiting for it times
  out until a push builds images again.
- `import_moved` — `import_srpm.py:397` says of the checksum in a sidecar that it
  proves the download matches what the repository advertised. A seeding records
  the checksum of the archive its own catalogue named, and `extract` reads the
  metadata again: when Copr publishes a newer release of that version in
  between, the sidecar names an archive nobody downloaded. Name, version and
  completeness do agree (`RecordedVersionHolds`).

## Observations without a run

Met while modelling; no statement of the repository says otherwise, or the case
is outside the bounds of a run.

- `docs/release.md:5` can be read as saying that what becomes stable was tested
  first. The daily schedule of `execute-release.yml` copies whatever `:testing`
  names by then, signature permitting (line 31).
- When `rpmspec` fails on one spec (`render_source_locks.py:62-64`), or its only
  sources are local files that are not there (lines 185-193), the recipe is
  locked as one without upstream. The lock validates, its digests are gone, and
  the next render downloads again.
- A vendor bundle left in the directory by hand makes a recipe look complete: it
  is neither locked nor blocked (`render_source_locks.py:179-184`).
- A re-render drops `fallback_urls` and moves generated entries last
  (`render_source_locks.py:195-223`). `json.JSONDecodeError` is handled for the
  lock at line 154, but `inventory` at line 161 parses the same file.
- `validate.py` lets in what `source_pipeline.py` cannot stage: blocked recipes, on
  purpose; file names that line 159 refuses; `generated:` URLs other than
  `generated:cargo-vendor/`, which line 145 passes over; and digests that are
  compared under another algorithm than their own (lines 132-137): both digests
  without a `checksum_type`, where a sha256 is held against the `sha512`, or a
  `checksum_type` that is wrong or unknown. These are the four cases of
  `AcceptedIsStageable`; entries as the tools write them have none of the last two.
- A digest recorded as `sha256` alone, which `validate.py:83` accepts, is not
  remembered: a re-render downloads the URL again (`render_source_locks.py:203`).
- The SRPM gate verifies on the host and starts the container on the same
  directory afterwards (`srpm_gate.py:102-112`): what is replaced in between is
  built. `BuiltFromLockedBytes` says "unless one is replaced after all were
  verified".
- A hash of an unknown `checksum_type` leaves a generated file in place, since it
  raises before the `unlink` (`source_pipeline.py:151-153`).
- `stage_all` "reports all failures", but a `RuntimeError` of
  `generate_vendor.py` ends it at the first.
- `import_srpm.py:169` says of a caret what holds for a tilde; line 262 says that
  archives comparing equal are told apart by href, and a stable sort keeps the
  order of the metadata. `rpmvercmp("", "~")` is not what rpm answers.
- A failed extract leaves a directory that a second extract refuses
  (`import_srpm.py:334`), and a failing `git_tree_id` ends a seeding with neither
  report nor record.
- `--wave` run again in a kept workspace finds the RPMs of later waves, and its
  own, in `work/prior`: `EarlierWavesOnly` speaks of checkouts where no wave was
  repeated. A wave that is killed when repeated leaves the report green and its
  `work/rpms` empty; `--check` is about `work/prior`. Killed while it copies
  (`build_stack.py:71`), it leaves an RPM cut short there, for which the report of
  its first run vouches, and `--check` passes: `CheckedMeansBuilt` promises whole
  RPMs in checkouts without repeated waves only.
- The preflight counts CentOS packages that a recipe of an earlier wave will hide
  (`priority=1`), and capabilities that CentOS's older build generated: the two
  cases `FailureHasCause` names.
- `build_stack.py` copies whatever `.rpm` it finds under a package's output, in a
  build tree that an earlier failure to clean may have left.
- A pull of the published image that fails for any reason is taken for "no image
  yet" (`factory-build.yml:169,183`). Recipes that fail in such a run leave the
  repository. `SerialRuns` excludes it.
- Failed jobs that are run again later assemble on the seed of the first attempt
  (`factory-publish.yml:187`) and take back newer builds. Same. And a recipe whose
  second build fails is published as its first attempt left it, linked against a
  library of the first attempt that the second may have replaced: artifacts are
  collected by name, whatever attempt they are of (`factory-publish.yml:74`).
- A merge group builds and publishes `uranium:testing` (`build-regular.yml:30,88`).
- A test is recorded on the head of `testing` when it is dispatched
  (`build-regular.yml:175`), which after a push is not the commit it tests.
- `build-nvidia-manifest.yml:24-26` says `head_branch` is unreliable; line 220
  uses it as the ref to dispatch the test on. A test dispatched on `main` is not
  one promotion finds.
- Manifest runs of different commits are in different concurrency groups; the
  older may assemble last and take `uranium-nvidia:testing` back. So may the
  older of two overlapping releases with `:stable`.
- The head that `wait-nvidia-e2e` read and the head the squash promotes may differ
  (`promote-testing-to-main.yml:68`): a push during a promotion run is promoted
  without its `uranium-nvidia` test. It is the exception in `MergedWasTested`.
- Each test reads its tag two or three times: for the digest
  (`post-testing-e2e.yml:45`, `-nvidia.yml:55`), for the architectures (lines 50
  and 60), and the suite of `uranium-nvidia` pulls it. A push, a merge group or a
  late assembly may move it between any two, and the test is green over indexes
  nobody compared with each other (`VouchesForSigned` says what is left).
- A re-run of a failed NVIDIA build joins the concurrency group of pushes and
  cancels the build of a newer commit (`build-nvidia.yml:33-35`).
- `post-testing-e2e.yml` compares digests and architectures; it runs no suite.
- `pkg-cadence.yml`: an entry without an interval is given `monthly` before
  `bootstrap_interval` could be asked, and churn counts are kept only if some
  interval changed, since only then a pull request is opened.

## What is not modelled, and why

- Requirement strings, capability parsing, file formats, rendering: data the
  properties do not tell apart.
- Builds of pull requests (publish nothing), `workflow_dispatch` of the image
  builds, the branch check that ignores merge-group runs of the NVIDIA builds.
- "Re-run all jobs" of a factory run, which is a new run of an old commit, and
  running a factory run again that is not the last to end without success. A
  job's own retries are part of its succeeding or failing.
- Release notes, mirrors and post-release variants: they change no image tag.
- Image build scripts and container tooling: sequential, no state between runs,
  out of what a model adds to.
- `record` typed without an `extract`, `--dry-run`, `--no-download`, `--output`,
  a `Cargo.lock` elsewhere than at the top of an archive; the checks of
  `validate.py` on files that nothing modelled here writes.
- Which recipes the packit gate of a pull request selects, and the slicing of a
  list into chunks.
- The rounds of generated build requirements and dnf's own retry: part of a build
  ending one way or another.
- Copr prunes superseded builds, days later: in the model the chroot only grows,
  so `RecordedVersionHolds` says nothing of a seeding during which an archive
  disappears.
- The archives of the `intake` run have no caret in their versions: carets are
  covered by the assumption `CompareAgrees` and by the proofs.

Two deliberate abstractions: an index is its commit and architectures, so two
builds of one commit share a digest; and every library version moves its soname.

## Plan

1. **Done.** `WavePlan`; `Factory`, `PublishedRepo`, `FactoryRuns`; `OciImages`,
   `TestingTags`, `PostTesting`, `TestingStream`; `StableRelease`; then
   `RecipeImport`, `SourceLocks`, `SourceStaging`, `RecipeIntake` and
   `StackBuild`; their runs and the theorems above. The order was: what consumers
   install first, then what users boot, then what is called stable, then where
   sources and RPMs come from. Every safety property of the passing runs is a
   theorem, and so is the descent behind `Terminates`, `JobsEnd` and the runs of
   `QueueDrains`.
2. **Planner joined to runs**: `Wave` of `FactoryRuns` from `WavePlan`, so that a
   bootstrap edge dropped by the planner meets a soname that moves (a listed
   hazard that no run covers yet); streams with a shared tag. With it
   `WavesFollowRequires` is no assumption any more but `RequirementsBuiltEarlier`
   of a plan in which CentOS stands in for nothing.
3. **Packit gate** of a pull request: which recipes a diff selects.
