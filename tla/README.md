# Verification of craft-application

TLA+ models of the parts of craft-application where the order of steps, failures and other
processes matter, the TLC runs that check them, and TLAPS proofs about them. Paths of source
files are relative to `src/craft_application/`.

    tlc -workers 2 -config pack_one.cfg MCPackPipeline.tla     one run
    tlapm PackPipelineProofs.tla                                the proofs of one module

## The system

craft-application is a framework: an application (snapcraft, charmcraft, ...) registers its own
services and commands. A process of it runs one command. The command uses services, which are made
lazily by a factory and hold what the process knows; everything that outlives the process is a file,
an instance, a fetch-service process or an object on Launchpad.

| Component | State | Operations | Hard part |
|---|---|---|---|
| `Application` | platform and build-for, exit code | run, load project, run command, error handling | order of initialisation; every error becomes one exit code |
| `ServiceFactory` | registered classes, keyword arguments, made services | register, update_kwargs, get | a service is made with what is known at its first use |
| `ConfigService` | none | get | precedence of handlers; what is forwarded into an instance |
| `ProjectService` | raw, rendered and built project, platforms, project variables | load, preprocess, render, deep_update | caches that are read before and after an update |
| `BuildPlanService` | the plan, its filters | create_build_plan, plan, set_platforms, set_build_fors | stale plan; a plan made outside must be accepted inside |
| Lifecycle commands (`commands/lifecycle.py`) | none | pull, build, stage, prime, pack, clean, test; here, or for each build of the plan in a managed instance | order of post-prime steps, decision and packing; failure between any two |
| `LifecycleService` | `_requires_repack`, the manager of craft-parts | setup, run, clean, step planning | what a run remembers of an earlier one: nothing |
| `PackageService` | `_project_was_updated`, prime directories, artifacts | update_project, write_metadata, needs_packing, pack_artifacts, write_state | is a skipped artifact current? |
| `ProviderService` | instances, `_provider` | get_provider, instance, run_managed, clean_instances, shell | preparation, execution and teardown all can fail; instances stay |
| Ubuntu Pro (`util/pro_services.py`) | services enabled and recorded in an instance | check, enable | host, project and instance must agree |
| `FetchService`, `fetch.py` | `_fetch_process`, `_session_data`, `_proxy_cert`; the sessions of the fetch-service; a certificate on disk | setup, create_session, teardown_session, shutdown | one process for all tools of the host, on fixed ports |
| `ProxyService` | the proxy an instance is configured for | configure, configure_instance, finalize | is the instance on the session of its build? |
| `RemoteBuildService`, remote-build command | `_name`, `_builds`, `_deadline`; recipe, repository and builds on Launchpad; a copy of the directory in the cache | start, resume, monitor, fetch, cancel, cleanup | Launchpad and the project directory change under it; recovery by a later process |
| `StateService` | a directory with a file for each first key | get, set, mount into the instance | files without locks, shared by outer and managed process |
| `TestingService`, `models/spread.py` | none | process spread.yaml, select jobs, run spread | which jobs an expression, the host and CI select |
| `InitService`, init command | the project directory | check, repository, .gitignore, directory, templates | a directory the user works in, failures half way |
| `LinterService`, lint command of Testcraft | issues, ignore configuration | load ignores, run, post-filter | rules from two places that merge; a lazy generator with state |
| Grammar, project model | none | resolve the parts for a build, validate | which build it is resolved for; what merging loses |
| `RequestService`, git wrapper, utilities, data models | little | download, push, retry, validate | partial results |

Commands call services; services call each other through the factory. Four relations carry the
risk. The pack command, LifecycleService and PackageService share the prime directory. The process
outside and the one in the instance share only the command line, a few environment variables and the
state directory, and must agree on the build. The provider, fetch and proxy services are called in
turn for each instance, and share the fetch-service with other processes. The remote-build command
and its service work on Launchpad objects found again by name.

## What makes it correct

* Pack: nothing is skipped that is stale, nothing packed that was not generated and primed first,
  nothing packed again when nothing changed.
* Plan: what is built in an instance is the build outer planned, which is the one asked for; nothing
  planned outside is refused inside; exit code 0 means everything asked for was done.
* Bases, Pro, parts, snaps, tests, lint: no build on a base past its end of life by accident, with
  exactly the Pro services named, with the parts and plugins of its build, in an instance whose snaps
  are those of the host; tested with exactly the jobs asked for; every issue shown that nobody asked
  to ignore.
* Fetch: every build in its own live session, no session or process left behind, one valid
  certificate.
* Remote build: what is built is what the directory held, committed or not, monitoring ends when the
  builds do, results are downloaded before they are deleted (as far as the code can tell), a build
  that goes on is removed only on purpose, a timed-out one can be recovered, and every run ends.
* State: each execution has values of its own that change atomically; nothing is overwritten by
  accident.
* Project: a command works with one version of the project file, and what a part has set is in the
  metadata; init loses no file, and what it makes is complete and can be built.

`PROJECT.json` lists the hazards of the code at their lines, each with the properties that watch it.

## Modules

| Module | Models | Correspondence |
|---|---|---|
| `PackPipeline` | `commands/lifecycle.py`, `services/package.py`, `services/lifecycle.py` over an external craft-parts | `Start` is the command up to `_exec`, `Execute` one action of the manager, then `UpdateProject`, `WriteMetadata`, and for each artifact `Decide`, `WritePackageFiles`, `ReadExtraAssets`, `WriteExtraAssets`, `PackArtifact`; `Finish` and `Report` are the rest of `_run_pack`. `Abort` ends a command between any two. Contents are versions; a packed artifact is the content its prime directory had. |
| `Selection` | the loops of `services/buildplan.py` and `services/init.py` that keep some elements of a list | one operator, `Select`: the elements at some positions, in their order; `FilterPlan` and `MissingLines` are made of it |
| `BuildPlan` | `services/buildplan.py`, platforms of `services/project.py`, `models/platforms.py` | operators only: platforms as written, vectorised and completed, the exhaustive plan (external), `CreateBuildPlan` and `FilterPlan` |
| `SpreadTest` | `models/spread.py`, selection of jobs in `services/testing.py` | operators only: a job is a backend, a system and a suite; `SpreadCommand` and `RunSpread` follow the code, `AskedJobs` is the reference |
| `Rendering` | `render_for` of `services/project.py`, `grammar.py`, `models/grammar.py`, validators of `models/project.py` | operators only: a part maps keys to grammar; `ProcessPart` resolves it for a build, `RenderForError` is the first error in the order of the code |
| `Lint` | `services/linter.py`, `lint/`, the linter and lint command of Testcraft | operators only: rules, how those of the project file and of the command line merge, and what they hide |
| `ManagedInstance` | snaps, working tree and directory in `services/provider.py` | operators only: the queue of snaps to install, what is mounted, and where in it the command runs |
| `Application` | `application.py`, `services/service_factory.py`, `config.py`, `project.py` (configuration), `provider.py`, `util/pro_services.py`, `commands/lifecycle.py` (where a command runs) | composes `BuildPlan`, `SpreadTest`, `Rendering`, `Lint` and `ManagedInstance`. `proc["outer"]` and `proc["inner"]` hold what a process knows; `Boot`, `Configure` and `Command` are `Application._run_inner` and the start of the command; `Launch` and `Collect` are one turn of `run_managed`; `Setup`, `Run` and `Execute` are `LifecycleService`; `Test`, `CleanInstances`, `Interrupt` and the failing steps end it. `Lint` commands end in the outer process; `Start` and `Exit` let command follow command on the same instances, and the user edits the project file at any time. |
| `FetchSessions` | `services/fetch.py`, `fetch.py`, `run_managed`, `services/proxy.py` | a process is a `pc` over the steps of `setup`, `run_managed` and `teardown_session`; the fetch-service, its idle timer and its ports are external |
| `FetchCertificate` | `fetch._obtain_certificate` | one action for each openssl call and rename; a key is its number |
| `RemoteBuild` | `commands/remote.py`, `services/remotebuild.py`, `remote/`, the push of `git/_git_repo.py`, repositories, recipes and builds of `launchpad/` | one action for each step that changes Launchpad or what the service holds; Launchpad is external. A content of the directory has a build id that leaves file names out, so two contents may share one, and a repository, clean or not, of which the head of a copy is pushed. |
| `StateStore` | `services/state.py` | `Set` loads and changes, `Open` truncates, `Write` writes; a nested dictionary is the function from paths to its leaves, where the empty dictionary is a leaf |
| `ExecutionValues` | what `services/state.py` promises | abstract: values of its own for every execution, changed at once by `Set`, lost by `Break`, left behind by `Abandon` and found by a later `Start` |
| `InitProject` | `commands/init.py`, `services/init.py`, `git` as init uses it | `StartInit` is everything that only reads, then `InitializeVcs`, `CreateGitIgnore`, `CreateProjectDir`, for each template `RenderTemplate` (is the file there?) and `WriteTemplate`, `FinishInit`; `FailInit` at any point. The user makes the directory, edits, removes and commits. |
| `ProjectData` | `services/project.py` (loading, rendering, variables), `PackageService.update_project` | extends `InitProject` with a lifecycle command: `GetPlatforms`, `RenderFor`, `RunParts`, `UpdateProject`, `WriteMetadata`; `FailCommand` at any point |
| `MC...` | | constants of the small instances |
| `...Proofs` | | theorems about the module they are named after, and the inductive invariants they need; `SelectionProofs` has the lemmas about `Select` and concatenation that two of the others use |

History variables are marked in each module; no action of the program reads them. Operators marked
"Mutant" are plausible bugs, each of which breaks a property that holds of the code.

The fetch-service modules are kept apart because the certificate is settled before a session exists
and both have several processes of their own; sessions assume that start-up has a certificate or
fails. `PackPipeline` is the inside of one `Execute` of `Application`; `FetchSessions` adds to its
`Launch` and `Collect` what happens between them.

## Runs

| Run | Instance | Shows |
|---|---|---|
| `pack_one` | 1 part, 1 artifact with package file and asset, 2 versions, build, prime and pack with and without `--shell`, clean, edits also while a command runs | all the pack properties together |
| `fetch` | 2 runs with 2 builds each: sessions of their own, the user's session, or a command line that asks for both | all properties of runs that share the fetch-service |
| `cert` | 2 processes, restarted, up to 4 keys | interruption at any point leaves a usable pair, and a finished pair is kept |
| `remote` | 2 builds on 2 architectures, 2 contents with one build id, one of them not committed, and a shallow clone | all ways a run ends and the next begins; that runs end |
| `state` | 2 executions, 2 directories, 3 paths, a value and the dictionary | `StateStore` implements `ExecutionValues`; values are kept |
| `app` | 54 projects, 123 command lines, 5 Pro states of the host, 2 architectures, 4 edits | plans, parts, plugins, bases, Pro services, snaps, tests, lint and exit codes |
| `project` | 2 variants of a template, 3 descriptions by git, 3 project files of the user | init and lifecycle commands on one directory |

These runs violate a statement of the repository (the findings of `PROJECT.json` quote it):

| Run | What happens |
|---|---|
| `pack_stale` | prime after an edit, then pack: only skips are planned, the old artifact is "already packed" |
| `fetch_shared` | the run that started the fetch-service exits and stops it under another run's build |
| `remote_recover` | recovery finds no builds while the request is pending, and cleans up |
| `app_pro` | the project service is made before the Pro services are known, so its check of interim bases sees none |
| `project_expand` | project variables are merged back as they were before the environment was expanded |

### Bounds and why they are enough

* `pack_one`: two versions of each content tell "the same" from "changed"; a third would only repeat
  a change. One part shows every relation between a part, its prime directory and an artifact;
  several parts and artifacts are covered by the theorems. `Used` and `WhileRunning` bound which
  commands the user runs, and whether she edits meanwhile. In the run she does; build, prime and pack,
  with `--shell` one step less, leave a part at every step, so that pull and stage add no state of it
  between commands.
* `fetch`: two runs are the least that share the service; with two builds there is a session after a
  session (`Builds`).
* `cert`: `MaxKeys` 4 lets two processes each generate, be interrupted and generate again.
* `remote`: two builds are the least with different fates. Two contents have one build id, so that
  what an earlier run left is found by a later one; build ids of their own only separate the runs,
  and `remote_recover` has those. One of the two is committed, the other not; the third is one that
  git refuses, a shallow clone or (in `remote_recover`) no clone. One run at a time. The builds have
  file names and architectures of their own.
* `state`: paths of one and two keys have each case of `_set`: blocked, taken, taken by a
  dictionary, free. `Limit` stands for the size a file may have.
* `app`: `Projects`, `Lines` and `HostStates` are chosen so that every guard of the code decides both
  ways: shorthand platforms, several build-ons, none for the host; stable, development, old and
  unknown bases as base and build base; each handler of the configuration; providers; every form of
  grammar and every error of rendering; an application from a snap, a parallel one or none; projects
  below and at the root of a repository; commands of the application that replace a default. `MCLines`
  gives each of these groups of projects the command lines that matter to it. `Edits` change the
  target of a platform, take one away, change the base or break the file, once, at any time. Platforms
  have one target.
* `project`: the templates have a project file, a plain file and a `.gitignore`; git describes a tag,
  a commit behind one that is just short enough or just too long, and characters a version cannot
  have; `UserTexts` are a file with its values, one that adopts them and one with references. Names
  have 40 and 41 characters, on both sides of what the model allows, or characters a name cannot have.

SYMMETRY is used in runs that check no liveness. CHECK_DEADLOCK is off where processes end for good
(`fetch`, `fetch_shared`, `state`).

## Fairness

* `FetchSessions`: weak fairness of each run (every request has a timeout and a bounded number of
  retries; that the command in the instance ends is assumed), of a started fetch-service, and of its
  idle timer.
* `RemoteBuild`: weak fairness of the program and of the clock. Launchpad owes nothing: that a run
  with a timeout ends holds if it never answers; that one without ends is stated under `FarmWorks`,
  that some request or build moves on while any can.
* `PackPipeline`, `FetchCertificate`, `StateStore`, `Application`, `ProjectData`: none; only safety is
  checked. The user never has to do anything.

## Proofs

Each `...Proofs` module proves its theorems for every value of the constants that the assumptions of
the module it is about allow, by an invariant that is inductive: it holds at first, every action keeps
it, and the properties follow from it, or from it and the step. TLC has checked each of these
invariants on the small instances before it was proved (`PackInv` on `pack_one`, `SessionInv` on
`fetch`, 202 518 states; `PairInv` on `cert`, 2 471; `RemoteInv` on `remote`, 23 150, and on an
instance with two builds of one architecture, 3 155 460; `StoreInv` on `state`, 329 604; `DataInv` on
`project`, 759 873, with `Filling` and `Ignoring`; those of `ApplicationProofs` on `app`, 1 568 950;
`AssetKept` and `QuietInv` on `pack_one`, 4 558 016 with all five commands). Every invariant that a
run checks is stated by a theorem, and every action property.

### `PackPipelineProofs`

For any sets of parts, artifacts and versions, any generated files and commands:

* `PipelineTypes`: `Spec => []TypeOK`.
* `SkipSound`: `Spec => SkipIsSound`, if the default artifact has a package file besides
  metadata.yaml. Without that condition it is false: an application that registers metadata.yaml
  itself as its package file compares the file after writing it.
* `PackFresh`: `Spec => []PackedIsFresh`.

`SkipIsSound` says of one step that what is skipped equals its prime directory; it needs to know what
can have happened to the directory since the artifact was packed. The inductive invariant `PackInv`
is the conjunction of `TypeOK` and

* `Phases`: which variables are meaningful in which phase; when this run plans nothing, nothing is
  executed, and if it is pack, every part is primed;
* `Whole` (for each artifact `Kept`): an artifact file is complete unless it is orphaned, that is,
  unless a command that did not pack has changed its prime directory;
* `PartsKept`: a part that differs between artifact and prime directory was executed by this run or
  is not primed;
* `FilesSane`, `FilesKept`, `Materialized`: generated files are as packed, or visibly missing or
  edited, outside of the steps that write them;
* `MetadataKept`: metadata.yaml is from the same metadata as the package file next to it. That is
  why the package file stands in for the comparison that metadata.yaml itself would need: it is
  written for every run before the comparison.

`PackedIsFresh` needs two more: `Lifecycle`, that a part at its last step is primed from what was
pulled, that the planned actions are ahead of where the parts are, and that pack comes to packing
with every part primed; and `Decided`, that what was skipped stays current until the report.

* `AssetCurrent`: `Spec => SkippedAssetIsCurrent`, with the condition of `SkipSound` and `HonestClock`:
  an edited asset gets a newer time. `_asset_changed` compares times only, so without it
  the property is false. It excepts what an earlier command orphaned, and a copy that is `torn`: half
  written by a command that was interrupted, or written after the asset it was read from was edited
  (the next pack skips it). `AssetKept` is the invariant: a copy that is not
  older than the asset, and not torn, is a copy of it.
* `NothingRepacked`: `Spec => RepackOnlyWhenChanged`, without any condition. `QuietInv` follows the
  history variable `quiet` through two commands: while nothing changes, the running pack plans
  whatever is outdated and ends with every part primed from its source (`PartsSettled`), writes the
  project model of the project file (`LoadedSettled`), and leaves of every artifact a file and
  generated files that the next comparison finds equal (`Settled`); `Phased` says in which phase
  artifacts are decided. It needs `Lifecycle` too.

### `FetchSessionsProofs`

For any number of runs, any number of builds: `FetchTypes`, `NoRefusal` (`NeverRefused`),
`OwnSession` (`ExecutesInOwnSession`) and `TornDownAtEnd` (`SessionsTornDown`). What a run may rely on
depends on its own steps, and on what the other runs can do to the fetch-service. `SessionInv` has,
for the service, that its owner runs and that sessions are served only while it is up
(`ServiceInv`); and for each run that nothing was done for builds to come (`Fresh`), that a session is
held from its creation to the end of its teardown (`Holding`), that proxy and instance are routed
before the command runs (`Routed`), that the session is as far as the program counter, unless another
run that has exited took the service with it (`Served`, the exception `OwnSession` states), and that
sessions of earlier builds are gone (`TornDown`). `Undisturbed` is all that one run can do to another;
a run that is undisturbed keeps its part, so that each action is only looked at for the run that takes
it.

### `FetchCertificateProofs`

For any number of processes and keys: `CertificateTypes`, `MatchingPair` (`ReturnsMatchingPair`) and
`PairStays` (`PairIsKept`). `PairInv` says, until two generations overlap, that at most one process
generates, that a key in place is never without its certificate (`Paired`, as the certificate is
renamed first), and that each step of a generation finds in the temporary files what its own last
step left there (`Progress`), whatever interrupted calls had left before.

### `RemoteBuildProofs`

For any contents, hashes and builds: `RemoteTypes`, `Recoverable` (`TimeoutIsRecoverable`) and
`BuildsDirectory` (`BuildsWhatIsThere`). Under the hypothesis `OneBuildEach`, that every architecture
has one build, also `MonitorsToTheEnd` (`ReturnsWhenStopped`), `KeepsResults` (`ResultsAreKept`) and
`RemovesOnPurpose` (`OnlyOnPurpose`). The hypothesis is needed: `services/remotebuild.py:411` keeps
one state for each architecture, so that of two builds for one only the last is waited for; TLC
violates all three on such an instance. `ResultsAreKept` says of each artifact that it was put into
the directory, or was `refused` (answered with an error page, which `download_chunks` saves as if it
were the file), or has the file name (`Name`) of another. `RemoteInv` relates what Launchpad has of a
build id (`Farm`) to what the run holds: its name is that of the directory until the first download
(`Named`), what is pushed is a copy of the directory with everything committed (`Copied`, `Pushed`),
the recipe is where the run believes it (`Listed`), the builds it holds are all there are (`Held`,
`Shown`), and none of them goes on, or has ended well without being downloaded, once monitoring is
over (`Stopped`).

### `StateStoreProofs`

For any executions, directories, paths and values: `StoreTypes`, `ValuesKept` (`NoOverwrite`) and the
refinement `StoreImplements` (below). `StoreInv` says that no value lies beneath another, that live
executions have directories of their own (`OwnDirs`), that the tree an execution has loaded is that of
its file with one path changed until the file is opened, which then is empty (`Working`), and that a
file without a live execution is what one that was killed, or kept its directory, left there
(`Tidy`, `Leftover`).

### `ProjectDataProofs`

For any templates, texts of the user, versions, fields and variables: `DataTypes`, `OneVersion`
(`ReadOnce`), `CompleteMetadata` (`MetadataComplete`), `InitMakesProjects` (`ReadyToBuild`) and
`FilesKept` (`UserFilesKept`). Under the hypothesis `IgnoredOnce` also `InitComplete` (`Initialised`).
`DataInv` has a part for each command. For init: what was checked stays true (`Checked`), rendering
goes through templates of which one is the project file, with the version git describes and the name
that was checked (`InTemplates`), a file about to be written was absent and only the user can have
made it since (`Absent`), and a project file the user has not touched is the rendered one (`Own`). For
the lifecycle command: which caches are filled at which point and from which text (`Read`), and that
what the part has set is in the project variables before the metadata is made (`Variable`).
`FilesKept` compares texts, sequences of lines, and needs that `.gitignore` is only added to.

`IgnoredOnce` says that the application names no ignored line twice, names neither the empty line nor
the comment that init writes above its own, and that no `.gitignore` of the user has one of the lines
twice: init adds what is missing and removes nothing, so that without it the property is false. Two
invariants are added. `Filling`: of the files of the template none is there when the command has
checked, later each is there or still to come, and one that is there is the template's, or the user
wrote it meanwhile, or it is the `.gitignore` that got lines. `Ignoring`: no `.gitignore` ever has one
of the lines twice, and from the step that adds them on it has them all.

### `ApplicationProofs`

For any projects, edits, command lines, Pro states, architectures, bases, snaps and grammar: all ten
invariants of the run `app`. The invariants are proved one after the other, each from those before.

* `Course`: the order of steps. The process in an instance is alive only while the one outside waits,
  nothing is in the queue or built before the plan is followed, and a process that got past its
  configuration has read the project.
* `Commanded`: each step belongs to the command the user gave, and is taken where that command runs.
* `Planned` (`PlannedInvariant`): every plan a process holds is the filtered plan of the project it
  read, for the filters its command line and configuration ask for, and the queue is what is left of
  it. The plan is computed again after each change of a filter; this is where a stale one would be.
* `Typed`: types of plans and builds. With `Course`, `Requested` and `Ahead` it gives `TypeInvariant`.
* `Ahead` (`AheadInvariant`): what was planned is built (and tested) or in the queue; `Cleaned`: no
  instance of a build is left when cleaning ended well. Both give `ExitCodeInvariant`.
* `Requested`: the services recorded in the instance that is waited for are those asked for, and what
  is enabled in any instance is what is recorded and what a failed launch `left` there, a history
  variable. Gives `ProInvariant`.
* `Related`: outer and inner read the same file, or one edit lies between. Gives `PlannedRuns`, by
  `BuildFacts` (the build that is executed is the only one of the plan and the one the project is
  rendered for) and `InsideFacts` (the platform forwarded into the instance is the one it is for).
* `Accepted`: a refusal inside has one of its two reasons. Gives `PlanAcceptedInvariant`, by
  `InsidePlan`: the plan made inside for the platform and the machine that were planned outside is
  that one build.
* `Parted` gives `PartsInvariant`, `Snapped` gives `SnapsInvariant`; `BasesInvariant`, `TestInvariant`
  and `LintInvariant` have strengthenings of their own next to them.

Below them are lemmas about the operators. `PlanFacts` says what `CreateBuildPlan` has, and has not;
`FilteredFacts` that with the filters of a command; `ConfigureFacts` which platform the configuration
settles on; `RunSpreadFacts` that rewriting the expressions loses and adds no job; `CliSpecFacts` what
the rules of the command line come to, in any order. The assumptions are on data that is validated
before, or written by the application: the platforms of a project are a dictionary and not empty, a
base or a build base is there, `ci` is no backend of the user, grammar is made of lists, an
application registers each snap once, and the base of a snap has no base of its own.

### `SelectionProofs`

`SelectFacts` says of any sequence and any positions that `Select` gives exactly the elements there,
in their order; `FlattenFacts` says what concatenation has. Both rest on `Induct`, induction over a
set of numbers, and `Recursion`, that a function defined step by step exists. These are shown by least
counterexample (`Least`, from the well-foundedness of the naturals), since the library's theorems
take an operator as parameter, which no prover here instantiates.

### Only model-checked

* Liveness, which is outside the prover's reach: `FetchSessions!RunsEnd` and `ServiceGoesAway`,
  `RemoteBuild!RunEnds`.
* The violated statements, which are false.

No module has recursive operators, which are outside the prover's reach too; where the code recurses,
the modules have recursive functions and folds.

## Refinement

`StateStore` loads, changes and writes files of a directory that may have been used before, in two
processes of an execution, next to other executions. `ExecutionValues` has one action for all that.
`KeepsValuesApart` says `StateStore!Spec => ExecutionValues!Spec`, with the mapping

* `phase`: new, running, ended or abandoned (`Phase`);
* `values`: what `get` returns, read from the file, or, between the truncation of the file and the
  write, from what is about to be written (`Seen(Content(e))`); a set takes effect when the file is
  opened;
* `left`: what is in the directory of an execution that has gone.

The price of a file without a lock or a rename is in the abstract specification, not in the mapping:
`Break` (a write that is cut short costs all values), and `Found` (an execution that was killed, or
kept its directory, can be come upon by a later one). Two executions that share a directory at the
same time (CRAFT_STATE_DIR) do not implement it.

TLC checks it in `state`; `StoreImplements` proves it: `InitImplements` for the initial states,
`StepImplements` for each action. `Create` is `Start`, `Open` is `Set` if the directory is there,
`CutShort` is `Break` if the file was open, `Exit` is `End` or `Abandon`, `Kill` is `Abandon`;
`Set`, `Write`, `Switch` and the rest leave all three maps as they are. That the maps do not change for
other executions is `OwnDirs`; that a new execution finds nothing or what was abandoned is `Leftover`.

## Disagreements without a run of their own

Found while modelling, by reading or with instances of the modules that are not kept; the properties of
the runs except the cases that are named here. Each is in the hazards of
`PROJECT.json` or below a note of a module where it limits a property.

* `commands/lifecycle.py:306`: metadata.yaml registered as package file is already written when
  `needs_packing` compares it. `services/package.py:373`: an asset replaced by an older file is not
  noticed. `:412`: an asset that is edited between the read and the write of its copy, or whose copy is
  half written, is older than the copy, and the next pack skips it.
* `services/fetch.py:222`: a fetch-service that answers too late is stopped by nobody.
  `services/provider.py:586`: a session leaks if preparation fails between its creation and the try
  block. `fetch.py:453`: two generations of the certificate in the same temporary files can end with
  a pair that does not match.
* `services/request.py:68`: no download looks at the HTTP status, so that the page of an error is
  saved as the artifact, and the recipe deleted; `services/remotebuild.py:216`: artifacts of two
  builds that have one file name are written to one file.
  `docs/common/craft-application/how-to-guides/build-remotely.rst:77` promises that all of them "are
  downloaded".
* `services/remotebuild.py:411`: of two builds for one architecture only the last listed is monitored;
  `:170` says of monitoring that it "exits once all builds have stopped".
  `remote/utils.py:90`: downloads change the hash by which a later recovery looks. The repository is
  made below a project but looked for, in recovery, below the user. `commands/remote.py:175` tells the
  user to resume without `--project`, and so in another project. `commands/remote.py:237` returns 0
  whatever became of the builds.
* `services/fetch.py:314`: the craft manifest is named by the first platform of the plan, so that with
  several builds the last one is left; its version is that of the project outside, None if a part
  sets it.
* `services/project.py`: a project with several bases in its platforms is only checked by
  `get_platforms` at start-up, where the error is swallowed; the cached result is used after that.
  `models/project.py:276`: the check of a base in development is a validator of `build_base`, which
  does not run for one that is left out, so that the base is built on itself; its test
  (`tests/unit/models/test_project.py:395`) says "Must set a build-base". `BasesOnPurpose` only speaks
  of projects that set one.
* `services/linter.py:218`: the summary returns 0 or 2, never the 1 that
  `docs/how-to/add-a-linter.rst:108` ("0 OK, 1 WARN, 2 ERROR") gives for warnings. `LintedAsAsked`
  leaves that case open. The lint command of Testcraft loads the project
  as it stands in the file, so one with grammar, or with fields a part will set, cannot be linted.
* `util/system.py:46`: the number of parallel builds is read from the environment only; the value of
  the snap configuration works in instances, to which it is forwarded, and not on the host.
* `util/pro_services.py:116`: a call of the Pro client that fails raises an exception that the check
  of the environment does not catch.
* `services/state.py:370` and `:402`: a failed save leaves an empty file, which loads as None.
  `:126` announces TypeError for a dictionary, `:241` stores it.
* `services/provider.py:408`: `clean --platform`, whose help is "Platform to clean"
  (`commands/lifecycle.py:775`), removes the instances of every platform; `ExitCodeHonest` asks for
  the named one. It cleans instances of the provider chosen now, and of no other; `clean` with parts
  in an instance uses the first build of the unfiltered plan, and cannot clean a Pro instance, as it
  has no `--pro`.
* `test` looks at no configured platform outside, does not check host and project for Pro services,
  and with the build environment "host" fails with RuntimeError, since it never asks whether to use a
  provider (`services/provider.py:444`).
* `services/project.py:759`: `--ignore=unmaintained` on a base that distro-support does not know
  raises an exception nobody catches.
* `util/pro_services.py`: the branch of `check_pro_context` for "managed and to be run managed" cannot
  be reached. `:187` compares bases with "devel", where most applications write "ubuntu@devel".
  `services/provider.py:545`: services that a launch enabled before it failed are not recorded in the
  instance, so that the check of a later command (`:516`) does not see them: it builds with them
  although it asked for others, or none. `ProAsRequested` excepts them (`left`).
* `services/lifecycle.py:149`: the fallback for a machine without builds asks for the plan again in a
  debug message if there is a plugin group, and raises. A group set for one build stays when the next
  has none.
* `services/package.py:230`: `update_project` checks mandatory fields on the project it fetched before
  the subclass's updates. A version that holds a reference makes it raise a validation error.
* `services/init.py:102`: with git, a project directory that does not exist yet fails, because the
  repository comes before the directory. A template's `.gitignore` is skipped silently when the
  ignored lines were written first. `commands/init.py:41` says that init "should always produce a
  working and ready-to-build project": a tag such as the docstring's own "curl-8_11_0", a version
  longer than 32 characters, and a name (`:73`) or directory name longer than 40 make one that does
  not validate. A file that the user creates between `exists()` and the write (`:233`, `:265`) is
  written over. A run that failed leaves files on which the next run refuses.

## Not modelled

* What craft-parts, craft-providers, craft-grammar, pydantic, distro-support, git, jinja and spread
  do; they enter as external steps that succeed or fail, or as functions of their inputs.
* Manifests (`create_project_manifest` and what is made of it), the upload confirmation of
  remote-build, `--project`, two runs of remote-build on one directory at a time (a race that
  `git/_git_repo.py:463` acknowledges), and what Launchpad requires of names.
* A state directory shared by executions through CRAFT_STATE_DIR: with it they lose each other's
  values, as `set` does not lock.
* In `PackPipeline`: the hook `_app_needs_repack`, by which an application can only add repacks;
  generators that answer False (no file) or None (remove the file) for a package file; the merge of
  project variables in `update_project`, which `ProjectData` has.
* In `ProjectData`: changes that a subclass makes in place to the project it fetched
  (`services/package.py:230-239`), which the check of mandatory fields sees; the model has the ones it
  makes through `deep_update`, which the check does not see.
* In `InitProject`: an interruption in the middle of the lines added to `.gitignore`, which are read
  and appended in one step, and files the user removes while init runs.
* In `Application`: an instance is known by its platform, and is not made anew for another base.
* Instances used by runs without the fetch-service after runs with it; the shell in an instance, its
  log files and `.bashrc`.
* Names of resources in the processed spread.yaml (`_translate_resource_name` can map two to one).
* `LinterService.run` as a generator: it clears the issues of an earlier run only when the first issue
  is asked for. In `Lint` a run is complete.
* Argument parsing, plugins of entry points, callbacks, logging, error formatting, retry and the other
  utilities: no state that outlives a call, or only text. Remotes, fetch and clone of the git wrapper:
  nothing in the package calls them.
* The components that `PROJECT.json` lists as not modelled.

## Plan

What the sections above describe is modelled and checked, and its safety is proved.

Modelled later, if at all: an abstract specification of packing that `PackPipeline` implements without
the orphaning commands; manifests; two remote-build runs on one directory.
