----------------------------- MODULE Application -----------------------------
(***************************************************************************)
(* One user's commands on one project, from start-up to exit code: the     *)
(* Application, the services it makes (ServiceFactory), the project it     *)
(* configures and plans (module BuildPlan), and the provider that runs the *)
(* same command again in a managed instance for each build.                *)
(*                                                                         *)
(* "outer" is the process the user started, "inner" the one in the         *)
(* instance.  The two share no memory: what inner knows of the build it is *)
(* for is the command line and CRAFT_PLATFORM, and each reads the project  *)
(* file for itself, which the user may edit in between.  Instances stay    *)
(* behind when a command ends.  What craft-parts does with a build is one  *)
(* step that succeeds or fails.                                            *)
(***************************************************************************)
EXTENDS BuildPlan, FiniteSets

CONSTANTS
  InDevelopment, AllowSlash, EnableFor, \* see Rendering
  Projects,   \* project files, with spread.yaml and where the project is
  Edits,      \* bound: how the user may edit the file, as pairs of projects
  TopProject, \* the project file at the root of a repository with several
  Lines(_),   \* bound: the command lines and environments tried on a project
  HostStates(_), \* bound: Ubuntu Pro on the host tried with a project, None (no
                 \* client) or [attached, enabled]
  Host,       \* the architecture of the host
  HostBase,   \* its base
  Unmade,     \* a service that was not made yet
  Supported,  \* ProServices.supported_services
  CheckSupportedBase, \* AppMetadata.check_supported_base
  EndOfLife,  \* the bases that are no longer supported
  Unknown,    \* the bases distro-support does not know
  AllowGitBuildRoot, \* AppMetadata.allow_git_build_root
  RequestedSnaps, \* what the application registered to be installed
  AppGroups,  \* the commands it adds, by group
  Group(_)    \* LifecycleService.get_plugin_group() of the application

INSTANCE SpreadTest
INSTANCE Rendering
INSTANCE Lint
INSTANCE ManagedInstance

Processes == {"outer", "inner"}

\* The errors by their names, with how the dispatcher ends a process.
Errors ==
  {"help", "version", "usage", "broken", "KeyboardInterrupt", "NoSpreadFile", "TestFileError",
   "InvalidPlatforms", "InvalidPlatformError", "CraftValidationError", "ProjectGenerationError",
   "PartNames", "AdoptInfo", "InvalidUbuntuProBaseError", "InvalidUbuntuProServiceError",
   "UbuntuProClientNotFoundError", "UbuntuProDetachedError", "UbuntuProAttachedError",
   "InvalidUbuntuProStatusError", "UbuntuProNotSupportedError", "UnknownDistributionError",
   "RuntimeError", "UnsupportedBase", "FileNotFoundError", "ValueError", "EmptyBuildPlanError",
   "MultipleBuildsError", "IncompatibleBaseError", "ProviderError", "CraftError", "PartsError"}

NamesOf(raw) == {Vectorised(raw.platforms[i]).name : i \in DOMAIN raw.platforms}
Names == UNION {NamesOf(j) : j \in Projects \cup {TopProject}}

\* A platform has a name of its own, and a project a base.  The backend that runs
\* on the CI machine is the application's.  The test command takes neither
\* --build-for nor --destructive-mode.
ASSUME ApplicationAssumption ==
  /\ Host \in Archs
  /\ None \notin STRING \cup Targets \cup Errors \cup {"craft", Error} \cup Development
  /\ \A x \in Names \cup Targets : None # {x}
  /\ ({None} \cup Development) \cap EndOfLife = {} /\ {None, "bare"} \cap InDevelopment = {}
  /\ \A j \in Projects \cup {TopProject} :
       /\ DOMAIN j = {"platforms", "base", "buildbase", "spread", "slash", "part",
                      "version", "adopt", "ignores", "git"}
       /\ j.platforms # <<>> /\ j.platforms \in Seq(Declaration)
       /\ \A i, k \in DOMAIN j.platforms : j.platforms[i].name = j.platforms[k].name => i = k
       /\ {j.base, j.buildbase} # {None}
       /\ j.spread # None =>
            /\ DOMAIN j.spread = {"valid", "backends", "suites"}
            /\ \A b \in j.spread.backends :
                 /\ DOMAIN b = {"name", "type", "systems"}
                 /\ "ci" \notin {b.name, b.type} /\ None \notin b.systems
            /\ \A u \in j.spread.suites : u.name # None
  /\ Edits \subseteq Projects \X Projects
  /\ \A e, f \in Edits : e[2] # f[1] /\ e[1].spread = e[2].spread /\ e[1].git = e[2].git
  /\ \A j \in Projects : \A l \in Lines(j) :
       /\ l # None /\ l.rules \in Seq([linter : STRING, issue : STRING, glob : Seq(STRING) \cup {None}])
       /\ l.cmd = "test" => l.for = None /\ ~l.destructive

\* Grammar is a sequence of items with sequences of values.
ASSUME PartAssumption ==
  \A j \in Projects \cup {TopProject} : \A key \in DOMAIN j.part :
    LET grammar == j.part[key]
    IN /\ grammar \in Seq(Range(grammar))
       /\ \A item \in Range(grammar) : \A s \in {item.values, item.otherwise} : s \in Seq(Range(s))

\* An application registers snaps of the store, each by its own name and neither
\* itself nor the snap it runs from; and the base of a snap has no base.
ASSUME SnapAssumption ==
  /\ RequestedSnaps \in Seq(Range(RequestedSnaps)) /\ None # "latest/stable"
  /\ \A i, k \in DOMAIN RequestedSnaps : RequestedSnaps[i].name = RequestedSnaps[k].name => i = k
  /\ \A s \in Range(RequestedSnaps) : s.name # "app" /\ s.channel # None
  /\ \A j \in Projects : \A l \in Lines(j) :
       /\ \A s \in Range(RequestedSnaps) : s.name # l.snap.name
       /\ None \notin DOMAIN l.snap.hosted
       /\ \A n, b \in DOMAIN l.snap.hosted :
            l.snap.hosted[n].base = b => l.snap.hosted[b].base \notin DOMAIN l.snap.hosted

VARIABLES
  project,   \* the project file as it is now
  host,      \* the Pro state of the host
  line,      \* the command line and configuration of the command, None without one
  instance,  \* instance[<<v, n>>]: the instance of platform n at provider v, or None
  proc,      \* proc[p]: what a process holds
  queue,     \* the builds outer still has to run in an instance
  built,     \* history: the builds this command completed, by platform
  tested     \* history: those it also tested, with the jobs that ran

vars == <<project, host, line, instance, proc, queue, built, tested>>

\* A process that was just started.  raw is the project file as it read it,
\* ret what its command returned.  kwargs and made are those of the services
\* that take Pro services: "project" and "provider".
Fresh == [pc |-> "boot", error |-> None, ret |-> 0, raw |-> None, parts |-> None,
          shown |-> {}, snaps |-> <<>>,
          kwargs |-> [project |-> None, provider |-> None],
          made |-> [project |-> Unmade, provider |-> Unmade],
          conf |-> None, names |-> None, fors |-> None, plan |-> <<>>,
          group |-> None, arch |-> None, build |-> None]
Absent == [Fresh EXCEPT !.pc = "absent"]

Providers == {"lxd", "multipass"}
Slots == Providers \X Names

Init ==
  /\ project \in Projects /\ host \in HostStates(project) /\ line = None
  /\ instance = [slot \in Slots |-> None]
  /\ proc = [p \in Processes |-> Absent]
  /\ queue = <<>> /\ built = {} /\ tested = {}
-----------------------------------------------------------------------------
(* What a process sees of its surroundings. *)

\* ConfigService: the first handler that knows an item answers.  env[h][i] is
\* what handler h has for item i: TESTCRAFT_*, CRAFT_*, the snap's settings.
Handlers == <<"app", "craft", "snap">>
Items == {"platform", "for", "on", "environment", "monorepo"}
Unset == [i \in Items |-> None]
FirstOf(answers) ==
  LET given == {i \in DOMAIN answers : answers[i] # None}
  IN IF given = {} THEN None ELSE answers[Min(given)]
Lookup(env, item) == FirstOf([i \in DOMAIN Handlers |-> env[Handlers[i]][item]])

\* Mutant: every item is forwarded.
ForwardedAll == [i \in Items |-> Lookup(line.env, i)]

\* ProviderService.setup(): the configuration outside reaches the instance as
\* TESTCRAFT_*, except what belongs to the whole command.
Forwarded ==
  [i \in Items |-> IF i \in {"on", "environment", "monorepo"} THEN Lookup(line.env, i) ELSE None]

\* run_managed() names the platform of the build.
ManagedPlatform == [Unset EXCEPT !["platform"] = Head(queue).platform]

Environment(p) ==
  IF p = "outer" THEN line.env
  ELSE [app |-> Forwarded, craft |-> ManagedPlatform, snap |-> Unset]

\* get_arg_or_config(): the command line, which inner gets as well, comes first.
Platform(p) ==
  IF line.platform # None THEN line.platform ELSE Lookup(Environment(p), "platform")
BuildFor(p) ==
  IF line.for # None THEN line.for ELSE Lookup(Environment(p), "for")

\* DebianArchitecture.from_host() in the process.
Machine(p) ==
  IF p = "inner" /\ Lookup(line.env, "on") # None THEN Lookup(line.env, "on") ELSE Host

\* The base a process runs on: that of the plan outside.
Base(p) == IF p = "inner" THEN EffectiveBase(proc["outer"].raw) ELSE HostBase

Managed(p) == p = "inner"
UseProvider(p) ==
  ~Managed(p) /\ ~line.destructive /\ Lookup(line.env, "environment") # "host"

\* ProviderService.get_provider(): --use-lxd, the configuration, the provider
\* set in the snap, the default.
GetProvider ==
  FirstOf(<<IF line.lxd THEN "lxd" ELSE None, Lookup(line.env, "environment"),
            line.snapprovider, "lxd">>)
ProviderNameError == IF GetProvider \in Providers THEN None ELSE "RuntimeError"

\* Only lifecycle commands take --pro; None where the command does not.
Pro == IF line.cmd \in {"clean", "lint"} THEN None ELSE line.pro
Wanted(pro) == IF pro = None THEN {} ELSE pro

\* _use_git_build_root, and the project file a process finds: in an instance,
\* the one in the directory of the mount in which the command runs.
UseGitBuildRoot == AllowGitBuildRoot /\ Lookup(line.env, "monorepo") # None
ProjectFile(p) ==
  IF p = "inner" /\ WorkDir(project.git) #
       BuildRoot(project.git, UseGitBuildRoot) \o ManagedCwd(project.git, UseGitBuildRoot)
  THEN TopProject ELSE project

\* The snaps that ProviderService.setup() has installed in instances.
Snaps ==
  SetupSnaps(RequestedSnaps, line.snap.name, line.snap.channel, line.snap.hosted,
             Lookup(line.env, "on") \in {None, Host})
-----------------------------------------------------------------------------
(* ServiceFactory, project and plan as functions of what a process holds. *)

UpdateKwargs(r, service, pro) == [r EXCEPT !.kwargs[service] = pro]

\* A service is made once, with the keyword arguments known then.
Get(r, service) ==
  IF r.made[service] = Unmade THEN [r EXCEPT !.made[service] = r.kwargs[service]] ELSE r
GetWithSnaps(r) == [Get(r, "provider") EXCEPT !.snaps = Snaps]

\* BuildPlanService.plan(), which keeps a plan that is not empty.
Plan(p, r) ==
  IF r.plan # <<>> THEN r
  ELSE [r EXCEPT !.plan =
          CreateBuildPlan(r.raw.platforms, r.names, r.fors, {Machine(p)})]

SetPlatforms(r, name) == [r EXCEPT !.names = {name}, !.plan = <<>>]
SetBuildFors(r, target) == [r EXCEPT !.fors = {target}, !.plan = <<>>]

\* The plugins a group replaces; an application without a group for a build
\* leaves those that are set.
SetPluginGroup(r, build) ==
  IF Group(build) = None THEN r ELSE [r EXCEPT !.group = Group(build)]

\* LifecycleCommand._run(): filters from the command line or configuration.
\* The test command (outside) looks at its own --platform only, and clean
\* sets no filter.
Filtered(p, r) ==
  LET platform == IF line.cmd = "test" /\ p = "outer" THEN line.platform ELSE Platform(p)
      target == IF line.cmd = "test" /\ p = "outer" THEN None ELSE BuildFor(p)
      named == IF platform # None THEN SetPlatforms(r, platform) ELSE r
  IN IF line.cmd = "clean" THEN r
     ELSE IF target # None THEN SetBuildFors(named, target) ELSE named

\* ProjectService.get(): rendering fails also if Pro services known to the
\* project service meet a base of the very name "devel".
RenderError(r) ==
  IF RenderForError(r.raw, r.conf) # None THEN RenderForError(r.raw, r.conf)
  ELSE IF Wanted(r.made.project) # {} /\ "devel" \in {r.raw.base, r.raw.buildbase}
  THEN "InvalidUbuntuProBaseError" ELSE None

\* ProServices._validate_environment() with a subset of its options.
ValidateEnvironment(pro, options) ==
  IF "support" \in options /\ ~(pro \subseteq Supported) THEN "InvalidUbuntuProServiceError"
  ELSE IF host = None THEN IF pro # {} THEN "UbuntuProClientNotFoundError" ELSE None
  ELSE IF "attached" \in options /\ pro # {} /\ ~host.attached THEN "UbuntuProDetachedError"
  ELSE IF "detached" \in options /\ pro = {} /\ host.attached THEN "UbuntuProAttachedError"
  ELSE IF "enablement" \in options /\ ~(pro \subseteq host.enabled)
    THEN "InvalidUbuntuProStatusError"
  ELSE None

\* ProServices.check_pro_context(), called by _pro_precheck().  A process in
\* an instance does not run managed, so it checks nothing.
PrecheckError(p) ==
  IF Pro = None \/ Managed(p) \/ line.cmd = "test" THEN None
  ELSE IF UseProvider(p) THEN ValidateEnvironment(Pro, {"attached", "support"})
  ELSE ValidateEnvironment(Pro, {"support", "attached", "detached", "enablement"})

\* Mutant: only the base that is built on is looked at.
UnsupportedEffectiveBase(raw) == EffectiveBase(raw) \in EndOfLife

\* check_base_is_supported().  A development build base is not looked at, and
\* an unknown base passes.
UnsupportedBase(raw) ==
  \/ raw.base \in EndOfLife
  \/ raw.buildbase \notin {None} \cup Development /\ raw.buildbase \in EndOfLife

\* LifecycleCommand._check_supported_base(), which renders the project.  With
\* --ignore the base is only looked up for a message, and that fails for an
\* unknown base.
SupportedBaseError(p) ==
  LET r == proc[p]
  IN IF ~CheckSupportedBase \/ line.cmd = "clean" \/ (line.cmd = "test" /\ ~Managed(p))
     THEN None
     ELSE IF RenderError(r) # None THEN RenderError(r)
     ELSE IF line.ignore
       THEN IF EffectiveBase(r.raw) \in Unknown THEN "UnknownDistributionError" ELSE None
     ELSE IF r.raw.base = None THEN "RuntimeError"
     ELSE IF UnsupportedBase(r.raw) THEN "UnsupportedBase" ELSE None

\* TestCommand._run() reads spread.yaml before anything else.
SpreadError ==
  IF line.cmd # "test" THEN None
  ELSE IF project.spread = None THEN "NoSpreadFile"
  ELSE IF ~project.spread.valid THEN "TestFileError"
  ELSE None

\* What a command checks before it does anything, in this order.
CommandError(p) == FirstOf(<<SpreadError, PrecheckError(p), SupportedBaseError(p)>>)
-----------------------------------------------------------------------------
(* The commands, and how a process ends. *)

\* The commands of craft-application (of those in the model) and, by
\* _merge_defaults(), those of the application: hers come first by name.
\* A command is [name, by].
Default(name) == [name |-> name, by |-> "craft-application"]
DefaultGroups == [Lifecycle |-> <<Default("clean"), Default("pack")>>, Other |-> <<Default("init")>>]
MergeDefaults(own, defaults) ==
  LET Own(name) == SelectSeq(own, LAMBDA c : c.name = name)
  IN [i \in DOMAIN defaults |->
        IF Own(defaults[i].name) = <<>> THEN defaults[i] ELSE Last(Own(defaults[i].name))]
       \o SelectSeq(own, LAMBDA c : \A i \in DOMAIN defaults : defaults[i].name # c.name)
CommandGroups ==
  [g \in DOMAIN AppGroups \cup DOMAIN DefaultGroups |->
     CASE g \notin DOMAIN DefaultGroups -> AppGroups[g]
       [] g \notin DOMAIN AppGroups -> DefaultGroups[g]
       [] OTHER -> MergeDefaults(AppGroups[g], DefaultGroups[g])]
Offered == {c.name : c \in UNION {Range(CommandGroups[g]) : g \in DOMAIN CommandGroups}}

\* _get_dispatcher() may end the process: with help or the version, with a
\* usage error, or because the application is broken.
DispatchError ==
  IF line.args # None THEN line.args ELSE IF line.cmd \notin Offered THEN "usage" ELSE None

\* The exit code of each error: its own retcode, or that of an internal error
\* for one that is none of the application's.
Answers == {"help", "version"}
DataErrors == {"TestFileError", "UnsupportedBase", "PartNames"}
InternalErrors ==
  {"RuntimeError", "UnknownDistributionError", "FileNotFoundError", "ValueError", "broken"}
ReturnCode(error) ==
  CASE error \in Answers \cup {None} -> 0
    [] error = "KeyboardInterrupt" -> 130
    [] error = "usage" -> 64
    [] error \in {"IncompatibleBaseError", "NoSpreadFile"} -> 78
    [] error \in DataErrors -> 65
    [] error \in InternalErrors -> 70
    [] OTHER -> 1
ExitCode(p) == IF proc[p].error = None THEN proc[p].ret ELSE ReturnCode(proc[p].error)

\* A process that ended with an exception, and one that goes on.
Raise(p, r, error) ==
  proc' = [proc EXCEPT ![p] = [r EXCEPT !.pc = "ended", !.error = error]]
Continue(p, r, pc) == proc' = [proc EXCEPT ![p] = [r EXCEPT !.pc = pc]]

At(p, pc) == proc[p].pc = pc

\* The user runs a command.
Start ==
  /\ line = None
  /\ line' \in Lines(project)
  /\ proc' = [proc EXCEPT !["outer"] = Fresh]
  /\ UNCHANGED <<project, host, instance, queue, built, tested>>

\* The user edits the project file, at any time.
Edit ==
  /\ \E e \in Edits : project = e[1] /\ project' = e[2]
  /\ UNCHANGED <<host, line, instance, proc, queue, built, tested>>

\* Processes that ended take all they knew with them.
Exit ==
  /\ At("outer", "ended")
  /\ line' = None /\ proc' = [p \in Processes |-> Absent]
  /\ queue' = <<>> /\ built' = {} /\ tested' = {}
  /\ UNCHANGED <<project, host, instance>>

\* _configure_services()
ConfigureServices(r) == UpdateKwargs(r, "provider", Pro)

\* run() up to _run_inner(): early keyword arguments, and _set_plugin_group(),
\* which plans without filters and so makes the project service, which keeps
\* the project file as it is now.  An error here only means that no group is
\* set.
Boot(p) ==
  /\ At(p, "boot")
  /\ LET r == [Get(proc[p], "project") EXCEPT !.raw = ProjectFile(p)]
         planned == IF Valid(r.raw.platforms) THEN Plan(p, r) ELSE r
     IN Continue(p, IF planned.plan = <<>> THEN planned
                    ELSE SetPluginGroup(planned, Head(planned.plan)), "configure")
  /\ UNCHANGED <<project, host, line, instance, queue, built, tested>>

\* _run_inner() up to the command: the project is configured once, unless the
\* command does without, then the late keyword arguments are set.
Configure(p) ==
  /\ At(p, "configure")
  /\ LET r == Get(UpdateKwargs(proc[p], "project", Pro), "project")
         platforms == r.raw.platforms
         error == ConfigureError(platforms, Machine(p), Platform(p), BuildFor(p))
     IN IF DispatchError # None THEN Raise(p, proc[p], DispatchError)
        ELSE IF line.cmd = "lint" THEN Continue(p, ConfigureServices(proc[p]), "lint")
        ELSE IF error # None THEN Raise(p, r, error)
        ELSE LET conf == Configured(platforms, Machine(p), Platform(p), BuildFor(p))
             IN Continue(p, ConfigureServices([r EXCEPT !.conf = conf]), "command")
  /\ UNCHANGED <<project, host, line, instance, queue, built, tested>>

\* LinterService.run(): before packing, of the project, which is configured for
\* the host and rendered, or taken as it is if only adopted fields are missing;
\* after packing, of what is in the artifact.
LintContext(r) ==
  IF line.post # None THEN [project |-> None, artifact |-> line.post.entries]
  ELSE [project |-> r.raw, artifact |-> None]
LintError(r) ==
  LET conf == Configured(r.raw.platforms, Host, None, None)
      unconfigured == ConfigureError(r.raw.platforms, Host, None, None)
  IN IF line.post # None
     THEN CASE line.post.kind = "missing" -> "FileNotFoundError"
            [] line.post.kind = "other" -> "ValueError"
            [] OTHER -> None
     ELSE IF unconfigured # None THEN unconfigured
     ELSE IF RenderForError(r.raw, conf) # "AdoptInfo" THEN RenderForError(r.raw, conf)
     ELSE IF RawModelError(r.raw) THEN "CraftValidationError"
     ELSE None
Stage == IF line.post = None THEN "pre" ELSE "post"
Lint ==
  /\ At("outer", "lint")
  /\ LET r == proc["outer"]
         shown == RunLinters(Stage, LintContext(r), BuildIgnoreConfig(r.raw.ignores, line.rules))
     IN IF LintError(r) # None THEN Raise("outer", r, LintError(r))
        ELSE Continue("outer", [r EXCEPT !.shown = shown, !.ret = Summary(shown)], "ended")
  /\ UNCHANGED <<project, host, line, instance, queue, built, tested>>

\* A command that runs in instances: the plan is made once, and followed.
RunManagerForBuildPlan(p, filtered) ==
  LET r == Plan(p, GetWithSnaps(filtered))
  IN IF r.plan = <<>> THEN Raise(p, r, "EmptyBuildPlanError") /\ UNCHANGED queue
     ELSE Continue(p, r, "launch") /\ queue' = r.plan

\* Clean without parts is about whole instances.
CleansInstances == line.cmd = "clean" /\ ~line.parts

\* The command decides where it runs; the test command always runs managed.
Command(p) ==
  /\ At(p, "command")
  /\ IF CommandError(p) # None
     THEN Raise(p, proc[p], CommandError(p)) /\ UNCHANGED queue
     ELSE IF CleansInstances /\ UseProvider(p)
       THEN Continue(p, GetWithSnaps(proc[p]), "clean") /\ UNCHANGED queue
     ELSE IF UseProvider(p) \/ (line.cmd = "test" /\ ~Managed(p))
       THEN RunManagerForBuildPlan(p, Filtered(p, proc[p]))
     ELSE Continue(p, Filtered(p, proc[p]), "setup") /\ UNCHANGED queue
  /\ UNCHANGED <<project, host, line, instance, built, tested>>

\* ProviderService.clean_instances(): every build the host can do, whatever
\* the filters.
CleanInstances ==
  /\ At("outer", "clean")
  /\ LET plan == CreateBuildPlan(proc["outer"].raw.platforms, None, None, {Host})
         error == IF plan = <<>> \/ ProviderNameError # None THEN ProviderNameError
                  ELSE RenderError(proc["outer"])
     IN IF error # None
        THEN Raise("outer", proc["outer"], error) /\ UNCHANGED instance
        ELSE /\ instance' = [slot \in Slots |->
                   IF slot[1] = GetProvider /\ \E i \in DOMAIN plan : plan[i].platform = slot[2]
                   THEN None ELSE instance[slot]]
             /\ Continue("outer", proc["outer"], "ended")
  /\ UNCHANGED <<project, host, line, queue, built, tested>>

\* ProviderService.instance() and configure_instance_with_pro().  The services
\* are recorded in the instance after all of them are enabled; "left" is
\* history, those a launch enabled that failed.  There are instances of known
\* architectures only.
NewInstance == [recorded |-> {}, enabled |-> {}, left |-> {}]
InstanceName == <<GetProvider, Head(queue).platform>>
Launched == IF instance[InstanceName] = None THEN NewInstance ELSE instance[InstanceName]
SetInstance(state) == instance' = [instance EXCEPT ![InstanceName] = state]

\* Mutant: only a run that asks for services looks at those of the instance.
MismatchIfRequested(pro) == pro # {} /\ Launched.recorded # {} /\ Launched.recorded # pro

\* An instance with other services is refused; only LXD has them.
Mismatch(pro) == Launched.recorded # {} /\ Launched.recorded # pro
ProError(pro) ==
  IF Mismatch(pro) THEN "InvalidUbuntuProStatusError"
  ELSE IF pro # {} /\ GetProvider # "lxd" THEN "UbuntuProNotSupportedError"
  ELSE None

\* A machine can only be of an architecture there is; otherwise the provider fails.
Launch ==
  /\ At("outer", "launch")
  /\ LET r == proc["outer"]
         pro == Wanted(r.made.provider)
     IN IF RenderError(r) # None
        THEN Raise("outer", r, RenderError(r)) /\ UNCHANGED instance
        ELSE IF ProviderNameError # None
        THEN Raise("outer", r, ProviderNameError) /\ UNCHANGED instance
        ELSE IF ProError(pro) # None
        THEN Raise("outer", r, ProError(pro)) /\ SetInstance(Launched)
        ELSE /\ Machine("inner") \in Archs
             /\ SetInstance([Launched EXCEPT !.recorded = IF pro # {} THEN pro ELSE @,
                                              !.enabled = @ \cup pro])
             /\ proc' = [proc EXCEPT !["outer"].pc = "waiting", !["inner"] = Fresh]
  /\ UNCHANGED <<project, host, line, queue, built, tested>>

\* The provider fails, perhaps with some of the services enabled.
LaunchFails ==
  /\ At("outer", "launch")
  /\ RenderError(proc["outer"]) = None /\ ProviderNameError = None
  /\ \/ UNCHANGED instance
     \/ /\ ProError(Wanted(proc["outer"].made.provider)) = None
        /\ \E some \in SUBSET Wanted(proc["outer"].made.provider) :
              SetInstance([Launched EXCEPT !.enabled = @ \cup some, !.left = @ \cup some])
  /\ Raise("outer", proc["outer"], "ProviderError")
  /\ UNCHANGED <<project, host, line, queue, built, tested>>

\* Mutant: the exit code of the command in the instance is not checked.
CollectUnchecked ==
  /\ At("outer", "waiting") /\ At("inner", "ended")
  /\ IF line.cmd = "test"
     THEN Continue("outer", proc["outer"], "test") /\ UNCHANGED queue
     ELSE /\ queue' = Tail(queue)
          /\ Continue("outer", proc["outer"], IF Tail(queue) = <<>> THEN "ended" ELSE "launch")
  /\ UNCHANGED <<project, host, line, instance, built, tested>>

\* execute_run(check=True) returns.
Collect ==
  /\ At("outer", "waiting") /\ At("inner", "ended")
  /\ IF ExitCode("inner") # 0
     THEN Raise("outer", proc["outer"], "ProviderError") /\ UNCHANGED queue
     ELSE IF line.cmd = "test"
       THEN Continue("outer", proc["outer"], "test") /\ UNCHANGED queue
     ELSE /\ queue' = Tail(queue)
          /\ Continue("outer", proc["outer"], IF Tail(queue) = <<>> THEN "ended" ELSE "launch")
  /\ UNCHANGED <<project, host, line, instance, built, tested>>

\* The test command reads the state inner left and runs spread on the artifact.
Test ==
  /\ At("outer", "test")
  /\ \/ LET jobs == RunSpread(project.spread, line.expressions, line.ci)
        IN /\ jobs # {}
           /\ tested' = tested \cup {[platform |-> Head(queue).platform, jobs |-> jobs]}
           /\ queue' = Tail(queue)
           /\ Continue("outer", proc["outer"], IF Tail(queue) = <<>> THEN "ended" ELSE "launch")
     \/ Raise("outer", proc["outer"], "CraftError") /\ UNCHANGED <<queue, tested>>
  /\ UNCHANGED <<project, host, line, instance, built>>

\* LifecycleService._get_build_for(): the architecture craft-parts builds for.
GetBuildFor(p, r) ==
  IF r.plan = <<>> \/ Head(r.plan).for = "all" THEN Machine(p) ELSE Head(r.plan).for

\* LifecycleService.setup(): without a build for this machine any build does,
\* but with a plugin group the debug message asks for the plan again.
Setup(p) ==
  /\ At(p, "setup")
  /\ LET r == Plan(p, proc[p])
         build == IF r.plan # <<>> THEN Head(r.plan)
                  ELSE Head(CreateBuildPlan(r.raw.platforms, None, None, None))
         grouped == SetPluginGroup(r, build)
     IN IF Group(build) # None /\ r.plan = <<>> THEN Raise(p, r, "EmptyBuildPlanError")
        ELSE IF RenderError(r) # None THEN Raise(p, grouped, RenderError(r))
        ELSE Continue(p, [grouped EXCEPT !.arch = GetBuildFor(p, r),
                                         !.parts = ProcessPart(r.raw.part, r.conf)],
                      IF line.cmd = "clean" THEN "execute" ELSE "run")
  /\ UNCHANGED <<project, host, line, instance, queue, built, tested>>

\* AppService._build_info: exactly one build.
BuildInfoError(r) ==
  CASE Len(r.plan) = 0 -> "EmptyBuildPlanError"
    [] Len(r.plan) = 1 -> None
    [] OTHER -> "MultipleBuildsError"

\* _validate_build_plan(): the build is on its base; a development base is
\* any base of the distribution.
BaseError(p) ==
  IF EffectiveBase(proc[p].raw) \in {Base(p)} \cup Development THEN None ELSE "IncompatibleBaseError"

\* LifecycleService.run() up to the lifecycle itself.
Run(p) ==
  /\ At(p, "run")
  /\ LET r == Plan(p, proc[p])
     IN IF BuildInfoError(r) # None THEN Raise(p, r, BuildInfoError(r))
        ELSE IF BaseError(p) # None THEN Raise(p, r, BaseError(p))
        ELSE Continue(p, [r EXCEPT !.build = Head(r.plan)], "execute")
  /\ UNCHANGED <<project, host, line, instance, queue, built, tested>>

\* The lifecycle of the parts (and packing), or cleaning them.
Execute(p) ==
  /\ At(p, "execute")
  /\ \/ /\ Continue(p, proc[p], "ended")
        /\ built' = IF line.cmd = "clean" THEN built
                    ELSE built \cup {proc[p].build.platform}
     \/ Raise(p, proc[p], "PartsError") /\ UNCHANGED built
  /\ UNCHANGED <<project, host, line, instance, queue, tested>>

\* Mutant: the process in the instance goes on.
InterruptOuter ==
  /\ proc["outer"].pc \notin {"absent", "ended"}
  /\ Raise("outer", proc["outer"], "KeyboardInterrupt")
  /\ UNCHANGED <<project, host, line, instance, queue, built, tested>>

\* ^C ends both processes.
Interrupt ==
  /\ proc["outer"].pc \notin {"absent", "ended"}
  /\ proc' = [p \in Processes |->
       IF proc[p].pc \in {"absent", "ended"} THEN proc[p]
       ELSE [proc[p] EXCEPT !.pc = "ended", !.error = "KeyboardInterrupt"]]
  /\ UNCHANGED <<project, host, line, instance, queue, built, tested>>

Next ==
  \/ Start \/ Edit \/ Exit \/ Lint \/ CleanInstances \/ Launch \/ LaunchFails \/ Collect \/ Test \/ Interrupt
  \/ \E p \in Processes :
       Boot(p) \/ Configure(p) \/ Command(p) \/ Setup(p) \/ Run(p) \/ Execute(p)

Spec == Init /\ [][Next]_vars
-----------------------------------------------------------------------------
(* Properties. *)

PCs == {"absent", "boot", "configure", "command", "lint", "clean", "launch", "waiting", "test",
        "setup", "run", "execute", "ended"}
Builds == [platform : Names, on : Archs, for : Targets]

\* Types; inner is alive only while outer waits for it, and outer follows a
\* plan only while there is a build left in it.
TypeOK ==
  /\ \A p \in Processes :
       /\ proc[p].pc \in PCs
       /\ proc[p].arch \in Archs \cup {None}
       /\ proc[p].conf \in Builds \cup {None}
       /\ proc[p].build \in Builds \cup {None}
       /\ Range(proc[p].plan) \subseteq Builds
  /\ proc["inner"].pc \notin {"absent", "ended"} => At("outer", "waiting")
  /\ proc["outer"].pc \in {"launch", "waiting", "test"} => queue # <<>>
  /\ Range(queue) \subseteq Builds
  /\ built \subseteq Names /\ {t.platform : t \in tested} \subseteq built
  /\ \A slot \in Slots : instance[slot] # None =>
       instance[slot].recorded \subseteq instance[slot].enabled

\* The project file was edited after outer read it and before inner did.
Edited == proc["inner"].raw # proc["outer"].raw

\* The build that is executed, for the architecture craft-parts was set up for,
\* is the build the project was rendered for, and the one that was asked for:
\* in an instance by outer (whose plan it stands in), in destructive mode by
\* the user.  An edit of the project can change what the platform that outer
\* planned is for, but not which platform is built, and no other project is
\* built in its place.
RunsAsPlanned ==
  \A p \in Processes :
    proc[p].pc = "execute" /\ line.cmd # "clean" =>
      /\ proc[p].build = proc[p].conf
      /\ proc[p].arch = IF proc[p].conf.for = "all" THEN Machine(p) ELSE proc[p].conf.for
      /\ proc[p].build.platform = Platform(p) \/ Platform(p) = None
      /\ proc[p].build.for = BuildFor(p) \/ BuildFor(p) = None
      /\ p = "inner" => /\ proc[p].build.platform = Head(queue).platform
                        /\ Edited \/ proc[p].build.for = Head(queue).for
                        /\ Edited => <<proc["outer"].raw, proc[p].raw>> \in Edits

\* What outer planned is never refused inside, unless the user edited the
\* project or had the instance created on another architecture.
PlanErrors == {"EmptyBuildPlanError", "MultipleBuildsError", "InvalidPlatformError",
               "ProjectGenerationError", "InvalidPlatforms", "IncompatibleBaseError"}
PlanAccepted ==
  proc["inner"].error \in PlanErrors =>
    \/ Lookup(line.env, "on") \notin {None, Host}
    \/ <<proc["outer"].raw, proc["inner"].raw>> \in Edits

\* What is executed is what the build is for: with its plugin group if it has
\* one, and with the parts of the project as the grammar has them for it,
\* where merging loses nothing.
PartsOfBuild ==
  \A p \in Processes :
    LET r == proc[p]
    IN r.pc = "execute" /\ line.cmd # "clean" =>
         /\ Group(r.build) # None => r.group = Group(r.build)
         /\ \A key \in DOMAIN r.parts :
              LET selected == Selected(r.raw.part[key], r.build)
              IN IF key \in Lists THEN r.parts[key] = selected
                 ELSE IF key = "organize" /\ ForVariant(r.raw.part[key])
                 THEN \A i \in DOMAIN selected : \A f \in DOMAIN selected[i] :
                        r.parts[key][1][f] = selected[i][f]
                 ELSE selected # <<>> => r.parts[key] = <<Head(selected)>>

\* The exit code is 0 only if everything the user asked for was done: every
\* platform that can be built here and matches was built (and tested), or no
\* instance of such a platform is left.  (clean --platform removes others, too.)
\* The project is the one outer read.
Asked ==
  {n \in NamesOf(proc["outer"].raw) :
     LET p == Named(Platforms(proc["outer"].raw.platforms), n)
         target == IF line.cmd = "test" THEN None ELSE BuildFor("outer")
         platform == IF line.cmd = "test" THEN line.platform ELSE Platform("outer")
     IN Host \in Range(p.on) /\ platform \in {None, n} /\ target \in {None, p.for}}
ExitCodeHonest ==
  LET outer == proc["outer"]
  IN outer.pc = "ended" /\ ExitCode("outer") = 0 /\ outer.error \notin Answers =>
       CASE line.cmd = "pack" -> built = Asked /\ built # {}
         [] line.cmd = "test" -> built = Asked /\ {t.platform : t \in tested} = Asked /\ built # {}
         [] CleansInstances /\ UseProvider("outer") ->
              \A n \in NamesOf(outer.raw) :
                /\ line.platform \in {None, n}
                /\ Host \in Range(Named(Platforms(outer.raw.platforms), n).on)
                => instance[<<GetProvider, n>>] = None
         [] OTHER -> line.cmd \in Offered

\* A lint that was carried out shows every issue except those some rule of the
\* project or the user is about, in whatever order the rules stand.  It fails
\* if one that is shown is an error, and does not if they only inform; warnings
\* are left open (the code ignores them, the documentation says 1).
LintedAsAsked ==
  LET r == proc["outer"]
  IN r.pc = "ended" /\ r.error = None /\ line.cmd = "lint" =>
       /\ r.shown = {f \in Found(Stage, LintContext(r)) :
                       ~AskedToIgnore(f[1], f[2], r.raw.ignores, line.rules)}
       /\ (\E f \in r.shown : f[2].severity = Error) => r.ret # 0
       /\ (\A f \in r.shown : f[2].severity = Info) => r.ret = 0

\* The channel the application in an instance follows: the one the user set, or
\* that of the snap outside, if it is one from the store, or the stable one.
Follows ==
  LET outside == IF line.snap.name \in DOMAIN line.snap.hosted
                 THEN line.snap.hosted[line.snap.name].channel ELSE None
  IN IF line.snap.channel # None THEN line.snap.channel
     ELSE IF outside # None THEN outside ELSE "latest/stable"

\* The application in an instance is the one outside if that is a snap which
\* runs there, and otherwise the one of the channel it follows.  The base of a
\* snap from the host comes before it, and no snap comes twice.
SnapsInOrder ==
  At("outer", "waiting") =>
    LET snaps == proc["outer"].snaps
        hosted == line.snap.hosted
        same == /\ line.snap.name \in DOMAIN hosted
                /\ Lookup(line.env, "on") \in {None, Host}
    IN /\ \A i, j \in DOMAIN snaps : snaps[i].name = snaps[j].name => i = j
       /\ IF same THEN Injected(line.snap.name, hosted[line.snap.name].classic) \in Range(snaps)
          ELSE \E s \in Range(snaps) : s.name = "app" /\ s.channel = Follows
       /\ \A i \in DOMAIN snaps :
            /\ snaps[i].channel = None /\ snaps[i].name \in DOMAIN hosted
            /\ hosted[snaps[i].name].base \in DOMAIN hosted
            => \E j \in 1 .. i - 1 : snaps[j].name = hosted[snaps[i].name].base

\* What is tested is tested with all jobs that were asked for and no others: on
\* CI none that the machine itself cannot run, elsewhere none on the machine.
TestedAsAsked ==
  \A t \in tested :
    /\ t.jobs = AskedJobs(proc["outer"].raw.spread, line.expressions, line.ci) /\ t.jobs # {}
    /\ (\E j \in t.jobs : j.type = "ci") => line.ci # None

\* Nothing is built on or for a base that has reached its end of life unless
\* the user said so, whichever command starts the build and wherever it runs;
\* and what is given as the build base of one in development is a development
\* base.  Where none is given, the code has no check.
BasesOnPurpose ==
  \A p \in Processes :
    proc[p].pc = "execute" /\ line.cmd # "clean" =>
      LET raw == proc[p].raw
      IN /\ CheckSupportedBase /\ {raw.base, raw.buildbase} \cap EndOfLife # {} => line.ignore
         /\ raw.base \in InDevelopment => raw.buildbase \in {None} \cup Development

\* A build runs with exactly the Pro services the user named, whatever earlier
\* commands have enabled in the instance, except for those that a launch enabled
\* before it failed, of which there is no record.
ProAsRequested ==
  proc["inner"].pc \in {"setup", "run", "execute"} =>
    LET i == instance[InstanceName]
    IN i.recorded = Wanted(Pro) /\ i.enabled = Wanted(Pro) \cup i.left

\* util/pro_services.py: "Ensure no unsupported interim bases are used in Pro
\* builds."  Violated: the services never reach the project service, which would
\* look for "devel" under one of its names only.
ProBaseRejected ==
  ~ \E p \in Processes :
      /\ proc[p].pc = "execute" /\ Wanted(Pro) # {}
      /\ Development \cap {proc[p].raw.base, proc[p].raw.buildbase} # {}
=============================================================================
