----------------------------- MODULE RemoteBuild -----------------------------
(***************************************************************************)
(* The remote-build command and RemoteBuildService, with Launchpad as an   *)
(* external system.                                                        *)
(*                                                                         *)
(* A user runs the command again and again on one project directory.  All  *)
(* that a run leaves for the next one is on Launchpad: a git repository    *)
(* and a recipe, both named by the hash of the directory (the build id),   *)
(* and the builds of the recipe, which go on without anybody watching.     *)
(* The hash leaves names out, so that two contents may have one build id.  *)
(* The content includes the git repository of the project; what is pushed  *)
(* is the commit at the head of a copy of it.                              *)
(* Launchpad changes between any two requests, every request can fail, and *)
(* the user can interrupt a run, or kill it, at any time.                  *)
(***************************************************************************)
CONSTANTS
  Contents,  \* contents of the project directory, its .git included
  Hash,      \* Hash[c]: the build id of a content
  Git,       \* Git[c]: the GitType of the repository in it
  Head,      \* Head[c]: the files at its head, or "unborn"
  Work,      \* Work[c]: the files of the working tree that git does not ignore
  Jobs,      \* the builds Launchpad makes of one request
  Arch,      \* Arch[j]: Build.arch_tag (one per base and architecture exist)
  Name       \* Name[j]: the name of the file a build makes

ASSUME RemoteAssumption ==
  /\ Jobs # {} /\ DOMAIN Arch = Jobs /\ DOMAIN Name = Jobs
  /\ DOMAIN Hash = Contents /\ DOMAIN Head = Contents /\ DOMAIN Work = Contents
  /\ Git \in [Contents -> {"invalid", "normal", "shallow"}]
  /\ \A c \in Contents : Contents \ {c} # {}
  /\ \A c \in Contents : Work[c] \notin {"none", "empty", "unborn"}

VARIABLES
  \* Launchpad
  repo,      \* repo[i]: "none", "empty" or the files that were pushed last
  recipe,    \* recipe[i]: a recipe of this name exists
  request,   \* request[i]: its build request
  job,       \* job[i][j]: the state of a build
  \* the machine of the user
  dir,       \* the content of the project directory
  pc,
  tree,      \* WorkTree: the repository that this run is to push, or None
  id,        \* RemoteBuildService._name
  deadline,  \* RemoteBuildService._deadline: "none", "ahead" or "passed"
  builds,    \* RemoteBuildService._builds
  shown,     \* the builds whose state _get_build_states keeps, one for an arch
  seen,      \* seen[j]: the state of a build as of its last refresh
  \* history
  fetched,   \* the builds whose results this run has put into the directory
  refused,   \* those whose download gave an error page, saved in their place
  timedout,  \* the last run ended with a timeout, and there is no other yet
  edited     \* the user changed the directory since the last run started

launchpad == <<repo, recipe, request, job>>
memory == <<tree, id, deadline, builds, shown, seen>>
history == <<fetched, refused, timedout, edited>>
vars == <<launchpad, dir, pc, memory, history>>

\* get_build_id: the hash of what the files hold, not of what they are called.
BuildId(content) == Hash[content]
Ids == {BuildId(c) : c \in Contents}

\* The Launchpad states that are neither stopped nor being cancelled are
\* "active"; a failed, superseded or cancelled build is "failed".
JobStates == {"none", "active", "cancelling", "success", "failed"}
PCs == {"idle", "check", "copy", "repository", "push", "drop", "recipe", "request", "await", "find",
        "monitor", "artifacts", "logs", "ask", "cancel", "delete", "delete cancelled",
        "delete repository"}
None == [head |-> "none"]
NoJobs == [j \in Jobs |-> "none"]

IsStopped(state) == state \in {"success", "failed"}
IsStoppingOrStopped(state) == state = "cancelling" \/ IsStopped(state)

\* A request that is not answered yet, or a build nobody asked to stop.
Ongoing(i) ==
  request[i] = "pending" \/ \E j \in Jobs : job[i][j] = "active"
-----------------------------------------------------------------------------
Init ==
  /\ repo = [i \in Ids |-> "none"]
  /\ recipe = [i \in Ids |-> FALSE]
  /\ request = [i \in Ids |-> "none"]
  /\ job = [i \in Ids |-> NoJobs]
  /\ dir \in Contents /\ tree = None
  /\ pc = "idle" /\ id = BuildId(dir)
  /\ deadline = "none" /\ builds = {} /\ shown = {} /\ seen = NoJobs
  /\ fetched = {} /\ refused = {} /\ timedout = FALSE /\ edited = FALSE
-----------------------------------------------------------------------------
(* Launchpad. *)

AnswerRequest(i) ==
  /\ request[i] = "pending"
  /\ \/ /\ request' = [request EXCEPT ![i] = "completed"]
        /\ job' = [job EXCEPT ![i] = [j \in Jobs |-> "active"]]
     \/ /\ request' = [request EXCEPT ![i] = "failed"]
        /\ UNCHANGED job
  /\ UNCHANGED <<repo, recipe, dir, pc, memory, history>>

\* A build ends, or is cancelled by its owner on the web site.
BuildMoves(i, j) ==
  /\ \/ job[i][j] = "active" /\ job' = [job EXCEPT ![i][j] = "success"]
     \/ job[i][j] = "active" /\ job' = [job EXCEPT ![i][j] = "cancelling"]
     \/ job[i][j] \in {"active", "cancelling"} /\ job' = [job EXCEPT ![i][j] = "failed"]
  /\ UNCHANGED <<repo, recipe, request, dir, pc, memory, history>>

\* Mutant: the builds of a deleted recipe are still known by its name.
DeleteRecipeOnly(i) ==
  /\ recipe' = [recipe EXCEPT ![i] = FALSE]
  /\ UNCHANGED <<repo, request, job>>

\* Deleting a recipe deletes its builds.
DeleteRecipe(i) ==
  /\ recipe' = [recipe EXCEPT ![i] = FALSE]
  /\ request' = [request EXCEPT ![i] = "none"]
  /\ job' = [job EXCEPT ![i] = NoJobs]
  /\ UNCHANGED repo
-----------------------------------------------------------------------------
(* The user. *)

Edit ==
  /\ dir' \in Contents \ {dir}
  /\ edited' = TRUE
  /\ UNCHANGED <<launchpad, pc, memory, fetched, refused, timedout>>

\* remote-build [--recover] [--launchpad-timeout]: the options, and the hash.
Run(recover, timeout) ==
  /\ pc = "idle"
  /\ pc' = IF recover THEN "find" ELSE "check"
  /\ id' = BuildId(dir)
  /\ deadline' = IF timeout THEN "ahead" ELSE "none"
  /\ builds' = {} /\ shown' = {} /\ seen' = NoJobs
  /\ fetched' = {} /\ refused' = {} /\ edited' = FALSE /\ timedout' = FALSE
  /\ UNCHANGED <<launchpad, dir, tree>>

DeadlinePasses ==
  /\ pc # "idle" /\ deadline = "ahead"
  /\ deadline' = "passed"
  /\ UNCHANGED <<launchpad, dir, pc, tree, id, builds, shown, seen, history>>

\* The run is over and the process is gone; what it held goes with it.
End(how) ==
  /\ pc' = "idle" /\ timedout' = (how = "timeout")
  /\ tree' = None /\ deadline' = "none" /\ builds' = {} /\ shown' = {} /\ seen' = NoJobs
  /\ fetched' = {} /\ refused' = {}
  /\ UNCHANGED <<id, edited>>

Go(next) == pc' = next
-----------------------------------------------------------------------------
(* RemoteBuildService.start_builds. *)

\* check_git_repo_for_remote_build(), and the build id of what is there now.
CheckGitRepo ==
  /\ pc = "check"
  /\ IF Git[dir] # "normal" THEN End("error")
     ELSE Go("copy") /\ id' = BuildId(dir)
          /\ UNCHANGED <<tree, deadline, builds, shown, seen, history>>
  /\ UNCHANGED <<launchpad, dir>>

\* GitRepo(): a directory without a repository gets one.
GitRepo(c) ==
  [head |-> IF Git[c] = "invalid" THEN "unborn" ELSE Head[c], files |-> Work[c],
   shallow |-> Git[c] = "shallow"]

IsClean(r) == r.head = r.files

\* add_all() and commit(): a file that is ignored is not added.
CommitAll(r) == [r EXCEPT !.head = r.files]

\* Mutant: only a repository without a commit gets one.
GitifyUnborn(r) == IF r.head = "unborn" THEN CommitAll(r) ELSE r

\* _gitify_repository()
Gitify(r) == IF IsClean(r) THEN r ELSE CommitAll(r)

\* WorkTree.init_repo: the directory may have changed since it was hashed, and
\* since it was checked.
InitRepo ==
  /\ pc = "copy"
  /\ tree' = Gitify(GitRepo(dir))
  /\ Go("repository")
  /\ UNCHANGED <<launchpad, dir, id, deadline, builds, shown, seen, history>>

\* Launchpad.new_repository; a name that is taken is refused.
NewRepository(i) == repo[i] = "none" /\ repo' = [repo EXCEPT ![i] = "empty"]

\* Launchpad.get_repository
GetRepository(i) == repo[i] # "none" /\ UNCHANGED repo

\* A repository of this name that exists already is taken as it is.
EnsureRepository ==
  /\ pc = "repository"
  /\ NewRepository(id) \/ GetRepository(id)
  /\ Go("push")
  /\ UNCHANGED <<recipe, request, job, dir, memory, history>>

\* GitRepo.push_url: what the head refers to, forced, whatever was pushed to this
\* repository before; git refuses to push the history of a shallow clone.
PushUrl(i) == ~tree.shallow /\ repo' = [repo EXCEPT ![i] = tree.head]

Push ==
  /\ pc = "push"
  /\ \/ /\ PushUrl(id)
        /\ tree' = None   \* the copy in the cache is not read again
        /\ Go("drop")
        /\ UNCHANGED <<id, deadline, builds, shown, seen, history>>
     \/ tree.shallow /\ End("error") /\ UNCHANGED repo   \* RemoteBuildGitError
  /\ UNCHANGED <<recipe, request, job, dir>>

\* Launchpad.get_recipe
GetRecipe(i) == recipe[i] /\ UNCHANGED recipe

\* _ensure_recipe: an existing recipe of this name is deleted first.
DropRecipe ==
  /\ pc = "drop"
  /\ IF recipe[id] THEN DeleteRecipe(id) ELSE UNCHANGED launchpad
  /\ Go("recipe")
  /\ UNCHANGED <<dir, memory, history>>

\* SnapRecipe.new
MakeRecipe(i) == recipe' = [recipe EXCEPT ![i] = TRUE]

NewRecipe ==
  /\ pc = "recipe"
  /\ MakeRecipe(id)
  /\ IF deadline = "passed"
     THEN End("error")   \* the TimeoutError of _check_timeout is not handled
     ELSE Go("request") /\ UNCHANGED <<memory, history>>
  /\ UNCHANGED <<repo, request, job, dir>>

\* BaseRecipe._build
RequestBuilds ==
  /\ pc = "request"
  /\ request' = [request EXCEPT ![id] = "pending"]
  /\ Go("await")
  /\ UNCHANGED <<repo, recipe, job, dir, memory, history>>

\* The list the service holds has an order, and the last build of an
\* architecture gives its entry of the dictionary of states.
Hold(js) ==
  /\ builds' = js
  /\ seen' = [j \in Jobs |-> IF j \in js THEN job[id][j] ELSE "none"]
  /\ shown' \in {s \in SUBSET js : /\ {Arch[j] : j \in s} = {Arch[j] : j \in js}
                                   /\ \A j, k \in s : Arch[j] = Arch[k] => j = k}
  /\ UNCHANGED <<tree, id, deadline>>

\* Mutant: the deadline is only looked at while monitoring.
AwaitRequestForever ==
  /\ pc = "await"
  /\ \/ request[id] = "completed" /\ Hold(Jobs) /\ Go("monitor") /\ UNCHANGED history
     \/ request[id] = "failed" /\ End("error")
  /\ UNCHANGED <<launchpad, dir>>

AwaitRequest ==
  /\ pc = "await"
  /\ \/ request[id] = "completed" /\ Hold(Jobs) /\ Go("monitor") /\ UNCHANGED history
     \/ request[id] = "failed" /\ End("error")
     \/ request[id] = "pending" /\ deadline = "passed" /\ End("error")
  /\ UNCHANGED <<launchpad, dir>>

\* Mutant: only the builds that go on are resumed.
ResumeActive ==
  /\ pc = "find"
  /\ \/ /\ GetRepository(id) /\ GetRecipe(id)
        /\ Hold({j \in Jobs : job[id][j] = "active"})
        /\ Go("monitor") /\ UNCHANGED history
     \/ End("error")
  /\ UNCHANGED <<launchpad, dir>>

\* resume_builds: the repository (which Launchpad may not find by this name),
\* the recipe and the builds it has by now.
Resume ==
  /\ pc = "find"
  /\ \/ /\ GetRepository(id) /\ GetRecipe(id)
        /\ Hold({j \in Jobs : job[id][j] # "none"})
        /\ Go("monitor") /\ UNCHANGED history
     \/ End("error")
  /\ UNCHANGED <<launchpad, dir>>
-----------------------------------------------------------------------------
(* RemoteBuild._monitor_and_complete. *)

\* Mutant: monitoring ends with the first build that stops.
PollAny ==
  /\ pc = "monitor" /\ deadline # "passed"
  /\ seen' = [j \in Jobs |-> IF j \in builds THEN job[id][j] ELSE "none"]
  /\ IF \E j \in shown : IsStoppingOrStopped(seen'[j])
     THEN Go("artifacts") ELSE Go("monitor")
  /\ UNCHANGED <<launchpad, dir, tree, id, deadline, builds, shown, history>>

\* One turn of monitor_builds before the deadline.
Poll ==
  /\ pc = "monitor" /\ deadline # "passed"
  /\ seen' = [j \in Jobs |-> IF j \in builds THEN job[id][j] ELSE "none"]
  /\ IF \A j \in shown : IsStoppingOrStopped(seen'[j])
     THEN Go("artifacts") ELSE Go("monitor")
  /\ UNCHANGED <<launchpad, dir, tree, id, deadline, builds, shown, history>>

\* Mutant: a timeout cleans up.
TimeOutCleaning ==
  /\ pc = "monitor" /\ deadline = "passed"
  /\ DeleteRecipe(id)
  /\ End("timeout")
  /\ UNCHANGED dir

TimeOut ==
  /\ pc = "monitor" /\ deadline = "passed"
  /\ End("timeout")
  /\ UNCHANGED <<launchpad, dir>>

\* Files are downloaded into the working directory, which changes with them:
\* all of them, or some if the download is interrupted or fails.
Download(files, next) ==
  /\ Go(next)
  /\ IF files = {} THEN dir' = dir ELSE dir' \in Contents \ {dir}

CutShort(files) ==
  /\ files # {} /\ dir' \in Contents
  /\ \/ Go("ask") /\ UNCHANGED <<memory, history>>
     \/ End("error")

\* The results that are in the directory after files were saved: of those that
\* have one name at most one, because all are written to it.
Survivors(files) ==
  {s \in SUBSET files : \A j \in files :
     LET rivals == {k \in files \ {j} : Name[k] = Name[j]}
     IN  IF j \in s THEN s \cap rivals = {} ELSE rivals # {}}

\* download_chunks saves the body of whatever answer it gets: an error page is
\* an artifact to it.
FetchArtifacts ==
  /\ pc = "artifacts"
  /\ LET ready == {j \in builds : job[id][j] = "success"}
     IN  \/ /\ Download(ready, "logs")
            /\ refused' \in SUBSET ready
            /\ \E s \in Survivors(ready) : fetched' = s \ refused'
            /\ UNCHANGED <<memory, timedout, edited>>
         \/ CutShort(ready)
  /\ UNCHANGED launchpad

\* The log of a build is known from its last refresh.
FetchLogs ==
  /\ pc = "logs"
  /\ LET logged == {j \in builds : IsStopped(seen[j])}
     IN  \/ Download(logged, "delete") /\ UNCHANGED <<memory, history>>
         \/ CutShort(logged)
  /\ UNCHANGED launchpad
-----------------------------------------------------------------------------
(* The end of RemoteBuild._run. *)

\* Launchpad refuses to cancel a build that is not active; Build.cancel lets
\* that pass if the state it last saw was stopped.
Refused(j) == job[id][j] # "active" /\ ~IsStoppingOrStopped(seen[j])

\* KeyboardInterrupt while monitoring.
Interrupt ==
  /\ pc \in {"monitor", "artifacts", "logs"}
  /\ Go("ask")
  /\ UNCHANGED <<launchpad, dir, memory, history>>

\* Mutant: cleaning up also when the user declines.
ConfirmCleaning ==
  /\ pc = "ask"
  /\ \E next \in {"cancel", "delete"} : Go(next)
  /\ UNCHANGED <<launchpad, dir, memory, history>>

\* "Cancel builds?"
Confirm ==
  /\ pc = "ask"
  /\ \/ Go("cancel") /\ UNCHANGED <<memory, history>>
     \/ End("declined")
  /\ UNCHANGED <<launchpad, dir>>

\* Every build is asked to stop, unless something fails on the way.
CancelBuilds ==
  /\ pc = "cancel"
  /\ \E asked \in SUBSET builds :
       /\ \E to \in {"cancelling", "failed"} :
            job' = [job EXCEPT ![id] = [j \in Jobs |->
                      IF j \in asked /\ @[j] = "active" THEN to ELSE @[j]]]
       /\ IF asked = builds /\ ~\E j \in asked : Refused(j)
          THEN Go("delete cancelled") /\ UNCHANGED <<memory, history>>
          ELSE End("error")
  /\ UNCHANGED <<repo, recipe, request, dir>>

\* cleanup: the recipe, then the repository.
CleanRecipe ==
  /\ pc \in {"delete", "delete cancelled"}
  /\ DeleteRecipe(id)
  /\ Go("delete repository")
  /\ UNCHANGED <<dir, memory, history>>

CleanRepository ==
  /\ pc = "delete repository"
  /\ repo' = [repo EXCEPT ![id] = "none"]
  /\ End("done")
  /\ UNCHANGED <<recipe, request, job, dir>>

\* Any step raises, or the process is killed.
Fail ==
  /\ pc # "idle"
  /\ End("error")
  /\ UNCHANGED <<launchpad, dir>>
-----------------------------------------------------------------------------
Start ==
  \/ CheckGitRepo \/ InitRepo \/ EnsureRepository \/ Push
  \/ DropRecipe \/ NewRecipe \/ RequestBuilds \/ AwaitRequest
Complete == Poll \/ TimeOut \/ FetchArtifacts \/ FetchLogs
Close == Confirm \/ CancelBuilds \/ CleanRecipe \/ CleanRepository
Program == Start \/ Resume \/ Complete \/ Close

Launchpad ==
  \E i \in Ids : AnswerRequest(i) \/ \E j \in Jobs : BuildMoves(i, j)

User == Edit \/ Interrupt \/ \E r, t \in BOOLEAN : Run(r, t)

Next == Program \/ Launchpad \/ User \/ DeadlinePasses \/ Fail

\* The process goes on and time passes; Launchpad may never answer.
Spec == Init /\ [][Next]_vars /\ WF_vars(Program) /\ WF_vars(DeadlinePasses)

\* The build farm works off what it was asked for.
FarmWorks == WF_vars(Launchpad)
-----------------------------------------------------------------------------
\* Every variable stays in its type, and what Launchpad has of a build hangs
\* together: no builds without a recipe.
TypeOK ==
  /\ repo \in [Ids -> {Work[c] : c \in Contents} \cup {"none", "empty"}]
  /\ recipe \in [Ids -> BOOLEAN]
  /\ request \in [Ids -> {"none", "pending", "completed", "failed"}]
  /\ job \in [Ids -> [Jobs -> JobStates]]
  /\ \A i \in Ids : recipe[i] \/ (request[i] = "none" /\ job[i] = NoJobs)
  /\ dir \in Contents /\ tree \in {None} \cup {CommitAll(GitRepo(c)) : c \in Contents} /\ id \in Ids /\ pc \in PCs
  /\ deadline \in {"none", "ahead", "passed"}
  /\ builds \subseteq Jobs /\ shown \subseteq builds /\ seen \in [Jobs -> JobStates]
  /\ fetched \subseteq builds /\ refused \subseteq builds /\ {timedout, edited} \subseteq BOOLEAN

\* RemoteBuildService.monitor_builds returns only when no build that was asked
\* for goes on, if it has found any to monitor.
ReturnsWhenStopped ==
  [][pc = "monitor" /\ pc' = "artifacts" /\ builds # {} => ~Ongoing(id)]_vars

\* Cleaning up after a run that had builds and was not cancelled removes no
\* result that this run did not put into the directory first, unless Launchpad
\* answered with an error page, or two builds made files of one name.
ResultsAreKept ==
  [][pc = "delete" /\ pc' = "delete repository" /\ builds # {} =>
       \A j \in Jobs : job[id][j] = "success" =>
         \/ j \in fetched \/ j \in refused
         \/ \E k \in Jobs \ {j} : Name[k] = Name[j]]_vars

\* Only a run of its own build id removes a build that goes on: by starting
\* anew, or because the user asked to cancel it.
RemovedOnPurpose ==
  [][\A i \in Ids :
       Ongoing(i) /\ recipe[i] /\ ~recipe'[i] =>
         i = id /\ (pc = "drop" \/ pc = "delete cancelled")]_vars

\* The same, but for a recovery that found no builds: the request was pending
\* then, and cleaning up removes it or what came of it.
OnlyOnPurpose ==
  [][\A i \in Ids :
       Ongoing(i) /\ recipe[i] /\ ~recipe'[i] =>
         /\ i = id
         /\ pc = "drop" \/ pc = "delete cancelled" \/ builds = {}]_vars

\* After a timeout recipe and builds are still on Launchpad under the build id that
\* remote-build --recover will look for, unless the user edits the project.
TimeoutIsRecoverable ==
  pc = "idle" /\ timedout /\ ~edited =>
    BuildId(dir) = id /\ repo[id] \notin {"none", "empty"} /\ recipe[id]

\* What Launchpad is asked to build is what the directory holds, committed or
\* not, but for what git ignores, whatever earlier runs have left under this
\* build id, unless the user edits it.
BuildsWhatIsThere == pc \in {"request", "await"} /\ ~edited => repo[id] = Work[dir]

\* With a timeout a run ends whatever Launchpad does, or does not do; without
\* one it ends if the build farm works.
RunEnds ==
  /\ pc # "idle" /\ deadline # "none" ~> pc = "idle"
  /\ FarmWorks => (pc # "idle" ~> pc = "idle")
=============================================================================
