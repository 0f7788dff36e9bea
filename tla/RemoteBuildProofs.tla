-------------------------- MODULE RemoteBuildProofs --------------------------
(***************************************************************************)
(* Proofs about RemoteBuild: what Launchpad builds, what a timeout leaves  *)
(* behind, and what a run takes away, for any contents of the directory,   *)
(* any hash of them and any set of builds.                                 *)
(*                                                                         *)
(* None of the properties is inductive.  The run holds a name and a list   *)
(* and looks at Launchpad through them, so that what it may do depends on  *)
(* how both sides agree at every point of the run: the parts of the        *)
(* invariant say so, first for Launchpad alone, then for the run.          *)
(***************************************************************************)
EXTENDS RemoteBuild, TLAPS

\* There is one build for an architecture, as of a snap with a single base.  Only
\* then does the list of states say how every build is doing.
OneBuildEach == \A j, k \in Jobs : Arch[j] = Arch[k] => j = k

\* What Launchpad has of a build id hangs together: a recipe has a repository
\* with something in it, and there are builds just when a request was granted.
Farm ==
  \A i \in Ids :
    /\ recipe[i] => repo[i] \notin {"none", "empty"}
    /\ request[i] = "completed" => \A j \in Jobs : job[i][j] # "none"
    /\ request[i] # "completed" => job[i] = NoJobs

Beginning == {"check", "copy", "repository", "push", "drop", "recipe", "request", "await", "find"}
Ending == {"monitor", "artifacts", "logs", "ask", "cancel", "delete", "delete cancelled"}

\* A run that has not got to its builds holds none, and has downloaded nothing.
Empty == pc \in Beginning \cup {"idle"} => builds = {} /\ fetched = {} /\ refused = {}

\* Until the first download only the user changes the directory; a run that
\* timed out has downloaded nothing.
Named ==
  pc \in Beginning \cup {"monitor"} \/ (pc = "idle" /\ timedout) =>
    edited \/ BuildId(dir) = id

\* The copy that is pushed is one of a directory, with everything committed.
Copied ==
  pc \in {"repository", "push"} =>
    /\ tree # None
    /\ edited \/ tree = CommitAll(GitRepo(dir))

\* Launchpad has what was pushed.
Pushed ==
  pc \in {"drop", "recipe", "request", "await"} =>
    /\ repo[id] \notin {"none", "empty"}
    /\ edited \/ repo[id] = Work[dir]

\* Where the run knows whether there is a recipe of its name.
Listed ==
  /\ pc \in {"recipe", "delete repository"} => ~recipe[id]
  /\ pc \in {"request", "await"} \cup Ending \/ (pc = "idle" /\ timedout) => recipe[id]
  /\ pc = "request" => request[id] = "none"

\* The builds the run holds are all there are of a request that was granted.
Held == pc \in Ending /\ builds # {} => builds = Jobs /\ request[id] = "completed"

\* An architecture that has builds has one of them in the list of states.
Shown == {Arch[j] : j \in shown} = {Arch[j] : j \in builds}

\* The result of a build is in the directory, an error page is, or another build
\* has a file of the same name, so that either may be.
Handled(j) ==
  j \in fetched \/ j \in refused \/ \E k \in Jobs \ {j} : Name[k] = Name[j]

\* Once monitoring is over no build goes on; none has ended well since then, so
\* that what was downloaded stays all there is to download.
Stopped ==
  OneBuildEach =>
    /\ pc \in {"artifacts", "logs", "delete"} => \A j \in builds : job[id][j] # "active"
    /\ pc \in {"logs", "delete"} =>
         \A j \in builds : job[id][j] = "success" => Handled(j)

Course == Empty /\ Named /\ Copied /\ Pushed /\ Listed /\ Held /\ Shown /\ Stopped

\* The inductive invariant.
RemoteInv == TypeOK /\ Farm /\ Course
-----------------------------------------------------------------------------
\* The disjuncts of Next in the form the proofs below go through.
LEMMA NextCases ==
  ASSUME [Next]_vars
  PROVE  \/ \E i \in Ids : AnswerRequest(i) \/ \E j \in Jobs : BuildMoves(i, j)
         \/ Edit \/ Interrupt \/ DeadlinePasses \/ Fail
         \/ \E r, t \in BOOLEAN : Run(r, t)
         \/ CheckGitRepo \/ InitRepo \/ EnsureRepository \/ Push
         \/ DropRecipe \/ NewRecipe \/ RequestBuilds \/ AwaitRequest \/ Resume
         \/ Poll \/ TimeOut \/ FetchArtifacts \/ FetchLogs
         \/ Confirm \/ CancelBuilds \/ CleanRecipe \/ CleanRepository
         \/ UNCHANGED vars
BY DEF Next, Program, Start, Complete, Close, Launchpad, User

\* _gitify_repository leaves everything committed, and what is pushed of it is
\* what the directory holds.
LEMMA Gitified ==
  ASSUME NEW c \in Contents
  PROVE  /\ Gitify(GitRepo(c)) = CommitAll(GitRepo(c))
         /\ CommitAll(GitRepo(c)).head = Work[c]
         /\ CommitAll(GitRepo(c)) # None
         /\ Work[c] \notin {"none", "empty", "unborn"}
<1> DEFINE r == GitRepo(c)
<1>1. r = [head |-> IF Git[c] = "invalid" THEN "unborn" ELSE Head[c], files |-> Work[c],
           shallow |-> Git[c] = "shallow"]
  BY DEF GitRepo
<1>2. CommitAll(r) = [head |-> Work[c], files |-> Work[c], shallow |-> Git[c] = "shallow"]
  BY <1>1 DEF CommitAll
<1>3. IsClean(r) => CommitAll(r) = r
  BY <1>1, <1>2 DEF IsClean
<1>4. Work[c] \notin {"none", "empty", "unborn"}
  BY RemoteAssumption
<1>. QED
  BY <1>2, <1>3, <1>4 DEF Gitify, None

\* The parts of the type invariant: what Launchpad has, and the rest.
FarmTypes ==
  /\ repo \in [Ids -> {Work[c] : c \in Contents} \cup {"none", "empty"}]
  /\ recipe \in [Ids -> BOOLEAN]
  /\ request \in [Ids -> {"none", "pending", "completed", "failed"}]
  /\ job \in [Ids -> [Jobs -> JobStates]]
  /\ \A i \in Ids : recipe[i] \/ (request[i] = "none" /\ job[i] = NoJobs)
RunTypes ==
  /\ dir \in Contents /\ id \in Ids /\ pc \in PCs
  /\ tree \in {None} \cup {CommitAll(GitRepo(c)) : c \in Contents}
  /\ deadline \in {"none", "ahead", "passed"}
  /\ builds \subseteq Jobs /\ shown \subseteq builds /\ seen \in [Jobs -> JobStates]
  /\ fetched \subseteq builds /\ refused \subseteq builds /\ {timedout, edited} \subseteq BOOLEAN

LEMMA Types ==
  /\ TypeOK <=> FarmTypes /\ RunTypes
  /\ TypeOK' <=> FarmTypes' /\ RunTypes'
BY DEF TypeOK, FarmTypes, RunTypes

\* Every content has a build id.
LEMMA IdTypes == \A c \in Contents : BuildId(c) \in Ids
BY DEF Ids

\* Nothing is known of a build that does not exist.
LEMMA NoJobFacts == NoJobs \in [Jobs -> JobStates] /\ \A j \in Jobs : NoJobs[j] = "none"
BY DEF NoJobs, JobStates

-----------------------------------------------------------------------------
(* Launchpad and the user. *)

\* Launchpad changes what it has, and takes nothing that the run relies on.
LEMMA FarmStep ==
  ASSUME RemoteInv, NEW i \in Ids, AnswerRequest(i) \/ \E j \in Jobs : BuildMoves(i, j)
  PROVE  RemoteInv'
<1>0. FarmTypes /\ RunTypes /\ Farm /\ Course
  BY Types DEF RemoteInv
<1>u. UNCHANGED <<repo, recipe, dir, pc, memory, history>>
  BY DEF AnswerRequest, BuildMoves
<1>1. ASSUME AnswerRequest(i) PROVE FarmTypes' /\ Farm'
  <2>1. request[i] = "pending" /\ recipe[i] /\ job[i] = NoJobs
    BY <1>0, <1>1 DEF AnswerRequest, Farm, FarmTypes
  <2>2. CASE /\ request' = [request EXCEPT ![i] = "completed"]
             /\ job' = [job EXCEPT ![i] = [j \in Jobs |-> "active"]]
    BY <1>0, <1>u, <2>1, <2>2 DEF Farm, FarmTypes, JobStates
  <2>3. CASE request' = [request EXCEPT ![i] = "failed"] /\ UNCHANGED job
    BY <1>0, <1>u, <2>1, <2>3 DEF Farm, FarmTypes
  <2>. QED
    BY <1>1, <2>2, <2>3 DEF AnswerRequest
<1>2. ASSUME NEW j \in Jobs, BuildMoves(i, j) PROVE FarmTypes' /\ Farm'
  <2>1. job[i][j] \in {"active", "cancelling"} /\ UNCHANGED request
        /\ \E to \in {"success", "cancelling", "failed"} : job' = [job EXCEPT ![i][j] = to]
    BY <1>2 DEF BuildMoves
  <2>2. job[i] # NoJobs
    BY <2>1, NoJobFacts
  <2>3. request[i] = "completed" /\ recipe[i]
    BY <1>0, <2>2 DEF Farm, FarmTypes
  <2>. QED
    BY <1>0, <1>u, <2>1, <2>3 DEF Farm, FarmTypes, JobStates
<1>3. RunTypes'
  BY <1>0, <1>u DEF RunTypes, memory, history
<1>4. Empty' /\ Named' /\ Copied' /\ Pushed' /\ Shown'
  BY <1>0, <1>u DEF Course, Empty, Named, Copied, Pushed, Shown, memory, history
<1>5. Listed' /\ Held'
  <2>1. \A k \in Ids : request[k] \in {"none", "completed"} => request'[k] = request[k]
    BY <1>0 DEF AnswerRequest, BuildMoves, FarmTypes
  <2>. QED
    BY <1>0, <1>u, <2>1 DEF Course, Listed, Held, RunTypes, memory, history
<1>6. Stopped'
  <2>1. ASSUME OneBuildEach, pc \in {"artifacts", "logs", "delete"}, NEW j \in builds
        PROVE  /\ job[id][j] # "active" /\ job'[id][j] # "active"
               /\ job'[id][j] = "success" => job[id][j] = "success"
    <3>1. job[id][j] # "active" /\ request[id] = "completed" /\ j \in Jobs /\ id \in Ids
      BY <1>0, <2>1 DEF Course, Stopped, Held, RunTypes, Ending
    <3>2. CASE AnswerRequest(i)
      BY <1>0, <3>1, <3>2 DEF AnswerRequest, FarmTypes
    <3>3. CASE \E k \in Jobs : BuildMoves(i, k)
      BY <1>0, <3>1, <3>3 DEF BuildMoves, FarmTypes
    <3>. QED
      BY <3>1, <3>2, <3>3
  <2>. QED
    BY <1>0, <1>u, <2>1 DEF Course, Stopped, Handled, memory, history
<1>. QED
  BY <1>1, <1>2, <1>3, <1>4, <1>5, <1>6, Types DEF RemoteInv, Course

\* A run that is over relies on nothing, except that after a timeout the user
\* will come back for the builds.
LEMMA Ended ==
  ASSUME RunTypes, NEW how, End(how), dir' \in Contents,
         how = "timeout" => (edited \/ BuildId(dir) = id) /\ recipe'[id] /\ UNCHANGED dir
  PROVE  RunTypes' /\ Course'
<1>1. /\ pc' = "idle" /\ timedout' = (how = "timeout") /\ UNCHANGED <<id, edited>>
      /\ tree' = None /\ deadline' = "none" /\ builds' = {} /\ shown' = {} /\ seen' = NoJobs
      /\ fetched' = {} /\ refused' = {}
  BY DEF End
<1>2. RunTypes'
  BY <1>1, NoJobFacts DEF RunTypes, PCs
<1>3. Empty' /\ Copied' /\ Pushed' /\ Held' /\ Shown' /\ Stopped'
  BY <1>1 DEF Empty, Copied, Pushed, Held, Shown, Stopped, Ending
<1>4. Named' /\ Listed'
  BY <1>1 DEF Named, Listed, Beginning, Ending
<1>. QED
  BY <1>2, <1>3, <1>4 DEF Course

\* The user edits the directory, interrupts the run, or waits until the deadline
\* has passed.
LEMMA UserStep ==
  ASSUME RemoteInv, Edit \/ Interrupt \/ DeadlinePasses
  PROVE  RemoteInv'
<1>0. FarmTypes /\ RunTypes /\ Farm /\ Course
  BY Types DEF RemoteInv
<1>1. FarmTypes' /\ Farm'
  BY <1>0 DEF Edit, Interrupt, DeadlinePasses, launchpad, FarmTypes, Farm
<1>2. RunTypes'
  BY <1>0 DEF Edit, Interrupt, DeadlinePasses, Go, memory, history, RunTypes, PCs
<1>3. CASE Edit
  <2>1. /\ edited' = TRUE
        /\ UNCHANGED <<repo, recipe, request, job, pc, memory, fetched, refused, timedout>>
    BY <1>3 DEF Edit, launchpad
  <2>2. Empty' /\ Named' /\ Copied' /\ Pushed'
    BY <1>0, <2>1 DEF memory, Course, Empty, Named, Copied, Pushed
  <2>3. Listed' /\ Held' /\ Shown' /\ Stopped'
    BY <1>0, <2>1 DEF memory, Course, Listed, Held, Shown, Stopped, Handled
  <2>. QED
    BY <1>1, <1>2, <2>2, <2>3, Types DEF RemoteInv, Course
<1>4. CASE Interrupt
  <2>1. /\ pc \in Ending /\ pc' = "ask"
        /\ UNCHANGED <<repo, recipe, request, job, dir, memory, history>>
    BY <1>4 DEF Interrupt, Go, launchpad, Ending
  <2>2. Empty' /\ Named' /\ Copied' /\ Pushed' /\ Stopped'
    BY <2>1 DEF Empty, Named, Copied, Pushed, Stopped, Beginning
  <2>3. Listed' /\ Held'
    BY <1>0, <2>1 DEF memory, Course, Listed, Held, Ending
  <2>4. Shown'
    BY <1>0, <2>1 DEF memory, Course, Shown
  <2>. QED
    BY <1>1, <1>2, <2>2, <2>3, <2>4, Types DEF RemoteInv, Course
<1>5. CASE DeadlinePasses
  <2>1. UNCHANGED <<repo, recipe, request, job, dir, pc, tree, id, builds, shown, seen, history>>
    BY <1>5 DEF DeadlinePasses, launchpad
  <2>2. Empty' /\ Named' /\ Copied' /\ Pushed'
    BY <1>0, <2>1 DEF history, Course, Empty, Named, Copied, Pushed
  <2>3. Listed' /\ Held' /\ Shown' /\ Stopped'
    BY <1>0, <2>1 DEF history, Course, Listed, Held, Shown, Stopped, Handled
  <2>. QED
    BY <1>1, <1>2, <2>2, <2>3, Types DEF RemoteInv, Course
<1>. QED
  BY <1>3, <1>4, <1>5

\* A new run knows the build id of the directory, and nothing else.
LEMMA RunStep ==
  ASSUME RemoteInv, NEW r, NEW t, Run(r, t)
  PROVE  RemoteInv'
<1>0. FarmTypes /\ RunTypes /\ Farm
  BY Types DEF RemoteInv
<1>1. /\ UNCHANGED launchpad /\ UNCHANGED <<dir, tree>> /\ pc' \in {"find", "check"}
      /\ id' = BuildId(dir) /\ builds' = {} /\ shown' = {} /\ seen' = NoJobs
      /\ fetched' = {} /\ refused' = {}
      /\ edited' = FALSE /\ timedout' = FALSE /\ deadline' \in {"none", "ahead"}
  BY DEF Run
<1>2. FarmTypes' /\ Farm'
  BY <1>0, <1>1 DEF launchpad, FarmTypes, Farm
<1>3. RunTypes'
  BY <1>0, <1>1, NoJobFacts, IdTypes DEF RunTypes, PCs
<1>4. Course'
  BY <1>1 DEF Course, Empty, Named, Copied, Pushed, Listed, Held, Shown, Stopped, Ending
<1>. QED
  BY <1>2, <1>3, <1>4, Types DEF RemoteInv
-----------------------------------------------------------------------------
(* RemoteBuildService.start_builds. *)

\* Up to the push a run changes nothing on Launchpad but for the repository.
LEMMA PushStep ==
  ASSUME RemoteInv, CheckGitRepo \/ InitRepo \/ EnsureRepository \/ Push
  PROVE  RemoteInv'
<1>0. FarmTypes /\ RunTypes /\ Farm /\ Course
  BY Types DEF RemoteInv
<1>1. CASE CheckGitRepo
  <2>1. FarmTypes' /\ Farm'
    BY <1>0, <1>1 DEF CheckGitRepo, launchpad, FarmTypes, Farm
  <2>2. CASE End("error")
    BY <1>0, <1>1, <2>1, <2>2, Ended, Types DEF CheckGitRepo, RemoteInv, RunTypes
  <2>3. CASE ~End("error")
    <3>1. /\ pc = "check" /\ pc' = "copy" /\ id' = BuildId(dir)
          /\ UNCHANGED <<launchpad, dir, tree, deadline, builds, shown, seen, history>>
      BY <1>1, <2>3 DEF CheckGitRepo, Go
    <3>2. RunTypes'
      BY <1>0, <3>1, IdTypes DEF RunTypes, history, PCs
    <3>3. Course'
      BY <1>0, <3>1
         DEF history, Course, Empty, Named, Copied, Pushed, Listed, Held, Shown, Stopped, Beginning,
             Ending
    <3>. QED
      BY <2>1, <3>2, <3>3, Types DEF RemoteInv
  <2>. QED
    BY <2>2, <2>3
<1>2. CASE InitRepo
  <2>1. /\ pc = "copy" /\ pc' = "repository" /\ tree' = CommitAll(GitRepo(dir)) /\ tree' # None
        /\ UNCHANGED <<launchpad, dir, id, deadline, builds, shown, seen, history>>
    BY <1>0, <1>2, Gitified DEF InitRepo, Go, RunTypes
  <2>2. FarmTypes' /\ Farm'
    BY <1>0, <2>1 DEF launchpad, FarmTypes, Farm
  <2>3. RunTypes'
    BY <1>0, <2>1 DEF RunTypes, history, PCs
  <2>4. Course'
    BY <1>0, <2>1
       DEF history, Course, Empty, Named, Copied, Pushed, Listed, Held, Shown, Stopped, Beginning,
           Ending
  <2>. QED
    BY <2>2, <2>3, <2>4, Types DEF RemoteInv
<1>3. CASE EnsureRepository
  <2>1. /\ pc = "repository" /\ pc' = "push" /\ id \in Ids
        /\ UNCHANGED <<recipe, request, job, dir, memory, history>>
        /\ UNCHANGED repo \/ (repo[id] = "none" /\ repo' = [repo EXCEPT ![id] = "empty"])
    BY <1>0, <1>3 DEF EnsureRepository, NewRepository, GetRepository, Go, RunTypes
  <2>2. FarmTypes' /\ Farm'
    <3>1. \A i \in Ids : repo'[i] = repo[i] \/ ~recipe[i]
      BY <1>0, <2>1 DEF FarmTypes, Farm
    <3>2. repo' \in [Ids -> {Work[c] : c \in Contents} \cup {"none", "empty"}]
      BY <1>0, <2>1 DEF FarmTypes
    <3>. QED
      BY <1>0, <2>1, <3>1, <3>2 DEF FarmTypes, Farm
  <2>3. RunTypes'
    BY <1>0, <2>1 DEF RunTypes, memory, history, PCs
  <2>4. Course'
    BY <1>0, <2>1
       DEF memory, history, Course, Empty, Named, Copied, Pushed, Listed, Held, Shown, Stopped,
           Beginning, Ending
  <2>. QED
    BY <2>2, <2>3, <2>4, Types DEF RemoteInv
<1>4. CASE Push
  <2>0. /\ pc = "push" /\ UNCHANGED <<recipe, request, job, dir>>
        /\ \/ /\ PushUrl(id) /\ tree' = None /\ pc' = "drop"
              /\ UNCHANGED <<id, deadline, builds, shown, seen, history>>
           \/ End("error") /\ UNCHANGED repo
    BY <1>4 DEF Push, Go
  <2>1. CASE End("error") /\ UNCHANGED repo
    <3>1. FarmTypes' /\ Farm'
      BY <1>0, <2>0, <2>1 DEF FarmTypes, Farm
    <3>. QED
      BY <1>0, <2>0, <2>1, <3>1, Ended, Types DEF RemoteInv, RunTypes
  <2>2. CASE /\ PushUrl(id) /\ tree' = None /\ pc' = "drop"
             /\ UNCHANGED <<id, deadline, builds, shown, seen, history>>
    <3>1. PICK c \in Contents : tree = CommitAll(GitRepo(c))
      BY <1>0, <2>0 DEF RunTypes, Course, Copied
    <3>2. /\ repo' = [repo EXCEPT ![id] = Work[c]] /\ id \in Ids
          /\ Work[c] \notin {"none", "empty"}
      BY <1>0, <2>2, <3>1, Gitified DEF PushUrl, RunTypes
    <3>3. edited \/ Work[c] = Work[dir]
      <4>1. edited \/ tree = CommitAll(GitRepo(dir))
        BY <1>0, <2>0 DEF Course, Copied
      <4>. QED
        BY <1>0, <3>1, <4>1, Gitified DEF RunTypes
    <3>4. FarmTypes' /\ Farm'
      BY <1>0, <2>0, <3>2 DEF FarmTypes, Farm
    <3>5. RunTypes'
      BY <1>0, <2>0, <2>2 DEF RunTypes, history, PCs
    <3>6. repo'[id] = Work[c]
      BY <1>0, <3>2 DEF FarmTypes
    <3>7. Course'
      BY <1>0, <2>0, <2>2, <3>2, <3>3, <3>6
         DEF history, Course, Empty, Named, Copied, Pushed, Listed, Held, Shown, Stopped, Beginning,
             Ending
    <3>. QED
      BY <3>4, <3>5, <3>7, Types DEF RemoteInv
  <2>. QED
    BY <2>0, <2>1, <2>2
<1>. QED
  BY <1>1, <1>2, <1>3, <1>4

\* With a recipe go its request and its builds; the repository stays.
LEMMA Deleted ==
  ASSUME FarmTypes, Farm, NEW i \in Ids, DeleteRecipe(i)
  PROVE  FarmTypes' /\ Farm' /\ ~recipe'[i] /\ UNCHANGED repo
<1>1. /\ recipe' = [recipe EXCEPT ![i] = FALSE] /\ request' = [request EXCEPT ![i] = "none"]
      /\ job' = [job EXCEPT ![i] = NoJobs] /\ UNCHANGED repo
  BY DEF DeleteRecipe
<1>2. FarmTypes'
  BY <1>1, NoJobFacts DEF FarmTypes
<1>3. Farm'
  BY <1>1 DEF FarmTypes, Farm
<1>4. ~recipe'[i]
  BY <1>1 DEF FarmTypes
<1>. QED
  BY <1>1, <1>2, <1>3, <1>4

\* The builds that a run begins to hold, and the one of each architecture that
\* it has in its list of states.
LEMMA Holding ==
  ASSUME FarmTypes, RunTypes, NEW js \in SUBSET Jobs, Hold(js)
  PROVE  /\ builds' = js /\ shown' \subseteq js /\ Shown' /\ UNCHANGED <<tree, id, deadline>>
         /\ seen' \in [Jobs -> JobStates]
<1>1. seen' = [j \in Jobs |-> IF j \in js THEN job[id][j] ELSE "none"]
  BY DEF Hold
<1>2. seen' \in [Jobs -> JobStates]
  BY <1>1 DEF FarmTypes, RunTypes, JobStates
<1>. QED
  BY <1>2 DEF Hold, Shown

\* The recipe and the request for its builds.
LEMMA RequestStep ==
  ASSUME RemoteInv, DropRecipe \/ NewRecipe \/ RequestBuilds
  PROVE  RemoteInv'
<1>0. FarmTypes /\ RunTypes /\ Farm /\ Course /\ id \in Ids
  BY Types DEF RemoteInv, RunTypes
<1>1. CASE DropRecipe
  <2>1. pc = "drop" /\ pc' = "recipe" /\ UNCHANGED <<dir, memory, history>>
    BY <1>1 DEF DropRecipe, Go
  <2>2. FarmTypes' /\ Farm' /\ ~recipe'[id] /\ UNCHANGED repo
    <3>1. CASE recipe[id]
      BY <1>0, <1>1, <3>1, Deleted DEF DropRecipe
    <3>2. CASE ~recipe[id]
      BY <1>0, <1>1, <3>2 DEF DropRecipe, launchpad, FarmTypes, Farm
    <3>. QED
      BY <3>1, <3>2
  <2>3. RunTypes'
    BY <1>0, <2>1 DEF RunTypes, memory, history, PCs
  <2>4. Course'
    BY <1>0, <2>1, <2>2
       DEF memory, history, Course, Empty, Named, Copied, Pushed, Listed, Held, Shown, Stopped,
           Beginning, Ending
  <2>. QED
    BY <2>2, <2>3, <2>4, Types DEF RemoteInv
<1>2. CASE NewRecipe
  <2>1. /\ pc = "recipe" /\ recipe' = [recipe EXCEPT ![id] = TRUE]
        /\ UNCHANGED <<repo, request, job, dir>>
        /\ End("error") \/ (pc' = "request" /\ UNCHANGED <<memory, history>>)
    BY <1>2 DEF NewRecipe, MakeRecipe, Go
  <2>2. recipe'[id] /\ request[id] = "none" /\ repo[id] \notin {"none", "empty"}
    BY <1>0, <2>1 DEF FarmTypes, Course, Listed, Pushed
  <2>3. FarmTypes' /\ Farm'
    BY <1>0, <2>1, <2>2 DEF FarmTypes, Farm
  <2>4. CASE End("error")
    BY <1>0, <2>1, <2>3, <2>4, Ended, Types DEF RemoteInv, RunTypes
  <2>5. CASE pc' = "request" /\ UNCHANGED <<memory, history>>
    <3>1. RunTypes'
      BY <1>0, <2>1, <2>5 DEF RunTypes, memory, history, PCs
    <3>2. Course'
      BY <1>0, <2>1, <2>2, <2>5
         DEF memory, history, Course, Empty, Named, Copied, Pushed, Listed, Held, Shown, Stopped,
             Beginning, Ending
    <3>. QED
      BY <2>3, <3>1, <3>2, Types DEF RemoteInv
  <2>. QED
    BY <2>1, <2>4, <2>5
<1>3. CASE RequestBuilds
  <2>1. /\ pc = "request" /\ pc' = "await" /\ request' = [request EXCEPT ![id] = "pending"]
        /\ UNCHANGED <<repo, recipe, job, dir, memory, history>>
    BY <1>3 DEF RequestBuilds, Go
  <2>2. recipe[id] /\ request[id] = "none"
    BY <1>0, <2>1 DEF Course, Listed
  <2>3. FarmTypes' /\ Farm'
    BY <1>0, <2>1, <2>2 DEF FarmTypes, Farm
  <2>4. RunTypes'
    BY <1>0, <2>1 DEF RunTypes, memory, history, PCs
  <2>5. Course'
    BY <1>0, <2>1, <2>2
       DEF memory, history, Course, Empty, Named, Copied, Pushed, Listed, Held, Shown, Stopped,
           Beginning, Ending
  <2>. QED
    BY <2>3, <2>4, <2>5, Types DEF RemoteInv
<1>. QED
  BY <1>1, <1>2, <1>3

\* The run gets to its builds: those of its own request, or what a recovery
\* finds, which is none or those of a request that was granted.
LEMMA HoldStep ==
  ASSUME RemoteInv, AwaitRequest \/ Resume
  PROVE  RemoteInv'
<1>0. FarmTypes /\ RunTypes /\ Farm /\ Course /\ id \in Ids
  BY Types DEF RemoteInv, RunTypes
<1>1. FarmTypes' /\ Farm'
  BY <1>0 DEF AwaitRequest, Resume, launchpad, FarmTypes, Farm
<1>2. pc \in Beginning /\ UNCHANGED <<repo, recipe, request, job, dir>>
  BY DEF AwaitRequest, Resume, launchpad, Beginning
<1>3. CASE End("error")
  BY <1>0, <1>1, <1>2, <1>3, Ended, Types DEF RemoteInv, RunTypes
<1>4. CASE ~End("error")
  <2>1. PICK js \in SUBSET Jobs :
          /\ Hold(js) /\ pc' = "monitor" /\ UNCHANGED history /\ recipe[id]
          /\ js # {} => js = Jobs /\ request[id] = "completed"
    <3>1. CASE AwaitRequest
      <4>1. pc = "await" /\ request[id] = "completed" /\ Hold(Jobs) /\ pc' = "monitor"
            /\ UNCHANGED history
        BY <1>4, <3>1 DEF AwaitRequest, Go
      <4>. QED
        BY <1>0, <4>1 DEF Course, Listed
    <3>2. CASE Resume
      <4> DEFINE js == {j \in Jobs : job[id][j] # "none"}
      <4>1. recipe[id] /\ Hold(js) /\ pc' = "monitor" /\ UNCHANGED history
        BY <1>4, <3>2 DEF Resume, GetRecipe, Go
      <4>2. request[id] # "completed" => js = {}
        BY <1>0, NoJobFacts DEF Farm
      <4>3. request[id] = "completed" => js = Jobs
        BY <1>0 DEF Farm
      <4>. QED
        BY <4>1, <4>2, <4>3
    <3>. QED
      BY <3>1, <3>2
  <2>2. /\ builds' = js /\ shown' \subseteq js /\ Shown' /\ UNCHANGED <<tree, id, deadline>>
        /\ seen' \in [Jobs -> JobStates]
    BY <1>0, <2>1, Holding
  <2>3. fetched = {} /\ refused = {}
    BY <1>0, <1>2 DEF Course, Empty
  <2>4. RunTypes'
    BY <1>0, <1>2, <2>1, <2>2, <2>3 DEF RunTypes, history, PCs
  <2>5. Empty' /\ Named' /\ Copied' /\ Pushed' /\ Stopped'
    BY <1>0, <1>2, <2>1, <2>2 DEF history, Course, Empty, Named, Copied, Pushed, Stopped, Beginning
  <2>6. Listed' /\ Held'
    BY <1>2, <2>1, <2>2 DEF Listed, Held, Ending
  <2>. QED
    BY <1>1, <2>2, <2>4, <2>5, <2>6, Types DEF RemoteInv, Course
<1>. QED
  BY <1>3, <1>4
-----------------------------------------------------------------------------
(* RemoteBuild._monitor_and_complete. *)

\* The list of states says how all of the builds are doing.
LEMMA AllShown ==
  ASSUME RunTypes, Shown, OneBuildEach
  PROVE  shown = builds
<1>1. ASSUME NEW j \in builds PROVE j \in shown
  <2>1. PICK k \in shown : Arch[k] = Arch[j]
    BY DEF Shown
  <2>. QED
    BY <2>1 DEF RunTypes, OneBuildEach
<1>. QED
  BY <1>1 DEF RunTypes

\* What a turn of monitor_builds looks at is how the builds are doing now.
LEMMA PollSees ==
  ASSUME RemoteInv, Poll, pc' = "artifacts"
  PROVE  \A j \in shown : IsStoppingOrStopped(job[id][j])
<1>1. \A j \in shown : j \in builds /\ j \in Jobs
  BY Types DEF RemoteInv, RunTypes
<1>2. /\ seen' = [j \in Jobs |-> IF j \in builds THEN job[id][j] ELSE "none"]
      /\ \A j \in shown : IsStoppingOrStopped(seen'[j])
  BY DEF Poll, Go
<1>. QED
  BY <1>1, <1>2

\* Monitoring, and the timeout that ends it.
LEMMA MonitorStep ==
  ASSUME RemoteInv, Poll \/ TimeOut
  PROVE  RemoteInv'
<1>0. FarmTypes /\ RunTypes /\ Farm /\ Course /\ id \in Ids
  BY Types DEF RemoteInv, RunTypes
<1>1. FarmTypes' /\ Farm' /\ pc = "monitor" /\ UNCHANGED <<repo, recipe, request, job, dir>>
  BY <1>0 DEF Poll, TimeOut, launchpad, FarmTypes, Farm
<1>2. CASE Poll
  <2>1. /\ seen' = [j \in Jobs |-> IF j \in builds THEN job[id][j] ELSE "none"]
        /\ pc' \in {"monitor", "artifacts"}
        /\ UNCHANGED <<tree, id, deadline, builds, shown, history>>
    BY <1>2 DEF Poll, Go
  <2>2. RunTypes'
    <3>1. seen' \in [Jobs -> JobStates]
      BY <1>0, <2>1 DEF FarmTypes, JobStates
    <3>. QED
      BY <1>0, <1>1, <2>1, <3>1 DEF RunTypes, history, PCs
  <2>3. Empty' /\ Named' /\ Copied' /\ Pushed' /\ Shown'
    BY <1>0, <1>1, <2>1 DEF history, Course, Empty, Named, Copied, Pushed, Shown, Beginning
  <2>4. Listed' /\ Held'
    BY <1>0, <1>1, <2>1 DEF Course, Listed, Held, Ending
  <2>5. Stopped'
    <3>1. ASSUME OneBuildEach, pc' = "artifacts", NEW j \in builds PROVE job[id][j] # "active"
      BY <1>0, <1>2, <3>1, AllShown, PollSees DEF Course, IsStoppingOrStopped, IsStopped
    <3>. QED
      BY <1>1, <2>1, <3>1 DEF Stopped
  <2>. QED
    BY <1>1, <2>2, <2>3, <2>4, <2>5, Types DEF RemoteInv, Course
<1>3. CASE TimeOut
  <2>1. edited \/ BuildId(dir) = id
    BY <1>0, <1>1 DEF Course, Named
  <2>2. recipe'[id]
    BY <1>0, <1>1 DEF Course, Listed, Ending
  <2>. QED
    BY <1>0, <1>1, <1>3, <2>1, <2>2, Ended, Types DEF TimeOut, RemoteInv, RunTypes
<1>. QED
  BY <1>2, <1>3

\* Downloading: the directory changes with it, and from now on the run may look
\* at builds by a name that is no longer that of the directory.
LEMMA DownloadStep ==
  ASSUME RemoteInv, FetchArtifacts \/ FetchLogs
  PROVE  RemoteInv'
<1>0. FarmTypes /\ RunTypes /\ Farm /\ Course
  BY Types DEF RemoteInv
<1>1. /\ FarmTypes' /\ Farm' /\ pc \in {"artifacts", "logs"}
      /\ UNCHANGED <<repo, recipe, request, job>>
  BY <1>0 DEF FetchArtifacts, FetchLogs, launchpad, FarmTypes, Farm
<1>2. dir' \in Contents
  BY <1>0 DEF FetchArtifacts, FetchLogs, Download, CutShort, RunTypes
<1>3. CASE End("error")
  BY <1>0, <1>1, <1>2, <1>3, Ended, Types DEF RemoteInv
\* What is left is the next download, the end of both, or the question to the user.
<1>4. CASE ~End("error")
  <2>1. /\ pc' \in {"logs", "delete", "ask"} /\ UNCHANGED <<memory, timedout, edited>>
        /\ fetched' \subseteq builds /\ refused' \subseteq builds
    BY <1>0, <1>4 DEF FetchArtifacts, FetchLogs, Download, CutShort, Go, history, RunTypes, Survivors
  <2>2. RunTypes'
    BY <1>0, <1>2, <2>1 DEF RunTypes, memory, PCs
  <2>3. Empty' /\ Named' /\ Copied' /\ Pushed'
    BY <2>1 DEF Empty, Named, Copied, Pushed, Beginning
  <2>4. Listed' /\ Held' /\ Shown'
    BY <1>0, <1>1, <2>1 DEF memory, Course, Listed, Held, Shown, Ending
  <2>5. Stopped'
    <3>1. pc' = "ask" => Stopped'
      BY DEF Stopped
    <3>2. CASE FetchArtifacts /\ pc' # "ask"
      <4> DEFINE ready == {j \in builds : job[id][j] = "success"}
      <4>1. pc = "artifacts" /\ \E s \in Survivors(ready) : fetched' = s \ refused'
        BY <1>4, <3>2 DEF FetchArtifacts, CutShort, Go
      <4>2. ASSUME NEW j \in builds, job[id][j] = "success" PROVE Handled(j)'
        BY <1>0, <4>1, <4>2 DEF Survivors, Handled, RunTypes
      <4>. QED
        BY <1>0, <1>1, <2>1, <4>1, <4>2 DEF memory, Course, Stopped
    <3>3. CASE FetchLogs /\ pc' # "ask"
      <4>1. pc = "logs" /\ fetched' = fetched /\ refused' = refused
        BY <1>4, <3>3 DEF FetchLogs, Download, CutShort, Go, history
      <4>. QED
        BY <1>0, <1>1, <2>1, <4>1 DEF memory, Course, Stopped, Handled
    <3>. QED
      BY <3>1, <3>2, <3>3
  <2>. QED
    BY <1>1, <2>2, <2>3, <2>4, <2>5, Types DEF RemoteInv, Course
<1>. QED
  BY <1>3, <1>4
-----------------------------------------------------------------------------
(* The end of RemoteBuild._run. *)

\* Asking the user, cancelling, cleaning up, or failing anywhere.
LEMMA CloseStep ==
  ASSUME RemoteInv, Confirm \/ CancelBuilds \/ CleanRecipe \/ CleanRepository \/ Fail
  PROVE  RemoteInv'
<1>0. FarmTypes /\ RunTypes /\ Farm /\ Course /\ id \in Ids
  BY Types DEF RemoteInv, RunTypes
<1>1. CASE Confirm
  <2>1. FarmTypes' /\ Farm'
    BY <1>0, <1>1 DEF Confirm, launchpad, FarmTypes, Farm
  <2>2. CASE End("declined")
    BY <1>0, <1>1, <2>1, <2>2, Ended, Types DEF Confirm, RemoteInv, RunTypes
  <2>3. CASE ~End("declined")
    <3>1. /\ pc = "ask" /\ pc' = "cancel"
          /\ UNCHANGED <<repo, recipe, request, job, dir, memory, history>>
      BY <1>1, <2>3 DEF Confirm, Go, launchpad
    <3>2. RunTypes'
      BY <1>0, <3>1 DEF RunTypes, memory, history, PCs
    <3>3. Course'
      BY <1>0, <3>1
         DEF memory, history, Course, Empty, Named, Copied, Pushed, Listed, Held, Shown, Stopped,
             Beginning, Ending
    <3>. QED
      BY <2>1, <3>2, <3>3, Types DEF RemoteInv
  <2>. QED
    BY <2>2, <2>3
<1>2. CASE CancelBuilds
  <2>1. /\ pc = "cancel" /\ UNCHANGED <<repo, recipe, request, dir>>
        /\ End("error") \/ (pc' = "delete cancelled" /\ UNCHANGED <<memory, history>>)
    BY <1>2 DEF CancelBuilds, Go
  <2>2. PICK asked \in SUBSET builds, to \in {"cancelling", "failed"} :
          job' = [job EXCEPT ![id] = [j \in Jobs |->
                    IF j \in asked /\ @[j] = "active" THEN to ELSE @[j]]]
    BY <1>2 DEF CancelBuilds
  <2>3. \A i \in Ids \ {id} : job'[i] = job[i]
    BY <1>0, <2>2 DEF FarmTypes
  <2>4. job'[id] = [j \in Jobs |-> IF j \in asked /\ job[id][j] = "active" THEN to ELSE job[id][j]]
    BY <1>0, <2>2 DEF FarmTypes
  <2>5. job' \in [Ids -> [Jobs -> JobStates]]
    BY <1>0, <2>2 DEF FarmTypes, JobStates
  <2>6. /\ job[id] = NoJobs => job'[id] = NoJobs
        /\ (\A j \in Jobs : job[id][j] # "none") => \A j \in Jobs : job'[id][j] # "none"
    <3>1. ASSUME job[id] = NoJobs PROVE job'[id] = NoJobs
      BY <2>4, <3>1, NoJobFacts DEF NoJobs
    <3>2. ASSUME \A j \in Jobs : job[id][j] # "none" PROVE \A j \in Jobs : job'[id][j] # "none"
      BY <2>4, <3>2
    <3>. QED
      BY <3>1, <3>2
  <2>7. FarmTypes' /\ Farm'
    <3>1. \A i \in Ids : /\ job[i] = NoJobs => job'[i] = NoJobs
                         /\ (\A j \in Jobs : job[i][j] # "none") => \A j \in Jobs : job'[i][j] # "none"
      BY <2>3, <2>6
    <3>2. Farm'
      BY <1>0, <2>1, <3>1 DEF Farm
    <3>3. FarmTypes'
      BY <1>0, <2>1, <2>5, <3>1 DEF FarmTypes
    <3>. QED
      BY <3>2, <3>3
  <2>8. CASE End("error")
    BY <1>0, <2>1, <2>7, <2>8, Ended, Types DEF RemoteInv, RunTypes
  <2>9. CASE pc' = "delete cancelled" /\ UNCHANGED <<memory, history>>
    <3>1. RunTypes'
      BY <1>0, <2>1, <2>9 DEF RunTypes, memory, history, PCs
    <3>2. Course'
      BY <1>0, <2>1, <2>9
         DEF memory, history, Course, Empty, Named, Copied, Pushed, Listed, Held, Shown, Stopped,
             Beginning, Ending
    <3>. QED
      BY <2>7, <3>1, <3>2, Types DEF RemoteInv
  <2>. QED
    BY <2>1, <2>8, <2>9
<1>3. CASE CleanRecipe
  <2>1. /\ pc' = "delete repository" /\ UNCHANGED <<dir, memory, history>>
        /\ FarmTypes' /\ Farm' /\ ~recipe'[id]
    BY <1>0, <1>3, Deleted DEF CleanRecipe, Go
  <2>2. RunTypes'
    BY <1>0, <2>1 DEF RunTypes, memory, history, PCs
  <2>3. Course'
    BY <1>0, <2>1
       DEF memory, history, Course, Empty, Named, Copied, Pushed, Listed, Held, Shown, Stopped,
           Beginning, Ending
  <2>. QED
    BY <2>1, <2>2, <2>3, Types DEF RemoteInv
<1>4. CASE CleanRepository
  <2>1. /\ pc = "delete repository" /\ repo' = [repo EXCEPT ![id] = "none"] /\ End("done")
        /\ UNCHANGED <<recipe, request, job, dir>>
    BY <1>4 DEF CleanRepository
  <2>2. ~recipe[id]
    BY <1>0, <2>1 DEF Course, Listed
  <2>3. FarmTypes' /\ Farm'
    BY <1>0, <2>1, <2>2 DEF FarmTypes, Farm
  <2>. QED
    BY <1>0, <2>1, <2>3, Ended, Types DEF RemoteInv, RunTypes
<1>5. CASE Fail
  <2>1. FarmTypes' /\ Farm' /\ End("error") /\ UNCHANGED dir
    BY <1>0, <1>5 DEF Fail, launchpad, FarmTypes, Farm
  <2>. QED
    BY <1>0, <2>1, Ended, Types DEF RemoteInv, RunTypes
<1>. QED
  BY <1>1, <1>2, <1>3, <1>4, <1>5
-----------------------------------------------------------------------------
\* Each step keeps Launchpad and the run in agreement.
LEMMA RemoteStep == RemoteInv /\ [Next]_vars => RemoteInv'
<1> SUFFICES ASSUME RemoteInv, [Next]_vars PROVE RemoteInv'
  OBVIOUS
<1>1. CASE UNCHANGED vars
  <2>1. TypeOK' /\ Farm'
    BY <1>1 DEF RemoteInv, vars, launchpad, memory, history, TypeOK, Farm
  <2>2. Empty' /\ Named' /\ Copied' /\ Pushed'
    BY <1>1
       DEF RemoteInv, vars, launchpad, memory, history, Course, Empty, Named, Copied, Pushed
  <2>3. Listed' /\ Held' /\ Shown' /\ Stopped'
    BY <1>1
       DEF RemoteInv, vars, launchpad, memory, history, Course, Listed, Held, Shown, Stopped, Handled
  <2>. QED
    BY <2>1, <2>2, <2>3 DEF RemoteInv, Course
<1>. QED
  BY <1>1, NextCases, FarmStep, UserStep, RunStep, PushStep, RequestStep, HoldStep, MonitorStep,
     DownloadStep, CloseStep

\* Before the first run there is nothing on Launchpad.
LEMMA RemoteStart == Init => RemoteInv
<1> SUFFICES ASSUME Init PROVE RemoteInv
  OBVIOUS
<1>1. FarmTypes /\ Farm
  BY NoJobFacts DEF Init, FarmTypes, Farm
<1>2. RunTypes
  BY NoJobFacts, IdTypes DEF Init, RunTypes, PCs
<1>3. Course
  BY DEF Init, Course, Empty, Named, Copied, Pushed, Listed, Held, Shown, Stopped, Beginning,
         Ending
<1>. QED
  BY <1>1, <1>2, <1>3, Types DEF RemoteInv

\* The invariant holds in every state.
LEMMA RemoteHolds == Spec => []RemoteInv
BY RemoteStart, RemoteStep, PTL DEF Spec

\* RemoteBuildService and Launchpad keep their types; what Launchpad knows of
\* builds goes with their recipe.
THEOREM RemoteTypes == Spec => []TypeOK
<1>1. RemoteInv => TypeOK
  BY DEF RemoteInv
<1>. QED
  BY <1>1, RemoteHolds, PTL

\* A timeout of remote-build leaves a recipe, and a repository with something in
\* it, under the build id that remote-build --recover computes, unless the user
\* edits the directory.
THEOREM Recoverable == Spec => []TimeoutIsRecoverable
<1>1. RemoteInv => TimeoutIsRecoverable
  BY Types DEF RemoteInv, RunTypes, Farm, Course, Named, Listed, TimeoutIsRecoverable
<1>. QED
  BY <1>1, RemoteHolds, PTL

\* Launchpad builds what the directory holds, unless the user has edited it since
\* the run began: start_builds pushes a copy with everything committed, on top of
\* whatever an earlier run has pushed under this build id.
THEOREM BuildsDirectory == Spec => []BuildsWhatIsThere
<1>1. RemoteInv => BuildsWhatIsThere
  BY DEF RemoteInv, Course, Pushed, BuildsWhatIsThere
<1>. QED
  BY <1>1, RemoteHolds, PTL

\* monitor_builds returns when no build goes on that Launchpad makes of the
\* request, if every architecture has one build.
THEOREM MonitorsToTheEnd == ASSUME OneBuildEach PROVE Spec => ReturnsWhenStopped
<1>1. ASSUME RemoteInv, [Next]_vars, pc = "monitor", pc' = "artifacts", builds # {}
      PROVE  ~Ongoing(id)
  <2>1. Poll
    BY <1>1, NextCases
       DEF AnswerRequest, BuildMoves, Edit, Interrupt, DeadlinePasses, Fail, Run, CheckGitRepo,
           InitRepo, EnsureRepository, Push, DropRecipe, NewRecipe, RequestBuilds, AwaitRequest,
           Resume, TimeOut, FetchArtifacts, FetchLogs, Confirm, CancelBuilds, CleanRecipe,
           CleanRepository, End, Go, vars
  <2>2. shown = builds /\ builds = Jobs /\ request[id] = "completed"
    BY <1>1, OneBuildEach, AllShown, Types DEF RemoteInv, Course, Held, Ending
  <2>3. \A j \in Jobs : job[id][j] # "active"
    BY <1>1, <2>1, <2>2, PollSees DEF IsStoppingOrStopped, IsStopped
  <2>. QED
    BY <2>2, <2>3 DEF Ongoing
<1>2. RemoteInv /\ [Next]_vars =>
        [pc = "monitor" /\ pc' = "artifacts" /\ builds # {} => ~Ongoing(id)]_vars
  BY <1>1
<1>. QED
  BY <1>2, RemoteHolds, PTL DEF Spec, ReturnsWhenStopped

\* The recipe is deleted after a run that was not cancelled only if every
\* result of its builds was put into the directory, but for those that Launchpad
\* gave an error page for and those of one file name, if every architecture has
\* one build.
THEOREM KeepsResults == ASSUME OneBuildEach PROVE Spec => ResultsAreKept
<1> DEFINE Kept == pc = "delete" /\ pc' = "delete repository" /\ builds # {} =>
                     \A j \in Jobs : job[id][j] = "success" =>
                       \/ j \in fetched \/ j \in refused
                       \/ \E k \in Jobs \ {j} : Name[k] = Name[j]
<1>1. ASSUME RemoteInv, pc = "delete", builds # {}, NEW j \in Jobs, job[id][j] = "success"
      PROVE  Handled(j)
  <2>1. builds = Jobs
    BY <1>1 DEF RemoteInv, Course, Held, Ending
  <2>. QED
    BY <1>1, <2>1, OneBuildEach DEF RemoteInv, Course, Stopped
<1>2. RemoteInv /\ [Next]_vars => [Kept]_vars
  BY <1>1 DEF Handled
<1> HIDE DEF Kept
<1>3. Spec => [][Kept]_vars
  BY <1>2, RemoteHolds, PTL DEF Spec
<1>. QED
  BY <1>3 DEF ResultsAreKept, Kept

\* Builds that go on are removed by a run of their own build id alone, which
\* starts anew, was asked to cancel them, or found none of them, if every
\* architecture has one build.
THEOREM RemovesOnPurpose == ASSUME OneBuildEach PROVE Spec => OnlyOnPurpose
<1>1. ASSUME RemoteInv, [Next]_vars, NEW i \in Ids, Ongoing(i), recipe[i], ~recipe'[i]
      PROVE  i = id /\ (pc = "drop" \/ pc = "delete cancelled" \/ builds = {})
  <2>0. recipe \in [Ids -> BOOLEAN] /\ id \in Ids
    BY <1>1, Types DEF RemoteInv, FarmTypes, RunTypes
  <2>1. \/ NewRecipe \/ DropRecipe \/ CleanRecipe
    BY <1>1, NextCases
       DEF AnswerRequest, BuildMoves, Edit, Interrupt, DeadlinePasses, Fail, Run, CheckGitRepo,
           InitRepo, EnsureRepository, Push, RequestBuilds, AwaitRequest, Resume, Poll, TimeOut,
           FetchArtifacts, FetchLogs, Confirm, CancelBuilds, CleanRepository, launchpad, vars
  <2>2. DropRecipe \/ CleanRecipe
    BY <1>1, <2>0, <2>1 DEF NewRecipe, MakeRecipe
  <2>3. i = id /\ pc \in {"drop", "delete", "delete cancelled"}
    BY <1>1, <2>0, <2>2 DEF DropRecipe, CleanRecipe, DeleteRecipe, launchpad
  <2>4. ASSUME pc = "delete", builds # {} PROVE FALSE
    <3>1. builds = Jobs /\ request[id] = "completed"
      BY <1>1, <2>4 DEF RemoteInv, Course, Held, Ending
    <3>2. \A j \in Jobs : job[id][j] # "active"
      BY <1>1, <2>4, <3>1, OneBuildEach DEF RemoteInv, Course, Stopped
    <3>. QED
      BY <1>1, <2>3, <3>1, <3>2 DEF Ongoing
  <2>. QED
    BY <2>3, <2>4
<1>2. RemoteInv /\ [Next]_vars =>
        [\A i \in Ids :
           Ongoing(i) /\ recipe[i] /\ ~recipe'[i] =>
             /\ i = id
             /\ pc = "drop" \/ pc = "delete cancelled" \/ builds = {}]_vars
  BY <1>1
<1>. QED
  BY <1>2, RemoteHolds, PTL DEF Spec, OnlyOnPurpose
=============================================================================
