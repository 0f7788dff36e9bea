---------------------------- MODULE FetchSessions ----------------------------
(***************************************************************************)
(* Application processes that build in managed instances through the       *)
(* fetch-service: FetchService, ProxyService and ProviderService.          *)
(* run_managed, with the fetch-service itself as an external process.      *)
(*                                                                         *)
(* All craft tools of a host share one fetch-service process on fixed      *)
(* ports.  A run that finds it offline starts it as a child, and stops it  *)
(* when it exits.  For every build of its plan a run opens a session,      *)
(* points a new instance at it, runs the command and tears the session     *)
(* down.  Every request can fail with or without having taken effect, and  *)
(* every step can raise.                                                   *)
(***************************************************************************)
EXTENDS Naturals

CONSTANTS
  Runs,     \* processes of applications that were started
  Builds,   \* bound: the builds of every plan
  Nobody    \* the owner of a fetch-service no run started

ASSUME FetchAssumption ==
  /\ Builds \in Nat \ {0}
  /\ Nobody \notin Runs

Sessions == Runs \X (1..Builds)
External == <<"external session">>
Direct == <<"no proxy">>
Proxies == Sessions \cup {External, Direct}

VARIABLES
  \* the fetch-service (external)
  daemon,    \* "up": a process listens on the control port
  owner,     \* the run whose child that process is
  proc,      \* proc[r]: the process r started
  session,   \* session[s]: the session on the fetch-service
  \* a run
  pc,
  external,  \* FetchService._external_session
  child,     \* FetchService._fetch_process is set and its shutdown registered
  held,      \* FetchService._session_data: the build it was created for, or 0
  proxy,     \* the ProxyService's configuration
  build,     \* position in the build plan
  failed,    \* the managed command failed, its error is raised after teardown
  \* the instance of the present build
  instance,  \* the proxy its network access is configured for
  \* history
  executed,  \* sessions in which the managed command was started
  broken     \* sessions for which a teardown step raised

service == <<daemon, owner, proc, session>>
memory == <<external, child, held, proxy, build, failed>>
vars == <<service, pc, memory, instance, executed, broken>>

PCs == {"start", "spawn", "await", "launch", "session", "proxy", "finalize", "execute",
        "revoke", "report", "delete", "purge", "manifest", "next", "exit",
        "ended", "killed"}
Over(r) == pc[r] \in {"ended", "killed"}
Own(r) == <<r, build[r]>>
Managed(r) == ~external[r]

Go(r, next) == pc' = [pc EXCEPT ![r] = next]
-----------------------------------------------------------------------------
Init ==
  /\ daemon \in {"up", "down"} /\ owner = Nobody
  /\ proc = [r \in Runs |-> "none"]
  /\ session = [s \in Sessions |-> "none"]
  /\ pc = [r \in Runs |-> "start"]
  /\ external = [r \in Runs |-> FALSE]
  /\ child = [r \in Runs |-> FALSE]
  /\ held = [r \in Runs |-> 0]
  /\ proxy = [r \in Runs |-> Direct]
  /\ build = [r \in Runs |-> 1]
  /\ failed = [r \in Runs |-> FALSE]
  /\ instance = [r \in Runs |-> Direct]
  /\ executed = {} /\ broken = {}
-----------------------------------------------------------------------------
(* The fetch-service process. *)

\* What is left of the sessions when the process ends.
Lost == [s \in Sessions |->
           IF session[s] \in {"live", "revoked"} THEN "lost" ELSE session[s]]

\* A started process binds the ports, or exits because they are taken.
Bind(r) ==
  /\ proc[r] = "starting"
  /\ \/ /\ daemon = "down"
        /\ daemon' = "up" /\ owner' = r
        /\ proc' = [proc EXCEPT ![r] = "running"]
     \/ /\ daemon = "up"
        /\ proc' = [proc EXCEPT ![r] = "exited"]
        /\ UNCHANGED <<daemon, owner>>
  /\ UNCHANGED <<session, pc, memory, instance, executed, broken>>

\* Mutant: the fetch-service is started without an idle timer.
IdleShutdownNever == FALSE /\ UNCHANGED vars

\* --idle-shutdown=300: five minutes without a live session.
IdleShutdown ==
  /\ daemon = "up"
  /\ \A s \in Sessions : session[s] \notin {"live", "revoked"}
  /\ daemon' = "down" /\ owner' = Nobody
  /\ proc' = [r \in Runs |-> IF owner = r THEN "exited" ELSE proc[r]]
  /\ UNCHANGED <<session, pc, memory, instance, executed, broken>>

\* fetch.stop_service on the process r started.
Stop(r) ==
  /\ proc' = [proc EXCEPT ![r] = "exited"]
  /\ IF owner = r
     THEN daemon' = "down" /\ owner' = Nobody /\ session' = Lost
     ELSE UNCHANGED <<daemon, owner, session>>
-----------------------------------------------------------------------------
(* FetchService.setup and fetch.start_service. *)

\* --enable-fetch-service asks for sessions of the run's own, the environment
\* (CRAFT_USE_EXTERNAL_FETCH_SERVICE) for one that the user opened and that
\* needs no process; is_active rejects a run that asks for both.
Setup(r) ==
  /\ pc[r] = "start"
  /\ \E own, given \in BOOLEAN :
       /\ own \/ given
       /\ external' = [external EXCEPT ![r] = given]
       /\ Go(r, CASE own /\ given -> "exit"
                  [] given \/ daemon = "up" -> "launch"
                  [] OTHER -> "spawn")
  /\ UNCHANGED <<service, child, held, proxy, build, failed, instance, executed, broken>>

Spawn(r) ==
  /\ pc[r] = "spawn"
  /\ proc' = [proc EXCEPT ![r] = "starting"]
  /\ Go(r, "await")
  /\ UNCHANGED <<daemon, owner, session, memory, instance, executed, broken>>

\* The status request is answered: by whichever process listens.
Online(r) ==
  /\ pc[r] = "await" /\ daemon = "up"
  /\ child' = [child EXCEPT ![r] = TRUE]
  /\ Go(r, "launch")
  /\ UNCHANGED <<service, external, held, proxy, build, failed, instance, executed, broken>>

\* Start-up fails: the process is seen to have exited, no retry of the status
\* request is answered, or the answer has no uptime.  Only the last stops the
\* process that was started.
StartFailed(r) ==
  /\ pc[r] = "await"
  /\ \/ (proc[r] = "exited" \/ daemon = "down") /\ UNCHANGED service
     \/ daemon = "up" /\ Stop(r)
  /\ Go(r, "exit")
  /\ UNCHANGED <<memory, instance, executed, broken>>
-----------------------------------------------------------------------------
(* ProviderService.run_managed: one build. *)

\* instance(): an existing instance is cleaned, a new one is launched.
Launch(r) ==
  /\ pc[r] = "launch"
  /\ instance' = [instance EXCEPT ![r] = Direct]
  /\ Go(r, "session")
  /\ UNCHANGED <<service, memory, executed, broken>>

\* configure_instance with a session of its own: create_session.
CreateSession(r) ==
  /\ pc[r] = "session" /\ Managed(r) /\ held[r] = 0 /\ daemon = "up"
  /\ session' = [session EXCEPT ![Own(r)] = "live"]
  /\ \/ /\ held' = [held EXCEPT ![r] = build[r]]
        /\ proxy' = [proxy EXCEPT ![r] = Own(r)]
        /\ Go(r, "proxy")
     \/ \* the gateway of the instance is not found
        /\ held' = [held EXCEPT ![r] = build[r]]
        /\ UNCHANGED proxy
        /\ Go(r, "exit")
     \/ \* the answer is lost
        /\ UNCHANGED <<held, proxy>>
        /\ Go(r, "exit")
  /\ UNCHANGED <<daemon, owner, proc, external, child, build, failed, instance, executed, broken>>

\* configure_instance with the session the user opened.
UseExternal(r) ==
  /\ pc[r] = "session" /\ external[r]
  /\ proxy' = [proxy EXCEPT ![r] = External]
  /\ Go(r, "proxy")
  /\ UNCHANGED <<service, external, child, held, build, failed, instance, executed, broken>>

\* Mutant: the instance is prepared before the session exists.
ConfigureProxyEarly(r) ==
  /\ pc[r] = "proxy"
  /\ Go(r, "finalize")
  /\ UNCHANGED <<service, memory, instance, executed, broken>>

\* ProxyService.configure_instance, still inside prepare_instance.
ConfigureProxy(r) ==
  /\ pc[r] = "proxy"
  /\ instance' = [instance EXCEPT ![r] = proxy[r]]
  /\ Go(r, "finalize")
  /\ UNCHANGED <<service, memory, executed, broken>>

\* The rest of instance(), configure_instance_with_pro and
\* finalize_instance_configuration; then the try block begins.
Finalize(r) ==
  /\ pc[r] = "finalize"
  /\ executed' = executed \cup {Own(r)}
  /\ Go(r, "execute")
  /\ UNCHANGED <<service, memory, instance, broken>>

\* Mutant: no finally, a failed command skips the teardown.
ExecuteTearingDownOnSuccess(r) ==
  /\ pc[r] = "execute"
  /\ \E f \in BOOLEAN : /\ failed' = [failed EXCEPT ![r] = f]
                        /\ Go(r, IF Managed(r) /\ ~f THEN "revoke" ELSE "next")
  /\ UNCHANGED <<service, external, child, held, proxy, build, instance, executed, broken>>

\* The command in the instance succeeds, fails or is interrupted; in every
\* case the finally clause runs.
Execute(r) ==
  /\ pc[r] = "execute"
  /\ \E f \in BOOLEAN : failed' = [failed EXCEPT ![r] = f]
  /\ Go(r, IF Managed(r) THEN "revoke" ELSE "next")
  /\ UNCHANGED <<service, external, child, held, proxy, build, instance, executed, broken>>

\* A step of teardown_session that raises leaves the session held.
Raise(r) ==
  /\ broken' = broken \cup {Own(r)}
  /\ Go(r, "exit")

\* One request of fetch.teardown_session.
Request(r, at, from, to, next) ==
  /\ pc[r] = at
  /\ \/ /\ daemon = "up" /\ session[Own(r)] = from
        /\ session' = [session EXCEPT ![Own(r)] = to]
        /\ \/ Go(r, next) /\ UNCHANGED broken
           \/ Raise(r)
     \/ UNCHANGED session /\ Raise(r)
  /\ UNCHANGED <<daemon, owner, proc, memory, instance, executed>>

Revoke(r) == Request(r, "revoke", "live", "revoked", "report")
GetReport(r) == Request(r, "report", "revoked", "revoked", "delete")
Delete(r) == Request(r, "delete", "revoked", "deleted", "purge")
Purge(r) == Request(r, "purge", "deleted", "purged", "manifest")

\* Mutant: the session is torn down and still held.
WriteManifestKeepingSession(r) ==
  /\ pc[r] = "manifest"
  /\ Go(r, "next")
  /\ UNCHANGED <<service, memory, instance, executed, broken>>

\* The manifest is written, and only then the session is forgotten.
WriteManifest(r) ==
  /\ pc[r] = "manifest"
  /\ \/ held' = [held EXCEPT ![r] = 0] /\ Go(r, "next") /\ UNCHANGED broken
     \/ UNCHANGED held /\ Raise(r)
  /\ UNCHANGED <<service, external, child, proxy, build, failed, instance, executed>>

\* Mutant: one build too many.
NextBuildBeyond(r) ==
  /\ pc[r] = "next"
  /\ Go(r, "launch") /\ build' = [build EXCEPT ![r] = @ + 1]
  /\ UNCHANGED <<service, external, child, held, proxy, failed, instance, executed, broken>>

\* Mutant: a build that failed is tried again.
NextBuildRetrying(r) ==
  /\ pc[r] = "next"
  /\ IF build[r] = Builds /\ ~failed[r]
     THEN Go(r, "exit") /\ UNCHANGED build
     ELSE Go(r, "launch") /\ build' = [build EXCEPT ![r] = IF failed[r] THEN @ ELSE @ + 1]
  /\ UNCHANGED <<service, external, child, held, proxy, failed, instance, executed, broken>>

\* The command loops over the build plan.
NextBuild(r) ==
  /\ pc[r] = "next"
  /\ IF failed[r] \/ build[r] = Builds
     THEN Go(r, "exit") /\ UNCHANGED build
     ELSE Go(r, "launch") /\ build' = [build EXCEPT ![r] = @ + 1]
  /\ UNCHANGED <<service, external, child, held, proxy, failed, instance, executed, broken>>

\* Any step outside the try block raises, or the user interrupts it.  With a
\* live session create_session raises, too.
Fail(r) ==
  /\ pc[r] \in {"start", "spawn", "await", "launch", "session", "proxy", "finalize", "next"}
  /\ Go(r, "exit")
  /\ UNCHANGED <<service, memory, instance, executed, broken>>

\* The process ends; the registered shutdown(force=True) runs.
Exit(r) ==
  /\ pc[r] = "exit"
  /\ IF child[r] THEN Stop(r) ELSE UNCHANGED service
  /\ Go(r, "ended")
  /\ UNCHANGED <<memory, instance, executed, broken>>

\* The process is killed: nothing registered runs.
Kill(r) ==
  /\ ~Over(r)
  /\ Go(r, "killed")
  /\ UNCHANGED <<service, memory, instance, executed, broken>>
-----------------------------------------------------------------------------
Step(r) ==
  \/ Setup(r) \/ Spawn(r) \/ Online(r) \/ StartFailed(r)
  \/ Launch(r) \/ CreateSession(r) \/ UseExternal(r) \/ ConfigureProxy(r) \/ Finalize(r)
  \/ Execute(r) \/ Revoke(r) \/ GetReport(r) \/ Delete(r) \/ Purge(r)
  \/ WriteManifest(r) \/ NextBuild(r) \/ Exit(r) \/ Fail(r)

Next ==
  \/ \E r \in Runs : Step(r) \/ Kill(r) \/ Bind(r)
  \/ IdleShutdown

\* Every request has a timeout and the managed command ends; a started process
\* binds or exits; the idle timer of the fetch-service fires.
Spec ==
  /\ Init /\ [][Next]_vars
  /\ \A r \in Runs : WF_vars(Step(r)) /\ WF_vars(Bind(r))
  /\ WF_vars(IdleShutdown)
-----------------------------------------------------------------------------
\* Every variable stays in its type.
TypeOK ==
  /\ daemon \in {"up", "down"} /\ owner \in Runs \cup {Nobody}
  /\ proc \in [Runs -> {"none", "starting", "running", "exited"}]
  /\ session \in [Sessions -> {"none", "live", "revoked", "deleted", "purged", "lost"}]
  /\ pc \in [Runs -> PCs]
  /\ external \in [Runs -> BOOLEAN] /\ child \in [Runs -> BOOLEAN]
  /\ held \in [Runs -> 0..Builds]
  /\ proxy \in [Runs -> Proxies]
  /\ build \in [Runs -> 1..Builds]
  /\ failed \in [Runs -> BOOLEAN]
  /\ instance \in [Runs -> Proxies]
  /\ executed \subseteq Sessions /\ broken \subseteq Sessions

\* A managed command runs in an instance whose traffic goes through the session
\* opened for this very build; it is served, unless another run has stopped the
\* fetch-service it had started.  An external one uses the user's session.
ExecutesInOwnSession ==
  \A r \in Runs : pc[r] = "execute" =>
    IF Managed(r)
    THEN /\ instance[r] = Own(r) /\ held[r] = build[r]
         /\ \/ daemon = "up" /\ session[Own(r)] = "live"
            \/ session[Own(r)] = "lost" /\ \E q \in Runs \ {r} : proc[q] = "exited"
    ELSE instance[r] = External

\* While a managed command runs, its session is served.
ExecutesInLiveSession ==
  \A r \in Runs : pc[r] = "execute" /\ Managed(r) =>
    daemon = "up" /\ session[Own(r)] = "live"

\* create_session is never called with a live session: its ValueError is
\* unreachable, whatever failed before.
NeverRefused == \A r \in Runs : pc[r] = "session" => held[r] = 0

\* A run that ended left no trace of a session its command ran in, unless a
\* step of the teardown itself raised.
SessionsTornDown ==
  \A s \in executed :
    pc[s[1]] = "ended" /\ Managed(s[1]) /\ s \notin broken => session[s] = "purged"

\* Every run comes to its end.
RunsEnd == \A r \in Runs : <>Over(r)

\* When no run is left and no session was leaked, the fetch-service goes away.
ServiceGoesAway ==
  (/\ \A r \in Runs : Over(r)
   /\ \A s \in Sessions : session[s] \notin {"live", "revoked"})
    ~> (daemon = "down" /\ \A r \in Runs : proc[r] \in {"none", "exited"})
=============================================================================
