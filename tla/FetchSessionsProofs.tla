------------------------- MODULE FetchSessionsProofs -------------------------
(***************************************************************************)
(* Proofs about FetchSessions, for any number of runs that share the       *)
(* fetch-service and plans of any length: the types, that no session is    *)
(* asked for while one is held, that commands run in the session of their  *)
(* build, and that what ran in a session is torn down.                     *)
(***************************************************************************)
EXTENDS FetchSessions, TLAPS

\* The disjuncts of Next in the form the proofs below go through.
LEMMA NextCases ==
  ASSUME [Next]_vars
  PROVE  \/ \E r \in Runs :
              \/ Setup(r) \/ Spawn(r) \/ Online(r) \/ StartFailed(r)
              \/ Launch(r) \/ CreateSession(r) \/ UseExternal(r) \/ ConfigureProxy(r)
              \/ Finalize(r) \/ Execute(r) \/ Revoke(r) \/ GetReport(r) \/ Delete(r)
              \/ Purge(r) \/ WriteManifest(r) \/ NextBuild(r) \/ Exit(r) \/ Fail(r)
              \/ Kill(r) \/ Bind(r)
         \/ IdleShutdown
         \/ UNCHANGED vars
BY DEF Next, Step

\* A step of a run that leaves the fetch-service and the session variables alone
\* keeps the types if it goes to a known place.
LEMMA OwnType ==
  ASSUME TypeOK, NEW r \in Runs
  PROVE  Own(r) \in Sessions /\ Own(r) = <<r, build[r]>>
BY DEF TypeOK, Own, Sessions

\* Sessions that a stopped fetch-service loses stay in their type.
LEMMA StopType ==
  ASSUME TypeOK, NEW r \in Runs, Stop(r)
  PROVE  /\ daemon' \in {"up", "down"} /\ owner' \in Runs \cup {Nobody}
         /\ proc' \in [Runs -> {"none", "starting", "running", "exited"}]
         /\ session' \in [Sessions -> {"none", "live", "revoked", "deleted", "purged", "lost"}]
BY DEF TypeOK, Stop, Lost

\* Type correctness is inductive.
LEMMA TypeStep == TypeOK /\ [Next]_vars => TypeOK'
<1> SUFFICES ASSUME TypeOK, [Next]_vars PROVE TypeOK'
  OBVIOUS
<1> USE FetchAssumption DEF service, memory, Go, PCs
<1>1. ASSUME NEW r \in Runs, Setup(r) PROVE TypeOK'
  BY <1>1 DEF Setup, TypeOK
<1>2. ASSUME NEW r \in Runs, Spawn(r) PROVE TypeOK'
  BY <1>2 DEF Spawn, TypeOK
<1>3. ASSUME NEW r \in Runs, Online(r) PROVE TypeOK'
  BY <1>3 DEF Online, TypeOK
<1>4. ASSUME NEW r \in Runs, StartFailed(r) PROVE TypeOK'
  BY <1>4, StopType DEF StartFailed, TypeOK
<1>5. ASSUME NEW r \in Runs, Launch(r) PROVE TypeOK'
  BY <1>5 DEF Launch, TypeOK, Proxies
<1>6. ASSUME NEW r \in Runs, CreateSession(r) PROVE TypeOK'
  <2>1. build[r] \in 0..Builds /\ Own(r) \in Proxies
    BY OwnType DEF TypeOK, Proxies
  <2>2. held' \in [Runs -> 0..Builds] /\ proxy' \in [Runs -> Proxies]
    BY <1>6, <2>1 DEF CreateSession, TypeOK
  <2>. QED
    BY <1>6, <2>2, OwnType DEF CreateSession, TypeOK
<1>7. ASSUME NEW r \in Runs, UseExternal(r) PROVE TypeOK'
  BY <1>7 DEF UseExternal, TypeOK, Proxies
<1>8. ASSUME NEW r \in Runs, ConfigureProxy(r) PROVE TypeOK'
  BY <1>8 DEF ConfigureProxy, TypeOK
<1>9. ASSUME NEW r \in Runs, Finalize(r) PROVE TypeOK'
  BY <1>9, OwnType DEF Finalize, TypeOK
<1>10. ASSUME NEW r \in Runs, Execute(r) PROVE TypeOK'
  BY <1>10 DEF Execute, TypeOK
<1>11. ASSUME NEW r \in Runs, Revoke(r) \/ GetReport(r) \/ Delete(r) \/ Purge(r) PROVE TypeOK'
  BY <1>11, OwnType DEF Revoke, GetReport, Delete, Purge, Request, Raise, TypeOK
<1>12. ASSUME NEW r \in Runs, WriteManifest(r) PROVE TypeOK'
  <2>1. held' \in [Runs -> 0..Builds]
    <3>1. held' = held \/ held' = [held EXCEPT ![r] = 0]
      BY <1>12 DEF WriteManifest
    <3>. QED
      BY <3>1 DEF TypeOK
  <2>2. pc' \in [Runs -> PCs] /\ broken' \subseteq Sessions
    BY <1>12, OwnType DEF WriteManifest, Raise, TypeOK
  <2>. QED
    BY <1>12, <2>1, <2>2 DEF WriteManifest, TypeOK
<1>13. ASSUME NEW r \in Runs, NextBuild(r) PROVE TypeOK'
  BY <1>13 DEF NextBuild, TypeOK
<1>14. ASSUME NEW r \in Runs, Exit(r) PROVE TypeOK'
  BY <1>14, StopType DEF Exit, TypeOK
<1>15. ASSUME NEW r \in Runs, Fail(r) \/ Kill(r) PROVE TypeOK'
  BY <1>15 DEF Fail, Kill, TypeOK
<1>16. ASSUME NEW r \in Runs, Bind(r) PROVE TypeOK'
  BY <1>16 DEF Bind, TypeOK
<1>17. CASE IdleShutdown
  BY <1>17 DEF IdleShutdown, TypeOK
<1>18. CASE UNCHANGED vars
  BY <1>18 DEF vars, TypeOK
<1>. QED
  BY <1>1, <1>2, <1>3, <1>4, <1>5, <1>6, <1>7, <1>8, <1>9, <1>10, <1>11, <1>12, <1>13,
     <1>14, <1>15, <1>16, <1>17, <1>18, NextCases

\* Every variable is in its type before the first run.
LEMMA InitTypes == Init => TypeOK
BY FetchAssumption DEF Init, TypeOK, PCs, Proxies

\* Every reachable state of the runs and the fetch-service is well typed.
THEOREM FetchTypes == Spec => []TypeOK
BY InitTypes, TypeStep, PTL DEF Spec
-----------------------------------------------------------------------------
(* The inductive invariant. *)

Before == {"start", "spawn", "await", "launch", "session"}
During == {"proxy", "finalize", "execute", "revoke", "report", "delete", "purge", "manifest"}

\* The owner of the fetch-service is a process that runs; only a fetch-service
\* that is up has sessions to serve.
ServiceInv ==
  /\ \A r \in Runs : owner = r => proc[r] = "running"
  /\ \A r \in Runs : pc[r] \in {"start", "spawn"} => proc[r] = "none"
  /\ \A s \in Sessions : session[s] \in {"live", "revoked"} => daemon = "up"

\* Nothing was done yet for the builds that are to come.
Fresh(r) ==
  \A b \in 1..Builds :
    b > build[r] \/ (b = build[r] /\ pc[r] \in Before) =>
      session[<<r, b>>] = "none" /\ <<r, b>> \notin executed

\* A session is held from its creation to the end of its teardown, and is the
\* one of the present build.
Holding(r) ==
  /\ external[r] => held[r] = 0 /\ pc[r] # "start"
  /\ pc[r] \in Before \cup {"next"} => held[r] = 0
  /\ Managed(r) /\ pc[r] \in During => held[r] = build[r]

\* The proxy is configured for the session of the run before the instance is.
Route(r) == IF Managed(r) THEN Own(r) ELSE External
Routed(r) ==
  /\ pc[r] = "proxy" => proxy[r] = Route(r)
  /\ pc[r] \in {"finalize", "execute"} => instance[r] = Route(r)

\* The session of the present build is as far as the teardown has come, unless
\* another run has stopped the fetch-service.
LostToOther(r) == session[Own(r)] = "lost" /\ \E q \in Runs \ {r} : proc[q] = "exited"
Served(r) ==
  Managed(r) =>
    /\ pc[r] \in {"proxy", "finalize", "execute", "revoke"} =>
         session[Own(r)] = "live" \/ LostToOther(r)
    /\ pc[r] \in {"report", "delete"} => session[Own(r)] = "revoked" \/ LostToOther(r)
    /\ pc[r] = "purge" => session[Own(r)] = "deleted"
    /\ pc[r] = "manifest" => session[Own(r)] = "purged"

\* A session in which a command ran is gone, unless its teardown is under way,
\* has failed or was prevented.
TornDown(r) ==
  \A b \in 1..Builds :
    <<r, b>> \in executed /\ Managed(r) /\ <<r, b>> \notin broken =>
      \/ session[<<r, b>>] = "purged" \/ pc[r] = "killed"
      \/ b = build[r] /\ pc[r] \in {"execute", "revoke", "report", "delete", "purge"}

RunInv(r) == Fresh(r) /\ Holding(r) /\ Routed(r) /\ Served(r) /\ TornDown(r)

SessionInv == TypeOK /\ ServiceInv /\ \A r \in Runs : RunInv(r)

\* A step changes nothing of run q, but that its session may be lost because
\* another run stops the fetch-service.
Undisturbed(q) ==
  /\ pc'[q] = pc[q] /\ external'[q] = external[q] /\ held'[q] = held[q]
  /\ proxy'[q] = proxy[q] /\ build'[q] = build[q] /\ instance'[q] = instance[q]
  /\ \A b \in 1..Builds :
       /\ <<q, b>> \in executed' <=> <<q, b>> \in executed
       /\ <<q, b>> \in broken' <=> <<q, b>> \in broken
       /\ \/ session'[<<q, b>>] = session[<<q, b>>]
          \/ /\ session[<<q, b>>] \in {"live", "revoked"} /\ session'[<<q, b>>] = "lost"
             /\ \E p \in Runs \ {q} : proc'[p] = "exited"
  /\ \A p \in Runs : proc[p] = "exited" => proc'[p] = "exited"

\* A run that is left alone keeps its part of the invariant.
LEMMA UndisturbedKeeps ==
  ASSUME TypeOK, NEW q \in Runs, RunInv(q), Undisturbed(q)
  PROVE  RunInv(q)'
<1>0. build[q] \in 1..Builds /\ Own(q) = <<q, build[q]>> /\ Own(q)' = Own(q)
  BY DEF TypeOK, Own, Undisturbed
<1>1. Fresh(q)'
  BY DEF RunInv, Fresh, Undisturbed
<1>2. Holding(q)'
  BY DEF RunInv, Holding, Managed, Undisturbed
<1>3. Routed(q)'
  BY <1>0 DEF RunInv, Routed, Route, Managed, Undisturbed
<1>4. Served(q)'
  BY <1>0 DEF RunInv, Served, LostToOther, Managed, Undisturbed
<1>5. TornDown(q)'
  BY DEF RunInv, TornDown, Managed, Undisturbed
<1>. QED
  BY <1>1, <1>2, <1>3, <1>4, <1>5 DEF RunInv

\* What stopping the process of run r does to the sessions of another run.
LEMMA StopDisturbs ==
  ASSUME TypeOK, NEW r \in Runs, NEW q \in Runs \ {r}, Stop(r)
  PROVE  /\ \A b \in 1..Builds :
              \/ session'[<<q, b>>] = session[<<q, b>>]
              \/ /\ session[<<q, b>>] \in {"live", "revoked"} /\ session'[<<q, b>>] = "lost"
                 /\ \E p \in Runs \ {q} : proc'[p] = "exited"
         /\ \A p \in Runs : proc[p] = "exited" => proc'[p] = "exited"
<1>1. proc'[r] = "exited" /\ \A p \in Runs : proc[p] = "exited" => proc'[p] = "exited"
  BY DEF TypeOK, Stop
<1>2. ASSUME NEW b \in 1..Builds
      PROVE  \/ session'[<<q, b>>] = session[<<q, b>>]
             \/ session[<<q, b>>] \in {"live", "revoked"} /\ session'[<<q, b>>] = "lost"
  BY DEF TypeOK, Stop, Lost, Sessions
<1>. QED
  BY <1>1, <1>2

\* A step of one run leaves the others alone.
LEMMA OthersStep ==
  ASSUME TypeOK, ServiceInv, NEW r \in Runs, NEW q \in Runs \ {r},
         Step(r) \/ Kill(r) \/ Bind(r)
  PROVE  Undisturbed(q)
<1>0. r \in Runs /\ q \in Runs /\ q # r /\ Own(r) = <<r, build[r]>>
  BY DEF Own
<1> USE DEF service, memory, Go, Undisturbed
<1>1. CASE Setup(r)
  BY <1>0, <1>1 DEF Setup, TypeOK
<1>2. CASE Spawn(r)
  BY <1>0, <1>2 DEF Spawn, TypeOK, ServiceInv
<1>3. CASE Online(r)
  BY <1>0, <1>3 DEF Online, TypeOK
<1>4. CASE StartFailed(r)
  BY <1>0, <1>4, StopDisturbs DEF StartFailed, TypeOK
<1>5. CASE Launch(r)
  BY <1>0, <1>5 DEF Launch, TypeOK
<1>6. CASE CreateSession(r)
  <2>1. \A b \in 1..Builds : session'[<<q, b>>] = session[<<q, b>>]
    BY <1>0, <1>6 DEF CreateSession, TypeOK, Sessions
  <2>. QED
    BY <1>0, <1>6, <2>1 DEF CreateSession, TypeOK
<1>7. CASE UseExternal(r)
  BY <1>0, <1>7 DEF UseExternal, TypeOK
<1>8. CASE ConfigureProxy(r)
  BY <1>0, <1>8 DEF ConfigureProxy, TypeOK
<1>9. CASE Finalize(r)
  BY <1>0, <1>9 DEF Finalize, TypeOK
<1>10. CASE Execute(r)
  BY <1>0, <1>10 DEF Execute, TypeOK
<1>11. CASE Revoke(r) \/ GetReport(r) \/ Delete(r) \/ Purge(r)
  <2>1. \A b \in 1..Builds : session'[<<q, b>>] = session[<<q, b>>]
    BY <1>0, <1>11 DEF Revoke, GetReport, Delete, Purge, Request, TypeOK, Sessions
  <2>2. \A b \in 1..Builds : <<q, b>> \in broken' <=> <<q, b>> \in broken
    BY <1>0, <1>11 DEF Revoke, GetReport, Delete, Purge, Request, Raise
  <2>3. pc'[q] = pc[q]
    BY <1>0, <1>11 DEF Revoke, GetReport, Delete, Purge, Request, Raise, TypeOK
  <2>4. UNCHANGED <<proc, memory, instance, executed>>
    BY <1>11 DEF Revoke, GetReport, Delete, Purge, Request
  <2>. QED
    BY <2>1, <2>2, <2>3, <2>4
<1>12. CASE WriteManifest(r)
  <2>1. \A b \in 1..Builds : <<q, b>> \in broken' <=> <<q, b>> \in broken
    BY <1>0, <1>12 DEF WriteManifest, Raise
  <2>. QED
    BY <1>0, <1>12, <2>1 DEF WriteManifest, Raise, TypeOK
<1>13. CASE NextBuild(r)
  BY <1>0, <1>13 DEF NextBuild, TypeOK
<1>14. CASE Exit(r)
  BY <1>0, <1>14, StopDisturbs DEF Exit, TypeOK
<1>15. CASE Fail(r) \/ Kill(r)
  BY <1>0, <1>15 DEF Fail, Kill, TypeOK
<1>16. CASE Bind(r)
  BY <1>0, <1>16 DEF Bind, TypeOK
<1>. QED
  BY <1>1, <1>2, <1>3, <1>4, <1>5, <1>6, <1>7, <1>8, <1>9, <1>10, <1>11, <1>12, <1>13,
     <1>14, <1>15, <1>16 DEF Step

\* The fetch-service keeps its part of the invariant.
LEMMA ServiceStep ==
  ASSUME TypeOK, ServiceInv, \A r \in Runs : RunInv(r), [Next]_vars
  PROVE  ServiceInv'
<1>0. TypeOK'
  BY TypeStep
<1> USE FetchAssumption DEF service, memory, Go, ServiceInv
<1>1. ASSUME NEW r \in Runs,
             \/ Setup(r) \/ Online(r) \/ Launch(r) \/ UseExternal(r) \/ ConfigureProxy(r)
             \/ Finalize(r) \/ Execute(r) \/ WriteManifest(r) \/ NextBuild(r) \/ Fail(r) \/ Kill(r)
      PROVE ServiceInv'
  <2>1. UNCHANGED service
    BY <1>1 DEF Setup, Online, Launch, UseExternal, ConfigureProxy, Finalize, Execute,
                WriteManifest, NextBuild, Fail, Kill
  <2>2. \A q \in Runs : pc'[q] \in {"start", "spawn"} => pc[q] \in {"start", "spawn"}
    BY <1>1 DEF TypeOK, Setup, Online, Launch, UseExternal, ConfigureProxy, Finalize, Execute,
                WriteManifest, Raise, NextBuild, Fail, Kill
  <2>. QED
    BY <2>1, <2>2
<1>2. ASSUME NEW r \in Runs, Spawn(r) PROVE ServiceInv'
  BY <1>2 DEF Spawn, TypeOK
<1>3. ASSUME NEW r \in Runs, StartFailed(r) PROVE ServiceInv'
  <2>1. CASE UNCHANGED service
    BY <1>3, <2>1 DEF StartFailed, TypeOK
  <2>2. CASE Stop(r)
    BY <1>3, <2>2 DEF StartFailed, Stop, Lost, TypeOK
  <2>. QED
    BY <1>3, <2>1, <2>2 DEF StartFailed
<1>4. ASSUME NEW r \in Runs, CreateSession(r) PROVE ServiceInv'
  <2>1. \A q \in Runs : pc'[q] \in {"start", "spawn"} => pc[q] \in {"start", "spawn"}
    BY <1>4 DEF TypeOK, CreateSession
  <2>. QED
    BY <1>4, <2>1 DEF CreateSession, TypeOK
<1>5. ASSUME NEW r \in Runs, Revoke(r) \/ GetReport(r) \/ Delete(r) \/ Purge(r) PROVE ServiceInv'
  <2>1. \A q \in Runs : pc'[q] \in {"start", "spawn"} => pc[q] \in {"start", "spawn"}
    BY <1>5 DEF TypeOK, Revoke, GetReport, Delete, Purge, Request, Raise
  <2>2. \/ UNCHANGED session
        \/ daemon = "up" /\ daemon' = "up"
    BY <1>5 DEF Revoke, GetReport, Delete, Purge, Request, Raise
  <2>3. UNCHANGED <<daemon, owner, proc>>
    BY <1>5 DEF Revoke, GetReport, Delete, Purge, Request
  <2>. QED
    BY <2>1, <2>2, <2>3
<1>6. ASSUME NEW r \in Runs, Exit(r) PROVE ServiceInv'
  <2>1. \A q \in Runs : pc'[q] \in {"start", "spawn"} => q # r /\ pc[q] \in {"start", "spawn"}
    BY <1>6 DEF TypeOK, Exit
  <2>2. CASE UNCHANGED service
    BY <2>1, <2>2
  <2>3. CASE Stop(r)
    BY <2>1, <2>3 DEF Stop, Lost, TypeOK
  <2>. QED
    BY <1>6, <2>2, <2>3 DEF Exit
<1>7. ASSUME NEW r \in Runs, Bind(r) PROVE ServiceInv'
  BY <1>7 DEF Bind, TypeOK
<1>8. CASE IdleShutdown
  BY <1>8 DEF IdleShutdown, TypeOK
<1>9. CASE UNCHANGED vars
  BY <1>9 DEF vars
<1>. QED
  BY <1>1, <1>2, <1>3, <1>4, <1>5, <1>6, <1>7, <1>8, <1>9, NextCases

\* A step of a run keeps the run's own part of the invariant.
LEMMA OwnStep ==
  ASSUME TypeOK, TypeOK', ServiceInv, NEW r \in Runs, RunInv(r),
         Step(r) \/ Kill(r) \/ Bind(r)
  PROVE  RunInv(r)'
<1>0. /\ build[r] \in 1..Builds /\ build'[r] \in 1..Builds /\ Builds \in Nat
      /\ Own(r) = <<r, build[r]>> /\ Own(r)' = <<r, build'[r]>>
      /\ \A b \in 1..Builds : <<r, b>> \in Sessions
  BY FetchAssumption DEF TypeOK, Own, Sessions
<1> USE DEF service, memory, Go, Managed
<1> DEFINE Same == UNCHANGED <<session, executed, broken>>
<1>1. CASE Setup(r)
  <2>1. Same /\ UNCHANGED <<held, build>> /\ pc[r] = "start"
        /\ pc'[r] \in {"exit", "launch", "spawn"}
    BY <1>1 DEF Setup, TypeOK
  <2>. QED
    BY <1>0, <2>1 DEF RunInv, Fresh, Holding, Routed, Served, TornDown, Before, During
<1>2. CASE Spawn(r) \/ Online(r) \/ Launch(r)
  <2>1. Same /\ UNCHANGED <<external, held, build>> /\ pc[r] \in Before /\ pc'[r] \in Before
    BY <1>2 DEF Spawn, Online, Launch, TypeOK, Before
  <2>2. pc'[r] \in {"await", "launch", "session"}
    BY <1>2 DEF Spawn, Online, Launch, TypeOK
  <2>. QED
    BY <1>0, <2>1, <2>2 DEF RunInv, Fresh, Holding, Routed, Served, TornDown, Before, During
<1>3. CASE StartFailed(r)
  <2>1. UNCHANGED <<memory, executed, broken>> /\ pc[r] = "await" /\ pc'[r] = "exit"
    BY <1>3 DEF StartFailed, TypeOK
  <2>2. \A b \in 1..Builds : session[<<r, b>>] \in {"none", "purged"} => session'[<<r, b>>] = session[<<r, b>>]
    BY <1>0, <1>3 DEF StartFailed, Stop, Lost
  <2>. QED
    BY <1>0, <2>1, <2>2 DEF RunInv, Fresh, Holding, Routed, Served, TornDown, Before, During
<1>4. CASE CreateSession(r)
  <2>1. /\ UNCHANGED <<build, external, executed, broken>> /\ ~external[r]
        /\ pc[r] = "session" /\ session' = [session EXCEPT ![<<r, build[r]>>] = "live"]
        /\ \/ pc'[r] = "exit"
           \/ pc'[r] = "proxy" /\ held'[r] = build[r] /\ proxy'[r] = Own(r)
    BY <1>0, <1>4 DEF CreateSession, TypeOK
  <2>2. /\ session'[<<r, build[r]>>] = "live"
        /\ \A b \in 1..Builds : b # build[r] => session'[<<r, b>>] = session[<<r, b>>]
    BY <1>0, <2>1 DEF TypeOK
  <2>3. Fresh(r)'
    BY <1>0, <2>1, <2>2 DEF RunInv, Fresh, Before
  <2>4. Holding(r)' /\ Routed(r)'
    BY <1>0, <2>1 DEF RunInv, Holding, Routed, Route, Before, During
  <2>5. Served(r)'
    BY <1>0, <2>1, <2>2 DEF Served
  <2>6. TornDown(r)'
    BY <1>0, <2>1, <2>2 DEF RunInv, Fresh, TornDown, Before
  <2>. QED
    BY <2>3, <2>4, <2>5, <2>6 DEF RunInv
<1>5. CASE UseExternal(r)
  <2>1. /\ Same /\ UNCHANGED <<build, external, held>> /\ external[r]
        /\ pc[r] = "session" /\ pc'[r] = "proxy" /\ proxy'[r] = External
    BY <1>5 DEF UseExternal, TypeOK
  <2>. QED
    BY <1>0, <2>1 DEF RunInv, Fresh, Holding, Routed, Route, Served, TornDown, Before, During
<1>6. CASE ConfigureProxy(r)
  <2>1. /\ Same /\ UNCHANGED <<proc, build, external, held>>
        /\ pc[r] = "proxy" /\ pc'[r] = "finalize" /\ instance'[r] = proxy[r]
    BY <1>6 DEF ConfigureProxy, TypeOK
  <2>. QED
    BY <1>0, <2>1 DEF RunInv, Fresh, Holding, Routed, Route, Served, LostToOther, TornDown, Before, During
<1>7. CASE Finalize(r)
  <2>1. /\ UNCHANGED <<proc, session, broken, build, external, held, instance>>
        /\ pc[r] = "finalize" /\ pc'[r] = "execute" /\ executed' = executed \cup {<<r, build[r]>>}
    BY <1>0, <1>7 DEF Finalize, TypeOK
  <2>. QED
    BY <1>0, <2>1 DEF RunInv, Fresh, Holding, Routed, Route, Served, LostToOther, TornDown, Before, During
<1>8. CASE Execute(r)
  <2>1. /\ Same /\ UNCHANGED <<proc, build, external, held>>
        /\ pc[r] = "execute" /\ pc'[r] = IF ~external[r] THEN "revoke" ELSE "next"
    BY <1>8 DEF Execute, TypeOK
  <2>. QED
    BY <1>0, <2>1 DEF RunInv, Fresh, Holding, Routed, Served, LostToOther, TornDown, Before, During
<1>10. ASSUME NEW at, NEW from, NEW to, NEW next, Request(r, at, from, to, next),
              <<at, from, to, next>> \in
                {<<"revoke", "live", "revoked", "report">>, <<"report", "revoked", "revoked", "delete">>,
                 <<"delete", "revoked", "deleted", "purge">>, <<"purge", "deleted", "purged", "manifest">>}
       PROVE RunInv(r)'
  <2>1. /\ UNCHANGED <<proc, build, external, held, executed>> /\ pc[r] = at
        /\ at \in {"revoke", "report", "delete", "purge"}
    BY <1>10 DEF Request
  <2>2. \/ /\ session' = session /\ broken' = broken \cup {<<r, build[r]>>} /\ pc'[r] = "exit"
        \/ /\ session' = [session EXCEPT ![<<r, build[r]>>] = to]
           /\ \/ pc'[r] = next /\ broken' = broken
              \/ pc'[r] = "exit" /\ broken' = broken \cup {<<r, build[r]>>}
    BY <1>0, <1>10 DEF Request, Raise, TypeOK
  <2>3. \A b \in 1..Builds : b # build[r] => session'[<<r, b>>] = session[<<r, b>>]
    BY <1>0, <2>2 DEF TypeOK
  <2>4. pc'[r] = next => session'[<<r, build[r]>>] = to /\ broken' = broken
    BY <1>0, <1>10, <2>2 DEF TypeOK
  <2>5. pc'[r] = "exit" => broken' = broken \cup {<<r, build[r]>>}
    BY <1>10, <2>2
  <2>6. pc'[r] \in {next, "exit"} /\ broken \subseteq broken'
    BY <2>2
  <2>7. next \in {"report", "delete", "purge", "manifest"}
    BY <1>10
  <2>8. Fresh(r)'
    BY <1>0, <2>1, <2>3, <2>6, <2>7 DEF RunInv, Fresh, Before
  <2>9. Holding(r)' /\ Routed(r)'
    BY <1>0, <2>1, <2>6, <2>7 DEF RunInv, Holding, Routed, Before, During
  <2>10. Served(r)'
    BY <1>0, <1>10, <2>1, <2>4, <2>6 DEF RunInv, Served
  <2>11. TornDown(r)'
    BY <1>0, <1>10, <2>1, <2>3, <2>4, <2>5, <2>6 DEF RunInv, TornDown
  <2>. QED
    BY <2>8, <2>9, <2>10, <2>11 DEF RunInv
<1>11. CASE Revoke(r) \/ GetReport(r) \/ Delete(r) \/ Purge(r)
  BY <1>10, <1>11 DEF Revoke, GetReport, Delete, Purge
<1>12. CASE WriteManifest(r)
  <2>1. /\ UNCHANGED <<session, executed, build, external>> /\ pc[r] = "manifest"
        /\ \/ pc'[r] = "next" /\ held'[r] = 0 /\ broken' = broken
           \/ pc'[r] = "exit" /\ held'[r] = held[r] /\ broken' = broken \cup {<<r, build[r]>>}
    BY <1>0, <1>12 DEF WriteManifest, Raise, TypeOK
  <2>. QED
    BY <1>0, <2>1 DEF RunInv, Fresh, Holding, Routed, Served, TornDown, Before, During
<1>13. CASE NextBuild(r)
  <2>1. /\ Same /\ UNCHANGED <<external, held>> /\ pc[r] = "next"
        /\ \/ pc'[r] = "exit" /\ build'[r] = build[r]
           \/ pc'[r] = "launch" /\ build'[r] = build[r] + 1
    BY <1>13 DEF NextBuild, TypeOK
  <2>2. Fresh(r)'
    BY <1>0, <2>1 DEF RunInv, Fresh, Before
  <2>3. Holding(r)' /\ Routed(r)' /\ Served(r)'
    BY <1>0, <2>1 DEF RunInv, Holding, Routed, Served, Before, During
  <2>4. TornDown(r)'
    BY <1>0, <2>1 DEF RunInv, TornDown
  <2>. QED
    BY <2>2, <2>3, <2>4 DEF RunInv
<1>14. CASE Exit(r)
  <2>1. UNCHANGED <<memory, executed, broken>> /\ pc[r] = "exit" /\ pc'[r] = "ended"
    BY <1>14 DEF Exit, TypeOK
  <2>2. \A b \in 1..Builds : session[<<r, b>>] \in {"none", "purged"} => session'[<<r, b>>] = session[<<r, b>>]
    BY <1>0, <1>14 DEF Exit, Stop, Lost
  <2>. QED
    BY <1>0, <2>1, <2>2 DEF RunInv, Fresh, Holding, Routed, Served, TornDown, Before, During
<1>15. CASE Fail(r)
  <2>1. Same /\ UNCHANGED memory /\ pc[r] \in Before \cup {"proxy", "finalize", "next"} /\ pc'[r] = "exit"
    BY <1>15 DEF Fail, TypeOK, Before
  <2>. QED
    BY <1>0, <2>1 DEF RunInv, Fresh, Holding, Routed, Served, TornDown, Before, During
<1>16. CASE Kill(r)
  <2>1. Same /\ UNCHANGED memory /\ pc'[r] = "killed"
    BY <1>16 DEF Kill, TypeOK
  <2>. QED
    BY <1>0, <2>1 DEF RunInv, Fresh, Holding, Routed, Served, TornDown, Before, During
<1>17. CASE Bind(r)
  <2>1. Same /\ UNCHANGED <<memory, pc, instance>> /\ \A p \in Runs : proc[p] = "exited" => proc'[p] = "exited"
    BY <1>17 DEF Bind, TypeOK
  <2>. QED
    BY <1>0, <2>1 DEF RunInv, Fresh, Holding, Routed, Route, Served, LostToOther, TornDown
<1>. QED
  BY <1>1, <1>2, <1>3, <1>4, <1>5, <1>6, <1>7, <1>8, <1>11, <1>12, <1>13, <1>14, <1>15,
     <1>16, <1>17 DEF Step

\* The invariant is inductive.
LEMMA SessionStep == SessionInv /\ [Next]_vars => SessionInv'
<1> SUFFICES ASSUME SessionInv, [Next]_vars PROVE SessionInv'
  OBVIOUS
<1>1. TypeOK' /\ ServiceInv'
  BY TypeStep, ServiceStep DEF SessionInv
<1>2. ASSUME NEW q \in Runs PROVE RunInv(q)'
  <2>1. CASE \E r \in Runs : Step(r) \/ Kill(r) \/ Bind(r)
    <3>1. PICK r \in Runs : Step(r) \/ Kill(r) \/ Bind(r)
      BY <2>1
    <3>2. CASE q = r
      BY <1>1, <3>1, <3>2, OwnStep DEF SessionInv
    <3>3. CASE q # r
      BY <3>1, <3>3, OthersStep, UndisturbedKeeps DEF SessionInv
    <3>. QED
      BY <3>2, <3>3
  <2>2. CASE IdleShutdown
    <3>1. Undisturbed(q)
      BY <2>2 DEF IdleShutdown, memory, Undisturbed, SessionInv, TypeOK
    <3>. QED
      BY <3>1, UndisturbedKeeps DEF SessionInv
  <2>3. CASE UNCHANGED vars
    <3>1. Undisturbed(q)
      BY <2>3 DEF vars, service, memory, Undisturbed
    <3>. QED
      BY <3>1, UndisturbedKeeps DEF SessionInv
  <2>. QED
    BY <2>1, <2>2, <2>3 DEF Next
<1>. QED
  BY <1>1, <1>2 DEF SessionInv

\* It holds before the first run.
LEMMA SessionStart == Init => SessionInv
<1> SUFFICES ASSUME Init PROVE SessionInv
  OBVIOUS
<1>1. ServiceInv
  BY FetchAssumption DEF Init, ServiceInv
<1>2. ASSUME NEW r \in Runs PROVE RunInv(r)
  <2>1. /\ pc[r] = "start" /\ external[r] = FALSE /\ held[r] = 0 /\ build[r] = 1 /\ executed = {}
        /\ \A b \in 1..Builds : session[<<r, b>>] = "none"
    BY <1>2 DEF Init, Sessions
  <2>. QED
    BY <2>1 DEF RunInv, Fresh, Holding, Routed, Served, TornDown, Before, During, Managed
<1>. QED
  BY <1>1, <1>2, InitTypes DEF SessionInv

\* What the properties of the runs say of a state follows from the invariant.
LEMMA SessionImplies == SessionInv => NeverRefused /\ ExecutesInOwnSession /\ SessionsTornDown
<1> SUFFICES ASSUME SessionInv PROVE NeverRefused /\ ExecutesInOwnSession /\ SessionsTornDown
  OBVIOUS
<1>1. NeverRefused
  BY DEF SessionInv, RunInv, Holding, NeverRefused, Before
<1>2. ExecutesInOwnSession
  <2> SUFFICES ASSUME NEW r \in Runs, pc[r] = "execute"
               PROVE  IF Managed(r)
                      THEN /\ instance[r] = Own(r) /\ held[r] = build[r]
                           /\ \/ daemon = "up" /\ session[Own(r)] = "live"
                              \/ session[Own(r)] = "lost" /\ \E q \in Runs \ {r} : proc[q] = "exited"
                      ELSE instance[r] = External
    BY DEF ExecutesInOwnSession
  <2>1. instance[r] = Route(r)
    BY DEF SessionInv, RunInv, Routed
  <2>2. Managed(r) => held[r] = build[r]
    BY DEF SessionInv, RunInv, Holding, During
  <2>3. Managed(r) => session[Own(r)] = "live" \/ LostToOther(r)
    BY DEF SessionInv, RunInv, Served
  <2>4. session[Own(r)] = "live" => daemon = "up"
    BY OwnType DEF SessionInv, ServiceInv
  <2>. QED
    BY <2>1, <2>2, <2>3, <2>4 DEF Route, LostToOther
<1>3. SessionsTornDown
  <2> SUFFICES ASSUME NEW s \in executed, pc[s[1]] = "ended", Managed(s[1]), s \notin broken
               PROVE  session[s] = "purged"
    BY DEF SessionsTornDown
  <2>1. s[1] \in Runs /\ s[2] \in 1..Builds /\ s = <<s[1], s[2]>>
    BY DEF SessionInv, TypeOK, Sessions
  <2>. QED
    BY <2>1 DEF SessionInv, RunInv, TornDown
<1>. QED
  BY <1>1, <1>2, <1>3

\* create_session is never called with a live session, in whatever order the
\* runs proceed and fail.
THEOREM NoRefusal == Spec => []NeverRefused
<1>1. Spec => []SessionInv
  BY SessionStart, SessionStep, PTL DEF Spec
<1>. QED
  BY <1>1, SessionImplies, PTL

\* A managed command runs in an instance that is routed through the session of
\* its build, and only another run can take that session from it.
THEOREM OwnSession == Spec => []ExecutesInOwnSession
<1>1. Spec => []SessionInv
  BY SessionStart, SessionStep, PTL DEF Spec
<1>. QED
  BY <1>1, SessionImplies, PTL

\* A run that came to its end has purged every session that a command ran in,
\* but those whose teardown raised.
THEOREM TornDownAtEnd == Spec => []SessionsTornDown
<1>1. Spec => []SessionInv
  BY SessionStart, SessionStep, PTL DEF Spec
<1>. QED
  BY <1>1, SessionImplies, PTL
=============================================================================
