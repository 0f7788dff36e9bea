----------------------------- MODULE SpreadTest -----------------------------
(***************************************************************************)
(* What the test command has spread run (TestingService and the spread     *)
(* models): the user's spread.yaml with the application's own backend      *)
(* filled in, and the expressions that are handed to spread.               *)
(*                                                                         *)
(* A backend is [name, type, systems], a suite [name, systems]; a key that *)
(* is left out is None or {}; "valid" says whether the file is one.  A job is one suite on one system of one     *)
(* backend.  An expression names a backend, a system and a suite, None     *)
(* where it does not care.  The name of a system is a sequence, so that    *)
(* one name can start with another.  "ci" is the system of the CI machine: *)
(* None if this is not one, <<>> if its distribution is not known.         *)
(***************************************************************************)
EXTENDS Sequences, SequencesExt

CONSTANT None

Every == [backend |-> None, system |-> None, suite |-> None]
Craft == [Every EXCEPT !.backend = "craft"]

\* SpreadYaml.from_craft(): the backend "craft" without a type of its own runs
\* in a virtual machine, or on CI on the machine itself.
BackendType(ci) == IF ci = None THEN "lxd-vm" ELSE "ci"
BackendFromCraft(b, ci) ==
  IF b.name = "craft" /\ b.type \in {None, "craft"} THEN [b EXCEPT !.type = BackendType(ci)]
  ELSE IF b.type = None THEN [b EXCEPT !.type = b.name]
  ELSE b
FromCraft(spread, ci) ==
  [spread EXCEPT !.backends = {BackendFromCraft(b, ci) : b \in spread.backends}]

\* What spread makes of a file.  A suite that names no systems is for all.
Job(b, system, suite) ==
  [backend |-> b.name, type |-> b.type, system |-> system, suite |-> suite.name]
Jobs(spread) ==
  UNION {{Job(b, s, u) : s \in IF u.systems = {} THEN b.systems ELSE b.systems \cap u.systems}
           : b \in spread.backends, u \in spread.suites}
Matches(job, expression) ==
  \A part \in {"backend", "system", "suite"} : expression[part] \in {None, job[part]}
Listed(spread, expressions) ==
  {j \in Jobs(spread) : \E e \in expressions : Matches(j, e)}

\* Mutant: a name that starts like the name of the host's system is taken for it.
FilterSpreadJobsByText(spread, expressions, ci) ==
  {[backend |-> j.backend, system |-> j.system, suite |-> j.suite] :
     j \in {k \in Listed(spread, expressions) : k.backend = "craft" /\ IsPrefix(ci, k.system)}}

\* The listed jobs that start with "craft:<system>:".
FilterSpreadJobs(spread, expressions, ci) ==
  {[backend |-> j.backend, system |-> j.system, suite |-> j.suite] :
     j \in {k \in Listed(spread, expressions) : k.backend = "craft" /\ ci \in {<<>>, k.system}}}

\* _get_spread_command(): the expressions spread gets.  On CI others than the
\* whole backend are first expanded to jobs.
CraftPrefix(ci) == [Craft EXCEPT !.system = IF ci = <<>> THEN None ELSE ci]
SpreadCommand(spread, expressions, ci) ==
  IF expressions = {} \/ (ci # None /\ expressions = {Craft}) THEN {CraftPrefix(ci)}
  ELSE IF ci # None THEN FilterSpreadJobs(spread, expressions, ci)
  ELSE expressions

\* run_spread(): the jobs that run.  Without any, the command fails.
RunSpread(simple, expressions, ci) ==
  LET spread == FromCraft(simple, ci)
  IN Listed(spread, SpreadCommand(spread, expressions, ci))

\* What the user asked for: the jobs she named, or those of the application's
\* backend; on CI only what the machine itself can run.
AskedJobs(simple, expressions, ci) ==
  {j \in Jobs(FromCraft(simple, ci)) :
     /\ \E e \in IF expressions = {} THEN {Craft} ELSE expressions : Matches(j, e)
     /\ ci # None => j.backend = "craft" /\ ci \in {<<>>, j.system}}
=============================================================================
