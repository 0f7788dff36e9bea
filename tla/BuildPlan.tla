------------------------------ MODULE BuildPlan ------------------------------
(***************************************************************************)
(* What is built, where and for what: the platforms of a project, the      *)
(* choice of the platform the project is rendered for                      *)
(* (ProjectService.configure) and the build plan with its filters          *)
(* (BuildPlanService).                                                     *)
(*                                                                         *)
(* A declared platform is [name, on, for], where "on" is the sequence      *)
(* under build-on and "for" the target under build-for; a key that is      *)
(* left out is <<>> or None.  A build is [platform, on, for].  Filters are *)
(* sets; None is no filter.                                                *)
(***************************************************************************)
EXTENDS Sequences, SequencesExt, Selection

CONSTANTS
  None,      \* Python's None
  Archs      \* Debian architectures

Targets == Archs \cup {"all"}
Declaration == [name : STRING, on : Seq(STRING), for : STRING \cup {None}]

\* The shorthands: a platform named like an architecture may leave out
\* build-for, or both keys.
Vectorised(p) ==
  [name |-> p.name,
   on |-> IF p.on = <<>> /\ p.for = None THEN <<p.name>> ELSE p.on,
   for |-> IF p.for = None /\ p.name \in Targets THEN p.name ELSE p.for]

Platforms(declared) == [i \in DOMAIN declared |-> Vectorised(declared[i])]

\* What the platforms model refuses.
Valid(declared) ==
  \A i \in DOMAIN declared :
     LET p == Vectorised(declared[i])
     IN p.on # <<>> /\ Range(p.on) \subseteq Archs /\ p.for \in Targets

\* craft_platforms.get_build_plan: every way to build the project.
ExhaustivePlan(platforms) ==
  FlattenSeq([i \in DOMAIN platforms |->
     [j \in DOMAIN platforms[i].on |->
        [platform |-> platforms[i].name, on |-> platforms[i].on[j], for |-> platforms[i].for]]])

Keeps(filter, value) == filter = None \/ value \in filter

\* Of the builds that pass the filters, the first for each platform.
Passes(b, names, fors, ons) ==
  Keeps(names, b.platform) /\ Keeps(fors, b.for) /\ Keeps(ons, b.on)
FilterPlan(plan, names, fors, ons) ==
  LET passing == {i \in DOMAIN plan : Passes(plan[i], names, fors, ons)}
  IN Select(plan, {i \in passing :
                     \A j \in passing : plan[j].platform = plan[i].platform => i <= j})

CreateBuildPlan(declared, names, fors, ons) ==
  FilterPlan(ExhaustivePlan(Platforms(declared)), names, fors, ons)

Named(platforms, name) == platforms[CHOOSE i \in DOMAIN platforms : platforms[i].name = name]

\* The positions of the platforms that can be built on host for target.
Candidates(platforms, host, target) ==
  {i \in DOMAIN platforms : host \in Range(platforms[i].on) /\ target \in {None, platforms[i].for}}

\* What ProjectService.configure() raises, or None.
ConfigureError(declared, host, platform, target) ==
  LET platforms == Platforms(declared)
      names == {platforms[i].name : i \in DOMAIN platforms}
  IN IF ~Valid(declared) THEN "InvalidPlatforms"
     ELSE IF platform \notin names \cup {None} THEN "InvalidPlatformError"
     ELSE IF target \notin Targets \cup {None} THEN "CraftValidationError"
     ELSE IF platform = None /\ target # None /\ Candidates(platforms, host, target) = {}
       THEN "ProjectGenerationError"
     ELSE None

\* The platform, build-on and build-for the project is rendered for.
Configured(declared, host, platform, target) ==
  LET platforms == Platforms(declared)
      candidates == Candidates(platforms, host, target)
      p == IF platform # None THEN Named(platforms, platform)
           ELSE IF candidates # {} THEN platforms[Min(candidates)]
           ELSE Head(platforms)
  IN [platform |-> p.name,
      on |-> IF platform = None /\ candidates = {} THEN Head(p.on) ELSE host,
      for |-> IF target # None THEN target ELSE p.for]
=============================================================================
