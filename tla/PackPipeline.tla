---------------------------- MODULE PackPipeline ----------------------------
(***************************************************************************)
(* The packing pipeline of craft-application as seen by one project work   *)
(* tree: a lifecycle command (pull, build, stage, prime, pack) plans and   *)
(* executes the part steps, runs the post-prime steps and, for pack,       *)
(* decides for every declared artifact whether it has to be packed again.  *)
(*                                                                         *)
(* Commands run one after the other in the process that executes the       *)
(* lifecycle (destructive mode, or inside the managed instance).  The work *)
(* tree (part states, prime directory, artifacts) survives a command; the  *)
(* fields of the services (requires_repack, _project_was_updated, the      *)
(* loaded project) do not.  The user edits sources, the project file and   *)
(* extra assets at any time, and any command can fail or be interrupted    *)
(* between two steps.                                                      *)
(***************************************************************************)
EXTENDS Naturals

CONSTANTS
  Parts,        \* the parts of the project
  Artifacts,    \* the keys of PackageService.get_artifacts()
  Default,      \* the artifact packed from the default prime directory
  Versions,     \* contents a source, the metadata or an asset can have
  Generated,    \* Generated[a]: files of a's prime directory the application
                \* generates (@package_file and _gen_extra_assets)
  AlwaysRepack, \* AppMetadata.always_repack
  Conditional,  \* PackageService.supports_conditional_repack
  HonestClock,  \* an edited asset always gets a newer modification time
  Used,         \* bound: the commands the user runs
  WhileRunning  \* bound: whether the user edits while a command runs

\* The files of a prime directory that are not installed by parts.
Metadata == "metadata.yaml"
PackageFile == "package file"
Asset == "asset"
Files == {Metadata, PackageFile, Asset}

ASSUME PipelineAssumption ==
  /\ Parts # {} /\ Versions # {} /\ Default \in Artifacts
  /\ Generated \in [Artifacts -> SUBSET Files]
  /\ AlwaysRepack \in BOOLEAN /\ Conditional \in BOOLEAN
  /\ HonestClock \in BOOLEAN /\ WhileRunning \in BOOLEAN
  /\ Used \subseteq {"pull", "build", "stage", "prime", "pack"}

\* Contents that are not a version: nothing there, half written, edited by hand.
Absent == "absent"
Partial == "partial"
Tampered == "tampered"
ASSUME VersionAssumption == {Absent, Partial, Tampered} \cap Versions = {}

\* The steps of the lifecycle; a part is at level n after its n-th step.
Pull == 1
Build == 2
Stage == 3
Prime == 4
Levels == 0..Prime
Commands == {"pull", "build", "stage", "prime", "pack"}

\* A finished artifact: what the prime directory held when it was packed.
PrimeContent == [parts: [Parts -> Versions \cup {Absent, Partial}],
                 files: [Files -> Versions \cup {Absent, Partial, Tampered}]]
NotAFile == [state |-> Absent]
HalfWritten == [state |-> Partial]

VARIABLES
  \* the work tree
  src,       \* src[p]: the source of part p as the user left it
  metadata,  \* the metadata fields of the project file
  asset,     \* the extra asset file outside the prime directory
  outdated,  \* outdated[p]: src[p] was edited after it was last pulled
  newer,     \* newer[a]: the asset is younger than the copy in a's prime dir
  pulled,    \* pulled[p]: the source version of the last pull
  level,     \* level[p]: the last step recorded in the state of part p
  primed,    \* primed[p]: what part p has in the prime directory
  files,     \* files[a]: the other files of a's prime directory
  artifact,  \* artifact[a]: the artifact file
  \* the running command
  pc, cmd, shell,
  loaded,    \* the metadata of the project model held by the process
  todo,      \* planned actions other than SKIP, not executed yet
  requires,  \* LifecycleService._requires_repack
  updated,   \* PackageService._project_was_updated
  outcome,   \* outcome[a]: progress of pack_artifacts() for artifact a
  copied,    \* copied[a]: what _write_asset has read of the asset, to be written
  \* history
  worked,    \* this command has executed an action
  orphaned,  \* orphaned[a]: an earlier command changed a's prime directory
             \* and ended without packing a, and a was not packed since
  torn,      \* torn[a]: the copy of the asset in a's prime directory is half
             \* written, or the asset was edited between its read and its write,
             \* and the asset was not touched since
  quiet      \* "yes": nothing changed since a pack command that completed;
             \* "run": nothing changed since the running pack command started

tree == <<src, metadata, asset, outdated, newer, pulled, level, primed, files, artifact>>
process == <<pc, cmd, shell, loaded, todo, requires, updated, outcome, copied>>
history == <<worked, orphaned, torn, quiet>>
vars == <<tree, process, history>>

Outcomes == {"undecided", "chosen", "written", "ready", "packed", "skipped"}
PCs == {"idle", "exec", "update", "metadata", "decide", "record"}

\* What PackageService._pack() would put into artifact a.
Content(a) == [parts |-> primed, files |-> files[a]]

Touched(a) == outcome[a] \in {"written", "ready"}
-----------------------------------------------------------------------------
Init ==
  /\ src \in [Parts -> Versions] /\ metadata \in Versions /\ asset \in Versions
  /\ outdated = [p \in Parts |-> FALSE]
  /\ newer = [a \in Artifacts |-> FALSE]
  /\ pulled = src
  /\ level = [p \in Parts |-> 0]
  /\ primed = [p \in Parts |-> Absent]
  /\ files = [a \in Artifacts |-> [f \in Files |-> Absent]]
  /\ artifact = [a \in Artifacts |-> NotAFile]
  /\ pc = "idle" /\ cmd = "pack" /\ shell = FALSE
  /\ loaded = Absent
  /\ todo = {}
  /\ requires = FALSE /\ updated = FALSE
  /\ outcome = [a \in Artifacts |-> "undecided"]
  /\ copied = [a \in Artifacts |-> Absent]
  /\ worked = FALSE
  /\ orphaned = [a \in Artifacts |-> FALSE] /\ torn = [a \in Artifacts |-> FALSE]
  /\ quiet = "no"
-----------------------------------------------------------------------------
(* The user. *)

EditSource(p) ==
  /\ WhileRunning \/ pc = "idle"
  /\ \E v \in Versions : src' = [src EXCEPT ![p] = v]
  /\ outdated' = [outdated EXCEPT ![p] = TRUE]
  /\ quiet' = "no"
  /\ UNCHANGED <<metadata, asset, newer, pulled, level, primed, files, artifact,
                 process, worked, orphaned, torn>>

EditMetadata ==
  /\ WhileRunning \/ pc = "idle"
  /\ metadata' \in Versions
  /\ quiet' = "no"
  /\ UNCHANGED <<src, asset, outdated, newer, pulled, level, primed, files, artifact,
                 process, worked, orphaned, torn>>

\* Replacing a file by one with an older time stamp (cp -p, mv, tar) changes
\* its content without making it younger than the copy in the prime directory.
EditAsset ==
  /\ WhileRunning \/ pc = "idle"
  /\ \E a \in Artifacts : Asset \in Generated[a]
  /\ asset' \in Versions
  /\ \/ /\ newer' = [a \in Artifacts |-> files[a][Asset] # Absent]
        /\ torn' = [a \in Artifacts |-> FALSE]
     \/ ~HonestClock /\ UNCHANGED <<newer, torn>>
  /\ quiet' = "no"
  /\ UNCHANGED <<src, metadata, outdated, pulled, level, primed, files, artifact,
                 process, worked, orphaned>>

\* The user overwrites a generated package file in the prime directory.
Tamper(a) ==
  /\ pc = "idle"
  /\ files[a][PackageFile] # Absent
  /\ files' = [files EXCEPT ![a][PackageFile] = Tampered]
  /\ quiet' = "no"
  /\ UNCHANGED <<src, metadata, asset, outdated, newer, pulled, level, primed, artifact,
                 process, worked, orphaned, torn>>

RemoveArtifact(a) ==
  /\ pc = "idle"
  /\ artifact' = [artifact EXCEPT ![a] = NotAFile]
  /\ quiet' = "no"
  /\ UNCHANGED <<src, metadata, asset, outdated, newer, pulled, level, primed, files,
                 process, worked, orphaned, torn>>

\* CleanCommand outside a provider: LifecycleService.clean(part_names), where
\* no names mean every part and the whole prime directory; named parts are
\* cleaned alone, even if they are all there are.
Clean(names) ==
  /\ pc = "idle"
  /\ level' = [p \in Parts |-> IF p \in names \/ names = {} THEN 0 ELSE level[p]]
  /\ primed' = [p \in Parts |-> IF p \in names \/ names = {} THEN Absent ELSE primed[p]]
  /\ files' = IF names = {}
              THEN [a \in Artifacts |-> [f \in Files |-> Absent]] ELSE files
  /\ newer' = [a \in Artifacts |-> newer[a] /\ names # {}]
  /\ torn' = [a \in Artifacts |-> torn[a] /\ names # {}]
  /\ quiet' = "no"
  /\ UNCHANGED <<src, metadata, asset, outdated, pulled, artifact,
                 process, worked, orphaned>>
-----------------------------------------------------------------------------
(* A command. *)

\* Mutant: one step too far.
TargetPast(c, sh) == IF c = "build" THEN Stage ELSE Prime + 1

\* The step LifecycleCommand._run asks for: --shell stops before the step of
\* the command, except that pack always primes.
Target(c, sh) ==
  LET step == CASE c = "pull" -> Pull [] c = "build" -> Build
                [] c = "stage" -> Stage [] OTHER -> Prime
  IN  IF sh /\ c # "pack" THEN step - 1 ELSE step

\* The part names a command line can have; none means all of them.
Names(c, ps) == c = "pack" => ps = Parts

\* Mutant: an outdated source is pulled again, and that is all.
PlannedPull(ps, target) ==
  {t \in ps \X (1..target) : (outdated[t[1]] /\ t[2] = Pull) \/ t[2] > level[t[1]]}

\* LifecycleManager.plan() without the SKIP actions: the steps a part has not
\* reached, and every step of a part whose source is outdated.
Planned(ps, target) ==
  {t \in ps \X (1..target) : outdated[t[1]] \/ t[2] > level[t[1]]}

\* A command line and LifecycleService.run() up to
\* _exec: requires_repack is computed from the plan of this run alone.
Start(c, ps, sh) ==
  /\ pc = "idle"
  /\ Names(c, ps)
  /\ pc' = "exec"
  /\ cmd' = c /\ shell' = sh
  /\ todo' = Planned(ps, Target(c, sh))
  /\ requires' = (todo' # {})
  /\ loaded' = metadata
  /\ updated' = FALSE
  /\ outcome' = [a \in Artifacts |-> "undecided"]
  /\ worked' = FALSE
  /\ quiet' = IF c # "pack" THEN "no" ELSE IF quiet = "yes" THEN "yes" ELSE "run"
  /\ UNCHANGED <<tree, copied, orphaned, torn>>

\* The effect of one executed action on the work tree.
Effect(p, n) ==
  /\ level' = [level EXCEPT ![p] = n]
  /\ IF n = Pull
     THEN /\ pulled' = [pulled EXCEPT ![p] = src[p]]
          /\ outdated' = [outdated EXCEPT ![p] = FALSE]
     ELSE UNCHANGED <<pulled, outdated>>
  /\ primed' = IF n = Prime THEN [primed EXCEPT ![p] = pulled[p]] ELSE primed

\* Actions run step by step over all parts.
Execute(p, n) ==
  /\ pc = "exec"
  /\ <<p, n>> \in todo
  /\ \A t \in todo : n <= t[2]
  /\ Effect(p, n)
  /\ todo' = todo \ {<<p, n>>}
  /\ worked' = TRUE
  /\ UNCHANGED <<src, metadata, asset, newer, files, artifact,
                 pc, cmd, shell, loaded, requires, updated, outcome, copied,
                 orphaned, torn, quiet>>

\* The process is gone, and with it what its services held in memory.
Exit ==
  /\ pc' = "idle"
  /\ cmd' = "pack" /\ shell' = FALSE
  /\ loaded' = Absent
  /\ todo' = {}
  /\ requires' = FALSE /\ updated' = FALSE
  /\ outcome' = [a \in Artifacts |-> "undecided"]
  /\ copied' = [a \in Artifacts |-> Absent]
  /\ worked' = FALSE

\* History kept when a command ends, whatever the reason.
Orphan(changed) ==
  orphaned' = [a \in Artifacts |->
                 orphaned[a] \/ (outcome[a] # "packed" /\ (changed \/ Touched(a)))]

\* The command returns: every command but prime and pack after the lifecycle,
\* prime after the post-prime steps, pack --shell without packing.
Return ==
  /\ \/ pc = "exec" /\ todo = {} /\ cmd \notin {"prime", "pack"}
     \/ pc = "decide" /\ cmd = "prime"
     \/ pc = "decide" /\ cmd = "pack" /\ shell
  /\ Exit
  /\ Orphan(worked)
  /\ quiet' = "no"
  /\ UNCHANGED <<tree, torn>>

LifecycleDone ==
  /\ pc = "exec" /\ todo = {} /\ cmd \in {"prime", "pack"}
  /\ pc' = "update"
  /\ UNCHANGED <<tree, cmd, shell, loaded, todo, requires, updated, outcome, copied, history>>

\* PackageService.update_project(): the application hook may change the
\* project model and reports whether it did.
UpdateProject ==
  /\ pc = "update"
  /\ \/ updated' = FALSE /\ loaded' = loaded
     \/ updated' = TRUE /\ loaded' \in Versions
  /\ pc' = "metadata"
  /\ UNCHANGED <<tree, cmd, shell, todo, requires, outcome, copied, history>>

\* PackageService.write_metadata(prime_dir), after prime as well as in pack.
WriteMetadata ==
  /\ pc = "metadata"
  /\ files' = [files EXCEPT ![Default][Metadata] = loaded]
  /\ pc' = "decide"
  /\ UNCHANGED <<src, metadata, asset, outdated, newer, pulled, level, primed, artifact,
                 cmd, shell, loaded, todo, requires, updated, outcome, copied, history>>

\* Mutant: an asset file that is there is taken as it is.
FileChangedIfAbsent(a, f) ==
  IF f = Asset THEN files[a][f] = Absent ELSE files[a][f] # loaded

\* PackageService._asset_changed() over the files generated for a: generated
\* text is compared with the copy, an asset file only by modification time.
FileChanged(a, f) ==
  IF f = Asset THEN files[a][f] = Absent \/ newer[a]
               ELSE files[a][f] # loaded

\* Mutant: what the lifecycle executed is not considered.
NeedsPackingByFiles(a) ==
  \/ AlwaysRepack \/ updated
  \/ artifact[a] = NotAFile
  \/ \E f \in Generated[a] : FileChanged(a, f)

NeedsPacking(a) ==
  \/ AlwaysRepack \/ requires \/ updated
  \/ artifact[a] = NotAFile
  \/ \E f \in Generated[a] : FileChanged(a, f)

Packing ==
  /\ pc = "decide" /\ cmd = "pack" /\ ~shell
  /\ \A a \in Artifacts : outcome[a] \in {"undecided", "packed", "skipped"}

\* The legacy path calls pack() for everything and generates no file.
Decide(a) ==
  /\ Packing
  /\ outcome[a] = "undecided"
  /\ outcome' = [outcome EXCEPT ![a] =
                   IF ~Conditional THEN "ready"
                   ELSE IF NeedsPacking(a) THEN "chosen" ELSE "skipped"]
  /\ UNCHANGED <<tree, pc, cmd, shell, loaded, todo, requires, updated, copied, history>>

\* Mutant: the package files are compared and never written.
WriteNoPackageFiles(a) ==
  /\ outcome[a] = "chosen" /\ pc = "decide"
  /\ outcome' = [outcome EXCEPT ![a] = "written"]
  /\ UNCHANGED <<tree, pc, cmd, shell, loaded, todo, requires, updated, copied, history>>

WritePackageFiles(a) ==
  /\ outcome[a] = "chosen" /\ pc = "decide"
  /\ files' = [files EXCEPT ![a] =
                 [f \in Files |-> IF f \in Generated[a] \ {Asset} THEN loaded ELSE @[f]]]
  /\ outcome' = [outcome EXCEPT ![a] = "written"]
  /\ UNCHANGED <<src, metadata, asset, outdated, newer, pulled, level, primed, artifact,
                 pc, cmd, shell, loaded, todo, requires, updated, copied, history>>

\* _write_asset() of an extra asset reads all of it first ...
ReadExtraAssets(a) ==
  /\ outcome[a] = "written" /\ pc = "decide"
  /\ Asset \in Generated[a] /\ copied[a] = Absent
  /\ copied' = [copied EXCEPT ![a] = asset]
  /\ UNCHANGED <<tree, pc, cmd, shell, loaded, todo, requires, updated, outcome, history>>

\* ... and then writes what it read, which the user may have edited since: the
\* copy is younger than the asset in either case.
WriteExtraAssets(a) ==
  /\ outcome[a] = "written" /\ pc = "decide"
  /\ IF Asset \in Generated[a]
     THEN /\ copied[a] # Absent
          /\ files' = [files EXCEPT ![a][Asset] = copied[a]]
          /\ newer' = [newer EXCEPT ![a] = FALSE]
          /\ copied' = [copied EXCEPT ![a] = Absent]
          /\ torn' = [torn EXCEPT ![a] = copied[a] # asset]
     ELSE UNCHANGED <<files, newer, copied, torn>>
  /\ outcome' = [outcome EXCEPT ![a] = "ready"]
  /\ UNCHANGED <<src, metadata, asset, outdated, pulled, level, primed, artifact,
                 pc, cmd, shell, loaded, todo, requires, updated, worked, orphaned, quiet>>

PackArtifact(a) ==
  /\ outcome[a] = "ready" /\ pc = "decide"
  /\ artifact' = [artifact EXCEPT ![a] = Content(a)]
  /\ outcome' = [outcome EXCEPT ![a] = "packed"]
  /\ orphaned' = [orphaned EXCEPT ![a] = FALSE]
  /\ UNCHANGED <<src, metadata, asset, outdated, newer, pulled, level, primed, files,
                 pc, cmd, shell, loaded, todo, requires, updated, copied, worked, torn, quiet>>

\* The rest of PackCommand._run_pack: the declared artifacts are written to
\* the state service and the outcome of each is reported.
Finish ==
  /\ Packing
  /\ \A a \in Artifacts : outcome[a] # "undecided"
  /\ pc' = "record"
  /\ UNCHANGED <<tree, cmd, shell, loaded, todo, requires, updated, outcome, copied, history>>

Report ==
  /\ pc = "record"
  /\ Exit
  /\ Orphan(worked)
  /\ quiet' = IF quiet # "no" /\ ~updated THEN "yes" ELSE "no"
  /\ UNCHANGED <<tree, torn>>

\* An error, a signal or a crash between two steps ends the command.  A part
\* may be half installed, the copy of an asset or an artifact half written.
Abort ==
  /\ pc # "idle"
  /\ Exit
  /\ \/ UNCHANGED <<primed, files, newer, artifact, torn>> /\ Orphan(worked)
     \/ /\ pc = "exec" /\ \A t \in todo : t[2] = Prime
        /\ \E t \in todo : primed' = [primed EXCEPT ![t[1]] = Partial]
        /\ UNCHANGED <<files, newer, artifact, torn>>
        /\ Orphan(TRUE)
     \/ /\ pc = "decide"
        /\ \E a \in Artifacts :
             /\ outcome[a] = "written" /\ Asset \in Generated[a] /\ copied[a] # Absent
             /\ files' = [files EXCEPT ![a][Asset] = Partial]
             /\ newer' = [newer EXCEPT ![a] = FALSE]
             /\ torn' = [torn EXCEPT ![a] = TRUE]
        /\ UNCHANGED <<primed, artifact>>
        /\ Orphan(worked)
     \/ /\ pc = "decide"
        /\ \E a \in Artifacts : /\ outcome[a] = "ready"
                                /\ artifact' = [artifact EXCEPT ![a] = HalfWritten]
        /\ UNCHANGED <<primed, files, newer, torn>>
        /\ Orphan(worked)
  /\ quiet' = "no"
  /\ UNCHANGED <<src, metadata, asset, outdated, pulled, level>>
-----------------------------------------------------------------------------
User ==
  \/ \E p \in Parts : EditSource(p)
  \/ EditMetadata
  \/ EditAsset
  \/ \E a \in Artifacts : Tamper(a) \/ RemoveArtifact(a)
  \/ \E names \in SUBSET Parts : Clean(names)
  \/ \E c \in Used, ps \in SUBSET Parts \ {{}}, sh \in BOOLEAN : Start(c, ps, sh)

Program ==
  \/ \E p \in Parts, n \in Levels : Execute(p, n)
  \/ LifecycleDone \/ UpdateProject \/ WriteMetadata
  \/ \E a \in Artifacts : \/ Decide(a)
                          \/ WritePackageFiles(a)
                          \/ ReadExtraAssets(a) \/ WriteExtraAssets(a)
                          \/ PackArtifact(a)
  \/ Finish \/ Report \/ Return

Next == User \/ Program \/ Abort

Spec == Init /\ [][Next]_vars
-----------------------------------------------------------------------------
\* Every variable stays in its type.
TypeOK ==
  /\ src \in [Parts -> Versions] /\ metadata \in Versions /\ asset \in Versions
  /\ outdated \in [Parts -> BOOLEAN] /\ newer \in [Artifacts -> BOOLEAN]
  /\ pulled \in [Parts -> Versions]
  /\ level \in [Parts -> Levels]
  /\ primed \in [Parts -> Versions \cup {Absent, Partial}]
  /\ files \in [Artifacts -> [Files -> Versions \cup {Absent, Partial, Tampered}]]
  /\ artifact \in [Artifacts -> PrimeContent \cup {NotAFile, HalfWritten}]
  /\ pc \in PCs /\ cmd \in Commands /\ shell \in BOOLEAN
  /\ loaded \in Versions \cup {Absent}
  /\ todo \in SUBSET (Parts \X Levels)
  /\ requires \in BOOLEAN /\ updated \in BOOLEAN
  /\ outcome \in [Artifacts -> Outcomes]
  /\ copied \in [Artifacts -> Versions \cup {Absent}]
  /\ worked \in BOOLEAN
  /\ orphaned \in [Artifacts -> BOOLEAN] /\ torn \in [Artifacts -> BOOLEAN]
  /\ quiet \in {"no", "run", "yes"}

\* PackageService.needs_packing returns False for an artifact only if the file
\* on disk holds exactly what is in its prime directory, unless an earlier
\* command changed that directory and ended before packing the artifact.
SkipIsSound ==
  [][\A a \in Artifacts :
       outcome[a] = "undecided" /\ outcome'[a] = "skipped"
         => artifact[a] = Content(a) \/ orphaned[a]]_vars

\* The artifacts PackCommand._run_pack reports as "Already packed" are current:
\* the file holds what is in the prime directory.
SkippedIsCurrent ==
  [][\A a \in Artifacts :
       outcome[a] = "undecided" /\ outcome'[a] = "skipped"
         => artifact[a] = Content(a)]_vars

\* A pack command that follows a completed one, with no change by the user and
\* no update by the application in between, packs nothing again.
RepackOnlyWhenChanged ==
  [][\A a \in Artifacts :
       outcome[a] = "undecided" /\ outcome'[a] = "chosen"
         => quiet # "yes" \/ updated \/ AlwaysRepack]_vars

\* When pack has handled every artifact, each file it packed, or skipped with
\* nothing orphaned before, was made from the present source of every part that
\* was not edited since it was pulled, and from the loaded metadata.
PackedIsFresh ==
  pc = "record" =>
    \A a \in Artifacts :
      outcome[a] = "packed" \/ ~orphaned[a] =>
        /\ artifact[a] \in PrimeContent
        /\ \A p \in Parts : outdated[p] \/ artifact[a].parts[p] = src[p]
        /\ a = Default => artifact[a].files[Metadata] = loaded

\* An artifact that is skipped, with nothing orphaned before, holds the extra
\* asset the application would copy now (PackageService._asset_changed), unless
\* that copy was half written, or the asset was edited while it was copied.
SkippedAssetIsCurrent ==
  [][\A a \in Artifacts :
       /\ outcome[a] = "undecided" /\ outcome'[a] = "skipped"
       /\ Asset \in Generated[a]
       => orphaned[a] \/ torn[a] \/ artifact[a].files[Asset] = asset]_vars
=============================================================================
