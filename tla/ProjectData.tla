---------------------------- MODULE ProjectData ----------------------------
(***************************************************************************)
(* The data of a project in one lifecycle command: read once from the      *)
(* project file and rendered (ProjectService), adopted from a part while   *)
(* the lifecycle runs, merged back (PackageService.update_project), and    *)
(* written to metadata.yaml.  The user edits the file at any time, and     *)
(* runs the init command between lifecycle commands (module InitProject).  *)
(*                                                                         *)
(* craft-parts is external: the part that adopt-info names sets variables  *)
(* each time it is executed, and if it is skipped those it set last are    *)
(* restored.                                                               *)
(***************************************************************************)
EXTENDS InitProject

CONSTANTS
  Fields,      \* the fields of the project
  Variables,   \* AppMetadata.project_variables
  Mandatory,   \* AppMetadata.mandatory_adoptable_fields
  Strict,      \* fields whose characters the model checks
  Adopted,     \* the value a part sets
  Extras,      \* bound: what a subclass's _extra_project_updates changes
  Parsed(_),   \* a text as a project, [dict, valid, platforms, adopt, fields]
  Expand(_)    \* craft_parts.expand_environment of a value

ASSUME DataAssumption ==
  /\ Variables \subseteq Fields /\ Mandatory \subseteq Fields /\ Strict \subseteq Fields
  /\ Parsed(<<"rendered">>).valid

VARIABLES
  proc,    \* the process of the lifecycle command
  saved    \* the variables set by the last execution of the part, None if never

vars == <<initvars, proc, saved>>

\* raw, platforms, projectvars and model are the private attributes of the
\* project service, set the variables the part has set, extra what a subclass
\* changed.
Idle == [pc |-> "none", raw |-> None, platforms |-> None, projectvars |-> None,
         model |-> None, set |-> {}, extra |-> <<>>]
Packing == proc # Idle
At(pc) == proc.pc = pc
Continue(r, pc) == proc' = [r EXCEPT !.pc = pc]
Raise == proc' = Idle

Init == InitInit /\ proc = Idle /\ saved = None

IsReference(v) == Expand(v) # v
-----------------------------------------------------------------------------
(* ProjectService *)

StartCommand ==
  /\ ~Initialising /\ ~Packing
  /\ proc' = [Idle EXCEPT !.pc = "configure"]
  /\ UNCHANGED <<initvars, saved>>

\* Mutant: the file is read whenever its content is needed.
LoadRawProjectAgain(r) == IF Exists(Project) THEN [r EXCEPT !.raw = files[Project]] ELSE r

\* _load_raw_project(): the file is read once.
LoadRawProject(r) ==
  IF r.raw # None \/ ~Exists(Project) THEN r ELSE [r EXCEPT !.raw = files[Project]]

\* get_platforms(), the first to read the file: it may be missing, or hold
\* something that is not a project.
GetPlatforms ==
  /\ At("configure")
  /\ LET r == LoadRawProject(proc)
     IN IF r.raw = None THEN Raise
        ELSE IF ~Parsed(r.raw).dict THEN Raise
        ELSE Continue([r EXCEPT !.platforms = Parsed(r.raw).platforms], "render")
  /\ UNCHANGED <<initvars, saved>>

\* What a field of a rendered project is, and which mandatory ones it lacks.
Rendering(project) == [f \in Fields |-> Expand(project.fields[f])]
Missing(fields) == {f \in Mandatory : fields[f] = None}

\* render_for(): project variables take their values before the environment is
\* expanded; what is mandatory may be missing only if it can be adopted.
RenderFor ==
  /\ At("render")
  /\ LET r == LoadRawProject(proc)
         project == Parsed(r.raw)
     IN IF ~(project.dict /\ project.valid) THEN Raise
        ELSE IF ~project.adopt /\ Missing(Rendering(project)) # {} THEN Raise
        ELSE Continue([r EXCEPT
               !.projectvars = [f \in Variables |-> project.fields[f]],
               !.model = [platforms |-> r.platforms, fields |-> Rendering(project)]],
               "parts")
  /\ UNCHANGED <<initvars, saved>>
-----------------------------------------------------------------------------
(* The lifecycle and what comes after it. *)

\* craftctl set in the part that adopt-info names, if there is one.
SetBy(variables) ==
  Continue([proc EXCEPT !.set = variables,
              !.projectvars = [f \in Variables |->
                                 IF f \in variables THEN Adopted ELSE proc.projectvars[f]]],
           "update")

\* The part is executed, or skipped, or fails.
RunParts ==
  /\ At("parts")
  /\ \/ /\ \E variables \in IF Parsed(proc.raw).adopt THEN SUBSET Variables ELSE {{}} :
             SetBy(variables) /\ saved' = variables
     \/ /\ saved # None
        /\ SetBy(IF Parsed(proc.raw).adopt THEN saved ELSE {})
        /\ UNCHANGED saved
     \/ Raise /\ UNCHANGED saved
  /\ UNCHANGED initvars

\* Mutant: only fields without a value are updated.
DeepUpdateMissing(fields, update) ==
  [f \in Fields |-> IF f \in DOMAIN update /\ fields[f] = None THEN update[f] ELSE fields[f]]

\* ProjectService.deep_update().
DeepUpdate(fields, update) ==
  [f \in Fields |-> IF f \in DOMAIN update THEN update[f] ELSE fields[f]]

\* update_project(): every project variable overwrites its field, and the
\* result must be a project again.  A subclass may then change more, but the
\* check looks at the project as it was before.
UpdateProject ==
  /\ At("update")
  /\ LET fields == DeepUpdate(proc.model.fields, proc.projectvars)
     IN IF \E f \in Strict : IsReference(fields[f]) THEN Raise
        ELSE IF Missing(fields) # {} THEN Raise
        ELSE \E extra \in Extras :
               Continue([proc EXCEPT !.extra = extra,
                           !.model.fields = DeepUpdate(fields, extra)], "metadata")
  /\ UNCHANGED <<initvars, saved>>

\* write_metadata(), from the project as it is now.
WriteMetadata == At("metadata") /\ proc' = Idle /\ UNCHANGED <<initvars, saved>>

FailCommand ==
  /\ Packing
  /\ Raise
  /\ UNCHANGED <<initvars, saved>>

Lifecycle ==
  \/ StartCommand \/ GetPlatforms \/ RenderFor \/ RunParts \/ UpdateProject
  \/ WriteMetadata \/ FailCommand

Next ==
  \/ Lifecycle
  \/ ~Packing /\ InitCommand /\ UNCHANGED <<proc, saved>>
  \/ User /\ UNCHANGED <<proc, saved>>

Spec == Init /\ [][Next]_vars
-----------------------------------------------------------------------------
(* Properties. *)

\* All that the project file can hold.
ProjectTexts ==
  UserTexts[Project] \cup {<<"rendered">>, <<"badly rendered">>, <<"cut short">>}

Succeeds == init.pc # "done" /\ init'.pc = "done"

TypeOK ==
  /\ dir \in BOOLEAN /\ git \in {"none", "parent", "own"}
  /\ commit \in Descriptions \cup {None}
  /\ DOMAIN files \subseteq DOMAIN UserTexts
  /\ files # [n \in {} |-> <<>>] => dir
  /\ Initialising => touched \subseteq DOMAIN files
  /\ init.context # None => init.pc \in {"render", "write"}
  /\ late => InitAt("write")
  /\ proc.model # None => proc.raw # None /\ proc.platforms = proc.model.platforms
  /\ proc.set \subseteq Variables

\* init never writes over what is there: commands/init.py, "If there are any
\* files in the directory that would be overwritten, then init command will
\* fail."  Only to .gitignore are lines added, and only a file that the user
\* makes after the command found it absent is lost.
UserFilesKept ==
  [][\A n \in DOMAIN files :
       init' # init => /\ n \in DOMAIN files'
                       /\ \/ files'[n] = files[n]
                          \/ late /\ n = Head(init.todo).file
                          \/ n = GitIgnore /\ IsStrictPrefix(files[n], files'[n])]_vars

\* After a successful init every file of the template is there and is the
\* template's, unless the user wrote it meanwhile, or it is a .gitignore that
\* got the application's lines; and with git each of those is there once.
Initialised ==
  [][Succeeds =>
       /\ \A t \in Range(Templates[TemplateDir(init.line)]) :
            /\ Exists(t.file)
            /\ \/ files[t.file] = Made(t)
               \/ t.file \in touched
               \/ t.file = GitIgnore /\ init.line.vcs = "git"
       /\ init.line.vcs = "git" /\ GitIgnore \notin touched =>
            \A l \in Range(Ignored) :
              Cardinality({i \in DOMAIN files[GitIgnore] : files[GitIgnore][i] = l}) = 1]_vars

\* The project that init makes is one the model accepts, if the user leaves the
\* file alone, git describes the commit by a version, and the name, when it has
\* the characters of one, is not too long.
ReadyToBuild ==
  [][Succeeds /\ Project \notin touched
       /\ (git = "own" /\ commit # None => VersionStr(Version))
       /\ (GivenName(init.line).legal => GivenName(init.line).length <= MaxName)
       => Parsed(files[Project]).valid]_vars

\* However the file is edited, the platforms and the fields a command works
\* with come from one version of it, and that was a project.
ReadOnce ==
  At("parts") =>
    \E text \in ProjectTexts :
      /\ Parsed(text).dict /\ Parsed(text).valid
      /\ proc.model.platforms = Parsed(text).platforms
      /\ proc.model.fields = Rendering(Parsed(text))

\* In the project that metadata is written from nothing mandatory is missing,
\* and what the part has set is there, whatever the file says.  What cannot be
\* adopted is there as it was rendered.  All this unless the application has
\* changed a field afterwards.
MetadataComplete ==
  At("metadata") =>
    /\ Missing(proc.model.fields) \subseteq DOMAIN proc.extra
    /\ \A f \in Fields \ DOMAIN proc.extra :
         /\ f \in proc.set => proc.model.fields[f] = Adopted
         /\ f \notin Variables => proc.model.fields[f] = Expand(Parsed(proc.raw).fields[f])

\* docs/reference/services/project.rst: references to global parts variables
\* are replaced "with their expected values".  Violated: project variables
\* are merged back as they were before.
ReferencesExpanded ==
  At("metadata") => \A f \in Fields : ~IsReference(proc.model.fields[f])
=============================================================================
