---------------------------- MODULE InitProject ----------------------------
(***************************************************************************)
(* The init command (InitCommand, InitService): a project directory is     *)
(* filled from a template while the user works in it, and again after a    *)
(* run that failed.                                                        *)
(*                                                                         *)
(* A file is the sequence of its lines; "files" maps the files that exist  *)
(* to what they hold.  Jinja and git are external: a template is text that *)
(* is copied, or rendered for a name and a version, and git describes a    *)
(* commit by the last tag and the distance to it.  A name is [legal,       *)
(* length]: made as a project name is, or not, and of so many characters.  *)
(***************************************************************************)
EXTENDS Naturals, Sequences, SequencesExt, FiniteSets, Selection

CONSTANTS
  None,          \* Python's None
  Templates,     \* the template directories: [profile, base] -> sequence of templates
  Project,       \* the project file, which is rendered
  GitIgnore,     \* .gitignore
  Ignored,       \* the lines of InitService._vcs_ignore_lines
  Lines,         \* bound: the command lines, [name, profile, base, vcs]
  DirName,       \* the name of the directory, [legal, length]
  Descriptions,  \* bound: what git says of a commit, [legal, length, digits]
  UserTexts,     \* bound: what the user writes, UserTexts[n] for file n
  MaxName,       \* the length of a ProjectName (40)
  MaxVersion     \* the length of a VersionStr (32)

Name == [legal : BOOLEAN, length : Nat]

\* InitService(default_name="my-project").
DefaultName == [legal |-> TRUE, length |-> 10]

\* The name and the version that are not given are short enough, and every
\* template makes a project.
ASSUME InitAssumption ==
  /\ MaxVersion \in Nat /\ MaxVersion >= 3 /\ MaxName \in Nat /\ MaxName >= 10
  /\ DirName \in Name
  /\ Project # GitIgnore /\ Ignored \in Seq(STRING)
  /\ \A line \in Lines : line.name \in Name \cup {None} /\ line.vcs \in {"git", "none"}
  /\ {Project, GitIgnore} \subseteq DOMAIN UserTexts
  /\ \A n \in DOMAIN UserTexts : UserTexts[n] \subseteq Seq(STRING)
  /\ \A d \in DOMAIN Templates :
       /\ Templates[d] \in Seq([file : DOMAIN UserTexts, suffix : BOOLEAN])
       /\ \E i \in DOMAIN Templates[d] : Templates[d][i].file = Project

VARIABLES
  dir,       \* the project directory exists
  git,       \* the repository it is in: "none", "parent" or "own"
  commit,    \* the description of the last commit in an own repository, or None
  files,     \* the files in the directory
  init,      \* the process of the init command
  touched,   \* history: the files the user wrote while the command runs
  late       \* history: the user made a file after the command found it absent

history == <<touched, late>>
initvars == <<dir, git, commit, files, init, history>>

Exists(n) == n \in DOMAIN files
Write(n, lines) ==
  files' = [m \in DOMAIN files \cup {n} |-> IF m = n THEN lines ELSE files[m]]

\* No process, also after a command that failed; "done" is the end of one that
\* succeeded.
NoInit == [pc |-> "none", line |-> None, todo |-> <<>>, context |-> None]
Initialising == init.pc \notin {"none", "done"}
InitAt(pc) == init.pc = pc
InitContinue(pc) == init' = [init EXCEPT !.pc = pc]
InitRaise == init' = NoInit

InitInit ==
  /\ dir \in BOOLEAN /\ git \in {"none", "parent"} /\ commit = None
  /\ files = [n \in {} |-> <<>>] /\ init = NoInit
  /\ touched = {} /\ late = FALSE
-----------------------------------------------------------------------------
(* What the command derives from its arguments and from git. *)

\* The name that is given, or that of the directory.
GivenName(line) == IF line.name # None THEN line.name ELSE DirName

\* InitCommand._get_name(): for a directory with another kind of name there is
\* a default.  validate_project_name() only looks at the characters.
ProjectName(line) == IF GivenName(line).legal THEN GivenName(line) ELSE DefaultName

\* InitCommand._get_template_dir(): the variant for a base, if one is named.
TemplateDir(line) == [profile |-> line.profile, base |-> line.base]

\* InitError before anything is done: the name that is given has other
\* characters, or there is no such variant.
ArgumentError(line) ==
  \/ line.name # None /\ ~line.name.legal
  \/ TemplateDir(line) \notin DOMAIN Templates

\* Mutant: the name of the template itself.
NameWithSuffix(t) == IF t.suffix THEN "*.j2" ELSE t.file

\* The file a template [file, suffix] makes; suffix says whether its own name
\* ends in .j2.
NameOf(t) == t.file

\* check_for_existing_files(): the files that are in the way.
ExistingFiles(line) ==
  {n \in DOMAIN files : \E t \in Range(Templates[TemplateDir(line)]) : NameOf(t) = n}

\* parse_describe(): the tag, or <tag>.post<distance>+git<commit>.  A description
\* has the length of the tag (or of the commit, if there is none), whether it
\* is made of the characters of a version, and the digits of the distance.
ParseDescribe(d) ==
  IF d.digits = 0 THEN [legal |-> d.legal, length |-> d.length]
  ELSE [legal |-> d.legal, length |-> d.length + 16 + d.digits]
DefaultVersion == [legal |-> TRUE, length |-> 3]

\* A git repository of the directory itself is asked; without a commit git
\* cannot describe it.
Version == IF git = "own" /\ commit # None THEN ParseDescribe(commit) ELSE DefaultVersion

\* What the project model accepts as version, and as name.
VersionStr(v) == v.legal /\ v.length <= MaxVersion
NameStr(n) == n.legal /\ n.length <= MaxName

\* The text of the rendered project file.
Rendered(context) ==
  IF NameStr(context.name) /\ VersionStr(context.version) THEN <<"rendered">>
  ELSE <<"badly rendered">>
-----------------------------------------------------------------------------
(* The command, one action for each effect. *)

\* InitCommand.run() up to initialise_project(), which reads only and ends with
\* InitError if the arguments or the files in the directory are wrong.
StartInit ==
  /\ ~Initialising
  /\ touched' = {}
  /\ \E line \in Lines :
       IF ArgumentError(line) THEN InitRaise
       ELSE IF ExistingFiles(line) # {} THEN InitRaise
       ELSE init' = [NoInit EXCEPT !.pc = "vcs", !.line = line]
  /\ UNCHANGED <<dir, git, commit, files, late>>

\* _initialize_vcs(): any repository around the directory will do, but of a
\* directory that does not exist there is none, and none can be made
\* (FileNotFoundError).
InitializeVcs ==
  /\ InitAt("vcs")
  /\ CASE init.line.vcs = "none" -> InitContinue("mkdir") /\ UNCHANGED git
       [] init.line.vcs = "git" /\ ~dir -> InitRaise /\ UNCHANGED git
       [] OTHER -> /\ InitContinue("ignore")
                   /\ git' = IF git = "none" THEN "own" ELSE git
  /\ UNCHANGED <<dir, commit, files, history>>

\* The lines of the application that are not among those there are.
MissingLines(there) == Select(Ignored, {i \in DOMAIN Ignored : Ignored[i] \notin there})

\* _create_git_ignore(): the lines that are missing, below a comment and,
\* in a file of the user, an empty line.
CreateGitIgnore ==
  /\ InitAt("ignore")
  /\ LET old == IF Exists(GitIgnore) THEN files[GitIgnore] ELSE <<>>
         missing == MissingLines(Range(old))
     IN IF missing = <<>> THEN UNCHANGED files
        ELSE Write(GitIgnore, old \o (IF Exists(GitIgnore) THEN <<"">> ELSE <<>>)
                                  \o <<"# Added">> \o missing)
  /\ InitContinue("mkdir")
  /\ UNCHANGED <<dir, git, commit, history>>

\* Mutant: the directory is not made.
CreateNoDir ==
  /\ InitAt("mkdir")
  /\ init' = [init EXCEPT !.pc = "render",
                          !.context = [name |-> ProjectName(init.line), version |-> Version],
                          !.todo = Templates[TemplateDir(init.line)]]
  /\ UNCHANGED <<dir, git, commit, files, history>>

\* _create_project_dir() and _get_context().
CreateProjectDir ==
  /\ InitAt("mkdir")
  /\ dir' = TRUE
  /\ init' = [init EXCEPT !.pc = "render",
                          !.context = [name |-> ProjectName(init.line), version |-> Version],
                          !.todo = Templates[TemplateDir(init.line)]]
  /\ UNCHANGED <<git, commit, files, history>>

\* What a template makes.
Made(t) == IF t.file = Project THEN Rendered(init.context) ELSE <<"template">>

\* Mutant: a file that exists is written over.
RenderOver ==
  /\ InitAt("render") /\ init.todo # <<>>
  /\ InitContinue("write")
  /\ UNCHANGED <<dir, git, commit, files, history>>

\* One turn of _render_project(): a file that exists is left alone.
RenderTemplate ==
  /\ InitAt("render") /\ init.todo # <<>>
  /\ IF Exists(Head(init.todo).file) THEN init' = [init EXCEPT !.todo = Tail(@)]
     ELSE InitContinue("write")
  /\ UNCHANGED <<dir, git, commit, files, history>>

\* The rest of that turn, if there was no file: it is written now, even if there
\* is one by now.
WriteTemplate ==
  /\ InitAt("write")
  /\ Write(Head(init.todo).file, Made(Head(init.todo)))
  /\ init' = [init EXCEPT !.pc = "render", !.todo = Tail(@)]
  /\ late' = FALSE
  /\ UNCHANGED <<dir, git, commit, touched>>

FinishInit ==
  /\ InitAt("render") /\ init.todo = <<>>
  /\ init' = [NoInit EXCEPT !.pc = "done"]
  /\ UNCHANGED <<dir, git, commit, files, history>>

\* The command is interrupted, or the disk is full: the file that is being
\* written may be cut short.
FailInit ==
  /\ Initialising
  /\ InitRaise
  /\ UNCHANGED files \/ (InitAt("write") /\ Write(Head(init.todo).file, <<"cut short">>))
  /\ late' = FALSE
  /\ UNCHANGED <<dir, git, commit, touched>>

InitCommand ==
  \/ StartInit \/ InitializeVcs \/ CreateGitIgnore \/ CreateProjectDir
  \/ RenderTemplate \/ WriteTemplate \/ FinishInit \/ FailInit
-----------------------------------------------------------------------------
(* The user. *)

MakeDir == ~dir /\ dir' = TRUE /\ UNCHANGED <<git, commit, files, init, history>>

\* A file is written, also while the command runs.
EditFile ==
  /\ dir
  /\ \E n \in DOMAIN UserTexts :
       \E text \in UserTexts[n] :
         /\ IF Exists(n) THEN files[n] # text ELSE TRUE
         /\ Write(n, text)
         /\ touched' = IF Initialising THEN touched \cup {n} ELSE touched
         /\ late' = (late \/ (InitAt("write") /\ Head(init.todo).file = n))
  /\ UNCHANGED <<dir, git, commit, init>>

RemoveFile ==
  /\ ~Initialising
  /\ \E n \in DOMAIN files : files' = [m \in DOMAIN files \ {n} |-> files[m]]
  /\ UNCHANGED <<dir, git, commit, init, history>>

\* git init, git commit and git tag in the directory.
Commit ==
  /\ dir /\ ~Initialising
  /\ git' = "own"
  /\ commit' \in Descriptions
  /\ UNCHANGED <<dir, files, init, history>>

User == MakeDir \/ EditFile \/ RemoveFile \/ Commit
=============================================================================
