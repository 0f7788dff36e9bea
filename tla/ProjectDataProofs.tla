-------------------------- MODULE ProjectDataProofs --------------------------
(***************************************************************************)
(* Proofs about ProjectData and InitProject: the init command loses no     *)
(* file of the user and leaves a project that can be built, and a          *)
(* lifecycle command works with one version of the project file, for any   *)
(* templates, texts, fields and project variables.                         *)
(*                                                                         *)
(* The two processes share the directory and exclude each other; the user  *)
(* is always there.  The invariant says for each of the two what it has    *)
(* done and what it relies on at every point.                              *)
(***************************************************************************)
EXTENDS ProjectData, SelectionProofs, SequenceTheorems, FiniteSetTheorems, TLAPS

Template == [file : DOMAIN UserTexts, suffix : BOOLEAN]
TemplatesOf(line) == Templates[TemplateDir(line)]

(* The init command. *)

InitShape ==
  /\ DOMAIN init = {"pc", "line", "todo", "context"}
  /\ init.pc \in {"none", "done", "vcs", "ignore", "mkdir", "render", "write"}

\* What is there has a place among the files, and is in a directory.
FilesInv ==
  /\ DOMAIN files \subseteq DOMAIN UserTexts
  /\ Exists(Project) => files[Project] \in ProjectTexts
  /\ files # [n \in {} |-> <<>>] => dir
  /\ dir \in BOOLEAN /\ git \in {"none", "parent", "own"} /\ commit \in Descriptions \cup {None}

\* What was checked before anything is done stays true; there is a directory
\* before something is written into it.
Checked ==
  /\ Initialising => init.line \in Lines /\ ~ArgumentError(init.line)
  /\ init.pc \in {"ignore", "render", "write"} => dir
  /\ init.context # None => init.pc \in {"render", "write"}

\* Rendering goes through the templates, with a name that is valid and the
\* version that git describes, which no commit can change meanwhile.
InTemplates ==
  InitAt("render") \/ InitAt("write") =>
    /\ init.context = [name |-> ProjectName(init.line), version |-> Version]
    /\ init.todo \in Seq(Template)
    /\ Exists(Project) \/ \E i \in 1 .. Len(init.todo) : init.todo[i].file = Project

\* A file is about to be written because there was none; there is one now only if
\* the user has just made it.
Absent ==
  /\ InitAt("write") => init.todo # <<>> /\ (late \/ ~Exists(Head(init.todo).file))
  /\ late => InitAt("write")

\* A project file that the user has not touched is the one that init made.
Own ==
  /\ init.pc \in {"vcs", "ignore", "mkdir"} /\ Exists(Project) => Project \in touched
  /\ init.pc \in {"render", "write"} /\ Exists(Project) /\ Project \notin touched =>
       files[Project] = Rendered(init.context)
  /\ Initialising => touched \subseteq DOMAIN files

InitInv == InitShape /\ FilesInv /\ Checked /\ InTemplates /\ Absent /\ Own

(* The lifecycle command. *)

Shape ==
  /\ DOMAIN proc = {"pc", "raw", "platforms", "projectvars", "model", "set", "extra"}
  /\ proc.pc \in {"none", "configure", "render", "parts", "update", "metadata"}
  /\ proc.set \subseteq Variables
  /\ saved = None \/ saved \subseteq Variables

\* The text is read once, and the platforms and the project are from it.
Read ==
  /\ proc.pc \in {"none", "configure", "render"} => proc.model = None
  /\ proc.pc = "configure" => proc.raw = None
  /\ proc.pc \in {"render", "parts", "update", "metadata"} =>
       /\ proc.raw # None /\ proc.raw \in ProjectTexts
       /\ Parsed(proc.raw).dict /\ proc.platforms = Parsed(proc.raw).platforms
  /\ proc.pc \in {"parts", "update"} =>
       /\ Parsed(proc.raw).valid
       /\ proc.model = [platforms |-> proc.platforms, fields |-> Rendering(Parsed(proc.raw))]
  /\ proc.pc = "metadata" =>
       DOMAIN proc.model = {"platforms", "fields"} /\ proc.model.platforms = proc.platforms

\* What the part has set is in the project variables.
Variable ==
  At("update") =>
    DOMAIN proc.projectvars = Variables /\ \A f \in proc.set : proc.projectvars[f] = Adopted

ProcInv == Shape /\ Read /\ Variable /\ MetadataComplete

\* The inductive invariant.
DataInv == InitInv /\ ProcInv
-----------------------------------------------------------------------------
(* The init command. *)

\* The constants, as the proofs below use them.
LEMMA Constants ==
  /\ Project # GitIgnore /\ {Project, GitIgnore} \subseteq DOMAIN UserTexts
  /\ \A line \in Lines : line.name \in Name \cup {None} /\ line.vcs \in {"git", "none"}
  /\ \A n \in DOMAIN UserTexts : UserTexts[n] \subseteq Seq(STRING)
  /\ \A line : ~ArgumentError(line) =>
       /\ TemplatesOf(line) \in Seq(Template)
       /\ \E i \in 1 .. Len(TemplatesOf(line)) : TemplatesOf(line)[i].file = Project
BY InitAssumption, LenProperties DEF ArgumentError, TemplatesOf, Template

\* A process of the init command that is not there.
LEMMA NoInitFacts ==
  /\ DOMAIN NoInit = {"pc", "line", "todo", "context"}
  /\ NoInit.pc = "none" /\ NoInit.context = None
BY DEF NoInit

\* The command goes on with what it knows.
LEMMA GoesOn ==
  ASSUME InitShape, NEW pc, InitContinue(pc)
  PROVE  /\ DOMAIN init' = DOMAIN init /\ init'.pc = pc
         /\ init'.line = init.line /\ init'.todo = init.todo /\ init'.context = init.context
BY DEF InitShape, InitContinue

\* A command that has ended, well or not, relies on nothing.
LEMMA Over ==
  ASSUME FilesInv', ~late', init'.pc \in {"none", "done"}, init'.context = None,
         DOMAIN init' = {"pc", "line", "todo", "context"}
  PROVE  InitInv'
BY DEF InitInv, InitShape, Checked, InTemplates, Absent, Own, Initialising, InitAt

\* A file that is written is there, next to the others.
LEMMA Written ==
  ASSUME NEW n, NEW text, Write(n, text)
  PROVE  /\ DOMAIN files' = DOMAIN files \cup {n} /\ files'[n] = text
         /\ \A m \in DOMAIN files \ {n} : files'[m] = files[m]
         /\ files' # [m \in {} |-> <<>>]
BY DEF Write

\* Up to rendering, init changes nothing but the repository and .gitignore.
LEMMA PrepareStep ==
  ASSUME InitInv, StartInit \/ InitializeVcs \/ CreateGitIgnore \/ CreateProjectDir
  PROVE  InitInv'
<1>0. InitShape /\ FilesInv /\ Checked /\ InTemplates /\ Absent /\ Own
  BY DEF InitInv
<1>1. CASE StartInit
  <2>1. UNCHANGED <<dir, git, commit, files, late>> /\ touched' = {} /\ ~Initialising
    BY <1>1 DEF StartInit
  <2>2. FilesInv' /\ ~late'
    BY <1>0, <2>1 DEF FilesInv, Exists, Absent, Initialising, InitAt
  <2>3. CASE init' = NoInit
    BY <2>2, <2>3, NoInitFacts, Over
  <2>4. CASE init' # NoInit
    <3>1. PICK line \in Lines :
            /\ ~ArgumentError(line) /\ ExistingFiles(line) = {}
            /\ init' = [NoInit EXCEPT !.pc = "vcs", !.line = line]
      BY <1>1, <2>4 DEF StartInit, InitRaise
    <3>2. /\ DOMAIN init' = {"pc", "line", "todo", "context"} /\ init'.pc = "vcs"
          /\ init'.line = line /\ init'.context = None
      BY <3>1, NoInitFacts
    <3>3. ~Exists(Project)'
      <4>1. PICK i \in 1 .. Len(TemplatesOf(line)) : TemplatesOf(line)[i].file = Project
        BY <3>1, Constants
      <4>2. TemplatesOf(line)[i] \in Range(TemplatesOf(line))
        BY <3>1, <4>1, Constants, LenProperties DEF Range
      <4>. QED
        BY <2>1, <3>1, <4>1, <4>2 DEF ExistingFiles, TemplatesOf, NameOf, Exists
    <3>4. InitShape' /\ Checked'
      BY <3>1, <3>2 DEF InitShape, Checked, ArgumentError, TemplateDir
    <3>5. InTemplates' /\ Absent' /\ Own'
      BY <2>1, <2>2, <3>2, <3>3 DEF InTemplates, Absent, Own, InitAt
    <3>. QED
      BY <2>2, <3>4, <3>5 DEF InitInv
  <2>. QED
    BY <2>3, <2>4
<1>2. CASE InitializeVcs
  <2>1. InitAt("vcs") /\ UNCHANGED <<dir, commit, files, touched, late>>
    BY <1>2 DEF InitializeVcs, history
  <2>2. git' \in {"none", "parent", "own"}
    BY <1>0, <1>2 DEF InitializeVcs, FilesInv
  <2>3. FilesInv' /\ ~late'
    BY <1>0, <2>1, <2>2 DEF FilesInv, Exists, Absent, InitAt
  <2>4. CASE InitRaise
    BY <2>3, <2>4, NoInitFacts, Over DEF InitRaise
  <2>5. CASE ~InitRaise
    <3>1. init.line.vcs \in {"git", "none"} /\ init.line \in Lines /\ ~ArgumentError(init.line)
      BY <1>0, <2>1, Constants DEF Checked, Initialising, InitAt
    <3>2. PICK pc \in {"mkdir", "ignore"} : InitContinue(pc) /\ (pc = "ignore" => dir)
      BY <1>0, <1>2, <2>5, <3>1 DEF InitializeVcs, FilesInv
    <3>3. /\ DOMAIN init' = {"pc", "line", "todo", "context"} /\ init'.pc = pc
          /\ init'.line = init.line /\ init'.context = None
      BY <1>0, <2>1, <3>2, GoesOn DEF InitShape, Checked, InitAt
    <3>4. InitShape' /\ Checked'
      BY <1>0, <2>1, <3>1, <3>2, <3>3 DEF InitShape, Checked, ArgumentError, TemplateDir
    <3>5. InTemplates' /\ Absent' /\ Own'
      BY <1>0, <2>1, <2>3, <3>3 DEF InTemplates, Absent, Own, InitAt, Initialising, Exists
    <3>. QED
      BY <2>3, <3>4, <3>5 DEF InitInv
  <2>. QED
    BY <2>4, <2>5
<1>3. CASE CreateGitIgnore
  <2>1. InitAt("ignore") /\ dir /\ UNCHANGED <<dir, git, commit, touched, late>>
    BY <1>0, <1>3 DEF CreateGitIgnore, history, Checked, InitAt
  <2>2. UNCHANGED files \/ \E text : Write(GitIgnore, text)
    BY <1>3 DEF CreateGitIgnore
  <2>3. /\ DOMAIN files \subseteq DOMAIN files' /\ DOMAIN files' \subseteq DOMAIN files \cup {GitIgnore}
        /\ Exists(Project)' <=> Exists(Project)
        /\ Exists(Project) => files'[Project] = files[Project]
    <3>1. CASE UNCHANGED files
      BY <3>1 DEF Exists
    <3>2. CASE \E text : Write(GitIgnore, text)
      <4>1. PICK text : Write(GitIgnore, text)
        BY <3>2
      <4>2. /\ DOMAIN files' = DOMAIN files \cup {GitIgnore}
            /\ \A m \in DOMAIN files \ {GitIgnore} : files'[m] = files[m]
        BY <4>1, Written
      <4>. QED
        BY <4>2, Constants DEF Exists
    <3>. QED
      BY <2>2, <3>1, <3>2
  <2>4. FilesInv' /\ ~late'
    BY <1>0, <2>1, <2>3, Constants DEF FilesInv, Absent, InitAt, Exists
  <2>5. /\ DOMAIN init' = {"pc", "line", "todo", "context"} /\ init'.pc = "mkdir"
        /\ init'.line = init.line /\ init'.context = None
    BY <1>0, <1>3, <2>1, GoesOn DEF CreateGitIgnore, InitShape, Checked, InitAt
  <2>6. InitShape' /\ Checked'
    BY <1>0, <2>1, <2>5 DEF InitShape, Checked, ArgumentError, TemplateDir, InitAt, Initialising
  <2>7. InTemplates' /\ Absent' /\ Own'
    BY <1>0, <2>1, <2>3, <2>4, <2>5 DEF InTemplates, Absent, Own, InitAt, Initialising
  <2>. QED
    BY <2>4, <2>6, <2>7 DEF InitInv
<1>4. CASE CreateProjectDir
  <2>1. /\ InitAt("mkdir") /\ dir' = TRUE /\ UNCHANGED <<git, commit, files, touched, late>>
        /\ init' = [init EXCEPT !.pc = "render",
                      !.context = [name |-> ProjectName(init.line), version |-> Version],
                      !.todo = TemplatesOf(init.line)]
    BY <1>4 DEF CreateProjectDir, history, TemplatesOf
  <2>2. /\ DOMAIN init' = {"pc", "line", "todo", "context"} /\ init'.pc = "render"
        /\ init'.line = init.line /\ init'.todo = TemplatesOf(init.line)
        /\ init'.context = [name |-> ProjectName(init.line), version |-> Version]
    BY <1>0, <2>1 DEF InitShape
  <2>3. init.line \in Lines /\ ~ArgumentError(init.line)
    BY <1>0, <2>1 DEF Checked, Initialising, InitAt
  <2>5. FilesInv' /\ ~late'
    BY <1>0, <2>1 DEF FilesInv, Exists, Absent, InitAt
  <2>6. InitShape' /\ Checked'
    BY <2>1, <2>2, <2>3 DEF InitShape, Checked, ArgumentError, TemplateDir
  <2>7. InTemplates'
    <3>1. Version' = Version
      BY <2>1 DEF Version
    <3>. QED
      BY <2>2, <2>3, <3>1, Constants DEF InTemplates
  <2>8. Absent' /\ Own'
    BY <1>0, <2>1, <2>2, <2>5 DEF Absent, Own, InitAt, Initialising, Exists
  <2>. QED
    BY <2>5, <2>6, <2>7, <2>8 DEF InitInv
<1>. QED
  BY <1>1, <1>2, <1>3, <1>4

\* What a template makes of the project file is a text of a project.
LEMMA MadeFacts ==
  ASSUME NEW t
  PROVE  t.file = Project => Made(t) = Rendered(init.context) /\ Made(t) \in ProjectTexts
BY DEF Made, Rendered, ProjectTexts

\* The first of the templates, and the rest of them.
LEMMA TodoFacts ==
  ASSUME init.todo \in Seq(Template), init.todo # <<>>
  PROVE  /\ Head(init.todo) \in Template /\ Head(init.todo).file \in DOMAIN UserTexts
         /\ Tail(init.todo) \in Seq(Template)
         /\ \A i \in 1 .. Len(init.todo) :
              \/ init.todo[i] = Head(init.todo)
              \/ \E j \in 1 .. Len(Tail(init.todo)) : Tail(init.todo)[j] = init.todo[i]
<1>1. /\ Head(init.todo) \in Template /\ Tail(init.todo) \in Seq(Template)
      /\ Len(Tail(init.todo)) = Len(init.todo) - 1
      /\ \A i \in 1 .. Len(Tail(init.todo)) : Tail(init.todo)[i] = init.todo[i + 1]
  BY HeadTailProperties
<1>2. ASSUME NEW i \in 1 .. Len(init.todo)
      PROVE  \/ init.todo[i] = Head(init.todo)
             \/ \E j \in 1 .. Len(Tail(init.todo)) : Tail(init.todo)[j] = init.todo[i]
  <2>0. Len(init.todo) \in Nat
    BY LenProperties
  <2>1. CASE i = 1
    BY <2>1
  <2>2. CASE i # 1
    <3>1. i - 1 \in 1 .. Len(Tail(init.todo)) /\ (i - 1) + 1 = i
      BY <1>1, <2>0, <2>2
    <3>. QED
      BY <1>1, <3>1
  <2>. QED
    BY <2>1, <2>2
<1>. QED
  BY <1>1, <1>2 DEF Template

\* Rendering: each template is left alone or becomes a file.
LEMMA RenderStep ==
  ASSUME InitInv, RenderTemplate \/ WriteTemplate \/ FinishInit \/ FailInit
  PROVE  InitInv'
<1>0. InitShape /\ FilesInv /\ Checked /\ InTemplates /\ Absent /\ Own
  BY DEF InitInv
<1> DEFINE first == Head(init.todo)
<1>1. CASE RenderTemplate
  <2>1. /\ InitAt("render") /\ init.todo # <<>> /\ init.todo \in Seq(Template)
        /\ UNCHANGED <<dir, git, commit, files, touched, late>>
    BY <1>0, <1>1 DEF RenderTemplate, history, InTemplates
  <2>2. FilesInv' /\ ~late' /\ Version' = Version
    BY <1>0, <2>1 DEF FilesInv, Exists, Absent, InitAt, Version
  <2>3. CASE Exists(first.file)
    <3>1. init' = [init EXCEPT !.todo = Tail(init.todo)]
      BY <1>1, <2>3 DEF RenderTemplate
    <3>2. /\ DOMAIN init' = {"pc", "line", "todo", "context"} /\ init'.pc = init.pc
          /\ init'.line = init.line /\ init'.todo = Tail(init.todo) /\ init'.context = init.context
      BY <1>0, <3>1 DEF InitShape
    <3>3. InitShape' /\ Checked'
      BY <1>0, <2>1, <3>2
         DEF InitShape, Checked, ArgumentError, TemplateDir, InitAt, Initialising
    <3>4. InTemplates'
      <4>1. Exists(Project) \/ \E j \in 1 .. Len(Tail(init.todo)) :
                                 Tail(init.todo)[j].file = Project
        BY <1>0, <2>1, <2>3, TodoFacts DEF InTemplates
      <4>2. Exists(Project)' <=> Exists(Project)
        BY <2>1 DEF Exists
      <4>. QED
        BY <1>0, <2>1, <2>2, <3>2, <4>1, <4>2, TodoFacts DEF InTemplates, InitAt
    <3>5. Absent' /\ Own'
      BY <1>0, <2>1, <2>2, <3>2 DEF Absent, Own, InitAt, Initialising, Exists, Rendered
    <3>. QED
      BY <2>2, <3>3, <3>4, <3>5 DEF InitInv
  <2>4. CASE ~Exists(first.file)
    <3>1. /\ DOMAIN init' = {"pc", "line", "todo", "context"} /\ init'.pc = "write"
          /\ init'.line = init.line /\ init'.todo = init.todo /\ init'.context = init.context
      BY <1>0, <1>1, <2>4, GoesOn DEF RenderTemplate, InitShape
    <3>2. InitShape' /\ Checked'
      BY <1>0, <2>1, <3>1
         DEF InitShape, Checked, ArgumentError, TemplateDir, InitAt, Initialising
    <3>3. InTemplates'
      BY <1>0, <2>1, <2>2, <3>1 DEF InTemplates, InitAt, Exists
    <3>4. Absent' /\ Own'
      BY <1>0, <2>1, <2>2, <2>4, <3>1 DEF Absent, Own, InitAt, Initialising, Exists, Rendered
    <3>. QED
      BY <2>2, <3>2, <3>3, <3>4 DEF InitInv
  <2>. QED
    BY <2>3, <2>4
<1>2. CASE WriteTemplate
  <2>1. /\ InitAt("write") /\ init.todo # <<>> /\ init.todo \in Seq(Template) /\ dir
        /\ late' = FALSE /\ UNCHANGED <<dir, git, commit, touched>>
        /\ Write(first.file, Made(first))
        /\ init' = [init EXCEPT !.pc = "render", !.todo = Tail(init.todo)]
    BY <1>0, <1>2 DEF WriteTemplate, InTemplates, Absent, Checked, InitAt
  <2>2. /\ DOMAIN init' = {"pc", "line", "todo", "context"} /\ init'.pc = "render"
        /\ init'.line = init.line /\ init'.todo = Tail(init.todo) /\ init'.context = init.context
    BY <1>0, <2>1 DEF InitShape
  <2>3. /\ DOMAIN files' = DOMAIN files \cup {first.file} /\ files'[first.file] = Made(first)
        /\ \A m \in DOMAIN files \ {first.file} : files'[m] = files[m]
    BY <2>1, Written, ZenonT(60)
  <2>4. first.file \in DOMAIN UserTexts
    BY <2>1, TodoFacts
  <2>5. FilesInv'
    BY <1>0, <2>1, <2>3, <2>4, MadeFacts DEF FilesInv, Exists
  <2>6. InitShape' /\ Checked'
    BY <1>0, <2>1, <2>2
       DEF InitShape, Checked, ArgumentError, TemplateDir, InitAt, Initialising
  <2>7. InTemplates'
    <3>1. Version' = Version
      BY <2>1 DEF Version
    <3>2. Exists(Project)' <=> Exists(Project) \/ first.file = Project
      BY <2>3 DEF Exists
    <3>. QED
      BY <1>0, <2>1, <2>2, <3>1, <3>2, TodoFacts DEF InTemplates
  <2>8. Absent'
    BY <2>1, <2>2 DEF Absent, InitAt
  <2>9. Own'
    <3>1. Rendered(init'.context) = Rendered(init.context)
      BY <2>2
    <3>2. touched' \subseteq DOMAIN files'
      BY <1>0, <2>1, <2>3 DEF Own, InitAt, Initialising
    <3>3. ASSUME Exists(Project)', Project \notin touched
          PROVE  files'[Project] = Rendered(init.context)
      BY <1>0, <2>1, <2>3, <3>3, MadeFacts DEF Own, Exists, InitAt
    <3>. QED
      BY <2>1, <2>2, <3>1, <3>2, <3>3 DEF Own, Rendered
  <2>. QED
    BY <2>5, <2>6, <2>7, <2>8, <2>9 DEF InitInv
<1>3. CASE FinishInit
  <2>1. InitAt("render") /\ UNCHANGED <<dir, git, commit, files, touched, late>>
    BY <1>3 DEF FinishInit, history
  <2>2. FilesInv' /\ ~late'
    BY <1>0, <2>1 DEF FilesInv, Exists, Absent, InitAt
  <2>3. /\ DOMAIN init' = {"pc", "line", "todo", "context"} /\ init'.pc = "done"
        /\ init'.context = None
    BY <1>3, NoInitFacts DEF FinishInit
  <2>. QED
    BY <2>2, <2>3, Over
<1>4. CASE FailInit
  <2>1. init' = NoInit /\ late' = FALSE /\ UNCHANGED <<dir, git, commit, touched>>
    BY <1>4 DEF FailInit, InitRaise
  <2>2. CASE UNCHANGED files
    BY <1>0, <2>1, <2>2, NoInitFacts, Over DEF FilesInv, Exists
  <2>3. CASE InitAt("write") /\ Write(first.file, <<"cut short">>)
    <3>1. /\ DOMAIN files' = DOMAIN files \cup {first.file} /\ files'[first.file] = <<"cut short">>
          /\ \A m \in DOMAIN files \ {first.file} : files'[m] = files[m]
      BY <2>3, Written
    <3>2. first.file \in DOMAIN UserTexts /\ dir
      BY <1>0, <2>3, TodoFacts DEF InTemplates, Absent, Checked, InitAt
    <3>3. FilesInv'
      BY <1>0, <2>1, <3>1, <3>2 DEF FilesInv, Exists, ProjectTexts
    <3>. QED
      BY <2>1, <3>3, NoInitFacts, Over
  <2>. QED
    BY <1>4, <2>2, <2>3 DEF FailInit
<1>. QED
  BY <1>1, <1>2, <1>3, <1>4

\* The user: what init relies on is not touched without leaving a mark.
LEMMA UserStep ==
  ASSUME InitInv, User
  PROVE  InitInv'
<1>0. InitShape /\ FilesInv /\ Checked /\ InTemplates /\ Absent /\ Own
  BY DEF InitInv
<1>i. UNCHANGED init
  BY DEF User, MakeDir, EditFile, RemoveFile, Commit
<1>1. CASE MakeDir
  <2>1. dir' = TRUE /\ UNCHANGED <<git, commit, files, touched, late>>
    BY <1>1 DEF MakeDir, history
  <2>2. FilesInv' /\ Checked' /\ InitShape'
    BY <1>0, <1>i, <2>1
       DEF FilesInv, Exists, Checked, InitShape, Initialising, ArgumentError, TemplateDir
  <2>3. Version' = Version
    BY <2>1 DEF Version
  <2>4. InTemplates' /\ Absent' /\ Own'
    BY <1>0, <1>i, <2>1, <2>3
       DEF InTemplates, Absent, Own, InitAt, Initialising, Exists, Rendered
  <2>. QED
    BY <2>2, <2>4 DEF InitInv
<1>2. CASE EditFile
  <2>0. PICK n \in DOMAIN UserTexts : \E text \in UserTexts[n] :
          /\ Write(n, text)
          /\ touched' = IF Initialising THEN touched \cup {n} ELSE touched
          /\ late' = (late \/ (InitAt("write") /\ Head(init.todo).file = n))
    BY <1>2 DEF EditFile
  <2>1. PICK text \in UserTexts[n] :
          /\ Write(n, text)
          /\ touched' = IF Initialising THEN touched \cup {n} ELSE touched
          /\ late' = (late \/ (InitAt("write") /\ Head(init.todo).file = n))
    BY <2>0
  <2>2. dir /\ UNCHANGED <<dir, git, commit>>
    BY <1>2 DEF EditFile
  <2>3. /\ DOMAIN files' = DOMAIN files \cup {n} /\ files'[n] = text
        /\ \A m \in DOMAIN files \ {n} : files'[m] = files[m]
    BY <2>1, Written
  <2>4. FilesInv' /\ Checked' /\ InitShape'
    BY <1>0, <1>i, <2>1, <2>2, <2>3
       DEF FilesInv, Exists, ProjectTexts, Checked, InitShape, Initialising, ArgumentError,
           TemplateDir
  <2>5. InTemplates'
    <3>1. Version' = Version
      BY <2>2 DEF Version
    <3>. QED
      BY <1>0, <1>i, <2>3, <3>1 DEF InTemplates, InitAt, Exists
  <2>6. Absent'
    BY <1>0, <1>i, <2>1, <2>3 DEF Absent, InitAt, Exists
  <2>7. Own'
    BY <1>0, <1>i, <2>1, <2>3 DEF Own, Initialising, Exists, Rendered
  <2>. QED
    BY <2>4, <2>5, <2>6, <2>7 DEF InitInv
<1>3. CASE RemoveFile
  <2>1. PICK n \in DOMAIN files : files' = [m \in DOMAIN files \ {n} |-> files[m]]
    BY <1>3 DEF RemoveFile
  <2>2. ~Initialising /\ UNCHANGED <<dir, git, commit, touched, late>>
    BY <1>3 DEF RemoveFile, history
  <2>3. dir
    BY <1>0, <2>1 DEF FilesInv
  <2>4. FilesInv' /\ Checked' /\ InitShape'
    BY <1>0, <1>i, <2>1, <2>2, <2>3
       DEF FilesInv, Exists, Checked, InitShape, Initialising
  <2>5. InTemplates' /\ Absent' /\ Own'
    BY <1>0, <1>i, <2>2 DEF InTemplates, Absent, Own, InitAt, Initialising
  <2>. QED
    BY <2>4, <2>5 DEF InitInv
<1>4. CASE Commit
  <2>1. /\ ~Initialising /\ git' = "own" /\ commit' \in Descriptions
        /\ UNCHANGED <<dir, files, touched, late>>
    BY <1>4 DEF Commit, history
  <2>2. FilesInv' /\ Checked' /\ InitShape'
    BY <1>0, <1>i, <2>1 DEF FilesInv, Exists, Checked, InitShape, Initialising
  <2>3. InTemplates' /\ Absent' /\ Own'
    BY <1>0, <1>i, <2>1 DEF InTemplates, Absent, Own, InitAt, Initialising
  <2>. QED
    BY <2>2, <2>3 DEF InitInv
<1>. QED
  BY <1>1, <1>2, <1>3, <1>4 DEF User
-----------------------------------------------------------------------------
(* The lifecycle command. *)

\* A process of a lifecycle command that is not there.
LEMMA IdleFacts ==
  /\ DOMAIN Idle = {"pc", "raw", "platforms", "projectvars", "model", "set", "extra"}
  /\ Idle.pc = "none" /\ Idle.raw = None /\ Idle.model = None /\ Idle.set = {} /\ Idle.set \subseteq Variables
BY DEF Idle

\* The project variables are fields.
LEMMA VariablesAreFields == Variables \subseteq Fields /\ Mandatory \subseteq Fields
BY DataAssumption

\* No process relies on anything.
LEMMA Stopped ==
  ASSUME proc' = Idle, saved' = None \/ saved' \subseteq Variables
  PROVE  ProcInv'
BY IdleFacts DEF ProcInv, Shape, Read, Variable, MetadataComplete, At

\* A file that was read is not read again; what it holds is a text of a project.
LEMMA ReadFacts ==
  ASSUME FilesInv
  PROVE  /\ proc.raw # None => LoadRawProject(proc) = proc
         /\ ~Exists(Project) => LoadRawProject(proc) = proc
         /\ proc.raw = None /\ Exists(Project) =>
              /\ LoadRawProject(proc) = [proc EXCEPT !.raw = files[Project]]
              /\ files[Project] \in ProjectTexts
BY DEF LoadRawProject, FilesInv

\* The commands before the lifecycle: the file is read, and the project rendered.
LEMMA PrepareData ==
  ASSUME InitInv, ProcInv, StartCommand \/ GetPlatforms \/ RenderFor
  PROVE  ProcInv'
<1>0. Shape /\ Read /\ Variable /\ FilesInv /\ (saved = None \/ saved \subseteq Variables)
  BY DEF ProcInv, InitInv, Shape
<1>1. CASE StartCommand
  <2>1. /\ DOMAIN proc' = DOMAIN Idle /\ proc'.pc = "configure" /\ proc'.model = None
        /\ proc'.raw = None /\ proc'.set = {} /\ saved' = saved
    BY <1>1, IdleFacts DEF StartCommand
  <2>. QED
    BY <1>0, <2>1, IdleFacts DEF ProcInv, Shape, Read, Variable, MetadataComplete, At
<1>2. CASE GetPlatforms
  <2>1. proc.pc = "configure" /\ saved' = saved
    BY <1>2 DEF GetPlatforms, At
  <2>2. CASE Raise
    BY <1>0, <2>1, <2>2, Stopped DEF Raise
  <2>3. CASE ~Raise
    <3> DEFINE r == LoadRawProject(proc)
    <3>1. /\ r.raw # None /\ Parsed(r.raw).dict
          /\ proc' = [[r EXCEPT !.platforms = Parsed(r.raw).platforms] EXCEPT !.pc = "render"]
      BY <1>2, <2>3 DEF GetPlatforms, Continue
    <3>2. proc.raw = None /\ proc.model = None
      BY <1>0, <2>1 DEF Read
    <3>3. Exists(Project) /\ r = [proc EXCEPT !.raw = files[Project]] /\ files[Project] \in ProjectTexts
      BY <1>0, <3>1, <3>2, ReadFacts
    <3> HIDE DEF r
    <3>4. DOMAIN r = DOMAIN proc /\ r.raw \in ProjectTexts /\ r.model = None /\ r.set = proc.set
      BY <1>0, <3>2, <3>3 DEF Shape
    <3>5. /\ DOMAIN proc' = DOMAIN proc /\ proc'.pc = "render" /\ proc'.raw = r.raw
          /\ proc'.platforms = Parsed(r.raw).platforms /\ proc'.model = None
          /\ proc'.set = proc.set
      BY <1>0, <3>1, <3>4 DEF Shape
    <3>6. Shape' /\ Read'
      BY <1>0, <2>1, <3>1, <3>4, <3>5 DEF Shape, Read, ProjectTexts
    <3>. QED
      BY <3>5, <3>6 DEF ProcInv, Variable, MetadataComplete, At
  <2>. QED
    BY <2>2, <2>3
<1>3. CASE RenderFor
  <2>1. proc.pc = "render" /\ proc.raw # None /\ saved' = saved /\ LoadRawProject(proc) = proc
    BY <1>0, <1>3, ReadFacts DEF RenderFor, At, Read
  <2>2. CASE Raise
    BY <1>0, <2>1, <2>2, Stopped DEF Raise
  <2>3. CASE ~Raise
    <3> DEFINE project == Parsed(proc.raw)
    <3>1. /\ project.dict /\ project.valid
          /\ proc' = [[proc EXCEPT
               !.projectvars = [f \in Variables |-> project.fields[f]],
               !.model = [platforms |-> proc.platforms, fields |-> Rendering(project)]]
               EXCEPT !.pc = "parts"]
      BY <1>3, <2>1, <2>3 DEF RenderFor, Continue
    <3>2. /\ DOMAIN proc' = DOMAIN proc /\ proc'.pc = "parts" /\ proc'.raw = proc.raw
          /\ proc'.platforms = proc.platforms /\ proc'.set = proc.set
          /\ proc'.model = [platforms |-> proc.platforms, fields |-> Rendering(project)]
      BY <1>0, <3>1 DEF Shape
    <3>3. Shape' /\ Read'
      BY <1>0, <2>1, <3>1, <3>2 DEF Shape, Read, Rendering
    <3>. QED
      BY <3>2, <3>3 DEF ProcInv, Variable, MetadataComplete, At
  <2>. QED
    BY <2>2, <2>3
<1>. QED
  BY <1>1, <1>2, <1>3

\* The part sets variables, now or when it was executed last.
LEMMA SetFacts ==
  ASSUME Shape, NEW variables, SetBy(variables)
  PROVE  /\ DOMAIN proc' = DOMAIN proc /\ proc'.pc = "update" /\ proc'.set = variables
         /\ proc'.raw = proc.raw /\ proc'.platforms = proc.platforms /\ proc'.model = proc.model
         /\ proc'.projectvars = [f \in Variables |->
                                   IF f \in variables THEN Adopted ELSE proc.projectvars[f]]
BY DEF SetBy, Continue, Shape

\* Every field is the updated one or, if there is no update for it, as it was.
LEMMA UpdateFacts ==
  ASSUME NEW fields, NEW update
  PROVE  /\ DOMAIN DeepUpdate(fields, update) = Fields
         /\ \A f \in Fields : f \in DOMAIN update => DeepUpdate(fields, update)[f] = update[f]
         /\ \A f \in Fields : f \notin DOMAIN update => DeepUpdate(fields, update)[f] = fields[f]
BY DEF DeepUpdate

\* What a subclass does not change is missing only if it was before.
LEMMA StillMissing ==
  ASSUME NEW fields, NEW extra, Missing(fields) = {}
  PROVE  Missing(DeepUpdate(fields, extra)) \subseteq DOMAIN extra
BY UpdateFacts, VariablesAreFields DEF Missing

\* The lifecycle and the update of the project after it.
LEMMA RunData ==
  ASSUME ProcInv, RunParts \/ UpdateProject \/ WriteMetadata \/ FailCommand
  PROVE  ProcInv'
<1>0. Shape /\ Read /\ Variable /\ (saved = None \/ saved \subseteq Variables)
  BY DEF ProcInv, Shape
<1>1. CASE RunParts
  <2>1. proc.pc = "parts"
    BY <1>1 DEF RunParts, At
  <2>2. CASE Raise /\ UNCHANGED saved
    BY <1>0, <2>2, Stopped DEF Raise
  <2>3. ASSUME NEW variables, SetBy(variables), variables \subseteq Variables,
               saved' = variables \/ saved' = saved
        PROVE  ProcInv'
    <3>1. Shape' /\ Read'
      BY <1>0, <2>1, <2>3, SetFacts, ZenonT(60) DEF Shape, Read
    <3>2. Variable'
      <4>1. /\ proc'.set = variables
            /\ proc'.projectvars = [f \in Variables |->
                                      IF f \in variables THEN Adopted ELSE proc.projectvars[f]]
        BY <1>0, <2>3, SetFacts
      <4>2. \A f \in variables : proc'.projectvars[f] = Adopted
        BY <2>3, <4>1
      <4>. QED
        BY <4>1, <4>2 DEF Variable
    <3>. QED
      BY <1>0, <2>3, <3>1, <3>2, SetFacts DEF ProcInv, MetadataComplete, At
  <2>4. CASE \E variables \in IF Parsed(proc.raw).adopt THEN SUBSET Variables ELSE {{}} :
               SetBy(variables) /\ saved' = variables
    BY <2>3, <2>4
  <2>5. CASE /\ saved # None
             /\ SetBy(IF Parsed(proc.raw).adopt THEN saved ELSE {})
             /\ UNCHANGED saved
    BY <1>0, <2>3, <2>5
  <2>. QED
    BY <1>1, <2>2, <2>4, <2>5 DEF RunParts
<1>2. CASE UpdateProject
  <2> DEFINE fields == DeepUpdate(proc.model.fields, proc.projectvars)
  <2>1. proc.pc = "update" /\ saved' = saved
    BY <1>2 DEF UpdateProject, At
  <2>2. CASE Raise
    BY <1>0, <2>1, <2>2, Stopped DEF Raise
  <2>3. CASE ~Raise
    <3>1. PICK extra \in Extras :
            /\ Missing(fields) = {}
            /\ proc' = [[proc EXCEPT !.extra = extra,
                           !.model.fields = DeepUpdate(fields, extra)] EXCEPT !.pc = "metadata"]
      BY <1>2, <2>3 DEF UpdateProject, Continue
    <3>2. /\ proc.model = [platforms |-> proc.platforms, fields |-> Rendering(Parsed(proc.raw))]
          /\ proc.raw # None /\ proc.raw \in ProjectTexts
          /\ Parsed(proc.raw).dict /\ proc.platforms = Parsed(proc.raw).platforms
      BY <1>0, <2>1 DEF Read
    <3>3. /\ DOMAIN proc.projectvars = Variables
          /\ \A f \in proc.set : proc.projectvars[f] = Adopted
      BY <1>0, <2>1 DEF Variable, At
    <3> HIDE DEF fields
    <3>4. /\ DOMAIN proc' = DOMAIN proc /\ proc'.pc = "metadata" /\ proc'.raw = proc.raw
          /\ proc'.platforms = proc.platforms /\ proc'.set = proc.set /\ proc'.extra = extra
          /\ DOMAIN proc'.model = {"platforms", "fields"}
          /\ proc'.model.platforms = proc.platforms
          /\ proc'.model.fields = DeepUpdate(fields, extra)
      BY <1>0, <3>1, <3>2 DEF Shape
    <3>5. Shape' /\ Read'
      BY <1>0, <2>1, <3>2, <3>4 DEF Shape, Read, ProjectTexts
    <3>6. MetadataComplete'
      <4>1. ASSUME NEW f \in Fields \ DOMAIN extra
            PROVE  /\ f \in proc.set => proc'.model.fields[f] = Adopted
                   /\ f \notin Variables =>
                        proc'.model.fields[f] = Expand(Parsed(proc.raw).fields[f])
        <5>1. proc'.model.fields[f] = fields[f]
          BY <3>4, UpdateFacts
        <5>2. CASE f \in proc.set
          <6>1. f \in Variables
            BY <1>0, <5>2 DEF Shape
          <6>2. fields[f] = proc.projectvars[f]
            BY <3>3, <6>1, UpdateFacts DEF fields
          <6>. QED
            BY <3>3, <5>1, <5>2, <6>1, <6>2
        <5>3. CASE f \notin proc.set
          <6>1. f \notin Variables => fields[f] = proc.model.fields[f]
            BY <3>3, UpdateFacts DEF fields
          <6>. QED
            BY <3>2, <5>1, <5>3, <6>1 DEF Rendering
        <5>. QED
          BY <5>2, <5>3
      <4>2. Missing(proc'.model.fields) \subseteq DOMAIN extra
        BY <3>1, <3>4, StillMissing
      <4>. QED
        BY <3>4, <4>1, <4>2 DEF MetadataComplete, Missing
    <3>. QED
      BY <3>4, <3>5, <3>6 DEF ProcInv, Variable, At
  <2>. QED
    BY <2>2, <2>3
<1>3. CASE WriteMetadata
  BY <1>0, <1>3, Stopped DEF WriteMetadata
<1>4. CASE FailCommand
  BY <1>0, <1>4, Stopped DEF FailCommand, Raise
<1>. QED
  BY <1>1, <1>2, <1>3, <1>4
-----------------------------------------------------------------------------
(* The directory and both commands. *)

\* A step that leaves the init command and its variables alone.
LEMMA InitKept ==
  ASSUME InitInv, UNCHANGED initvars
  PROVE  InitInv'
BY DEF InitInv, initvars, history, InitShape, FilesInv, Checked, InTemplates, Absent, Own,
       Initialising, InitAt, Exists, Version, Rendered, ArgumentError, TemplateDir

\* A step that leaves the lifecycle command alone.
LEMMA ProcKept ==
  ASSUME ProcInv, UNCHANGED <<proc, saved>>
  PROVE  ProcInv'
BY DEF ProcInv, Shape, Read, Variable, MetadataComplete, At, Missing

\* At the start nothing has been done.
LEMMA DataStart ==
  ASSUME Init
  PROVE  DataInv
<1>1. InitInv
  BY NoInitFacts DEF Init, InitInit, InitInv, InitShape, FilesInv, Checked, InTemplates, Absent,
                     Own, Initialising, InitAt, Exists
<1>2. ProcInv
  BY IdleFacts DEF Init, ProcInv, Shape, Read, Variable, MetadataComplete, At
<1>. QED
  BY <1>1, <1>2 DEF DataInv

\* The invariant is inductive.
LEMMA DataStep ==
  ASSUME DataInv, [Next]_vars
  PROVE  DataInv'
<1>0. InitInv /\ ProcInv
  BY DEF DataInv
<1>1. CASE Lifecycle
  <2>1. UNCHANGED initvars
    BY <1>1 DEF Lifecycle, StartCommand, GetPlatforms, RenderFor, RunParts, UpdateProject,
                WriteMetadata, FailCommand
  <2>. QED
    BY <1>0, <1>1, <2>1, InitKept, PrepareData, RunData DEF Lifecycle, DataInv
<1>2. CASE InitCommand /\ UNCHANGED <<proc, saved>>
  BY <1>0, <1>2, PrepareStep, RenderStep, ProcKept DEF InitCommand, DataInv
<1>3. CASE User /\ UNCHANGED <<proc, saved>>
  BY <1>0, <1>3, UserStep, ProcKept DEF DataInv
<1>4. CASE UNCHANGED vars
  BY <1>0, <1>4, InitKept, ProcKept DEF vars, DataInv
<1>. QED
  BY <1>1, <1>2, <1>3, <1>4 DEF Next

\* It holds at all times.
LEMMA DataHolds == Spec => []DataInv
BY DataStart, DataStep, PTL DEF Spec
-----------------------------------------------------------------------------
(* The results. *)

\* The init command and the lifecycle command keep their variables in order: no
\* file without a directory, no context outside rendering, and the platforms of
\* the model are those of the text that was read.
THEOREM DataTypes == Spec => []TypeOK
<1>1. DataInv => TypeOK
  BY DEF DataInv, InitInv, FilesInv, Checked, Absent, Own, ProcInv, Shape, Read, TypeOK
<1>. QED
  BY <1>1, DataHolds, PTL

\* However often the project file is edited while a command runs, the platforms
\* and the fields are those of one text, and that is a valid project.
THEOREM OneVersion == Spec => []ReadOnce
<1>1. DataInv => ReadOnce
  BY DEF DataInv, ProcInv, Read, ReadOnce, At
<1>. QED
  BY <1>1, DataHolds, PTL

\* The metadata that is written lacks nothing that is mandatory, and has what the
\* part has set, unless a subclass changes it afterwards.
THEOREM CompleteMetadata == Spec => []MetadataComplete
<1>1. DataInv => MetadataComplete
  BY DEF DataInv, ProcInv
<1>. QED
  BY <1>1, DataHolds, PTL

\* The name that is rendered is one the model accepts: one with other characters
\* is not used, and the length of one that is used is assumed.
LEMMA NameFacts ==
  ASSUME NEW line, GivenName(line).legal => GivenName(line).length <= MaxName
  PROVE  NameStr(ProjectName(line))
BY InitAssumption DEF ProjectName, NameStr, DefaultName

\* The init command ends well only with a project file that the model accepts,
\* for any templates, if the user leaves it alone, the version from git is
\* one, and a name with the right characters is not too long.
THEOREM InitMakesProjects == Spec => ReadyToBuild
<1>1. ASSUME DataInv, [Next]_vars
      PROVE  [Succeeds /\ Project \notin touched
                /\ (git = "own" /\ commit # None => VersionStr(Version))
                /\ (GivenName(init.line).legal => GivenName(init.line).length <= MaxName)
                => Parsed(files[Project]).valid]_vars
  <2>0. InitInv /\ InitShape
    BY <1>1 DEF DataInv, InitInv
  <2>1. SUFFICES ASSUME Succeeds, Project \notin touched,
                        git = "own" /\ commit # None => VersionStr(Version),
                        GivenName(init.line).legal => GivenName(init.line).length <= MaxName
                 PROVE  Parsed(files[Project]).valid
    OBVIOUS
  <2>2. FinishInit
    <3>1. init' # init
      BY <2>1 DEF Succeeds
    <3>2. ~(User /\ UNCHANGED <<proc, saved>>) /\ ~UNCHANGED vars /\ ~Lifecycle
      BY <3>1 DEF User, MakeDir, EditFile, RemoveFile, Commit, vars, initvars, Lifecycle,
                  StartCommand, GetPlatforms, RenderFor, RunParts, UpdateProject,
                  WriteMetadata, FailCommand
    <3>3. ~InitRaise
      BY <2>1, NoInitFacts DEF Succeeds, InitRaise
    <3>4. ~StartInit /\ ~FailInit
      BY <2>1, <3>3, NoInitFacts DEF Succeeds, StartInit, FailInit
    <3>5. ~InitializeVcs
      BY <2>0, <2>1, <3>3, GoesOn DEF Succeeds, InitializeVcs
    <3>6. ~CreateGitIgnore /\ ~CreateProjectDir
      <4>1. CreateGitIgnore => init'.pc = "mkdir"
        BY <2>0, GoesOn DEF CreateGitIgnore
      <4>2. CreateProjectDir => init'.pc = "render"
        BY <2>0 DEF CreateProjectDir, InitShape
      <4>. QED
        BY <2>1, <4>1, <4>2 DEF Succeeds
    <3>7. ~RenderTemplate /\ ~WriteTemplate
      <4>1. RenderTemplate => init'.pc \in {"render", "write"}
        <5>1. init.pc = "render" /\ init' = [init EXCEPT !.todo = Tail(@)] => init'.pc = "render"
          BY <2>0 DEF InitShape
        <5>. QED
          BY <2>0, <5>1, GoesOn DEF RenderTemplate, InitAt
      <4>2. WriteTemplate => init'.pc = "render"
        BY <2>0 DEF WriteTemplate, InitShape
      <4>. QED
        BY <2>1, <4>1, <4>2 DEF Succeeds
    <3>. QED
      BY <1>1, <3>2, <3>4, <3>5, <3>6, <3>7 DEF Next, InitCommand
  <2>3. InitAt("render") /\ init.todo = <<>>
    BY <2>2 DEF FinishInit
  <2>4. Exists(Project) /\ files[Project] = Rendered(init.context)
        /\ init.context = [name |-> ProjectName(init.line), version |-> Version]
    BY <2>0, <2>1, <2>3 DEF InitInv, InTemplates, Own, InitAt
  <2>5. VersionStr(Version)
    <3>1. MaxVersion >= 3 /\ MaxVersion \in Nat
      BY InitAssumption
    <3>. QED
      BY <2>1, <3>1 DEF Version, VersionStr, DefaultVersion
  <2>. QED
    <3>1. NameStr(init.context.name) /\ VersionStr(init.context.version)
      BY <2>1, <2>4, <2>5, NameFacts
    <3>. QED
      BY <2>4, <3>1, DataAssumption DEF Rendered
<1>. QED
  BY <1>1, DataHolds, PTL DEF Spec, ReadyToBuild
-----------------------------------------------------------------------------
(* The files are texts, and init keeps them. *)

\* The lines that are missing are lines.
LEMMA MissingLinesType ==
  ASSUME NEW there
  PROVE  MissingLines(there) \in Seq(STRING)
BY InitAssumption, SelectFacts DEF MissingLines

\* The provers know of no literal that it is a string, so those of the model are
\* named.
TextLines ==
  STRING \cup {"", "# Added", "template", "rendered", "badly rendered", "cut short"}
Text == Seq(TextLines)

\* Sequences of strings are texts, and so is each of the lines above.
LEMMA TextFacts ==
  /\ \A text \in Seq(STRING) : text \in Text
  /\ <<>> \in Text /\ <<"">> \in Text /\ <<"# Added">> \in Text /\ <<"template">> \in Text
  /\ <<"rendered">> \in Text /\ <<"badly rendered">> \in Text /\ <<"cut short">> \in Text
<1>1. STRING \subseteq TextLines
  BY DEF TextLines
<1>2. ASSUME NEW text \in Seq(STRING)
      PROVE  text \in Text
  BY <1>1, SeqMonotonic DEF Text
<1>3. ASSUME NEW line \in TextLines
      PROVE  <<line>> \in Text
  BY DEF Text
<1>4. /\ "" \in TextLines /\ "# Added" \in TextLines /\ "template" \in TextLines
      /\ "rendered" \in TextLines /\ "badly rendered" \in TextLines /\ "cut short" \in TextLines
  BY DEF TextLines
<1>5. <<"">> \in Text /\ <<"# Added">> \in Text
  BY <1>3, <1>4
<1>6. <<"template">> \in Text /\ <<"rendered">> \in Text
  BY <1>3, <1>4
<1>7. <<"badly rendered">> \in Text /\ <<"cut short">> \in Text
  BY <1>3, <1>4
<1>8. <<>> \in Text
  BY EmptySeq DEF Text
<1>. QED
  BY <1>2, <1>5, <1>6, <1>7, <1>8

\* What is added to a text leaves it at the front.
LEMMA Appended ==
  ASSUME NEW front \in Text, NEW more \in Text
  PROVE  /\ front \o more \in Text /\ Len(front \o more) = Len(front) + Len(more)
         /\ \A i \in 1 .. Len(front) : (front \o more)[i] = front[i]
<1>1. /\ front \o more \in Text /\ Len(front \o more) = Len(front) + Len(more)
      /\ \A i \in 1 .. Len(front) + Len(more) :
           (front \o more)[i] = IF i <= Len(front) THEN front[i] ELSE more[i - Len(front)]
  BY ConcatProperties DEF Text
<1>2. Len(front) \in Nat /\ Len(more) \in Nat
  BY LenProperties DEF Text
<1>. QED
  BY <1>1, <1>2

\* A text that is longer, and the same as far as the other goes.
LEMMA LongerText ==
  ASSUME NEW s \in Text, NEW t \in Text, Len(s) < Len(t), \A i \in 1 .. Len(s) : t[i] = s[i]
  PROVE  IsStrictPrefix(s, t)
<1>1. Len(s) \in Nat /\ Len(t) \in Nat
  BY LenProperties DEF Text
<1>2. SubSeq(s, 1, Len(s)) = SubSeq(t, 1, Len(s))
  BY <1>1
<1>. QED
  BY <1>1, <1>2 DEF IsStrictPrefix, IsPrefix

\* What the application adds to .gitignore.
LEMMA AddedToIgnore ==
  ASSUME NEW old \in Text, NEW gap \in Text, NEW missing \in Text
  PROVE  /\ old \o gap \o <<"# Added">> \o missing \in Text
         /\ IsStrictPrefix(old, old \o gap \o <<"# Added">> \o missing)
<1>1. PICK note \in Text : note = <<"# Added">>
  BY TextFacts
<1>2. PICK x \in Text : x = old \o gap
  BY Appended
<1>3. PICK y \in Text : y = x \o note
  BY Appended
<1>4. PICK z \in Text : z = y \o missing
  BY Appended
<1>5. /\ Len(old) \in Nat /\ Len(gap) \in Nat /\ Len(missing) \in Nat
      /\ Len(x) \in Nat /\ Len(y) \in Nat /\ Len(note) = 1
  BY <1>1, LenProperties DEF Text
<1>6. Len(x) = Len(old) + Len(gap) /\ \A i \in 1 .. Len(old) : x[i] = old[i]
  BY <1>2, Appended
<1>7. Len(y) = Len(x) + Len(note) /\ \A i \in 1 .. Len(x) : y[i] = x[i]
  BY <1>3, Appended
<1>8. Len(z) = Len(y) + Len(missing) /\ \A i \in 1 .. Len(y) : z[i] = y[i]
  BY <1>4, Appended
<1>9. Len(old) < Len(z) /\ \A i \in 1 .. Len(old) : z[i] = old[i]
  BY <1>5, <1>6, <1>7, <1>8
<1>10. IsStrictPrefix(old, z)
  BY <1>9, LongerText
<1>. QED
  BY <1>1, <1>2, <1>3, <1>4, <1>10

\* What the files hold, and what is written to them, is text.
Texts == \A n \in DOMAIN files : files[n] \in Text

\* Writing a text leaves nothing but texts.
LEMMA TextWritten ==
  ASSUME Texts, NEW n, NEW text \in Text, Write(n, text)
  PROVE  Texts'
<1>1. /\ DOMAIN files' = DOMAIN files \cup {n} /\ files'[n] = text
      /\ \A m \in DOMAIN files \ {n} : files'[m] = files[m]
  BY Written
<1>. QED
  BY <1>1 DEF Texts

\* The step that adds lines to .gitignore.
LEMMA IgnoreStep ==
  ASSUME Texts, CreateGitIgnore
  PROVE  /\ Texts'
         /\ \A n \in DOMAIN files :
              /\ n \in DOMAIN files'
              /\ files'[n] = files[n] \/ (n = GitIgnore /\ IsStrictPrefix(files[n], files'[n]))
<1> DEFINE old == IF Exists(GitIgnore) THEN files[GitIgnore] ELSE <<>>
           gap == IF Exists(GitIgnore) THEN <<"">> ELSE <<>>
           missing == MissingLines(Range(old))
           new == old \o gap \o <<"# Added">> \o missing
<1>1. UNCHANGED files \/ Write(GitIgnore, new)
  BY DEF CreateGitIgnore
<1>2. old \in Text /\ gap \in Text
  BY TextFacts DEF Texts, Exists
<1>3. missing \in Text
  BY MissingLinesType, TextFacts
<1>4. Exists(GitIgnore) => old = files[GitIgnore]
  OBVIOUS
<1> HIDE DEF old, gap, missing
<1>5. new \in Text /\ IsStrictPrefix(old, new)
  BY <1>2, <1>3, AddedToIgnore
<1> HIDE DEF new
<1>6. CASE UNCHANGED files
  BY <1>6 DEF Texts
<1>7. CASE Write(GitIgnore, new)
  <2>1. Texts'
    BY <1>5, <1>7, TextWritten
  <2>2. /\ DOMAIN files' = DOMAIN files \cup {GitIgnore} /\ files'[GitIgnore] = new
        /\ \A m \in DOMAIN files \ {GitIgnore} : files'[m] = files[m]
    BY <1>7, Written
  <2>. QED
    BY <1>4, <1>5, <2>1, <2>2 DEF Exists
<1>. QED
  BY <1>1, <1>6, <1>7

\* What a template makes is text.
LEMMA MadeText ==
  ASSUME NEW t
  PROVE  Made(t) \in Text
BY TextFacts DEF Made, Rendered

\* The files hold text at all times.
LEMMA TextsStep ==
  ASSUME DataInv, Texts, [Next]_vars
  PROVE  Texts'
<1>1. CASE UNCHANGED files
  BY <1>1 DEF Texts
<1>2. CASE CreateGitIgnore
  BY <1>2, IgnoreStep
<1>3. CASE WriteTemplate
  BY <1>3, MadeText, TextWritten DEF WriteTemplate
<1>4. CASE FailInit
  <2>1. UNCHANGED files \/ Write(Head(init.todo).file, <<"cut short">>)
    BY <1>4 DEF FailInit
  <2>. QED
    BY <1>1, <2>1, TextFacts, TextWritten
<1>5. CASE EditFile
  <2>1. PICK n \in DOMAIN UserTexts : \E text \in UserTexts[n] : Write(n, text)
    BY <1>5 DEF EditFile
  <2>2. PICK text \in UserTexts[n] : Write(n, text)
    BY <2>1
  <2>3. text \in Text
    BY Constants, TextFacts
  <2>. QED
    BY <2>2, <2>3, TextWritten
<1>6. CASE RemoveFile
  BY <1>6 DEF RemoveFile, Texts
<1>7. CASE StartInit \/ InitializeVcs \/ CreateProjectDir \/ RenderTemplate \/ FinishInit
  BY <1>1, <1>7 DEF StartInit, InitializeVcs, CreateProjectDir, RenderTemplate, FinishInit
<1>8. CASE Lifecycle \/ MakeDir \/ Commit \/ UNCHANGED vars
  BY <1>1, <1>8 DEF Lifecycle, StartCommand, GetPlatforms, RenderFor, RunParts, UpdateProject,
                    WriteMetadata, FailCommand, initvars, MakeDir, Commit, vars
<1>. QED
  BY <1>2, <1>3, <1>4, <1>5, <1>6, <1>7, <1>8 DEF Next, InitCommand, User

\* All files hold texts, whoever wrote them.
LEMMA TextsHold == Spec => []Texts
<1>1. Init => Texts
  BY DEF Init, InitInit, Texts
<1>. QED
  BY <1>1, TextsStep, DataHolds, PTL DEF Spec

\* The init command keeps the files of the user: nothing is removed, and nothing
\* written over but a file made after the command found it absent; .gitignore
\* only grows, at its end.
THEOREM FilesKept == Spec => UserFilesKept
<1> DEFINE Kept == \A n \in DOMAIN files :
                     init' # init => /\ n \in DOMAIN files'
                                     /\ \/ files'[n] = files[n]
                                        \/ late /\ n = Head(init.todo).file
                                        \/ n = GitIgnore /\ IsStrictPrefix(files[n], files'[n])
<1>1. ASSUME DataInv, Texts, [Next]_vars
      PROVE  [Kept]_vars
  <2>1. CASE UNCHANGED files
    BY <2>1
  <2>2. CASE CreateGitIgnore
    BY <1>1, <2>2, IgnoreStep
  <2>3. ASSUME InitAt("write"), NEW text, Write(Head(init.todo).file, text)
        PROVE  Kept
    <3>1. late \/ ~Exists(Head(init.todo).file)
      BY <1>1, <2>3 DEF DataInv, InitInv, Absent
    <3>2. /\ DOMAIN files' = DOMAIN files \cup {Head(init.todo).file}
          /\ \A m \in DOMAIN files \ {Head(init.todo).file} : files'[m] = files[m]
      BY <2>3, Written
    <3>. QED
      BY <3>1, <3>2 DEF Exists
  <2>4. CASE WriteTemplate
    BY <2>3, <2>4 DEF WriteTemplate
  <2>5. CASE FailInit
    BY <2>1, <2>3, <2>5 DEF FailInit
  <2>6. CASE StartInit \/ InitializeVcs \/ CreateProjectDir \/ RenderTemplate \/ FinishInit
    BY <2>1, <2>6 DEF StartInit, InitializeVcs, CreateProjectDir, RenderTemplate, FinishInit
  <2>7. CASE Lifecycle \/ User \/ UNCHANGED vars
    <3>1. UNCHANGED init
      BY <2>7 DEF Lifecycle, StartCommand, GetPlatforms, RenderFor, RunParts, UpdateProject,
                  WriteMetadata, FailCommand, initvars, User, MakeDir, EditFile, RemoveFile,
                  Commit, vars
    <3>. QED
      BY <3>1
  <2>. QED
    BY <1>1, <2>2, <2>4, <2>5, <2>6, <2>7 DEF Next, InitCommand
<1>. QED
  BY <1>1, DataHolds, TextsHold, PTL DEF Spec, UserFilesKept
-----------------------------------------------------------------------------
(* Init makes all of the template, and adds each of its lines once. *)

\* No ignored line is in a text twice.
OnceIn(text) ==
  \A l \in Range(Ignored) : \A i, j \in DOMAIN text : text[i] = l /\ text[j] = l => i = j

\* All of the ignored lines are in a text, or none.
AllIn(text) == \A l \in Range(Ignored) : \E i \in DOMAIN text : text[i] = l
NoneIn(text) == \A i \in DOMAIN text : text[i] \notin Range(Ignored)

\* The lines the application has git ignore differ, from what init puts above them
\* too, and no user has one of them twice.
IgnoredOnce ==
  /\ OnceIn(Ignored) /\ {"", "# Added"} \cap Range(Ignored) = {}
  /\ \A text \in UserTexts[GitIgnore] : OnceIn(text)

\* Why a file may not be the template's.
Excused(n) == n \in touched \/ (n = GitIgnore /\ init.line.vcs = "git")

\* Before the directory is filled none of the files is there, later each is to
\* come or there; all the time one that is there is excused or the template's.
Filling ==
  /\ late => Head(init.todo).file \in touched
  /\ InitAt("ignore") => init.line.vcs = "git"
  /\ init.pc \in {"vcs", "ignore", "mkdir"} =>
       \A t \in Range(TemplatesOf(init.line)) : Exists(t.file) => Excused(t.file)
  /\ init.pc \in {"render", "write"} =>
       \A t \in Range(TemplatesOf(init.line)) :
         /\ Exists(t.file) \/ t \in Range(init.todo)
         /\ Exists(t.file) => Excused(t.file) \/ files[t.file] = Made(t)

\* A .gitignore has none of the lines twice, whoever wrote it, and from the time
\* init has added them it has them all, unless the user wrote it again.
Ignoring ==
  /\ Exists(GitIgnore) => OnceIn(files[GitIgnore])
  /\ /\ init.pc \in {"mkdir", "render", "write"} /\ init.line.vcs = "git"
     /\ GitIgnore \notin touched /\ Range(Ignored) # {}
     => Exists(GitIgnore) /\ AllIn(files[GitIgnore])

\* The positions of a text.
LEMMA Positions ==
  ASSUME NEW text \in Text
  PROVE  Len(text) \in Nat /\ DOMAIN text = 1 .. Len(text)
BY LenProperties DEF Text

\* The lines that init adds: each that is missing, and if the application names none
\* twice, once.
LEMMA MissingFacts ==
  ASSUME NEW there
  PROVE  /\ \A k \in 1 .. Len(MissingLines(there)) : MissingLines(there)[k] \notin there
         /\ \A l \in Range(Ignored) \ there :
              \E k \in 1 .. Len(MissingLines(there)) : MissingLines(there)[k] = l
         /\ OnceIn(Ignored) =>
              \A k, m \in 1 .. Len(MissingLines(there)) :
                MissingLines(there)[k] = MissingLines(there)[m] => k = m
<1> DEFINE positions == {i \in DOMAIN Ignored : Ignored[i] \notin there}
           missing == MissingLines(there)
<1>1. Ignored \in Seq(STRING) /\ Len(Ignored) \in Nat /\ DOMAIN Ignored = 1 .. Len(Ignored)
  BY InitAssumption, LenProperties
<1>2. missing = Select(Ignored, positions) /\ Len(missing) \in Nat
  BY MissingLinesType, LenProperties DEF MissingLines
<1>3. PICK pos \in [1 .. Len(missing) -> positions \cap (1 .. Len(Ignored))] :
        /\ \A k \in 1 .. Len(missing) : missing[k] = Ignored[pos[k]]
        /\ \A k, m \in 1 .. Len(missing) : k < m => pos[k] < pos[m]
        /\ \A i \in positions \cap (1 .. Len(Ignored)) : \E k \in 1 .. Len(missing) : pos[k] = i
  <2> HIDE DEF positions, missing
  <2>. QED
    BY <1>1, <1>2, SelectFacts
<1>4. \A k \in 1 .. Len(missing) : pos[k] \in 1 .. Len(Ignored) /\ Ignored[pos[k]] \notin there
  BY <1>3
<1>5. ASSUME NEW l \in Range(Ignored) \ there
      PROVE  \E k \in 1 .. Len(missing) : missing[k] = l
  <2>1. PICK i \in 1 .. Len(Ignored) : Ignored[i] = l
    BY <1>1 DEF Range
  <2>2. i \in positions
    BY <1>1, <2>1
  <2> HIDE DEF positions, missing
  <2>. QED
    BY <1>3, <2>1, <2>2
<1>6. ASSUME OnceIn(Ignored), NEW k \in 1 .. Len(missing), NEW m \in 1 .. Len(missing),
             missing[k] = missing[m]
      PROVE  k = m
  <2> HIDE DEF positions, missing
  <2>1. Ignored[pos[k]] = Ignored[pos[m]] /\ Ignored[pos[k]] \in Range(Ignored)
    BY <1>1, <1>3, <1>4, <1>6 DEF Range
  <2>2. pos[k] = pos[m]
    BY <1>1, <1>4, <1>6, <2>1 DEF OnceIn
  <2>3. ~(k < m) /\ ~(m < k)
    BY <1>3, <1>4, <2>2
  <2>. QED
    BY <1>2, <2>3
<1> HIDE DEF missing
<1>7. \A k \in 1 .. Len(missing) : missing[k] \notin there
  BY <1>3, <1>4
<1>. QED
  BY <1>5, <1>6, <1>7 DEF missing

\* Where the lines of a text are that is put together of four: the last of them begins
\* below the others.
IsJoined(new, below, old, gap, note, missing) ==
  /\ new = old \o gap \o note \o missing /\ below = Len(old) + Len(gap) + Len(note)
  /\ DOMAIN new = 1 .. below + Len(missing)
  /\ \A i \in 1 .. Len(old) : new[i] = old[i]
  /\ \A i \in Len(old) + 1 .. Len(old) + Len(gap) : new[i] = gap[i - Len(old)]
  /\ \A i \in Len(old) + Len(gap) + 1 .. below : new[i] = note[i - (Len(old) + Len(gap))]
  /\ \A k \in 1 .. Len(missing) : new[below + k] = missing[k]
  /\ \A i \in below + 1 .. below + Len(missing) : new[i] = missing[i - below]

\* Four texts, one below the other, are a text.
LEMMA Joined ==
  ASSUME NEW old \in Text, NEW gap \in Text, NEW note \in Text, NEW missing \in Text
  PROVE  \E new \in Text, below \in Nat : IsJoined(new, below, old, gap, note, missing)
<1>1. PICK x \in Text : x = old \o gap
  BY Appended
<1>2. PICK y \in Text : y = x \o note
  BY Appended
<1>3. PICK z \in Text : z = y \o missing
  BY Appended
<1>4. /\ Len(old) \in Nat /\ Len(gap) \in Nat /\ Len(note) \in Nat /\ Len(missing) \in Nat
      /\ Len(x) \in Nat /\ Len(y) \in Nat /\ Len(z) \in Nat
  BY Positions
<1>5. /\ Len(x) = Len(old) + Len(gap)
      /\ \A i \in 1 .. Len(x) : x[i] = IF i <= Len(old) THEN old[i] ELSE gap[i - Len(old)]
  BY <1>1, ConcatProperties DEF Text
<1>6. /\ Len(y) = Len(x) + Len(note)
      /\ \A i \in 1 .. Len(y) : y[i] = IF i <= Len(x) THEN x[i] ELSE note[i - Len(x)]
  BY <1>2, ConcatProperties DEF Text
<1>7. /\ Len(z) = Len(y) + Len(missing)
      /\ \A i \in 1 .. Len(z) : z[i] = IF i <= Len(y) THEN y[i] ELSE missing[i - Len(y)]
  BY <1>3, ConcatProperties DEF Text
<1>8. z = old \o gap \o note \o missing /\ DOMAIN z = 1 .. Len(z)
  BY <1>1, <1>2, <1>3, Positions
<1>9. /\ \A i \in 1 .. Len(old) : z[i] = old[i]
      /\ \A i \in Len(old) + 1 .. Len(old) + Len(gap) : z[i] = gap[i - Len(old)]
  BY <1>4, <1>5, <1>6, <1>7, SMTT(40)
<1>10. \A i \in Len(x) + 1 .. Len(y) : z[i] = note[i - Len(x)]
  BY <1>4, <1>6, <1>7
<1>11. /\ \A k \in 1 .. Len(missing) : z[Len(y) + k] = missing[k]
       /\ \A i \in Len(y) + 1 .. Len(y) + Len(missing) : z[i] = missing[i - Len(y)]
  BY <1>4, <1>7, SMTT(40)
<1>12. Len(y) = Len(old) + Len(gap) + Len(note)
  BY <1>4, <1>5, <1>6
<1>13. /\ DOMAIN z = 1 .. Len(y) + Len(missing) /\ Len(x) = Len(old) + Len(gap)
       /\ \A i \in Len(old) + Len(gap) + 1 .. Len(y) : z[i] = note[i - (Len(old) + Len(gap))]
  BY <1>5, <1>7, <1>8, <1>10
<1>. QED
  BY <1>4, <1>8, <1>9, <1>11, <1>12, <1>13 DEF IsJoined

\* With the missing lines added a text has each of them once, if it had none twice
\* and what is put above them is none of them.
LEMMA IgnoredAdded ==
  ASSUME OnceIn(Ignored), NEW old \in Text, OnceIn(old), NEW gap \in Text, NoneIn(gap),
         NEW note \in Text, NoneIn(note)
  PROVE  LET new == old \o gap \o note \o MissingLines(Range(old))
         IN OnceIn(new) /\ AllIn(new)
<1>1. PICK missing \in Text : missing = MissingLines(Range(old))
  BY MissingLinesType, TextFacts
<1>2. /\ Len(old) \in Nat /\ DOMAIN old = 1 .. Len(old) /\ Len(missing) \in Nat
      /\ Len(gap) \in Nat /\ DOMAIN gap = 1 .. Len(gap)
      /\ Len(note) \in Nat /\ DOMAIN note = 1 .. Len(note)
  BY Positions
<1>j. PICK new \in Text, below \in Nat : IsJoined(new, below, old, gap, note, missing)
  BY Joined
<1>3. /\ new = old \o gap \o note \o missing /\ below = Len(old) + Len(gap) + Len(note)
      /\ DOMAIN new = 1 .. below + Len(missing)
      /\ \A i \in 1 .. Len(old) : new[i] = old[i]
      /\ \A i \in Len(old) + 1 .. Len(old) + Len(gap) : new[i] = gap[i - Len(old)]
      /\ \A i \in Len(old) + Len(gap) + 1 .. below : new[i] = note[i - (Len(old) + Len(gap))]
      /\ \A k \in 1 .. Len(missing) : new[below + k] = missing[k]
      /\ \A i \in below + 1 .. below + Len(missing) : new[i] = missing[i - below]
  BY <1>j DEF IsJoined
<1>4. /\ \A k \in 1 .. Len(missing) : missing[k] \notin Range(old)
      /\ \A l \in Range(Ignored) \ Range(old) : \E k \in 1 .. Len(missing) : missing[k] = l
      /\ \A k, m \in 1 .. Len(missing) : missing[k] = missing[m] => k = m
  BY <1>1, MissingFacts
<1>5. \A i \in Len(old) + 1 .. below : new[i] \notin Range(Ignored)
  <2>1. ASSUME NEW i \in Len(old) + 1 .. Len(old) + Len(gap)
        PROVE  new[i] \notin Range(Ignored)
    <3>1. i - Len(old) \in DOMAIN gap
      BY <1>2
    <3>. QED
      BY <1>3, <3>1 DEF NoneIn
  <2>2. ASSUME NEW i \in Len(old) + Len(gap) + 1 .. below
        PROVE  new[i] \notin Range(Ignored)
    <3>1. i - (Len(old) + Len(gap)) \in DOMAIN note
      BY <1>2, <1>3
    <3>. QED
      BY <1>3, <3>1 DEF NoneIn
  <2>. QED
    BY <1>2, <1>3, <2>1, <2>2
<1>6. OnceIn(new)
  <2>1. SUFFICES ASSUME NEW l \in Range(Ignored), NEW i \in DOMAIN new, NEW j \in DOMAIN new,
                        new[i] = l, new[j] = l
                 PROVE  i = j
    BY DEF OnceIn
  <2>2. /\ i \in 1 .. Len(old) \/ i \in below + 1 .. below + Len(missing)
        /\ j \in 1 .. Len(old) \/ j \in below + 1 .. below + Len(missing)
    <3>1. DOMAIN new = 1 .. below + Len(missing)
      BY <1>3
    <3>2. below \in Nat /\ Len(old) <= below
      BY <1>2, <1>3
    <3>. QED
      BY <1>2, <1>5, <2>1, <3>1, <3>2
  <2>3. \A k \in 1 .. Len(old) : new[k] \in Range(old)
    BY <1>2, <1>3 DEF Range
  <2>4. \A k \in below + 1 .. below + Len(missing) :
          k - below \in 1 .. Len(missing) /\ new[k] = missing[k - below]
    BY <1>2, <1>3
  <2>5. CASE i \in 1 .. Len(old)
    <3>1. j \in 1 .. Len(old)
      BY <1>4, <2>1, <2>2, <2>3, <2>4, <2>5
    <3>. QED
      BY <1>2, <1>3, <2>1, <2>5, <3>1 DEF OnceIn
  <2>6. CASE i \in below + 1 .. below + Len(missing)
    <3>1. j \in below + 1 .. below + Len(missing)
      BY <1>4, <2>1, <2>2, <2>3, <2>4, <2>6
    <3>2. i - below = j - below
      BY <1>4, <2>1, <2>4, <2>6, <3>1
    <3>. QED
      BY <1>2, <1>3, <2>6, <3>1, <3>2
  <2>. QED
    BY <2>2, <2>5, <2>6
<1>7. ASSUME NEW l \in Range(Ignored)
       PROVE  \E i \in DOMAIN new : new[i] = l
  <2>1. CASE l \in Range(old)
    <3>1. PICK i \in 1 .. Len(old) : old[i] = l
      BY <1>2, <2>1 DEF Range
    <3>2. i \in DOMAIN new
      BY <1>2, <1>3
    <3>. QED
      BY <1>3, <3>1, <3>2
  <2>2. CASE l \notin Range(old)
    <3>1. PICK k \in 1 .. Len(missing) : missing[k] = l
      BY <1>4, <2>2
    <3>2. below + k \in DOMAIN new
      BY <1>2, <1>3
    <3>. QED
      BY <1>3, <3>1, <3>2
  <2>. QED
    BY <2>1, <2>2
<1>. QED
  BY <1>1, <1>3, <1>6, <1>7 DEF AllIn

\* No command fills the directory.
LEMMA NotFilling ==
  ASSUME ~late', init'.pc \in {"none", "done"}
  PROVE  Filling'
BY DEF Filling, InitAt

\* A command that starts finds none of the files, and what it does before it fills
\* the directory makes none of them but .gitignore.
LEMMA PrepareFilling ==
  ASSUME InitInv, Filling, StartInit \/ InitializeVcs \/ CreateGitIgnore \/ CreateProjectDir
  PROVE  Filling'
<1>0. InitShape /\ Checked /\ Absent
  BY DEF InitInv
<1>1. CASE StartInit
  <2>1. ~late' /\ UNCHANGED files
    BY <1>0, <1>1 DEF StartInit, Absent, InitAt, Initialising
  <2>2. CASE init' = NoInit
    BY <2>1, <2>2, NoInitFacts, NotFilling
  <2>3. CASE init' # NoInit
    <3>1. PICK line \in Lines :
            ExistingFiles(line) = {} /\ init' = [NoInit EXCEPT !.pc = "vcs", !.line = line]
      BY <1>1, <2>3 DEF StartInit, InitRaise
    <3>2. init'.pc = "vcs" /\ init'.line = line
      BY <3>1, NoInitFacts
    <3>3. \A t \in Range(TemplatesOf(line)) : ~Exists(t.file)'
      BY <2>1, <3>1 DEF ExistingFiles, TemplatesOf, NameOf, Exists
    <3>. QED
      BY <2>1, <3>2, <3>3 DEF Filling, InitAt, TemplatesOf, TemplateDir
  <2>. QED
    BY <2>2, <2>3
<1>2. CASE InitializeVcs
  <2>1. InitAt("vcs") /\ UNCHANGED <<files, touched, late>> /\ ~late
    BY <1>0, <1>2 DEF InitializeVcs, history, Absent, InitAt
  <2>2. CASE InitRaise
    BY <2>1, <2>2, NoInitFacts, NotFilling DEF InitRaise
  <2>3. CASE ~InitRaise
    <3>1. init.line.vcs \in {"git", "none"}
      BY <1>0, <2>1, Constants DEF Checked, Initialising, InitAt
    <3>2. PICK pc \in {"mkdir", "ignore"} :
            InitContinue(pc) /\ (pc = "ignore" => init.line.vcs = "git")
      BY <1>2, <2>3, <3>1 DEF InitializeVcs
    <3>3. init'.pc = pc /\ init'.line = init.line
      BY <1>0, <3>2, GoesOn
    <3>. QED
      BY <2>1, <3>2, <3>3 DEF Filling, InitAt, TemplatesOf, TemplateDir, Exists, Excused
  <2>. QED
    BY <2>2, <2>3
<1>3. CASE CreateGitIgnore
  <2>1. InitAt("ignore") /\ UNCHANGED <<touched, late>> /\ ~late /\ InitContinue("mkdir")
    BY <1>0, <1>3 DEF CreateGitIgnore, history, Absent, InitAt
  <2>2. UNCHANGED files \/ \E text : Write(GitIgnore, text)
    BY <1>3 DEF CreateGitIgnore
  <2>3. DOMAIN files' \subseteq DOMAIN files \cup {GitIgnore}
    BY <2>2, Written
  <2>4. init'.pc = "mkdir" /\ init'.line = init.line
    BY <1>0, <2>1, GoesOn
  <2>. QED
    BY <2>1, <2>3, <2>4 DEF Filling, InitAt, TemplatesOf, TemplateDir, Exists, Excused
<1>4. CASE CreateProjectDir
  <2>1. /\ InitAt("mkdir") /\ UNCHANGED <<files, touched, late>> /\ ~late
        /\ init' = [init EXCEPT !.pc = "render",
                      !.context = [name |-> ProjectName(init.line), version |-> Version],
                      !.todo = TemplatesOf(init.line)]
    BY <1>0, <1>4 DEF CreateProjectDir, history, TemplatesOf, Absent, InitAt
  <2>2. /\ init'.pc = "render" /\ init'.line = init.line
        /\ init'.todo = TemplatesOf(init.line)
    BY <1>0, <2>1 DEF InitShape
  <2>3. TemplatesOf(init.line)' = TemplatesOf(init.line)
    BY <2>2 DEF TemplatesOf, TemplateDir
  <2>. QED
    BY <2>1, <2>2, <2>3 DEF Filling, InitAt, Exists, Excused
<1>. QED
  BY <1>1, <1>2, <1>3, <1>4

\* A template is the first of those to come or among the rest.
LEMMA ToCome ==
  ASSUME init.todo \in Seq(Template), init.todo # <<>>, NEW t \in Range(init.todo)
  PROVE  t = Head(init.todo) \/ t \in Range(Tail(init.todo))
<1>1. PICK i \in 1 .. Len(init.todo) : init.todo[i] = t
  BY LenProperties DEF Range
<1>2. \A j \in 1 .. Len(Tail(init.todo)) : Tail(init.todo)[j] \in Range(Tail(init.todo))
  BY TodoFacts, LenProperties DEF Range
<1>. QED
  BY <1>1, <1>2, TodoFacts

\* Each template is left alone, if its file is there, or becomes it.
LEMMA RenderFilling ==
  ASSUME InitInv, Filling, RenderTemplate \/ WriteTemplate \/ FinishInit \/ FailInit
  PROVE  Filling'
<1>0. InitShape /\ InTemplates /\ Absent
  BY DEF InitInv
<1> DEFINE first == Head(init.todo)
<1>1. CASE RenderTemplate
  <2>1. /\ InitAt("render") /\ init.todo # <<>> /\ init.todo \in Seq(Template)
        /\ UNCHANGED <<files, touched, late>> /\ ~late
    BY <1>0, <1>1 DEF RenderTemplate, history, InTemplates, Absent, InitAt
  <2>2. \A t \in Range(TemplatesOf(init.line)) :
          /\ Exists(t.file) \/ t \in Range(init.todo)
          /\ Exists(t.file) => Excused(t.file) \/ files[t.file] = Made(t)
    BY <2>1 DEF Filling, InitAt
  <2>3. CASE Exists(first.file)
    <3>1. init' = [init EXCEPT !.todo = Tail(init.todo)]
      BY <1>1, <2>3 DEF RenderTemplate
    <3>2. /\ init'.pc = "render" /\ init'.line = init.line /\ init'.context = init.context
          /\ init'.todo = Tail(init.todo)
      BY <1>0, <2>1, <3>1 DEF InitShape, InitAt
    <3>3. \A t \in Range(TemplatesOf(init.line)) :
            Exists(t.file) \/ t \in Range(Tail(init.todo))
      BY <2>1, <2>2, <2>3, ToCome
    <3>4. TemplatesOf(init.line)' = TemplatesOf(init.line) /\ \A t : Made(t)' = Made(t)
      BY <3>2 DEF TemplatesOf, TemplateDir, Made, Rendered
    <3>5. \A n : (Exists(n)' <=> Exists(n)) /\ (Excused(n)' <=> Excused(n))
      BY <2>1, <3>2 DEF Exists, Excused
    <3>. QED
      BY <2>1, <2>2, <3>2, <3>3, <3>4, <3>5 DEF Filling, InitAt
  <2>4. CASE ~Exists(first.file)
    <3>1. /\ init'.pc = "write" /\ init'.line = init.line /\ init'.context = init.context
          /\ init'.todo = init.todo
      BY <1>0, <1>1, <2>4, GoesOn DEF RenderTemplate
    <3>2. TemplatesOf(init.line)' = TemplatesOf(init.line) /\ \A t : Made(t)' = Made(t)
      BY <3>1 DEF TemplatesOf, TemplateDir, Made, Rendered
    <3>3. \A n : (Exists(n)' <=> Exists(n)) /\ (Excused(n)' <=> Excused(n))
      BY <2>1, <3>1 DEF Exists, Excused
    <3>. QED
      BY <2>1, <2>2, <3>1, <3>2, <3>3 DEF Filling, InitAt
  <2>. QED
    BY <2>3, <2>4
<1>2. CASE WriteTemplate
  <2>1. /\ InitAt("write") /\ init.todo # <<>> /\ init.todo \in Seq(Template)
        /\ UNCHANGED touched /\ ~late' /\ Write(first.file, Made(first))
        /\ init' = [init EXCEPT !.pc = "render", !.todo = Tail(init.todo)]
    BY <1>0, <1>2 DEF WriteTemplate, InTemplates, Absent, InitAt
  <2>2. \A t \in Range(TemplatesOf(init.line)) :
          /\ Exists(t.file) \/ t \in Range(init.todo)
          /\ Exists(t.file) => Excused(t.file) \/ files[t.file] = Made(t)
    BY <2>1 DEF Filling, InitAt
  <2>3. /\ init'.pc = "render" /\ init'.line = init.line /\ init'.context = init.context
        /\ init'.todo = Tail(init.todo)
    BY <1>0, <2>1 DEF InitShape
  <2>4. /\ DOMAIN files' = DOMAIN files \cup {first.file} /\ files'[first.file] = Made(first)
        /\ \A m \in DOMAIN files \ {first.file} : files'[m] = files[m]
    BY <2>1, Written, ZenonT(60)
  <2>5. TemplatesOf(init.line)' = TemplatesOf(init.line) /\ \A t : Made(t)' = Made(t)
    BY <2>3 DEF TemplatesOf, TemplateDir, Made, Rendered
  <2>6. \A n : (Exists(n)' <=> Exists(n) \/ n = first.file) /\ (Excused(n)' <=> Excused(n))
    BY <2>1, <2>3, <2>4 DEF Exists, Excused
  <2>7. ASSUME NEW t \in Range(TemplatesOf(init.line))
        PROVE  /\ Exists(t.file)' \/ t \in Range(Tail(init.todo))
               /\ Exists(t.file)' => Excused(t.file) \/ files'[t.file] = Made(t)
    <3>1. Exists(t.file)' \/ t \in Range(Tail(init.todo))
      BY <2>1, <2>2, <2>6, ToCome
    <3>2. CASE t.file = first.file
      <4>1. Made(t) = Made(first)
        BY <3>2 DEF Made
      <4>. QED
        BY <2>4, <3>1, <3>2, <4>1
    <3>3. CASE t.file # first.file
      BY <2>2, <2>4, <2>6, <3>1, <3>3 DEF Exists
    <3>. QED
      BY <3>2, <3>3
  <2>. QED
    BY <2>1, <2>3, <2>5, <2>6, <2>7 DEF Filling, InitAt
<1>3. CASE FinishInit
  <2>1. init'.pc = "done" /\ ~late'
    BY <1>0, <1>3, NoInitFacts DEF FinishInit, history, Absent, InitAt
  <2>. QED
    BY <2>1, NotFilling
<1>4. CASE FailInit
  BY <1>4, NoInitFacts, NotFilling DEF FailInit, InitRaise
<1>. QED
  BY <1>1, <1>2, <1>3, <1>4

\* What the user writes meanwhile is marked.
LEMMA UserFilling ==
  ASSUME InitInv, Filling, EditFile \/ RemoveFile
  PROVE  Filling'
<1>0. InitShape /\ Absent
  BY DEF InitInv
<1>1. CASE EditFile
  <2>1. PICK n \in DOMAIN UserTexts : \E text \in UserTexts[n] :
          /\ Write(n, text)
          /\ touched' = IF Initialising THEN touched \cup {n} ELSE touched
          /\ late' = (late \/ (InitAt("write") /\ Head(init.todo).file = n))
    BY <1>1 DEF EditFile
  <2>2. PICK text \in UserTexts[n] :
          /\ Write(n, text)
          /\ touched' = IF Initialising THEN touched \cup {n} ELSE touched
          /\ late' = (late \/ (InitAt("write") /\ Head(init.todo).file = n))
    BY <2>1
  <2>3. UNCHANGED init
    BY <1>1 DEF EditFile
  <2>4. /\ DOMAIN files' = DOMAIN files \cup {n}
        /\ \A m \in DOMAIN files \ {n} : files'[m] = files[m]
    BY <2>2, Written
  <2>5. \A m : (Exists(m) => Exists(m)') /\ (Exists(m)' => Exists(m) \/ m = n)
    BY <2>4 DEF Exists
  <2>6. CASE Initialising
    <3>1. n \in touched' /\ touched \subseteq touched'
      BY <2>2, <2>6
    <3>2. \A m : Excused(m) => Excused(m)'
      BY <2>3, <3>1 DEF Excused
    <3>3. Excused(n)'
      BY <3>1 DEF Excused
    <3>4. late' => Head(init.todo).file \in touched'
      BY <2>2, <3>1 DEF Filling
    <3>5. /\ TemplatesOf(init.line)' = TemplatesOf(init.line)
          /\ \A t : Made(t)' = Made(t)
      BY <2>3 DEF TemplatesOf, TemplateDir, Made, Rendered
    <3>. QED
      BY <2>3, <2>4, <2>5, <3>2, <3>3, <3>4, <3>5 DEF Filling, InitAt, Exists
  <2>7. CASE ~Initialising
    <3>1. init'.pc \in {"none", "done"} /\ ~late'
      BY <1>0, <2>2, <2>3, <2>7 DEF Initialising, InitAt, Absent
    <3>. QED
      BY <3>1, NotFilling
  <2>. QED
    BY <2>6, <2>7
<1>2. CASE RemoveFile
  <2>1. init'.pc \in {"none", "done"} /\ ~late'
    BY <1>0, <1>2 DEF RemoveFile, history, Initialising, InitAt, Absent
  <2>. QED
    BY <2>1, NotFilling
<1>. QED
  BY <1>1, <1>2

\* The directory is filled with the template at all times.
LEMMA FillingStep ==
  ASSUME DataInv, Filling, [Next]_vars
  PROVE  Filling'
<1>0. InitInv
  BY DEF DataInv
<1>1. CASE UNCHANGED <<init, files, touched, late>>
  BY <1>1 DEF Filling, InitAt, TemplatesOf, TemplateDir, Exists, Excused, Made, Rendered
<1>2. CASE Lifecycle \/ MakeDir \/ Commit \/ UNCHANGED vars
  BY <1>1, <1>2 DEF Lifecycle, StartCommand, GetPlatforms, RenderFor, RunParts, UpdateProject,
                    WriteMetadata, FailCommand, initvars, history, MakeDir, Commit, vars
<1>3. CASE StartInit \/ InitializeVcs \/ CreateGitIgnore \/ CreateProjectDir
  BY <1>0, <1>3, PrepareFilling
<1>4. CASE RenderTemplate \/ WriteTemplate \/ FinishInit \/ FailInit
  BY <1>0, <1>4, RenderFilling
<1>5. CASE EditFile \/ RemoveFile
  BY <1>0, <1>5, UserFilling
<1>. QED
  BY <1>2, <1>3, <1>4, <1>5 DEF Next, InitCommand, User

\* A text of one line, or of none, has no line twice.
LEMMA ShortOnce ==
  ASSUME NEW text \in Text, Len(text) \in {0, 1}
  PROVE  OnceIn(text)
<1>1. Len(text) \in Nat /\ DOMAIN text = 1 .. Len(text)
  BY Positions
<1>2. \A i, j \in DOMAIN text : i = j
  BY <1>1
<1>. QED
  BY <1>2 DEF OnceIn

\* What a template makes, and what is left of it, is one line.
LEMMA MadeOnce ==
  /\ OnceIn(<<>>) /\ OnceIn(<<"cut short">>)
  /\ \A t : OnceIn(Made(t))
<1>1. PICK empty \in Text : empty = <<>> /\ Len(empty) = 0
  BY TextFacts, EmptySeq
<1>2. PICK cut \in Text : cut = <<"cut short">> /\ Len(cut) = 1
  BY TextFacts
<1>3. ASSUME NEW t
      PROVE  \E text \in Text : text = Made(t) /\ Len(text) = 1
  BY MadeText DEF Made, Rendered
<1>4. OnceIn(<<>>)
  BY <1>1, ShortOnce
<1>5. OnceIn(<<"cut short">>)
  BY <1>2, ShortOnce
<1>6. ASSUME NEW t
      PROVE  OnceIn(Made(t))
  BY <1>3, ShortOnce
<1>. QED
  BY <1>4, <1>5, <1>6

\* What is written below the lines of the user is none of the application's lines.
LEMMA AboveIgnored ==
  ASSUME IgnoredOnce
  PROVE  NoneIn(<<>>) /\ NoneIn(<<"">>) /\ NoneIn(<<"# Added">>)
<1>1. "" \notin Range(Ignored) /\ "# Added" \notin Range(Ignored)
  BY DEF IgnoredOnce
<1>2. ASSUME NEW line, line \notin Range(Ignored)
      PROVE  NoneIn(<<line>>)
  BY <1>2 DEF NoneIn
<1>3. NoneIn(<<>>)
  BY DEF NoneIn
<1>. QED
  BY <1>1, <1>2, <1>3

\* Init adds the lines that are missing, each once.
LEMMA IgnoringAdds ==
  ASSUME IgnoredOnce, Texts, Ignoring, CreateGitIgnore
  PROVE  /\ Exists(GitIgnore)' => OnceIn(files'[GitIgnore])
         /\ Range(Ignored) # {} => Exists(GitIgnore)' /\ AllIn(files'[GitIgnore])
<1> DEFINE old == IF Exists(GitIgnore) THEN files[GitIgnore] ELSE <<>>
           gap == IF Exists(GitIgnore) THEN <<"">> ELSE <<>>
           missing == MissingLines(Range(old))
           new == old \o gap \o <<"# Added">> \o missing
<1>1. IF missing = <<>> THEN UNCHANGED files ELSE Write(GitIgnore, new)
  BY DEF CreateGitIgnore
<1>2. old \in Text /\ OnceIn(old)
  BY TextFacts, MadeOnce DEF Texts, Exists, Ignoring
<1>3. gap \in Text /\ NoneIn(gap)
  BY TextFacts, AboveIgnored
<1>4. Exists(GitIgnore) => old = files[GitIgnore]
  OBVIOUS
<1>5. ~Exists(GitIgnore) => Range(old) = {}
  <2>1. ~Exists(GitIgnore) => old = <<>>
    OBVIOUS
  <2>2. Range(<<>>) = {}
    BY DEF Range
  <2>. QED
    BY <2>1, <2>2
<1> HIDE DEF old, gap
<1>6. CASE missing = <<>>
  <2>1. Len(missing) = 0 /\ UNCHANGED files
    BY <1>1, <1>6, EmptySeq
  <2>2. Range(Ignored) \subseteq Range(old)
    <3>1. \A l \in Range(Ignored) \ Range(old) :
            \E k \in 1 .. Len(missing) : missing[k] = l
      BY MissingFacts
    <3>. QED
      BY <2>1, <3>1
  <2>3. Range(Ignored) # {} => Exists(GitIgnore) /\ AllIn(old)
    BY <1>5, <2>2 DEF Range, AllIn
  <2>. QED
    BY <1>2, <1>4, <2>1, <2>3 DEF Exists
<1>7. CASE missing # <<>>
  <2>1. OnceIn(new) /\ AllIn(new)
    <3>1. <<"# Added">> \in Text /\ NoneIn(<<"# Added">>) /\ OnceIn(Ignored)
      BY TextFacts, AboveIgnored DEF IgnoredOnce
    <3>. QED
      BY <1>2, <1>3, <3>1, IgnoredAdded, Zenon
  <2> HIDE DEF missing
  <2>2. Write(GitIgnore, new)
    BY <1>1, <1>7
  <2> HIDE DEF new
  <2>3. DOMAIN files' = DOMAIN files \cup {GitIgnore} /\ files'[GitIgnore] = new
    BY <2>2, Written
  <2>. QED
    BY <2>1, <2>3 DEF Exists
<1>. QED
  BY <1>6, <1>7

\* A .gitignore that has none of the lines twice is left, or replaced by one that
\* has none twice.
LEMMA OnceWritten ==
  ASSUME Ignoring, NEW n, NEW text, Write(n, text), n = GitIgnore => OnceIn(text)
  PROVE  Exists(GitIgnore)' => OnceIn(files'[GitIgnore])
<1>1. /\ DOMAIN files' = DOMAIN files \cup {n} /\ files'[n] = text
      /\ \A m \in DOMAIN files \ {n} : files'[m] = files[m]
  BY Written
<1>2. CASE n = GitIgnore
  BY <1>1, <1>2
<1>3. CASE n # GitIgnore
  BY <1>1, <1>3 DEF Ignoring, Exists
<1>. QED
  BY <1>2, <1>3

\* The lines of the application are there from the time they are added on.
LEMMA IgnoringStep ==
  ASSUME IgnoredOnce, DataInv, Texts, Filling, Ignoring, [Next]_vars
  PROVE  Ignoring'
<1>0. InitShape /\ Checked /\ Absent
  BY DEF DataInv, InitInv
<1>1. CASE UNCHANGED <<init, files, touched>>
  BY <1>1 DEF Ignoring, Exists
<1>2. CASE Lifecycle \/ MakeDir \/ Commit \/ UNCHANGED vars
  BY <1>1, <1>2 DEF Lifecycle, StartCommand, GetPlatforms, RenderFor, RunParts, UpdateProject,
                    WriteMetadata, FailCommand, initvars, history, MakeDir, Commit, vars
<1>3. CASE StartInit
  <2>1. UNCHANGED files
    BY <1>3 DEF StartInit
  <2>2. init'.pc \in {"none", "vcs"}
    BY <1>3, NoInitFacts DEF StartInit, InitRaise, NoInit
  <2>. QED
    BY <2>1, <2>2 DEF Ignoring, Exists
<1>4. CASE InitializeVcs
  <2>1. InitAt("vcs") /\ UNCHANGED files
    BY <1>4 DEF InitializeVcs
  <2>2. CASE InitRaise
    BY <2>1, <2>2, NoInitFacts DEF InitRaise, Ignoring, Exists
  <2>3. CASE ~InitRaise
    <3>1. init.line.vcs \in {"git", "none"}
      BY <1>0, <2>1, Constants DEF Checked, Initialising, InitAt
    <3>2. PICK pc \in {"mkdir", "ignore"} :
            InitContinue(pc) /\ (init.line.vcs = "git" => pc = "ignore")
      BY <1>4, <2>3, <3>1 DEF InitializeVcs
    <3>3. init'.pc = pc /\ init'.line = init.line
      BY <1>0, <3>2, GoesOn
    <3>. QED
      BY <2>1, <3>2, <3>3 DEF Ignoring, Exists
  <2>. QED
    BY <2>2, <2>3
<1>5. CASE CreateGitIgnore
  BY <1>5, IgnoringAdds DEF Ignoring
<1>6. CASE CreateProjectDir \/ RenderTemplate \/ FinishInit
  <2>1. /\ init.pc \in {"mkdir", "render"} /\ UNCHANGED <<files, touched>>
        /\ init'.line = init.line \/ init'.pc = "done"
    <3>1. CASE CreateProjectDir
      BY <1>0, <3>1 DEF CreateProjectDir, history, InitAt, InitShape
    <3>2. CASE RenderTemplate
      BY <1>0, <3>2, GoesOn DEF RenderTemplate, history, InitAt, InitShape
    <3>3. CASE FinishInit
      BY <3>3, NoInitFacts DEF FinishInit, history, InitAt
    <3>. QED
      BY <1>6, <3>1, <3>2, <3>3
  <2>. QED
    BY <2>1 DEF Ignoring, Exists
<1>7. CASE WriteTemplate
  <2>1. /\ InitAt("write") /\ UNCHANGED touched
        /\ Write(Head(init.todo).file, Made(Head(init.todo)))
        /\ init'.line = init.line
    BY <1>0, <1>7 DEF WriteTemplate, InitShape
  <2>2. Exists(GitIgnore)' => OnceIn(files'[GitIgnore])
    BY <2>1, MadeOnce, OnceWritten
  <2>3. /\ DOMAIN files' = DOMAIN files \cup {Head(init.todo).file}
        /\ \A m \in DOMAIN files \ {Head(init.todo).file} : files'[m] = files[m]
    BY <2>1, Written
  <2>4. Head(init.todo).file = GitIgnore /\ Exists(GitIgnore) => GitIgnore \in touched
    BY <1>0, <2>1 DEF Absent, Filling
  <2>. QED
    BY <2>1, <2>2, <2>3, <2>4 DEF Ignoring, Exists, InitAt
<1>8. CASE FailInit
  <2>1. init'.pc = "none" /\ (UNCHANGED files \/ Write(Head(init.todo).file, <<"cut short">>))
    BY <1>8, NoInitFacts DEF FailInit, InitRaise
  <2>2. Exists(GitIgnore)' => OnceIn(files'[GitIgnore])
    <3>1. CASE UNCHANGED files
      BY <3>1 DEF Ignoring, Exists
    <3>2. CASE Write(Head(init.todo).file, <<"cut short">>)
      BY <3>2, MadeOnce, OnceWritten
    <3>. QED
      BY <2>1, <3>1, <3>2
  <2>. QED
    BY <2>1, <2>2 DEF Ignoring
<1>9. CASE EditFile
  <2>1. PICK n \in DOMAIN UserTexts : \E text \in UserTexts[n] :
          /\ Write(n, text)
          /\ touched' = IF Initialising THEN touched \cup {n} ELSE touched
    BY <1>9 DEF EditFile
  <2>2. PICK text \in UserTexts[n] :
          /\ Write(n, text)
          /\ touched' = IF Initialising THEN touched \cup {n} ELSE touched
    BY <2>1
  <2>3. UNCHANGED init
    BY <1>9 DEF EditFile
  <2>4. Exists(GitIgnore)' => OnceIn(files'[GitIgnore])
    BY <2>2, OnceWritten DEF IgnoredOnce
  <2>5. /\ DOMAIN files' = DOMAIN files \cup {n}
        /\ \A m \in DOMAIN files \ {n} : files'[m] = files[m]
    BY <2>2, Written
  <2>6. init.pc \in {"mkdir", "render", "write"} => touched' = touched \cup {n}
    BY <2>2 DEF Initialising
  <2>. QED
    BY <2>3, <2>4, <2>5, <2>6 DEF Ignoring, Exists
<1>10. CASE RemoveFile
  <2>1. PICK n \in DOMAIN files : files' = [m \in DOMAIN files \ {n} |-> files[m]]
    BY <1>10 DEF RemoveFile
  <2>2. init'.pc \in {"none", "done"}
    BY <1>0, <1>10 DEF RemoveFile, Initialising, InitShape
  <2>. QED
    BY <2>1, <2>2 DEF Ignoring, Exists
<1>. QED
  BY <1>2, <1>3, <1>4, <1>5, <1>6, <1>7, <1>8, <1>9, <1>10 DEF Next, InitCommand, User

\* A command that succeeds has just come to the end of the templates.
LEMMA SuccessIsFinish ==
  ASSUME DataInv, [Next]_vars, Succeeds
  PROVE  FinishInit
<1>0. InitShape
  BY DEF DataInv, InitInv
<1>1. CASE StartInit
  BY <1>1, NoInitFacts DEF StartInit, InitRaise, NoInit, Succeeds
<1>2. CASE InitializeVcs
  <2>1. PICK pc \in {"none", "mkdir", "ignore"} : init'.pc = pc
    BY <1>0, <1>2, NoInitFacts, GoesOn DEF InitializeVcs, InitRaise
  <2>. QED
    BY <2>1 DEF Succeeds
<1>3. CASE CreateGitIgnore \/ CreateProjectDir \/ RenderTemplate \/ WriteTemplate
  <2>1. CASE CreateGitIgnore
    <3>1. InitContinue("mkdir")
      BY <2>1 DEF CreateGitIgnore
    <3>2. init'.pc = "mkdir"
      BY <1>0, <3>1, GoesOn
    <3>. QED
      BY <3>2 DEF Succeeds
  <2>2. CASE CreateProjectDir
    BY <1>0, <2>2 DEF CreateProjectDir, InitShape, Succeeds
  <2>3. CASE RenderTemplate
    BY <1>0, <2>3, GoesOn DEF RenderTemplate, InitShape, InitAt, Succeeds
  <2>4. CASE WriteTemplate
    BY <1>0, <2>4 DEF WriteTemplate, InitShape, Succeeds
  <2>. QED
    BY <1>3, <2>1, <2>2, <2>3, <2>4
<1>4. CASE FailInit
  BY <1>4, NoInitFacts DEF FailInit, InitRaise, Succeeds
<1>5. CASE Lifecycle \/ User \/ UNCHANGED vars
  BY <1>5 DEF Lifecycle, StartCommand, GetPlatforms, RenderFor, RunParts, UpdateProject,
              WriteMetadata, FailCommand, initvars, User, MakeDir, EditFile, RemoveFile, Commit,
              vars, Succeeds
<1>. QED
  BY <1>1, <1>2, <1>3, <1>4, <1>5 DEF Next, InitCommand

\* A successful init leaves every file of the template, as the template has it unless
\* the user wrote it meanwhile or git's lines were added to it; with git, each of
\* those lines is there exactly once.  This of an application that names no line
\* twice, and users who write none twice.
THEOREM InitComplete == IgnoredOnce => (Spec => Initialised)
<1> DEFINE
      Complete ==
        /\ \A t \in Range(Templates[TemplateDir(init.line)]) :
             /\ Exists(t.file)
             /\ \/ files[t.file] = Made(t)
                \/ t.file \in touched
                \/ t.file = GitIgnore /\ init.line.vcs = "git"
        /\ init.line.vcs = "git" /\ GitIgnore \notin touched =>
             \A l \in Range(Ignored) :
               Cardinality({i \in DOMAIN files[GitIgnore] : files[GitIgnore][i] = l}) = 1
<1>1. SUFFICES ASSUME IgnoredOnce PROVE Spec => Initialised
  OBVIOUS
<1>2. Init => Filling /\ Ignoring
  BY NoInitFacts DEF Init, InitInit, Filling, Ignoring, Exists, InitAt
<1>3. ASSUME DataInv, Filling, Ignoring, [Next]_vars, Succeeds
      PROVE  Complete
  <2>1. InitAt("render") /\ init.todo = <<>>
    BY <1>3, SuccessIsFinish DEF FinishInit
  <2>2. Range(init.todo) = {}
    BY <2>1 DEF Range
  <2>3. \A t \in Range(TemplatesOf(init.line)) :
          Exists(t.file) /\ (Excused(t.file) \/ files[t.file] = Made(t))
    BY <1>3, <2>1, <2>2 DEF Filling, InitAt
  <2>4. ASSUME init.line.vcs = "git", GitIgnore \notin touched, NEW l \in Range(Ignored)
        PROVE  Cardinality({i \in DOMAIN files[GitIgnore] : files[GitIgnore][i] = l}) = 1
    <3>1. PICK i \in DOMAIN files[GitIgnore] : files[GitIgnore][i] = l
      BY <1>3, <2>1, <2>4 DEF Ignoring, AllIn, InitAt
    <3>2. OnceIn(files[GitIgnore])
      BY <1>3, <2>1, <2>4 DEF Ignoring, InitAt
    <3>3. {j \in DOMAIN files[GitIgnore] : files[GitIgnore][j] = l} = {i}
      BY <3>1, <3>2 DEF OnceIn
    <3>. QED
      BY <3>3, FS_Singleton
  <2>. QED
    BY <2>3, <2>4 DEF Excused, TemplatesOf
<1>4. ASSUME DataInv, Filling, [Next]_vars
      PROVE  Filling'
  BY <1>4, FillingStep
<1>5. ASSUME DataInv, Texts, Filling, Ignoring, [Next]_vars
      PROVE  Ignoring'
  BY <1>1, <1>5, IgnoringStep
<1>6. ASSUME DataInv, Filling, Ignoring, [Next]_vars
      PROVE  [Succeeds => Complete]_vars
  BY <1>3, <1>6
<1>. QED
  BY <1>2, <1>4, <1>5, <1>6, DataHolds, TextsHold, PTL DEF Spec, Initialised
=============================================================================
