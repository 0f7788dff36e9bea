---------------------------- MODULE MCApplication ----------------------------
(* Small instances of Application. *)
EXTENDS Application, TLC

\* Declared platforms: shorthands, several build-ons, none for the host.
Declared(name, on, for) == [name |-> name, on |-> on, for |-> for]
MCPlatforms ==
  {<<Declared("a", <<>>, None)>>,
   <<Declared("a", <<>>, None), Declared("p", <<"a">>, "b")>>,
   <<Declared("b", <<>>, None), Declared("p", <<"b", "a">>, "b")>>,
   <<Declared("p", <<"a", "b">>, "a"), Declared("q", <<"a">>, "a")>>,
   <<Declared("p", <<"b">>, "b"), Declared("b", <<"a">>, None)>>,
   <<Declared("p", <<"b">>, "a")>>,
   <<Declared("p", <<"b">>, "b"), Declared("q", <<"b">>, "a")>>,
   <<Declared("all", <<"a">>, None), Declared("p", <<"b", "a">>, "a")>>,
   <<Declared("p", <<"a">>, None)>>}

\* spread.yaml: the application's backend on three systems, of which one name
\* starts like another's, and a backend of another kind.
Noble == <<"ubuntu-24.04">>
Noble64 == <<"ubuntu-24.04", "-64">>
Jammy == <<"ubuntu-22.04">>
MCSpread ==
  [valid |-> TRUE,
   backends |-> {[name |-> "craft", type |-> None, systems |-> {Noble, Noble64, Jammy}],
                 [name |-> "google", type |-> None, systems |-> {Noble, Jammy}]},
   suites |-> {[name |-> "all", systems |-> {}], [name |-> "jammy", systems |-> {Jammy}]}]
MCOwnType ==
  [MCSpread EXCEPT !.backends = {[name |-> "craft", type |-> "adhoc", systems |-> {Jammy}]}]

\* Projects that differ in their platforms, in their bases, in their tests, in
\* what rendering makes of them, and in where they are.
Project(platforms, base, buildbase, spread) ==
  [platforms |-> platforms, base |-> base, buildbase |-> buildbase, spread |-> spread,
   slash |-> FALSE, part |-> <<>>, version |-> TRUE, adopt |-> FALSE, ignores |-> <<>>,
   git |-> "none"]
TwoPlatforms == <<Declared("a", <<>>, None), Declared("p", <<"a">>, "b")>>
OneOfTwo == <<Declared("b", <<>>, None), Declared("p", <<"b", "a">>, "b")>>
Plain == Project(TwoPlatforms, "stable", None, MCSpread)
PlanProjects ==
  {Project(d, "stable", None, MCSpread) : d \in MCPlatforms}
    \cup {Project(d, "old", None, MCSpread) : d \in {TwoPlatforms, OneOfTwo}}
    \cup {Project(TwoPlatforms, "devel", None, MCSpread),
          Project(OneOfTwo, "ubuntu@devel", None, MCSpread)}
    \cup {Project(TwoPlatforms, "eol", b, MCSpread) : b \in {None, "stable", "devel"}}
    \cup {Project(TwoPlatforms, "stable", b, MCSpread) : b \in {"eol", "unknown"}}
    \cup {Project(OneOfTwo, "new", "stable", s) :
             s \in {None, [MCSpread EXCEPT !.valid = FALSE], MCOwnType}}

\* Grammar for each of the conditions, and what is wrong with some.
On(a) == [Anywhere EXCEPT !.on = {a}]
To(a) == [Anywhere EXCEPT !.to = {a}]
For(n) == [Anywhere EXCEPT !.for = {n}]
File(f) == f :> "moved"
MCParts ==
  {("source" :> <<Item(To("b"), <<"cross">>, <<"native">>)>>) @@
     ("stage-packages" :> <<Value("x"), Item(On("a"), <<"y", "z">>, <<>>)>>) @@
     ("plugin" :> <<Value("nil")>>),
   ("organize" :> <<Item(For("p"), <<File("f")>>, <<>>), Item(For("any"), <<File("g")>>, <<>>)>>) @@
     ("after" :> <<Item(To("b"), <<"q">>, <<>>), Item([To("a") EXCEPT !.on = {"a"}], <<"r">>, <<>>)>>),
   "organize" :> <<Item(For("p"), <<File("f")>>, <<>>), Item(For("any"), <<File("f")>>, <<>>)>>,
   "after" :> <<Item([To("b") EXCEPT !.for = {"p"}], <<"q">>, <<>>)>>}
RenderedProjects ==
  {[Plain EXCEPT !.part = t] : t \in MCParts}
    \cup {[Plain EXCEPT !.base = b, !.buildbase = e] :
            b \in {None, "bare", "next"}, e \in {"stable", "devel"}}
    \cup {[Plain EXCEPT !.base = b] : b \in {"bare", "next"}}
    \cup {[Plain EXCEPT !.slash = TRUE, !.base = b] : b \in {"stable", "old"}}
    \cup {[Plain EXCEPT !.version = FALSE, !.adopt = x] : x \in BOOLEAN}
    \cup {[Plain EXCEPT !.version = FALSE, !.part = t] : t \in MCParts}

\* One project of several in a git repository, or at its root.
MCTopProject ==
  Project(<<Declared("all", <<"a">>, None), Declared("p", <<"a">>, "b")>>, "stable", None, None)
PlacedProjects == {[Plain EXCEPT !.git = g] : g \in {"root", "below"}}

\* An edit that makes the platform of a build one for another target, takes a
\* platform away, changes the base, or breaks the file.
Editable == [Plain EXCEPT !.adopt = TRUE]
EditTo(j) == <<Editable, j>>
MCEdits ==
  {EditTo([Editable EXCEPT !.platforms = <<Declared("a", <<>>, None), Declared("p", <<"a">>, "a")>>]),
   EditTo([Editable EXCEPT !.platforms = <<Declared("p", <<"a">>, "b")>>]),
   EditTo([Editable EXCEPT !.base = "old"]),
   EditTo([Editable EXCEPT !.base = "bare"])}

\* Rules in the project file.
NoRules == [star |-> FALSE, ids |-> {}, globs |-> {}]
AnyA == <<"*", "a">>
LintedProjects ==
  {[Plain EXCEPT !.version = v, !.adopt = TRUE, !.ignores = i] :
     v \in BOOLEAN,
     i \in {"registered" :> None,
            "registered" :> [NoRules EXCEPT !.star = TRUE],
            "registered" :> [NoRules EXCEPT !.ids = {"R1"}, !.globs = {<<"R2", AnyA>>}]}}

MCProjects ==
  PlanProjects \cup RenderedProjects \cup PlacedProjects \cup LintedProjects
    \cup {Editable} \cup {e[2] : e \in MCEdits}

Esm == {"esm-apps"}
MCHosts(j) ==
  {None} \cup IF j \in PlanProjects THEN [attached : BOOLEAN, enabled : {{}, Esm}] ELSE {}

\* A command line: what is not mentioned is not given.
NoSnap == [name |-> None, channel |-> None, hosted |-> <<>>]
NoEnv == [app |-> Unset, craft |-> Unset, snap |-> Unset]
Line(cmd) == [cmd |-> cmd, platform |-> None, for |-> None, env |-> NoEnv,
              parts |-> FALSE, pro |-> {}, destructive |-> FALSE, ignore |-> FALSE,
              lxd |-> FALSE, snapprovider |-> None,
              expressions |-> {}, ci |-> None, args |-> None, snap |-> NoSnap,
              post |-> None, rules |-> <<>>]
Given ==
  {Line("pack")}
    \cup {[Line("pack") EXCEPT !.platform = n] : n \in {"p", "a"}}
    \cup {[Line("pack") EXCEPT !.for = t] : t \in {"b", "all"}}
    \cup {[Line("pack") EXCEPT !.env.craft.platform = "p"],
          [Line("pack") EXCEPT !.env.app.platform = "p", !.env.snap.platform = "a"],
          [Line("pack") EXCEPT !.env.craft.for = "b"],
          [Line("pack") EXCEPT !.env.app.platform = "p", !.for = "b"],
          [Line("pack") EXCEPT !.env.snap.platform = "b", !.env.craft.for = "b"],
          [Line("pack") EXCEPT !.env.craft.on = "b"]}
Naming(backend, system) == [Every EXCEPT !.backend = backend, !.system = system]
PlanLines ==
  Given
    \cup {[l EXCEPT !.destructive = TRUE] : l \in Given}
    \cup {[Line("pack") EXCEPT !.pro = s, !.destructive = d] :
             s \in {Esm, {"unknown"}}, d \in BOOLEAN}
    \cup {[Line("pack") EXCEPT !.pro = Esm, !.snapprovider = "multipass"]}
    \cup {Line("test"), [Line("test") EXCEPT !.platform = "p"],
          [Line("test") EXCEPT !.env.app.platform = "p"], [Line("test") EXCEPT !.pro = Esm]}
    \cup {[Line("test") EXCEPT !.platform = "a", !.expressions = e, !.ci = c] :
             e \in {{}, {Craft}, {Naming("craft", Noble)},
                    {Naming(None, Noble64), [Every EXCEPT !.suite = "jammy"]},
                    {Naming("google", None)}},
             c \in {None, <<>>, Noble}}
    \cup {[Line(c) EXCEPT !.ignore = TRUE] : c \in {"pack", "test"}}
    \cup {[Line("pack") EXCEPT !.env.app.environment = v, !.lxd = l] :
             v \in {"multipass", "other"}, l \in BOOLEAN}
    \cup {[Line(c) EXCEPT !.env.craft.environment = "host", !.snapprovider = "multipass"] :
             c \in {"pack", "test", "clean"}}
    \cup {[Line("clean") EXCEPT !.snapprovider = "multipass"]}
    \cup {[Line("clean") EXCEPT !.parts = s, !.destructive = d] : s, d \in BOOLEAN}
    \cup {[Line("clean") EXCEPT !.platform = "p", !.parts = s] : s \in BOOLEAN}


\* Packing for each platform, here and in instances.
PackLines ==
  {[Line("pack") EXCEPT !.platform = n, !.destructive = d] : n \in {None, "a", "p"}, d \in BOOLEAN}
    \cup {Line("clean")}

\* An application that runs from a snap of its name or from a parallel one.
AppSnap == [base |-> "core", classic |-> TRUE, channel |-> "latest/edge"]
CoreSnap == [base |-> None, classic |-> FALSE, channel |-> "latest/stable"]
SnapLines ==
  {[Line("pack") EXCEPT !.snap = [name |-> n, channel |-> c, hosted |-> h], !.env.craft.on = o] :
     n \in {None, "app", "app_x"}, c \in {None, "latest/beta"},
     h \in {"app" :> AppSnap, ("app" :> AppSnap) @@ ("core" :> CoreSnap),
            ("app_x" :> [AppSnap EXCEPT !.channel = None, !.base = "helper-base"]) @@ ("helper-base" :> CoreSnap)},
     o \in {None, "b"}}
MCRequestedSnaps == <<[name |-> "helper-base", channel |-> "latest/stable", classic |-> FALSE]>>

\* The commands of an application, one of them instead of a default.
Own(name) == [name |-> name, by |-> "application"]
MCAppGroups == [Lifecycle |-> <<Own("test"), Own("pack")>>, Testcraft |-> <<Own("lint")>>]
DispatchLines ==
  {[Line("pack") EXCEPT !.args = x] : x \in {"help", "version", "usage", "broken"}}
    \cup {Line("publish")}

Monorepo == [Line("pack") EXCEPT !.env.craft.monorepo = "true"]
MonorepoLines == {Monorepo, [Monorepo EXCEPT !.platform = "p"], [Monorepo EXCEPT !.destructive = TRUE]}

Rule(issue, glob) == [linter |-> "registered", issue |-> issue, glob |-> glob]
MCRules ==
  {<<>>, <<Rule("*", None)>>, <<Rule("*", None), Rule("R1", None)>>, <<Rule("R2", None)>>,
   <<Rule("R2", AnyA), Rule("R1", AnyA)>>, <<Rule("R1", <<"project", "a">>), Rule("*", AnyA)>>,
   <<Rule("R1", None), [Rule("*", None) EXCEPT !.linter = "version"]>>}
Artifact(kind, entries) == [kind |-> kind, entries |-> entries]
LintLines ==
  {[Line("lint") EXCEPT !.rules = r] : r \in MCRules}
    \cup {[Line("lint") EXCEPT !.rules = r, !.post = a] :
            r \in {<<>>, <<Rule("R2", None)>>},
            a \in {Artifact("missing", {}), Artifact("other", {}), Artifact("tar", {}),
                   Artifact("tar", {"metadata.yaml"}), Artifact("tar", {"metadata.yaml", "bin"})}}

MCLines(j) ==
  UNION {IF j \in PlanProjects THEN PlanLines ELSE {},
         IF j = Plain THEN SnapLines \cup DispatchLines ELSE {},
         IF j \in RenderedProjects THEN PackLines \cup LintLines ELSE {},
         IF j \in PlacedProjects THEN MonorepoLines ELSE {},
         IF j \in LintedProjects THEN LintLines ELSE {},
         IF j = Editable \/ \E e \in MCEdits : j = e[2] THEN PackLines ELSE {}}

\* An application with plugins of its own for some targets.
MCGroup(build) == CASE build.for = "a" -> "plugins of a"
                    [] build.for = "all" -> "plugins of all"
                    [] OTHER -> None
=============================================================================
