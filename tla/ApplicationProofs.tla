-------------------------- MODULE ApplicationProofs --------------------------
(***************************************************************************)
(* Proofs about Application: what a command builds, tests, lints and       *)
(* enables is what the user asked for, for any projects, edits, command    *)
(* lines, platforms and applications.                                      *)
(***************************************************************************)
EXTENDS Application, SelectionProofs, TLAPS

(* The constants, as the proofs below use them. *)

\* The value None is none of the names in the model.
LEMMA NoneFacts ==
  /\ None \notin STRING /\ None \notin Targets /\ None \notin Errors
  /\ None # "craft" /\ None \notin Development /\ None # Error
BY ApplicationAssumption

\* A file of a project.
Files == Projects \cup {TopProject}
\* A project file has platforms, each with a name of its own.
LEMMA FileFacts ==
  ASSUME NEW j \in Files
  PROVE  /\ DOMAIN j = {"platforms", "base", "buildbase", "spread", "slash", "part",
                        "version", "adopt", "ignores", "git"}
         /\ j.platforms # <<>> /\ j.platforms \in Seq(Declaration)
         /\ \A i, k \in DOMAIN j.platforms : j.platforms[i].name = j.platforms[k].name => i = k
BY ApplicationAssumption DEF Files

\* The spread.yaml of a project.
LEMMA SpreadFacts ==
  ASSUME NEW j \in Files, j.spread # None
  PROVE  /\ DOMAIN j.spread = {"valid", "backends", "suites"}
         /\ \A b \in j.spread.backends :
              /\ DOMAIN b = {"name", "type", "systems"}
              /\ "ci" \notin {b.name, b.type} /\ None \notin b.systems
         /\ \A u \in j.spread.suites : u.name # None
BY ApplicationAssumption DEF Files

\* An edit leads from one project to another, once, and changes neither spread.yaml nor where
\* the project is.
LEMMA EditFacts ==
  ASSUME NEW e \in Edits
  PROVE  /\ e[1] \in Projects /\ e[2] \in Projects /\ e = <<e[1], e[2]>>
         /\ e[1].spread = e[2].spread /\ e[1].git = e[2].git
         /\ \A f \in Edits : e[2] # f[1]
BY ApplicationAssumption

\* The command lines of a project.
LEMMA LineFacts ==
  ASSUME NEW j \in Projects, NEW l \in Lines(j)
  PROVE  /\ l # None
         /\ l.rules \in Seq([linter : STRING, issue : STRING, glob : Seq(STRING) \cup {None}])
         /\ l.cmd = "test" => l.for = None /\ ~l.destructive
BY ApplicationAssumption
-----------------------------------------------------------------------------
(* What spread runs. *)

\* A backend has its systems, and a type that is not the one on CI unless the
\* application fills it in there.
LEMMA BackendFacts ==
  ASSUME NEW b, DOMAIN b = {"name", "type", "systems"}, NEW ci
  PROVE  /\ BackendFromCraft(b, ci).name = b.name /\ BackendFromCraft(b, ci).systems = b.systems
         /\ "ci" \notin {b.name, b.type} /\ BackendFromCraft(b, ci).type = "ci" => ci # None
BY DEF BackendFromCraft, BackendType

\* The parts of a job that an expression can name are not None.
LEMMA JobFacts ==
  ASSUME NEW j \in Files, j.spread # None, NEW ci, NEW job \in Jobs(FromCraft(j.spread, ci))
  PROVE  /\ job.system # None /\ job.suite # None
         /\ job.type = "ci" => ci # None
<1>1. /\ FromCraft(j.spread, ci).backends = {BackendFromCraft(b, ci) : b \in j.spread.backends}
      /\ FromCraft(j.spread, ci).suites = j.spread.suites
  BY SpreadFacts DEF FromCraft
<1>2. PICK b \in j.spread.backends, u \in j.spread.suites :
        \E s \in BackendFromCraft(b, ci).systems : job = Job(BackendFromCraft(b, ci), s, u)
  BY <1>1 DEF Jobs
<1>. QED
  BY <1>2, SpreadFacts, BackendFacts DEF Job

\* What runs is what was asked for, however the expressions are rewritten.
LEMMA RunSpreadFacts ==
  ASSUME NEW j \in Files, j.spread # None, NEW expressions, NEW ci
  PROVE  /\ RunSpread(j.spread, expressions, ci) = AskedJobs(j.spread, expressions, ci)
         /\ \A job \in RunSpread(j.spread, expressions, ci) : job.type = "ci" => ci # None
<1> DEFINE spread == FromCraft(j.spread, ci)
           asked == IF expressions = {} THEN {Craft} ELSE expressions
           command == SpreadCommand(j.spread, expressions, ci)
<1>1. /\ RunSpread(j.spread, expressions, ci) =
           Listed(spread, SpreadCommand(spread, expressions, ci))
      /\ AskedJobs(j.spread, expressions, ci) =
           {job \in Jobs(spread) : /\ \E e \in asked : Matches(job, e)
                                   /\ ci # None => job.backend = "craft" /\ ci \in {<<>>, job.system}}
  BY DEF RunSpread, AskedJobs
<1>2. \A job \in Jobs(spread) :
        job.system # None /\ job.suite # None /\ (job.type = "ci" => ci # None)
  BY JobFacts
<1>3. \A job, e : Matches(job, e) <=>
        /\ e.backend = None \/ e.backend = job.backend
        /\ e.system = None \/ e.system = job.system
        /\ e.suite = None \/ e.suite = job.suite
  BY DEF Matches
<1> HIDE DEF spread
<1>4. CASE expressions = {} \/ (ci # None /\ expressions = {Craft})
  <2>1. SpreadCommand(spread, expressions, ci) = {CraftPrefix(ci)} /\ asked = {Craft}
    BY <1>4 DEF SpreadCommand
  <2>2. /\ Craft.backend = "craft" /\ Craft.system = None /\ Craft.suite = None
        /\ CraftPrefix(ci).backend = "craft" /\ CraftPrefix(ci).suite = None
        /\ CraftPrefix(ci).system = IF ci = <<>> THEN None ELSE ci
    BY DEF Craft, Every, CraftPrefix
  <2>3. ASSUME NEW job \in Jobs(spread)
        PROVE  Matches(job, CraftPrefix(ci)) <=>
                 Matches(job, Craft) /\ (ci # None => job.backend = "craft" /\ ci \in {<<>>, job.system})
    BY <1>2, <1>3, <2>2, NoneFacts
  <2>4. Listed(spread, {CraftPrefix(ci)}) = {job \in Jobs(spread) : Matches(job, CraftPrefix(ci))}
    BY DEF Listed
  <2>. QED
    BY <1>1, <1>2, <2>1, <2>3, <2>4
<1>5. CASE expressions # {} /\ ci = None
  <2>1. SpreadCommand(spread, expressions, ci) = expressions /\ asked = expressions
    BY <1>5 DEF SpreadCommand
  <2>. QED
    BY <1>1, <1>2, <1>5, <2>1 DEF Listed
<1>6. CASE expressions # {} /\ ci # None /\ expressions # {Craft}
  <2> DEFINE jobs == {k \in Listed(spread, expressions) :
                        k.backend = "craft" /\ ci \in {<<>>, k.system}}
             Name(k) == [backend |-> k.backend, system |-> k.system, suite |-> k.suite]
  <2>1. SpreadCommand(spread, expressions, ci) = {Name(k) : k \in jobs} /\ asked = expressions
    BY <1>6 DEF SpreadCommand, FilterSpreadJobs
  <2>2. ASSUME NEW job, NEW k \in jobs
        PROVE  Matches(job, Name(k)) <=>
                 job.backend = k.backend /\ job.system = k.system /\ job.suite = k.suite
    <3>1. k \in Jobs(spread) /\ k.backend = "craft"
      BY DEF Listed
    <3>. QED BY <1>2, <1>3, <3>1, NoneFacts
  <2>3. ASSUME NEW job \in Jobs(spread), NEW k \in jobs, Matches(job, Name(k))
        PROVE  /\ \E e \in expressions : Matches(job, e)
               /\ job.backend = "craft" /\ ci \in {<<>>, job.system}
    <3>1. job.backend = k.backend /\ job.system = k.system /\ job.suite = k.suite
      BY <2>2, <2>3
    <3>2. PICK e \in expressions : Matches(k, e)
      BY DEF Listed
    <3>3. Matches(job, e)
      BY <1>3, <3>1, <3>2
    <3>. QED BY <3>1, <3>3
  <2>4. ASSUME NEW job \in Jobs(spread), \E e \in expressions : Matches(job, e),
               job.backend = "craft" /\ ci \in {<<>>, job.system}
        PROVE  \E k \in jobs : Matches(job, Name(k))
    <3>1. job \in jobs
      BY <2>4 DEF Listed
    <3>. QED BY <2>2, <3>1
  <2>5. Listed(spread, {Name(k) : k \in jobs}) =
          {job \in Jobs(spread) : \E k \in jobs : Matches(job, Name(k))}
    BY DEF Listed
  <2> HIDE DEF jobs, Name
  <2>6. RunSpread(j.spread, expressions, ci) =
          {job \in Jobs(spread) : \E k \in jobs : Matches(job, Name(k))}
    BY <1>1, <2>1, <2>5
  <2>. QED
    BY <1>1, <1>2, <1>6, <2>1, <2>3, <2>4, <2>6
<1>. QED
  BY <1>4, <1>5, <1>6
-----------------------------------------------------------------------------
(* What the lint command shows. *)

\* The rules of the command line for a linter, in any order: a rule for every issue
\* leaves no others, without one each is kept.
RuleSet == [linter : STRING, issue : STRING, glob : Seq(STRING) \cup {None}]
CliSpecOf(spec, rules, n, linter) ==
  LET about == {i \in 1 .. n : rules[i].linter = linter}
  IN IF \E i \in about : rules[i].issue = "*" THEN spec = [all |-> TRUE, ids |-> {}, globs |-> {}]
     ELSE spec = [all |-> FALSE,
                  ids |-> {rules[i].issue : i \in {k \in about : rules[k].glob = None}},
                  globs |-> {<<rules[i].issue, rules[i].glob>> : i \in {k \in about : rules[k].glob # None}}]

\* One more rule is added to those before it.
LEMMA AddRuleFacts ==
  ASSUME NEW spec, NEW rules, NEW n \in Nat \ {0}, NEW linter, CliSpecOf(spec, rules, n - 1, linter)
  PROVE  CliSpecOf(IF rules[n].linter = linter THEN AddRule(spec, rules[n]) ELSE spec,
                   rules, n, linter)
<1> DEFINE about(m) == {i \in 1 .. m : rules[i].linter = linter}
           Ids(m) == {rules[i].issue : i \in {k \in about(m) : rules[k].glob = None}}
           Globs(m) == {<<rules[i].issue, rules[i].glob>> : i \in {k \in about(m) : rules[k].glob # None}}
<1>1. 1 .. n = (1 .. n - 1) \cup {n}
  OBVIOUS
<1>2. CASE rules[n].linter # linter
  <2>1. about(n) = about(n - 1)
    BY <1>1, <1>2
  <2>. QED BY <1>2, <2>1 DEF CliSpecOf
<1>3. CASE rules[n].linter = linter
  <2>1. about(n) = about(n - 1) \cup {n}
    BY <1>1, <1>3
  <2>2. CASE rules[n].issue = "*"
    <3>1. AddRule(spec, rules[n]) = [all |-> TRUE, ids |-> {}, globs |-> {}]
      BY <2>2 DEF AddRule, NoSpec
    <3>2. \E i \in about(n) : rules[i].issue = "*"
      BY <2>1, <2>2
    <3>. QED BY <1>3, <3>1, <3>2 DEF CliSpecOf
  <2>3. CASE rules[n].issue # "*" /\ \E i \in about(n - 1) : rules[i].issue = "*"
    <3>1. spec = [all |-> TRUE, ids |-> {}, globs |-> {}]
      BY <2>3 DEF CliSpecOf
    <3>2. AddRule(spec, rules[n]) = spec
      BY <2>3, <3>1 DEF AddRule
    <3>3. \E i \in about(n) : rules[i].issue = "*"
      BY <2>1, <2>3
    <3>. QED BY <1>3, <3>1, <3>2, <3>3 DEF CliSpecOf
  <2>4. CASE rules[n].issue # "*" /\ ~\E i \in about(n - 1) : rules[i].issue = "*"
    <3>1. spec = [all |-> FALSE, ids |-> Ids(n - 1), globs |-> Globs(n - 1)]
      BY <2>4 DEF CliSpecOf
    <3>2. ~\E i \in about(n) : rules[i].issue = "*"
      BY <2>1, <2>4
    <3>3. SUFFICES AddRule(spec, rules[n]) = [all |-> FALSE, ids |-> Ids(n), globs |-> Globs(n)]
      BY <1>3, <3>2 DEF CliSpecOf
    <3> HIDE DEF about
    <3>4. CASE rules[n].glob = None
      <4>1. Ids(n) = Ids(n - 1) \cup {rules[n].issue} /\ Globs(n) = Globs(n - 1)
        BY <2>1, <3>4
      <4> HIDE DEF Ids, Globs
      <4>. QED BY <2>4, <3>1, <3>4, <4>1 DEF AddRule
    <3>5. CASE rules[n].glob # None
      <4>1. Ids(n) = Ids(n - 1) /\ Globs(n) = Globs(n - 1) \cup {<<rules[n].issue, rules[n].glob>>}
        BY <2>1, <3>5
      <4> HIDE DEF Ids, Globs
      <4>. QED BY <2>4, <3>1, <3>5, <4>1 DEF AddRule
    <3>. QED BY <3>4, <3>5
  <2>. QED BY <2>2, <2>3, <2>4
<1>. QED BY <1>2, <1>3

\* The specs of the rules, one after the other.
Narrows(g, S, rules, linter) ==
  /\ g \in [0 .. Len(rules) -> S] /\ g[0] = NoSpec /\ CliSpec(rules, linter) = g[Len(rules)]
  /\ \A i \in 1 .. Len(rules) :
       g[i] = IF rules[i].linter = linter THEN AddRule(g[i - 1], rules[i]) ELSE g[i - 1]
\* The recursion of CliSpec, which starts without rules.
LEMMA CliSpecRecursion ==
  ASSUME NEW rules \in Seq(RuleSet), NEW linter
  PROVE  \E g, S : Narrows(g, S, rules, linter)
<1> DEFINE N == Len(rules)
           S == [all : BOOLEAN, ids : SUBSET STRING,
                 globs : SUBSET (STRING \X (Seq(STRING) \cup {None}))]
           step(u, i) == IF i = 0 THEN NoSpec
             ELSE IF rules[i].linter = linter THEN AddRule(u[i - 1], rules[i]) ELSE u[i - 1]
           next == [i \in 1 .. N |->
             [x \in S |-> IF rules[i].linter = linter THEN AddRule(x, rules[i]) ELSE x]]
           f == CHOOSE f : f = [i \in 0 .. N |-> step(f, i)]
<1>1. N \in Nat /\ (\A i \in 1 .. N : rules[i] \in RuleSet) /\ NoSpec \in S
  BY LenProperties, ElementOfSeq DEF NoSpec
<1>2. next \in [1 .. N -> [S -> S]]
  <2>1. ASSUME NEW i \in 1 .. N, NEW x \in S PROVE AddRule(x, rules[i]) \in S
    <3>1. rules[i] \in RuleSet
      BY <1>1
    <3>2. CASE rules[i].issue = "*"
      BY <3>2 DEF AddRule, NoSpec
    <3>3. CASE rules[i].issue # "*" /\ x.all
      BY <3>3 DEF AddRule
    <3>4. CASE rules[i].issue # "*" /\ ~x.all /\ rules[i].glob = None
      BY <3>1, <3>4 DEF AddRule, RuleSet
    <3>5. CASE rules[i].issue # "*" /\ ~x.all /\ rules[i].glob # None
      <4>1. <<rules[i].issue, rules[i].glob>> \in STRING \X (Seq(STRING) \cup {None})
        BY <3>1 DEF RuleSet
      <4>. QED BY <3>5, <4>1 DEF AddRule
    <3>. QED BY <3>2, <3>3, <3>4, <3>5
  <2> HIDE DEF S
  <2>. QED BY <2>1
<1>3. PICK g : Recurs(g, N, S, NoSpec, next)
  <2> HIDE DEF N, next, S
  <2>. QED BY <1>1, <1>2, Recursion
<1>4. g \in [0 .. N -> S] /\ g[0] = NoSpec /\ \A i \in 1 .. N : g[i] = next[i][g[i - 1]]
  <2> HIDE DEF N, next, S
  <2>. QED BY <1>3 DEF Recurs
<1>5. ASSUME NEW i \in 1 .. N
      PROVE  g[i] = IF rules[i].linter = linter THEN AddRule(g[i - 1], rules[i]) ELSE g[i - 1]
  <2>1. i - 1 \in 0 .. N
    BY <1>1
  <2>2. g[i - 1] \in S
    <3> HIDE DEF N, next, S
    <3>. QED BY <1>4, <2>1
  <2> HIDE DEF S
  <2>. QED BY <1>4, <2>2
<1> HIDE DEF S
<1>6. g = [i \in 0 .. N |-> step(g, i)]
  <2>1. \A i \in 0 .. N : i # 0 => i \in 1 .. N
    BY <1>1
  <2> HIDE DEF next, N
  <2>. QED BY <1>4, <1>5, <2>1
<1>7. f = [i \in 0 .. N |-> step(f, i)]
  BY <1>6
<1>8. \A i \in 0 .. N : f[i] = g[i]
  <2> DEFINE T == {i \in 0 .. N : f[i] = g[i]}
  <2>1. 0 \in T
    <3>1. 0 \in 0 .. N /\ step(f, 0) = NoSpec
      BY <1>1
    <3> HIDE DEF f
    <3>2. f[0] = step(f, 0)
      BY <1>7, <3>1
    <3>. QED BY <1>4, <3>1, <3>2
  <2>2. ASSUME NEW i \in 1 .. N, i - 1 \in T PROVE i \in T
    <3>1. i \in 0 .. N /\ i # 0
      OBVIOUS
    <3>2. f[i] = step(f, i)
      BY <1>7, <3>1
    <3>3. f[i - 1] = g[i - 1]
      BY <2>2
    <3> HIDE DEF f
    <3>. QED BY <1>5, <3>1, <3>2, <3>3
  <2> HIDE DEF T
  <2>3. \A i \in 0 .. N : i \in T
    BY <1>1, <2>1, <2>2, Induct
  <2>. QED BY <2>3 DEF T
<1>9. CliSpec(rules, linter) = f[N]
  BY DEF CliSpec
<1>10. CliSpec(rules, linter) = g[N]
  <2> HIDE DEF f
  <2>. QED BY <1>1, <1>8, <1>9
<1>11. Narrows(g, S, rules, linter)
  BY <1>4, <1>5, <1>10 DEF Narrows
<1>. QED BY <1>11

\* What the rules of the command line come to.
LEMMA CliSpecFacts ==
  ASSUME NEW rules \in Seq(RuleSet), NEW linter
  PROVE  CliSpecOf(CliSpec(rules, linter), rules, Len(rules), linter)
<1>1. PICK g, S : Narrows(g, S, rules, linter)
  BY CliSpecRecursion
<1>2. /\ g[0] = NoSpec /\ CliSpec(rules, linter) = g[Len(rules)]
      /\ \A i \in 1 .. Len(rules) :
           g[i] = IF rules[i].linter = linter THEN AddRule(g[i - 1], rules[i]) ELSE g[i - 1]
  BY <1>1 DEF Narrows
<1> DEFINE T == {n \in 0 .. Len(rules) : CliSpecOf(g[n], rules, n, linter)}
<1>3. Len(rules) \in Nat
  BY LenProperties
<1>4. 0 \in T
  <2>1. ~\E i \in 1 .. 0 : TRUE
    OBVIOUS
  <2>2. g[0] = [all |-> FALSE, ids |-> {}, globs |-> {}]
    BY <1>2 DEF NoSpec
  <2>3. CliSpecOf(g[0], rules, 0, linter)
    BY <2>1, <2>2 DEF CliSpecOf
  <2>. QED BY <1>3, <2>3
<1>5. ASSUME NEW n \in 1 .. Len(rules), n - 1 \in T PROVE n \in T
  <2>1. n \in Nat \ {0} /\ n \in 0 .. Len(rules)
    BY <1>3
  <2>2. CliSpecOf(IF rules[n].linter = linter THEN AddRule(g[n - 1], rules[n]) ELSE g[n - 1],
                  rules, n, linter)
    BY <1>5, <2>1, AddRuleFacts
  <2>. QED BY <1>2, <2>1, <2>2
<1>6. Len(rules) \in T
  <2> HIDE DEF T
  <2>1. \A n \in 0 .. Len(rules) : n \in T
    BY <1>3, <1>4, <1>5, Induct
  <2>. QED BY <1>3, <2>1
<1>. QED
  BY <1>2, <1>6

\* An issue is ignored exactly if some rule of the project or the user is about it.
LEMMA IgnoreFacts ==
  ASSUME NEW rules \in Seq(RuleSet), NEW raw, NEW linter, NEW issue
  PROVE  ShouldIgnore(linter, issue, BuildIgnoreConfig(raw, rules))
           <=> AskedToIgnore(linter, issue, raw, rules)
<1> DEFINE file == NormalizeIgnoreConfig(raw)
           cli == BuildCliIgnoreConfig(rules)
           config == MergeInto(file, cli)
           spec == CliSpec(rules, linter)
           about == {i \in 1 .. Len(rules) : rules[i].linter = linter}
           Hit(s) == \/ s.all \/ issue.id \in s.ids
                     \/ \E g \in s.globs : g[1] = issue.id /\ GlobMatches(g[2], issue.file)
           ByRule(r) == /\ r.linter = linter /\ r.issue \in {"*", issue.id}
                        /\ r.issue = "*" \/ r.glob = None \/ GlobMatches(r.glob, issue.file)
           ByFile == /\ linter \in DOMAIN raw /\ raw[linter] # None
                     /\ \/ raw[linter].star \/ issue.id \in raw[linter].ids
                        \/ \E g \in raw[linter].globs : g[1] = issue.id /\ GlobMatches(g[2], issue.file)
<1>1. Len(rules) \in Nat /\ DOMAIN rules = 1 .. Len(rules)
  BY LenProperties
<1>2. /\ linter \in DOMAIN file <=> linter \in DOMAIN raw /\ raw[linter] # None
      /\ linter \in DOMAIN file =>
           file[linter] = [all |-> raw[linter].star,
                           ids |-> IF raw[linter].star THEN {} ELSE raw[linter].ids,
                           globs |-> raw[linter].globs]
  BY DEF NormalizeIgnoreConfig
<1>3. linter \in DOMAIN file => (Hit(file[linter]) <=> ByFile)
  BY <1>2
<1>4. ~(linter \in DOMAIN file) => ~ByFile
  BY <1>2
<1>5. /\ linter \in DOMAIN cli <=> about # {}
      /\ linter \in DOMAIN cli => cli[linter] = spec
  BY <1>1 DEF BuildCliIgnoreConfig, Range
<1>6. CliSpecOf(spec, rules, Len(rules), linter)
  BY CliSpecFacts
<1>7. (\E r \in Range(rules) : ByRule(r)) <=> \E i \in about : ByRule(rules[i])
  BY <1>1 DEF Range
<1>8. Hit(spec) <=> \E i \in about : ByRule(rules[i])
  <2>1. CASE \E i \in about : rules[i].issue = "*"
    <3>1. spec = [all |-> TRUE, ids |-> {}, globs |-> {}]
      BY <1>6, <2>1 DEF CliSpecOf
    <3> HIDE DEF spec
    <3>. QED BY <2>1, <3>1
  <2>2. CASE ~\E i \in about : rules[i].issue = "*"
    <3>1. spec = [all |-> FALSE,
                  ids |-> {rules[i].issue : i \in {k \in about : rules[k].glob = None}},
                  globs |-> {<<rules[i].issue, rules[i].glob>> : i \in {k \in about : rules[k].glob # None}}]
      BY <1>6, <2>2 DEF CliSpecOf
    <3> HIDE DEF spec
    <3>2. issue.id \in spec.ids <=> \E i \in about : rules[i].glob = None /\ rules[i].issue = issue.id
      BY <3>1
    <3>3. (\E g \in spec.globs : g[1] = issue.id /\ GlobMatches(g[2], issue.file)) <=>
            \E i \in about : /\ rules[i].glob # None /\ rules[i].issue = issue.id
                             /\ GlobMatches(rules[i].glob, issue.file)
      <4> DEFINE given == {k \in about : rules[k].glob # None}
      <4>1. spec.globs = {<<rules[i].issue, rules[i].glob>> : i \in given}
        BY <3>1
      <4>2. ASSUME NEW i \in given
            PROVE  LET g == <<rules[i].issue, rules[i].glob>>
                   IN g \in spec.globs /\ g[1] = rules[i].issue /\ g[2] = rules[i].glob
        BY <4>1
      <4>3. ASSUME NEW g \in spec.globs
            PROVE  \E i \in given : g[1] = rules[i].issue /\ g[2] = rules[i].glob
        BY <4>1
      <4>4. ASSUME NEW g \in spec.globs, g[1] = issue.id, GlobMatches(g[2], issue.file)
            PROVE  \E i \in given : rules[i].issue = issue.id /\ GlobMatches(rules[i].glob, issue.file)
        BY <4>3, <4>4
      <4>5. ASSUME NEW i \in given, rules[i].issue = issue.id, GlobMatches(rules[i].glob, issue.file)
            PROVE  \E g \in spec.globs : g[1] = issue.id /\ GlobMatches(g[2], issue.file)
        <5> DEFINE g == <<rules[i].issue, rules[i].glob>>
        <5>1. g \in spec.globs /\ g[1] = rules[i].issue /\ g[2] = rules[i].glob
          BY <4>2
        <5> HIDE DEF g
        <5>. QED BY <4>5, <5>1
      <4>. QED BY <4>4, <4>5
    <3>4. ~spec.all
      BY <3>1
    <3>. QED BY <2>2, <3>2, <3>3, <3>4
  <2>. QED BY <2>1, <2>2
<1>9. about = {} => ~\E i \in about : ByRule(rules[i])
  OBVIOUS
<1>10. /\ DOMAIN config = DOMAIN file \cup DOMAIN cli
       /\ linter \in DOMAIN config =>
            config[linter] = IF linter \notin DOMAIN file THEN cli[linter]
                             ELSE IF linter \notin DOMAIN cli THEN file[linter]
                             ELSE MergeSpec(file[linter], cli[linter])
  BY DEF MergeInto
<1>11. ASSUME linter \in DOMAIN file
       PROVE  Hit(MergeSpec(file[linter], spec)) <=> Hit(file[linter]) \/ Hit(spec)
  <2>1. file[linter].all => file[linter].ids = {}
    BY <1>2, <1>11
  <2>2. CASE spec.all
    <3>1. MergeSpec(file[linter], spec).all
      BY <2>2 DEF MergeSpec
    <3>. QED BY <2>2, <3>1
  <2>3. CASE ~spec.all
    <3> HIDE DEF spec, file
    <3>1. MergeSpec(file[linter], spec) =
            [all |-> file[linter].all,
             ids |-> IF file[linter].all THEN {} ELSE file[linter].ids \cup spec.ids,
             globs |-> file[linter].globs \cup spec.globs]
      BY <2>3 DEF MergeSpec
    <3>2. CASE file[linter].all
      BY <3>1, <3>2
    <3>3. CASE ~file[linter].all
      BY <2>3, <3>1, <3>3
    <3>. QED BY <3>2, <3>3
  <2>. QED BY <2>2, <2>3
<1>12. ShouldIgnore(linter, issue, config) <=> linter \in DOMAIN config /\ Hit(config[linter])
  BY DEF ShouldIgnore
<1>13. AskedToIgnore(linter, issue, raw, rules) <=> (\E i \in about : ByRule(rules[i])) \/ ByFile
  BY <1>7 DEF AskedToIgnore
<1>14. BuildIgnoreConfig(raw, rules) = config
  BY DEF BuildIgnoreConfig
<1> HIDE DEF file, cli, config, spec, about, Hit, ByRule, ByFile
<1>15. CASE linter \notin DOMAIN file /\ linter \notin DOMAIN cli
  BY <1>4, <1>5, <1>9, <1>10, <1>12, <1>13, <1>14, <1>15
<1>16. CASE linter \notin DOMAIN file /\ linter \in DOMAIN cli
  BY <1>4, <1>5, <1>8, <1>10, <1>12, <1>13, <1>14, <1>16
<1>17. CASE linter \in DOMAIN file /\ linter \notin DOMAIN cli
  BY <1>3, <1>5, <1>9, <1>10, <1>12, <1>13, <1>14, <1>17
<1>18. CASE linter \in DOMAIN file /\ linter \in DOMAIN cli
  BY <1>3, <1>5, <1>8, <1>10, <1>11, <1>12, <1>13, <1>14, <1>18
<1>. QED BY <1>15, <1>16, <1>17, <1>18

\* The exit code says whether an error is shown.
LEMMA SummaryFacts ==
  ASSUME NEW stage, NEW context, NEW shown \in SUBSET Found(stage, context)
  PROVE  (Summary(shown) # 0) <=> \E f \in shown : f[2].severity = Error
<1> DEFINE levels == {f[2].severity : f \in shown}
<1>1. \A f \in shown : f[2].severity \in {Info, Warning, Error}
  BY DEF Found, RunLinter, MissingVersion, EmptyArtifact, Registered
<1>2. levels \subseteq {1, 2, 3} /\ Error = 3
  BY <1>1 DEF Info, Warning, Error
<1>3. CASE shown = {}
  BY <1>3, NoneFacts DEF Summary, HighestSeverity
<1>4. CASE shown # {}
  <2>1. \E x \in levels : \A y \in levels : x >= y
    <3>1. levels # {}
      BY <1>4
    <3> HIDE DEF levels
    <3>2. CASE 3 \in levels
      BY <1>2, <3>2
    <3>3. CASE 3 \notin levels /\ 2 \in levels
      <4>1. levels \subseteq {1, 2}
        BY <1>2, <3>3
      <4>. QED BY <3>3, <4>1
    <3>4. CASE 3 \notin levels /\ 2 \notin levels
      <4>1. levels = {1}
        BY <1>2, <3>1, <3>4
      <4>. QED BY <4>1
    <3>. QED BY <3>2, <3>3, <3>4
  <2>2. Max(levels) \in levels /\ \A y \in levels : Max(levels) >= y
    <3> HIDE DEF levels
    <3>. QED BY <2>1 DEF Max
  <2>3. HighestSeverity(shown) = Max(levels)
    BY <1>4 DEF HighestSeverity
  <2>4. Max(levels) = 3 <=> 3 \in levels
    <3> HIDE DEF levels
    <3>1. Max(levels) \in {1, 2, 3}
      BY <1>2, <2>2
    <3>2. ASSUME 3 \in levels PROVE Max(levels) = 3
      <4>1. Max(levels) >= 3
        BY <2>2, <3>2
      <4>. QED BY <3>1, <4>1
    <3>. QED BY <2>2, <3>2
  <2>5. 3 \in levels <=> \E f \in shown : f[2].severity = Error
    BY <1>2
  <2>. QED BY <1>2, <2>3, <2>4, <2>5 DEF Summary
<1>. QED BY <1>3, <1>4
-----------------------------------------------------------------------------
(* Platforms, what the project is rendered for, and the build plan. *)

\* The platforms of a project, in the order of the file.
LEMMA PlatformFacts ==
  ASSUME NEW j \in Files
  PROVE  LET ps == Platforms(j.platforms)
         IN /\ DOMAIN ps = 1 .. Len(j.platforms) /\ Len(j.platforms) \in Nat \ {0}
            /\ DOMAIN j.platforms = 1 .. Len(j.platforms) /\ ps = [i \in 1 .. Len(j.platforms) |-> ps[i]]
            /\ \A i \in DOMAIN ps :
                 /\ ps[i] = Vectorised(j.platforms[i])
                 /\ ps[i].name \in STRING \cap NamesOf(j) /\ ps[i].on \in Seq(STRING)
                 /\ \A k \in DOMAIN ps : ps[i].name = ps[k].name => i = k
            /\ NamesOf(j) = {ps[i].name : i \in DOMAIN ps} /\ NamesOf(j) \subseteq Names
            /\ None \notin NamesOf(j)
<1> DEFINE ps == Platforms(j.platforms)
<1>1. /\ j.platforms \in Seq(Declaration) /\ j.platforms # <<>>
      /\ \A i, k \in DOMAIN j.platforms : j.platforms[i].name = j.platforms[k].name => i = k
  BY FileFacts
<1>2. /\ Len(j.platforms) \in Nat \ {0} /\ DOMAIN j.platforms = 1 .. Len(j.platforms)
      /\ \A i \in DOMAIN j.platforms : j.platforms[i] \in Declaration
  BY <1>1, LenProperties, ElementOfSeq, EmptySeq
<1>3. ASSUME NEW d \in Declaration
      PROVE  Vectorised(d).name = d.name /\ d.name \in STRING /\ Vectorised(d).on \in Seq(STRING)
  <2>1. d.name \in STRING /\ d.on \in Seq(STRING) /\ <<d.name>> \in Seq(STRING)
    BY DEF Declaration
  <2>. QED BY <2>1 DEF Vectorised
<1>4. DOMAIN ps = DOMAIN j.platforms /\ \A i \in DOMAIN ps : ps[i] = Vectorised(j.platforms[i])
  BY DEF Platforms
<1>5. NamesOf(j) = {ps[i].name : i \in DOMAIN ps}
  BY <1>4 DEF NamesOf
<1>6. \A i \in DOMAIN ps : ps[i].name = j.platforms[i].name /\ ps[i].name \in STRING /\ ps[i].on \in Seq(STRING)
  BY <1>2, <1>3, <1>4
<1>7. NamesOf(j) \subseteq Names
  BY DEF Names, Files
<1>8. None \notin NamesOf(j)
  BY <1>5, <1>6, NoneFacts
<1>9. ps = [i \in 1 .. Len(j.platforms) |-> ps[i]]
  BY <1>2 DEF Platforms
<1> HIDE DEF ps
<1>11. \A i, k \in DOMAIN ps : ps[i].name = ps[k].name => i = k
  BY <1>1, <1>4, <1>6
<1>12. \A i \in DOMAIN ps : ps[i].name \in STRING \cap NamesOf(j)
  BY <1>5, <1>6
<1>10. /\ DOMAIN ps = 1 .. Len(j.platforms) /\ Len(j.platforms) \in Nat \ {0}
       /\ DOMAIN j.platforms = 1 .. Len(j.platforms) /\ ps = [i \in 1 .. Len(j.platforms) |-> ps[i]]
       /\ \A i \in DOMAIN ps :
            /\ ps[i] = Vectorised(j.platforms[i])
            /\ ps[i].name \in STRING \cap NamesOf(j) /\ ps[i].on \in Seq(STRING)
            /\ \A k \in DOMAIN ps : ps[i].name = ps[k].name => i = k
  BY <1>2, <1>4, <1>6, <1>9, <1>11, <1>12
<1>. QED
  BY <1>5, <1>7, <1>8, <1>10 DEF ps

\* The platforms of a project that is not refused.
LEMMA ValidFacts ==
  ASSUME NEW j \in Files, Valid(j.platforms), NEW i \in DOMAIN Platforms(j.platforms)
  PROVE  LET p == Platforms(j.platforms)[i]
         IN /\ p.on \in Seq(Archs) /\ p.on # <<>> /\ p.for \in Targets
            /\ DOMAIN p.on = 1 .. Len(p.on) /\ Head(p.on) \in Archs
<1> DEFINE p == Platforms(j.platforms)[i]
<1>1. /\ p = Vectorised(j.platforms[i]) /\ p.on \in Seq(STRING)
      /\ DOMAIN Platforms(j.platforms) = DOMAIN j.platforms
  BY PlatformFacts
<1>2. p.on # <<>> /\ Range(p.on) \subseteq Archs /\ p.for \in Targets
  BY <1>1 DEF Valid
<1>3. Len(p.on) \in Nat /\ DOMAIN p.on = 1 .. Len(p.on) /\ p.on = [k \in 1 .. Len(p.on) |-> p.on[k]]
  BY <1>1, LenProperties
<1> HIDE DEF p
<1>4. \A k \in 1 .. Len(p.on) : p.on[k] \in Archs
  BY <1>2, <1>3 DEF Range
<1>5. p.on \in Seq(Archs)
  BY <1>1, <1>3, <1>4
<1>6. Head(p.on) \in Archs
  BY <1>2, <1>5
<1>. QED
  BY <1>2, <1>3, <1>5, <1>6 DEF p

\* Every way to build a project, from each of its platforms.
LEMMA ExhaustiveFacts ==
  ASSUME NEW j \in Files, Valid(j.platforms)
  PROVE  LET ps == Platforms(j.platforms)
             ex == ExhaustivePlan(ps)
         IN /\ ex \in Seq(Builds)
            /\ \A k \in 1 .. Len(ex) : \E i \in DOMAIN ps : \E a \in Range(ps[i].on) :
                 ex[k] = [platform |-> ps[i].name, on |-> a, for |-> ps[i].for]
            /\ \A i \in DOMAIN ps : \A a \in Range(ps[i].on) : \E k \in 1 .. Len(ex) :
                 ex[k] = [platform |-> ps[i].name, on |-> a, for |-> ps[i].for]
<1> DEFINE ps == Platforms(j.platforms)
           N == Len(j.platforms)
           B(i, a) == [platform |-> ps[i].name, on |-> a, for |-> ps[i].for]
           of(i) == [k \in DOMAIN ps[i].on |-> B(i, ps[i].on[k])]
           seqs == [i \in DOMAIN ps |-> of(i)]
<1>1. DOMAIN ps = 1 .. N /\ N \in Nat /\ \A i \in 1 .. N : ps[i].name \in Names
  BY PlatformFacts
<1>2. \A i \in 1 .. N :
        ps[i].on \in Seq(Archs) /\ ps[i].for \in Targets /\ DOMAIN ps[i].on = 1 .. Len(ps[i].on)
  BY <1>1, ValidFacts
<1> HIDE DEF ps, N
<1>3. \A i \in 1 .. N : Len(ps[i].on) \in Nat /\ \A k \in 1 .. Len(ps[i].on) : ps[i].on[k] \in Archs
  BY <1>2, LenProperties, ElementOfSeq
<1>4. ASSUME NEW i \in 1 .. N
      PROVE  of(i) \in Seq(Builds) /\ Len(of(i)) = Len(ps[i].on)
  <2>1. \A a \in Archs : B(i, a) \in Builds
    BY <1>1, <1>2 DEF Builds
  <2> HIDE DEF B
  <2>2. of(i) \in [1 .. Len(ps[i].on) -> Builds]
    BY <1>2, <1>3, <2>1
  <2> HIDE DEF of
  <2>. QED BY <1>3, <2>2
<1>5. seqs \in Seq(Seq(Builds)) /\ Len(seqs) = N
  <2>1. seqs \in [1 .. N -> Seq(Builds)]
    <3> HIDE DEF of
    <3>. QED BY <1>1, <1>4
  <2> HIDE DEF seqs
  <2>. QED BY <1>1, <2>1
<1>6. ExhaustivePlan(ps) = FlattenSeq(seqs)
  BY DEF ExhaustivePlan
<1>7. \A i \in 1 .. N : seqs[i] = of(i)
  BY <1>1
<1> DEFINE ex == FlattenSeq(seqs)
<1> HIDE DEF seqs
<1>8. /\ ex \in Seq(Builds)
      /\ \A k \in 1 .. Len(ex) : \E i \in 1 .. N : \E l \in 1 .. Len(seqs[i]) : ex[k] = seqs[i][l]
      /\ \A i \in 1 .. N : \A l \in 1 .. Len(seqs[i]) : \E k \in 1 .. Len(ex) : ex[k] = seqs[i][l]
  <2> HIDE DEF of, ex
  <2>1. /\ ex \in Seq(Builds)
        /\ \A k \in 1 .. Len(ex) : \E i \in 1 .. Len(seqs) : \E l \in 1 .. Len(seqs[i]) : ex[k] = seqs[i][l]
        /\ \A i \in 1 .. Len(seqs) : \A l \in 1 .. Len(seqs[i]) : \E k \in 1 .. Len(ex) : ex[k] = seqs[i][l]
    BY <1>5, FlattenFacts DEF ex
  <2>. QED BY <1>5, <2>1
<1> HIDE DEF ex
<1>9. ASSUME NEW k \in 1 .. Len(ex)
      PROVE  \E i \in DOMAIN ps : \E a \in Range(ps[i].on) : ex[k] = B(i, a)
  <2>1. PICK i \in 1 .. N : \E l \in 1 .. Len(seqs[i]) : ex[k] = seqs[i][l]
    BY <1>8
  <2>2. PICK l \in 1 .. Len(ps[i].on) : ex[k] = of(i)[l]
    <3> HIDE DEF of
    <3>. QED BY <1>4, <1>7, <2>1
  <2>3. ex[k] = B(i, ps[i].on[l]) /\ ps[i].on[l] \in Range(ps[i].on)
    BY <1>2, <2>2 DEF Range
  <2> HIDE DEF B
  <2>. QED BY <1>1, <2>3
<1>10. ASSUME NEW i \in DOMAIN ps, NEW a \in Range(ps[i].on)
       PROVE  \E k \in 1 .. Len(ex) : ex[k] = B(i, a)
  <2>1. i \in 1 .. N
    BY <1>1
  <2>2. PICK l \in 1 .. Len(ps[i].on) : a = ps[i].on[l]
    BY <1>2, <2>1 DEF Range
  <2>3. of(i)[l] = B(i, a)
    BY <1>2, <2>1, <2>2
  <2>4. \E k \in 1 .. Len(ex) : ex[k] = of(i)[l]
    <3> HIDE DEF of
    <3>. QED BY <1>4, <1>7, <1>8, <2>1, <2>2
  <2> HIDE DEF of, B
  <2>. QED BY <2>3, <2>4
<1>11. ExhaustivePlan(ps) = ex
  BY <1>6 DEF ex
<1> HIDE DEF of
<1>12. /\ ExhaustivePlan(ps) \in Seq(Builds)
       /\ \A k \in 1 .. Len(ExhaustivePlan(ps)) : \E i \in DOMAIN ps : \E a \in Range(ps[i].on) :
            ExhaustivePlan(ps)[k] = B(i, a)
       /\ \A i \in DOMAIN ps : \A a \in Range(ps[i].on) : \E k \in 1 .. Len(ExhaustivePlan(ps)) :
            ExhaustivePlan(ps)[k] = B(i, a)
  <2> HIDE DEF B
  <2>. QED BY <1>8, <1>9, <1>10, <1>11
<1>. QED
  BY <1>12 DEF ps

\* The builds of a project that pass some filters: one for each platform, and one for
\* every platform that has any.
IsPlan(plan, declared, names, fors, ons) ==
  LET ps == Platforms(declared)
  IN /\ plan \in Seq(Builds)
     /\ \A k \in 1 .. Len(plan) :
          /\ Passes(plan[k], names, fors, ons)
          /\ \E i \in DOMAIN ps : \E a \in Range(ps[i].on) :
               plan[k] = [platform |-> ps[i].name, on |-> a, for |-> ps[i].for]
     /\ \A k, l \in 1 .. Len(plan) : plan[k].platform = plan[l].platform => k = l
     /\ \A i \in DOMAIN ps : \A a \in Range(ps[i].on) :
          Passes([platform |-> ps[i].name, on |-> a, for |-> ps[i].for], names, fors, ons)
            => \E k \in 1 .. Len(plan) : plan[k].platform = ps[i].name

\* That is what the plan has.
LEMMA PlanFacts ==
  ASSUME NEW j \in Files, Valid(j.platforms), NEW names, NEW fors, NEW ons
  PROVE  IsPlan(CreateBuildPlan(j.platforms, names, fors, ons), j.platforms, names, fors, ons)
<1> DEFINE ps == Platforms(j.platforms)
           ex == ExhaustivePlan(ps)
           P(b) == Passes(b, names, fors, ons)
           passing == {i \in DOMAIN ex : P(ex[i])}
           firsts == {i \in passing : \A l \in passing : ex[l].platform = ex[i].platform => i <= l}
           plan == CreateBuildPlan(j.platforms, names, fors, ons)
<1>1. /\ ex \in Seq(Builds)
      /\ \A k \in 1 .. Len(ex) : \E i \in DOMAIN ps : \E a \in Range(ps[i].on) :
           ex[k] = [platform |-> ps[i].name, on |-> a, for |-> ps[i].for]
      /\ \A i \in DOMAIN ps : \A a \in Range(ps[i].on) : \E k \in 1 .. Len(ex) :
           ex[k] = [platform |-> ps[i].name, on |-> a, for |-> ps[i].for]
  BY ExhaustiveFacts
<1>2. plan = Select(ex, firsts)
  BY DEF CreateBuildPlan, FilterPlan
<1> HIDE DEF ps, ex, P, plan
<1>3. DOMAIN ex = 1 .. Len(ex) /\ Len(ex) \in Nat
  BY <1>1, LenProperties
<1>4. /\ plan \in Seq(Builds)
      /\ \E pos \in [1 .. Len(plan) -> firsts \cap (1 .. Len(ex))] :
           /\ \A k \in 1 .. Len(plan) : plan[k] = ex[pos[k]]
           /\ \A k, l \in 1 .. Len(plan) : k < l => pos[k] < pos[l]
           /\ \A i \in firsts \cap (1 .. Len(ex)) : \E k \in 1 .. Len(plan) : pos[k] = i
  <2> HIDE DEF firsts
  <2>. QED BY <1>1, <1>2, SelectFacts
<1>5. firsts \cap (1 .. Len(ex)) = firsts
  BY <1>3
<1>6. Len(plan) \in Nat
  BY <1>4, LenProperties
<1>7. PICK pos : /\ pos \in [1 .. Len(plan) -> firsts]
                 /\ \A k \in 1 .. Len(plan) : plan[k] = ex[pos[k]]
                 /\ \A k, l \in 1 .. Len(plan) : k < l => pos[k] < pos[l]
                 /\ \A i \in firsts : \E k \in 1 .. Len(plan) : pos[k] = i
  <2> HIDE DEF firsts
  <2>. QED BY <1>4, <1>5
<1>8. ASSUME NEW k \in 1 .. Len(plan)
      PROVE  pos[k] \in firsts /\ pos[k] \in 1 .. Len(ex) /\ P(plan[k])
  <2>1. pos[k] \in firsts
    <3> HIDE DEF firsts
    <3>. QED BY <1>7
  <2>. QED BY <1>3, <1>7, <2>1
<1>9. ASSUME NEW k \in 1 .. Len(plan)
      PROVE  /\ Passes(plan[k], names, fors, ons)
             /\ \E i \in DOMAIN ps : \E a \in Range(ps[i].on) :
                  plan[k] = [platform |-> ps[i].name, on |-> a, for |-> ps[i].for]
  <2>1. plan[k] = ex[pos[k]] /\ pos[k] \in 1 .. Len(ex) /\ P(plan[k])
    BY <1>7, <1>8
  <2>2. Passes(plan[k], names, fors, ons)
    BY <2>1 DEF P
  <2> HIDE DEF firsts, passing
  <2>3. \E i \in DOMAIN ps : \E a \in Range(ps[i].on) :
          plan[k] = [platform |-> ps[i].name, on |-> a, for |-> ps[i].for]
    <3>1. \A m \in 1 .. Len(ex) : \E i \in DOMAIN ps : \E a \in Range(ps[i].on) :
            ex[m] = [platform |-> ps[i].name, on |-> a, for |-> ps[i].for]
      BY <1>1
    <3>2. \E i \in DOMAIN ps : \E a \in Range(ps[i].on) :
            ex[pos[k]] = [platform |-> ps[i].name, on |-> a, for |-> ps[i].for]
      BY <2>1, <3>1, Zenon
    <3>. QED BY <2>1, <3>2, Zenon
  <2>. QED BY <2>2, <2>3
<1>10. ASSUME NEW k \in 1 .. Len(plan), NEW l \in 1 .. Len(plan),
              plan[k].platform = plan[l].platform
       PROVE  k = l
  <2>a. pos[k] \in firsts /\ pos[l] \in firsts /\ pos[k] \in Nat /\ pos[l] \in Nat
    BY <1>3, <1>8
  <2>b. ex[pos[k]].platform = ex[pos[l]].platform
    BY <1>7, <1>10
  <2>1. pos[k] \in Nat /\ pos[l] \in Nat /\ pos[k] <= pos[l] /\ pos[l] <= pos[k]
    BY <2>a, <2>b
  <2>2. ~(k < l) /\ ~(l < k)
    BY <1>7, <2>1
  <2>. QED BY <1>6, <2>2
<1>11. ASSUME NEW i \in DOMAIN ps, NEW a \in Range(ps[i].on),
              P([platform |-> ps[i].name, on |-> a, for |-> ps[i].for])
       PROVE  \E k \in 1 .. Len(plan) : plan[k].platform = ps[i].name
  <2> DEFINE S == {m \in passing : ex[m].platform = ps[i].name}
  <2>1. PICK m \in 1 .. Len(ex) : ex[m] = [platform |-> ps[i].name, on |-> a, for |-> ps[i].for]
    BY <1>1
  <2>2. m \in S /\ S \subseteq Nat
    BY <1>3, <1>11, <2>1
  <2>3. PICK x \in S : \A y \in S : x <= y
    <3> HIDE DEF S
    <3>. QED BY <2>2, Least
  <2>4. x \in firsts
    BY <2>3
  <2>5. PICK k \in 1 .. Len(plan) : pos[k] = x
    <3> HIDE DEF firsts
    <3>. QED BY <1>7, <2>4
  <2>. QED BY <1>7, <2>3, <2>5
<1>. QED
  BY <1>4, <1>9, <1>10, <1>11 DEF IsPlan, ps, plan, P

\* What the project is rendered for: a platform of the project, the one that was named
\* or one that can be built here, if any.
ConfiguredFor(conf, ps, h, platform, target) ==
  \E i \in DOMAIN ps :
    /\ conf.platform = ps[i].name
    /\ conf.on = IF platform = None /\ Candidates(ps, h, target) = {} THEN Head(ps[i].on) ELSE h
    /\ conf.for = IF target # None THEN target ELSE ps[i].for
    /\ platform # None => ps[i].name = platform
    /\ platform = None /\ Candidates(ps, h, target) # {} => i \in Candidates(ps, h, target)

\* So it is if configuring the project does not fail.
LEMMA ConfigureFacts ==
  ASSUME NEW j \in Files, NEW h \in Archs, NEW platform, NEW target,
         ConfigureError(j.platforms, h, platform, target) = None
  PROVE  LET conf == Configured(j.platforms, h, platform, target)
         IN /\ Valid(j.platforms) /\ platform \in NamesOf(j) \cup {None} /\ conf \in Builds
            /\ ConfiguredFor(conf, Platforms(j.platforms), h, platform, target)
<1> DEFINE ps == Platforms(j.platforms)
           candidates == Candidates(ps, h, target)
           conf == Configured(j.platforms, h, platform, target)
           N == Len(j.platforms)
<1>1. /\ DOMAIN ps = 1 .. N /\ N \in Nat \ {0} /\ ps = [i \in 1 .. N |-> ps[i]]
      /\ NamesOf(j) = {ps[i].name : i \in DOMAIN ps} /\ NamesOf(j) \subseteq Names
      /\ \A i \in DOMAIN ps : ps[i].name \in NamesOf(j)
  BY PlatformFacts
<1>2. /\ Valid(j.platforms) /\ platform \in NamesOf(j) \cup {None} /\ target \in Targets \cup {None}
  <2>1. /\ None # "InvalidPlatforms" /\ None # "InvalidPlatformError" /\ None # "CraftValidationError"
    BY NoneFacts DEF Errors
  <2>. QED BY <1>1, <2>1 DEF ConfigureError
<1>3. \A i \in DOMAIN ps : ps[i].for \in Targets /\ Head(ps[i].on) \in Archs
  BY <1>2, ValidFacts
<1> HIDE DEF ps, N
<1>4. candidates \subseteq DOMAIN ps /\ candidates \subseteq Nat
  BY <1>1 DEF Candidates
<1> HIDE DEF candidates
<1>5. candidates # {} => Min(candidates) \in candidates
  <2>1. SUFFICES ASSUME candidates # {} PROVE Min(candidates) \in candidates
    OBVIOUS
  <2>2. \E x \in candidates : \A y \in candidates : x <= y
    BY <1>4, <2>1, Least
  <2>. QED BY <2>2 DEF Min
<1>6. ASSUME platform # None
      PROVE  \E i \in DOMAIN ps : Named(ps, platform) = ps[i] /\ ps[i].name = platform
  <2>1. \E i \in DOMAIN ps : ps[i].name = platform
    BY <1>1, <1>2, <1>6
  <2>. QED BY <2>1 DEF Named
<1>7. Head(ps) = ps[1] /\ 1 \in DOMAIN ps
  BY <1>1
<1> DEFINE p == IF platform # None THEN Named(ps, platform)
                ELSE IF candidates # {} THEN ps[Min(candidates)] ELSE Head(ps)
<1>8. PICK i \in DOMAIN ps :
        /\ p = ps[i] /\ (platform # None => ps[i].name = platform)
        /\ platform = None /\ candidates # {} => i \in candidates
  <2>1. CASE platform # None
    BY <1>6, <2>1
  <2>2. CASE platform = None /\ candidates # {}
    BY <1>4, <1>5, <2>2
  <2>3. CASE platform = None /\ candidates = {}
    BY <1>7, <2>3
  <2>. QED BY <2>1, <2>2, <2>3
<1> HIDE DEF p
<1>9. conf = [platform |-> p.name,
              on |-> IF platform = None /\ candidates = {} THEN Head(p.on) ELSE h,
              for |-> IF target # None THEN target ELSE p.for]
  BY DEF Configured, p, ps, candidates
<1> HIDE DEF conf
<1>10. conf \in Builds
  <2>1. p.name \in Names /\ p.for \in Targets /\ Head(p.on) \in Archs
    BY <1>1, <1>3, <1>8
  <2>2. (IF target # None THEN target ELSE p.for) \in Targets
    BY <1>2, <2>1
  <2>. QED BY <1>9, <2>1, <2>2 DEF Builds
<1>11. /\ conf.platform = ps[i].name
       /\ conf.on = IF platform = None /\ candidates = {} THEN Head(ps[i].on) ELSE h
       /\ conf.for = IF target # None THEN target ELSE ps[i].for
  BY <1>8, <1>9
<1>12. ConfiguredFor(conf, ps, h, platform, target)
  BY <1>8, <1>11 DEF ConfiguredFor, candidates
<1>. QED
  BY <1>2, <1>10, <1>12 DEF ps, conf
-----------------------------------------------------------------------------
(* What a process holds, and what a step does to it. *)

Fields ==
  {"pc", "error", "ret", "raw", "parts", "shown", "snaps", "kwargs", "made", "conf", "names",
   "fors", "plan", "group", "arch", "build"}
Services == {"project", "provider"}
IsProcess(r) == DOMAIN r = Fields /\ DOMAIN r.kwargs = Services /\ DOMAIN r.made = Services
Shape == DOMAIN proc = Processes /\ \A p \in Processes : IsProcess(proc[p])

\* r is s but for some fields.
AllBut(r, s, changed) == \A f \in Fields \ changed : r[f] = s[f]
Others(p) == \A q \in Processes : q # p => proc'[q] = proc[q]

\* A process before and at its start.
LEMMA FreshFacts ==
  /\ IsProcess(Fresh) /\ IsProcess(Absent) /\ AllBut(Absent, Fresh, {"pc"})
  /\ Absent.pc = "absent" /\ Fresh.pc = "boot" /\ Fresh.error = None /\ Fresh.ret = 0
  /\ Fresh.raw = None /\ Fresh.conf = None /\ Fresh.names = None /\ Fresh.fors = None
  /\ Fresh.plan = <<>> /\ Fresh.arch = None /\ Fresh.build = None /\ Fresh.group = None
  /\ Fresh.made.project = Unmade /\ Fresh.made.provider = Unmade
BY DEF IsProcess, Fields, Services, Fresh, Absent, AllBut

\* An error ends a process, and no other.
LEMMA RaiseFacts ==
  ASSUME Shape, NEW p \in Processes, NEW r, IsProcess(r), NEW error, Raise(p, r, error)
  PROVE  /\ Shape' /\ Others(p) /\ AllBut(proc'[p], r, {"pc", "error"})
         /\ proc'[p].pc = "ended" /\ proc'[p].error = error
<1> DEFINE s == [r EXCEPT !.pc = "ended", !.error = error]
<1>1. IsProcess(s) /\ AllBut(s, r, {"pc", "error"}) /\ s.pc = "ended" /\ s.error = error
  BY DEF IsProcess, AllBut, Fields
<1>2. proc' = [proc EXCEPT ![p] = s]
  BY DEF Raise
<1> HIDE DEF s
<1>3. proc'[p] = s /\ Others(p) /\ DOMAIN proc' = Processes
  BY <1>2 DEF Shape, Others
<1>. QED BY <1>1, <1>3 DEF Shape, Others

\* A process that goes on to its next step.
LEMMA ContinueFacts ==
  ASSUME Shape, NEW p \in Processes, NEW r, IsProcess(r), NEW pc, Continue(p, r, pc)
  PROVE  /\ Shape' /\ Others(p) /\ AllBut(proc'[p], r, {"pc"}) /\ proc'[p].pc = pc
<1> DEFINE s == [r EXCEPT !.pc = pc]
<1>1. IsProcess(s) /\ AllBut(s, r, {"pc"}) /\ s.pc = pc
  BY DEF IsProcess, AllBut, Fields
<1>2. proc' = [proc EXCEPT ![p] = s]
  BY DEF Continue
<1> HIDE DEF s
<1>3. proc'[p] = s /\ Others(p) /\ DOMAIN proc' = Processes
  BY <1>2 DEF Shape, Others
<1>. QED BY <1>1, <1>3 DEF Shape, Others

\* What the operators of the model leave alone.
LEMMA GetFacts ==
  ASSUME NEW r, IsProcess(r), NEW service \in Services
  PROVE  /\ IsProcess(Get(r, service)) /\ AllBut(Get(r, service), r, {"made"})
         /\ Get(r, service).made[service] =
              IF r.made[service] = Unmade THEN r.kwargs[service] ELSE r.made[service]
         /\ \A t \in Services : t # service => Get(r, service).made[t] = r.made[t]
BY DEF Get, IsProcess, AllBut, Fields, Services

\* New keyword arguments are those of one service.
LEMMA UpdateFacts ==
  ASSUME NEW r, IsProcess(r), NEW service \in Services, NEW pro
  PROVE  LET s == UpdateKwargs(r, service, pro)
         IN /\ IsProcess(s) /\ AllBut(s, r, {"kwargs"}) /\ s.kwargs[service] = pro
            /\ \A t \in Services : t # service => s.kwargs[t] = r.kwargs[t]
BY DEF UpdateKwargs, IsProcess, AllBut, Fields, Services

\* Planning fills in a plan if there is none.
LEMMA PlanStep ==
  ASSUME NEW r, IsProcess(r), NEW p
  PROVE  LET s == Plan(p, r)
         IN /\ IsProcess(s) /\ AllBut(s, r, {"plan"})
            /\ s.plan = IF r.plan # <<>> THEN r.plan
                        ELSE CreateBuildPlan(r.raw.platforms, r.names, r.fors, {Machine(p)})
BY DEF Plan, IsProcess, AllBut, Fields

\* A group for the build is set, if it has one.
LEMMA GroupStep ==
  ASSUME NEW r, IsProcess(r), NEW build
  PROVE  LET s == SetPluginGroup(r, build)
         IN /\ IsProcess(s) /\ AllBut(s, r, {"group"})
            /\ s.group = IF Group(build) = None THEN r.group ELSE Group(build)
BY DEF SetPluginGroup, IsProcess, AllBut, Fields

\* Making the provider sets up its snaps.
LEMMA GetWithSnapsFacts ==
  ASSUME NEW r, IsProcess(r)
  PROVE  LET s == GetWithSnaps(r)
         IN /\ IsProcess(s) /\ AllBut(s, r, {"made", "snaps"}) /\ s.snaps = Snaps
            /\ s.made.provider = IF r.made.provider = Unmade THEN r.kwargs.provider ELSE r.made.provider
            /\ s.made.project = r.made.project
<1> DEFINE g == Get(r, "provider")
<1>1. /\ IsProcess(g) /\ AllBut(g, r, {"made"}) /\ g.made.project = r.made.project
      /\ g.made.provider = IF r.made.provider = Unmade THEN r.kwargs.provider ELSE r.made.provider
  BY GetFacts DEF Services
<1> HIDE DEF g
<1>. QED BY <1>1 DEF GetWithSnaps, IsProcess, AllBut, Fields, g

\* The filters of a command other than clean: what it asks for, one by one.
AskedPlatform(p) == IF line.cmd = "test" /\ p = "outer" THEN line.platform ELSE Platform(p)
AskedFor(p) == IF line.cmd = "test" /\ p = "outer" THEN None ELSE BuildFor(p)
Filter(value) == IF value = None THEN None ELSE {value}

\* Filtering sets the filters that were asked for, and forgets the plan if there are any.
LEMMA FilterStep ==
  ASSUME NEW r, IsProcess(r), NEW p
  PROVE  LET s == Filtered(p, r)
         IN /\ IsProcess(s) /\ AllBut(s, r, {"names", "fors", "plan"})
            /\ line.cmd = "clean" => s = r
            /\ line.cmd # "clean" =>
                 /\ s.names = IF AskedPlatform(p) = None THEN r.names ELSE {AskedPlatform(p)}
                 /\ s.fors = IF AskedFor(p) = None THEN r.fors ELSE {AskedFor(p)}
                 /\ s.plan = IF AskedPlatform(p) = None /\ AskedFor(p) = None THEN r.plan ELSE <<>>
<1> DEFINE named == IF AskedPlatform(p) # None THEN SetPlatforms(r, AskedPlatform(p)) ELSE r
<1>1. /\ IsProcess(named) /\ AllBut(named, r, {"names", "plan"})
      /\ named.names = IF AskedPlatform(p) = None THEN r.names ELSE {AskedPlatform(p)}
      /\ named.plan = IF AskedPlatform(p) = None THEN r.plan ELSE <<>>
  BY DEF SetPlatforms, IsProcess, AllBut, Fields
<1>2. Filtered(p, r) = IF line.cmd = "clean" THEN r
                       ELSE IF AskedFor(p) # None THEN SetBuildFors(named, AskedFor(p)) ELSE named
  BY DEF Filtered, AskedPlatform, AskedFor
<1> HIDE DEF named
<1>3. LET s == SetBuildFors(named, AskedFor(p))
      IN /\ IsProcess(s) /\ AllBut(s, named, {"fors", "plan"})
         /\ s.fors = {AskedFor(p)} /\ s.plan = <<>>
  BY <1>1 DEF SetBuildFors, IsProcess, AllBut, Fields
<1>. QED BY <1>1, <1>2, <1>3 DEF AllBut, Fields
-----------------------------------------------------------------------------
(* What a command checks. *)

\* The first answer that is given.
LEMMA FirstOfFacts ==
  ASSUME NEW N \in Nat, NEW answers, DOMAIN answers = 1 .. N
  PROVE  /\ FirstOf(answers) = None => \A i \in 1 .. N : answers[i] = None
         /\ FirstOf(answers) # None =>
              \E i \in 1 .. N : answers[i] = FirstOf(answers) /\ \A k \in 1 .. i - 1 : answers[k] = None
<1> DEFINE given == {i \in DOMAIN answers : answers[i] # None}
<1>1. FirstOf(answers) = IF given = {} THEN None ELSE answers[Min(given)]
  BY DEF FirstOf
<1>2. CASE given = {}
  BY <1>1, <1>2
<1>3. CASE given # {}
  <2>1. given \subseteq Nat
    OBVIOUS
  <2>2. \E x \in given : \A y \in given : x <= y
    <3> HIDE DEF given
    <3>. QED BY <1>3, <2>1, Least
  <2>3. Min(given) \in given /\ \A y \in given : Min(given) <= y
    <3> HIDE DEF given
    <3>. QED BY <2>2 DEF Min
  <2> DEFINE m == Min(given)
  <2>4. m \in 1 .. N /\ answers[m] # None /\ FirstOf(answers) = answers[m]
    BY <1>1, <1>3, <2>3
  <2>5. \A k \in 1 .. m - 1 : answers[k] = None
    <3>1. SUFFICES ASSUME NEW k \in 1 .. m - 1, answers[k] # None PROVE FALSE
      OBVIOUS
    <3>2. k \in given /\ ~(m <= k)
      BY <2>4, <3>1
    <3>. QED BY <2>3, <3>2
  <2> HIDE DEF m
  <2>. QED BY <2>4, <2>5
<1>. QED BY <1>2, <1>3

\* The error of a command is that of one of its checks, and without one all of them passed.
LEMMA CommandErrorFacts ==
  ASSUME NEW p
  PROVE  /\ CommandError(p) = None =>
              SpreadError = None /\ PrecheckError(p) = None /\ SupportedBaseError(p) = None
         /\ CommandError(p) \in {None, SpreadError, PrecheckError(p), SupportedBaseError(p)}
<1> DEFINE answers == <<SpreadError, PrecheckError(p), SupportedBaseError(p)>>
<1>1. /\ DOMAIN answers = 1 .. 3 /\ answers[1] = SpreadError /\ answers[2] = PrecheckError(p)
      /\ answers[3] = SupportedBaseError(p)
  OBVIOUS
<1>2. CommandError(p) = FirstOf(answers)
  BY DEF CommandError
<1> HIDE DEF answers
<1>3. /\ FirstOf(answers) = None => \A i \in 1 .. 3 : answers[i] = None
      /\ FirstOf(answers) # None => \E i \in 1 .. 3 : answers[i] = FirstOf(answers)
  BY <1>1, FirstOfFacts
<1>4. \A i \in 1 .. 3 : answers[i] \in {SpreadError, PrecheckError(p), SupportedBaseError(p)}
  BY <1>1
<1>5. 1 \in 1 .. 3 /\ 2 \in 1 .. 3 /\ 3 \in 1 .. 3
  OBVIOUS
<1>. QED BY <1>1, <1>2, <1>3, <1>4, <1>5

\* Errors other than the answers of the dispatcher.
Failures == Errors \ Answers
\* Whatever a step fails with is one of them.
LEMMA FailureFacts ==
  ASSUME NEW r, NEW p
  PROVE  /\ RenderError(r) \in Failures \cup {None} /\ CommandError(p) \in Failures \cup {None}
         /\ ProviderNameError \in Failures \cup {None} /\ BaseError(p) \in Failures \cup {None}
         /\ BuildInfoError(r) \in Failures \cup {None} /\ LintError(r) \in Failures \cup {None}
         /\ \A pro : ProError(pro) \in Failures \cup {None}
         /\ \A declared, h, platform, target :
              ConfigureError(declared, h, platform, target) \in Failures \cup {None}
         /\ None \notin Failures
<1>1. \A j, b : RenderForError(j, b) \in Failures \cup {None}
  BY DEF RenderForError, Failures, Errors, Answers
<1>2. \A x : RenderError(x) \in Failures \cup {None}
  BY <1>1 DEF RenderError, Failures, Errors, Answers
<1>3. \A declared, h, platform, target :
        ConfigureError(declared, h, platform, target) \in Failures \cup {None}
  BY DEF ConfigureError, Failures, Errors, Answers
<1>4. SpreadError \in Failures \cup {None}
  BY DEF SpreadError, Failures, Errors, Answers
<1>5. PrecheckError(p) \in Failures \cup {None}
  <2>1. \A pro, options : ValidateEnvironment(pro, options) \in Failures \cup {None}
    BY DEF ValidateEnvironment, Failures, Errors, Answers
  <2>. QED BY <2>1 DEF PrecheckError
<1>6. SupportedBaseError(p) \in Failures \cup {None}
  <2>1. {"UnknownDistributionError", "RuntimeError", "UnsupportedBase"} \subseteq Failures
    BY DEF Failures, Errors, Answers
  <2>. QED BY <1>2, <2>1 DEF SupportedBaseError
<1>7. CommandError(p) \in Failures \cup {None}
  BY <1>4, <1>5, <1>6, CommandErrorFacts
<1>8. LintError(r) \in Failures \cup {None}
  <2>1. {"FileNotFoundError", "ValueError", "CraftValidationError"} \subseteq Failures
    BY DEF Failures, Errors, Answers
  <2>. QED BY <1>1, <1>3, <2>1 DEF LintError
<1>9. /\ ProviderNameError \in Failures \cup {None} /\ BaseError(p) \in Failures \cup {None}
      /\ BuildInfoError(r) \in Failures \cup {None}
  BY DEF ProviderNameError, BaseError, BuildInfoError, Failures, Errors, Answers
<1>10. \A pro : ProError(pro) \in Failures \cup {None}
  BY DEF ProError, Failures, Errors, Answers
<1>11. None \notin Failures
  BY NoneFacts DEF Failures
<1>. QED BY <1>2, <1>3, <1>7, <1>8, <1>9, <1>10, <1>11
-----------------------------------------------------------------------------
(* What each step does to the process that takes it. *)

\* The variables that are not about a process.
around == <<project, host, line, instance, queue, built, tested>>

\* The first step of a process reads the project file and plans without filters.
LEMMA BootStep ==
  ASSUME Shape, NEW p \in Processes, proc[p] = Fresh, Boot(p)
  PROVE  LET j == ProjectFile(p)
         IN /\ UNCHANGED around /\ Shape' /\ Others(p)
            /\ proc'[p].pc = "configure" /\ proc'[p].raw = j /\ proc'[p].made.provider = Unmade
            /\ AllBut(proc'[p], Fresh, {"pc", "raw", "made", "plan", "group"})
            /\ proc'[p].plan = IF Valid(j.platforms)
                               THEN CreateBuildPlan(j.platforms, None, None, {Machine(p)}) ELSE <<>>
<1> DEFINE j == ProjectFile(p)
           made == Get(Fresh, "project")
           r == [made EXCEPT !.raw = j]
           planned == IF Valid(r.raw.platforms) THEN Plan(p, r) ELSE r
           s == IF planned.plan = <<>> THEN planned ELSE SetPluginGroup(planned, Head(planned.plan))
<1>1. /\ IsProcess(made) /\ AllBut(made, Fresh, {"made"}) /\ made.made.provider = Unmade
  BY GetFacts, FreshFacts DEF Services
<1> HIDE DEF made
<1>2. /\ IsProcess(r) /\ AllBut(r, Fresh, {"made", "raw"}) /\ r.made.provider = Unmade /\ r.raw = j
  BY <1>1 DEF IsProcess, AllBut, Fields
<1>3. r.plan = <<>> /\ r.names = None /\ r.fors = None
  BY <1>2, FreshFacts DEF AllBut, Fields
<1> HIDE DEF r, j
<1>4. /\ IsProcess(planned) /\ AllBut(planned, r, {"plan"})
      /\ planned.plan = IF Valid(j.platforms)
                        THEN CreateBuildPlan(j.platforms, None, None, {Machine(p)}) ELSE <<>>
  <2>1. CASE Valid(r.raw.platforms)
    BY <1>2, <1>3, <2>1, PlanStep
  <2>2. CASE ~Valid(r.raw.platforms)
    BY <1>2, <1>3, <2>2 DEF AllBut
  <2>. QED BY <2>1, <2>2
<1> HIDE DEF planned
<1>5. IsProcess(s) /\ AllBut(s, planned, {"group"})
  <2>1. CASE planned.plan = <<>>
    BY <1>4, <2>1 DEF AllBut
  <2>2. CASE planned.plan # <<>>
    BY <1>4, <2>2, GroupStep
  <2>. QED BY <2>1, <2>2
<1>6. Continue(p, s, "configure") /\ UNCHANGED around
  BY DEF Boot, around, s, planned, r, made, j
<1> HIDE DEF s
<1>7. /\ Shape' /\ Others(p) /\ AllBut(proc'[p], s, {"pc"}) /\ proc'[p].pc = "configure"
  BY <1>5, <1>6, ContinueFacts
<1>. QED
  BY <1>2, <1>4, <1>5, <1>6, <1>7 DEF AllBut, Fields, j

\* Configuring the project, or ending before that.
LEMMA ConfigureStep ==
  ASSUME Shape, NEW p \in Processes, Configure(p)
  PROVE  LET error == ConfigureError(proc[p].raw.platforms, Machine(p), Platform(p), BuildFor(p))
         IN /\ proc[p].pc = "configure" /\ UNCHANGED around /\ Shape' /\ Others(p)
            /\ AllBut(proc'[p], proc[p], {"pc", "error", "kwargs", "made", "conf"})
            /\ proc'[p].made.provider = proc[p].made.provider
            /\ \/ /\ DispatchError # None /\ proc'[p].pc = "ended" /\ proc'[p].error = DispatchError
                  /\ proc'[p].conf = proc[p].conf
               \/ /\ DispatchError = None /\ line.cmd = "lint" /\ proc'[p].pc = "lint"
                  /\ proc'[p].conf = proc[p].conf /\ proc'[p].error = proc[p].error
               \/ /\ DispatchError = None /\ line.cmd # "lint" /\ error # None
                  /\ proc'[p].pc = "ended" /\ proc'[p].error = error /\ proc'[p].conf = proc[p].conf
               \/ /\ DispatchError = None /\ line.cmd # "lint" /\ error = None
                  /\ proc'[p].pc = "command" /\ proc'[p].error = proc[p].error
                  /\ proc'[p].conf = Configured(proc[p].raw.platforms, Machine(p), Platform(p), BuildFor(p))
                  /\ proc'[p].kwargs.provider = Pro
<1> DEFINE old == proc[p]
           u == UpdateKwargs(old, "project", Pro)
           r == Get(u, "project")
           error == ConfigureError(old.raw.platforms, Machine(p), Platform(p), BuildFor(p))
           conf == Configured(old.raw.platforms, Machine(p), Platform(p), BuildFor(p))
           s == [r EXCEPT !.conf = conf]
<1>1. /\ IsProcess(u) /\ AllBut(u, old, {"kwargs"})
  BY UpdateFacts DEF Services, Shape
<1> HIDE DEF u
<1>2. /\ IsProcess(r) /\ AllBut(r, u, {"made"}) /\ r.made.provider = u.made.provider
  BY <1>1, GetFacts DEF Services
<1>3. /\ AllBut(r, old, {"kwargs", "made"}) /\ r.made.provider = old.made.provider
      /\ r.raw = old.raw /\ r.conf = old.conf
  BY <1>1, <1>2 DEF AllBut, Fields
<1>4. IsProcess(old)
  BY DEF Shape
<1>5. At(p, "configure") /\ UNCHANGED around
  BY DEF Configure, around
<1>6. \/ DispatchError # None /\ Raise(p, old, DispatchError)
      \/ DispatchError = None /\ line.cmd = "lint" /\ Continue(p, ConfigureServices(old), "lint")
      \/ DispatchError = None /\ line.cmd # "lint" /\ error # None /\ Raise(p, r, error)
      \/ DispatchError = None /\ line.cmd # "lint" /\ error = None
           /\ Continue(p, ConfigureServices(s), "command")
  BY <1>3 DEF Configure, r, u
<1> HIDE DEF r, error, conf
<1>7. CASE DispatchError # None /\ Raise(p, old, DispatchError)
  <2>1. /\ Shape' /\ Others(p) /\ AllBut(proc'[p], old, {"pc", "error"})
        /\ proc'[p].pc = "ended" /\ proc'[p].error = DispatchError
    BY <1>4, <1>7, RaiseFacts
  <2>. QED BY <1>5, <1>7, <2>1 DEF AllBut, Fields, At
<1>8. CASE DispatchError = None /\ line.cmd = "lint" /\ Continue(p, ConfigureServices(old), "lint")
  <2>1. /\ IsProcess(ConfigureServices(old)) /\ AllBut(ConfigureServices(old), old, {"kwargs"})
    BY <1>4, UpdateFacts DEF Services, ConfigureServices
  <2>2. /\ Shape' /\ Others(p) /\ AllBut(proc'[p], ConfigureServices(old), {"pc"})
        /\ proc'[p].pc = "lint"
    BY <1>8, <2>1, ContinueFacts
  <2>. QED BY <1>5, <1>8, <2>1, <2>2 DEF AllBut, Fields, At
<1>9. CASE DispatchError = None /\ line.cmd # "lint" /\ error # None /\ Raise(p, r, error)
  <2>1. /\ Shape' /\ Others(p) /\ AllBut(proc'[p], r, {"pc", "error"})
        /\ proc'[p].pc = "ended" /\ proc'[p].error = error
    BY <1>2, <1>9, RaiseFacts
  <2>. QED BY <1>3, <1>5, <1>9, <2>1 DEF AllBut, Fields, At, error
<1>10. CASE DispatchError = None /\ line.cmd # "lint" /\ error = None
              /\ Continue(p, ConfigureServices(s), "command")
  <2>1. IsProcess(s) /\ AllBut(s, r, {"conf"}) /\ s.conf = conf
    BY <1>2 DEF IsProcess, AllBut, Fields
  <2> HIDE DEF s
  <2>2. /\ IsProcess(ConfigureServices(s)) /\ AllBut(ConfigureServices(s), s, {"kwargs"})
        /\ ConfigureServices(s).kwargs.provider = Pro
    BY <2>1, UpdateFacts DEF Services, ConfigureServices
  <2>3. /\ Shape' /\ Others(p) /\ AllBut(proc'[p], ConfigureServices(s), {"pc"})
        /\ proc'[p].pc = "command"
    BY <1>10, <2>2, ContinueFacts
  <2>. QED BY <1>3, <1>5, <1>10, <2>1, <2>2, <2>3 DEF AllBut, Fields, At, error, conf
<1>. QED BY <1>6, <1>7, <1>8, <1>9, <1>10

\* Linting, with an error or a result.
LEMMA LintStep ==
  ASSUME Shape, Lint
  PROVE  LET r == proc["outer"]
             shown == RunLinters(Stage, LintContext(r), BuildIgnoreConfig(r.raw.ignores, line.rules))
         IN /\ r.pc = "lint" /\ UNCHANGED around /\ Shape' /\ Others("outer")
            /\ AllBut(proc'["outer"], r, {"pc", "error", "shown", "ret"})
            /\ proc'["outer"].pc = "ended"
            /\ \/ LintError(r) # None /\ proc'["outer"].error = LintError(r)
               \/ /\ LintError(r) = None /\ proc'["outer"].error = r.error
                  /\ proc'["outer"].shown = shown /\ proc'["outer"].ret = Summary(shown)
<1> DEFINE r == proc["outer"]
           shown == RunLinters(Stage, LintContext(r), BuildIgnoreConfig(r.raw.ignores, line.rules))
           s == [r EXCEPT !.shown = shown, !.ret = Summary(shown)]
<1>1. /\ r.pc = "lint" /\ UNCHANGED around /\ "outer" \in Processes
      /\ \/ LintError(r) # None /\ Raise("outer", r, LintError(r))
         \/ LintError(r) = None /\ Continue("outer", s, "ended")
  BY DEF Lint, At, around, Processes
<1>2. IsProcess(r)
  BY <1>1 DEF Shape
<1> HIDE DEF shown
<1>3. CASE LintError(r) # None /\ Raise("outer", r, LintError(r))
  <2>1. /\ Shape' /\ Others("outer") /\ AllBut(proc'["outer"], r, {"pc", "error"})
        /\ proc'["outer"].pc = "ended" /\ proc'["outer"].error = LintError(r)
    BY <1>1, <1>2, <1>3, RaiseFacts
  <2>. QED BY <1>1, <1>3, <2>1 DEF AllBut, Fields
<1>4. CASE LintError(r) = None /\ Continue("outer", s, "ended")
  <2>1. /\ IsProcess(s) /\ AllBut(s, r, {"shown", "ret"})
        /\ s.shown = shown /\ s.ret = Summary(shown)
    BY <1>2 DEF IsProcess, AllBut, Fields
  <2> HIDE DEF s
  <2>2. /\ Shape' /\ Others("outer") /\ AllBut(proc'["outer"], s, {"pc"})
        /\ proc'["outer"].pc = "ended"
    BY <1>1, <1>4, <2>1, ContinueFacts
  <2>. QED BY <1>1, <1>4, <2>1, <2>2 DEF AllBut, Fields, shown
<1>. QED BY <1>1, <1>3, <1>4

\* A plan of a process is made from the project and the filters it holds, or is yet to
\* be made.
PlanOf(p, r) == CreateBuildPlan(r.raw.platforms, r.names, r.fors, {Machine(p)})

\* The filters of a command in a process that has none yet.
NamesFilter(p) == IF line.cmd = "clean" THEN None ELSE Filter(AskedPlatform(p))
ForsFilter(p) == IF line.cmd = "clean" THEN None ELSE Filter(AskedFor(p))

\* A command that is refused, cleans instances, follows a plan in instances, or goes on
\* in its process.
LEMMA CommandStep ==
  ASSUME Shape, NEW p \in Processes, Command(p), proc[p].names = None, proc[p].fors = None
  PROVE  LET r == proc[p]
             s == proc'[p]
             managed == UseProvider(p) \/ (line.cmd = "test" /\ ~Managed(p))
         IN /\ r.pc = "command" /\ UNCHANGED <<project, host, line, instance, built, tested>>
            /\ Shape' /\ Others(p)
            /\ AllBut(s, r, {"pc", "error", "snaps", "made", "names", "fors", "plan"})
            /\ \/ /\ CommandError(p) # None /\ UNCHANGED queue
                  /\ s.pc = "ended" /\ s.error = CommandError(p)
                  /\ s.names = r.names /\ s.fors = r.fors /\ s.plan = r.plan
               \/ /\ CommandError(p) = None /\ UNCHANGED queue
                  /\ p = "outer" /\ UseProvider(p) /\ CleansInstances
                  /\ s.pc = "clean" /\ s.error = r.error
                  /\ s.names = r.names /\ s.fors = r.fors /\ s.plan = r.plan
               \/ /\ CommandError(p) = None /\ p = "outer" /\ managed
                  /\ ~(CleansInstances /\ UseProvider(p))
                  /\ s.names = NamesFilter(p) /\ s.fors = ForsFilter(p)
                  /\ \/ r.plan # <<>> /\ s.plan = r.plan /\ s.names = r.names /\ s.fors = r.fors
                     \/ s.plan = PlanOf(p, s)
                  /\ s.snaps = Snaps
                  /\ s.made.provider = IF r.made.provider = Unmade THEN r.kwargs.provider ELSE r.made.provider
                  /\ \/ /\ s.plan = <<>> /\ UNCHANGED queue
                        /\ s.pc = "ended" /\ s.error = "EmptyBuildPlanError"
                     \/ /\ s.plan # <<>> /\ queue' = s.plan
                        /\ s.pc = "launch" /\ s.error = r.error
               \/ /\ CommandError(p) = None /\ UNCHANGED queue /\ ~managed
                  /\ s.pc = "setup" /\ s.error = r.error
                  /\ s.names = NamesFilter(p) /\ s.fors = ForsFilter(p)
                  /\ \/ s.plan = <<>>
                     \/ s.plan = r.plan /\ s.names = r.names /\ s.fors = r.fors
<1> DEFINE r == proc[p]
           managed == UseProvider(p) \/ (line.cmd = "test" /\ ~Managed(p))
           f == Filtered(p, r)
           g == GetWithSnaps(f)
           t == Plan(p, g)
<1>1. IsProcess(r)
  BY DEF Shape
<1>2. /\ r.pc = "command" /\ UNCHANGED <<project, host, line, instance, built, tested>>
      /\ \/ CommandError(p) # None /\ Raise(p, r, CommandError(p)) /\ UNCHANGED queue
         \/ CommandError(p) = None /\ CleansInstances /\ UseProvider(p)
              /\ Continue(p, GetWithSnaps(r), "clean") /\ UNCHANGED queue
         \/ CommandError(p) = None /\ managed /\ ~(CleansInstances /\ UseProvider(p))
              /\ \/ t.plan = <<>> /\ Raise(p, t, "EmptyBuildPlanError") /\ UNCHANGED queue
                 \/ t.plan # <<>> /\ Continue(p, t, "launch") /\ queue' = t.plan
         \/ CommandError(p) = None /\ ~managed /\ Continue(p, f, "setup") /\ UNCHANGED queue
  BY DEF Command, At, RunManagerForBuildPlan
<1>3. managed => p = "outer"
  BY DEF UseProvider, Managed, Processes
<1>4. UseProvider(p) => p = "outer"
  BY DEF UseProvider, Managed, Processes
<1>5. /\ IsProcess(f) /\ AllBut(f, r, {"names", "fors", "plan"})
      /\ f.names = NamesFilter(p) /\ f.fors = ForsFilter(p)
      /\ f.plan = <<>> \/ (f.plan = r.plan /\ f.names = r.names /\ f.fors = r.fors)
  <2>1. /\ IsProcess(f) /\ AllBut(f, r, {"names", "fors", "plan"})
        /\ line.cmd = "clean" => f = r
        /\ line.cmd # "clean" =>
             /\ f.names = IF AskedPlatform(p) = None THEN r.names ELSE {AskedPlatform(p)}
             /\ f.fors = IF AskedFor(p) = None THEN r.fors ELSE {AskedFor(p)}
             /\ f.plan = IF AskedPlatform(p) = None /\ AskedFor(p) = None THEN r.plan ELSE <<>>
    BY <1>1, FilterStep
  <2> HIDE DEF f
  <2>. QED BY <2>1 DEF NamesFilter, ForsFilter, Filter
<1> HIDE DEF f
<1>6. CASE CommandError(p) # None /\ Raise(p, r, CommandError(p)) /\ UNCHANGED queue
  <2>1. /\ Shape' /\ Others(p) /\ AllBut(proc'[p], r, {"pc", "error"})
        /\ proc'[p].pc = "ended" /\ proc'[p].error = CommandError(p)
    BY <1>1, <1>6, RaiseFacts
  <2>. QED BY <1>2, <1>6, <2>1 DEF AllBut, Fields
<1>7. CASE CommandError(p) = None /\ CleansInstances /\ UseProvider(p)
             /\ Continue(p, GetWithSnaps(r), "clean") /\ UNCHANGED queue
  <2>1. /\ IsProcess(GetWithSnaps(r)) /\ AllBut(GetWithSnaps(r), r, {"made", "snaps"})
    BY <1>1, GetWithSnapsFacts
  <2>2. /\ Shape' /\ Others(p) /\ AllBut(proc'[p], GetWithSnaps(r), {"pc"})
        /\ proc'[p].pc = "clean"
    BY <1>7, <2>1, ContinueFacts
  <2>. QED BY <1>2, <1>4, <1>7, <2>1, <2>2 DEF AllBut, Fields
<1>8. CASE CommandError(p) = None /\ managed /\ ~(CleansInstances /\ UseProvider(p))
             /\ \/ t.plan = <<>> /\ Raise(p, t, "EmptyBuildPlanError") /\ UNCHANGED queue
                \/ t.plan # <<>> /\ Continue(p, t, "launch") /\ queue' = t.plan
  <2>1. /\ IsProcess(g) /\ AllBut(g, f, {"made", "snaps"}) /\ g.snaps = Snaps
        /\ g.made.provider = IF f.made.provider = Unmade THEN f.kwargs.provider ELSE f.made.provider
    BY <1>5, GetWithSnapsFacts
  <2> HIDE DEF g
  <2>2. /\ IsProcess(t) /\ AllBut(t, g, {"plan"})
        /\ t.plan = IF g.plan # <<>> THEN g.plan
                    ELSE CreateBuildPlan(g.raw.platforms, g.names, g.fors, {Machine(p)})
    BY <2>1, PlanStep
  <2> HIDE DEF t
  <2>3. /\ Shape' /\ Others(p) /\ AllBut(proc'[p], t, {"pc", "error"})
        /\ \/ /\ t.plan = <<>> /\ UNCHANGED queue
              /\ proc'[p].pc = "ended" /\ proc'[p].error = "EmptyBuildPlanError"
           \/ /\ t.plan # <<>> /\ queue' = t.plan
              /\ proc'[p].pc = "launch" /\ proc'[p].error = t.error
    <3>1. CASE t.plan = <<>> /\ Raise(p, t, "EmptyBuildPlanError") /\ UNCHANGED queue
      BY <2>2, <3>1, RaiseFacts
    <3>2. CASE t.plan # <<>> /\ Continue(p, t, "launch") /\ queue' = t.plan
      <4>1. /\ Shape' /\ Others(p) /\ AllBut(proc'[p], t, {"pc"}) /\ proc'[p].pc = "launch"
        BY <2>2, <3>2, ContinueFacts
      <4>. QED BY <3>2, <4>1 DEF AllBut, Fields
    <3>. QED BY <1>8, <3>1, <3>2
  <2> DEFINE s == proc'[p]
  <2>4. /\ AllBut(s, r, {"pc", "error", "snaps", "made", "names", "fors", "plan"})
        /\ s.names = f.names /\ s.fors = f.fors /\ s.plan = t.plan /\ s.raw = g.raw
        /\ g.names = f.names /\ g.fors = f.fors /\ g.plan = f.plan
        /\ s.snaps = Snaps /\ t.error = r.error
        /\ s.made.provider = IF r.made.provider = Unmade THEN r.kwargs.provider ELSE r.made.provider
    BY <1>5, <2>1, <2>2, <2>3 DEF AllBut, Fields
  <2>5. \/ r.plan # <<>> /\ s.plan = r.plan /\ s.names = r.names /\ s.fors = r.fors
        \/ s.plan = PlanOf(p, s)
    BY <1>5, <2>2, <2>4 DEF PlanOf
  <2> HIDE DEF s
  <2>. QED BY <1>2, <1>3, <1>5, <1>8, <2>3, <2>4, <2>5 DEF s
<1>9. CASE CommandError(p) = None /\ ~managed /\ Continue(p, f, "setup") /\ UNCHANGED queue
  <2>1. /\ Shape' /\ Others(p) /\ AllBut(proc'[p], f, {"pc"}) /\ proc'[p].pc = "setup"
    BY <1>5, <1>9, ContinueFacts
  <2>2. /\ AllBut(proc'[p], r, {"pc", "names", "fors", "plan"})
        /\ proc'[p].names = f.names /\ proc'[p].fors = f.fors /\ proc'[p].plan = f.plan
        /\ proc'[p].error = r.error
    BY <1>5, <2>1 DEF AllBut, Fields
  <2>. QED BY <1>2, <1>5, <1>9, <2>1, <2>2 DEF AllBut
<1>. QED BY <1>2, <1>6, <1>7, <1>8, <1>9

\* Cleaning the instances of a plan, or none of them.
LEMMA CleanStep ==
  ASSUME Shape, CleanInstances
  PROVE  LET r == proc["outer"]
             s == proc'["outer"]
             plan == CreateBuildPlan(r.raw.platforms, None, None, {Host})
         IN /\ r.pc = "clean" /\ UNCHANGED <<project, host, line, queue, built, tested>>
            /\ Shape' /\ Others("outer") /\ AllBut(s, r, {"pc", "error"}) /\ s.pc = "ended"
            /\ \/ s.error \in Failures /\ UNCHANGED instance
               \/ /\ s.error = r.error /\ ProviderNameError = None
                  /\ instance' = [slot \in Slots |->
                       IF slot[1] = GetProvider /\ \E i \in DOMAIN plan : plan[i].platform = slot[2]
                       THEN None ELSE instance[slot]]
<1> DEFINE r == proc["outer"]
           plan == CreateBuildPlan(r.raw.platforms, None, None, {Host})
           error == IF plan = <<>> \/ ProviderNameError # None THEN ProviderNameError ELSE RenderError(r)
           cleaned == [slot \in Slots |->
                         IF slot[1] = GetProvider /\ \E i \in DOMAIN plan : plan[i].platform = slot[2]
                         THEN None ELSE instance[slot]]
<1>1. /\ r.pc = "clean" /\ UNCHANGED <<project, host, line, queue, built, tested>>
      /\ \/ error # None /\ Raise("outer", r, error) /\ UNCHANGED instance
         \/ error = None /\ instance' = cleaned /\ Continue("outer", r, "ended")
  BY DEF CleanInstances, At
<1>2. IsProcess(r) /\ "outer" \in Processes
  BY DEF Shape, Processes
<1>3. error \in Failures \cup {None}
  BY FailureFacts
<1>4. error = None => ProviderNameError = None
  OBVIOUS
<1> HIDE DEF error, cleaned
<1>5. CASE error # None /\ Raise("outer", r, error) /\ UNCHANGED instance
  <2>1. /\ Shape' /\ Others("outer") /\ AllBut(proc'["outer"], r, {"pc", "error"})
        /\ proc'["outer"].pc = "ended" /\ proc'["outer"].error = error
    BY <1>2, <1>5, RaiseFacts
  <2>. QED BY <1>1, <1>3, <1>5, <2>1
<1>6. CASE error = None /\ instance' = cleaned /\ Continue("outer", r, "ended")
  <2>1. /\ Shape' /\ Others("outer") /\ AllBut(proc'["outer"], r, {"pc"})
        /\ proc'["outer"].pc = "ended"
    BY <1>2, <1>6, ContinueFacts
  <2>2. AllBut(proc'["outer"], r, {"pc", "error"}) /\ proc'["outer"].error = r.error
    BY <2>1 DEF AllBut, Fields
  <2>. QED BY <1>1, <1>4, <1>6, <2>1, <2>2 DEF cleaned
<1>. QED BY <1>1, <1>5, <1>6

\* An instance for the next build, in which the command runs again, or none.
LEMMA LaunchStep ==
  ASSUME Shape, Launch
  PROVE  LET r == proc["outer"]
             s == proc'["outer"]
             pro == Wanted(r.made.provider)
         IN /\ r.pc = "launch" /\ UNCHANGED <<project, host, line, queue, built, tested>>
            /\ Shape' /\ AllBut(s, r, {"pc", "error"})
            /\ \/ /\ s.pc = "ended" /\ s.error \in Failures /\ Others("outer")
                  /\ UNCHANGED instance \/ (ProviderNameError = None /\ SetInstance(Launched))
               \/ /\ s.pc = "waiting" /\ s.error = r.error /\ proc'["inner"] = Fresh
                  /\ ProviderNameError = None /\ ~Mismatch(pro) /\ Machine("inner") \in Archs
                  /\ SetInstance([Launched EXCEPT !.recorded = IF pro # {} THEN pro ELSE @,
                                                   !.enabled = @ \cup pro])
<1> DEFINE r == proc["outer"]
           pro == Wanted(r.made.provider)
           state == [Launched EXCEPT !.recorded = IF pro # {} THEN pro ELSE @,
                                     !.enabled = @ \cup pro]
<1>1. /\ r.pc = "launch" /\ UNCHANGED <<project, host, line, queue, built, tested>>
      /\ \/ RenderError(r) # None /\ Raise("outer", r, RenderError(r)) /\ UNCHANGED instance
         \/ ProviderNameError # None /\ Raise("outer", r, ProviderNameError) /\ UNCHANGED instance
         \/ ProviderNameError = None /\ ProError(pro) # None /\ Raise("outer", r, ProError(pro))
              /\ SetInstance(Launched)
         \/ /\ ProviderNameError = None /\ ProError(pro) = None
            /\ Machine("inner") \in Archs /\ SetInstance(state)
            /\ proc' = [proc EXCEPT !["outer"].pc = "waiting", !["inner"] = Fresh]
  BY DEF Launch, At
<1>2. IsProcess(r) /\ "outer" \in Processes /\ "inner" \in Processes /\ Processes = {"outer", "inner"}
  BY DEF Shape, Processes
<1>3. ASSUME NEW error \in Failures \cup {None}, error # None, Raise("outer", r, error)
      PROVE  /\ Shape' /\ Others("outer") /\ AllBut(proc'["outer"], r, {"pc", "error"})
             /\ proc'["outer"].pc = "ended" /\ proc'["outer"].error \in Failures
  BY <1>2, <1>3, RaiseFacts
<1>4. /\ RenderError(r) \in Failures \cup {None} /\ ProviderNameError \in Failures \cup {None}
      /\ ProError(pro) \in Failures \cup {None}
  BY FailureFacts
<1> HIDE DEF pro
<1>5. CASE RenderError(r) # None /\ Raise("outer", r, RenderError(r)) /\ UNCHANGED instance
  BY <1>1, <1>3, <1>4, <1>5
<1>6. CASE ProviderNameError # None /\ Raise("outer", r, ProviderNameError) /\ UNCHANGED instance
  BY <1>1, <1>3, <1>4, <1>6
<1>7. CASE ProviderNameError = None /\ ProError(pro) # None /\ Raise("outer", r, ProError(pro))
             /\ SetInstance(Launched)
  BY <1>1, <1>3, <1>4, <1>7
<1>8. CASE /\ ProviderNameError = None /\ ProError(pro) = None
           /\ Machine("inner") \in Archs /\ SetInstance(state)
           /\ proc' = [proc EXCEPT !["outer"].pc = "waiting", !["inner"] = Fresh]
  <2>1. proc'["outer"] = [r EXCEPT !.pc = "waiting"] /\ proc'["inner"] = Fresh
    BY <1>2, <1>8 DEF Shape
  <2>2. /\ IsProcess(proc'["outer"]) /\ AllBut(proc'["outer"], r, {"pc", "error"})
        /\ proc'["outer"].pc = "waiting" /\ proc'["outer"].error = r.error
    BY <1>2, <2>1 DEF IsProcess, AllBut, Fields
  <2>3. Shape'
    BY <1>2, <1>8, <2>1, <2>2, FreshFacts DEF Shape
  <2>4. ~Mismatch(pro)
    <3>1. None # "InvalidUbuntuProStatusError"
      BY NoneFacts DEF Errors
    <3>. QED BY <1>8, <3>1 DEF ProError
  <2>. QED BY <1>1, <1>8, <2>1, <2>2, <2>3, <2>4 DEF pro
<1>. QED BY <1>1, <1>5, <1>6, <1>7, <1>8

\* The provider fails.
LEMMA LaunchFailsStep ==
  ASSUME Shape, LaunchFails
  PROVE  LET r == proc["outer"]
             s == proc'["outer"]
         IN /\ r.pc = "launch" /\ UNCHANGED <<project, host, line, queue, built, tested>>
            /\ Shape' /\ Others("outer") /\ AllBut(s, r, {"pc", "error"})
            /\ s.pc = "ended" /\ s.error \in Failures /\ ProviderNameError = None
            /\ \/ UNCHANGED instance
               \/ \E some \in SUBSET Wanted(r.made.provider) :
                     SetInstance([Launched EXCEPT !.enabled = @ \cup some, !.left = @ \cup some])
<1>1. IsProcess(proc["outer"]) /\ "outer" \in Processes
  BY DEF Shape, Processes
<1>2. Raise("outer", proc["outer"], "ProviderError")
  BY DEF LaunchFails
<1>3. "ProviderError" \in Failures
  BY DEF Failures, Errors, Answers
<1>4. /\ Shape' /\ Others("outer") /\ AllBut(proc'["outer"], proc["outer"], {"pc", "error"})
      /\ proc'["outer"].pc = "ended" /\ proc'["outer"].error = "ProviderError"
  BY <1>1, <1>2, RaiseFacts
<1>5. /\ proc["outer"].pc = "launch" /\ UNCHANGED <<project, host, line, queue, built, tested>>
      /\ ProviderNameError = None
      /\ \/ UNCHANGED instance
         \/ \E some \in SUBSET Wanted(proc["outer"].made.provider) :
               SetInstance([Launched EXCEPT !.enabled = @ \cup some, !.left = @ \cup some])
  BY DEF LaunchFails, At
<1>. QED BY <1>3, <1>4, <1>5

\* What the process in the instance came to.
LEMMA CollectStep ==
  ASSUME Shape, Collect
  PROVE  LET r == proc["outer"]
             s == proc'["outer"]
         IN /\ r.pc = "waiting" /\ proc["inner"].pc = "ended"
            /\ UNCHANGED <<project, host, line, instance, built, tested>>
            /\ Shape' /\ Others("outer") /\ AllBut(s, r, {"pc", "error"})
            /\ \/ /\ ExitCode("inner") # 0 /\ UNCHANGED queue
                  /\ s.pc = "ended" /\ s.error \in Failures
               \/ /\ ExitCode("inner") = 0 /\ line.cmd = "test" /\ UNCHANGED queue
                  /\ s.pc = "test" /\ s.error = r.error
               \/ /\ ExitCode("inner") = 0 /\ line.cmd # "test" /\ queue' = Tail(queue)
                  /\ s.pc = (IF Tail(queue) = <<>> THEN "ended" ELSE "launch") /\ s.error = r.error
<1> DEFINE r == proc["outer"]
           next == IF Tail(queue) = <<>> THEN "ended" ELSE "launch"
<1>1. /\ r.pc = "waiting" /\ proc["inner"].pc = "ended"
      /\ UNCHANGED <<project, host, line, instance, built, tested>>
      /\ \/ ExitCode("inner") # 0 /\ Raise("outer", r, "ProviderError") /\ UNCHANGED queue
         \/ ExitCode("inner") = 0 /\ line.cmd = "test" /\ Continue("outer", r, "test") /\ UNCHANGED queue
         \/ ExitCode("inner") = 0 /\ line.cmd # "test" /\ queue' = Tail(queue)
              /\ Continue("outer", r, next)
  BY DEF Collect, At
<1>2. IsProcess(r) /\ "outer" \in Processes
  BY DEF Shape, Processes
<1>3. "ProviderError" \in Failures
  BY DEF Failures, Errors, Answers
<1>4. ASSUME NEW pc, Continue("outer", r, pc)
      PROVE  /\ Shape' /\ Others("outer") /\ AllBut(proc'["outer"], r, {"pc", "error"})
             /\ proc'["outer"].pc = pc /\ proc'["outer"].error = r.error
  <2>1. /\ Shape' /\ Others("outer") /\ AllBut(proc'["outer"], r, {"pc"}) /\ proc'["outer"].pc = pc
    BY <1>2, <1>4, ContinueFacts
  <2>. QED BY <2>1 DEF AllBut, Fields
<1> HIDE DEF next
<1>5. CASE ExitCode("inner") # 0 /\ Raise("outer", r, "ProviderError") /\ UNCHANGED queue
  <2>1. /\ Shape' /\ Others("outer") /\ AllBut(proc'["outer"], r, {"pc", "error"})
        /\ proc'["outer"].pc = "ended" /\ proc'["outer"].error = "ProviderError"
    BY <1>2, <1>5, RaiseFacts
  <2>. QED BY <1>1, <1>3, <1>5, <2>1
<1>6. CASE ExitCode("inner") = 0 /\ line.cmd = "test" /\ Continue("outer", r, "test") /\ UNCHANGED queue
  BY <1>1, <1>4, <1>6
<1>7. CASE ExitCode("inner") = 0 /\ line.cmd # "test" /\ queue' = Tail(queue) /\ Continue("outer", r, next)
  BY <1>1, <1>4, <1>7 DEF next
<1>. QED BY <1>1, <1>5, <1>6, <1>7

\* Testing what was built.
LEMMA TestStep ==
  ASSUME Shape, Test
  PROVE  LET r == proc["outer"]
             s == proc'["outer"]
             jobs == RunSpread(project.spread, line.expressions, line.ci)
         IN /\ r.pc = "test" /\ UNCHANGED <<project, host, line, instance, built>>
            /\ Shape' /\ Others("outer") /\ AllBut(s, r, {"pc", "error"})
            /\ \/ s.pc = "ended" /\ s.error \in Failures /\ UNCHANGED <<queue, tested>>
               \/ /\ s.pc = (IF Tail(queue) = <<>> THEN "ended" ELSE "launch") /\ s.error = r.error
                  /\ queue' = Tail(queue) /\ jobs # {}
                  /\ tested' = tested \cup {[platform |-> Head(queue).platform, jobs |-> jobs]}
<1> DEFINE r == proc["outer"]
           next == IF Tail(queue) = <<>> THEN "ended" ELSE "launch"
           jobs == RunSpread(project.spread, line.expressions, line.ci)
<1>1. /\ r.pc = "test" /\ UNCHANGED <<project, host, line, instance, built>>
      /\ \/ /\ jobs # {} /\ Continue("outer", r, next) /\ queue' = Tail(queue)
            /\ tested' = tested \cup {[platform |-> Head(queue).platform, jobs |-> jobs]}
         \/ Raise("outer", r, "CraftError") /\ UNCHANGED <<queue, tested>>
  BY DEF Test, At
<1>2. IsProcess(r) /\ "outer" \in Processes
  BY DEF Shape, Processes
<1>3. "CraftError" \in Failures
  BY DEF Failures, Errors, Answers
<1> HIDE DEF next, jobs
<1>4. CASE /\ jobs # {} /\ Continue("outer", r, next) /\ queue' = Tail(queue)
           /\ tested' = tested \cup {[platform |-> Head(queue).platform, jobs |-> jobs]}
  <2>1. /\ Shape' /\ Others("outer") /\ AllBut(proc'["outer"], r, {"pc"}) /\ proc'["outer"].pc = next
    BY <1>2, <1>4, ContinueFacts
  <2>2. AllBut(proc'["outer"], r, {"pc", "error"}) /\ proc'["outer"].error = r.error
    BY <2>1 DEF AllBut, Fields
  <2>. QED BY <1>1, <1>4, <2>1, <2>2 DEF next, jobs
<1>5. CASE Raise("outer", r, "CraftError") /\ UNCHANGED <<queue, tested>>
  <2>1. /\ Shape' /\ Others("outer") /\ AllBut(proc'["outer"], r, {"pc", "error"})
        /\ proc'["outer"].pc = "ended" /\ proc'["outer"].error = "CraftError"
    BY <1>2, <1>5, RaiseFacts
  <2>. QED BY <1>1, <1>3, <1>5, <2>1
<1>. QED BY <1>1, <1>4, <1>5

\* Setting up craft-parts for the first build of the plan.
LEMMA SetupStep ==
  ASSUME Shape, NEW p \in Processes, Setup(p)
  PROVE  LET r == proc[p]
             s == proc'[p]
         IN /\ r.pc = "setup" /\ UNCHANGED around /\ Shape' /\ Others(p)
            /\ AllBut(s, r, {"pc", "error", "plan", "group", "arch", "parts"})
            /\ s.plan = IF r.plan # <<>> THEN r.plan ELSE PlanOf(p, r)
            /\ \/ /\ s.pc = "ended" /\ s.arch = r.arch
                  /\ \/ s.error = "EmptyBuildPlanError" /\ s.plan = <<>>
                     \/ s.error = RenderError(r) /\ RenderError(r) # None
               \/ /\ RenderError(r) = None /\ s.error = r.error
                  /\ s.pc = IF line.cmd = "clean" THEN "execute" ELSE "run"
                  /\ s.arch = GetBuildFor(p, s) /\ s.parts = ProcessPart(r.raw.part, r.conf)
                  /\ s.plan # <<>> /\ Group(Head(s.plan)) # None => s.group = Group(Head(s.plan))
<1> DEFINE old == proc[p]
           r == Plan(p, old)
           build == IF r.plan # <<>> THEN Head(r.plan)
                    ELSE Head(CreateBuildPlan(r.raw.platforms, None, None, None))
           grouped == SetPluginGroup(r, build)
           s == [grouped EXCEPT !.arch = GetBuildFor(p, r), !.parts = ProcessPart(r.raw.part, r.conf)]
           next == IF line.cmd = "clean" THEN "execute" ELSE "run"
<1>1. /\ old.pc = "setup" /\ UNCHANGED around
      /\ \/ r.plan = <<>> /\ Raise(p, r, "EmptyBuildPlanError")
         \/ RenderError(r) # None /\ Raise(p, grouped, RenderError(r))
         \/ RenderError(r) = None /\ Continue(p, s, next)
  BY DEF Setup, At, around
<1>2. IsProcess(old)
  BY DEF Shape
<1>3. /\ IsProcess(r) /\ AllBut(r, old, {"plan"})
      /\ r.plan = IF old.plan # <<>> THEN old.plan ELSE PlanOf(p, old)
  BY <1>2, PlanStep DEF PlanOf
<1>4. RenderError(r) = RenderError(old)
  BY <1>3 DEF RenderError, AllBut, Fields
<1> HIDE DEF r
<1>5. /\ IsProcess(grouped) /\ AllBut(grouped, r, {"group"})
      /\ grouped.group = IF Group(build) = None THEN r.group ELSE Group(build)
  BY <1>3, GroupStep
<1> HIDE DEF grouped
<1>6. CASE r.plan = <<>> /\ Raise(p, r, "EmptyBuildPlanError")
  <2>1. /\ Shape' /\ Others(p) /\ AllBut(proc'[p], r, {"pc", "error"})
        /\ proc'[p].pc = "ended" /\ proc'[p].error = "EmptyBuildPlanError"
    BY <1>3, <1>6, RaiseFacts
  <2>. QED BY <1>1, <1>3, <1>6, <2>1 DEF AllBut, Fields
<1>7. CASE RenderError(r) # None /\ Raise(p, grouped, RenderError(r))
  <2>1. /\ Shape' /\ Others(p) /\ AllBut(proc'[p], grouped, {"pc", "error"})
        /\ proc'[p].pc = "ended" /\ proc'[p].error = RenderError(r)
    BY <1>5, <1>7, RaiseFacts
  <2>. QED BY <1>1, <1>3, <1>4, <1>5, <1>7, <2>1 DEF AllBut, Fields
<1>8. CASE RenderError(r) = None /\ Continue(p, s, next)
  <2>1. /\ IsProcess(s) /\ AllBut(s, grouped, {"arch", "parts"})
        /\ s.arch = GetBuildFor(p, r) /\ s.parts = ProcessPart(r.raw.part, r.conf)
    BY <1>5 DEF IsProcess, AllBut, Fields
  <2> HIDE DEF s
  <2>2. /\ Shape' /\ Others(p) /\ AllBut(proc'[p], s, {"pc"}) /\ proc'[p].pc = next
    BY <1>8, <2>1, ContinueFacts
  <2> DEFINE t == proc'[p]
  <2>3. /\ AllBut(t, old, {"pc", "error", "plan", "group", "arch", "parts"})
        /\ t.plan = r.plan /\ t.group = grouped.group /\ t.error = old.error
        /\ t.arch = GetBuildFor(p, r) /\ t.parts = ProcessPart(old.raw.part, old.conf)
    BY <1>3, <1>5, <2>1, <2>2 DEF AllBut, Fields
  <2> HIDE DEF t
  <2>4. t.arch = GetBuildFor(p, t)
    BY <2>3 DEF GetBuildFor
  <2>5. t.plan # <<>> /\ Group(Head(t.plan)) # None => t.group = Group(Head(t.plan))
    BY <1>5, <2>3
  <2>. QED BY <1>1, <1>3, <1>4, <1>8, <2>2, <2>3, <2>4, <2>5 DEF t
<1>. QED BY <1>1, <1>6, <1>7, <1>8

\* The checks before the lifecycle, which fix the build.
LEMMA RunStep ==
  ASSUME Shape, NEW p \in Processes, Run(p)
  PROVE  LET r == proc[p]
             s == proc'[p]
         IN /\ r.pc = "run" /\ UNCHANGED around /\ Shape' /\ Others(p)
            /\ AllBut(s, r, {"pc", "error", "plan", "build"})
            /\ s.plan = IF r.plan # <<>> THEN r.plan ELSE PlanOf(p, r)
            /\ \/ /\ s.pc = "ended" /\ s.build = r.build
                  /\ s.error = BuildInfoError(s) /\ BuildInfoError(s) # None
               \/ /\ s.pc = "ended" /\ s.build = r.build
                  /\ s.error = BaseError(p) /\ BaseError(p) # None
               \/ /\ BuildInfoError(s) = None /\ BaseError(p) = None
                  /\ s.pc = "execute" /\ s.build = Head(s.plan) /\ s.error = r.error
<1> DEFINE old == proc[p]
           r == Plan(p, old)
           s == [r EXCEPT !.build = Head(r.plan)]
<1>1. /\ old.pc = "run" /\ UNCHANGED around
      /\ \/ BuildInfoError(r) # None /\ Raise(p, r, BuildInfoError(r))
         \/ BaseError(p) # None /\ Raise(p, r, BaseError(p))
         \/ BuildInfoError(r) = None /\ BaseError(p) = None /\ Continue(p, s, "execute")
  BY DEF Run, At, around
<1>2. IsProcess(old)
  BY DEF Shape
<1>3. /\ IsProcess(r) /\ AllBut(r, old, {"plan"})
      /\ r.plan = IF old.plan # <<>> THEN old.plan ELSE PlanOf(p, old)
  BY <1>2, PlanStep DEF PlanOf
<1>4. \A t : t.plan = r.plan => BuildInfoError(t) = BuildInfoError(r)
  BY DEF BuildInfoError
<1> HIDE DEF r
<1>5. CASE BuildInfoError(r) # None /\ Raise(p, r, BuildInfoError(r))
  <2>1. /\ Shape' /\ Others(p) /\ AllBut(proc'[p], r, {"pc", "error"})
        /\ proc'[p].pc = "ended" /\ proc'[p].error = BuildInfoError(r)
    BY <1>3, <1>5, RaiseFacts
  <2>2. proc'[p].plan = r.plan /\ proc'[p].build = old.build
        /\ AllBut(proc'[p], old, {"pc", "error", "plan", "build"})
    BY <1>3, <2>1 DEF AllBut, Fields
  <2>. QED BY <1>1, <1>3, <1>4, <1>5, <2>1, <2>2
<1>6. CASE BaseError(p) # None /\ Raise(p, r, BaseError(p))
  <2>1. /\ Shape' /\ Others(p) /\ AllBut(proc'[p], r, {"pc", "error"})
        /\ proc'[p].pc = "ended" /\ proc'[p].error = BaseError(p)
    BY <1>3, <1>6, RaiseFacts
  <2>2. proc'[p].plan = r.plan /\ proc'[p].build = old.build
        /\ AllBut(proc'[p], old, {"pc", "error", "plan", "build"})
    BY <1>3, <2>1 DEF AllBut, Fields
  <2>. QED BY <1>1, <1>3, <1>6, <2>1, <2>2
<1>7. CASE BuildInfoError(r) = None /\ BaseError(p) = None /\ Continue(p, s, "execute")
  <2>1. IsProcess(s) /\ AllBut(s, r, {"build"}) /\ s.build = Head(r.plan)
    BY <1>3 DEF IsProcess, AllBut, Fields
  <2> HIDE DEF s
  <2>2. /\ Shape' /\ Others(p) /\ AllBut(proc'[p], s, {"pc"}) /\ proc'[p].pc = "execute"
    BY <1>7, <2>1, ContinueFacts
  <2>3. /\ proc'[p].plan = r.plan /\ proc'[p].build = Head(r.plan) /\ proc'[p].error = old.error
        /\ AllBut(proc'[p], old, {"pc", "error", "plan", "build"})
    BY <1>3, <2>1, <2>2 DEF AllBut, Fields
  <2>. QED BY <1>1, <1>3, <1>4, <1>7, <2>2, <2>3
<1>. QED BY <1>1, <1>5, <1>6, <1>7

\* The lifecycle succeeds or fails.
LEMMA ExecuteStep ==
  ASSUME Shape, NEW p \in Processes, Execute(p)
  PROVE  LET r == proc[p]
             s == proc'[p]
         IN /\ r.pc = "execute" /\ UNCHANGED <<project, host, line, instance, queue, tested>>
            /\ Shape' /\ Others(p) /\ AllBut(s, r, {"pc", "error"}) /\ s.pc = "ended"
            /\ \/ s.error = "PartsError" /\ s.error \in Failures /\ UNCHANGED built
               \/ /\ s.error = r.error
                  /\ built' = IF line.cmd = "clean" THEN built ELSE built \cup {r.build.platform}
<1> DEFINE r == proc[p]
<1>1. /\ r.pc = "execute" /\ UNCHANGED <<project, host, line, instance, queue, tested>>
      /\ \/ Raise(p, r, "PartsError") /\ UNCHANGED built
         \/ /\ Continue(p, r, "ended")
            /\ built' = IF line.cmd = "clean" THEN built ELSE built \cup {r.build.platform}
  BY DEF Execute, At
<1>2. IsProcess(r) /\ "PartsError" \in Failures
  BY DEF Shape, Failures, Errors, Answers
<1>3. CASE Raise(p, r, "PartsError") /\ UNCHANGED built
  <2>1. /\ Shape' /\ Others(p) /\ AllBut(proc'[p], r, {"pc", "error"})
        /\ proc'[p].pc = "ended" /\ proc'[p].error = "PartsError"
    BY <1>2, <1>3, RaiseFacts
  <2>. QED BY <1>1, <1>2, <1>3, <2>1
<1>4. CASE /\ Continue(p, r, "ended")
           /\ built' = IF line.cmd = "clean" THEN built ELSE built \cup {r.build.platform}
  <2>1. /\ Shape' /\ Others(p) /\ AllBut(proc'[p], r, {"pc"}) /\ proc'[p].pc = "ended"
    BY <1>2, <1>4, ContinueFacts
  <2>2. AllBut(proc'[p], r, {"pc", "error"}) /\ proc'[p].error = r.error
    BY <2>1 DEF AllBut, Fields
  <2>. QED BY <1>1, <1>4, <2>1, <2>2
<1>. QED BY <1>1, <1>3, <1>4

\* ^C ends the processes that are alive.
LEMMA InterruptStep ==
  ASSUME Shape, Interrupt
  PROVE  /\ proc["outer"].pc \notin {"absent", "ended"} /\ UNCHANGED around /\ Shape'
         /\ \A p \in Processes :
              /\ proc[p].pc \in {"absent", "ended"} => proc'[p] = proc[p]
              /\ proc[p].pc \notin {"absent", "ended"} =>
                   /\ AllBut(proc'[p], proc[p], {"pc", "error"})
                   /\ proc'[p].pc = "ended" /\ proc'[p].error = "KeyboardInterrupt"
<1> DEFINE next(p) == IF proc[p].pc \in {"absent", "ended"} THEN proc[p]
                      ELSE [proc[p] EXCEPT !.pc = "ended", !.error = "KeyboardInterrupt"]
<1>1. /\ proc["outer"].pc \notin {"absent", "ended"} /\ UNCHANGED around
      /\ proc' = [p \in Processes |-> next(p)]
  BY DEF Interrupt, around
<1>2. ASSUME NEW p \in Processes
      PROVE  /\ proc'[p] = next(p) /\ IsProcess(next(p))
             /\ proc[p].pc \in {"absent", "ended"} => next(p) = proc[p]
             /\ proc[p].pc \notin {"absent", "ended"} =>
                  /\ AllBut(next(p), proc[p], {"pc", "error"})
                  /\ next(p).pc = "ended" /\ next(p).error = "KeyboardInterrupt"
  <2>1. IsProcess(proc[p])
    BY DEF Shape
  <2>2. proc'[p] = next(p)
    BY <1>1
  <2>3. CASE proc[p].pc \in {"absent", "ended"}
    BY <2>1, <2>2, <2>3
  <2>4. CASE proc[p].pc \notin {"absent", "ended"}
    BY <2>1, <2>2, <2>4 DEF IsProcess, AllBut, Fields
  <2>. QED BY <2>3, <2>4
<1> HIDE DEF next
<1>3. Shape'
  BY <1>1, <1>2 DEF Shape
<1>. QED BY <1>1, <1>2, <1>3

\* The start of a command.
LEMMA StartStep ==
  ASSUME Shape, Start
  PROVE  /\ line = None /\ line' \in Lines(project) /\ proc'["outer"] = Fresh /\ Others("outer")
         /\ UNCHANGED <<project, host, instance, queue, built, tested>> /\ Shape'
BY FreshFacts DEF Start, Shape, Others, Processes

\* The end of a command.
LEMMA ExitStep ==
  ASSUME Shape, Exit
  PROVE  /\ proc["outer"].pc = "ended" /\ line' = None /\ \A p \in Processes : proc'[p] = Absent
         /\ queue' = <<>> /\ built' = {} /\ tested' = {} /\ UNCHANGED <<project, host, instance>>
         /\ Shape'
BY FreshFacts DEF Exit, Shape, At
-----------------------------------------------------------------------------
(* The course of a command. *)

\* When a process knows the project, when the project is configured, when no filter is
\* set yet, when a plan is followed.
Reading == {"configure", "command", "lint", "clean", "launch", "waiting", "test", "setup", "run", "execute"}
Rendered == Reading \ {"configure", "lint"}
Unfiltered == {"configure", "command", "lint", "clean"}
Following == {"launch", "waiting", "test"}
InnerPCs == {"absent", "boot", "configure", "command", "setup", "run", "execute", "ended"}
Alive(p) == proc[p].pc \notin {"absent", "ended"}

\* What a process read is the file as it is, or as it was before the edit.
Read(p) ==
  /\ proc[p].raw \in Projects
  /\ proc[p].raw = project \/ <<proc[p].raw, project>> \in Edits

CourseOf(p) ==
  /\ proc[p].pc = "boot" => proc[p] = Fresh
  /\ proc[p].pc \in Reading => Read(p) /\ proc[p].error = None
  /\ proc[p].pc \in Rendered => line.cmd # "lint"
  /\ proc[p].pc \in Unfiltered => proc[p].names = None /\ proc[p].fors = None
  /\ proc[p].pc = "ended" => Read(p) \/ proc[p].error = "KeyboardInterrupt"
Course ==
  /\ Shape /\ project \in Projects
  /\ proc["outer"].pc \in PCs /\ proc["inner"].pc \in InnerPCs
  /\ line = None => /\ \A p \in Processes : proc[p] = Absent
                    /\ queue = <<>> /\ built = {} /\ tested = {}
  /\ line # None => ~At("outer", "absent") /\ \E j \in Projects : line \in Lines(j)
  /\ Alive("inner") => At("outer", "waiting")
  /\ proc["outer"].pc \in Following => queue # <<>>
  /\ Alive("outer") /\ proc["outer"].pc \notin Following =>
       At("inner", "absent") /\ queue = <<>> /\ built = {} /\ tested = {}
  /\ \A p \in Processes : CourseOf(p)

\* In an instance a command runs where its project is.
LEMMA ProjectFileFacts ==
  ASSUME NEW p
  PROVE  ProjectFile(p) = project
<1> DEFINE git == project.git
           use == UseGitBuildRoot
<1>1. WorkDir(git) = BuildRoot(git, use) \o ManagedCwd(git, use)
  <2>1. CASE ~use \/ FindGitRoot(git) = None
    <3>1. WorkDir(git) \o <<>> = WorkDir(git)
      BY DEF WorkDir
    <3>. QED BY <2>1, <3>1 DEF BuildRoot, ManagedCwd
  <2>2. CASE use /\ FindGitRoot(git) # None /\ git = "below"
    <3>1. FindGitRoot(git) = <<>> /\ WorkDir(git) = <<"sub">>
      BY <2>2 DEF FindGitRoot, WorkDir
    <3>2. /\ Len(<<>>) + 1 = 1 /\ Len(<<"sub">>) = 1 /\ <<"sub">> \in Seq({"sub"})
          /\ <<>> # <<"sub">> /\ <<>> \o <<"sub">> = <<"sub">>
      OBVIOUS
    <3>3. SubSeq(<<"sub">>, 1, 1) = <<"sub">>
      BY <3>2, SubSeqFull
    <3>4. ManagedCwd(git, use) = <<"sub">>
      BY <2>2, <3>1, <3>2, <3>3 DEF ManagedCwd
    <3>. QED BY <2>2, <3>1, <3>2, <3>4 DEF BuildRoot
  <2>3. CASE use /\ FindGitRoot(git) # None /\ git # "below"
    <3>1. FindGitRoot(git) = <<>> /\ WorkDir(git) = <<>>
      BY <2>3 DEF FindGitRoot, WorkDir
    <3>2. ManagedCwd(git, use) = <<>> /\ BuildRoot(git, use) = <<>>
      BY <2>3, <3>1 DEF ManagedCwd, BuildRoot
    <3>. QED BY <3>1, <3>2
  <2>. QED BY <2>1, <2>2, <2>3
<1>. QED BY <1>1 DEF ProjectFile

\* A step that goes on in a process that knows the project, or ends it.
LEMMA CourseOfStep ==
  ASSUME Course, NEW p \in Processes, Others(p), project' = project, line' = line,
         proc[p].pc \in Reading, proc'[p].raw = proc[p].raw,
         \/ proc'[p].pc = "ended"
         \/ /\ proc'[p].pc \in Reading /\ proc'[p].error = proc[p].error
            /\ proc[p].pc \in Rendered \/ proc'[p].pc \notin Rendered \/ line.cmd # "lint"
            /\ proc'[p].pc \in Unfiltered =>
                 proc[p].pc \in Unfiltered /\ proc'[p].names = proc[p].names /\ proc'[p].fors = proc[p].fors
  PROVE  \A q \in Processes : CourseOf(q)'
<1>1. \A q \in Processes : CourseOf(q)
  BY DEF Course
<1>2. ASSUME NEW q \in Processes, q # p PROVE CourseOf(q)'
  BY <1>1, <1>2 DEF CourseOf, Read, Others
<1>3. CourseOf(p)'
  BY <1>1 DEF CourseOf, Read, Reading, Rendered, Unfiltered
<1>. QED BY <1>2, <1>3

\* Processes go through their steps in order: the one in an instance is alive only while
\* the one outside waits for it, and each knows what it has come to.
THEOREM CourseInvariant == Spec => []Course
<1>1. Init => Course
  <2>1. SUFFICES ASSUME Init PROVE Course
    OBVIOUS
  <2>2. Shape
    BY <2>1, FreshFacts DEF Init, Shape
  <2>3. \A p \in Processes : proc[p] = Absent
    BY <2>1 DEF Init
  <2>4. Absent.pc = "absent" /\ "outer" \in Processes /\ "inner" \in Processes
    BY FreshFacts DEF Processes
  <2>. QED
    BY <2>1, <2>2, <2>3, <2>4
    DEF Init, Course, CourseOf, At, Alive, PCs, InnerPCs, Reading, Rendered, Unfiltered, Following
<1>2. Course /\ [Next]_vars => Course'
  <2>1. SUFFICES ASSUME Course, [Next]_vars PROVE Course'
    OBVIOUS
  <2>2. /\ Shape /\ project \in Projects /\ "outer" \in Processes /\ "inner" \in Processes
        /\ \A p \in Processes : p \in {"outer", "inner"} /\ CourseOf(p)
    BY <2>1 DEF Course, Processes
  <2>3. ASSUME NEW p \in Processes, Boot(p) PROVE Course'
    <3>1. proc[p].pc = "boot" /\ proc[p] = Fresh
      BY <2>2, <2>3 DEF Boot, At, CourseOf
    <3>2. /\ UNCHANGED around /\ Shape' /\ Others(p)
          /\ proc'[p].pc = "configure" /\ proc'[p].raw = ProjectFile(p)
          /\ AllBut(proc'[p], Fresh, {"pc", "raw", "made", "plan", "group"})
      BY <2>2, <2>3, <3>1, BootStep
    <3>3. /\ proc'[p].raw = project /\ proc'[p].error = None
          /\ proc'[p].names = None /\ proc'[p].fors = None
      BY <3>2, ProjectFileFacts, FreshFacts DEF AllBut, Fields
    <3>4. CourseOf(p)'
      BY <2>2, <3>2, <3>3 DEF CourseOf, Read, Reading, Rendered, Unfiltered, around
    <3>5. ASSUME NEW q \in Processes, q # p PROVE CourseOf(q)'
      BY <2>2, <3>2, <3>5 DEF CourseOf, Read, Others, around
    <3>. QED
      BY <2>1, <2>2, <3>1, <3>2, <3>3, <3>4, <3>5
      DEF Course, At, Alive, PCs, InnerPCs, Following, Others, around
  <2>4. ASSUME NEW p \in Processes, Configure(p) PROVE Course'
    <3>1. /\ proc[p].pc = "configure" /\ UNCHANGED around /\ Shape' /\ Others(p)
          /\ AllBut(proc'[p], proc[p], {"pc", "error", "kwargs", "made", "conf"})
          /\ \/ proc'[p].pc = "ended"
             \/ proc'[p].pc = "lint" /\ line.cmd = "lint" /\ proc'[p].error = proc[p].error
             \/ proc'[p].pc = "command" /\ line.cmd # "lint" /\ proc'[p].error = proc[p].error
      BY <2>2, <2>4, ConfigureStep
    <3>2. p = "inner" => At("outer", "waiting") /\ line.cmd # "lint"
      BY <2>1, <2>2, <3>1 DEF Course, CourseOf, Alive, At, Rendered, Reading
    <3>3. /\ proc'[p].raw = proc[p].raw
          /\ proc'[p].names = proc[p].names /\ proc'[p].fors = proc[p].fors
      BY <3>1 DEF AllBut, Fields
    <3>4. \A q \in Processes : CourseOf(q)'
      BY <2>1, <3>1, <3>3, CourseOfStep DEF Reading, Rendered, Unfiltered, around
    <3>. QED
      BY <2>1, <2>2, <3>1, <3>2, <3>4
      DEF Course, At, Alive, PCs, InnerPCs, Following, Others, around
  <2>5. ASSUME NEW p \in Processes, Command(p) PROVE Course'
    <3>1. proc[p].pc = "command" /\ proc[p].names = None /\ proc[p].fors = None
      BY <2>2, <2>5 DEF Command, At, CourseOf, Unfiltered
    <3>2. /\ UNCHANGED <<project, host, line, instance, built, tested>> /\ Shape' /\ Others(p)
          /\ AllBut(proc'[p], proc[p], {"pc", "error", "snaps", "made", "names", "fors", "plan"})
          /\ \/ proc'[p].pc = "ended" /\ UNCHANGED queue
             \/ /\ proc'[p].pc = "clean" /\ p = "outer" /\ proc'[p].error = proc[p].error
                /\ proc'[p].names = proc[p].names /\ proc'[p].fors = proc[p].fors /\ UNCHANGED queue
             \/ /\ proc'[p].pc = "launch" /\ p = "outer" /\ proc'[p].error = proc[p].error
                /\ queue' # <<>>
             \/ proc'[p].pc = "setup" /\ proc'[p].error = proc[p].error /\ UNCHANGED queue
      BY <2>2, <2>5, <3>1, CommandStep
    <3>3. proc'[p].raw = proc[p].raw
      BY <3>2 DEF AllBut, Fields
    <3>4. \A q \in Processes : CourseOf(q)'
      BY <2>1, <3>1, <3>2, <3>3, CourseOfStep DEF Reading, Rendered, Unfiltered
    <3>. QED
      BY <2>1, <2>2, <3>1, <3>2, <3>4
      DEF Course, At, Alive, PCs, InnerPCs, Following, Others
  <2>6. ASSUME NEW p \in Processes, Setup(p) PROVE Course'
    <3>1. /\ proc[p].pc = "setup" /\ UNCHANGED around /\ Shape' /\ Others(p)
          /\ AllBut(proc'[p], proc[p], {"pc", "error", "plan", "group", "arch", "parts"})
          /\ \/ proc'[p].pc = "ended"
             \/ proc'[p].pc \in {"execute", "run"} /\ proc'[p].error = proc[p].error
      BY <2>2, <2>6, SetupStep
    <3>2. proc'[p].raw = proc[p].raw
      BY <3>1 DEF AllBut, Fields
    <3>3. \A q \in Processes : CourseOf(q)'
      BY <2>1, <3>1, <3>2, CourseOfStep DEF Reading, Rendered, Unfiltered, around
    <3>. QED
      BY <2>1, <2>2, <3>1, <3>3
      DEF Course, At, Alive, PCs, InnerPCs, Following, Others, around
  <2>7. ASSUME NEW p \in Processes, Run(p) PROVE Course'
    <3>1. /\ proc[p].pc = "run" /\ UNCHANGED around /\ Shape' /\ Others(p)
          /\ AllBut(proc'[p], proc[p], {"pc", "error", "plan", "build"})
          /\ \/ proc'[p].pc = "ended"
             \/ proc'[p].pc = "execute" /\ proc'[p].error = proc[p].error
      BY <2>2, <2>7, RunStep
    <3>2. proc'[p].raw = proc[p].raw
      BY <3>1 DEF AllBut, Fields
    <3>3. \A q \in Processes : CourseOf(q)'
      BY <2>1, <3>1, <3>2, CourseOfStep DEF Reading, Rendered, Unfiltered, around
    <3>. QED
      BY <2>1, <2>2, <3>1, <3>3
      DEF Course, At, Alive, PCs, InnerPCs, Following, Others, around
  <2>8. ASSUME NEW p \in Processes, Execute(p) PROVE Course'
    <3>1. /\ proc[p].pc = "execute" /\ UNCHANGED <<project, host, line, instance, queue, tested>>
          /\ Shape' /\ Others(p) /\ AllBut(proc'[p], proc[p], {"pc", "error"}) /\ proc'[p].pc = "ended"
      BY <2>2, <2>8, ExecuteStep
    <3>2. proc'[p].raw = proc[p].raw
      BY <3>1 DEF AllBut, Fields
    <3>3. \A q \in Processes : CourseOf(q)'
      BY <2>1, <3>1, <3>2, CourseOfStep DEF Reading, Rendered, Unfiltered
    <3>. QED
      BY <2>1, <2>2, <3>1, <3>3
      DEF Course, At, Alive, PCs, InnerPCs, Following, Others
  <2>9. CASE Lint
    <3>1. /\ proc["outer"].pc = "lint" /\ UNCHANGED around /\ Shape' /\ Others("outer")
          /\ AllBut(proc'["outer"], proc["outer"], {"pc", "error", "shown", "ret"})
          /\ proc'["outer"].pc = "ended"
      BY <2>2, <2>9, LintStep
    <3>2. proc'["outer"].raw = proc["outer"].raw
      BY <3>1 DEF AllBut, Fields
    <3>3. \A q \in Processes : CourseOf(q)'
      BY <2>1, <2>2, <3>1, <3>2, CourseOfStep DEF Reading, Rendered, Unfiltered, around
    <3>. QED
      BY <2>1, <2>2, <3>1, <3>3
      DEF Course, At, Alive, PCs, InnerPCs, Following, Others, around
  <2>10. CASE CleanInstances
    <3>1. /\ proc["outer"].pc = "clean" /\ UNCHANGED <<project, host, line, queue, built, tested>>
          /\ Shape' /\ Others("outer") /\ AllBut(proc'["outer"], proc["outer"], {"pc", "error"})
          /\ proc'["outer"].pc = "ended"
      BY <2>2, <2>10, CleanStep
    <3>2. proc'["outer"].raw = proc["outer"].raw
      BY <3>1 DEF AllBut, Fields
    <3>3. \A q \in Processes : CourseOf(q)'
      BY <2>1, <2>2, <3>1, <3>2, CourseOfStep DEF Reading, Rendered, Unfiltered
    <3>. QED
      BY <2>1, <2>2, <3>1, <3>3
      DEF Course, At, Alive, PCs, InnerPCs, Following, Others
  <2>11. CASE Launch
    <3>1. /\ proc["outer"].pc = "launch" /\ UNCHANGED <<project, host, line, queue, built, tested>>
          /\ Shape' /\ AllBut(proc'["outer"], proc["outer"], {"pc", "error"})
          /\ \/ proc'["outer"].pc = "ended" /\ Others("outer")
             \/ /\ proc'["outer"].pc = "waiting" /\ proc'["outer"].error = proc["outer"].error
                /\ proc'["inner"] = Fresh
      BY <2>2, <2>11, LaunchStep
    <3>2. proc'["outer"].raw = proc["outer"].raw
      BY <3>1 DEF AllBut, Fields
    <3>3. CASE proc'["outer"].pc = "ended" /\ Others("outer")
      <4>1. \A q \in Processes : CourseOf(q)'
        BY <2>1, <2>2, <3>1, <3>2, <3>3, CourseOfStep DEF Reading, Rendered, Unfiltered
      <4>. QED
        BY <2>1, <2>2, <3>1, <3>3, <4>1
        DEF Course, At, Alive, PCs, InnerPCs, Following, Others
    <3>4. CASE /\ proc'["outer"].pc = "waiting" /\ proc'["outer"].error = proc["outer"].error
               /\ proc'["inner"] = Fresh
      <4>1. CourseOf("outer")'
        BY <2>2, <3>1, <3>2, <3>4 DEF CourseOf, Read, Reading, Rendered, Unfiltered
      <4>2. CourseOf("inner")'
        BY <3>4, FreshFacts DEF CourseOf, Reading, Rendered, Unfiltered
      <4>. QED
        BY <2>1, <2>2, <3>1, <3>4, <4>1, <4>2, FreshFacts
        DEF Course, At, Alive, PCs, InnerPCs, Following
    <3>. QED BY <3>1, <3>3, <3>4
  <2>12. CASE LaunchFails
    <3>1. /\ proc["outer"].pc = "launch" /\ UNCHANGED <<project, host, line, queue, built, tested>>
          /\ Shape' /\ Others("outer") /\ AllBut(proc'["outer"], proc["outer"], {"pc", "error"})
          /\ proc'["outer"].pc = "ended"
      BY <2>2, <2>12, LaunchFailsStep
    <3>2. proc'["outer"].raw = proc["outer"].raw
      BY <3>1 DEF AllBut, Fields
    <3>3. \A q \in Processes : CourseOf(q)'
      BY <2>1, <2>2, <3>1, <3>2, CourseOfStep DEF Reading, Rendered, Unfiltered
    <3>. QED
      BY <2>1, <2>2, <3>1, <3>3
      DEF Course, At, Alive, PCs, InnerPCs, Following, Others
  <2>13. CASE Collect
    <3>1. /\ proc["outer"].pc = "waiting" /\ proc["inner"].pc = "ended"
          /\ UNCHANGED <<project, host, line, instance, built, tested>>
          /\ Shape' /\ Others("outer") /\ AllBut(proc'["outer"], proc["outer"], {"pc", "error"})
          /\ \/ proc'["outer"].pc = "ended"
             \/ proc'["outer"].pc = "test" /\ proc'["outer"].error = proc["outer"].error /\ UNCHANGED queue
             \/ /\ proc'["outer"].pc = "launch" /\ proc'["outer"].error = proc["outer"].error
                /\ queue' # <<>>
      BY <2>2, <2>13, CollectStep
    <3>2. proc'["outer"].raw = proc["outer"].raw
      BY <3>1 DEF AllBut, Fields
    <3>3. \A q \in Processes : CourseOf(q)'
      BY <2>1, <2>2, <3>1, <3>2, CourseOfStep DEF Reading, Rendered, Unfiltered
    <3>. QED
      BY <2>1, <2>2, <3>1, <3>3
      DEF Course, At, Alive, PCs, InnerPCs, Following, Others
  <2>14. CASE Test
    <3>1. /\ proc["outer"].pc = "test" /\ UNCHANGED <<project, host, line, instance, built>>
          /\ Shape' /\ Others("outer") /\ AllBut(proc'["outer"], proc["outer"], {"pc", "error"})
          /\ \/ proc'["outer"].pc = "ended"
             \/ /\ proc'["outer"].pc = "launch" /\ proc'["outer"].error = proc["outer"].error
                /\ queue' # <<>>
      BY <2>2, <2>14, TestStep
    <3>2. proc'["outer"].raw = proc["outer"].raw
      BY <3>1 DEF AllBut, Fields
    <3>3. \A q \in Processes : CourseOf(q)'
      BY <2>1, <2>2, <3>1, <3>2, CourseOfStep DEF Reading, Rendered, Unfiltered
    <3>. QED
      BY <2>1, <2>2, <3>1, <3>3
      DEF Course, At, Alive, PCs, InnerPCs, Following, Others
  <2>15. CASE Interrupt
    <3>1. /\ proc["outer"].pc \notin {"absent", "ended"} /\ UNCHANGED around /\ Shape'
          /\ \A p \in Processes :
               \/ proc[p].pc \in {"absent", "ended"} /\ proc'[p] = proc[p]
               \/ /\ proc[p].pc \notin {"absent", "ended"}
                  /\ proc'[p].pc = "ended" /\ proc'[p].error = "KeyboardInterrupt"
      BY <2>2, <2>15, InterruptStep
    <3>2. ASSUME NEW p \in Processes PROVE CourseOf(p)'
      BY <2>2, <3>1 DEF CourseOf, Read, Reading, Rendered, Unfiltered, around
    <3>. QED
      BY <2>1, <2>2, <3>1, <3>2
      DEF Course, At, Alive, PCs, InnerPCs, Following, around
  <2>16. CASE Start
    <3>1. /\ line = None /\ line' \in Lines(project) /\ proc'["outer"] = Fresh /\ Others("outer")
          /\ UNCHANGED <<project, host, instance, queue, built, tested>> /\ Shape'
      BY <2>2, <2>16, StartStep
    <3>2. /\ proc["inner"] = Absent /\ proc'["inner"] = Absent /\ line' # None
          /\ queue = <<>> /\ built = {} /\ tested = {}
      BY <2>1, <2>2, <3>1, LineFacts DEF Course, Others
    <3>3. \A p \in Processes : CourseOf(p)'
      BY <2>2, <3>1, <3>2, FreshFacts DEF CourseOf, Reading, Rendered, Unfiltered
    <3>. QED
      BY <2>2, <3>1, <3>2, <3>3, FreshFacts DEF Course, At, Alive, PCs, InnerPCs, Following
  <2>17. CASE Exit
    <3>1. /\ line' = None /\ \A p \in Processes : proc'[p] = Absent
          /\ queue' = <<>> /\ built' = {} /\ tested' = {} /\ project' = project /\ Shape'
      BY <2>2, <2>17, ExitStep
    <3>2. \A p \in Processes : CourseOf(p)'
      BY <3>1, FreshFacts DEF CourseOf, Reading, Rendered, Unfiltered
    <3>. QED
      BY <2>2, <3>1, <3>2, FreshFacts DEF Course, At, Alive, PCs, InnerPCs, Following
  <2>18. CASE Edit
    <3>1. PICK e \in Edits : project = e[1] /\ project' = e[2]
      BY <2>18 DEF Edit
    <3>2. UNCHANGED <<host, line, instance, proc, queue, built, tested>>
      BY <2>18 DEF Edit
    <3>3. project' \in Projects /\ <<project, project'>> \in Edits
      BY <3>1, EditFacts
    <3>4. ASSUME NEW p \in Processes, Read(p) PROVE Read(p)'
      <4>1. proc[p].raw = project
        BY <3>1, <3>4, EditFacts DEF Read
      <4>. QED BY <3>2, <3>3, <3>4, <4>1 DEF Read
    <3>5. ASSUME NEW p \in Processes PROVE CourseOf(p)'
      BY <2>2, <3>2, <3>4 DEF CourseOf
    <3>. QED BY <2>1, <3>2, <3>3, <3>5 DEF Course, At, Alive, Shape
  <2>19. CASE UNCHANGED vars
    BY <2>1, <2>19 DEF Course, CourseOf, Read, Shape, At, Alive, vars
  <2>. QED
    BY <2>1, <2>3, <2>4, <2>5, <2>6, <2>7, <2>8, <2>9, <2>10, <2>11, <2>12, <2>13, <2>14, <2>15,
       <2>16, <2>17, <2>18, <2>19 DEF Next
<1>. QED BY <1>1, <1>2, PTL DEF Spec

\* What depends on the command line only.
LEMMA StableFacts ==
  ASSUME line' = line
  PROVE  /\ DispatchError' = DispatchError /\ CleansInstances' = CleansInstances /\ Pro' = Pro
         /\ GetProvider' = GetProvider /\ ProviderNameError' = ProviderNameError /\ Stage' = Stage
         /\ \A p : UseProvider(p)' = UseProvider(p) /\ Machine(p)' = Machine(p)
         /\ NamesFilter("outer")' = NamesFilter("outer") /\ ForsFilter("outer")' = ForsFilter("outer")
         /\ Platform("outer")' = Platform("outer") /\ BuildFor("outer")' = BuildFor("outer")
<1>1. /\ DispatchError' = DispatchError /\ CleansInstances' = CleansInstances /\ Pro' = Pro
  BY DEF DispatchError, CleansInstances, Pro
<1>2. GetProvider' = GetProvider /\ ProviderNameError' = ProviderNameError /\ Stage' = Stage
  BY DEF GetProvider, ProviderNameError, Stage
<1>3. \A p : UseProvider(p)' = UseProvider(p) /\ Machine(p)' = Machine(p)
  BY DEF UseProvider, Machine, Managed
<1>4. /\ Platform("outer")' = Platform("outer") /\ BuildFor("outer")' = BuildFor("outer")
  BY DEF Platform, BuildFor, Environment
<1>5. NamesFilter("outer")' = NamesFilter("outer") /\ ForsFilter("outer")' = ForsFilter("outer")
  BY <1>4 DEF NamesFilter, ForsFilter, AskedPlatform, AskedFor
<1>. QED BY <1>1, <1>2, <1>3, <1>4, <1>5

\* What depends on it and on the build an instance is for.
LEMMA StableInside ==
  ASSUME line' = line, queue' = queue
  PROVE  \A p : /\ NamesFilter(p)' = NamesFilter(p) /\ ForsFilter(p)' = ForsFilter(p)
                /\ Platform(p)' = Platform(p) /\ BuildFor(p)' = BuildFor(p)
<1>1. ASSUME NEW p
      PROVE  Platform(p)' = Platform(p) /\ BuildFor(p)' = BuildFor(p)
  BY DEF Platform, BuildFor, Environment, Forwarded, ManagedPlatform
<1>2. \A p : NamesFilter(p)' = NamesFilter(p) /\ ForsFilter(p)' = ForsFilter(p)
  BY <1>1 DEF NamesFilter, ForsFilter, AskedPlatform, AskedFor
<1>. QED BY <1>1, <1>2
-----------------------------------------------------------------------------
(* A process does what its command is for. *)

CommandedOf(p) ==
  /\ proc[p].pc \in Rendered \cup {"lint"} => DispatchError = None
  /\ proc[p].pc = "ended" =>
       /\ proc[p].error \in Failures \cup {None, "KeyboardInterrupt", DispatchError}
       /\ proc[p].error = None \/ p = "inner" => DispatchError = None
  /\ proc[p].pc = "lint" => line.cmd = "lint"
  /\ proc[p].pc = "clean" => CleansInstances /\ UseProvider("outer")
  /\ proc[p].pc = "run" => line.cmd # "clean"
  /\ proc[p].pc \in {"setup", "run", "execute"} /\ p = "outer" => line.cmd # "test" /\ ~UseProvider(p)
  /\ proc[p].pc \in Following => line.cmd = "test" \/ UseProvider(p)
  /\ proc[p].pc \in Following => ~CleansInstances
  /\ proc[p].pc = "test" => line.cmd = "test"
Commanded == \A p \in Processes : CommandedOf(p)

\* A step of one process leaves the other as it is.
LEMMA CommandedStep ==
  ASSUME Commanded, NEW p \in Processes, Others(p), line' = line, CommandedOf(p)'
  PROVE  Commanded'
<1>1. ASSUME NEW q \in Processes, q # p PROVE CommandedOf(q)'
  BY <1>1, StableFacts DEF Commanded, CommandedOf, Others
<1>. QED BY <1>1 DEF Commanded

\* The process in an instance got past the command line, as the one outside did.
LEMMA CommandedInside ==
  ASSUME Course, Commanded, Alive("inner")
  PROVE  DispatchError = None /\ proc["outer"].pc = "waiting"
BY DEF Course, Commanded, CommandedOf, Processes, At, Rendered, Reading

\* No process is at a step of another command than the one the user gave, or elsewhere than
\* that command runs.
THEOREM CommandedInvariant == Spec => []Commanded
<1>1. Init => Commanded
  BY FreshFacts DEF Init, Commanded, CommandedOf, Rendered, Reading, Following
<1>2. Course /\ Commanded /\ [Next]_vars => Commanded'
  <2>1. SUFFICES ASSUME Course, Commanded, [Next]_vars PROVE Commanded'
    OBVIOUS
  <2>2. /\ Shape /\ "outer" \in Processes /\ "inner" \in Processes
        /\ \A p \in Processes : p \in {"outer", "inner"} /\ CourseOf(p) /\ CommandedOf(p)
    BY <2>1 DEF Course, Commanded, Processes
  <2>3. ASSUME NEW p \in Processes, Boot(p) PROVE Commanded'
    <3>1. proc[p] = Fresh
      BY <2>2, <2>3 DEF Boot, At, CourseOf
    <3>2. UNCHANGED around /\ Others(p) /\ proc'[p].pc = "configure"
      BY <2>2, <2>3, <3>1, BootStep
    <3>3. CommandedOf(p)'
      BY <3>2 DEF CommandedOf, Rendered, Reading, Following
    <3>. QED BY <2>1, <3>2, <3>3, CommandedStep DEF around
  <2>4. ASSUME NEW p \in Processes, Configure(p) PROVE Commanded'
    <3> DEFINE error == ConfigureError(proc[p].raw.platforms, Machine(p), Platform(p), BuildFor(p))
    <3>1. /\ proc[p].pc = "configure" /\ UNCHANGED around /\ Others(p)
          /\ \/ DispatchError # None /\ proc'[p].pc = "ended" /\ proc'[p].error = DispatchError
             \/ DispatchError = None /\ proc'[p].pc = "lint" /\ line.cmd = "lint"
             \/ DispatchError = None /\ error # None /\ proc'[p].pc = "ended" /\ proc'[p].error = error
             \/ DispatchError = None /\ proc'[p].pc = "command" /\ line.cmd # "lint"
      BY <2>2, <2>4, ConfigureStep
    <3>2. error \in Failures \cup {None}
      BY FailureFacts
    <3>3. p = "inner" => DispatchError = None
      BY <2>1, <3>1, CommandedInside DEF Alive
    <3>4. line' = line /\ DispatchError' = DispatchError
      BY <3>1, StableFacts DEF around
    <3> HIDE DEF error
    <3>5. CommandedOf(p)'
      BY <3>1, <3>2, <3>3, <3>4 DEF CommandedOf, Rendered, Reading, Following
    <3>. QED BY <2>1, <3>1, <3>4, <3>5, CommandedStep
  <2>5. ASSUME NEW p \in Processes, Command(p) PROVE Commanded'
    <3>1. proc[p].pc = "command" /\ proc[p].names = None /\ proc[p].fors = None
      BY <2>2, <2>5 DEF Command, At, CourseOf, Unfiltered
    <3>2. /\ UNCHANGED <<project, host, line, instance, built, tested>> /\ Others(p)
          /\ \/ CommandError(p) # None /\ proc'[p].pc = "ended" /\ proc'[p].error = CommandError(p)
             \/ p = "outer" /\ proc'[p].pc = "clean" /\ CleansInstances /\ UseProvider(p)
             \/ proc'[p].pc = "ended" /\ proc'[p].error = "EmptyBuildPlanError"
             \/ /\ p = "outer" /\ proc'[p].pc = "launch"
                /\ UseProvider(p) \/ (line.cmd = "test" /\ ~Managed(p))
                /\ ~(CleansInstances /\ UseProvider(p))
             \/ /\ proc'[p].pc = "setup"
                /\ ~(UseProvider(p) \/ (line.cmd = "test" /\ ~Managed(p)))
      BY <2>2, <2>5, <3>1, CommandStep
    <3>3. CommandError(p) \in Failures \cup {None} /\ "EmptyBuildPlanError" \in Failures
      BY FailureFacts DEF Failures, Errors, Answers
    <3>4. DispatchError = None
      BY <2>2, <3>1 DEF CommandedOf, Rendered, Reading
    <3>5. /\ line' = line /\ DispatchError' = DispatchError /\ CleansInstances' = CleansInstances
          /\ \A q : UseProvider(q)' = UseProvider(q)
      BY <3>2, StableFacts
    <3>6. line.cmd = "test" => ~CleansInstances
      BY DEF CleansInstances
    <3>7. p = "outer" => ~Managed(p)
      BY DEF Managed
    <3>8. CommandedOf(p)'
      BY <2>2, <3>2, <3>3, <3>4, <3>5, <3>6, <3>7 DEF CommandedOf, Rendered, Reading, Following
    <3>. QED BY <2>1, <3>2, <3>8, CommandedStep
  <2>6. ASSUME NEW p \in Processes, Setup(p) PROVE Commanded'
    <3>1. /\ proc[p].pc = "setup" /\ UNCHANGED around /\ Others(p)
          /\ \/ /\ proc'[p].pc = "ended"
                /\ \/ proc'[p].error = "EmptyBuildPlanError"
                   \/ proc'[p].error = RenderError(proc[p]) /\ RenderError(proc[p]) # None
             \/ proc'[p].pc = IF line.cmd = "clean" THEN "execute" ELSE "run"
      BY <2>2, <2>6, SetupStep
    <3>2. RenderError(proc[p]) \in Failures \cup {None} /\ "EmptyBuildPlanError" \in Failures
      BY FailureFacts DEF Failures, Errors, Answers
    <3>3. /\ line' = line /\ DispatchError' = DispatchError
          /\ \A q : UseProvider(q)' = UseProvider(q)
      BY <3>1, StableFacts DEF around
    <3>4. CommandedOf(p)'
      BY <2>2, <3>1, <3>2, <3>3 DEF CommandedOf, Rendered, Reading, Following
    <3>. QED BY <2>1, <3>1, <3>3, <3>4, CommandedStep
  <2>7. ASSUME NEW p \in Processes, Run(p) PROVE Commanded'
    <3>1. /\ proc[p].pc = "run" /\ UNCHANGED around /\ Others(p)
          /\ \/ /\ proc'[p].pc = "ended" /\ proc'[p].error # None
                /\ proc'[p].error \in {BuildInfoError(proc'[p]), BaseError(p)}
             \/ proc'[p].pc = "execute"
      BY <2>2, <2>7, RunStep
    <3>2. \A r : BuildInfoError(r) \in Failures \cup {None} /\ BaseError(p) \in Failures \cup {None}
      BY FailureFacts
    <3>3. /\ line' = line /\ DispatchError' = DispatchError
          /\ \A q : UseProvider(q)' = UseProvider(q)
      BY <3>1, StableFacts DEF around
    <3>4. CommandedOf(p)'
      BY <2>2, <3>1, <3>2, <3>3 DEF CommandedOf, Rendered, Reading, Following
    <3>. QED BY <2>1, <3>1, <3>3, <3>4, CommandedStep
  <2>8. ASSUME NEW p \in Processes, Execute(p) PROVE Commanded'
    <3>1. /\ proc[p].pc = "execute" /\ UNCHANGED <<project, host, line, instance, queue, tested>>
          /\ Others(p) /\ proc'[p].pc = "ended"
          /\ proc'[p].error \in Failures \/ proc'[p].error = proc[p].error
      BY <2>2, <2>8, ExecuteStep
    <3>2. proc[p].error = None /\ DispatchError = None
      BY <2>2, <3>1 DEF CourseOf, CommandedOf, Rendered, Reading
    <3>3. line' = line /\ DispatchError' = DispatchError
      BY <3>1, StableFacts
    <3>4. CommandedOf(p)'
      BY <3>1, <3>2, <3>3 DEF CommandedOf, Rendered, Reading, Following
    <3>. QED BY <2>1, <3>1, <3>3, <3>4, CommandedStep
  <2>9. ASSUME Others("outer"), line' = line, proc["outer"].pc \in {"lint", "clean", "launch", "waiting", "test"},
               \/ proc'["outer"].pc = "ended" /\ proc'["outer"].error \in Failures \cup {proc["outer"].error}
               \/ /\ proc["outer"].pc \in Following /\ proc'["outer"].pc \in Following
                  /\ proc'["outer"].pc = "test" => line.cmd = "test"
        PROVE  Commanded'
    <3>1. proc["outer"].error = None /\ DispatchError = None
      BY <2>2, <2>9 DEF CourseOf, CommandedOf, Rendered, Reading
    <3>2. /\ DispatchError' = DispatchError /\ CleansInstances' = CleansInstances
          /\ \A q : UseProvider(q)' = UseProvider(q)
      BY <2>9, StableFacts
    <3>3. CommandedOf("outer")'
      BY <2>2, <2>9, <3>1, <3>2 DEF CommandedOf, Rendered, Reading, Following
    <3>. QED BY <2>1, <2>2, <2>9, <3>3, CommandedStep
  <2>10. CASE Lint
    <3>1. /\ proc["outer"].pc = "lint" /\ UNCHANGED around /\ Others("outer") /\ proc'["outer"].pc = "ended"
          /\ proc'["outer"].error \in {LintError(proc["outer"]), proc["outer"].error}
      BY <2>2, <2>10, LintStep
    <3>2. LintError(proc["outer"]) \in Failures \cup {None} /\ proc["outer"].error = None
      BY <2>2, <3>1, FailureFacts DEF CourseOf, Reading
    <3>. QED BY <2>9, <3>1, <3>2 DEF around
  <2>11. CASE CleanInstances
    <3>1. /\ proc["outer"].pc = "clean" /\ line' = line /\ Others("outer") /\ proc'["outer"].pc = "ended"
          /\ proc'["outer"].error \in Failures \cup {proc["outer"].error}
      BY <2>2, <2>11, CleanStep
    <3>. QED BY <2>9, <3>1
  <2>12. CASE Launch
    <3>1. /\ proc["outer"].pc = "launch" /\ line' = line
          /\ \/ proc'["outer"].pc = "ended" /\ proc'["outer"].error \in Failures /\ Others("outer")
             \/ proc'["outer"].pc = "waiting" /\ proc'["inner"] = Fresh
      BY <2>2, <2>12, LaunchStep
    <3>2. CASE proc'["outer"].pc = "ended" /\ proc'["outer"].error \in Failures /\ Others("outer")
      BY <2>9, <3>1, <3>2
    <3>3. CASE proc'["outer"].pc = "waiting" /\ proc'["inner"] = Fresh
      <4>1. /\ DispatchError' = DispatchError /\ CleansInstances' = CleansInstances
            /\ \A q : UseProvider(q)' = UseProvider(q)
        BY <3>1, StableFacts
      <4>2. CommandedOf("outer")'
        BY <2>2, <3>1, <3>3, <4>1 DEF CommandedOf, Rendered, Reading, Following
      <4>3. CommandedOf("inner")'
        BY <3>3, FreshFacts DEF CommandedOf, Rendered, Reading, Following
      <4>. QED BY <2>2, <4>2, <4>3 DEF Commanded
    <3>. QED BY <3>1, <3>2, <3>3
  <2>13. CASE LaunchFails
    <3>1. /\ proc["outer"].pc = "launch" /\ line' = line /\ Others("outer") /\ proc'["outer"].pc = "ended"
          /\ proc'["outer"].error \in Failures
      BY <2>2, <2>13, LaunchFailsStep
    <3>. QED BY <2>9, <3>1
  <2>14. CASE Collect
    <3>1. /\ proc["outer"].pc = "waiting" /\ line' = line /\ Others("outer")
          /\ \/ proc'["outer"].pc = "ended" /\ proc'["outer"].error \in Failures \cup {proc["outer"].error}
             \/ proc'["outer"].pc = "test" /\ line.cmd = "test"
             \/ proc'["outer"].pc = "launch"
      BY <2>2, <2>14, CollectStep
    <3>. QED BY <2>9, <3>1 DEF Following
  <2>15. CASE Test
    <3>1. /\ proc["outer"].pc = "test" /\ line' = line /\ Others("outer")
          /\ \/ proc'["outer"].pc = "ended" /\ proc'["outer"].error \in Failures \cup {proc["outer"].error}
             \/ proc'["outer"].pc = "launch"
      BY <2>2, <2>15, TestStep
    <3>. QED BY <2>9, <3>1 DEF Following
  <2>16. CASE Interrupt
    <3>1. /\ proc["outer"].pc \notin {"absent", "ended"} /\ UNCHANGED around
          /\ \A p \in Processes :
               \/ proc[p].pc \in {"absent", "ended"} /\ proc'[p] = proc[p]
               \/ /\ proc[p].pc \notin {"absent", "ended"}
                  /\ proc'[p].pc = "ended" /\ proc'[p].error = "KeyboardInterrupt"
      BY <2>2, <2>16, InterruptStep
    <3>2. "KeyboardInterrupt" # None
      BY NoneFacts DEF Errors
    <3>3. Alive("inner") => DispatchError = None
      BY <2>1, CommandedInside
    <3>4. line' = line /\ DispatchError' = DispatchError
      BY <3>1, StableFacts DEF around
    <3>5. ASSUME NEW p \in Processes PROVE CommandedOf(p)'
      BY <2>2, <3>1, <3>2, <3>3, <3>4 DEF CommandedOf, Rendered, Reading, Following, Alive
    <3>. QED BY <3>5 DEF Commanded
  <2>17. CASE Start
    <3>1. line = None /\ proc'["outer"] = Fresh /\ Others("outer")
      BY <2>2, <2>17, StartStep
    <3>2. proc'["inner"] = Absent
      BY <2>1, <2>2, <3>1 DEF Course, Others
    <3>. QED BY <2>2, <3>1, <3>2, FreshFacts DEF Commanded, CommandedOf, Rendered, Reading, Following
  <2>18. CASE Exit
    <3>1. \A p \in Processes : proc'[p] = Absent
      BY <2>2, <2>18, ExitStep
    <3>. QED BY <2>2, <3>1, FreshFacts DEF Commanded, CommandedOf, Rendered, Reading, Following
  <2>19. CASE Edit \/ UNCHANGED vars
    <3>1. line' = line /\ proc' = proc
      BY <2>19 DEF Edit, vars
    <3>. QED BY <2>1, <2>2, <3>1, StableFacts DEF Commanded, CommandedOf
  <2>. QED
    BY <2>1, <2>3, <2>4, <2>5, <2>6, <2>7, <2>8, <2>10, <2>11, <2>12, <2>13, <2>14, <2>15,
       <2>16, <2>17, <2>18, <2>19 DEF Next
<1>. QED BY <1>1, <1>2, CourseInvariant, PTL DEF Spec
-----------------------------------------------------------------------------
(* What a process plans is for the project and the filters it has. *)

PlannedOf(p) ==
  LET r == proc[p]
  IN /\ r.pc \in Following \cup {"setup", "run", "execute"} =>
          r.names = NamesFilter(p) /\ r.fors = ForsFilter(p)
     /\ r.pc \in Reading /\ r.plan # <<>> => Valid(r.raw.platforms) /\ r.plan = PlanOf(p, r)
     /\ r.pc \in Rendered =>
          /\ ConfigureError(r.raw.platforms, Machine(p), Platform(p), BuildFor(p)) = None
          /\ r.conf = Configured(r.raw.platforms, Machine(p), Platform(p), BuildFor(p))
     /\ r.pc \in Following => r.plan # <<>>
     /\ r.pc \in {"run", "execute"} => r.plan = PlanOf(p, r)
     /\ r.pc \in {"run", "execute"} /\ r.plan # <<>> =>
          /\ r.arch = GetBuildFor(p, r)
          /\ Group(Head(r.plan)) # None => r.group = Group(Head(r.plan))
     /\ r.pc = "execute" /\ line.cmd # "clean" => BuildInfoError(r) = None /\ r.build = Head(r.plan)
Planned ==
  /\ \A p \in Processes : PlannedOf(p)
  /\ proc["outer"].pc \in Following =>
       queue \in Seq(Builds) /\ Range(queue) \subseteq Range(proc["outer"].plan)
  /\ Alive("inner") => Machine("inner") \in Archs

\* A step of one process leaves the other as it is.
LEMMA PlannedStep ==
  ASSUME Course, Planned, NEW p \in Processes, Others(p), line' = line, PlannedOf(p)',
         queue' = queue \/ ~Alive("inner")
  PROVE  \A q \in Processes : PlannedOf(q)'
<1>1. /\ \A q \in Processes : PlannedOf(q) /\ q \in {"outer", "inner"}
      /\ proc["inner"].pc \in InnerPCs
  BY DEF Planned, Processes, Course
<1>2. ASSUME NEW q \in Processes, q # p, q = "outer" PROVE PlannedOf(q)'
  <2>1. /\ proc'["outer"] = proc["outer"] /\ PlannedOf("outer")
        /\ Machine("outer")' = Machine("outer") /\ Platform("outer")' = Platform("outer")
        /\ BuildFor("outer")' = BuildFor("outer")
        /\ NamesFilter("outer")' = NamesFilter("outer") /\ ForsFilter("outer")' = ForsFilter("outer")
    BY <1>1, <1>2, StableFacts DEF Others
  <2>. QED BY <1>2, <2>1 DEF PlannedOf, PlanOf, GetBuildFor
<1>3. ASSUME NEW q \in Processes, q # p, q = "inner" PROVE PlannedOf(q)'
  <2>1. proc'["inner"] = proc["inner"] /\ PlannedOf("inner") /\ Machine("inner")' = Machine("inner")
    BY <1>1, <1>3, StableFacts DEF Others
  <2>2. CASE ~Alive("inner")
    BY <1>3, <2>1, <2>2 DEF PlannedOf, Alive, Reading, Rendered, Following
  <2>3. CASE queue' = queue
    <3>1. /\ Platform("inner")' = Platform("inner") /\ BuildFor("inner")' = BuildFor("inner")
          /\ NamesFilter("inner")' = NamesFilter("inner") /\ ForsFilter("inner")' = ForsFilter("inner")
      BY <2>3, StableInside
    <3>. QED BY <1>3, <2>1, <3>1 DEF PlannedOf, PlanOf, GetBuildFor
  <2>. QED BY <2>2, <2>3
<1>. QED BY <1>1, <1>2, <1>3

\* A project that is rendered for something has valid platforms.
LEMMA ValidWhenRendered ==
  ASSUME NEW p \in Processes, PlannedOf(p), proc[p].pc \in Rendered
  PROVE  Valid(proc[p].raw.platforms)
<1>1. None # "InvalidPlatforms"
  BY NoneFacts DEF Errors
<1>. QED BY <1>1 DEF PlannedOf, ConfigureError

\* A step of the process outside that leaves its project, filters and plan.
LEMMA PlannedOutside ==
  ASSUME Course, Planned, line' = line, AllBut(proc'["outer"], proc["outer"], {"pc", "error"}),
         \/ proc'["outer"].pc = "ended"
         \/ proc["outer"].pc \in Following /\ proc'["outer"].pc \in Following
  PROVE  PlannedOf("outer")'
<1> DEFINE r == proc["outer"]
           s == proc'["outer"]
<1>1. PlannedOf("outer")
  BY DEF Planned, Processes
<1>2. CASE s.pc = "ended"
  BY <1>2 DEF PlannedOf, Reading, Rendered, Following
<1>3. CASE r.pc \in Following /\ s.pc \in Following
  <2>1. /\ s.names = r.names /\ s.fors = r.fors /\ s.plan = r.plan /\ s.raw = r.raw /\ s.conf = r.conf
    BY DEF AllBut, Fields
  <2>2. /\ Machine("outer")' = Machine("outer") /\ Platform("outer")' = Platform("outer")
        /\ BuildFor("outer")' = BuildFor("outer")
        /\ NamesFilter("outer")' = NamesFilter("outer") /\ ForsFilter("outer")' = ForsFilter("outer")
    BY StableFacts
  <2>. QED
    BY <1>1, <1>3, <2>1, <2>2 DEF PlannedOf, PlanOf, Reading, Rendered, Following
<1>. QED BY <1>2, <1>3

\* What is left of a queue is part of it.
LEMMA TailFacts ==
  ASSUME NEW S, NEW s \in Seq(S), s # <<>>
  PROVE  /\ Head(s) \in Range(s) /\ Head(s) \in S /\ Tail(s) \in Seq(S) /\ Range(Tail(s)) \subseteq Range(s)
         /\ Range(s) = {Head(s)} \cup Range(Tail(s))
<1>1. /\ Len(s) \in Nat \ {0} /\ DOMAIN s = 1 .. Len(s) /\ Head(s) = s[1] /\ s[1] \in S
      /\ Tail(s) \in Seq(S) /\ Len(Tail(s)) = Len(s) - 1 /\ DOMAIN Tail(s) = 1 .. Len(Tail(s))
      /\ \A i \in 1 .. Len(Tail(s)) : Tail(s)[i] = s[i + 1]
  <2>1. /\ Len(s) \in Nat /\ DOMAIN s = 1 .. Len(s) /\ Len(s) # 0
    BY LenProperties, EmptySeq
  <2>2. /\ Head(s) \in S /\ Tail(s) \in Seq(S) /\ Len(Tail(s)) = Len(s) - 1
        /\ \A i \in 1 .. Len(Tail(s)) : Tail(s)[i] = s[i + 1]
    BY HeadTailProperties
  <2>3. DOMAIN Tail(s) = 1 .. Len(Tail(s))
    BY <2>2, LenProperties
  <2>4. Head(s) = s[1]
    OBVIOUS
  <2>. QED BY <2>1, <2>2, <2>3, <2>4
<1>2. \A i \in 1 .. Len(s) : i = 1 \/ \E k \in 1 .. Len(Tail(s)) : i = k + 1
  BY <1>1
<1>3. \A x \in Range(Tail(s)) : x \in Range(s)
  <2>1. \A k \in 1 .. Len(Tail(s)) : k + 1 \in 1 .. Len(s)
    BY <1>1
  <2>. QED BY <1>1, <2>1 DEF Range
<1>4. ASSUME NEW x \in Range(s), x # Head(s) PROVE x \in Range(Tail(s))
  <2>1. PICK i \in 1 .. Len(s) : x = s[i]
    BY <1>1 DEF Range
  <2>2. PICK k \in 1 .. Len(Tail(s)) : i = k + 1
    BY <1>1, <1>2, <1>4, <2>1
  <2>3. x = Tail(s)[k] /\ k \in DOMAIN Tail(s)
    BY <1>1, <2>1, <2>2
  <2>. QED BY <2>3 DEF Range
<1>5. Head(s) \in Range(s)
  BY <1>1 DEF Range
<1>. QED BY <1>1, <1>3, <1>4, <1>5

\* Every plan a process holds is for the project it read and the filters of its command.
THEOREM PlannedInvariant == Spec => []Planned
<1>1. Init => Planned
  BY FreshFacts DEF Init, Planned, PlannedOf, Rendered, Reading, Following, Alive, Processes
<1>2. Course /\ Commanded /\ Planned /\ [Next]_vars => Planned'
  <2>1. SUFFICES ASSUME Course, Commanded, Planned, [Next]_vars PROVE Planned'
    OBVIOUS
  <2>2. /\ Shape /\ "outer" \in Processes /\ "inner" \in Processes
        /\ \A p \in Processes : p \in {"outer", "inner"} /\ CourseOf(p) /\ PlannedOf(p)
        /\ Alive("inner") => proc["outer"].pc = "waiting" /\ Machine("inner") \in Archs
        /\ proc["outer"].pc \in Following =>
             queue \in Seq(Builds) /\ queue # <<>> /\ Range(queue) \subseteq Range(proc["outer"].plan)
    BY <2>1 DEF Course, Planned, Processes, At
  <2>3. ASSUME NEW p \in Processes, proc[p].pc \in Reading
        PROVE  proc[p].raw \in Files
    BY <2>2, <2>3 DEF CourseOf, Read, Files
  \* What is left to show for a step of one process in which it follows no queue.
  <2>4. ASSUME NEW p \in Processes, Others(p), line' = line, PlannedOf(p)', queue' = queue,
               Alive(p), proc[p].pc \notin Following,
               proc'[p].pc \notin Following \cup {"absent"}
        PROVE  Planned'
    <3>1. \A q \in Processes : PlannedOf(q)'
      BY <2>1, <2>4, PlannedStep
    <3>2. Alive("inner")' => Machine("inner")' \in Archs
      <4>1. SUFFICES ASSUME Alive("inner")' PROVE Machine("inner")' \in Archs
        OBVIOUS
      <4>2. Alive("inner")
        BY <2>2, <2>4, <4>1 DEF Alive, Others
      <4>. QED BY <2>2, <2>4, <4>2, StableFacts
    <3>3. p = "inner" => proc'["outer"] = proc["outer"]
      BY <2>2, <2>4 DEF Others
    <3>4. proc'["outer"].pc \in Following =>
            queue' \in Seq(Builds) /\ Range(queue)' \subseteq Range(proc'["outer"].plan)
      BY <2>2, <2>4, <3>3 DEF Range
    <3>. QED BY <3>1, <3>2, <3>4 DEF Planned, Range
  <2>5. ASSUME NEW p \in Processes, Boot(p) PROVE Planned'
    <3>1. proc[p] = Fresh /\ proc[p].pc = "boot"
      BY <2>2, <2>5 DEF Boot, At, CourseOf
    <3>2. /\ UNCHANGED around /\ Others(p)
          /\ proc'[p].pc = "configure" /\ proc'[p].raw = project
          /\ AllBut(proc'[p], Fresh, {"pc", "raw", "made", "plan", "group"})
          /\ proc'[p].plan = IF Valid(project.platforms)
                             THEN CreateBuildPlan(project.platforms, None, None, {Machine(p)}) ELSE <<>>
      BY <2>2, <2>5, <3>1, BootStep, ProjectFileFacts
    <3>3. proc'[p].names = None /\ proc'[p].fors = None
      BY <3>2, FreshFacts DEF AllBut, Fields
    <3>4. Machine(p)' = Machine(p) /\ line' = line /\ queue' = queue
      BY <3>2, StableFacts DEF around
    <3>5. PlannedOf(p)'
      BY <3>2, <3>3, <3>4 DEF PlannedOf, PlanOf, Following, Reading, Rendered
    <3>. QED BY <2>4, <3>1, <3>2, <3>4, <3>5 DEF Alive, Following
  <2>6. ASSUME NEW p \in Processes, Configure(p) PROVE Planned'
    <3> DEFINE error == ConfigureError(proc[p].raw.platforms, Machine(p), Platform(p), BuildFor(p))
               conf == Configured(proc[p].raw.platforms, Machine(p), Platform(p), BuildFor(p))
    <3>1. /\ proc[p].pc = "configure" /\ UNCHANGED around /\ Others(p)
          /\ AllBut(proc'[p], proc[p], {"pc", "error", "kwargs", "made", "conf"})
          /\ \/ proc'[p].pc = "ended" \/ proc'[p].pc = "lint"
             \/ proc'[p].pc = "command" /\ error = None /\ proc'[p].conf = conf
      BY <2>2, <2>6, ConfigureStep
    <3>2. /\ line' = line /\ queue' = queue /\ Machine(p)' = Machine(p)
          /\ Platform(p)' = Platform(p) /\ BuildFor(p)' = BuildFor(p)
      BY <3>1, StableFacts, StableInside DEF around
    <3>3. /\ proc'[p].raw = proc[p].raw /\ proc'[p].plan = proc[p].plan
          /\ proc'[p].names = proc[p].names /\ proc'[p].fors = proc[p].fors
      BY <3>1 DEF AllBut, Fields
    <3>4. PlannedOf(p) /\ proc[p].pc \in Reading
      BY <2>2, <3>1 DEF Reading
    <3>5. PlannedOf(p)'
      <4>1. proc'[p].pc \in Rendered => error = None /\ proc'[p].conf = conf
        BY <3>1 DEF Rendered, Reading
      <4>2. proc'[p].plan # <<>> => Valid(proc[p].raw.platforms) /\ proc'[p].plan = PlanOf(p, proc[p])
        BY <3>3, <3>4 DEF PlannedOf
      <4>. QED BY <3>1, <3>2, <3>3, <4>1, <4>2 DEF PlannedOf, PlanOf, Following
    <3>. QED BY <2>4, <3>1, <3>2, <3>5 DEF Alive, Following
  <2>7. ASSUME NEW p \in Processes, Command(p) PROVE Planned'
    <3> DEFINE r == proc[p]
               s == proc'[p]
    <3>1. r.pc = "command" /\ r.names = None /\ r.fors = None /\ PlannedOf(p)
      BY <2>2, <2>7 DEF Command, At, CourseOf, Unfiltered
    <3>2. /\ UNCHANGED <<project, host, line, instance, built, tested>> /\ Others(p)
          /\ AllBut(s, r, {"pc", "error", "snaps", "made", "names", "fors", "plan"})
          /\ \/ /\ s.pc \in {"ended", "clean"} /\ UNCHANGED queue
                /\ s.pc = "clean" => s.names = r.names /\ s.fors = r.fors /\ s.plan = r.plan
             \/ /\ p = "outer" /\ s.pc = "launch" /\ s.plan # <<>> /\ queue' = s.plan
                /\ s.names = NamesFilter(p) /\ s.fors = ForsFilter(p)
                /\ \/ r.plan # <<>> /\ s.plan = r.plan /\ s.names = r.names /\ s.fors = r.fors
                   \/ s.plan = PlanOf(p, s)
             \/ /\ s.pc = "setup" /\ UNCHANGED queue
                /\ s.names = NamesFilter(p) /\ s.fors = ForsFilter(p)
                /\ \/ s.plan = <<>>
                   \/ s.plan = r.plan /\ s.names = r.names /\ s.fors = r.fors
      BY <2>2, <2>7, <3>1, CommandStep
    <3>3. s.raw = r.raw /\ s.conf = r.conf
      BY <3>2 DEF AllBut, Fields
    <3>4. /\ Valid(r.raw.platforms) /\ r.raw \in Files
          /\ r.plan # <<>> => r.plan = PlanOf(p, r)
          /\ ConfigureError(r.raw.platforms, Machine(p), Platform(p), BuildFor(p)) = None
          /\ r.conf = Configured(r.raw.platforms, Machine(p), Platform(p), BuildFor(p))
      BY <2>3, <3>1, ValidWhenRendered DEF PlannedOf, Rendered, Reading
    <3>5. s.pc # "ended" /\ s.plan # <<>> => s.plan = PlanOf(p, s)
      BY <3>2, <3>3, <3>4 DEF PlanOf
    <3> HIDE DEF r, s
    <3>6. CASE s.pc \in {"ended", "clean", "setup"}
      <4>1. queue' = queue /\ line' = line
        BY <3>2, <3>6
      <4>2. /\ Machine(p)' = Machine(p) /\ Platform(p)' = Platform(p) /\ BuildFor(p)' = BuildFor(p)
            /\ NamesFilter(p)' = NamesFilter(p) /\ ForsFilter(p)' = ForsFilter(p)
        BY <4>1, StableFacts, StableInside
      <4>3. s.pc = "setup" => s.names = NamesFilter(p) /\ s.fors = ForsFilter(p)
        BY <3>2, <3>6
      <4>4. PlannedOf(p)'
        BY <3>3, <3>4, <3>5, <3>6, <4>2, <4>3
        DEF PlannedOf, PlanOf, Following, Reading, Rendered, s
      <4>. QED BY <2>4, <3>1, <3>2, <3>6, <4>1, <4>4 DEF Alive, Following, r, s
    <3>7. CASE /\ p = "outer" /\ s.pc = "launch" /\ s.plan # <<>> /\ queue' = s.plan
               /\ s.names = NamesFilter(p) /\ s.fors = ForsFilter(p)
      <4>1. line' = line /\ ~Alive("inner")
        BY <2>2, <3>1, <3>2, <3>7 DEF r
      <4>2. /\ Machine(p)' = Machine(p) /\ Platform(p)' = Platform(p) /\ BuildFor(p)' = BuildFor(p)
            /\ NamesFilter(p)' = NamesFilter(p) /\ ForsFilter(p)' = ForsFilter(p)
        BY <3>7, <4>1, StableFacts
      <4>3. PlannedOf(p)'
        BY <3>3, <3>4, <3>5, <3>7, <4>2
        DEF PlannedOf, PlanOf, Following, Reading, Rendered, s
      <4>4. \A q \in Processes : PlannedOf(q)'
        BY <2>1, <3>2, <4>1, <4>3, PlannedStep
      <4>5. queue' \in Seq(Builds)
        <5>1. /\ queue' = CreateBuildPlan(r.raw.platforms, s.names, s.fors, {Machine(p)})
              /\ r.raw \in Files /\ Valid(r.raw.platforms)
          BY <3>3, <3>4, <3>5, <3>7 DEF PlanOf
        <5>2. CreateBuildPlan(r.raw.platforms, s.names, s.fors, {Machine(p)}) \in Seq(Builds)
          BY <5>1, PlanFacts DEF IsPlan
        <5>. QED BY <5>1, <5>2
      <4>6. ~Alive("inner")'
        BY <2>2, <3>2, <3>7, <4>1 DEF Others, Alive
      <4>. QED BY <3>7, <4>4, <4>5, <4>6 DEF Planned, Range, s
    <3>. QED BY <3>2, <3>6, <3>7
  <2>8. ASSUME NEW p \in Processes, Setup(p) PROVE Planned'
    <3> DEFINE r == proc[p]
               s == proc'[p]
    <3>1. /\ r.pc = "setup" /\ UNCHANGED around /\ Others(p)
          /\ AllBut(s, r, {"pc", "error", "plan", "group", "arch", "parts"})
          /\ s.plan = IF r.plan # <<>> THEN r.plan ELSE PlanOf(p, r)
          /\ \/ s.pc = "ended"
             \/ /\ s.pc = IF line.cmd = "clean" THEN "execute" ELSE "run"
                /\ s.arch = GetBuildFor(p, s)
                /\ s.plan # <<>> /\ Group(Head(s.plan)) # None => s.group = Group(Head(s.plan))
      BY <2>2, <2>8, SetupStep
    <3>2. s.raw = r.raw /\ s.conf = r.conf /\ s.names = r.names /\ s.fors = r.fors
      BY <3>1 DEF AllBut, Fields
    <3>3. /\ line' = line /\ queue' = queue /\ Machine(p)' = Machine(p)
          /\ Platform(p)' = Platform(p) /\ BuildFor(p)' = BuildFor(p)
          /\ NamesFilter(p)' = NamesFilter(p) /\ ForsFilter(p)' = ForsFilter(p)
      BY <3>1, StableFacts, StableInside DEF around
    <3>4. /\ Valid(r.raw.platforms) /\ r.names = NamesFilter(p) /\ r.fors = ForsFilter(p)
          /\ r.plan # <<>> => r.plan = PlanOf(p, r)
          /\ ConfigureError(r.raw.platforms, Machine(p), Platform(p), BuildFor(p)) = None
          /\ r.conf = Configured(r.raw.platforms, Machine(p), Platform(p), BuildFor(p))
      BY <2>2, <3>1, ValidWhenRendered DEF PlannedOf, Rendered, Reading
    <3>5. s.plan = PlanOf(p, s)
      BY <3>1, <3>2, <3>4 DEF PlanOf
    <3> HIDE DEF r, s
    <3>6. CASE s.pc = "ended"
      <4>1. PlannedOf(p)'
        BY <3>6 DEF PlannedOf, Following, Reading, Rendered, s
      <4>. QED BY <2>4, <3>1, <3>3, <3>6, <4>1 DEF Alive, Following, r, s
    <3>7. CASE /\ s.pc = IF line.cmd = "clean" THEN "execute" ELSE "run"
               /\ s.arch = GetBuildFor(p, s)
               /\ s.plan # <<>> /\ Group(Head(s.plan)) # None => s.group = Group(Head(s.plan))
      <4>1. PlannedOf(p)'
        BY <3>2, <3>3, <3>4, <3>5, <3>7
        DEF PlannedOf, PlanOf, GetBuildFor, Following, Reading, Rendered, s
      <4>. QED BY <2>4, <3>1, <3>3, <3>7, <4>1 DEF Alive, Following, r, s
    <3>. QED BY <3>1, <3>6, <3>7
  <2>9. ASSUME NEW p \in Processes, Run(p) PROVE Planned'
    <3> DEFINE r == proc[p]
               s == proc'[p]
    <3>1. /\ r.pc = "run" /\ UNCHANGED around /\ Others(p)
          /\ AllBut(s, r, {"pc", "error", "plan", "build"})
          /\ s.plan = IF r.plan # <<>> THEN r.plan ELSE PlanOf(p, r)
          /\ \/ s.pc = "ended"
             \/ s.pc = "execute" /\ BuildInfoError(s) = None /\ s.build = Head(s.plan)
      BY <2>2, <2>9, RunStep
    <3>2. /\ s.raw = r.raw /\ s.conf = r.conf /\ s.names = r.names /\ s.fors = r.fors
          /\ s.arch = r.arch /\ s.group = r.group
      BY <3>1 DEF AllBut, Fields
    <3>3. /\ line' = line /\ queue' = queue /\ Machine(p)' = Machine(p)
          /\ Platform(p)' = Platform(p) /\ BuildFor(p)' = BuildFor(p)
          /\ NamesFilter(p)' = NamesFilter(p) /\ ForsFilter(p)' = ForsFilter(p)
      BY <3>1, StableFacts, StableInside DEF around
    <3>4. PlannedOf(p)
      BY <2>2
    <3>5. /\ Valid(r.raw.platforms) /\ r.names = NamesFilter(p) /\ r.fors = ForsFilter(p)
          /\ r.plan = PlanOf(p, r)
          /\ ConfigureError(r.raw.platforms, Machine(p), Platform(p), BuildFor(p)) = None
          /\ r.conf = Configured(r.raw.platforms, Machine(p), Platform(p), BuildFor(p))
          /\ r.plan # <<>> => /\ r.arch = GetBuildFor(p, r)
                              /\ Group(Head(r.plan)) # None => r.group = Group(Head(r.plan))
      BY <3>1, <3>4, ValidWhenRendered DEF PlannedOf, Rendered, Reading
    <3>6. /\ s.plan = r.plan /\ s.plan = PlanOf(p, s) /\ GetBuildFor(p, s) = GetBuildFor(p, r)
      BY <3>1, <3>2, <3>5 DEF PlanOf, GetBuildFor
    <3> HIDE DEF r, s
    <3>7. CASE s.pc = "ended"
      <4>1. PlannedOf(p)'
        BY <3>7 DEF PlannedOf, Following, Reading, Rendered, s
      <4>. QED BY <2>4, <3>1, <3>3, <3>7, <4>1 DEF Alive, Following, r, s
    <3>8. CASE s.pc = "execute" /\ BuildInfoError(s) = None /\ s.build = Head(s.plan)
      <4>1. PlannedOf(p)'
        BY <3>2, <3>3, <3>5, <3>6, <3>8
        DEF PlannedOf, PlanOf, GetBuildFor, BuildInfoError, Following, Reading, Rendered, s
      <4>. QED BY <2>4, <3>1, <3>3, <3>8, <4>1 DEF Alive, Following, r, s
    <3>. QED BY <3>1, <3>7, <3>8
  <2>10. ASSUME NEW p \in Processes, Execute(p) PROVE Planned'
    <3>1. /\ proc[p].pc = "execute" /\ UNCHANGED <<project, host, line, instance, queue, tested>>
          /\ Others(p) /\ proc'[p].pc = "ended"
      BY <2>2, <2>10, ExecuteStep
    <3>2. PlannedOf(p)'
      BY <3>1 DEF PlannedOf, Following, Reading, Rendered
    <3>. QED BY <2>4, <3>1, <3>2 DEF Alive, Following
  \* What is left to show for a step outside, after which a queue may be followed.
  <2>11. ASSUME line' = line, AllBut(proc'["outer"], proc["outer"], {"pc", "error"}),
                Others("outer"), Alive("outer"),
                \/ proc'["outer"].pc = "ended"
                \/ /\ proc["outer"].pc \in Following /\ proc'["outer"].pc \in Following \ {"waiting"}
                   /\ queue' = queue \/ queue' = Tail(queue),
                queue' = queue \/ ~Alive("inner")
         PROVE  Planned'
    <3>1. \A q \in Processes : PlannedOf(q)'
      BY <2>1, <2>2, <2>11, PlannedOutside, PlannedStep
    <3>2. Alive("inner")' => Machine("inner")' \in Archs
      BY <2>2, <2>11, StableFacts DEF Alive, Others
    <3>3. proc'["outer"].pc \in Following =>
            queue' \in Seq(Builds) /\ Range(queue') \subseteq Range(proc'["outer"].plan)
      <4>1. SUFFICES ASSUME proc'["outer"].pc \in Following
                     PROVE  queue' \in Seq(Builds) /\ Range(queue') \subseteq Range(proc'["outer"].plan)
        OBVIOUS
      <4>2. proc["outer"].pc \in Following /\ (queue' = queue \/ queue' = Tail(queue))
        BY <2>11, <4>1 DEF Following
      <4>3. proc'["outer"].plan = proc["outer"].plan
        BY <2>11 DEF AllBut, Fields
      <4>4. Tail(queue) \in Seq(Builds) /\ Range(Tail(queue)) \subseteq Range(queue)
        BY <2>2, <4>2, TailFacts
      <4>. QED BY <2>2, <4>2, <4>3, <4>4
    <3>. QED BY <3>1, <3>2, <3>3 DEF Planned, Range
  <2>12. CASE Lint
    <3>1. /\ proc["outer"].pc = "lint" /\ UNCHANGED around /\ Others("outer") /\ proc'["outer"].pc = "ended"
      BY <2>2, <2>12, LintStep
    <3>2. PlannedOf("outer")'
      BY <3>1 DEF PlannedOf, Following, Reading, Rendered
    <3>. QED BY <2>2, <2>4, <3>1, <3>2 DEF Alive, Following, around
  <2>13. CASE CleanInstances
    <3>1. /\ proc["outer"].pc = "clean" /\ UNCHANGED <<line, queue>> /\ Others("outer")
          /\ proc'["outer"].pc = "ended" /\ AllBut(proc'["outer"], proc["outer"], {"pc", "error"})
      BY <2>2, <2>13, CleanStep
    <3>. QED BY <2>11, <3>1 DEF Alive
  <2>14. CASE Launch
    <3>1. /\ proc["outer"].pc = "launch" /\ line' = line /\ queue' = queue
          /\ AllBut(proc'["outer"], proc["outer"], {"pc", "error"})
          /\ \/ proc'["outer"].pc = "ended" /\ Others("outer")
             \/ proc'["outer"].pc = "waiting" /\ proc'["inner"] = Fresh /\ Machine("inner") \in Archs
      BY <2>2, <2>14, LaunchStep
    <3>2. CASE proc'["outer"].pc = "ended" /\ Others("outer")
      BY <2>11, <3>1, <3>2 DEF Alive
    <3>3. CASE /\ proc'["outer"].pc = "waiting" /\ proc'["inner"] = Fresh /\ Machine("inner") \in Archs
      <4>1. PlannedOf("outer")'
        BY <2>1, <3>1, <3>3, PlannedOutside DEF Following
      <4>2. PlannedOf("inner")'
        BY <3>3, FreshFacts DEF PlannedOf, Following, Reading, Rendered
      <4>3. \A q \in Processes : PlannedOf(q)'
        BY <2>2, <4>1, <4>2
      <4>4. Machine("inner")' \in Archs
        BY <3>1, <3>3, StableFacts
      <4>5. queue' \in Seq(Builds) /\ Range(queue') \subseteq Range(proc'["outer"].plan)
        BY <2>2, <3>1 DEF Following, AllBut, Fields
      <4>. QED BY <4>3, <4>4, <4>5 DEF Planned, Range
    <3>. QED BY <3>1, <3>2, <3>3
  <2>15. CASE LaunchFails
    <3>1. /\ proc["outer"].pc = "launch" /\ UNCHANGED <<line, queue>> /\ Others("outer")
          /\ proc'["outer"].pc = "ended" /\ AllBut(proc'["outer"], proc["outer"], {"pc", "error"})
      BY <2>2, <2>15, LaunchFailsStep
    <3>. QED BY <2>11, <3>1 DEF Alive
  <2>16. CASE Collect
    <3>1. /\ proc["outer"].pc = "waiting" /\ proc["inner"].pc = "ended" /\ line' = line /\ Others("outer")
          /\ AllBut(proc'["outer"], proc["outer"], {"pc", "error"})
          /\ proc'["outer"].pc \in {"ended", "test", "launch"}
          /\ queue' = queue \/ queue' = Tail(queue)
      BY <2>2, <2>16, CollectStep
    <3>. QED BY <2>11, <3>1 DEF Alive, Following
  <2>17. CASE Test
    <3>1. /\ proc["outer"].pc = "test" /\ line' = line /\ Others("outer")
          /\ AllBut(proc'["outer"], proc["outer"], {"pc", "error"})
          /\ proc'["outer"].pc \in {"ended", "launch"}
          /\ queue' = queue \/ queue' = Tail(queue)
      BY <2>2, <2>17, TestStep
    <3>2. ~Alive("inner")
      BY <2>2, <3>1
    <3>. QED BY <2>11, <3>1, <3>2 DEF Alive, Following
  <2>18. CASE Interrupt \/ Exit
    <3>1. \A p \in Processes : proc'[p].pc \in {"absent", "ended"}
      BY <2>2, <2>18, InterruptStep, ExitStep, FreshFacts
    <3>. QED BY <2>2, <3>1 DEF Planned, PlannedOf, Alive, Following, Reading, Rendered
  <2>19. CASE Start
    <3>1. line = None /\ proc'["outer"] = Fresh /\ Others("outer")
      BY <2>2, <2>19, StartStep
    <3>2. proc'["inner"] = Absent
      BY <2>1, <2>2, <3>1 DEF Course, Others
    <3>. QED BY <2>2, <3>1, <3>2, FreshFacts DEF Planned, PlannedOf, Alive, Following, Reading, Rendered
  <2>20. CASE Edit \/ UNCHANGED vars
    <3>1. line' = line /\ proc' = proc /\ queue' = queue
      BY <2>20 DEF Edit, vars
    <3>2. ASSUME NEW p \in Processes PROVE PlannedOf(p)'
      <4>1. PlannedOf(p) /\ Machine(p)' = Machine(p)
            /\ Platform(p)' = Platform(p) /\ BuildFor(p)' = BuildFor(p)
            /\ NamesFilter(p)' = NamesFilter(p) /\ ForsFilter(p)' = ForsFilter(p)
        BY <2>2, <3>1, StableFacts, StableInside
      <4>. QED BY <3>1, <4>1 DEF PlannedOf, PlanOf, GetBuildFor
    <3>3. Machine("inner")' = Machine("inner")
      BY <3>1, StableFacts
    <3>. QED BY <2>1, <3>1, <3>2, <3>3 DEF Planned, Alive
  <2>. QED
    BY <2>1, <2>5, <2>6, <2>7, <2>8, <2>9, <2>10, <2>12, <2>13, <2>14, <2>15,
       <2>16, <2>17, <2>18, <2>19, <2>20 DEF Next
<1>. QED BY <1>1, <1>2, CourseInvariant, CommandedInvariant, PTL DEF Spec
-----------------------------------------------------------------------------
(* What holds of a build that is under way. *)

Running == {"setup", "run", "execute"}

\* A process that is building got there by a step of its own; while it runs in an
\* instance nothing else happens but edits.
LEMMA RunningStep ==
  ASSUME Course, [Next]_vars, NEW p \in Processes, proc'[p].pc \in Running
  PROVE  /\ line' = line
         /\ Command(p) \/ Setup(p) \/ Run(p) \/ proc'[p] = proc[p]
         /\ p = "inner" => /\ UNCHANGED <<queue, instance, host>> /\ proc'["outer"] = proc["outer"]
                           /\ Alive("inner")
<1>1. /\ Shape /\ "outer" \in Processes /\ "inner" \in Processes
      /\ p \in {"outer", "inner"}
      /\ proc["inner"].pc \in InnerPCs
      /\ Alive("inner") => proc["outer"].pc = "waiting"
      /\ \A q \in Processes : CourseOf(q)
  BY DEF Course, Processes, At
<1>2. ASSUME NEW q \in Processes, Alive(q), Others(q), line' = line,
             q = "outer" /\ proc["outer"].pc = "waiting" => ~Alive("inner"),
             q = "inner" => UNCHANGED <<queue, instance, host>>,
             q = p => Command(p) \/ Setup(p) \/ Run(p)
      PROVE  /\ line' = line
             /\ Command(p) \/ Setup(p) \/ Run(p) \/ proc'[p] = proc[p]
             /\ p = "inner" => /\ UNCHANGED <<queue, instance, host>> /\ proc'["outer"] = proc["outer"]
                               /\ Alive("inner")
  <2>1. CASE q = p
    BY <1>1, <1>2, <2>1 DEF Others
  <2>2. CASE q # p
    <3>1. proc'[p] = proc[p]
      BY <1>2, <2>2 DEF Others
    <3>2. p = "inner" => Alive("inner") /\ q = "outer"
      BY <1>1, <1>2, <2>2, <3>1 DEF Alive, Running, Processes
    <3>. QED BY <1>1, <1>2, <3>1, <3>2
  <2>. QED BY <2>1, <2>2
<1>3. ASSUME NEW q \in Processes, Boot(q)
      PROVE  Alive(q) /\ Others(q) /\ UNCHANGED around /\ q # p /\ proc[q].pc = "boot"
  BY <1>1, <1>3, BootStep DEF Boot, At, CourseOf, Alive, Running
<1>4. ASSUME NEW q \in Processes, Configure(q)
      PROVE  Alive(q) /\ Others(q) /\ UNCHANGED around /\ q # p /\ proc[q].pc = "configure"
  BY <1>1, <1>4, ConfigureStep DEF Alive, Running
<1>5. ASSUME NEW q \in Processes, Command(q)
      PROVE  /\ Alive(q) /\ Others(q) /\ UNCHANGED <<line, instance, host>>
             /\ proc[q].pc = "command"
             /\ q = "inner" => UNCHANGED queue
  <2>1. proc[q].pc = "command" /\ proc[q].names = None /\ proc[q].fors = None
    BY <1>1, <1>5 DEF Command, At, CourseOf, Unfiltered
  <2>. QED BY <1>1, <1>5, <2>1, CommandStep DEF Alive
<1>6. ASSUME NEW q \in Processes, Setup(q)
      PROVE  Alive(q) /\ Others(q) /\ UNCHANGED around /\ proc[q].pc = "setup"
  BY <1>1, <1>6, SetupStep DEF Alive
<1>7. ASSUME NEW q \in Processes, Run(q)
      PROVE  Alive(q) /\ Others(q) /\ UNCHANGED around /\ proc[q].pc = "run"
  BY <1>1, <1>7, RunStep DEF Alive
<1>8. ASSUME NEW q \in Processes, Execute(q)
      PROVE  Alive(q) /\ Others(q) /\ UNCHANGED <<line, queue, instance, host>> /\ q # p /\ proc[q].pc = "execute"
  BY <1>1, <1>8, ExecuteStep DEF Alive, Running
<1>9. ASSUME Lint \/ CleanInstances \/ LaunchFails \/ Collect \/ Test
      PROVE  /\ Alive("outer") /\ Others("outer") /\ line' = line /\ p # "outer"
             /\ proc["outer"].pc = "waiting" => ~Alive("inner")
  <2>1. /\ proc["outer"].pc \in {"lint", "clean", "launch", "waiting", "test"} /\ Others("outer")
        /\ line' = line /\ proc'["outer"].pc \in {"ended", "launch", "test"}
        /\ proc["outer"].pc = "waiting" => proc["inner"].pc = "ended"
    BY <1>1, <1>9, LintStep, CleanStep, LaunchFailsStep, CollectStep, TestStep DEF around
  <2>. QED BY <2>1 DEF Alive, Running
<1>10. CASE Launch
  <2>1. /\ proc["outer"].pc = "launch" /\ line' = line
        /\ \/ proc'["outer"].pc = "ended" /\ Others("outer")
           \/ proc'["outer"].pc = "waiting" /\ proc'["inner"] = Fresh
    BY <1>1, <1>10, LaunchStep
  <2>2. Others("outer") /\ p # "outer"
    BY <1>1, <2>1, FreshFacts DEF Running
  <2>. QED BY <1>1, <1>2, <2>1, <2>2 DEF Alive
<1>11. CASE Interrupt \/ Exit
  <2>1. \A q \in Processes : proc'[q].pc \in {"absent", "ended"}
    BY <1>1, <1>11, InterruptStep, ExitStep, FreshFacts
  <2>. QED BY <2>1 DEF Running
<1>12. CASE Start
  <2>1. line = None /\ proc'["outer"] = Fresh /\ Others("outer")
    BY <1>1, <1>12, StartStep
  <2>2. proc'["inner"] = Absent
    BY <1>1, <2>1 DEF Course, Others
  <2>. QED BY <1>1, <2>1, <2>2, FreshFacts DEF Running
<1>13. CASE Edit \/ UNCHANGED vars
  <2>1. UNCHANGED <<line, proc, queue, instance, host>>
    BY <1>13 DEF Edit, vars
  <2>2. p = "inner" => Alive("inner")
    BY <2>1 DEF Alive, Running
  <2>. QED BY <2>1, <2>2
<1>14. CASE \E q \in Processes : Boot(q) \/ Configure(q) \/ Execute(q)
  BY <1>2, <1>3, <1>4, <1>8, <1>14 DEF around
<1>15. CASE \E q \in Processes : Command(q) \/ Setup(q) \/ Run(q)
  BY <1>2, <1>5, <1>6, <1>7, <1>15 DEF around
<1>16. CASE Lint \/ CleanInstances \/ LaunchFails \/ Collect \/ Test
  BY <1>1, <1>2, <1>9, <1>16
<1>. QED BY <1>10, <1>11, <1>12, <1>13, <1>14, <1>15, <1>16 DEF Next

\* What a command saw of the base of its project, and what rendering it made sure of.
BasesOf(p) ==
  LET raw == proc[p].raw
  IN /\ proc[p].pc \in Running /\ line.cmd # "clean" /\ CheckSupportedBase
          /\ {raw.base, raw.buildbase} \cap EndOfLife # {} => line.ignore
     /\ proc[p].pc \in {"run", "execute"} /\ raw.base \in InDevelopment => raw.buildbase \in {None} \cup Development

\* A command that checked the base refuses one that is no longer supported, unless
\* it was told to ignore that.
LEMMA SupportedFacts ==
  ASSUME NEW p \in Processes, CommandError(p) = None, line.cmd # "clean",
         line.cmd = "test" => p = "inner", CheckSupportedBase,
         {proc[p].raw.base, proc[p].raw.buildbase} \cap EndOfLife # {}
  PROVE  line.ignore
<1>1. SupportedBaseError(p) = None
  BY CommandErrorFacts
<1>2. None # "RuntimeError" /\ None # "UnsupportedBase"
  BY NoneFacts DEF Errors
<1>3. ({None} \cup Development) \cap EndOfLife = {}
  BY ApplicationAssumption
<1>. QED BY <1>1, <1>2, <1>3 DEF SupportedBaseError, UnsupportedBase, Managed

\* A project for a base in development that was rendered has a development build base,
\* if it has one.
LEMMA DevelopmentFacts ==
  ASSUME NEW r, RenderError(r) = None, r.raw.base \in InDevelopment
  PROVE  r.raw.buildbase \in {None} \cup Development
<1>1. None # "CraftValidationError" /\ {None, "bare"} \cap InDevelopment = {}
  BY NoneFacts, ApplicationAssumption DEF Errors
<1>2. RenderForError(r.raw, r.conf) = None
  BY DEF RenderError
<1>3. ~DevelBaseError(r.raw)
  BY <1>1, <1>2, NoneFacts DEF RenderForError, ModelError, Errors
<1>. QED BY <1>1, <1>3 DEF DevelBaseError

\* Nothing is built on or for a base at its end of life that the user did not ask for, and
\* a project for a base in development that names a build base names a development base.
THEOREM BasesInvariant == Spec => []BasesOnPurpose
<1> DEFINE Inv == \A p \in Processes : BasesOf(p)
<1>1. Init => Inv
  BY FreshFacts DEF Init, BasesOf, Running
<1>2. Course /\ Commanded /\ Inv /\ [Next]_vars => Inv'
  <2>1. SUFFICES ASSUME Course, Commanded, Inv, [Next]_vars, NEW p \in Processes, proc'[p].pc \in Running
                 PROVE  BasesOf(p)'
    BY DEF BasesOf, Running
  <2>2. /\ Shape /\ CourseOf(p) /\ CommandedOf(p) /\ BasesOf(p) /\ line' = line
        /\ Command(p) \/ Setup(p) \/ Run(p) \/ proc'[p] = proc[p]
    BY <2>1, RunningStep DEF Course, Commanded
  <2>3. CASE Command(p)
    <3>1. proc[p].pc = "command" /\ proc[p].names = None /\ proc[p].fors = None
      BY <2>2, <2>3 DEF Command, At, CourseOf, Unfiltered
    <3>2. /\ CommandError(p) = None /\ ~UseProvider(p) /\ ~(line.cmd = "test" /\ ~Managed(p))
          /\ proc'[p].pc = "setup" /\ AllBut(proc'[p], proc[p], {"pc", "error", "snaps", "made", "names", "fors", "plan"})
      BY <2>1, <2>2, <2>3, <3>1, CommandStep DEF Running
    <3>3. proc'[p].raw = proc[p].raw
      BY <3>2 DEF AllBut, Fields
    <3>4. line.cmd = "test" => p = "inner"
      BY <3>2 DEF Managed
    <3>5. line.cmd # "clean" /\ CheckSupportedBase
            /\ {proc[p].raw.base, proc[p].raw.buildbase} \cap EndOfLife # {} => line.ignore
      BY <3>2, <3>4, SupportedFacts
    <3>. QED BY <2>2, <3>2, <3>3, <3>5 DEF BasesOf
  <2>4. CASE Setup(p)
    <3>1. /\ proc[p].pc = "setup" /\ RenderError(proc[p]) = None
          /\ AllBut(proc'[p], proc[p], {"pc", "error", "plan", "group", "arch", "parts"})
      BY <2>1, <2>2, <2>4, SetupStep DEF Running
    <3>2. proc'[p].raw = proc[p].raw
      BY <3>1 DEF AllBut, Fields
    <3>. QED BY <2>2, <3>1, <3>2, DevelopmentFacts DEF BasesOf, Running
  <2>5. CASE Run(p)
    <3>1. /\ proc[p].pc = "run" /\ AllBut(proc'[p], proc[p], {"pc", "error", "plan", "build"})
      BY <2>2, <2>5, RunStep
    <3>2. proc'[p].raw = proc[p].raw
      BY <3>1 DEF AllBut, Fields
    <3>. QED BY <2>2, <3>1, <3>2 DEF BasesOf, Running
  <2>6. CASE proc'[p] = proc[p]
    BY <2>2, <2>6 DEF BasesOf
  <2>. QED BY <2>2, <2>3, <2>4, <2>5, <2>6
<1>3. Inv => BasesOnPurpose
  BY DEF BasesOf, BasesOnPurpose, Running
<1>. QED BY <1>1, <1>2, <1>3, CourseInvariant, CommandedInvariant, PTL DEF Spec

\* A step is one of the process outside, or leaves it and what it relies on alone.
LEMMA OutsideStep ==
  ASSUME Course, [Next]_vars
  PROVE  \/ /\ proc'["outer"] = proc["outer"] /\ UNCHANGED <<line, queue, instance, tested, host>>
            /\ built' = built \/ Execute("inner")
            /\ proc'["inner"].pc = "ended" /\ proc'["inner"].error = None =>
                 proc'["inner"] = proc["inner"] \/ Execute("inner")
         \/ Start \/ Exit \/ Interrupt \/ Lint \/ CleanInstances \/ Launch \/ LaunchFails
         \/ Collect \/ Test
         \/ Boot("outer") \/ Configure("outer") \/ Command("outer")
         \/ Setup("outer") \/ Run("outer") \/ Execute("outer")
<1>1. /\ Shape /\ "outer" \in Processes /\ "inner" \in Processes
      /\ \A q \in Processes : q \in {"outer", "inner"} /\ CourseOf(q)
      /\ None # "EmptyBuildPlanError"
  BY NoneFacts DEF Course, Processes, Errors
<1>2. CASE Boot("inner")
  <2>1. proc["inner"] = Fresh
    BY <1>1, <1>2 DEF Boot, At, CourseOf
  <2>2. Others("inner") /\ UNCHANGED around /\ proc'["inner"].pc = "configure"
    BY <1>1, <1>2, <2>1, BootStep
  <2>. QED BY <1>1, <2>2 DEF Others, around
<1>3. CASE Configure("inner")
  BY <1>1, <1>3, ConfigureStep DEF Others, around
<1>4. CASE Command("inner")
  <2>1. proc["inner"].pc = "command" /\ proc["inner"].names = None /\ proc["inner"].fors = None
    BY <1>1, <1>4 DEF Command, At, CourseOf, Unfiltered
  <2>2. /\ Others("inner") /\ UNCHANGED <<line, queue, instance, tested, host, built>>
        /\ proc'["inner"].pc = "ended" => proc'["inner"].error # None
    BY <1>1, <1>4, <2>1, CommandStep
  <2>. QED BY <1>1, <2>2 DEF Others
<1>5. CASE Setup("inner")
  BY <1>1, <1>5, SetupStep DEF Others, around
<1>6. CASE Run("inner")
  BY <1>1, <1>6, RunStep DEF Others, around
<1>7. CASE Execute("inner")
  BY <1>1, <1>7, ExecuteStep DEF Others
<1>8. CASE Edit \/ UNCHANGED vars
  BY <1>8 DEF Edit, vars
<1>. QED BY <1>1, <1>2, <1>3, <1>4, <1>5, <1>6, <1>7, <1>8 DEF Next
-----------------------------------------------------------------------------
(* Instances and the Pro services in them. *)

\* What is enabled in an instance is recorded, or left by a launch that failed.
IsInstance(i) ==
  DOMAIN i = {"recorded", "enabled", "left"} /\ i.enabled = i.recorded \cup i.left
Instances ==
  DOMAIN instance = Slots /\ \A x \in Slots : instance[x] # None => IsInstance(instance[x])

\* What the process outside knows of the services that were asked for, and the
\* instance it waits for.
ServicesOf(r) ==
  /\ r.pc \in {"boot", "configure", "command"} => r.made.provider = Unmade
  /\ r.pc = "command" => r.kwargs.provider = Pro
  /\ r.pc \in Following => r.made.provider = Pro
AsRequested ==
  LET i == instance[InstanceName]
  IN proc["outer"].pc = "waiting" => i.recorded = Wanted(Pro) /\ i.enabled = Wanted(Pro) \cup i.left
Requested == Instances /\ ServicesOf(proc["outer"]) /\ AsRequested

\* What an instance is launched from is one, too.
LEMMA LaunchedFacts ==
  ASSUME Instances, ProviderNameError = None, Head(queue).platform \in Names
  PROVE  InstanceName \in Slots /\ IsInstance(Launched)
<1>1. None # "RuntimeError"
  BY NoneFacts DEF Errors
<1>2. InstanceName \in Slots
  BY <1>1 DEF ProviderNameError, InstanceName, Slots
<1>3. IsInstance(NewInstance)
  BY DEF IsInstance, NewInstance
<1>. QED BY <1>2, <1>3 DEF Launched, Instances

\* A change of the instance of the next build.
LEMMA SetInstanceFacts ==
  ASSUME Instances, InstanceName \in Slots, NEW state, IsInstance(state), SetInstance(state)
  PROVE  Instances' /\ instance'[InstanceName] = state
<1>1. /\ DOMAIN instance' = Slots /\ instance'[InstanceName] = state
      /\ \A x \in Slots : x # InstanceName => instance'[x] = instance[x]
  BY DEF SetInstance, Instances
<1>. QED BY <1>1 DEF Instances

\* The process outside waits for an instance with exactly the Pro services that were
\* asked for and those of launches that failed, and in any instance what is enabled is
\* recorded or one of these.
THEOREM RequestedInvariant == Spec => []Requested
<1>1. Init => Requested
  <2>1. SUFFICES ASSUME Init PROVE Requested
    OBVIOUS
  <2>2. Instances
    <3>1. instance = [slot \in Slots |-> None]
      BY <2>1 DEF Init
    <3>. QED BY <3>1 DEF Instances
  <2>3. proc["outer"].pc = "absent"
    <3>1. proc["outer"] = Absent
      BY <2>1 DEF Init, Processes
    <3>. QED BY <3>1, FreshFacts
  <2>. QED BY <2>2, <2>3 DEF Requested, ServicesOf, AsRequested, Following
<1>2. Course /\ Planned /\ Requested /\ [Next]_vars => Requested'
  <2>1. SUFFICES ASSUME Course, Planned, Requested, [Next]_vars PROVE Requested'
    OBVIOUS
  <2> DEFINE r == proc["outer"]
             s == proc'["outer"]
  <2>2. /\ Shape /\ "outer" \in Processes /\ Instances /\ CourseOf("outer") /\ ServicesOf(r)
        /\ r.pc \in Following => queue \in Seq(Builds) /\ queue # <<>>
    BY <2>1 DEF Course, Processes, Planned, Requested
  \* What is left to show for a step after which the process outside does not wait.
  <2>3. ASSUME line' = line, Instances', s.pc # "waiting",
               \/ s.pc \notin Following \cup {"boot", "configure", "command"}
               \/ s.pc = "configure" /\ s.made.provider = Unmade
               \/ s.pc = "command" /\ s.made.provider = Unmade /\ s.kwargs.provider = Pro
               \/ s.pc \in Following /\ s.made.provider = Pro
        PROVE  Requested'
    BY <2>3, StableFacts DEF Requested, ServicesOf, AsRequested, Following
  <2>4. ASSUME UNCHANGED instance PROVE Instances'
    BY <2>2, <2>4 DEF Instances
  <2>5. r.pc \in Following => Head(queue).platform \in Names
    <3>1. r.pc \in Following => Head(queue) \in Builds
      BY <2>2, TailFacts
    <3>. QED BY <3>1 DEF Builds
  <2>6. CASE s = r /\ UNCHANGED <<line, queue, instance, tested, host>>
    <3>1. /\ Pro' = Pro /\ InstanceName' = InstanceName
      BY <2>6, StableFacts DEF InstanceName
    <3>2. ServicesOf(proc["outer"])'
      BY <2>2, <2>6, <3>1 DEF ServicesOf
    <3>3. AsRequested'
      BY <2>1, <2>6, <3>1 DEF AsRequested, Requested, Wanted
    <3>. QED BY <2>4, <2>6, <3>2, <3>3 DEF Requested
  <2>7. CASE Boot("outer")
    <3>1. r = Fresh
      BY <2>2, <2>7 DEF Boot, At, CourseOf
    <3>2. UNCHANGED around /\ s.pc = "configure" /\ s.made.provider = Unmade
      BY <2>2, <2>7, <3>1, BootStep
    <3>. QED BY <2>3, <2>4, <3>2 DEF Following, around
  <2>8. CASE Configure("outer")
    <3>1. /\ r.pc = "configure" /\ UNCHANGED around /\ s.made.provider = r.made.provider
          /\ s.pc \in {"ended", "lint"} \/ (s.pc = "command" /\ s.kwargs.provider = Pro)
      BY <2>2, <2>8, ConfigureStep
    <3>. QED BY <2>2, <2>3, <2>4, <3>1 DEF Following, around, ServicesOf
  <2>9. CASE Command("outer")
    <3>1. r.pc = "command" /\ r.names = None /\ r.fors = None
      BY <2>2, <2>9 DEF Command, At, CourseOf, Unfiltered
    <3>2. /\ UNCHANGED <<line, instance>>
          /\ \/ s.pc \in {"ended", "clean", "setup"}
             \/ /\ s.pc = "launch"
                /\ s.made.provider = IF r.made.provider = Unmade THEN r.kwargs.provider ELSE r.made.provider
      BY <2>2, <2>9, <3>1, CommandStep
    <3>. QED BY <2>2, <2>3, <2>4, <3>1, <3>2 DEF Following, ServicesOf
  <2>10. CASE Lint \/ Setup("outer") \/ Run("outer") \/ Execute("outer")
    <3>1. UNCHANGED <<line, instance>> /\ s.pc \in {"ended", "run", "execute"}
      BY <2>2, <2>10, LintStep, SetupStep, RunStep, ExecuteStep DEF around
    <3>. QED BY <2>3, <2>4, <3>1 DEF Following
  <2>11. CASE CleanInstances
    <3> DEFINE plan == CreateBuildPlan(r.raw.platforms, None, None, {Host})
    <3>1. /\ line' = line /\ s.pc = "ended"
          /\ UNCHANGED instance \/ instance' = [slot \in Slots |->
               IF slot[1] = GetProvider /\ \E i \in DOMAIN plan : plan[i].platform = slot[2]
               THEN None ELSE instance[slot]]
      BY <2>2, <2>11, CleanStep
    <3> HIDE DEF plan
    <3>2. Instances'
      BY <2>2, <2>4, <3>1 DEF Instances
    <3>. QED BY <2>3, <3>1, <3>2 DEF Following
  <2>12. CASE Launch
    <3> DEFINE pro == Wanted(r.made.provider)
               state == [Launched EXCEPT !.recorded = IF pro # {} THEN pro ELSE @,
                                         !.enabled = @ \cup pro]
    <3>1. /\ r.pc = "launch" /\ UNCHANGED <<line, queue>> /\ AllBut(s, r, {"pc", "error"})
          /\ \/ /\ s.pc = "ended"
                /\ UNCHANGED instance \/ (ProviderNameError = None /\ SetInstance(Launched))
             \/ /\ s.pc = "waiting" /\ ProviderNameError = None /\ ~Mismatch(pro) /\ SetInstance(state)
      BY <2>2, <2>12, LaunchStep
    <3>2. s.made = r.made /\ r.made.provider = Pro
      BY <2>2, <3>1 DEF AllBut, Fields, ServicesOf, Following
    <3>3. ProviderNameError = None => InstanceName \in Slots /\ IsInstance(Launched)
      BY <2>2, <2>5, <3>1, LaunchedFacts DEF Following
    <3>4. CASE s.pc = "ended" /\ (UNCHANGED instance \/ (ProviderNameError = None /\ SetInstance(Launched)))
      BY <2>2, <2>3, <2>4, <3>1, <3>3, <3>4, SetInstanceFacts DEF Following
    <3>5. CASE s.pc = "waiting" /\ ProviderNameError = None /\ ~Mismatch(pro) /\ SetInstance(state)
      <4>0. IsInstance(Launched)
        BY <3>3, <3>5
      <4>1. /\ state.recorded = (IF pro # {} THEN pro ELSE Launched.recorded)
            /\ state.enabled = Launched.enabled \cup pro /\ state.left = Launched.left
            /\ DOMAIN state = {"recorded", "enabled", "left"}
        BY <4>0 DEF IsInstance
      <4> HIDE DEF pro, state
      <4>2. IsInstance(state)
        <5>1. Launched.recorded = {} \/ Launched.recorded = pro
          BY <3>5 DEF Mismatch
        <5>. QED BY <4>0, <4>1, <5>1 DEF IsInstance
      <4>3. Instances' /\ instance'[InstanceName] = state
        BY <2>2, <3>3, <3>5, <4>2, SetInstanceFacts
      <4>4. state.recorded = pro /\ state.enabled = pro \cup state.left
        <5>1. state.recorded = pro
          BY <3>5, <4>1 DEF Mismatch
        <5>. QED BY <4>2, <5>1 DEF IsInstance
      <4>5. pro = Wanted(Pro) /\ Pro' = Pro /\ InstanceName' = InstanceName
        BY <3>1, <3>2, StableFacts DEF InstanceName, pro
      <4>6. AsRequested'
        BY <4>3, <4>4, <4>5 DEF AsRequested, Wanted
      <4>7. ServicesOf(proc["outer"])'
        BY <3>2, <3>5, <4>5 DEF ServicesOf
      <4>. QED BY <4>3, <4>6, <4>7 DEF Requested
    <3>. QED BY <3>1, <3>4, <3>5
  <2>13. CASE LaunchFails
    <3>1. /\ r.pc = "launch" /\ line' = line /\ s.pc = "ended" /\ ProviderNameError = None
          /\ \/ UNCHANGED instance
             \/ \E some \in SUBSET Wanted(r.made.provider) :
                   SetInstance([Launched EXCEPT !.enabled = @ \cup some, !.left = @ \cup some])
      BY <2>2, <2>13, LaunchFailsStep
    <3>2. InstanceName \in Slots /\ IsInstance(Launched)
      BY <2>2, <2>5, <3>1, LaunchedFacts DEF Following
    <3>3. \A some : IsInstance([Launched EXCEPT !.enabled = @ \cup some, !.left = @ \cup some])
      BY <3>2 DEF IsInstance
    <3>4. Instances'
      BY <2>2, <2>4, <3>1, <3>2, <3>3, SetInstanceFacts
    <3>. QED BY <2>3, <3>1, <3>4 DEF Following
  <2>14. CASE Collect \/ Test
    <3>1. /\ r.pc \in Following /\ UNCHANGED <<line, instance>> /\ AllBut(s, r, {"pc", "error"})
          /\ s.pc \in {"ended", "test", "launch"}
      BY <2>2, <2>14, CollectStep, TestStep DEF Following
    <3>2. s.made = r.made
      BY <3>1 DEF AllBut, Fields
    <3>. QED BY <2>2, <2>3, <2>4, <3>1, <3>2 DEF Following, ServicesOf
  <2>15. CASE Interrupt \/ Exit \/ Start
    <3>1. UNCHANGED instance /\ (s.pc \in {"ended", "absent"} \/ s = Fresh)
      <4>1. CASE Interrupt
        BY <2>2, <4>1, InterruptStep DEF around
      <4>2. CASE Exit
        BY <2>2, <4>2, ExitStep, FreshFacts
      <4>3. CASE Start
        BY <2>2, <4>3, StartStep
      <4>. QED BY <2>15, <4>1, <4>2, <4>3
    <3>. QED BY <2>4, <3>1, FreshFacts DEF Requested, ServicesOf, AsRequested, Following
  <2>. QED BY <2>1, <2>6, <2>7, <2>8, <2>9, <2>10, <2>11, <2>12, <2>13, <2>14, <2>15, OutsideStep
<1>. QED BY <1>1, <1>2, CourseInvariant, PlannedInvariant, PTL DEF Spec

\* A build runs with exactly the Pro services that were asked for, but for those that a
\* launch enabled which failed before it had made a record.
THEOREM ProInvariant == Spec => []ProAsRequested
<1>1. Course /\ Requested => ProAsRequested
  BY DEF Course, Requested, AsRequested, ProAsRequested, Alive, At
<1>. QED BY <1>1, CourseInvariant, RequestedInvariant, PTL
-----------------------------------------------------------------------------
(* What a lint shows, and what a test runs. *)

\* What is shown of a context is what no rule of the project or the user is about.
LEMMA LintFacts ==
  ASSUME Course, line # None, NEW stage, NEW context, NEW raw
  PROVE  LET shown == RunLinters(stage, context, BuildIgnoreConfig(raw, line.rules))
         IN /\ shown = {f \in Found(stage, context) : ~AskedToIgnore(f[1], f[2], raw, line.rules)}
            /\ (Summary(shown) # 0) = (\E f \in shown : f[2].severity = Error)
<1> DEFINE shown == RunLinters(stage, context, BuildIgnoreConfig(raw, line.rules))
<1>1. line.rules \in Seq(RuleSet)
  BY LineFacts DEF Course, RuleSet
<1>2. \A f : ShouldIgnore(f[1], f[2], BuildIgnoreConfig(raw, line.rules))
               <=> AskedToIgnore(f[1], f[2], raw, line.rules)
  BY <1>1, IgnoreFacts
<1>3. shown = {f \in Found(stage, context) : ~AskedToIgnore(f[1], f[2], raw, line.rules)}
  BY <1>2 DEF RunLinters
<1>4. shown \in SUBSET Found(stage, context)
  BY <1>3
<1>5. (Summary(shown) # 0) <=> \E f \in shown : f[2].severity = Error
  BY <1>4, SummaryFacts
<1>. QED BY <1>3, <1>5

\* A lint that was carried out shows every issue but those that some rule is about, and
\* it fails if an error is shown and does not if what is shown only informs.
THEOREM LintInvariant == Spec => []LintedAsAsked
<1>1. Init => LintedAsAsked
  <2>1. SUFFICES ASSUME Init PROVE LintedAsAsked
    OBVIOUS
  <2>2. proc["outer"] = Absent
    BY <2>1 DEF Init, Processes
  <2>. QED BY <2>2, FreshFacts DEF LintedAsAsked
<1>2. Course /\ LintedAsAsked /\ [Next]_vars => LintedAsAsked'
  <2> DEFINE r == proc["outer"]
             s == proc'["outer"]
  <2>1. SUFFICES ASSUME Course, LintedAsAsked, [Next]_vars,
                        s.pc = "ended", s.error = None, line'.cmd = "lint"
                 PROVE  LintedAsAsked'
    BY DEF LintedAsAsked
  <2>2. /\ Shape /\ "outer" \in Processes /\ CourseOf("outer")
        /\ r.pc \in Rendered => line.cmd # "lint"
        /\ None # "KeyboardInterrupt"
    BY <2>1, NoneFacts DEF Course, CourseOf, Processes, Errors
  <2>3. CASE s = r /\ UNCHANGED <<line, queue, instance, tested, host>>
    BY <2>1, <2>3 DEF LintedAsAsked, LintContext, Stage
  <2>4. CASE Boot("outer")
    <3>1. r = Fresh
      BY <2>2, <2>4 DEF Boot, At, CourseOf
    <3>2. s.pc = "configure"
      BY <2>2, <2>4, <3>1, BootStep
    <3>. QED BY <2>1, <3>2
  <2>5. CASE Configure("outer")
    <3>1. s.pc = "ended" => s.error # None
      BY <2>2, <2>5, ConfigureStep
    <3>. QED BY <2>1, <3>1
  <2>6. CASE Command("outer")
    <3>1. r.pc = "command" /\ r.names = None /\ r.fors = None
      BY <2>2, <2>6 DEF Command, At, CourseOf, Unfiltered
    <3>2. line' = line
      BY <2>2, <2>6, <3>1, CommandStep
    <3>. QED BY <2>1, <2>2, <3>1, <3>2 DEF Rendered, Reading
  <2>7. CASE Setup("outer") \/ Run("outer") \/ Execute("outer")
    <3>1. line' = line /\ r.pc \in {"setup", "run", "execute"}
      BY <2>2, <2>7, SetupStep, RunStep, ExecuteStep DEF around
    <3>. QED BY <2>1, <2>2, <3>1 DEF Rendered, Reading
  <2>8. CASE CleanInstances \/ Launch \/ LaunchFails \/ Collect \/ Test
    <3>1. line' = line /\ r.pc \in {"clean", "launch", "waiting", "test"}
      BY <2>2, <2>8, CleanStep, LaunchStep, LaunchFailsStep, CollectStep, TestStep
    <3>. QED BY <2>1, <2>2, <3>1 DEF Rendered, Reading
  <2>9. CASE Lint
    <3> DEFINE shown == RunLinters(Stage, LintContext(r), BuildIgnoreConfig(r.raw.ignores, line.rules))
    <3>1. /\ r.pc = "lint" /\ line' = line /\ AllBut(s, r, {"pc", "error", "shown", "ret"})
          /\ \/ LintError(r) # None /\ s.error = LintError(r)
             \/ s.shown = shown /\ s.ret = Summary(shown)
      BY <2>2, <2>9, LintStep DEF around
    <3>2. s.shown = shown /\ s.ret = Summary(shown)
      BY <2>1, <3>1
    <3>3. s.raw = r.raw
      BY <3>1 DEF AllBut, Fields
    <3>4. line # None
      BY <2>1, <3>1, FreshFacts DEF Course, Processes
    <3>5. /\ shown = {f \in Found(Stage, LintContext(r)) :
                        ~AskedToIgnore(f[1], f[2], r.raw.ignores, line.rules)}
          /\ (Summary(shown) # 0) = (\E f \in shown : f[2].severity = Error)
      <4> HIDE DEF r
      <4>. QED BY <2>1, <3>4, LintFacts
    <3>6. Stage' = Stage /\ LintContext(proc["outer"])' = LintContext(r)
      BY <3>1, <3>3 DEF Stage, LintContext
    <3>7. Info # Error
      BY DEF Info, Error
    <3> HIDE DEF shown
    <3>8. /\ (\E f \in shown : f[2].severity = Error) => Summary(shown) # 0
          /\ (\A f \in shown : f[2].severity = Info) => Summary(shown) = 0
      BY <3>5, <3>7
    <3>. QED BY <3>1, <3>2, <3>3, <3>5, <3>6, <3>8 DEF LintedAsAsked
  <2>10. CASE Interrupt
    <3>1. s.error = "KeyboardInterrupt"
      BY <2>2, <2>10, InterruptStep
    <3>. QED BY <2>1, <2>2, <3>1
  <2>11. CASE Start \/ Exit
    <3>1. s = Fresh \/ s = Absent
      BY <2>2, <2>11, StartStep, ExitStep
    <3>. QED BY <2>1, <3>1, FreshFacts
  <2>. QED BY <2>1, <2>3, <2>4, <2>5, <2>6, <2>7, <2>8, <2>9, <2>10, <2>11, OutsideStep
<1>. QED BY <1>1, <1>2, CourseInvariant, PTL DEF Spec

\* What a test ran is what was asked for: the tests of the project that outer read, which
\* no edit changes.
TestsOf(t) ==
  LET spread == proc["outer"].raw.spread
  IN /\ t.jobs = RunSpread(spread, line.expressions, line.ci) /\ t.jobs # {}
Tests ==
  LET r == proc["outer"]
  IN /\ r.pc \in Following /\ line.cmd = "test" => r.raw.spread # None
     /\ tested # {} => /\ line # None /\ r.pc \in Following \cup {"ended"} /\ r.raw \in Projects
                       /\ r.raw.spread # None
     /\ \A t \in tested : TestsOf(t)

\* What is tested is tested with all jobs that were asked for and no others.
THEOREM TestInvariant == Spec => []TestedAsAsked
<1>1. Init => Tests
  <2>1. SUFFICES ASSUME Init PROVE Tests
    OBVIOUS
  <2>2. proc["outer"] = Absent /\ tested = {}
    BY <2>1 DEF Init, Processes
  <2>. QED BY <2>2, FreshFacts DEF Tests, Following
<1>2. Course /\ Commanded /\ Tests /\ [Next]_vars => Tests'
  <2> DEFINE r == proc["outer"]
             s == proc'["outer"]
  <2>1. SUFFICES ASSUME Course, Commanded, Tests, [Next]_vars
                 PROVE  Tests'
    OBVIOUS
  <2>2. /\ Shape /\ "outer" \in Processes /\ CourseOf("outer") /\ CommandedOf("outer")
        /\ r.pc \in Reading => Read("outer")
        /\ Alive("outer") /\ r.pc \notin Following => tested = {}
        /\ r.pc # "absent" => line # None
    BY <2>1, FreshFacts DEF Course, CourseOf, Commanded, Processes
  \* What is left to show for a step that tests nothing.
  <2>3. ASSUME line' = line, tested' = tested, s.raw = r.raw \/ tested = {},
               tested # {} => s.pc \in Following \cup {"ended"},
               s.pc \in Following /\ line.cmd = "test" => s.raw.spread # None
        PROVE  Tests'
    BY <2>1, <2>3 DEF Tests, TestsOf
  <2>4. CASE s = r /\ UNCHANGED <<line, queue, instance, tested, host>>
    BY <2>1, <2>3, <2>4 DEF Tests
  <2>5. CASE Boot("outer")
    <3>1. r = Fresh
      BY <2>2, <2>5 DEF Boot, At, CourseOf
    <3>2. UNCHANGED around /\ s.pc = "configure" /\ r.pc = "boot"
      BY <2>2, <2>5, <3>1, FreshFacts, BootStep
    <3>. QED BY <2>2, <2>3, <3>2 DEF Alive, Following, around
  <2>6. CASE Configure("outer")
    <3>1. UNCHANGED around /\ r.pc = "configure" /\ s.pc \in {"ended", "lint", "command"}
      BY <2>2, <2>6, ConfigureStep
    <3>. QED BY <2>2, <2>3, <3>1 DEF Alive, Following, around
  <2>7. CASE Command("outer")
    <3>1. r.pc = "command" /\ r.names = None /\ r.fors = None
      BY <2>2, <2>7 DEF Command, At, CourseOf, Unfiltered
    <3>2. /\ UNCHANGED <<line, tested>>
          /\ AllBut(s, r, {"pc", "error", "snaps", "made", "names", "fors", "plan"})
          /\ s.pc \in {"ended", "clean", "setup"} \/ (s.pc = "launch" /\ CommandError("outer") = None)
      BY <2>2, <2>7, <3>1, CommandStep
    <3>3. s.raw = r.raw /\ tested = {}
      BY <2>2, <3>1, <3>2 DEF Alive, Following, AllBut, Fields
    <3>4. s.pc = "launch" /\ line.cmd = "test" => r.raw.spread # None
      <4>1. SUFFICES ASSUME s.pc = "launch", line.cmd = "test" PROVE r.raw.spread # None
        OBVIOUS
      <4>2. SpreadError = None
        BY <3>2, <4>1, CommandErrorFacts
      <4>3. project.spread # None
        BY <4>1, <4>2, NoneFacts DEF SpreadError, Errors
      <4>4. r.raw = project \/ <<r.raw, project>> \in Edits
        BY <2>2, <3>1 DEF Read, Reading
      <4>. QED BY <4>3, <4>4, EditFacts
    <3>. QED BY <2>3, <3>2, <3>3, <3>4 DEF Following
  <2>8. CASE Setup("outer") \/ Run("outer") \/ Execute("outer") \/ Lint \/ CleanInstances
    <3>1. /\ UNCHANGED <<line, tested>> /\ r.pc \in {"setup", "run", "execute", "lint", "clean"}
          /\ s.pc \in {"ended", "run", "execute"}
      BY <2>2, <2>8, SetupStep, RunStep, ExecuteStep, LintStep, CleanStep DEF around
    <3>. QED BY <2>2, <2>3, <3>1 DEF Alive, Following
  <2>9. CASE Launch \/ LaunchFails \/ Collect
    <3>1. /\ UNCHANGED <<line, tested>> /\ r.pc \in Following /\ AllBut(s, r, {"pc", "error"})
          /\ s.pc \in {"ended", "waiting", "launch", "test"}
      BY <2>2, <2>9, LaunchStep, LaunchFailsStep, CollectStep DEF Following
    <3>2. s.raw = r.raw
      BY <3>1 DEF AllBut, Fields
    <3>. QED BY <2>1, <2>3, <3>1, <3>2 DEF Following, Tests
  <2>10. CASE Test
    <3> DEFINE jobs == RunSpread(project.spread, line.expressions, line.ci)
    <3>1. /\ r.pc = "test" /\ line' = line /\ AllBut(s, r, {"pc", "error"})
          /\ s.pc \in {"ended", "launch"}
          /\ \/ tested' = tested
             \/ jobs # {} /\ tested' = tested \cup {[platform |-> Head(queue).platform, jobs |-> jobs]}
      BY <2>2, <2>10, TestStep
    <3>2. s.raw = r.raw /\ line.cmd = "test" /\ r.raw.spread # None
      BY <2>1, <2>2, <3>1 DEF AllBut, Fields, CommandedOf, Tests, Following
    <3>3. r.raw \in Projects /\ project.spread = r.raw.spread
      BY <2>2, <3>1, EditFacts DEF Read, Reading
    <3>4. CASE tested' = tested
      BY <2>1, <2>3, <3>1, <3>2, <3>4 DEF Following, Tests
    <3>5. CASE jobs # {} /\ tested' = tested \cup {[platform |-> Head(queue).platform, jobs |-> jobs]}
      <4>1. \A t \in tested' : TestsOf(t)'
        BY <2>1, <3>1, <3>2, <3>3, <3>5 DEF Tests, TestsOf
      <4>. QED BY <2>2, <3>1, <3>2, <3>3, <4>1 DEF Tests, Following
    <3>. QED BY <3>1, <3>4, <3>5
  <2>11. CASE Interrupt
    <3>1. UNCHANGED around /\ s.pc = "ended" /\ AllBut(s, r, {"pc", "error"})
      BY <2>2, <2>11, InterruptStep
    <3>2. s.raw = r.raw
      BY <3>1 DEF AllBut, Fields
    <3>. QED BY <2>3, <3>1, <3>2 DEF Following, around
  <2>12. CASE Start \/ Exit
    <3>1. (s = Fresh \/ s = Absent) /\ tested' = {}
      BY <2>1, <2>2, <2>12, StartStep, ExitStep DEF Course
    <3>. QED BY <3>1, FreshFacts DEF Tests, Following
  <2>. QED BY <2>1, <2>4, <2>5, <2>6, <2>7, <2>8, <2>9, <2>10, <2>11, <2>12, OutsideStep
<1>3. Tests => TestedAsAsked
  <2>1. SUFFICES ASSUME Tests, NEW t \in tested
                 PROVE  /\ t.jobs = AskedJobs(proc["outer"].raw.spread, line.expressions, line.ci)
                        /\ t.jobs # {}
                        /\ (\E j \in t.jobs : j.type = "ci") => line.ci # None
    BY DEF TestedAsAsked
  <2>2. /\ proc["outer"].raw \in Files /\ proc["outer"].raw.spread # None
        /\ t.jobs = RunSpread(proc["outer"].raw.spread, line.expressions, line.ci) /\ t.jobs # {}
    BY <2>1 DEF Tests, TestsOf, Files
  <2> DEFINE j == proc["outer"].raw
  <2>3. /\ RunSpread(j.spread, line.expressions, line.ci) = AskedJobs(j.spread, line.expressions, line.ci)
        /\ \A job \in RunSpread(j.spread, line.expressions, line.ci) : job.type = "ci" => line.ci # None
    <3> HIDE DEF j
    <3>. QED BY <2>2, RunSpreadFacts DEF j
  <2>. QED BY <2>2, <2>3
<1>. QED BY <1>1, <1>2, <1>3, CourseInvariant, CommandedInvariant, PTL DEF Spec
-----------------------------------------------------------------------------
(* Builds. *)

\* A process that renders a project plans builds of it.
LEMMA PlanOfFacts ==
  ASSUME Course, Planned, NEW p \in Processes, proc[p].pc \in Rendered, NEW s, s.raw = proc[p].raw
  PROVE  proc[p].raw \in Files /\ Valid(proc[p].raw.platforms) /\ PlanOf(p, s) \in Seq(Builds)
<1>1. proc[p].raw \in Files
  BY DEF Course, CourseOf, Read, Files, Rendered, Reading
<1>2. Valid(proc[p].raw.platforms)
  BY ValidWhenRendered DEF Planned
<1>3. CreateBuildPlan(s.raw.platforms, s.names, s.fors, {Machine(p)}) \in Seq(Builds)
  BY <1>1, <1>2, PlanFacts DEF IsPlan
<1>. QED BY <1>1, <1>2, <1>3 DEF PlanOf

\* The architecture of a process that is alive.
LEMMA MachineFacts ==
  ASSUME Planned, NEW p \in Processes, Alive(p)
  PROVE  Machine(p) \in Archs
BY ApplicationAssumption DEF Planned, Machine, Processes

\* The architecture craft-parts is set up for is one.
LEMMA BuildForFacts ==
  ASSUME NEW p, Machine(p) \in Archs, NEW s, s.plan \in Seq(Builds)
  PROVE  GetBuildFor(p, s) \in Archs
<1>1. CASE s.plan = <<>>
  BY <1>1 DEF GetBuildFor
<1>2. CASE s.plan # <<>>
  <2>1. Head(s.plan) \in Builds
    BY <1>2, TailFacts
  <2>. QED BY <2>1 DEF GetBuildFor, Builds, Targets
<1>. QED BY <1>1, <1>2

TypedOf(p) ==
  /\ proc[p].arch \in Archs \cup {None}
  /\ proc[p].conf \in Builds \cup {None}
  /\ proc[p].build \in Builds \cup {None}
  /\ proc[p].plan \in Seq(Builds)
Typed == queue \in Seq(Builds) /\ built \subseteq Names /\ \A p \in Processes : TypedOf(p)

\* What is planned, configured and built are builds of the projects there are.
THEOREM TypedInvariant == Spec => []Typed
<1>1. Init => Typed
  <2>1. SUFFICES ASSUME Init, NEW p \in Processes PROVE Typed
    BY DEF Processes
  <2>2. queue = <<>> /\ built = {} /\ \A q \in Processes : proc[q] = Absent
    BY <2>1 DEF Init
  <2>3. /\ Absent.arch = None /\ Absent.conf = None /\ Absent.build = None /\ Absent.plan = <<>>
    BY FreshFacts DEF AllBut, Fields
  <2>4. <<>> \in Seq(Builds)
    BY EmptySeq
  <2>. QED BY <2>2, <2>3, <2>4 DEF Typed, TypedOf
<1>2. Course /\ Planned /\ Typed /\ [Next]_vars => Typed'
  <2>1. SUFFICES ASSUME Course, Planned, Typed, [Next]_vars PROVE Typed'
    OBVIOUS
  <2>2. /\ Shape /\ "outer" \in Processes /\ "inner" \in Processes
        /\ \A p \in Processes : CourseOf(p) /\ PlannedOf(p) /\ TypedOf(p)
        /\ queue \in Seq(Builds) /\ built \subseteq Names
        /\ proc["outer"].pc \in Following => queue # <<>>
    BY <2>1 DEF Course, Planned, Typed, Processes
  \* What is left to show for a step of one process, of which it keeps some of what it holds.
  <2>3. ASSUME NEW p \in Processes, Others(p), NEW changed,
               AllBut(proc'[p], proc[p], changed),
               "arch" \in changed => proc'[p].arch \in Archs \cup {None},
               "conf" \in changed => proc'[p].conf \in Builds \cup {None},
               "build" \in changed => proc'[p].build \in Builds \cup {None},
               "plan" \in changed => proc'[p].plan \in Seq(Builds),
               queue' \in Seq(Builds), built' \subseteq Names
        PROVE  Typed'
    <3>1. TypedOf(p)'
      BY <2>2, <2>3 DEF TypedOf, AllBut, Fields
    <3>. QED BY <2>2, <2>3, <3>1 DEF Typed, TypedOf, Others
  <2>4. ASSUME NEW p \in Processes, Boot(p) PROVE Typed'
    <3>1. proc[p] = Fresh
      BY <2>2, <2>4 DEF Boot, At, CourseOf
    <3>2. /\ UNCHANGED around /\ Others(p)
          /\ AllBut(proc'[p], Fresh, {"pc", "raw", "made", "plan", "group"})
          /\ proc'[p].plan = IF Valid(project.platforms)
                             THEN CreateBuildPlan(project.platforms, None, None, {Machine(p)}) ELSE <<>>
      <4>1. ProjectFile(p) = project
        BY ProjectFileFacts
      <4>. QED BY <2>2, <2>4, <3>1, <4>1, BootStep
    <3>3. project \in Files
      BY <2>1 DEF Course, Files
    <3>4. proc'[p].plan \in Seq(Builds)
      <4>1. Valid(project.platforms) =>
              CreateBuildPlan(project.platforms, None, None, {Machine(p)}) \in Seq(Builds)
        BY <3>3, PlanFacts DEF IsPlan
      <4>. QED BY <3>2, <4>1, EmptySeq
    <3>. QED BY <2>2, <2>3, <3>1, <3>2, <3>4 DEF around
  <2>5. ASSUME NEW p \in Processes, Configure(p) PROVE Typed'
    <3> DEFINE error == ConfigureError(proc[p].raw.platforms, Machine(p), Platform(p), BuildFor(p))
               conf == Configured(proc[p].raw.platforms, Machine(p), Platform(p), BuildFor(p))
    <3>1. /\ proc[p].pc = "configure" /\ UNCHANGED around /\ Others(p)
          /\ AllBut(proc'[p], proc[p], {"pc", "error", "kwargs", "made", "conf"})
          /\ proc'[p].conf = proc[p].conf \/ (error = None /\ proc'[p].conf = conf)
      BY <2>2, <2>5, ConfigureStep
    <3>2. proc[p].raw \in Files /\ Machine(p) \in Archs
      BY <2>1, <2>2, <3>1, MachineFacts DEF CourseOf, Read, Files, Reading, Alive
    <3>3. error = None => conf \in Builds
      BY <3>2, ConfigureFacts
    <3> HIDE DEF error, conf
    <3>4. proc'[p].conf \in Builds \cup {None}
      BY <2>2, <3>1, <3>3 DEF TypedOf
    <3>. QED BY <2>2, <2>3, <3>1, <3>4 DEF around
  <2>6. ASSUME NEW p \in Processes, Command(p) PROVE Typed'
    <3>1. proc[p].pc = "command" /\ proc[p].names = None /\ proc[p].fors = None
      BY <2>2, <2>6 DEF Command, At, CourseOf, Unfiltered
    <3>2. /\ UNCHANGED <<line, built>> /\ Others(p)
          /\ AllBut(proc'[p], proc[p], {"pc", "error", "snaps", "made", "names", "fors", "plan"})
          /\ proc'[p].plan \in {proc[p].plan, <<>>, PlanOf(p, proc'[p])}
          /\ queue' \in {queue, proc'[p].plan}
      BY <2>2, <2>6, <3>1, CommandStep
    <3>3. proc'[p].raw = proc[p].raw
      BY <3>2 DEF AllBut, Fields
    <3>4. PlanOf(p, proc'[p]) \in Seq(Builds)
      BY <2>1, <3>1, <3>3, PlanOfFacts DEF Rendered, Reading
    <3>5. proc'[p].plan \in Seq(Builds)
      BY <2>2, <3>2, <3>4, EmptySeq DEF TypedOf
    <3>. QED BY <2>2, <2>3, <3>2, <3>5
  <2>7. ASSUME NEW p \in Processes, Setup(p) PROVE Typed'
    <3>1. /\ proc[p].pc = "setup" /\ UNCHANGED around /\ Others(p)
          /\ AllBut(proc'[p], proc[p], {"pc", "error", "plan", "group", "arch", "parts"})
          /\ proc'[p].plan \in {proc[p].plan, PlanOf(p, proc[p])}
          /\ proc'[p].arch \in {proc[p].arch, GetBuildFor(p, proc'[p])}
      BY <2>2, <2>7, SetupStep
    <3>2. PlanOf(p, proc[p]) \in Seq(Builds) /\ Machine(p) \in Archs
      BY <2>1, <3>1, PlanOfFacts, MachineFacts DEF Rendered, Reading, Alive
    <3>3. proc'[p].plan \in Seq(Builds)
      BY <2>2, <3>1, <3>2 DEF TypedOf
    <3>4. proc'[p].arch \in Archs \cup {None}
      BY <2>2, <3>1, <3>2, <3>3, BuildForFacts DEF TypedOf
    <3>. QED BY <2>2, <2>3, <3>1, <3>3, <3>4 DEF around
  <2>8. ASSUME NEW p \in Processes, Run(p) PROVE Typed'
    <3>1. /\ proc[p].pc = "run" /\ UNCHANGED around /\ Others(p)
          /\ AllBut(proc'[p], proc[p], {"pc", "error", "plan", "build"})
          /\ proc'[p].plan \in {proc[p].plan, PlanOf(p, proc[p])}
          /\ \/ proc'[p].build = proc[p].build
             \/ proc'[p].build = Head(proc'[p].plan) /\ BuildInfoError(proc'[p]) = None
      BY <2>2, <2>8, RunStep
    <3>2. PlanOf(p, proc[p]) \in Seq(Builds)
      BY <2>1, <3>1, PlanOfFacts DEF Rendered, Reading
    <3>3. proc'[p].plan \in Seq(Builds)
      BY <2>2, <3>1, <3>2 DEF TypedOf
    <3>4. BuildInfoError(proc'[p]) = None => proc'[p].plan # <<>>
      BY <3>3, NoneFacts DEF BuildInfoError, Errors
    <3>5. proc'[p].build \in Builds \cup {None}
      BY <2>2, <3>1, <3>3, <3>4, TailFacts DEF TypedOf
    <3>. QED BY <2>2, <2>3, <3>1, <3>3, <3>5 DEF around
  <2>9. ASSUME NEW p \in Processes, Execute(p) PROVE Typed'
    <3>1. /\ proc[p].pc = "execute" /\ UNCHANGED <<line, queue>> /\ Others(p)
          /\ AllBut(proc'[p], proc[p], {"pc", "error"})
          /\ \/ built' = built
             \/ line.cmd # "clean" /\ built' = built \cup {proc[p].build.platform}
      BY <2>2, <2>9, ExecuteStep
    <3>2. line.cmd # "clean" => proc[p].build \in Builds
      <4>1. SUFFICES ASSUME line.cmd # "clean" PROVE proc[p].build \in Builds
        OBVIOUS
      <4>2. BuildInfoError(proc[p]) = None /\ proc[p].build = Head(proc[p].plan) /\ proc[p].plan \in Seq(Builds)
        BY <2>2, <3>1, <4>1 DEF PlannedOf, TypedOf
      <4>3. proc[p].plan # <<>>
        BY <4>2, NoneFacts DEF BuildInfoError, Errors
      <4>. QED BY <4>2, <4>3, TailFacts
    <3>3. built' \subseteq Names
      BY <2>2, <3>1, <3>2 DEF Builds
    <3>. QED BY <2>2, <2>3, <3>1, <3>3
  <2>10. CASE Lint \/ CleanInstances \/ LaunchFails \/ Collect \/ Test
    <3>1. /\ UNCHANGED <<line, built>> /\ Others("outer")
          /\ AllBut(proc'["outer"], proc["outer"], {"pc", "error", "shown", "ret"})
          /\ queue' = queue \/ (proc["outer"].pc \in Following /\ queue' = Tail(queue))
      <4>1. CASE Lint
        BY <2>2, <4>1, LintStep DEF around
      <4>2. CASE CleanInstances \/ LaunchFails
        BY <2>2, <4>2, CleanStep, LaunchFailsStep DEF AllBut
      <4>3. CASE Collect
        BY <2>2, <4>3, CollectStep DEF AllBut, Following
      <4>4. CASE Test
        BY <2>2, <4>4, TestStep DEF AllBut, Following
      <4>. QED BY <2>10, <4>1, <4>2, <4>3, <4>4
    <3>2. queue' \in Seq(Builds)
      BY <2>2, <3>1, TailFacts
    <3>. QED BY <2>2, <2>3, <3>1, <3>2
  <2>11. CASE Launch
    <3>1. /\ UNCHANGED <<line, queue, built>> /\ AllBut(proc'["outer"], proc["outer"], {"pc", "error"})
          /\ Others("outer") \/ proc'["inner"] = Fresh
      BY <2>2, <2>11, LaunchStep
    <3>2. CASE Others("outer")
      BY <2>2, <2>3, <3>1, <3>2
    <3>3. CASE proc'["inner"] = Fresh
      <4>1. TypedOf("outer")'
        BY <2>2, <3>1 DEF TypedOf, AllBut, Fields
      <4>2. TypedOf("inner")'
        BY <3>3, FreshFacts DEF TypedOf
      <4>. QED BY <2>2, <3>1, <4>1, <4>2 DEF Typed, Processes
    <3>. QED BY <3>1, <3>2, <3>3
  <2>12. CASE Interrupt
    <3>1. /\ UNCHANGED around
          /\ \A p \in Processes : proc'[p] = proc[p] \/ AllBut(proc'[p], proc[p], {"pc", "error"})
      BY <2>2, <2>12, InterruptStep
    <3>2. \A p \in Processes : TypedOf(p)'
      BY <2>2, <3>1 DEF TypedOf, AllBut, Fields
    <3>. QED BY <2>2, <3>1, <3>2 DEF Typed, around
  <2>13. CASE Start \/ Exit
    <3>1. /\ \A p \in Processes : proc'[p] \in {proc[p], Fresh, Absent}
          /\ queue' \in {queue, <<>>} /\ built' \in {built, {}}
      BY <2>2, <2>13, StartStep, ExitStep DEF Others
    <3>2. \A p \in Processes : TypedOf(p)'
      <4>1. \A x : x \in {Fresh, Absent} => /\ x.arch = None /\ x.conf = None /\ x.build = None
                                            /\ x.plan = <<>>
        BY FreshFacts DEF AllBut, Fields
      <4>. QED BY <2>2, <3>1, <4>1, EmptySeq DEF TypedOf
    <3>. QED BY <2>2, <3>1, <3>2, EmptySeq DEF Typed
  <2>14. CASE Edit \/ UNCHANGED vars
    BY <2>1, <2>14 DEF Edit, vars, Typed, TypedOf
  <2>. QED
    BY <2>1, <2>4, <2>5, <2>6, <2>7, <2>8, <2>9, <2>10, <2>11, <2>12, <2>13, <2>14 DEF Next
<1>. QED BY <1>1, <1>2, CourseInvariant, PlannedInvariant, PTL DEF Spec
-----------------------------------------------------------------------------
(* What is asked for, and what of it is done. *)

\* A filter of one value, or none.
LEMMA FilterFacts ==
  ASSUME NEW x \in Names \cup Targets \cup {None}, NEW value
  PROVE  Keeps(Filter(x), value) <=> x = None \/ value = x
<1>1. CASE x = None
  BY <1>1 DEF Keeps, Filter
<1>2. CASE x # None
  <2>1. None # {x}
    BY <1>2, ApplicationAssumption
  <2>. QED BY <1>2, <2>1 DEF Keeps, Filter
<1>. QED BY <1>1, <1>2

\* The platforms of a project have names of their own.
LEMMA NamedFacts ==
  ASSUME NEW j \in Files, NEW i \in DOMAIN Platforms(j.platforms)
  PROVE  Named(Platforms(j.platforms), Platforms(j.platforms)[i].name) = Platforms(j.platforms)[i]
<1> DEFINE ps == Platforms(j.platforms)
<1>1. \A k \in DOMAIN ps : ps[k].name = ps[i].name => k = i
  BY PlatformFacts
<1> HIDE DEF ps
<1>2. (CHOOSE k \in DOMAIN ps : ps[k].name = ps[i].name) = i
  BY <1>1 DEF ps
<1>. QED BY <1>2 DEF Named, ps

\* A configured project has the platform that was named, and a target is one.
LEMMA AskedFacts ==
  ASSUME Course, Planned, NEW p \in Processes, proc[p].pc \in Rendered
  PROVE  /\ Platform(p) \in NamesOf(proc[p].raw) \cup {None} /\ BuildFor(p) \in Targets \cup {None}
         /\ AskedPlatform(p) \in NamesOf(proc[p].raw) \cup {None} /\ AskedFor(p) \in Targets \cup {None}
         /\ NamesOf(proc[p].raw) \subseteq Names
<1>1. /\ proc[p].raw \in Files
      /\ ConfigureError(proc[p].raw.platforms, Machine(p), Platform(p), BuildFor(p)) = None
  BY DEF Course, CourseOf, Read, Files, Rendered, Reading, Planned, PlannedOf
<1>2. /\ None # "InvalidPlatforms" /\ None # "InvalidPlatformError" /\ None # "CraftValidationError"
  BY NoneFacts DEF Errors
<1>3. /\ NamesOf(proc[p].raw) = {Platforms(proc[p].raw.platforms)[i].name :
                                   i \in DOMAIN Platforms(proc[p].raw.platforms)}
      /\ NamesOf(proc[p].raw) \subseteq Names
  BY <1>1, PlatformFacts
<1>4. Platform(p) \in NamesOf(proc[p].raw) \cup {None} /\ BuildFor(p) \in Targets \cup {None}
  BY <1>1, <1>2, <1>3 DEF ConfigureError
<1>5. AskedPlatform(p) \in {Platform(p), None} /\ AskedFor(p) \in {BuildFor(p), None}
  BY DEF AskedPlatform, AskedFor, Platform
<1>. QED BY <1>3, <1>4, <1>5

\* The builds on a machine of one platform, for one target or for any, of a project.
Suits(raw, i, machine, x, y) ==
  LET p == Platforms(raw.platforms)[i]
  IN machine \in Range(p.on) /\ x \in {None, p.name} /\ y \in {None, p.for}
PlansFor(plan, raw, machine, x, y) ==
  LET ps == Platforms(raw.platforms)
  IN /\ plan \in Seq(Builds)
     /\ \A k \in 1 .. Len(plan) : \E i \in DOMAIN ps :
          /\ Suits(raw, i, machine, x, y)
          /\ plan[k] = [platform |-> ps[i].name, on |-> machine, for |-> ps[i].for]
     /\ \A k, l \in 1 .. Len(plan) : plan[k].platform = plan[l].platform => k = l
     /\ \A i \in DOMAIN ps : Suits(raw, i, machine, x, y) =>
          \E k \in 1 .. Len(plan) : plan[k].platform = ps[i].name

\* A plan that is filtered as a command filters it has those builds.
LEMMA FilteredFacts ==
  ASSUME Course, Planned, NEW p \in Processes, proc[p].pc \in Rendered, Machine(p) \in Archs,
         NEW x \in Names \cup {None}, NEW y \in Targets \cup {None},
         proc[p].names = Filter(x), proc[p].fors = Filter(y)
  PROVE  PlansFor(PlanOf(p, proc[p]), proc[p].raw, Machine(p), x, y)
<1> DEFINE r == proc[p]
           ps == Platforms(r.raw.platforms)
           plan == PlanOf(p, r)
           Build(i, a) == [platform |-> ps[i].name, on |-> a, for |-> ps[i].for]
<1>1. r.raw \in Files /\ Valid(r.raw.platforms)
  BY PlanOfFacts
<1>2. plan = CreateBuildPlan(r.raw.platforms, r.names, r.fors, {Machine(p)})
  BY DEF PlanOf
<1> HIDE DEF r
<1>3. /\ plan \in Seq(Builds)
      /\ \A k \in 1 .. Len(plan) :
           /\ Passes(plan[k], r.names, r.fors, {Machine(p)})
           /\ \E i \in DOMAIN ps : \E a \in Range(ps[i].on) : plan[k] = Build(i, a)
      /\ \A k, l \in 1 .. Len(plan) : plan[k].platform = plan[l].platform => k = l
      /\ \A i \in DOMAIN ps : \A a \in Range(ps[i].on) :
           Passes(Build(i, a), r.names, r.fors, {Machine(p)})
             => \E k \in 1 .. Len(plan) : plan[k].platform = ps[i].name
  <2>1. IsPlan(plan, r.raw.platforms, r.names, r.fors, {Machine(p)})
    <3>1. IsPlan(CreateBuildPlan(r.raw.platforms, r.names, r.fors, {Machine(p)}), r.raw.platforms,
                 r.names, r.fors, {Machine(p)})
      BY <1>1, PlanFacts
    <3> HIDE DEF plan
    <3>. QED BY <1>2, <3>1
  <2> HIDE DEF plan
  <2>. QED BY <2>1 DEF IsPlan
<1> HIDE DEF ps, plan
<1>4. \A value : /\ Keeps(r.names, value) <=> x = None \/ value = x
                 /\ Keeps(r.fors, value) <=> y = None \/ value = y
                 /\ Keeps({Machine(p)}, value) <=> value = Machine(p)
  <2>1. Filter(Machine(p)) = {Machine(p)} /\ Machine(p) \in Targets /\ Machine(p) # None
    BY NoneFacts DEF Filter, Targets
  <2>2. r.names = Filter(x) /\ r.fors = Filter(y)
    BY DEF r
  <2>3. \A value : /\ Keeps(Filter(x), value) <=> x = None \/ value = x
                   /\ Keeps(Filter(y), value) <=> y = None \/ value = y
                   /\ Keeps(Filter(Machine(p)), value) <=> Machine(p) = None \/ value = Machine(p)
    BY <2>1, FilterFacts
  <2>. QED BY <2>1, <2>2, <2>3
<1>5. \A i, a : Passes(Build(i, a), r.names, r.fors, {Machine(p)})
                  <=> a = Machine(p) /\ x \in {None, ps[i].name} /\ y \in {None, ps[i].for}
  BY <1>4 DEF Passes
<1> HIDE DEF Build
<1>6. ASSUME NEW k \in 1 .. Len(plan)
      PROVE  \E i \in DOMAIN ps : /\ Machine(p) \in Range(ps[i].on)
                                  /\ x \in {None, ps[i].name} /\ y \in {None, ps[i].for}
                                  /\ plan[k] = Build(i, Machine(p))
  <2>1. PICK i \in DOMAIN ps : \E a \in Range(ps[i].on) : plan[k] = Build(i, a)
    BY <1>3
  <2>2. PICK a \in Range(ps[i].on) : plan[k] = Build(i, a)
    BY <2>1
  <2>3. Passes(Build(i, a), r.names, r.fors, {Machine(p)})
    BY <1>3, <2>2
  <2>. QED BY <1>5, <2>2, <2>3
<1>7. ASSUME NEW i \in DOMAIN ps, Machine(p) \in Range(ps[i].on), x \in {None, ps[i].name}, y \in {None, ps[i].for}
      PROVE  \E k \in 1 .. Len(plan) : plan[k].platform = ps[i].name
  <2>1. Passes(Build(i, Machine(p)), r.names, r.fors, {Machine(p)})
    BY <1>5, <1>7
  <2>. QED BY <1>3, <1>7, <2>1
<1>. QED BY <1>3, <1>6, <1>7 DEF Build, ps, plan, r, PlansFor, Suits

\* The first of three answers.
LEMMA FirstOfThree ==
  ASSUME NEW answers, DOMAIN answers = 1 .. 3
  PROVE  FirstOf(answers) = IF answers[1] # None THEN answers[1]
                            ELSE IF answers[2] # None THEN answers[2] ELSE answers[3]
<1>1. /\ FirstOf(answers) = None => \A i \in 1 .. 3 : answers[i] = None
      /\ FirstOf(answers) # None =>
           \E i \in 1 .. 3 : answers[i] = FirstOf(answers) /\ \A k \in 1 .. i - 1 : answers[k] = None
  <2> DEFINE N == 3
  <2>1. N \in Nat /\ DOMAIN answers = 1 .. N
    OBVIOUS
  <2> HIDE DEF N
  <2>2. /\ FirstOf(answers) = None => \A i \in 1 .. N : answers[i] = None
        /\ FirstOf(answers) # None =>
             \E i \in 1 .. N : answers[i] = FirstOf(answers) /\ \A k \in 1 .. i - 1 : answers[k] = None
    BY <2>1, FirstOfFacts
  <2>. QED BY <2>2 DEF N
<1>2. 1 \in 1 .. 3 /\ 2 \in 1 .. 3 /\ 3 \in 1 .. 3 /\ \A i \in 1 .. 3 : i = 1 \/ i = 2 \/ i = 3
  OBVIOUS
<1>3. 1 \in 1 .. 2 - 1 /\ 1 \in 1 .. 3 - 1 /\ 2 \in 1 .. 3 - 1
  OBVIOUS
<1>. QED BY <1>1, <1>2, <1>3

\* In an instance a process is told which platform it is for, by the command line or
\* else by what outer set for it; a target only the command line names.
LEMMA InsideAsks ==
  ASSUME Course, Typed, proc["outer"].pc \in Following
  PROVE  /\ Head(queue) \in Builds
         /\ Platform("inner") = IF line.platform # None THEN line.platform ELSE Head(queue).platform
         /\ BuildFor("inner") = line.for
<1> DEFINE env == Environment("inner")
<1>1. queue \in Seq(Builds) /\ queue # <<>>
  BY DEF Course, Typed
<1>2. Head(queue) \in Builds
  BY <1>1, TailFacts
<1>3. Head(queue).platform # None
  <2>1. \A j \in Files : None \notin NamesOf(j)
    BY PlatformFacts
  <2>. QED BY <1>2, <2>1 DEF Builds, Names, Files
<1>4. /\ env["app"]["platform"] = None /\ env["app"]["for"] = None
      /\ env["craft"]["platform"] = Head(queue).platform /\ env["craft"]["for"] = None
      /\ env["snap"]["platform"] = None /\ env["snap"]["for"] = None
  BY DEF Environment, Forwarded, ManagedPlatform, Unset, Items
<1> HIDE DEF env
<1> DEFINE answers(item) == [i \in DOMAIN Handlers |-> env[Handlers[i]][item]]
<1>5. \A item : /\ DOMAIN answers(item) = 1 .. 3 /\ answers(item)[1] = env["app"][item]
                /\ answers(item)[2] = env["craft"][item] /\ answers(item)[3] = env["snap"][item]
                /\ Lookup(env, item) = FirstOf(answers(item))
  BY DEF Handlers, Lookup
<1> HIDE DEF answers
<1>7. Lookup(env, "platform") = Head(queue).platform
  BY <1>3, <1>4, <1>5, FirstOfThree
<1>8. Lookup(env, "for") = None
  BY <1>4, <1>5, FirstOfThree
<1>. QED BY <1>2, <1>7, <1>8 DEF Platform, BuildFor, env

\* What a command plans for its filters, as names and targets.
AskedName == IF line.cmd = "clean" THEN None ELSE AskedPlatform("outer")
AskedTarget == IF line.cmd = "clean" THEN None ELSE AskedFor("outer")
\* The plan that outer follows or runs is what the command asks for.
LEMMA OutsideFacts ==
  ASSUME Course, Planned, proc["outer"].pc \in Following \cup {"run", "execute"}
  PROVE  PlansFor(proc["outer"].plan, proc["outer"].raw, Host, AskedName, AskedTarget)
<1> DEFINE r == proc["outer"]
<1>1. /\ "outer" \in Processes /\ r.pc \in Rendered /\ Machine("outer") = Host /\ Host \in Archs
      /\ r.plan = PlanOf("outer", r)
      /\ r.names = NamesFilter("outer") /\ r.fors = ForsFilter("outer")
  BY ApplicationAssumption DEF Processes, Machine, Planned, PlannedOf, Following, Rendered, Reading
<1>2. AskedName \in Names \cup {None} /\ AskedTarget \in Targets \cup {None}
  BY <1>1, AskedFacts DEF AskedName, AskedTarget
<1>3. r.names = Filter(AskedName) /\ r.fors = Filter(AskedTarget)
  BY <1>1 DEF NamesFilter, ForsFilter, AskedName, AskedTarget, Filter
<1>4. PlansFor(r.plan, r.raw, Machine("outer"), AskedName, AskedTarget)
  BY <1>1, <1>2, <1>3, FilteredFacts
<1>. QED BY <1>1, <1>4

\* The build an instance is for, and what the process in it takes for its platform.
LEMMA InsideFacts ==
  ASSUME Course, Planned, Typed, proc["outer"].pc \in Following
  PROVE  LET raw == proc["outer"].raw
             ps == Platforms(raw.platforms)
         IN /\ raw \in Files
            /\ Platform("inner") \in NamesOf(raw) /\ Platform("inner") # None
            /\ line.cmd # "clean" => /\ Platform("inner") = Head(queue).platform
                                     /\ BuildFor("inner") \in {None, Head(queue).for}
            /\ BuildFor("inner") \in Targets \cup {None}
            /\ \E i \in DOMAIN ps :
                 /\ Host \in Range(ps[i].on)
                 /\ Head(queue) = [platform |-> ps[i].name, on |-> Host, for |-> ps[i].for]
<1> DEFINE r == proc["outer"]
           ps == Platforms(r.raw.platforms)
<1>1. queue \in Seq(Builds) /\ queue # <<>> /\ Range(queue) \subseteq Range(r.plan)
  BY DEF Course, Typed, Planned
<1>2. Head(queue) \in Range(r.plan)
  BY <1>1, TailFacts
<1>3. r.plan \in Seq(Builds) /\ DOMAIN r.plan = 1 .. Len(r.plan)
  BY LenProperties DEF Typed, TypedOf, Processes
<1>4. PICK k \in 1 .. Len(r.plan) : Head(queue) = r.plan[k]
  BY <1>2, <1>3 DEF Range
<1>5. PICK i \in DOMAIN ps :
        /\ Suits(r.raw, i, Host, AskedName, AskedTarget)
        /\ Head(queue) = [platform |-> ps[i].name, on |-> Host, for |-> ps[i].for]
  <2>1. proc["outer"].pc \in Following \cup {"run", "execute"}
    OBVIOUS
  <2>2. \A m \in 1 .. Len(r.plan) : \E i \in DOMAIN ps :
          /\ Suits(r.raw, i, Host, AskedName, AskedTarget)
          /\ r.plan[m] = [platform |-> ps[i].name, on |-> Host, for |-> ps[i].for]
    BY <2>1, OutsideFacts DEF PlansFor
  <2> HIDE DEF r, ps
  <2>. QED BY <1>4, <2>2
<1>6. /\ r.raw \in Files /\ ps[i].name \in NamesOf(r.raw) /\ ps[i].name \in STRING
      /\ None \notin NamesOf(r.raw)
  <2>1. r.raw \in Files
    BY DEF Course, CourseOf, Processes, Read, Files, Following, Reading
  <2>. QED BY <2>1, PlatformFacts
<1> HIDE DEF r
<1>7. /\ Host \in Range(ps[i].on) /\ AskedName \in {None, ps[i].name} /\ AskedTarget \in {None, ps[i].for}
  BY <1>5 DEF Suits
<1> HIDE DEF ps
<1>8. /\ Head(queue).platform = ps[i].name /\ Head(queue).for = ps[i].for
  BY <1>5
<1>9. /\ Platform("inner") = IF line.platform # None THEN line.platform ELSE Head(queue).platform
      /\ BuildFor("inner") = line.for
  BY InsideAsks
<1>10. /\ Platform("outer") \in NamesOf(r.raw) \cup {None} /\ BuildFor("outer") \in Targets \cup {None}
  BY AskedFacts DEF Processes, Following, Rendered, Reading, r
<1>11. line.platform # None => Platform("outer") = line.platform /\ AskedPlatform("outer") = line.platform
  BY DEF Platform, AskedPlatform
<1>12. Platform("inner") \in NamesOf(r.raw) /\ Platform("inner") # None
  BY <1>6, <1>8, <1>9, <1>10, <1>11
<1>13. line.cmd # "clean" => Platform("inner") = Head(queue).platform
  BY <1>7, <1>8, <1>9, <1>11 DEF AskedName
<1>14. line.for # None => BuildFor("outer") = line.for
  BY DEF BuildFor
<1>15. line.cmd = "test" => line.for = None
  <2>1. line # None
    BY FreshFacts DEF Course, Processes, Following
  <2>. QED BY <2>1, LineFacts DEF Course
<1>16. line.cmd # "clean" => BuildFor("inner") \in {None, Head(queue).for}
  BY <1>7, <1>8, <1>9, <1>14, <1>15 DEF AskedTarget, AskedFor
<1>17. BuildFor("inner") \in Targets \cup {None}
  BY <1>9, <1>10, <1>14
<1>. QED BY <1>5, <1>6, <1>7, <1>12, <1>13, <1>16, <1>17 DEF r, ps

\* The build a process executes is the only one it plans, and the one the project is
\* rendered for.
LEMMA BuildFacts ==
  ASSUME Course, Commanded, Planned, Typed, NEW p \in Processes,
         proc[p].pc = "execute", line.cmd # "clean"
  PROVE  LET r == proc[p]
             ps == Platforms(r.raw.platforms)
         IN /\ r.raw \in Files /\ r.plan \in Seq(Builds) /\ Len(r.plan) = 1 /\ r.build = r.plan[1]
            /\ PlansFor(r.plan, r.raw, Machine(p), Platform(p), BuildFor(p))
            /\ r.build = r.conf /\ r.build \in Builds
            /\ \E i \in DOMAIN ps :
                 /\ Suits(r.raw, i, Machine(p), Platform(p), BuildFor(p))
                 /\ r.build = [platform |-> ps[i].name, on |-> Machine(p), for |-> ps[i].for]
<1> DEFINE r == proc[p]
           ps == Platforms(r.raw.platforms)
<1>1. /\ r.pc \in Rendered /\ r.raw \in Files /\ Machine(p) \in Archs /\ r.plan = PlanOf(p, r)
      /\ r.names = NamesFilter(p) /\ r.fors = ForsFilter(p)
      /\ ConfigureError(r.raw.platforms, Machine(p), Platform(p), BuildFor(p)) = None
      /\ r.conf = Configured(r.raw.platforms, Machine(p), Platform(p), BuildFor(p))
      /\ BuildInfoError(r) = None /\ r.build = Head(r.plan) /\ r.plan \in Seq(Builds)
  BY MachineFacts DEF Course, CourseOf, Planned, PlannedOf, Typed, TypedOf, Rendered, Reading, Read, Files, Alive
<1>2. AskedPlatform(p) = Platform(p) /\ AskedFor(p) = BuildFor(p)
  BY DEF AskedPlatform, AskedFor, Commanded, CommandedOf
<1>3. Platform(p) \in Names \cup {None} /\ BuildFor(p) \in Targets \cup {None}
  BY <1>1, AskedFacts
<1>4. r.names = Filter(Platform(p)) /\ r.fors = Filter(BuildFor(p))
  BY <1>1, <1>2 DEF NamesFilter, ForsFilter
<1>5. PlansFor(r.plan, r.raw, Machine(p), Platform(p), BuildFor(p))
  BY <1>1, <1>3, <1>4, FilteredFacts
<1>6. Len(r.plan) = 1 /\ r.build = r.plan[1]
  <2>1. Len(r.plan) \in Nat
    BY <1>1, LenProperties
  <2>2. Len(r.plan) = 1
    BY <1>1, <2>1, NoneFacts DEF BuildInfoError, Errors
  <2>. QED BY <1>1, <2>2
<1> HIDE DEF r
<1>7. PICK i \in DOMAIN ps :
        /\ Suits(r.raw, i, Machine(p), Platform(p), BuildFor(p))
        /\ r.build = [platform |-> ps[i].name, on |-> Machine(p), for |-> ps[i].for]
  <2>1. 1 \in 1 .. Len(r.plan)
    BY <1>6
  <2>. QED BY <1>5, <1>6, <2>1 DEF PlansFor
<1>8. PICK c \in DOMAIN ps :
        /\ r.conf.platform = ps[c].name
        /\ r.conf.on = IF Platform(p) = None /\ Candidates(ps, Machine(p), BuildFor(p)) = {}
                       THEN Head(ps[c].on) ELSE Machine(p)
        /\ r.conf.for = IF BuildFor(p) # None THEN BuildFor(p) ELSE ps[c].for
        /\ Platform(p) # None => ps[c].name = Platform(p)
        /\ Platform(p) = None /\ Candidates(ps, Machine(p), BuildFor(p)) # {} =>
             c \in Candidates(ps, Machine(p), BuildFor(p))
  <2>1. ConfiguredFor(Configured(r.raw.platforms, Machine(p), Platform(p), BuildFor(p)), ps,
                      Machine(p), Platform(p), BuildFor(p))
    BY <1>1, ConfigureFacts
  <2> HIDE DEF ps
  <2>. QED BY <1>1, <2>1 DEF ConfiguredFor
<1>9. i \in Candidates(ps, Machine(p), BuildFor(p))
  BY <1>7 DEF Candidates, Suits
<1>10. \A k, l \in DOMAIN ps : ps[k].name = ps[l].name => k = l
  BY <1>1, PlatformFacts
<1> HIDE DEF ps
<1>11. c = i
  <2>1. CASE Platform(p) # None
    BY <1>7, <1>8, <1>10, <2>1 DEF Suits, ps
  <2>2. CASE Platform(p) = None
    <3>1. Suits(r.raw, c, Machine(p), Platform(p), BuildFor(p))
      BY <1>8, <1>9, <2>2 DEF Candidates, Suits, ps
    <3>2. PICK k \in 1 .. Len(r.plan) : r.plan[k].platform = ps[c].name
      BY <1>5, <3>1 DEF PlansFor, ps
    <3>3. k = 1
      BY <1>6, <3>2
    <3>4. ps[i].name = r.plan[1].platform
      BY <1>6, <1>7
    <3>5. ps[c].name = ps[i].name
      BY <3>2, <3>3, <3>4
    <3>. QED BY <1>10, <3>5
  <2>. QED BY <2>1, <2>2
<1>12. r.conf \in Builds
  <2>1. Configured(r.raw.platforms, Machine(p), Platform(p), BuildFor(p)) \in Builds
    BY <1>1, ConfigureFacts
  <2>. QED BY <1>1, <2>1
<1>13. r.conf = [platform |-> ps[i].name, on |-> Machine(p), for |-> ps[i].for]
  <2>1. r.conf.for = ps[i].for
    BY <1>7, <1>8, <1>11 DEF Suits, ps
  <2>2. r.conf.on = Machine(p)
    BY <1>8, <1>9
  <2>3. r.conf.platform = ps[i].name
    BY <1>8, <1>11
  <2>. QED BY <1>12, <2>1, <2>2, <2>3 DEF Builds
<1>14. r.build = r.conf /\ r.build \in Builds
  BY <1>7, <1>12, <1>13
<1>. QED BY <1>1, <1>5, <1>6, <1>7, <1>14 DEF r, ps
-----------------------------------------------------------------------------
(* How far a command got. *)

PlanNames(s) == {b.platform : b \in Range(s)}
TestedNames == {t.platform : t \in tested}
Finished(r) ==
  /\ r.raw \in Files /\ r.plan # <<>> /\ PlansFor(r.plan, r.raw, Host, AskedName, AskedTarget)
  /\ built = PlanNames(r.plan)
  /\ line.cmd = "test" => TestedNames = PlanNames(r.plan)
Ahead ==
  LET outer == proc["outer"]
      inner == proc["inner"]
  IN /\ TestedNames \subseteq built
     /\ outer.pc \in Following /\ line.cmd # "clean" => built \cup PlanNames(queue) = PlanNames(outer.plan)
     /\ outer.pc \in Following /\ line.cmd = "test" => TestedNames \cup PlanNames(queue) = PlanNames(outer.plan)
     /\ outer.pc = "waiting" /\ inner.pc = "ended" /\ inner.error = None /\ line.cmd # "clean" =>
          Head(queue).platform \in built
     /\ outer.pc = "test" => Head(queue).platform \in built
     /\ outer.pc = "ended" /\ outer.error = None /\ line.cmd \notin {"clean", "lint"} => Finished(outer)

\* The platforms of a queue are that of its first build and those of the others.
LEMMA PlanNamesFacts ==
  /\ PlanNames(<<>>) = {}
  /\ \A s \in Seq(Builds) : s # <<>> => PlanNames(s) = {Head(s).platform} \cup PlanNames(Tail(s))
<1>1. ASSUME NEW s \in Seq(Builds), s # <<>>
      PROVE  PlanNames(s) = {Head(s).platform} \cup PlanNames(Tail(s))
  <2>1. Range(s) = {Head(s)} \cup Range(Tail(s))
    BY <1>1, TailFacts
  <2>. QED BY <2>1 DEF PlanNames
<1>2. PlanNames(<<>>) = {}
  <2>1. Range(<<>>) = {}
    BY DEF Range
  <2>. QED BY <2>1 DEF PlanNames
<1>. QED BY <1>1, <1>2

\* An exit code of zero without an answer of the dispatcher is that of no error.
LEMMA NoErrorInside ==
  ASSUME Course, Commanded, proc["inner"].pc = "ended", proc["outer"].pc = "waiting",
         ExitCode("inner") = 0
  PROVE  proc["inner"].error = None
<1>1. DispatchError = None
  BY DEF Commanded, CommandedOf, Processes, Rendered, Reading
<1>2. proc["inner"].error \in Failures \cup {None, "KeyboardInterrupt"}
  BY <1>1 DEF Commanded, CommandedOf, Processes
<1>. QED BY <1>2 DEF ExitCode, ReturnCode, Failures, Answers

\* What a command plans for depends on its command line only.
LEMMA AskedStable ==
  ASSUME line' = line
  PROVE  AskedName' = AskedName /\ AskedTarget' = AskedTarget
BY StableFacts DEF AskedName, AskedTarget, AskedPlatform, AskedFor

\* A command whose queue got empty has done all it planned.
LEMMA FinishedOutside ==
  ASSUME Course, Planned, line' = line, AllBut(proc'["outer"], proc["outer"], {"pc", "error"}),
         proc["outer"].pc \in Following, built' = PlanNames(proc["outer"].plan),
         line.cmd = "test" => TestedNames' = PlanNames(proc["outer"].plan)
  PROVE  Finished(proc["outer"])'
<1> DEFINE r == proc["outer"]
           s == proc'["outer"]
<1>1. s.raw = r.raw /\ s.plan = r.plan
  BY DEF AllBut, Fields
<1>2. r.raw \in Files /\ r.plan # <<>>
  BY DEF Course, CourseOf, Planned, PlannedOf, Read, Files, Processes, Following, Reading
<1>3. PlansFor(r.plan, r.raw, Host, AskedName, AskedTarget)
  BY OutsideFacts
<1>4. AskedName' = AskedName /\ AskedTarget' = AskedTarget
  BY AskedStable
<1> HIDE DEF r, s
<1>5. PlansFor(s.plan, s.raw, Host, AskedName', AskedTarget')
  BY <1>1, <1>3, <1>4
<1>. QED BY <1>1, <1>2, <1>5 DEF Finished, r, s

\* Every platform of the plan is built, and tested, or still in the queue.
THEOREM AheadInvariant == Spec => []Ahead
<1>1. Init => Ahead
  BY FreshFacts DEF Init, Ahead, TestedNames, Following, Processes
<1>2. Course /\ Commanded /\ Planned /\ Typed /\ Ahead /\ [Next]_vars => Ahead'
  <2>1. SUFFICES ASSUME Course, Commanded, Planned, Typed, Ahead, [Next]_vars PROVE Ahead'
    OBVIOUS
  <2> DEFINE r == proc["outer"]
             s == proc'["outer"]
             in == proc["inner"]
             on == proc'["inner"]
  <2>2. /\ Shape /\ "outer" \in Processes /\ "inner" \in Processes /\ "inner" # "outer"
        /\ CourseOf("outer") /\ CommandedOf("outer") /\ PlannedOf("outer")
        /\ queue \in Seq(Builds)
        /\ r.pc \in Following => queue # <<>> /\ r.plan # <<>>
        /\ r.pc \notin Following \cup {"absent", "ended"} => built = {} /\ tested = {}
        /\ in.pc \notin {"absent", "ended"} => r.pc = "waiting"
        /\ None \notin Failures
    BY <2>1, NoneFacts DEF Course, Commanded, Planned, PlannedOf, Typed, Processes, Alive, At, Failures
  <2>3. /\ TestedNames \subseteq built
        /\ r.pc \in Following /\ line.cmd # "clean" => built \cup PlanNames(queue) = PlanNames(r.plan)
        /\ r.pc \in Following /\ line.cmd = "test" => TestedNames \cup PlanNames(queue) = PlanNames(r.plan)
        /\ r.pc = "waiting" /\ in.pc = "ended" /\ in.error = None /\ line.cmd # "clean" =>
             Head(queue).platform \in built
        /\ r.pc = "test" => Head(queue).platform \in built
        /\ r.pc = "ended" /\ r.error = None /\ line.cmd \notin {"clean", "lint"} => Finished(r)
    BY <2>1 DEF Ahead
  <2>4. r.pc \in Following => PlanNames(queue) = {Head(queue).platform} \cup PlanNames(Tail(queue))
    BY <2>2, PlanNamesFacts
  \* A step that ends the command with an error, or leads to where nothing is built yet.
  <2>5. ASSUME UNCHANGED <<line, queue, built, tested>>,
               \/ s.pc \notin Following \cup {"ended"}
               \/ s.pc = "ended" /\ (s.error # None \/ line.cmd \in {"clean", "lint"})
        PROVE  Ahead'
    BY <2>3, <2>5 DEF Ahead, TestedNames, Following
  <2>6. CASE /\ proc'["outer"] = proc["outer"] /\ UNCHANGED <<line, queue, instance, tested, host>>
             /\ built' = built \/ Execute("inner")
             /\ on.pc = "ended" /\ on.error = None => proc'["inner"] = proc["inner"] \/ Execute("inner")
    <3>1. AskedName' = AskedName /\ AskedTarget' = AskedTarget
      BY <2>6, AskedStable
    <3>2. CASE built' = built /\ ~Execute("inner")
      <4>1. Finished(r) => Finished(r)'
        BY <2>6, <3>1, <3>2 DEF Finished, TestedNames
      <4>. QED BY <2>3, <2>6, <3>2, <4>1 DEF Ahead, TestedNames
    <3>3. CASE Execute("inner")
      <4>1. /\ in.pc = "execute" /\ r.pc = "waiting" /\ on.pc = "ended"
            /\ \/ on.error \in Failures /\ built' = built
               \/ built' = IF line.cmd = "clean" THEN built ELSE built \cup {in.build.platform}
        BY <2>2, <3>3, ExecuteStep
      <4>2. line.cmd # "clean" => in.build.platform = Head(queue).platform
        <5>1. SUFFICES ASSUME line.cmd # "clean" PROVE in.build.platform = Head(queue).platform
          OBVIOUS
        <5>2. Platform("inner") = Head(queue).platform /\ Platform("inner") # None
          BY <2>1, <4>1, <5>1, InsideFacts DEF Following
        <5>3. \E i \in DOMAIN Platforms(in.raw.platforms) :
                /\ Suits(in.raw, i, Machine("inner"), Platform("inner"), BuildFor("inner"))
                /\ in.build = [platform |-> Platforms(in.raw.platforms)[i].name, on |-> Machine("inner"),
                               for |-> Platforms(in.raw.platforms)[i].for]
          BY <2>1, <2>2, <4>1, <5>1, BuildFacts
        <5>. QED BY <5>2, <5>3 DEF Suits
      <4>3. \/ built' = built /\ (line.cmd = "clean" \/ on.error # None)
            \/ line.cmd # "clean" /\ built' = built \cup {Head(queue).platform}
        BY <2>2, <4>1, <4>2
      <4>. QED BY <2>3, <2>4, <2>6, <4>1, <4>3 DEF Ahead, TestedNames, Following
    <3>. QED BY <2>6, <3>2, <3>3
  <2>7. CASE Start
    <3>1. line = None /\ s = Fresh /\ UNCHANGED <<built, tested>>
      BY <2>2, <2>7, StartStep
    <3>. QED BY <2>3, <3>1, FreshFacts DEF Ahead, TestedNames, Following
  <2>8. CASE Exit
    <3>1. s = Absent /\ built' = {} /\ tested' = {}
      BY <2>2, <2>8, ExitStep
    <3>. QED BY <3>1, FreshFacts DEF Ahead, TestedNames, Following
  <2>9. CASE Interrupt
    BY <2>2, <2>5, <2>9, InterruptStep, NoneFacts DEF Errors, around
  <2>10. CASE Lint
    BY <2>2, <2>5, <2>10, LintStep DEF CommandedOf, around
  <2>11. CASE CleanInstances
    BY <2>2, <2>5, <2>11, CleanStep DEF CommandedOf, CleansInstances
  <2>12. CASE LaunchFails
    BY <2>2, <2>5, <2>12, LaunchFailsStep
  <2>13. CASE Launch
    <3>1. /\ r.pc = "launch" /\ UNCHANGED <<line, queue, built, tested>> /\ AllBut(s, r, {"pc", "error"})
          /\ \/ s.pc = "ended" /\ s.error \in Failures
             \/ s.pc = "waiting" /\ on = Fresh
      BY <2>2, <2>13, LaunchStep
    <3>2. CASE s.pc = "ended" /\ s.error \in Failures
      BY <2>2, <2>5, <3>1, <3>2
    <3>3. CASE s.pc = "waiting" /\ on = Fresh
      <4>1. s.plan = r.plan
        BY <3>1 DEF AllBut, Fields
      <4>. QED BY <2>3, <3>1, <3>3, <4>1, FreshFacts DEF Ahead, TestedNames, Following
    <3>. QED BY <3>1, <3>2, <3>3
  <2>14. CASE Collect
    <3>1. /\ r.pc = "waiting" /\ in.pc = "ended" /\ UNCHANGED <<line, built, tested>>
          /\ AllBut(s, r, {"pc", "error"})
          /\ \/ UNCHANGED queue /\ s.pc = "ended" /\ s.error \in Failures
             \/ ExitCode("inner") = 0 /\ line.cmd = "test" /\ UNCHANGED queue /\ s.pc = "test"
             \/ /\ ExitCode("inner") = 0 /\ line.cmd # "test" /\ queue' = Tail(queue)
                /\ s.pc = (IF Tail(queue) = <<>> THEN "ended" ELSE "launch")
      BY <2>2, <2>14, CollectStep
    <3>2. s.plan = r.plan
      BY <3>1 DEF AllBut, Fields
    <3>3. ExitCode("inner") = 0 /\ line.cmd # "clean" => Head(queue).platform \in built
      BY <2>1, <2>3, <3>1, NoErrorInside
    <3>4. CASE UNCHANGED queue /\ s.pc = "ended" /\ s.error \in Failures
      BY <2>2, <2>5, <3>1, <3>4
    <3>5. CASE ExitCode("inner") = 0 /\ line.cmd = "test" /\ UNCHANGED queue /\ s.pc = "test"
      BY <2>3, <3>1, <3>2, <3>3, <3>5 DEF Ahead, TestedNames, Following
    <3>6. CASE /\ ExitCode("inner") = 0 /\ line.cmd # "test" /\ queue' = Tail(queue)
               /\ s.pc = (IF Tail(queue) = <<>> THEN "ended" ELSE "launch")
      <4>1. line.cmd # "clean" => built \cup PlanNames(Tail(queue)) = PlanNames(r.plan)
        BY <2>3, <2>4, <3>1, <3>3, <3>6 DEF Following
      <4>2. CASE Tail(queue) # <<>>
        BY <2>3, <3>1, <3>2, <3>6, <4>1, <4>2 DEF Ahead, TestedNames, Following
      <4>3. CASE Tail(queue) = <<>>
        <5>1. line.cmd # "clean" => Finished(r)'
          <6>1. line.cmd # "clean" => built' = PlanNames(r.plan)
            BY <3>1, <4>1, <4>3, PlanNamesFacts
          <6>. QED BY <2>1, <3>1, <3>6, <6>1, FinishedOutside DEF Following
        <5>. QED BY <2>3, <3>1, <3>6, <4>3, <5>1 DEF Ahead, TestedNames, Following
      <4>. QED BY <4>2, <4>3
    <3>. QED BY <3>1, <3>4, <3>5, <3>6
  <2>15. CASE Test
    <3>1. /\ r.pc = "test" /\ UNCHANGED <<line, built>> /\ AllBut(s, r, {"pc", "error"})
          /\ \/ s.pc = "ended" /\ s.error \in Failures /\ UNCHANGED <<queue, tested>>
             \/ /\ s.pc = (IF Tail(queue) = <<>> THEN "ended" ELSE "launch") /\ queue' = Tail(queue)
                /\ \E jobs : tested' = tested \cup {[platform |-> Head(queue).platform, jobs |-> jobs]}
      BY <2>2, <2>15, TestStep
    <3>2. s.plan = r.plan /\ line.cmd = "test"
      BY <2>2, <3>1 DEF AllBut, Fields, CommandedOf
    <3>3. CASE s.pc = "ended" /\ s.error \in Failures /\ UNCHANGED <<queue, tested>>
      BY <2>2, <2>5, <3>1, <3>3
    <3>4. CASE /\ s.pc = (IF Tail(queue) = <<>> THEN "ended" ELSE "launch") /\ queue' = Tail(queue)
               /\ \E jobs : tested' = tested \cup {[platform |-> Head(queue).platform, jobs |-> jobs]}
      <4>1. TestedNames' = TestedNames \cup {Head(queue).platform}
        <5>1. PICK jobs : tested' = tested \cup {[platform |-> Head(queue).platform, jobs |-> jobs]}
          BY <3>4
        <5> DEFINE x == [platform |-> Head(queue).platform, jobs |-> jobs]
        <5>2. x.platform = Head(queue).platform
          OBVIOUS
        <5> HIDE DEF x
        <5>3. tested' = tested \cup {x}
          BY <5>1 DEF x
        <5>. QED BY <5>2, <5>3 DEF TestedNames
      <4>2. /\ TestedNames' \subseteq built
            /\ built \cup PlanNames(Tail(queue)) = PlanNames(r.plan)
            /\ TestedNames' \cup PlanNames(Tail(queue)) = PlanNames(r.plan)
        BY <2>3, <2>4, <3>1, <3>2, <4>1 DEF Following
      <4>3. CASE Tail(queue) # <<>>
        BY <3>1, <3>2, <3>4, <4>2, <4>3 DEF Ahead, Following
      <4>4. CASE Tail(queue) = <<>>
        <5>1. built' = PlanNames(r.plan) /\ TestedNames' = PlanNames(r.plan)
          BY <3>1, <4>2, <4>4, PlanNamesFacts
        <5>2. Finished(r)'
          BY <2>1, <3>1, <5>1, FinishedOutside DEF Following
        <5>. QED BY <3>1, <3>4, <4>2, <4>4, <5>2 DEF Ahead, Following
      <4>. QED BY <4>3, <4>4
    <3>. QED BY <3>1, <3>3, <3>4
  <2>16. CASE Boot("outer")
    <3>1. r = Fresh
      BY <2>2, <2>16 DEF Boot, At, CourseOf
    <3>. QED BY <2>2, <2>5, <2>16, <3>1, BootStep DEF around, Following
  <2>17. CASE Configure("outer")
    BY <2>2, <2>5, <2>17, ConfigureStep DEF around, Following
  <2>18. CASE Command("outer")
    <3>1. r.pc = "command" /\ r.names = None /\ r.fors = None
      BY <2>2, <2>18 DEF Command, At, CourseOf, Unfiltered
    <3>2. /\ UNCHANGED <<line, built, tested>> /\ built = {} /\ tested = {}
          /\ \/ s.pc = "ended" /\ s.error # None
             \/ s.pc \in {"clean", "setup"}
             \/ s.pc = "launch" /\ queue' = s.plan
      <4>1. built = {} /\ tested = {} /\ None # "EmptyBuildPlanError"
        BY <2>2, <3>1, NoneFacts DEF Following, Errors
      <4>2. /\ UNCHANGED <<line, built, tested>>
            /\ \/ s.pc = "ended" /\ s.error # None
               \/ s.pc \in {"clean", "setup"}
               \/ s.pc = "launch" /\ queue' = s.plan
        BY <2>2, <2>18, <3>1, <4>1, CommandStep
      <4>. QED BY <4>1, <4>2
    <3>. QED BY <2>3, <3>2 DEF Ahead, TestedNames, Following
  <2>19. CASE Setup("outer")
    BY <2>2, <2>5, <2>19, SetupStep, NoneFacts DEF around, Following, Errors
  <2>20. CASE Run("outer")
    BY <2>2, <2>5, <2>20, RunStep DEF around, Following
  <2>21. CASE Execute("outer")
    <3>1. /\ r.pc = "execute" /\ UNCHANGED <<line, queue, tested>> /\ AllBut(s, r, {"pc", "error"})
          /\ s.pc = "ended" /\ built = {} /\ tested = {}
          /\ \/ s.error \in Failures /\ UNCHANGED built
             \/ built' = IF line.cmd = "clean" THEN built ELSE built \cup {r.build.platform}
      BY <2>2, <2>21, ExecuteStep DEF Following
    <3>2. CASE UNCHANGED built
      BY <2>2, <2>5, <3>1, <3>2
    <3>3. CASE line.cmd # "clean" /\ built' = built \cup {r.build.platform}
      <4>1. /\ r.raw \in Files /\ r.plan \in Seq(Builds) /\ Len(r.plan) = 1 /\ r.build = r.plan[1]
            /\ PlansFor(r.plan, r.raw, Machine("outer"), Platform("outer"), BuildFor("outer"))
        BY <2>1, <2>2, <3>1, <3>3, BuildFacts
      <4>2. /\ Machine("outer") = Host /\ AskedName = Platform("outer") /\ AskedTarget = BuildFor("outer")
            /\ line.cmd # "test"
        BY <2>2, <3>1, <3>3 DEF CommandedOf, Machine, AskedName, AskedTarget, AskedPlatform, AskedFor
      <4>3. s.raw = r.raw /\ s.plan = r.plan
        BY <3>1 DEF AllBut, Fields
      <4>4. AskedName' = AskedName /\ AskedTarget' = AskedTarget
        BY <3>1, AskedStable
      <4>5. r.plan # <<>> /\ built' = PlanNames(r.plan)
        <5>1. DOMAIN r.plan = 1 .. Len(r.plan) /\ r.plan # <<>>
          BY <4>1, LenProperties
        <5>2. Range(r.plan) = {r.build}
          BY <4>1, <5>1 DEF Range
        <5>. QED BY <3>1, <3>3, <5>1, <5>2 DEF PlanNames
      <4> HIDE DEF r, s
      <4>6. PlansFor(s.plan, s.raw, Host, AskedName', AskedTarget')
        BY <4>1, <4>2, <4>3, <4>4
      <4>7. Finished(proc["outer"])'
        BY <3>1, <4>1, <4>2, <4>3, <4>5, <4>6 DEF Finished, s
      <4>. QED BY <3>1, <3>3, <4>7 DEF Ahead, TestedNames, Following, s
    <3>. QED BY <2>2, <3>1, <3>2, <3>3
  <2>. QED
    BY <2>1, <2>6, <2>7, <2>8, <2>9, <2>10, <2>11, <2>12, <2>13, <2>14, <2>15, <2>16, <2>17, <2>18,
       <2>19, <2>20, <2>21, OutsideStep
<1>. QED BY <1>1, <1>2, CourseInvariant, CommandedInvariant, PlannedInvariant, TypedInvariant, PTL DEF Spec

\* The types of Application, with the instances in which what is recorded is enabled and the
\* process in an instance alive only while the one outside waits.
THEOREM TypeInvariant == Spec => []TypeOK
<1>1. Course /\ Typed /\ Requested /\ Ahead => TypeOK
  <2>1. SUFFICES ASSUME Course, Typed, Requested, Ahead PROVE TypeOK
    OBVIOUS
  <2>2. \A S : \A s \in Seq(S) : Range(s) \subseteq S
    <3>1. ASSUME NEW S, NEW s \in Seq(S) PROVE Range(s) \subseteq S
      <4>1. DOMAIN s = 1 .. Len(s) /\ \A i \in 1 .. Len(s) : s[i] \in S
        BY LenProperties, ElementOfSeq
      <4>. QED BY <4>1 DEF Range
    <3>. QED BY <3>1
  <2>3. ASSUME NEW p \in Processes
        PROVE  /\ proc[p].pc \in PCs
               /\ proc[p].arch \in Archs \cup {None}
               /\ proc[p].conf \in Builds \cup {None}
               /\ proc[p].build \in Builds \cup {None}
               /\ Range(proc[p].plan) \subseteq Builds
    <3>1. proc[p].pc \in PCs
      BY <2>1 DEF Course, Processes, PCs, InnerPCs
    <3>. QED BY <2>1, <2>2, <3>1 DEF Typed, TypedOf
  <2>4. Range(queue) \subseteq Builds /\ built \subseteq Names /\ {t.platform : t \in tested} \subseteq built
    BY <2>1, <2>2 DEF Typed, Ahead, TestedNames
  <2>5. /\ proc["inner"].pc \notin {"absent", "ended"} => At("outer", "waiting")
        /\ proc["outer"].pc \in {"launch", "waiting", "test"} => queue # <<>>
    BY <2>1 DEF Course, Alive, Following
  <2>6. \A slot \in Slots : instance[slot] # None => instance[slot].recorded \subseteq instance[slot].enabled
    BY <2>1 DEF Requested, Instances, IsInstance
  <2>. QED BY <2>3, <2>4, <2>5, <2>6 DEF TypeOK
<1>. QED BY <1>1, CourseInvariant, TypedInvariant, RequestedInvariant, AheadInvariant, PTL
-----------------------------------------------------------------------------
(* The exit code. *)

\* A command that cleaned instances left none that a build of the project could use.
Cleaned ==
  LET r == proc["outer"]
      ps == Platforms(r.raw.platforms)
  IN r.pc = "ended" /\ r.error = None /\ CleansInstances /\ UseProvider("outer") =>
       /\ r.raw \in Files
       /\ \A i \in DOMAIN ps : Host \in Range(ps[i].on) => instance[<<GetProvider, ps[i].name>>] = None

\* The plan without filters has every platform that can be built on a machine.
LEMMA UnfilteredFacts ==
  ASSUME NEW j \in Files, Valid(j.platforms), NEW i \in DOMAIN Platforms(j.platforms),
         NEW machine \in Range(Platforms(j.platforms)[i].on)
  PROVE  LET plan == CreateBuildPlan(j.platforms, None, None, {machine})
         IN \E k \in DOMAIN plan : plan[k].platform = Platforms(j.platforms)[i].name
<1> DEFINE ps == Platforms(j.platforms)
           plan == CreateBuildPlan(j.platforms, None, None, {machine})
<1>a. IsPlan(plan, j.platforms, None, None, {machine})
  BY PlanFacts
<1> HIDE DEF plan
<1>1. /\ plan \in Seq(Builds)
      /\ \A l \in DOMAIN ps : \A a \in Range(ps[l].on) :
           Passes([platform |-> ps[l].name, on |-> a, for |-> ps[l].for], None, None, {machine})
             => \E k \in 1 .. Len(plan) : plan[k].platform = ps[l].name
  BY <1>a DEF IsPlan
<1>2. Passes([platform |-> ps[i].name, on |-> machine, for |-> ps[i].for], None, None, {machine})
  BY DEF Passes, Keeps
<1>3. DOMAIN plan = 1 .. Len(plan)
  BY <1>1, LenProperties
<1>. QED BY <1>1, <1>2, <1>3 DEF plan

\* Cleaning does what it is asked for, and nothing brings an instance back before the
\* command is over.
THEOREM CleanedInvariant == Spec => []Cleaned
<1>1. Init => Cleaned
  BY FreshFacts DEF Init, Cleaned, Processes
<1>2. Course /\ Commanded /\ Planned /\ Cleaned /\ [Next]_vars => Cleaned'
  <2>1. SUFFICES ASSUME Course, Commanded, Planned, Cleaned, [Next]_vars PROVE Cleaned'
    OBVIOUS
  <2> DEFINE r == proc["outer"]
             s == proc'["outer"]
  <2>2. /\ Shape /\ "outer" \in Processes /\ CourseOf("outer") /\ CommandedOf("outer")
        /\ None \notin Failures /\ None # "KeyboardInterrupt"
    BY <2>1, NoneFacts DEF Course, Commanded, Processes, Failures, Errors
  <2>3. ASSUME line' = line
        PROVE  /\ CleansInstances' = CleansInstances /\ UseProvider("outer")' = UseProvider("outer")
               /\ GetProvider' = GetProvider
    BY <2>3, StableFacts
  <2>4. CASE proc'["outer"] = proc["outer"] /\ UNCHANGED <<line, instance>>
    BY <2>1, <2>3, <2>4 DEF Cleaned
  <2>5. CASE CleanInstances
    <3> DEFINE plan == CreateBuildPlan(r.raw.platforms, None, None, {Host})
               ps == Platforms(r.raw.platforms)
    <3>1. SUFFICES ASSUME s.pc = "ended", s.error = None
                   PROVE  /\ s.raw \in Files
                          /\ \A i \in DOMAIN Platforms(s.raw.platforms) :
                               Host \in Range(Platforms(s.raw.platforms)[i].on) =>
                                 instance'[<<GetProvider, Platforms(s.raw.platforms)[i].name>>] = None
      <4>1. line' = line
        BY <2>2, <2>5, CleanStep
      <4>. QED BY <2>3, <4>1 DEF Cleaned
    <3>2. /\ r.pc = "clean" /\ AllBut(s, r, {"pc", "error"}) /\ ProviderNameError = None
          /\ instance' = [slot \in Slots |->
               IF slot[1] = GetProvider /\ \E i \in DOMAIN plan : plan[i].platform = slot[2]
               THEN None ELSE instance[slot]]
      BY <2>2, <2>5, <3>1, CleanStep
    <3>3. s.raw = r.raw /\ r.raw \in Files /\ Valid(r.raw.platforms)
      BY <2>1, <2>2, <3>2, PlanOfFacts DEF AllBut, Fields, Rendered, Reading
    <3>4. GetProvider \in Providers
      BY <3>2, NoneFacts DEF ProviderNameError, Errors
    <3>5. ASSUME NEW i \in DOMAIN ps, Host \in Range(ps[i].on)
          PROVE  instance'[<<GetProvider, ps[i].name>>] = None
      <4>1. ps[i].name \in Names
        BY <3>3, PlatformFacts
      <4>2. \E k \in DOMAIN plan : plan[k].platform = ps[i].name
        BY <3>3, <3>5, UnfilteredFacts
      <4> HIDE DEF ps, plan
      <4>3. <<GetProvider, ps[i].name>> \in Slots
        BY <3>4, <4>1 DEF Slots
      <4>. QED BY <3>2, <4>2, <4>3
    <3>. QED BY <3>3, <3>5
  <2>6. ASSUME line' = line, s.pc = "ended" => s.error # None \/ ~CleansInstances \/ ~UseProvider("outer")
        PROVE  Cleaned'
    BY <2>3, <2>6 DEF Cleaned
  <2>7. CASE Start
    BY <2>2, <2>7, StartStep, FreshFacts DEF Cleaned
  <2>8. CASE Exit
    BY <2>2, <2>8, ExitStep, FreshFacts DEF Cleaned
  <2>9. CASE Interrupt
    <3>1. s.error = "KeyboardInterrupt"
      BY <2>2, <2>9, InterruptStep
    <3>. QED BY <2>2, <2>9, <3>1, InterruptStep DEF Cleaned
  <2>10. CASE Lint
    BY <2>2, <2>6, <2>10, LintStep DEF CommandedOf, CleansInstances, around
  <2>11. CASE Launch \/ LaunchFails
    BY <2>2, <2>6, <2>11, LaunchStep, LaunchFailsStep
  <2>12. CASE Collect
    BY <2>2, <2>6, <2>12, CollectStep DEF CommandedOf, Following
  <2>13. CASE Test
    BY <2>2, <2>6, <2>13, TestStep DEF CommandedOf, Following
  <2>14. CASE Boot("outer")
    <3>1. r = Fresh
      BY <2>2, <2>14 DEF Boot, At, CourseOf
    <3>. QED BY <2>2, <2>6, <2>14, <3>1, BootStep DEF around
  <2>15. CASE Configure("outer")
    BY <2>2, <2>6, <2>15, ConfigureStep DEF around
  <2>16. CASE Command("outer")
    <3>1. r.pc = "command" /\ r.names = None /\ r.fors = None /\ None # "EmptyBuildPlanError"
      BY <2>2, <2>16, NoneFacts DEF Command, At, CourseOf, Unfiltered, Errors
    <3>. QED BY <2>2, <2>6, <2>16, <3>1, CommandStep
  <2>17. CASE Setup("outer")
    BY <2>2, <2>6, <2>17, SetupStep, NoneFacts DEF around, Errors
  <2>18. CASE Run("outer")
    BY <2>2, <2>6, <2>18, RunStep DEF around
  <2>19. CASE Execute("outer")
    BY <2>2, <2>6, <2>19, ExecuteStep DEF CommandedOf
  <2>. QED
    BY <2>1, <2>4, <2>5, <2>7, <2>8, <2>9, <2>10, <2>11, <2>12, <2>13, <2>14, <2>15, <2>16, <2>17,
       <2>18, <2>19, OutsideStep
<1>. QED BY <1>1, <1>2, CourseInvariant, CommandedInvariant, PlannedInvariant, PTL DEF Spec

\* The platforms of a plan for what was asked for are those that were asked for.
LEMMA PlannedIsAsked ==
  ASSUME Finished(proc["outer"]), line.cmd # "clean"
  PROVE  PlanNames(proc["outer"].plan) = Asked /\ Asked # {}
<1> DEFINE r == proc["outer"]
           ps == Platforms(r.raw.platforms)
           Fits(n) == LET p == Named(ps, n)
                      IN Host \in Range(p.on) /\ AskedName \in {None, n} /\ AskedTarget \in {None, p.for}
<1>1. Asked = {n \in NamesOf(r.raw) : Fits(n)}
  BY DEF Asked, AskedName, AskedTarget, AskedPlatform, AskedFor
<1>2. /\ r.raw \in Files /\ r.plan # <<>> /\ r.plan \in Seq(Builds)
      /\ \A k \in 1 .. Len(r.plan) : \E i \in DOMAIN ps :
           Suits(r.raw, i, Host, AskedName, AskedTarget) /\ r.plan[k].platform = ps[i].name
      /\ \A i \in DOMAIN ps : Suits(r.raw, i, Host, AskedName, AskedTarget) =>
           \E k \in 1 .. Len(r.plan) : r.plan[k].platform = ps[i].name
  <2>1. r.raw \in Files /\ r.plan # <<>> /\ PlansFor(r.plan, r.raw, Host, AskedName, AskedTarget)
    BY DEF Finished
  <2>2. /\ r.plan \in Seq(Builds)
        /\ \A k \in 1 .. Len(r.plan) : \E i \in DOMAIN ps :
             /\ Suits(r.raw, i, Host, AskedName, AskedTarget)
             /\ r.plan[k] = [platform |-> ps[i].name, on |-> Host, for |-> ps[i].for]
        /\ \A i \in DOMAIN ps : Suits(r.raw, i, Host, AskedName, AskedTarget) =>
             \E k \in 1 .. Len(r.plan) : r.plan[k].platform = ps[i].name
    <3> HIDE DEF r
    <3>. QED BY <2>1 DEF PlansFor
  <2> HIDE DEF r, ps
  <2>3. ASSUME NEW k \in 1 .. Len(r.plan)
        PROVE  \E i \in DOMAIN ps :
                 Suits(r.raw, i, Host, AskedName, AskedTarget) /\ r.plan[k].platform = ps[i].name
    <3>1. PICK i \in DOMAIN ps :
            /\ Suits(r.raw, i, Host, AskedName, AskedTarget)
            /\ r.plan[k] = [platform |-> ps[i].name, on |-> Host, for |-> ps[i].for]
      BY <2>2
    <3>. QED BY <3>1
  <2>. QED BY <2>1, <2>2, <2>3
<1>3. Len(r.plan) \in Nat \ {0} /\ DOMAIN r.plan = 1 .. Len(r.plan)
  BY <1>2, LenProperties, EmptySeq
<1>4. NamesOf(r.raw) = {ps[i].name : i \in DOMAIN ps}
  BY <1>2, PlatformFacts
<1>5. \A i \in DOMAIN ps : Named(ps, ps[i].name) = ps[i]
  BY <1>2, NamedFacts
<1>6. \A i \in DOMAIN ps : Fits(ps[i].name) <=> Suits(r.raw, i, Host, AskedName, AskedTarget)
  BY <1>5 DEF Suits
<1>7. PlanNames(r.plan) = {r.plan[k].platform : k \in 1 .. Len(r.plan)}
  BY <1>3 DEF PlanNames, Range
<1> HIDE DEF r, ps, Fits
<1>8. {r.plan[k].platform : k \in 1 .. Len(r.plan)} = {n \in NamesOf(r.raw) : Fits(n)}
  BY <1>2, <1>4, <1>6
<1>9. 1 \in 1 .. Len(r.plan)
  BY <1>3
<1>. QED BY <1>1, <1>7, <1>8, <1>9 DEF r

\* The exit code is 0 only if all that was asked for was done.
THEOREM ExitCodeInvariant == Spec => []ExitCodeHonest
<1>1. Course /\ Commanded /\ Ahead /\ Cleaned => ExitCodeHonest
  <2> DEFINE r == proc["outer"]
  <2>1. SUFFICES ASSUME Course, Commanded, Ahead, Cleaned,
                        r.pc = "ended", ExitCode("outer") = 0, r.error \notin Answers
                 PROVE  CASE line.cmd = "pack" -> built = Asked /\ built # {}
                          [] line.cmd = "test" ->
                               built = Asked /\ {t.platform : t \in tested} = Asked /\ built # {}
                          [] CleansInstances /\ UseProvider("outer") ->
                               \A n \in NamesOf(r.raw) :
                                 /\ line.platform \in {None, n}
                                 /\ Host \in Range(Named(Platforms(r.raw.platforms), n).on)
                                 => instance[<<GetProvider, n>>] = None
                          [] OTHER -> line.cmd \in Offered
    BY DEF ExitCodeHonest
  <2>2. r.error = None
    BY <2>1 DEF ExitCode, ReturnCode, Answers
  <2>3. line.cmd \in Offered
    <3>1. DispatchError = None
      BY <2>1, <2>2 DEF Commanded, CommandedOf, Processes
    <3>2. None # "usage"
      BY NoneFacts DEF Errors
    <3>. QED BY <3>1, <3>2 DEF DispatchError
  <2>4. line.cmd \in {"pack", "test"} => built = Asked /\ built # {}
    <3>1. SUFFICES ASSUME line.cmd \in {"pack", "test"} PROVE built = Asked /\ built # {}
      OBVIOUS
    <3>2. Finished(r) /\ line.cmd # "clean"
      BY <2>1, <2>2, <3>1 DEF Ahead
    <3>. QED BY <3>2, PlannedIsAsked DEF Finished
  <2>5. line.cmd = "test" => {t.platform : t \in tested} = Asked
    <3>1. SUFFICES ASSUME line.cmd = "test" PROVE {t.platform : t \in tested} = Asked
      OBVIOUS
    <3>2. Finished(r) /\ line.cmd # "clean"
      BY <2>1, <2>2, <3>1 DEF Ahead
    <3>. QED BY <3>1, <3>2, PlannedIsAsked DEF Finished, TestedNames
  <2>6. CleansInstances /\ UseProvider("outer") =>
          \A n \in NamesOf(r.raw) : Host \in Range(Named(Platforms(r.raw.platforms), n).on)
                                      => instance[<<GetProvider, n>>] = None
    <3> DEFINE ps == Platforms(r.raw.platforms)
    <3>1. SUFFICES ASSUME CleansInstances, UseProvider("outer"), NEW n \in NamesOf(r.raw),
                          Host \in Range(Named(ps, n).on)
                   PROVE  instance[<<GetProvider, n>>] = None
      OBVIOUS
    <3>2. /\ r.raw \in Files
          /\ \A i \in DOMAIN ps : Host \in Range(ps[i].on) => instance[<<GetProvider, ps[i].name>>] = None
      BY <2>1, <2>2, <3>1 DEF Cleaned
    <3>3. PICK i \in DOMAIN ps : n = ps[i].name
      <4>1. r.raw \in Files
        BY <3>2
      <4>2. NamesOf(r.raw) = {ps[i].name : i \in DOMAIN ps}
        BY <4>1, PlatformFacts
      <4> HIDE DEF ps
      <4>. QED BY <3>1, <4>2
    <3>4. Named(ps, n) = ps[i]
      BY <3>2, <3>3, NamedFacts
    <3> HIDE DEF ps
    <3>. QED BY <3>1, <3>2, <3>3, <3>4
  <2>. QED BY <2>3, <2>4, <2>5, <2>6
<1>. QED
  BY <1>1, CourseInvariant, CommandedInvariant, AheadInvariant, CleanedInvariant, PTL
-----------------------------------------------------------------------------
(* What the process in an instance builds. *)

\* It read the project file that the one outside read, or an edit of it.
Related ==
  LET in == proc["inner"]
  IN in.pc \in Reading \/ (in.pc = "ended" /\ in.error # "KeyboardInterrupt") =>
       ~Edited \/ <<proc["outer"].raw, in.raw>> \in Edits

\* A step leaves the process in an instance alone, ends or starts it, or is one of its own.
LEMMA InsideStep ==
  ASSUME Course, [Next]_vars
  PROVE  \/ /\ proc'["inner"] = proc["inner"] /\ line' = line
            /\ proc'["outer"].raw = proc["outer"].raw \/ At("inner", "absent")
         \/ proc'["inner"] \in {Fresh, Absent}
         \/ Interrupt
         \/ Boot("inner") \/ Configure("inner") \/ Command("inner")
         \/ Setup("inner") \/ Run("inner") \/ Execute("inner")
<1>1. /\ Shape /\ "outer" \in Processes /\ "inner" \in Processes /\ "inner" # "outer"
      /\ \A q \in Processes : q \in {"outer", "inner"} /\ CourseOf(q)
      /\ proc["outer"].pc \notin Following \cup {"absent", "ended"} => At("inner", "absent")
  BY DEF Course, Processes, Alive
<1>2. CASE Boot("outer")
  <2>1. proc["outer"] = Fresh /\ proc["outer"].pc = "boot"
    BY <1>1, <1>2 DEF Boot, At, CourseOf
  <2>2. Others("outer") /\ UNCHANGED line
    BY <1>1, <1>2, <2>1, BootStep DEF around
  <2>. QED BY <1>1, <2>1, <2>2 DEF Others, Following
<1>3. CASE Configure("outer") \/ Setup("outer") \/ Run("outer") \/ Execute("outer")
  BY <1>1, <1>3, ConfigureStep, SetupStep, RunStep, ExecuteStep DEF Others, AllBut, Fields, around
<1>4. CASE Command("outer")
  <2>1. proc["outer"].pc = "command" /\ proc["outer"].names = None /\ proc["outer"].fors = None
    BY <1>1, <1>4 DEF Command, At, CourseOf, Unfiltered
  <2>2. Others("outer") /\ line' = line
        /\ AllBut(proc'["outer"], proc["outer"], {"pc", "error", "snaps", "made", "names", "fors", "plan"})
    BY <1>1, <1>4, <2>1, CommandStep
  <2>. QED BY <1>1, <2>2 DEF Others, AllBut, Fields
<1>5. CASE Lint \/ CleanInstances \/ LaunchFails \/ Collect \/ Test
  BY <1>1, <1>5, LintStep, CleanStep, LaunchFailsStep, CollectStep, TestStep
  DEF Others, AllBut, Fields, around
<1>6. CASE Launch
  BY <1>1, <1>6, LaunchStep DEF Others, AllBut, Fields
<1>7. CASE Start \/ Exit
  <2>1. line = None => proc["inner"] = Absent
    BY <1>1 DEF Course
  <2>. QED BY <1>1, <1>7, <2>1, StartStep, ExitStep DEF Others
<1>8. CASE Edit \/ UNCHANGED vars
  BY <1>8 DEF Edit, vars
<1>. QED BY <1>1, <1>2, <1>3, <1>4, <1>5, <1>6, <1>7, <1>8 DEF Next

\* The project file is edited once.
THEOREM RelatedInvariant == Spec => []Related
<1>1. Init => Related
  BY FreshFacts DEF Init, Related, Reading, Processes
<1>2. Course /\ Related /\ [Next]_vars => Related'
  <2>1. SUFFICES ASSUME Course, Related, [Next]_vars PROVE Related'
    OBVIOUS
  <2> DEFINE in == proc["inner"]
             on == proc'["inner"]
  <2>2. /\ Shape /\ "inner" \in Processes /\ "outer" \in Processes /\ "inner" # "outer" /\ CourseOf("inner")
        /\ CourseOf("outer")
        /\ in.pc \notin {"absent", "ended"} => proc["outer"].pc = "waiting"
    BY <2>1 DEF Course, Processes, Alive, At
  <2>3. ASSUME proc'["outer"].raw = proc["outer"].raw, on.raw = in.raw,
               \/ in.pc \in Reading
               \/ on.pc = "ended" /\ on.error = "KeyboardInterrupt"
        PROVE  Related'
    BY <2>1, <2>3 DEF Related, Edited, Reading
  <2>4. CASE Boot("inner")
    <3>1. in = Fresh /\ proc["outer"].pc = "waiting"
      BY <2>2, <2>4, FreshFacts DEF Boot, At, CourseOf
    <3>2. on.raw = project /\ Others("inner")
      BY <2>2, <2>4, <3>1, BootStep, ProjectFileFacts
    <3>3. Read("outer")
      BY <2>2, <3>1 DEF CourseOf, Reading
    <3>. QED BY <2>2, <3>2, <3>3 DEF Related, Edited, Read, Others
  <2>5. CASE Configure("inner") \/ Setup("inner") \/ Run("inner") \/ Execute("inner")
    <3>1. in.pc \in Reading /\ Others("inner") /\ on.raw = in.raw
      BY <2>2, <2>5, ConfigureStep, SetupStep, RunStep, ExecuteStep DEF Reading, AllBut, Fields
    <3>. QED BY <2>2, <2>3, <3>1 DEF Others
  <2>6. CASE Command("inner")
    <3>1. in.pc = "command" /\ in.names = None /\ in.fors = None
      BY <2>2, <2>6 DEF Command, At, CourseOf, Unfiltered
    <3>2. Others("inner") /\ AllBut(on, in, {"pc", "error", "snaps", "made", "names", "fors", "plan"})
      BY <2>2, <2>6, <3>1, CommandStep
    <3>. QED BY <2>2, <2>3, <3>1, <3>2 DEF Others, AllBut, Fields, Reading
  <2>7. CASE Interrupt
    <3>1. /\ proc["outer"].pc \notin {"absent", "ended"}
          /\ AllBut(proc'["outer"], proc["outer"], {"pc", "error"})
          /\ on = in \/ (AllBut(on, in, {"pc", "error"}) /\ on.pc = "ended" /\ on.error = "KeyboardInterrupt")
      BY <2>2, <2>7, InterruptStep
    <3>. QED BY <2>1, <2>2, <2>3, <3>1 DEF AllBut, Fields, Related, Edited
  <2>8. CASE on \in {Fresh, Absent}
    BY <2>8, FreshFacts DEF Related, Reading
  <2>9. CASE on = in /\ (proc'["outer"].raw = proc["outer"].raw \/ At("inner", "absent"))
    BY <2>1, <2>9 DEF Related, Edited, At, Reading
  <2>. QED BY <2>1, <2>4, <2>5, <2>6, <2>7, <2>8, <2>9, InsideStep
<1>. QED BY <1>1, <1>2, CourseInvariant, PTL DEF Spec

\* What is built, and where it is built, is what the project is rendered for and what
\* was asked for; inside an instance, what the instance is for.
THEOREM PlannedRuns == Spec => []RunsAsPlanned
<1>1. Course /\ Commanded /\ Planned /\ Typed /\ Related => RunsAsPlanned
  <2>1. SUFFICES ASSUME Course, Commanded, Planned, Typed, Related,
                        NEW p \in Processes, proc[p].pc = "execute", line.cmd # "clean"
                 PROVE  /\ proc[p].build = proc[p].conf
                        /\ proc[p].arch = IF proc[p].conf.for = "all" THEN Machine(p) ELSE proc[p].conf.for
                        /\ proc[p].build.platform = Platform(p) \/ Platform(p) = None
                        /\ proc[p].build.for = BuildFor(p) \/ BuildFor(p) = None
                        /\ p = "inner" => /\ proc[p].build.platform = Head(queue).platform
                                          /\ Edited \/ proc[p].build.for = Head(queue).for
                                          /\ Edited => <<proc["outer"].raw, proc[p].raw>> \in Edits
    BY DEF RunsAsPlanned
  <2> DEFINE r == proc[p]
             ps == Platforms(r.raw.platforms)
  <2>2. /\ r.raw \in Files /\ r.plan # <<>> /\ r.build = Head(r.plan) /\ r.build = r.conf
        /\ \E i \in DOMAIN ps :
             /\ Suits(r.raw, i, Machine(p), Platform(p), BuildFor(p))
             /\ r.build = [platform |-> ps[i].name, on |-> Machine(p), for |-> ps[i].for]
    <3>1. r.raw \in Files /\ r.plan \in Seq(Builds) /\ Len(r.plan) = 1 /\ r.build = r.plan[1] /\ r.build = r.conf
      BY <2>1, BuildFacts
    <3>2. \E i \in DOMAIN ps :
             /\ Suits(r.raw, i, Machine(p), Platform(p), BuildFor(p))
             /\ r.build = [platform |-> ps[i].name, on |-> Machine(p), for |-> ps[i].for]
      BY <2>1, BuildFacts
    <3> HIDE DEF r, ps
    <3>3. r.plan # <<>> /\ Head(r.plan) = r.plan[1]
      <4> DEFINE plan == r.plan
      <4>1. plan \in Seq(Builds) /\ Len(plan) = 1
        BY <3>1
      <4> HIDE DEF plan
      <4>2. plan # <<>> /\ Head(plan) = plan[1]
        BY <4>1
      <4>. QED BY <4>2 DEF plan
    <3>. QED BY <3>1, <3>2, <3>3
  <2>3. r.arch = GetBuildFor(p, r)
    BY <2>1, <2>2 DEF Planned, PlannedOf
  <2>4. PICK i \in DOMAIN ps :
          /\ Suits(r.raw, i, Machine(p), Platform(p), BuildFor(p))
          /\ r.build = [platform |-> ps[i].name, on |-> Machine(p), for |-> ps[i].for]
    BY <2>2
  <2>5. r.arch = IF r.conf.for = "all" THEN Machine(p) ELSE r.conf.for
    BY <2>2, <2>3 DEF GetBuildFor
  <2> HIDE DEF ps
  <2>6. /\ r.build.platform = ps[i].name /\ r.build.for = ps[i].for
        /\ Platform(p) \in {None, ps[i].name} /\ BuildFor(p) \in {None, ps[i].for}
    BY <2>4 DEF Suits, ps
  <2>7. ASSUME p = "inner"
        PROVE  /\ r.build.platform = Head(queue).platform
               /\ Edited \/ r.build.for = Head(queue).for
               /\ Edited => <<proc["outer"].raw, r.raw>> \in Edits
    <3> DEFINE os == Platforms(proc["outer"].raw.platforms)
    <3>1. proc["outer"].pc \in Following
      BY <2>1, <2>7 DEF Course, Alive, At, Following
    <3>2. Platform("inner") # None /\ Platform("inner") = Head(queue).platform
      BY <2>1, <3>1, InsideFacts
    <3>3. PICK k \in DOMAIN os : Head(queue) = [platform |-> os[k].name, on |-> Host, for |-> os[k].for]
      BY <2>1, <3>1, InsideFacts
    <3>4. Head(queue).platform = os[k].name /\ Head(queue).for = os[k].for
      <4> HIDE DEF os
      <4>. QED BY <3>3
    <3>5. r.build.platform = Head(queue).platform
      BY <2>6, <2>7, <3>2
    <3>6. Edited \/ r.build.for = Head(queue).for
      <4>1. SUFFICES ASSUME ~Edited PROVE r.build.for = Head(queue).for
        OBVIOUS
      <4>2. os = ps
        BY <2>7, <4>1 DEF Edited, ps
      <4>3. \A m, n \in DOMAIN ps : ps[m].name = ps[n].name => m = n
        BY <2>2, PlatformFacts DEF ps
      <4> HIDE DEF os, r
      <4>. QED BY <2>4, <2>6, <3>3, <3>4, <3>5, <4>2, <4>3
    <3>7. Edited => <<proc["outer"].raw, r.raw>> \in Edits
      BY <2>1, <2>7 DEF Related, Reading
    <3>. QED BY <3>5, <3>6, <3>7
  <2>. QED BY <2>2, <2>5, <2>6, <2>7
<1>. QED
  BY <1>1, CourseInvariant, CommandedInvariant, PlannedInvariant, TypedInvariant, RelatedInvariant, PTL

\* On the machine and the project that outer planned for, a process in an instance plans
\* the build it is for, and no other.
LEMMA InsidePlan ==
  ASSUME Course, Commanded, Planned, Typed, proc["inner"].pc \in Running, ~Edited,
         Lookup(line.env, "on") \in {None, Host}
  PROVE  LET plan == PlanOf("inner", proc["inner"])
         IN /\ plan \in Seq(Builds) /\ plan # <<>>
            /\ line.cmd # "clean" => Len(plan) = 1
<1> DEFINE r == proc["inner"]
           ps == Platforms(r.raw.platforms)
           plan == PlanOf("inner", r)
<1>1. /\ "inner" \in Processes /\ r.pc \in Rendered /\ Machine("inner") = Host /\ Host \in Archs
      /\ proc["outer"].pc \in Following
      /\ r.names = NamesFilter("inner") /\ r.fors = ForsFilter("inner")
  BY ApplicationAssumption
  DEF Processes, Machine, Planned, PlannedOf, Following, Running, Rendered, Reading, Course, Alive, At
<1>2. r.raw \in Files /\ Valid(r.raw.platforms)
  <2>1. \A s : s.raw = r.raw => r.raw \in Files /\ Valid(r.raw.platforms)
    BY <1>1, PlanOfFacts
  <2>. QED BY <2>1
<1>3. PICK i \in DOMAIN ps :
        /\ Host \in Range(ps[i].on)
        /\ Head(queue) = [platform |-> ps[i].name, on |-> Host, for |-> ps[i].for]
  BY <1>1, InsideFacts DEF Edited
<1>4. IsPlan(plan, r.raw.platforms, r.names, r.fors, {Machine("inner")})
  <2>1. IsPlan(CreateBuildPlan(r.raw.platforms, r.names, r.fors, {Machine("inner")}), r.raw.platforms,
               r.names, r.fors, {Machine("inner")})
    BY <1>2, PlanFacts
  <2>. QED BY <2>1 DEF PlanOf
<1>5. CASE line.cmd = "clean"
  <2>1. r.names = None /\ r.fors = None
    BY <1>1, <1>5 DEF NamesFilter, ForsFilter
  <2>2. Passes([platform |-> ps[i].name, on |-> Host, for |-> ps[i].for], r.names, r.fors, {Machine("inner")})
    BY <1>1, <2>1 DEF Passes, Keeps
  <2> HIDE DEF plan, r
  <2>3. plan \in Seq(Builds) /\ \E k \in 1 .. Len(plan) : plan[k].platform = ps[i].name
    BY <1>3, <1>4, <2>2 DEF IsPlan
  <2>. QED BY <1>5, <2>3 DEF plan, r
<1>6. CASE line.cmd # "clean"
  <2>1. /\ Platform("inner") # None /\ Platform("inner") = Head(queue).platform
        /\ BuildFor("inner") \in {None, Head(queue).for}
        /\ BuildFor("inner") \in Targets \cup {None} /\ Platform("inner") \in NamesOf(proc["outer"].raw)
    BY <1>1, <1>6, InsideFacts
  <2>2. Platform("inner") \in Names \cup {None}
    BY <1>2, <2>1, PlatformFacts DEF Edited
  <2>3. r.names = Filter(Platform("inner")) /\ r.fors = Filter(BuildFor("inner"))
    BY <1>1, <1>6 DEF NamesFilter, ForsFilter, AskedPlatform, AskedFor
  <2>4. PlansFor(plan, r.raw, Host, Platform("inner"), BuildFor("inner"))
    BY <1>1, <2>1, <2>2, <2>3, FilteredFacts
  <2> HIDE DEF ps
  <2>5. Head(queue).platform = ps[i].name /\ Head(queue).for = ps[i].for
    BY <1>3
  <2>6. Suits(r.raw, i, Host, Platform("inner"), BuildFor("inner"))
    BY <1>3, <2>1, <2>5 DEF Suits, ps
  <2> HIDE DEF plan, r
  <2>7. /\ plan \in Seq(Builds)
        /\ \E k \in 1 .. Len(plan) : plan[k].platform = ps[i].name
        /\ \A k, l \in 1 .. Len(plan) : plan[k].platform = plan[l].platform => k = l
    BY <1>3, <2>4, <2>6 DEF PlansFor, ps
  <2>8. \A k \in 1 .. Len(plan) : plan[k].platform = Platform("inner")
    <3>1. SUFFICES ASSUME NEW k \in 1 .. Len(plan) PROVE plan[k].platform = Platform("inner")
      OBVIOUS
    <3>2. PICK m \in DOMAIN ps :
            /\ Suits(r.raw, m, Host, Platform("inner"), BuildFor("inner"))
            /\ plan[k] = [platform |-> ps[m].name, on |-> Host, for |-> ps[m].for]
      BY <2>4 DEF PlansFor, ps
    <3>3. plan[k].platform = ps[m].name
      BY <3>2
    <3>. QED BY <2>1, <3>2, <3>3 DEF Suits, ps
  <2>9. Len(plan) \in Nat /\ Len(plan) # 0
    BY <2>7, LenProperties
  <2>10. Len(plan) = 1
    <3>1. SUFFICES ASSUME Len(plan) # 1 PROVE FALSE
      OBVIOUS
    <3>2. \A n \in Nat : n # 0 /\ n # 1 => 1 \in 1 .. n /\ 2 \in 1 .. n
      OBVIOUS
    <3>3. 1 \in 1 .. Len(plan) /\ 2 \in 1 .. Len(plan)
      BY <2>9, <3>1, <3>2
    <3>. QED BY <2>7, <2>8, <3>3
  <2>. QED BY <2>7, <2>10 DEF plan, r
<1>. QED BY <1>5, <1>6
\* A process in an instance is refused in what outer planned only if the project was edited
\* or the instance has another architecture; only a process that ended was refused.
Accepted ==
  proc["inner"].error \in PlanErrors =>
    /\ proc["inner"].pc = "ended"
    /\ Lookup(line.env, "on") \notin {None, Host} \/ <<proc["outer"].raw, proc["inner"].raw>> \in Edits

\* The errors of rendering, of the command and of the process itself are not those of the plan.
LEMMA PlanErrorFacts ==
  /\ None \notin PlanErrors /\ "PartsError" \notin PlanErrors /\ "KeyboardInterrupt" \notin PlanErrors
  /\ \A r : RenderError(r) \notin PlanErrors
  /\ CommandError("inner") \notin PlanErrors /\ Fresh.error \notin PlanErrors /\ Absent.error \notin PlanErrors
<1>1. None \notin PlanErrors
  BY NoneFacts DEF PlanErrors, Errors
<1>2. \A r : RenderError(r) \notin PlanErrors
  BY <1>1 DEF RenderError, RenderForError, PlanErrors
<1>3. SpreadError \notin PlanErrors
  BY <1>1 DEF SpreadError, PlanErrors
<1>4. PrecheckError("inner") \notin PlanErrors
  BY <1>1 DEF PrecheckError, Managed
<1>5. SupportedBaseError("inner") \notin PlanErrors
  BY <1>1, <1>2 DEF SupportedBaseError, PlanErrors
<1>6. CommandError("inner") \notin PlanErrors
  BY <1>1, <1>3, <1>4, <1>5, CommandErrorFacts
<1>7. Fresh.error = None /\ Absent.error = None
  BY DEF Fresh, Absent
<1>. QED BY <1>1, <1>2, <1>6, <1>7 DEF PlanErrors

\* The project that outer read can be configured for a build of its plan.
LEMMA InsideConfigures ==
  ASSUME Course, Commanded, Planned, Typed, proc["inner"].pc = "configure", ~Edited
  PROVE  ConfigureError(proc["inner"].raw.platforms, Machine("inner"), Platform("inner"), BuildFor("inner")) = None
<1> DEFINE raw == proc["outer"].raw
           ps == Platforms(raw.platforms)
<1>1. proc["outer"].pc = "waiting" /\ "outer" \in Processes
  BY DEF Course, Alive, At, Processes
<1>2. raw \in Files /\ Platform("inner") \in NamesOf(raw) /\ BuildFor("inner") \in Targets \cup {None}
      /\ Platform("inner") # None
  BY <1>1, InsideFacts DEF Following
<1>3. Valid(raw.platforms)
  BY <1>1, ValidWhenRendered DEF Planned, Rendered, Reading
<1>4. NamesOf(raw) = {ps[i].name : i \in DOMAIN ps}
  BY <1>2, PlatformFacts
<1>5. proc["inner"].raw = raw
  BY DEF Edited
<1> HIDE DEF raw
<1>. QED BY <1>2, <1>3, <1>4, <1>5 DEF ConfigureError

\* A plan that outer follows is accepted in the instances.
THEOREM AcceptedInvariant == Spec => []Accepted
<1>1. Init => Accepted
  BY PlanErrorFacts DEF Init, Accepted, Processes
<1>2. Course /\ Commanded /\ Planned /\ Typed /\ Related /\ Accepted /\ [Next]_vars => Accepted'
  <2>1. SUFFICES ASSUME Course, Commanded, Planned, Typed, Related, Accepted, [Next]_vars PROVE Accepted'
    OBVIOUS
  <2> DEFINE in == proc["inner"]
             on == proc'["inner"]
             other == Lookup(line.env, "on") \notin {None, Host}
  <2>2. /\ Shape /\ "inner" \in Processes /\ "outer" \in Processes /\ "inner" # "outer" /\ CourseOf("inner")
        /\ in.pc \in Reading => in.error = None /\ proc["outer"].pc = "waiting"
    BY <2>1 DEF Course, CourseOf, Processes, Alive, At, Reading
  <2>3. ASSUME in.pc \in Reading, Others("inner"), line' = line, on.raw = in.raw,
               on.error \in PlanErrors => on.pc = "ended" /\ (Edited \/ other)
        PROVE  Accepted'
    <3>1. proc'["outer"] = proc["outer"]
      BY <2>2, <2>3 DEF Others
    <3>2. Edited => <<proc["outer"].raw, in.raw>> \in Edits
      BY <2>1, <2>3 DEF Related
    <3>. QED BY <2>3, <3>1, <3>2 DEF Accepted
  <2>4. CASE Boot("inner")
    <3>1. in = Fresh /\ on.error = None
      BY <2>2, <2>4, FreshFacts, BootStep DEF Boot, At, CourseOf, AllBut, Fields
    <3>. QED BY <3>1, PlanErrorFacts DEF Accepted
  <2>5. CASE Configure("inner")
    <3>1. /\ in.pc = "configure" /\ Others("inner") /\ line' = line /\ on.raw = in.raw
      BY <2>2, <2>5, ConfigureStep DEF AllBut, Fields, around
    <3>2. DispatchError = None /\ in.error = None
      BY <2>1, <2>2, <3>1, CommandedInside DEF Alive, Reading
    <3>3. ~Edited => on.error = None
      BY <2>1, <2>2, <2>5, <3>1, <3>2, ConfigureStep, InsideConfigures
    <3>4. on.error = None \/ on.pc = "ended"
      BY <2>2, <2>5, <3>2, ConfigureStep
    <3>. QED BY <2>3, <3>1, <3>3, <3>4, PlanErrorFacts DEF Reading
  <2>6. CASE Command("inner")
    <3>1. in.pc = "command" /\ in.names = None /\ in.fors = None /\ in.error = None
      BY <2>2, <2>6 DEF Command, At, CourseOf, Unfiltered, Reading
    <3>2. /\ Others("inner") /\ line' = line /\ on.raw = in.raw
          /\ on.error \in {in.error, CommandError("inner")}
      BY <2>2, <2>6, <3>1, CommandStep DEF AllBut, Fields
    <3>. QED BY <2>3, <3>1, <3>2, PlanErrorFacts DEF Reading
  <2>7. CASE Setup("inner")
    <3>1. /\ in.pc = "setup" /\ Others("inner") /\ line' = line /\ on.raw = in.raw
          /\ on.plan = IF in.plan # <<>> THEN in.plan ELSE PlanOf("inner", in)
          /\ \/ on.pc = "ended" /\ on.error = "EmptyBuildPlanError" /\ on.plan = <<>>
             \/ on.error \in {in.error, RenderError(in)}
      BY <2>2, <2>7, SetupStep DEF AllBut, Fields, around
    <3>2. ~Edited /\ ~other => on.plan # <<>>
      BY <2>1, <3>1, InsidePlan DEF Running
    <3>. QED BY <2>2, <2>3, <3>1, <3>2, PlanErrorFacts DEF Reading
  <2>8. CASE Run("inner")
    <3>1. /\ in.pc = "run" /\ Others("inner") /\ line' = line /\ on.raw = in.raw
          /\ on.plan = IF in.plan # <<>> THEN in.plan ELSE PlanOf("inner", in)
          /\ \/ on.error = in.error
             \/ on.pc = "ended" /\ on.error = BuildInfoError(on) /\ BuildInfoError(on) # None
             \/ on.pc = "ended" /\ on.error = BaseError("inner") /\ BaseError("inner") # None
      BY <2>2, <2>8, RunStep DEF AllBut, Fields, around
    <3>2. line.cmd # "clean" /\ on.plan = PlanOf("inner", in)
      BY <2>1, <2>2, <3>1 DEF Commanded, CommandedOf, Planned, PlannedOf, Reading
    <3>3. ~Edited /\ ~other => BuildInfoError(on) = None
      BY <2>1, <3>1, <3>2, InsidePlan DEF Running, BuildInfoError
    <3>4. ~Edited => BaseError("inner") = None
      BY DEF BaseError, Base, Edited
    <3>. QED BY <2>2, <2>3, <3>1, <3>3, <3>4, PlanErrorFacts DEF Reading
  <2>9. CASE Execute("inner")
    <3>1. /\ in.pc = "execute" /\ Others("inner") /\ line' = line /\ on.raw = in.raw
          /\ on.error \in {in.error, "PartsError"}
      BY <2>2, <2>9, ExecuteStep DEF AllBut, Fields
    <3>. QED BY <2>2, <2>3, <3>1, PlanErrorFacts DEF Reading
  <2>10. CASE Interrupt
    <3>1. /\ AllBut(proc'["outer"], proc["outer"], {"pc", "error"}) /\ line' = line
          /\ on = in \/ on.error = "KeyboardInterrupt"
      BY <2>2, <2>10, InterruptStep DEF around
    <3>2. proc'["outer"].raw = proc["outer"].raw
      BY <3>1 DEF AllBut, Fields
    <3>. QED BY <2>1, <3>1, <3>2, PlanErrorFacts DEF Accepted
  <2>11. CASE on \in {Fresh, Absent}
    BY <2>11, PlanErrorFacts DEF Accepted
  <2>12. CASE on = in /\ line' = line /\ (proc'["outer"].raw = proc["outer"].raw \/ At("inner", "absent"))
    BY <2>1, <2>12 DEF Accepted, At
  <2>. QED
    BY <2>1, <2>4, <2>5, <2>6, <2>7, <2>8, <2>9, <2>10, <2>11, <2>12, InsideStep
<1>. QED
  BY <1>1, <1>2, CourseInvariant, CommandedInvariant, PlannedInvariant, TypedInvariant, RelatedInvariant, PTL
  DEF Spec

\* What outer planned is never refused inside, unless the user edited the project or had the
\* instance created on another architecture.
THEOREM PlanAcceptedInvariant == Spec => []PlanAccepted
<1>1. Accepted => PlanAccepted
  BY DEF Accepted, PlanAccepted
<1>. QED BY <1>1, AcceptedInvariant, PTL
-----------------------------------------------------------------------------
(* The parts of a build. *)

\* The grammar of a part selects a sequence of values.
LEMMA SelectedFacts ==
  ASSUME NEW j \in Files, NEW key \in DOMAIN j.part, NEW build
  PROVE  \E S : Selected(j.part[key], build) \in Seq(S)
<1> DEFINE grammar == j.part[key]
           T == Range(grammar)
           S == UNION {Range(item.values) \cup Range(item.otherwise) : item \in T}
           chosen == [i \in DOMAIN grammar |-> Chosen(grammar[i], build)]
<1>1. /\ grammar \in Seq(T)
      /\ \A item \in T : item.values \in Seq(Range(item.values)) /\ item.otherwise \in Seq(Range(item.otherwise))
  BY PartAssumption DEF Files
<1>2. ASSUME NEW item \in T PROVE Chosen(item, build) \in Seq(S)
  <2>1. Range(item.values) \subseteq S /\ Range(item.otherwise) \subseteq S
    BY <1>2
  <2> HIDE DEF S
  <2>2. item.values \in Seq(S) /\ item.otherwise \in Seq(S)
    BY <1>1, <1>2, <2>1, SeqMonotonic
  <2>. QED BY <2>2 DEF Chosen
<1> HIDE DEF S
<1>3. Len(grammar) \in Nat /\ DOMAIN grammar = 1 .. Len(grammar) /\ \A i \in 1 .. Len(grammar) : grammar[i] \in T
  <2> HIDE DEF T, grammar
  <2>. QED BY <1>1, LenProperties, ElementOfSeq
<1> HIDE DEF T, grammar
<1>4. chosen \in Seq(Seq(S))
  <2>1. \A i \in 1 .. Len(grammar) : Chosen(grammar[i], build) \in Seq(S)
    BY <1>2, <1>3
  <2>. QED BY <1>3, <2>1
<1>5. FlattenSeq(chosen) \in Seq(S)
  <2> HIDE DEF chosen
  <2>. QED BY <1>4, FlattenFacts
<1>6. Selected(grammar, build) \in Seq(S)
  BY <1>5 DEF Selected
<1>. QED BY <1>6 DEF grammar

\* Merging dictionaries without a key in common loses nothing.
LEMMA MergedFacts ==
  ASSUME NEW S, NEW dicts \in Seq(S), ~Duplicates(dicts), NEW i \in DOMAIN dicts, NEW f \in DOMAIN dicts[i]
  PROVE  Merged(dicts)[1][f] = dicts[i][f]
<1> DEFINE having(key) == {k \in DOMAIN dicts : key \in DOMAIN dicts[k]}
           keys == UNION {DOMAIN dicts[k] : k \in DOMAIN dicts}
           whole == [key \in keys |-> dicts[Max(having(key))][key]]
<1>1. dicts # <<>> /\ DOMAIN dicts = 1 .. Len(dicts) /\ Len(dicts) \in Nat
  BY LenProperties
<1>2. Merged(dicts) = <<whole>>
  BY <1>1 DEF Merged
<1>3. f \in keys
  OBVIOUS
<1>4. having(f) = {i}
  BY DEF Duplicates
<1>5. Max({i}) = i
  BY <1>1 DEF Max
<1>6. whole[f] = dicts[i][f]
  BY <1>3, <1>4, <1>5
<1> HIDE DEF whole
<1>. QED BY <1>2, <1>6

\* What is executed was rendered without an error, and what it was rendered for is what
\* its parts are made for.
PartedOf(p) ==
  LET r == proc[p]
  IN r.pc \in {"run", "execute"} =>
       r.parts = ProcessPart(r.raw.part, r.conf) /\ RenderForError(r.raw, r.conf) = None
Parted == \A p \in Processes : PartedOf(p)

\* A process that is building rendered the project before.
THEOREM PartedInvariant == Spec => []Parted
<1>1. Init => Parted
  BY FreshFacts DEF Init, Parted, PartedOf, Processes
<1>2. Course /\ Parted /\ [Next]_vars => Parted'
  <2>1. SUFFICES ASSUME Course, Parted, [Next]_vars, NEW p \in Processes, proc'[p].pc \in {"run", "execute"}
                 PROVE  /\ proc'[p].parts = ProcessPart(proc'[p].raw.part, proc'[p].conf)
                        /\ RenderForError(proc'[p].raw, proc'[p].conf) = None
    BY DEF Parted, PartedOf
  <2>2. Command(p) \/ Setup(p) \/ Run(p) \/ proc'[p] = proc[p]
    BY <2>1, RunningStep DEF Running
  <2>3. Shape /\ CourseOf(p) /\ PartedOf(p)
    BY <2>1 DEF Course, Parted
  <2>4. CASE Command(p)
    <3>1. proc[p].names = None /\ proc[p].fors = None
      BY <2>3, <2>4 DEF Command, At, CourseOf, Unfiltered
    <3>2. proc'[p].pc \in {"ended", "clean", "launch", "setup"}
      BY <2>3, <2>4, <3>1, CommandStep
    <3>. QED BY <2>1, <3>2
  <2>5. CASE Setup(p)
    <3>1. /\ AllBut(proc'[p], proc[p], {"pc", "error", "plan", "group", "arch", "parts"})
          /\ RenderError(proc[p]) = None /\ proc'[p].parts = ProcessPart(proc[p].raw.part, proc[p].conf)
      BY <2>1, <2>3, <2>5, SetupStep
    <3>2. proc'[p].raw = proc[p].raw /\ proc'[p].conf = proc[p].conf
      BY <3>1 DEF AllBut, Fields
    <3>. QED BY <3>1, <3>2 DEF RenderError
  <2>6. CASE Run(p)
    <3>1. proc[p].pc = "run" /\ AllBut(proc'[p], proc[p], {"pc", "error", "plan", "build"})
      BY <2>3, <2>6, RunStep
    <3>2. /\ proc'[p].raw = proc[p].raw /\ proc'[p].conf = proc[p].conf /\ proc'[p].parts = proc[p].parts
      BY <3>1 DEF AllBut, Fields
    <3>. QED BY <2>3, <3>1, <3>2 DEF PartedOf
  <2>. QED BY <2>1, <2>2, <2>3, <2>4, <2>5, <2>6 DEF PartedOf
<1>. QED BY <1>1, <1>2, CourseInvariant, PTL DEF Spec

\* What is executed is what the build is for: its plugin group, and the parts as the grammar
\* has them for it, where merging loses nothing.
THEOREM PartsInvariant == Spec => []PartsOfBuild
<1>1. Course /\ Commanded /\ Planned /\ Typed /\ Parted => PartsOfBuild
  <2> DEFINE selected(p, key) == Selected(proc[p].raw.part[key], proc[p].build)
  <2>1. SUFFICES ASSUME Course, Commanded, Planned, Typed, Parted,
                        NEW p \in Processes, proc[p].pc = "execute", line.cmd # "clean"
                 PROVE  /\ Group(proc[p].build) # None => proc[p].group = Group(proc[p].build)
                        /\ \A key \in DOMAIN proc[p].parts :
                             IF key \in Lists THEN proc[p].parts[key] = selected(p, key)
                             ELSE IF key = "organize" /\ ForVariant(proc[p].raw.part[key])
                             THEN \A i \in DOMAIN selected(p, key) : \A f \in DOMAIN selected(p, key)[i] :
                                    proc[p].parts[key][1][f] = selected(p, key)[i][f]
                             ELSE selected(p, key) # <<>> => proc[p].parts[key] = <<Head(selected(p, key))>>
    BY DEF PartsOfBuild
  <2> DEFINE r == proc[p]
             part == r.raw.part
             build == r.build
  <2>2. r.raw \in Files /\ r.plan \in Seq(Builds) /\ Len(r.plan) = 1 /\ r.build = r.conf
    BY <2>1, BuildFacts
  <2>3. /\ r.build = Head(r.plan)
        /\ r.plan # <<>> /\ Group(Head(r.plan)) # None => r.group = Group(Head(r.plan))
    BY <2>1 DEF Planned, PlannedOf
  <2>4. /\ r.parts = ProcessPart(part, build) /\ RenderForError(r.raw, build) = None
    BY <2>1, <2>2 DEF Parted, PartedOf
  <2>5. r.plan # <<>>
    <3> DEFINE plan == r.plan
    <3>1. plan \in Seq(Builds) /\ Len(plan) = 1
      BY <2>2
    <3> HIDE DEF plan
    <3>2. plan # <<>>
      BY <3>1
    <3>. QED BY <3>2 DEF plan
  <2>6. ~ProcessingError(part, build)
    <3>1. None # "PartNames" /\ None # "CraftValidationError"
      BY NoneFacts DEF Errors
    <3>. QED BY <2>4, <3>1 DEF RenderForError
  <2> HIDE DEF build
  <2>7. ASSUME NEW key \in DOMAIN r.parts
        PROVE  LET chosen == Selected(part[key], build)
               IN IF key \in Lists THEN r.parts[key] = chosen
                  ELSE IF key = "organize" /\ ForVariant(part[key])
                  THEN \A i \in DOMAIN chosen : \A f \in DOMAIN chosen[i] :
                         r.parts[key][1][f] = chosen[i][f]
                  ELSE chosen # <<>> => r.parts[key] = <<Head(chosen)>>
    <3> DEFINE chosen == Selected(part[key], build)
    <3>1. key \in GrammarAware /\ key \in DOMAIN part /\ r.parts[key] = PostProcess(key, part[key], chosen)
      BY <2>4, <2>7 DEF ProcessPart
    <3>2. PICK S : chosen \in Seq(S)
      BY <2>2, <3>1, SelectedFacts
    <3>3. key = "organize" /\ ForVariant(part[key]) => ~Duplicates(chosen)
      BY <2>6, <3>1 DEF ProcessingError
    <3>4. key \in Lists => key # "organize"
      BY DEF Lists
    <3>. SUFFICES IF key \in Lists THEN r.parts[key] = chosen
                  ELSE IF key = "organize" /\ ForVariant(part[key])
                  THEN \A i \in DOMAIN chosen : \A f \in DOMAIN chosen[i] : r.parts[key][1][f] = chosen[i][f]
                  ELSE chosen # <<>> => r.parts[key] = <<Head(chosen)>>
      OBVIOUS
    <3> HIDE DEF chosen, part, r
    <3>5. CASE key \in Lists
      BY <3>1, <3>4, <3>5 DEF PostProcess
    <3>6. CASE key \notin Lists /\ key = "organize" /\ ForVariant(part[key])
      <4>1. r.parts[key] = Merged(chosen)
        BY <3>1, <3>6 DEF PostProcess
      <4>2. \A i \in DOMAIN chosen : \A f \in DOMAIN chosen[i] : Merged(chosen)[1][f] = chosen[i][f]
        BY <3>2, <3>3, <3>6, MergedFacts
      <4>. QED BY <3>6, <4>1, <4>2
    <3>7. CASE key \notin Lists /\ ~(key = "organize" /\ ForVariant(part[key]))
      <4>1. r.parts[key] = SubSeq(chosen, 1, IF chosen = <<>> THEN 0 ELSE 1)
        BY <3>1, <3>7 DEF PostProcess
      <4>2. chosen # <<>> => SubSeq(chosen, 1, 1) = <<Head(chosen)>>
        <5>1. SUFFICES ASSUME chosen # <<>> PROVE SubSeq(chosen, 1, 1) = <<Head(chosen)>>
          OBVIOUS
        <5>2. Len(chosen) \in Nat \ {0} /\ Head(chosen) = chosen[1]
          BY <3>2, <5>1
        <5> DEFINE first == SubSeq(chosen, 1, 1)
        <5>3. chosen[1] \in S
          BY <3>2, <5>2
        <5>4. first \in Seq(S) /\ Len(first) = 1 /\ first[1] = chosen[1]
          <6>1. \A i \in 1 .. 1 : chosen[i] \in S
            BY <5>3
          <6>. QED BY <6>1, SubSeqProperties
        <5> HIDE DEF first
        <5>5. <<Head(chosen)>> \in Seq(S) /\ Len(<<Head(chosen)>>) = 1 /\ <<Head(chosen)>>[1] = chosen[1]
          BY <5>2, <5>3
        <5>6. first = <<Head(chosen)>>
          BY <5>4, <5>5, SeqEqual
        <5>. QED BY <5>6 DEF first
      <4>. QED BY <3>7, <4>1, <4>2
    <3>. QED BY <3>5, <3>6, <3>7
  <2>. QED BY <2>3, <2>5, <2>7 DEF build
<1>. QED
  BY <1>1, CourseInvariant, CommandedInvariant, PlannedInvariant, TypedInvariant, PartedInvariant, PTL
-----------------------------------------------------------------------------
(* The snaps of an instance. *)

\* No snap comes twice, and one from the host after its base.
HasBase(s, hosted) == s.channel = None /\ s.name \in DOMAIN hosted /\ hosted[s.name].base \in DOMAIN hosted
InOrder(snaps, hosted) ==
  /\ \A i, j \in DOMAIN snaps : snaps[i].name = snaps[j].name => i = j
  /\ \A i \in DOMAIN snaps : HasBase(snaps[i], hosted) =>
       \E j \in 1 .. i - 1 : snaps[j].name = hosted[snaps[i].name].base

\* A snap that is not there yet, while its base is, can come next.
LEMMA AppendInOrder ==
  ASSUME NEW S, NEW snaps \in Seq(S), NEW s \in S, NEW hosted, InOrder(snaps, hosted),
         \A i \in DOMAIN snaps : snaps[i].name # s.name,
         HasBase(s, hosted) => \E i \in DOMAIN snaps : snaps[i].name = hosted[s.name].base
  PROVE  InOrder(Append(snaps, s), hosted) /\ Append(snaps, s) \in Seq(S) /\ s \in Range(Append(snaps, s))
<1> DEFINE N == Len(snaps)
           all == Append(snaps, s)
<1>1. /\ N \in Nat /\ DOMAIN snaps = 1 .. N /\ all \in Seq(S) /\ Len(all) = N + 1
      /\ all[N + 1] = s /\ \A i \in 1 .. N : all[i] = snaps[i]
  BY LenProperties, AppendProperties
<1> HIDE DEF all
<1>2. DOMAIN all = 1 .. N + 1
  BY <1>1, LenProperties
<1>3. ASSUME NEW i \in 1 .. N + 1, NEW j \in 1 .. N + 1, all[i].name = all[j].name PROVE i = j
  <2>1. CASE i \in 1 .. N /\ j \in 1 .. N
    BY <1>1, <1>3, <2>1 DEF InOrder
  <2>2. ASSUME NEW k \in 1 .. N, all[k].name = s.name PROVE FALSE
    BY <1>1, <2>2
  <2>3. CASE i = N + 1 \/ j = N + 1
    BY <1>1, <1>3, <2>2, <2>3
  <2>. QED BY <1>1, <2>1, <2>3
<1>4. ASSUME NEW i \in 1 .. N + 1, HasBase(all[i], hosted)
      PROVE  \E j \in 1 .. i - 1 : all[j].name = hosted[all[i].name].base
  <2>1. CASE i \in 1 .. N
    <3>1. PICK j \in 1 .. i - 1 : snaps[j].name = hosted[snaps[i].name].base
      BY <1>1, <1>4, <2>1 DEF InOrder
    <3>2. j \in 1 .. N
      BY <1>1, <2>1
    <3>. QED BY <1>1, <2>1, <3>1, <3>2
  <2>2. CASE i = N + 1
    <3>1. PICK j \in 1 .. N : snaps[j].name = hosted[s.name].base
      BY <1>1, <1>4, <2>2
    <3>2. j \in 1 .. i - 1
      BY <1>1, <2>2
    <3>. QED BY <1>1, <2>2, <3>1, <3>2
  <2>. QED BY <1>1, <2>1, <2>2
<1>5. InOrder(all, hosted)
  BY <1>2, <1>3, <1>4 DEF InOrder
<1>6. s \in Range(all)
  <2>1. N + 1 \in DOMAIN all
    BY <1>1, <1>2
  <2>. QED BY <1>1, <2>1 DEF Range
<1>. QED BY <1>1, <1>5, <1>6 DEF all

\* The application is installed in an instance as it runs on the host, if it can be.
SnapsFor(snaps) ==
  LET hosted == line.snap.hosted
      same == line.snap.name \in DOMAIN hosted /\ Lookup(line.env, "on") \in {None, Host}
  IN /\ InOrder(snaps, hosted)
     /\ IF same THEN Injected(line.snap.name, hosted[line.snap.name].classic) \in Range(snaps)
        ELSE \E s \in Range(snaps) : s.name = "app" /\ s.channel = Follows

\* What setup adds to the snaps that were registered.
LEMMA SnapsFacts ==
  ASSUME NEW j \in Projects, line \in Lines(j)
  PROVE  SnapsFor(Snaps)
<1> DEFINE hosted == line.snap.hosted
           name == line.snap.name
           matches == Lookup(line.env, "on") \in {None, Host}
           own == Injected(name, hosted[name].classic)
           b == hosted[name].base
           base == Injected(b, FALSE)
           app == [name |-> "app", channel |-> StoreChannel(name, line.snap.channel, hosted), classic |-> TRUE]
           req == RequestedSnaps
           S == Range(req) \cup {own, base, app}
<1>1. /\ \A i, k \in DOMAIN req : req[i].name = req[k].name => i = k
      /\ \A s \in Range(req) : s.name # "app" /\ s.channel # None /\ s.name # name
      /\ None \notin DOMAIN hosted /\ req \in Seq(Range(req))
      /\ \A n, c \in DOMAIN hosted : hosted[n].base = c => hosted[c].base \notin DOMAIN hosted
  BY SnapAssumption
<1>2. /\ own.name = name /\ own.channel = None /\ base.name = b /\ base.channel = None /\ app.name = "app"
      /\ {own, base, app} \subseteq S
  BY DEF Injected
<1>3. app.channel # None /\ app.channel = Follows
  <2>1. app.channel # None
    BY SnapAssumption DEF StoreChannel
  <2>2. name # None \/ name \notin DOMAIN hosted
    BY <1>1
  <2>. QED BY <2>1, <2>2 DEF StoreChannel, SnapStoreChannel, Follows
<1> HIDE DEF own, base, app
<1>4. Range(req) \subseteq S
  OBVIOUS
<1> HIDE DEF S
<1>5. req \in Seq(S)
  BY <1>1, <1>4, SeqMonotonic
<1>6. DOMAIN req = 1 .. Len(req) /\ Len(req) \in Nat /\ \A i \in DOMAIN req : req[i] \in Range(req)
  BY <1>5, LenProperties DEF Range
<1>7. InOrder(req, hosted)
  BY <1>1, <1>6 DEF InOrder, HasBase
<1>8. CASE matches /\ name \in DOMAIN hosted
  <2>1. Snaps = EnqueueSnapInjection(req, name, hosted)
    BY <1>1, <1>8 DEF Snaps, SetupSnaps
  <2>2. CASE b \in DOMAIN hosted /\ \A i \in DOMAIN req : req[i].name # b
    <3> DEFINE two == Append(req, base)
    <3>1. Snaps = (req \o <<base>>) \o <<own>>
      BY <1>8, <2>1, <2>2, Zenon DEF EnqueueSnapInjection, own, base
    <3>2. ~HasBase(base, hosted)
      BY <1>1, <1>2, <1>8, <2>2 DEF HasBase
    <3>3. InOrder(two, hosted) /\ two \in Seq(S) /\ base \in Range(two)
      BY <1>2, <1>5, <1>7, <2>2, <3>2, AppendInOrder
    <3>4. b # name
      BY <1>1, <1>8, <2>2
    <3>5. DOMAIN two = 1 .. Len(req) + 1 /\ two[Len(req) + 1] = base /\ \A i \in 1 .. Len(req) : two[i] = req[i]
      BY <1>2, <1>5, <1>6, AppendProperties, LenProperties, <3>3
    <3>6. \A i \in DOMAIN two : two[i].name # name
      BY <1>1, <1>2, <1>6, <3>4, <3>5
    <3>7. \E i \in DOMAIN two : two[i].name = hosted[own.name].base
      BY <1>2, <1>6, <3>5
    <3>8. Snaps = Append(two, own)
      <4>1. req \o <<base>> = Append(req, base)
        BY <1>2, <1>5, AppendIsConcat
      <4>2. two \o <<own>> = Append(two, own)
        BY <1>2, <3>3, AppendIsConcat
      <4>. QED BY <3>1, <4>1, <4>2
    <3> HIDE DEF two
    <3>9. InOrder(Append(two, own), hosted) /\ own \in Range(Append(two, own))
      BY <1>2, <3>3, <3>6, <3>7, AppendInOrder
    <3>. QED BY <1>8, <3>8, <3>9, Zenon DEF SnapsFor, own
  <2>3. CASE ~(b \in DOMAIN hosted /\ \A i \in DOMAIN req : req[i].name # b)
    <3>1. Snaps = (req \o <<>>) \o <<own>>
      BY <1>8, <2>1, <2>3, Zenon DEF EnqueueSnapInjection, own
    <3>2. Snaps = Append(req, own)
      BY <1>2, <1>5, <3>1, AppendIsConcat, ConcatEmptySeq
    <3>3. HasBase(own, hosted) => \E i \in DOMAIN req : req[i].name = hosted[own.name].base
      BY <1>2, <2>3 DEF HasBase
    <3>4. \A i \in DOMAIN req : req[i].name # own.name
      BY <1>1, <1>2, <1>6
    <3>5. InOrder(Append(req, own), hosted) /\ own \in Range(Append(req, own))
      BY <1>2, <1>5, <1>7, <3>3, <3>4, AppendInOrder
    <3>. QED BY <1>8, <3>2, <3>5, Zenon DEF SnapsFor, own
  <2>. QED BY <2>2, <2>3
<1>9. CASE ~(matches /\ name \in DOMAIN hosted)
  <2>1. Snaps = Append(req, app)
    BY <1>9 DEF Snaps, SetupSnaps, app
  <2>2. ~HasBase(app, hosted)
    BY <1>3 DEF HasBase
  <2>3. \A i \in DOMAIN req : req[i].name # app.name
    BY <1>1, <1>2, <1>6
  <2>4. InOrder(Append(req, app), hosted) /\ app \in Range(Append(req, app))
    BY <1>2, <1>5, <1>7, <2>2, <2>3, AppendInOrder
  <2>. QED BY <1>2, <1>3, <1>9, <2>1, <2>4 DEF SnapsFor
<1>. QED BY <1>8, <1>9

\* Instances are set up with the snaps that the command line and the host ask for.
Snapped == proc["outer"].pc \in Following => proc["outer"].snaps = Snaps

\* The snaps are found out once, when the command starts to follow its plan.
THEOREM SnappedInvariant == Spec => []Snapped
<1>1. Init => Snapped
  BY FreshFacts DEF Init, Snapped, Following, Processes
<1>2. Course /\ Snapped /\ [Next]_vars => Snapped'
  <2>1. SUFFICES ASSUME Course, Snapped, [Next]_vars, proc'["outer"].pc \in Following
                 PROVE  Snapped'
    BY DEF Snapped
  <2> DEFINE r == proc["outer"]
             s == proc'["outer"]
  <2>2. Shape /\ "outer" \in Processes /\ CourseOf("outer")
    BY <2>1 DEF Course, Processes
  <2>3. line' = line => Snaps' = Snaps
    BY DEF Snaps
  <2>4. CASE s = r /\ line' = line
    BY <2>1, <2>3, <2>4 DEF Snapped
  <2>5. CASE Launch \/ LaunchFails \/ Collect \/ Test
    <3>1. r.pc \in Following /\ AllBut(s, r, {"pc", "error"}) /\ line' = line
      BY <2>2, <2>5, LaunchStep, LaunchFailsStep, CollectStep, TestStep DEF Following
    <3>2. s.snaps = r.snaps
      BY <3>1 DEF AllBut, Fields
    <3>. QED BY <2>1, <2>3, <3>1, <3>2 DEF Snapped
  <2>6. CASE Command("outer")
    <3>1. r.names = None /\ r.fors = None
      BY <2>2, <2>6 DEF Command, At, CourseOf, Unfiltered
    <3>2. line' = line /\ (s.pc \in {"ended", "clean", "setup"} \/ s.snaps = Snaps)
      BY <2>2, <2>6, <3>1, CommandStep
    <3>. QED BY <2>1, <2>3, <3>2 DEF Snapped, Following
  <2>7. CASE Boot("outer")
    <3>1. r = Fresh
      BY <2>2, <2>7 DEF Boot, At, CourseOf
    <3>2. s.pc = "configure"
      BY <2>2, <2>7, <3>1, BootStep
    <3>. QED BY <2>1, <3>2 DEF Following
  <2>8. CASE Configure("outer") \/ Setup("outer") \/ Run("outer") \/ Execute("outer") \/ Lint \/ CleanInstances
    <3>1. s.pc \in {"ended", "lint", "command", "execute", "run"}
      BY <2>2, <2>8, ConfigureStep, SetupStep, RunStep, ExecuteStep, LintStep, CleanStep
    <3>. QED BY <2>1, <3>1 DEF Following
  <2>9. CASE Start \/ Exit \/ Interrupt
    <3>1. s.pc \in {"absent", "ended", "boot"}
      BY <2>2, <2>9, StartStep, ExitStep, InterruptStep, FreshFacts
    <3>. QED BY <2>1, <3>1 DEF Following
  <2>. QED BY <2>1, <2>4, <2>5, <2>6, <2>7, <2>8, <2>9, OutsideStep
<1>. QED BY <1>1, <1>2, CourseInvariant, PTL DEF Spec

\* While a command runs in an instance, the application is there as it runs on the host or
\* from the channel it follows (the one the user set, that of the snap on the host, or the
\* stable one), a snap from the host after its base, and none twice.
THEOREM SnapsInvariant == Spec => []SnapsInOrder
<1>1. Course /\ Snapped => SnapsInOrder
  <2>1. SUFFICES ASSUME Course, Snapped, At("outer", "waiting") PROVE SnapsInOrder
    BY Zenon DEF SnapsInOrder
  <2>2. proc["outer"].snaps = Snaps
    BY <2>1 DEF Snapped, At, Following
  <2>3. \E j \in Projects : line \in Lines(j)
    <3>1. line # None
      <4>1. line = None => proc["outer"] = Absent
        BY <2>1 DEF Course, Processes
      <4>. QED BY <2>1, <4>1, FreshFacts DEF At
    <3>. QED BY <2>1, <3>1 DEF Course
  <2>4. SnapsFor(proc["outer"].snaps)
    BY <2>2, <2>3, SnapsFacts
  <2>. QED BY <2>4, ZenonT(60) DEF SnapsFor, SnapsInOrder, InOrder, HasBase
<1>. QED BY <1>1, CourseInvariant, SnappedInvariant, PTL
=============================================================================
