-------------------------------- MODULE Lint --------------------------------
(***************************************************************************)
(* LinterService, its ignore rules, and the lint command of Testcraft, an  *)
(* application whose service adds a linter for each stage and reads rules  *)
(* from the project file, as the how-to of the linter service describes.   *)
(*                                                                         *)
(* An issue is [id, severity, file].  A rule on the command line is        *)
(* [linter, issue, glob], "linter:issue" or "linter:issue=glob".  Names of *)
(* files and globs are sequences of components.                            *)
(***************************************************************************)
EXTENDS Naturals, Sequences, SequencesExt, FiniteSetsExt

CONSTANT None

\* Severity: INFO, WARNING, ERROR.
Info == 1
Warning == 2
Error == 3

\* An IgnoreSpec: every issue, those with an id, those with an id in files
\* that match a glob.
NoSpec == [all |-> FALSE, ids |-> {}, globs |-> {}]

\* _normalize_ignore_config(): by linter what the file has, [ids, star, globs],
\* star if "ids" is the text "*"; what is no dictionary (None) is dropped.
NormalizeIgnoreConfig(raw) ==
  [l \in {k \in DOMAIN raw : raw[k] # None} |->
     [all |-> raw[l].star, ids |-> IF raw[l].star THEN {} ELSE raw[l].ids,
      globs |-> raw[l].globs]]

\* Mutant: a rule for one issue undoes an earlier one for every issue.
AddRuleNarrowing(spec, rule) ==
  IF rule.issue = "*" THEN [NoSpec EXCEPT !.all = TRUE]
  ELSE IF rule.glob = None THEN [spec EXCEPT !.all = FALSE, !.ids = @ \cup {rule.issue}]
  ELSE [spec EXCEPT !.globs = @ \cup {<<rule.issue, rule.glob>>}]

\* _build_cli_ignore_config(): "*" is for every issue, with or without a glob.
AddRule(spec, rule) ==
  IF rule.issue = "*" THEN [NoSpec EXCEPT !.all = TRUE]
  ELSE IF spec.all THEN spec
  ELSE IF rule.glob = None THEN [spec EXCEPT !.ids = @ \cup {rule.issue}]
  ELSE [spec EXCEPT !.globs = @ \cup {<<rule.issue, rule.glob>>}]

CliSpec(rules, linter) ==
  LET upto[i \in 0 .. Len(rules)] ==
        IF i = 0 THEN NoSpec
        ELSE IF rules[i].linter = linter THEN AddRule(upto[i - 1], rules[i]) ELSE upto[i - 1]
  IN upto[Len(rules)]
BuildCliIgnoreConfig(rules) ==
  [l \in {r.linter : r \in Range(rules)} |-> CliSpec(rules, l)]

\* _merge_into() of one linter, and of all.
MergeSpec(spec, over) ==
  IF over.all THEN [all |-> TRUE, ids |-> {}, globs |-> over.globs]
  ELSE [all |-> spec.all, ids |-> IF spec.all THEN {} ELSE spec.ids \cup over.ids,
        globs |-> spec.globs \cup over.globs]
MergeInto(config, overlay) ==
  [l \in DOMAIN config \cup DOMAIN overlay |->
     CASE l \notin DOMAIN config -> overlay[l]
       [] l \notin DOMAIN overlay -> config[l]
       [] OTHER -> MergeSpec(config[l], overlay[l])]

\* build_ignore_config() of an application that has rules in the project file.
BuildIgnoreConfig(raw, rules) ==
  MergeInto(NormalizeIgnoreConfig(raw), BuildCliIgnoreConfig(rules))

\* fnmatch(): "*" in front stands for any beginning.
GlobMatches(glob, file) ==
  IF glob # <<>> /\ Head(glob) = "*" THEN IsSuffix(Tail(glob), file) ELSE glob = file

ShouldIgnore(linter, issue, config) ==
  /\ linter \in DOMAIN config
  /\ LET spec == config[linter]
     IN \/ spec.all
        \/ issue.id \in spec.ids
        \/ \E g \in spec.globs : g[1] = issue.id /\ GlobMatches(g[2], issue.file)

\* What the linters find in a context [project, artifact]: the two of Testcraft,
\* and one that the application registered.
MissingVersion(context) ==
  IF context.project = None \/ context.project.version THEN {}
  ELSE {[id |-> "TC001", severity |-> Warning, file |-> <<"project", "testcraft.yaml">>]}
EmptyArtifact(context) ==
  IF context.artifact = None \/ context.artifact \ {"metadata.yaml", ".hidden"} # {} THEN {}
  ELSE {[id |-> "TC100", severity |-> Error, file |-> <<"unpacked", "metadata.yaml">>]}
Registered(context) ==
  {[id |-> "R1", severity |-> Info, file |-> <<"project", "a">>],
   [id |-> "R2", severity |-> Error, file |-> <<"project", "b">>]}

\* pre_filter_linters() for a stage.
PreFilterLinters(stage) == {"registered"} \cup {IF stage = "pre" THEN "version" ELSE "empty"}
RunLinter(linter, context) ==
  CASE linter = "version" -> MissingVersion(context)
    [] linter = "empty" -> EmptyArtifact(context)
    [] OTHER -> Registered(context)

\* run(): the issues of a stage that are not ignored, by linter.
Found(stage, context) ==
  UNION {{<<l, i>> : i \in RunLinter(l, context)} : l \in PreFilterLinters(stage)}
RunLinters(stage, context, config) ==
  {f \in Found(stage, context) : ~ShouldIgnore(f[1], f[2], config)}

\* get_highest_severity(), and summary() as the command returns it.
HighestSeverity(found) == IF found = {} THEN None ELSE Max({f[2].severity : f \in found})
Summary(found) == IF HighestSeverity(found) = Error THEN 2 ELSE 0

\* What the user asked not to see: an issue some rule is about, wherever it
\* stands.
AskedToIgnore(linter, issue, raw, rules) ==
  \/ \E r \in Range(rules) :
       /\ r.linter = linter /\ r.issue \in {"*", issue.id}
       /\ r.issue = "*" \/ r.glob = None \/ GlobMatches(r.glob, issue.file)
  \/ /\ linter \in DOMAIN raw /\ raw[linter] # None
     /\ \/ raw[linter].star \/ issue.id \in raw[linter].ids
        \/ \E g \in raw[linter].globs : g[1] = issue.id /\ GlobMatches(g[2], issue.file)
=============================================================================
