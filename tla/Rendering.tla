----------------------------- MODULE Rendering -----------------------------
(***************************************************************************)
(* What ProjectService.render_for() makes of a project file for one build: *)
(* the checks of part names and of the project model, and the parts with   *)
(* their grammar resolved.                                                 *)
(*                                                                         *)
(* A part maps keys to grammar, a sequence of items.  An item has values   *)
(* under a condition [on, to, for] (sets, None where it does not care),    *)
(* and others to use if that does not hold.  A value of "organize" is a    *)
(* function from files to files.  Resolved, a key has a sequence of        *)
(* values, at most one if it is a scalar or a dictionary.                  *)
(***************************************************************************)
EXTENDS Sequences, SequencesExt, Functions

CONSTANTS
  None,
  InDevelopment,  \* the bases that are still in development, under their own name
  AllowSlash,     \* BASES_ALLOW_SLASH_IN_PART_NAME
  EnableFor       \* AppMetadata.enable_for_grammar

Anywhere == [on |-> None, to |-> None, for |-> None]
Item(condition, values, otherwise) ==
  [condition |-> condition, values |-> values, otherwise |-> otherwise]
Value(v) == Item(Anywhere, <<v>>, <<>>)

\* A build to render for: [on, for, platform].
Identifiers(build) == IF EnableFor THEN {build.platform} ELSE {}

\* The selection of craft-grammar.
Holds(condition, build) ==
  /\ condition.on = None \/ build.on \in condition.on
  /\ condition.to = None \/ build.for \in condition.to
  /\ condition.for = None \/ condition.for \cap ({"any"} \cup Identifiers(build)) # {}
Chosen(item, build) == IF Holds(item.condition, build) THEN item.values ELSE item.otherwise
Selected(grammar, build) == FlattenSeq([i \in DOMAIN grammar |-> Chosen(grammar[i], build)])
ForVariant(grammar) == \E i \in DOMAIN grammar : grammar[i].condition.for # None
GrammarSyntaxError(grammar) ==
  /\ ForVariant(grammar)
  /\ \E i \in DOMAIN grammar : grammar[i].condition.on # None \/ grammar[i].condition.to # None

\* merge_processed_dict(): several dictionaries are one, each after those before
\* it, unless two have a key in common.
Duplicates(dicts) ==
  \E i, j \in DOMAIN dicts : i # j /\ DOMAIN dicts[i] \cap DOMAIN dicts[j] # {}
Merged(dicts) ==
  LET having(key) == {i \in DOMAIN dicts : key \in DOMAIN dicts[i]}
      keys == UNION {DOMAIN dicts[i] : i \in DOMAIN dicts}
  IN IF dicts = <<>> THEN <<>> ELSE <<[key \in keys |-> dicts[Max(having(key))][key]]>>

\* post_process_grammar()
Lists == {"after", "stage-packages"}
PostProcess(key, grammar, values) ==
  CASE key \in Lists -> values
    [] key = "organize" /\ ForVariant(grammar) -> Merged(values)
    [] OTHER -> SubSeq(values, 1, IF values = <<>> THEN 0 ELSE 1)

\* get_grammar_aware_part_keywords(), as far as there are keys in the model;
\* others are left as they are.
GrammarAware == Lists \cup {"organize", "source"}

\* validate_grammar(), and an error of processing it.
SyntaxError(part) == \E key \in GrammarAware \cap DOMAIN part : GrammarSyntaxError(part[key])
ProcessingError(part, build) ==
  /\ "organize" \in DOMAIN part /\ ForVariant(part["organize"])
  /\ Duplicates(Selected(part["organize"], build))

\* Mutant: what is built for is taken for what is built on.
ProcessPartCrossed(part, build) ==
  LET crossed == [build EXCEPT !.on = build.for, !.for = build.on]
  IN [key \in GrammarAware \cap DOMAIN part |->
        PostProcess(key, part[key], Selected(part[key], crossed))]

ProcessPart(part, build) ==
  [key \in GrammarAware \cap DOMAIN part |->
     PostProcess(key, part[key], Selected(part[key], build))]

\* A part that craft-parts accepts only once its grammar is resolved.
HasGrammar(part) ==
  \E key \in DOMAIN part : \E i \in DOMAIN part[key] : part[key][i].condition # Anywhere
-----------------------------------------------------------------------------
(* The project model. *)

EffectiveBase(project) ==
  IF project.buildbase # None THEN project.buildbase ELSE project.base

\* "devel" as application-specific naming has it, and as name@channel.
Development == {"devel", "ubuntu@devel"}

PartNamesError(project) == project.slash /\ EffectiveBase(project) \notin AllowSlash

\* _validate_devel_base() is called for a build base that is in the file.
DevelBaseError(project) ==
  /\ project.buildbase # None /\ project.base \notin {None, "bare"}
  /\ project.base \in InDevelopment /\ project.buildbase \notin Development

BareBaseError(project) == project.base = "bare" /\ project.buildbase = None

ModelError(project) == DevelBaseError(project) \/ BareBaseError(project)

\* What is mandatory is neither there nor adopted.
AdoptInfoError(project) == ~project.version /\ ~project.adopt

\* The validation errors of render_for(), in the order of the code.
RenderForError(project, build) ==
  IF SyntaxError(project.part) THEN "CraftValidationError"
  ELSE IF PartNamesError(project) THEN "PartNames"
  ELSE IF ProcessingError(project.part, build) \/ ModelError(project) THEN "CraftValidationError"
  ELSE IF AdoptInfoError(project) THEN "AdoptInfo"
  ELSE None

\* _build_project_without_adopt_info(): the file as it is, as a model.
RawModelError(project) == HasGrammar(project.part) \/ ModelError(project)
=============================================================================
