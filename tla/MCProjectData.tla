--------------------------- MODULE MCProjectData ---------------------------
(* Small instances of ProjectData. *)
EXTENDS ProjectData

\* Templates: a project file and another file, in a variant also a .gitignore.
Template(file, suffix) == [file |-> file, suffix |-> suffix]
MCTemplates ==
  [d \in {[profile |-> "simple", base |-> None], [profile |-> "simple", base |-> "24.04"]} |->
     IF d.base = None THEN <<Template("project", TRUE), Template("readme", FALSE)>>
     ELSE <<Template("ignore", FALSE), Template("project", TRUE)>>]

\* Names: legal, legal but one character too long, and with other characters.
Legal(n) == [legal |-> TRUE, length |-> n]
MCDirName == [legal |-> FALSE, length |-> 11]
Line(name, base, vcs) == [name |-> name, profile |-> "simple", base |-> base, vcs |-> vcs]
MCLines ==
  {Line(None, None, "git"), Line(Legal(40), "24.04", "git"), Line(MCDirName, None, "git"),
   Line(Legal(41), "24.04", "none"), Line(None, "22.04", "none")}

\* On a tag; behind one, with a version that is short enough or too long; a
\* tag with characters that a version cannot have.
Description(legal, length, digits) == [legal |-> legal, length |-> length, digits |-> digits]
MCDescriptions ==
  {Description(TRUE, 14, 2), Description(TRUE, 15, 2), Description(FALSE, 11, 0)}

MCUserTexts ==
  [n \in {"project", "readme", "ignore"} |->
     CASE n = "project" -> {<<"plain">>, <<"adopting">>, <<"referring">>}
       [] n = "ignore" -> {<<"user's">>}
       [] OTHER -> {<<"user's">>}]

\* The project texts.  The platforms tell which text they are from.
Expanding(v) == IF v = "$" THEN "expanded" ELSE v
Content(version, summary, title) ==
  [f \in {"version", "summary", "title"} |->
     CASE f = "version" -> version [] f = "summary" -> summary [] OTHER -> title]
Text(valid, platforms, adopt, fields) ==
  [dict |-> TRUE, valid |-> valid, platforms |-> platforms, adopt |-> adopt, fields |-> fields]
MCParsed(text) ==
  CASE text = <<"rendered">> -> Text(TRUE, "rendered", FALSE, Content("a", "a", None))
    [] text = <<"badly rendered">> -> Text(FALSE, "rendered", FALSE, Content("a", "a", None))
    [] text = <<"plain">> -> Text(TRUE, "plain", FALSE, Content("b", "b", "b"))
    [] text = <<"adopting">> -> Text(TRUE, "adopting", TRUE, Content(None, "c", "$"))
    [] text = <<"referring">> -> Text(TRUE, "referring", FALSE, Content("d", "$", "$"))
    [] OTHER -> [dict |-> FALSE, valid |-> FALSE]
\* What testcraft ignores, and one line more.
MCIgnored == <<"*.test", "*.comp">>

MCExtras == {<<>>, [f \in {"title"} |-> "extra"]}
=============================================================================
