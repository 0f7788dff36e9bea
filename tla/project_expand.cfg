SPECIFICATION Spec
CONSTANTS
  None = None
  Templates <- MCTemplates
  Project = "project"
  GitIgnore = "ignore"
  Ignored <- MCIgnored
  Lines <- MCLines
  DirName <- MCDirName
  Descriptions <- MCDescriptions
  UserTexts <- MCUserTexts
  MaxName = 40
  MaxVersion = 32
  Fields = {"version", "summary", "title"}
  Variables = {"version", "summary"}
  Mandatory = {"version", "summary"}
  Strict = {"version"}
  Adopted = "set"
  Extras <- MCExtras
  Parsed <- MCParsed
  Expand <- Expanding
INVARIANT ReferencesExpanded
