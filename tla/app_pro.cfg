SPECIFICATION Spec
CONSTANTS
  None = None
  Unmade = Unmade
  Archs = {"a", "b"}
  Projects <- MCProjects
  Lines <- MCLines
  HostStates <- MCHosts
  InDevelopment = {"next"}
  AllowSlash = {"old"}
  EnableFor = TRUE
  Edits <- MCEdits
  TopProject <- MCTopProject
  AllowGitBuildRoot = TRUE
  RequestedSnaps <- MCRequestedSnaps
  AppGroups <- MCAppGroups
  Host = "a"
  HostBase = "stable"
  Supported = {"esm-apps"}
  CheckSupportedBase = TRUE
  EndOfLife = {"eol"}
  Unknown = {"unknown"}
  Group <- MCGroup
INVARIANT ProBaseRejected
