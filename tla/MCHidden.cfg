SPECIFICATION CallsSpec
CONSTANTS
  Callers = {"ann", "bea"}
  ListPermissions = {"staff"}
  Conditions = {"open"}
  PageSize = 1
  MaxFlips = 1
  MaxTools = 3
  NoLink = "none"
  ToolDecls <- MCTools
  ResourceDecls <- MCResources
  PromptDecls <- MCPrompts
  Bulks <- MCBulks
  Settings <- MCSettings
INVARIANTS
  HiddenMeansRefused
CHECK_DEADLOCK FALSE
