SPECIFICATION ServerSpec
CONSTANTS
  c1 = c1
  c2 = c2
  Calls = {c1, c2}
  Chains <- MCChains
  Grants <- MCGrants
  MaxChanges = 1
  MaxDeaths = 1
  Names <- MCNames
  Seeds = {"user"}
  Reserved = {"user", "instance", "data"}
  Paging = {"page"}
  Tools <- MCDeclarations
  Callers = {ann, bea}
  ListPermissions = {"staff"}
  Conditions = {"open"}
  PageSize = 1
  MaxFlips = 1
  MaxTools = 3
  NoLink = "none"
  ToolDecls <- MCTools
  ResourceDecls <- MCResources
  PromptDecls <- MCPrompts
  Bulks <- MCBulks
  Settings <- MCSettings
  Doors <- MCDoors
  CallerNames = {"user", "instance"}
  ReservedNames = {"user", "instance"}
  ServerSeeds = {"tenant"}
  Limits = {3, Garbled}
  Pages = {2, Garbled}
  Garbled = Garbled
  DefaultPageSize = 2
  MaxCompletionValues = 2
  Unbounded = Unbounded
  Lazy = Lazy
  MaxRows = 3
  MaxDrifts = 2
SYMMETRY Alike
INVARIANTS
  AllOrNothing
  DeniedLateOnlyByChange
  NeverCalledShort
  OfferKept
  AuthorityKept
  RegistrationHolds
  WalkFaithful
  ListedAsIs
  AnsweredAsAdmitted
  WholeOrSaysSo
  SeedsStand
CHECK_DEADLOCK FALSE
