SPECIFICATION Spec
CONSTANTS
  s1 = s1
  s2 = s2
  t1 = t1
  t2 = t2
  Sessions <- MCSessions
  PushSystems <- MCPushSystems
  PushJobs <- MCPushJobs
  UpstreamSystems <- MCUpstreamSystems
  MappingItems <- MCMappingItems
  ApiAssets <- MCApiAssets
  ApiRows <- MCApiRows
  RowKinds = {"params"}
  Indicators <- MCIndicators
  Reports <- MCReports
  Roots <- MCRoots
  RootBatches <- MCRootBatches
  CodeTables <- MCCodeTables
  FieldKey <- MCFieldKey
  IngestRequests <- MCIngestRequests
  AssetPayloads <- MCAssetPayloads
  Menus <- MCMenus
  Threads <- MCThreads
  StatMenus = {"a", "c"}
  Dictionaries <- MCDictionaries
  RagConfigs = {"w"}
  Readers = {r1}
  Batches <- MCBatches
  Lifetime = 1
  MaxLoad = 1
  Names = {"n1", "n2"}
  Administrators = {"s1"}
  Admin = admin
  Roles = {"r"}
  Operations = {"create", "edit", "role", "status", "delete", "create_role", "update_role", "delete_role"}
  None = None
  MaxId = 3
  Areas = {"push", "upstream", "terms", "assets",
           "accounts", "menus", "statistics", "codes", "facade"}
  Backends = {"sqlite", "postgres", "gaussdb"}
  Plans <- MCPlans
  Profiles = {"main", "other"}
  AuditProfile = "main"
  Configurations <- MCConfigurations
  MaxConfigEdits = 2
  Writes <- MCWrites
  Seed <- MCSeed
SYMMETRY Alike
CHECK_DEADLOCK FALSE
INVARIANTS
  ChildrenHaveParents
  CopiesAgree
  CachesAreRecent
  OperationsAreWhole
PROPERTIES
  OnlyEditLocksOut
  MovesSwapNeighbours
  ReplayChangesNothing
  IdsAreForever
  OwnersKeepTheirColumns
