CONSTANTS
  m1 = m1  m2 = m2  k1 = k1  k2 = k2
  Parts = {"events", "migrations", "access", "credentials", "memory", "recovery", "bridge", "contexts", "connections", "desktops", "search", "roster", "sql", "uploads"}
  MaxEvts = 3
  BufferSize = 2
  QueueSize = 2
  ReplayLimit = 2
  RetainCount = 1
  MaxDrops = 1
  MaxFiles = 3
  MaxMigExits = 2
  Devices = {m1, m2}
  Codes = {c1}
  c1 = c1
  PairLimit = 2
  MaxAudits = 4
  MaxExits = 1
  Providers = {m1, m2}
  Secrets = {k1, k2}
  RemoveTries = 2
  MaxSaves = 3
  MaxCredExits = 1
  Facts = {m1, m2}
  Typed = {m1, m2}
  Rules = {}
  MaxDocs = 2
  MaxRevisions = 2
  MaxCalls = 3
  MaxMemExits = 1
  Leftovers = {m1, m2}
  MaxBootExits = 3
  Streams = {m1, m2, s3}
  s3 = s3
  RecycleAfter = 2
  Agents = {m1, m2}
  Bots = {k1, k2}
  Leads = {l1, l2}
  l1 = l1  l2 = l2
  MaxSteers = 1
  mail = mail  docsApp = docsApp
  Apps = {mail, docsApp}
  NoAuthApps = {docsApp}
  MaxConnections = 2
  MaxLinks = 2
  Homes = {m1, m2}
  Creators = {k1, k2}
  MaxContainers = 3
  MaxReboots = 2
  BotIds = {1}
  MessageIds = {1, 2}
  MemoryIds = {1}
  ArtifactIds = {}
  Indexers = {k1, k2}
  BatchSize = 1
  MaxAttempts = 1
  MaxEdits = 1
  MaxClaims = 2
  RosterBots = {m1, m2}
  MaxTools = 1
  MaxDisturbances = 1
  MaxTokens = 3
  UploadBots = {m1, m2}
  Sizes = {1}
  MaxArtifacts = 3
  MaxCopies = 3
  MaxUploadExits = 2
SPECIFICATION ServicesSpec
SYMMETRY ServicesSym
CHECK_DEADLOCK FALSE
INVARIANTS ServicesTypeOK BootsAgree AuditComplete RunsWithApproved OwnerKeepsSecret
  RevisionHistory  JobsStayClosed SwapIsAlone CallsRunForTheirTurn OneLinkPerApp
  IsolatedDesktops IndexComplete SplitsAsMeant ListedHasFile
PROPERTIES StreamKeepsFeed ReplaceSparesCurrent 
