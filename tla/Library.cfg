CONSTANTS
    NSteps = 3
    DependsOn <- AllOthers
    Gatings <- GateChoices
    Retries = 1
    MaxCalls = 4
    ToolCalls = {c1, c2, c3}
    MaxSpawns = 2
    MaxRedirects = 1
    Fetchers = {f1, f2}
    Items = {i1, i2}
    MaxAttempts = 2
    MaxRuns = 3
    MaxKills = 1
    Tiers = {"strong", "medium", "light"}
    Medium = "medium"
    KeyVars = {"A", "B"}
    TierOfKind <- TierNames
    Setups <- AllSetups
    Lines <- AllLines
    Named <- NamedConf
    AnthropicVar = "B"
    Framework = "fw"
    Domains = {"d1"}
    Ids <- AgentIds
    Contents <- DirContents
    Workflows <- OneWorkflow
    Wants <- AgentWants
    Holds <- RootHolds
    MaxBoots = 2
    MaxEdits = 2
    Users = {u1, u2}
    Versions = {v1, v2}
    MaxCommands = 3
    Names = {"n1", "n2"}
    ToolNames = {"t1", "t2"}
    ToolPacks <- AllPacks
    Shelf <- PacksOnShelf
    Chains <- BackendChains
    Agents <- ToolUsers
    MaxTurns = 3
    Tasks = {r1, r2}
    LoopRounds = 2
    Policies <- RetryPolicies
    Hints = {0, 1, 4}
    Errors1 = {"e1", "e2"}
    MaxPrice = 2
    BusPorts = {p1, p2}
    Checkpoints = {k1, k2}
    StateObjects = {o1, o2, o3}
    Manifests <- DomainManifests
    DomainDirs = {dir1, dir2}
    MaxMessages = 3
    MaxWork = 2
    MaxLoads = 3
    Threads = {h1, h2, h3}
    Records = {x1, x2}
    Shelved = {x1}
    Managers = {m1, m2}
    RunIds = {"a", "a/b", "c"}
    DirOf <- RunDirs
    FarPlaces <- OtherPlaces
    MaxRecords = 3
    MaxTrees = 3
SPECIFICATION Spec
CHECK_DEADLOCK FALSE
INVARIANTS LinearOutcome AnswersAreOwn CacheIsWhole ReportIsWhatRuns CommandsKeepWord BootsOwnAgents  CredentialsHold LoopsKeepBounds ExchangeHolds RunFilesHold
