SPECIFICATION Spec
CONSTANTS
  ConfigDefinitions <- SomeDefinitions
  PolicyDefinitions <- SomePolicies
  ConfigRequests <- SomeConfigRequests
  Packages <- SomePackages
  Installer <- SomeInstaller
  Scopes = {"s", "t"}
  PageLimit = 1
  MaxOperations = 4
  MaxOverlap = 1
  MaxFactFaults = 1
  Blueprints <- SomeBlueprints
  Adrs <- SomeAdrs
  Migrations <- SomeMigrations
  Deprecations <- SomeDeprecations
  Changes <- SomeChanges
  Extensions <- SomeExtensions
  MaxRecords = 3
  Implementations = {"i", "j", "k"}
  Supports <- SomeSupport
  Enabled = {"i", "j", "k"}
  CapabilityVersions <- SomeVersions
  RoutingModes = {"none", "fixed", "fallback"}
  RoutingOrder <- SomeOrder
  Configured <- SomeConfigured
  DefaultImplementation = "j"
  Requests <- SomeRequests
  MaxHealthChanges = 2
  MaxResolutionFaults = 1
  HealthComponents = {"db", "ai"}
  HealthCalls = {"h1", "h2", "h3"}
  Logs <- SomeLogs
  Metrics <- SomeMetrics
  SpanSets <- SomeSpans
  DiagnosticRecords <- SomeDiagnostics
  DiagnosticQuery <- PageByPage
  MaximumMetricLabelCount = 1
  MaximumMessageLength = 3
  MaxStatusChanges = 1
  MaxObservationFaults = 1
  Commands = {"g", "h", "j", "s"}
  Kind <- SomeKinds
  Principal <- OnePrincipal
  MaxAttempts = 3
  RateLimit = 2
  StreamLength = 1
  MaxTransportFaults = 1
  MaxApiFaults = 1
  Operators = {"o", "p"}
  StartupOrder <- SomeComponents
  Releases <- TwoReleases
  MaxDeployments = 4
  MaxDeployFaults = 2
  Migrators = {"a", "b", "c"}
  Profiles = {"reference-32", "openai-1536-small"}
  MaxCommands = 5
  MaxMigrationFaults = 1
  Suite <- TwoTests
  Rules = {"r", "q"}
  Required = {"q"}
  MaxSinkFaults = 2
  Memories = {m}
  StoredStates = {"organized", "available"}
  MemoryCallers = {c, d}
  Strategies = {"hybrid"}
  Expirable = {m}
  MaxMemoryCalls = 2
  MaxRecalls = 1
  MaxMemoryFaults = 1
  PluginIds = {1, 2, 3}
  DependencySets <- SomeNeeds
  Kinds = {"tool"}
  Contributes <- SomeContributions
  PluginCallers = {"x", "y"}
  MaxPluginCalls = 4
  MaxPluginFaults = 2
  AiCalls = {"a", "b"}
  MaxEvents = 2
  MaxAiFaults = 2
  Repositories = {"r", "s"}
  EntityIds = {"i"}
  Clients = {"w", "x"}
  Enlists <- SomeEnlisted
  WrittenAt <- OneTick
  MaxStaged <- SomeStaged
  MaxPublicationFaults = 1
INVARIANTS ConfigInv PackagesInv ProvidersInv ObservabilityInv ApiInv DeploymentInv StorageInv
  RecordsInv
PROPERTIES MemoryCorrect
CHECK_DEADLOCK FALSE
