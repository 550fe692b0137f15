SPECIFICATION Spec
CONSTANTS
  Entities = {"a", "b"}
  Transactions = {"t1", "t2", "t3"}
  Operations <- SomeOperations
  Order <- SomeOrder
  PoolSize = 2
  MaxDbFaults = 2
  Providers = {"p", "q"}
  Fallback = TRUE
  Readers = {"host", "embedded"}
  FailureKinds = {"unavailable", "unknown"}
  StreamFaults = TRUE
  MaxPulls = 4
  Runs = {r, s}
  Durable = TRUE
  MaxProcesses = 2
  MaxTurns = 3
  MaximumResults = 1
  SearchWindow = 2
  MaxStoreFaults = 1
  Tokens = {"s", "c"}
  Lifetime <- SomeLifetimes
  DependsOn <- SomeDependencies
  Scopes = {"x"}
  Resolvers = {"r1", "r2"}
  MaxPromises = 3
  MaxFactoryFaults = 1
  Configurations <- SomeConfigurations
  HostRequests = {"a", "s"}
  Correlation <- SomeCorrelations
  StreamRequests = {"s"}
  MaxHostFaults = 1
  MaxOutages = 1
  Vendors = {"openai", "anthropic", "gemini"}
  Calls = {"c", "d"}
  Named <- OneTool
  Positions = {0, 1}
  Failures = {"limited", "exhausted", "down"}
  MaxChunks = 6
  Evaluations = {"e", "f"}
  Criteria <- SomeCriteria
  Category <- SomeCategories
  PersistentStore = TRUE
  MaxEvaluationFaults = 1
INVARIANTS StreamingInv AgentMemoryInv CompositionInv HostInv TranslationInv EvaluationInv
PROPERTIES ImplementsAtomicStore EveryStoreAnswered StopEnds
CHECK_DEADLOCK FALSE
