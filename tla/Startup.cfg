SPECIFICATION Spec
CONSTANTS
  GeneratedNames <- MCGeneratedNames
  DefaultMaxMemory = 250000
  Variance = 1
  Deviation = 2
  Configurations <- MCConfigurations
INVARIANTS
  FailuresExplained
  EveryActiveSignalServed
  WorkersNearConcurrency
  CapHolds
  LoadedAsAsked
  SelectionEven
  NamespacesResolved
