\* Any two faults of any kinds.
SPECIFICATION RegFairSpec
CONSTANTS
  Agents = {"a1", "a2"}
  ModulesOf <- SiteModules
  Dtns = {"d1", "d2"}
  Storages = {"s1"}
  Launchers = {"l"}
  Sdns = {}
  Attached <- SiteAttached
  NoNode = NoNode
  Dangling = Dangling
  MaxFaults = 2
INVARIANTS WellFormed Converged NoGhost
PROPERTIES EventuallyRegistered
CHECK_DEADLOCK FALSE
