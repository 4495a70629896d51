\* Two pool threads; a command line or a file, complete or not; any signals.
CONSTANTS
  PoolSize = 2
  CommandLines <- ChosenCommandLines
  Signals = {"SIGINT", "SIGQUIT", "SIGTERM", "SIGHUP"}
  InitialMasks <- ChosenMasks
SPECIFICATION FairSpec
INVARIANTS
  TypeOK
  StopsInOrder
  NoThreadLeftBehind
  ReportsAll
  ServesOnlyConfigured
PROPERTY SignalEnds
