\* A configuration file without "fonts" or "plugins".
CONSTANTS
  PoolSize = 1
  CommandLines <- ChosenCommandLines
  Signals = {"SIGINT", "SIGQUIT", "SIGTERM", "SIGHUP"}
  InitialMasks <- ChosenMasks
SPECIFICATION Spec
INVARIANT RefusesIncomplete
