\* The default build, one thread: a render throws.
CONSTANTS
  PoolSize = 1
  MaxConn = 2
  Build = "MAP_PER_IO"
SPECIFICATION Spec
INVARIANT RunExitsOnlyWhenStopped
