\* Liveness on two threads and three connection objects: a signal at any
\* moment, from before the first thread is spawned to the middle of a render.
CONSTANTS
  PoolSize = 2
  MaxConn = 3
  Build = "MAP_PER_IO"
SPECIFICATION FairSpec
PROPERTIES
  ShutdownCompletes
  RequestCompletes
