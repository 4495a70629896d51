\* The default build: three threads, four connection objects, so that the
\* round robin wraps and two connections share an io_service and its map.
CONSTANTS
  PoolSize = 3
  MaxConn = 4
  Build = "MAP_PER_IO"
SPECIFICATION Spec
INVARIANTS
  TypeOK
  MapConfined
  RenderIsolation
  HandlerOwnsConnection
  AcceptsIntoFreshSocket
  RoundRobinBalanced
  RunsUntilStopped
  DestroyedWhenQuiet
PROPERTIES
  LeaseSpec
  LifeSpec
