\* The shared map with a mapnik::request per render, served by two threads.
CONSTANTS
  PoolSize = 2
  MaxConn = 3
  Build = "MAP_REQUEST"
SPECIFICATION Spec
INVARIANT RenderIsolation
