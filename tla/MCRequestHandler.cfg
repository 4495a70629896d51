\* Any sequence of the chosen queries on a map of three layers.
CONSTANTS
  UnsignedBits = 4
  Queries <- ChosenQueries
  LayerNames = {"a", "B", "c"}
  MaxExtent <- ChosenExtent
SPECIFICATION Spec
INVARIANTS
  TypeOK
  DrawnAsAsked
  EncodedAsAsked
  FramedForClient
