\* A bounding box that reaches out of max_extent.
CONSTANTS
  UnsignedBits = 4
  Queries <- ChosenQueries
  LayerNames = {"a", "B", "c"}
  MaxExtent <- ChosenExtent
SPECIFICATION Spec
INVARIANT WithinMaxExtent
