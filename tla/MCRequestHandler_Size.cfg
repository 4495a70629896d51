\* A width of -1 becomes the largest unsigned.
CONSTANTS
  UnsignedBits = 4
  Queries <- ChosenQueries
  LayerNames = {"a", "B", "c"}
  MaxExtent <- ChosenExtent
SPECIFICATION Spec
INVARIANT SizeAskedIsPositive
