\* A single digit, or a sign and a digit, pass for an escape.
CONSTANTS
  MaxLength = 3
  MaxWords = 0
  Uris <- ChosenUris
SPECIFICATION Spec
INVARIANT RefusesInvalid
