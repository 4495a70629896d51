\* All URIs of up to five of eight characters; queries of up to five words.
CONSTANTS
  MaxLength = 5
  MaxWords = 5
  Uris <- ChosenUris
SPECIFICATION Spec
INVARIANTS
  TypeOK
  DecodesValid
  ReadAsWritten
