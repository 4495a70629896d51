\* Reads of one or two bytes cut every input at every place.
CONSTANTS
  Input <- ChosenInput
  BufferSize = 2
SPECIFICATION FairSpec
INVARIANTS
  TypeOK
  BackIsDefined
  NeverWaitsInVain
PROPERTIES
  ReplyStaysPut
  ExchangeSpec
  LifeSpec
  RequestAnswered
