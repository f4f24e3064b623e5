CONSTANTS
  noSid = noSid
  emptySid = emptySid
  noKey = noKey
  noList = noList
  sA = sA
  sB = sB
  kas1 = kas1
  kas2 = kas2
  kas3 = kas3
  id1 = id1
  id2 = id2
  own = own
  other = other
  foreign = foreign
  NoSid = noSid
  EmptySid = emptySid
  NoKey = noKey
  Foreign = foreign
  NoList = noList
  Cases <- MCCases
  Calls <- MCCalls
SPECIFICATION MCSpec
INVARIANTS
  OnlyTheWrittenIsRead
  RefusalIsExplained
  SharesHideTheKey
PROPERTIES
  RecoversKey
  NoNeedlessRewrap
  EnvelopeEnds
CHECK_DEADLOCK FALSE
