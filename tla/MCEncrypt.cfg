CONSTANTS
  kas1 = kas1
  kas2 = kas2
  kas3 = kas3
  kid1 = kid1
  kid2 = kid2
  attrA = attrA
  attrB = attrB
  a1 = a1
  a2 = a2
  b1 = b1
  b2 = b2
  Absent = Absent
  OwnKid = OwnKid
  Scenarios <- MCScenarios
SPECIFICATION FairSpec
INVARIANTS
  PlanImplementsPolicy
  WrappedForThePlan
  KeysFetchedOnce
  MismatchIsExplained
  RepetitionIsExplained
PROPERTY
  EncryptEnds
CHECK_DEADLOCK FALSE
