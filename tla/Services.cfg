SPECIFICATION ServicesSpec
INVARIANTS
  AddressIsRight
  NegotiationSound
PROPERTIES
  LeaseIsBest
  BlocksExact
CHECK_DEADLOCK FALSE
