SPECIFICATION Spec
CONSTANTS
  Items <- MCItems
  ReadMax = 4
  MaxHoldback = 6
  MaxItems = 4
INVARIANTS WritesLandWhole HoldbackIsTight ModesAgree
CHECK_DEADLOCK FALSE
