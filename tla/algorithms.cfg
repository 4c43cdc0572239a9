SPECIFICATION Spec
CONSTANTS
  Base = 2
INVARIANTS
  RoundTrip
  UnmarshalSound
  KEMAgreement
  SelectionUsable
  ValidatorsAgree
CHECK_DEADLOCK FALSE
