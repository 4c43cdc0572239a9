SPECIFICATION Spec
CONSTANTS
  ServerSuites <- NamedSuites
  Configs <- AllConfigs
  Randoms = {1, 2}
INVARIANTS
  TypeOK
  TranscriptBinds
  PanicsBeforeSending
PROPERTIES
  FailureIsRetryable
  HellosArePinned
  RotationStaysDue
CHECK_DEADLOCK FALSE
