SPECIFICATION Spec
CONSTANTS
  ServerSuites <- NamedSuites
  Configs <- HandshakeConfigs
  Randoms = {1}
INVARIANTS
  NamedSuiteIsAgreed
CHECK_DEADLOCK FALSE
