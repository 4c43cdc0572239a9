SPECIFICATION FairSpec
CONSTANTS
  ServerSuites <- NamedSuites
  Configs <- HandshakeConfigs
  Randoms = {1}
PROPERTIES
  HandshakeCompletes
CHECK_DEADLOCK FALSE
