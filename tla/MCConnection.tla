--------------------------- MODULE MCConnection ----------------------------
(***************************************************************************)
(* Options for model-checking Connection.                                  *)
(***************************************************************************)
EXTENDS Connection

\* Every suite in every mode that New accepts.
AllConfigs == TransportOptions

\* A server names the zero suite, the default one or that of a preset.
NamedSuites == {ZeroSuite} \cup {o.Suite : o \in Presets}

\* The zero suite, the only one with which a client accepts a ServerHello.
ZeroConfigs == {o \in TransportOptions : o.Suite = ZeroSuite}

\* The recommended options too.
HandshakeConfigs == ZeroConfigs \cup {WithDefaults(DefaultOptions)}
=============================================================================
