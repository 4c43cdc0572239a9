-------------------------- MODULE ConnectionProofs -------------------------
(***************************************************************************)
(* What is proved of the client's handshake for every set of options that  *)
(* New accepts and any random values, whatever calls are made, in whatever *)
(* order, and whichever of them fail.                                      *)
(***************************************************************************)
EXTENDS Connection, SequenceTheorems, TLAPS

-----------------------------------------------------------------------------
(* The options, and the KEMs they lead to *)

KEMValues == {NilKEM, Simple("X25519KEM"), NewHybridKEM("nil", "nil")}
               \cup {Simple(t) : t \in StubTypes}

\* validateOptions leaves the suite and the mode as they are.
LEMMA OptionsType ==
  ASSUME NEW o \in Configs
  PROVE  o.Suite \in Suites /\ o.Mode \in Modes /\ o.Suite.KEM \in KEMs
<1>1. PICK x \in CallerOptions : o = WithDefaults(x)
  BY ConnectionAssumption DEF TransportOptions
<1>2. x.Suite \in Suites /\ x.Mode \in Modes /\ DOMAIN x = {"Suite", "Mode", "KeyRotation"}
  BY DEF CallerOptions, Presets, DefaultOptions, ConservativeOptions, PerformanceOptions,
         Suites, KEMs, Signs, AEADs, Hashes, Modes
<1>3. o.Suite = x.Suite /\ o.Mode = x.Mode
  BY <1>1, <1>2 DEF WithDefaults
<1>4. QED
  BY <1>2, <1>3 DEF Suites

\* getKEM knows every KEM that a suite can name.
LEMMA KEMType ==
  ASSUME NEW o \in Configs
  PROVE  /\ GetKEM(o.Suite.KEM) \in KEMValues
         /\ o.Suite = ZeroSuite => GetKEM(o.Suite.KEM) = Simple("X25519KEM")
<1>1. o.Suite.KEM \in KEMs
  BY OptionsType
<1>2. GetKEM(o.Suite.KEM) \in KEMValues
  BY <1>1 DEF KEMs, GetKEM, KEMValues, StubTypes
<1>3. o.Suite = ZeroSuite => GetKEM(o.Suite.KEM) = Simple("X25519KEM")
  BY DEF ZeroSuite, GetKEM
<1>4. QED
  BY <1>2, <1>3

\* A KEM that is no hybrid is its only part, and the type of a part decides which
\* code runs.
LEMMA Dispatch ==
  /\ \A t, pk, d : t \notin {"HybridKEM", "HybridMLKEM"} =>
       /\ GenerateKeyPair(Simple(t), d) = PartGenerate(t, d[1])
       /\ Encapsulate(Simple(t), pk, d) = PartEncapsulate(t, pk, d[1])
  /\ \A d, pk : /\ PartGenerate("nil", d) = Panic
                /\ PartGenerate("X25519KEM", d) = X25519Generate(d)
                /\ PartEncapsulate("X25519KEM", pk, d) = X25519Encapsulate(pk, d)
  /\ \A t \in StubTypes : \A d : PartGenerate(t, d) = StubGenerate(t, d)
<1>1. \A t : Simple(t).type = t
  BY DEF Simple
<1>2. /\ "X25519KEM" \notin StubTypes /\ "X25519KEM" \notin RealTypes
      /\ "nil" \notin StubTypes /\ "nil" \notin RealTypes
      /\ \A t \in StubTypes : t \notin RealTypes /\ t # "nil" /\ t # "X25519KEM"
  BY DEF StubTypes, RealTypes
<1>3. ASSUME NEW t, NEW pk, NEW d, t \notin {"HybridKEM", "HybridMLKEM"}
      PROVE  /\ GenerateKeyPair(Simple(t), d) = PartGenerate(t, d[1])
             /\ Encapsulate(Simple(t), pk, d) = PartEncapsulate(t, pk, d[1])
  <2>1. t # "HybridKEM" /\ t # "HybridMLKEM"
    BY <1>3
  <2>2. ASSUME NEW kem, ~(kem.type = "HybridKEM"), ~(kem.type = "HybridMLKEM")
        PROVE  GenerateKeyPair(kem, d) = PartGenerate(kem.type, d[1])
    BY <2>2, Zenon DEF GenerateKeyPair
  <2>3. ASSUME NEW kem, ~(kem.type = "HybridKEM"), ~(kem.type = "HybridMLKEM")
        PROVE  Encapsulate(kem, pk, d) = PartEncapsulate(kem.type, pk, d[1])
    BY <2>3, Zenon DEF Encapsulate
  <2>4. QED
    BY <1>1, <2>1, <2>2, <2>3
<1>4. ASSUME NEW d, NEW pk
      PROVE  /\ PartGenerate("nil", d) = Panic
             /\ PartGenerate("X25519KEM", d) = X25519Generate(d)
             /\ PartEncapsulate("X25519KEM", pk, d) = X25519Encapsulate(pk, d)
  BY <1>2, Zenon DEF PartGenerate, PartEncapsulate
<1>5. ASSUME NEW t \in StubTypes, NEW d PROVE PartGenerate(t, d) = StubGenerate(t, d)
  BY <1>2, Zenon DEF PartGenerate
<1>6. QED
  BY <1>3, <1>4, <1>5

\* A key pair is made, or not, in one of three ways.
LEMMA GenerateEnds ==
  ASSUME NEW kem \in KEMValues, NEW d
  PROVE  GenerateKeyPair(kem, d).end \in {"ok", "error", "panic"}
<1>1. ASSUME NEW t \in {"nil", "X25519KEM"} \cup StubTypes, kem = Simple(t)
      PROVE  GenerateKeyPair(kem, d).end \in {"ok", "error", "panic"}
  <2>1. GenerateKeyPair(kem, d) = PartGenerate(t, d[1])
    BY <1>1, Dispatch DEF StubTypes
  <2>2. PartGenerate(t, d[1]) \in {Panic, X25519Generate(d[1]), StubGenerate(t, d[1])}
    BY Dispatch
  <2>3. QED
    BY <2>1, <2>2 DEF Panic, X25519Generate, StubGenerate, Error, Ok
<1>2. CASE kem = NewHybridKEM("nil", "nil")
  <2>1. kem.type = "HybridKEM" /\ kem.classical = "nil" /\ kem.pq = "nil"
    BY <1>2 DEF NewHybridKEM
  <2>2. GenerateKeyPair(kem, d) = HybridGenerate(kem, d)
    BY <2>1, Zenon DEF GenerateKeyPair
  <2>3. PartGenerate(kem.classical, d[1]) = Panic /\ Panic.end # "ok" /\ Panic.end = "panic"
    BY <2>1, Dispatch DEF Panic
  <2>4. HybridGenerate(kem, d) = Panic
    BY <2>3 DEF HybridGenerate, Both
  <2>5. QED
    BY <2>2, <2>3, <2>4
<1>3. QED
  BY <1>1, <1>2 DEF KEMValues, NilKEM

\* X25519 turns down the empty key that an unmarshalled ServerHello holds.
LEMMA EmptyKeyIsRefused ==
  ASSUME NEW d
  PROVE  Encapsulate(Simple("X25519KEM"), PublicKey(<<>>), d).end = "error"
<1>1. Encapsulate(Simple("X25519KEM"), PublicKey(<<>>), d)
        = X25519Encapsulate(PublicKey(<<>>), d[1])
  BY Dispatch
<1>2. X25519(d[1], <<>>) = Error
  BY DEF X25519
<1>3. PublicKey(<<>>).bytes = <<>>
  BY DEF PublicKey
<1>4. QED
  BY <1>1, <1>2, <1>3 DEF X25519Encapsulate, Error

-----------------------------------------------------------------------------
(* The connection *)

Drawn == Randoms \cup {0}

\* What can be in a transcript.
Sent ==
  [type : {"ClientHello"}, random : Drawn, suite : {"zeroed"}, pqOnly : BOOLEAN, keyShare : Drawn]
    \cup [type : {"ServerHello"}, random : Drawn, suite : ServerSuites]
    \cup [type : {"ClientKey"}, random : Drawn]

\* A ServerHello.
HelloOf(r, s) == [type |-> "ServerHello", random |-> r, suite |-> s]

Connections ==
  [state : States, clientRandom : Drawn, serverRandom : Drawn, transcript : Seq(Sent),
   kem : KEMValues, localKEMPK : Drawn, remoteKEMPK : {NilKey, PublicKey(<<>>)}, keys : Drawn,
   clientAEAD : Drawn, serverAEAD : Drawn, sharedSecret : Drawn,
   messageCount : Nat, byteCount : Nat, age : Nat]

Ends == {"ok", "refused", "error", "panic"}

Types == opts \in Configs /\ conn \in Connections /\ out \in Ends /\ rotated \in Drawn

\* How far a handshake gets, and what the connection holds at each point.
Reached ==
  \/ conn.state = "Init" /\ conn.transcript = <<>>
  \/ /\ conn.state = "ClientHello"
     /\ conn.transcript = <<ClientHelloMsg(conn, opts)>>
     /\ conn.kem = GetKEM(opts.Suite.KEM)
  \/ /\ conn.state = "ServerHello"
     /\ \E s \in ServerSuites :
          conn.transcript = <<ClientHelloMsg(conn, opts), HelloOf(conn.serverRandom, s)>>
     /\ conn.kem = Simple("X25519KEM") /\ conn.remoteKEMPK = PublicKey(<<>>)
     /\ opts.Suite = ZeroSuite

Inv ==
  /\ Types /\ Reached
  /\ conn.keys = 0
  /\ out = "panic" => conn.state = "Init" /\ opts.Mode # "PQOnly"

\* What clientHello leaves behind, when it succeeds and when it does not.
LEMMA ClientHelloEnds ==
  ASSUME NEW c \in Connections, NEW o \in Configs, NEW d \in Randoms, NEW fault \in Faults
  PROVE  LET e == ClientHello(c, o, d, fault)
             k == e.conn
         IN  /\ e.out \in Ends /\ k \in Connections
             /\ c.state # "Init" => k = c /\ e.out = "refused"
             /\ k.keys = c.keys /\ k.serverRandom = c.serverRandom
             /\ e.out # "ok" => k.state = c.state /\ k.transcript = c.transcript
             /\ e.out = "ok" => /\ k.state = "ClientHello" /\ k.kem = GetKEM(o.Suite.KEM)
                                /\ k.transcript = Append(c.transcript, ClientHelloMsg(k, o))
             /\ e.out = "panic" => o.Mode # "PQOnly"
<1> DEFINE e == ClientHello(c, o, d, fault)
           kem == GetKEM(o.Suite.KEM)
           seeded == [c EXCEPT !.clientRandom = d]
           picked == [seeded EXCEPT !.kem = kem]
           unkeyed == [picked EXCEPT !.localKEMPK = 0]
           keyed == IF o.Mode = "PQOnly" THEN picked ELSE [picked EXCEPT !.localKEMPK = d]
           keyEnd == IF o.Mode = "PQOnly" THEN "ok"
                     ELSE GenerateKeyPair(kem, Draws(d, fault)).end
           done == [keyed EXCEPT !.transcript = Append(@, ClientHelloMsg(keyed, o)),
                                 !.state = "ClientHello"]
<1>1. kem \in KEMValues /\ d \in Drawn /\ 0 \in Drawn
  BY KEMType DEF Drawn
<1>2. keyEnd \in {"ok", "error", "panic"} /\ (o.Mode = "PQOnly" => keyEnd = "ok")
  BY <1>1, GenerateEnds
<1>3. e = IF c.state # "Init" THEN Ended(c, "refused")
          ELSE IF fault = "random" THEN Ended(seeded, "error")
          ELSE IF kem = NilKEM THEN Ended(picked, "error")
          ELSE IF keyEnd # "ok" THEN Ended(unkeyed, keyEnd)
          ELSE Ended(done, "ok")
  BY DEF ClientHello, InState
<1> HIDE DEF kem, keyEnd, e
<1>4. ASSUME NEW k \in {c, seeded, picked, unkeyed, keyed}
      PROVE  /\ k \in Connections /\ k.keys = c.keys /\ k.serverRandom = c.serverRandom
             /\ k.state = c.state /\ k.transcript = c.transcript
  BY <1>1 DEF Connections
<1>5. ClientHelloMsg(keyed, o) \in Sent /\ keyed \in Connections /\ keyed.kem = kem
  <2>1. keyed \in Connections
    BY <1>4
  <2>2. keyed.clientRandom \in Drawn /\ keyed.localKEMPK \in Drawn
    BY <2>1 DEF Connections
  <2>3. ClientHelloMsg(keyed, o) \in Sent
    BY <2>2 DEF ClientHelloMsg, Sent
  <2>4. keyed.kem = kem
    BY <1>1 DEF Connections
  <2>5. QED
    BY <2>1, <2>3, <2>4
<1>6. /\ done \in Connections /\ done.keys = c.keys /\ done.serverRandom = c.serverRandom
      /\ done.state = "ClientHello" /\ done.kem = kem
      /\ done.transcript = Append(c.transcript, ClientHelloMsg(done, o))
  <2> HIDE DEF keyed
  <2>1. keyed.transcript = c.transcript /\ keyed.keys = c.keys
        /\ keyed.serverRandom = c.serverRandom
    BY <1>4
  <2>2. Append(keyed.transcript, ClientHelloMsg(keyed, o)) \in Seq(Sent)
    BY <1>5 DEF Connections
  <2>3. done \in Connections
    BY <1>5, <2>2 DEF Connections, States
  <2>4. /\ done.keys = c.keys /\ done.serverRandom = c.serverRandom
        /\ done.state = "ClientHello" /\ done.kem = kem
        /\ done.transcript = Append(c.transcript, ClientHelloMsg(keyed, o))
        /\ done.clientRandom = keyed.clientRandom /\ done.localKEMPK = keyed.localKEMPK
    BY <1>5, <2>1 DEF Connections
  <2>5. ClientHelloMsg(done, o) = ClientHelloMsg(keyed, o)
    BY <2>4 DEF ClientHelloMsg
  <2>6. QED
    BY <2>3, <2>4, <2>5
<1> HIDE DEF seeded, picked, unkeyed, keyed, done
<1>7. QED
  <2>1. \A k, how : Ended(k, how).conn = k /\ Ended(k, how).out = how
    BY DEF Ended
  <2>2. CASE e = Ended(done, "ok") /\ c.state = "Init"
    BY <1>6, <2>1, <2>2 DEF Ends, kem, e
  <2>3. ASSUME NEW k \in {c, seeded, picked, unkeyed}, NEW how \in {"refused", "error", "panic"},
               e = Ended(k, how), c.state # "Init" => k = c /\ how = "refused",
               how = "panic" => o.Mode # "PQOnly"
        PROVE  /\ e.out \in Ends /\ e.conn \in Connections
               /\ c.state # "Init" => e.conn = c /\ e.out = "refused"
               /\ e.conn.keys = c.keys /\ e.conn.serverRandom = c.serverRandom
               /\ e.conn.state = c.state /\ e.conn.transcript = c.transcript
               /\ e.out # "ok" /\ (e.out = "panic" => o.Mode # "PQOnly")
    BY <1>4, <2>1, <2>3 DEF Ends
  <2>4. QED
    BY <1>2, <1>3, <2>2, <2>3 DEF e

\* A message after one message.
LEMMA PairIsAppended ==
  ASSUME NEW x \in Sent, NEW y \in Sent PROVE Append(<<x>>, y) = <<x, y>>
<1>1. <<x>> \in Seq(Sent) /\ <<x, y>> \in Seq(Sent) /\ Len(<<x>>) = 1 /\ Len(<<x, y>>) = 2
  OBVIOUS
<1>2. /\ Append(<<x>>, y) \in Seq(Sent) /\ Len(Append(<<x>>, y)) = 2
      /\ Append(<<x>>, y)[1] = x /\ Append(<<x>>, y)[2] = y
  BY <1>1, AppendProperties
<1>3. \A i \in 1..2 : Append(<<x>>, y)[i] = <<x, y>>[i]
  BY <1>2
<1>4. QED
  BY <1>1, <1>2, <1>3, SeqEqual

\* What processServerHello leaves behind.
LEMMA ServerHelloEnds ==
  ASSUME NEW c \in Connections, NEW o \in Configs, NEW msg \in ServerHellos
  PROVE  LET e == ProcessServerHello(c, o, msg)
             k == e.conn
         IN  /\ e.out \in {"ok", "refused", "error"} /\ k \in Connections
             /\ c.state # "ClientHello" => k = c /\ e.out = "refused"
             /\ k.keys = c.keys /\ k.kem = c.kem
             /\ k.clientRandom = c.clientRandom /\ k.localKEMPK = c.localKEMPK
             /\ e.out # "ok" => k.state = c.state /\ k.transcript = c.transcript
             /\ e.out = "ok" =>
                  /\ k.state = "ServerHello" /\ k.remoteKEMPK = PublicKey(<<>>)
                  /\ \E s \in ServerSuites :
                       k.transcript = Append(c.transcript, HelloOf(k.serverRandom, s))
                  /\ o.Suite = ZeroSuite
<1> DEFINE e == ProcessServerHello(c, o, msg)
           stored == [c EXCEPT !.serverRandom = msg.random]
           done == [stored EXCEPT !.remoteKEMPK = PublicKey(<<>>),
                                  !.transcript = Append(@, msg),
                                  !.state = "ServerHello"]
<1>e. \A k, how : Ended(k, how).conn = k /\ Ended(k, how).out = how
  BY DEF Ended
<1>1. CASE c.state # "ClientHello" \/ msg.type = "short"
  <2>1. e = IF c.state # "ClientHello" THEN Ended(c, "refused") ELSE Ended(c, "error")
    BY <1>1 DEF ProcessServerHello, InState
  <2> HIDE DEF e
  <2>2. QED
    BY <1>1, <1>e, <2>1 DEF e
<1>2. CASE c.state = "ClientHello" /\ msg.type # "short"
  <2>1. msg \in [type : {"ServerHello"}, random : Randoms, suite : ServerSuites]
    BY <1>2 DEF ServerHellos
  <2>2. /\ msg.random \in Drawn /\ msg.suite \in ServerSuites
        /\ msg = HelloOf(msg.random, msg.suite) /\ msg \in Sent
    BY <2>1 DEF Drawn, Sent, HelloOf
  <2>3. /\ Unmarshalled(msg).random = msg.random /\ Unmarshalled(msg).suite = ZeroSuite
        /\ Unmarshalled(msg).kemPublicKey = PublicKey(<<>>)
    BY DEF Unmarshalled
  <2>4. e = IF ZeroSuite # o.Suite THEN Ended(stored, "error") ELSE Ended(done, "ok")
    BY <1>2, <2>3 DEF ProcessServerHello, InState, StoreServerRandom, SuiteAgrees
  <2>5. /\ stored \in Connections /\ stored.state = c.state /\ stored.transcript = c.transcript
        /\ stored.keys = c.keys /\ stored.kem = c.kem /\ stored.serverRandom = msg.random
        /\ stored.clientRandom = c.clientRandom /\ stored.localKEMPK = c.localKEMPK
    BY <2>2 DEF Connections
  <2> HIDE DEF e, stored
  <2>6. /\ done \in Connections /\ done.state = "ServerHello"
        /\ done.transcript = Append(c.transcript, msg)
        /\ done.keys = c.keys /\ done.kem = c.kem /\ done.serverRandom = msg.random
        /\ done.clientRandom = c.clientRandom /\ done.localKEMPK = c.localKEMPK
        /\ done.remoteKEMPK = PublicKey(<<>>)
    <3>1. Append(stored.transcript, msg) \in Seq(Sent)
      BY <2>2, <2>5 DEF Connections
    <3>2. QED
      BY <2>5, <3>1 DEF Connections, States
  <2> HIDE DEF done
  <2>7. CASE e = Ended(stored, "error")
    BY <1>2, <1>e, <2>5, <2>7 DEF e
  <2>8. CASE e = Ended(done, "ok") /\ o.Suite = ZeroSuite
    BY <1>2, <1>e, <2>2, <2>6, <2>8 DEF e
  <2>9. QED
    BY <2>4, <2>7, <2>8
<1>3. QED
  BY <1>1, <1>2

\* The same of a call.
LEMMA ServerHelloStep ==
  ASSUME conn \in Connections, opts \in Configs, NEW msg \in ServerHellos,
         Apply(ProcessServerHello(conn, opts, msg))
  PROVE  /\ out' \in {"ok", "refused", "error"} /\ conn' \in Connections
         /\ conn.state # "ClientHello" => conn' = conn /\ out' = "refused"
         /\ conn'.keys = conn.keys /\ conn'.kem = conn.kem
         /\ conn'.clientRandom = conn.clientRandom /\ conn'.localKEMPK = conn.localKEMPK
         /\ out' # "ok" => conn'.state = conn.state /\ conn'.transcript = conn.transcript
         /\ out' = "ok" => /\ conn'.state = "ServerHello" /\ conn'.remoteKEMPK = PublicKey(<<>>)
                           /\ \E s \in ServerSuites :
                                conn'.transcript = Append(conn.transcript,
                                                          HelloOf(conn'.serverRandom, s))
                           /\ opts.Suite = ZeroSuite
  BY ServerHelloEnds DEF Apply

\* clientKey and processFinished fail wherever a handshake gets.
LEMMA NoKeyIsMade ==
  ASSUME Inv, NEW d, NEW fault, NEW msg
  PROVE  /\ ClientKey(conn, opts, d, fault) \in {Ended(conn, "refused"), Ended(conn, "error")}
         /\ ProcessFinished(conn, msg) = Ended(conn, "refused")
<1>1. CASE conn.state = "ServerHello"
  <2>1. conn.kem = Simple("X25519KEM") /\ conn.remoteKEMPK = PublicKey(<<>>)
    BY <1>1 DEF Inv, Reached
  <2>2. Encapsulate(conn.kem, conn.remoteKEMPK, Draws(d, fault)).end = "error"
    BY <2>1, EmptyKeyIsRefused
  <2>3. QED
    BY <1>1, <2>2 DEF ClientKey, ProcessFinished, InState
<1>2. CASE conn.state # "ServerHello"
  BY <1>2 DEF ClientKey, ProcessFinished, InState, Inv, Reached
<1>3. QED
  BY <1>1, <1>2

\* A step changes nothing of the handshake, or is a call of clientHello in state
\* Init or one of processServerHello in state ClientHello.
LEMMA Steps ==
  ASSUME Inv, [Next]_vars
  PROVE  /\ opts' = opts
         /\ \/ /\ conn' \in Connections /\ rotated' \in Drawn
               /\ out' \in Ends /\ (out' = out \/ out' # "panic")
               /\ \A f \in {"state", "transcript", "clientRandom", "serverRandom", "localKEMPK",
                            "remoteKEMPK", "kem", "keys"} : conn'[f] = conn[f]
            \/ /\ rotated' = rotated
               /\ \E d \in Randoms, fault \in Faults : Apply(ClientHello(conn, opts, d, fault))
            \/ /\ rotated' = rotated
               /\ \E msg \in ServerHellos : Apply(ProcessServerHello(conn, opts, msg))
<1> DEFINE Fields == {"state", "transcript", "clientRandom", "serverRandom", "localKEMPK",
                      "remoteKEMPK", "kem", "keys"}
           Idle == /\ conn' \in Connections /\ rotated' \in Drawn
                   /\ out' \in Ends /\ (out' = out \/ out' # "panic")
                   /\ \A f \in Fields : conn'[f] = conn[f]
<1>t. opts \in Configs /\ conn \in Connections /\ out \in Ends /\ rotated \in Drawn
  BY DEF Inv, Types
<1>e. \A k, how : Ended(k, how).conn = k /\ Ended(k, how).out = how
  BY DEF Ended
<1>1. ASSUME CallClientKey PROVE Idle /\ opts' = opts
  <2>1. PICK d \in Randoms, fault \in Faults : Apply(ClientKey(conn, opts, d, fault))
    BY <1>1 DEF CallClientKey
  <2>2. conn' = conn /\ out' \in {"refused", "error"}
    BY <1>e, <2>1, NoKeyIsMade DEF Apply
  <2>3. QED
    BY <1>1, <1>t, <2>2 DEF CallClientKey, Ends
<1>2. ASSUME CallProcessFinished PROVE Idle /\ opts' = opts
  <2>1. PICK msg \in {FinishedMsg(conn.keys, conn.transcript), Garbage} :
          Apply(ProcessFinished(conn, msg))
    BY <1>2 DEF CallProcessFinished
  <2>2. conn' = conn /\ out' = "refused"
    BY <1>e, <2>1, NoKeyIsMade DEF Apply
  <2>3. QED
    BY <1>2, <1>t, <2>2 DEF CallProcessFinished, Ends
<1>3. ASSUME CallUpdateKeys PROVE Idle /\ opts' = opts
  <2>1. PICK d \in Randoms, fault \in Faults :
          Apply(UpdateKeys(conn, fault)) /\ rotated' = IF fault = "random" THEN rotated ELSE d
    BY <1>3 DEF CallUpdateKeys
  <2>2. rotated' \in Drawn /\ opts' = opts
    BY <1>3, <1>t, <2>1 DEF Drawn, CallUpdateKeys
  <2>3. CASE fault = "random"
    BY <1>t, <1>e, <2>1, <2>2, <2>3 DEF Apply, UpdateKeys, Ends
  <2>4. CASE fault # "random"
    <3>1. conn' = [conn EXCEPT !.messageCount = 0, !.byteCount = 0, !.age = 0] /\ out' = "ok"
      BY <1>e, <2>1, <2>4 DEF Apply, UpdateKeys
    <3>2. conn' \in Connections /\ \A f \in Fields : conn'[f] = conn[f]
      BY <1>t, <3>1 DEF Connections
    <3>3. QED
      BY <2>2, <3>1, <3>2 DEF Ends
  <2>5. QED
    BY <2>3, <2>4
<1>4. ASSUME Tick PROVE Idle /\ opts' = opts
  <2>1. conn' = [conn EXCEPT !.age = @ + 1] /\ UNCHANGED <<opts, out, rotated>>
    BY <1>4 DEF Tick
  <2>2. conn.age + 1 \in Nat
    BY <1>t DEF Connections
  <2>3. conn' \in Connections
    BY <1>t, <2>1, <2>2 DEF Connections
  <2>4. \A f \in Fields : conn'[f] = conn[f]
    BY <1>t, <2>1 DEF Connections
  <2>5. QED
    BY <1>t, <2>1, <2>3, <2>4
<1>5. ASSUME UNCHANGED vars PROVE Idle /\ opts' = opts
  BY <1>t, <1>5 DEF vars
<1>6. QED
  BY <1>1, <1>2, <1>3, <1>4, <1>5 DEF Next, CallClientHello, CallProcessServerHello

\* A new connection satisfies the invariant.
LEMMA InitInv == Init => Inv
<1> SUFFICES ASSUME Init PROVE Inv
  OBVIOUS
<1>1. conn \in Connections
  <2>1. <<>> \in Seq(Sent) /\ 0 \in Drawn /\ NilKEM \in KEMValues /\ "Init" \in States
    BY DEF Drawn, KEMValues, States
  <2>2. QED
    BY <2>1 DEF Init, NewConnection, Connections
<1>2. conn.state = "Init" /\ conn.transcript = <<>> /\ conn.keys = 0
  BY DEF Init, NewConnection
<1>3. QED
  BY <1>1, <1>2 DEF Init, Inv, Types, Reached, Ends, Drawn

\* Every call keeps the invariant.
LEMMA StepInv == Inv /\ [Next]_vars => Inv'
<1> SUFFICES ASSUME Inv, [Next]_vars PROVE Inv'
  OBVIOUS
<1>t. opts \in Configs /\ conn \in Connections /\ conn.keys = 0 /\ Reached /\ rotated \in Drawn
      /\ opts' = opts
  BY Steps DEF Inv, Types
<1>1. ASSUME conn' \in Connections, rotated' \in Drawn, out' \in Ends, out' = out \/ out' # "panic",
             \A f \in {"state", "transcript", "clientRandom", "serverRandom", "localKEMPK",
                       "remoteKEMPK", "kem", "keys"} : conn'[f] = conn[f]
      PROVE  Inv'
  <2>1. /\ conn'.state = conn.state /\ conn'.transcript = conn.transcript
        /\ conn'.clientRandom = conn.clientRandom /\ conn'.serverRandom = conn.serverRandom
        /\ conn'.localKEMPK = conn.localKEMPK /\ conn'.remoteKEMPK = conn.remoteKEMPK
        /\ conn'.kem = conn.kem /\ conn'.keys = conn.keys
    BY <1>1
  <2>2. ClientHelloMsg(conn, opts)' = ClientHelloMsg(conn, opts)
    BY <1>t, <2>1 DEF ClientHelloMsg
  <2>3. Reached'
    BY <1>t, <2>1, <2>2 DEF Reached
  <2>4. QED
    BY <1>1, <1>t, <2>1, <2>3 DEF Inv, Types
<1>2. ASSUME NEW d \in Randoms, NEW fault \in Faults, rotated' = rotated,
             Apply(ClientHello(conn, opts, d, fault))
      PROVE  Inv'
  <2>1. /\ out' \in Ends /\ conn' \in Connections
        /\ conn.state # "Init" => conn' = conn /\ out' = "refused"
        /\ conn'.keys = conn.keys
        /\ out' # "ok" => conn'.state = conn.state /\ conn'.transcript = conn.transcript
        /\ out' = "ok" => /\ conn'.state = "ClientHello" /\ conn'.kem = GetKEM(opts.Suite.KEM)
                          /\ conn'.transcript = Append(conn.transcript, ClientHelloMsg(conn', opts))
        /\ out' = "panic" => opts.Mode # "PQOnly"
    BY <1>2, <1>t, ClientHelloEnds DEF Apply
  <2>2. Reached'
    <3>1. CASE conn.state # "Init"
      BY <1>t, <2>1, <3>1 DEF Reached, ClientHelloMsg
    <3>2. CASE conn.state = "Init" /\ out' # "ok"
      BY <1>t, <2>1, <3>2 DEF Reached
    <3>3. CASE conn.state = "Init" /\ out' = "ok"
      <4>1. conn.transcript = <<>>
        BY <1>t, <3>3 DEF Reached
      <4>2. Append(<<>>, ClientHelloMsg(conn', opts)) = <<ClientHelloMsg(conn', opts)>>
        OBVIOUS
      <4>3. conn'.transcript = <<ClientHelloMsg(conn, opts)>>'
        BY <1>t, <2>1, <3>3, <4>1, <4>2 DEF ClientHelloMsg
      <4>4. QED
        BY <1>t, <2>1, <3>3, <4>3 DEF Reached
    <3>4. QED
      BY <3>1, <3>2, <3>3
  <2>3. out' = "panic" => conn'.state = "Init" /\ opts.Mode # "PQOnly"
    BY <2>1
  <2>4. QED
    BY <1>2, <1>t, <2>1, <2>2, <2>3 DEF Inv, Types
<1>3. ASSUME NEW msg \in ServerHellos, rotated' = rotated,
             Apply(ProcessServerHello(conn, opts, msg))
      PROVE  Inv'
  <2> DEFINE hello(s) == HelloOf(conn'.serverRandom, s)
  <2>1. /\ out' \in {"ok", "refused", "error"} /\ conn' \in Connections
        /\ conn.state # "ClientHello" => conn' = conn /\ out' = "refused"
        /\ conn'.keys = conn.keys /\ conn'.kem = conn.kem
        /\ conn'.clientRandom = conn.clientRandom /\ conn'.localKEMPK = conn.localKEMPK
        /\ out' # "ok" => conn'.state = conn.state /\ conn'.transcript = conn.transcript
        /\ out' = "ok" => /\ conn'.state = "ServerHello" /\ conn'.remoteKEMPK = PublicKey(<<>>)
                          /\ \E s \in ServerSuites :
                               conn'.transcript = Append(conn.transcript, hello(s))
                          /\ opts.Suite = ZeroSuite
    BY <1>3, <1>t, ServerHelloStep
  <2>2. ClientHelloMsg(conn, opts)' = ClientHelloMsg(conn, opts)
    BY <1>t, <2>1 DEF ClientHelloMsg
  <2>3. Reached'
    <3>1. CASE conn.state # "ClientHello"
      BY <1>t, <2>1, <3>1 DEF Reached, ClientHelloMsg
    <3>2. CASE conn.state = "ClientHello" /\ out' # "ok"
      BY <1>t, <2>1, <2>2, <3>2 DEF Reached
    <3>3. CASE conn.state = "ClientHello" /\ out' = "ok"
      <4>1. conn.transcript = <<ClientHelloMsg(conn, opts)>> /\ conn.kem = GetKEM(opts.Suite.KEM)
        BY <1>t, <3>3 DEF Reached
      <4>2. conn.kem = Simple("X25519KEM")
        BY <1>t, <2>1, <3>3, <4>1, KEMType
      <4>s. PICK s \in ServerSuites : conn'.transcript = Append(conn.transcript, hello(s))
        BY <2>1, <3>3
      <4>3. Append(<<ClientHelloMsg(conn, opts)>>, hello(s))
              = <<ClientHelloMsg(conn, opts), hello(s)>>
        <5>1. hello(s) \in Sent /\ ClientHelloMsg(conn, opts) \in Sent
          BY <1>t, <2>1 DEF Sent, ClientHelloMsg, Connections, HelloOf
        <5> HIDE DEF hello
        <5>2. QED
          BY <5>1, PairIsAppended
      <4>4. conn'.transcript = <<ClientHelloMsg(conn, opts)', hello(s)>>
        BY <2>2, <4>s, <4>1, <4>3
      <4>5. QED
        BY <1>t, <2>1, <3>3, <4>2, <4>4 DEF Reached
    <3>4. QED
      BY <3>1, <3>2, <3>3
  <2>4. QED
    BY <1>3, <1>t, <2>1, <2>3 DEF Inv, Types, Ends
<1>4. QED
  BY <1>1, <1>2, <1>3, Steps

\* The invariant holds: with whatever options New accepts, a client connection is
\* in one of three states, and nothing else is in its transcript than the hellos.
THEOREM Invariance == Spec => []Inv
  BY InitInv, StepInv, PTL DEF Spec

\* Every field of a connection keeps its type.
THEOREM TypeCorrect == Spec => []TypeOK
<1>1. Inv => TypeOK
  BY DEF Inv, Types, TypeOK, Connections, KEMValues, Drawn, Ends
<1>2. QED
  BY <1>1, Invariance, PTL

\* The transcript that processFinished authenticates is the ClientHello that left
\* and the ServerHello that was accepted, after any failures and retries.
THEOREM TranscriptIsBinding == Spec => []TranscriptBinds
<1>1. Inv => TranscriptBinds
  <2> SUFFICES ASSUME Inv PROVE TranscriptBinds
    OBVIOUS
  <2>1. \A x, y : <<x>>[1] = x /\ Len(<<x>>) = 1 /\ <<x, y>>[1] = x /\ <<x, y>>[2] = y
                    /\ Len(<<x, y>>) = 2
    OBVIOUS
  <2>2. \A s : HelloOf(conn.serverRandom, s).random = conn.serverRandom
    BY DEF HelloOf
  <2>3. CASE conn.state = "Init"
    BY <2>3 DEF Inv, Reached, TranscriptBinds
  <2>4. CASE conn.state = "ClientHello"
    BY <2>1, <2>4 DEF Inv, Reached, TranscriptBinds
  <2>5. CASE conn.state = "ServerHello"
    <3>1. PICK s \in ServerSuites :
            conn.transcript = <<ClientHelloMsg(conn, opts), HelloOf(conn.serverRandom, s)>>
      BY <2>5 DEF Inv, Reached
    <3>2. /\ conn.transcript[1] = ClientHelloMsg(conn, opts) /\ Len(conn.transcript) = 2
          /\ conn.transcript[2] = HelloOf(conn.serverRandom, s)
      BY <2>1, <3>1
    <3>3. QED
      BY <2>2, <2>5, <3>2 DEF TranscriptBinds
  <2>6. QED
    BY <2>3, <2>4, <2>5 DEF Inv, Reached
<1>2. QED
  BY <1>1, Invariance, PTL

\* A call panics only before anything has left, and never in PQ-only mode: the KEM
\* without parts that clientHello picks there is never asked to encapsulate.
THEOREM OnlyTheFirstCallPanics == Spec => []PanicsBeforeSending
<1>1. Inv => PanicsBeforeSending
  BY DEF Inv, Reached, PanicsBeforeSending
<1>2. QED
  BY <1>1, Invariance, PTL

\* No connection gets as far as deriving keys, with any options, random values and
\* ServerHellos: the public key that clientKey encapsulates to is always empty.  A
\* client that gets past ClientHello at all was configured with the zero suite,
\* whatever suite the server named.
THEOREM KeysAreNeverDerived ==
  Spec => [](/\ conn.state \in {"Init", "ClientHello", "ServerHello"} /\ conn.keys = 0
             /\ conn.state = "ServerHello" => opts.Suite = ZeroSuite)
<1>1. Inv => /\ conn.state \in {"Init", "ClientHello", "ServerHello"} /\ conn.keys = 0
             /\ conn.state = "ServerHello" => opts.Suite = ZeroSuite
  BY DEF Inv, Reached
<1>2. QED
  BY <1>1, Invariance, PTL

\* A call that is refused or fails can be repeated: neither the state nor the
\* transcript has moved.
THEOREM FailuresAreRetryable == Spec => FailureIsRetryable
<1>1. Inv /\ [Next]_vars =>
        [out' # "ok" => conn'.state = conn.state /\ conn'.transcript = conn.transcript]_vars
  <2> SUFFICES ASSUME Inv, [Next]_vars, out' # "ok"
               PROVE  conn'.state = conn.state /\ conn'.transcript = conn.transcript
    OBVIOUS
  <2>t. opts \in Configs /\ conn \in Connections
    BY DEF Inv, Types
  <2>1. ASSUME NEW d \in Randoms, NEW fault \in Faults,
               Apply(ClientHello(conn, opts, d, fault))
        PROVE  conn'.state = conn.state /\ conn'.transcript = conn.transcript
    BY <2>t, <2>1, ClientHelloEnds DEF Apply
  <2>2. ASSUME NEW msg \in ServerHellos, Apply(ProcessServerHello(conn, opts, msg))
        PROVE  conn'.state = conn.state /\ conn'.transcript = conn.transcript
    BY <2>t, <2>2, ServerHelloStep
  <2>3. QED
    BY <2>1, <2>2, Steps
<1>2. QED
  BY <1>1, Invariance, PTL DEF Spec, FailureIsRetryable

\* No later call reaches back to the random, the key share or the KEM of a
\* ClientHello that has left, nor to a server random that was accepted.
THEOREM HellosStayPinned == Spec => HellosArePinned
<1> DEFINE Pinned == /\ conn.state # "Init" =>
                          /\ conn'.clientRandom = conn.clientRandom
                          /\ conn'.localKEMPK = conn.localKEMPK
                          /\ conn'.kem = conn.kem
                     /\ conn.state \notin {"Init", "ClientHello"} =>
                          conn'.serverRandom = conn.serverRandom
<1>1. Inv /\ [Next]_vars => [Pinned]_vars
  <2> SUFFICES ASSUME Inv, [Next]_vars PROVE Pinned
    OBVIOUS
  <2>t. opts \in Configs /\ conn \in Connections
    BY DEF Inv, Types
  <2>1. ASSUME NEW d \in Randoms, NEW fault \in Faults,
               Apply(ClientHello(conn, opts, d, fault))
        PROVE  Pinned
    <3>1. conn.state # "Init" => conn' = conn
      BY <2>t, <2>1, ClientHelloEnds DEF Apply
    <3>2. QED
      BY <3>1
  <2>2. ASSUME NEW msg \in ServerHellos, Apply(ProcessServerHello(conn, opts, msg))
        PROVE  Pinned
    <3>1. /\ conn.state # "ClientHello" => conn' = conn
          /\ conn'.clientRandom = conn.clientRandom /\ conn'.localKEMPK = conn.localKEMPK
          /\ conn'.kem = conn.kem
      BY <2>t, <2>2, ServerHelloStep
    <3>2. QED
      BY <3>1
  <2>3. QED
    BY <2>1, <2>2, Steps
<1>2. QED
  BY <1>1, Invariance, PTL DEF Spec, HellosArePinned
\* The hellos do not look at the counters of key rotation.
LEMMA HellosKeepCounters ==
  ASSUME conn \in Connections, CallClientHello \/ CallProcessServerHello
  PROVE  /\ conn'.messageCount = conn.messageCount /\ conn'.byteCount = conn.byteCount
         /\ conn'.age = conn.age /\ opts' = opts
<1> DEFINE Same(c) == /\ c.messageCount = conn.messageCount /\ c.byteCount = conn.byteCount
                      /\ c.age = conn.age
<1>1. ASSUME CallClientHello PROVE Same(conn')
  <2>1. PICK d \in Randoms, fault \in Faults : Apply(ClientHello(conn, opts, d, fault))
    BY <1>1 DEF CallClientHello
  <2>2. Same(ClientHello(conn, opts, d, fault).conn)
    BY DEF ClientHello, Ended, Connections
  <2>3. QED
    BY <2>1, <2>2 DEF Apply
<1>2. ASSUME CallProcessServerHello PROVE Same(conn')
  <2>1. PICK msg \in ServerHellos : Apply(ProcessServerHello(conn, opts, msg))
    BY <1>2 DEF CallProcessServerHello
  <2>2. Same(ProcessServerHello(conn, opts, msg).conn)
    BY DEF ProcessServerHello, StoreServerRandom, Ended, Connections
  <2>3. QED
    BY <2>1, <2>2 DEF Apply
<1>3. QED
  BY <1>1, <1>2 DEF CallClientHello, CallProcessServerHello

\* The age limit of a configuration is a number.
LEMMA LimitsAreNumbers == \A o \in Configs : o.KeyRotation.MaxAge \in Nat
<1> SUFFICES ASSUME NEW x \in CallerOptions PROVE WithDefaults(x).KeyRotation.MaxAge \in Nat
  BY ConnectionAssumption DEF TransportOptions
<1> DEFINE Limits == {"MaxMessages", "MaxBytes", "MaxAge"}
           Rotation == [limit \in DOMAIN DefaultRotation |->
                          IF x.KeyRotation[limit] = 0 THEN DefaultRotation[limit]
                                                      ELSE x.KeyRotation[limit]]
<1>1. DefaultRotation \in [Limits -> Nat] /\ DOMAIN DefaultRotation = Limits
  BY DEF DefaultRotation
<1>2. ConservativeRotation \in [Limits -> Nat] /\ ZeroRotation \in [Limits -> Nat]
  <2>1. ZeroRotation \in [Limits -> Nat]
    BY DEF ZeroRotation
  <2>2. QED
    BY <1>1, <2>1 DEF ConservativeRotation
<1>3. "KeyRotation" \in DOMAIN x /\ x.KeyRotation \in [Limits -> Nat]
  BY <1>1, <1>2 DEF CallerOptions, Presets, DefaultOptions, ConservativeOptions,
                    PerformanceOptions
<1>4. Rotation["MaxAge"] \in Nat
  BY <1>1, <1>3
<1>5. WithDefaults(x) = [x EXCEPT !.KeyRotation = Rotation]
  BY DEF WithDefaults
<1>6. QED
  BY <1>3, <1>4, <1>5

\* A rotation that is due stays due until an updateKeys has made keys, whichever
\* calls of the handshake are made and fail meanwhile.
THEOREM DueRotationsAreKept == Spec => RotationStaysDue
<1> DEFINE Made == out' = "ok" /\ rotated' \in Randoms /\ conn'.state = conn.state
<1>1. Inv /\ [Next]_vars => [NeedsKeyUpdate(conn, opts) /\ ~NeedsKeyUpdate(conn', opts) => Made]_vars
  <2> SUFFICES ASSUME Inv, [Next]_vars, NeedsKeyUpdate(conn, opts), ~NeedsKeyUpdate(conn', opts)
               PROVE  Made
    OBVIOUS
  <2>t. conn \in Connections /\ conn.keys = 0 /\ Reached
    BY DEF Inv, Types
  <2>1. ASSUME conn'.messageCount = conn.messageCount, conn'.byteCount = conn.byteCount,
               conn'.age = conn.age
        PROVE  FALSE
    BY <2>1 DEF NeedsKeyUpdate
  <2>2. CASE CallClientHello \/ CallProcessServerHello
    BY <2>t, <2>1, <2>2, HellosKeepCounters
  <2>3. CASE CallUpdateKeys
    <3>1. PICK d \in Randoms, fault \in Faults :
            Apply(UpdateKeys(conn, fault)) /\ rotated' = IF fault = "random" THEN rotated ELSE d
      BY <2>3 DEF CallUpdateKeys
    <3>2. fault # "random"
      BY <2>1, <3>1 DEF Apply, UpdateKeys, Ended
    <3>3. QED
      BY <2>t, <3>1, <3>2 DEF Apply, UpdateKeys, Ended, Connections
  <2>4. CASE CallClientKey \/ CallProcessFinished
    <3>1. conn' = conn
      BY <2>4, NoKeyIsMade DEF CallClientKey, CallProcessFinished, Apply, Ended
    <3>2. QED
      BY <2>1, <3>1
  <2>5. CASE Tick
    <3>1. opts.KeyRotation.MaxAge \in Nat
      BY LimitsAreNumbers DEF Inv, Types
    <3>2. QED
      BY <2>t, <2>5, <3>1 DEF Tick, NeedsKeyUpdate, Connections
  <2>6. QED
    BY <2>1, <2>2, <2>3, <2>4, <2>5 DEF Next, vars
<1>2. QED
  BY <1>1, Invariance, PTL DEF Spec, RotationStaysDue
=============================================================================
