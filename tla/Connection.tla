---------------------------- MODULE Connection -----------------------------
(***************************************************************************)
(* The client side of the handshake and of key rotation (connection.go,    *)
(* with the algorithms it picks from crypto.go).  Every method holds       *)
(* c.mu.Lock from end to end, so a call is one step; the methods can be    *)
(* called in any order and any number of times, and a call that fails      *)
(* leaves behind what it had assigned before.                              *)
(*                                                                         *)
(* A random value, and a secret or key made from it, is a member of        *)
(* Randoms; 0 is "not there".  Each handler is an operator that returns    *)
(* the connection after the call and how the call ended.                   *)
(***************************************************************************)
EXTENDS Integers, Sequences, Options, Crypto

CONSTANTS Configs,       \* the options connections are made with
          ServerSuites,  \* the suites a ServerHello can name
          Randoms        \* what crypto/rand can deliver

ASSUME ConnectionAssumption ==
  /\ Configs \subseteq TransportOptions
  /\ ServerSuites \subseteq Suites
  /\ Randoms \subseteq Nat \ {0}

VARIABLES opts,    \* c.opts
          conn,    \* the other fields of the connection
          out,     \* how the last call ended
          rotated  \* the keys the last updateKeys returned

vars == <<opts, conn, out, rotated>>

States == {"Init", "ClientHello", "ServerHello", "ClientKey", "Established"}

NewConnection ==
  [state |-> "Init", clientRandom |-> 0, serverRandom |-> 0, transcript |-> <<>>,
   kem |-> NilKEM, localKEMPK |-> 0, remoteKEMPK |-> NilKey, keys |-> 0,
   clientAEAD |-> 0, serverAEAD |-> 0, sharedSecret |-> 0,
   messageCount |-> 0, byteCount |-> 0, age |-> 0]

Ended(c, how) == [conn |-> c, out |-> how]

-----------------------------------------------------------------------------
(* The messages *)

\* clientHelloMsg.marshal leaves the four bytes of the suite at zero.
ClientHelloMsg(c, o) ==
  [type |-> "ClientHello", random |-> c.clientRandom, suite |-> "zeroed",
   pqOnly |-> o.Mode = "PQOnly", keyShare |-> c.localKEMPK]

\* What reaches processServerHello: a message that is too short, or one with a
\* random value and the suite that the server names.
ServerHellos ==
  [type : {"ServerHello"}, random : Randoms, suite : ServerSuites]
    \cup {[type |-> "short"]}

\* unmarshal reads the random, steps over the suite and reads nothing after it.
Unmarshalled(msg) ==
  [random |-> msg.random, suite |-> ZeroSuite, kemPublicKey |-> PublicKey(<<>>)]

ClientKeyMsg(d) == [type |-> "ClientKey", random |-> d]

\* The Finished a server that derived key k over the transcript t would send.
FinishedMsg(k, t) == [type |-> "Finished", key |-> k, mac |-> t]
Garbage == [type |-> "garbage", key |-> 0, mac |-> <<>>]

-----------------------------------------------------------------------------
(* The handlers.  d is what crypto/rand delivers during the call, unless     *)
(* fault says which read of it fails.                                        *)

Faults == {"none", "random", "keypair"}
Draws(d, fault) == IF fault = "keypair" THEN <<0, 0>> ELSE <<d, d>>

\* Mutant: the state is not looked at.
InAnyState(c, s) == TRUE
\* The "invalid state" check at the head of every handshake method.
InState(c, s) == c.state = s

\* Mutant: a ServerHello goes to the transcript before it is validated.
StoreAndRecord(c, msg) ==
  [c EXCEPT !.serverRandom = msg.random, !.transcript = Append(@, msg)]
\* The server's random is stored before its suite is looked at.
StoreServerRandom(c, msg) == [c EXCEPT !.serverRandom = Unmarshalled(msg).random]

\* Mutant: any suite of the server's will do.
AnySuite(hello, o) == TRUE
\* The suite in the unmarshalled message must be the client's own.
SuiteAgrees(hello, o) == hello.suite = o.Suite

ClientHello(c, o, d, fault) ==
  LET seeded == [c EXCEPT !.clientRandom = d]
      kem == GetKEM(o.Suite.KEM)
      picked == [seeded EXCEPT !.kem = kem]
      keyEnd == IF o.Mode = "PQOnly" THEN "ok"
                ELSE GenerateKeyPair(kem, Draws(d, fault)).end
      keyed == IF o.Mode = "PQOnly" THEN picked ELSE [picked EXCEPT !.localKEMPK = d]
  IN  IF ~InState(c, "Init") THEN Ended(c, "refused")
      ELSE IF fault = "random" THEN Ended(seeded, "error")
      ELSE IF kem = NilKEM THEN Ended(picked, "error")
      ELSE IF keyEnd # "ok" THEN Ended([picked EXCEPT !.localKEMPK = 0], keyEnd)
      ELSE Ended([keyed EXCEPT !.transcript = Append(@, ClientHelloMsg(keyed, o)),
                               !.state = "ClientHello"], "ok")

\* A certificate would be verified here, but unmarshal never finds one.
ProcessServerHello(c, o, msg) ==
  IF ~InState(c, "ClientHello") THEN Ended(c, "refused")
  ELSE IF msg.type = "short" THEN Ended(c, "error")
  ELSE LET hello == Unmarshalled(msg)
           stored == StoreServerRandom(c, msg)
       IN  IF ~SuiteAgrees(hello, o) THEN Ended(stored, "error")
           ELSE Ended([stored EXCEPT !.remoteKEMPK = hello.kemPublicKey,
                                     !.transcript = Append(@, msg),
                                     !.state = "ServerHello"], "ok")

\* The key that is encapsulated to is the empty one a ServerHello left behind.
\* deriveKeys and createAEAD do not fail for a suite that came this far; no
\* client key is ever set, so nothing is signed.
ClientKey(c, o, d, fault) ==
  LET kemEnd == Encapsulate(c.kem, c.remoteKEMPK, Draws(d, fault)).end
      ecdhe == o.Mode = "Hybrid" /\ c.localKEMPK # 0
  IN  IF ~InState(c, "ServerHello") THEN Ended(c, "refused")
      ELSE IF kemEnd # "ok" THEN Ended(c, kemEnd)
      ELSE IF ecdhe /\ fault = "random" THEN Ended(c, "error")
      ELSE Ended([c EXCEPT !.keys = d, !.clientAEAD = d, !.serverAEAD = d,
                           !.transcript = Append(@, ClientKeyMsg(d)),
                           !.state = "ClientKey"], "ok")

ProcessFinished(c, msg) ==
  IF ~InState(c, "ClientKey") THEN Ended(c, "refused")
  ELSE IF msg.key # c.serverAEAD THEN Ended(c, "error")
  ELSE IF msg.mac # c.transcript THEN Ended(c, "error")
  ELSE Ended([c EXCEPT !.state = "Established", !.sharedSecret = c.keys], "ok")

NeedsKeyUpdate(c, o) ==
  \/ o.KeyRotation.MaxMessages > 0 /\ c.messageCount >= o.KeyRotation.MaxMessages
  \/ o.KeyRotation.MaxBytes > 0 /\ c.byteCount >= o.KeyRotation.MaxBytes
  \/ o.KeyRotation.MaxAge > 0 /\ c.age > o.KeyRotation.MaxAge

\* Mutant: the counters are reset before the random source is read.
ResetFirst(c, fault) ==
  Ended([c EXCEPT !.messageCount = 0, !.byteCount = 0, !.age = 0],
        IF fault = "random" THEN "error" ELSE "ok")
\* updateKeys asks for no state; it derives keys, resets the counters and hands
\* the keys to its caller.
UpdateKeys(c, fault) ==
  IF fault = "random" THEN Ended(c, "error")
  ELSE Ended([c EXCEPT !.messageCount = 0, !.byteCount = 0, !.age = 0], "ok")

-----------------------------------------------------------------------------

Init ==
  /\ opts \in Configs
  /\ conn = NewConnection
  /\ out = "ok"
  /\ rotated = 0

Apply(ended) == conn' = ended.conn /\ out' = ended.out

CallClientHello ==
  /\ \E d \in Randoms, fault \in Faults : Apply(ClientHello(conn, opts, d, fault))
  /\ UNCHANGED <<opts, rotated>>

CallProcessServerHello ==
  /\ \E msg \in ServerHellos : Apply(ProcessServerHello(conn, opts, msg))
  /\ UNCHANGED <<opts, rotated>>

CallClientKey ==
  /\ \E d \in Randoms, fault \in Faults : Apply(ClientKey(conn, opts, d, fault))
  /\ UNCHANGED <<opts, rotated>>

CallProcessFinished ==
  /\ \E msg \in {FinishedMsg(conn.keys, conn.transcript), Garbage} :
       Apply(ProcessFinished(conn, msg))
  /\ UNCHANGED <<opts, rotated>>

CallUpdateKeys ==
  /\ \E d \in Randoms, fault \in Faults :
       /\ Apply(UpdateKeys(conn, fault))
       /\ rotated' = IF fault = "random" THEN rotated ELSE d
  /\ UNCHANGED opts

\* Time passes; ages beyond the limit are all alike.
Tick ==
  /\ conn.age <= opts.KeyRotation.MaxAge
  /\ conn' = [conn EXCEPT !.age = @ + 1]
  /\ UNCHANGED <<opts, out, rotated>>

Alive == out # "panic"      \* a panic takes the caller down

Next ==
  \/ Alive /\ CallClientHello
  \/ Alive /\ CallProcessServerHello
  \/ Alive /\ CallClientKey
  \/ Alive /\ CallProcessFinished
  \/ Alive /\ CallUpdateKeys
  \/ Tick

\* A handshake that is being driven: whenever some call could take it to its
\* next state, such a call is made in the end.
Advance == Next /\ conn'.state # conn.state

Spec == Init /\ [][Next]_vars
FairSpec == Spec /\ SF_vars(Advance)

-----------------------------------------------------------------------------
(* Properties *)

\* Every field has its type.
TypeOK ==
  /\ opts \in Configs
  /\ conn.state \in States
  /\ {conn.clientRandom, conn.serverRandom, conn.localKEMPK, conn.keys,
      conn.clientAEAD, conn.serverAEAD, conn.sharedSecret} \subseteq Randoms \cup {0}
  /\ conn.kem \in {NilKEM, Simple("X25519KEM"), NewHybridKEM("nil", "nil")}
                    \cup {Simple(t) : t \in StubTypes}
  /\ conn.remoteKEMPK \in {NilKey, PublicKey(<<>>)}
  /\ conn.messageCount \in Nat /\ conn.byteCount \in Nat /\ conn.age \in Nat
  /\ out \in {"ok", "refused", "error", "panic"}
  /\ rotated \in Randoms \cup {0}

\* The transcript is what the two sides exchanged and agree on, whatever failed
\* and was tried again before: one ClientHello, with the random and the key
\* share the connection still holds, and after it the one ServerHello whose
\* random the connection holds.  processFinished authenticates this transcript.
TranscriptBinds ==
  /\ conn.state = "Init" => conn.transcript = <<>>
  /\ conn.state # "Init" => conn.transcript[1] = ClientHelloMsg(conn, opts)
  /\ conn.state = "ClientHello" => Len(conn.transcript) = 1
  /\ conn.state = "ServerHello" =>
       /\ Len(conn.transcript) = 2
       /\ conn.transcript[2].random = conn.serverRandom

\* A call that is refused or fails moves neither the state nor the transcript,
\* so that it can be repeated.
FailureIsRetryable ==
  [][out' # "ok" => conn'.state = conn.state /\ conn'.transcript = conn.transcript]_vars

\* The key share of a ClientHello that has left is never replaced, and a server
\* random that was accepted is never replaced: no later call, in any order,
\* reaches back.
HellosArePinned ==
  [][/\ conn.state # "Init" =>
          /\ conn'.clientRandom = conn.clientRandom
          /\ conn'.localKEMPK = conn.localKEMPK
          /\ conn'.kem = conn.kem
     /\ conn.state \notin {"Init", "ClientHello"} =>
          conn'.serverRandom = conn.serverRandom]_vars

\* A rotation that is due stays due, whatever calls succeed, fail or are refused
\* meanwhile, until an updateKeys has made keys: a random source that fails
\* leaves the counters and the time of the last update alone.  (The keys are the
\* caller's; updateKeys does not install them.)
RotationStaysDue ==
  [][NeedsKeyUpdate(conn, opts) /\ ~NeedsKeyUpdate(conn', opts)
       => out' = "ok" /\ rotated' \in Randoms /\ conn'.state = conn.state]_vars

\* A call panics only before anything has left: clientHello of a hybrid suite,
\* whose KEM has no parts.  In PQ-only mode clientHello picks that KEM and does
\* not use it; clientKey would be the first to, with both hellos exchanged, and
\* the suite check of processServerHello is all that keeps it from getting there.
PanicsBeforeSending ==
  out = "panic" => /\ conn.state = "Init" /\ conn.transcript = <<>>
                   /\ opts.Mode # "PQOnly"

\* "Validate suite": a ServerHello that is accepted named the suite that the client
\* is configured with.
NamedSuiteIsAgreed ==
  conn.state \notin {"Init", "ClientHello"} => conn.transcript[2].suite = opts.Suite

\* "Handshake (1-RTT)": a handshake that is driven is established.
HandshakeCompletes == <>(conn.state = "Established")
=============================================================================
