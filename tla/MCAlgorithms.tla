--------------------------- MODULE MCAlgorithms ----------------------------
(***************************************************************************)
(* The pure algorithms of qzmq on bounded inputs: message frames, KEMs and *)
(* backend selection.  A behaviour takes one input, and each property is   *)
(* about the input that was taken.                                         *)
(***************************************************************************)
EXTENDS Frame, Crypto, BackendSelection

VARIABLE input

Bits(n) == [1..n -> Bytes]
Constant(n) == [i \in 1..n |-> 1]

\* Payloads and additional data around the lengths at which the length fields,
\* of Range32 and Range16 values, wrap around.
Payloads ==
  (UNION {Bits(n) : n \in 0..2}) \cup {Constant(n) : n \in Range32 - 1 .. Range32 + 1}
AADs == UNION {Bits(n) : n \in 0..Range16 + 1}

Frames == [version : {1}, streamID : {0, Range32 - 2}, sequenceNo : {0, Range64 - 2},
           flags : Bytes, payload : Payloads, aad : AADs]

\* Any payload length, followed by any few bytes; and frames cut off earlier.
Header(n) == Constant(HeaderSize - 4) \o Put32(n)
Tails == UNION {Bits(k) : k \in 0..6}
Datas == {Header(n) \o tail : n \in 0..Range32 - 1, tail \in Tails}
           \cup {SubSeq(Header(0), 1, k) : k \in 0..HeaderSize - 1}

\* The KEMs that can open what they seal, and all.
Working == {Simple("X25519KEM"), Simple("RealMLKEM768"), Simple("RealMLKEM1024"),
            NewHybridMLKEM}
Implementations ==
  Working \cup {Simple("MLKEM768Type"), NewHybridKEM("nil", "nil"),
                NewHybridKEM("X25519KEM", "MLKEM768Type"),
                NewHybridKEM("X25519KEM", "RealMLKEM768")}

\* What becomes of a ciphertext c on its way; b is another one for the same key.
\* The top bit of a first unit that is a point makes it another encoding of the
\* point.
Changes == {"intact", "cut", "extended", "empty", "replaced", "top bit flipped",
            "head replaced", "tail replaced", "spliced"}
Change(c, b, how) ==
  CASE how = "intact" -> c
    [] how = "cut" -> SubSeq(c, 1, Len(c) - 1)
    [] how = "extended" -> c \o Noise(9, 1)
    [] how = "empty" -> <<>>
    [] how = "replaced" -> b
    [] how = "top bit flipped" -> <<[Head(c) EXCEPT !.draw = @ + 9]>> \o Tail(c)
    [] how = "head replaced" -> Noise(9, 1) \o Tail(c)
    [] how = "tail replaced" -> SubSeq(c, 1, Len(c) - 1) \o Noise(9, 1)
    [] how = "spliced" -> <<Head(c)>> \o Tail(b)

\* The draws of the two halves: one may fail, or be the same as another's.
Exchanges ==
  [kem : Implementations, maker : Implementations,
   key : {<<1, 2>>, <<0, 2>>, <<1, 0>>}, opener : {<<1, 2>>, <<3, 2>>, <<1, 4>>},
   seal : {<<5, 6>>, <<1, 2>>, <<0, 6>>, <<5, 0>>}, change : Changes]

-----------------------------------------------------------------------------

Init == input = [of |-> "nothing"]

Take(of, S) ==
  /\ input.of = "nothing"
  /\ \E x \in S : input' = [of |-> of, it |-> x]

TakeFrame == Take("frame", Frames)
TakeData == Take("data", Datas)
TakeExchange == Take("exchange", Exchanges)
TakeEnvironment == Take("environment", Environments)

Next == TakeFrame \/ TakeData \/ TakeExchange \/ TakeEnvironment
Spec == Init /\ [][Next]_input

-----------------------------------------------------------------------------
(* Properties *)

Restored(f) ==
  LET back == Unmarshal(Marshal(f)) IN back.end = "ok" /\ back.frame = f

\* A frame that is marshalled and unmarshalled is the frame it was exactly when
\* its lengths fit their fields: a longer payload or longer additional data is
\* never restored, because marshal truncates the length and writes everything.
RoundTrip ==
  input.of = "frame" => (Restored(input.it) <=> Fits(input.it))

BeginsWith(data, s) == Len(s) <= Len(data) /\ s = SubSeq(data, 1, Len(s))
ReadSoundly(data) ==
  LET got == Unmarshal(data)
  IN  got.end # "panic" /\ (got.end = "ok" => BeginsWith(data, Marshal(got.frame)))

\* Whatever bytes arrive, unmarshal does not read outside them, and a frame it
\* accepts is what they begin with: nothing is made up or shared between the
\* payload and the additional data.
UnmarshalSound == input.of = "data" => ReadSoundly(input.it)

\* The ciphertext with its X25519 points in the encoding that X25519 returns.
Canonical(ct) ==
  [i \in 1..Len(ct) |-> IF ct[i].kind = "X25519KEM" THEN [ct[i] EXCEPT !.draw = 0]
                                                    ELSE ct[i]]

\* The pair key and the pair opener come of one KEM, a secret is sealed to the
\* first, and ct arrives where the second is.
Agreement(kem, maker, key, opener, seal, ct) ==
  LET made == GenerateKeyPair(maker, key)
      other == GenerateKeyPair(maker, opener)
      sealed == Encapsulate(kem, made.pk, seal)
      opened == Decapsulate(kem, other.sk, ct, <<9, 9>>)
  IN  made.end = "ok" /\ other.end = "ok" /\ sealed.end = "ok" =>
        ((opened.end = "ok" /\ opened.ss = sealed.ss)
           <=> (Canonical(ct) = sealed.ct /\ other.sk = made.sk /\ kem \in Working))

\* What arrives in the exchange x.
Arriving(x) ==
  LET made == GenerateKeyPair(x.maker, x.key)
  IN  Change(Encapsulate(x.kem, made.pk, x.seal).ct,
             Encapsulate(x.kem, made.pk, <<7, 8>>).ct, x.change)

\* Whichever KEM made the key pair: when Encapsulate of X25519KEM, of a real ML-KEM
\* or of HybridMLKEM accepts the key, the holder of the private key gets the
\* sender's secret from the ciphertext, also when its X25519 point comes in another
\* encoding, which neither X25519KEM nor HybridMLKEM notices.  No other change of
\* the ciphertext and no other key pair gives that secret, not even when only one
\* half of a hybrid differs.  With the stubs and with HybridKEM, whose Decapsulate
\* is a placeholder, the two sides never agree.
KEMAgreement ==
  input.of = "exchange" =>
    LET x == input.it
    IN  Agreement(x.kem, x.maker, x.key, x.opener, x.seal, Arriving(x))

\* The backend an environment selects cannot be used only when the environment
\* itself names or tags one that needs CGO and switches CGO off.
SelectionUsable ==
  input.of = "environment" =>
    LET e == input.it
    IN  ~ValidateBackendType(SelectBackendForEnvironment(e), e.cgo) =>
          ~e.cgo /\ (e.backend \in Backends \/ e.tags # {})

\* The two validators and the capabilities table agree on which backends need
\* CGO, except for the one case that ValidateBackend takes on trust.
ValidatorsAgree ==
  input.of = "environment" =>
    LET e == input.it
        b == DetectBackend(e)
    IN  /\ ValidateBackendType(b, e.cgo) <=> (RequiresCGO(b) => e.cgo)
        /\ (ValidateBackend(e) <=> ValidateBackendType(b, e.cgo))
             <=> ~(e.backend = "luxzmq" /\ ~e.cgo)
=============================================================================
