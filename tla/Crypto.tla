------------------------------- MODULE Crypto ------------------------------
(***************************************************************************)
(* The key encapsulation mechanisms of crypto.go and mlkem_integration.go, *)
(* symbolically.                                                           *)
(*                                                                         *)
(* A draw from crypto/rand is a number, and 0 is a read that failed: what  *)
(* the code goes on with then is a buffer of zeroes.  An operation of a    *)
(* hybrid takes two draws, one for each part; d is always such a pair.     *)
(* Bytes are sequences of units [kind, key, draw, i]: the i-th unit of     *)
(* what kind makes of a key pair's draw and of a sender's draw.  A secret  *)
(* is the set of the terms that XOR combines in it.                        *)
(*                                                                         *)
(* A KEM is a record of its Go type and the types of its parts.  A key has *)
(* a Go type, which some operations assert, and the parts of a hybrid key. *)
(***************************************************************************)
EXTENDS Integers, Sequences

Simple(t) == [type |-> t, classical |-> "nil", pq |-> "nil"]
NewHybridKEM(classical, pq) == [type |-> "HybridKEM", classical |-> classical, pq |-> pq]
NewHybridMLKEM == [type |-> "HybridMLKEM", classical |-> "X25519KEM", pq |-> "RealMLKEM768"]
NilKEM == Simple("nil")

StubTypes == {"MLKEM768Type", "MLKEM1024Type"}
RealTypes == {"RealMLKEM768", "RealMLKEM1024"}

\* Public key and ciphertext have 32 bytes, 1184 and 1088, and 1568 and 1568:
\* one, two and three units.
Size(t) == CASE t = "X25519KEM" -> 1
             [] t \in {"MLKEM768Type", "RealMLKEM768"} -> 2
             [] t \in {"MLKEM1024Type", "RealMLKEM1024"} -> 3

Units(kind, key, draw, n) ==
  [i \in 1..n |-> [kind |-> kind, key |-> key, draw |-> draw, i |-> i]]
Zeroes(n) == Units("zero", 0, 0, n)
Noise(d, n) == IF d = 0 THEN Zeroes(n) ELSE Units("noise", 0, d, n)

Term(kind, a, b) == {[kind |-> kind, of |-> <<a, b>>]}
XOR(s, t) == (s \ t) \cup (t \ s)

Error == [end |-> "error"]
Panic == [end |-> "panic"]
Ok(pk, sk) == [end |-> "ok", pk |-> pk, sk |-> sk]
Sealed(ct, ss) == [end |-> "ok", ct |-> ct, ss |-> ss]
Opened(ss) == [end |-> "ok", ss |-> ss]

PublicKey(bytes) == [type |-> "publicKey", bytes |-> bytes, parts |-> <<>>]
NilKey == [PublicKey(<<>>) EXCEPT !.type = "nil"]
PrivateKey(t, d) == [type |-> "privateKey", scheme |-> t, draw |-> d, parts |-> <<>>]

-----------------------------------------------------------------------------
(* getKEM *)

\* Mutant: the KEMs that UpdateKEMFactory is meant to install, one day.
GetKEMUpdated(alg) ==
  CASE alg = "X25519" -> Simple("X25519KEM")
    [] alg = "MLKEM768" -> Simple("RealMLKEM768")
    [] alg = "MLKEM1024" -> Simple("RealMLKEM1024")
    [] OTHER -> NewHybridMLKEM

\* getKEM: the hybrid it returns has neither of its two parts set, and the
\* larger hybrid is unknown to it.
GetKEM(alg) ==
  CASE alg = "X25519" -> Simple("X25519KEM")
    [] alg = "MLKEM768" -> Simple("MLKEM768Type")
    [] alg = "MLKEM1024" -> Simple("MLKEM1024Type")
    [] alg = "HybridX25519MLKEM768" -> NewHybridKEM("nil", "nil")
    [] alg = "HybridX25519MLKEM1024" -> NilKEM

-----------------------------------------------------------------------------
(* X25519KEM *)

\* curve25519.X25519: 32 bytes that do not give the zero point, and the same
\* secret on both sides of an exchange.  Draws that make the same public key are
\* one draw.  A public key has several encodings that X25519 takes for it: the top
\* bit is ignored, values beyond the prime are taken, and a component of small order
\* is multiplied away.  The draw of the unit says which, 0 is the one that X25519
\* itself returns, and nothing here looks at it.
X25519(scalar, bytes) ==
  IF Len(bytes) # 1 THEN Error
  ELSE LET point == bytes[1]
       IN  CASE point.kind = "zero" -> Error
             [] point.kind = "X25519KEM" ->
                  Opened(IF scalar < point.key THEN Term("dh", scalar, point.key)
                                               ELSE Term("dh", point.key, scalar))
             [] OTHER -> Opened(Term("dh with nobody", scalar, point.draw))

X25519Public(d) == Units("X25519KEM", d, 0, 1)

X25519Generate(d) ==
  IF d = 0 THEN Error
  ELSE Ok(PublicKey(X25519Public(d)), PrivateKey("X25519KEM", d))

X25519Encapsulate(pk, d) ==
  LET shared == X25519(d, pk.bytes)
  IN  IF d = 0 \/ shared.end = "error" THEN Error
      ELSE Sealed(X25519Public(d), shared.ss)

X25519Decapsulate(sk, ct) == X25519(sk.draw, ct)

-----------------------------------------------------------------------------
(* MLKEM768Type and MLKEM1024Type, the stubs: every result is drawn, no      *)
(* argument is looked at, and a read that fails goes unnoticed.              *)

StubGenerate(t, d) == Ok(PublicKey(Noise(d, Size(t))), PrivateKey(t, d))
StubEncapsulate(t, d) == Sealed(Noise(d, Size(t)), Term("drawn", 0, d))
StubDecapsulate(d) == Opened(Term("drawn", 1, d))

-----------------------------------------------------------------------------
(* RealMLKEM768 and RealMLKEM1024, over the mlkem library.  The library's    *)
(* keys know their scheme: whichever of the two KEMs is asked, the key       *)
(* decides.                                                                  *)

MLKEMPublic(t, d) ==
  [type |-> "mlkemPublicKey", bytes |-> Units(t, d, 0, Size(t)), parts |-> <<>>]

\* ML-KEM answers a ciphertext of the right length that was not made for this
\* key with a secret that nobody else has.
MLKEMOpen(t, key, ct) ==
  LET mine == \E k \in {ct[i].draw : i \in 1..Len(ct)} :
                ct = Units("ct", key, k, Size(t))
  IN  IF Len(ct) # Size(t) THEN Error
      ELSE IF mine THEN Opened(Term(t, key, ct[1].draw))
      ELSE Opened(Term("rejected", key, 0))

RealGenerate(t, d) ==
  IF d = 0 THEN Error
  ELSE Ok(MLKEMPublic(t, d), [PrivateKey(t, d) EXCEPT !.type = "mlkemPrivateKey"])

RealEncapsulate(pk, d) ==
  LET t == pk.bytes[1].kind
      key == pk.bytes[1].key
  IN  IF pk.type # "mlkemPublicKey" \/ d = 0 THEN Error
      ELSE Sealed(Units("ct", key, d, Size(t)), Term(t, key, d))

RealDecapsulate(sk, ct) ==
  IF sk.type # "mlkemPrivateKey" THEN Error ELSE MLKEMOpen(sk.scheme, sk.draw, ct)

-----------------------------------------------------------------------------
(* The part of a hybrid that has type t; a part that was never set is nil.   *)

PartGenerate(t, d) ==
  CASE t = "nil" -> Panic
    [] t = "X25519KEM" -> X25519Generate(d)
    [] t \in StubTypes -> StubGenerate(t, d)
    [] t \in RealTypes -> RealGenerate(t, d)

PartEncapsulate(t, pk, d) ==
  CASE t = "nil" -> Panic
    [] t = "X25519KEM" -> X25519Encapsulate(pk, d)
    [] t \in StubTypes -> StubEncapsulate(t, d)
    [] t \in RealTypes -> RealEncapsulate(pk, d)

PartDecapsulate(t, sk, ct, d) ==
  CASE t = "nil" -> Panic
    [] t = "X25519KEM" -> X25519Decapsulate(sk, ct)
    [] t \in StubTypes -> StubDecapsulate(d)
    [] t \in RealTypes -> RealDecapsulate(sk, ct)

\* The first of two results that is not ok, or else what both together make.
Both(c, q, combined) ==
  IF c.end # "ok" THEN c ELSE IF q.end # "ok" THEN q ELSE combined

-----------------------------------------------------------------------------
(* HybridKEM: keys are concatenated bytes, and Encapsulate passes the two    *)
(* halves on as plain keys.                                                  *)

HybridGenerate(kem, d) ==
  LET c == PartGenerate(kem.classical, d[1])
      q == PartGenerate(kem.pq, d[2])
  IN  Both(c, q, Ok(PublicKey(c.pk.bytes \o q.pk.bytes), PrivateKey("HybridKEM", 0)))

\* The KDF over both secrets makes one secret, which no XOR takes apart.
HybridEncapsulate(kem, pk, d) ==
  LET n == Size(kem.classical)
      Part(from, to) == PublicKey(SubSeq(pk.bytes, from, to))
      c == PartEncapsulate(kem.classical, Part(1, n), d[1])
      q == PartEncapsulate(kem.pq, Part(n + 1, Len(pk.bytes)), d[2])
  IN  IF kem.classical = "nil" \/ kem.pq = "nil" THEN Panic
      ELSE IF Len(pk.bytes) < n + Size(kem.pq) THEN Error
      ELSE Both(c, q, Sealed(c.ct \o q.ct, Term("kdf", d[1], d[2])))

\* Not written yet in the code: 32 zero bytes, whatever the arguments.
HybridDecapsulate == Opened({})

-----------------------------------------------------------------------------
(* HybridMLKEM: a hybrid key keeps its two parts, the secrets are combined   *)
(* by XOR.                                                                   *)

Hybrid(type, key, other) == [key EXCEPT !.type = type, !.parts = <<key, other>>]

HybridMLKEMGenerate(kem, d) ==
  LET c == PartGenerate(kem.classical, d[1])
      q == PartGenerate(kem.pq, d[2])
  IN  Both(c, q, Ok([Hybrid("hybridPublicKey", c.pk, q.pk)
                       EXCEPT !.bytes = @ \o q.pk.bytes],
                    Hybrid("hybridPrivateKey", c.sk, q.sk)))

HybridMLKEMEncapsulate(kem, pk, d) ==
  IF pk.type # "hybridPublicKey" THEN Error
  ELSE LET c == PartEncapsulate(kem.classical, pk.parts[1], d[1])
           q == PartEncapsulate(kem.pq, pk.parts[2], d[2])
       IN  Both(c, q, Sealed(c.ct \o q.ct, XOR(c.ss, q.ss)))

\* Mutant: the tail of the ciphertext is cut to the length it should have.
SplitTolerant(kem, ct) ==
  LET n == Size(kem.classical)
      end == n + Size(kem.pq)
  IN  <<SubSeq(ct, 1, n), SubSeq(ct, n + 1, IF Len(ct) < end THEN Len(ct) ELSE end)>>
\* The ciphertext is split where that of the classical part ends.
SplitCiphertext(kem, ct) ==
  LET n == Size(kem.classical)
  IN  <<SubSeq(ct, 1, n), SubSeq(ct, n + 1, Len(ct))>>

HybridMLKEMDecapsulate(kem, sk, ct, d) ==
  IF sk.type # "hybridPrivateKey" \/ Len(ct) < Size(kem.classical) THEN Error
  ELSE LET split == SplitCiphertext(kem, ct)
           c == PartDecapsulate(kem.classical, sk.parts[1], split[1], d[1])
           q == PartDecapsulate(kem.pq, sk.parts[2], split[2], d[2])
       IN  Both(c, q, Opened(XOR(c.ss, q.ss)))

-----------------------------------------------------------------------------
(* The KEM interface *)

GenerateKeyPair(kem, d) ==
  CASE kem.type = "HybridKEM" -> HybridGenerate(kem, d)
    [] kem.type = "HybridMLKEM" -> HybridMLKEMGenerate(kem, d)
    [] OTHER -> PartGenerate(kem.type, d[1])

Encapsulate(kem, pk, d) ==
  CASE kem.type = "HybridKEM" -> HybridEncapsulate(kem, pk, d)
    [] kem.type = "HybridMLKEM" -> HybridMLKEMEncapsulate(kem, pk, d)
    [] OTHER -> PartEncapsulate(kem.type, pk, d[1])

Decapsulate(kem, sk, ct, d) ==
  CASE kem.type = "HybridKEM" -> HybridDecapsulate
    [] kem.type = "HybridMLKEM" -> HybridMLKEMDecapsulate(kem, sk, ct, d)
    [] OTHER -> PartDecapsulate(kem.type, sk, ct, d[1])
=============================================================================
