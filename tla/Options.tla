------------------------------ MODULE Options ------------------------------
(***************************************************************************)
(* The options of a transport (qzmq.go): suites, modes, key rotation       *)
(* limits, the presets and validateOptions.  Limits are scaled down: only  *)
(* whether they are zero and how they compare matters.                     *)
(***************************************************************************)
EXTENDS Naturals

KEMs == {"X25519", "MLKEM768", "MLKEM1024", "HybridX25519MLKEM768",
         "HybridX25519MLKEM1024"}
Signs == {"Ed25519", "MLDSA2", "MLDSA3"}
AEADs == {"AES256GCM", "ChaCha20Poly1305"}
Hashes == {"SHA256", "SHA384", "SHA512", "BLAKE3"}
Modes == {"Hybrid", "PQOnly", "Classical"}

Suites == [KEM : KEMs, Sign : Signs, AEAD : AEADs, Hash : Hashes]

\* The zero value of Suite: the first constant of each enumeration.
ZeroSuite == [KEM |-> "X25519", Sign |-> "Ed25519", AEAD |-> "AES256GCM",
              Hash |-> "SHA256"]

\* 2^32 messages, 2^40 bytes, ten minutes; ConservativeOptions has 2^20
\* messages and five minutes.
DefaultRotation == [MaxMessages |-> 2, MaxBytes |-> 2, MaxAge |-> 2]
ConservativeRotation == [DefaultRotation EXCEPT !.MaxMessages = 1, !.MaxAge = 1]
ZeroRotation == [MaxMessages |-> 0, MaxBytes |-> 0, MaxAge |-> 0]

DefaultOptions ==
  [Suite |-> [KEM |-> "HybridX25519MLKEM768", Sign |-> "MLDSA2",
              AEAD |-> "AES256GCM", Hash |-> "SHA256"],
   Mode |-> "Hybrid", KeyRotation |-> DefaultRotation]

ConservativeOptions ==
  [Suite |-> [KEM |-> "MLKEM1024", Sign |-> "MLDSA3",
              AEAD |-> "AES256GCM", Hash |-> "SHA384"],
   Mode |-> "PQOnly", KeyRotation |-> ConservativeRotation]

PerformanceOptions ==
  [Suite |-> [KEM |-> "X25519", Sign |-> "Ed25519",
              AEAD |-> "ChaCha20Poly1305", Hash |-> "BLAKE3"],
   Mode |-> "Classical", KeyRotation |-> DefaultRotation]

Presets == {DefaultOptions, ConservativeOptions, PerformanceOptions}

\* The options a caller can write down.
CallerOptions ==
  Presets \cup [Suite : Suites, Mode : Modes,
                KeyRotation : {ZeroRotation, DefaultRotation}]

\* validateOptions, the refusals: classical algorithms in PQ-only mode.
Valid(o) == o.Mode = "PQOnly" => o.Suite.KEM # "X25519" /\ o.Suite.Sign # "Ed25519"

\* validateOptions, the defaults: a limit left at zero gets its default.
WithDefaults(o) ==
  [o EXCEPT !.KeyRotation =
     [limit \in DOMAIN DefaultRotation |->
        IF @[limit] = 0 THEN DefaultRotation[limit] ELSE @[limit]]]

\* What New makes transports of.
TransportOptions == {WithDefaults(o) : o \in {x \in CallerOptions : Valid(x)}}
=============================================================================
