------------------------- MODULE BackendSelection --------------------------
(***************************************************************************)
(* Which backend an environment selects (backend_selection.go): pure       *)
(* decisions over environment variables.  An environment is a record:      *)
(*                                                                         *)
(*   backend  QZMQ_BACKEND in lower case; "" stands for unset, "?" for a   *)
(*            name that is no backend                                      *)
(*   tags     which of the looked-for names GO_BUILD_TAGS contains         *)
(*   cgo      CGO_ENABLED is not "0"                                       *)
(*   env      QZMQ_ENV, "" for any other value                             *)
(***************************************************************************)
EXTENDS Integers

Backends == {"stub", "pebbe", "luxzmq", "czmq"}

Environments ==
  [backend : Backends \cup {"", "?"}, tags : SUBSET {"stub", "pebbe", "czmq"},
   cgo : BOOLEAN, env : {"production", "development", "test", ""}]

\* Mutant: CGO is not looked at.
AlwaysLuxZMQ(cgo) == "luxzmq"
DefaultBackend(cgo) == IF cgo THEN "luxzmq" ELSE "stub"

\* The first element of order that is in S.
First(order, S) ==
  order[CHOOSE i \in DOMAIN order : order[i] \in S /\ \A j \in 1..i - 1 : order[j] \notin S]

\* The backend named in the environment, or else the first that the build tags
\* name, or else the default.
DetectBackend(e) ==
  IF e.backend \in Backends THEN e.backend
  ELSE IF e.tags # {} THEN First(<<"stub", "pebbe", "czmq">>, e.tags)
  ELSE DefaultBackend(e.cgo)

\* ValidateBackend, of the backend that is detected: luxzmq is taken on trust.
ValidateBackend(e) == DetectBackend(e) \in {"pebbe", "czmq"} => e.cgo

\* Mutant: luxzmq is taken on trust here too.
ValidateTypeTrusting(b, cgo) == b \in {"pebbe", "czmq"} => cgo
ValidateBackendType(b, cgo) == b \in {"pebbe", "luxzmq", "czmq"} => cgo

\* GetBackendCapabilities, as far as another decision depends on it.
RequiresCGO(b) == b # "stub"

\* In production the first that validates, in development and test the stub.
SelectBackendForEnvironment(e) ==
  LET usable == {b \in {"luxzmq", "czmq", "pebbe"} : ValidateBackendType(b, e.cgo)}
  IN  IF e.env = "production" /\ usable # {}
      THEN First(<<"luxzmq", "czmq", "pebbe">>, usable)
      ELSE IF e.env \in {"development", "test"} THEN "stub"
      ELSE DetectBackend(e)
=============================================================================
