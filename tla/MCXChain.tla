------------------------------ MODULE MCXChain -----------------------------
(***************************************************************************)
(* A cast for model-checking XChain: a node with a receiver, a submitter   *)
(* and a goroutine that dials its peer once or twice and closes.  The peer *)
(* is one goroutine that does one thing at a time.                         *)
(***************************************************************************)
EXTENDS XChain, TLC

CONSTANTS n1, n2, a, b, c, d

NodeOfAll == a :> n1 @@ b :> n1 @@ c :> n1 @@ d :> n2

CallsAll == a :> {"ReceiveOrder"}
         @@ b :> {"SubmitOrder"}
         @@ c :> {"StartDEX", "Connect", "ConnectToPeers", "Close"}
         @@ d :> {"Listen", "SubmitOrder", "ProposeBlock", "ReceiveOrder"}

SendsAll == n1 :> 2 @@ n2 :> 1
=============================================================================
