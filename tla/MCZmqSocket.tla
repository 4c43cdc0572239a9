---------------------------- MODULE MCZmqSocket ----------------------------
(***************************************************************************)
(* Casts for model-checking ZmqSocket: which goroutine calls what.         *)
(***************************************************************************)
EXTENDS ZmqSocket, TLC

CONSTANTS a, b, c

\* A receiver, a sender, and a third goroutine that sends too, watches and closes.
CallsDuplex == a :> RecvOps
            @@ b :> SendOps \cup {"Connect"}
            @@ c :> {"Send", "GetMetrics", "Close"}

\* Two receivers, over a socket that a third goroutine configures and closes.
CallsReceivers == a :> RecvOps
               @@ b :> RecvOps \cup {"GetOption"}
               @@ c :> {"Bind", "Subscribe", "Unsubscribe", "Close"}

\* Two goroutines that close, a receiver, and every kind of call that can block.
CallsClosers == a :> {"Close", "SetOption"}
             @@ b :> {"Close", "Connect", "Send", "Subscribe"}
             @@ c :> {"Recv"}
=============================================================================
