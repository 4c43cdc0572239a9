---------------------------- MODULE MCTransport ----------------------------
(***************************************************************************)
(* Casts for model-checking Transport: which goroutine calls what.         *)
(***************************************************************************)
EXTENDS Transport, TLC

CONSTANTS a, b, c, s1, s2, s3

\* Two goroutines that create, use and close sockets, and one that closes the
\* transport and looks at it.
CallsBusy == a :> {"NewSocket", "Use", "CloseSocket"}
          @@ b :> {"NewSocket", "Close"}
          @@ c :> {"GetOption", "Stats", "SetOption"}

\* A user, a goroutine that closes sockets and the transport, an observer.
CallsEnding == a :> {"NewSocket", "Use"}
            @@ b :> {"CloseSocket", "Close"}
            @@ c :> {"Stats"}

OneLife == INSTANCE SocketLife
           WITH Users <- Procs, users <- UsersOf(s1),
                cancelled <- s1 \in cancelled, closed <- s1 \in closed

\* The sockets the transport works with live as SocketLife says, whether the
\* transport or the application closes them first; one stands for all.
SocketLives == OneLife!Spec
=============================================================================
