---------------------------- MODULE SocketLife -----------------------------
(***************************************************************************)
(* What a socket promises about its end of life, whatever its methods do   *)
(* in between: nobody is using the backend when it is shut, nobody starts  *)
(* to use it afterwards, and cancelling the context is enough to get there *)
(* however many users are blocked in it.  ZmqSocket implements this, and   *)
(* Transport is built on it.                                               *)
(***************************************************************************)
CONSTANT Users

VARIABLES users,      \* who is using the backend
          cancelled,  \* the context is cancelled
          closed      \* the socket is closed, for good

vars == <<users, cancelled, closed>>

Init == users = {} /\ cancelled = FALSE /\ closed = FALSE

Start(u) ==
  /\ ~closed
  /\ u \notin users
  /\ users' = users \cup {u}
  /\ UNCHANGED <<cancelled, closed>>

Finish(u) ==
  /\ u \in users
  /\ users' = users \ {u}
  /\ UNCHANGED <<cancelled, closed>>

Cancel ==
  /\ cancelled' = TRUE
  /\ UNCHANGED <<users, closed>>

Shut ==
  /\ cancelled /\ ~closed
  /\ users = {}
  /\ closed' = TRUE
  /\ UNCHANGED <<users, cancelled>>

Next == (\E u \in Users : Start(u) \/ Finish(u)) \/ Cancel \/ Shut

\* What never goes wrong, and what happens in the end.
Safety == Init /\ [][Next]_vars

Spec ==
  /\ Safety
  /\ \A u \in Users : WF_vars(cancelled /\ Finish(u))
  /\ SF_vars(Shut)
=============================================================================
