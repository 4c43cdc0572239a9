------------------------------ MODULE RWMutex ------------------------------
(***************************************************************************)
(* Go's sync.RWMutex as a value.  It is not code of this repository: every *)
(* lock of qzmq (zmqSocket.mu, transport.mu, xchain's mutexes) is one.     *)
(*                                                                         *)
(* A writer first takes the inner mutex and announces itself, which turns  *)
(* away every reader that arrives from then on, and then waits for the     *)
(* readers that were already inside.  Its Unlock lets in all the readers   *)
(* that queued up meanwhile, before the next writer can announce itself.   *)
(***************************************************************************)
CONSTANT NoProc            \* no goroutine: the inner mutex is free

\* A mutex nobody holds: the zero value of sync.RWMutex.
Unlocked == [readers |-> {}, writer |-> NoProc, queued |-> {}]

\* The mutexes that goroutines of the set P can bring about.
Mutexes(P) == [readers : SUBSET P, writer : P \cup {NoProc}, queued : SUBSET P]

\* RLock by p: straight in when no writer is announced, into the queue otherwise.
RLock(m, p) == IF m.writer = NoProc
               THEN [m EXCEPT !.readers = @ \cup {p}]
               ELSE [m EXCEPT !.queued = @ \cup {p}]

\* Lock by p, up to the announcement; CanAnnounce is the inner mutex being free.
CanAnnounce(m) == m.writer = NoProc
Announce(m, p) == [m EXCEPT !.writer = p]

\* p is past its RLock or its Lock.
HoldsRead(m, p) == p \in m.readers
HoldsWrite(m, p) == m.writer = p /\ m.readers = {}

RUnlock(m, p) == [m EXCEPT !.readers = @ \ {p}]
Unlock(m) == [readers |-> m.queued, writer |-> NoProc, queued |-> {}]
=============================================================================
