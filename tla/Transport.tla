----------------------------- MODULE Transport -----------------------------
(***************************************************************************)
(* The transport (qzmq.go): a registry of sockets behind an RWMutex of its *)
(* own.  Goroutines call its methods while others use and close the        *)
(* sockets it created.  A socket is what SocketLife says: it has users, it *)
(* can be cancelled, it is closed once nobody is using it any more.        *)
(*                                                                         *)
(* The registry is keyed by the text of the socket's address ("%p"), so    *)
(* the model has addresses and a garbage collector that hands the address  *)
(* of an unreferenced socket out again.                                    *)
(***************************************************************************)
EXTENDS Integers, FiniteSets, RWMutex

CONSTANTS Procs,     \* goroutines
          Calls,     \* Calls[p]: the methods goroutine p calls
          Socks,     \* bound: the sockets NewSocket can create
          Addrs,     \* bound: addresses of the heap
          NoSock,    \* no socket
          Deaf       \* sockets whose backend ignores the cancelled context

ReadOps == {"GetOption", "Stats"}
WriteOps == {"NewSocket", "SetOption", "Close"}
TransportOps == ReadOps \cup WriteOps
SocketOps == {"Use", "CloseSocket"}

ASSUME TransportAssumption ==
  /\ NoProc \notin Procs /\ NoSock \notin Socks
  /\ IsFiniteSet(Socks) /\ IsFiniteSet(Procs)
  /\ Addrs # {}
  /\ Calls \in [Procs -> SUBSET (TransportOps \cup SocketOps)]
  /\ Deaf \subseteq Socks

VARIABLES tmu,       \* t.mu
          tclosed,   \* t.closed
          sockets,   \* t.sockets: which socket is registered under an address
          created,   \* sockets that exist or have existed
          addr,      \* where each of them lives
          held,      \* the application has a reference to it
          cancelled, \* its context is cancelled
          closed,    \* it is closed
          pc, op,    \* where each goroutine is, and in which method
          arg,       \* the socket it works on
          todo,      \* transport.Close: the sockets its loop has not reached
          count      \* GetOption("socket_count"): the answer

socks == <<created, addr, held, cancelled, closed>>
vars == <<tmu, tclosed, sockets, socks, pc, op, arg, todo, count>>

Nothing == [a \in Addrs |-> NoSock]

\* New: an empty registry, no option set.
Init ==
  /\ tmu = Unlocked
  /\ tclosed = FALSE
  /\ sockets = Nothing
  /\ created = {}
  /\ addr = [s \in Socks |-> CHOOSE a \in Addrs : TRUE]
  /\ held = {}
  /\ cancelled = {}
  /\ closed = {}
  /\ pc = [p \in Procs |-> "idle"]
  /\ op = [p \in Procs |-> "none"]
  /\ arg = [p \in Procs |-> NoSock]
  /\ todo = {}
  /\ count = [p \in Procs |-> 0]

At(p, label) == pc[p] = label
Goto(p, label) == pc' = [pc EXCEPT ![p] = label]

\* The goroutines inside a backend call of s.
UsersOf(s) == {p \in Procs : pc[p] = "using" /\ arg[p] = s}

Registered == {s \in created : \E a \in Addrs : sockets[a] = s}

\* Mutant: the registry does not keep its sockets alive.
WeaklyReferenced(s) == s \in held
\* What keeps a socket from being collected: the application or the registry.
Referenced(s) == s \in held \/ s \in Registered
FreeAddrs == Addrs \ {addr[s] : s \in {t \in created : Referenced(t)}}

-----------------------------------------------------------------------------
(* The lock of the transport *)

Call(p) ==
  /\ At(p, "idle")
  /\ \E o \in Calls[p] \cap TransportOps : op' = [op EXCEPT ![p] = o]
  /\ Goto(p, "lock")
  /\ UNCHANGED <<tmu, tclosed, sockets, socks, arg, todo, count>>

ReadLock(p) ==
  /\ At(p, "lock") /\ op[p] \in ReadOps
  /\ tmu' = RLock(tmu, p)
  /\ Goto(p, "wait")
  /\ UNCHANGED <<tclosed, sockets, socks, op, arg, todo, count>>

WriteLock(p) ==
  /\ At(p, "lock") /\ op[p] \in WriteOps
  /\ CanAnnounce(tmu)
  /\ tmu' = Announce(tmu, p)
  /\ Goto(p, "wait")
  /\ UNCHANGED <<tclosed, sockets, socks, op, arg, todo, count>>

Inside(p, o) ==
  /\ At(p, "wait") /\ op[p] = o
  /\ IF o \in ReadOps THEN HoldsRead(tmu, p) ELSE HoldsWrite(tmu, p)

Return(p) ==
  /\ At(p, "unlock")
  /\ tmu' = IF op[p] \in ReadOps THEN RUnlock(tmu, p) ELSE Unlock(tmu)
  /\ op' = [op EXCEPT ![p] = "none"]
  /\ count' = [count EXCEPT ![p] = 0]
  /\ Goto(p, "idle")
  /\ UNCHANGED <<tclosed, sockets, socks, arg, todo>>

-----------------------------------------------------------------------------
(* The methods *)

\* Mutants: a closed transport still creates; the new socket is not registered.
NewSocketUnchecked(p) ==
  /\ Inside(p, "NewSocket")
  /\ \E s \in Socks \ created, a \in FreeAddrs :
       /\ created' = created \cup {s}
       /\ held' = held \cup {s}
       /\ addr' = [addr EXCEPT ![s] = a]
       /\ sockets' = [sockets EXCEPT ![a] = s]
  /\ Goto(p, "unlock")
  /\ UNCHANGED <<tmu, tclosed, cancelled, closed, op, arg, todo, count>>
NewSocketUntracked(p) ==
  /\ Inside(p, "NewSocket") /\ ~tclosed
  /\ \E s \in Socks \ created, a \in FreeAddrs :
       /\ created' = created \cup {s}
       /\ held' = held \cup {s}
       /\ addr' = [addr EXCEPT ![s] = a]
  /\ Goto(p, "unlock")
  /\ UNCHANGED <<tmu, tclosed, sockets, cancelled, closed, op, arg, todo, count>>

\* NewSocket: refused on a closed transport or when the backend has no such
\* socket type, otherwise allocated and registered under its address.
NewSocket(p) ==
  /\ Inside(p, "NewSocket")
  /\ \/ UNCHANGED <<sockets, socks>>
     \/ /\ ~tclosed
        /\ \E s \in Socks \ created, a \in FreeAddrs :
             /\ created' = created \cup {s}
             /\ held' = held \cup {s}
             /\ addr' = [addr EXCEPT ![s] = a]
             /\ sockets' = [sockets EXCEPT ![a] = s]
        /\ UNCHANGED <<cancelled, closed>>
  /\ Goto(p, "unlock")
  /\ UNCHANGED <<tmu, tclosed, op, arg, todo, count>>

\* SetOption and Stats touch nothing that the other methods read.
SetOption(p) ==
  /\ Inside(p, "SetOption")
  /\ Goto(p, "unlock")
  /\ UNCHANGED <<tmu, tclosed, sockets, socks, op, arg, todo, count>>

Stats(p) ==
  /\ Inside(p, "Stats")
  /\ Goto(p, "unlock")
  /\ UNCHANGED <<tmu, tclosed, sockets, socks, op, arg, todo, count>>

\* GetOption("socket_count"), len(t.sockets); other names change nothing either.
GetOption(p) ==
  /\ Inside(p, "GetOption")
  /\ count' = [count EXCEPT ![p] = Cardinality(Registered)]
  /\ Goto(p, "unlock")
  /\ UNCHANGED <<tmu, tclosed, sockets, socks, op, arg, todo>>

\* Close, first step: done if it was closed before.
CloseBegin(p) ==
  /\ Inside(p, "Close")
  /\ todo' = IF tclosed THEN {} ELSE Registered
  /\ Goto(p, IF tclosed THEN "unlock" ELSE "sweep")
  /\ UNCHANGED <<tmu, tclosed, sockets, socks, op, arg, count>>

\* Mutants: the sweep does not cancel a socket; it does not wait for its users.
SweepWithoutCancel(p) ==
  /\ At(p, "sweep")
  /\ \E s \in todo : arg' = [arg EXCEPT ![p] = s]
  /\ Goto(p, "sweepShut")
  /\ UNCHANGED <<tmu, tclosed, sockets, socks, op, todo, count>>
SweepShutAtOnce(p) ==
  /\ At(p, "sweepShut")
  /\ closed' = closed \cup {arg[p]}
  /\ todo' = todo \ {arg[p]}
  /\ arg' = [arg EXCEPT ![p] = NoSock]
  /\ Goto(p, "sweep")
  /\ UNCHANGED <<tmu, tclosed, sockets, created, addr, held, cancelled, op, count>>

\* Close, the loop: socket.Close of the next entry of the map, in any order.
\* Like every socket.Close it cancels first and then waits for the users.
SweepCancel(p) ==
  /\ At(p, "sweep")
  /\ \E s \in todo :
       /\ cancelled' = cancelled \cup {s}
       /\ arg' = [arg EXCEPT ![p] = s]
  /\ Goto(p, "sweepShut")
  /\ UNCHANGED <<tmu, tclosed, sockets, created, addr, held, closed, op, todo, count>>

SweepShut(p) ==
  /\ At(p, "sweepShut")
  /\ UsersOf(arg[p]) = {}
  /\ closed' = closed \cup {arg[p]}
  /\ todo' = todo \ {arg[p]}
  /\ arg' = [arg EXCEPT ![p] = NoSock]
  /\ Goto(p, "sweep")
  /\ UNCHANGED <<tmu, tclosed, sockets, created, addr, held, cancelled, op, count>>

\* Close, last step: the registry is dropped.
CloseEnd(p) ==
  /\ At(p, "sweep") /\ todo = {}
  /\ sockets' = Nothing
  /\ tclosed' = TRUE
  /\ Goto(p, "unlock")
  /\ UNCHANGED <<tmu, socks, op, arg, todo, count>>

-----------------------------------------------------------------------------
(* The sockets, as SocketLife has them *)

\* A goroutine enters a method of a socket that is not closed.
Use(p) ==
  /\ At(p, "idle") /\ "Use" \in Calls[p]
  /\ \E s \in held \ closed : arg' = [arg EXCEPT ![p] = s]
  /\ Goto(p, "using")
  /\ UNCHANGED <<tmu, tclosed, sockets, socks, op, todo, count>>

Leave(p) ==
  /\ At(p, "using")
  /\ arg' = [arg EXCEPT ![p] = NoSock]
  /\ Goto(p, "idle")
  /\ UNCHANGED <<tmu, tclosed, sockets, socks, op, todo, count>>

\* The method ends, in good time or with an error; the cancelled context makes
\* it end unless the backend is deaf to it.
Finish(p) == arg[p] \notin cancelled \cap (Socks \ Deaf) /\ Leave(p)
Interrupted(p) == arg[p] \in cancelled \ Deaf /\ Leave(p)

\* An application closes a socket itself; the registry is not told.
CloseSocket(p) ==
  /\ At(p, "idle") /\ "CloseSocket" \in Calls[p]
  /\ \E s \in held :
       /\ cancelled' = cancelled \cup {s}
       /\ arg' = [arg EXCEPT ![p] = s]
  /\ Goto(p, "closing")
  /\ UNCHANGED <<tmu, tclosed, sockets, created, addr, held, closed, op, todo, count>>

ShutSocket(p) ==
  /\ At(p, "closing")
  /\ UsersOf(arg[p]) = {}
  /\ closed' = closed \cup {arg[p]}
  /\ arg' = [arg EXCEPT ![p] = NoSock]
  /\ Goto(p, "idle")
  /\ UNCHANGED <<tmu, tclosed, sockets, created, addr, held, cancelled, op, todo, count>>

\* The application forgets a socket it is not using.
Drop ==
  /\ \E s \in held :
       /\ \A p \in Procs : arg[p] # s
       /\ held' = held \ {s}
  /\ UNCHANGED <<tmu, tclosed, sockets, created, addr, cancelled, closed, pc, op,
                 arg, todo, count>>

-----------------------------------------------------------------------------

\* What a goroutine inside a method does of its own accord.
Step(p) ==
  \/ ReadLock(p) \/ Return(p)
  \/ NewSocket(p) \/ SetOption(p) \/ Stats(p) \/ GetOption(p)
  \/ CloseBegin(p) \/ SweepCancel(p) \/ CloseEnd(p) \/ Interrupted(p)

\* Steps that wait for a lock others can keep taking.
Acquire(p) == WriteLock(p) \/ SweepShut(p) \/ ShutSocket(p)

Next ==
  \/ \E p \in Procs : \/ Call(p) \/ Use(p) \/ CloseSocket(p) \/ Finish(p)
                      \/ Step(p) \/ Acquire(p)
  \/ Drop

\* As in ZmqSocket: a goroutine that can run does run, a lock does not pass over
\* a waiter for ever.  Nobody has to call anything, nor to stop using a socket
\* that is not cancelled.
Fairness == \A p \in Procs : WF_vars(Step(p)) /\ SF_vars(Acquire(p))

Spec == Init /\ [][Next]_vars
FairSpec == Spec /\ Fairness

-----------------------------------------------------------------------------
(* Properties *)

\* Every variable has its type, and a socket goes through its life in order:
\* created, cancelled, closed.
TypeOK ==
  /\ tmu \in Mutexes(Procs)
  /\ tclosed \in BOOLEAN
  /\ sockets \in [Addrs -> Socks \cup {NoSock}]
  /\ closed \subseteq cancelled /\ cancelled \subseteq created /\ created \subseteq Socks
  /\ held \subseteq created /\ todo \subseteq created
  /\ addr \in [Socks -> Addrs]
  /\ pc \in [Procs -> {"idle", "lock", "wait", "sweep", "sweepShut", "unlock",
                       "using", "closing"}]
  /\ op \in [Procs -> TransportOps \cup {"none"}]
  /\ arg \in [Procs -> Socks \cup {NoSock}]
  /\ count \in [Procs -> Nat]

\* "Close closes the transport and all sockets": once the transport is closed
\* every socket it ever created is closed, those included that were being
\* created while Close was asked for and those the application has forgotten.
CloseReachesAll == tclosed => created \subseteq closed

\* NewSocket never writes over the entry of another socket, although addresses
\* are reused: an entry goes away with all the others, in Close.
NoOverwrite ==
  [][\A a \in Addrs : sockets[a] # NoSock =>
        sockets'[a] = sockets[a] \/ tclosed']_vars

\* The socket count that GetOption returns covers every socket that is open
\* and reachable through the application.
CountCoversOpen ==
  \A p \in Procs : At(p, "unlock") /\ op[p] = "GetOption" =>
     Cardinality(created \ closed) <= count[p]

\* Who is in a method of the transport, and who of them cannot go on: for want of
\* t.mu, or as a Close whose next socket is in use.
InMethod(p) == pc[p] \notin {"idle", "using", "closing"}
Waits(p) ==
  \/ At(p, "lock") /\ op[p] \in WriteOps /\ ~CanAnnounce(tmu)
  \/ At(p, "wait") /\ ~Inside(p, op[p])
  \/ At(p, "sweepShut") /\ UsersOf(arg[p]) # {}

\* Although Close keeps t.mu while it waits for the users of each socket in turn,
\* a call of the transport never waits for anything but another call that can go
\* on, or for the user of a socket whose context has been cancelled.
WaitsOnlyForCancelled ==
  \A p \in Procs : Waits(p) =>
    \E q \in Procs : \/ InMethod(q) /\ ~Waits(q)
                     \/ At(q, "using") /\ arg[q] \in cancelled

\* Every method of the transport returns: Close although sockets are in use, the
\* others although a Close holds the lock while it waits for those users.
CallsReturn == \A p \in Procs : (op[p] # "none") ~> (op[p] = "none")
=============================================================================
