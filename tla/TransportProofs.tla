-------------------------- MODULE TransportProofs --------------------------
(***************************************************************************)
(* What is proved of Transport for any number of goroutines, sockets and   *)
(* addresses, any assignment of methods and any backends, deaf ones        *)
(* included.                                                               *)
(***************************************************************************)
EXTENDS Transport, RWMutexProofs, FiniteSetTheorems, TLAPS

USE DEF At, Goto

\* Types are inductive together with this: who is about to shut a socket has
\* cancelled it.
Targets ==
  \A p \in Procs : pc[p] \in {"sweepShut", "closing"} => arg[p] \in cancelled
Typed == TypeOK /\ Targets

\* A goroutine between its lock and its unlock is one of the readers, or the
\* writer that no reader is inside with.
Exclusion ==
  \A p \in Procs : pc[p] \in {"sweep", "sweepShut", "unlock"} =>
    IF op[p] \in ReadOps THEN p \in tmu.readers
                         ELSE tmu.writer = p /\ tmu.readers = {}

\* An entry is that of the socket that lives at its address, and until the
\* transport is closed every socket has its entry.
Registry ==
  /\ \A a \in Addrs : sockets[a] # NoSock =>
       sockets[a] \in created /\ addr[sockets[a]] = a
  /\ ~tclosed => \A s \in created : sockets[addr[s]] = s

\* The sockets that the loop of Close has left behind are closed.
Sweeping ==
  \A p \in Procs : pc[p] \in {"sweep", "sweepShut"} =>
    op[p] = "Close" /\ ~tclosed /\ created \ todo \subseteq closed

Inv == Typed /\ Exclusion /\ Registry /\ Sweeping /\ CloseReachesAll /\ CountCoversOpen

-----------------------------------------------------------------------------
(* Types *)

\* The initial state is well typed.
LEMMA InitType == Init => Typed
<1> USE TransportAssumption
<1> SUFFICES ASSUME Init PROVE Typed
  OBVIOUS
<1>1. tmu \in Mutexes(Procs)
  BY UnlockedType DEF Init
<1>2. addr \in [Socks -> Addrs]
  BY DEF Init
<1>3. QED
  BY <1>1, <1>2 DEF Init, Typed, TypeOK, Targets, Nothing

\* The number of registered sockets is a number.
LEMMA RegisteredFinite ==
  ASSUME TypeOK
  PROVE  /\ IsFiniteSet(Registered) /\ IsFiniteSet(created)
         /\ Cardinality(Registered) \in Nat
  BY TransportAssumption, FS_Subset, FS_CardinalityType DEF Registered, TypeOK

\* The lock operations on t.mu keep its type.
LEMMA LockType ==
  ASSUME TypeOK, NEW p \in Procs
  PROVE  {RLock(tmu, p), Announce(tmu, p), RUnlock(tmu, p), Unlock(tmu)}
           \subseteq Mutexes(Procs)
<1>1. tmu \in Mutexes(Procs)
  BY DEF TypeOK
<1>2. QED
  BY <1>1, MutexType

\* Every step keeps the types.
LEMMA StepType == Typed /\ [Next]_vars => Typed'
<1> USE TransportAssumption
<1> SUFFICES ASSUME Typed, [Next]_vars PROVE Typed'
  OBVIOUS
<1> USE DEF Typed, TypeOK, Targets
<1>1. ASSUME NEW p \in Procs, Call(p) PROVE Typed'
  BY <1>1 DEF Call, socks
<1>2. ASSUME NEW p \in Procs, ReadLock(p) \/ WriteLock(p) \/ Return(p) PROVE Typed'
  <2>1. tmu' \in Mutexes(Procs)
    BY <1>2, LockType DEF ReadLock, WriteLock, Return
  <2>2. QED
    BY <1>2, <2>1 DEF ReadLock, WriteLock, Return, socks
<1>3. ASSUME NEW p \in Procs, NewSocket(p) PROVE Typed'
  BY <1>3 DEF NewSocket, FreeAddrs, socks
<1>4. ASSUME NEW p \in Procs, SetOption(p) \/ Stats(p) PROVE Typed'
  BY <1>4 DEF SetOption, Stats, socks
<1>5. ASSUME NEW p \in Procs, GetOption(p) PROVE Typed'
  BY <1>5, RegisteredFinite DEF GetOption, socks
<1>6. ASSUME NEW p \in Procs, CloseBegin(p) PROVE Typed'
  BY <1>6 DEF CloseBegin, Registered, socks
<1>7. ASSUME NEW p \in Procs, SweepCancel(p) PROVE Typed'
  BY <1>7 DEF SweepCancel
<1>8. ASSUME NEW p \in Procs, SweepShut(p) PROVE Typed'
  BY <1>8 DEF SweepShut
<1>9. ASSUME NEW p \in Procs, CloseEnd(p) PROVE Typed'
  BY <1>9 DEF CloseEnd, Nothing, socks
<1>10. ASSUME NEW p \in Procs, Use(p) \/ Finish(p) \/ Interrupted(p) PROVE Typed'
  BY <1>10 DEF Use, Finish, Interrupted, Leave, socks
<1>11. ASSUME NEW p \in Procs, CloseSocket(p) PROVE Typed'
  BY <1>11 DEF CloseSocket
<1>12. ASSUME NEW p \in Procs, ShutSocket(p) PROVE Typed'
  BY <1>12 DEF ShutSocket
<1>13. CASE Drop
  BY <1>13 DEF Drop
<1>14. CASE UNCHANGED vars
  BY <1>14 DEF vars, socks
<1>15. QED
  BY <1>1, <1>2, <1>3, <1>4, <1>5, <1>6, <1>7, <1>8, <1>9, <1>10, <1>11, <1>12,
     <1>13, <1>14 DEF Next, Step, Acquire

\* Every variable of the transport keeps its type, and every socket goes through
\* its life in order.
THEOREM TypeCorrect == Spec => []TypeOK
  BY InitType, StepType, PTL DEF Spec, Typed

-----------------------------------------------------------------------------
(* The lock *)

\* Every step keeps the exclusion: a reader and a writer, or two writers, are
\* never inside together.
LEMMA StepExclusion == Typed /\ Exclusion /\ [Next]_vars => Exclusion'
<1> USE TransportAssumption
<1> SUFFICES ASSUME Typed, Exclusion, [Next]_vars PROVE Exclusion'
  OBVIOUS
<1>t. /\ tmu \in Mutexes(Procs) /\ op \in [Procs -> TransportOps \cup {"none"}]
      /\ pc \in [Procs -> {"idle", "lock", "wait", "sweep", "sweepShut", "unlock",
                           "using", "closing"}]
  BY DEF Typed, TypeOK
<1> USE DEF Exclusion
<1>1. ASSUME NEW p \in Procs, Call(p) PROVE Exclusion'
  BY <1>1, <1>t DEF Call
<1>2. ASSUME NEW p \in Procs, ReadLock(p) PROVE Exclusion'
  BY <1>2, <1>t DEF ReadLock, RLock, Mutexes
<1>3. ASSUME NEW p \in Procs, WriteLock(p) PROVE Exclusion'
  BY <1>3, <1>t DEF WriteLock, CanAnnounce, Announce, Mutexes
<1>4. ASSUME NEW p \in Procs, Return(p) PROVE Exclusion'
  BY <1>4, <1>t DEF Return, RUnlock, Unlock, Mutexes
<1>5. ASSUME NEW p \in Procs,
             \/ NewSocket(p) \/ SetOption(p) \/ Stats(p) \/ GetOption(p) \/ CloseBegin(p)
      PROVE  Exclusion'
  <2>1. /\ IF op[p] \in ReadOps THEN p \in tmu.readers
                                ELSE tmu.writer = p /\ tmu.readers = {}
        /\ \E l \in {"unlock", "sweep"} : pc' = [pc EXCEPT ![p] = l]
        /\ UNCHANGED <<tmu, op>>
    BY <1>5 DEF NewSocket, SetOption, Stats, GetOption, CloseBegin, Inside, HoldsRead,
                HoldsWrite, ReadOps
  <2>2. QED
    BY <2>1, <1>t
<1>6. ASSUME NEW p \in Procs, SweepCancel(p) \/ SweepShut(p) \/ CloseEnd(p)
      PROVE  Exclusion'
  BY <1>6, <1>t DEF SweepCancel, SweepShut, CloseEnd
<1>7. ASSUME NEW p \in Procs,
             Use(p) \/ Finish(p) \/ Interrupted(p) \/ CloseSocket(p) \/ ShutSocket(p)
      PROVE  Exclusion'
  BY <1>7, <1>t DEF Use, Finish, Interrupted, Leave, CloseSocket, ShutSocket
<1>8. CASE Drop \/ UNCHANGED vars
  BY <1>8 DEF Drop, vars
<1>9. QED
  BY <1>1, <1>2, <1>3, <1>4, <1>5, <1>6, <1>7, <1>8 DEF Next, Step, Acquire

\* A writer that has the lock has it alone: nobody else is between lock and
\* unlock.
LEMMA Alone ==
  ASSUME Exclusion, NEW p \in Procs, NEW q \in Procs, HoldsWrite(tmu, p),
         pc[q] \in {"sweep", "sweepShut", "unlock"}
  PROVE  q = p
  BY DEF Exclusion, HoldsWrite

-----------------------------------------------------------------------------
(* The registry *)

\* NewSocket finds the entry of the address it allocates empty: a registered
\* socket is referenced, so that its address is not free.
LEMMA FreeEntry ==
  ASSUME TypeOK, Registry, NEW a \in FreeAddrs
  PROVE  a \in Addrs /\ sockets[a] = NoSock
  BY DEF Registry, FreeAddrs, Referenced, Registered, TypeOK

\* Every step keeps the registry in order.
LEMMA StepRegistry == Typed /\ Registry /\ Sweeping /\ [Next]_vars => Registry'
<1> SUFFICES ASSUME Typed, Registry, Sweeping, [Next]_vars PROVE Registry'
  OBVIOUS
<1>t. /\ TypeOK
      /\ sockets \in [Addrs -> Socks \cup {NoSock}] /\ addr \in [Socks -> Addrs]
      /\ created \subseteq Socks
  BY DEF Typed, TypeOK
<1>1. ASSUME NEW p \in Procs, NewSocket(p) PROVE Registry'
  <2>1. CASE UNCHANGED <<sockets, socks>>
    BY <1>1, <2>1 DEF NewSocket, Registry, socks
  <2>2. ASSUME NEW s \in Socks \ created, NEW a \in FreeAddrs, ~tclosed,
               created' = created \cup {s}, addr' = [addr EXCEPT ![s] = a],
               sockets' = [sockets EXCEPT ![a] = s], tclosed' = tclosed
        PROVE  Registry'
    <3>1. a \in Addrs /\ sockets[a] = NoSock
      BY <1>t, FreeEntry
    <3>2. \A t \in created : t # s /\ addr[t] # a
      BY <2>2, <3>1, <1>t, TransportAssumption DEF Registry
    <3>3. QED
      BY <2>2, <3>1, <3>2, <1>t DEF Registry
  <2>3. QED
    BY <1>1, <2>1, <2>2 DEF NewSocket
<1>2. ASSUME NEW p \in Procs, CloseEnd(p) PROVE Registry'
  BY <1>2 DEF CloseEnd, Nothing, Registry
<1>3. ASSUME UNCHANGED <<tclosed, sockets, created, addr>> PROVE Registry'
  BY <1>3 DEF Registry
<1>4. ASSUME NEW p \in Procs,
             \/ Call(p) \/ ReadLock(p) \/ WriteLock(p) \/ Return(p)
             \/ SetOption(p) \/ Stats(p) \/ GetOption(p)
             \/ CloseBegin(p) \/ SweepCancel(p) \/ SweepShut(p)
             \/ Use(p) \/ Finish(p) \/ Interrupted(p) \/ CloseSocket(p) \/ ShutSocket(p)
      PROVE  UNCHANGED <<tclosed, sockets, created, addr>>
  BY <1>4 DEF Call, ReadLock, WriteLock, Return, SetOption, Stats, GetOption, CloseBegin,
              SweepCancel, SweepShut, Use, Finish, Interrupted, Leave, CloseSocket,
              ShutSocket, socks
<1>5. CASE Drop \/ UNCHANGED vars
  BY <1>3, <1>5 DEF Drop, vars, socks
<1>6. QED
  BY <1>1, <1>2, <1>3, <1>4, <1>5 DEF Next, Step, Acquire

-----------------------------------------------------------------------------
(* Close *)

\* While the transport is open the registered sockets are all there are.
LEMMA AllRegistered == ASSUME TypeOK, Registry, ~tclosed PROVE Registered = created
  BY TransportAssumption DEF TypeOK, Registry, Registered

\* Every step keeps what the loop of Close has achieved: no socket is created
\* while it runs, since it has the lock.
LEMMA StepSweeping ==
  Typed /\ Exclusion /\ Registry /\ Sweeping /\ [Next]_vars => Sweeping'
<1> SUFFICES ASSUME Typed, Exclusion, Registry, Sweeping, [Next]_vars PROVE Sweeping'
  OBVIOUS
<1>t. /\ TypeOK
      /\ pc \in [Procs -> {"idle", "lock", "wait", "sweep", "sweepShut", "unlock",
                           "using", "closing"}]
      /\ op \in [Procs -> TransportOps \cup {"none"}]
  BY DEF Typed, TypeOK
<1> USE DEF Sweeping
<1>1. ASSUME NEW p \in Procs, NewSocket(p) PROVE Sweeping'
  <2>1. \A q \in Procs : q # p => pc[q] \notin {"sweep", "sweepShut", "unlock"}
    BY <1>1, Alone DEF NewSocket, Inside, ReadOps
  <2>2. QED
    BY <1>1, <2>1, <1>t DEF NewSocket
<1>2. ASSUME NEW p \in Procs, CloseBegin(p) PROVE Sweeping'
  <2>1. \A q \in Procs : q # p => pc[q] \notin {"sweep", "sweepShut", "unlock"}
    BY <1>2, Alone DEF CloseBegin, Inside, ReadOps
  <2>2. CASE tclosed
    BY <1>2, <2>1, <2>2, <1>t DEF CloseBegin
  <2>3. CASE ~tclosed
    <3>1. todo' = created /\ op[p] = "Close"
      BY <1>2, <2>3, <1>t, AllRegistered DEF CloseBegin, Inside
    <3>2. pc' = [pc EXCEPT ![p] = "sweep"] /\ UNCHANGED <<tclosed, op, created, closed>>
      BY <1>2, <2>3 DEF CloseBegin, socks
    <3>3. QED
      BY <2>1, <2>3, <3>1, <3>2, <1>t
  <2>4. QED
    BY <2>2, <2>3
<1>3. ASSUME NEW p \in Procs, CloseEnd(p) PROVE Sweeping'
  <2>1. \A q \in Procs : q # p => pc[q] \notin {"sweep", "sweepShut", "unlock"}
    BY <1>3 DEF CloseEnd, Exclusion, ReadOps
  <2>2. QED
    BY <1>3, <2>1, <1>t DEF CloseEnd
<1>4. ASSUME NEW p \in Procs, SweepCancel(p) \/ SweepShut(p) PROVE Sweeping'
  BY <1>4, <1>t DEF SweepCancel, SweepShut
<1>5. ASSUME NEW p \in Procs, ShutSocket(p) PROVE Sweeping'
  BY <1>5, <1>t DEF ShutSocket
<1>6. ASSUME NEW p \in Procs,
             \/ Call(p) \/ ReadLock(p) \/ WriteLock(p) \/ Return(p)
             \/ SetOption(p) \/ Stats(p) \/ GetOption(p)
             \/ Use(p) \/ Finish(p) \/ Interrupted(p) \/ CloseSocket(p)
      PROVE  Sweeping'
  BY <1>6, <1>t DEF Call, ReadLock, WriteLock, Return, SetOption, Stats, GetOption,
                    Use, Finish, Interrupted, Leave, CloseSocket, socks
<1>7. CASE Drop \/ UNCHANGED vars
  BY <1>7 DEF Drop, vars, socks
<1>8. QED
  BY <1>1, <1>2, <1>3, <1>4, <1>5, <1>6, <1>7 DEF Next, Step, Acquire

\* Every step keeps the sockets of a closed transport closed.
LEMMA StepCloseReaches ==
  Typed /\ Sweeping /\ CloseReachesAll /\ [Next]_vars => CloseReachesAll'
<1> SUFFICES ASSUME Typed, Sweeping, CloseReachesAll, [Next]_vars PROVE CloseReachesAll'
  OBVIOUS
<1> USE DEF CloseReachesAll
<1>1. ASSUME NEW p \in Procs, NewSocket(p) PROVE CloseReachesAll'
  BY <1>1 DEF NewSocket, socks
<1>2. ASSUME NEW p \in Procs, CloseEnd(p) PROVE CloseReachesAll'
  BY <1>2 DEF CloseEnd, Sweeping, socks
<1>3. ASSUME NEW p \in Procs,
             \/ Call(p) \/ ReadLock(p) \/ WriteLock(p) \/ Return(p)
             \/ SetOption(p) \/ Stats(p) \/ GetOption(p)
             \/ CloseBegin(p) \/ SweepCancel(p) \/ SweepShut(p)
             \/ Use(p) \/ Finish(p) \/ Interrupted(p) \/ CloseSocket(p) \/ ShutSocket(p)
      PROVE  CloseReachesAll'
  BY <1>3 DEF Call, ReadLock, WriteLock, Return, SetOption, Stats, GetOption, CloseBegin,
              SweepCancel, SweepShut, Use, Finish, Interrupted, Leave, CloseSocket,
              ShutSocket, socks
<1>4. CASE Drop \/ UNCHANGED vars
  BY <1>4 DEF Drop, vars, socks
<1>5. QED
  BY <1>1, <1>2, <1>3, <1>4 DEF Next, Step, Acquire

-----------------------------------------------------------------------------
(* The socket count *)

\* When it is taken, the count covers every socket that is not closed.
LEMMA CountIsEnough ==
  ASSUME TypeOK, Registry, CloseReachesAll
  PROVE  Cardinality(created \ closed) <= Cardinality(Registered)
<1>1. created \ closed \subseteq Registered
  <2>1. CASE tclosed
    BY <2>1 DEF CloseReachesAll
  <2>2. CASE ~tclosed
    BY <2>2, AllRegistered
  <2>3. QED
    BY <2>1, <2>2 DEF TypeOK
<1>2. QED
  BY <1>1, RegisteredFinite, FS_Subset

\* Every step keeps the counts that are about to be returned: sockets are closed
\* meanwhile, but none is created, since who counts has the read lock.
LEMMA StepCount == Inv /\ [Next]_vars => CountCoversOpen'
<1> SUFFICES ASSUME Inv, [Next]_vars PROVE CountCoversOpen'
  OBVIOUS
<1>i. Typed /\ Exclusion /\ Registry /\ Sweeping /\ CloseReachesAll /\ CountCoversOpen
  BY DEF Inv
<1> USE <1>i
<1>t. /\ TypeOK
      /\ pc \in [Procs -> {"idle", "lock", "wait", "sweep", "sweepShut", "unlock",
                           "using", "closing"}]
      /\ op \in [Procs -> TransportOps \cup {"none"}]
      /\ count \in [Procs -> Nat]
  BY DEF Typed, TypeOK
<1>1. ASSUME created' \ closed' \subseteq created \ closed, count' = count,
             \A q \in Procs : pc'[q] = "unlock" /\ op'[q] = "GetOption" =>
                                pc[q] = "unlock" /\ op[q] = "GetOption"
      PROVE  CountCoversOpen'
  <2>1. /\ IsFiniteSet(created \ closed)
        /\ Cardinality(created' \ closed') <= Cardinality(created \ closed)
        /\ Cardinality(created' \ closed') \in Nat
        /\ Cardinality(created \ closed) \in Nat
    BY <1>1, <1>t, RegisteredFinite, FS_Subset, FS_CardinalityType
  <2>2. QED
    BY <1>1, <2>1, <1>t DEF CountCoversOpen
<1>2. ASSUME NEW p \in Procs, NewSocket(p) PROVE CountCoversOpen'
  <2>1. \A q \in Procs : q # p => pc[q] # "unlock"
    BY <1>2, Alone DEF NewSocket, Inside, ReadOps
  <2>2. op[p] # "GetOption" /\ op' = op /\ pc' = [pc EXCEPT ![p] = "unlock"]
    BY <1>2 DEF NewSocket, Inside
  <2>3. QED
    BY <2>1, <2>2, <1>t DEF CountCoversOpen
<1>3. ASSUME NEW p \in Procs, GetOption(p) PROVE CountCoversOpen'
  <2>1. Cardinality(created \ closed) <= Cardinality(Registered)
    BY <1>t, CountIsEnough
  <2>2. /\ count' = [count EXCEPT ![p] = Cardinality(Registered)]
        /\ pc' = [pc EXCEPT ![p] = "unlock"]
        /\ UNCHANGED <<op, created, closed>>
    BY <1>3 DEF GetOption, socks
  <2>3. QED
    BY <2>1, <2>2, <1>t DEF CountCoversOpen
<1>4. ASSUME NEW p \in Procs, Return(p) PROVE CountCoversOpen'
  BY <1>4, <1>t DEF Return, CountCoversOpen, socks
<1>5. ASSUME NEW p \in Procs,
             \/ Call(p) \/ ReadLock(p) \/ WriteLock(p) \/ SetOption(p) \/ Stats(p)
             \/ CloseBegin(p) \/ SweepCancel(p) \/ SweepShut(p) \/ CloseEnd(p)
             \/ Use(p) \/ Finish(p) \/ Interrupted(p) \/ CloseSocket(p) \/ ShutSocket(p)
      PROVE  CountCoversOpen'
  <2>1. created' \ closed' \subseteq created \ closed /\ count' = count
    BY <1>5 DEF Call, ReadLock, WriteLock, SetOption, Stats, CloseBegin, SweepCancel,
                SweepShut, CloseEnd, Use, Finish, Interrupted, Leave, CloseSocket,
                ShutSocket, socks
  <2>2. \A q \in Procs : pc'[q] = "unlock" /\ op'[q] = "GetOption" =>
                           pc[q] = "unlock" /\ op[q] = "GetOption"
    <3>1. CASE CloseEnd(p)
      <4>1. op[p] # "GetOption"
        BY <3>1 DEF CloseEnd, Sweeping
      <4>2. QED
        BY <3>1, <4>1, <1>t DEF CloseEnd
    <3>2. CASE ~CloseEnd(p)
      BY <1>5, <3>2, <1>t DEF Call, ReadLock, WriteLock, SetOption, Stats, CloseBegin,
                  Inside, SweepCancel, SweepShut, Use, Finish, Interrupted, Leave,
                  CloseSocket, ShutSocket
    <3>3. QED
      BY <3>1, <3>2
  <2>3. QED
    BY <1>1, <2>1, <2>2
<1>6. CASE Drop \/ UNCHANGED vars
  BY <1>1, <1>6 DEF Drop, vars, socks
<1>7. QED
  BY <1>2, <1>3, <1>4, <1>5, <1>6 DEF Next, Step, Acquire

-----------------------------------------------------------------------------
(* The theorems *)

\* The initial state satisfies the invariant.
LEMMA InitInv == Init => Inv
  BY InitType DEF Init, Inv, Exclusion, Registry, Sweeping, CloseReachesAll,
                  CountCoversOpen, Nothing

\* The invariant is inductive.
LEMMA StepInv == Inv /\ [Next]_vars => Inv'
<1> SUFFICES ASSUME Inv, [Next]_vars PROVE Inv'
  OBVIOUS
<1>1. Typed /\ Exclusion /\ Registry /\ Sweeping /\ CloseReachesAll
  BY DEF Inv
<1>2. Typed' /\ Exclusion' /\ Registry'
  BY <1>1, StepType, StepExclusion, StepRegistry
<1>3. Sweeping' /\ CloseReachesAll'
  BY <1>1, StepSweeping, StepCloseReaches
<1>4. CountCoversOpen'
  BY StepCount
<1>5. QED
  BY <1>2, <1>3, <1>4 DEF Inv

\* The invariant holds in every behaviour.
THEOREM Invariance == Spec => []Inv
  BY InitInv, StepInv, PTL DEF Spec

\* Once transport.Close has returned, no socket it ever created is open, whoever
\* was creating, using or closing sockets meanwhile.
THEOREM CloseIsComplete == Spec => []CloseReachesAll
<1>1. Inv => CloseReachesAll
  BY DEF Inv
<1>2. QED
  BY <1>1, Invariance, PTL

\* GetOption("socket_count") never returns less than the sockets that are open.
THEOREM CountIsCovering == Spec => []CountCoversOpen
<1>1. Inv => CountCoversOpen
  BY DEF Inv
<1>2. QED
  BY <1>1, Invariance, PTL

\* NewSocket never writes over an entry of the registry, although the entries
\* are keyed by addresses and the collector reuses those.
THEOREM EntriesArePinned == Spec => NoOverwrite
<1>1. Inv /\ [Next]_vars =>
        [\A a \in Addrs : sockets[a] # NoSock =>
            sockets'[a] = sockets[a] \/ tclosed']_vars
  <2> SUFFICES ASSUME Inv, Next, NEW a \in Addrs, sockets[a] # NoSock
               PROVE  sockets'[a] = sockets[a] \/ tclosed'
    BY DEF vars
  <2>t. TypeOK /\ Registry /\ sockets \in [Addrs -> Socks \cup {NoSock}]
    BY DEF Inv, Typed, TypeOK
  <2>1. ASSUME NEW p \in Procs, NewSocket(p) PROVE sockets'[a] = sockets[a]
    <3>1. CASE UNCHANGED sockets
      BY <3>1
    <3>2. ASSUME NEW s \in Socks, NEW b \in FreeAddrs, sockets' = [sockets EXCEPT ![b] = s]
          PROVE  sockets'[a] = sockets[a]
      <4>1. b # a
        BY <2>t, FreeEntry
      <4>2. QED
        BY <3>2, <4>1, <2>t
    <3>3. QED
      BY <2>1, <3>1, <3>2 DEF NewSocket
  <2>2. ASSUME NEW p \in Procs, CloseEnd(p) PROVE tclosed'
    BY <2>2 DEF CloseEnd
  <2>3. ASSUME NEW p \in Procs,
               \/ Call(p) \/ ReadLock(p) \/ WriteLock(p) \/ Return(p)
               \/ SetOption(p) \/ Stats(p) \/ GetOption(p)
               \/ CloseBegin(p) \/ SweepCancel(p) \/ SweepShut(p)
               \/ Use(p) \/ Finish(p) \/ Interrupted(p) \/ CloseSocket(p) \/ ShutSocket(p)
        PROVE  sockets' = sockets
    BY <2>3 DEF Call, ReadLock, WriteLock, Return, SetOption, Stats, GetOption, CloseBegin,
                SweepCancel, SweepShut, Use, Finish, Interrupted, Leave, CloseSocket,
                ShutSocket
  <2>4. CASE Drop
    BY <2>4 DEF Drop
  <2>5. QED
    BY <2>1, <2>2, <2>3, <2>4 DEF Next, Step, Acquire
<1>2. QED
  BY <1>1, Invariance, PTL DEF Spec, NoOverwrite

-----------------------------------------------------------------------------
(* The sockets of a transport live as SocketLife says *)

Life(s) == INSTANCE SocketLife
           WITH Users <- Procs, users <- UsersOf(s),
                cancelled <- s \in cancelled, closed <- s \in closed

\* Whether the transport or the application closes a socket first, and however
\* often: it is shut only when it is cancelled and nobody uses it, and nobody
\* starts to use it afterwards.
THEOREM SocketsLiveSafely ==
  ASSUME NEW s \in Socks
  PROVE  Spec => Life(s)!Safety
<1>1. Init => Life(s)!Init
  BY DEF Init, Life!Init, UsersOf
<1>2. Inv /\ [Next]_vars => [Life(s)!Next]_(Life(s)!vars)
  <2> SUFFICES ASSUME Inv, [Next]_vars PROVE [Life(s)!Next]_(Life(s)!vars)
    OBVIOUS
  <2>t. /\ pc \in [Procs -> {"idle", "lock", "wait", "sweep", "sweepShut", "unlock",
                             "using", "closing"}]
        /\ arg \in [Procs -> Socks \cup {NoSock}]
        /\ Targets
    BY DEF Inv, Typed, TypeOK
  <2>1. ASSUME UsersOf(s)' = UsersOf(s), s \in cancelled' <=> s \in cancelled,
               s \in closed' <=> s \in closed
        PROVE  UNCHANGED Life(s)!vars
    BY <2>1 DEF Life!vars
  <2>2. ASSUME NEW p \in Procs, pc[p] # "using", NEW l, l # "using",
               pc' = [pc EXCEPT ![p] = l],
               arg' = arg \/ \E t : arg' = [arg EXCEPT ![p] = t]
        PROVE  UsersOf(s)' = UsersOf(s)
    BY <2>2, <2>t DEF UsersOf
  <2>3. ASSUME NEW p \in Procs, Use(p) PROVE [Life(s)!Next]_(Life(s)!vars)
    <3>1. PICK t \in held \ closed : arg' = [arg EXCEPT ![p] = t]
      BY <2>3 DEF Use
    <3>2. /\ pc[p] = "idle" /\ pc' = [pc EXCEPT ![p] = "using"]
          /\ UNCHANGED <<cancelled, closed>>
      BY <2>3 DEF Use, socks
    <3>3. CASE t = s
      <4>1. UsersOf(s)' = UsersOf(s) \cup {p} /\ p \notin UsersOf(s)
        BY <3>1, <3>2, <3>3, <2>t DEF UsersOf
      <4>2. Life(s)!Start(p)
        BY <3>1, <3>2, <3>3, <4>1 DEF Life!Start
      <4>3. QED
        BY <4>2 DEF Life!Next
    <3>4. CASE t # s
      <4>1. UsersOf(s)' = UsersOf(s)
        BY <3>1, <3>2, <3>4, <2>t DEF UsersOf
      <4>2. QED
        BY <4>1, <3>2, <2>1
    <3>5. QED
      BY <3>3, <3>4
  <2>4. ASSUME NEW p \in Procs, Finish(p) \/ Interrupted(p)
        PROVE  [Life(s)!Next]_(Life(s)!vars)
    <3>1. /\ pc[p] = "using" /\ pc' = [pc EXCEPT ![p] = "idle"]
          /\ arg' = [arg EXCEPT ![p] = NoSock]
          /\ UNCHANGED <<cancelled, closed>>
      BY <2>4 DEF Finish, Interrupted, Leave, socks
    <3>2. UsersOf(s)' = UsersOf(s) \ {p}
      BY <3>1, <2>t DEF UsersOf
    <3>3. CASE p \in UsersOf(s)
      <4>1. Life(s)!Finish(p)
        BY <3>1, <3>2, <3>3 DEF Life!Finish
      <4>2. QED
        BY <4>1 DEF Life!Next
    <3>4. CASE p \notin UsersOf(s)
      BY <3>1, <3>2, <3>4, <2>1
    <3>5. QED
      BY <3>3, <3>4
  <2>5. ASSUME NEW p \in Procs, SweepCancel(p) \/ CloseSocket(p)
        PROVE  [Life(s)!Next]_(Life(s)!vars)
    <3>1. UsersOf(s)' = UsersOf(s)
      BY <2>2, <2>5 DEF SweepCancel, CloseSocket
    <3>2. closed' = closed /\ \E t : cancelled' = cancelled \cup {t}
      BY <2>5 DEF SweepCancel, CloseSocket
    <3>3. CASE s \in cancelled'
      <4>1. Life(s)!Cancel
        BY <3>1, <3>2, <3>3 DEF Life!Cancel
      <4>2. QED
        BY <4>1 DEF Life!Next
    <3>4. CASE s \notin cancelled'
      BY <3>1, <3>2, <3>4, <2>1
    <3>5. QED
      BY <3>3, <3>4
  <2>6. ASSUME NEW p \in Procs, SweepShut(p) \/ ShutSocket(p)
        PROVE  [Life(s)!Next]_(Life(s)!vars)
    <3>1. UsersOf(s)' = UsersOf(s)
      BY <2>2, <2>6 DEF SweepShut, ShutSocket
    <3>2. /\ cancelled' = cancelled /\ closed' = closed \cup {arg[p]}
          /\ UsersOf(arg[p]) = {} /\ arg[p] \in cancelled
      BY <2>6, <2>t DEF SweepShut, ShutSocket, Targets
    <3>3. CASE arg[p] = s /\ s \notin closed
      <4>1. Life(s)!Shut
        BY <3>1, <3>2, <3>3 DEF Life!Shut
      <4>2. QED
        BY <4>1 DEF Life!Next
    <3>4. CASE ~(arg[p] = s /\ s \notin closed)
      BY <3>1, <3>2, <3>4, <2>1
    <3>5. QED
      BY <3>3, <3>4
  <2>7. ASSUME NEW p \in Procs,
               \/ Call(p) \/ ReadLock(p) \/ WriteLock(p) \/ Return(p) \/ NewSocket(p)
               \/ SetOption(p) \/ Stats(p) \/ GetOption(p) \/ CloseBegin(p) \/ CloseEnd(p)
        PROVE  UNCHANGED Life(s)!vars
    <3>1. UNCHANGED <<arg, cancelled, closed>>
      BY <2>7 DEF Call, ReadLock, WriteLock, Return, NewSocket, SetOption, Stats,
                  GetOption, CloseBegin, CloseEnd, socks
    <3>2. /\ pc[p] # "using"
          /\ \E l : l # "using" /\ pc' = [pc EXCEPT ![p] = l]
      BY <2>7 DEF Call, ReadLock, WriteLock, Return, NewSocket, SetOption, Stats,
                  GetOption, CloseBegin, CloseEnd, Inside
    <3>3. QED
      BY <3>1, <3>2, <2>1, <2>2
  <2>8. CASE Drop \/ UNCHANGED vars
    <3>1. UNCHANGED <<pc, arg, cancelled, closed>>
      BY <2>8 DEF Drop, vars, socks
    <3>2. QED
      BY <3>1, <2>1 DEF UsersOf
  <2>9. QED
    BY <2>3, <2>4, <2>5, <2>6, <2>7, <2>8 DEF Next, Step, Acquire
<1>3. QED
  BY <1>1, <1>2, Invariance, PTL DEF Spec, Life!Safety
-----------------------------------------------------------------------------
(* The safety part of CallsReturn: what a call of the transport waits for. *)

\* The goroutines that have asked for t.mu and not unlocked it, on either side.
Asked == {"wait", "sweep", "sweepShut", "unlock"}
Readers == {p \in Procs : pc[p] \in Asked /\ op[p] \in ReadOps}
Writers == {p \in Procs : pc[p] \in Asked /\ op[p] \notin ReadOps}

\* t.mu is in the state that they have brought about.
LockAgrees == Requests(tmu, Readers, Writers)

\* Every step keeps the agreement.
LEMMA StepLockAgrees == Typed /\ Exclusion /\ LockAgrees /\ [Next]_vars => LockAgrees'
<1> USE TransportAssumption
<1> SUFFICES ASSUME Typed, Exclusion, LockAgrees, [Next]_vars PROVE LockAgrees'
  OBVIOUS
<1>t. /\ tmu \in Mutexes(Procs) /\ op \in [Procs -> TransportOps \cup {"none"}]
      /\ pc \in [Procs -> {"idle", "lock", "wait", "sweep", "sweepShut", "unlock",
                           "using", "closing"}]
  BY DEF Typed, TypeOK
<1>a. Requests(tmu, Readers, Writers)
  BY DEF LockAgrees
<1>1. ASSUME UNCHANGED tmu, Readers' = Readers, Writers' = Writers PROVE LockAgrees'
  BY <1>1, <1>a DEF LockAgrees
<1>2. ASSUME NEW p \in Procs, Call(p) PROVE LockAgrees'
  <2>1. UNCHANGED tmu /\ Readers' = Readers /\ Writers' = Writers
    BY <1>2, <1>t DEF Call, Readers, Writers, Asked
  <2>2. QED
    BY <1>1, <2>1
<1>3. ASSUME NEW p \in Procs, ReadLock(p) PROVE LockAgrees'
  <2>1. p \notin Readers /\ Readers' = Readers \cup {p} /\ Writers' = Writers
    BY <1>3, <1>t DEF ReadLock, Readers, Writers, Asked
  <2>2. tmu' = RLock(tmu, p)
    BY <1>3 DEF ReadLock
  <2>3. QED
    BY <1>a, <1>t, <2>1, <2>2, RequestsChange DEF LockAgrees
<1>4. ASSUME NEW p \in Procs, WriteLock(p) PROVE LockAgrees'
  <2>1. Readers' = Readers /\ Writers' = Writers \cup {p}
    BY <1>4, <1>t DEF WriteLock, Readers, Writers, Asked, ReadOps, WriteOps
  <2>2. CanAnnounce(tmu) /\ tmu' = Announce(tmu, p)
    BY <1>4 DEF WriteLock
  <2>3. QED
    BY <1>a, <1>t, <2>1, <2>2, RequestsChange DEF LockAgrees
<1>5. ASSUME NEW p \in Procs, Return(p) PROVE LockAgrees'
  <2>1. pc[p] = "unlock" /\ pc' = [pc EXCEPT ![p] = "idle"] /\ op' = [op EXCEPT ![p] = "none"]
    BY <1>5 DEF Return
  <2>2. Readers' = Readers \ {p} /\ Writers' = Writers \ {p}
    BY <1>t, <2>1 DEF Readers, Writers, Asked
  <2>3. CASE op[p] \in ReadOps
    <3>1. HoldsRead(tmu, p) /\ tmu' = RUnlock(tmu, p) /\ Writers \ {p} = Writers
      BY <1>5, <2>1, <2>3 DEF Return, Exclusion, HoldsRead, Writers
    <3>2. QED
      BY <1>a, <1>t, <2>2, <3>1, RequestsChange DEF LockAgrees
  <2>4. CASE op[p] \notin ReadOps
    <3>1. HoldsWrite(tmu, p) /\ tmu' = Unlock(tmu) /\ Readers \ {p} = Readers
      BY <1>5, <2>1, <2>4 DEF Return, Exclusion, HoldsWrite, Readers
    <3>2. QED
      BY <1>a, <1>t, <2>2, <3>1, RequestsChange DEF LockAgrees
  <2>5. QED
    BY <2>3, <2>4
\* A goroutine that stays with the lock, or stays away from it.
<1>6. ASSUME NEW p \in Procs, UNCHANGED <<tmu, op>>, NEW l, pc' = [pc EXCEPT ![p] = l],
             pc[p] \in Asked <=> l \in Asked
      PROVE  LockAgrees'
  <2>1. Readers' = Readers /\ Writers' = Writers
    BY <1>6, <1>t DEF Readers, Writers
  <2>2. QED
    BY <1>1, <1>6, <2>1
<1>7. ASSUME NEW p \in Procs,
             \/ NewSocket(p) \/ SetOption(p) \/ Stats(p) \/ GetOption(p) \/ CloseBegin(p)
             \/ SweepCancel(p) \/ SweepShut(p) \/ CloseEnd(p)
      PROVE  LockAgrees'
  <2>1. pc[p] \in Asked /\ UNCHANGED <<tmu, op>>
    BY <1>7 DEF NewSocket, SetOption, Stats, GetOption, CloseBegin, SweepCancel, SweepShut,
                CloseEnd, Inside, Asked
  <2>2. \E l \in Asked : pc' = [pc EXCEPT ![p] = l]
    BY <1>7 DEF NewSocket, SetOption, Stats, GetOption, CloseBegin, SweepCancel, SweepShut,
                CloseEnd, Asked
  <2>3. QED
    BY <1>6, <2>1, <2>2
<1>8. ASSUME NEW p \in Procs,
             Use(p) \/ Finish(p) \/ Interrupted(p) \/ CloseSocket(p) \/ ShutSocket(p)
      PROVE  LockAgrees'
  <2>1. pc[p] \notin Asked /\ UNCHANGED <<tmu, op>>
    BY <1>8 DEF Use, Finish, Interrupted, Leave, CloseSocket, ShutSocket, Asked
  <2>2. \E l : l \notin Asked /\ pc' = [pc EXCEPT ![p] = l]
    BY <1>8 DEF Use, Finish, Interrupted, Leave, CloseSocket, ShutSocket, Asked
  <2>3. QED
    BY <1>6, <2>1, <2>2
<1>9. CASE Drop \/ UNCHANGED vars
  <2>1. UNCHANGED <<tmu, pc, op>>
    BY <1>9 DEF Drop, vars
  <2>2. QED
    BY <1>1, <2>1 DEF Readers, Writers
<1>10. QED
  BY <1>2, <1>3, <1>4, <1>5, <1>7, <1>8, <1>9 DEF Next, Step, Acquire

\* Nobody in the transport's methods waits for anything but another call that can
\* go on or the user of a socket that has been cancelled: with backends that heed
\* the context, Close and whoever queues up behind it are never stuck for good.
THEOREM WaitingIsForTheCancelled == Spec => []WaitsOnlyForCancelled
<1>1. Init => LockAgrees
  BY DEF Init, LockAgrees, Readers, Writers, Asked, Requests, Unlocked
<1>2. Inv /\ LockAgrees => WaitsOnlyForCancelled
  <2> SUFFICES ASSUME Inv, LockAgrees, NEW p \in Procs, Waits(p)
               PROVE  \E q \in Procs : \/ InMethod(q) /\ ~Waits(q)
                                       \/ pc[q] = "using" /\ arg[q] \in cancelled
    BY DEF WaitsOnlyForCancelled
  <2>1. Requests(tmu, Readers, Writers)
    BY DEF LockAgrees
  <2>2. Readers \cup Writers # {}
    <3>1. CASE pc[p] \in Asked
      BY <3>1 DEF Readers, Writers
    <3>2. CASE pc[p] = "lock"
      BY <2>1, <3>2 DEF Waits, CanAnnounce, Requests
    <3>3. QED
      BY <3>1, <3>2 DEF Waits, Asked
  \* Somebody has the lock.
  <2>3. PICK q \in Procs : /\ pc[q] \in Asked
                           /\ IF op[q] \in ReadOps THEN HoldsRead(tmu, q)
                                                   ELSE HoldsWrite(tmu, q)
    <3>1. \/ \E q \in Readers : HoldsRead(tmu, q)
          \/ \E q \in Writers : HoldsWrite(tmu, q)
      BY <2>1, <2>2, SomebodyHolds
    <3>2. QED
      BY <3>1 DEF Readers, Writers
  <2>4. InMethod(q)
    BY <2>3 DEF InMethod, Asked
  <2>5. CASE pc[q] = "sweepShut" /\ UsersOf(arg[q]) # {}
    <3>1. arg[q] \in cancelled
      BY <2>5 DEF Inv, Typed, Targets
    <3>2. QED
      BY <2>5, <3>1 DEF UsersOf
  <2>6. CASE ~(pc[q] = "sweepShut" /\ UsersOf(arg[q]) # {})
    <3>1. ~Waits(q)
      BY <2>3, <2>6 DEF Waits, Inside, Asked
    <3>2. QED
      BY <2>4, <3>1
  <2>7. QED
    BY <2>5, <2>6
<1>3. Inv => Typed /\ Exclusion
  BY DEF Inv
<1>4. QED
  BY <1>1, <1>2, <1>3, Invariance, StepLockAgrees, PTL DEF Spec
=============================================================================
