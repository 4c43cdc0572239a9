---------------------------- MODULE XChainProofs ---------------------------
(***************************************************************************)
(* What is proved of two X-Chain nodes for any number of goroutines, any   *)
(* assignment of methods to them and any bounds.                           *)
(***************************************************************************)
EXTENDS XChain, RWMutexProofs, SequenceTheorems, TLAPS

USE DEF At, Goto

\* The goroutines of node n between their request of t.mu and its release, and
\* the same for s.mu.
AtTMu(n) == {p \in Procs : /\ NodeOf[p] = n /\ FirstLabel(op[p]) = "tlock"
                           /\ pc[p] \in {"twait", "slock", "swait"}}
AtSMu(n) == {p \in Procs : NodeOf[p] = n /\ pc[p] = "swait"}

\* The mutex m is in the state that the goroutines S have brought about, which
\* are in the methods f[p].
AgreesWith(m, S, f) == Requests(m, {p \in S : Reads(f[p])}, {p \in S : ~Reads(f[p])})

\* So are both locks of a node.
TAgree == \A n \in Nodes : AgreesWith(tmu[n], AtTMu(n), op)
SAgree == \A n \in Nodes : AgreesWith(smu[n], AtSMu(n), op)
LocksAgree == TAgree /\ SAgree

\* A method that has gone on to the socket has t.mu, unless it bypasses it.
Nested ==
  \A p \in Procs : FirstLabel(op[p]) = "tlock" /\ pc[p] \in {"slock", "swait"} =>
    Holds(tmu[NodeOf[p]], p)

\* A goroutine is only where its method can be.
Placed ==
  \A p \in Procs : /\ pc[p] = "cancel" => op[p] = "Close"
                   /\ pc[p] = "tlock" => ~Reads(op[p])
                   /\ pc[p] \in {"tlock", "twait"} => FirstLabel(op[p]) = "tlock"

Inv == TypeOK /\ LocksAgree /\ Nested /\ Placed

-----------------------------------------------------------------------------
(* Types *)

\* The peer of a node is the other one.
LEMMA PeerIsOther ==
  ASSUME NEW n \in Nodes
  PROVE  Peer(n) \in Nodes /\ Peer(n) # n /\ Peer(Peer(n)) = n
  BY XChainAssumption DEF Peer

\* The initial state is well typed.
LEMMA InitType == Init => TypeOK
<1> SUFFICES ASSUME Init PROVE TypeOK
  OBVIOUS
<1>1. tmu \in [Nodes -> Mutexes(Procs)] /\ smu \in [Nodes -> Mutexes(Procs)]
  BY UnlockedType DEF Init
<1>2. <<>> \in Seq(Nat) /\ 0 \in 0..Many
  BY DEF Many
<1>3. QED
  BY <1>1, <1>2 DEF Init, TypeOK, Labels

\* What the methods do with a mutex keeps its type.
LEMMA LockType ==
  ASSUME NEW m \in Mutexes(Procs), NEW p \in Procs, NEW o
  PROVE  /\ Requested(m, p, o) \in Mutexes(Procs)
         /\ Released(m, p) \in Mutexes(Procs)
         /\ Announce(m, p) \in Mutexes(Procs)
  BY MutexType DEF Requested, Released

\* The end of a socket method keeps the types of what it changes.
LEMMA ReturnType ==
  ASSUME TypeOK, NEW p \in Procs, SocketReturns(p)
  PROVE  /\ tmu' \in [Nodes -> Mutexes(Procs)] /\ smu' \in [Nodes -> Mutexes(Procs)]
         /\ pc' \in [Procs -> Labels] /\ op' \in [Procs -> Ops \cup {"none"}]
         /\ left' \in [Procs -> Nat]
<1>1. NodeOf[p] \in Nodes
  BY XChainAssumption
<1>2. /\ Released(tmu[NodeOf[p]], p) \in Mutexes(Procs)
      /\ Released(smu[NodeOf[p]], p) \in Mutexes(Procs)
  BY <1>1, LockType DEF TypeOK
<1>3. tmu' \in [Nodes -> Mutexes(Procs)] /\ smu' \in [Nodes -> Mutexes(Procs)]
  BY <1>1, <1>2 DEF SocketReturns, TypeOK
<1>4. /\ pc' \in [Procs -> Labels] /\ op' \in [Procs -> Ops \cup {"none"}]
      /\ left' \in [Procs -> Nat]
  BY DEF SocketReturns, Remaining, TypeOK, Labels
<1>5. QED
  BY <1>3, <1>4

\* A node's next message is accepted.
LEMMA SendAdds ==
  ASSUME TypeOK, NEW p \in Procs, Send(p)
  PROVE  \E n \in Nodes, no \in Nat, isOrder \in BOOLEAN :
           /\ n = NodeOf[p] /\ no = sends[n] + 1
           /\ outq' = [outq EXCEPT ![n] = @ \cup {[no |-> no, order |-> isOrder]}]
           /\ sends' = [sends EXCEPT ![n] = no]
           /\ submitted' = IF isOrder THEN [submitted EXCEPT ![n] = @ \cup {no}] ELSE submitted
<1>1. NodeOf[p] \in Nodes /\ sends[NodeOf[p]] + 1 \in Nat
  BY XChainAssumption DEF TypeOK
<1>2. PICK isOrder \in BOOLEAN : isOrder <=> op[p] = "SubmitOrder"
  OBVIOUS
<1>3. isOrder = (op[p] = "SubmitOrder")
  BY <1>2, Zenon
<1>4. QED
  BY <1>1, <1>3, Zenon DEF Send

\* Every step keeps the types.
LEMMA StepType == TypeOK /\ [Next]_vars => TypeOK'
<1> SUFFICES ASSUME TypeOK, [Next]_vars PROVE TypeOK'
  OBVIOUS
<1>n. \A p \in Procs : NodeOf[p] \in Nodes
  BY XChainAssumption
<1>m. \A p \in Procs : tmu[NodeOf[p]] \in Mutexes(Procs) /\ smu[NodeOf[p]] \in Mutexes(Procs)
  BY <1>n DEF TypeOK
<1>1. ASSUME NEW p \in Procs, Call(p) PROVE TypeOK'
  <2>1. PICK o \in Calls[p] :
          /\ op' = [op EXCEPT ![p] = o]
          /\ IF FirstLabel(o) = "tlock" /\ CanRequest(tmu[NodeOf[p]], o)
             THEN Goto(p, "twait") /\ tmu' = [tmu EXCEPT ![NodeOf[p]] = Requested(@, p, o)]
             ELSE Goto(p, FirstLabel(o)) /\ UNCHANGED tmu
          /\ \E k \in IF o = "ConnectToPeers" THEN PeerCounts ELSE {0} :
               left' = [left EXCEPT ![p] = k]
    BY <1>1 DEF Call
  <2>2. o \in Ops
    BY XChainAssumption
  <2>3. tmu' \in [Nodes -> Mutexes(Procs)]
    <3>1. Requested(tmu[NodeOf[p]], p, o) \in Mutexes(Procs)
      BY <1>m, LockType
    <3>2. QED
      BY <2>1, <1>n, <3>1 DEF TypeOK
  <2>4. pc' \in [Procs -> Labels]
    BY <2>1 DEF TypeOK, Labels, FirstLabel
  <2>5. op' \in [Procs -> Ops \cup {"none"}] /\ left' \in [Procs -> Nat]
    BY <2>1, <2>2, XChainAssumption DEF TypeOK
  <2>6. QED
    BY <1>1, <2>3, <2>4, <2>5 DEF Call, TypeOK, socket, queues
<1>2. ASSUME NEW p \in Procs, Cancel(p) PROVE TypeOK'
  BY <1>2, <1>n DEF Cancel, TypeOK, Labels, locks, queues
<1>3. ASSUME NEW p \in Procs, TLock(p) PROVE TypeOK'
  <2>1. tmu' \in [Nodes -> Mutexes(Procs)]
    BY <1>3, <1>n, <1>m, LockType DEF TLock, TypeOK
  <2>2. QED
    BY <1>3, <2>1 DEF TLock, TypeOK, Labels, socket, queues
<1>4. ASSUME NEW p \in Procs, Skip(p) PROVE TypeOK'
  <2>1. tmu' \in [Nodes -> Mutexes(Procs)]
    BY <1>4, <1>n, <1>m, LockType DEF Skip, TypeOK
  <2>2. QED
    BY <1>4, <2>1 DEF Skip, TypeOK, Labels, socket, queues
<1>5. ASSUME NEW p \in Procs, SLock(p) PROVE TypeOK'
  <2>1. smu' \in [Nodes -> Mutexes(Procs)]
    BY <1>5, <1>n, <1>m, LockType DEF SLock, TypeOK
  <2>2. QED
    BY <1>5, <2>1 DEF SLock, TypeOK, Labels, socket, queues
<1>6. ASSUME NEW p \in Procs, Refuse(p) \/ BackendError(p) \/ Interrupted(p) PROVE TypeOK'
  BY <1>6, ReturnType DEF Refuse, BackendError, Interrupted, TypeOK, socket, queues
<1>q. /\ outq \in [Nodes -> SUBSET Messages] /\ inbox \in [Nodes -> SUBSET Messages]
      /\ sends \in [Nodes -> Nat] /\ submitted \in [Nodes -> SUBSET Nat]
      /\ got \in [Nodes -> Seq(Nat)]
  BY DEF TypeOK
<1>7. ASSUME NEW p \in Procs, Bind(p) \/ Dial(p) PROVE TypeOK'
  <2>1. SocketReturns(p) /\ UNCHANGED <<cancelled, closed, queues>>
    BY <1>7 DEF Bind, Dial
  <2>2. listening' \in [Nodes -> BOOLEAN] /\ dials' \in [Nodes -> 0..Many]
    <3>1. listening \in [Nodes -> BOOLEAN] /\ dials \in [Nodes -> 0..2] /\ NodeOf[p] \in Nodes
      BY <1>n DEF TypeOK, Many
    <3>2. CASE Bind(p)
      BY <3>1, <3>2 DEF Bind, Many
    <3>3. CASE Dial(p)
      <4>1. /\ listening' = listening
            /\ dials' = [dials EXCEPT ![NodeOf[p]] = IF @ = 2 THEN @ ELSE @ + 1]
        BY <3>3 DEF Dial, Many
      <4>2. (IF dials[NodeOf[p]] = 2 THEN dials[NodeOf[p]] ELSE dials[NodeOf[p]] + 1) \in 0..2
        BY <3>1
      <4>3. QED
        BY <3>1, <4>1, <4>2 DEF Many
    <3>4. QED
      BY <1>7, <3>2, <3>3
  <2>3. QED
    BY <2>1, <2>2, ReturnType DEF TypeOK, queues
<1>8. ASSUME NEW p \in Procs, Send(p) PROVE TypeOK'
  <2>1. SocketReturns(p) /\ UNCHANGED <<socket, inbox, got>>
    BY <1>8 DEF Send
  <2>2. /\ outq' \in [Nodes -> SUBSET Messages]
        /\ sends' \in [Nodes -> Nat] /\ submitted' \in [Nodes -> SUBSET Nat]
    <3>1. PICK n \in Nodes, no \in Nat, isOrder \in BOOLEAN :
            /\ outq' = [outq EXCEPT ![n] = @ \cup {[no |-> no, order |-> isOrder]}]
            /\ sends' = [sends EXCEPT ![n] = no]
            /\ submitted' = IF isOrder THEN [submitted EXCEPT ![n] = @ \cup {no}] ELSE submitted
      BY <1>8, SendAdds
    <3>2. [no |-> no, order |-> isOrder] \in Messages
      BY DEF Messages
    <3>3. QED
      BY <1>q, <3>1, <3>2
  <2>3. QED
    BY <2>1, <2>2, <1>q, ReturnType DEF TypeOK, socket
<1>9. ASSUME NEW p \in Procs, Receive(p) PROVE TypeOK'
  <2>1. SocketReturns(p) /\ UNCHANGED <<socket, outq, sends, submitted>>
    BY <1>9 DEF Receive
  <2>2. PICK msg \in inbox[NodeOf[p]] :
          /\ inbox' = [inbox EXCEPT ![NodeOf[p]] = @ \ {msg}]
          /\ got' = IF IsOrder(msg) THEN [got EXCEPT ![NodeOf[p]] = Append(@, msg.no)] ELSE got
    BY <1>9 DEF Receive, NextIn
  <2>3. msg \in Messages /\ msg.no \in Nat
    BY <1>n, <1>q, <2>2 DEF Messages
  <2>4. Append(got[NodeOf[p]], msg.no) \in Seq(Nat)
    BY <1>n, <1>q, <2>3, AppendProperties
  <2>5. inbox' \in [Nodes -> SUBSET Messages] /\ got' \in [Nodes -> Seq(Nat)]
    BY <1>n, <1>q, <2>2, <2>4
  <2>6. QED
    BY <2>1, <2>5, <1>q, ReturnType DEF TypeOK, socket
<1>10. ASSUME NEW n \in Nodes, Deliver(n) PROVE TypeOK'
  <2>1. outq' \in [Nodes -> SUBSET Messages] /\ inbox' \in [Nodes -> SUBSET Messages]
    <3>1. PICK msg \in outq[n] :
            /\ outq' = [outq EXCEPT ![n] = @ \ {msg}]
            /\ inbox' = [inbox EXCEPT ![Peer(n)] = @ \cup {msg}]
      BY <1>10 DEF Deliver, NextIn
    <3>2. QED
      BY <1>q, <3>1, PeerIsOther
  <2>2. QED
    BY <1>10, <2>1, <1>q DEF Deliver, TypeOK, locks, socket
<1>13. ASSUME NEW p \in Procs, Shut(p) PROVE TypeOK'
  <2>1. SocketReturns(p) /\ UNCHANGED <<cancelled, listening, dials, sends, submitted, got>>
    BY <1>13 DEF Shut
  <2>2. /\ closed' \in [Nodes -> BOOLEAN]
        /\ outq' \in [Nodes -> SUBSET Messages] /\ inbox' \in [Nodes -> SUBSET Messages]
    BY <1>13, <1>n, <1>q DEF Shut, TypeOK
  <2>3. QED
    BY <2>1, <2>2, <1>q, ReturnType DEF TypeOK
<1>11. CASE UNCHANGED vars
  BY <1>11 DEF vars, TypeOK, locks, socket, queues
<1>12. QED
  BY <1>1, <1>2, <1>3, <1>4, <1>5, <1>6, <1>7, <1>8, <1>9, <1>10, <1>11, <1>13 DEF Next, Step

\* Every variable of both nodes keeps its type.
THEOREM TypeCorrect == Spec => []TypeOK
  BY InitType, StepType, PTL DEF Spec

-----------------------------------------------------------------------------
(* The locks *)

\* Only p has moved.
OnlyMoves(p) == \A q \in Procs : q # p => pc'[q] = pc[q] /\ op'[q] = op[q]

\* Then the goroutines at a lock are those that were there, but for p.
LEMMA Membership ==
  ASSUME NEW p \in Procs, OnlyMoves(p), NEW n \in Nodes
  PROVE  AtTMu(n)' \ {p} = AtTMu(n) \ {p} /\ AtSMu(n)' \ {p} = AtSMu(n) \ {p}
  BY DEF OnlyMoves, AtTMu, AtSMu

\* A request of the method o by p, which has none yet, is added to the requests.
LEMMA RequestAdds ==
  ASSUME NEW m \in Mutexes(Procs), NEW p \in Procs, NEW o, NEW R, NEW W,
         Requests(m, R, W), CanRequest(m, o), p \notin R
  PROVE  Requests(Requested(m, p, o), IF Reads(o) THEN R \cup {p} ELSE R,
                                      IF Reads(o) THEN W ELSE W \cup {p})
  BY RequestsChange, XChainAssumption DEF CanRequest, Requested

\* A release by p, which has the lock, takes its request away.
LEMMA ReleaseRemoves ==
  ASSUME NEW m \in Mutexes(Procs), NEW p \in Procs, NEW R, NEW W,
         Requests(m, R, W), Holds(m, p)
  PROVE  Requests(Released(m, p), IF Reads(op[p]) THEN R \ {p} ELSE R,
                                  IF Reads(op[p]) THEN W ELSE W \ {p})
  BY RequestsChange, XChainAssumption DEF Holds, Released

\* Neither takes the lock away from another goroutine.
LEMMA OthersKeep ==
  ASSUME NEW m \in Mutexes(Procs), NEW p \in Procs, NEW q \in Procs, p # q, Holds(m, q)
  PROVE  /\ \A o : CanRequest(m, o) => Holds(Requested(m, p, o), q)
         /\ Holds(m, p) => Holds(Released(m, p), q)
<1>1. /\ HoldsRead(m, q) =>
           /\ HoldsRead(RLock(m, p), q) /\ HoldsRead(Announce(m, p), q)
           /\ HoldsRead(RUnlock(m, p), q) /\ ~HoldsWrite(m, p)
      /\ HoldsWrite(m, q) =>
           /\ HoldsWrite(RLock(m, p), q) /\ ~CanAnnounce(m)
           /\ ~HoldsRead(m, p) /\ ~HoldsWrite(m, p)
  BY HoldersStay, XChainAssumption
<1>2. QED
  BY <1>1 DEF Holds, CanRequest, Requested, Released


\* A lock agrees with the goroutines at it after p has come to it, left it or done
\* neither.
LEMMA AgreementStep ==
  ASSUME NEW m \in Mutexes(Procs), NEW p \in Procs, NEW S, NEW T, NEW g,
         S \ {p} = T \ {p}, \A q \in T : q # p => g[q] = op[q],
         AgreesWith(m, S, op)
  PROVE  /\ (p \in S <=> p \in T) /\ (p \in S => g[p] = op[p]) => AgreesWith(m, T, g)
         /\ p \notin S /\ p \in T /\ CanRequest(m, g[p]) =>
              AgreesWith(Requested(m, p, g[p]), T, g)
         /\ p \in S /\ p \notin T /\ Holds(m, p) => AgreesWith(Released(m, p), T, g)
<1> DEFINE R == {q \in S : Reads(op[q])}
           W == {q \in S : ~Reads(op[q])}
           R2 == {q \in T : Reads(g[q])}
           W2 == {q \in T : ~Reads(g[q])}
<1>1. Requests(m, R, W)
  BY DEF AgreesWith
<1>2. ASSUME p \in S <=> p \in T, p \in S => g[p] = op[p] PROVE AgreesWith(m, T, g)
  <2>1. R2 = R /\ W2 = W
    BY <1>2 DEF Reads
  <2>2. QED
    BY <1>1, <2>1 DEF AgreesWith
<1>3. ASSUME p \notin S, p \in T, CanRequest(m, g[p])
      PROVE  AgreesWith(Requested(m, p, g[p]), T, g)
  <2>1. /\ R2 = IF Reads(g[p]) THEN R \cup {p} ELSE R
        /\ W2 = IF Reads(g[p]) THEN W ELSE W \cup {p}
    BY <1>3 DEF Reads
  <2>2. p \notin R
    BY <1>3
  <2> HIDE DEF R, W
  <2>3. Requests(Requested(m, p, g[p]), IF Reads(g[p]) THEN R \cup {p} ELSE R,
                                        IF Reads(g[p]) THEN W ELSE W \cup {p})
    BY <1>1, <1>3, <2>2, RequestAdds
  <2>4. QED
    BY <2>1, <2>3 DEF AgreesWith
<1>4. ASSUME p \in S, p \notin T, Holds(m, p) PROVE AgreesWith(Released(m, p), T, g)
  <2>1. /\ R2 = IF Reads(op[p]) THEN R \ {p} ELSE R
        /\ W2 = IF Reads(op[p]) THEN W ELSE W \ {p}
    BY <1>4 DEF Reads
  <2> HIDE DEF R, W
  <2>2. Requests(Released(m, p), IF Reads(op[p]) THEN R \ {p} ELSE R,
                                 IF Reads(op[p]) THEN W ELSE W \ {p})
    BY <1>1, <1>4, ReleaseRemoves
  <2>3. QED
    BY <2>1, <2>2 DEF AgreesWith
<1>5. QED
  BY <1>2, <1>3, <1>4

\* t.mu of every node agrees with the goroutines at it, whatever p does with it.
LEMMA TStep ==
  ASSUME TypeOK, TAgree, NEW p \in Procs, OnlyMoves(p),
         LET S == AtTMu(NodeOf[p])
             m == tmu[NodeOf[p]]
         IN  \/ /\ tmu' = tmu
                /\ IF p \in S THEN p \in S' /\ op'[p] = op[p] ELSE p \notin S'
             \/ /\ tmu' = [tmu EXCEPT ![NodeOf[p]] = Requested(@, p, op'[p])]
                /\ p \notin S /\ p \in S' /\ CanRequest(m, op'[p])
             \/ /\ tmu' = [tmu EXCEPT ![NodeOf[p]] = Released(@, p)]
                /\ p \in S /\ p \notin S' /\ Holds(m, p)
  PROVE  TAgree'
<1> SUFFICES ASSUME NEW n \in Nodes PROVE AgreesWith(tmu[n]', AtTMu(n)', op')
  BY DEF TAgree
<1> DEFINE S == AtTMu(n)
           T == AtTMu(n)'
           m == tmu[n]
<1>1. /\ m \in Mutexes(Procs) /\ NodeOf[p] \in Nodes /\ tmu \in [Nodes -> Mutexes(Procs)]
      /\ S \ {p} = T \ {p} /\ (\A q \in T : q # p => op'[q] = op[q])
      /\ AgreesWith(m, S, op)
  BY XChainAssumption, Membership DEF TypeOK, TAgree, OnlyMoves, AtTMu
<1> HIDE DEF m, S, T
<1>2. /\ (p \in S <=> p \in T) /\ (p \in S => op'[p] = op[p]) => AgreesWith(m, T, op')
      /\ p \notin S /\ p \in T /\ CanRequest(m, op'[p]) =>
           AgreesWith(Requested(m, p, op'[p]), T, op')
      /\ p \in S /\ p \notin T /\ Holds(m, p) => AgreesWith(Released(m, p), T, op')
  BY <1>1, AgreementStep
<1>3. CASE n = NodeOf[p]
  BY <1>1, <1>2, <1>3 DEF m, S, T
<1>4. CASE n # NodeOf[p]
  <2>1. p \notin S /\ p \notin T
    BY <1>4 DEF S, T, AtTMu
  <2>2. tmu[n]' = m
    BY <1>1, <1>4 DEF m
  <2>3. QED
    BY <1>2, <2>1, <2>2 DEF T
<1>5. QED
  BY <1>3, <1>4

\* s.mu of every node agrees with the goroutines at it, whatever p does with it.
LEMMA SStep ==
  ASSUME TypeOK, SAgree, NEW p \in Procs, OnlyMoves(p),
         LET S == AtSMu(NodeOf[p])
             m == smu[NodeOf[p]]
         IN  \/ /\ smu' = smu
                /\ IF p \in S THEN p \in S' /\ op'[p] = op[p] ELSE p \notin S'
             \/ /\ smu' = [smu EXCEPT ![NodeOf[p]] = Requested(@, p, op'[p])]
                /\ p \notin S /\ p \in S' /\ CanRequest(m, op'[p])
             \/ /\ smu' = [smu EXCEPT ![NodeOf[p]] = Released(@, p)]
                /\ p \in S /\ p \notin S' /\ Holds(m, p)
  PROVE  SAgree'
<1> SUFFICES ASSUME NEW n \in Nodes PROVE AgreesWith(smu[n]', AtSMu(n)', op')
  BY DEF SAgree
<1> DEFINE S == AtSMu(n)
           T == AtSMu(n)'
           m == smu[n]
<1>1. /\ m \in Mutexes(Procs) /\ NodeOf[p] \in Nodes /\ smu \in [Nodes -> Mutexes(Procs)]
      /\ S \ {p} = T \ {p} /\ (\A q \in T : q # p => op'[q] = op[q])
      /\ AgreesWith(m, S, op)
  BY XChainAssumption, Membership DEF TypeOK, SAgree, OnlyMoves, AtSMu
<1> HIDE DEF m, S, T
<1>2. /\ (p \in S <=> p \in T) /\ (p \in S => op'[p] = op[p]) => AgreesWith(m, T, op')
      /\ p \notin S /\ p \in T /\ CanRequest(m, op'[p]) =>
           AgreesWith(Requested(m, p, op'[p]), T, op')
      /\ p \in S /\ p \notin T /\ Holds(m, p) => AgreesWith(Released(m, p), T, op')
  BY <1>1, AgreementStep
<1>3. CASE n = NodeOf[p]
  BY <1>1, <1>2, <1>3 DEF m, S, T
<1>4. CASE n # NodeOf[p]
  <2>1. p \notin S /\ p \notin T
    BY <1>4 DEF S, T, AtSMu
  <2>2. smu[n]' = m
    BY <1>1, <1>4 DEF m
  <2>3. QED
    BY <1>2, <2>1, <2>2 DEF T
<1>5. QED
  BY <1>3, <1>4

\* Nor does p take t.mu away from a method that has gone on to the socket.
LEMMA NestedStep ==
  ASSUME TypeOK, Nested, NEW p \in Procs, OnlyMoves(p),
         \/ tmu' = tmu
         \/ /\ tmu' = [tmu EXCEPT ![NodeOf[p]] = Requested(@, p, op'[p])]
            /\ CanRequest(tmu[NodeOf[p]], op'[p])
         \/ /\ tmu' = [tmu EXCEPT ![NodeOf[p]] = Released(@, p)]
            /\ Holds(tmu[NodeOf[p]], p),
         FirstLabel(op'[p]) = "tlock" /\ pc'[p] \in {"slock", "swait"} =>
           tmu' = tmu /\ op'[p] = op[p] /\ Holds(tmu[NodeOf[p]], p)
  PROVE  Nested'
<1> SUFFICES ASSUME NEW q \in Procs, FirstLabel(op'[q]) = "tlock",
                    pc'[q] \in {"slock", "swait"}
             PROVE  Holds(tmu[NodeOf[q]], q)'
  BY DEF Nested
<1>1. CASE q = p
  BY <1>1 DEF Holds
<1>2. CASE q # p
  <2> DEFINE m == tmu[NodeOf[q]]
  <2>1. pc'[q] = pc[q] /\ op'[q] = op[q]
    BY <1>2 DEF OnlyMoves
  <2>2. Holds(m, q)
    BY <2>1 DEF Nested
  <2>3. m \in Mutexes(Procs) /\ NodeOf[p] \in Nodes /\ NodeOf[q] \in Nodes
    BY XChainAssumption DEF TypeOK
  <2>4. /\ \A o : CanRequest(m, o) => Holds(Requested(m, p, o), q)
        /\ Holds(m, p) => Holds(Released(m, p), q)
    BY <1>2, <2>2, <2>3, OthersKeep
  <2>5. Holds(tmu'[NodeOf[q]], q)
    <3>1. CASE NodeOf[p] # NodeOf[q] \/ tmu' = tmu
      BY <2>2, <2>3, <3>1 DEF TypeOK
    <3>2. CASE NodeOf[p] = NodeOf[q] /\ tmu' # tmu
      BY <2>3, <2>4, <3>2 DEF TypeOK
    <3>3. QED
      BY <3>1, <3>2
  <2>6. QED
    BY <2>1, <2>5 DEF Holds
<1>3. QED
  BY <1>1, <1>2

\* The end of a socket method leaves both locks in order.
LEMMA ReturnLocks ==
  ASSUME Inv, NEW p \in Procs, InSocket(p), SocketReturns(p)
  PROVE  (LocksAgree /\ Nested)'
<1>1. /\ NodeOf[p] \in Nodes /\ pc[p] = "swait" /\ Holds(smu[NodeOf[p]], p)
      /\ pc \in [Procs -> Labels] /\ op \in [Procs -> Ops \cup {"none"}]
      /\ TypeOK /\ TAgree /\ SAgree /\ Nested
  BY XChainAssumption DEF InSocket, Inv, LocksAgree, TypeOK
<1>2. OnlyMoves(p)
  BY <1>1 DEF SocketReturns, OnlyMoves
<1>3. SAgree'
  <2>1. /\ p \in AtSMu(NodeOf[p]) /\ p \notin AtSMu(NodeOf[p])'
        /\ smu' = [smu EXCEPT ![NodeOf[p]] = Released(@, p)]
    BY <1>1 DEF SocketReturns, AtSMu
  <2>2. QED
    BY <1>1, <1>2, <2>1, SStep
<1>4. CASE left[p] > 1
  <2>1. tmu' = tmu /\ op' = op /\ pc'[p] = "slock"
    BY <1>1, <1>4 DEF SocketReturns
  <2>2. p \in AtTMu(NodeOf[p])' <=> p \in AtTMu(NodeOf[p])
    BY <1>1, <2>1 DEF AtTMu
  <2>3. TAgree'
    BY <1>1, <1>2, <2>1, <2>2, TStep
  <2>4. Nested'
    <3>1. FirstLabel(op[p]) = "tlock" => Holds(tmu[NodeOf[p]], p)
      BY <1>1 DEF Nested
    <3>2. QED
      BY <1>1, <1>2, <2>1, <3>1, NestedStep
  <2>5. QED
    BY <1>3, <2>3, <2>4 DEF LocksAgree
<1>5. CASE ~(left[p] > 1)
  <2>1. /\ pc'[p] = "idle"
        /\ tmu' = IF BypassesTMu(p) THEN tmu ELSE [tmu EXCEPT ![NodeOf[p]] = Released(@, p)]
    BY <1>1, <1>5 DEF SocketReturns
  <2>2. /\ p \notin AtTMu(NodeOf[p])'
        /\ p \in AtTMu(NodeOf[p]) <=> ~BypassesTMu(p)
        /\ ~BypassesTMu(p) => Holds(tmu[NodeOf[p]], p)
    BY <1>1, <2>1 DEF AtTMu, BypassesTMu, Nested
  <2>3. TAgree'
    BY <1>1, <1>2, <2>1, <2>2, TStep
  <2>4. Nested'
    BY <1>1, <1>2, <2>1, <2>2, NestedStep
  <2>5. QED
    BY <1>3, <2>3, <2>4 DEF LocksAgree
<1>6. QED
  BY <1>4, <1>5

\* Every step leaves the goroutines where their methods can be.
LEMMA StepPlaced == Inv /\ [Next]_vars => Placed'
<1> SUFFICES ASSUME Inv, [Next]_vars PROVE Placed'
  OBVIOUS
<1>a. Placed /\ pc \in [Procs -> Labels] /\ op \in [Procs -> Ops \cup {"none"}]
  BY DEF Inv, TypeOK
<1>1. ASSUME NEW p \in Procs, Call(p) PROVE Placed'
  <2>1. PICK o \in Calls[p] :
          /\ op' = [op EXCEPT ![p] = o]
          /\ IF FirstLabel(o) = "tlock" /\ CanRequest(tmu[NodeOf[p]], o)
             THEN Goto(p, "twait")
             ELSE Goto(p, FirstLabel(o))
    BY <1>1 DEF Call
  <2>2. QED
    BY <1>a, <2>1 DEF Placed, FirstLabel, CanRequest
<1>2. ASSUME NEW p \in Procs, OnlyMoves(p), pc'[p] \in {"idle", "slock", "swait"} PROVE Placed'
  BY <1>a, <1>2 DEF Placed, OnlyMoves
<1>3. ASSUME NEW p \in Procs, TLock(p) PROVE Placed'
  BY <1>a, <1>3 DEF TLock, Placed
<1>4. ASSUME NEW p \in Procs, Cancel(p) \/ Skip(p) \/ SLock(p) \/ SocketReturns(p) PROVE Placed'
  <2>1. pc'[p] \in {"idle", "slock", "swait"} /\ OnlyMoves(p)
    BY <1>a, <1>4 DEF Cancel, Skip, SLock, SocketReturns, OnlyMoves
  <2>2. QED
    BY <2>1, <1>2
<1>5. ASSUME UNCHANGED <<pc, op>> PROVE Placed'
  BY <1>a, <1>5 DEF Placed
<1>6. QED
  <2>1. ASSUME NEW p \in Procs, Refuse(p) \/ Bind(p) \/ Dial(p) \/ Send(p) \/ Receive(p)
                                \/ Shut(p) \/ Interrupted(p) \/ BackendError(p)
        PROVE  SocketReturns(p)
    BY <2>1 DEF Refuse, Bind, Dial, Send, Receive, Shut, Interrupted, BackendError
  <2>2. ASSUME NEW n \in Nodes, Deliver(n) PROVE UNCHANGED <<pc, op>>
    BY <2>2 DEF Deliver
  <2>3. UNCHANGED vars => UNCHANGED <<pc, op>>
    BY DEF vars
  <2>4. QED
    BY <1>1, <1>3, <1>4, <1>5, <2>1, <2>2, <2>3 DEF Next, Step

\* Every step leaves the locks in order.
LEMMA StepLocks == Inv /\ [Next]_vars => (LocksAgree /\ Nested)'
<1> SUFFICES ASSUME Inv, [Next]_vars PROVE (LocksAgree /\ Nested)'
  OBVIOUS
<1>a. TypeOK /\ TAgree /\ SAgree /\ Nested /\ Placed
  BY DEF Inv, LocksAgree
<1>b. pc \in [Procs -> Labels] /\ op \in [Procs -> Ops \cup {"none"}]
  BY <1>a DEF TypeOK
<1>1. ASSUME NEW p \in Procs, Call(p) PROVE (LocksAgree /\ Nested)'
  <2>1. PICK o \in Calls[p] :
          /\ op' = [op EXCEPT ![p] = o]
          /\ IF FirstLabel(o) = "tlock" /\ CanRequest(tmu[NodeOf[p]], o)
             THEN Goto(p, "twait") /\ tmu' = [tmu EXCEPT ![NodeOf[p]] = Requested(@, p, o)]
             ELSE Goto(p, FirstLabel(o)) /\ UNCHANGED tmu
    BY <1>1 DEF Call
  <2>2. pc[p] = "idle" /\ smu' = smu /\ op'[p] = o
    BY <1>1, <1>b, <2>1 DEF Call
  <2>3. OnlyMoves(p)
    BY <1>b, <2>1 DEF OnlyMoves
  <2>4. p \notin AtSMu(NodeOf[p]) /\ p \notin AtSMu(NodeOf[p])' /\ p \notin AtTMu(NodeOf[p])
    BY <1>b, <2>1, <2>2 DEF AtSMu, AtTMu, FirstLabel
  <2>5. SAgree'
    BY <1>a, <2>2, <2>3, <2>4, SStep
  <2>6. CASE FirstLabel(o) = "tlock" /\ CanRequest(tmu[NodeOf[p]], o)
    <3>1. pc'[p] = "twait" /\ tmu' = [tmu EXCEPT ![NodeOf[p]] = Requested(@, p, op'[p])]
      BY <1>b, <2>1, <2>2, <2>6
    <3>2. p \in AtTMu(NodeOf[p])'
      BY <2>2, <2>6, <3>1 DEF AtTMu
    <3>3. TAgree'
      BY <1>a, <2>2, <2>3, <2>4, <2>6, <3>1, <3>2, TStep
    <3>4. Nested'
      BY <1>a, <2>2, <2>3, <2>6, <3>1, NestedStep
    <3>5. QED
      BY <2>5, <3>3, <3>4 DEF LocksAgree
  <2>7. CASE ~(FirstLabel(o) = "tlock" /\ CanRequest(tmu[NodeOf[p]], o))
    <3>1. pc'[p] = FirstLabel(o) /\ tmu' = tmu
      BY <1>b, <2>1, <2>7
    <3>2. p \notin AtTMu(NodeOf[p])'
      BY <2>2, <3>1 DEF AtTMu, FirstLabel
    <3>3. TAgree'
      BY <1>a, <2>3, <2>4, <3>1, <3>2, TStep
    <3>4. Nested'
      BY <1>a, <2>2, <2>3, <3>1, NestedStep
    <3>5. QED
      BY <2>5, <3>3, <3>4 DEF LocksAgree
  <2>8. QED
    BY <2>6, <2>7
<1>2. ASSUME NEW p \in Procs, Cancel(p) PROVE (LocksAgree /\ Nested)'
  <2>1. /\ pc[p] = "cancel" /\ pc'[p] = "slock" /\ UNCHANGED <<tmu, smu, op>>
        /\ OnlyMoves(p)
    BY <1>2, <1>b DEF Cancel, locks, OnlyMoves
  <2>2. op[p] = "Close"
    BY <1>a, <2>1 DEF Placed
  <2>3. /\ p \notin AtTMu(NodeOf[p]) /\ p \notin AtTMu(NodeOf[p])'
        /\ p \notin AtSMu(NodeOf[p]) /\ p \notin AtSMu(NodeOf[p])'
        /\ FirstLabel(op'[p]) # "tlock"
    BY <2>1, <2>2 DEF AtTMu, AtSMu, FirstLabel
  <2>4. TAgree'
    BY <1>a, <2>1, <2>3, TStep
  <2>5. SAgree'
    BY <1>a, <2>1, <2>3, SStep
  <2>6. Nested'
    BY <1>a, <2>1, <2>3, NestedStep
  <2>7. QED
    BY <2>4, <2>5, <2>6 DEF LocksAgree
<1>3. ASSUME NEW p \in Procs, TLock(p) PROVE (LocksAgree /\ Nested)'
  <2>1. /\ pc[p] = "tlock" /\ pc'[p] = "twait" /\ UNCHANGED <<smu, op>>
        /\ CanAnnounce(tmu[NodeOf[p]])
        /\ tmu' = [tmu EXCEPT ![NodeOf[p]] = Announce(@, p)]
        /\ OnlyMoves(p)
    BY <1>3, <1>b DEF TLock, OnlyMoves
  <2>2. FirstLabel(op[p]) = "tlock" /\ ~Reads(op[p])
    BY <1>a, <2>1 DEF Placed
  <2>3. /\ tmu' = [tmu EXCEPT ![NodeOf[p]] = Requested(@, p, op'[p])]
        /\ CanRequest(tmu[NodeOf[p]], op'[p])
    BY <2>1, <2>2 DEF Requested, CanRequest
  <2>4. /\ p \notin AtTMu(NodeOf[p]) /\ p \in AtTMu(NodeOf[p])'
        /\ p \notin AtSMu(NodeOf[p]) /\ p \notin AtSMu(NodeOf[p])'
    BY <2>1, <2>2 DEF AtTMu, AtSMu
  <2>5. TAgree'
    BY <1>a, <2>1, <2>3, <2>4, TStep
  <2>6. SAgree'
    BY <1>a, <2>1, <2>4, SStep
  <2>7. Nested'
    BY <1>a, <2>1, <2>3, NestedStep
  <2>8. QED
    BY <2>5, <2>6, <2>7 DEF LocksAgree
<1>4. ASSUME NEW p \in Procs, Skip(p) PROVE (LocksAgree /\ Nested)'
  <2>1. /\ pc[p] = "twait" /\ pc'[p] = "idle" /\ smu' = smu
        /\ Holds(tmu[NodeOf[p]], p)
        /\ tmu' = [tmu EXCEPT ![NodeOf[p]] = Released(@, p)]
        /\ OnlyMoves(p)
    BY <1>4, <1>b DEF Skip, OnlyMoves
  <2>2. FirstLabel(op[p]) = "tlock"
    BY <1>a, <2>1 DEF Placed
  <2>3. /\ p \in AtTMu(NodeOf[p]) /\ p \notin AtTMu(NodeOf[p])'
        /\ p \notin AtSMu(NodeOf[p]) /\ p \notin AtSMu(NodeOf[p])'
    BY <2>1, <2>2 DEF AtTMu, AtSMu
  <2>4. TAgree'
    BY <1>a, <2>1, <2>3, TStep
  <2>5. SAgree'
    BY <1>a, <2>1, <2>3, SStep
  <2>6. Nested'
    BY <1>a, <2>1, NestedStep
  <2>7. QED
    BY <2>4, <2>5, <2>6 DEF LocksAgree
<1>5. ASSUME NEW p \in Procs, SLock(p) PROVE (LocksAgree /\ Nested)'
  <2>1. /\ pc[p] \in {"twait", "slock"} /\ pc'[p] = "swait" /\ UNCHANGED <<tmu, op>>
        /\ pc[p] = "twait" => Holds(tmu[NodeOf[p]], p)
        /\ CanRequest(smu[NodeOf[p]], op'[p])
        /\ smu' = [smu EXCEPT ![NodeOf[p]] = Requested(@, p, op'[p])]
        /\ OnlyMoves(p)
    BY <1>5, <1>b DEF SLock, OnlyMoves
  <2>2. FirstLabel(op[p]) = "tlock" => Holds(tmu[NodeOf[p]], p)
    BY <1>a, <2>1 DEF Nested
  <2>3. /\ p \in AtTMu(NodeOf[p]) <=> p \in AtTMu(NodeOf[p])'
        /\ p \notin AtSMu(NodeOf[p]) /\ p \in AtSMu(NodeOf[p])'
    BY <2>1 DEF AtTMu, AtSMu
  <2>4. TAgree'
    BY <1>a, <2>1, <2>3, TStep
  <2>5. SAgree'
    BY <1>a, <2>1, <2>3, SStep
  <2>6. Nested'
    BY <1>a, <2>1, <2>2, NestedStep
  <2>7. QED
    BY <2>4, <2>5, <2>6 DEF LocksAgree
<1>6. ASSUME NEW p \in Procs, InSocket(p), SocketReturns(p) PROVE (LocksAgree /\ Nested)'
  BY <1>6, ReturnLocks
<1>7. ASSUME UNCHANGED <<tmu, smu, pc, op>> PROVE (LocksAgree /\ Nested)'
  BY <1>7, <1>a DEF LocksAgree, TAgree, SAgree, Nested, AtTMu, AtSMu, AgreesWith, Holds
<1>8. QED
  <2>1. ASSUME NEW p \in Procs, Refuse(p) \/ Bind(p) \/ Dial(p) \/ Send(p) \/ Receive(p)
                                \/ Shut(p) \/ Interrupted(p) \/ BackendError(p)
        PROVE  InSocket(p) /\ SocketReturns(p)
    BY <2>1 DEF Refuse, Bind, Dial, Send, Receive, Shut, Interrupted, BackendError, InBackend
  <2>2. ASSUME NEW n \in Nodes, Deliver(n) PROVE UNCHANGED <<tmu, smu, pc, op>>
    BY <2>2 DEF Deliver, locks
  <2>3. UNCHANGED vars => UNCHANGED <<tmu, smu, pc, op>>
    BY DEF vars, locks
  <2>4. QED
    BY <1>1, <1>2, <1>3, <1>4, <1>5, <1>6, <1>7, <2>1, <2>2, <2>3 DEF Next, Step

\* The initial state satisfies the invariant.
LEMMA InitInv == Init => Inv
<1> SUFFICES ASSUME Init PROVE Inv
  OBVIOUS
<1>1. \A n \in Nodes : AtTMu(n) = {} /\ AtSMu(n) = {}
  BY DEF Init, AtTMu, AtSMu
<1>2. \A f : AgreesWith(Unlocked, {}, f)
  BY DEF AgreesWith, Requests, Unlocked
<1>3. LocksAgree
  BY <1>1, <1>2 DEF Init, LocksAgree, TAgree, SAgree
<1>4. Nested /\ Placed
  BY DEF Init, Nested, Placed
<1>5. QED
  BY <1>3, <1>4, InitType DEF Inv

\* The invariant holds: the locks are always in the state that the goroutines in
\* the methods have brought about, and the methods that have passed t.mu have it.
THEOREM Invariance == Spec => []Inv
<1>1. Inv /\ [Next]_vars => Inv'
  BY StepType, StepLocks, StepPlaced DEF Inv
<1>2. QED
  BY <1>1, InitInv, PTL DEF Spec

\* Of the goroutines at a lock, one has it; at a lock without any, any method can
\* make its request.
LEMMA LockMoves ==
  ASSUME NEW m, NEW S, AgreesWith(m, S, op)
  PROVE  /\ S # {} => \E p \in S : Holds(m, p)
         /\ S = {} => CanAnnounce(m) /\ \A o : CanRequest(m, o)
<1> DEFINE R == {p \in S : Reads(op[p])}
           W == {p \in S : ~Reads(op[p])}
<1>1. Requests(m, R, W)
  BY DEF AgreesWith
<1>2. ASSUME S # {} PROVE \E p \in S : Holds(m, p)
  <2>1. R \cup W # {}
    BY <1>2
  <2> HIDE DEF R, W
  <2>2. (\E p \in R : HoldsRead(m, p)) \/ (\E p \in W : HoldsWrite(m, p))
    BY <1>1, <2>1, SomebodyHolds
  <2>3. QED
    BY <2>2 DEF R, W, Holds
<1>3. ASSUME S = {} PROVE CanAnnounce(m) /\ \A o : CanRequest(m, o)
  BY <1>1, <1>3 DEF Requests, CanAnnounce, CanRequest
<1>4. QED
  BY <1>2, <1>3

\* In no state of either node do all goroutines in its methods wait for its two
\* locks: t.mu and s.mu are nested in one order, and a ReceiveOrder that a writer
\* turned away is let in when that writer is done.
THEOREM LocksAreAcyclic == Spec => []NoLockCycle
<1>1. Inv => NoLockCycle
  <2> SUFFICES ASSUME Inv, NEW n \in Nodes, NEW b \in OfNode(n), pc[b] # "idle"
               PROVE  \E p \in OfNode(n) : pc[p] # "idle" /\ ~LockWait(p)
    BY DEF NoLockCycle
  <2>1. AgreesWith(tmu[n], AtTMu(n), op) /\ AgreesWith(smu[n], AtSMu(n), op)
    BY DEF Inv, LocksAgree, TAgree, SAgree
  <2>2. CASE AtSMu(n) # {}
    <3>1. PICK p \in AtSMu(n) : Holds(smu[n], p)
      BY <2>1, <2>2, LockMoves
    <3>2. QED
      BY <3>1 DEF AtSMu, LockWait, OfNode
  <2>3. CASE AtSMu(n) = {} /\ AtTMu(n) # {}
    <3>1. PICK p \in AtTMu(n) : Holds(tmu[n], p)
      BY <2>1, <2>3, LockMoves
    <3>2. \A o : CanRequest(smu[n], o)
      BY <2>1, <2>3, LockMoves
    <3>3. pc[p] \in {"twait", "slock"} /\ p \in OfNode(n)
      BY <2>3 DEF AtSMu, AtTMu, OfNode
    <3>4. QED
      BY <3>1, <3>2, <3>3 DEF LockWait, OfNode
  <2>4. CASE AtSMu(n) = {} /\ AtTMu(n) = {}
    <3>1. CanAnnounce(tmu[n]) /\ \A o : CanRequest(smu[n], o)
      BY <2>1, <2>4, LockMoves
    <3>2. pc[b] \in {"cancel", "tlock", "slock"}
      BY <2>4 DEF AtSMu, AtTMu, OfNode, Inv, Placed, TypeOK, Labels
    <3>3. ~LockWait(b)
      BY <3>1, <3>2 DEF LockWait, OfNode
    <3>4. QED
      BY <3>3
  <2>5. QED
    BY <2>2, <2>3, <2>4
<1>2. QED
  BY <1>1, Invariance, PTL

-----------------------------------------------------------------------------
(* The orders *)

\* Of k messages that a node has sent, of which sub were orders, the messages w
\* wait at the other node, o are under way to it, and it has returned the orders g:
\* everything is somewhere at most once, and is what it was when it was sent.
Sound(g, w, o, k, sub) ==
  /\ sub \subseteq 1..k
  /\ \A x \in w \cup o : x.no \in 1..k /\ (x.order <=> x.no \in sub)
  /\ \A x \in w, y \in o : x.no # y.no
  /\ \A i \in 1..Len(g) : g[i] \in sub /\ \A x \in w \cup o : g[i] # x.no
  /\ \A i, j \in 1..Len(g) : i < j => g[i] # g[j]

\* What was returned was sent before what waits, and this before what is under way.
Ordered(g, w, o) ==
  /\ \A i, j \in 1..Len(g) : i < j => g[i] < g[j]
  /\ \A i \in 1..Len(g), x \in w \cup o : g[i] < x.no
  /\ \A x \in w, y \in o : x.no < y.no

\* No order is missing.
Kept(g, w, o, sub) ==
  \A no \in sub : (\E i \in 1..Len(g) : g[i] = no) \/ \E x \in w \cup o : x.no = no

\* OrderDelivery, strengthened to the messages that have not been received.
Links(n, m) == (IF listening[m] THEN dials[n] ELSE 0) + (IF listening[n] THEN dials[m] ELSE 0)
DeliveredFrom(m, n) ==
  /\ Sound(got[n], inbox[n], outq[m], sends[m], submitted[m])
  /\ Links(n, m) <= 1 => Ordered(got[n], inbox[n], outq[m])
  /\ ~cancelled[n] /\ ~cancelled[m] => Kept(got[n], inbox[n], outq[m], submitted[m])
Delivered == \A n, m \in Nodes : m # n => DeliveredFrom(m, n)

\* A node is closed by a Close that has cancelled its context.
Closing ==
  \A p \in Procs : op[p] = "Close" /\ pc[p] \in {"slock", "swait"} => cancelled[NodeOf[p]]

\* Messages with the same number are the same.
LEMMA NumberIsOne ==
  ASSUME NEW g, NEW w \in SUBSET Messages, NEW o \in SUBSET Messages, NEW k, NEW sub,
         Sound(g, w, o, k, sub), NEW x \in w \cup o, NEW y \in w \cup o, x.no = y.no
  PROVE  x = y
<1>1. x.order <=> y.order
  BY DEF Sound
<1>2. x \in Messages /\ y \in Messages
  OBVIOUS
<1>3. x = [no |-> x.no, order |-> x.order] /\ x.order \in BOOLEAN
  BY <1>2 DEF Messages
<1>4. y = [no |-> y.no, order |-> y.order] /\ y.order \in BOOLEAN
  BY <1>2 DEF Messages
<1>5. x.order = y.order
  BY <1>1, <1>3, <1>4, Zenon
<1>6. QED
  BY <1>3, <1>4, <1>5

\* Appending to a sequence of numbers.
LEMMA Appended ==
  ASSUME NEW g \in Seq(Nat), NEW no \in Nat
  PROVE  /\ Len(g) \in Nat /\ (\A i \in 1..Len(g) : g[i] \in Nat)
         /\ Len(Append(g, no)) = Len(g) + 1 /\ Append(g, no)[Len(g) + 1] = no
         /\ \A i \in 1..Len(g) : Append(g, no)[i] = g[i]
  BY AppendProperties, LenProperties, ElementOfSeq

\* The next message is sent after all others.
LEMMA SendKeeps ==
  ASSUME NEW g \in Seq(Nat), NEW w \in SUBSET Messages, NEW o \in SUBSET Messages,
         NEW k \in Nat, NEW sub, Sound(g, w, o, k, sub),
         NEW x \in Messages, x.no = k + 1, NEW new, new = IF x.order THEN sub \cup {k + 1} ELSE sub
  PROVE  /\ Sound(g, w, o \cup {x}, k + 1, new)
         /\ Ordered(g, w, o) => Ordered(g, w, o \cup {x})
         /\ Kept(g, w, o, sub) => Kept(g, w, o \cup {x}, new)
<1>1. /\ sub \subseteq 1..k /\ k + 1 \notin sub
      /\ \A y \in w \cup o : y.no \in 1..k /\ (y.order <=> y.no \in sub)
      /\ \A i \in 1..Len(g) : g[i] \in 1..k
  BY DEF Sound
<1>2. Sound(g, w, o \cup {x}, k + 1, new)
  <2>1. new \subseteq 1..(k + 1)
    BY <1>1
  <2>2. \A y \in w \cup (o \cup {x}) : y.no \in 1..(k + 1) /\ (y.order <=> y.no \in new)
    <3>1. x.no \in 1..(k + 1) /\ (x.order <=> x.no \in new)
      BY <1>1
    <3>2. ASSUME NEW y \in w \cup o PROVE y.no \in 1..(k + 1) /\ (y.order <=> y.no \in new)
      BY <1>1
    <3>3. QED
      BY <3>1, <3>2
  <2>3. \A y \in w, z \in o \cup {x} : y.no # z.no
    BY <1>1 DEF Sound
  <2>4. \A i \in 1..Len(g) : g[i] \in new /\ \A y \in w \cup (o \cup {x}) : g[i] # y.no
    BY <1>1 DEF Sound
  <2>5. QED
    BY <2>1, <2>2, <2>3, <2>4 DEF Sound
<1>3. ASSUME Ordered(g, w, o) PROVE Ordered(g, w, o \cup {x})
  BY <1>1, <1>3 DEF Ordered
<1>4. ASSUME Kept(g, w, o, sub) PROVE Kept(g, w, o \cup {x}, new)
  BY <1>4 DEF Kept
<1>5. QED
  BY <1>2, <1>3, <1>4

\* A message that was under way waits, the first one first if they are in order.
LEMMA CarryKeeps ==
  ASSUME NEW g \in Seq(Nat), NEW w \in SUBSET Messages, NEW o \in SUBSET Messages,
         NEW k \in Nat, NEW sub, Sound(g, w, o, k, sub), NEW x \in o
  PROVE  /\ Sound(g, w \cup {x}, o \ {x}, k, sub)
         /\ Ordered(g, w, o) /\ (\A y \in o : x.no <= y.no) => Ordered(g, w \cup {x}, o \ {x})
         /\ Kept(g, w, o, sub) => Kept(g, w \cup {x}, o \ {x}, sub)
<1>1. (w \cup {x}) \cup (o \ {x}) = w \cup o
  OBVIOUS
<1>2. \A y \in o \ {x} : y.no # x.no
  BY NumberIsOne
<1>3. \A y \in w \cup o : y.no \in 1..k
  BY DEF Sound
<1>4. Sound(g, w \cup {x}, o \ {x}, k, sub)
  BY <1>1, <1>2 DEF Sound
<1>5. ASSUME Ordered(g, w, o), \A y \in o : x.no <= y.no PROVE Ordered(g, w \cup {x}, o \ {x})
  <2>1. \A y \in o \ {x} : x.no < y.no
    BY <1>2, <1>3, <1>5
  <2>2. QED
    BY <1>1, <1>5, <2>1 DEF Ordered
<1>6. ASSUME Kept(g, w, o, sub) PROVE Kept(g, w \cup {x}, o \ {x}, sub)
  BY <1>1, <1>6 DEF Kept
<1>7. QED
  BY <1>4, <1>5, <1>6

\* A message that waited is returned if it is an order, the first one first if they
\* are in order, and otherwise thrown away.
LEMMA TakeKeeps ==
  ASSUME NEW g \in Seq(Nat), NEW w \in SUBSET Messages, NEW o \in SUBSET Messages,
         NEW k \in Nat, NEW sub, Sound(g, w, o, k, sub), NEW x \in w,
         NEW h, h = IF x.order THEN Append(g, x.no) ELSE g
  PROVE  /\ Sound(h, w \ {x}, o, k, sub)
         /\ Ordered(g, w, o) /\ (\A y \in w : x.no <= y.no) => Ordered(h, w \ {x}, o)
         /\ Kept(g, w, o, sub) => Kept(h, w \ {x}, o, sub)
<1>1. x.no \in Nat /\ (x.order <=> x.no \in sub)
  BY DEF Sound, Messages
<1>2. \A y \in (w \ {x}) \cup o : y.no # x.no /\ y.no \in 1..k
  <2>1. \A y \in o : y.no # x.no
    BY DEF Sound
  <2>2. \A y \in w \ {x} : y.no # x.no
    BY NumberIsOne
  <2>3. QED
    BY <2>1, <2>2 DEF Sound
<1>3. CASE ~x.order
  <2>1. h = g
    BY <1>3
  <2>2. Sound(g, w \ {x}, o, k, sub)
    BY DEF Sound
  <2>3. Ordered(g, w, o) => Ordered(g, w \ {x}, o)
    BY DEF Ordered
  <2>4. Kept(g, w, o, sub) => Kept(g, w \ {x}, o, sub)
    BY <1>1, <1>3 DEF Kept
  <2>5. QED
    BY <2>1, <2>2, <2>3, <2>4
<1>4. CASE x.order
  <2> DEFINE N == Len(g)
  <2>1. /\ N \in Nat /\ Len(h) = N + 1 /\ h[N + 1] = x.no
        /\ \A i \in 1..N : h[i] = g[i] /\ g[i] \in Nat
    BY <1>1, <1>4, Appended
  <2>2. \A i \in 1..(N + 1) : i \in 1..N \/ i = N + 1
    BY <2>1
  <2>3. \A i \in 1..N : g[i] \in sub /\ \A y \in w \cup o : g[i] # y.no
    BY DEF Sound
  <2>4. Sound(h, w \ {x}, o, k, sub)
    <3>1. \A i \in 1..(N + 1) : h[i] \in sub /\ \A y \in (w \ {x}) \cup o : h[i] # y.no
      BY <1>1, <1>2, <1>4, <2>1, <2>2, <2>3
    <3>2. ASSUME NEW i \in 1..(N + 1), NEW j \in 1..(N + 1), i < j PROVE h[i] # h[j]
      <4>1. i \in 1..N
        BY <2>1, <3>2
      <4>2. CASE j = N + 1
        BY <2>1, <2>3, <4>1, <4>2
      <4>3. CASE j \in 1..N
        BY <2>1, <3>2, <4>1, <4>3 DEF Sound
      <4>4. QED
        BY <2>2, <4>2, <4>3
    <3>3. QED
      BY <2>1, <3>1, <3>2 DEF Sound
  <2>5. ASSUME Ordered(g, w, o), \A y \in w : x.no <= y.no PROVE Ordered(h, w \ {x}, o)
    <3>1. \A i \in 1..N : g[i] < x.no
      BY <2>5 DEF Ordered
    <3>2. ASSUME NEW i \in 1..(N + 1), NEW j \in 1..(N + 1), i < j PROVE h[i] < h[j]
      <4>1. i \in 1..N
        BY <2>1, <3>2
      <4>2. CASE j = N + 1
        BY <2>1, <3>1, <4>1, <4>2
      <4>3. CASE j \in 1..N
        BY <2>1, <2>5, <3>2, <4>1, <4>3 DEF Ordered
      <4>4. QED
        BY <2>2, <4>2, <4>3
    <3>3. \A y \in (w \ {x}) \cup o : x.no < y.no
      <4>1. \A y \in o : x.no < y.no
        BY <2>5 DEF Ordered
      <4>2. \A y \in w \ {x} : x.no < y.no
        BY <1>1, <1>2, <2>5
      <4>3. QED
        BY <4>1, <4>2
    <3>4. ASSUME NEW i \in 1..(N + 1), NEW y \in (w \ {x}) \cup o PROVE h[i] < y.no
      <4>1. CASE i = N + 1
        BY <2>1, <3>3, <4>1
      <4>2. CASE i \in 1..N
        BY <2>1, <2>5, <4>2 DEF Ordered
      <4>3. QED
        BY <2>2, <4>1, <4>2
    <3>5. \A y \in w \ {x}, z \in o : y.no < z.no
      BY <2>5 DEF Ordered
    <3>6. QED
      BY <2>1, <3>2, <3>4, <3>5 DEF Ordered
  <2>6. ASSUME Kept(g, w, o, sub) PROVE Kept(h, w \ {x}, o, sub)
    <3> SUFFICES ASSUME NEW no \in sub
                 PROVE  (\E i \in 1..Len(h) : h[i] = no) \/ \E y \in (w \ {x}) \cup o : y.no = no
      BY DEF Kept
    <3>1. (\E i \in 1..N : g[i] = no) \/ \E y \in w \cup o : y.no = no
      BY <2>6 DEF Kept
    <3>2. CASE \E i \in 1..N : g[i] = no
      BY <2>1, <3>2
    <3>3. CASE x.no = no
      BY <2>1, <3>3
    <3>4. CASE \E y \in (w \ {x}) \cup o : y.no = no
      BY <3>4
    <3>5. QED
      BY <3>1, <3>2, <3>3, <3>4
  <2>7. QED
    BY <2>4, <2>5, <2>6
<1>5. QED
  BY <1>3, <1>4

\* What is dropped is only missing.
LEMMA DropKeeps ==
  ASSUME NEW g, NEW w, NEW o, NEW k, NEW sub, Sound(g, w, o, k, sub)
  PROVE  /\ Sound(g, {}, o, k, sub) /\ Sound(g, w, {}, k, sub)
         /\ Ordered(g, w, o) => Ordered(g, {}, o) /\ Ordered(g, w, {})
<1>1. Sound(g, {}, o, k, sub) /\ Sound(g, w, {}, k, sub)
  BY DEF Sound
<1>2. Ordered(g, w, o) => Ordered(g, {}, o) /\ Ordered(g, w, {})
  BY DEF Ordered
<1>3. QED
  BY <1>1, <1>2

\* Only Cancel brings a Close to the socket.
LEMMA StepClosing == Inv /\ Closing /\ [Next]_vars => Closing'
<1> SUFFICES ASSUME Inv, Closing, [Next]_vars PROVE Closing'
  OBVIOUS
<1>a. /\ Placed /\ pc \in [Procs -> Labels] /\ op \in [Procs -> Ops \cup {"none"}]
      /\ cancelled \in [Nodes -> BOOLEAN] /\ \A p \in Procs : NodeOf[p] \in Nodes
  BY XChainAssumption DEF Inv, TypeOK
<1>1. ASSUME NEW p \in Procs, Call(p) PROVE Closing'
  <2>1. PICK o \in Calls[p] :
          /\ op' = [op EXCEPT ![p] = o]
          /\ IF FirstLabel(o) = "tlock" /\ CanRequest(tmu[NodeOf[p]], o)
             THEN Goto(p, "twait")
             ELSE Goto(p, FirstLabel(o))
    BY <1>1 DEF Call
  <2>2. cancelled' = cancelled
    BY <1>1 DEF Call, socket
  <2>3. o = "Close" => pc'[p] = "cancel"
    BY <1>a, <2>1 DEF FirstLabel
  <2>4. QED
    BY <1>a, <2>1, <2>2, <2>3 DEF Closing
<1>2. ASSUME NEW p \in Procs, Cancel(p) PROVE Closing'
  BY <1>a, <1>2 DEF Cancel, Closing
<1>3. ASSUME NEW p \in Procs, TLock(p) PROVE Closing'
  BY <1>a, <1>3 DEF TLock, Closing, socket
<1>4. ASSUME NEW p \in Procs, SLock(p) PROVE Closing'
  <2>1. pc[p] = "twait" => op[p] # "Close"
    BY <1>a DEF Placed, FirstLabel
  <2>2. QED
    BY <1>a, <1>4, <2>1 DEF SLock, Closing, socket
<1>5. ASSUME NEW p \in Procs, Skip(p) PROVE Closing'
  BY <1>a, <1>5 DEF Skip, Closing, socket
<1>6. ASSUME NEW p \in Procs, At(p, "swait"), SocketReturns(p), cancelled' = cancelled
      PROVE  Closing'
  BY <1>a, <1>6 DEF SocketReturns, Closing
<1>7. ASSUME UNCHANGED <<pc, op, cancelled>> PROVE Closing'
  BY <1>7 DEF Closing
<1>8. QED
  <2>1. ASSUME NEW p \in Procs, Refuse(p) \/ Bind(p) \/ Dial(p) \/ Send(p) \/ Receive(p)
                                \/ Shut(p) \/ Interrupted(p) \/ BackendError(p)
        PROVE  At(p, "swait") /\ SocketReturns(p) /\ cancelled' = cancelled
    BY <2>1 DEF Refuse, Bind, Dial, Send, Receive, Shut, Interrupted, BackendError,
                InBackend, InSocket, socket
  <2>2. ASSUME NEW n \in Nodes, Deliver(n) PROVE UNCHANGED <<pc, op, cancelled>>
    BY <2>2 DEF Deliver, socket
  <2>3. UNCHANGED vars => UNCHANGED <<pc, op, cancelled>>
    BY DEF vars, socket
  <2>4. QED
    BY <1>1, <1>2, <1>3, <1>4, <1>5, <1>6, <1>7, <2>1, <2>2, <2>3 DEF Next, Step

\* There are never fewer connections than before.
LEMMA LinksGrow ==
  ASSUME TypeOK, TypeOK', NEW n \in Nodes, NEW m \in Nodes,
         \A q \in Nodes : (listening[q] => listening'[q]) /\ dials[q] <= dials'[q]
  PROVE  Links(n, m)' <= 1 => Links(n, m) <= 1
<1>1. \A q \in Nodes : dials[q] \in Nat /\ dials'[q] \in Nat
  <2>1. dials \in [Nodes -> 0..2] /\ dials' \in [Nodes -> 0..2]
    BY DEF TypeOK, Many
  <2>2. QED
    BY <2>1
<1>2. PICK i, j, k, l \in Nat : /\ i = dials[n] /\ j = dials[m] /\ k = dials'[n] /\ l = dials'[m]
                                /\ i <= k /\ j <= l
  BY <1>1
<1>3. QED
  BY <1>2 DEF Links

\* A step that leaves the messages alone.
LEMMA QuietStep ==
  ASSUME TypeOK, TypeOK', Delivered, UNCHANGED queues,
         \A q \in Nodes : /\ listening[q] => listening'[q]
                          /\ dials[q] <= dials'[q] /\ (cancelled[q] => cancelled'[q])
  PROVE  Delivered'
<1> SUFFICES ASSUME NEW n \in Nodes, NEW m \in Nodes, m # n PROVE DeliveredFrom(m, n)'
  BY DEF Delivered
<1>1. Links(n, m)' <= 1 => Links(n, m) <= 1
  BY LinksGrow
<1>2. DeliveredFrom(m, n)
  BY DEF Delivered
<1>3. /\ got' = got /\ inbox' = inbox /\ outq' = outq /\ sends' = sends
      /\ submitted' = submitted
  BY DEF queues
<1>4. QED
  BY <1>1, <1>2, <1>3 DEF DeliveredFrom

\* The peer of a node is the only other one, and its connections are theirs.
LEMMA PeerIsTheOther ==
  ASSUME TypeOK, NEW n \in Nodes
  PROVE  /\ \A m \in Nodes : m # n <=> m = Peer(n)
         /\ \A m \in Nodes : m # n => Connections(n) = Links(n, m) /\ Connections(m) = Links(n, m)
<1>1. \A m \in Nodes : m # n <=> m = Peer(n)
  BY PeerIsOther, XChainAssumption
<1>2. ASSUME NEW m \in Nodes, m # n
      PROVE  Connections(n) = Links(n, m) /\ Connections(m) = Links(n, m)
  <2>1. Peer(n) = m /\ Peer(m) = n
    BY <1>1, <1>2, PeerIsOther
  <2>2. dials[n] \in Nat /\ dials[m] \in Nat
    <3>1. dials \in [Nodes -> 0..2]
      BY DEF TypeOK, Many
    <3>2. QED
      BY <3>1
  <2>3. QED
    BY <2>1, <2>2 DEF Connections, Dialled, Links
<1>3. QED
  BY <1>1, <1>2

\* Whatever a node sends, receives, drops or has carried to it, the orders stay
\* accounted for.
LEMMA StepDelivered == TypeOK /\ TypeOK' /\ Closing /\ Delivered /\ [Next]_vars => Delivered'
<1> SUFFICES ASSUME TypeOK, TypeOK', Closing, Delivered, [Next]_vars PROVE Delivered'
  OBVIOUS
<1>t. /\ outq \in [Nodes -> SUBSET Messages] /\ inbox \in [Nodes -> SUBSET Messages]
      /\ sends \in [Nodes -> Nat] /\ submitted \in [Nodes -> SUBSET Nat]
      /\ got \in [Nodes -> Seq(Nat)] /\ cancelled \in [Nodes -> BOOLEAN]
  BY DEF TypeOK
<1>d. /\ dials \in [Nodes -> 0..2] /\ listening \in [Nodes -> BOOLEAN]
      /\ \A p \in Procs : NodeOf[p] \in Nodes
  BY XChainAssumption DEF TypeOK, Many
<1>1. ASSUME NEW p \in Procs, Send(p) PROVE Delivered'
  <2>1. PICK m \in Nodes, no \in Nat, isOrder \in BOOLEAN :
          /\ no = sends[m] + 1
          /\ outq' = [outq EXCEPT ![m] = @ \cup {[no |-> no, order |-> isOrder]}]
          /\ sends' = [sends EXCEPT ![m] = no]
          /\ submitted' = IF isOrder THEN [submitted EXCEPT ![m] = @ \cup {no}] ELSE submitted
    BY <1>1, SendAdds
  <2>2. got' = got /\ inbox' = inbox /\ UNCHANGED <<cancelled, listening, dials>>
    BY <1>1 DEF Send, socket
  <2>3. ASSUME NEW n \in Nodes, NEW q \in Nodes, q # n PROVE DeliveredFrom(q, n)'
    <3>1. DeliveredFrom(q, n)
      BY <2>3 DEF Delivered
    <3>2. Links(n, q)' = Links(n, q)
      BY <2>2 DEF Links
    <3>3. CASE q # m
      <4>1. outq'[q] = outq[q] /\ sends'[q] = sends[q] /\ submitted'[q] = submitted[q]
        BY <1>t, <2>1, <3>3
      <4>2. QED
        BY <2>2, <3>1, <3>2, <4>1 DEF DeliveredFrom
    <3>4. CASE q = m
      <4>1. PICK x \in Messages : x = [no |-> no, order |-> isOrder] /\ x.no = sends[m] + 1
        <5>1. [no |-> no, order |-> isOrder] \in Messages
          BY DEF Messages
        <5>2. [no |-> no, order |-> isOrder].no = sends[m] + 1
          BY <2>1
        <5>3. QED
          BY <5>1, <5>2, Zenon
      <4>2. /\ outq'[m] = outq[m] \cup {x} /\ sends'[m] = sends[m] + 1
            /\ submitted'[m] = IF x.order THEN submitted[m] \cup {sends[m] + 1} ELSE submitted[m]
        BY <1>t, <2>1, <4>1
      <4>3. /\ got[n] \in Seq(Nat) /\ inbox[n] \in SUBSET Messages /\ outq[m] \in SUBSET Messages
            /\ sends[m] \in Nat
        BY <1>t
      <4>4. /\ Sound(got[n], inbox[n], outq'[m], sends'[m], submitted'[m])
            /\ Ordered(got[n], inbox[n], outq[m]) => Ordered(got[n], inbox[n], outq'[m])
            /\ Kept(got[n], inbox[n], outq[m], submitted[m])
                 => Kept(got[n], inbox[n], outq'[m], submitted'[m])
        <5>1. Sound(got[n], inbox[n], outq[m], sends[m], submitted[m])
          BY <3>1, <3>4 DEF DeliveredFrom
        <5>2. PICK g, w, o, k, sub, new :
                /\ g = got[n] /\ w = inbox[n] /\ o = outq[m] /\ k = sends[m]
                /\ sub = submitted[m] /\ new = submitted'[m]
          OBVIOUS
        <5>3. /\ g \in Seq(Nat) /\ w \in SUBSET Messages /\ o \in SUBSET Messages /\ k \in Nat
              /\ Sound(g, w, o, k, sub) /\ x \in Messages /\ x.no = k + 1
              /\ new = IF x.order THEN sub \cup {k + 1} ELSE sub
          BY <4>1, <4>2, <4>3, <5>1, <5>2, Zenon
        <5>4. /\ Sound(g, w, o \cup {x}, k + 1, new)
              /\ Ordered(g, w, o) => Ordered(g, w, o \cup {x})
              /\ Kept(g, w, o, sub) => Kept(g, w, o \cup {x}, new)
          BY <5>3, SendKeeps, Zenon
        <5>5. QED
          BY <4>2, <5>2, <5>4, Zenon
      <4>5. QED
        BY <2>2, <3>1, <3>2, <3>4, <4>4 DEF DeliveredFrom
    <3>5. QED
      BY <3>3, <3>4
  <2>4. QED
    BY <2>3 DEF Delivered
<1>2. ASSUME NEW p \in Procs, Receive(p) PROVE Delivered'
  <2> DEFINE r == NodeOf[p]
  <2>1. PICK x \in inbox[r] :
          /\ Connections(r) > 1 \/ \A y \in inbox[r] : x.no <= y.no
          /\ inbox' = [inbox EXCEPT ![r] = @ \ {x}]
          /\ got' = IF x.order THEN [got EXCEPT ![r] = Append(@, x.no)] ELSE got
    BY <1>2 DEF Receive, NextIn, IsOrder
  <2>2. /\ r \in Nodes /\ outq' = outq /\ sends' = sends /\ submitted' = submitted
        /\ UNCHANGED <<cancelled, listening, dials>>
    BY <1>2, <1>d DEF Receive, socket
  <2> HIDE DEF r
  <2>3. ASSUME NEW n \in Nodes, NEW q \in Nodes, q # n PROVE DeliveredFrom(q, n)'
    <3>1. DeliveredFrom(q, n)
      BY <2>3 DEF Delivered
    <3>2. Links(n, q)' = Links(n, q)
      BY <2>2 DEF Links
    <3>3. CASE n # r
      <4>1. inbox'[n] = inbox[n] /\ got'[n] = got[n]
        BY <1>t, <2>1, <3>3
      <4>2. QED
        BY <2>2, <3>1, <3>2, <4>1 DEF DeliveredFrom
    <3>4. CASE n = r
      <4>1. /\ inbox'[n] = inbox[n] \ {x} /\ x \in inbox[n]
            /\ got'[n] = IF x.order THEN Append(got[n], x.no) ELSE got[n]
        BY <1>t, <2>1, <3>4
      <4>2. /\ got[n] \in Seq(Nat) /\ inbox[n] \in SUBSET Messages /\ outq[q] \in SUBSET Messages
            /\ sends[q] \in Nat
        BY <1>t
      <4>3. Links(n, q) <= 1 => \A y \in inbox[n] : x.no <= y.no
        <5>1. Connections(n) = Links(n, q)
          BY <2>3, PeerIsTheOther
        <5>2. Links(n, q) \in Int
          BY <1>d DEF Links
        <5>3. QED
          BY <2>1, <3>4, <5>1, <5>2
      <4>4. /\ Sound(got'[n], inbox'[n], outq[q], sends[q], submitted[q])
            /\ Ordered(got[n], inbox[n], outq[q]) /\ (\A y \in inbox[n] : x.no <= y.no)
                 => Ordered(got'[n], inbox'[n], outq[q])
            /\ Kept(got[n], inbox[n], outq[q], submitted[q])
                 => Kept(got'[n], inbox'[n], outq[q], submitted[q])
        <5>1. Sound(got[n], inbox[n], outq[q], sends[q], submitted[q])
          BY <3>1 DEF DeliveredFrom
        <5>2. PICK g, h, w, o, k, sub :
                /\ g = got[n] /\ h = got'[n] /\ w = inbox[n] /\ o = outq[q] /\ k = sends[q]
                /\ sub = submitted[q]
          OBVIOUS
        <5>3. /\ g \in Seq(Nat) /\ w \in SUBSET Messages /\ o \in SUBSET Messages /\ k \in Nat
              /\ Sound(g, w, o, k, sub) /\ x \in w
              /\ h = IF x.order THEN Append(g, x.no) ELSE g
          BY <4>1, <4>2, <5>1, <5>2, Zenon
        <5>4. /\ Sound(h, w \ {x}, o, k, sub)
              /\ Ordered(g, w, o) /\ (\A y \in w : x.no <= y.no) => Ordered(h, w \ {x}, o)
              /\ Kept(g, w, o, sub) => Kept(h, w \ {x}, o, sub)
          BY <5>3, TakeKeeps, Zenon
        <5>5. QED
          BY <4>1, <5>2, <5>4, Zenon
      <4>5. QED
        BY <2>2, <3>1, <3>2, <4>3, <4>4 DEF DeliveredFrom
    <3>5. QED
      BY <3>3, <3>4
  <2>4. QED
    BY <2>3 DEF Delivered
<1>3. ASSUME NEW m \in Nodes, Deliver(m) PROVE Delivered'
  <2> DEFINE r == Peer(m)
  <2>1. PICK x \in outq[m] :
          /\ Connections(m) > 1 \/ \A y \in outq[m] : x.no <= y.no
          /\ outq' = [outq EXCEPT ![m] = @ \ {x}]
          /\ inbox' = [inbox EXCEPT ![r] = @ \cup {x}]
    BY <1>3 DEF Deliver, NextIn
  <2>2. /\ got' = got /\ sends' = sends /\ submitted' = submitted
        /\ UNCHANGED <<cancelled, listening, dials>>
    BY <1>3 DEF Deliver, socket
  <2>3. r \in Nodes /\ \A n \in Nodes : n # m <=> n = r
    BY PeerIsOther, PeerIsTheOther
  <2> HIDE DEF r
  <2>4. ASSUME NEW n \in Nodes, NEW q \in Nodes, q # n PROVE DeliveredFrom(q, n)'
    <3>1. DeliveredFrom(q, n)
      BY <2>4 DEF Delivered
    <3>2. Links(n, q)' = Links(n, q)
      BY <2>2 DEF Links
    <3>3. CASE q # m
      <4>1. n # r
        BY <2>3, <2>4, <3>3
      <4>2. inbox'[n] = inbox[n] /\ outq'[q] = outq[q]
        BY <1>t, <2>1, <2>3, <3>3, <4>1
      <4>3. QED
        BY <2>2, <3>1, <3>2, <4>2 DEF DeliveredFrom
    <3>4. CASE q = m
      <4>1. n = r
        BY <2>3, <2>4, <3>4
      <4>2. inbox'[n] = inbox[n] \cup {x} /\ outq'[q] = outq[q] \ {x} /\ x \in outq[q]
        BY <1>t, <2>1, <2>3, <3>4, <4>1
      <4>3. /\ got[n] \in Seq(Nat) /\ inbox[n] \in SUBSET Messages /\ outq[q] \in SUBSET Messages
            /\ sends[q] \in Nat
        BY <1>t
      <4>4. Links(n, q) <= 1 => \A y \in outq[q] : x.no <= y.no
        <5>1. Connections(q) = Links(n, q)
          BY <2>4, PeerIsTheOther
        <5>2. Links(n, q) \in Int
          BY <1>d DEF Links
        <5>3. QED
          BY <2>1, <3>4, <5>1, <5>2
      <4>5. /\ Sound(got[n], inbox'[n], outq'[q], sends[q], submitted[q])
            /\ Ordered(got[n], inbox[n], outq[q]) /\ (\A y \in outq[q] : x.no <= y.no)
                 => Ordered(got[n], inbox'[n], outq'[q])
            /\ Kept(got[n], inbox[n], outq[q], submitted[q])
                 => Kept(got[n], inbox'[n], outq'[q], submitted[q])
        <5>1. Sound(got[n], inbox[n], outq[q], sends[q], submitted[q])
          BY <3>1 DEF DeliveredFrom
        <5>2. PICK g, w, o, k, sub :
                /\ g = got[n] /\ w = inbox[n] /\ o = outq[q] /\ k = sends[q]
                /\ sub = submitted[q]
          OBVIOUS
        <5>3. /\ g \in Seq(Nat) /\ w \in SUBSET Messages /\ o \in SUBSET Messages /\ k \in Nat
              /\ Sound(g, w, o, k, sub) /\ x \in o
          BY <4>2, <4>3, <5>1, <5>2, Zenon
        <5>4. /\ Sound(g, w \cup {x}, o \ {x}, k, sub)
              /\ Ordered(g, w, o) /\ (\A y \in o : x.no <= y.no) => Ordered(g, w \cup {x}, o \ {x})
              /\ Kept(g, w, o, sub) => Kept(g, w \cup {x}, o \ {x}, sub)
          BY <5>3, CarryKeeps, Zenon
        <5>5. QED
          BY <4>2, <5>2, <5>4, Zenon
      <4>6. QED
        BY <2>2, <3>1, <3>2, <4>4, <4>5 DEF DeliveredFrom
    <3>5. QED
      BY <3>3, <3>4
  <2>5. QED
    BY <2>4 DEF Delivered
<1>4. ASSUME NEW p \in Procs, Shut(p) PROVE Delivered'
  <2> DEFINE r == NodeOf[p]
  <2>1. /\ outq' = [outq EXCEPT ![r] = {}] /\ inbox' = [inbox EXCEPT ![r] = {}]
        /\ got' = got /\ sends' = sends /\ submitted' = submitted
        /\ UNCHANGED <<cancelled, listening, dials>>
    BY <1>4 DEF Shut
  <2>2. r \in Nodes /\ cancelled[r]
    BY <1>4, <1>d DEF Shut, InBackend, InSocket, Closing
  <2> HIDE DEF r
  <2>3. ASSUME NEW n \in Nodes, NEW q \in Nodes, q # n PROVE DeliveredFrom(q, n)'
    <3>1. DeliveredFrom(q, n)
      BY <2>3 DEF Delivered
    <3>2. Links(n, q)' = Links(n, q)
      BY <2>1 DEF Links
    <3>3. /\ n = r => inbox'[n] = {} /\ outq'[q] = outq[q]
          /\ q = r => inbox'[n] = inbox[n] /\ outq'[q] = {}
          /\ n # r /\ q # r => inbox'[n] = inbox[n] /\ outq'[q] = outq[q]
      BY <1>t, <2>1, <2>2, <2>3
    <3>4. /\ Sound(got[n], inbox'[n], outq'[q], sends[q], submitted[q])
          /\ Ordered(got[n], inbox[n], outq[q]) => Ordered(got[n], inbox'[n], outq'[q])
      <4>1. Sound(got[n], inbox[n], outq[q], sends[q], submitted[q])
        BY <3>1 DEF DeliveredFrom
      <4>2. QED
        BY <3>3, <4>1, DropKeeps
    <3>5. n = r \/ q = r \/ (inbox'[n] = inbox[n] /\ outq'[q] = outq[q])
      BY <3>3
    <3>6. QED
      BY <2>1, <2>2, <3>1, <3>2, <3>4, <3>5 DEF DeliveredFrom
  <2>4. QED
    BY <2>3 DEF Delivered
<1>5. QED
  <2>1. ASSUME NEW p \in Procs, Call(p) \/ TLock(p) \/ SLock(p) \/ BackendError(p) \/ Cancel(p)
                                \/ Skip(p) \/ Refuse(p) \/ Bind(p) \/ Dial(p) \/ Interrupted(p)
        PROVE  Delivered'
    <3>1. UNCHANGED queues
      BY <2>1 DEF Call, TLock, SLock, BackendError, Cancel, Skip, Refuse, Bind, Dial, Interrupted
    <3>2. \A q \in Nodes : (listening[q] => listening'[q]) /\ dials[q] <= dials'[q]
      <4>1. CASE Bind(p)
        BY <1>d, <4>1 DEF Bind
      <4>2. CASE Dial(p)
        BY <1>d, <4>2 DEF Dial, Many
      <4>3. CASE ~Bind(p) /\ ~Dial(p)
        <5>1. UNCHANGED <<listening, dials>>
          BY <2>1, <4>3 DEF Call, TLock, SLock, BackendError, Cancel, Skip, Refuse, Interrupted, socket
        <5>2. QED
          BY <1>d, <5>1
      <4>4. QED
        BY <4>1, <4>2, <4>3
    <3>3. \A q \in Nodes : cancelled[q] => cancelled'[q]
      <4>1. CASE Cancel(p)
        BY <1>t, <1>d, <4>1 DEF Cancel
      <4>2. CASE ~Cancel(p)
        BY <2>1, <4>2 DEF Call, TLock, SLock, BackendError, Skip, Refuse, Bind, Dial, Interrupted, socket
      <4>3. QED
        BY <4>1, <4>2
    <3>4. QED
      BY <3>1, <3>2, <3>3, QuietStep
  <2>2. ASSUME UNCHANGED vars PROVE Delivered'
    <3>1. UNCHANGED queues /\ UNCHANGED <<cancelled, listening, dials>>
      BY <2>2 DEF vars, socket
    <3>2. QED
      BY <1>d, <3>1, QuietStep
  <2>3. QED
    BY <1>1, <1>2, <1>3, <1>4, <2>1, <2>2 DEF Next, Step

\* ReceiveOrder returns only orders that the peer's SubmitOrder sent, never a block,
\* none twice, in the order of sending while there is not more than one connection,
\* and none is lost until a node is closed, whichever goroutines send, receive, fail
\* and close in between and however full the queues are.
THEOREM OrdersAreDelivered == Spec => []OrderDelivery
<1>1. Init => Closing /\ Delivered
  <2>1. Init => Closing
    BY DEF Init, Closing
  <2>2. ASSUME Init, NEW n \in Nodes, NEW m \in Nodes PROVE DeliveredFrom(m, n)
    <3>1. got[n] = <<>> /\ inbox[n] = {} /\ outq[m] = {} /\ sends[m] = 0 /\ submitted[m] = {}
      BY <2>2 DEF Init
    <3>2. Sound(<<>>, {}, {}, 0, {}) /\ Ordered(<<>>, {}, {}) /\ Kept(<<>>, {}, {}, {})
      BY DEF Sound, Ordered, Kept
    <3>3. QED
      BY <3>1, <3>2 DEF DeliveredFrom
  <2>3. QED
    BY <2>1, <2>2 DEF Delivered
<1>2. TypeOK /\ Delivered => OrderDelivery
  <2> SUFFICES ASSUME TypeOK, Delivered, NEW n \in Nodes
               PROVE  /\ Returned(n) \subseteq submitted[Peer(n)]
                      /\ \A i, j \in 1..Len(got[n]) : i < j =>
                           /\ got[n][i] # got[n][j]
                           /\ Connections(n) <= 1 => got[n][i] < got[n][j]
                      /\ ~cancelled[n] /\ ~cancelled[Peer(n)] =>
                           submitted[Peer(n)] \ Returned(n) = UnderWay(n)
    BY DEF OrderDelivery
  <2>1. PICK m \in Nodes : m = Peer(n) /\ m # n
    BY PeerIsOther
  <2>2. DeliveredFrom(m, n) /\ Connections(n) = Links(n, m)
    BY <2>1, PeerIsTheOther DEF Delivered
  <2>3. Returned(n) \subseteq submitted[m]
    BY <2>2 DEF DeliveredFrom, Sound, Returned
  <2>4. \A i, j \in 1..Len(got[n]) : i < j =>
          got[n][i] # got[n][j] /\ (Connections(n) <= 1 => got[n][i] < got[n][j])
    BY <2>2 DEF DeliveredFrom, Sound, Ordered
  <2>5. ASSUME ~cancelled[n], ~cancelled[m] PROVE submitted[m] \ Returned(n) = UnderWay(n)
    <3>1. UnderWay(n) = {x.no : x \in {y \in inbox[n] \cup outq[m] : y.order}}
      BY <2>1 DEF UnderWay
    <3>2. ASSUME NEW no \in submitted[m] \ Returned(n) PROVE no \in UnderWay(n)
      <4>1. PICK x \in inbox[n] \cup outq[m] : x.no = no
        BY <2>2, <2>5, <3>2 DEF DeliveredFrom, Kept, Returned
      <4>2. x.order
        BY <2>2, <4>1 DEF DeliveredFrom, Sound
      <4>3. QED
        BY <3>1, <4>1, <4>2
    <3>3. ASSUME NEW no \in UnderWay(n) PROVE no \in submitted[m] \ Returned(n)
      <4>1. PICK x \in inbox[n] \cup outq[m] : x.order /\ x.no = no
        BY <3>1
      <4>2. QED
        BY <2>2, <4>1 DEF DeliveredFrom, Sound, Returned
    <3>4. QED
      BY <3>2, <3>3
  <2>6. QED
    BY <2>1, <2>3, <2>4, <2>5
<1>3. QED
  BY <1>1, <1>2, StepClosing, StepDelivered, Invariance, TypeCorrect, PTL DEF Spec
=============================================================================
