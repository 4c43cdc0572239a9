------------------------------- MODULE XChain ------------------------------
(***************************************************************************)
(* Two X-Chain DEX nodes (xchain.go) that exchange orders and blocks.      *)
(* Each is a lock t.mu around one DEALER socket, whose methods have the    *)
(* lock s.mu of their own and block in the backend while they hold it      *)
(* (module ZmqSocket, without the counters here).  A call runs through     *)
(*                                                                         *)
(*   idle -> [tlock] -> twait -> [slock] -> swait -> idle                  *)
(*                                                                         *)
(* except that Connect and Close go straight for s.mu, Close after it has  *)
(* cancelled the socket's context, and that ConnectToPeers returns to      *)
(* slock for every further peer.  At tlock and slock a writer waits for    *)
(* another to be done; an RLock is entered or queued for at once.  Past    *)
(* its lock of s.mu, at swait, a goroutine is in the backend; the step     *)
(* that ends the backend call includes the deferred unlocks.               *)
(***************************************************************************)
EXTENDS Integers, Sequences, FiniteSets, RWMutex

CONSTANTS Nodes,      \* the two nodes
          Procs,      \* goroutines of both
          NodeOf,     \* NodeOf[p]: the node that p belongs to
          Calls,      \* Calls[p]: the methods that p calls
          HWM,        \* the backend's high-water mark
          PeerCounts, \* bound: how many endpoints ConnectToPeers is given
          MaxSends    \* MaxSends[n], bound: messages that node n sends

Many == 2            \* two dials or more: nothing depends on how many more
SendOps == {"SubmitOrder", "ProposeBlock"}
DialOps == {"Connect", "ConnectToPeers"}
AttachOps == {"Listen"} \cup DialOps
BlockingOps == SendOps \cup {"ReceiveOrder"}
Ops == BlockingOps \cup AttachOps \cup {"StartDEX", "Close"}

ASSUME XChainAssumption ==
  /\ NoProc \notin Procs /\ IsFiniteSet(Procs)
  /\ \E n, m \in Nodes : n # m /\ Nodes = {n, m}
  /\ NodeOf \in [Procs -> Nodes]
  /\ Calls \in [Procs -> SUBSET Ops]
  /\ HWM \in Nat /\ PeerCounts \subseteq Nat /\ MaxSends \in [Nodes -> Nat]

VARIABLES tmu, smu,   \* t.mu and the socket's s.mu, of each node
          cancelled,  \* the socket's context is cancelled
          closed,     \* the socket is closed and its backend shut
          listening,  \* the socket listens
          dials,      \* how often it has dialled: 0, 1 or Many
          outq,       \* messages the backend has accepted
          inbox,      \* messages waiting to be received
          sends,      \* how many messages the node has sent so far
          submitted,  \* the numbers of those that were orders
          got,        \* the numbers of the orders that ReceiveOrder returned, in turn
          pc, op,     \* where each goroutine is, and in which method
          left        \* endpoints ConnectToPeers has yet to dial

locks == <<tmu, smu>>
socket == <<cancelled, closed, listening, dials>>
queues == <<outq, inbox, sends, submitted, got>>
vars == <<locks, socket, queues, pc, op, left>>

\* NewXChainDEXTransport, at both nodes.
Init ==
  /\ tmu = [n \in Nodes |-> Unlocked] /\ smu = [n \in Nodes |-> Unlocked]
  /\ cancelled = [n \in Nodes |-> FALSE]
  /\ closed = [n \in Nodes |-> FALSE]
  /\ listening = [n \in Nodes |-> FALSE] /\ dials = [n \in Nodes |-> 0]
  /\ outq = [n \in Nodes |-> {}] /\ inbox = [n \in Nodes |-> {}]
  /\ sends = [n \in Nodes |-> 0] /\ submitted = [n \in Nodes |-> {}]
  /\ got = [n \in Nodes |-> <<>>]
  /\ pc = [p \in Procs |-> "idle"] /\ op = [p \in Procs |-> "none"]
  /\ left = [p \in Procs |-> 0]

At(p, label) == pc[p] = label
Goto(p, label) == pc' = [pc EXCEPT ![p] = label]
Peer(n) == CHOOSE m \in Nodes : m # n
OfNode(n) == {p \in Procs : NodeOf[p] = n}

-----------------------------------------------------------------------------
(* The locks *)

\* ReceiveOrder, and the socket's Recv in it, are the only readers.
Reads(o) == o = "ReceiveOrder"
Holds(mu, p) == IF Reads(op[p]) THEN HoldsRead(mu, p) ELSE HoldsWrite(mu, p)
CanRequest(mu, o) == Reads(o) \/ CanAnnounce(mu)
Requested(mu, p, o) == IF Reads(o) THEN RLock(mu, p) ELSE Announce(mu, p)
Released(mu, p) == IF Reads(op[p]) THEN RUnlock(mu, p) ELSE Unlock(mu)

\* Where a method begins: Connect and Close do not take t.mu.
FirstLabel(o) ==
  CASE o = "Close" -> "cancel" [] o = "Connect" -> "slock" [] OTHER -> "tlock"

\* Sends that have been called and not returned.
Pending(n) == {p \in OfNode(n) : pc[p] # "idle" /\ op[p] \in SendOps}

\* A method that can announce itself at t.mu does so at once.
Call(p) ==
  LET n == NodeOf[p]
  IN  /\ At(p, "idle")
      /\ \E o \in Calls[p] :
           /\ o \in SendOps => sends[n] + Cardinality(Pending(n)) < MaxSends[n]
           /\ op' = [op EXCEPT ![p] = o]
           /\ IF FirstLabel(o) = "tlock" /\ CanRequest(tmu[n], o)
              THEN Goto(p, "twait") /\ tmu' = [tmu EXCEPT ![n] = Requested(@, p, o)]
              ELSE Goto(p, FirstLabel(o)) /\ UNCHANGED tmu
           /\ \E k \in IF o = "ConnectToPeers" THEN PeerCounts ELSE {0} :
                left' = [left EXCEPT ![p] = k]
      /\ UNCHANGED <<smu, socket, queues>>

\* Close: the socket's context, before any lock.
Cancel(p) ==
  /\ At(p, "cancel")
  /\ cancelled' = [cancelled EXCEPT ![NodeOf[p]] = TRUE]
  /\ Goto(p, "slock")
  /\ UNCHANGED <<locks, closed, listening, dials, queues, op, left>>

TLock(p) ==
  /\ At(p, "tlock")
  /\ CanAnnounce(tmu[NodeOf[p]])
  /\ tmu' = [tmu EXCEPT ![NodeOf[p]] = Announce(@, p)]
  /\ Goto(p, "twait")
  /\ UNCHANGED <<smu, socket, queues, op, left>>

\* StartDEX, and ConnectToPeers with no peers, do nothing with the socket.
SkipsSocket(p) == op[p] = "StartDEX" \/ (op[p] = "ConnectToPeers" /\ left[p] = 0)

Skip(p) ==
  /\ At(p, "twait") /\ Holds(tmu[NodeOf[p]], p)
  /\ SkipsSocket(p)
  /\ tmu' = [tmu EXCEPT ![NodeOf[p]] = Released(@, p)]
  /\ Goto(p, "idle")
  /\ op' = [op EXCEPT ![p] = "none"]
  /\ UNCHANGED <<smu, socket, queues, left>>

SLock(p) ==
  LET n == NodeOf[p]
  IN  /\ \/ At(p, "slock")
         \/ At(p, "twait") /\ Holds(tmu[n], p) /\ ~SkipsSocket(p)
      /\ CanRequest(smu[n], op[p])
      /\ smu' = [smu EXCEPT ![n] = Requested(@, p, op[p])]
      /\ Goto(p, "swait")
      /\ UNCHANGED <<tmu, socket, queues, op, left>>

\* Mutant: ReceiveOrder keeps t.mu.
KeepsTMuAfter(p) == FirstLabel(op[p]) # "tlock" \/ op[p] = "ReceiveOrder"
\* The methods that have not locked t.mu, and so do not unlock it either.
BypassesTMu(p) == FirstLabel(op[p]) # "tlock"

\* Mutant: the last one does not end the count.
CountedDown(k) == k - 1
\* The endpoints that are left after one of k; a method other than ConnectToPeers
\* has none.
Remaining(k) == IF k > 1 THEN k - 1 ELSE 0

\* The socket method returns, with an error or not, and with it the call of p;
\* ConnectToPeers dials the next peer even if this one failed.
SocketReturns(p) ==
  LET n == NodeOf[p]
      again == left[p] > 1
  IN  /\ smu' = [smu EXCEPT ![n] = Released(@, p)]
      /\ tmu' = IF again \/ BypassesTMu(p) THEN tmu
                ELSE [tmu EXCEPT ![n] = Released(@, p)]
      /\ Goto(p, IF again THEN "slock" ELSE "idle")
      /\ op' = IF again THEN op ELSE [op EXCEPT ![p] = "none"]
      /\ left' = [left EXCEPT ![p] = Remaining(@)]

-----------------------------------------------------------------------------
(* The socket *)

InSocket(p) == At(p, "swait") /\ Holds(smu[NodeOf[p]], p)

\* A closed socket refuses, Close included; an open one calls its backend.
Refuse(p) ==
  /\ InSocket(p) /\ closed[NodeOf[p]]
  /\ SocketReturns(p)
  /\ UNCHANGED <<socket, queues>>

InBackend(p, ops) == InSocket(p) /\ ~closed[NodeOf[p]] /\ op[p] \in ops

Bind(p) ==
  /\ InBackend(p, {"Listen"})
  /\ listening' = [listening EXCEPT ![NodeOf[p]] = TRUE]
  /\ SocketReturns(p)
  /\ UNCHANGED <<cancelled, closed, dials, queues>>

\* Every endpoint is one of the peer, and every dial is a connection of its own.
Dial(p) ==
  /\ InBackend(p, DialOps)
  /\ dials' = [dials EXCEPT ![NodeOf[p]] = IF @ = Many THEN @ ELSE @ + 1]
  /\ SocketReturns(p)
  /\ UNCHANGED <<cancelled, closed, listening, queues>>

\* The messages of a node are numbered, and begin with "ORDER:" or "BLOCK:".
Send(p) ==
  LET n == NodeOf[p]
      no == sends[n] + 1
      isOrder == op[p] = "SubmitOrder"
  IN  /\ InBackend(p, SendOps)
      /\ Cardinality(outq[n]) < HWM
      /\ outq' = [outq EXCEPT ![n] = @ \cup {[no |-> no, order |-> isOrder]}]
      /\ sends' = [sends EXCEPT ![n] = no]
      /\ submitted' = IF isOrder THEN [submitted EXCEPT ![n] = @ \cup {no}] ELSE submitted
      /\ SocketReturns(p)
      /\ UNCHANGED <<socket, inbox, got>>

\* The connections of n and its peer: the dials that met somebody listening.
Dialled(n) == IF listening[Peer(n)] THEN dials[n] ELSE 0
Connections(n) == Dialled(n) + Dialled(Peer(n))

\* The messages in q, of n or to n, that may be the next.  A connection keeps its
\* messages in order; a DEALER spreads them over the connections it has and takes
\* them from all, so that with several one message may overtake another.
NextIn(q, n) == {m \in q : Connections(n) > 1 \/ \A k \in q : m.no <= k.no}

\* Mutant: whatever arrives is taken for an order.
AnyMessage(msg) == TRUE
\* ReceiveOrder's look at the first six bytes.
IsOrder(msg) == msg.order

\* A message that is no order is an error, and gone.
Receive(p) ==
  LET n == NodeOf[p]
  IN  /\ InBackend(p, {"ReceiveOrder"})
      /\ \E msg \in NextIn(inbox[n], n) :
           /\ inbox' = [inbox EXCEPT ![n] = @ \ {msg}]
           /\ got' = IF IsOrder(msg) THEN [got EXCEPT ![n] = Append(@, msg.no)] ELSE got
      /\ SocketReturns(p)
      /\ UNCHANGED <<socket, outq, sends, submitted>>

\* Close: with Linger 0 nothing is kept of what the socket has not sent, and
\* what it has not received goes with it.
Shut(p) ==
  LET n == NodeOf[p]
  IN  /\ InBackend(p, {"Close"})
      /\ closed' = [closed EXCEPT ![n] = TRUE]
      /\ outq' = [outq EXCEPT ![n] = {}] /\ inbox' = [inbox EXCEPT ![n] = {}]
      /\ SocketReturns(p)
      /\ UNCHANGED <<cancelled, listening, dials, sends, submitted, got>>

\* Any backend call may fail.
BackendError(p) ==
  /\ InBackend(p, BlockingOps \cup AttachOps)
  /\ SocketReturns(p)
  /\ UNCHANGED <<socket, queues>>

\* Mutant: a Send does not notice.
InterruptedReceive(p) ==
  /\ cancelled[NodeOf[p]]
  /\ InBackend(p, {"ReceiveOrder"})
  /\ SocketReturns(p)
  /\ UNCHANGED <<socket, queues>>
\* A call that would block returns when the context is cancelled.
Interrupted(p) ==
  /\ cancelled[NodeOf[p]]
  /\ InBackend(p, BlockingOps)
  /\ SocketReturns(p)
  /\ UNCHANGED <<socket, queues>>

-----------------------------------------------------------------------------

Linked == \A n \in Nodes : ~closed[n] /\ Connections(n) > 0

\* The network carries a message of n to its peer.
Deliver(n) ==
  /\ Linked
  /\ \E msg \in NextIn(outq[n], n) :
       /\ outq' = [outq EXCEPT ![n] = @ \ {msg}]
       /\ inbox' = [inbox EXCEPT ![Peer(n)] = @ \cup {msg}]
  /\ UNCHANGED <<locks, socket, sends, submitted, got, pc, op, left>>

Step(p) ==
  \/ Cancel(p) \/ Skip(p) \/ Refuse(p)
  \/ Bind(p) \/ Dial(p) \/ Send(p) \/ Receive(p) \/ Shut(p) \/ Interrupted(p)

Next ==
  \/ \E p \in Procs : Call(p) \/ TLock(p) \/ SLock(p) \/ Step(p) \/ BackendError(p)
  \/ \E n \in Nodes : Deliver(n)

\* As for ZmqSocket, and a network that delivers between linked nodes.
Fairness ==
  /\ \A p \in Procs : WF_vars(Step(p)) /\ SF_vars(TLock(p) \/ SLock(p))
  /\ \A n \in Nodes : WF_vars(Deliver(n))

Spec == Init /\ [][Next]_vars
FairSpec == Spec /\ Fairness

-----------------------------------------------------------------------------
(* Properties *)

Labels == {"idle", "cancel", "tlock", "twait", "slock", "swait"}

Messages == [no : Nat, order : BOOLEAN]

\* Every variable has its type.
TypeOK ==
  /\ tmu \in [Nodes -> Mutexes(Procs)] /\ smu \in [Nodes -> Mutexes(Procs)]
  /\ cancelled \in [Nodes -> BOOLEAN] /\ closed \in [Nodes -> BOOLEAN]
  /\ listening \in [Nodes -> BOOLEAN] /\ dials \in [Nodes -> 0..Many]
  /\ outq \in [Nodes -> SUBSET Messages] /\ inbox \in [Nodes -> SUBSET Messages]
  /\ sends \in [Nodes -> Nat] /\ submitted \in [Nodes -> SUBSET Nat]
  /\ got \in [Nodes -> Seq(Nat)]
  /\ pc \in [Procs -> Labels] /\ op \in [Procs -> Ops \cup {"none"}]
  /\ left \in [Procs -> Nat]

\* p waits for a lock that others have to give up first.
LockWait(p) ==
  LET n == NodeOf[p]
  IN  \/ At(p, "tlock") /\ ~CanAnnounce(tmu[n])
      \/ At(p, "twait") /\ (Holds(tmu[n], p) => ~SkipsSocket(p) /\ ~CanRequest(smu[n], op[p]))
      \/ At(p, "slock") /\ ~CanRequest(smu[n], op[p])
      \/ At(p, "swait") /\ ~Holds(smu[n], p)

\* The two locks of a node never wait for each other, although most methods nest
\* them, Connect and Close take only the inner one, and a waiting writer turns
\* readers away: of the goroutines in a node's methods, some one is not waiting
\* for a lock.
NoLockCycle ==
  \A n \in Nodes : LET busy == {p \in OfNode(n) : pc[p] # "idle"}
                   IN  busy # {} => \E p \in busy : ~LockWait(p)

\* The orders that wait at a node or are under way to it.
UnderWay(n) == {m.no : m \in {k \in inbox[n] \cup outq[Peer(n)] : k.order}}
Returned(n) == {got[n][i] : i \in 1..Len(got[n])}

\* What ReceiveOrder returns, whichever goroutines send, receive, fail and close
\* in between: only orders that the peer's SubmitOrder sent, never a block; none
\* of them twice; in the order of sending, as long as the nodes have not more
\* than one connection (xchain.go:123 makes one for every endpoint); and as long
\* as neither node is being closed, the orders that have not been returned are
\* exactly those that wait or are under way: none is lost.
OrderDelivery ==
  \A n \in Nodes :
    /\ Returned(n) \subseteq submitted[Peer(n)]
    /\ \A i, j \in 1..Len(got[n]) : i < j =>
         got[n][i] # got[n][j] /\ (Connections(n) <= 1 => got[n][i] < got[n][j])
    /\ ~cancelled[n] /\ ~cancelled[Peer(n)] =>
         submitted[Peer(n)] \ Returned(n) = UnderWay(n)

\* A goroutine of the node n is in the backend and nothing that has happened so
\* far will get it out: nothing is on its way to n, or what n sends has nowhere
\* to go, and nobody has called Close.
Starved(n) ==
  /\ \A q \in OfNode(n) : op[q] # "Close"
  /\ \E p \in OfNode(n) :
       \/ InBackend(p, {"ReceiveOrder"}) /\ inbox[n] = {}
            /\ (outq[Peer(n)] = {} \/ ~Linked)
       \/ InBackend(p, SendOps) /\ Cardinality(outq[n]) >= HWM /\ ~Linked

\* A call that never returns waits, in the end, for the peer and for nothing
\* else: some goroutine of its node is in the backend for a message the peer
\* does not send, or for room the peer does not make.  (SubmitOrder waits behind
\* a ReceiveOrder of its own node, so that two nodes that both receive first
\* wait for each other.)  A Close at the node ends this too, and whatever is
\* blocked under both locks returns: Close does not wait for t.mu.
WaitsOnlyForPeer ==
  \A p \in Procs : []<>At(p, "idle") \/ <>[]Starved(NodeOf[p])
=============================================================================
