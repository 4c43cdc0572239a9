----------------------------- MODULE ZmqSocket -----------------------------
(***************************************************************************)
(* One zmqSocket (backend.go) shared by the goroutines Procs.  Every       *)
(* method is a critical section of s.mu around a call into the luxfi/zmq   *)
(* backend; the methods differ in which side of the lock they take, in     *)
(* whether the backend call can block, and in the counters they increment. *)
(* A call runs through                                                     *)
(*                                                                         *)
(*   idle -> [cancel] -> lock -> wait -> backend -> [count] -> unlock      *)
(*                                                                         *)
(* where only Close has the cancel step.  The counters are plain uint64    *)
(* fields, so an increment is a load and a store: two goroutines that are  *)
(* inside together can interleave theirs.                                  *)
(*                                                                         *)
(* A message is its number of frames and a frame is one byte long.         *)
(***************************************************************************)
EXTENDS Integers, FiniteSets, RWMutex

CONSTANTS Procs,        \* goroutines sharing the socket
          Calls,        \* Calls[p]: the methods goroutine p calls
          SocketType,   \* "SUB", "XSUB" or any other of qzmq.go's socket types
          FrameCounts,  \* how many frames a message can have
          Filters,      \* subscription filters
          HWMs,         \* high-water marks SetOption is called with
          DefaultHWM,   \* the backend's own high-water mark
          MaxArrivals,  \* bound: messages the peers send to this socket
          MaxSends      \* bound: Send and SendMultipart calls that succeed

BlockingOps == {"Send", "SendMultipart", "Recv", "RecvMultipart"}
SendOps == {"Send", "SendMultipart"}
RecvOps == {"Recv", "RecvMultipart"}
SubscribeOps == {"Subscribe", "Unsubscribe"}
AttachOps == {"Bind", "Connect"}

\* Mutant: Send and SendMultipart under the read lock.
ReadOpsWithSends == RecvOps \cup SendOps \cup {"GetOption", "GetMetrics"}

\* Mutant: Close under the read lock.
ReadOpsWithClose == RecvOps \cup {"GetOption", "GetMetrics", "Close"}

\* Methods that take s.mu.RLock; all the others take s.mu.Lock.
ReadOps == RecvOps \cup {"GetOption", "GetMetrics"}
WriteOps == SendOps \cup SubscribeOps \cup AttachOps \cup {"SetOption", "Close"}
Ops == ReadOps \cup WriteOps

SentFields == {"MessagesSent", "BytesSent"}
ReceivedFields == {"MessagesReceived", "BytesReceived"}
Fields == SentFields \cup ReceivedFields

ASSUME ProcsAssumption == NoProc \notin Procs /\ IsFiniteSet(Procs)
ASSUME CallsAssumption == Calls \in [Procs -> SUBSET Ops]
ASSUME BoundsAssumption ==
  /\ FrameCounts \subseteq Nat
  /\ HWMs \subseteq Nat
  /\ DefaultHWM \in Nat
  /\ MaxArrivals \in Nat
  /\ MaxSends \in Nat

VARIABLES mu,         \* s.mu
          closed,     \* s.closed
          cancelled,  \* s.cancel has been called
          metrics,    \* s.metrics
          shut,       \* times s.socket.Close was called
          attached,   \* the backend listens or has dialled
          subs,       \* filters set in the backend
          hwm,        \* the backend's high-water mark
          inbox,      \* messages waiting in the backend
          outq,       \* messages accepted by the backend and not yet on the wire
          arrived,    \* messages the peers have sent so far
          moved,      \* what the backend really sent and handed out
          pc, op,     \* where each goroutine is, and in which method
          reg,        \* the counter value a goroutine has loaded
          left,       \* bytes a goroutine still has to count
          snap        \* GetMetrics: the fields copied so far

backend == <<shut, attached, subs, hwm, inbox, outq, arrived>>
locals == <<reg, left, snap>>
vars == <<mu, closed, cancelled, metrics, backend, moved, pc, op, locals>>

NotCopied == -1
NoSnap == [f \in Fields |-> NotCopied]

Init ==
  /\ mu = Unlocked
  /\ closed = FALSE
  /\ cancelled = FALSE
  /\ metrics = [f \in Fields |-> 0]
  /\ moved = [f \in Fields |-> 0]
  /\ shut = 0
  /\ attached = FALSE
  /\ subs = {}
  /\ hwm = DefaultHWM
  /\ inbox = 0
  /\ outq = 0
  /\ arrived = 0
  /\ pc = [p \in Procs |-> "idle"]
  /\ op = [p \in Procs |-> "none"]
  /\ reg = [p \in Procs |-> 0]
  /\ left = [p \in Procs |-> 0]
  /\ snap = [p \in Procs |-> NoSnap]

At(p, label) == pc[p] = label
Goto(p, label) == pc' = [pc EXCEPT ![p] = label]

-----------------------------------------------------------------------------
(* Entering a method *)

PendingSends == {q \in Procs : pc[q] # "idle" /\ op[q] \in SendOps}

\* Mutant: Close goes for the lock without cancelling the context.
CallSkipsCancel(p) ==
  /\ At(p, "idle")
  /\ \E o \in Calls[p] : op' = [op EXCEPT ![p] = o]
  /\ Goto(p, "lock")
  /\ UNCHANGED <<mu, closed, cancelled, metrics, backend, moved, locals>>

\* A goroutine calls a method.  The bound on successful sends is a bound on
\* calls, so that a Send that has started is never held up by it.
Call(p) ==
  /\ At(p, "idle")
  /\ \E o \in Calls[p] :
       /\ o \in SendOps =>
            moved["MessagesSent"] + Cardinality(PendingSends) < MaxSends
       /\ op' = [op EXCEPT ![p] = o]
       /\ Goto(p, IF o = "Close" THEN "cancel" ELSE "lock")
  /\ UNCHANGED <<mu, closed, cancelled, metrics, backend, moved, locals>>

\* Close cancels the context before it asks for the lock.
Cancel(p) ==
  /\ At(p, "cancel")
  /\ cancelled' = TRUE
  /\ Goto(p, "lock")
  /\ UNCHANGED <<mu, closed, metrics, backend, moved, op, locals>>

ReadLock(p) ==
  /\ At(p, "lock") /\ op[p] \in ReadOps
  /\ mu' = RLock(mu, p)
  /\ Goto(p, "wait")
  /\ UNCHANGED <<closed, cancelled, metrics, backend, moved, op, locals>>

WriteLock(p) ==
  /\ At(p, "lock") /\ op[p] \notin ReadOps
  /\ CanAnnounce(mu)
  /\ mu' = Announce(mu, p)
  /\ Goto(p, "wait")
  /\ UNCHANGED <<closed, cancelled, metrics, backend, moved, op, locals>>

\* p is past its Lock or RLock.
Holds(p) == IF op[p] \in ReadOps THEN HoldsRead(mu, p) ELSE HoldsWrite(mu, p)

\* Mutant: nobody looks at s.closed.
EnterUnchecked(p) ==
  /\ At(p, "wait") /\ Holds(p)
  /\ Goto(p, "backend") /\ closed' = (closed \/ op[p] = "Close")
  /\ UNCHANGED <<mu, cancelled, metrics, backend, moved, op, locals>>

\* Every method but GetMetrics leaves at once on a closed socket: with
\* ErrNotConnected, or with nil in the case of Close, which otherwise sets the
\* flag.
Enter(p) ==
  /\ At(p, "wait") /\ Holds(p)
  /\ IF closed /\ op[p] # "GetMetrics"
     THEN Goto(p, "unlock") /\ UNCHANGED closed
     ELSE Goto(p, "backend") /\ closed' = (closed \/ op[p] = "Close")
  /\ UNCHANGED <<mu, cancelled, metrics, backend, moved, op, locals>>

-----------------------------------------------------------------------------
(* Inside a method: the backend call *)

InBackend(p, ops) == At(p, "backend") /\ op[p] \in ops

\* Listen or Dial succeeds.
Attach(p) ==
  /\ InBackend(p, AttachOps)
  /\ attached' = TRUE
  /\ Goto(p, "unlock")
  /\ UNCHANGED <<mu, closed, cancelled, metrics, shut, subs, hwm, inbox, outq,
                 arrived, moved, op, locals>>

\* Of a message of n frames, how many the method moves between its caller and
\* the backend: Recv keeps the first and drops the others.
MovedFrames(p, n) == IF op[p] = "Recv" THEN 1 ELSE n

\* Mutant: a method also counts what Recv drops.
CountDroppedFrames(p, n) == n
\* And how many it counts the bytes of.
CountedFrames(p, n) == IF op[p] = "Recv" THEN 1 ELSE n

\* The backend takes a message as long as it is below the high-water mark.
Transmit(p) ==
  /\ InBackend(p, SendOps)
  /\ outq < hwm
  /\ outq' = outq + 1
  /\ \E n \in IF op[p] = "Send" THEN {1} ELSE FrameCounts :
       /\ left' = [left EXCEPT ![p] = CountedFrames(p, n)]
       /\ moved' = [moved EXCEPT !["MessagesSent"] = @ + 1,
                                 !["BytesSent"] = @ + MovedFrames(p, n)]
  /\ Goto(p, "loadMessages")
  /\ UNCHANGED <<mu, closed, cancelled, metrics, shut, attached, subs, hwm,
                 inbox, arrived, op, reg, snap>>

\* The backend hands out a message.  One without frames Recv returns as empty
\* data, uncounted.
Receive(p) ==
  /\ InBackend(p, RecvOps)
  /\ inbox > 0
  /\ inbox' = inbox - 1
  /\ \E n \in FrameCounts :
       IF op[p] = "Recv" /\ n = 0
       THEN Goto(p, "unlock") /\ UNCHANGED <<left, moved>>
       ELSE /\ left' = [left EXCEPT ![p] = CountedFrames(p, n)]
            /\ moved' = [moved EXCEPT !["MessagesReceived"] = @ + 1,
                                      !["BytesReceived"] = @ + MovedFrames(p, n)]
            /\ Goto(p, "loadMessages")
  /\ UNCHANGED <<mu, closed, cancelled, metrics, shut, attached, subs, hwm,
                 outq, arrived, op, reg, snap>>

\* A SUB socket changes the backend's filters, an XSUB socket sends the request
\* as a message that no counter sees, any other type is refused.
Subscription(p) ==
  /\ InBackend(p, SubscribeOps)
  /\ IF SocketType = "SUB"
     THEN /\ \E f \in Filters : subs' = IF op[p] = "Subscribe" THEN subs \cup {f}
                                                               ELSE subs \ {f}
          /\ UNCHANGED outq
     ELSE /\ IF SocketType = "XSUB" THEN outq < hwm /\ outq' = outq + 1
                                    ELSE UNCHANGED outq
          /\ UNCHANGED subs
  /\ Goto(p, "unlock")
  /\ UNCHANGED <<mu, closed, cancelled, metrics, shut, attached, hwm, inbox,
                 arrived, moved, op, locals>>

\* SetOption: sndhwm and rcvhwm with an int reach the backend; linger,
\* identity and the timeouts are accepted and dropped; the rest is an error.
SetOption(p) ==
  /\ InBackend(p, {"SetOption"})
  /\ hwm' \in HWMs \cup {hwm}
  /\ Goto(p, "unlock")
  /\ UNCHANGED <<mu, closed, cancelled, metrics, shut, attached, subs, inbox,
                 outq, arrived, moved, op, locals>>

\* GetOption answers from constants and from fields set at creation.
GetOption(p) ==
  /\ InBackend(p, {"GetOption"})
  /\ Goto(p, "unlock")
  /\ UNCHANGED <<mu, closed, cancelled, metrics, backend, moved, op, locals>>

\* Close's call of s.socket.Close, whatever it returns.
Shut(p) ==
  /\ InBackend(p, {"Close"})
  /\ shut' = shut + 1
  /\ Goto(p, "unlock")
  /\ UNCHANGED <<mu, closed, cancelled, metrics, attached, subs, hwm, inbox,
                 outq, arrived, moved, op, locals>>

\* GetMetrics copies the struct, a word at a time and in no order the language
\* promises.
CopyField(p) ==
  /\ InBackend(p, {"GetMetrics"})
  /\ \E f \in Fields :
       /\ snap[p][f] = NotCopied
       /\ snap' = [snap EXCEPT ![p][f] = metrics[f]]
  /\ Goto(p, IF \E f, g \in Fields : /\ f # g
                                    /\ snap[p][f] = NotCopied
                                    /\ snap[p][g] = NotCopied
             THEN "backend" ELSE "unlock")
  /\ UNCHANGED <<mu, closed, cancelled, metrics, backend, moved, op, reg, left>>

\* The backend call of a method fails and the method returns its error.
BackendError(p) ==
  /\ InBackend(p, BlockingOps \cup AttachOps \cup SubscribeOps \cup {"SetOption"})
  /\ Goto(p, "unlock")
  /\ UNCHANGED <<mu, closed, cancelled, metrics, backend, moved, op, locals>>

\* The same, because the context is cancelled: the one error that is certain to
\* come to a call that would otherwise block.
Interrupted(p) ==
  /\ cancelled
  /\ InBackend(p, BlockingOps \cup SubscribeOps)
  /\ Goto(p, "unlock")
  /\ UNCHANGED <<mu, closed, cancelled, metrics, backend, moved, op, locals>>

-----------------------------------------------------------------------------
(* Inside a method: the counters.  Send and SendMultipart count what they     *)
(* sent, Recv and RecvMultipart what they hand to their caller: one message   *)
(* and then the bytes of its frames, one frame at a time.                     *)

MessagesField(p) == IF op[p] \in SendOps THEN "MessagesSent" ELSE "MessagesReceived"
BytesField(p) == IF op[p] \in SendOps THEN "BytesSent" ELSE "BytesReceived"

Load(p, f, label) ==
  /\ reg' = [reg EXCEPT ![p] = metrics[f]]
  /\ Goto(p, label)
  /\ UNCHANGED <<mu, closed, cancelled, metrics, backend, moved, op, left, snap>>

LoadMessages(p) ==
  /\ At(p, "loadMessages")
  /\ Load(p, MessagesField(p), "storeMessages")

LoadBytes(p) ==
  /\ At(p, "loadBytes")
  /\ Load(p, BytesField(p), "storeBytes")

StoreMessages(p) ==
  /\ At(p, "storeMessages")
  /\ metrics' = [metrics EXCEPT ![MessagesField(p)] = reg[p] + 1]
  /\ Goto(p, IF left[p] = 0 THEN "unlock" ELSE "loadBytes")
  /\ UNCHANGED <<mu, closed, cancelled, backend, moved, op, locals>>

\* Mutant: the loop over the frames runs once too often.
StoreBytesOnceMore(p) ==
  /\ At(p, "storeBytes")
  /\ metrics' = [metrics EXCEPT ![BytesField(p)] = reg[p] + 1]
  /\ left' = [left EXCEPT ![p] = @ - 1]
  /\ Goto(p, IF left[p] = 0 THEN "unlock" ELSE "loadBytes")
  /\ UNCHANGED <<mu, closed, cancelled, backend, moved, op, reg, snap>>

StoreBytes(p) ==
  /\ At(p, "storeBytes")
  /\ metrics' = [metrics EXCEPT ![BytesField(p)] = reg[p] + 1]
  /\ left' = [left EXCEPT ![p] = @ - 1]
  /\ Goto(p, IF left[p] = 1 THEN "unlock" ELSE "loadBytes")
  /\ UNCHANGED <<mu, closed, cancelled, backend, moved, op, reg, snap>>

-----------------------------------------------------------------------------
(* Leaving a method: the deferred unlock *)

\* Mutant: the early return on a closed socket forgets the unlock.
ReturnLocked(p) ==
  /\ At(p, "unlock")
  /\ mu' = CASE closed /\ op[p] # "Close" -> mu
             [] op[p] \in ReadOps -> RUnlock(mu, p)
             [] OTHER -> Unlock(mu)
  /\ op' = [op EXCEPT ![p] = "none"]
  /\ Goto(p, "idle")
  /\ reg' = [reg EXCEPT ![p] = 0]
  /\ left' = [left EXCEPT ![p] = 0]
  /\ snap' = [snap EXCEPT ![p] = NoSnap]
  /\ UNCHANGED <<closed, cancelled, metrics, backend, moved>>

Return(p) ==
  /\ At(p, "unlock")
  /\ mu' = IF op[p] \in ReadOps THEN RUnlock(mu, p) ELSE Unlock(mu)
  /\ op' = [op EXCEPT ![p] = "none"]
  /\ Goto(p, "idle")
  /\ reg' = [reg EXCEPT ![p] = 0]
  /\ left' = [left EXCEPT ![p] = 0]
  /\ snap' = [snap EXCEPT ![p] = NoSnap]
  /\ UNCHANGED <<closed, cancelled, metrics, backend, moved>>

-----------------------------------------------------------------------------
(* The peers *)

\* A peer's message reaches the backend; a SUB socket drops what it has no
\* filter for.
PeerSends ==
  /\ shut = 0 /\ attached
  /\ arrived < MaxArrivals
  /\ SocketType = "SUB" => subs # {}
  /\ arrived' = arrived + 1
  /\ inbox' = inbox + 1
  /\ UNCHANGED <<mu, closed, cancelled, metrics, shut, attached, subs, hwm, outq,
                 moved, pc, op, locals>>

\* A peer takes a message the backend has accepted.
PeerTakes ==
  /\ outq > 0
  /\ outq' = outq - 1
  /\ UNCHANGED <<mu, closed, cancelled, metrics, shut, attached, subs, hwm, inbox,
                 arrived, moved, pc, op, locals>>

-----------------------------------------------------------------------------

\* What a goroutine inside a method does of its own accord.
Step(p) ==
  \/ Cancel(p) \/ ReadLock(p) \/ Enter(p)
  \/ Attach(p) \/ Transmit(p) \/ Receive(p) \/ Subscription(p)
  \/ SetOption(p) \/ GetOption(p) \/ Shut(p) \/ CopyField(p) \/ Interrupted(p)
  \/ LoadMessages(p) \/ StoreMessages(p) \/ LoadBytes(p) \/ StoreBytes(p)
  \/ Return(p)

Next ==
  \/ \E p \in Procs : Call(p) \/ WriteLock(p) \/ Step(p) \/ BackendError(p)
  \/ PeerSends
  \/ PeerTakes

\* A goroutine that can run does run, and the inner mutex of a sync.RWMutex does
\* not pass over the same waiter for ever (sync.Mutex hands over in order once a
\* waiter starves).  Nothing makes a goroutine call a method, a backend call
\* fail, or a peer send or take a message.
Fairness == \A p \in Procs : WF_vars(Step(p)) /\ SF_vars(WriteLock(p))

Spec == Init /\ [][Next]_vars
FairSpec == Spec /\ Fairness
-----------------------------------------------------------------------------
(* Properties *)

Labels == {"idle", "cancel", "lock", "wait", "backend", "loadMessages",
           "storeMessages", "loadBytes", "storeBytes", "unlock"}

\* Every variable has its type.
TypeOK ==
  /\ mu \in Mutexes(Procs)
  /\ closed \in BOOLEAN /\ cancelled \in BOOLEAN /\ attached \in BOOLEAN
  /\ metrics \in [Fields -> Nat] /\ moved \in [Fields -> Nat]
  /\ shut \in Nat /\ hwm \in Nat /\ inbox \in Nat /\ outq \in Nat
  /\ arrived \in 0..MaxArrivals
  /\ subs \in SUBSET Filters
  /\ pc \in [Procs -> Labels]
  /\ op \in [Procs -> Ops \cup {"none"}]
  /\ reg \in [Procs -> Nat] /\ left \in [Procs -> Nat]
  /\ snap \in [Procs -> [Fields -> Nat \cup {NotCopied}]]

\* backend.go's Close: a method that is in the middle of a backend call, or has
\* yet to make it, never finds that s.socket has been closed under it, and
\* concurrent Closes shut the backend once.
BackendOps == BlockingOps \cup SubscribeOps \cup AttachOps \cup {"SetOption"}
NoUseAfterClose ==
  /\ shut <= 1
  /\ shut > 0 => closed /\ \A p \in Procs : ~InBackend(p, BackendOps)

\* Nothing of a socket changes once Close has shut the backend: a Recv whose
\* message came before the Close has counted it by then.
ClosedFreezes ==
  [][shut > 0 => UNCHANGED <<metrics, moved, attached, subs, hwm>>]_vars

Counting(p) == pc[p] \in {"loadMessages", "storeMessages", "loadBytes", "storeBytes"}
Exact(ops, fields) ==
  (\A p \in Procs : op[p] \in ops => ~Counting(p)) =>
     \A f \in fields : metrics[f] = moved[f]

\* Whenever no Send is between the backend and its unlock, MessagesSent and
\* BytesSent are exactly what the backend accepted, however many goroutines
\* send: Send and SendMultipart count under the write lock.
SentExact == Exact(SendOps, SentFields)

\* The same of MessagesReceived and BytesReceived, which Recv and RecvMultipart
\* count under the read lock.
ReceivedExact == Exact(RecvOps, ReceivedFields)

\* However the unsynchronised increments of concurrent receivers interleave, no
\* counter ever runs ahead of what really moved.
NeverOvercounts == \A f \in Fields : metrics[f] <= moved[f]

Copied(p) == op[p] = "GetMetrics" /\ At(p, "unlock")

\* A copy that GetMetrics returns has sent counters that were all true at once.
SnapshotSentExact ==
  \A p \in Procs : Copied(p) => \A f \in SentFields : snap[p][f] = moved[f]

\* Who is past his lock and not yet unlocked, and who waits for s.mu.
Inside == {p \in Procs : pc[p] \notin {"idle", "cancel", "lock"} /\ Holds(p)}
WaitsForMu(p) ==
  \/ At(p, "lock") /\ op[p] \notin ReadOps /\ ~CanAnnounce(mu)
  \/ At(p, "wait") /\ ~Holds(p)

\* s.mu is never left locked behind: who waits for it, a reader that a waiting
\* writer turned away included, waits for a goroutine that is in a method and
\* has it; and by the time a Close waits, the context that gets such a goroutine
\* out of the backend is cancelled.
SomebodyHasMu ==
  \A p \in Procs : WaitsForMu(p) => Inside # {} /\ (op[p] = "Close" => cancelled)

\* A Close waits only for the calls that were inside when it asked for the lock:
\* from then on calls leave, and no Recv, however many there are, gets in before
\* it.
CloseIsNotOvertaken ==
  [][\A p \in Procs : At(p, "wait") /\ op[p] = "Close" => Inside' \subseteq Inside \cup {p}]_vars

\* Close cancels the context first "to unblock pending Recv operations": once a
\* Close has been called, every call that is under way returns, the Close
\* included.
CloseDrains ==
  \A p \in Procs :
    (pc[p] # "idle" /\ \E q \in Procs : op[q] = "Close") ~> pc[p] = "idle"

\* A Send returns as long as the backend has room for its message.
SendReturns ==
  \A p \in Procs :
    (op[p] \in SendOps) ~> (pc[p] = "idle" \/ outq >= hwm)

\* Who is using the backend, as SocketLife sees it.
Users == {p \in Procs : /\ pc[p] \notin {"idle", "cancel", "lock", "wait", "unlock"}
                         /\ op[p] \notin {"Close", "GetMetrics"}}
Life == INSTANCE SocketLife WITH Users <- Procs, users <- Users

\* The socket keeps SocketLife's promise.
LifeSpec == Life!Spec
=============================================================================
