-------------------------- MODULE ZmqSocketProofs --------------------------
(***************************************************************************)
(* What is proved of ZmqSocket for any number of goroutines, any           *)
(* assignment of methods to them and any bounds.                           *)
(***************************************************************************)
EXTENDS ZmqSocket, RWMutexProofs, TLAPS

USE DEF At, Goto

\* Types are inductive together with this: who is about to count a byte has one
\* left to count.
BytesLeft == \A p \in Procs : pc[p] \in {"loadBytes", "storeBytes"} => left[p] > 0
Typed == TypeOK /\ BytesLeft

-----------------------------------------------------------------------------
(* Types *)

\* The initial state is well typed.
LEMMA InitType == Init => Typed
<1> USE BoundsAssumption, ProcsAssumption
<1> SUFFICES ASSUME Init PROVE Typed
  OBVIOUS
<1>1. mu \in Mutexes(Procs)
  BY DEF Init, Unlocked, Mutexes
<1>2. /\ metrics \in [Fields -> Nat] /\ moved \in [Fields -> Nat]
      /\ snap \in [Procs -> [Fields -> Nat \cup {NotCopied}]]
  BY DEF Init, NoSnap
<1>3. /\ pc \in [Procs -> Labels] /\ op \in [Procs -> Ops \cup {"none"}]
      /\ reg \in [Procs -> Nat] /\ left \in [Procs -> Nat]
  BY DEF Init, Labels
<1>4. /\ shut \in Nat /\ hwm \in Nat /\ inbox \in Nat /\ outq \in Nat
      /\ arrived \in 0..MaxArrivals /\ subs \in SUBSET Filters
  BY DEF Init
<1>5. closed \in BOOLEAN /\ cancelled \in BOOLEAN /\ attached \in BOOLEAN
  BY Zenon DEF Init
<1>6. BytesLeft
  BY DEF Init, BytesLeft
<1>7. QED
  BY <1>1, <1>2, <1>3, <1>4, <1>5, <1>6 DEF Typed, TypeOK

\* Every step keeps the types.
LEMMA StepType == Typed /\ [Next]_vars => Typed'
<1> USE BoundsAssumption, ProcsAssumption, CallsAssumption
<1> SUFFICES ASSUME Typed, [Next]_vars PROVE Typed'
  OBVIOUS
<1> USE DEF Typed, BytesLeft, TypeOK, Labels
<1>1. ASSUME NEW p \in Procs, Call(p) PROVE Typed'
  BY <1>1 DEF Call, backend, locals, Ops
<1>2. ASSUME NEW p \in Procs, Cancel(p) PROVE Typed'
  BY <1>2 DEF Cancel, backend, locals
<1>3. ASSUME NEW p \in Procs, ReadLock(p) PROVE Typed'
  BY <1>3, MutexType DEF ReadLock, backend, locals
<1>4. ASSUME NEW p \in Procs, WriteLock(p) PROVE Typed'
  BY <1>4, MutexType DEF WriteLock, backend, locals
<1>5. ASSUME NEW p \in Procs, Enter(p) PROVE Typed'
  BY <1>5 DEF Enter, backend, locals
<1>6. ASSUME NEW p \in Procs, Attach(p) PROVE Typed'
  BY <1>6 DEF Attach, InBackend, locals
<1>7. ASSUME NEW p \in Procs, Transmit(p) PROVE Typed'
  <2>1. PICK n \in Nat : /\ left' = [left EXCEPT ![p] = n]
                         /\ moved' = [moved EXCEPT !["MessagesSent"] = @ + 1,
                                                  !["BytesSent"] = @ + n]
    BY <1>7 DEF Transmit, MovedFrames, CountedFrames
  <2>2. left' \in [Procs -> Nat]
    BY <2>1
  <2> moved' \in [Fields -> Nat]
    <3>1. moved["MessagesSent"] + 1 \in Nat /\ moved["BytesSent"] + n \in Nat
      BY DEF Fields, SentFields
    <3>2. QED
      BY <2>1, <3>1
  <2>3. BytesLeft'
    BY <1>7, <2>1 DEF Transmit
  <2>4. pc' \in [Procs -> Labels] /\ outq' \in Nat
    BY <1>7 DEF Transmit
  <2>5. UNCHANGED <<mu, closed, cancelled, metrics, shut, attached, subs, hwm,
                    inbox, arrived, op, reg, snap>>
    BY <1>7 DEF Transmit
  <2>6. QED
    BY <2>2, <2>3, <2>4, <2>5
<1>8. ASSUME NEW p \in Procs, Receive(p) PROVE Typed'
  <2>1. moved' \in [Fields -> Nat] /\ left' \in [Procs -> Nat]
    BY <1>8 DEF Receive, Fields, ReceivedFields, MovedFrames, CountedFrames
  <2>2. BytesLeft'
    BY <1>8 DEF Receive
  <2>3. QED
    BY <1>8, <2>1, <2>2 DEF Receive
<1>9. ASSUME NEW p \in Procs, Subscription(p) PROVE Typed'
  BY <1>9 DEF Subscription, InBackend, locals
<1>10. ASSUME NEW p \in Procs, SetOption(p) PROVE Typed'
  BY <1>10 DEF SetOption, InBackend, locals
<1>11. ASSUME NEW p \in Procs, GetOption(p) PROVE Typed'
  BY <1>11 DEF GetOption, backend, locals
<1>12. ASSUME NEW p \in Procs, Shut(p) PROVE Typed'
  BY <1>12 DEF Shut, InBackend, locals
<1>13. ASSUME NEW p \in Procs, CopyField(p) PROVE Typed'
  BY <1>13 DEF CopyField, InBackend, backend
<1>14. ASSUME NEW p \in Procs, Interrupted(p) \/ BackendError(p) PROVE Typed'
  BY <1>14 DEF Interrupted, BackendError, backend, locals
<1>15. ASSUME NEW p \in Procs, LoadMessages(p) \/ LoadBytes(p) PROVE Typed'
  BY <1>15 DEF LoadMessages, LoadBytes, Load, backend, MessagesField, BytesField,
               Fields, SentFields, ReceivedFields
<1>16. ASSUME NEW p \in Procs, StoreMessages(p) PROVE Typed'
  BY <1>16 DEF StoreMessages, backend, locals, MessagesField,
               Fields, SentFields, ReceivedFields
<1>17. ASSUME NEW p \in Procs, StoreBytes(p) PROVE Typed'
  BY <1>17 DEF StoreBytes, backend, BytesField, Fields, SentFields, ReceivedFields
<1>18. ASSUME NEW p \in Procs, Return(p) PROVE Typed'
  BY <1>18, MutexType DEF Return, backend, NoSnap
<1>19. CASE PeerSends \/ PeerTakes
  BY <1>19 DEF PeerSends, PeerTakes, locals
<1>20. CASE UNCHANGED vars
  BY <1>20 DEF vars, backend, locals
<1>21. QED
  BY <1>1, <1>2, <1>3, <1>4, <1>5, <1>6, <1>7, <1>8, <1>9, <1>10, <1>11, <1>12,
     <1>13, <1>14, <1>15, <1>16, <1>17, <1>18, <1>19, <1>20 DEF Next, Step

\* Every variable of the socket keeps its type in every behaviour.
THEOREM TypeCorrect == Spec => []TypeOK
  BY InitType, StepType, PTL DEF Spec, Typed

-----------------------------------------------------------------------------
(* The inductive invariant.  SentExact and NoUseAfterClose do not hold on      *)
(* their own from one step to the next: they rest on what the lock excludes,   *)
(* and on what a goroutine knows while it is inside.                           *)

Active == {"backend", "loadMessages", "storeMessages", "loadBytes", "storeBytes",
           "unlock"}

\* A goroutine between its lock and its unlock is one of the readers, or the
\* writer that no reader is inside with.
Exclusion ==
  \A p \in Procs : pc[p] \in Active =>
    IF op[p] \in ReadOps THEN p \in mu.readers
                         ELSE mu.writer = p /\ mu.readers = {}

\* What is known of closed and of the backend by who is inside.
Closing ==
  /\ shut <= 1
  /\ shut > 0 => closed
  /\ \A p \in Procs : InBackend(p, {"Close"}) => closed /\ shut = 0
  /\ \A p \in Procs :
       pc[p] \in Active \ {"unlock"} /\ op[p] \notin {"Close", "GetMetrics"} => ~closed
  /\ \A p \in Procs : Counting(p) => op[p] \in SendOps \cup RecvOps

\* How far the methods ops have got with their counting in the fields M and B.
Account(ops, M, B) ==
  \A p \in Procs : op[p] \in ops =>
    /\ pc[p] \in {"loadMessages", "storeMessages"} => moved[M] = metrics[M] + 1
    /\ pc[p] = "storeMessages" => reg[p] = metrics[M]
    /\ pc[p] \in {"loadBytes", "storeBytes"} => moved[M] = metrics[M]
    /\ Counting(p) => moved[B] = metrics[B] + left[p]
    /\ pc[p] = "storeBytes" => reg[p] = metrics[B]

Sending == Account(SendOps, "MessagesSent", "BytesSent")

\* What a GetMetrics has copied of the sent counters is true as long as it is
\* inside.
Copying ==
  \A p \in Procs :
    /\ pc[p] \notin {"backend", "unlock"} \/ op[p] # "GetMetrics" => snap[p] = NoSnap
    /\ \A f \in SentFields : snap[p][f] \in {NotCopied, moved[f]}
    /\ Copied(p) => \A f \in Fields : snap[p][f] # NotCopied

Inv == Typed /\ Exclusion /\ Closing /\ Sending /\ SentExact /\ Copying

USE DEF Active

\* Every step keeps the exclusion: a reader and a writer, or two writers, are
\* never inside together.
LEMMA StepExclusion == Typed /\ Exclusion /\ [Next]_vars => Exclusion'
<1> USE ProcsAssumption
<1> SUFFICES ASSUME Typed, Exclusion, [Next]_vars PROVE Exclusion'
  OBVIOUS
<1>t. /\ mu \in Mutexes(Procs) /\ pc \in [Procs -> Labels]
      /\ op \in [Procs -> Ops \cup {"none"}]
  BY DEF Typed, TypeOK
<1>1. ASSUME NEW p \in Procs, pc[p] \in Active, UNCHANGED <<mu, op>>,
             NEW l \in Labels, pc' = [pc EXCEPT ![p] = l]
      PROVE  Exclusion'
  BY <1>1, <1>t DEF Exclusion
<1>2. ASSUME NEW p \in Procs, Call(p) \/ Cancel(p) PROVE Exclusion'
  BY <1>2, <1>t DEF Exclusion, Call, Cancel
<1>3. ASSUME NEW p \in Procs, ReadLock(p) PROVE Exclusion'
  BY <1>3, <1>t DEF Exclusion, ReadLock, RLock, Mutexes
<1>4. ASSUME NEW p \in Procs, WriteLock(p) PROVE Exclusion'
  BY <1>4, <1>t DEF Exclusion, WriteLock, CanAnnounce, Announce, Mutexes
<1>5. ASSUME NEW p \in Procs, Enter(p) PROVE Exclusion'
  BY <1>5, <1>t DEF Exclusion, Enter, Holds, HoldsRead, HoldsWrite
<1>6. ASSUME NEW p \in Procs, Return(p) PROVE Exclusion'
  BY <1>6, <1>t DEF Exclusion, Return, RUnlock, Unlock, Mutexes
<1>7. ASSUME NEW p \in Procs,
             \/ Attach(p) \/ Transmit(p) \/ Receive(p) \/ Subscription(p)
             \/ SetOption(p) \/ GetOption(p) \/ Shut(p) \/ CopyField(p)
             \/ Interrupted(p) \/ BackendError(p)
      PROVE  Exclusion'
  <2>1. pc[p] = "backend" /\ UNCHANGED <<mu, op>>
    BY <1>7 DEF InBackend, Attach, Transmit, Receive, Subscription, SetOption,
                GetOption, Shut, CopyField, Interrupted, BackendError
  <2>2. \E l \in Labels : pc' = [pc EXCEPT ![p] = l]
    BY <1>7 DEF InBackend, Attach, Transmit, Receive, Subscription, SetOption,
                GetOption, Shut, CopyField, Interrupted, BackendError, Labels
  <2>3. QED
    BY <1>1, <2>1, <2>2
<1>8. ASSUME NEW p \in Procs,
             LoadMessages(p) \/ StoreMessages(p) \/ LoadBytes(p) \/ StoreBytes(p)
      PROVE  Exclusion'
  <2>1. pc[p] \in Active /\ UNCHANGED <<mu, op>>
    BY <1>8 DEF LoadMessages, StoreMessages, LoadBytes, StoreBytes, Load
  <2>2. \E l \in Labels : pc' = [pc EXCEPT ![p] = l]
    BY <1>8 DEF LoadMessages, StoreMessages, LoadBytes, StoreBytes, Load, Labels
  <2>3. QED
    BY <1>1, <2>1, <2>2
<1>9. CASE PeerSends \/ PeerTakes \/ UNCHANGED vars
  BY <1>9 DEF PeerSends, PeerTakes, vars, Exclusion
<1>10. QED
  BY <1>2, <1>3, <1>4, <1>5, <1>6, <1>7, <1>8, <1>9 DEF Next, Step

\* A writer that is inside is the only one inside.
LEMMA Alone ==
  ASSUME Exclusion, NEW p \in Procs, NEW q \in Procs,
         pc[p] \in Active, pc[q] \in Active, op[p] \notin ReadOps
  PROVE  q = p
  BY DEF Exclusion

\* The same for a writer that is just getting in.
LEMMA AloneAtDoor ==
  ASSUME Exclusion, NEW p \in Procs, NEW q \in Procs,
         pc[q] \in Active, HoldsWrite(mu, p)
  PROVE  q = p
  BY DEF Exclusion, HoldsWrite

\* Every step keeps what is known of closed and of the backend.
LEMMA StepClosing == Typed /\ Exclusion /\ Closing /\ [Next]_vars => Closing'
<1> USE ProcsAssumption DEF Closing, InBackend, Counting
<1> SUFFICES ASSUME Typed, Exclusion, Closing, [Next]_vars PROVE Closing'
  OBVIOUS
<1>t. /\ pc \in [Procs -> Labels] /\ op \in [Procs -> Ops \cup {"none"}]
      /\ shut \in Nat /\ closed \in BOOLEAN
  BY DEF Typed, TypeOK
<1>1. ASSUME NEW p \in Procs,
             Call(p) \/ Cancel(p) \/ ReadLock(p) \/ WriteLock(p) \/ Return(p)
      PROVE  Closing'
  BY <1>1, <1>t DEF Call, Cancel, ReadLock, WriteLock, Return, backend
<1>2. ASSUME NEW p \in Procs, Enter(p) PROVE Closing'
  <2>1. CASE closed /\ op[p] # "GetMetrics"
    BY <1>2, <2>1, <1>t DEF Enter, backend
  <2>2. CASE ~closed /\ op[p] = "Close"
    <3>1. HoldsWrite(mu, p)
      BY <1>2, <2>2 DEF Enter, Holds, ReadOps, RecvOps
    <3>2. \A q \in Procs : pc[q] \in Active => q = p
      BY <3>1, AloneAtDoor
    <3>3. closed' /\ pc' = [pc EXCEPT ![p] = "backend"] /\ UNCHANGED <<op, shut>>
      BY <1>2, <2>2 DEF Enter, backend
    <3>4. QED
      BY <2>2, <3>2, <3>3, <1>t
  <2>3. CASE op[p] # "Close" /\ (~closed \/ op[p] = "GetMetrics")
    <3>1. pc' = [pc EXCEPT ![p] = "backend"] /\ UNCHANGED <<op, shut>>
      BY <1>2, <2>3 DEF Enter, backend
    <3>2. closed' = closed
      BY <1>2, <2>3, <1>t DEF Enter
    <3>3. QED
      BY <2>3, <3>1, <3>2, <1>t
  <2>4. QED
    BY <2>1, <2>2, <2>3
<1>3. ASSUME NEW p \in Procs, Shut(p) PROVE Closing'
  <2>1. \A q \in Procs : pc[q] \in Active => q = p
    BY <1>3, Alone DEF Shut, ReadOps, RecvOps
  <2>2. QED
    BY <1>3, <2>1, <1>t DEF Shut
<1>4. ASSUME NEW p \in Procs, Transmit(p) \/ Receive(p) PROVE Closing'
  BY <1>4, <1>t DEF Transmit, Receive, SendOps, RecvOps
<1>5. ASSUME NEW p \in Procs,
             \/ Attach(p) \/ Subscription(p) \/ SetOption(p) \/ GetOption(p)
             \/ CopyField(p) \/ Interrupted(p) \/ BackendError(p)
      PROVE  Closing'
  BY <1>5, <1>t DEF Attach, Subscription, SetOption, GetOption, CopyField,
                    Interrupted, BackendError, backend
<1>6. ASSUME NEW p \in Procs,
             LoadMessages(p) \/ StoreMessages(p) \/ LoadBytes(p) \/ StoreBytes(p)
      PROVE  Closing'
  BY <1>6, <1>t DEF LoadMessages, StoreMessages, LoadBytes, StoreBytes, Load, backend
<1>7. CASE PeerSends \/ PeerTakes \/ UNCHANGED vars
  BY <1>7 DEF PeerSends, PeerTakes, vars, backend
<1>8. QED
  BY <1>1, <1>2, <1>3, <1>4, <1>5, <1>6, <1>7 DEF Next, Step

\* The two methods that count in M and B.
Counters(ops, M, B) ==
  \/ ops = SendOps /\ M = "MessagesSent" /\ B = "BytesSent"
  \/ ops = RecvOps /\ M = "MessagesReceived" /\ B = "BytesReceived"

\* Every step keeps the account of two counters whose methods exclude each other:
\* what one of them loads is still there when it stores.
LEMMA StepAccount ==
  ASSUME NEW ops, NEW M, NEW B, Counters(ops, M, B),
         Typed, Account(ops, M, B), Exact(ops, {M, B}),
         \A p \in Procs : Counting(p) => op[p] \in SendOps \cup RecvOps,
         \A p, q \in Procs :
           op[p] \in ops /\ pc[p] \in Active /\ op[q] \in ops /\ pc[q] \in Active => p = q,
         [Next]_vars
  PROVE  Account(ops, M, B)' /\ Exact(ops, {M, B})'
<1> DEFINE Kept == Account(ops, M, B)' /\ Exact(ops, {M, B})'
<1>t. /\ pc \in [Procs -> Labels] /\ op \in [Procs -> Ops \cup {"none"}]
      /\ metrics \in [Fields -> Nat] /\ moved \in [Fields -> Nat]
      /\ reg \in [Procs -> Nat] /\ left \in [Procs -> Nat]
      /\ BytesLeft
  BY DEF Typed, TypeOK
<1>f. M \in Fields /\ B \in Fields /\ M # B
  BY DEF Counters, Fields, SentFields, ReceivedFields
<1>r. "none" \notin ops /\ SendOps \cap RecvOps = {}
  BY DEF Counters, SendOps, RecvOps
<1>a. \A p \in Procs : op[p] \in ops => MessagesField(p) = M /\ BytesField(p) = B
  BY <1>r DEF Counters, MessagesField, BytesField
<1>b. \A p \in Procs : op[p] \in (SendOps \cup RecvOps) \ ops =>
        MessagesField(p) \notin {M, B} /\ BytesField(p) \notin {M, B}
  BY <1>r DEF Counters, MessagesField, BytesField
<1>c. \A p \in Procs : Counting(p) => op[p] \in SendOps \cup RecvOps
  OBVIOUS
<1>d. \A p, q \in Procs :
        op[p] \in ops /\ pc[p] \in Active /\ op[q] \in ops /\ pc[q] \in Active => p = q
  OBVIOUS
<1> USE DEF Account, Exact, Counting
\* Steps that leave the two counters and who is counting there alone.
<1>1. ASSUME \A f \in {M, B} : metrics'[f] = metrics[f] /\ moved'[f] = moved[f],
             \A q \in Procs : (op[q] \in ops /\ Counting(q)) \/
                              (op'[q] \in ops /\ Counting(q)') =>
                 pc'[q] = pc[q] /\ op'[q] = op[q] /\ reg'[q] = reg[q] /\ left'[q] = left[q]
      PROVE  Kept
  <2>1. Account(ops, M, B)'
    BY <1>1
  <2>2. Exact(ops, {M, B})'
    BY <1>1
  <2>3. QED
    BY <2>1, <2>2
\* A message is moved.
<1>2. ASSUME NEW p \in Procs, op[p] \in ops, pc[p] = "backend", NEW n \in Nat,
             left' = [left EXCEPT ![p] = n],
             moved' = [moved EXCEPT ![M] = @ + 1, ![B] = @ + n],
             pc' = [pc EXCEPT ![p] = "loadMessages"], UNCHANGED <<op, metrics, reg>>
      PROVE  Kept
  <2>1. \A q \in Procs : op[q] \in ops /\ pc[q] \in Active => q = p
    BY <1>2, <1>d
  <2>2. metrics[M] = moved[M] /\ metrics[B] = moved[B]
    BY <1>2, <2>1
  <2>3. moved'[M] = metrics[M] + 1 /\ moved'[B] = metrics[B] + n
    BY <1>2, <2>2, <1>t, <1>f
  <2>4. QED
    BY <1>2, <2>1, <2>3, <1>t
<1>3. ASSUME NEW p \in Procs, StoreMessages(p), op[p] \in ops PROVE Kept
  <2>1. \A q \in Procs : op[q] \in ops /\ pc[q] \in Active => q = p
    BY <1>3, <1>d DEF StoreMessages
  <2>2. metrics' = [metrics EXCEPT ![M] = reg[p] + 1]
    BY <1>3, <1>a DEF StoreMessages
  <2>3. metrics'[M] = moved[M] /\ metrics'[B] = metrics[B]
    BY <1>3, <2>2, <1>t, <1>f DEF StoreMessages
  <2>4. /\ pc' = [pc EXCEPT ![p] = IF left[p] = 0 THEN "unlock" ELSE "loadBytes"]
        /\ UNCHANGED <<op, moved, reg, left>>
    BY <1>3 DEF StoreMessages, locals
  <2>5. moved[B] = metrics[B] + left[p]
    BY <1>3 DEF StoreMessages
  <2>6. QED
    BY <1>3, <2>1, <2>3, <2>4, <2>5, <1>t, <1>f
<1>4. ASSUME NEW p \in Procs, StoreBytes(p), op[p] \in ops PROVE Kept
  <2>1. \A q \in Procs : op[q] \in ops /\ pc[q] \in Active => q = p
    BY <1>4, <1>d DEF StoreBytes
  <2>2. metrics' = [metrics EXCEPT ![B] = reg[p] + 1]
    BY <1>4, <1>a DEF StoreBytes
  <2>3. metrics'[M] = moved[M] /\ metrics'[B] = metrics[B] + 1
    BY <1>4, <2>2, <1>t, <1>f DEF StoreBytes
  <2>4. /\ pc' = [pc EXCEPT ![p] = IF left[p] = 1 THEN "unlock" ELSE "loadBytes"]
        /\ left' = [left EXCEPT ![p] = @ - 1]
        /\ UNCHANGED <<op, moved, reg>>
    BY <1>4 DEF StoreBytes
  <2>5. moved[B] = metrics[B] + left[p]
    BY <1>4 DEF StoreBytes
  <2>6. QED
    BY <1>4, <2>1, <2>3, <2>4, <2>5, <1>t, <1>f
<1>5. ASSUME NEW p \in Procs, LoadMessages(p) \/ LoadBytes(p) PROVE Kept
  BY <1>5, <1>t, <1>f, <1>a, <1>c DEF LoadMessages, LoadBytes, Load
<1>6. ASSUME NEW p \in Procs, StoreMessages(p) \/ StoreBytes(p), op[p] \notin ops PROVE Kept
  <2>1. \A f \in {M, B} : metrics'[f] = metrics[f] /\ moved'[f] = moved[f]
    BY <1>6, <1>t, <1>f, <1>b, <1>c DEF StoreMessages, StoreBytes
  <2>2. QED
    BY <1>6, <2>1, <1>1, <1>t DEF StoreMessages, StoreBytes, locals
<1>7. ASSUME NEW p \in Procs, Transmit(p) \/ Receive(p) PROVE Kept
  <2>1. pc[p] = "backend" /\ UNCHANGED <<op, metrics, reg>>
    BY <1>7 DEF Transmit, Receive, InBackend
  <2>2. CASE op[p] \in ops
    <3>1. CASE pc' = [pc EXCEPT ![p] = "unlock"] /\ UNCHANGED <<left, moved>>
      BY <2>1, <3>1, <1>1, <1>t
    <3>2. CASE ~(pc' = [pc EXCEPT ![p] = "unlock"] /\ UNCHANGED <<left, moved>>)
      <4>1. PICK n \in Nat : /\ left' = [left EXCEPT ![p] = n]
                             /\ moved' = [moved EXCEPT ![M] = @ + 1, ![B] = @ + n]
                             /\ pc' = [pc EXCEPT ![p] = "loadMessages"]
        BY <1>7, <2>2, <3>2, <1>r, BoundsAssumption
           DEF Transmit, Receive, InBackend, Counters, MovedFrames, CountedFrames
      <4>2. QED
        BY <2>1, <2>2, <4>1, <1>2
    <3>3. QED
      BY <3>1, <3>2
  <2>3. CASE op[p] \notin ops
    <3>1. moved'[M] = moved[M] /\ moved'[B] = moved[B]
      BY <1>7, <2>3, <1>t, <1>f DEF Transmit, Receive, InBackend, Counters
    <3>2. \A q \in Procs : q # p => pc'[q] = pc[q] /\ left'[q] = left[q]
      BY <1>7, <1>t DEF Transmit, Receive
    <3>3. QED
      BY <2>1, <2>3, <3>1, <3>2, <1>1
  <2>4. QED
    BY <2>2, <2>3
<1>8. ASSUME NEW p \in Procs,
             Call(p) \/ Cancel(p) \/ ReadLock(p) \/ WriteLock(p) \/ Enter(p) \/ Return(p)
      PROVE  Kept
  BY <1>8, <1>1, <1>t, <1>r DEF Call, Cancel, ReadLock, WriteLock, Enter, Return, locals
<1>9. ASSUME NEW p \in Procs,
             \/ Attach(p) \/ Subscription(p) \/ SetOption(p) \/ GetOption(p)
             \/ Shut(p) \/ CopyField(p) \/ Interrupted(p) \/ BackendError(p)
      PROVE  Kept
  BY <1>9, <1>1, <1>t DEF Attach, Subscription, SetOption, GetOption, Shut,
                          CopyField, Interrupted, BackendError, InBackend, locals
<1>10. CASE PeerSends \/ PeerTakes \/ UNCHANGED vars
  BY <1>10, <1>1 DEF PeerSends, PeerTakes, vars, locals
<1>11. QED
  BY <1>3, <1>4, <1>5, <1>6, <1>7, <1>8, <1>9, <1>10 DEF Next, Step

\* Every step keeps the account of the sent counters: a Send is alone.
LEMMA StepSending ==
  Typed /\ Exclusion /\ Closing /\ Sending /\ SentExact /\ [Next]_vars
    => Sending' /\ SentExact'
<1> SUFFICES ASSUME Typed, Exclusion, Closing, Sending, SentExact, [Next]_vars
             PROVE  Sending' /\ SentExact'
  OBVIOUS
<1>1. Counters(SendOps, "MessagesSent", "BytesSent")
  BY DEF Counters
<1>2. \A p \in Procs : Counting(p) => op[p] \in SendOps \cup RecvOps
  BY DEF Closing
<1>3. \A p, q \in Procs :
        op[p] \in SendOps /\ pc[p] \in Active /\ op[q] \in SendOps /\ pc[q] \in Active => p = q
  <2>1. SendOps \cap ReadOps = {}
    BY DEF SendOps, ReadOps, RecvOps
  <2>2. ASSUME NEW p \in Procs, NEW q \in Procs, op[p] \in SendOps, pc[p] \in Active,
               pc[q] \in Active
        PROVE  q = p
    BY <2>1, <2>2, Alone
  <2>3. QED
    BY <2>2
<1>4. SentFields = {"MessagesSent", "BytesSent"}
  BY DEF SentFields
<1>5. /\ Account(SendOps, "MessagesSent", "BytesSent")'
      /\ Exact(SendOps, {"MessagesSent", "BytesSent"})'
  <2>1. Exact(SendOps, {"MessagesSent", "BytesSent"})
    BY <1>4 DEF SentExact
  <2>2. QED
    BY <1>1, <1>2, <1>3, <2>1, StepAccount DEF Sending
<1>6. SentExact'
  BY <1>4, <1>5 DEF SentExact, Exact
<1>7. QED
  BY <1>5, <1>6 DEF Sending

\* Every step keeps the copies true: no Send is inside while a GetMetrics is.
LEMMA StepCopying ==
  Typed /\ Exclusion /\ Closing /\ SentExact /\ Copying /\ [Next]_vars => Copying'
<1> SUFFICES ASSUME Typed, Exclusion, Closing, SentExact, Copying, [Next]_vars
             PROVE  Copying'
  OBVIOUS
<1>t. /\ pc \in [Procs -> Labels] /\ op \in [Procs -> Ops \cup {"none"}]
      /\ metrics \in [Fields -> Nat] /\ moved \in [Fields -> Nat]
      /\ snap \in [Procs -> [Fields -> Nat \cup {NotCopied}]]
  BY DEF Typed, TypeOK
<1>f. SentFields \subseteq Fields
  BY DEF Fields
<1>n. \A f \in Fields : NoSnap[f] = NotCopied
  BY DEF NoSnap
<1>o. /\ "GetMetrics" \in ReadOps /\ "GetMetrics" \notin SendOps \cup RecvOps
      /\ SendOps \cap ReadOps = {}
  BY DEF ReadOps, SendOps, RecvOps
<1> USE DEF Copying, Copied
\* Steps that leave the copies, the sent counters and every GetMetrics alone.
<1>1. ASSUME NEW p \in Procs, op[p] # "GetMetrics", op'[p] = op[p], snap' = snap,
             \A f \in SentFields : moved'[f] = moved[f],
             \A q \in Procs : q # p => pc'[q] = pc[q] /\ op'[q] = op[q]
      PROVE  Copying'
  BY <1>1, <1>t
<1>2. ASSUME NEW p \in Procs, Transmit(p) PROVE Copying'
  <2>1. op[p] \in SendOps /\ pc[p] = "backend"
    BY <1>2 DEF Transmit, InBackend
  <2>2. \A q \in Procs : pc[q] \in Active => q = p
    BY <2>1, <1>o, Alone
  <2>3. \A q \in Procs : snap[q] = NoSnap
    BY <2>1, <2>2, <1>o
  <2>4. /\ pc' = [pc EXCEPT ![p] = "loadMessages"]
        /\ UNCHANGED <<op, snap>>
    BY <1>2 DEF Transmit
  <2>5. QED
    BY <2>1, <2>2, <2>3, <2>4, <1>t, <1>f, <1>n, <1>o
<1>3. ASSUME NEW p \in Procs, CopyField(p) PROVE Copying'
  <2>1. op[p] = "GetMetrics" /\ pc[p] = "backend"
    BY <1>3 DEF CopyField, InBackend
  <2>2. \A f \in SentFields : metrics[f] = moved[f]
    <3>1. \A q \in Procs : op[q] \in SendOps => ~Counting(q)
      BY <2>1, <1>o, Alone DEF Counting
    <3>2. QED
      BY <3>1 DEF SentExact, Exact
  <2>3. PICK f \in Fields : /\ snap[p][f] = NotCopied
                            /\ snap' = [snap EXCEPT ![p][f] = metrics[f]]
    BY <1>3 DEF CopyField
  <2>4. UNCHANGED <<op, moved>>
    BY <1>3 DEF CopyField
  <2>5. \A q \in Procs : q # p => pc'[q] = pc[q] /\ snap'[q] = snap[q]
    BY <1>3, <2>3, <1>t DEF CopyField
  <2>6. /\ pc'[p] \in {"backend", "unlock"}
        /\ pc'[p] = "unlock" => \A g \in Fields \ {f} : snap[p][g] # NotCopied
    BY <1>3, <2>3, <1>t DEF CopyField
  <2>7. snap'[p] = [snap[p] EXCEPT ![f] = metrics[f]]
    BY <2>3, <1>t
  <2>8. metrics[f] # NotCopied
    BY <1>t DEF NotCopied
  <2>9. \A g \in SentFields : snap'[p][g] \in {NotCopied, moved[g]}
    BY <2>2, <2>7, <1>t, <1>f
  <2>10. pc'[p] = "unlock" => \A g \in Fields : snap'[p][g] # NotCopied
    BY <2>6, <2>7, <2>8, <1>t
  <2>11. QED
    BY <2>1, <2>4, <2>5, <2>6, <2>9, <2>10
<1>4. ASSUME NEW p \in Procs, Return(p) PROVE Copying'
  BY <1>4, <1>t, <1>f, <1>n DEF Return
<1>5. ASSUME NEW p \in Procs,
             Call(p) \/ Cancel(p) \/ ReadLock(p) \/ WriteLock(p) \/ Enter(p)
      PROVE  Copying'
  BY <1>5, <1>t DEF Call, Cancel, ReadLock, WriteLock, Enter, locals
<1>6. ASSUME NEW p \in Procs, Receive(p) PROVE Copying'
  <2>1. \A f \in SentFields : moved'[f] = moved[f]
    BY <1>6, <1>t, <1>f DEF Receive, SentFields
  <2>2. QED
    <3>1. op[p] # "GetMetrics" /\ UNCHANGED <<op, snap>>
      BY <1>6, <1>o DEF Receive, InBackend
    <3>2. \A q \in Procs : q # p => pc'[q] = pc[q]
      BY <1>6, <1>t DEF Receive
    <3>3. QED
      BY <2>1, <3>1, <3>2, <1>1
<1>7. ASSUME NEW p \in Procs,
             LoadMessages(p) \/ StoreMessages(p) \/ LoadBytes(p) \/ StoreBytes(p)
      PROVE  Copying'
  <2>1. op[p] # "GetMetrics"
    BY <1>7, <1>o DEF Closing, Counting, LoadMessages, StoreMessages, LoadBytes, StoreBytes
  <2>2. QED
    BY <1>7, <2>1, <1>1, <1>t DEF LoadMessages, StoreMessages, LoadBytes, StoreBytes,
                                  Load, locals
<1>8. ASSUME NEW p \in Procs,
             \/ Attach(p) \/ Subscription(p) \/ SetOption(p) \/ GetOption(p)
             \/ Shut(p) \/ Interrupted(p) \/ BackendError(p)
      PROVE  Copying'
  <2>1. op[p] # "GetMetrics"
    BY <1>8 DEF Attach, Subscription, SetOption, GetOption, Shut, Interrupted,
                BackendError, InBackend, BlockingOps, AttachOps, SubscribeOps
  <2>2. QED
    BY <1>8, <2>1, <1>1, <1>t DEF Attach, Subscription, SetOption, GetOption, Shut,
                                  Interrupted, BackendError, locals
<1>9. CASE PeerSends \/ PeerTakes \/ UNCHANGED vars
  BY <1>9 DEF PeerSends, PeerTakes, vars, locals
<1>10. QED
  BY <1>2, <1>3, <1>4, <1>5, <1>6, <1>7, <1>8, <1>9 DEF Next, Step

-----------------------------------------------------------------------------
(* The theorems *)

\* The initial state satisfies the invariant.
LEMMA InitInv == Init => Inv
<1> SUFFICES ASSUME Init PROVE Inv
  OBVIOUS
<1>1. Typed
  BY InitType
<1>2. Exclusion /\ Sending
  BY DEF Init, Exclusion, Sending, Account, Counting
<1>3. Closing
  BY DEF Init, Closing, InBackend, Counting
<1>4. SentExact
  BY DEF Init, SentExact, Exact, Fields
<1>5. Copying
  BY DEF Init, Copying, Copied, NoSnap, Fields
<1>6. QED
  BY <1>1, <1>2, <1>3, <1>4, <1>5 DEF Inv

\* The invariant is inductive.
LEMMA StepInv == Inv /\ [Next]_vars => Inv'
  BY StepType, StepExclusion, StepClosing, StepSending, StepCopying DEF Inv

\* The invariant holds in every behaviour.
THEOREM Invariance == Spec => []Inv
  BY InitInv, StepInv, PTL DEF Spec

\* Send and SendMultipart never lose an update: whenever none of them is
\* counting, the sent counters are what the backend accepted.
THEOREM SentExactness == Spec => []SentExact
<1>1. Inv => SentExact
  BY DEF Inv
<1>2. QED
  BY <1>1, Invariance, PTL

\* Only one goroutine receives.
OneReceiver == \A p, q \in Procs : p # q => Calls[p] \cap RecvOps = {} \/ Calls[q] \cap RecvOps = {}

\* Everybody is in a method that he calls.
Called == \A p \in Procs : op[p] \in Calls[p] \cup {"none"}

\* Every step keeps that.
LEMMA StepCalled == Typed /\ Called /\ [Next]_vars => Called'
<1> SUFFICES ASSUME Typed, Called, [Next]_vars PROVE Called'
  OBVIOUS
<1>t. op \in [Procs -> Ops \cup {"none"}]
  BY DEF Typed, TypeOK
<1>1. ASSUME NEW p \in Procs, Call(p) \/ Return(p) PROVE Called'
  BY <1>1, <1>t DEF Call, Return, Called
<1>2. CASE UNCHANGED op
  BY <1>2 DEF Called
<1>3. ASSUME NEW p \in Procs, WriteLock(p) \/ Step(p) \/ BackendError(p), ~Return(p)
      PROVE  UNCHANGED op
  BY <1>3 DEF WriteLock, Step, BackendError, Cancel, ReadLock, Enter, Attach, Transmit, Receive,
              Subscription, SetOption, GetOption, Shut, CopyField, Interrupted, LoadMessages,
              StoreMessages, LoadBytes, StoreBytes, Load
<1>4. PeerSends \/ PeerTakes \/ UNCHANGED vars => UNCHANGED op
  BY DEF PeerSends, PeerTakes, vars
<1>5. QED
  BY <1>1, <1>2, <1>3, <1>4 DEF Next

\* Recv and RecvMultipart, which count under the read lock, lose no update either
\* as long as only one goroutine calls them.
THEOREM ReceivedExactness == ASSUME OneReceiver PROVE Spec => []ReceivedExact
<1> DEFINE Receiving == Account(RecvOps, "MessagesReceived", "BytesReceived")
           RInv == Called /\ Receiving /\ ReceivedExact
<1>f. ReceivedFields = {"MessagesReceived", "BytesReceived"}
  BY DEF ReceivedFields
<1>1. Init => RInv
  BY DEF Init, Called, Account, Counting, ReceivedExact, Exact, Fields
<1>2. Inv /\ RInv /\ [Next]_vars => RInv'
  <2> SUFFICES ASSUME Inv, RInv, [Next]_vars PROVE RInv'
    OBVIOUS
  <2>1. Counters(RecvOps, "MessagesReceived", "BytesReceived")
    BY DEF Counters
  <2>2. Typed /\ \A p \in Procs : Counting(p) => op[p] \in SendOps \cup RecvOps
    BY DEF Inv, Closing
  <2>3. \A p, q \in Procs :
          op[p] \in RecvOps /\ pc[p] \in Active /\ op[q] \in RecvOps /\ pc[q] \in Active => p = q
    <3>1. "none" \notin RecvOps
      BY DEF RecvOps
    <3>2. \A p \in Procs : op[p] \in RecvOps => op[p] \in Calls[p] \cap RecvOps
      BY <3>1 DEF Called
    <3>3. QED
      BY <3>2 DEF OneReceiver
  <2>4. Exact(RecvOps, {"MessagesReceived", "BytesReceived"})
    BY <1>f DEF ReceivedExact
  <2>5. Receiving' /\ Exact(RecvOps, {"MessagesReceived", "BytesReceived"})'
    BY <2>1, <2>2, <2>3, <2>4, StepAccount
  <2>6. ReceivedExact'
    BY <1>f, <2>5 DEF ReceivedExact, Exact
  <2>7. Called'
    BY <2>2, StepCalled
  <2>8. QED
    BY <2>5, <2>6, <2>7
<1>3. QED
  BY <1>1, <1>2, Invariance, PTL DEF Spec

\* No method uses the backend once a Close has shut it, and it is shut once.
THEOREM CloseIsSafe == Spec => []NoUseAfterClose
<1>1. Inv => NoUseAfterClose
  <2> SUFFICES ASSUME Inv PROVE NoUseAfterClose
    OBVIOUS
  <2>1. Closing
    BY DEF Inv
  <2>2. \A p \in Procs : InBackend(p, BackendOps) => ~closed
    BY <2>1 DEF Closing, InBackend, BackendOps, BlockingOps, SubscribeOps, AttachOps
  <2>3. QED
    BY <2>1, <2>2 DEF NoUseAfterClose, Closing
<1>2. QED
  BY <1>1, Invariance, PTL

\* The sent counters that GetMetrics copies were all true at once.
THEOREM SnapshotIsExact == Spec => []SnapshotSentExact
<1>1. Inv => SnapshotSentExact
  <2> SUFFICES ASSUME Inv PROVE SnapshotSentExact
    OBVIOUS
  <2>1. Copying
    BY DEF Inv
  <2>2. SentFields \subseteq Fields
    BY DEF Fields
  <2>3. QED
    BY <2>1, <2>2 DEF Copying, SnapshotSentExact
<1>2. QED
  BY <1>1, Invariance, PTL

\* A socket does not change any more once Close has shut its backend.
THEOREM ClosedIsFrozen == Spec => ClosedFreezes
<1>1. Inv /\ [Next]_vars =>
        [shut > 0 => UNCHANGED <<metrics, moved, attached, subs, hwm>>]_vars
  <2> SUFFICES ASSUME Inv, Next, shut > 0
               PROVE  UNCHANGED <<metrics, moved, attached, subs, hwm>>
    BY DEF vars
  <2>1. Closing
    BY DEF Inv
  <2>2. \A p \in Procs : pc[p] \in Active \ {"unlock"} => op[p] \in {"Close", "GetMetrics"}
    BY <2>1 DEF Closing
  <2>3. \A p \in Procs : ~Counting(p)
    BY <2>1, <2>2 DEF Closing, Counting, SendOps, RecvOps
  <2>4. ASSUME NEW p \in Procs,
               \/ Attach(p) \/ Transmit(p) \/ Receive(p) \/ Subscription(p) \/ SetOption(p)
               \/ LoadMessages(p) \/ StoreMessages(p) \/ LoadBytes(p) \/ StoreBytes(p)
        PROVE  FALSE
    <3>1. pc[p] = "backend"
      BY <2>3, <2>4 DEF Counting, LoadMessages, StoreMessages, LoadBytes, StoreBytes,
                        Attach, Transmit, Receive, Subscription, SetOption, InBackend
    <3>2. op[p] \in SendOps \cup RecvOps \cup SubscribeOps \cup AttachOps \cup {"SetOption"}
      BY <3>1, <2>4 DEF LoadMessages, StoreMessages, LoadBytes, StoreBytes,
                        Attach, Transmit, Receive, Subscription, SetOption, InBackend
    <3>3. QED
      BY <3>1, <3>2, <2>2 DEF SendOps, RecvOps, SubscribeOps, AttachOps
  <2>5. ASSUME NEW p \in Procs,
               \/ Call(p) \/ Cancel(p) \/ ReadLock(p) \/ WriteLock(p) \/ Enter(p) \/ Return(p)
               \/ GetOption(p) \/ Shut(p) \/ CopyField(p) \/ Interrupted(p) \/ BackendError(p)
        PROVE  UNCHANGED <<metrics, moved, attached, subs, hwm>>
    BY <2>5 DEF Call, Cancel, ReadLock, WriteLock, Enter, Return, GetOption, Shut,
                CopyField, Interrupted, BackendError, backend
  <2>6. CASE PeerSends \/ PeerTakes
    BY <2>6 DEF PeerSends, PeerTakes
  <2>7. QED
    BY <2>4, <2>5, <2>6 DEF Next, Step
<1>2. QED
  BY <1>1, Invariance, PTL DEF Spec, ClosedFreezes

-----------------------------------------------------------------------------
(* The socket implements the safety part of SocketLife. *)

\* A Close that is past its first step has cancelled the context.
CancelledFirst ==
  \A p \in Procs : op[p] = "Close" /\ pc[p] \notin {"idle", "cancel"} => cancelled

\* Every step keeps that.
LEMMA StepCancelledFirst == Typed /\ CancelledFirst /\ [Next]_vars => CancelledFirst'
<1> SUFFICES ASSUME Typed, CancelledFirst, [Next]_vars PROVE CancelledFirst'
  OBVIOUS
<1>t. pc \in [Procs -> Labels] /\ op \in [Procs -> Ops \cup {"none"}]
  BY DEF Typed, TypeOK
<1> USE DEF CancelledFirst
<1>1. ASSUME NEW p \in Procs, Call(p) \/ Cancel(p) \/ Return(p) PROVE CancelledFirst'
  BY <1>1, <1>t DEF Call, Cancel, Return
<1>2. ASSUME NEW p \in Procs, pc[p] \notin {"idle", "cancel"}, UNCHANGED <<cancelled, op>>,
             \A q \in Procs : q # p => pc'[q] = pc[q]
      PROVE  CancelledFirst'
  BY <1>2
<1>3. ASSUME NEW p \in Procs,
             \/ ReadLock(p) \/ WriteLock(p) \/ Enter(p) \/ Attach(p) \/ Transmit(p) \/ Receive(p)
             \/ Subscription(p) \/ SetOption(p) \/ GetOption(p) \/ Shut(p) \/ CopyField(p)
             \/ Interrupted(p) \/ BackendError(p) \/ LoadMessages(p) \/ StoreMessages(p)
             \/ LoadBytes(p) \/ StoreBytes(p)
      PROVE  CancelledFirst'
  <2>1. pc[p] \notin {"idle", "cancel"} /\ UNCHANGED <<cancelled, op>>
    BY <1>3 DEF ReadLock, WriteLock, Enter, Attach, Transmit, Receive, Subscription, SetOption,
                GetOption, Shut, CopyField, Interrupted, BackendError, LoadMessages,
                StoreMessages, LoadBytes, StoreBytes, Load, InBackend
  <2>2. \E l : pc' = [pc EXCEPT ![p] = l]
    BY <1>3 DEF ReadLock, WriteLock, Enter, Attach, Transmit, Receive, Subscription, SetOption,
                GetOption, Shut, CopyField, Interrupted, BackendError, LoadMessages,
                StoreMessages, LoadBytes, StoreBytes, Load, InBackend
  <2>3. QED
    BY <2>1, <2>2, <1>2, <1>t
<1>4. CASE PeerSends \/ PeerTakes \/ UNCHANGED vars
  BY <1>4 DEF PeerSends, PeerTakes, vars
<1>5. QED
  BY <1>1, <1>3, <1>4 DEF Next, Step

\* Every step of the socket is one of SocketLife or leaves its state alone: the
\* backend is shut by a Close that has cancelled and is alone, used only while the
\* socket is open, and never used again.
THEOREM LivesSafely == Spec => Life!Safety
<1>1. Init => CancelledFirst /\ Life!Init
  BY DEF Init, CancelledFirst, Life!Init, Users
<1>2. Inv /\ CancelledFirst /\ [Next]_vars => [Life!Next]_(Life!vars)
  <2> SUFFICES ASSUME Inv, CancelledFirst, [Next]_vars PROVE [Life!Next]_(Life!vars)
    OBVIOUS
  <2>t. /\ pc \in [Procs -> Labels] /\ op \in [Procs -> Ops \cup {"none"}]
        /\ closed \in BOOLEAN /\ cancelled \in BOOLEAN
        /\ Exclusion /\ Closing
    BY DEF Inv, Typed, TypeOK
  <2> DEFINE Busy == {"backend", "loadMessages", "storeMessages", "loadBytes", "storeBytes"}
  <2>u. Users = {p \in Procs : pc[p] \in Busy /\ op[p] \notin {"Close", "GetMetrics"}}
    BY <2>t DEF Users, Labels
  <2>1. ASSUME Users' = Users, UNCHANGED <<cancelled, closed>> PROVE UNCHANGED Life!vars
    BY <2>1 DEF Life!vars
  \* A method that was not using the backend, and still is not.
  <2>2. ASSUME NEW p \in Procs, UNCHANGED <<cancelled, closed>>,
               Call(p) \/ ReadLock(p) \/ WriteLock(p) \/ Return(p)
        PROVE  UNCHANGED Life!vars
    <3>1. Users' = Users
      BY <2>2, <2>t DEF Users, Call, ReadLock, WriteLock, Return
    <3>2. QED
      BY <2>1, <2>2, <3>1
  <2>3. ASSUME NEW p \in Procs, Cancel(p) PROVE [Life!Next]_(Life!vars)
    <3>1. Users' = Users /\ cancelled' = TRUE /\ closed' = closed
      BY <2>3, <2>t DEF Users, Cancel
    <3>2. Life!Cancel
      BY <3>1 DEF Life!Cancel
    <3>3. QED
      BY <3>2 DEF Life!Next
  <2>4. ASSUME NEW p \in Procs, Enter(p) PROVE [Life!Next]_(Life!vars)
    <3>1. pc[p] = "wait" /\ Holds(p) /\ UNCHANGED <<cancelled, op>>
      BY <2>4 DEF Enter
    <3>2. CASE closed /\ op[p] # "GetMetrics"
      <4>1. pc' = [pc EXCEPT ![p] = "unlock"] /\ closed' = closed
        BY <2>4, <3>2 DEF Enter
      <4>2. Users' = Users
        BY <3>1, <4>1, <2>t DEF Users
      <4>3. QED
        BY <2>1, <3>1, <4>1, <4>2
    <3>3. CASE op[p] = "GetMetrics"
      <4>1. pc' = [pc EXCEPT ![p] = "backend"] /\ closed' = closed
        BY <2>4, <3>3, <2>t DEF Enter
      <4>2. Users' = Users
        BY <3>1, <3>3, <4>1, <2>t DEF Users
      <4>3. QED
        BY <2>1, <3>1, <4>1, <4>2
    <3>4. CASE ~closed /\ op[p] = "Close"
      <4>1. pc' = [pc EXCEPT ![p] = "backend"] /\ closed'
        BY <2>4, <3>4 DEF Enter
      <4>2. HoldsWrite(mu, p)
        BY <3>1, <3>4 DEF Holds, ReadOps, RecvOps
      <4>3. \A q \in Procs : pc[q] \notin Active
        <5>1. \A q \in Procs : pc[q] \in Active => q = p
          BY <4>2, <2>t, AloneAtDoor
        <5>2. QED
          BY <3>1, <5>1
      <4>4. Users = {} /\ Users' = {}
        <5>1. Users = {}
          BY <4>3, <2>u
        <5>2. Users' = Users
          BY <3>1, <3>4, <4>1, <2>t DEF Users
        <5>3. QED
          BY <5>1, <5>2
      <4>5. cancelled
        BY <3>1, <3>4 DEF CancelledFirst
      <4>6. closed' = TRUE
        BY <2>4, <3>4, Zenon DEF Enter
      <4>7. Life!Shut
        BY <3>1, <3>4, <4>4, <4>5, <4>6 DEF Life!Shut
      <4>8. QED
        BY <4>7 DEF Life!Next
    <3>5. CASE ~closed /\ op[p] \notin {"Close", "GetMetrics"}
      <4>1. pc' = [pc EXCEPT ![p] = "backend"] /\ closed' = closed
        BY <2>4, <3>5, <2>t DEF Enter
      <4>2. Users' = Users \cup {p} /\ p \notin Users
        BY <3>1, <3>5, <4>1, <2>t DEF Users
      <4>3. Life!Start(p)
        BY <3>1, <3>5, <4>1, <4>2 DEF Life!Start
      <4>4. QED
        BY <4>3 DEF Life!Next
    <3>6. QED
      BY <3>2, <3>3, <3>4, <3>5
  <2>5. ASSUME NEW p \in Procs, pc[p] \in Busy, UNCHANGED <<cancelled, closed, op>>,
               NEW l \in Busy \cup {"unlock"}, pc' = [pc EXCEPT ![p] = l]
        PROVE  [Life!Next]_(Life!vars)
    <3>1. CASE l = "unlock" /\ p \in Users
      <4>1. Users' = Users \ {p}
        BY <2>5, <3>1, <2>t DEF Users
      <4>2. Life!Finish(p)
        BY <2>5, <3>1, <4>1 DEF Life!Finish
      <4>3. QED
        BY <4>2 DEF Life!Next
    <3>2. CASE ~(l = "unlock" /\ p \in Users)
      <4>1. Users' = Users
        BY <2>5, <3>2, <2>t DEF Users
      <4>2. QED
        BY <2>1, <2>5, <4>1
    <3>3. QED
      BY <3>1, <3>2
  <2>6. ASSUME NEW p \in Procs,
               \/ Attach(p) \/ Transmit(p) \/ Receive(p) \/ Subscription(p)
               \/ SetOption(p) \/ GetOption(p) \/ Shut(p) \/ CopyField(p)
               \/ Interrupted(p) \/ BackendError(p)
               \/ LoadMessages(p) \/ StoreMessages(p) \/ LoadBytes(p) \/ StoreBytes(p)
        PROVE  [Life!Next]_(Life!vars)
    <3>1. pc[p] \in Busy /\ UNCHANGED <<cancelled, closed, op>>
      BY <2>6 DEF InBackend, Attach, Transmit, Receive, Subscription, SetOption, GetOption, Shut,
                  CopyField, Interrupted, BackendError, LoadMessages, StoreMessages, LoadBytes,
                  StoreBytes, Load
    <3>2. \E l \in Busy \cup {"unlock"} : pc' = [pc EXCEPT ![p] = l]
      BY <2>6 DEF InBackend, Attach, Transmit, Receive, Subscription, SetOption, GetOption, Shut,
                  CopyField, Interrupted, BackendError, LoadMessages, StoreMessages, LoadBytes,
                  StoreBytes, Load
    <3>3. QED
      BY <2>5, <3>1, <3>2
  <2>7. CASE PeerSends \/ PeerTakes \/ UNCHANGED vars
    <3>1. UNCHANGED <<pc, op, cancelled, closed>>
      BY <2>7 DEF PeerSends, PeerTakes, vars
    <3>2. QED
      BY <3>1, <2>1 DEF Users
  <2>8. QED
    <3>1. ASSUME NEW p \in Procs, Call(p) \/ ReadLock(p) \/ WriteLock(p) \/ Return(p)
          PROVE  UNCHANGED Life!vars
      BY <2>2, <3>1 DEF Call, ReadLock, WriteLock, Return
    <3>2. QED
      BY <3>1, <2>3, <2>4, <2>6, <2>7 DEF Next, Step
<1>3. Inv => Typed
  BY DEF Inv
<1>4. QED
  BY <1>1, <1>2, <1>3, StepCancelledFirst, Invariance, PTL DEF Spec, Life!Safety
-----------------------------------------------------------------------------
(* The safety part of CloseDrains: who waits for s.mu waits for somebody who   *)
(* has it, and a Close only for those that came before it.                     *)

\* The goroutines that have asked for s.mu and not unlocked it, on either side.
Asked == Labels \ {"idle", "cancel", "lock"}
Readers == {p \in Procs : pc[p] \in Asked /\ op[p] \in ReadOps}
Writers == {p \in Procs : pc[p] \in Asked /\ op[p] \notin ReadOps}

\* s.mu is in the state that they have brought about.
LockAgrees == Requests(mu, Readers, Writers)

\* The steps of a goroutine that is inside, up to its unlock.
LEMMA InsideSteps ==
  ASSUME NEW p \in Procs,
         \/ Enter(p) \/ Attach(p) \/ Transmit(p) \/ Receive(p) \/ Subscription(p)
         \/ SetOption(p) \/ GetOption(p) \/ Shut(p) \/ CopyField(p)
         \/ Interrupted(p) \/ BackendError(p)
         \/ LoadMessages(p) \/ StoreMessages(p) \/ LoadBytes(p) \/ StoreBytes(p)
  PROVE  /\ pc[p] \in Asked /\ UNCHANGED <<mu, op>>
         /\ \E l \in Asked : pc' = [pc EXCEPT ![p] = l]
<1>1. pc[p] \in Asked /\ UNCHANGED <<mu, op>>
  BY DEF InBackend, Enter, Attach, Transmit, Receive, Subscription, SetOption, GetOption, Shut,
         CopyField, Interrupted, BackendError, LoadMessages, StoreMessages, LoadBytes,
         StoreBytes, Load, Asked, Labels
<1>2. \E l \in Asked : pc' = [pc EXCEPT ![p] = l]
  BY DEF InBackend, Enter, Attach, Transmit, Receive, Subscription, SetOption, GetOption, Shut,
         CopyField, Interrupted, BackendError, LoadMessages, StoreMessages, LoadBytes,
         StoreBytes, Load, Asked, Labels
<1>3. QED
  BY <1>1, <1>2

\* Every step keeps the agreement.
LEMMA StepLockAgrees == Typed /\ Exclusion /\ LockAgrees /\ [Next]_vars => LockAgrees'
<1> USE ProcsAssumption
<1> SUFFICES ASSUME Typed, Exclusion, LockAgrees, [Next]_vars PROVE LockAgrees'
  OBVIOUS
<1>t. /\ mu \in Mutexes(Procs) /\ pc \in [Procs -> Labels]
      /\ op \in [Procs -> Ops \cup {"none"}]
  BY DEF Typed, TypeOK
<1>a. Requests(mu, Readers, Writers)
  BY DEF LockAgrees
<1>1. ASSUME UNCHANGED mu, Readers' = Readers, Writers' = Writers PROVE LockAgrees'
  BY <1>1, <1>a DEF LockAgrees
<1>2. ASSUME NEW p \in Procs, Call(p) \/ Cancel(p) PROVE LockAgrees'
  <2>1. UNCHANGED mu /\ Readers' = Readers /\ Writers' = Writers
    BY <1>2, <1>t DEF Call, Cancel, Readers, Writers, Asked
  <2>2. QED
    BY <1>1, <2>1
<1>3. ASSUME NEW p \in Procs, ReadLock(p) PROVE LockAgrees'
  <2>1. p \notin Readers /\ Readers' = Readers \cup {p} /\ Writers' = Writers
    BY <1>3, <1>t DEF ReadLock, Readers, Writers, Asked, Labels
  <2>2. mu' = RLock(mu, p)
    BY <1>3 DEF ReadLock
  <2>3. QED
    BY <1>a, <1>t, <2>1, <2>2, RequestsChange DEF LockAgrees
<1>4. ASSUME NEW p \in Procs, WriteLock(p) PROVE LockAgrees'
  <2>1. Readers' = Readers /\ Writers' = Writers \cup {p}
    BY <1>4, <1>t DEF WriteLock, Readers, Writers, Asked, Labels
  <2>2. CanAnnounce(mu) /\ mu' = Announce(mu, p)
    BY <1>4 DEF WriteLock
  <2>3. QED
    BY <1>a, <1>t, <2>1, <2>2, RequestsChange DEF LockAgrees
<1>5. ASSUME NEW p \in Procs, Return(p) PROVE LockAgrees'
  <2>1. pc[p] = "unlock" /\ pc' = [pc EXCEPT ![p] = "idle"] /\ op' = [op EXCEPT ![p] = "none"]
    BY <1>5 DEF Return
  <2>2. Readers' = Readers \ {p} /\ Writers' = Writers \ {p}
    BY <1>t, <2>1 DEF Readers, Writers, Asked
  <2>3. CASE op[p] \in ReadOps
    <3>1. HoldsRead(mu, p) /\ mu' = RUnlock(mu, p) /\ Writers \ {p} = Writers
      BY <1>5, <2>1, <2>3 DEF Return, Exclusion, HoldsRead, Writers
    <3>2. QED
      BY <1>a, <1>t, <2>2, <3>1, RequestsChange DEF LockAgrees
  <2>4. CASE op[p] \notin ReadOps
    <3>1. HoldsWrite(mu, p) /\ mu' = Unlock(mu) /\ Readers \ {p} = Readers
      BY <1>5, <2>1, <2>4 DEF Return, Exclusion, HoldsWrite, Readers
    <3>2. QED
      BY <1>a, <1>t, <2>2, <3>1, RequestsChange DEF LockAgrees
  <2>5. QED
    BY <2>3, <2>4
<1>6. ASSUME NEW p \in Procs, pc[p] \in Asked, UNCHANGED <<mu, op>>,
             NEW l \in Asked, pc' = [pc EXCEPT ![p] = l]
      PROVE  LockAgrees'
  <2>1. Readers' = Readers /\ Writers' = Writers
    BY <1>6, <1>t DEF Readers, Writers
  <2>2. QED
    BY <1>1, <1>6, <2>1
<1>7. CASE PeerSends \/ PeerTakes \/ UNCHANGED vars
  <2>1. UNCHANGED <<mu, pc, op>>
    BY <1>7 DEF PeerSends, PeerTakes, vars
  <2>2. QED
    BY <2>1, <1>1 DEF Readers, Writers
<1>8. QED
  BY <1>2, <1>3, <1>4, <1>5, <1>6, <1>7, InsideSteps DEF Next, Step

\* The lock agrees with who has asked for it in every behaviour, and a Close that
\* has asked for it has cancelled the context.
LEMMA LockInvariance == Spec => [](Inv /\ LockAgrees /\ CancelledFirst)
<1>1. Init => LockAgrees /\ CancelledFirst
  BY DEF Init, LockAgrees, Readers, Writers, Asked, Requests, Unlocked, CancelledFirst
<1>2. Inv => Typed /\ Exclusion
  BY DEF Inv
<1>3. QED
  BY <1>1, <1>2, InitInv, StepInv, StepLockAgrees, StepCancelledFirst, PTL DEF Spec

\* Who is inside, in terms of who has asked.
LEMMA InsideIs ==
  ASSUME TypeOK
  PROVE  Inside = {p \in Readers : HoldsRead(mu, p)} \cup {p \in Writers : HoldsWrite(mu, p)}
<1>1. \A p \in Procs : pc[p] \in Labels
  BY DEF TypeOK
<1>2. QED
  BY <1>1 DEF Inside, Holds, Readers, Writers, Asked

\* s.mu is never left locked: whoever waits for it waits for a goroutine that has
\* it, and a Close that waits has cancelled the context.
THEOREM LockIsNeverLeftBehind == Spec => []SomebodyHasMu
<1>1. Inv /\ LockAgrees /\ CancelledFirst => SomebodyHasMu
  <2> SUFFICES ASSUME Inv, LockAgrees, CancelledFirst, NEW p \in Procs, WaitsForMu(p)
               PROVE  Inside # {} /\ (op[p] = "Close" => cancelled)
    BY DEF SomebodyHasMu
  <2>1. Requests(mu, Readers, Writers)
    BY DEF LockAgrees
  <2>2. Readers \cup Writers # {}
    <3>1. CASE pc[p] = "wait"
      BY <3>1 DEF Readers, Writers, Asked, Labels
    <3>2. CASE pc[p] = "lock"
      BY <2>1, <3>2 DEF WaitsForMu, CanAnnounce, Requests
    <3>3. QED
      BY <3>1, <3>2 DEF WaitsForMu
  <2>3. \/ \E q \in Readers : HoldsRead(mu, q)
        \/ \E q \in Writers : HoldsWrite(mu, q)
    BY <2>1, <2>2, SomebodyHolds
  <2>4. Inside # {}
    BY <2>3, InsideIs DEF Inv, Typed
  <2>5. op[p] = "Close" => cancelled
    BY DEF WaitsForMu, CancelledFirst
  <2>6. QED
    BY <2>4, <2>5
<1>2. QED
  BY <1>1, LockInvariance, PTL

\* A Close that has announced itself waits only for the calls that are inside
\* already: no step lets another one in before it.
THEOREM CloseIsServedInTurn == Spec => CloseIsNotOvertaken
<1>1. Inv /\ LockAgrees /\ Inv' /\ [Next]_vars =>
        \A p \in Procs : At(p, "wait") /\ op[p] = "Close" => Inside' \subseteq Inside \cup {p}
  <2> USE ProcsAssumption
  <2> SUFFICES ASSUME Inv, LockAgrees, Inv', [Next]_vars, NEW p \in Procs,
                      pc[p] = "wait", op[p] = "Close"
               PROVE  Inside' \subseteq Inside \cup {p}
    OBVIOUS
  <2>t. /\ mu \in Mutexes(Procs) /\ pc \in [Procs -> Labels]
        /\ op \in [Procs -> Ops \cup {"none"}] /\ Exclusion
        /\ Requests(mu, Readers, Writers) /\ TypeOK /\ TypeOK'
    BY DEF Inv, Typed, TypeOK, LockAgrees
  <2>w. mu.writer = p
    <3>1. p \in Writers
      BY DEF Writers, Asked, Labels, ReadOps, RecvOps
    <3>2. QED
      BY <2>t, <3>1 DEF Requests
  <2>i. \A q : q \in Inside' => q \in Procs /\ pc'[q] \in Asked /\ Holds(q)'
    <3>1. \A q \in Procs : pc'[q] \in Labels
      BY <2>t DEF TypeOK
    <3>2. QED
      BY <3>1 DEF Inside, Asked
  <2>1. ASSUME UNCHANGED <<mu, op>>, \A q \in Procs : pc'[q] \in Asked => pc[q] \in Asked
        PROVE  Inside' \subseteq Inside
    BY <2>1, <2>i DEF Inside, Holds, Asked
  <2>2. ASSUME NEW r \in Procs, Call(r) \/ Cancel(r) PROVE Inside' \subseteq Inside
    <3>1. \A q \in Procs : pc'[q] \in Asked => q # r /\ pc[q] \in Asked /\ op'[q] = op[q]
      BY <2>2, <2>t DEF Call, Cancel, Asked
    <3>2. UNCHANGED mu
      BY <2>2 DEF Call, Cancel
    <3>3. QED
      BY <2>i, <3>1, <3>2 DEF Inside, Holds, Asked
  \* A reader that comes now is turned away.
  <2>3. ASSUME NEW r \in Procs, ReadLock(r) PROVE Inside' \subseteq Inside
    <3>1. /\ pc[r] = "lock" /\ op[r] \in ReadOps /\ pc' = [pc EXCEPT ![r] = "wait"]
          /\ UNCHANGED op /\ mu' = [mu EXCEPT !.queued = @ \cup {r}]
      BY <2>3, <2>w DEF ReadLock, RLock
    <3>2. mu'.readers = mu.readers /\ mu'.writer = mu.writer
      BY <2>t, <3>1 DEF Mutexes
    <3>3. r \notin mu.readers
      <4>1. r \notin Readers
        BY <3>1 DEF Readers, Asked
      <4>2. QED
        BY <2>t, <4>1 DEF Requests
    <3>4. \A q \in Procs : Holds(q)' <=> Holds(q)
      BY <3>1, <3>2 DEF Holds, HoldsRead, HoldsWrite
    <3>5. ~Holds(r)
      BY <3>1, <3>3 DEF Holds, HoldsRead
    <3>6. QED
      BY <2>i, <2>t, <3>1, <3>4, <3>5 DEF Inside, Asked
  <2>4. ASSUME NEW r \in Procs, WriteLock(r) PROVE FALSE
    BY <2>4, <2>w DEF WriteLock, CanAnnounce
  \* Who leaves is a reader, since the Close is the writer.
  <2>5. ASSUME NEW r \in Procs, Return(r) PROVE Inside' \subseteq Inside \cup {p}
    <3>1. pc[r] = "unlock" /\ pc' = [pc EXCEPT ![r] = "idle"] /\ op' = [op EXCEPT ![r] = "none"]
      BY <2>5 DEF Return
    <3>2. op[r] \in ReadOps
      BY <2>t, <2>w, <3>1 DEF Exclusion
    <3>3. mu' = [mu EXCEPT !.readers = @ \ {r}]
      BY <2>5, <3>2 DEF Return, RUnlock
    <3>4. mu'.readers \subseteq mu.readers /\ mu'.writer = p
      BY <2>t, <2>w, <3>3 DEF Mutexes
    <3>5. ASSUME NEW q \in Inside', q # p PROVE q \in Inside
      <4>1. q \in Procs /\ q # r /\ pc[q] \in Asked /\ op'[q] = op[q]
        BY <2>i, <2>t, <3>1, <3>5 DEF Asked
      <4>2. Holds(q)'
        BY <2>i, <3>5
      <4>3. op[q] \in ReadOps /\ q \in mu.readers
        BY <3>4, <3>5, <4>1, <4>2 DEF Holds, HoldsRead, HoldsWrite
      <4>4. QED
        BY <4>1, <4>3 DEF Inside, Holds, HoldsRead, Asked
    <3>6. QED
      BY <3>5
  <2>6. ASSUME NEW r \in Procs, pc[r] \in Asked, UNCHANGED <<mu, op>>,
               NEW l \in Asked, pc' = [pc EXCEPT ![r] = l]
        PROVE  Inside' \subseteq Inside
    BY <2>1, <2>6, <2>t
  <2>7. CASE PeerSends \/ PeerTakes \/ UNCHANGED vars
    <3>1. UNCHANGED <<mu, pc, op>>
      BY <2>7 DEF PeerSends, PeerTakes, vars
    <3>2. QED
      BY <2>1, <3>1
  <2>8. QED
    BY <2>2, <2>3, <2>4, <2>5, <2>6, <2>7, InsideSteps DEF Next, Step
<1>2. QED
  BY <1>1, LockInvariance, Invariance, PTL DEF Spec, CloseIsNotOvertaken
=============================================================================
