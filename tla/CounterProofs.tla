--------------------------- MODULE CounterProofs ---------------------------
(***************************************************************************)
(* What is proved of ZmqSocket's counters without any help from the lock:  *)
(* increments that interleave lose updates, and never invent one.          *)
(***************************************************************************)
EXTENDS ZmqSocketProofs, FiniteSetTheorems

\* The increments of the methods ops that are still due: one for every message,
\* and one for every byte.
MessagesDue(ops) ==
  {p \in Procs : op[p] \in ops /\ pc[p] \in {"loadMessages", "storeMessages"}}
BytesDue(ops) ==
  {d \in Procs \X Nat : /\ op[d[1]] \in ops /\ Counting(d[1])
                        /\ d[2] \in 1 .. left[d[1]]}

\* What has moved covers the counter f and everything due to it, and so it does
\* for every value that a goroutine has loaded and is going to store.
Covered(ops, f, due, label) ==
  /\ IsFiniteSet(due)
  /\ metrics[f] + Cardinality(due) <= moved[f]
  /\ \A p \in Procs : op[p] \in ops /\ pc[p] = label =>
       reg[p] + Cardinality(due) <= moved[f]
AllCovered(ops, M, B) ==
  /\ Covered(ops, M, MessagesDue(ops), "storeMessages")
  /\ Covered(ops, B, BytesDue(ops), "storeBytes")

\* The inductive invariant.
Accounted ==
  /\ AllCovered(SendOps, "MessagesSent", "BytesSent")
  /\ AllCovered(RecvOps, "MessagesReceived", "BytesReceived")

USE DEF At, Goto, Active, Counting

\* n increments due by p.
BytesOf(p, n) == {d \in Procs \X Nat : d[1] = p /\ d[2] \in 1 .. n}

\* The bytes due after n of them have come to a goroutine that owed none.
LEMMA BytesCome ==
  ASSUME NEW S, IsFiniteSet(S), NEW p \in Procs, NEW n \in Nat, \A d \in S : d[1] # p
  PROVE  /\ IsFiniteSet(S \cup BytesOf(p, n))
         /\ Cardinality(S \cup BytesOf(p, n)) = Cardinality(S) + n
<1> DEFINE I == 1 .. n
           P == {p}
           T == P \X I
<1>1. IsFiniteSet(I) /\ Cardinality(I) = n
  BY FS_Interval
<1>2. IsFiniteSet(P) /\ Cardinality(P) = 1
  BY FS_Singleton
<1>3. IsFiniteSet(T) /\ Cardinality(T) = n
  <2> HIDE DEF I, P
  <2>1. IsFiniteSet(T) /\ Cardinality(T) = Cardinality(P) * Cardinality(I)
    BY <1>1, <1>2, FS_Product
  <2>2. QED
    BY <1>1, <1>2, <2>1
<1>4. S \cap T = {}
  <2>1. ASSUME NEW d \in T PROVE d[1] = p
    OBVIOUS
  <2>2. QED
    BY <2>1
<1>5. Cardinality(S \cap T) = 0
  BY <1>4, FS_EmptySet
<1>6. Cardinality(S) \in Nat
  BY FS_CardinalityType
<1> HIDE DEF T
<1>7. /\ IsFiniteSet(S \cup T)
      /\ Cardinality(S \cup T) = Cardinality(S) + Cardinality(T) - Cardinality(S \cap T)
  BY <1>3, FS_Union
<1>8. QED
  <2>1. T = BytesOf(p, n)
    BY DEF T, BytesOf
  <2>2. QED
    BY <1>3, <1>5, <1>6, <1>7, <2>1

\* Every step keeps the counters of ops covered, whoever else is inside: a store
\* settles one increment that was due when its value was loaded.
LEMMA StepCovered ==
  ASSUME NEW ops, NEW M, NEW B, Counters(ops, M, B), Typed, AllCovered(ops, M, B),
         \A p \in Procs : Counting(p) => op[p] \in SendOps \cup RecvOps,
         [Next]_vars
  PROVE  AllCovered(ops, M, B)'
<1> DEFINE Ms == MessagesDue(ops)
           Bs == BytesDue(ops)
<1>t. /\ pc \in [Procs -> Labels] /\ op \in [Procs -> Ops \cup {"none"}]
      /\ metrics \in [Fields -> Nat] /\ moved \in [Fields -> Nat]
      /\ reg \in [Procs -> Nat] /\ left \in [Procs -> Nat]
      /\ BytesLeft
  BY DEF Typed, TypeOK
<1>f. M \in Fields /\ B \in Fields /\ M # B
  BY DEF Counters, Fields, SentFields, ReceivedFields
<1>r. "none" \notin ops /\ SendOps \cap RecvOps = {}
  BY DEF Counters, SendOps, RecvOps
<1>a. \A p \in Procs : op[p] \in ops => MessagesField(p) = M /\ BytesField(p) = B
  BY <1>r DEF Counters, MessagesField, BytesField
<1>b. \A p \in Procs : op[p] \in (SendOps \cup RecvOps) \ ops =>
        MessagesField(p) \notin {M, B} /\ BytesField(p) \notin {M, B}
  BY <1>r DEF Counters, MessagesField, BytesField
<1>c. \A p \in Procs : Counting(p) => op[p] \in SendOps \cup RecvOps
  OBVIOUS
<1>m. /\ IsFiniteSet(Ms) /\ Cardinality(Ms) \in Nat
      /\ metrics[M] + Cardinality(Ms) <= moved[M]
      /\ \A p \in Procs : op[p] \in ops /\ pc[p] = "storeMessages" =>
           reg[p] + Cardinality(Ms) <= moved[M]
  BY FS_CardinalityType DEF AllCovered, Covered
<1>y. /\ IsFiniteSet(Bs) /\ Cardinality(Bs) \in Nat
      /\ metrics[B] + Cardinality(Bs) <= moved[B]
      /\ \A p \in Procs : op[p] \in ops /\ pc[p] = "storeBytes" =>
           reg[p] + Cardinality(Bs) <= moved[B]
  BY FS_CardinalityType DEF AllCovered, Covered
\* Steps that leave the two counters and who is counting there alone.
<1>1. ASSUME \A f \in {M, B} : metrics'[f] = metrics[f] /\ moved'[f] = moved[f],
             \A q \in Procs : (op[q] \in ops /\ Counting(q)) \/
                              (op'[q] \in ops /\ Counting(q)') =>
                 pc'[q] = pc[q] /\ op'[q] = op[q] /\ reg'[q] = reg[q] /\ left'[q] = left[q]
      PROVE  AllCovered(ops, M, B)'
  <2>1. Ms' = Ms
    BY <1>1 DEF MessagesDue
  <2>2. Bs' = Bs
    BY <1>1 DEF BytesDue
  <2>3. QED
    BY <1>1, <1>m, <1>y, <2>1, <2>2 DEF AllCovered, Covered
\* A message is moved.
<1>2. ASSUME NEW p \in Procs, op[p] \in ops, pc[p] = "backend", NEW n \in Nat,
             left' = [left EXCEPT ![p] = n],
             moved' = [moved EXCEPT ![M] = @ + 1, ![B] = @ + n],
             pc' = [pc EXCEPT ![p] = "loadMessages"], UNCHANGED <<op, metrics, reg>>
      PROVE  AllCovered(ops, M, B)'
  <2>1. Ms' = Ms \cup {p} /\ p \notin Ms
    BY <1>2, <1>t DEF MessagesDue
  <2>2. IsFiniteSet(Ms') /\ Cardinality(Ms') = Cardinality(Ms) + 1
    BY <2>1, <1>m, FS_AddElement
  <2>3. \A d \in Bs : d[1] # p
    BY <1>2 DEF BytesDue
  <2>4. Bs' = Bs \cup BytesOf(p, n)
    <3>1. ASSUME NEW q \in Procs, NEW k \in Nat
          PROVE  <<q, k>> \in Bs' <=> <<q, k>> \in Bs \cup BytesOf(p, n)
      BY <1>2, <1>t DEF BytesDue, BytesOf
    <3>2. QED
      BY <3>1 DEF BytesDue, BytesOf
  <2>5. IsFiniteSet(Bs') /\ Cardinality(Bs') = Cardinality(Bs) + n
    BY <2>3, <2>4, <1>y, BytesCome
  <2>6. moved'[M] = moved[M] + 1 /\ moved'[B] = moved[B] + n
    BY <1>2, <1>t, <1>f
  <2> HIDE DEF Ms, Bs
  <2>7. /\ metrics'[M] + Cardinality(Ms') <= moved'[M]
        /\ metrics'[B] + Cardinality(Bs') <= moved'[B]
    BY <1>2, <2>2, <2>5, <2>6, <1>m, <1>y, <1>t, <1>f
  <2>8. \A q \in Procs : op'[q] \in ops /\ pc'[q] = "storeMessages" =>
          reg'[q] + Cardinality(Ms') <= moved'[M]
    BY <1>2, <2>2, <2>6, <1>m, <1>t, <1>f
  <2>9. \A q \in Procs : op'[q] \in ops /\ pc'[q] = "storeBytes" =>
          reg'[q] + Cardinality(Bs') <= moved'[B]
    BY <1>2, <2>5, <2>6, <1>y, <1>t, <1>f
  <2>10. QED
    BY <2>2, <2>5, <2>7, <2>8, <2>9 DEF AllCovered, Covered, Ms, Bs
\* The count of the message is stored.
<1>3. ASSUME NEW p \in Procs, StoreMessages(p), op[p] \in ops
      PROVE  AllCovered(ops, M, B)'
  <2>1. /\ metrics' = [metrics EXCEPT ![M] = reg[p] + 1] /\ pc[p] = "storeMessages"
        /\ pc' = [pc EXCEPT ![p] = IF left[p] = 0 THEN "unlock" ELSE "loadBytes"]
        /\ UNCHANGED <<op, moved, reg, left>>
    BY <1>3, <1>a DEF StoreMessages, locals
  <2>2. Ms' = Ms \ {p} /\ p \in Ms
    BY <1>3, <2>1, <1>t DEF MessagesDue
  <2>3. IsFiniteSet(Ms') /\ Cardinality(Ms') = Cardinality(Ms) - 1
    BY <2>2, <1>m, FS_RemoveElement
  <2>4. Bs' = Bs
    <3>1. ASSUME NEW q \in Procs, NEW k \in Nat
          PROVE  <<q, k>> \in Bs' <=> <<q, k>> \in Bs
      BY <1>3, <2>1, <1>t DEF BytesDue
    <3>2. QED
      BY <3>1 DEF BytesDue
  <2>5. metrics'[M] = reg[p] + 1 /\ metrics'[B] = metrics[B]
    BY <2>1, <1>t, <1>f
  <2> HIDE DEF Ms, Bs
  <2>6. /\ metrics'[M] + Cardinality(Ms') <= moved'[M]
        /\ metrics'[B] + Cardinality(Bs') <= moved'[B]
    BY <1>3, <2>1, <2>3, <2>4, <2>5, <1>m, <1>y, <1>t, <1>f
  <2>7. \A q \in Procs : op'[q] \in ops /\ pc'[q] = "storeMessages" =>
          reg'[q] + Cardinality(Ms') <= moved'[M]
    BY <2>1, <2>3, <1>m, <1>t, <1>f
  <2>8. \A q \in Procs : op'[q] \in ops /\ pc'[q] = "storeBytes" =>
          reg'[q] + Cardinality(Bs') <= moved'[B]
    BY <2>1, <2>4, <1>y, <1>t
  <2>9. QED
    BY <2>3, <2>4, <2>6, <2>7, <2>8, <1>y DEF AllCovered, Covered, Ms, Bs
\* The count of a byte is stored.
<1>4. ASSUME NEW p \in Procs, StoreBytes(p), op[p] \in ops
      PROVE  AllCovered(ops, M, B)'
  <2>1. /\ metrics' = [metrics EXCEPT ![B] = reg[p] + 1] /\ pc[p] = "storeBytes"
        /\ pc' = [pc EXCEPT ![p] = IF left[p] = 1 THEN "unlock" ELSE "loadBytes"]
        /\ left' = [left EXCEPT ![p] = @ - 1]
        /\ UNCHANGED <<op, moved, reg>>
    BY <1>4, <1>a DEF StoreBytes
  <2>2. left[p] \in Nat \ {0}
    BY <2>1, <1>t DEF BytesLeft
  <2>3. Ms' = Ms
    BY <2>1, <1>t DEF MessagesDue
  <2>4. Bs' = Bs \ {<<p, left[p]>>} /\ <<p, left[p]>> \in Bs
    <3>1. ASSUME NEW q \in Procs, NEW k \in Nat
          PROVE  <<q, k>> \in Bs' <=> <<q, k>> \in Bs \ {<<p, left[p]>>}
      <4>1. CASE q = p
        BY <4>1, <1>4, <2>1, <2>2, <1>t DEF BytesDue
      <4>2. CASE q # p
        BY <4>2, <1>4, <2>1, <2>2, <1>t DEF BytesDue
      <4>3. QED
        BY <4>1, <4>2
    <3>2. <<p, left[p]>> \in Bs
      BY <1>4, <2>1, <2>2, <1>t DEF BytesDue
    <3>3. QED
      BY <3>1, <3>2 DEF BytesDue
  <2>5. IsFiniteSet(Bs') /\ Cardinality(Bs') = Cardinality(Bs) - 1
    BY <2>4, <1>y, FS_RemoveElement
  <2>6. metrics'[B] = reg[p] + 1 /\ metrics'[M] = metrics[M]
    BY <2>1, <1>t, <1>f
  <2> HIDE DEF Ms, Bs
  <2>7. /\ metrics'[M] + Cardinality(Ms') <= moved'[M]
        /\ metrics'[B] + Cardinality(Bs') <= moved'[B]
    BY <1>4, <2>1, <2>3, <2>5, <2>6, <1>m, <1>y, <1>t, <1>f
  <2>8. \A q \in Procs : op'[q] \in ops /\ pc'[q] = "storeMessages" =>
          reg'[q] + Cardinality(Ms') <= moved'[M]
    BY <2>1, <2>3, <1>m, <1>t
  <2>9. \A q \in Procs : op'[q] \in ops /\ pc'[q] = "storeBytes" =>
          reg'[q] + Cardinality(Bs') <= moved'[B]
    BY <2>1, <2>5, <1>y, <1>t, <1>f
  <2>10. QED
    BY <2>3, <2>5, <2>7, <2>8, <2>9, <1>m DEF AllCovered, Covered, Ms, Bs
\* A counter is loaded: its value is covered as the counter is.
<1>5. ASSUME NEW p \in Procs, LoadMessages(p) \/ LoadBytes(p), op[p] \in ops
      PROVE  AllCovered(ops, M, B)'
  <2>1. UNCHANGED <<op, metrics, moved, left>>
    BY <1>5 DEF LoadMessages, LoadBytes, Load
  <2>2. \/ /\ pc[p] = "loadMessages" /\ pc' = [pc EXCEPT ![p] = "storeMessages"]
           /\ reg' = [reg EXCEPT ![p] = metrics[M]]
        \/ /\ pc[p] = "loadBytes" /\ pc' = [pc EXCEPT ![p] = "storeBytes"]
           /\ reg' = [reg EXCEPT ![p] = metrics[B]]
    BY <1>5, <1>a DEF LoadMessages, LoadBytes, Load
  <2>3. Ms' = Ms
    BY <2>1, <2>2, <1>t DEF MessagesDue
  <2>4. Bs' = Bs
    <3>1. \A q \in Procs : Counting(q)' <=> Counting(q)
      BY <2>2, <1>t
    <3>2. QED
      BY <3>1, <2>1 DEF BytesDue
  <2> HIDE DEF Ms, Bs
  <2>5. \A q \in Procs : op'[q] \in ops /\ pc'[q] = "storeMessages" =>
          reg'[q] + Cardinality(Ms') <= moved'[M]
    BY <2>1, <2>2, <2>3, <1>m, <1>t
  <2>6. \A q \in Procs : op'[q] \in ops /\ pc'[q] = "storeBytes" =>
          reg'[q] + Cardinality(Bs') <= moved'[B]
    BY <2>1, <2>2, <2>4, <1>y, <1>t
  <2>7. QED
    BY <2>1, <2>3, <2>4, <2>5, <2>6, <1>m, <1>y DEF AllCovered, Covered, Ms, Bs
<1>6. ASSUME NEW p \in Procs, op[p] \notin ops,
             LoadMessages(p) \/ LoadBytes(p) \/ StoreMessages(p) \/ StoreBytes(p)
      PROVE  AllCovered(ops, M, B)'
  <2>1. \A f \in {M, B} : metrics'[f] = metrics[f] /\ moved'[f] = moved[f]
    BY <1>6, <1>t, <1>f, <1>b, <1>c
       DEF LoadMessages, LoadBytes, Load, StoreMessages, StoreBytes
  <2>2. op' = op
    BY <1>6 DEF LoadMessages, LoadBytes, Load, StoreMessages, StoreBytes
  <2>3. \A q \in Procs : q # p =>
          pc'[q] = pc[q] /\ reg'[q] = reg[q] /\ left'[q] = left[q]
    BY <1>6, <1>t DEF LoadMessages, LoadBytes, Load, StoreMessages, StoreBytes, locals
  <2>4. QED
    BY <1>6, <2>1, <2>2, <2>3, <1>1
<1>7. ASSUME NEW p \in Procs, Transmit(p) \/ Receive(p) PROVE AllCovered(ops, M, B)'
  <2>1. pc[p] = "backend" /\ UNCHANGED <<op, metrics, reg>>
    BY <1>7 DEF Transmit, Receive, InBackend
  <2>2. CASE op[p] \in ops
    <3>1. CASE pc' = [pc EXCEPT ![p] = "unlock"] /\ UNCHANGED <<left, moved>>
      BY <2>1, <3>1, <1>1, <1>t
    <3>2. CASE ~(pc' = [pc EXCEPT ![p] = "unlock"] /\ UNCHANGED <<left, moved>>)
      <4>1. PICK n \in Nat : /\ left' = [left EXCEPT ![p] = n]
                             /\ moved' = [moved EXCEPT ![M] = @ + 1, ![B] = @ + n]
                             /\ pc' = [pc EXCEPT ![p] = "loadMessages"]
        BY <1>7, <2>2, <3>2, <1>r, BoundsAssumption
           DEF Transmit, Receive, InBackend, Counters, MovedFrames, CountedFrames
      <4>2. QED
        BY <2>1, <2>2, <4>1, <1>2
    <3>3. QED
      BY <3>1, <3>2
  <2>3. CASE op[p] \notin ops
    <3>1. moved'[M] = moved[M] /\ moved'[B] = moved[B]
      BY <1>7, <2>3, <1>t, <1>f DEF Transmit, Receive, InBackend, Counters
    <3>2. \A q \in Procs : q # p => pc'[q] = pc[q] /\ left'[q] = left[q]
      BY <1>7, <1>t DEF Transmit, Receive
    <3>3. QED
      BY <2>1, <2>3, <3>1, <3>2, <1>1
  <2>4. QED
    BY <2>2, <2>3
<1>8. ASSUME NEW p \in Procs,
             Call(p) \/ Cancel(p) \/ ReadLock(p) \/ WriteLock(p) \/ Enter(p) \/ Return(p)
      PROVE  AllCovered(ops, M, B)'
  BY <1>8, <1>1, <1>t, <1>r DEF Call, Cancel, ReadLock, WriteLock, Enter, Return, locals
<1>9. ASSUME NEW p \in Procs,
             \/ Attach(p) \/ Subscription(p) \/ SetOption(p) \/ GetOption(p)
             \/ Shut(p) \/ CopyField(p) \/ Interrupted(p) \/ BackendError(p)
      PROVE  AllCovered(ops, M, B)'
  BY <1>9, <1>1, <1>t DEF Attach, Subscription, SetOption, GetOption, Shut,
                          CopyField, Interrupted, BackendError, InBackend, locals
<1>10. CASE PeerSends \/ PeerTakes \/ UNCHANGED vars
  BY <1>10, <1>1 DEF PeerSends, PeerTakes, vars, locals
<1>11. QED
  BY <1>3, <1>4, <1>5, <1>6, <1>7, <1>8, <1>9, <1>10 DEF Next, Step

\* Nothing is due at first.
LEMMA InitCovered ==
  ASSUME Init, NEW ops, NEW M \in Fields, NEW B \in Fields
  PROVE  AllCovered(ops, M, B)
<1>1. MessagesDue(ops) = {} /\ BytesDue(ops) = {}
  BY DEF Init, MessagesDue, BytesDue
<1>2. metrics[M] = 0 /\ metrics[B] = 0 /\ moved[M] = 0 /\ moved[B] = 0
  BY DEF Init
<1>3. \A p \in Procs : pc[p] = "idle"
  BY DEF Init
<1>4. QED
  BY <1>1, <1>2, <1>3, FS_EmptySet DEF AllCovered, Covered

\* However the increments of concurrent receivers interleave, no counter of the
\* socket ever runs ahead of what the backend really moved: the data race in Recv
\* loses counts and never makes one up.
THEOREM NothingIsOvercounted == Spec => []NeverOvercounts
<1>f. SentFields \cup ReceivedFields =
        {"MessagesSent", "BytesSent", "MessagesReceived", "BytesReceived"}
  BY DEF SentFields, ReceivedFields
<1>1. Init => Accounted
  BY <1>f, InitCovered DEF Accounted, Fields
<1>2. Inv /\ Accounted /\ [Next]_vars => Accounted'
  <2> SUFFICES ASSUME Inv, Accounted, [Next]_vars PROVE Accounted'
    OBVIOUS
  <2>1. Typed /\ \A p \in Procs : Counting(p) => op[p] \in SendOps \cup RecvOps
    BY DEF Inv, Closing
  <2>2. AllCovered(SendOps, "MessagesSent", "BytesSent")'
    <3>1. Counters(SendOps, "MessagesSent", "BytesSent")
      BY DEF Counters
    <3>2. QED
      BY <2>1, <3>1, StepCovered DEF Accounted
  <2>3. AllCovered(RecvOps, "MessagesReceived", "BytesReceived")'
    <3>1. Counters(RecvOps, "MessagesReceived", "BytesReceived")
      BY DEF Counters
    <3>2. QED
      BY <2>1, <3>1, StepCovered DEF Accounted
  <2>4. QED
    BY <2>2, <2>3 DEF Accounted
<1>3. Inv /\ Accounted => NeverOvercounts
  <2> SUFFICES ASSUME Inv, Accounted, NEW f \in Fields PROVE metrics[f] <= moved[f]
    BY DEF NeverOvercounts
  <2>1. PICK due : /\ IsFiniteSet(due)
                   /\ metrics[f] + Cardinality(due) <= moved[f]
    BY <1>f DEF Accounted, AllCovered, Covered, Fields
  <2>2. Cardinality(due) \in Nat /\ metrics[f] \in Nat /\ moved[f] \in Nat
    BY <2>1, FS_CardinalityType DEF Inv, Typed, TypeOK
  <2>3. QED
    BY <2>1, <2>2
<1>4. QED
  BY <1>1, <1>2, <1>3, Invariance, PTL DEF Spec
=============================================================================
