--------------------------- MODULE RWMutexProofs ---------------------------
(***************************************************************************)
(* What the proofs about the users of an RWMutex need to know of it.       *)
(***************************************************************************)
EXTENDS RWMutex, TLAPS

\* Whatever goroutines of P do with a mutex of theirs, it stays one: every
\* lock operation of sync.RWMutex keeps the type.
LEMMA MutexType ==
  ASSUME NEW P, NEW m \in Mutexes(P), NEW p \in P
  PROVE  /\ RLock(m, p) \in Mutexes(P)
         /\ Announce(m, p) \in Mutexes(P)
         /\ RUnlock(m, p) \in Mutexes(P)
         /\ Unlock(m) \in Mutexes(P)
  BY DEF Mutexes, RLock, Announce, RUnlock, Unlock

\* The zero value is a mutex.
LEMMA UnlockedType == ASSUME NEW P PROVE Unlocked \in Mutexes(P)
  BY DEF Mutexes, Unlocked

\* The mutex m when R is the set of the goroutines that have called RLock and W
\* the set of those that have called Lock, up to the announcement, and none of
\* them has called its unlock yet.
Requests(m, R, W) ==
  /\ m.readers \cup m.queued = R /\ m.readers \cap m.queued = {}
  /\ W = IF m.writer = NoProc THEN {} ELSE {m.writer}
  /\ m.writer = NoProc => m.queued = {}

\* A lock is never stuck: while there are requests, one of them has been granted.
LEMMA SomebodyHolds ==
  ASSUME NEW m, NEW R, NEW W, Requests(m, R, W), R \cup W # {}
  PROVE  (\E p \in R : HoldsRead(m, p)) \/ (\E p \in W : HoldsWrite(m, p))
  BY DEF Requests, HoldsRead, HoldsWrite

\* The four operations add and remove the requests that they should.
LEMMA RequestsChange ==
  ASSUME NEW P, NoProc \notin P, NEW m \in Mutexes(P), NEW p \in P, NEW R, NEW W,
         Requests(m, R, W)
  PROVE  /\ p \notin R => Requests(RLock(m, p), R \cup {p}, W)
         /\ CanAnnounce(m) => Requests(Announce(m, p), R, W \cup {p})
         /\ HoldsRead(m, p) => Requests(RUnlock(m, p), R \ {p}, W)
         /\ HoldsWrite(m, p) => Requests(Unlock(m), R, W \ {p})
  BY DEF Mutexes, Requests, RLock, CanAnnounce, Announce, RUnlock, Unlock, HoldsRead,
         HoldsWrite

\* What p does with the lock takes it away from nobody else.
LEMMA HoldersStay ==
  ASSUME NEW P, NoProc \notin P, NEW m \in Mutexes(P), NEW p \in P, NEW q \in P, p # q
  PROVE  /\ HoldsRead(m, q) =>
              /\ HoldsRead(RLock(m, p), q) /\ HoldsRead(Announce(m, p), q)
              /\ HoldsRead(RUnlock(m, p), q) /\ ~HoldsWrite(m, p)
         /\ HoldsWrite(m, q) =>
              /\ HoldsWrite(RLock(m, p), q) /\ ~CanAnnounce(m)
              /\ ~HoldsRead(m, p) /\ ~HoldsWrite(m, p)
  BY DEF Mutexes, RLock, CanAnnounce, Announce, RUnlock, Unlock, HoldsRead, HoldsWrite
=============================================================================
