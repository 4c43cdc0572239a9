# A TLA+ model of qzmq

qzmq wraps the pure-Go ZeroMQ library `luxfi/zmq` in sockets with counters, a
transport that owns those sockets, and a (so far unconnected) post-quantum
handshake. This directory models its core in TLA+, checks the models with TLC
and proves with TLAPS, for every value of the constants, every safety property
that a passing run checks.

Run from this directory: `tlc -workers 2 -config <run>.cfg <module>` for a run
of `PROJECT.json`, `tlapm <module>.tla` for each of the proof modules.

## 1. Inventory

| Component | Source | State | Operations | Correct when |
|---|---|---|---|---|
| `zmqSocket` | `backend.go` | `mu`, `closed`, `ctx`/`cancel`, `metrics`, the backend socket | `Bind`, `Connect`, `Send`, `SendMultipart`, `Recv`, `RecvMultipart`, `Subscribe`, `Unsubscribe`, `SetOption`, `GetOption`, `Close`, `GetMetrics` | counters say what moved; the backend is shut once, with nobody in it, and then left alone; `Close` gets everybody out |
| `transport` | `qzmq.go` | `mu`, `closed`, `sockets` keyed by `%p`, `options`, `stats` | `New`, `NewSocket`, `SetOption`, `GetOption`, `Stats`, `Close` | no socket escapes `Close`; no registry entry is overwritten; every call returns |
| options | `qzmq.go` | none | presets, `validateOptions` | what `New` accepts can be used |
| `connection` | `connection.go`, `crypto.go` | handshake state, randoms, transcript, KEM, keys, AEADs, rotation counters | `clientHello`, `processServerHello`, `clientKey`, `processFinished`, `needsKeyUpdate`, `updateKeys` | the transcript binds what was exchanged, whatever failed in between; a handshake can end; a due rotation is not forgotten |
| frames | `connection.go` | none | `marshal`, `unmarshal` | decoding inverts encoding and reads nothing that is not there |
| KEMs, signatures, AEAD, KDF | `crypto.go`, `mlkem_integration.go` | key pairs | generate, encapsulate, decapsulate, combine | both sides get the same secret, and nobody else does |
| backend selection | `backend_selection.go` | none | environment and build flags to a backend | what is selected can be used, and the validators agree |
| X-Chain DEX transport | `xchain.go` (build tag `qzmq`) | its own `mu`, a transport, one DEALER socket | `Listen`, `StartDEX`, `ConnectToPeers`, `Connect`, `Close`, `SubmitOrder`, `ProposeBlock`, `ReceiveOrder` | its lock and the socket's never form a cycle; orders arrive once, in sequence over one connection, and are not lost before a `Close`; `Close` ends every wait |
| logging, test helpers, example | | | | pure output, or clients of the library |

**How they interact.** An application calls a transport and the sockets it made
from any number of goroutines. The transport's `Close` calls `Close` of every
socket while it holds its own lock. A socket's methods hold `s.mu` across a call
into `luxfi/zmq`, where they may block; the only way to get them out is the
context that `Close` cancels. `xchain.go` adds a third lock around a socket. A
`connection` is created by nobody: `qzmq.go:109` says "Send sends an encrypted
message", but `backend.go` hands the caller's bytes to `luxfi/zmq` as they are and
calls nothing of `connection.go`. The handshake is therefore modelled on its own,
through the methods it offers.

**What is hard.** Blocking under a read lock while others need the write lock;
plain counters incremented under a read lock; `Close` racing every other method;
a registry keyed by the text of an address in a garbage-collected heap; handshake
handlers that assign fields before they validate, may fail in the middle and may
be called again in any order; length fields that wrap around; a hybrid ciphertext
that is split by length alone; two nested locks, the outer one held while the peer
is waited for. `PROJECT.json` lists each hazard at its line with
the properties that watch it.

## 2. Modules

| Module | Models | Uses |
|---|---|---|
| `RWMutex` | Go's `sync.RWMutex` as a value (external) | |
| `SocketLife` | abstract: the end of a socket's life | |
| `ZmqSocket` | `zmqSocket`, step by step | `RWMutex`; implements `SocketLife` |
| `Transport` | `transport` and the sockets it owns | `RWMutex`; its sockets live as `SocketLife` says |
| `Options` | suites, modes, limits, presets, `validateOptions` | |
| `Crypto` | `getKEM` and all KEMs, symbolically | |
| `Connection` | client handshake and key rotation | `Options`, `Crypto` |
| `XChain` | two X-Chain nodes and what they exchange | `RWMutex` |
| `Frame` | `messageFrame.marshal` and `unmarshal` | |
| `BackendSelection` | `backend_selection.go` | |
| `MCZmqSocket`, `MCTransport`, `MCConnection`, `MCXChain` | casts and option sets for TLC | |
| `MCAlgorithms` | the inputs and properties of `Frame`, `Crypto` and `BackendSelection` | those three |
| `RWMutexProofs` | lemmas about the lock | `RWMutex` |
| `ZmqSocketProofs` | theorems about `ZmqSocket` and its refinement of `SocketLife` | `ZmqSocket` |
| `CounterProofs` | the counters of racing receivers | `ZmqSocketProofs` |
| `TransportProofs` | theorems about `Transport` and the life of its sockets | `Transport`, `RWMutexProofs` |
| `ConnectionProofs` | theorems about the handshake | `Connection` |
| `XChainProofs` | theorems about the two nodes | `XChain`, `RWMutexProofs` |
| `AlgorithmProofs` | theorems about frames and backend selection | `MCAlgorithms` |
| `CryptoProofs` | theorems about the KEMs | `AlgorithmProofs` |

### RWMutex

A record of readers inside, the announced writer and the readers queued behind
it. A writer first announces itself (which turns away new readers), then waits
until the readers inside have left; its unlock admits the queued readers as a
group. This is what makes `send_stalls` worse than it looks: one pending `Send`
also keeps out `GetMetrics`.

### ZmqSocket

A goroutine in a method goes through the labels
`idle -> [cancel] -> lock -> wait -> backend -> [count] -> unlock -> idle`.
`Call` chooses the method, `ReadLock`/`WriteLock`/`Enter` are the prologue with
its `closed` check, then there is one action per kind of backend call
(`Attach`, `Transmit`, `Receive`, `Subscription`, `SetOption`, `GetOption`,
`Shut`, `CopyField`), its failure (`BackendError`, `Interrupted`), the
increments (`LoadMessages` ... `StoreBytes`) and the deferred unlock (`Return`).
The Go memory model gives racing `uint64++` no atomicity, so an increment is a
load and a store, and the copy in `GetMetrics` is taken field by field in any
order. `moved` is a history variable: what the backend really accepted and
handed out. A message is its number of frames and a frame is one byte long.

The backend is external: an inbox, an outgoing queue with a high-water mark,
the filters, and `shut`, the number of times it was closed. `PeerSends` and
`PeerTakes` are the network.

### SocketLife

`users`, `cancelled`, `closed`: the socket is closed only after it is cancelled
and while nobody uses it, nobody starts to use it afterwards, and once it is
cancelled all users leave and it can be closed. `LifeSpec` is this specification
under the mapping that takes a goroutine between its `closed` check and its
unlock for a user. `Transport` is then built on sockets that are only this much,
and `SocketLives` shows that it does use them so.

### Transport

One action per method body; `Close` is a loop (`CloseBegin`, `SweepCancel`,
`SweepShut`, `CloseEnd`) with the transport's lock held throughout, since each
`socket.Close` in it waits for other goroutines. The heap has a few addresses;
the address of a socket that neither the application nor the registry refers to
can be handed out again, which is what `NoOverwrite` is about. `Deaf` is the set
of sockets whose backend ignores the cancelled context: empty, except in
`router_close`. Option values and statistics influence nothing and are left out.

### Options, Connection

Every method of a connection holds `c.mu` from end to end, so a call is one
step: an operator from the connection before to the connection after and how the
call ended (`ok`, `refused` for a wrong state, `error`, `panic`). A failed call
keeps what it had assigned by then. Randoms and what is made from them are
members of `Randoms`; `fault` chooses which read of the random source fails.
Marshalling is modelled by what it does: `clientHelloMsg.marshal` leaves the
suite at zero, so that the transcript does not bind the client's suite; a ServerHello
names a suite of `ServerSuites`, which `serverHelloMsg.unmarshal` steps over: it reads
the random and nothing else.
Rotation limits are scaled down; only zero and order matter. How a KEM operation
ends is asked of `Crypto`, so the empty hybrid of `getKEM` panics here because it
does there.

### Crypto

A draw from the random source is a number, 0 a read that failed. Keys and
ciphertexts are sequences of units that say which primitive made them, of which
key and of which sender's draw, so that they can be cut, extended and spliced; a
unit is about the 32 bytes of X25519, and the sizes keep only how they compare. A
secret is a set of terms and XOR the symmetric difference. Go's type assertions
are the `type` of a key. The primitives themselves, X25519 and the `mlkem`
library, are external and ideal; X25519 takes several encodings of a public key for
the same (it ignores the top bit, takes values beyond the prime, and multiplies a
component of small order away), so a unit that is a point also says in which encoding
it comes. What the code does around them is kept: the stub
KEMs draw every result and ignore a failing read; `HybridKEM` passes the halves of
a key on as plain keys, so that it always fails over a real ML-KEM; its
`Decapsulate` returns zeroes; a real ML-KEM seals to whatever scheme the key is
for; `HybridMLKEM` splits the ciphertext where the classical part ends.

### Frame

The layout and the widths of the fields (1, 4, 8, 1, 4 and 2 bytes) are the
code's; a byte has `Base` values instead of 256. With `Base = 2` an AAD length
wraps around at 4 and a payload length at 16, both within reach of TLC. The proofs
are about any `Base`, 256 included. `Put16`, `Put32`, `Put64` and `Get16`, `Get32`,
`Get64` are `encoding/binary`, each built from the next smaller one.

### BackendSelection

An environment is what the decisions look at: the backend that is named, the build
tags, whether CGO is on, and the kind of deployment. Each function is an operator.

### XChain

Each node is `t.mu` around one socket with its own `s.mu`; a goroutine goes through
`idle -> [tlock] -> twait -> [slock] -> swait -> idle`. The socket is `ZmqSocket`
without its counters: the same side of the lock, the same blocking, the same effect
of a cancelled context. A lock that can be requested is requested in the step
before, and the deferred unlocks belong to the step that ends the backend call:
requests move right and releases left past the steps of others, so nothing is
hidden by this.

A node's messages are numbered and are orders or blocks; the queues are sets of them.
There are as many connections between the two nodes as dials that met a listening
socket, counted up to `Many`, and all endpoints are the peer's: `ConnectToPeers`
given two of them makes two connections. `NextIn` says which message of a queue may
be the next: the oldest, if there is one connection; any, if there are several, since
a ZeroMQ DEALER spreads what it sends over its connections and takes turns in what it
receives. This is what is assumed of `luxfi/zmq`, which is external; so is that `Shut`
drops both queues of the socket, which is what `Linger: 0` (`qzmq.go:383`) asks for.
`Deliver` is the network between two open nodes with a connection; a socket that dials
before its peer listens is connected once the peer does.

## 3. Runs

| Run | Expected | What it shows |
|---|---|---|
| `socket_duplex` | pass | a receiver, two senders, a monitor and a closer: sent counters are exact in the socket and in every returned copy, one receiver is counted exactly, nothing changes after `Close` |
| `socket_receivers` | pass | two receivers on a SUB socket lose counts but never overcount; no call reaches a backend that is shut, and none gets in before a `Close` that waits |
| `socket_close` | pass | two closers against a blocked receiver and a sender or subscriber at the high-water mark: everyone returns, the lock is never left behind, the backend is shut once, `SocketLife` is implemented |
| `lost_update` | violation | two receivers lose an increment of `MessagesReceived` |
| `send_stalls` | violation | a `Send` waits for ever behind a `Recv` of the same socket although the backend has room |
| `transport` | pass | no socket escapes the transport's `Close`, no entry is overwritten, a call waits only for one that can go on or for the user of a cancelled socket, every call returns, sockets live as `SocketLife` says |
| `router_close` | violation | with a backend deaf to the context, `Close` and every call behind it hang |
| `handshake` | pass | every suite and mode that `New` accepts, any order of calls, any failure of the random source: the transcript binds what was exchanged, failures are retryable, accepted hellos are pinned, a rotation that is due stays due until keys are made, and no method panics once a hello has left |
| `suite_agreement` | violation | a client with the zero suite accepts a ServerHello that names another suite: the check compares a field that `unmarshal` never sets |
| `one_rtt` | violation | a driven handshake never ends: `clientHello` panics under `DefaultOptions`, and the zero suite, the only one with which a ServerHello is accepted, stops at `clientKey`, however often it is tried |
| `algorithms` | pass | a frame survives a round trip exactly when its lengths fit; `unmarshal` accepts only what the data begins with; the holder of a key and nobody else gets the sender's secret, from the sender's ciphertext up to the encoding of its X25519 point; the stubs and `HybridKEM` never agree; a selected backend is unusable only by explicit choice; the validators differ in exactly one case (`luxzmq` named without CGO) |
| `xchain` | pass | the two locks of a node never form a cycle; orders arrive once, in sequence over one connection, and are not lost before a `Close`; a call that never returns waits for the peer, and a `Close` of its own node ends that |

The violations are disagreements between the code and what its own comments,
docs or tests say of it; the findings in `PROJECT.json` quote the lines. One of
them is known to the authors in part (`LLM.md` lists the ROUTER cleanup as open).

Another disagreement needs no run: `updateKeys`, which "performs key rotation"
(`connection.go:307`), makes keys, resets what `needsKeyUpdate` looks at and returns the
keys without installing them. No connection has keys that this could leave in place
(`KeysAreNeverDerived`), so the runs check what does matter already: that nothing but
new keys ends the need for them.

**Bounds.** Three goroutines are enough for every race here: two that interleave
inside a read-locked section and a third that closes, sends or watches. Three
arriving messages let a stale store undo two later increments. Messages of 0, 1
and 2 frames separate `Recv` (first frame, empty message uncounted) from
`RecvMultipart`. A high-water mark of one makes a sender block. `MaxSends` bounds
calls, never a call under way, so it cannot make a liveness property fail or hold.
Two addresses for three sockets force reuse. Two random values tell a fresh value
from a stale one. `Configs` in `handshake` is all of `TransportOptions`, and a server names
the zero suite or that of a preset (`NamedSuites`).
In `algorithms` frames go one past the wrap-around of both length fields, the data
given to `unmarshal` has every payload length with every tail of up to six bytes and
every shorter header, environments are all of them, and an exchange has any KEM, any
maker of the key, a draw that fails or coincides, another key pair that differs in one
half, and nine things that can happen to a ciphertext.

In `xchain` one node has a receiver, a submitter, and a goroutine that starts the DEX
services, dials its peer once or twice and closes; its peer does one thing at a time. Two
orders are enough for one to overtake the other, and two dials for `Many`. A high-water
mark of one makes the submitter wait for the network. One message from the peer, an
order or a block, is enough to release a receiver, and after it none comes, so that a
receiver can wait for ever. A larger cast, in which the submitter dials too and the peer
sends two messages, was checked for the safety properties alone (1.3 million states); it
shows nothing else, and the theorems are about any cast.

**Fairness.** In `ZmqSocket` and `Transport`: weak fairness of a goroutine's own
steps (the Go scheduler runs what can run) and strong fairness of lock
acquisition (`sync.Mutex` goes into starvation mode and then hands over in
order). Nothing makes a goroutine call a method, the backend fail, a peer send
or take a message, or an uncancelled user leave. `Interrupted` is one of the fair
steps: that a cancelled context ends a blocking call is the assumption `Close` is
written on, and `router_close` shows what depends on it. In
`XChain` the network delivers between linked nodes; nothing makes the peer send. In
`Connection`, `HandshakeCompletes` is refuted under strong fairness of `Advance`: a driver that
makes whatever call would take the handshake on, again and again.

**Deadlock** is checked everywhere except in `handshake`, `one_rtt` and
`suite_agreement`, where a panic ends the program, and in `algorithms`, where a behaviour is one input.

**Mutants.** Operators marked "Mutant" stand next to the definition they replace
in a mutation run: a dropped `closed` check, a `Close` that does not cancel first,
`Send` under the read lock, a registry that does not keep its sockets alive, and
so on. They are not part of any specification. Each property of a passing run is
broken by at least one.

## 4. Proofs

The theorems hold for every value of the constants that satisfies the `ASSUME`s of
the module they are about: any finite set of goroutines, any assignment of methods
to them, any queue bounds, any number of sockets and addresses, any random values,
bytes of any size. Each inductive invariant was checked with TLC on the runs of its
module before it was proved.

### The socket

| Module | Theorem | Statement |
|---|---|---|
| `ZmqSocketProofs` | `TypeCorrect` | `Spec => []TypeOK` |
| | `Invariance` | `Spec => []Inv` |
| | `SentExactness` | `Spec => []SentExact` |
| | `ReceivedExactness` | `Spec => []ReceivedExact`, if only one goroutine receives |
| | `CloseIsSafe` | `Spec => []NoUseAfterClose` |
| | `SnapshotIsExact` | `Spec => []SnapshotSentExact` |
| | `ClosedIsFrozen` | `Spec => ClosedFreezes` |
| | `LivesSafely` | `Spec => Life!Safety` |
| | `LockIsNeverLeftBehind` | `Spec => []SomebodyHasMu` |
| | `CloseIsServedInTurn` | `Spec => CloseIsNotOvertaken` |
| `CounterProofs` | `NothingIsOvercounted` | `Spec => []NeverOvercounts` |

None of these properties is inductive, because each depends on who may be inside
the lock together. `Inv` is the conjunction of

- `Typed`: the types, and that a goroutine about to count a byte has one left;
- `Exclusion`: what the record `mu` says of each goroutine's label. A writer that
  is past `wait` is the only goroutine past `wait`; a reader that is past it is in
  `mu.readers`. Lemmas `Alone` and `AloneAtDoor` draw the consequence used later;
- `Closing`: how `closed`, `shut` and a `Close` in its critical section determine
  each other. It gives `NoUseAfterClose`: a method in the backend saw
  `closed = FALSE` under a lock that excludes the `Close` that sets it;
- `Sending`: of a sender that is counting, its loaded value and its remaining bytes
  account exactly for the difference between `moved` and `metrics`;
- `SentExact` itself, for the times when nobody is counting a send;
- `Copying`: the sent fields `GetMetrics` has copied are still the true ones, since
  no sender can be inside with it.

Each part has a lemma with one step per action. `ClosedIsFrozen` needs no more than
`Closing` and `Exclusion`: a step that changes a counter is taken by a goroutine
inside the lock, and once the backend is shut nobody counts.

The account of the sent counters is one operator over the methods and the two
fields, `Account`, whose preservation needs only that no two goroutines count at
once. For senders that follows from the write lock. For receivers, which hold the
read lock, it follows from `OneReceiver`, the hypothesis of `ReceivedExactness`;
the run `lost_update` shows that two receivers are one too many, so the hypothesis
is needed, and the run `socket_duplex` satisfies it.

`NothingIsOvercounted` needs nothing of the lock and holds for any number of
receivers. Its invariant, `Accounted`, counts the increments that are still due: the
messages whose increment is under way (`MessagesDue`) and every single byte that is
still to be counted (`BytesDue`, a set of pairs). A counter plus what is due never
exceeds what moved, *and the same is true of every value that somebody has loaded and
is going to store*. The second half is what makes it inductive: a store replaces the
counter by such a value plus one and takes one increment from what is due.

`LivesSafely` is the safety part of the refinement `LifeSpec`: the initial state maps
to an initial state of `SocketLife`, and every step to a step of it or to a stutter.
It needs `Inv` and, in addition, `CancelledFirst`: a `Close` that is past its first
label has cancelled the context.

The last two theorems are the safety part of `CloseDrains`. Who waits for `s.mu`
waits for a goroutine that is in a method and has it, never for a lock that was left
locked or for another waiter alone; a `Close` that waits has cancelled the context,
so that whoever is in its way can be interrupted; and from its announcement on nobody
else gets in, so that those in its way only become fewer. What is left to TLC is that
each of them does take its steps. Both rest on `LockAgrees`: the readers, the queue and the
writer of the lock are exactly the goroutines whose labels say that they have asked
for it and not yet unlocked it (`Requests`, in `RWMutexProofs`, which also says what
every operation of the lock does to it).

### The transport

| Theorem | Statement |
|---|---|
| `TypeCorrect` | `Spec => []TypeOK` |
| `Invariance` | `Spec => []Inv` |
| `CloseIsComplete` | `Spec => []CloseReachesAll` |
| `CountIsCovering` | `Spec => []CountCoversOpen` |
| `EntriesArePinned` | `Spec => NoOverwrite` |
| `WaitingIsForTheCancelled` | `Spec => []WaitsOnlyForCancelled` |
| `SocketsLiveSafely` | `Spec => Life(s)!Safety` for every socket `s` |

`TypeOK` is inductive only with `Targets` (whoever is about to shut a socket has
cancelled it). The invariant adds `Exclusion` for the transport's lock; `Registry`,
that an entry belongs to the socket at its address and that every created socket has
its entry until the transport is closed; and `Sweeping`, that the loop of `Close` has
closed what it no longer has on its list and that nothing is created meanwhile.
`NoOverwrite` then follows because an address is only reused when the registry does
not refer to it. Deaf backends are included: they can keep `Close` from returning,
and cannot make it return too early.

`WaitsOnlyForCancelled` is the safety part of `CallsReturn`. Somebody who waits for
`t.mu` waits for a holder (`LockAgrees`, as for the socket); a holder can go on unless
he is a `Close` at a socket in use; and then `Targets` says that this socket is
cancelled. So the only thing that can keep the transport's methods from returning is a
backend that does not heed the context, which is what `router_close` shows.

### The handshake

| Theorem | Statement |
|---|---|
| `Invariance` | `Spec => []Inv` |
| `TypeCorrect` | `Spec => []TypeOK` |
| `TranscriptIsBinding` | `Spec => []TranscriptBinds` |
| `OnlyTheFirstCallPanics` | `Spec => []PanicsBeforeSending` |
| `KeysAreNeverDerived` | `Spec => [](conn.state` is one of the first three `/\ conn.keys = 0)`, and in `ServerHello` the client's suite is the zero suite |
| `FailuresAreRetryable` | `Spec => FailureIsRetryable` |
| `HellosStayPinned` | `Spec => HellosArePinned` |
| `DueRotationsAreKept` | `Spec => RotationStaysDue` |

For each method a lemma (`ClientHelloEnds` and its like) says what it leaves behind,
when it succeeds and when it fails at any point. The invariant's core is `Reached`,
which gives for each state of the connection the exact transcript, the KEM and, from
`ServerHello` on, the empty key that `processServerHello` keeps. That key is why
`clientKey` always fails, for all options and random values: `KeysAreNeverDerived` is
the general form of what the run `one_rtt` shows by a counterexample. It also says
which clients accept a ServerHello at all, and that the suite the server names has no
part in it (`suite_agreement`); the zero suite's KEM is X25519, which is why a KEM
without parts never gets to `clientKey`. For the same reason `processFinished`, which is behind `clientKey`, is refused in every reachable
state, and the theorems say nothing more of it.

### The X-Chain nodes

| Theorem | Statement |
|---|---|
| `TypeCorrect` | `Spec => []TypeOK` |
| `Invariance` | `Spec => []Inv` |
| `LocksAreAcyclic` | `Spec => []NoLockCycle` |
| `OrdersAreDelivered` | `Spec => []OrderDelivery` |

`LocksAgree` says that each mutex is in exactly the state that the goroutines between
its request and its release have brought about (`Requests` in `RWMutexProofs`, with
lemmas on how the four lock operations change it); `Nested` that whoever is at `s.mu`
has `t.mu`, unless its method bypasses it; `Placed` that a goroutine is only where
its method can be. From these `NoLockCycle` follows in two steps: while anyone
requests `s.mu`, somebody has been granted it and is in the backend; otherwise, while
anyone requests `t.mu`, somebody has it and is past it.

`OrderDelivery` is not inductive, since it says nothing of where a message is.
`Delivered` says for each direction that what was returned, what waits and what is
queued are disjoint and carry numbers that the sender has used (`Sound`); that over one
connection everything returned is older than everything that waits, and that older than
everything queued (`Ordered`); and that until a context is cancelled no order is
anywhere else (`Kept`). There is a lemma for each way a message moves (`SendKeeps`,
`CarryKeeps`, `TakeKeeps`, `DropKeeps`); `LinksGrow` says that connections are only
added, so that nodes with one now have never had more; `Closing`, that a `Close` past its
first step has cancelled the context.

### Frames and backend selection

| Theorem | Statement |
|---|---|
| `EverythingIsReadSoundly` | `\A data \in Seq(Bytes) : ReadSoundly(data)` |
| `FramesSurviveIffTheyFit` | `\A f \in AnyFrames : Restored(f) <=> Fits(f)` |
| `DataAreReadSoundly` | `Spec => []UnmarshalSound` |
| `FramesRoundTrip` | `Spec => []RoundTrip` |
| `SelectionIsUsable` | `Spec => []SelectionUsable` |
| `ValidatorsAreAgreed` | `Spec => []ValidatorsAgree` |

The first two are about all byte sequences and all frames, not only about those the
run enumerates; the other four are what the run checks. The argument is in three
layers. Numbers: two digits below `R` make a number below `R * R` and are its digits
(`Compose`, `Decompose`), once for each of the three widths; so what is read from
bytes gives those bytes again (`Repack16`, `Repack32`, `Repack64`), and different
numbers of a field's range are put differently (`Inject16`, `Inject32`, `Inject64`).
Slices: neighbouring slices make one (`Glue`), and what lies in a sequence stays there
when more is appended (`Appended`), which gives the place of every field in a
marshalled frame (`MarshalLayout`). Unmarshalling: `UnmarshalEnds` reduces its checks
to one condition, `Whole`. A frame that does not fit is never restored, because the
lengths of what `unmarshal` returns are below the ranges whatever it reads.

### KEMs

| Theorem | Statement |
|---|---|
| `OnlyTheHolderOpens` | `Fresh(key, opener, seal) => Agreement(kem, maker, key, opener, seal, ct)`, for every KEM `kem`, every maker of the keys, all draws in `Nat \X Nat` and all `ct \in Seq(Unit)` |
| `SecretsAreAgreed` | `Spec => []KEMAgreement` |

`Agreement` is the body of `KEMAgreement`: whenever a key pair was made, another one
opens and something was sealed to the first, opening gives the sender's secret if and
only if the KEM works, the ciphertext is the one that was sealed up to the encoding of
its X25519 point (`Canonical`) *and* the private key is the one it was sealed to. The
run checks it for some draws and nine changes; the theorem is about all draws and all
sequences of units that can arrive, cut, extended, spliced or made up. That an encoding
does not matter is the code's doing: neither `X25519KEM` nor `HybridMLKEM` makes the
ciphertext a part of the secret. The working KEMs are `X25519KEM`, the two real ML-KEMs
and `HybridMLKEM`; the stubs, which draw every result, and `HybridKEM`, which cannot
open, agree on nothing (`PlaceholdersNeverAgree`).

`Fresh` says that whoever opens has not drawn the sender's own ephemeral X25519 scalar,
unless the sender drew that of the key. It is needed: with that scalar and the
recipient's public key, sent back as a ciphertext, the same Diffie-Hellman secret comes
out. Draws of 32 random bytes do not coincide by chance; the draws of the run satisfy
`Fresh`, so that `SecretsAreAgreed` has no such hypothesis.

The argument goes up in layers. Units and terms: which sequences of units the
primitives make, and that a term of a secret names one primitive, key and draw
(`TermsDiffer`), so that the symmetric difference of two secrets of different
primitives keeps both (`XORKeepsBoth`, `XORTellsApart`). Primitives: X25519 gives the
same secret to the two ends and otherwise only to who holds one of the two scalars
(`DHAgrees`), a real ML-KEM opens only what was sealed to its key (`MLKEMOpens`). Key
pairs: what each maker makes, and that a private key determines its maker's type and
draws (`WhoMadeIt`, `PrivateKeysDiffer`), which matters because the code looks at Go
types and not at schemes. Sealing and opening per KEM; for `HybridMLKEM` the ciphertext
is split after the classical part (`SplitAtOne`), each half is opened, and the XOR is
the sender's only if both halves are. `SecretsAreAgreed` adds that what a KEM seals is a
non-empty sequence of units and that every change leaves it one.

### Only model-checked

Of the properties of passing runs only liveness: fairness and ENABLED are out of the
prover's reach.

- `CloseDrains`, `CallsReturn` and `WaitsOnlyForPeer`. Their safety parts are proved:
  `SomebodyHasMu` and `CloseIsNotOvertaken`, `WaitsOnlyForCancelled`, `NoLockCycle`.
- `LifeSpec` and `SocketLives`, of which `LivesSafely` and `SocketsLiveSafely` are the
  safety part: the fairness of `SocketLife` is model-checked.

TLC refutes the properties of the `violation` runs, so there is nothing to prove, but
two theorems say more about them: `KeysAreNeverDerived` generalises the reasons why
`HandshakeCompletes` and `NamedSuiteIsAgreed` fail, and `ReceivedExactness` proves `ReceivedExact` from the
hypothesis that `lost_update` violates.

## 5. Not modelled

- What `luxfi/zmq` does on the wire, and reconnection: external.
- The mathematics of X25519, ML-KEM, AEADs and HKDF: ideal. A suite with BLAKE3
  derives its keys with SHA-256 (`crypto.go:462`), which the model, where only the
  secret matters, does not tell apart.
- Signatures: no certificate is ever parsed and no signing key ever set, so the
  branches of the handshake that use them are dead code; the ML-DSA signer is a
  placeholder by its own comments.
- `keyUpdateMessage` and `closeMessage`, which have an encoder and no decoder;
  cookies, which nothing stores; `UpdateKEMFactory`, which is empty;
  `GetBackendInfo` and `IsQuantumEnabled`, which only make text.
- What orders and blocks contain: JSON in, JSON out.
- The server's side of the handshake, PSK, early data and cookies: declared in
  `connection.go`, implemented nowhere.
- Overflow of the 64-bit counters.
- `int(payloadLen)` (`connection.go:517`) where `int` has 32 bits: `Frame` takes the
  conversion for the identity, which it is on 64-bit targets only.
- The `unknown backend` defaults (`backend_selection.go:143-144` and `263-264`), which no
  value of `Backends` reaches.
- X-Chain nodes with more than one peer: every endpoint is one of the other node's.
- Logging, test helpers and the example.

## 6. Plan

Every component with state or decisions of its own is modelled, and every safety
property that a passing run checks is proved. What could follow:

1. When the code changes: the server's side of the handshake, PSK and early data, once
   they are implemented; a `connection` composed with a socket, once `Send` encrypts;
   the `violation` runs turned into passing ones, once what they show is repaired.
2. Liveness by hand from the proved safety parts, with a prover that knows ENABLED.
