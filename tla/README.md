# Verification of DOMI

DOMI is a small network library in Go. A process is a *node*: it registers in
etcd, connects to every other node over TCP, subscribes to numbered channels
and sends requests to the nodes of a channel. This directory holds TLA+ models
of the parts of it that run concurrently, the TLC configurations that check
them, and proofs checked by TLAPS. Every line number below is one of `src/`.

## 1. The system

| Component | State | Operations | Talks to |
|---|---|---|---|
| Session, send path (`transport/tcp_session.go`) | `state`, current `wSlot`; per slot `allotCursor`, `availableCursor`, `writeLock`, `rejects`; a WaitGroup | `WriteFrameDataToCache`, `WriteFrameDataPromptly`, `slot.WorkFunc`, `simpleSlot.WorkFunc`, `SetState`, `Close` | hands slots to the dispatcher, asks the breaker, is closed by the read loop and by `cluster.Run` |
| Dispatcher (`util/work_queue.go`) | `JobQueue`, `jobSlice`, `workerQueue`, `workerPool`, `workerPoolCount` | `Run`, `assignmentTask`, `Worker.run`, `Close` | runs the sessions' jobs |
| Circuit breaker (`util/circuitBreaker.go`) | `state`, `halfOpenToken`, `timestamp`, the buckets of a sliding window | `ErrorRecord`, `IsPass`, `SetCircuitBreakerPass` | pings the peer through its session; the pong comes back through the handler table |
| Requests (`sidecar/cluster.go`) | a bucket of ids per channel, with a cursor | `AskOne`, `AskAll`, `Specify`, `bucket.next` | the sessions |
| Membership (`sidecar/cluster.go`, `etcd.go`, `sidecar.go`, `peer.go`) | etcd keys `machine/`, `state/`, `channel/`; `NodeChan`, `StateChan`, `ChannelChan`; `sessions`, `channels` | `RegisterServer`, `dialNode`, `etcd.run`, `initStateAndChannels`, `cluster.Run`, `Subscribe`, `Unsubscribe`, `DisconDistributer` | etcd, the other nodes, the sessions |
| Ring buffer (`util/ring.go`) | `ring`, `submitRing`, `askCursor`, `availableCursor` | `WriteToRingBuffer`, `ReadFromRingBuffer`, `SetAvailableCursor` | filled by read loops, emptied by Serial |
| Serial (`serial.go`) | ring buffer, `channelMap`, `bags`, `rejectFuncChan`, `unsubscribeChan`, `stopChan` | `Init`, `Run`, `Subscribe`, `SubscribeAll`, `UnsubscribeGroup`, `Close` | the ring buffer, the node's requests and subscriptions |
| Read loop (`tcp_session.go`, `tcp_server.go`, `tcp_client.go`) | `rBuf` with its two indices, the pool of buffers | `ioRead`, `getFrameType`, `GetFrameSlice`, `tcpReceive`, `ioLoop`, `Run` | the handler table, the limiter |
| Limiter (`util/limiter.go`) | `tokens` | `Wait`, `Run`, `Close` | the read loops |
| Lifecycle (`master.go`, `wait_group_wrapper.go`, the ends of every `Run`) | child counts and WaitGroups, a context, stop channels | `Guard`, `Stop`, `RunAssembly`, the shutdown of `Sidecar`, `ServerTCP`, `cluster`, `Serial` | everything |

What is hard in it:

* **Send path.** Lock-free claims of byte ranges in a shared buffer, a buffer
  replaced while calls still hold it, and a pool that gives it to someone else.
  Correct means: claims are disjoint, every write carries whole frames, what was
  accepted is written or reported, and `Close` ends.
* **Dispatcher.** Unbuffered sends from the goroutine that also collects the
  workers, slices cut at both ends, a shutdown with an unsynchronised counter.
  Correct means: each job is run once, the pool never blocks itself, the
  shutdown ends.
* **Circuit breaker.** Several atomics that only make sense together, and a
  message that may be lost. Correct means: opens at the threshold, one probe at
  a time, recovers.
* **Requests.** A shared cursor advanced and reset without a lock, in a bucket
  that is replaced. Correct means: no index out of range, every node in turn,
  a request comes back.
* **Membership.** A snapshot and three watches that overlap, TCP connections
  that come and go by themselves, machine ids that are given out again, bounded
  channels. Correct means: once all events are handled the view is the truth.
* **Ring buffer.** Claims that a consumer sees before the bytes are there.
  Correct means: it is a queue, from which frames come whole, in order, all of them.
* **Serial.** One goroutine is the only reader of two bounded channels and
  also writes to one of them; the rows of a group are cells of a slice that is
  grown, cut and replaced; `Close` waits by sleeping. Correct means: the n-th
  messages of a group's channels go together, and what was accepted is done.
* **Read loop, limiter.** A frame comes in any pieces and is routed where it
  lies; the buffer is moved under it and goes back to a pool; several loops
  borrow from one counter that its owner adds to and caps in two steps.
  Correct means: handlers get what was sent, whole, once and in order, and
  every loop ends.
* **Lifecycle.** Six goroutines and the sessions wait for each other through
  WaitGroups, channels and a context. Correct means: what others still use is
  closed after them, and the program ends.

The hazards of the code, each with its line and the properties that watch it,
are listed in `PROJECT.json`.

## 2. The modules

| Module | Models | Instances |
|---|---|---|
| `WriteSlot` | `transport/tcp_session.go` 15-113, 162-263, 279-357 | `MCWriteSlot` |
| `WriteSlotProofs` | the theorems about `WriteSlot` | |
| `Dispatcher` | `util/work_queue.go` | `MCDispatcher` |
| `JobPool` | the abstract promise of the dispatcher | |
| `DispatcherProofs` | the theorems about `Dispatcher`, its refinement of `JobPool` included | |
| `CircuitBreaker` | `util/circuitBreaker.go`, the ping and pong of `tcp_session.go` 86-99 | `MCCircuitBreaker` |
| `CircuitBreakerProofs` | the theorems about `CircuitBreaker` | |
| `Request` | `sidecar/cluster.go` 14-66, 121-143, 323-376 | `MCRequest` |
| `RequestProofs` | the theorems about `Request` | |
| `ClusterView` | `sidecar/cluster.go` 68-321, `etcd.go`, `sidecar.go` 93-215 | `MCClusterView` |
| `ClusterViewProofs` | the theorems about `ClusterView` | |
| `RingBuffer` | `util/ring.go`, its use in `serial.go` 119-130 | `MCRingBuffer` |
| `FrameQueue` | the abstract promise of the ring buffer; `RingBuffer` implements it, `Serial` is built on it | |
| `RingBufferProofs` | the theorems about `RingBuffer`, its refinement of `FrameQueue` included | |
| `Serial` | `serial.go` | `MCSerial` |
| `ReadLoop` | `tcp_session.go` 36-39, 56-160, `tcp_server.go` 100-169, `tcp_client.go` 88-126, `handler.go` 34-69, `util/limiter.go` | `MCReadLoop` |
| `ReadLoopProofs` | the theorems about `ReadLoop` | |
| `Shutdown` | `master.go` 44-80, `wait_group_wrapper.go`, the ends of `sidecar.go`, `cluster.go`, `etcd.go`, `serial.go`, `tcp_server.go` | `MCShutdown` |
| `SerialShutdownProofs` | the theorems about `Shutdown` and about `Serial`, each from the assumption of its own module | |

A step of a model is one atomic operation, one channel operation or one
unsynchronised access of the code; local computations are folded into the step
that uses them. A goroutine is a control point in `pc` (or `phase`, `dpc`,
`cpc`, `worker`), whose values are named for the operation that comes next.
Names are the code's. An operator whose name ends in `_Something` is a variant
of the definition after it with a plausible mistake; no specification uses it.
It documents which mistake a property notices.

**WriteSlot.** A frame is sent by one call and the call is named by its frame.
`Call` is the entry with its early returns, then `Load` (218), `Lock` (219),
`Allot` (220-221), which leads to `Commit`, `Busy` or `Cross`; `Commit` (246-247),
`Register` (248-249), `Unlock` (250) and `Submit` (252-257). `WorkSwap`,
`WorkSpin`, `WorkTimeout`, `WorkSend` and `WorkDone` are `slot.WorkFunc`;
`BigWork` is `simpleSlot.WorkFunc`; `SetState` is what `cluster.Run` does to a
session; `CloseBegin`, `CloseConn` and `CloseRelease` are `Close`. The breaker is
a choice here (any answer is possible), as is a failing connection. The bytes of
a frame are not modelled, only where they lie. `sent`, `rejected` and `torn` are
history, and so is `overtaken`: the slots whose `WorkFunc` left its spin while a call
stood between 218 and 219. Two switches restrict the model to assumptions the code
makes but does not ensure: `SleepOutlastsLoad` (a call is not caught between 218 and 219 while
`WorkFunc` sleeps at 322) and `~LateStateEvents` (no state event reaches a
session that is closing). The dispatcher is assumed to run what it is handed,
which `Dispatcher` shows. The five seconds of `CloseRelease` are taken to outlast
the calls and jobs that were under way (`Quiescent`).

**Dispatcher.** `Send` and `Close` are the callers; `TakeWorker`, `TakeJob`,
`Tick` and `Stop` the select; `Drain` to `WaitEnd` the shutdown. `Tick` with
nothing to pair is a stutter. `workerPoolCount--` is a load and a store because
nothing orders the dispatcher's and the workers' accesses. `JobPool` has three
sets of jobs; `Dispatcher!Pool` maps queued and sliced jobs to `waiting`, jobs
held by a worker to `running`.

**CircuitBreaker.** Time is relative: stamps are kept as ages that grow with
`Tick` up to the first value the code treats as out of the window, where the model,
not the code, stops counting (`Older`). `ErrorRecord`
holds its mutex over `RecordSwap` and `RecordStamp`. `PongLost` and
`ForeignPong` stand for the network and for the handler that all sessions share.

**Request.** `Next1` and `Next2` are the addition and the store of
`bucket.next`; the cursor is the low half of the word, and the second part of
`IndexInRange` is why it never reaches the high half. `Install` gives every new bucket a number of
its own so that an asker keeps the one it loaded, as `newBucket` makes a new array.
`AddId`, `RemoveId`, `SessionDies` and `SessionLives` are what `cluster.Run` and the
connections do meanwhile; a session may fail and come back any number of times, and
askers ask without end. `due` is history: the ids an `AskAll` found in its bucket and
that have accepted frames ever since, which it must have reached when it has returned.

**ClusterView.** One node, `Self`, with its goroutines (`Sidecar.Run`,
`etcd.run`, `cluster.Run`, read loops); every other node is one life of a
process that registers, listens, dials, works and leaves or crashes. etcd is a
serial store that appends an event to the watch of its prefix; the three watches
are read independently. `Quiet` says that no event is on its way, and the
agreement properties are stated for quiet states. Four steps are *in haste*
(operator `Haste`, history `hasty`): a process registers with an id of which there
is still news on its way to `Self`; it leaves or crashes while there is news of it,
or its own session, on the way; it, or `Self`, is dialled after it has
registered and before it listens. With `Prompt` none of the four is taken; joins,
leaves and crashes overlap all the same. The code takes them, and the configurations
without `Prompt` show what happens then. `etcd.run` is one goroutine (117-157); the
model has one pump per watch (`PumpNode`, `PumpState`, `PumpChannel`), so that a full
channel does not hold up the other two as it does in the code.
There is one channel.

**RingBuffer.** A cell is as long as the length field. `LengthAt` is what the
consumer may read at the head of a claimed range: the length of the frame that
begins there, zero in a fresh ring, anything in the middle of older data.
`RingBuffer!Queue` maps the claimed ranges to `FrameQueue`'s `queue`, the marked
ones to `ready`. Frames have any lengths. `misled` is history: the consumer has found a
mark at an end that is not that of the next frame, because it read the
length from bytes that were not written yet and there was an old mark there.

**FrameQueue.** Three sequences of frames: claimed, filled, taken. The consumer
stops at a frame that is claimed and not filled. It is to `RingBuffer` what
`JobPool` is to `Dispatcher`, and `Serial` instantiates it in place of the ring,
which is right as long as the consumer is not misled, and so always for frames of one
length that divides the ring (see `RingBuffer_mixed` for what happens otherwise).

**Serial.** `Setup` is the order in which the program calls `Init`,
`SubscribeAll` (with the `Subscribe` of the plain channels) and `Run`. `Arrive`,
`Claim` and `Fill` are a read loop inside `serialProcessWrapper` and
`WriteToRingBuffer`; `Handle`, `Drained`, `Fire` and `NextBag` are
`assignmentTask`, one step per handler call; `Tick`, `RunReject`,
`RunUnsubscribe`, `RunCloses` and `Stop` are the cases of the select. A group's
`buf` is a sequence of rows, as its code adds, fills and cuts them
`channelsSize` cells at a time. `Rejected` is `serialRejectFuncWrapper`: it may
be called by any goroutine (`Fail`, `FailSend`) and by a handler whose request fails in the
call (`FailsAtOnce`), which is the goroutine of `Run` itself. `Release`, five minutes
after `Run`, closes the two channels, and who still waits to send on one panics
(`FailPanics`, `UnsubscribePanics`). The unsubscription
of the node's channels that `UnsubscribeGroup` and the end of `Run` begin with is in
`ClusterView` and `Shutdown`. Four assumptions are constants: `Setup`,
`EarlyClose` (Close before Run has begun), `SleepOutlastsWrite` (no write is
under way when `Close` wakes) and `Panics`.

**ReadLoop.** A stream is what a peer sends: frames with a length and a kind (a
handler's work, a handler's panic, a type nobody handles, `FrameTypeNil`,
`FrameTypeExit`). A panic ends the loop through the `recover` around it. `Read`
delivers any number of its bytes, and `ReadEnds` is a Read that fails: at the end of
what was sent, on a closed connection, or because its deadline of 10 s passes, at any
moment. A buffer is a sequence of cells that hold which
byte of which connection lies there, so that a length read from the wrong bytes,
or from a buffer that another session has by now, shows. `ReadHead` is the
protocol head of accepted connections; `NewSession`, `Close` and `Recycle` are
the life of `rBuf` in its pool. `Take` and `AddBack` are `Wait`, with all that is
in the buffer as in the code (159: what was left over counts again). `Refill` and
`Cap` are the two steps of the ticker. Every frame is at least a head long, and
`LimitSize` exceeds a buffer, which `NewSidecar` (57) ensures.

**Shutdown.** It begins when `Sidecar.Run` has opened `readyChan`. A child is
"run", "done" (its WaitGroup knows) or "uncounted" (`childCount` knows). `dieSent`
is the state message to `cluster.Run`. A message in `ChannelChan` is an order of this
node, which `TakeChannel` writes to etcd and whose event comes back, or a notice.
`cluster.Run` closes one session after the other and waits in the `Close` of each
(`CloseSession`, `SessionClosed`). A session has its read loop, its `Close`, at most
one call past the test of the state (`Call`, line 196) and at most one job
(`Post`); between the two `Close` may pass its `Wait` and the dispatcher be closed.
`overtaken` has the sessions to which that happened, `uncounted` those whose
`tcpReceive` had not come to its `Add(1)` when `ServerTCP.Run` passed its `Wait`.
An accepted session is announced with `NodeName` if it is a node's, any time while
its loop reads, this node's end included. `Talkers` are peers that never fall
silent. The forced exit after `exitWaitTime` (52-64) is not a step: it would cut the
program off wherever it is.

## 3. The runs

Passing runs:

| Run | Instance | Shows |
|---|---|---|
| `WriteSlot_safety` | three frames that fill a buffer together, in any order, and a big one with a nil errFunc; `SleepOutlastsLoad` | `HandedOverOnce`, `WholeFrames` |
| `WriteSlot_delivery` | frames of 2, 3, 4 bytes, buffer 6, up to 3 slots; `SleepOutlastsLoad`, fair | `DisjointFrames`, `NoLateCommit`, `AcceptedIsWritten`, `CloseCompletes`, `CopiedIsFlushed` |
| `Dispatcher_pool` | 2 workers, 4 jobs, queue 2, one panic, fair | `IdleListedOnce`, `ImplementsPool` (the refinement of `JobPool`), `JobsRun` |
| `CircuitBreaker_probe` | 2 callers, window 2, threshold 3, 2 errors a period, lost and foreign pongs, fair | `OneProbe`, `TotalWithinOne`, `Recovers` |
| `Request_asks` | 2 askers that ask without end, 2 ids, 2 buckets, a session that may fail and come back, fair | `IndexInRange`, `SentToBucket`, `RoundRobin`, `AskReturns` |
| `ClusterView_startup` | 1 other node, 1 subscription each, channels of 2, no restriction | `NoneMissing` |
| `ClusterView_members` | 2 other nodes, 3 ids, channels of 3, no step in haste | `UniqueIds`, `SessionsAgree`, `ClosedStaysDie` |
| `ClusterView_seen` | 1 other node that subscribes, channels of 2, no step in haste, fair | `SubscriptionSeen`, `StartEnds` |
| `RingBuffer_equal` | 2 producers, 6 frames of 2 cells, ring of 8, fair | `ImplementsQueue` (the refinement of `FrameQueue`), `AcceptedIsTaken` |
| `Serial_serves` | a group of two channels with 2 and 1 messages, a failure, channels of 1, Close, context and unsubscription at any time, fair | `BagsAligned`, `AcceptedIsDone` |
| `ReadLoop_reads` | an accepted and a dialled connection, a pool of 2 buffers of 3 bytes, heads of 2, limit 4, a handler that panics, Close and the deadline of a Read at any time, fair | `RoutedInOrder`, `ReadsAll`, the bounds of `tokens` (in `TypeOK`) |
| `Shutdown_ends` | a dialled session and one that is accepted, announced and called, a channel, room of 2, fair | `ClosedAfterUsers`, `ShutdownEnds` |

The bounds. Of the frames of `WriteSlot_delivery` any two end short of the end of
a buffer, exactly at it or across it, and the third call is caught anywhere in
between; slots are replaced up to two times, which `MaxSlots` bounds. There two
frames fit a buffer at most, so that nobody can copy before another in it but the
one that hands it over; `WriteSlot_safety` has three that fit, and the big one for
the other path. Four jobs and two workers meet both branches of
`assignmentTask`. A window of two periods has a bucket that leaves while one
stays; `MaxErrors` bounds the errors of one period, `MaxPings` the pings under way
and `Faults` what may befall a pong. What a fault excuses is said in the property:
without a foreign pong `OneProbe` is strict, without a lost one `Recovers` is.
`MaxBuckets` and `MaxSubscribes` bound what would otherwise grow without end. `dialNode` puts one message per node, its own included, into a channel
nobody reads yet, so the channels of `ClusterView` have room for every node and no
more. Three machine ids and three nodes include a gap, an id given out again and
a full table. A ring of eight cells holds three frames at most, so six go
round it, and claims are refused while it is full. In `Serial_serves` the fast channel of the group is two
messages ahead or none, so a row is added, cut and replaced; each Go channel has
room for one message and so fills. In `ReadLoop_reads` a frame may be a head alone, as
long as the buffer, or longer; two loops need more tokens together than there
are; and a connection may begin in the buffer of the other. In `Shutdown_ends` the
room of 2 in `NodeChan` and `ChannelChan` (128 in the code) is what the instance may
still send after `cluster.Run` has returned; with less it need not end. `SYMMETRY` is used in two
runs that check no liveness, over frames of one length and over the other
nodes. `CHECK_DEADLOCK FALSE` stands where the system ends (all frames sent, a node
gone); only the breaker never does.

Fairness. Goroutines that can go on do (weak fairness of each, except of the
first step of a caller, who need not call). Go's `select` chooses at random
among ready cases, hence weak fairness per case of the dispatcher's select and
strong fairness per channel of `cluster.Run` and `etcd.run`, whose cases are
disabled and enabled again by other senders; the cases of `Serial.Run`'s select are
strongly fair for the same reason. A caller that pings again and again
succeeds in the end (strong fairness of `PingSent`). The bytes a peer has sent
come, or the deadline passes, and a loop that waits for tokens is no worse off than another (weak fairness
of each loop). In `Shutdown` a peer that is no `Talkers` falls silent, as
a node does that stops, and the read deadline ends the loop. Nothing is assumed of
`Close`, `Crash`, `Subscribe`, of signals and of the arrival of errors.

Further configurations keep at hand what the code does where an assumption of the
runs is dropped or a sentence of the repository is taken at its word. Each checks
one property and ends in a counterexample. "with" means the configuration of that name
with the named constants changed and this property alone. The first four are the
"findings" of `PROJECT.json`, which quote the sentence they disagree with.

| Configuration | Property | What the code does |
|---|---|---|
| `WriteSlot_late_commit` | `NoLateCommit` | a caller caught between loading `wSlot` (218) and incrementing `writeLock` (219) copies its frame into a slot that was already written and released, and returns nil |
| `WriteSlot_failure_reported` | `FailureIsReported` | `rejects` is written from index 1 and read from index 0: the last frame of a slot never has its errFunc called |
| `Request_nobody` | `AskReports` | `count` is declared inside the loop of `AskOne` (31), which loops for ever when no node of the bucket accepts |
| `Serial_reinit` | `BagsAligned` | `README.md` 234-241 calls `SubscribeAll` before `RunAssembly`, which calls `Init` again: the bags are forgotten |
| `WriteSlot_failure_reported` with its property replaced | `RejectedIsNotSent` | a frame is reported as timed out (`tcp_session.go` 327-330) and written all the same |
| `WriteSlot_reject_index` | `RejectsInRange` | the last of `BytesPoolLenght/8` bare headers indexes past `rejects` (41, 249) and panics with `writeLock` held |
| `WriteSlot_revived` | `ClosedIsUntouched` | a late "work" event undoes `StateDie` (`cluster.go` 165-168); a call then works on a released buffer |
| `WriteSlot_nil_errfunc` | `CloseCompletes` | a nil errFunc on a big frame whose write fails panics before `session.Done()` (188), so `Close` waits for ever |
| `Dispatcher_drain` | `DrainEnds` | the drain loop (`work_queue.go` 103-106) waits for workers only the select it left would see |
| `Dispatcher_drain` with its property replaced | `WaitEnds` | workers are counted down twice (37, 109, 114), so one is never dismissed |
| `Dispatcher_pool` with `Panics = {j1, j2}` | `JobsRun` | as many panics as workers (35) and the rest is never run |
| `CircuitBreaker_threshold` | `TripsAtThreshold` | the newest error counts twice (`circuitBreaker.go` 96-102), so the breaker opens one error early |
| `CircuitBreaker_threshold` with its invariant replaced | `SleepsBeforeProbe` | the state is open (116) before its time is stored (117), and a caller probes at once |
| `CircuitBreaker_lost` | `AlwaysRecovers` | a lost ping or pong keeps the token for ever |
| `CircuitBreaker_shared` | `ClosesOnOwnProbe` | `sessionTCPPong` is registered on a handler all sessions share (`tcp_session.go` 90) |
| `Request_asks` with its property replaced | `EachReturns` | two goroutines ask in lockstep: one takes the live node each time, the other wraps around to the dead one for ever (`cluster.go` 31, 373) |
| `ClusterView_reuse` | `LiveIsReachable` | a late deletion removes the session of the id's new owner (`cluster.go` 193-197) |
| `ClusterView_early_dial` | `AllConnected` | a node is in etcd before it listens; whoever starts in between skips it for good (`sidecar.go` 176) |
| `ClusterView_revived` | `ClosedStaysDie` | a closed session is set to work by a late event |
| `ClusterView_overlap` | `NoneStale` | snapshot and watch both add an id, and unsubscribing takes out one of the two |
| `ClusterView_overlap` with its property replaced | `EntryOnce` | `bucket.add` appends an id that is there already |
| `ClusterView_full_chan` | `StartEnds` | `dialNode` blocks on a channel whose reader is not started yet (`sidecar.go` 188, 126) |
| `ClusterView_early_dial` with its property replaced | `StaysUp` | the nil entry of a skipped node ends the process at a heartbeat (136) |
| `RingBuffer_mixed` | `TakenInOrder` | with two lengths the consumer takes bytes of a range that is not written yet (`ring.go` 84) |
| `RingBuffer_overflow` | `OverflowIsReal` | a stale cursor makes an unsigned difference wrap around and a write is refused (59) |
| `Serial_serves` with `Frames = {a1, b1, p}`, `ChannelOf <- OneRow`, `Panics = {p}` | `AcceptedIsDone` | the handler of a plain channel panics, `Run` recovers and returns (66-70) and the state stays work: frames are accepted for nobody |
| `Serial_serves` with `FailsAtOnce = {a1}` | `AcceptedIsDone` | a handler's request fails in the call and `Run` blocks on its own full `rejectFuncChan` (265) |
| `Serial_serves` with `EarlyClose = TRUE` | `AcceptedIsDone` | `Run` sets the state to work (72) after `Close` and returns: frames are accepted for nobody |
| `Serial_serves` with `SleepOutlastsWrite = FALSE` | `AcceptedIsDone` | a write that began before `Close` ends after the last `assignmentTask` |
| `ReadLoop_reads` with `HeadInPieces = TRUE` | `ReadsAll` | the protocol head is read with one `Read` (`tcp_session.go` 271); what comes in two pieces is refused |
| `ReadLoop_reads` with `SlowLoops = TRUE` | `RoutedInOrder` | `rBuf` goes back to the pool 5 s after `Close` (107) while its loop, in a handler or in `Wait`, goes on: it then routes another connection's frames |
| `Shutdown_ends` with `NodeCap = 1` | `ShutdownEnds` | `cluster.Run` has returned, `addSessionTCP` blocks on `NodeChan` (212), and the server waits for that read loop |
| `Shutdown_ends` with `ChannelCap = 1`, `Subscribed = 2` | `ShutdownEnds` | `Serial.Run` blocks in `Unsubscribe` (98) in the same way |
| `Shutdown_ends` with `Talkers = {node}` | `ShutdownEnds` | a session that is not in `cluster.sessions` is closed by nobody (178) |

## 4. The proofs

Every theorem holds for all values of the constants that satisfy the module's
`ConstantsAssumption`, and from nothing else unless stated. Where a safety property
is not inductive, which is nearly always, the invariant that is stands next to it.

**WriteSlotProofs** (any finite set of frames, lengths, buffer, number of slots)

* `TypeCorrect`, `LayoutCorrect`, `FramesAreDisjoint`. `DisjointFrames` is not
  inductive: a new claim starts at `allotCursor`, so one must know that all claims
  end at or below it. `Layout` says that, that the current slot is the newest, and
  what a committed frame contributes to `availableCursor`.
* `HandOverIsOnce`, `QueuedSlotHoldsFrame` (assuming `~LateStateEvents`): a slot's
  first claim is unique, so one call only finds `start = 0`. `HandOver` ties the
  phase of a slot to that call.
* `LockCountsCorrect`: `writeLock[s]` is the number of calls that hold `s`.
* `NoCommitIsLate` (assuming `~LateStateEvents`): `overtaken = {} => NoLateCommit`,
  whether the sleep outlasts the gap or not. When the spin ends the lock is zero, so by
  `LockCountsCorrect` nobody is inside; as long as `overtaken` is empty nobody was about
  to enter; a superseded slot is never loaded again. So the gap between 218 and 219 is
  the only way to a late commit, a torn write or a frame that is accepted and not written.
* `ClaimsTile`: the claims fill a buffer from its beginning without a gap, up to the
  claim that crossed its end, and `availableCursor` counts the bytes that were
  copied. From it and `NoCommitIsLate` follow, as long as `overtaken` is empty,
  `FramesAreWhole` (when the slot is written nobody is between claim and commit, so
  what is filled is a prefix) and `WrittenIfAccepted` (a slot's frames are sent
  together or not at all).

None of them assumes `SleepOutlastsLoad`, which the runs do (it keeps `overtaken` empty
and the runs small); that something is needed there is shown by `WriteSlot_late_commit`, that
`~LateStateEvents` is by `WriteSlot_revived`.

**DispatcherProofs** (any jobs, workers, panics, capacity)

* `TypeCorrect`, `IdleIsListedOnce`, `JobsAreKept`. The counting of
  `IdleListedOnce` is proved from `IdleLists`: the two lists are without
  duplicates, disjoint, and make up the workers that wait. A round of
  `assignmentTask` needs a lemma on parts of such lists, cut at the front or the
  back. `JobPlaces` says the same of jobs: `JobQueue`, `jobSlice`, the workers'
  hands and the ended jobs are disjoint and make up what was sent.
* `DispatcherImplementsPool`: `Spec => Pool!Spec`, every action mapped to a step of
  `JobPool` or none, from the two invariants.

**RequestProofs** (any askers, ids, first bucket, bounds)

* `InvCorrect`, `TypeCorrect`, `IndexIsInRange`. The cursor of a bucket is reset by a
  plain store that others' additions may precede, so no bound on it alone is
  inductive. `CursorBound` has it below the length plus the number of askers that
  are between their addition and their reset.
* `RequestsGoToBucket` from `SentBy`: what `AskAll` has sent is bounded, per id, by
  the entries it has passed, and has every id of `due` among these; when it returns it
  has passed them all.
* `NodesTakeTurns`, an action property, from `Turns`: where the cursor stands
  when one goroutine alone has asked so far.

**CircuitBreakerProofs** (any callers, window, threshold, sleep, faults)

* `HalfOpenLetsOneThrough`: `OneProbe` is inductive together with the types it counts by.
* `TypeCorrect`, `NewestTotalIsWindow`. The total of the newest bucket is kept by
  adding one at a time and computed anew when a period begins, while the slice is
  compacted. The invariant `WindowIn` says that buckets are in the order of their
  periods (`Apart`) and hold exactly the errors of the window (`Accounted`). The
  two sums, over a slice and over a record of errors, are folds over finite sets
  in the order of `CHOOSE`. That such a fold exists and does not depend on the
  order is proved, by least counterexample on the size of the set.

**SerialShutdownProofs**, first part (any sessions, capacities, number of events)

* `TypeCorrect`, and `ClosedLast`, from no assumption: a loop that is through leaves no job
  unless its `Close` overtook the call, the server ends after the loops it could see,
  and who waits for a WaitGroup sees its members through.

**SerialShutdownProofs**, second part (any frames, groups, channels, capacities; any order of
the set-up and any `EarlyClose`, `SleepOutlastsWrite`, `Panics` unless said)

* `SerialTypeCorrect`, from `Typed`. What `SerialTypeOK` leaves out and the induction needs:
  `bags` grows by the groups at each `SubscribeAll` and at no other step, which bounds it
  and the place `Run` is at in it; the cells of a group are a function of its own.
* `RowsStayAligned`: the n-th call of a group's function has the n-th message of each of
  its channels. The invariant `Table` puts the rows the function was called with and those
  that wait in front of each other (`Row`): a column is the messages of its channel in
  order, then empty cells, and is at least as long as what was called. So the first row
  with an empty cell, which the handler looks for in what `assignmentTask` has cut, is the
  row of the next message (`RowForNext`), and a complete row takes one message from every
  channel.
* `BagsStayAligned`, assuming the order of the tests (`Init`, `SubscribeAll`, `Run`); in
  the order of `README.md` it is false (`Serial_reinit`). The invariant `Passed` says for
  the time in which `Run` goes through the bags what holds of those behind it (`Behind`:
  their functions were called with every complete row), that each group is among
  them until it is unsubscribed (`Known`), and that nothing is handled in between (`Idle`).

TLC checked `Typed`, `Table` and `Passed` on the instance of `Serial_serves`, and the first two on that of `Serial_reinit`, before they were proved.

**ClusterViewProofs** (any nodes, number of ids, capacities; `Prompt` or not, unless said)

* `TypeCorrect`; `IdsAreUnique` from `KeysAreOwn` (who has registered owns the key of
  its id) and from what `getMachineID` returns: the first index at which the
  sorted list runs ahead is free, for which `Sorted` is shown to be a list of the
  set, each member once, in order.
* `NoneIsMissing`: `NoneMissing` speaks of quiet moments only. `KeysCovered` says at
  every moment what the events on their way will do to a subscribed id: the last
  one about it is a put, in the watch or in `ChannelChan`, or none of them is a
  delete and the snapshot or the bucket has it.
* `SessionsDoAgree` and `ClosedSessionsStay`, for `Prompt` or not: they hold as long as no
  step was taken in haste (`~hasty`). So the four steps of `Haste` are the only ways in
  which the view goes wrong; that it does is shown by `ClusterView_reuse`,
  `ClusterView_early_dial` and `ClusterView_revived`. The
  invariant `Settled` follows every change through all it sets off. `NewsIsFresh`:
  no event on its way, in a watch or in a channel, is older than the life of the
  node it is about. `ConnectionsOK`: a connection and a session's state go with the node's
  stage of life. `TableOK`: a session in the table is that of the node with its id, unless
  the deletion of its key is on its way; a connected node has its session in the table or
  on its way to it. `DialsOK`: of any two nodes the later one dials. TLC checked `Settled`
  on the instance of `ClusterView_members` before it was proved. The property
  `ClosedStaysDie` of that run is `ClosedSessionsStay` where `hasty` stays false.

**RingBufferProofs** (any producers, frames, lengths, ring)

* `TypeCorrect`, `FramesAreTakenInOrder`: both hold until the consumer is misled.
  `RingImplementsQueue`: a behaviour in which it never is implements `FrameQueue`. So what is
  wrong in `RingBuffer_mixed`, where `TakenInOrder` fails for two lengths, has one cause
  only, an old mark where a length from unwritten bytes points to. Claims less than a round
  apart have no cell in common, whatever their lengths; a producer's stale `askCursor`
  and `availableCursor` only make it refuse; the marks of the submitted frames that are
  not taken are set, and the range between the two cursors is what the claims in
  between cover.
* `OneLengthNeverMisleads`, `OneLengthIsAQueue`, under `OneLength` (all frames have one
  length, and it divides the ring), which the run `RingBuffer_equal` has too: then marks
  are only where submitted frames end that are not taken, and where a frame begins there is
  never the middle of an older one, so that the consumer that looks at a claim too early
  reads a length or zero. So `Serial` may be built on the queue for such frames, for any
  ring and any number of them. TLC checked the invariants on the instance of
  `RingBuffer_equal`, and the first for lengths 1 to 3 in a ring of 4, before they were
  proved.

**ReadLoopProofs** (any connections, streams, ways to cut them up, buffers, limits)

* `TypeCorrect`. The difficult part of `TypeOK` is the range of `tokens`: any number of loops
  may have taken what is not there and not given it back yet, while `Run` adds
  before it stores the cap. `LimiterOK` bounds `tokens` plus what is borrowed, and
  what is borrowed is counted as a set (`Borrowed`: a loop in `back` and a byte it
  asks for), so that no sum over loops is needed.
* `RoutedCorrect`, assuming `SlowLoops = FALSE` as the run does (the loop of a session is
  over within the 5 s after `Close`; without it the property is wrong, see above).
  `RoutedInOrder` speaks of `routed` alone; the invariant follows the bytes. `Owned`: no
  buffer has two sessions or is in the pool while a loop has it. `Buffered`: the
  cells between `r` and `w` hold the next bytes of the connection. `Position`: the
  first of them begins a frame, and the frames before it that are for the handlers
  are exactly the ones they were called with. `Offset` is a fold of the community
  modules, a `CHOOSE` of a function over sets of indices: that it exists and adds one
  length after the other (`FoldExists`, `OffsetNext`) is proved by least counterexample.
  The invariant held in TLC on the instance of `ReadLoop_reads` before it was proved.

Theorems that no run states (`LayoutCorrect`, `QueuedSlotHoldsFrame`, `LockCountsCorrect`,
`ClaimsTile`, `JobsAreKept`, `InvCorrect`, `RowsStayAligned`, `FramesAreTakenInOrder`) are invariants the
others rest on that say something by themselves.

Only model-checked: the liveness properties, which are out of the prover's reach (as is
ENABLED). Every invariant that a run checks is stated by a theorem, under the assumptions on
the constants, or up to the history, named here. Such a history (`overtaken`, `misled`,
`hasty`) records that the code has taken the one step after which the property may fail. No module with a theorem uses a recursive operator.

## 5. Plan

Every invariant and action property of the runs is proved, up to the conditions of
section 4. What could be proved next is
`RowsStayAligned` for the bytes in the ring, by composing `Serial` with `RingBuffer`
in place of `FrameQueue`, which the refinement makes possible for frames of one length.

Left to model: a composition of `WriteSlot` with `JobPool` in place of the free
choice of when a job runs; a lease that lapses while its process lives, in
`ClusterView`.

## 6. Not modelled

* The codec and the integer conversions (`frame.go`, `conver.go`): sequential, no
  shared state. The models have frames, not bytes of a header.
* Logging, HTTP (its `exit` handler is the context's end in `Shutdown`), the example
  programs and benchmarks, generated protobuf code.
* `WatchChannel`, `processWrapper` and the accessors of `ContextMQ`: no state of their
  own. The handler table is a constant except for the pong handler.
* `globalContextMQHandler` (`serial.go` 13) is one table for all `Serial`s of a
  process: two that subscribe the same channel overwrite each other's handler.
  `Serial` models one.
* Errors of etcd itself, a lease that lapses while its process lives, and a wall
  clock that goes back.
* A frame whose length field is less than a head: no sender of the library makes one.
