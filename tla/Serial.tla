-------------------------------- MODULE Serial --------------------------------
(****************************************************************************)
(* Serial (serial.go): one goroutine that runs the handlers of all its      *)
(* channels.  Read loops put frames into its ring buffer, which is here the *)
(* queue that RingBuffer implements; a ticker has them worked on; groups of *)
(* SubscribeAll wait until each of their channels has a message; failures   *)
(* of requests and unsubscriptions arrive through two bounded channels.     *)
(* Its general names carry its own, so that a module may speak of Serial    *)
(* and of Shutdown.                                                         *)
(****************************************************************************)
EXTENDS Integers, FiniteSets, SequencesExt

CONSTANTS
  Frames,       \* what the read loops deliver, each once
  ChannelOf,    \* the channel of a frame
  Before,       \* <<e, f>>: frames of one connection, e ahead of f
  Groups,       \* the calls of SubscribeAll
  Channels,     \* the channels of each, in order
  Failures,     \* requests of other goroutines that fail
  FailsAtOnce,  \* frames whose handler makes a request that fails in the call
  Panics,       \* frames of plain channels whose handler panics
  RejectCap, UnsubscribeCap,   \* capacities of the two Go channels
  Setup,        \* the order in which the program sets the Serial up
  EarlyClose,   \* Close may come before Run has begun
  SleepOutlastsWrite   \* no write is under way when Close wakes from its sleep

Empty == "empty"

\* A channel has one handler, that of the last call (globalContextMQHandler): groups
\* and columns that share one are left out.
ASSUME SerialAssumption ==
  /\ IsFiniteSet(Frames) /\ IsFiniteSet(Failures) /\ Before \subseteq Frames \X Frames
  /\ FailsAtOnce \cup Panics \subseteq Frames /\ Failures \cap Frames = {}
  /\ Empty \notin Frames /\ IsFiniteSet(Groups)
  /\ \A g \in Groups :
       /\ Channels[g] \in Seq(Range(Channels[g])) \ {<<>>} /\ IsInjective(Channels[g])
       /\ \A f \in Panics : ChannelOf[f] \notin Range(Channels[g])
  /\ \A g, h \in Groups : g # h => Range(Channels[g]) \cap Range(Channels[h]) = {}
  /\ RejectCap \in Nat /\ UnsubscribeCap \in Nat
  /\ Setup \in Seq({"Init", "SubscribeAll", "Run"})
  /\ {EarlyClose, SleepOutlastsWrite} \subseteq BOOLEAN

VARIABLES
  queue, ready, taken,  \* the ring buffer
  step,          \* the next step of Setup
  state,         \* "pause", "work", "die"
  bags,          \* the groups Run knows, in order
  channelMap,
  buf,           \* per group: rows of one cell per channel, Empty or a frame
  fired,         \* history, per group: the rows its function was called with
  pc,            \* a frame's read loop: control point, then its fate
  run,           \* Serial.Run: control point; while it goes through the bags,
  bag,           \* the place in bags
  last,          \* the assignmentTask under way is the one before the return
  rejectFuncChan, unsubscribeChan,
  reject,        \* a failure: where it is
  group,         \* an UnsubscribeGroup: where it is
  stopChan, done,     \* the two signals: closed or not
  closer         \* the user's Close: control point

ringVars == <<queue, ready, taken>>
bagVars == <<bags, channelMap, buf, fired>>
runVars == <<run, bag, last>>
goChanVars == <<rejectFuncChan, unsubscribeChan, reject, group>>
stopVars == <<stopChan, done, closer>>
serialAll == <<ringVars, step, state, bagVars, pc, runVars, goChanVars, stopVars>>

Ring == INSTANCE FrameQueue

NewRow(g) == [i \in DOMAIN Channels[g] |-> Empty]

HasWork == state = "work"

SerialInit ==
  /\ Ring!Init
  /\ step = 1 /\ state = "pause"
  /\ bags = <<>> /\ channelMap = {}
  /\ buf = [g \in Groups |-> <<NewRow(g)>>]
  /\ fired = [g \in Groups |-> <<>>]
  /\ pc = [f \in Frames |-> "new"]
  /\ run = "new" /\ bag = 1 /\ last = FALSE
  /\ rejectFuncChan = <<>> /\ unsubscribeChan = <<>>
  /\ reject = [f \in Failures \cup FailsAtOnce |-> "new"]
  /\ group = [g \in Groups |-> "on"]
  /\ stopChan = FALSE /\ done = FALSE /\ closer = "new"

----------------------------------------------------------------------------
(* The program sets it up                                                   *)

SetUp(what) == step \in DOMAIN Setup /\ Setup[step] = what /\ step' = step + 1

\* Serial.Init makes everything anew.  (The ring is empty: nothing writes to it
\* before Run.)
InitCall ==
  /\ SetUp("Init")
  /\ bags' = <<>> /\ channelMap' = {} /\ state' = "pause"
  /\ UNCHANGED <<ringVars, buf, fired, pc, runVars, goChanVars, stopVars>>

\* SubscribeAll of every group, Subscribe of the other channels.
SubscribeAll ==
  /\ SetUp("SubscribeAll")
  /\ bags' = bags \o SetToSeq(Groups)
  /\ channelMap' = Range(ChannelOf) \cup UNION {Range(Channels[g]) : g \in Groups}
  /\ UNCHANGED <<ringVars, state, buf, fired, pc, runVars, goChanVars, stopVars>>

Run ==
  /\ SetUp("Run")
  /\ state' = "work" /\ run' = "select"
  /\ UNCHANGED <<ringVars, bagVars, pc, bag, last, goChanVars, stopVars>>

----------------------------------------------------------------------------
(* A read loop with a frame: serialProcessWrapper, WriteToRingBuffer        *)

FrameAt(f, l) == pc' = [pc EXCEPT ![f] = l]

\* HasWork, asked twice; a frame that comes at another time is gone.
Arrive(f) ==
  /\ pc[f] = "new" /\ step > 1
  /\ \A e \in Frames : <<e, f>> \in Before => pc[e] \notin {"new", "write", "fill"}
  /\ FrameAt(f, IF HasWork THEN "write" ELSE "dropped")
  /\ UNCHANGED <<ringVars, step, state, bagVars, runVars, goChanVars, stopVars>>

Claim(f) ==
  /\ pc[f] = "write"
  /\ \/ Ring!Claim(f) /\ FrameAt(f, "fill")
     \/ FrameAt(f, "overflow") /\ UNCHANGED ringVars
  /\ UNCHANGED <<step, state, bagVars, runVars, goChanVars, stopVars>>

Fill(f) ==
  /\ pc[f] = "fill"
  /\ Ring!Fill(f)
  /\ FrameAt(f, "accepted")
  /\ UNCHANGED <<step, state, bagVars, runVars, goChanVars, stopVars>>

----------------------------------------------------------------------------
(* serialRejectFuncWrapper, from any goroutine                              *)

\* The requests of a handler that failed in the call; the send blocks while the
\* channel is full.
Rejected(S) ==
  LET T == IF HasWork THEN S \cap DOMAIN reject ELSE {}
  IN  /\ Len(rejectFuncChan) + Cardinality(T) <= RejectCap
      /\ rejectFuncChan' = rejectFuncChan \o SetToSeq(T)
      /\ reject' = [f \in DOMAIN reject |->
                      IF f \in T THEN "sent" ELSE IF f \in S THEN "dropped" ELSE reject[f]]

\* (Before Run it does nothing.)
Fail(f) ==
  /\ reject[f] = "new" /\ run # "new"
  /\ reject' = [reject EXCEPT ![f] = IF HasWork THEN "failed" ELSE "dropped"]
  /\ UNCHANGED <<ringVars, step, state, bagVars, pc, runVars, rejectFuncChan,
                 unsubscribeChan, group, stopVars>>

FailSend(f) ==
  /\ reject[f] = "failed" /\ run # "released" /\ Len(rejectFuncChan) < RejectCap
  /\ rejectFuncChan' = Append(rejectFuncChan, f)
  /\ reject' = [reject EXCEPT ![f] = "sent"]
  /\ UNCHANGED <<ringVars, step, state, bagVars, pc, runVars, unsubscribeChan, group,
                 stopVars>>

\* A send on a channel that Release has closed panics, one that is blocked too.
FailPanics(f) ==
  /\ reject[f] = "failed" /\ run = "released"
  /\ reject' = [reject EXCEPT ![f] = "panicked"]
  /\ UNCHANGED <<ringVars, step, state, bagVars, pc, runVars, rejectFuncChan,
                 unsubscribeChan, group, stopVars>>

----------------------------------------------------------------------------
(* Serial.Run: assignmentTask                                               *)

GroupsOf(f) == {g \in Groups : ChannelOf[f] \in Range(Channels[g])}

Column(g, f) == SelectInSeq(Channels[g], LAMBDA c : c = ChannelOf[f])

RowFor_Last(g, f) ==
  IF Last(buf[g])[Column(g, f)] = Empty THEN Len(buf[g]) ELSE Len(buf[g]) + 1

\* The first row whose cell for the channel of f is empty.
RowFor(g, f) ==
  LET k == SelectInSeq(buf[g], LAMBDA row : row[Column(g, f)] = Empty)
  IN  IF k = 0 THEN Len(buf[g]) + 1 ELSE k

\* bagAndIndex.serialProcessWrapper
Put(g, f) ==
  LET rows == IF RowFor(g, f) > Len(buf[g]) THEN Append(buf[g], NewRow(g)) ELSE buf[g]
         row == [rows[RowFor(g, f)] EXCEPT ![Column(g, f)] = f]
  IN  buf' = [buf EXCEPT ![g] = [rows EXCEPT ![RowFor(g, f)] = row]]

\* The handler of the next frame runs, then its range is given back.  It is the
\* group's even when the bag is gone.  When it panics the range is not given back:
\* Run recovers and returns, and nothing is released.
Handle ==
  /\ run = "drain" /\ Ring!HasReady
  /\ LET f == Head(queue)
     IN  /\ IF GroupsOf(f) = {}
            THEN Rejected({f} \cap FailsAtOnce) /\ UNCHANGED buf
            ELSE (\E g \in GroupsOf(f) : Put(g, f)) /\ UNCHANGED <<rejectFuncChan, reject>>
         /\ IF f \in Panics
            THEN run' = "panicked" /\ UNCHANGED ringVars
            ELSE Ring!Take /\ UNCHANGED run
  /\ UNCHANGED <<step, state, bags, channelMap, fired, pc, bag, last, unsubscribeChan, group,
                 stopVars>>

Drained ==
  /\ run = "drain" /\ ~Ring!HasReady
  /\ run' = "bags"
  /\ UNCHANGED <<ringVars, step, state, bagVars, pc, bag, last, goChanVars, stopVars>>

Complete(g) == Empty \notin Range(Head(buf[g]))

RowsLeft_NoneNew(g) == Tail(buf[g])

RowsLeft(g) == IF Len(buf[g]) = 1 THEN <<NewRow(g)>> ELSE Tail(buf[g])

Fire ==
  /\ run = "bags" /\ bag \in DOMAIN bags
  /\ LET g == bags[bag]
     IN  /\ Complete(g)
         /\ fired' = [fired EXCEPT ![g] = Append(@, Head(buf[g]))]
         /\ buf' = [buf EXCEPT ![g] = RowsLeft(g)]
         /\ Rejected(Range(Head(buf[g])) \cap FailsAtOnce)
  /\ UNCHANGED <<ringVars, step, state, bags, channelMap, pc, runVars, unsubscribeChan,
                 group, stopVars>>

NextBag ==
  /\ run = "bags"
  /\ bag \in DOMAIN bags => ~Complete(bags[bag])
  /\ IF bag \in DOMAIN bags
     THEN bag' = bag + 1 /\ UNCHANGED run
     ELSE run' = (IF last THEN "end" ELSE "select") /\ bag' = 1
  /\ UNCHANGED <<ringVars, step, state, bagVars, pc, last, goChanVars, stopVars>>

----------------------------------------------------------------------------
(* Serial.Run: select                                                       *)

Tick ==
  /\ run = "select" /\ run' = "drain"
  /\ UNCHANGED <<ringVars, step, state, bagVars, pc, bag, last, goChanVars, stopVars>>

RunReject ==
  /\ run = "select" /\ rejectFuncChan # <<>>
  /\ reject' = [reject EXCEPT ![Head(rejectFuncChan)] = "run"]
  /\ rejectFuncChan' = Tail(rejectFuncChan)
  /\ UNCHANGED <<ringVars, step, state, bagVars, pc, runVars, unsubscribeChan, group,
                 stopVars>>

RunUnsubscribe ==
  /\ run = "select" /\ unsubscribeChan # <<>>
  /\ LET g == Head(unsubscribeChan)
     IN  /\ bags' = RemoveFirst(bags, g)
         /\ channelMap' = channelMap \ Range(Channels[g])
         /\ group' = [group EXCEPT ![g] = "gone"]
  /\ unsubscribeChan' = Tail(unsubscribeChan)
  /\ UNCHANGED <<ringVars, step, state, buf, fired, pc, runVars, rejectFuncChan, reject,
                 stopVars>>

\* Ctx.Done: Run itself calls Close, and sleeps in it.
RunCloses ==
  /\ run = "select" /\ done
  /\ state' = "die" /\ run' = "close"
  /\ UNCHANGED <<ringVars, step, bagVars, pc, bag, last, goChanVars, stopVars>>

Wakes == SleepOutlastsWrite => \A f \in Frames : pc[f] \notin {"write", "fill"}

RunClosed ==
  /\ run = "close" /\ Wakes
  /\ stopChan' = TRUE /\ run' = "select"
  /\ UNCHANGED <<ringVars, step, state, bagVars, pc, bag, last, goChanVars, done, closer>>

AfterStop_Returns == "end"

AfterStop == "drain"

\* stopChan: the ring is worked on once more; the two channels are not.
Stop ==
  /\ run = "select" /\ stopChan
  /\ run' = AfterStop /\ last' = TRUE
  /\ UNCHANGED <<ringVars, step, state, bagVars, pc, bag, goChanVars, stopVars>>

\* Five minutes after Run has returned; the two channels are closed with it.
Release ==
  /\ run = "end"
  /\ run' = "released" /\ state' = "die"
  /\ bags' = <<>> /\ channelMap' = {}
  /\ UNCHANGED <<ringVars, step, buf, fired, pc, bag, last, goChanVars, stopVars>>

----------------------------------------------------------------------------
(* Others: UnsubscribeGroup, Close, the context                             *)

\* (Before Run it is refused.)
UnsubscribeGroup(g) ==
  /\ group[g] = "on" /\ run # "new"
  /\ group' = [group EXCEPT ![g] = IF HasWork THEN "asked" ELSE "refused"]
  /\ UNCHANGED <<ringVars, step, state, bagVars, pc, runVars, rejectFuncChan,
                 unsubscribeChan, reject, stopVars>>

UnsubscribeSend(g) ==
  /\ group[g] = "asked" /\ run # "released" /\ Len(unsubscribeChan) < UnsubscribeCap
  /\ unsubscribeChan' = Append(unsubscribeChan, g)
  /\ group' = [group EXCEPT ![g] = "sent"]
  /\ UNCHANGED <<ringVars, step, state, bagVars, pc, runVars, rejectFuncChan, reject,
                 stopVars>>

UnsubscribeTimeout(g) ==
  /\ group[g] = "asked"
  /\ group' = [group EXCEPT ![g] = "refused"]
  /\ UNCHANGED <<ringVars, step, state, bagVars, pc, runVars, rejectFuncChan,
                 unsubscribeChan, reject, stopVars>>

UnsubscribePanics(g) ==
  /\ group[g] = "asked" /\ run = "released"
  /\ group' = [group EXCEPT ![g] = "panicked"]
  /\ UNCHANGED <<ringVars, step, state, bagVars, pc, runVars, rejectFuncChan,
                 unsubscribeChan, reject, stopVars>>

Close ==
  /\ closer = "new" /\ step > 1
  /\ EarlyClose \/ step > Len(Setup)
  /\ state' = "die" /\ closer' = "sleep"
  /\ UNCHANGED <<ringVars, step, bagVars, pc, runVars, goChanVars, stopChan, done>>

CloseEnds ==
  /\ closer = "sleep" /\ Wakes
  /\ stopChan' = TRUE /\ closer' = "done"
  /\ UNCHANGED <<ringVars, step, state, bagVars, pc, runVars, goChanVars, done>>

CtxDone ==
  /\ ~done /\ done' = TRUE
  /\ UNCHANGED <<ringVars, step, state, bagVars, pc, runVars, goChanVars, stopChan, closer>>

----------------------------------------------------------------------------

Write(f) == Claim(f) \/ Fill(f)
AssignmentTask == Handle \/ Drained \/ Fire \/ NextBag
UnsubscribeCall(g) ==
  UnsubscribeGroup(g) \/ UnsubscribeSend(g) \/ UnsubscribeTimeout(g) \/ UnsubscribePanics(g)

SerialNext ==
  \/ InitCall \/ SubscribeAll \/ Run
  \/ \E f \in Frames : Arrive(f) \/ Write(f)
  \/ \E f \in Failures : Fail(f) \/ FailSend(f) \/ FailPanics(f)
  \/ AssignmentTask
  \/ Tick \/ RunReject \/ RunUnsubscribe \/ RunCloses \/ RunClosed \/ Stop \/ Release
  \/ \E g \in Groups : UnsubscribeCall(g)
  \/ Close \/ CloseEnds \/ CtxDone

SerialSpec == SerialInit /\ [][SerialNext]_serialAll

\* Goroutines that can go on do.  The select of Run chooses at random among the
\* cases that are ready, so one that is ready again and again is taken.
FairSerial ==
  /\ SerialSpec
  /\ WF_serialAll(AssignmentTask) /\ WF_serialAll(RunClosed) /\ WF_serialAll(CloseEnds)
  /\ SF_serialAll(Tick) /\ SF_serialAll(RunReject) /\ SF_serialAll(RunUnsubscribe)
  /\ SF_serialAll(RunCloses) /\ SF_serialAll(Stop)
  /\ \A f \in Frames : WF_serialAll(Write(f))

----------------------------------------------------------------------------
(* Properties                                                               *)

\* Every variable stays in its type, the channels within their capacities; a bag
\* always has a row for assignmentTask to look at.
SerialTypeOK ==
  /\ queue \in Seq(Frames) /\ ready \subseteq Range(queue) /\ taken \in Seq(Frames)
  /\ step \in 1 .. Len(Setup) + 1
  /\ state \in {"pause", "work", "die"}
  /\ bags \in Seq(Groups)
  /\ channelMap \subseteq Range(ChannelOf) \cup UNION {Range(Channels[g]) : g \in Groups}
  /\ \A g \in Groups :
       /\ buf[g] \in Seq([DOMAIN Channels[g] -> Frames \cup {Empty}]) \ {<<>>}
       /\ fired[g] \in Seq([DOMAIN Channels[g] -> Frames])
  /\ pc \in [Frames -> {"new", "write", "fill", "accepted", "overflow", "dropped"}]
  /\ run \in {"new", "select", "drain", "bags", "close", "end", "released", "panicked"}
  /\ bag \in 1 .. Len(Setup) * Cardinality(Groups) + 1
  /\ {last, stopChan, done} \subseteq BOOLEAN
  /\ rejectFuncChan \in Seq(DOMAIN reject) /\ Len(rejectFuncChan) <= RejectCap
  /\ unsubscribeChan \in Seq(Groups) /\ Len(unsubscribeChan) <= UnsubscribeCap
  /\ reject \in [Failures \cup FailsAtOnce ->
                  {"new", "failed", "sent", "run", "dropped", "panicked"}]
  /\ group \in [Groups -> {"on", "asked", "sent", "gone", "refused", "panicked"}]
  /\ closer \in {"new", "sleep", "done"}

\* Where the messages of the i-th channel of g are among the frames handled; f is the
\* n-th of them.
Messages(g, i) == {k \in DOMAIN taken : ChannelOf[taken[k]] = Channels[g][i]}

IsMessage(g, i, n, f) ==
  \E k \in Messages(g, i) :
    taken[k] = f /\ Cardinality({j \in Messages(g, i) : j <= k}) = n

\* The function of SubscribeAll gets the n-th message of every channel together,
\* whatever the channels' speeds.
RowsAligned ==
  \A g \in Groups : \A n \in DOMAIN fired[g], i \in DOMAIN Channels[g] :
    IsMessage(g, i, n, fired[g][n][i])

\* The function was called with every row that is complete.
AllFired(g) == \E i \in DOMAIN Channels[g] : Len(fired[g]) = Cardinality(Messages(g, i))

\* The rows of a group are aligned; and after each assignmentTask its function has been
\* called with every row that is complete, until the group is unsubscribed.
BagsAligned ==
  /\ RowsAligned
  /\ run = "select" => \A g \in Groups : group[g] # "gone" => AllFired(g)

\* What the Serial has accepted it works on in the end: a frame even when it is
\* closed meanwhile, a failure and an unsubscription unless it is.
AcceptedIsDone ==
  <>[](/\ \A f \in Frames : pc[f] = "accepted" => f \in Range(taken)
       /\ \A f \in DOMAIN reject : reject[f] = "sent" => stopChan
       /\ \A g \in Groups : group[g] = "sent" => stopChan)
=============================================================================
