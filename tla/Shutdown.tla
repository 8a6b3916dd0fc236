------------------------------- MODULE Shutdown -------------------------------
(****************************************************************************)
(* How a program ends: Master (master.go) cancels the context, and Serial,  *)
(* Sidecar, ServerTCP, the cluster, the read loops and the Dispatcher come  *)
(* to an end in the order their WaitGroups and channels impose.  It begins  *)
(* when Sidecar.Run has opened readyChan.                                   *)
(****************************************************************************)
EXTENDS Integers, FiniteSets, SequencesExt

CONSTANTS
  Clients,      \* the sessions that dialNode opened
  Accepted,     \* the connections that others make
  Nodes,        \* those of them that send FrameTypeNodeName
  Talkers,      \* those whose peer goes on sending for ever
  Callers,      \* the sessions that calls of WriteFrameDataToCache are made on
  NodeCap, ChannelCap,   \* capacities of NodeChan and ChannelChan
  Subscribed,   \* how many channels Serial has
  Events        \* how many channel events of other nodes etcd brings

Sessions == Clients \cup Accepted

ASSUME ConstantsAssumption ==
  /\ IsFiniteSet(Sessions) /\ Clients \cap Accepted = {} /\ Nodes \subseteq Accepted
  /\ Talkers \subseteq Accepted /\ Callers \subseteq Sessions
  /\ Sessions \cap {"sidecar", "serial", "server", "cluster"} = {}
  /\ {NodeCap, ChannelCap, Subscribed, Events} \subseteq Nat
  /\ NodeCap >= Cardinality(Clients)

VARIABLES
  ctx,          \* cancelled
  master, guard,  \* Guard, and its goroutine for the signal
  children,     \* Master's and Sidecar's: "run", "done", "uncounted"
  sidecar,      \* the control point of Sidecar.Run
  listener,     \* open
  cluster,      \* "run", "close", "end"
  closing,      \* the sessions cluster has not looked at yet
  current,      \* the session, at most one, that cluster is closing
  dieSent, NodeChan,
  ChannelChan,  \* "order", operations 3 and 4, or "notice", 1 and 2
  sessions,     \* cluster.sessions
  serial,       \* the control point of Serial.Run
  left, events, \* how many channels Serial still has, how many events still come
  loop,         \* per session: the control point of its read loop
  close,        \* SessionTCP.Close: "no", "wait", "done"
  passed,       \* the sessions with a call past the test of the state (196)
  jobs,         \* the sessions with a job in the Dispatcher
  overtaken,    \* history: those whose Close came through its Wait before that
                \* call came to its Add
  uncounted     \* history: those that ServerTCP.Run's Wait did not see, because
                \* tcpReceive had not come to its Add

masterVars == <<ctx, master, guard>>
sidecarVars == <<children, sidecar, listener>>
clusterVars == <<cluster, closing, current, sessions>>
chanVars == <<dieSent, NodeChan, ChannelChan>>
serialVars == <<serial, left, events>>
callVars == <<passed, jobs, overtaken>>
sessionVars == <<loop, close, callVars, uncounted>>
vars == <<masterVars, sidecarVars, clusterVars, chanVars, serialVars, sessionVars>>

\* RunAssembly was called with each.
MasterChildren == {"sidecar", "serial"}
SidecarChildren == {"server", "cluster"} \cup Clients

Init ==
  /\ ctx = FALSE /\ master = "guard" /\ guard = "signal"
  /\ children = [c \in MasterChildren \cup SidecarChildren |-> "run"]
  /\ sidecar = "run" /\ listener = TRUE
  /\ cluster = "run" /\ closing = {} /\ current = {} /\ dieSent = "no"
  /\ NodeChan = SetToSeq(Clients) /\ ChannelChan = <<>> /\ sessions = {}
  /\ serial = "run" /\ left = Subscribed /\ events = Events
  /\ loop = [s \in Sessions |-> IF s \in Clients THEN "read" ELSE "new"]
  /\ close = [s \in Sessions |-> "no"]
  /\ passed = {} /\ jobs = {} /\ overtaken = {} /\ uncounted = {}

----------------------------------------------------------------------------
(* Child.RunAssembly: the goroutine around Run                              *)

\* Run returns, and Done is called.
Returns(c) == children' = [children EXCEPT ![c] = "done"]

\* AddInt32(&c.childCount, -1).  (Nobody asks for Sidecar's.)
Uncount(c) ==
  /\ c \in MasterChildren /\ children[c] = "done"
  /\ children' = [children EXCEPT ![c] = "uncounted"]
  /\ UNCHANGED <<masterVars, sidecar, listener, clusterVars, chanVars, serialVars, sessionVars>>

Waited(C) == \A c \in C : children[c] # "run"

GetChildCount == Cardinality({c \in MasterChildren : children[c] # "uncounted"})

----------------------------------------------------------------------------
(* Master.Guard                                                             *)

\* Stop closed stopChan.
GuardStops ==
  /\ master = "guard" /\ master' = "wait" /\ ctx' = TRUE
  /\ UNCHANGED <<guard, sidecarVars, clusterVars, chanVars, serialVars,
                 sessionVars>>

\* Guard returns, and main with it.
GuardEnds ==
  /\ master = "wait" /\ Waited(MasterChildren) /\ master' = "end"
  /\ UNCHANGED <<ctx, guard, sidecarVars, clusterVars, chanVars, serialVars,
                 sessionVars>>

Signal ==
  /\ guard = "signal" /\ guard' = "poll" /\ ctx' = TRUE
  /\ UNCHANGED <<master, sidecarVars, clusterVars, chanVars, serialVars,
                 sessionVars>>

\* The loop ends when no child is left.  (After exitWaitTime seconds os.Exit cuts the
\* program off wherever it is: what has happened till then is a behaviour's beginning.)
Exit ==
  /\ guard = "poll" /\ GetChildCount = 0 /\ guard' = "normal"
  /\ UNCHANGED <<ctx, master, sidecarVars, clusterVars, chanVars, serialVars, sessionVars>>

----------------------------------------------------------------------------
(* Sidecar.Run after Ctx.Done                                               *)

SidecarDies ==
  /\ sidecar = "run" /\ ctx
  /\ dieSent' = "sent" /\ sidecar' = "wait"
  /\ UNCHANGED <<masterVars, children, listener, clusterVars, NodeChan, ChannelChan,
                 serialVars, sessionVars>>

Awaited_Registered == {"cluster"}

Awaited == SidecarChildren

\* httpServer.Shutdown, dispatcher.Close and limiter.Close
SidecarCloses ==
  /\ sidecar = "wait" /\ Waited(Awaited)
  /\ sidecar' = "closed"
  /\ UNCHANGED <<masterVars, children, listener, clusterVars, chanVars, serialVars,
                 sessionVars>>

Released == sidecar \in {"closed", "end"}

\* DisconDistributer
SidecarEnds ==
  /\ sidecar = "closed" /\ sidecar' = "end"
  /\ Returns("sidecar")
  /\ UNCHANGED <<masterVars, listener, clusterVars, chanVars, serialVars, sessionVars>>

----------------------------------------------------------------------------
(* cluster.Run                                                              *)

HasRoom(n, cap) == n < cap

Connect ==
  /\ cluster = "run" /\ NodeChan # <<>>
  /\ sessions' = sessions \cup {Head(NodeChan)} /\ NodeChan' = Tail(NodeChan)
  /\ UNCHANGED <<masterVars, sidecarVars, cluster, closing, current, dieSent,
                 ChannelChan, serialVars, sessionVars>>

\* An order is written to etcd, whose watch brings it back as an event.
TakeChannel ==
  /\ cluster = "run" /\ ChannelChan # <<>>
  /\ ChannelChan' = Tail(ChannelChan)
  /\ events' = IF Head(ChannelChan) = "order" THEN events + 1 ELSE events
  /\ UNCHANGED <<masterVars, sidecarVars, clusterVars, dieSent, NodeChan, serial, left,
                 sessionVars>>

\* etcd.run with an event
ChannelEvent ==
  /\ events > 0 /\ HasRoom(Len(ChannelChan), ChannelCap)
  /\ events' = events - 1 /\ ChannelChan' = Append(ChannelChan, "notice")
  /\ UNCHANGED <<masterVars, sidecarVars, clusterVars, dieSent, NodeChan, serial, left,
                 sessionVars>>

ToClose_Dialled == sessions \cup Clients

ToClose == sessions

TakeDie ==
  /\ cluster = "run" /\ dieSent = "sent"
  /\ cluster' = "close" /\ closing' = ToClose /\ dieSent' = "taken"
  /\ UNCHANGED <<masterVars, sidecarVars, current, sessions, NodeChan, ChannelChan,
                 serialVars, sessionVars>>

\* m.Close(): the first call of it goes on, others wait until that is through.
CloseSession(s) ==
  /\ cluster = "close" /\ current = {} /\ s \in closing
  /\ current' = {s} /\ closing' = closing \ {s}
  /\ close' = [close EXCEPT ![s] = IF @ = "no" THEN "wait" ELSE @]
  /\ UNCHANGED <<masterVars, sidecarVars, cluster, sessions, chanVars, serialVars, loop,
                 callVars, uncounted>>

SessionClosed(s) ==
  /\ s \in current /\ close[s] = "done"
  /\ current' = {} /\ sessions' = sessions \ {s}
  /\ UNCHANGED <<masterVars, sidecarVars, cluster, closing, chanVars, serialVars,
                 sessionVars>>

AfterDie_Break == "run"

AfterDie == "end"

ClusterEnds ==
  /\ cluster = "close" /\ closing = {} /\ current = {}
  /\ cluster' = AfterDie
  /\ IF AfterDie = "end" THEN Returns("cluster") ELSE UNCHANGED children
  /\ UNCHANGED <<masterVars, sidecar, listener, closing, current, sessions, chanVars,
                 serialVars, sessionVars>>

----------------------------------------------------------------------------
(* Serial.Run                                                               *)

SerialStops ==
  /\ serial = "run" /\ ctx /\ serial' = "unsubscribe"
  /\ UNCHANGED <<masterVars, sidecarVars, clusterVars, chanVars, left, events,
                 sessionVars>>

Unsubscribe ==
  /\ serial = "unsubscribe" /\ left > 0 /\ HasRoom(Len(ChannelChan), ChannelCap)
  /\ left' = left - 1 /\ ChannelChan' = Append(ChannelChan, "order")
  /\ UNCHANGED <<masterVars, sidecarVars, clusterVars, dieSent, NodeChan, serial,
                 events, sessionVars>>

SerialEnds ==
  /\ serial = "unsubscribe" /\ left = 0 /\ serial' = "end"
  /\ Returns("serial")
  /\ UNCHANGED <<masterVars, sidecar, listener, clusterVars, chanVars, left, events,
                 sessionVars>>

----------------------------------------------------------------------------
(* ServerTCP.Run and the read loops                                         *)

Goto(s, l) == loop' = [loop EXCEPT ![s] = l]

CloseListener ==
  /\ ctx /\ listener /\ listener' = FALSE
  /\ UNCHANGED <<masterVars, children, sidecar, clusterVars, chanVars, serialVars,
                 sessionVars>>

Accept(s) ==
  /\ s \in Accepted /\ loop[s] = "new" /\ listener
  /\ Goto(s, "accepted")
  /\ UNCHANGED <<masterVars, sidecarVars, clusterVars, chanVars, serialVars, close, callVars,
                 uncounted>>

\* tcpReceive's s.Add(1)
Add(s) ==
  /\ loop[s] = "accepted" /\ Goto(s, "read")
  /\ UNCHANGED <<masterVars, sidecarVars, clusterVars, chanVars, serialVars, close, callVars,
                 uncounted>>

\* s.Wait() sees the loops that have called Add.
ServerEnds ==
  /\ children["server"] = "run" /\ ~listener
  /\ \A s \in Accepted : loop[s] \in {"new", "accepted", "end"}
  /\ uncounted' = {s \in Accepted : loop[s] = "accepted"}
  /\ Returns("server")
  /\ UNCHANGED <<masterVars, sidecar, listener, clusterVars, chanVars, serialVars, loop,
                 close, callVars>>

\* FrameTypeNodeName: addSessionTCP sends to NodeChan.
NodeName(s) ==
  /\ s \in Nodes /\ loop[s] = "read" /\ close[s] # "done"
  /\ s \notin sessions \cup Range(NodeChan)
  /\ Goto(s, "name")
  /\ UNCHANGED <<masterVars, sidecarVars, clusterVars, chanVars, serialVars, close, callVars,
                 uncounted>>

Register(s) ==
  /\ loop[s] = "name" /\ HasRoom(Len(NodeChan), NodeCap)
  /\ NodeChan' = Append(NodeChan, s) /\ Goto(s, "read")
  /\ UNCHANGED <<masterVars, sidecarVars, clusterVars, dieSent, ChannelChan, serialVars,
                 close, callVars, uncounted>>

\* The connection is closed here, or by the peer, or the read deadline passes: a
\* node hears that this one dies and stops its heartbeats.
LoopEnds(s) ==
  /\ loop[s] = "read" /\ (close[s] = "done" \/ s \notin Talkers)
  /\ Goto(s, "close")
  /\ close' = [close EXCEPT ![s] = IF @ = "no" THEN "wait" ELSE @]
  /\ UNCHANGED <<masterVars, sidecarVars, clusterVars, chanVars, serialVars, callVars,
                 uncounted>>

LoopClosed(s) ==
  /\ loop[s] = "close" /\ close[s] = "done"
  /\ Goto(s, "end")
  /\ IF s \in Clients THEN Returns(s) ELSE UNCHANGED children
  /\ UNCHANGED <<masterVars, sidecar, listener, clusterVars, chanVars, serialVars,
                 close, callVars, uncounted>>

\* Close waits for the session's jobs, then closes the connection.
Closed(s) ==
  /\ close[s] = "wait" /\ s \notin jobs
  /\ close' = [close EXCEPT ![s] = "done"]
  /\ overtaken' = overtaken \cup ({s} \cap passed)
  /\ UNCHANGED <<masterVars, sidecarVars, clusterVars, chanVars, serialVars, loop, passed,
                 jobs, uncounted>>

\* WriteFrameDataToCache finds the session at work ...
Call(s) ==
  /\ s \in Callers /\ loop[s] # "new" /\ close[s] = "no"
  /\ passed' = passed \cup {s}
  /\ UNCHANGED <<masterVars, sidecarVars, clusterVars, chanVars, serialVars, loop, close,
                 jobs, overtaken, uncounted>>

\* ... and hands the Dispatcher a job: s.Add(1); JobQueue <- myslot.  (One job of a
\* session at a time.)
Post(s) ==
  /\ s \in passed \ jobs
  /\ passed' = passed \ {s} /\ jobs' = jobs \cup {s}
  /\ UNCHANGED <<masterVars, sidecarVars, clusterVars, chanVars, serialVars, loop, close,
                 overtaken, uncounted>>

\* A worker of the Dispatcher
WorkFunc(s) ==
  /\ s \in jobs /\ ~Released
  /\ jobs' = jobs \ {s}
  /\ UNCHANGED <<masterVars, sidecarVars, clusterVars, chanVars, serialVars, loop, close,
                 passed, overtaken, uncounted>>

----------------------------------------------------------------------------

Guard == GuardEnds \/ Exit
Sidecar == SidecarDies \/ SidecarCloses \/ SidecarEnds
Cluster == Connect \/ TakeChannel \/ TakeDie \/ ClusterEnds
             \/ (\E s \in Sessions : CloseSession(s) \/ SessionClosed(s))
Serial == SerialStops \/ Unsubscribe \/ SerialEnds
Loop(s) == Add(s) \/ Register(s) \/ LoopEnds(s) \/ LoopClosed(s)
Others(s) == Accept(s) \/ NodeName(s) \/ Call(s) \/ Post(s)

\* (Once Guard has returned or os.Exit was called there are no more steps; the model
\* lets the others go on.)
Next ==
  \/ GuardStops \/ Signal \/ Guard \/ Sidecar \/ Cluster \/ Serial
  \/ ChannelEvent \/ CloseListener \/ ServerEnds
  \/ \E c \in MasterChildren : Uncount(c)
  \/ \E s \in Sessions :
       Loop(s) \/ Closed(s) \/ WorkFunc(s) \/ Others(s)

Spec == Init /\ [][Next]_vars

\* Goroutines go on when they can, the Limiter grants what loops wait for, and a
\* peer that is no Talker falls silent at last.  Nothing has to arrive, and nobody
\* has to stop the program.
FairSpec ==
  /\ Spec
  /\ WF_vars(Guard) /\ WF_vars(Sidecar) /\ WF_vars(Cluster)
  /\ WF_vars(Serial) /\ WF_vars(CloseListener) /\ WF_vars(ServerEnds)
  /\ \A c \in MasterChildren : WF_vars(Uncount(c))
  /\ \A s \in Sessions :
       /\ WF_vars(Loop(s)) /\ WF_vars(Closed(s)) /\ WF_vars(WorkFunc(s))

----------------------------------------------------------------------------
(* Properties                                                               *)

\* Every variable stays in its type, and no channel holds more than its capacity.
TypeOK ==
  /\ {ctx, listener} \subseteq BOOLEAN
  /\ master \in {"guard", "wait", "end"} /\ guard \in {"signal", "poll", "normal"}
  /\ children \in [MasterChildren \cup SidecarChildren -> {"run", "done", "uncounted"}]
  /\ sidecar \in {"run", "wait", "closed", "end"}
  /\ cluster \in {"run", "close", "end"} /\ closing \cup current \subseteq sessions
  /\ closing \cap current = {} /\ (cluster # "close" => current = {})
  /\ sessions \subseteq Sessions /\ dieSent \in {"no", "sent", "taken"}
  /\ NodeChan \in Seq(Sessions) /\ Len(NodeChan) <= NodeCap
  /\ ChannelChan \in Seq({"order", "notice"}) /\ Len(ChannelChan) <= ChannelCap
  /\ serial \in {"run", "unsubscribe", "end"} /\ left \in 0 .. Subscribed /\ events \in Nat
  /\ loop \in [Sessions -> {"new", "accepted", "read", "name", "close", "end"}]
  /\ close \in [Sessions -> {"no", "wait", "done"}]
  /\ passed \cup jobs \cup overtaken \subseteq Sessions /\ uncounted \subseteq Accepted

\* When the Dispatcher and the Limiter are closed, a read loop that is not through is
\* one that ServerTCP.Run's Wait could not see, and a job that nobody will run was
\* posted by such a session or by a call that its session's Close overtook.  And
\* whoever sees the end of the program as normal (Guard, or the signal's goroutine)
\* does so when Sidecar and Serial are through.
ClosedAfterUsers ==
  /\ Released => \A s \in Sessions \ uncounted :
                   loop[s] \in {"new", "end"} /\ (s \in jobs => s \in overtaken)
  /\ master = "end" \/ guard = "normal" => sidecar = "end" /\ serial = "end"

\* After Stop Guard returns, and after a signal its goroutine finds no child left, at
\* whatever point the sessions, the Serial and the cluster are when it comes, if etcd
\* answers and the channels have room.
ShutdownEnds ==
  /\ (master = "wait") ~> (master = "end")
  /\ (guard = "poll") ~> (guard = "normal")
=============================================================================
