------------------------------ MODULE ClusterView ------------------------------
(******************************************************************************)
(* What one node, Self, knows of the cluster (sidecar/cluster.go, etcd.go,    *)
(* sidecar.go): the sessions it holds by machine id and the ids subscribed to *)
(* one channel.  It starts from the addresses and the keys it reads in etcd,  *)
(* then follows three independent watches; the TCP connections come and go on *)
(* their own.                                                                 *)
(*                                                                            *)
(* A member of Nodes is one life of another process: it registers, listens,   *)
(* connects, works, and leaves or crashes.  etcd is a serial store: a step    *)
(* that changes a key appends the event to the watch of its prefix.           *)
(******************************************************************************)
EXTENDS Integers, FiniteSets, SequencesExt

CONSTANTS
  Self,           \* the node whose view is modelled
  Nodes,          \* the other nodes
  MaxWorkNumber,  \* the machine ids are 0 .. MaxWorkNumber - 1
  ChanCap,        \* capacity of NodeChan, StateChan and ChannelChan
  MaxSubscribes,  \* bound: how often a node puts its channel key; of Self, its
                  \* calls of Subscribe and Unsubscribe
  Prompt          \* TRUE: no step is taken in haste (Haste)

None == "none"

ASSUME ConstantsAssumption ==
  /\ IsFiniteSet(Nodes) /\ Self \notin Nodes /\ None \notin Nodes \cup {Self}
  /\ MaxWorkNumber \in Nat \ {0} /\ ChanCap \in Nat \ {0}
  /\ MaxSubscribes \in [Nodes \cup {Self} -> Nat]
  /\ Prompt \in BOOLEAN

NoId == -1
Ids == 0 .. MaxWorkNumber - 1
All == Nodes \cup {Self}

VARIABLES
  machine,     \* etcd "machine/id": the node that holds an id, or None
  chanKeys,    \* etcd "channel/ch/id": the ids with that key
  node, mid,   \* a node: its stage of life, its machine id
  knows,       \* the nodes that read Self's address when they registered
  puts,        \* how much of MaxSubscribes a node has used
  hasty,       \* history: a step was taken in haste
  conn,        \* the connection between Self and a node
  sstate,      \* the state of the session of a node, "work" or "die"
  nodeW, stateW, chanW,                \* events of the watches
  NodeChan, StateChan, ChannelChan,    \* what run() passed on
  todo,        \* the addresses Self still has to dial
  hole,        \* heartbeatSlice has a nil entry
  told,        \* the last state Sidecar.Run asked cluster.Run to put
  snap,        \* the ids of the channel read by initStateAndChannels
  bucket,      \* c.channels[ch].sets; <<>> is no bucket
  sessions     \* c.sessions: the node of the session of an id, or None

etcdVars == <<machine, chanKeys>>
lifeVars == <<node, mid, knows, puts, hasty>>
tcpVars == <<conn, sstate>>
watchVars == <<nodeW, stateW, chanW>>
chans == <<NodeChan, StateChan, ChannelChan>>
bootVars == <<todo, hole, told, snap>>
viewVars == <<bucket, sessions>>
vars == <<etcdVars, lifeVars, tcpVars, watchVars, chans, bootVars, viewVars>>

Init ==
  /\ machine = [i \in Ids |-> None]
  /\ chanKeys = {}
  /\ node = [n \in All |-> "new"]
  /\ mid = [n \in All |-> NoId]
  /\ knows = {}
  /\ puts = [n \in All |-> 0]
  /\ hasty = FALSE
  /\ conn = [n \in All |-> None]
  /\ sstate = [n \in All |-> "work"]
  /\ nodeW = <<>> /\ stateW = <<>> /\ chanW = <<>>
  /\ NodeChan = <<>> /\ StateChan = <<>> /\ ChannelChan = <<>>
  /\ todo = <<>> /\ hole = FALSE /\ told = None /\ snap = <<>>
  /\ bucket = <<>>
  /\ sessions = [i \in Ids |-> None]

Me == node[Self]
Booting == {"dialing", "snapshot", "checkState", "checkChannel"}
Stopped == {"dead", "exit"}
Listening == Booting \cup {"listening", "dialled", "up"}
Watching == Me \in {"watching", "up"} \cup Booting

Becomes(n, s) == node' = [node EXCEPT ![n] = s]

\* An event reaches the watch once Self has started it.
Watched(w, e) == IF Watching THEN Append(w, e) ELSE w

\* Nothing is on its way to Self.
Quiet ==
  /\ nodeW = <<>> /\ stateW = <<>> /\ chanW = <<>>
  /\ NodeChan = <<>> /\ StateChan = <<>> /\ ChannelChan = <<>>
  /\ \A n \in Nodes : conn[n] # "sent"
  /\ \A n \in Nodes : node[n] \in {"crashed", "leaving", "gone"} => conn[n] # "on"

\* An event about this id is on its way to Self.
NewsOf(id) ==
  \/ id \in Range(nodeW)
  \/ \E e \in Range(NodeChan) : e[2] = id
  \/ \E e \in Range(stateW) \cup Range(StateChan) : e[1] = id

\* A step that overtakes what Self knows, or is to know, of a node is one in haste.
Haste(early) ==
  /\ Prompt => ~early
  /\ hasty' = (hasty \/ early)

----------------------------------------------------------------------------
(* Registration                                                             *)

Taken == {i \in Ids : machine[i] # None}

\* The ids of S in ascending order.
Sorted(S) ==
  CHOOSE q \in [1 .. Cardinality(S) -> S] : \A i, j \in DOMAIN q : i < j => q[i] < q[j]

Allocated_OneLow ==
  LET queue == Sorted(Taken)
      gaps == {i \in DOMAIN queue : i - 1 <= queue[i]}
  IN  IF gaps = {} THEN Len(queue) ELSE (CHOOSE i \in gaps : \A j \in gaps : i <= j) - 1

\* getMachineID: the first place where the sorted ids run ahead of their index.
Allocated ==
  LET queue == Sorted(Taken)
      gaps == {i \in DOMAIN queue : i - 1 < queue[i]}
  IN  IF gaps = {} THEN Len(queue) ELSE (CHOOSE i \in gaps : \A j \in gaps : i <= j) - 1

\* initAddress: the node itself, then those with a key.
Addresses ==
  <<Self>> \o [k \in 1 .. Cardinality(Taken) |-> machine[Sorted(Taken)[k]]]

\* RegisterServer: reads the addresses and puts the node's own under the lock.
\* Without a free id it returns an error and the process ends.
Register(n) ==
  /\ node[n] = "new"
  /\ Allocated < MaxWorkNumber
  /\ Haste(NewsOf(Allocated))
  /\ mid' = [mid EXCEPT ![n] = Allocated]
  /\ machine' = [machine EXCEPT ![Allocated] = n]
  /\ Becomes(n, "registered")
  /\ IF n = Self
     THEN /\ todo' = Addresses
          /\ UNCHANGED knows
     ELSE /\ knows' = IF mid[Self] \in Taken THEN knows \cup {n} ELSE knows
          /\ UNCHANGED todo
  /\ UNCHANGED <<chanKeys, puts, tcpVars, watchVars, chans, hole, told, snap, viewVars>>

----------------------------------------------------------------------------
(* The other nodes                                                          *)

StepNode(n, from, to) ==
  /\ node[n] = from /\ Becomes(n, to)
  /\ UNCHANGED <<etcdVars, mid, knows, puts, chans, bootVars, viewVars>>

\* NewServerTCP opens the listener after the registration.
Listen(n) ==
  /\ StepNode(n, "registered", "listening")
  /\ UNCHANGED <<hasty, tcpVars, watchVars>>

\* dialNode of a node that found Self's address: it connects and writes the
\* frame with its id, or finds the port closed.
Dial(n) ==
  /\ StepNode(n, "listening", "dialled")
  /\ Haste(n \in knows /\ Me \in {"registered", "watching"})
  /\ conn' = [conn EXCEPT ![n] = IF n \in knows /\ Me \in Listening THEN "sent" ELSE @]
  /\ UNCHANGED <<sstate, watchVars>>

\* cluster.Run puts the state "work" of the node.
Work(n) ==
  /\ StepNode(n, "dialled", "up")
  /\ stateW' = Watched(stateW, <<mid[n], "work">>)
  /\ UNCHANGED <<hasty, tcpVars, nodeW, chanW>>

Keys(keys, w) ==
  /\ chanKeys' = keys
  /\ chanW' = w
  /\ UNCHANGED <<machine, node, mid, knows, hasty, tcpVars, nodeW, stateW, chans, bootVars,
                 viewVars>>

PutChannel(n) ==
  /\ node[n] = "up" /\ puts[n] < MaxSubscribes[n]
  /\ puts' = [puts EXCEPT ![n] = @ + 1]
  /\ Keys(chanKeys \cup {mid[n]}, Watched(chanW, <<"put", mid[n]>>))

DeleteChannel(n) ==
  /\ node[n] = "up" /\ mid[n] \in chanKeys
  /\ Keys(chanKeys \ {mid[n]}, Watched(chanW, <<"delete", mid[n]>>))
  /\ UNCHANGED puts

\* The node puts its last state, closes its sessions and stops listening.
Leave(n) ==
  /\ Haste(conn[n] = "sent" \/ NewsOf(mid[n]))
  /\ StepNode(n, "up", "leaving")
  /\ stateW' = Watched(stateW, <<mid[n], "die">>)
  /\ UNCHANGED <<tcpVars, nodeW, chanW>>

Crash(n) ==
  /\ Haste(conn[n] = "sent" \/ NewsOf(mid[n]))
  /\ node[n] \in {"registered", "listening", "dialled", "up"}
  /\ StepNode(n, node[n], "crashed")
  /\ UNCHANGED <<tcpVars, watchVars>>

\* The lease is revoked, or runs out: all keys of the node go.
KeysGo(n) ==
  /\ node[n] \in {"leaving", "crashed"} \cup Stopped
  /\ Becomes(n, "gone")
  /\ machine' = [machine EXCEPT ![mid[n]] = None]
  /\ chanKeys' = chanKeys \ {mid[n]}
  /\ nodeW' = Watched(nodeW, mid[n])
  /\ chanW' = IF mid[n] \in chanKeys THEN Watched(chanW, <<"delete", mid[n]>>) ELSE chanW
  /\ UNCHANGED <<mid, knows, puts, hasty, tcpVars, stateW, chans, bootVars, viewVars>>

----------------------------------------------------------------------------
(* Connections                                                              *)

Room_OneOver(c) == Len(c) <= ChanCap

Room_OneLess(c) == Len(c) < ChanCap - 1

Room(c) == Len(c) < ChanCap

FrameId_Receivers(n) == mid[Self]

\* The frame carries the id of the node that connects.
FrameId(n) == mid[n]

\* addSessionTCP hands the session of a node that connected to cluster.Run.
Announce(n) ==
  /\ conn[n] = "sent" /\ Me \in Listening /\ Room(NodeChan)
  /\ conn' = [conn EXCEPT ![n] = "on"]
  /\ NodeChan' = Append(NodeChan, <<"connect", FrameId(n), n>>)
  /\ UNCHANGED <<etcdVars, lifeVars, sstate, watchVars, StateChan, ChannelChan,
                 bootVars, viewVars>>

\* The read loop meets the end of the connection and closes the session.
ReadEnds(n) ==
  /\ conn[n] = "on" /\ node[n] \in {"leaving", "crashed", "gone"}
  /\ Me \notin Stopped
  /\ conn' = [conn EXCEPT ![n] = "closed"]
  /\ sstate' = [sstate EXCEPT ![n] = "die"]
  /\ UNCHANGED <<etcdVars, lifeVars, watchVars, chans, bootVars, viewVars>>

----------------------------------------------------------------------------
(* Self starts                                                              *)

StepSelf(from, to) == Me = from /\ Becomes(Self, to)

\* The watches start after the registration.
StartWatch ==
  /\ StepSelf("registered", "watching")
  /\ UNCHANGED <<etcdVars, mid, knows, puts, hasty, tcpVars, watchVars, chans, bootVars,
                 viewVars>>

SelfListens ==
  /\ StepSelf("watching", "dialing")
  /\ UNCHANGED <<etcdVars, mid, knows, puts, hasty, tcpVars, watchVars, chans, bootVars,
                 viewVars>>

\* One address of dialNode.  A node that does not listen is skipped.
DialNext ==
  /\ Me = "dialing" /\ todo # <<>>
  /\ LET n == Head(todo) IN
     /\ Haste(node[n] = "registered")
     /\ IF node[n] \in Listening
        THEN /\ Room(NodeChan)
             /\ NodeChan' = Append(NodeChan, <<"connect", mid[n], n>>)
             /\ conn' = [conn EXCEPT ![n] = "on"]
             /\ UNCHANGED hole
        ELSE /\ hole' = TRUE
             /\ UNCHANGED <<NodeChan, conn>>
  /\ todo' = Tail(todo)
  /\ UNCHANGED <<etcdVars, node, mid, knows, puts, sstate, watchVars, StateChan, ChannelChan, told,
                 snap, viewVars>>

DialDone ==
  /\ todo = <<>> /\ StepSelf("dialing", "snapshot")
  /\ UNCHANGED <<etcdVars, mid, knows, puts, hasty, tcpVars, watchVars, chans, bootVars,
                 viewVars>>

Read_Nothing == <<>>

\* GetKey("channel/") returns the keys in order.
Read == Sorted(chanKeys)

\* initStateAndChannels: reads the channel keys ...
Snapshot ==
  /\ StepSelf("snapshot", "checkState")
  /\ snap' = Read
  /\ UNCHANGED <<etcdVars, mid, knows, puts, hasty, tcpVars, watchVars, chans, todo, hole, told,
                 viewVars>>

\* ... gives up (Logger.Fatal) when an event has already come through ...
CheckState ==
  /\ StepSelf("checkState", IF StateChan = <<>> THEN "checkChannel" ELSE "exit")
  /\ UNCHANGED <<etcdVars, mid, knows, puts, hasty, tcpVars, watchVars, chans, bootVars,
                 viewVars>>

\* ... and installs what it read.
CheckChannel ==
  /\ StepSelf("checkChannel", IF ChannelChan = <<>> THEN "up" ELSE "exit")
  /\ bucket' = IF ChannelChan = <<>> THEN snap ELSE bucket
  /\ UNCHANGED <<etcdVars, mid, knows, puts, hasty, tcpVars, watchVars, chans, bootVars,
                 sessions>>

\* The heartbeat dereferences the client of an address that was skipped.
Heartbeat ==
  /\ hole /\ told = "work" /\ StepSelf("up", "exit")
  /\ UNCHANGED <<etcdVars, mid, knows, puts, hasty, tcpVars, watchVars, chans, bootVars,
                 viewVars>>

----------------------------------------------------------------------------
(* etcd.run: passes the events of the watches on                            *)

PumpNode ==
  /\ Watching /\ nodeW # <<>> /\ Room(NodeChan)
  /\ NodeChan' = Append(NodeChan, <<"offline", Head(nodeW)>>)
  /\ nodeW' = Tail(nodeW)
  /\ UNCHANGED <<etcdVars, lifeVars, tcpVars, stateW, chanW, StateChan, ChannelChan,
                 bootVars, viewVars>>

PumpState ==
  /\ Watching /\ stateW # <<>> /\ Room(StateChan)
  /\ StateChan' = Append(StateChan, Head(stateW))
  /\ stateW' = Tail(stateW)
  /\ UNCHANGED <<etcdVars, lifeVars, tcpVars, nodeW, chanW, NodeChan, ChannelChan,
                 bootVars, viewVars>>

PumpChannel ==
  /\ Watching /\ chanW # <<>> /\ Room(ChannelChan)
  /\ ChannelChan' = Append(ChannelChan, Head(chanW))
  /\ chanW' = Tail(chanW)
  /\ UNCHANGED <<etcdVars, lifeVars, tcpVars, nodeW, stateW, NodeChan, StateChan,
                 bootVars, viewVars>>

----------------------------------------------------------------------------
(* cluster.Run                                                              *)

With_NewOnly(s, id) == <<id>>

\* bucket.add
With(s, id) == Append(s, id)

\* bucket.remove: the first entry of that id
Without(s, id) ==
  IF id \in Range(s)
  THEN RemoveAt(s, CHOOSE i \in DOMAIN s :
                     s[i] = id /\ \A j \in 1 .. i - 1 : s[j] # id)
  ELSE s

\* Events of the watch change the bucket; Self's own requests go to etcd.
HandleChannel ==
  /\ Me = "up" /\ ChannelChan # <<>>
  /\ LET e == Head(ChannelChan)
         id == e[2]
     IN  \/ /\ e[1] = "put"
            /\ bucket' = With(bucket, id)
            /\ UNCHANGED <<chanKeys, chanW>>
         \/ /\ e[1] = "delete"
            /\ bucket' = Without(bucket, id)
            /\ UNCHANGED <<chanKeys, chanW>>
         \/ /\ e[1] = "ownPut"
            /\ chanKeys' = chanKeys \cup {id}
            /\ chanW' = Append(chanW, <<"put", id>>)
            /\ UNCHANGED bucket
         \/ /\ e[1] = "ownDelete"
            /\ chanKeys' = chanKeys \ {id}
            /\ chanW' = IF id \in chanKeys THEN Append(chanW, <<"delete", id>>) ELSE chanW
            /\ UNCHANGED bucket
  /\ ChannelChan' = Tail(ChannelChan)
  /\ UNCHANGED <<machine, lifeVars, tcpVars, nodeW, stateW, NodeChan, StateChan, bootVars,
                 sessions>>

NewState_Work(u) == "work"

\* The value of the key holds the state.
NewState(u) == u

\* The state of a node is set on the session that its id has now.
NodeState(id, u) ==
  /\ sstate' = IF sessions[id] = None THEN sstate
               ELSE [sstate EXCEPT ![sessions[id]] = NewState(u)]
  /\ UNCHANGED <<node, conn, stateW, sessions>>

\* Self's own state is put; when it is "die" all sessions are closed and the
\* loop returns.
OwnState(u) ==
  /\ stateW' = Append(stateW, <<mid[Self], u>>)
  /\ IF u = "die"
     THEN LET closed == Range(sessions) IN
          /\ sstate' = [n \in All |-> IF n \in closed THEN "die" ELSE sstate[n]]
          /\ conn' = [n \in All |-> IF n \in closed THEN "closed" ELSE conn[n]]
          /\ sessions' = [i \in Ids |-> None]
          /\ Becomes(Self, "dead")
     ELSE UNCHANGED <<node, conn, sstate, sessions>>

HandleState ==
  /\ Me = "up" /\ StateChan # <<>>
  /\ LET e == Head(StateChan)
     IN  \/ e[1] = NoId /\ OwnState(e[2])
         \/ e[1] # NoId /\ NodeState(e[1], e[2])
  /\ StateChan' = Tail(StateChan)
  /\ UNCHANGED <<etcdVars, mid, knows, puts, hasty, nodeW, chanW, NodeChan, ChannelChan, bootVars,
                 bucket>>

\* A node went offline: its session leaves the table and is set to StateDie.
Offline(id) == [sessions EXCEPT ![id] = None]

HandleNode ==
  /\ Me = "up" /\ NodeChan # <<>>
  /\ LET e == Head(NodeChan)
         n == sessions[e[2]]
     IN  \/ /\ e[1] = "offline"
            /\ sessions' = Offline(e[2])
            /\ sstate' = IF n = None THEN sstate ELSE [sstate EXCEPT ![n] = "die"]
         \/ /\ e[1] = "connect"
            /\ sessions' = [sessions EXCEPT ![e[2]] = e[3]]
            /\ UNCHANGED sstate
  /\ NodeChan' = Tail(NodeChan)
  /\ UNCHANGED <<etcdVars, lifeVars, conn, watchVars, StateChan, ChannelChan, bootVars,
                 bucket>>

\* Node.Subscribe and Unsubscribe, once Node.WaitInit has returned, queue a request
\* to cluster.Run.
Ask(op) ==
  /\ Me = "up" /\ told # None /\ Room(ChannelChan)
  /\ puts[Self] < MaxSubscribes[Self]
  /\ puts' = [puts EXCEPT ![Self] = @ + 1]
  /\ ChannelChan' = Append(ChannelChan, <<op, mid[Self]>>)
  /\ UNCHANGED <<etcdVars, node, mid, knows, hasty, tcpVars, watchVars, NodeChan, StateChan,
                 bootVars, viewVars>>

Subscribe == Ask("ownPut")
Unsubscribe == Ask("ownDelete")

\* Sidecar.Run: SetState(StateWork) once cluster.Run is ready, SetState(StateDie)
\* when the context ends.
SetState(u) ==
  /\ Me = "up" /\ Room(StateChan)
  /\ told = IF u = "work" THEN None ELSE "work"
  /\ told' = u
  /\ StateChan' = Append(StateChan, <<NoId, u>>)
  /\ UNCHANGED <<etcdVars, lifeVars, tcpVars, watchVars, NodeChan, ChannelChan, todo, hole,
                 snap, viewVars>>

----------------------------------------------------------------------------

Start ==
  \/ StartWatch \/ SelfListens \/ DialNext \/ DialDone
  \/ Snapshot \/ CheckState \/ CheckChannel

Pump == PumpNode \/ PumpState \/ PumpChannel

Handle == HandleChannel \/ HandleState \/ HandleNode

Connect(n) == Announce(n) \/ ReadEnds(n)

Other(n) ==
  \/ Listen(n) \/ Dial(n) \/ Work(n)
  \/ PutChannel(n) \/ DeleteChannel(n)
  \/ Leave(n) \/ Crash(n)

Next ==
  \/ \E n \in All : Register(n) \/ KeysGo(n)
  \/ \E n \in Nodes : Other(n) \/ Connect(n)
  \/ Start \/ Pump \/ Handle
  \/ Heartbeat \/ Subscribe \/ Unsubscribe
  \/ \E u \in {"work", "die"} : SetState(u)

Spec == Init /\ [][Next]_vars

\* A process that registered goes on to listen.  The goroutines of Self run on:
\* the start, the pump, whose turn comes when other senders wait for the same
\* channel (they queue), and cluster.Run, whose select takes a ready channel at
\* random and so each of them in the end.
FairSpec ==
  /\ Spec
  /\ WF_vars(Start) /\ WF_vars(SetState("work"))
  /\ SF_vars(PumpNode) /\ SF_vars(PumpState) /\ SF_vars(PumpChannel)
  /\ SF_vars(HandleChannel) /\ SF_vars(HandleState) /\ SF_vars(HandleNode)
  /\ \A n \in Nodes : WF_vars(Listen(n)) /\ WF_vars(Connect(n))

----------------------------------------------------------------------------
(* Properties                                                               *)

Life == {"new", "registered", "listening", "dialled", "up", "leaving", "crashed", "gone"}

Events(ops) == Seq(ops \X Ids)

\* Every variable stays in its type.
TypeOK ==
  /\ machine \in [Ids -> All \cup {None}]
  /\ chanKeys \subseteq Ids
  /\ node \in [All -> Life \cup Booting \cup Stopped \cup {"watching"}]
  /\ mid \in [All -> Ids \cup {NoId}]
  /\ knows \subseteq Nodes
  /\ \A n \in All : puts[n] \in 0 .. MaxSubscribes[n]
  /\ hasty \in BOOLEAN
  /\ conn \in [All -> {None, "sent", "on", "closed"}]
  /\ sstate \in [All -> {"work", "die"}]
  /\ nodeW \in Seq(Ids)
  /\ stateW \in Seq(Ids \X {"work", "die"})
  /\ chanW \in Events({"put", "delete"})
  /\ NodeChan \in Seq(({"offline"} \X Ids) \cup ({"connect"} \X Ids \X All))
  /\ StateChan \in Seq((Ids \cup {NoId}) \X {"work", "die"})
  /\ ChannelChan \in Events({"put", "delete", "ownPut", "ownDelete"})
  /\ Len(NodeChan) <= ChanCap /\ Len(StateChan) <= ChanCap /\ Len(ChannelChan) <= ChanCap
  /\ todo \in Seq(All)
  /\ hole \in BOOLEAN
  /\ told \in {None, "work", "die"}
  /\ snap \in Seq(Ids)
  /\ bucket \in Seq(Ids)
  /\ sessions \in [Ids -> All \cup {None}]

\* Two nodes whose keys are in etcd never have the same machine id, whatever ids
\* were given back in between (getMachineID).
UniqueIds ==
  \A m, n \in All :
    m # n /\ {node[m], node[n]} \cap {"new", "gone"} = {} => mid[m] # mid[n]

\* Once every event has been handled, each node that is subscribed is in the
\* bucket: the keys read at the start and the events of the watch together miss
\* no subscription.
NoneMissing ==
  Me = "up" /\ Quiet => chanKeys \subseteq Range(bucket)

\* Once every event has been handled, a node in the bucket is still subscribed.
NoneStale ==
  Me = "up" /\ Quiet => Range(bucket) \subseteq chanKeys

\* Once every event has been handled, a node is in the bucket once, so that one
\* Publish reaches it once.
EntryOnce ==
  Me = "up" /\ Quiet => IsInjective(bucket)

\* Once every event has been handled, a node that works and is connected has its
\* session in the table, and the session accepts frames.
LiveIsReachable ==
  Me = "up" /\ Quiet =>
    \A n \in Nodes : node[n] = "up" /\ conn[n] = "on" =>
      sessions[mid[n]] = n /\ sstate[n] = "work"

\* Any two nodes that work are connected, whichever of them came first.
AllConnected ==
  Me = "up" /\ Quiet => \A n \in Nodes : node[n] = "up" => conn[n] = "on"

\* Once every event has been handled, the table of sessions agrees with etcd: every
\* node that works is connected and its session in its place accepts frames, and of a
\* node that left no session is kept, nor one that accepts frames.
SessionsAgree ==
  /\ AllConnected /\ LiveIsReachable
  /\ Me = "up" /\ Quiet =>
       \A n \in Nodes : node[n] = "gone" =>
         n \notin Range(sessions) /\ (conn[n] # None => sstate[n] = "die")

\* A node that is up ends only when it is told to.
StaysUp == [][Me = "up" => node'[Self] # "exit"]_vars

\* A session that was closed does not accept frames again.
ClosedStaysDie ==
  [][\A n \in Nodes : conn[n] = "closed" /\ sstate[n] = "die" => sstate'[n] = "die"]_vars

\* A node that starts gets as far as running, or gives up, when NodeChan has room for
\* the sessions of all nodes: nobody takes from it before cluster.Run starts.
StartEnds == (Me = "dialing") ~> (Me \in {"up"} \cup Stopped)

\* A subscription in etcd is seen in the bucket, unless it is withdrawn or the
\* node stops.
SubscriptionSeen ==
  \A n \in Nodes :
    (Me = "up" /\ node[n] = "up" /\ mid[n] \in chanKeys) ~>
      (mid[n] \in Range(bucket) \/ mid[n] \notin chanKeys \/ Me # "up")
=============================================================================
