------------------------- MODULE SerialShutdownProofs -------------------------
(****************************************************************************)
(* Theorems about the end of the program, for every set of sessions, every  *)
(* capacity of the cluster's channels and every number of channel events;   *)
(* and about Serial, the child of Master that the end of the program sees   *)
(* only as a goroutine that unsubscribes, for every set of frames and       *)
(* groups.  Each theorem is about one of the two specifications and uses    *)
(* the assumption of that one alone.                                        *)
(****************************************************************************)
EXTENDS Shutdown, Serial, FiniteSetTheorems, SequenceTheorems, WellFoundedInduction, TLAPS

----------------------------------------------------------------------------
(* The end of the program: its types                                        *)

\* Each group of variables has its types.
MainOK ==
  /\ ctx \in BOOLEAN /\ listener \in BOOLEAN
  /\ master \in {"guard", "wait", "end"} /\ guard \in {"signal", "poll", "normal"}
  /\ children \in [MasterChildren \cup SidecarChildren -> {"run", "done", "uncounted"}]
  /\ sidecar \in {"run", "wait", "closed", "end"}
  /\ serial \in {"run", "unsubscribe", "end"}
  /\ left \in 0 .. Subscribed /\ events \in Nat

ClusterOK ==
  /\ cluster \in {"run", "close", "end"} /\ closing \cup current \subseteq sessions
  /\ closing \cap current = {} /\ (cluster # "close" => current = {})
  /\ sessions \subseteq Sessions /\ dieSent \in {"no", "sent", "taken"}
  /\ NodeChan \in Seq(Sessions) /\ Len(NodeChan) <= NodeCap
  /\ ChannelChan \in Seq({"order", "notice"}) /\ Len(ChannelChan) <= ChannelCap

LoopsOK ==
  /\ loop \in [Sessions -> {"new", "accepted", "read", "name", "close", "end"}]
  /\ close \in [Sessions -> {"no", "wait", "done"}]
  /\ passed \cup jobs \cup overtaken \subseteq Sessions /\ uncounted \subseteq Accepted

LEMMA TypeParts == TypeOK <=> MainOK /\ ClusterOK /\ LoopsOK
BY DEF TypeOK, MainOK, ClusterOK, LoopsOK

\* The numbers among the constants.
LEMMA ConstantTypes ==
  /\ NodeCap \in Nat /\ ChannelCap \in Nat /\ Subscribed \in Nat /\ Events \in Nat
  /\ IsFiniteSet(Clients) /\ Cardinality(Clients) \in Nat
  /\ Cardinality(Clients) <= NodeCap
<1>1. IsFiniteSet(Clients)
  BY ConstantsAssumption, FS_Subset DEF Sessions
<1>. QED BY <1>1, FS_CardinalityType, ConstantsAssumption

\* SetToSeq lists a finite set, each element once.
LEMMA SetToSeqLists ==
  ASSUME NEW S, IsFiniteSet(S), NEW T, S \subseteq T
  PROVE  SetToSeq(S) \in Seq(T) /\ Len(SetToSeq(S)) = Cardinality(S)
<1>1. Cardinality(S) \in Nat /\ ExistsBijection(1 .. Cardinality(S), S)
  BY FS_CardinalityType
<1>2. \E f \in [1 .. Cardinality(S) -> S] : IsInjective(f)
  BY <1>1 DEF ExistsBijection, Bijection, Injection
<1>3. SetToSeq(S) \in [1 .. Cardinality(S) -> S]
  BY <1>2 DEF SetToSeq
<1>4. SetToSeq(S) \in [1 .. Cardinality(S) -> T]
  BY <1>3
<1>. QED BY <1>1, <1>4

AllChildren == MasterChildren \cup SidecarChildren

ChildrenMove ==
  /\ children' \in [AllChildren -> {"run", "done", "uncounted"}]
  /\ \A c \in AllChildren : children[c] # "run" => children'[c] # "run"
  /\ children["sidecar"] = "run" /\ children'["sidecar"] # "run" => SidecarEnds
  /\ children["serial"] = "run" /\ children'["serial"] # "run" => SerialEnds
  /\ children["server"] = "run" /\ children'["server"] # "run" => ServerEnds
  /\ \A s \in Clients : children[s] = "run" /\ children'[s] # "run" => LoopClosed(s)

\* Nobody but its own goroutine ends a child, and only Uncount looks at one after.
LEMMA ChildrenStep ==
  ASSUME MainOK, [Next]_vars
  PROVE  ChildrenMove
<1> USE DEF ChildrenMove
<1>0. /\ children \in [AllChildren -> {"run", "done", "uncounted"}]
      /\ Clients \cap {"sidecar", "serial", "server", "cluster"} = {}
      /\ AllChildren = {"sidecar", "serial", "server", "cluster"} \cup Clients
      /\ Clients \subseteq Sessions
  BY ConstantsAssumption
  DEF MainOK, AllChildren, MasterChildren, SidecarChildren, Sessions
<1>1. ASSUME NEW c \in AllChildren, Returns(c)
      PROVE  /\ children' \in [AllChildren -> {"run", "done", "uncounted"}]
             /\ \A d \in AllChildren \ {c} : children'[d] = children[d]
             /\ children'[c] = "done"
  BY <1>0, <1>1 DEF Returns
<1>2. /\ SidecarEnds => Returns("sidecar")
      /\ SerialEnds => Returns("serial")
      /\ ServerEnds => Returns("server")
      /\ ClusterEnds => Returns("cluster")
      /\ \A s \in Clients : LoopClosed(s) => Returns(s)
  BY DEF SidecarEnds, SerialEnds, ServerEnds, ClusterEnds, AfterDie, LoopClosed
<1>3. ASSUME NEW c \in MasterChildren, Uncount(c)
      PROVE  /\ children' \in [AllChildren -> {"run", "done", "uncounted"}]
             /\ \A d \in AllChildren : children'[d] = "run" <=> children[d] = "run"
  <2>1. children[c] = "done" /\ children' = [children EXCEPT ![c] = "uncounted"]
    BY <1>3 DEF Uncount
  <2>. QED BY <1>0, <2>1
<1>4. \/ SidecarEnds \/ SerialEnds \/ ServerEnds \/ ClusterEnds
      \/ \E s \in Clients : LoopClosed(s)
      \/ \E c \in MasterChildren : Uncount(c)
      \/ children' = children
  BY DEF Next, GuardStops, Signal, Guard, GuardEnds, Exit, Sidecar, SidecarDies,
         SidecarCloses, Cluster, Connect, TakeChannel, TakeDie, CloseSession, SessionClosed,
         Serial, SerialStops, Unsubscribe, ChannelEvent, CloseListener, Loop, Add,
         Register, LoopEnds, LoopClosed, Closed, WorkFunc, Others, Accept,
         NodeName, Call, Post, vars, sidecarVars
<1>5. {"sidecar", "serial", "server", "cluster"} \cup Clients = AllChildren
  BY <1>0
<1>6. CASE SidecarEnds
  <2>1. /\ children' \in [AllChildren -> {"run", "done", "uncounted"}]
        /\ \A d \in AllChildren \ {"sidecar"} : children'[d] = children[d]
        /\ children'["sidecar"] = "done"
    BY <1>1, <1>2, <1>5, <1>6
  <2>2. \A s \in Clients : children'[s] = children[s]
    BY <1>0, <2>1
  <2>. QED BY <1>0, <1>5, <1>6, <2>1, <2>2
<1>7. CASE SerialEnds
  <2>1. /\ children' \in [AllChildren -> {"run", "done", "uncounted"}]
        /\ \A d \in AllChildren \ {"serial"} : children'[d] = children[d]
        /\ children'["serial"] = "done"
    BY <1>1, <1>2, <1>5, <1>7
  <2>2. \A s \in Clients : children'[s] = children[s]
    BY <1>0, <2>1
  <2>. QED BY <1>0, <1>5, <1>7, <2>1, <2>2
<1>8. CASE ServerEnds
  <2>1. /\ children' \in [AllChildren -> {"run", "done", "uncounted"}]
        /\ \A d \in AllChildren \ {"server"} : children'[d] = children[d]
        /\ children'["server"] = "done"
    BY <1>1, <1>2, <1>5, <1>8
  <2>2. \A s \in Clients : children'[s] = children[s]
    BY <1>0, <2>1
  <2>. QED BY <1>0, <1>5, <1>8, <2>1, <2>2
<1>9. CASE ClusterEnds
  <2>1. /\ children' \in [AllChildren -> {"run", "done", "uncounted"}]
        /\ \A d \in AllChildren \ {"cluster"} : children'[d] = children[d]
        /\ children'["cluster"] = "done"
    BY <1>1, <1>2, <1>5, <1>9
  <2>2. \A s \in Clients : children'[s] = children[s]
    BY <1>0, <2>1
  <2>. QED BY <1>0, <1>5, <1>9, <2>1, <2>2
<1>10. ASSUME NEW s \in Clients, LoopClosed(s) PROVE ChildrenMove
  BY <1>0, <1>1, <1>2, <1>5, <1>10, ZenonT(60)
<1>11. ASSUME NEW c \in MasterChildren, Uncount(c) PROVE ChildrenMove
  BY <1>0, <1>3, <1>5, <1>11
<1>12. CASE children' = children
  BY <1>0, <1>12
<1>. QED BY <1>4, <1>6, <1>7, <1>8, <1>9, <1>10, <1>11, <1>12

\* The steps keep the types of the main goroutines.
LEMMA MainStep ==
  ASSUME MainOK, [Next]_vars
  PROVE  MainOK'
<1>1. ctx' \in BOOLEAN /\ listener' \in BOOLEAN
  BY DEF MainOK, Next, GuardStops, Signal, Guard, GuardEnds, Exit, Sidecar,
         SidecarDies, SidecarCloses, SidecarEnds, Cluster, Connect, TakeChannel,
         TakeDie, CloseSession, SessionClosed, ClusterEnds, Serial, SerialStops, Unsubscribe,
         SerialEnds, ChannelEvent, CloseListener, ServerEnds, Uncount, Loop, Add,
         Register, LoopEnds, LoopClosed, Closed, WorkFunc, Others, Accept,
         NodeName, Call, Post, vars, masterVars, sidecarVars
<1>2. /\ master' \in {"guard", "wait", "end"}
      /\ guard' \in {"signal", "poll", "normal"}
      /\ sidecar' \in {"run", "wait", "closed", "end"}
      /\ serial' \in {"run", "unsubscribe", "end"}
  BY DEF MainOK, Next, GuardStops, Signal, Guard, GuardEnds, Exit, Sidecar,
         SidecarDies, SidecarCloses, SidecarEnds, Cluster, Connect, TakeChannel,
         TakeDie, CloseSession, SessionClosed, ClusterEnds, Serial, SerialStops, Unsubscribe,
         SerialEnds, ChannelEvent, CloseListener, ServerEnds, Uncount, Loop, Add,
         Register, LoopEnds, LoopClosed, Closed, WorkFunc, Others, Accept,
         NodeName, Call, Post, vars, masterVars, sidecarVars, serialVars
<1>3. left' \in 0 .. Subscribed /\ events' \in Nat
  BY ConstantTypes
  DEF MainOK, Next, GuardStops, Signal, Guard, GuardEnds, Exit, Sidecar,
         SidecarDies, SidecarCloses, SidecarEnds, Cluster, Connect, TakeChannel,
         TakeDie, CloseSession, SessionClosed, ClusterEnds, Serial, SerialStops, Unsubscribe,
         SerialEnds, ChannelEvent, CloseListener, ServerEnds, Uncount, Loop, Add,
         Register, LoopEnds, LoopClosed, Closed, WorkFunc, Others, Accept,
         NodeName, Call, Post, vars, serialVars
<1>. QED BY <1>1, <1>2, <1>3, ChildrenStep DEF MainOK, AllChildren, ChildrenMove

\* The steps keep the types of the cluster and its channels.
LEMMA ClusterStep ==
  ASSUME ClusterOK, [Next]_vars
  PROVE  ClusterOK'
<1> USE DEF ClusterOK, clusterVars, chanVars
<1>1. CASE Connect
  <2>1. Head(NodeChan) \in Sessions /\ NodeChan' \in Seq(Sessions) /\ Len(NodeChan') <= NodeCap
    BY <1>1, HeadTailProperties, LenProperties, ConstantTypes DEF Connect
  <2>. QED BY <1>1, <2>1 DEF Connect
<1>2. ASSUME NEW s \in Sessions, Register(s) PROVE ClusterOK'
  <2>1. NodeChan' \in Seq(Sessions) /\ Len(NodeChan') <= NodeCap
    BY <1>2, AppendProperties, LenProperties, ConstantTypes DEF Register, HasRoom
  <2>. QED BY <1>2, <2>1 DEF Register
<1>3. CASE TakeChannel \/ ChannelEvent \/ Unsubscribe
  <2>1. ChannelChan' \in Seq({"order", "notice"}) /\ Len(ChannelChan') <= ChannelCap
    <3>1. CASE TakeChannel
      BY <3>1, HeadTailProperties, LenProperties, ConstantTypes DEF TakeChannel
    <3>2. ASSUME NEW m \in {"order", "notice"}, Len(ChannelChan) < ChannelCap
          PROVE  /\ Append(ChannelChan, m) \in Seq({"order", "notice"})
                 /\ Len(Append(ChannelChan, m)) <= ChannelCap
      <4> DEFINE Sorts == {"order", "notice"}
      <4>1. ChannelChan \in Seq(Sorts) /\ m \in Sorts
        BY <3>2
      <4>2. Len(ChannelChan) \in Nat /\ ChannelCap \in Nat
        BY <4>1, LenProperties, ConstantTypes
      <4> HIDE DEF Sorts
      <4>3. /\ Append(ChannelChan, m) \in Seq(Sorts)
            /\ Len(Append(ChannelChan, m)) = Len(ChannelChan) + 1
        BY <4>1, AppendProperties
      <4>4. Len(Append(ChannelChan, m)) <= ChannelCap
        BY <3>2, <4>2, <4>3
      <4>. QED BY <4>3, <4>4 DEF Sorts
    <3>3. CASE ChannelEvent
      BY <3>2, <3>3 DEF ChannelEvent, HasRoom
    <3>4. CASE Unsubscribe
      BY <3>2, <3>4 DEF Unsubscribe, HasRoom
    <3>. QED BY <1>3, <3>1, <3>3, <3>4
  <2>. QED BY <1>3, <2>1 DEF TakeChannel, ChannelEvent, Unsubscribe
<1>4. CASE TakeDie \/ SidecarDies \/ ClusterEnds
  BY <1>4 DEF TakeDie, ToClose, SidecarDies, ClusterEnds, AfterDie
<1>6. ASSUME NEW s \in Sessions, CloseSession(s) \/ SessionClosed(s) PROVE ClusterOK'
  <2>1. CASE CloseSession(s)
    <3>1. /\ closing' \cup current' \subseteq sessions /\ sessions' = sessions
          /\ closing' \cap current' = {}
      BY <2>1 DEF CloseSession
    <3>. QED BY <2>1, <3>1 DEF CloseSession
  <2>2. CASE SessionClosed(s)
    <3>1. closing' \cup current' \subseteq sessions' /\ closing' \cap current' = {}
      BY <2>2 DEF SessionClosed
    <3>. QED BY <2>2, <3>1 DEF SessionClosed
  <2>. QED BY <1>6, <2>1, <2>2
<1>5. CASE UNCHANGED <<clusterVars, chanVars>>
  BY <1>5
<1>. QED BY <1>1, <1>2, <1>3, <1>4, <1>5, <1>6
         DEF Next, GuardStops, Signal, Guard, GuardEnds, Exit, Sidecar,
             SidecarCloses, SidecarEnds, Cluster, Serial, SerialStops, SerialEnds,
             CloseListener, ServerEnds, Uncount, Loop, Add, LoopEnds, LoopClosed,
             Closed, WorkFunc, Others, Accept, NodeName, Call, Post, vars

\* The steps keep the types of the read loops and the sessions.
LEMMA LoopsStep ==
  ASSUME LoopsOK, [Next]_vars
  PROVE  LoopsOK'
<1> USE DEF LoopsOK, sessionVars, callVars
<1>1. ASSUME NEW s \in Sessions, Loop(s) \/ Closed(s) \/ WorkFunc(s) \/ Others(s)
      PROVE  LoopsOK'
  BY <1>1 DEF Loop, Add, Register, LoopEnds, LoopClosed, Closed, WorkFunc, Others,
              Accept, NodeName, Call, Post, Goto
<1>2. ASSUME NEW s \in Sessions, CloseSession(s) PROVE LoopsOK'
  BY <1>2 DEF CloseSession
<1>3. CASE UNCHANGED sessionVars
  BY <1>3
<1>4. CASE ServerEnds
  BY <1>4 DEF ServerEnds
<1>. QED BY <1>1, <1>2, <1>3, <1>4
         DEF Next, GuardStops, Signal, Guard, GuardEnds, Exit, Sidecar, SidecarDies,
             SidecarCloses, SidecarEnds, Cluster, Connect, TakeChannel, TakeDie,
             ClusterEnds, Serial, SerialStops, Unsubscribe, SerialEnds, ChannelEvent,
             CloseListener, Uncount, SessionClosed, vars

\* Every variable keeps its type, and NodeChan and ChannelChan their capacities.
THEOREM TypeCorrect == Spec => []TypeOK
<1>1. Init => MainOK /\ ClusterOK /\ LoopsOK
  <2> SUFFICES ASSUME Init PROVE MainOK /\ ClusterOK /\ LoopsOK
    OBVIOUS
  <2>1. MainOK
    <3>1. ctx \in BOOLEAN /\ listener \in BOOLEAN
      BY DEF Init
    <3>2. children \in [MasterChildren \cup SidecarChildren -> {"run", "done", "uncounted"}]
      BY DEF Init
    <3>3. left \in 0 .. Subscribed /\ events \in Nat
      BY ConstantTypes DEF Init
    <3>. QED BY <3>1, <3>2, <3>3 DEF Init, MainOK
  <2>2. ClusterOK
    <3>1. NodeChan \in Seq(Sessions) /\ Len(NodeChan) = Cardinality(Clients)
      BY SetToSeqLists, ConstantTypes DEF Init, Sessions
    <3>. QED BY <3>1, ConstantTypes DEF Init, ClusterOK
  <2>3. LoopsOK
    BY DEF Init, LoopsOK
  <2>. QED BY <2>1, <2>2, <2>3
<1>2. MainOK /\ ClusterOK /\ LoopsOK /\ [Next]_vars => MainOK' /\ ClusterOK' /\ LoopsOK'
  BY MainStep, ClusterStep, LoopsStep
<1>. QED BY <1>1, <1>2, TypeParts, PTL DEF Spec

----------------------------------------------------------------------------
(* The end of the program: who waits for whom                               *)

\* A session with a job, or with a call on its way to post one, is not closed yet or
\* was closed over that call's head, so a read loop that is through has left no other
\* behind; and a connection that was not accepted has none.
SessionsEmpty ==
  /\ \A s \in Clients : loop[s] # "new" /\ (children[s] # "run" => loop[s] = "end")
  /\ \A s \in Sessions :
       /\ loop[s] = "end" => close[s] = "done"
       /\ close[s] = "done" \/ loop[s] = "new" => s \notin (passed \cup jobs) \ overtaken

\* ServerTCP comes to an end after the loops of the connections that were counted, and
\* no connection comes after the listener was closed.
ServerIsLast ==
  children["server"] # "run" =>
    ~listener /\ \A s \in Accepted \ uncounted : loop[s] \in {"new", "end"}

\* Sidecar closes when its children are through, and Master sees it and Serial come
\* to their ends.
RunsOver ==
  /\ Released => Waited(SidecarChildren)
  /\ children["sidecar"] # "run" => sidecar = "end"
  /\ children["serial"] # "run" => serial = "end"
  /\ master = "end" \/ guard = "normal" => Waited(MasterChildren)

\* The parts that close see to it that those who use them are through.
LEMMA OrderImplies ==
  ASSUME SessionsEmpty, ServerIsLast, RunsOver, LoopsOK
  PROVE  ClosedAfterUsers
<1>1. ASSUME Released, NEW s \in Sessions \ uncounted
      PROVE  loop[s] \in {"new", "end"} /\ (s \in jobs => s \in overtaken)
  <2>1. Waited(SidecarChildren)
    BY <1>1 DEF RunsOver
  <2>2. loop[s] \in {"new", "end"}
    BY <2>1, <1>1 DEF Waited, SidecarChildren, SessionsEmpty, ServerIsLast, Sessions
  <2>. QED BY <2>2 DEF SessionsEmpty
<1>2. ASSUME master = "end" \/ guard = "normal"
      PROVE  sidecar = "end" /\ serial = "end"
  BY <1>2 DEF RunsOver, Waited, MasterChildren
<1>. QED BY <1>1, <1>2 DEF ClosedAfterUsers, Released

\* The steps keep who waits for whom.
LEMMA SessionsEmptyStep ==
  ASSUME MainOK, LoopsOK, SessionsEmpty, [Next]_vars
  PROVE  SessionsEmpty'
<1> DEFINE LoopsMove ==
      \A r \in Sessions :
        /\ loop'[r] = "end" => close'[r] = "done"
        /\ close'[r] = "done" \/ loop'[r] = "new" => r \notin (passed' \cup jobs') \ overtaken'
        /\ loop[r] = "end" => loop'[r] = "end"
        /\ loop[r] # "new" => loop'[r] # "new"
        /\ LoopClosed(r) => loop'[r] = "end"
<1>0. \A s \in Clients : s \in Sessions /\ s \notin Accepted /\ s \in AllChildren
  BY ConstantsAssumption DEF Sessions, AllChildren, SidecarChildren
<1>1. \A s \in Clients : children[s] = "run" /\ children'[s] # "run" => LoopClosed(s)
  BY ChildrenStep DEF ChildrenMove
<1>2. ASSUME NEW s \in Sessions, Loop(s) \/ Closed(s) \/ WorkFunc(s) \/ Others(s)
      PROVE  LoopsMove
  <2>1. CASE Loop(s)
    BY <2>1 DEF Loop, Add, Register, LoopEnds, LoopClosed, Goto, LoopsOK, SessionsEmpty, callVars
  <2>2. CASE Closed(s)
    BY <2>2 DEF Closed, LoopClosed, Goto, LoopsOK, SessionsEmpty
  <2>3. CASE WorkFunc(s) \/ Others(s)
    BY <2>3 DEF WorkFunc, Others, Accept, NodeName, Call, Post, LoopClosed, Goto, LoopsOK,
                SessionsEmpty, callVars
  <2>. QED BY <1>2, <2>1, <2>2, <2>3
<1>3. ASSUME NEW s \in Sessions, CloseSession(s)
      PROVE  LoopsMove
  BY <1>3 DEF CloseSession, LoopClosed, Goto, LoopsOK, SessionsEmpty, callVars
<1>4. ASSUME UNCHANGED <<loop, close, callVars>> PROVE LoopsMove
  BY <1>4 DEF callVars, SessionsEmpty, LoopClosed, Goto, LoopsOK
<1>5. LoopsMove
  BY <1>2, <1>3, <1>4
  DEF Next, GuardStops, Signal, Guard, GuardEnds, Exit, Sidecar, SidecarDies,
      SidecarCloses, SidecarEnds, Cluster, Connect, TakeChannel, TakeDie,
      ClusterEnds, Serial, SerialStops, Unsubscribe, SerialEnds, ChannelEvent,
      CloseListener, ServerEnds, Uncount, SessionClosed, vars, sessionVars
<1>. QED BY <1>0, <1>1, <1>5 DEF SessionsEmpty

LEMMA ServerIsLastStep ==
  ASSUME MainOK, LoopsOK, ServerIsLast, [Next]_vars
  PROVE  ServerIsLast'
<1>1. CASE children["server"] = "run"
  <2> SUFFICES ASSUME children'["server"] # "run" PROVE ServerIsLast'
    BY DEF ServerIsLast
  <2>1. ServerEnds
    BY <1>1, ChildrenStep DEF ChildrenMove
  <2>. QED BY <2>1 DEF ServerEnds, ServerIsLast
<1>2. CASE children["server"] # "run"
  <2>1. /\ ~listener
        /\ \A s \in Accepted \ uncounted : s \in Sessions /\ loop[s] \in {"new", "end"}
    BY <1>2 DEF ServerIsLast, Sessions
  <2>2. ~listener'
    BY <2>1 DEF Next, GuardStops, Signal, Guard, GuardEnds, Exit, Sidecar,
           SidecarDies, SidecarCloses, SidecarEnds, Cluster, Connect, TakeChannel,
           TakeDie, CloseSession, SessionClosed, ClusterEnds, Serial, SerialStops, Unsubscribe,
           SerialEnds, ChannelEvent, CloseListener, ServerEnds, Uncount, Loop, Add,
           Register, LoopEnds, LoopClosed, Closed, WorkFunc, Others, Accept,
           NodeName, Call, Post, vars, sidecarVars
  <2>3. ASSUME NEW s \in Sessions, Loop(s) \/ Closed(s) \/ WorkFunc(s) \/ Others(s)
        PROVE  uncounted' = uncounted /\ \A r \in Accepted \ uncounted : loop'[r] = loop[r]
    BY <2>1, <2>3 DEF Loop, Add, Register, LoopEnds, LoopClosed, Closed, WorkFunc,
                      Others, Accept, NodeName, Call, Post, Goto, LoopsOK
  <2>4. CASE UNCHANGED <<loop, uncounted>>
    BY <2>1, <2>2, <2>4 DEF ServerIsLast
  <2>. QED
    BY <2>1, <2>2, <2>3, <2>4
    DEF ServerIsLast, Next, GuardStops, Signal, Guard, GuardEnds, Exit, Sidecar,
        SidecarDies, SidecarCloses, SidecarEnds, Cluster, Connect, TakeChannel,
        TakeDie, CloseSession, SessionClosed, ClusterEnds, Serial, SerialStops, Unsubscribe,
        SerialEnds, ChannelEvent, CloseListener, ServerEnds, Uncount, vars,
        sessionVars
<1>. QED BY <1>1, <1>2

\* No child is left to count when GetChildCount is 0.
LEMMA NobodyCounted ==
  ASSUME GetChildCount = 0
  PROVE  Waited(MasterChildren)
<1> DEFINE Counted == {c \in MasterChildren : children[c] # "uncounted"}
<1>1. IsFiniteSet(MasterChildren)
  <2>1. MasterChildren = ({} \cup {"sidecar"}) \cup {"serial"}
    BY DEF MasterChildren
  <2>. QED BY <2>1, FS_EmptySet, FS_AddElement
<1>2. Counted = {}
  BY <1>1, FS_Subset, FS_EmptySet DEF GetChildCount
<1>. QED BY <1>2 DEF Waited

LEMMA RunsOverStep ==
  ASSUME MainOK, RunsOver, [Next]_vars
  PROVE  RunsOver'
<1>1. /\ MasterChildren \subseteq AllChildren /\ SidecarChildren \subseteq AllChildren
      /\ "sidecar" \in AllChildren /\ "serial" \in AllChildren
  BY DEF AllChildren, MasterChildren
<1>2. /\ Waited(MasterChildren) => Waited(MasterChildren)'
      /\ Waited(SidecarChildren) => Waited(SidecarChildren)'
  BY <1>1, ChildrenStep DEF ChildrenMove, Waited, MasterChildren, SidecarChildren
<1>3. Released' => Waited(SidecarChildren)'
  <2>1. Released' => Released \/ Waited(SidecarChildren)
    BY DEF Next, GuardStops, Signal, Guard, GuardEnds, Exit, Sidecar,
           SidecarDies, SidecarCloses, SidecarEnds, Cluster, Connect, TakeChannel,
           TakeDie, CloseSession, SessionClosed, ClusterEnds, Serial, SerialStops, Unsubscribe,
           SerialEnds, ChannelEvent, CloseListener, ServerEnds, Uncount, Loop, Add,
           Register, LoopEnds, LoopClosed, Closed, WorkFunc, Others, Accept,
           NodeName, Call, Post, vars, sidecarVars, Released, Awaited
  <2>. QED BY <1>2, <2>1 DEF RunsOver
<1>4. children'["sidecar"] # "run" => sidecar' = "end"
  <2>1. SidecarEnds \/ sidecar = "end" => sidecar' = "end"
    BY DEF Next, GuardStops, Signal, Guard, GuardEnds, Exit, Sidecar,
           SidecarDies, SidecarCloses, SidecarEnds, Cluster, Connect, TakeChannel,
           TakeDie, CloseSession, SessionClosed, ClusterEnds, Serial, SerialStops, Unsubscribe,
           SerialEnds, ChannelEvent, CloseListener, ServerEnds, Uncount, Loop, Add,
           Register, LoopEnds, LoopClosed, Closed, WorkFunc, Others, Accept,
           NodeName, Call, Post, vars, sidecarVars
  <2>. QED BY <1>1, <2>1, ChildrenStep DEF ChildrenMove, RunsOver
<1>5. children'["serial"] # "run" => serial' = "end"
  <2>1. SerialEnds \/ serial = "end" => serial' = "end"
    BY DEF Next, GuardStops, Signal, Guard, GuardEnds, Exit, Sidecar,
           SidecarDies, SidecarCloses, SidecarEnds, Cluster, Connect, TakeChannel,
           TakeDie, CloseSession, SessionClosed, ClusterEnds, Serial, SerialStops, Unsubscribe,
           SerialEnds, ChannelEvent, CloseListener, ServerEnds, Uncount, Loop, Add,
           Register, LoopEnds, LoopClosed, Closed, WorkFunc, Others, Accept,
           NodeName, Call, Post, vars, serialVars
  <2>. QED BY <1>1, <2>1, ChildrenStep DEF ChildrenMove, RunsOver
<1>6. master' = "end" \/ guard' = "normal" => Waited(MasterChildren)'
  <2>1. master' = "end" => master = "end" \/ Waited(MasterChildren)
    BY DEF Next, GuardStops, Signal, Guard, GuardEnds, Exit, Sidecar,
           SidecarDies, SidecarCloses, SidecarEnds, Cluster, Connect, TakeChannel,
           TakeDie, CloseSession, SessionClosed, ClusterEnds, Serial, SerialStops, Unsubscribe,
           SerialEnds, ChannelEvent, CloseListener, ServerEnds, Uncount, Loop, Add,
           Register, LoopEnds, LoopClosed, Closed, WorkFunc, Others, Accept,
           NodeName, Call, Post, vars, masterVars
  <2>2. guard' = "normal" => guard = "normal" \/ GetChildCount = 0
    BY DEF Next, GuardStops, Signal, Guard, GuardEnds, Exit, Sidecar,
           SidecarDies, SidecarCloses, SidecarEnds, Cluster, Connect, TakeChannel,
           TakeDie, CloseSession, SessionClosed, ClusterEnds, Serial, SerialStops, Unsubscribe,
           SerialEnds, ChannelEvent, CloseListener, ServerEnds, Uncount, Loop, Add,
           Register, LoopEnds, LoopClosed, Closed, WorkFunc, Others, Accept,
           NodeName, Call, Post, vars, masterVars
  <2>. QED BY <1>2, <2>1, <2>2, NobodyCounted DEF RunsOver
<1>. QED BY <1>3, <1>4, <1>5, <1>6 DEF RunsOver

\* When the Dispatcher and the Limiter are closed, nobody uses them any more but the
\* loops that came to their Add after Wait and the calls that Close overtook; and who
\* sees the end as normal sees Sidecar and Serial through.
THEOREM ClosedLast == Spec => []ClosedAfterUsers
<1> DEFINE Order == SessionsEmpty /\ ServerIsLast /\ RunsOver
<1>1. Init => Order
  <2> SUFFICES ASSUME Init PROVE Order
    OBVIOUS
  <2>1. \A c \in AllChildren : children[c] = "run"
    BY DEF Init, AllChildren
  <2>2. /\ SidecarChildren \subseteq AllChildren /\ Clients \subseteq AllChildren
        /\ {"sidecar", "serial", "server"} \subseteq AllChildren
    BY DEF AllChildren, MasterChildren, SidecarChildren
  <2>. QED BY <2>1, <2>2 DEF Init, SessionsEmpty, ServerIsLast, RunsOver, Released, Sessions
<1>2. MainOK /\ LoopsOK /\ Order /\ [Next]_vars => Order'
  BY SessionsEmptyStep, ServerIsLastStep, RunsOverStep
<1>3. Spec => [](MainOK /\ LoopsOK)
  BY TypeCorrect, TypeParts, PTL
<1>4. LoopsOK /\ Order => ClosedAfterUsers
  BY OrderImplies
<1>. QED BY <1>1, <1>2, <1>3, <1>4, PTL DEF Spec

----------------------------------------------------------------------------
(* Serial: its types                                                        *)

\* The parts of the inductive invariant of types: the ring buffer, what the set-up and
\* assignmentTask keep of the bags, the rows, the read loops, Run, the two Go channels.
RingTypes == queue \in Seq(Frames) /\ ready \subseteq Range(queue) /\ taken \in Seq(Frames)

BagTypes ==
  /\ step \in 1 .. Len(Setup) + 1
  /\ bags \in Seq(Groups) /\ Len(bags) <= (step - 1) * Cardinality(Groups)
  /\ bag \in 1 .. Len(Setup) * Cardinality(Groups) + 1
  /\ channelMap \subseteq Range(ChannelOf) \cup UNION {Range(Channels[g]) : g \in Groups}

\* A row of g, complete or not.
Rows(g) == [DOMAIN Channels[g] -> Frames \cup {Empty}]

RowTypes ==
  /\ DOMAIN buf = Groups /\ DOMAIN fired = Groups
  /\ buf = [g \in Groups |-> buf[g]] /\ fired = [g \in Groups |-> fired[g]]
  /\ \A g \in Groups :
       buf[g] \in Seq(Rows(g)) \ {<<>>} /\ fired[g] \in Seq([DOMAIN Channels[g] -> Frames])

LoopTypes == pc \in [Frames -> {"new", "write", "fill", "accepted", "overflow", "dropped"}]

RunTypes ==
  /\ state \in {"pause", "work", "die"}
  /\ run \in {"new", "select", "drain", "bags", "close", "end", "released", "panicked"}
  /\ {last, stopChan, done} \subseteq BOOLEAN
  /\ closer \in {"new", "sleep", "done"}

ChanTypes ==
  /\ rejectFuncChan \in Seq(DOMAIN reject) /\ Len(rejectFuncChan) <= RejectCap
  /\ unsubscribeChan \in Seq(Groups) /\ Len(unsubscribeChan) <= UnsubscribeCap
  /\ reject \in [Failures \cup FailsAtOnce ->
                  {"new", "failed", "sent", "run", "dropped", "panicked"}]
  /\ group \in [Groups -> {"on", "asked", "sent", "gone", "refused", "panicked"}]

Typed == RingTypes /\ BagTypes /\ RowTypes /\ LoopTypes /\ RunTypes /\ ChanTypes

LEMMA TypedParts == Typed => SerialTypeOK
BY DEF Typed, RingTypes, BagTypes, Rows, RowTypes, LoopTypes, RunTypes, ChanTypes, SerialTypeOK

\* What is finite among the constants.
LEMMA SerialConstants ==
  /\ IsFiniteSet(Frames) /\ IsFiniteSet(FailsAtOnce) /\ Cardinality(Groups) \in Nat
  /\ Len(Setup) \in Nat /\ RejectCap \in Nat /\ UnsubscribeCap \in Nat
  /\ Failures \cap Frames = {} /\ FailsAtOnce \subseteq Frames /\ Empty \notin Frames
<1>1. FailsAtOnce \subseteq Frames
  BY SerialAssumption
<1>2. IsFiniteSet(FailsAtOnce)
  BY <1>1, SerialAssumption, FS_Subset
<1>. QED BY <1>1, <1>2, SerialAssumption, FS_CardinalityType

\* A non-empty set of naturals has a least element, which is what Min chooses.
LEMMA LeastIsMin ==
  ASSUME NEW T, T \subseteq Nat, T # {}
  PROVE  Min(T) \in T /\ \A n \in T : Min(T) <= n
<1>1. PICK m \in T : \A n \in T : ~(<<n, m>> \in OpToRel(<, Nat))
  BY NatLessThanWellFounded, WFMin
<1>2. \A n \in T : ~(n < m)
  BY <1>1 DEF OpToRel
<1>3. \A n \in T : m <= n
  BY <1>2
<1>. QED BY <1>1, <1>3 DEF Min

\* The channel of a frame has one column in its group.
LEMMA ColumnIs ==
  ASSUME NEW g \in Groups, NEW f, ChannelOf[f] \in Range(Channels[g])
  PROVE  /\ Column(g, f) \in DOMAIN Channels[g] /\ Channels[g][Column(g, f)] = ChannelOf[f]
         /\ \A i \in DOMAIN Channels[g] : Channels[g][i] = ChannelOf[f] => i = Column(g, f)
<1> DEFINE q == Channels[g]
           T == {i \in 1 .. Len(q) : q[i] = ChannelOf[f]}
<1>1. q \in Seq(Range(q)) /\ IsInjective(q)
  BY SerialAssumption
<1>2. DOMAIN q = 1 .. Len(q) /\ Len(q) \in Nat
  BY <1>1
<1>3. T # {} /\ T \subseteq Nat
  BY <1>2 DEF Range
<1>4. Column(g, f) = Min(T)
  BY <1>3 DEF Column, SelectInSeq
<1>5. Column(g, f) \in T
  BY <1>3, <1>4, LeastIsMin
<1>. QED BY <1>1, <1>2, <1>5 DEF IsInjective

\* RowFor is the first row with an empty cell for the channel of f.
LEMMA RowForIs ==
  ASSUME NEW g, NEW f, NEW T, buf[g] \in Seq(T)
  PROVE  /\ RowFor(g, f) \in 1 .. Len(buf[g]) + 1
         /\ RowFor(g, f) <= Len(buf[g]) => buf[g][RowFor(g, f)][Column(g, f)] = Empty
         /\ \A n \in 1 .. Len(buf[g]) : n < RowFor(g, f) => buf[g][n][Column(g, f)] # Empty
<1> DEFINE I == {n \in 1 .. Len(buf[g]) : buf[g][n][Column(g, f)] = Empty}
<1>1. Len(buf[g]) \in Nat /\ I \subseteq Nat /\ \A n \in I : n >= 1 /\ n <= Len(buf[g])
  OBVIOUS
<1>2. CASE I = {}
  <2>1. RowFor(g, f) = Len(buf[g]) + 1
    BY <1>2 DEF RowFor, SelectInSeq
  <2>. QED BY <1>1, <1>2, <2>1
<1>3. CASE I # {}
  <2>1. Min(I) \in I /\ \A n \in I : Min(I) <= n
    <3> HIDE DEF I
    <3>. QED BY <1>1, <1>3, LeastIsMin
  <2>2. Min(I) # 0
    BY <1>1, <2>1
  <2>3. RowFor(g, f) = Min(I)
    BY <1>3, <2>2 DEF RowFor, SelectInSeq
  <2> DEFINE k == Min(I)
  <2>4. k \in I /\ k \in 1 .. Len(buf[g]) /\ \A n \in 1 .. Len(buf[g]) : n < k => n \notin I
    <3> HIDE DEF k
    <3>1. k \in I /\ \A n \in I : k <= n
      BY <2>1 DEF k
    <3> HIDE DEF I
    <3>. QED BY <1>1, <3>1
  <2> HIDE DEF k
  <2>. QED BY <1>1, <2>3, <2>4 DEF k
<1>. QED BY <1>2, <1>3

\* A new row is empty.
LEMMA NewRowIs == ASSUME NEW g PROVE NewRow(g) \in Rows(g)
BY DEF NewRow, Rows

LEMMA RingTypesStep == Typed /\ [SerialNext]_serialAll => RingTypes'
<1> SUFFICES ASSUME Typed, [SerialNext]_serialAll PROVE RingTypes'
  OBVIOUS
<1>1. RingTypes
  BY DEF Typed
<1>2. CASE UNCHANGED ringVars
  BY <1>1, <1>2 DEF RingTypes, ringVars
<1>3. ASSUME NEW f \in Frames, Ring!Claim(f) PROVE RingTypes'
  <2>1. /\ queue \in Seq(Frames) /\ ready \subseteq Range(queue) /\ taken \in Seq(Frames)
        /\ queue' = Append(queue, f) /\ ready' = ready /\ taken' = taken
    BY <1>1, <1>3 DEF RingTypes, Ring!Claim
  <2>2. Range(queue) \subseteq Range(queue') /\ queue' \in Seq(Frames)
    BY <2>1 DEF Range
  <2>. QED BY <2>1, <2>2 DEF RingTypes
<1>4. ASSUME NEW f \in Frames, Ring!Fill(f) PROVE RingTypes'
  BY <1>1, <1>4 DEF RingTypes, Ring!Fill, Ring!In, Range
<1>5. ASSUME Ring!Take PROVE RingTypes'
  <2>1. /\ queue \in Seq(Frames) /\ queue # <<>>
        /\ ready \subseteq Range(queue) /\ taken \in Seq(Frames)
        /\ queue' = Tail(queue) /\ ready' = ready \ {Head(queue)}
        /\ taken' = Append(taken, Head(queue))
    BY <1>1, <1>5 DEF RingTypes, Ring!Take, Ring!HasReady
  <2>2. Range(queue) \subseteq Range(queue') \cup {Head(queue)}
    <3>0. Head(queue) = queue[1]
      BY <2>1
    <3> SUFFICES ASSUME NEW i \in DOMAIN queue, i # 1 PROVE queue[i] \in Range(queue')
      BY <3>0 DEF Range
    <3>1. i - 1 \in DOMAIN queue' /\ queue'[i - 1] = queue[i]
      BY <2>1
    <3>. QED BY <3>1 DEF Range
  <2>. QED BY <2>1, <2>2 DEF RingTypes
<1>6. CASE \E f \in Frames : Arrive(f) \/ Write(f)
  BY <1>2, <1>3, <1>4, <1>6 DEF Arrive, Write, Claim, Fill
<1>7. CASE Handle
  BY <1>2, <1>5, <1>7 DEF Handle
<1>. QED
  BY <1>2, <1>6, <1>7
  DEF SerialNext, serialAll, InitCall, SubscribeAll, Run, Fail, FailSend, FailPanics,
      AssignmentTask, Drained, Fire, NextBag, Tick, RunReject, RunUnsubscribe, RunCloses,
      RunClosed, Stop, Release, UnsubscribeCall, UnsubscribeGroup, UnsubscribeSend,
      UnsubscribeTimeout, UnsubscribePanics, Close, CloseEnds, CtxDone

\* Removing an element shortens a sequence, and keeps the others.
LEMMA RemoveFirstKeeps ==
  ASSUME NEW S, NEW q \in Seq(S), NEW e
  PROVE  /\ RemoveFirst(q, e) \in Seq(S) /\ Len(RemoveFirst(q, e)) <= Len(q)
         /\ \A d \in Range(q) : d # e => d \in Range(RemoveFirst(q, e))
<1> DEFINE I == {i \in 1 .. Len(q) : q[i] = e}
           k == Min(I)
           a == SubSeq(q, 1, k - 1)
           b == SubSeq(q, k + 1, Len(q))
<1>1. Len(q) \in Nat /\ I \subseteq Nat /\ \A i \in I : i \in 1 .. Len(q) /\ q[i] = e
  OBVIOUS
<1>2. CASE I = {}
  <2>1. ~\E i \in 1 .. Len(q) : q[i] = e
    BY <1>2
  <2>2. RemoveFirst(q, e) = q
    BY <2>1 DEF RemoveFirst
  <2>. QED BY <1>1, <2>2
<1>3. CASE I # {}
  <2>1. k \in I
    <3> HIDE DEF I
    <3>. QED BY <1>1, <1>3, LeastIsMin
  <2>2. k \in 1 .. Len(q) /\ q[k] = e
    <3> HIDE DEF I, k
    <3>. QED BY <1>1, <2>1
  <2>3. RemoveFirst(q, e) = a \o b
    BY <1>3 DEF RemoveFirst, RemoveAt, SelectInSeq
  <2> HIDE DEF I, k
  <2>4. /\ a \in Seq(S) /\ Len(a) = k - 1 /\ \A i \in 1 .. k - 1 : a[i] = q[i]
        /\ b \in Seq(S) /\ Len(b) = Len(q) - k
        /\ \A i \in 1 .. Len(q) - k : b[i] = q[k + i]
    BY <1>1, <2>2
  <2> HIDE DEF a, b
  <2>5. /\ a \o b \in Seq(S) /\ Len(a \o b) = (k - 1) + (Len(q) - k)
        /\ Range(a \o b) = Range(a) \cup Range(b)
    <3>1. a \in Seq(S) /\ b \in Seq(S) /\ Len(a) = k - 1 /\ Len(b) = Len(q) - k
      BY <2>4
    <3>2. a \o b \in Seq(S) /\ Len(a \o b) = (k - 1) + (Len(q) - k)
      <4>1. a \o b \in Seq(S)
        BY <3>1
      <4>2. Len(a \o b) = Len(a) + Len(b)
        BY <3>1
      <4>. QED BY <3>1, <4>1, <4>2
    <3>3. Range(a \o b) = Range(a) \cup Range(b)
      BY <3>1, RangeConcatenation
    <3>. QED BY <3>2, <3>3
  <2>6. ASSUME NEW i \in 1 .. Len(q), q[i] # e PROVE q[i] \in Range(a) \cup Range(b)
    <3>1. CASE i < k
      <4>1. i \in DOMAIN a /\ a[i] = q[i]
        BY <1>1, <2>2, <2>4, <3>1
      <4>. QED BY <4>1 DEF Range
    <3>2. CASE i > k
      <4>1. i - k \in 1 .. Len(q) - k /\ k + (i - k) = i
        BY <1>1, <2>2, <3>2
      <4>2. i - k \in DOMAIN b /\ b[i - k] = q[i]
        BY <2>4, <4>1
      <4>. QED BY <4>2 DEF Range
    <3>3. CASE i = k
      BY <2>2, <2>6, <3>3
    <3>. QED BY <1>1, <2>2, <3>1, <3>2, <3>3
  <2>7. Len(a \o b) <= Len(q)
    BY <1>1, <2>2, <2>5
  <2>8. ASSUME NEW d \in Range(q), d # e PROVE d \in Range(a \o b)
    <3>1. PICK i \in 1 .. Len(q) : d = q[i]
      BY DEF Range
    <3>. QED BY <2>5, <2>6, <2>8, <3>1
  <2>. QED BY <2>3, <2>5, <2>7, <2>8
<1>. QED BY <1>2, <1>3

LEMMA BagTypesStep == Typed /\ [SerialNext]_serialAll => BagTypes'
<1> SUFFICES ASSUME Typed, [SerialNext]_serialAll PROVE BagTypes'
  OBVIOUS
<1> DEFINE C == Cardinality(Groups)
<1> HIDE DEF C
<1>1. BagTypes /\ C \in Nat /\ Len(Setup) \in Nat
  BY SerialConstants DEF Typed, C
<1>2. /\ step \in Nat /\ step >= 1 /\ step <= Len(Setup) + 1
      /\ bags \in Seq(Groups) /\ Len(bags) \in Nat /\ Len(bags) <= (step - 1) * C
      /\ bag \in Nat /\ bag >= 1 /\ bag <= Len(Setup) * C + 1
      /\ channelMap \subseteq Range(ChannelOf) \cup UNION {Range(Channels[g]) : g \in Groups}
  BY <1>1 DEF BagTypes, C
<1>3. CASE UNCHANGED <<step, bags, channelMap, bag>>
  BY <1>1, <1>3 DEF BagTypes
<1>4. step * C = (step - 1) * C + C /\ step * C \in Nat
  BY <1>1, <1>2
<1>5. ASSUME step' = step + 1, step \in DOMAIN Setup, bag' = bag,
             bags' \in Seq(Groups), Len(bags') <= (step - 1) * C + C,
             channelMap' \subseteq Range(ChannelOf) \cup UNION {Range(Channels[g]) : g \in Groups}
      PROVE  BagTypes'
  <2>1. step' \in 1 .. Len(Setup) + 1
    <3>1. DOMAIN Setup = 1 .. Len(Setup)
      BY SerialAssumption
    <3>. QED BY <1>1, <1>2, <1>5, <3>1
  <2>2. Len(bags') <= (step' - 1) * C
    <3>1. step' - 1 = step
      BY <1>2, <1>5
    <3>. QED BY <1>4, <1>5, <3>1
  <2>. QED BY <1>1, <1>2, <1>5, <2>1, <2>2 DEF BagTypes, C
<1>6. CASE InitCall
  <2>1. Len(<<>>) <= (step - 1) * C + C
    BY <1>4
  <2>. QED BY <1>5, <1>6, <2>1 DEF InitCall, SetUp, runVars
<1>7. CASE SubscribeAll
  <2>1. SetToSeq(Groups) \in Seq(Groups) /\ Len(SetToSeq(Groups)) = C
    BY SetToSeqLists, SerialAssumption DEF C
  <2>2. bags' = bags \o SetToSeq(Groups)
    BY <1>7 DEF SubscribeAll
  <2>3. bags' \in Seq(Groups) /\ Len(bags') = Len(bags) + C
    BY <1>2, <2>1, <2>2, ConcatProperties
  <2>4. Len(bags') <= (step - 1) * C + C
    <3> DEFINE m == (step - 1) * C
    <3>1. m \in Int /\ Len(bags) <= m
      BY <1>1, <1>2
    <3> HIDE DEF m
    <3>2. Len(bags') <= m + C
      BY <1>1, <1>2, <2>3, <3>1
    <3>. QED BY <3>2 DEF m
  <2>. QED BY <1>5, <1>7, <2>3, <2>4 DEF SubscribeAll, SetUp, runVars
<1>8. CASE Run
  <2>1. Len(bags) <= (step - 1) * C + C
    BY <1>1, <1>2
  <2>. QED BY <1>2, <1>5, <1>8, <2>1 DEF Run, SetUp, bagVars
<1>9. ASSUME step' = step, bag' = bag, bags' \in Seq(Groups), Len(bags') <= Len(bags),
             channelMap' \subseteq channelMap
      PROVE  BagTypes'
  <2>1. Len(bags') <= (step - 1) * C
    <3> DEFINE m == (step - 1) * C
    <3>1. m \in Int /\ Len(bags) <= m
      BY <1>1, <1>2
    <3>2. Len(bags') \in Nat
      BY <1>9
    <3> HIDE DEF m
    <3>3. Len(bags') <= m
      BY <1>2, <1>9, <3>1, <3>2
    <3>. QED BY <3>3 DEF m
  <2>. QED BY <1>1, <1>2, <1>9, <2>1 DEF BagTypes, C
<1>10. CASE RunUnsubscribe
  <2>1. bags' = RemoveFirst(bags, Head(unsubscribeChan))
    BY <1>10 DEF RunUnsubscribe
  <2>2. bags' \in Seq(Groups) /\ Len(bags') <= Len(bags)
    BY <1>2, <2>1, RemoveFirstKeeps
  <2>. QED BY <1>9, <1>10, <2>2 DEF RunUnsubscribe, runVars
<1>11. CASE Release
  BY <1>2, <1>9, <1>11 DEF Release
<1>12. CASE NextBag
  <2>1. UNCHANGED <<step, bags, channelMap>>
    BY <1>12 DEF NextBag, bagVars
  <2>2. CASE bag \in DOMAIN bags
    <3>1. bag' = bag + 1 /\ bag <= Len(bags)
      BY <1>2, <1>12, <2>2 DEF NextBag
    <3>2. (step - 1) * C <= Len(Setup) * C
      <4>1. Len(Setup) * C = (step - 1) * C + (Len(Setup) - (step - 1)) * C
        BY <1>1, <1>2
      <4>2. Len(Setup) - (step - 1) \in Nat
        BY <1>1, <1>2
      <4>3. (Len(Setup) - (step - 1)) * C \in Nat
        BY <1>1, <4>2
      <4>4. (step - 1) * C \in Int
        BY <1>1, <1>2
      <4>. QED BY <4>1, <4>3, <4>4
    <3>3. bag' \in 1 .. Len(Setup) * C + 1
      <4> DEFINE m == (step - 1) * C
                 n == Len(Setup) * C
      <4>1. m \in Int /\ n \in Int /\ m <= n /\ Len(bags) <= m
        BY <1>1, <1>2, <3>2
      <4> HIDE DEF m, n
      <4>2. bag' \in 1 .. n + 1
        BY <1>2, <3>1, <4>1
      <4>. QED BY <4>2 DEF n
    <3>. QED BY <1>1, <2>1, <3>3 DEF BagTypes, C
  <2>3. CASE bag \notin DOMAIN bags
    <3>1. bag' = 1
      BY <1>12, <2>3 DEF NextBag
    <3>2. 1 \in 1 .. Len(Setup) * C + 1
      <4>1. Len(Setup) * C \in Nat
        BY <1>1
      <4>. QED BY <4>1
    <3>. QED BY <1>1, <2>1, <3>1, <3>2 DEF BagTypes, C
  <2>. QED BY <2>2, <2>3
<1>. QED
  BY <1>3, <1>6, <1>7, <1>8, <1>10, <1>11, <1>12
  DEF SerialNext, serialAll, bagVars, runVars, Arrive, Write, Claim, Fill, Fail, FailSend,
      FailPanics, AssignmentTask, Handle, Drained, Fire, Tick, RunReject, RunCloses, RunClosed,
      Stop, UnsubscribeCall, UnsubscribeGroup, UnsubscribeSend, UnsubscribeTimeout,
      UnsubscribePanics, Close, CloseEnds, CtxDone

\* The handler of a bag puts a frame into one cell, in a new row if there is no other.
LEMMA PutEffect ==
  ASSUME RowTypes, NEW g \in Groups, NEW f \in Frames,
         ChannelOf[f] \in Range(Channels[g]), Put(g, f)
  PROVE  /\ DOMAIN buf' = Groups /\ buf' = [h \in Groups |-> buf'[h]]
         /\ \A h \in Groups : h # g => buf'[h] = buf[h]
         /\ buf'[g] \in Seq(Rows(g)) /\ Len(buf'[g]) \in Nat /\ Len(buf'[g]) # 0
         /\ Len(buf'[g]) =
              IF RowFor(g, f) > Len(buf[g]) THEN Len(buf[g]) + 1 ELSE Len(buf[g])
         /\ \A n \in 1 .. Len(buf'[g]) : \A i \in DOMAIN Channels[g] :
              buf'[g][n][i] =
                IF n = RowFor(g, f) /\ i = Column(g, f) THEN f
                ELSE IF n > Len(buf[g]) THEN Empty ELSE buf[g][n][i]
<1> DEFINE r == RowFor(g, f)
           c == Column(g, f)
           q == buf[g]
           rows == IF r > Len(q) THEN Append(q, NewRow(g)) ELSE q
           row == [rows[r] EXCEPT ![c] = f]
<1>1. /\ DOMAIN buf = Groups /\ q \in Seq(Rows(g)) /\ q # <<>> /\ Len(q) \in Nat
      /\ buf = [h \in Groups |-> buf[h]]
  <2>1. q \in Seq(Rows(g)) /\ q # <<>>
    BY DEF RowTypes
  <2>2. DOMAIN buf = Groups /\ buf = [h \in Groups |-> buf[h]]
    BY DEF RowTypes
  <2>. QED BY <2>1, <2>2
<1>2. /\ c \in DOMAIN Channels[g] /\ r \in 1 .. Len(q) + 1
      /\ r <= Len(q) => q[r][c] = Empty
      /\ \A n \in 1 .. Len(q) : n < r => q[n][c] # Empty
  <2>1. c \in DOMAIN Channels[g]
    BY ColumnIs
  <2>2. buf[g] \in Seq(Rows(g))
    BY <1>1
  <2>. QED BY <2>1, <2>2, RowForIs
<1>3. buf' = [buf EXCEPT ![g] = [rows EXCEPT ![r] = row]]
  BY DEF Put
<1>4. NewRow(g) \in Rows(g) /\ \A i \in DOMAIN Channels[g] : NewRow(g)[i] = Empty
  BY NewRowIs DEF NewRow
<1> DEFINE z == NewRow(g)
<1> HIDE DEF r, c, q, z
<1>5. /\ rows \in Seq(Rows(g)) /\ Len(rows) \in Nat /\ r \in 1 .. Len(rows)
      /\ Len(rows) = IF r > Len(q) THEN Len(q) + 1 ELSE Len(q)
      /\ \A n \in 1 .. Len(rows) : rows[n] = IF n > Len(q) THEN z ELSE q[n]
  <2>0. z \in Rows(g)
    BY <1>4 DEF z
  <2>1. rows = IF r > Len(q) THEN Append(q, z) ELSE q
    BY DEF z
  <2>2. /\ Append(q, z) \in Seq(Rows(g)) /\ Len(Append(q, z)) = Len(q) + 1
        /\ \A n \in 1 .. Len(q) : Append(q, z)[n] = q[n]
        /\ Append(q, z)[Len(q) + 1] = z
    BY <1>1, <2>0, AppendProperties
  <2> HIDE DEF rows
  <2>3. CASE r > Len(q)
    BY <1>1, <1>2, <2>1, <2>2, <2>3
  <2>4. CASE ~(r > Len(q))
    BY <1>1, <1>2, <2>1, <2>4
  <2>. QED BY <2>3, <2>4
<1> HIDE DEF rows
<1>6. /\ rows[r] \in Rows(g) /\ row \in Rows(g)
      /\ \A i \in DOMAIN Channels[g] : row[i] = IF i = c THEN f ELSE rows[r][i]
  <2>1. rows[r] \in Rows(g)
    BY <1>5
  <2>. QED BY <1>2, <2>1 DEF Rows
<1> HIDE DEF row
<1>7. /\ [rows EXCEPT ![r] = row] \in Seq(Rows(g))
      /\ Len([rows EXCEPT ![r] = row]) = Len(rows)
      /\ \A n \in 1 .. Len(rows) : [rows EXCEPT ![r] = row][n] = IF n = r THEN row ELSE rows[n]
  BY <1>5, <1>6, ExceptSeq
<1> DEFINE new == [rows EXCEPT ![r] = row]
<1> HIDE DEF new
<1>8. /\ buf'[g] = new /\ DOMAIN buf' = Groups
      /\ \A h \in Groups : h # g => buf'[h] = buf[h]
  BY <1>1, <1>3 DEF new
<1>9. buf' = [h \in Groups |-> buf'[h]]
  BY <1>1, <1>3
<1>10. /\ new \in Seq(Rows(g)) /\ Len(new) = Len(rows)
       /\ \A n \in 1 .. Len(rows) : new[n] = IF n = r THEN row ELSE rows[n]
  BY <1>7 DEF new
<1>11. Len(new) \in Nat /\ Len(new) # 0
  BY <1>5, <1>10
<1>12. ASSUME NEW n \in 1 .. Len(new), NEW i \in DOMAIN Channels[g]
       PROVE  new[n][i] = IF n = r /\ i = c THEN f ELSE IF n > Len(q) THEN Empty ELSE q[n][i]
  <2>1. /\ n \in 1 .. Len(rows) /\ new[n] = IF n = r THEN row ELSE rows[n]
        /\ rows[n] = IF n > Len(q) THEN z ELSE q[n]
    BY <1>5, <1>10
  <2>2. rows[n][i] = IF n > Len(q) THEN Empty ELSE q[n][i]
    BY <1>4, <2>1 DEF z
  <2>3. CASE n = r
    BY <1>6, <2>1, <2>2, <2>3
  <2>4. CASE n # r
    BY <2>1, <2>2, <2>4
  <2>. QED BY <2>3, <2>4
<1>13. Len(new) = IF r > Len(q) THEN Len(q) + 1 ELSE Len(q)
  BY <1>5, <1>10
<1>. QED BY <1>8, <1>9, <1>10, <1>11, <1>12, <1>13 DEF r, c, q

\* assignmentTask calls the function with the first row, and a row is left.
Fires(g) ==
  /\ Complete(g)
  /\ fired' = [fired EXCEPT ![g] = Append(@, Head(buf[g]))]
  /\ buf' = [buf EXCEPT ![g] = RowsLeft(g)]

LEMMA FireEffect ==
  ASSUME RowTypes, NEW g \in Groups, Fires(g)
  PROVE  /\ DOMAIN buf' = Groups /\ buf' = [h \in Groups |-> buf'[h]]
         /\ DOMAIN fired' = Groups /\ fired' = [h \in Groups |-> fired'[h]]
         /\ \A h \in Groups : h # g => buf'[h] = buf[h] /\ fired'[h] = fired[h]
         /\ buf[g] \in Seq(Rows(g)) /\ buf[g] # <<>> /\ buf'[g] = RowsLeft(g)
         /\ fired[g] \in Seq([DOMAIN Channels[g] -> Frames])
         /\ buf'[g] \in Seq(Rows(g)) \ {<<>>}
         /\ Head(buf[g]) \in [DOMAIN Channels[g] -> Frames]
         /\ fired'[g] = Append(fired[g], Head(buf[g]))
         /\ fired'[g] \in Seq([DOMAIN Channels[g] -> Frames])
<1> DEFINE q == buf[g]
           s == fired[g]
<1>1. /\ DOMAIN buf = Groups /\ buf = [h \in Groups |-> buf[h]]
      /\ DOMAIN fired = Groups /\ fired = [h \in Groups |-> fired[h]]
      /\ q \in Seq(Rows(g)) /\ q # <<>> /\ s \in Seq([DOMAIN Channels[g] -> Frames])
  BY DEF RowTypes
<1>2. /\ buf' = [buf EXCEPT ![g] = RowsLeft(g)]
      /\ fired' = [fired EXCEPT ![g] = Append(fired[g], Head(buf[g]))]
      /\ Empty \notin Range(Head(q))
  BY DEF Fires, Complete
<1>3. Head(q) \in [DOMAIN Channels[g] -> Frames]
  <2>1. Head(q) \in Rows(g)
    <3> HIDE DEF q
    <3>. QED BY <1>1
  <2>. QED BY <1>2, <2>1 DEF Rows, Range
<1>4. RowsLeft(g) \in Seq(Rows(g)) /\ RowsLeft(g) # <<>>
  <2> DEFINE z == NewRow(g)
  <2>1. z \in Rows(g)
    BY NewRowIs
  <2>2. RowsLeft(g) = IF Len(q) = 1 THEN <<z>> ELSE Tail(q)
    BY DEF RowsLeft
  <2> HIDE DEF q, z
  <2>3. CASE Len(q) = 1
    BY <2>1, <2>2, <2>3
  <2>4. CASE Len(q) # 1
    <3>1. Tail(q) \in Seq(Rows(g)) /\ Len(Tail(q)) = Len(q) - 1 /\ Len(q) \in Nat
      BY <1>1, HeadTailProperties
    <3>2. Len(Tail(q)) # 0
      BY <2>4, <3>1
    <3>3. Tail(q) # <<>>
      BY <3>2, EmptySeq, Len(<<>>) = 0
    <3>. QED BY <2>2, <2>4, <3>1, <3>3
  <2>. QED BY <2>3, <2>4
<1>5. buf'[g] = RowsLeft(g) /\ DOMAIN buf' = Groups /\ buf' = [h \in Groups |-> buf'[h]]
  BY <1>1, <1>2
<1>6. /\ fired'[g] = Append(fired[g], Head(buf[g])) /\ DOMAIN fired' = Groups
      /\ fired' = [h \in Groups |-> fired'[h]]
  BY <1>1, <1>2
<1>7. \A h \in Groups : h # g => buf'[h] = buf[h] /\ fired'[h] = fired[h]
  BY <1>1, <1>2
<1>8. Append(s, Head(q)) \in Seq([DOMAIN Channels[g] -> Frames])
  <2> DEFINE e == Head(q)
  <2> HIDE DEF s, e
  <2>. QED BY <1>1, <1>3, AppendProperties DEF e
<1>. QED BY <1>1, <1>3, <1>4, <1>5, <1>6, <1>7, <1>8

\* A step that puts no frame into a row and calls no function leaves the rows.
LEMMA RowSteps ==
  ASSUME Typed, [SerialNext]_serialAll
  PROVE  \/ UNCHANGED <<buf, fired>>
         \/ /\ Handle /\ fired' = fired
            /\ \E g \in GroupsOf(Head(queue)) : Put(g, Head(queue))
         \/ Fire /\ bags[bag] \in Groups /\ Fires(bags[bag]) /\ taken' = taken
<1>1. CASE Handle
  BY <1>1 DEF Handle
<1>2. CASE Fire
  <2>1. bags[bag] \in Groups
    BY <1>2 DEF Fire, Typed, BagTypes
  <2>. QED BY <1>2, <2>1 DEF Fire, Fires, ringVars
<1>. QED
  BY <1>1, <1>2
  DEF SerialNext, serialAll, bagVars, InitCall, SubscribeAll, Run, Arrive, Write, Claim, Fill,
      Fail, FailSend, FailPanics, AssignmentTask, Drained, NextBag, Tick, RunReject,
      RunUnsubscribe, RunCloses, RunClosed, Stop, Release, UnsubscribeCall, UnsubscribeGroup,
      UnsubscribeSend, UnsubscribeTimeout, UnsubscribePanics, Close, CloseEnds, CtxDone

\* The frame at the head of the ring when it is handled.
LEMMA HandledFrame == Typed /\ Handle => Head(queue) \in Frames
BY DEF Typed, RingTypes, Handle, Ring!HasReady

LEMMA RowTypesStep == Typed /\ [SerialNext]_serialAll => RowTypes'
<1> SUFFICES ASSUME Typed, [SerialNext]_serialAll PROVE RowTypes'
  OBVIOUS
<1>1. RowTypes
  BY DEF Typed
<1>2. CASE UNCHANGED <<buf, fired>>
  BY <1>1, <1>2 DEF RowTypes, Rows
<1>3. ASSUME Handle, fired' = fired, NEW g \in GroupsOf(Head(queue)), Put(g, Head(queue))
      PROVE  RowTypes'
  <2>1. Head(queue) \in Frames /\ g \in Groups /\ ChannelOf[Head(queue)] \in Range(Channels[g])
    BY <1>3, HandledFrame DEF GroupsOf
  <2>2. /\ DOMAIN buf' = Groups /\ buf' = [h \in Groups |-> buf'[h]]
        /\ \A h \in Groups : h # g => buf'[h] = buf[h]
        /\ buf'[g] \in Seq(Rows(g)) /\ Len(buf'[g]) \in Nat /\ Len(buf'[g]) # 0
    BY <1>1, <1>3, <2>1, PutEffect
  <2>3. \A h \in Groups : buf'[h] \in Seq(Rows(h)) \ {<<>>}
    <3>1. buf'[g] # <<>>
      BY <2>2
    <3>2. \A h \in Groups : buf[h] \in Seq(Rows(h)) \ {<<>>}
      BY <1>1 DEF RowTypes
    <3>. QED BY <2>2, <3>1, <3>2
  <2>. QED BY <1>1, <1>3, <2>2, <2>3 DEF RowTypes, Rows
<1>4. ASSUME NEW g \in Groups, Fires(g) PROVE RowTypes'
  <2>1. /\ DOMAIN buf' = Groups /\ buf' = [h \in Groups |-> buf'[h]]
        /\ DOMAIN fired' = Groups /\ fired' = [h \in Groups |-> fired'[h]]
        /\ \A h \in Groups : h # g => buf'[h] = buf[h] /\ fired'[h] = fired[h]
        /\ buf'[g] \in Seq(Rows(g)) \ {<<>>}
        /\ fired'[g] \in Seq([DOMAIN Channels[g] -> Frames])
    BY <1>1, <1>4, FireEffect
  <2>2. \A h \in Groups : buf'[h] \in Seq(Rows(h)) \ {<<>>}
                          /\ fired'[h] \in Seq([DOMAIN Channels[h] -> Frames])
    BY <1>1, <2>1 DEF RowTypes
  <2>. QED BY <2>1, <2>2 DEF RowTypes, Rows
<1>. QED BY <1>2, <1>3, <1>4, RowSteps

LEMMA LoopTypesStep == Typed /\ [SerialNext]_serialAll => LoopTypes'
<1> SUFFICES ASSUME Typed, [SerialNext]_serialAll PROVE LoopTypes'
  OBVIOUS
<1>1. LoopTypes
  BY DEF Typed
<1>2. CASE UNCHANGED pc
  BY <1>1, <1>2 DEF LoopTypes
<1>3. CASE \E f \in Frames : Arrive(f) \/ Write(f)
  BY <1>1, <1>3 DEF LoopTypes, Arrive, Write, Claim, Fill, FrameAt
<1>. QED
  BY <1>2, <1>3
  DEF SerialNext, serialAll, InitCall, SubscribeAll, Run, Fail, FailSend, FailPanics,
      AssignmentTask, Handle, Drained, Fire, NextBag, Tick, RunReject, RunUnsubscribe, RunCloses,
      RunClosed, Stop, Release, UnsubscribeCall, UnsubscribeGroup, UnsubscribeSend,
      UnsubscribeTimeout, UnsubscribePanics, Close, CloseEnds, CtxDone

LEMMA RunTypesStep == Typed /\ [SerialNext]_serialAll => RunTypes'
<1> SUFFICES ASSUME Typed, [SerialNext]_serialAll PROVE RunTypes'
  OBVIOUS
<1>1. RunTypes
  BY DEF Typed
<1>2. CASE UNCHANGED <<state, run, last, stopVars>>
  BY <1>1, <1>2 DEF RunTypes, stopVars
<1>3. CASE InitCall \/ SubscribeAll \/ Run
  BY <1>1, <1>3 DEF RunTypes, runVars, stopVars, InitCall, SubscribeAll, Run
<1>4. CASE AssignmentTask
  BY <1>1, <1>4 DEF RunTypes, AssignmentTask, Handle, Drained, Fire, NextBag, runVars, stopVars
<1>5. CASE Tick \/ RunReject \/ RunUnsubscribe \/ RunCloses \/ RunClosed
  BY <1>1, <1>5
  DEF RunTypes, Tick, RunReject, RunUnsubscribe, RunCloses, RunClosed, runVars, stopVars
<1>6. CASE Stop \/ Release \/ Close \/ CloseEnds \/ CtxDone
  BY <1>1, <1>6
  DEF RunTypes, Stop, AfterStop, Release, Close, CloseEnds, CtxDone, runVars, stopVars
<1>. QED
  BY <1>2, <1>3, <1>4, <1>5, <1>6
  DEF SerialNext, serialAll, runVars, Arrive, Write, Claim, Fill, Fail, FailSend, FailPanics,
      UnsubscribeCall, UnsubscribeGroup, UnsubscribeSend, UnsubscribeTimeout, UnsubscribePanics

LEMMA ChanTypesStep == Typed /\ [SerialNext]_serialAll => ChanTypes'
<1> SUFFICES ASSUME Typed, [SerialNext]_serialAll PROVE ChanTypes'
  OBVIOUS
<1> DEFINE R == Failures \cup FailsAtOnce
<1>1. ChanTypes /\ DOMAIN reject = R
  BY DEF Typed, ChanTypes
<1>2. CASE UNCHANGED goChanVars
  BY <1>1, <1>2 DEF ChanTypes, goChanVars
<1>3. ASSUME NEW S, S \subseteq Frames, Rejected(S \cap FailsAtOnce),
             UNCHANGED <<unsubscribeChan, group>>
      PROVE  ChanTypes'
  <2> DEFINE T == IF HasWork THEN (S \cap FailsAtOnce) \cap DOMAIN reject ELSE {}
             q == SetToSeq(T)
  <2>1. T \subseteq R /\ T \subseteq FailsAtOnce /\ IsFiniteSet(T)
    <3>1. T \subseteq R /\ T \subseteq FailsAtOnce
      BY <1>1
    <3>. QED BY <3>1, SerialConstants, FS_Subset
  <2>2. /\ Len(rejectFuncChan) + Cardinality(T) <= RejectCap
        /\ rejectFuncChan' = rejectFuncChan \o q
        /\ reject' = [f \in DOMAIN reject |->
                        IF f \in T THEN "sent"
                        ELSE IF f \in S \cap FailsAtOnce THEN "dropped" ELSE reject[f]]
    BY <1>3 DEF Rejected
  <2>3. q \in Seq(R) /\ Len(q) = Cardinality(T)
    BY <2>1, SetToSeqLists
  <2>4. reject' \in [R ->
                      {"new", "failed", "sent", "run", "dropped", "panicked"}] /\ DOMAIN reject' = R
    BY <1>1, <2>2 DEF ChanTypes
  <2> HIDE DEF T, q, R
  <2>5. rejectFuncChan \in Seq(R)
    BY <1>1 DEF ChanTypes
  <2>6. rejectFuncChan \o q \in Seq(R) /\ Len(rejectFuncChan \o q) = Len(rejectFuncChan) + Len(q)
    BY <2>3, <2>5, ConcatProperties
  <2>7. rejectFuncChan' \in Seq(DOMAIN reject') /\ Len(rejectFuncChan') <= RejectCap
    BY <2>2, <2>3, <2>4, <2>6
  <2>. QED BY <1>1, <1>3, <2>4, <2>7 DEF ChanTypes, R
<1>4. CASE Handle
  <2>1. {Head(queue)} \subseteq Frames
    BY <1>4, HandledFrame
  <2>. QED BY <1>2, <1>3, <1>4, <2>1 DEF Handle, goChanVars
<1>5. CASE Fire
  <2> DEFINE g == bags[bag]
  <2>1. g \in Groups /\ Fires(g)
    BY <1>5 DEF Fire, Fires, Typed, BagTypes
  <2> HIDE DEF g
  <2>2. Head(buf[g]) \in [DOMAIN Channels[g] -> Frames]
    BY <2>1, FireEffect DEF Typed
  <2>3. Range(Head(buf[g])) \subseteq Frames
    BY <2>2 DEF Range
  <2>4. Rejected(Range(Head(buf[g])) \cap FailsAtOnce) /\ UNCHANGED <<unsubscribeChan, group>>
    BY <1>5 DEF Fire, g
  <2>. QED BY <1>3, <2>3, <2>4
<1>6. CASE \E f \in Failures : Fail(f) \/ FailSend(f) \/ FailPanics(f)
  <2>1. ASSUME NEW f \in Failures, Fail(f) \/ FailPanics(f) PROVE ChanTypes'
    BY <1>1, <2>1 DEF Fail, FailPanics, ChanTypes
  <2>2. ASSUME NEW f \in Failures, FailSend(f) PROVE ChanTypes'
    <3>1. /\ rejectFuncChan' = Append(rejectFuncChan, f) /\ Len(rejectFuncChan) < RejectCap
          /\ reject' = [reject EXCEPT ![f] = "sent"] /\ UNCHANGED <<unsubscribeChan, group>>
      BY <2>2 DEF FailSend
    <3>2. reject' \in [R ->
                        {"new", "failed", "sent", "run", "dropped", "panicked"}] /\ DOMAIN reject' = R
      BY <1>1, <3>1 DEF ChanTypes
    <3>3. rejectFuncChan \in Seq(R)
      BY <1>1 DEF ChanTypes
    <3>4. rejectFuncChan' \in Seq(R) /\ Len(rejectFuncChan') = Len(rejectFuncChan) + 1
      BY <3>1, <3>3, AppendProperties
    <3>5. Len(rejectFuncChan') <= RejectCap
      BY <3>1, <3>3, <3>4, SerialConstants
    <3>. QED BY <1>1, <3>1, <3>2, <3>4, <3>5 DEF ChanTypes
  <2>. QED BY <1>6, <2>1, <2>2
<1>7. CASE RunReject
  <2>1. /\ rejectFuncChan # <<>> /\ rejectFuncChan' = Tail(rejectFuncChan)
        /\ reject' = [reject EXCEPT ![Head(rejectFuncChan)] = "run"]
        /\ UNCHANGED <<unsubscribeChan, group>>
    BY <1>7 DEF RunReject
  <2>2. reject' \in [R ->
                      {"new", "failed", "sent", "run", "dropped", "panicked"}] /\ DOMAIN reject' = R
    BY <1>1, <2>1 DEF ChanTypes
  <2>3. rejectFuncChan \in Seq(R) /\ Len(rejectFuncChan) <= RejectCap
    BY <1>1 DEF ChanTypes
  <2>4. rejectFuncChan' \in Seq(R) /\ Len(rejectFuncChan') = Len(rejectFuncChan) - 1
    BY <2>1, <2>3, HeadTailProperties
  <2>5. Len(rejectFuncChan') <= RejectCap
    BY <2>3, <2>4, SerialConstants
  <2>. QED BY <1>1, <2>1, <2>2, <2>4, <2>5 DEF ChanTypes
<1>8. CASE RunUnsubscribe
  <2>1. /\ unsubscribeChan # <<>> /\ unsubscribeChan' = Tail(unsubscribeChan)
        /\ group' = [group EXCEPT ![Head(unsubscribeChan)] = "gone"]
        /\ UNCHANGED <<rejectFuncChan, reject>>
    BY <1>8 DEF RunUnsubscribe
  <2>2. unsubscribeChan \in Seq(Groups) /\ Len(unsubscribeChan) <= UnsubscribeCap
    BY <1>1 DEF ChanTypes
  <2>3. unsubscribeChan' \in Seq(Groups) /\ Len(unsubscribeChan') = Len(unsubscribeChan) - 1
    BY <2>1, <2>2, HeadTailProperties
  <2>4. Len(unsubscribeChan') <= UnsubscribeCap
    BY <2>2, <2>3, SerialConstants
  <2>. QED BY <1>1, <2>1, <2>3, <2>4 DEF ChanTypes
<1>9. CASE \E g \in Groups : UnsubscribeCall(g)
  <2>1. ASSUME NEW g \in Groups, UnsubscribeGroup(g) \/ UnsubscribeTimeout(g) \/ UnsubscribePanics(g)
        PROVE ChanTypes'
    BY <1>1, <2>1 DEF UnsubscribeGroup, UnsubscribeTimeout, UnsubscribePanics, ChanTypes
  <2>2. ASSUME NEW g \in Groups, UnsubscribeSend(g) PROVE ChanTypes'
    <3>1. /\ unsubscribeChan' = Append(unsubscribeChan, g)
          /\ Len(unsubscribeChan) < UnsubscribeCap
          /\ group' = [group EXCEPT ![g] = "sent"] /\ UNCHANGED <<rejectFuncChan, reject>>
      BY <2>2 DEF UnsubscribeSend
    <3>2. unsubscribeChan \in Seq(Groups)
      BY <1>1 DEF ChanTypes
    <3>3. unsubscribeChan' \in Seq(Groups) /\ Len(unsubscribeChan') = Len(unsubscribeChan) + 1
      BY <3>1, <3>2, AppendProperties
    <3>4. Len(unsubscribeChan') <= UnsubscribeCap
      BY <3>1, <3>2, <3>3, SerialConstants
    <3>. QED BY <1>1, <3>1, <3>3, <3>4 DEF ChanTypes
  <2>. QED BY <1>9, <2>1, <2>2 DEF UnsubscribeCall
<1>. QED
  BY <1>2, <1>4, <1>5, <1>6, <1>7, <1>8, <1>9
  DEF SerialNext, serialAll, goChanVars, InitCall, SubscribeAll, Run, Arrive, Write, Claim,
      Fill, AssignmentTask, Drained, NextBag, Tick, RunCloses, RunClosed, Stop, Release,
      Close, CloseEnds, CtxDone

LEMMA InitTyped == SerialInit => Typed
<1> SUFFICES ASSUME SerialInit PROVE Typed
  OBVIOUS
<1>1. RingTypes
  BY DEF SerialInit, Ring!Init, RingTypes, Range
<1>2. BagTypes
  <2>1. Len(Setup) * Cardinality(Groups) \in Nat /\ (1 - 1) * Cardinality(Groups) = 0
    BY SerialConstants
  <2>2. 1 \in 1 .. Len(Setup) * Cardinality(Groups) + 1
    BY <2>1
  <2>. QED BY <2>1, <2>2, SerialConstants DEF SerialInit, BagTypes
<1>3. RowTypes
  <2>1. \A g \in Groups : <<NewRow(g)>> \in Seq(Rows(g)) \ {<<>>}
    <3> SUFFICES ASSUME NEW g \in Groups PROVE <<NewRow(g)>> \in Seq(Rows(g)) \ {<<>>}
      OBVIOUS
    <3> DEFINE z == NewRow(g)
    <3>1. z \in Rows(g)
      BY NewRowIs
    <3> HIDE DEF z
    <3>2. <<z>> \in Seq(Rows(g))
      BY <3>1
    <3>3. <<z>> # <<>>
      OBVIOUS
    <3>. QED BY <3>2, <3>3 DEF z
  <2>2. buf = [g \in Groups |-> <<NewRow(g)>>] /\ fired = [g \in Groups |-> <<>>]
    BY DEF SerialInit
  <2>3. DOMAIN buf = Groups /\ DOMAIN fired = Groups
    BY <2>2
  <2>4. buf = [g \in Groups |-> buf[g]] /\ fired = [g \in Groups |-> fired[g]]
    BY <2>2
  <2>5. \A g \in Groups : buf[g] = <<NewRow(g)>> /\ fired[g] = <<>>
    BY <2>2
  <2>6. \A g \in Groups : /\ buf[g] \in Seq(Rows(g)) \ {<<>>}
                           /\ fired[g] \in Seq([DOMAIN Channels[g] -> Frames])
    <3> SUFFICES ASSUME NEW g \in Groups
                 PROVE  /\ buf[g] \in Seq(Rows(g)) \ {<<>>}
                        /\ fired[g] \in Seq([DOMAIN Channels[g] -> Frames])
      OBVIOUS
    <3>1. buf[g] \in Seq(Rows(g)) \ {<<>>}
      BY <2>1, <2>5
    <3>2. fired[g] = <<>>
      BY <2>5
    <3>. QED BY <3>1, <3>2
  <2>. QED BY <2>3, <2>4, <2>6 DEF RowTypes
<1>4. LoopTypes /\ RunTypes
  BY DEF SerialInit, LoopTypes, RunTypes
<1>5. ChanTypes
  BY SerialConstants DEF SerialInit, ChanTypes
<1>. QED BY <1>1, <1>2, <1>3, <1>4, <1>5 DEF Typed

LEMMA TypedStep == Typed /\ [SerialNext]_serialAll => Typed'
BY RingTypesStep, BagTypesStep, RowTypesStep, LoopTypesStep, RunTypesStep, ChanTypesStep
DEF Typed

LEMMA TypedAlways == SerialSpec => []Typed
BY InitTyped, TypedStep, PTL DEF SerialSpec

\* Serial's variables keep their types, its two Go channels stay within their capacities
\* and every group has a row to look at (serial.go, assignmentTask), whatever the order
\* in which the program sets it up.
THEOREM SerialTypeCorrect == SerialSpec => []SerialTypeOK
BY TypedAlways, TypedParts, PTL

----------------------------------------------------------------------------
(* Serial: the rows of a group                                              *)

\* The rows of a group, those its function had and those it still has, are one table;
\* how many messages of the i-th channel were handled.
RowCount(g) == Len(fired[g]) + Len(buf[g])

Row(g, n) == IF n <= Len(fired[g]) THEN fired[g][n] ELSE buf[g][n - Len(fired[g])]

Handled(g, i) == Cardinality(Messages(g, i))

\* The column of a channel is its messages in order, then empty cells.
ColumnOK(g, i) ==
  /\ Len(fired[g]) <= Handled(g, i) /\ Handled(g, i) <= RowCount(g)
  /\ \A n \in 1 .. Handled(g, i) : IsMessage(g, i, n, Row(g, n)[i])
  /\ \A n \in 1 .. RowCount(g) : n > Handled(g, i) => Row(g, n)[i] = Empty

Table == \A g \in Groups : \A i \in DOMAIN Channels[g] : ColumnOK(g, i)

LEMMA MessagesAre ==
  ASSUME Typed, NEW g, NEW i
  PROVE  /\ Messages(g, i) \subseteq 1 .. Len(taken) /\ Len(taken) \in Nat
         /\ IsFiniteSet(Messages(g, i)) /\ Handled(g, i) \in Nat
<1>1. taken \in Seq(Frames)
  BY DEF Typed, RingTypes
<1>2. Messages(g, i) \subseteq 1 .. Len(taken) /\ Len(taken) \in Nat
  BY <1>1 DEF Messages
<1>3. IsFiniteSet(1 .. Len(taken))
  <2>1. 1 \in Int /\ Len(taken) \in Int
    BY <1>2
  <2>. QED BY <2>1, FS_Interval
<1>4. IsFiniteSet(Messages(g, i))
  BY <1>2, <1>3, FS_Subset
<1>. QED BY <1>2, <1>4, FS_CardinalityType DEF Handled

\* What was handled stays handled, and nothing is added to the channel.
Same(g, i) ==
  /\ Handled(g, i)' = Handled(g, i)
  /\ \A n, f : IsMessage(g, i, n, f) => IsMessage(g, i, n, f)'

LEMMA SameMessages == ASSUME taken' = taken, NEW g, NEW i PROVE Same(g, i)
BY DEF Same, Handled, Messages, IsMessage

LEMMA OtherMessages ==
  ASSUME Typed, NEW e \in Frames, taken' = Append(taken, e),
         NEW g, NEW i, Channels[g][i] # ChannelOf[e]
  PROVE  Same(g, i)
<1>1. taken \in Seq(Frames)
  BY DEF Typed, RingTypes
<1>2. /\ DOMAIN taken = 1 .. Len(taken) /\ DOMAIN taken' = 1 .. Len(taken) + 1
      /\ \A k \in 1 .. Len(taken) : taken'[k] = taken[k]
      /\ taken'[Len(taken) + 1] = e /\ Len(taken) \in Nat
  BY <1>1
<1>3. Messages(g, i)' = {k \in DOMAIN taken' : ChannelOf[taken'[k]] = Channels[g][i]}
  BY DEF Messages
<1>4. Messages(g, i)' = Messages(g, i)
  <2>1. \A k \in 1 .. Len(taken) + 1 : k \in 1 .. Len(taken) \/ k = Len(taken) + 1
    BY <1>2
  <2>. QED BY <1>2, <1>3, <2>1 DEF Messages
<1>5. ASSUME NEW n, NEW f, IsMessage(g, i, n, f) PROVE IsMessage(g, i, n, f)'
  <2>1. PICK k \in Messages(g, i) :
          taken[k] = f /\ Cardinality({j \in Messages(g, i) : j <= k}) = n
    BY <1>5 DEF IsMessage
  <2>2. taken'[k] = f /\ k \in Messages(g, i)'
    BY <1>2, <1>4, <2>1 DEF Messages
  <2>3. {j \in Messages(g, i)' : j <= k} = {j \in Messages(g, i) : j <= k}
    BY <1>4
  <2>. QED BY <2>1, <2>2, <2>3 DEF IsMessage
<1>. QED BY <1>4, <1>5 DEF Same, Handled

\* The frame handled is the next message of its channel.
LEMMA OwnMessages ==
  ASSUME Typed, NEW e \in Frames, taken' = Append(taken, e),
         NEW g, NEW i, Channels[g][i] = ChannelOf[e]
  PROVE  /\ Handled(g, i)' = Handled(g, i) + 1
         /\ \A n : n = Handled(g, i) + 1 => IsMessage(g, i, n, e)'
         /\ \A n, f : IsMessage(g, i, n, f) => IsMessage(g, i, n, f)'
<1> DEFINE l == Len(taken) + 1
           M == Messages(g, i)
<1>1. taken \in Seq(Frames)
  BY DEF Typed, RingTypes
<1>2. /\ DOMAIN taken = 1 .. Len(taken) /\ DOMAIN taken' = 1 .. Len(taken) + 1
      /\ \A k \in 1 .. Len(taken) : taken'[k] = taken[k]
      /\ taken'[l] = e /\ Len(taken) \in Nat
  BY <1>1
<1>3. M \subseteq 1 .. Len(taken) /\ IsFiniteSet(M) /\ l \notin M
  BY MessagesAre
<1>4. Messages(g, i)' = {k \in DOMAIN taken' : ChannelOf[taken'[k]] = Channels[g][i]}
  BY DEF Messages
<1>5. M' = M \cup {l}
  <2>1. \A k \in 1 .. Len(taken) + 1 : k \in 1 .. Len(taken) \/ k = l
    BY <1>2
  <2>2. l \in DOMAIN taken'
    BY <1>2
  <2>. QED BY <1>2, <1>4, <2>1, <2>2 DEF Messages
<1>6. Cardinality(M') = Cardinality(M) + 1
  BY <1>3, <1>5, FS_AddElement
<1>7. ASSUME NEW n, NEW f, IsMessage(g, i, n, f) PROVE IsMessage(g, i, n, f)'
  <2>1. PICK k \in M : taken[k] = f /\ Cardinality({j \in M : j <= k}) = n
    BY <1>7 DEF IsMessage
  <2>2. k \in M' /\ taken'[k] = f
    BY <1>2, <1>3, <1>5, <2>1
  <2>3. ~(l <= k)
    BY <1>2, <1>3, <2>1
  <2>4. {j \in M' : j <= k} = {j \in M : j <= k}
    BY <1>5, <2>3
  <2>. QED BY <2>1, <2>2, <2>4 DEF IsMessage
<1>8. \A n : n = Handled(g, i) + 1 => IsMessage(g, i, n, e)'
  <2>1. \A j \in M' : j <= l
    BY <1>2, <1>3, <1>5
  <2>2. {j \in M' : j <= l} = M'
    BY <2>1
  <2>3. l \in M' /\ taken'[l] = e
    BY <1>2, <1>5
  <2>4. Cardinality(M') = Handled(g, i) + 1
    BY <1>6 DEF Handled
  <2>5. \E k \in M' : taken'[k] = e /\ Cardinality({j \in M' : j <= k}) = Handled(g, i) + 1
    BY <2>2, <2>3, <2>4
  <2>6. \A m : (\E k \in M' : taken'[k] = e /\ Cardinality({j \in M' : j <= k}) = m)
               => IsMessage(g, i, m, e)'
    BY DEF IsMessage
  <2>. QED BY <2>5, <2>6
<1>. QED BY <1>6, <1>7, <1>8 DEF Handled

\* A column stays as it is when neither its messages nor its rows change.
LEMMA ColumnKept ==
  ASSUME NEW g, NEW i, Same(g, i), ColumnOK(g, i), buf'[g] = buf[g], fired'[g] = fired[g]
  PROVE  ColumnOK(g, i)'
<1>1. RowCount(g)' = RowCount(g) /\ \A n : Row(g, n)' = Row(g, n)
  BY DEF RowCount, Row
<1>. QED BY <1>1 DEF Same, ColumnOK

\* Calling the function moves a row that has every message.
LEMMA FireKeepsTable ==
  ASSUME Typed, Table, NEW g \in Groups, Fires(g), taken' = taken
  PROVE  /\ \A i \in DOMAIN Channels[g] : Handled(g, i) >= Len(fired[g]) + 1
         /\ Table'
<1> DEFINE q == buf[g]
           s == fired[g]
           e == Head(buf[g])
<1>1. /\ \A h \in Groups : h # g => buf'[h] = buf[h] /\ fired'[h] = fired[h]
      /\ q \in Seq(Rows(g)) /\ q # <<>> /\ buf'[g] = RowsLeft(g)
      /\ s \in Seq([DOMAIN Channels[g] -> Frames])
      /\ e \in [DOMAIN Channels[g] -> Frames]
      /\ fired'[g] = Append(s, e)
  BY FireEffect DEF Typed
<1>2. /\ Len(q) \in Nat /\ Len(q) >= 1 /\ Len(s) \in Nat /\ e = q[1]
      /\ Len(fired'[g]) = Len(s) + 1
      /\ \A n \in 1 .. Len(s) : fired'[g][n] = s[n]
      /\ fired'[g][Len(s) + 1] = e
  <2> HIDE DEF s, q
  <2>1. Len(q) \in Nat /\ Len(q) >= 1
    BY <1>1
  <2>2. e = q[1]
    BY <1>1 DEF q
  <2>3. Len(s) \in Nat
    BY <1>1
  <2> HIDE DEF e
  <2>4. /\ Len(Append(s, e)) = Len(s) + 1 /\ Append(s, e)[Len(s) + 1] = e
        /\ \A n \in 1 .. Len(s) : Append(s, e)[n] = s[n]
    BY <1>1, AppendProperties
  <2>. QED BY <1>1, <2>1, <2>2, <2>3, <2>4
<1>3. /\ Len(buf'[g]) = IF Len(q) = 1 THEN 1 ELSE Len(q) - 1
      /\ \A n \in 1 .. Len(buf'[g]) :
           buf'[g][n] = IF Len(q) = 1 THEN NewRow(g) ELSE q[n + 1]
  <2> DEFINE z == NewRow(g)
  <2>1. RowsLeft(g) = IF Len(q) = 1 THEN <<z>> ELSE Tail(q)
    BY DEF RowsLeft
  <2> HIDE DEF q, z
  <2>2. CASE Len(q) = 1
    <3>1. buf'[g] = <<z>>
      BY <1>1, <2>1, <2>2
    <3>2. Len(buf'[g]) = 1 /\ \A n \in 1 .. 1 : buf'[g][n] = z
      BY <3>1
    <3>. QED BY <2>2, <3>2 DEF z
  <2>3. CASE Len(q) # 1
    <3>1. buf'[g] = Tail(q)
      BY <1>1, <2>1, <2>3
    <3>2. Len(Tail(q)) = Len(q) - 1 /\ \A n \in 1 .. Len(Tail(q)) : Tail(q)[n] = q[n + 1]
      BY <1>1, HeadTailProperties
    <3>. QED BY <2>3, <3>1, <3>2
  <2>. QED BY <2>2, <2>3
<1>4. RowCount(g) = Len(s) + Len(q)
      /\ RowCount(g)' = IF Len(q) = 1 THEN RowCount(g) + 1 ELSE RowCount(g)
  <2>1. RowCount(g) = Len(s) + Len(q) /\ RowCount(g)' = Len(fired'[g]) + Len(buf'[g])
    BY DEF RowCount
  <2> HIDE DEF q, s
  <2>2. /\ Len(s) \in Nat /\ Len(q) \in Nat /\ Len(fired'[g]) = Len(s) + 1
        /\ Len(buf'[g]) = IF Len(q) = 1 THEN 1 ELSE Len(q) - 1
    BY <1>2, <1>3
  <2>3. CASE Len(q) = 1
    BY <2>1, <2>2, <2>3
  <2>4. CASE Len(q) # 1
    BY <2>1, <2>2, <2>4
  <2>. QED BY <2>1, <2>3, <2>4
<1>5. \A n \in 1 .. RowCount(g) : Row(g, n)' = Row(g, n)
  <2> SUFFICES ASSUME NEW n \in 1 .. RowCount(g) PROVE Row(g, n)' = Row(g, n)
    OBVIOUS
  <2>1. /\ Row(g, n) = IF n <= Len(s) THEN s[n] ELSE q[n - Len(s)]
        /\ Row(g, n)' = IF n <= Len(fired'[g]) THEN fired'[g][n]
                        ELSE buf'[g][n - Len(fired'[g])]
    BY DEF Row
  <2> HIDE DEF q, s, e
  <2>2. CASE n <= Len(s)
    BY <1>2, <1>4, <2>1, <2>2
  <2>3. CASE n = Len(s) + 1
    BY <1>2, <1>4, <2>1, <2>3
  <2>4. CASE n > Len(s) + 1
    <3>1. n - (Len(s) + 1) \in 1 .. Len(buf'[g]) /\ Len(q) # 1
      <4> DEFINE a == Len(s)
                 b == Len(q)
                 d == Len(buf'[g])
      <4>1. a \in Nat /\ b \in Nat /\ n \in 1 .. a + b /\ n > a + 1
        BY <1>2, <1>4, <2>4
      <4>2. d = IF b = 1 THEN 1 ELSE b - 1
        BY <1>3
      <4> HIDE DEF a, b, d
      <4>3. b # 1 /\ n - (a + 1) \in 1 .. b - 1
        BY <4>1
      <4>. QED BY <4>2, <4>3 DEF a, b, d
    <3>2. buf'[g][n - (Len(s) + 1)] = q[n - (Len(s) + 1) + 1]
      BY <1>3, <3>1
    <3>3. n - (Len(s) + 1) + 1 = n - Len(s) /\ ~(n <= Len(s)) /\ ~(n <= Len(s) + 1)
      BY <1>2, <1>4, <2>4
    <3>. QED BY <1>2, <2>1, <3>2, <3>3
  <2>. QED BY <1>2, <1>4, <2>2, <2>3, <2>4
<1>6. ASSUME NEW i \in DOMAIN Channels[g]
      PROVE  ColumnOK(g, i)' /\ Handled(g, i) >= Len(s) + 1
  <2>1. ColumnOK(g, i)
    BY DEF Table
  <2>2. /\ Handled(g, i)' = Handled(g, i)
        /\ \A n, f : IsMessage(g, i, n, f) => IsMessage(g, i, n, f)'
    BY SameMessages DEF Same
  <2>3. Handled(g, i) \in Nat
    BY MessagesAre
  <2> HIDE DEF q, s
  <2>4. /\ Len(s) <= Handled(g, i) /\ Handled(g, i) <= RowCount(g)
        /\ \A n \in 1 .. Handled(g, i) : IsMessage(g, i, n, Row(g, n)[i])
        /\ \A n \in 1 .. RowCount(g) : n > Handled(g, i) => Row(g, n)[i] = Empty
    BY <2>1 DEF ColumnOK, s
  <2>5. Handled(g, i) >= Len(s) + 1
    <3>1. Len(s) + 1 \in 1 .. RowCount(g)
      BY <1>2, <1>4
    <3>2. Row(g, Len(s) + 1) = e
      <4>1. Row(g, Len(s) + 1) = IF Len(s) + 1 <= Len(s) THEN s[Len(s) + 1]
                                 ELSE q[Len(s) + 1 - Len(s)]
        BY DEF Row, q, s
      <4>. QED BY <1>2, <4>1
    <3>3. e[i] \in Frames
      BY <1>1
    <3>4. ~(Len(s) + 1 > Handled(g, i))
      BY <2>4, <3>1, <3>2, <3>3, SerialConstants
    <3>. QED BY <1>2, <2>3, <3>4
  <2>6. Len(fired'[g]) <= Handled(g, i)' /\ Handled(g, i)' <= RowCount(g)'
    BY <1>2, <1>4, <2>2, <2>3, <2>4, <2>5
  <2>7. ASSUME NEW n \in 1 .. Handled(g, i)'
        PROVE  \A f : f = Row(g, n)'[i] => IsMessage(g, i, n, f)'
    <3>1. n \in 1 .. Handled(g, i) /\ n \in 1 .. RowCount(g)
      BY <1>2, <1>4, <2>2, <2>3, <2>4
    <3>2. IsMessage(g, i, n, Row(g, n)[i])
      BY <2>4, <3>1
    <3>3. Row(g, n)' = Row(g, n)
      BY <1>5, <3>1
    <3>. QED BY <2>2, <3>2, <3>3
  <2>8. ASSUME NEW n \in 1 .. RowCount(g)', n > Handled(g, i)' PROVE Row(g, n)'[i] = Empty
    <3>1. CASE n \in 1 .. RowCount(g)
      BY <1>5, <2>2, <2>4, <2>8, <3>1
    <3>2. CASE n \notin 1 .. RowCount(g)
      <4>1. Len(q) = 1 /\ n = Len(s) + 2
        <5>1. /\ Len(s) \in Nat /\ Len(q) \in Nat /\ RowCount(g) = Len(s) + Len(q)
              /\ RowCount(g)' = IF Len(q) = 1 THEN RowCount(g) + 1 ELSE RowCount(g)
          BY <1>2, <1>4
        <5>2. Len(q) = 1 /\ n \in Nat /\ n > RowCount(g) /\ n <= RowCount(g) + 1
          BY <2>8, <3>2, <5>1
        <5>. QED BY <5>1, <5>2
      <4>2. Row(g, n)' = IF n <= Len(fired'[g]) THEN fired'[g][n]
                         ELSE buf'[g][n - Len(fired'[g])]
        BY DEF Row
      <4>3. ~(n <= Len(fired'[g])) /\ n - Len(fired'[g]) = 1
        BY <1>2, <4>1
      <4>4. Row(g, n)' = buf'[g][1]
        BY <4>2, <4>3
      <4>5. buf'[g][1] = NewRow(g)
        BY <1>3, <4>1
      <4>. QED BY <4>4, <4>5 DEF NewRow
    <3>. QED BY <3>1, <3>2
  <2>9. \A n \in 1 .. Handled(g, i)' : IsMessage(g, i, n, Row(g, n)[i])'
    BY <2>7
  <2>. QED BY <2>5, <2>6, <2>8, <2>9 DEF ColumnOK
<1>7. ASSUME NEW h \in Groups, NEW i \in DOMAIN Channels[h], h # g PROVE ColumnOK(h, i)'
  BY <1>1, <1>7, SameMessages, ColumnKept DEF Table
<1>8. Table'
  BY <1>6, <1>7 DEF Table
<1>. QED BY <1>6, <1>8

LEMMA MessageIsFrame ==
  ASSUME Typed, NEW g, NEW i, NEW n, NEW f, IsMessage(g, i, n, f)
  PROVE  f \in Frames
<1>1. taken \in Seq(Frames)
  BY DEF Typed, RingTypes
<1>2. PICK k \in DOMAIN taken : taken[k] = f
  BY DEF IsMessage, Messages
<1>. QED BY <1>1, <1>2

\* The first row with an empty cell is the row of the next message.
LEMMA RowForNext ==
  ASSUME Typed, Table, NEW g \in Groups, NEW f, ChannelOf[f] \in Range(Channels[g])
  PROVE  RowFor(g, f) = Handled(g, Column(g, f)) - Len(fired[g]) + 1
<1> DEFINE q == buf[g]
           a == Len(fired[g])
           b == Len(buf[g])
           c == Column(g, f)
           r == RowFor(g, f)
           k == Handled(g, c)
<1>1. q \in Seq(Rows(g)) /\ a \in Nat /\ b \in Nat /\ c \in DOMAIN Channels[g] /\ k \in Nat
  <2>1. buf[g] \in Seq(Rows(g)) /\ fired[g] \in Seq([DOMAIN Channels[g] -> Frames])
    BY DEF Typed, RowTypes
  <2>2. Len(buf[g]) \in Nat /\ Len(fired[g]) \in Nat
    BY <2>1
  <2>3. c \in DOMAIN Channels[g]
    BY ColumnIs
  <2>4. k \in Nat
    BY MessagesAre
  <2>. QED BY <2>1, <2>2, <2>3, <2>4
<1>2. /\ r \in 1 .. b + 1
      /\ r <= b => q[r][c] = Empty
      /\ \A n \in 1 .. b : n < r => q[n][c] # Empty
  <2>1. buf[g] \in Seq(Rows(g))
    BY <1>1
  <2>. QED BY <2>1, RowForIs
<1>3. /\ a <= k /\ k <= a + b
      /\ \A n \in 1 .. k : IsMessage(g, c, n, Row(g, n)[c])
      /\ \A n \in 1 .. a + b : n > k => Row(g, n)[c] = Empty
  BY <1>1 DEF Table, ColumnOK, RowCount
<1>4. ASSUME NEW n \in 1 .. b PROVE Row(g, a + n) = q[n]
  <2>1. Row(g, a + n) = IF a + n <= a THEN fired[g][a + n] ELSE q[a + n - a]
    BY DEF Row
  <2> HIDE DEF q, a, b
  <2>2. ~(a + n <= a) /\ a + n - a = n
    BY <1>1
  <2>. QED BY <2>1, <2>2
<1> HIDE DEF q, a, b, c, r, k
<1>5. ~(r > k - a + 1)
  <2> SUFFICES ASSUME r > k - a + 1 PROVE FALSE
    OBVIOUS
  <2>1. k - a + 1 \in 1 .. b /\ a + (k - a + 1) = k + 1 /\ k + 1 \in 1 .. a + b /\ k + 1 > k
    BY <1>1, <1>2, <1>3
  <2>2. Row(g, k + 1)[c] = Empty
    BY <1>3, <2>1
  <2>3. Row(g, k + 1) = q[k - a + 1]
    BY <1>4, <2>1
  <2>4. q[k - a + 1][c] # Empty
    BY <1>2, <2>1
  <2>. QED BY <2>2, <2>3, <2>4
<1>6. ~(r < k - a + 1)
  <2> SUFFICES ASSUME r < k - a + 1 PROVE FALSE
    OBVIOUS
  <2>1. r \in 1 .. b /\ r <= b /\ a + r \in 1 .. k
    BY <1>1, <1>2, <1>3
  <2>2. Row(g, a + r)[c] = Empty
    BY <1>2, <1>4, <2>1
  <2>3. IsMessage(g, c, a + r, Row(g, a + r)[c])
    BY <1>3, <2>1
  <2>. QED BY <2>2, <2>3, MessageIsFrame, SerialConstants
<1>7. r = k - a + 1
  BY <1>1, <1>2, <1>5, <1>6
<1>. QED BY <1>7 DEF r, k, a, c

\* A frame goes to one group.
LEMMA OneGroup ==
  ASSUME NEW f, NEW g \in GroupsOf(f), NEW h \in Groups, h # g, NEW i \in DOMAIN Channels[h]
  PROVE  Channels[h][i] # ChannelOf[f]
BY SerialAssumption DEF GroupsOf, Range

LEMMA PutKeepsTable ==
  ASSUME Typed, Table, NEW f \in Frames, NEW g \in GroupsOf(f), Put(g, f),
         fired' = fired, taken' = Append(taken, f)
  PROVE  Table'
<1> DEFINE q == buf[g]
           a == Len(fired[g])
           b == Len(buf[g])
           d == Len(buf'[g])
           c == Column(g, f)
           r == RowFor(g, f)
           k == Handled(g, c)
<1>0. g \in Groups /\ ChannelOf[f] \in Range(Channels[g])
  BY DEF GroupsOf
<1>1. /\ c \in DOMAIN Channels[g] /\ Channels[g][c] = ChannelOf[f]
      /\ \A i \in DOMAIN Channels[g] : Channels[g][i] = ChannelOf[f] => i = c
  BY <1>0, ColumnIs
<1>2. a \in Nat /\ b \in Nat /\ k \in Nat
  <2>1. buf[g] \in Seq(Rows(g)) /\ fired[g] \in Seq([DOMAIN Channels[g] -> Frames])
    BY <1>0 DEF Typed, RowTypes
  <2>2. Len(buf[g]) \in Nat /\ Len(fired[g]) \in Nat
    BY <2>1
  <2>. QED BY <2>2, MessagesAre
<1>3. r = k - a + 1 /\ a <= k /\ k <= a + b
  <2>1. ColumnOK(g, c)
    BY <1>0, <1>1 DEF Table
  <2>. QED BY <1>0, <2>1, RowForNext DEF ColumnOK, RowCount
<1>4. /\ \A h \in Groups : h # g => buf'[h] = buf[h]
      /\ d = IF r > b THEN b + 1 ELSE b
      /\ \A n \in 1 .. d : \A i \in DOMAIN Channels[g] :
           buf'[g][n][i] = IF n = r /\ i = c THEN f ELSE IF n > b THEN Empty ELSE q[n][i]
  BY <1>0, PutEffect DEF Typed
<1>5. RowCount(g) = a + b /\ RowCount(g)' = a + d
  BY DEF RowCount
<1>6. ASSUME NEW n \in 1 .. a + d, NEW i \in DOMAIN Channels[g]
      PROVE  Row(g, n)'[i] = IF n = k + 1 /\ i = c THEN f
                             ELSE IF n > a + b THEN Empty ELSE Row(g, n)[i]
  <2>1. /\ Row(g, n) = IF n <= a THEN fired[g][n] ELSE q[n - a]
        /\ Row(g, n)' = IF n <= a THEN fired[g][n] ELSE buf'[g][n - a]
    BY DEF Row
  <2> HIDE DEF q, a, b, d, c, r, k
  <2>2. d \in Nat /\ n \in Nat
    BY <1>2, <1>4
  <2>3. CASE n <= a
    <3>1. n # k + 1 /\ ~(n > a + b)
      BY <1>2, <1>3, <2>2, <2>3
    <3>. QED BY <2>1, <2>3, <3>1
  <2>4. CASE n > a
    <3>1. /\ n - a \in 1 .. d /\ ~(n <= a)
          /\ (n - a = r <=> n = k + 1) /\ (n - a > b <=> n > a + b)
      BY <1>2, <1>3, <2>2, <2>4
    <3>2. buf'[g][n - a][i] = IF n - a = r /\ i = c THEN f
                              ELSE IF n - a > b THEN Empty ELSE q[n - a][i]
      BY <1>4, <3>1
    <3>. QED BY <2>1, <3>1, <3>2
  <2>. QED BY <1>2, <2>2, <2>3, <2>4
<1>7. ASSUME NEW i \in DOMAIN Channels[g] PROVE ColumnOK(g, i)'
  <2> DEFINE m == Handled(g, i)
  <2>1. /\ a <= m /\ m <= a + b /\ m \in Nat
        /\ \A n \in 1 .. m : IsMessage(g, i, n, Row(g, n)[i])
        /\ \A n \in 1 .. a + b : n > m => Row(g, n)[i] = Empty
    BY <1>0, MessagesAre DEF Table, ColumnOK, RowCount
  <2>2. /\ m' = IF i = c THEN m + 1 ELSE m
        /\ \A n, e : IsMessage(g, i, n, e) => IsMessage(g, i, n, e)'
        /\ i = c => \A n : n = m + 1 => IsMessage(g, i, n, f)'
    <3>1. CASE i = c
      BY <1>1, <3>1, OwnMessages
    <3>2. CASE i # c
      BY <1>1, <3>2, OtherMessages DEF Same
    <3>. QED BY <3>1, <3>2
  <2> DEFINE mm == Handled(g, i)'
  <2>3. m' = mm /\ (i = c => m = k)
    OBVIOUS
  <2>4. /\ Len(fired[g])' = a
        /\ mm = IF i = c THEN m + 1 ELSE m
    BY <2>2
  <2> HIDE DEF q, a, b, d, c, r, k, m, mm
  <2>5. d \in Nat /\ b <= d /\ (r > b => d = b + 1) /\ a <= mm /\ mm <= a + d
    <3>1. d \in Nat /\ b <= d /\ (r > b => d = b + 1)
      BY <1>2, <1>4
    <3>2. CASE i = c
      <4>1. m = k /\ mm = m + 1
        BY <2>3, <2>4, <3>2
      <4>2. r <= d
        BY <1>2, <1>3, <1>4
      <4>. QED BY <1>2, <1>3, <3>1, <4>1, <4>2
    <3>3. CASE i # c
      BY <1>2, <2>1, <2>4, <3>1, <3>3
    <3>. QED BY <3>2, <3>3
  <2>6. ASSUME NEW n \in 1 .. mm PROVE \A e : e = Row(g, n)'[i] => IsMessage(g, i, n, e)'
    <3>1. n \in 1 .. a + d
      BY <1>2, <2>1, <2>4, <2>5
    <3>2. CASE n = m + 1
      <4>1. i = c /\ n = k + 1
        BY <2>1, <2>3, <2>4, <3>2
      <4>. QED BY <1>6, <2>2, <3>1, <3>2, <4>1 DEF m
    <3>3. CASE n # m + 1
      <4>0. m \in Nat /\ m <= a + b
        BY <2>1
      <4>1. n \in 1 .. m /\ ~(n > a + b)
        <5>1. n \in 1 .. m
          BY <2>4, <3>3, <4>0
        <5>. QED BY <1>2, <4>0, <5>1
      <4>2. ~(n = k + 1 /\ i = c)
        BY <2>3, <3>3
      <4>3. Row(g, n)'[i] = Row(g, n)[i]
        BY <1>6, <3>1, <4>1, <4>2
      <4>. QED BY <2>1, <2>2, <4>1, <4>3
    <3>. QED BY <3>2, <3>3
  <2>7. ASSUME NEW n \in 1 .. a + d, n > mm PROVE Row(g, n)'[i] = Empty
    <3>1. ~(n = k + 1 /\ i = c) /\ n > m
      BY <1>2, <2>1, <2>3, <2>4, <2>7
    <3>2. CASE n > a + b
      BY <1>6, <3>1, <3>2
    <3>3. CASE ~(n > a + b)
      <4>1. n \in 1 .. a + b
        BY <1>2, <2>5, <3>3
      <4>. QED BY <1>6, <2>1, <3>1, <3>3, <4>1
    <3>. QED BY <3>2, <3>3
  <2>8. \A n \in 1 .. Handled(g, i)' : IsMessage(g, i, n, Row(g, n)[i])'
    BY <2>6 DEF mm
  <2>9. Len(fired[g])' <= Handled(g, i)' /\ Handled(g, i)' <= RowCount(g)'
    BY <1>5, <2>4, <2>5 DEF mm
  <2>10. \A n \in 1 .. RowCount(g)' : n > Handled(g, i)' => Row(g, n)'[i] = Empty
    BY <1>5, <2>7 DEF mm
  <2>. QED BY <2>8, <2>9, <2>10 DEF ColumnOK
<1>8. ASSUME NEW h \in Groups, NEW i \in DOMAIN Channels[h], h # g PROVE ColumnOK(h, i)'
  <2>1. Channels[h][i] # ChannelOf[f]
    BY <1>8, OneGroup
  <2>2. Same(h, i) /\ ColumnOK(h, i)
    BY <2>1, OtherMessages DEF Table
  <2>3. buf'[h] = buf[h] /\ fired'[h] = fired[h]
    BY <1>4, <1>8
  <2>. QED BY <2>2, <2>3, ColumnKept
<1>. QED BY <1>7, <1>8 DEF Table

\* A frame that belongs to no group, and a step that handles none, leave the table.
LEMMA OthersKeepTable ==
  ASSUME Typed, Table, UNCHANGED <<buf, fired>>,
         \/ taken' = taken
         \/ \E f \in Frames : GroupsOf(f) = {} /\ taken' = Append(taken, f)
  PROVE  Table'
<1> SUFFICES ASSUME NEW g \in Groups, NEW i \in DOMAIN Channels[g] PROVE ColumnOK(g, i)'
  BY DEF Table
<1>1. Same(g, i)
  <2>1. CASE taken' = taken
    BY <2>1, SameMessages
  <2>2. ASSUME NEW f \in Frames, GroupsOf(f) = {}, taken' = Append(taken, f) PROVE Same(g, i)
    <3>1. Channels[g][i] # ChannelOf[f]
      BY <2>2 DEF GroupsOf, Range
    <3>. QED BY <2>2, <3>1, OtherMessages
  <2>. QED BY <2>1, <2>2
<1>. QED BY <1>1, ColumnKept DEF Table

\* Only the handler of a frame adds to what was handled, and a frame of a group is taken.
LEMMA TakenSteps ==
  ASSUME Typed, [SerialNext]_serialAll
  PROVE  \/ taken' = taken /\ (Handle => GroupsOf(Head(queue)) = {})
         \/ Handle /\ Head(queue) \in Frames /\ taken' = Append(taken, Head(queue))
<1>1. CASE Handle
  <2>1. Head(queue) \in Frames
    BY <1>1, HandledFrame
  <2>2. Head(queue) \in Panics => GroupsOf(Head(queue)) = {}
    BY SerialAssumption DEF GroupsOf
  <2>. QED BY <1>1, <2>1, <2>2 DEF Handle, Ring!Take, ringVars
<1>2. CASE ~Handle
  <2>1. CASE \E f \in Frames : Arrive(f) \/ Write(f)
    BY <1>2, <2>1 DEF Arrive, Write, Claim, Fill, Ring!Claim, Ring!Fill, ringVars
  <2>. QED
    BY <1>2, <2>1
    DEF SerialNext, serialAll, ringVars, InitCall, SubscribeAll, Run, Fail, FailSend, FailPanics,
        AssignmentTask, Drained, Fire, NextBag, Tick, RunReject, RunUnsubscribe, RunCloses,
        RunClosed, Stop, Release, UnsubscribeCall, UnsubscribeGroup, UnsubscribeSend,
        UnsubscribeTimeout, UnsubscribePanics, Close, CloseEnds, CtxDone
<1>. QED BY <1>1, <1>2

LEMMA TableStep == Typed /\ Table /\ [SerialNext]_serialAll => Table'
<1> SUFFICES ASSUME Typed, Table, [SerialNext]_serialAll PROVE Table'
  OBVIOUS
<1>1. CASE Handle /\ GroupsOf(Head(queue)) # {}
  <2>1. Head(queue) \in Frames /\ taken' = Append(taken, Head(queue)) /\ fired' = fired
    BY <1>1, TakenSteps DEF Handle
  <2>2. PICK g \in GroupsOf(Head(queue)) : Put(g, Head(queue))
    BY <1>1 DEF Handle
  <2>. QED BY <2>1, <2>2, PutKeepsTable
<1>2. CASE Handle /\ GroupsOf(Head(queue)) = {}
  <2>1. UNCHANGED <<buf, fired>>
    BY <1>2 DEF Handle
  <2>. QED BY <1>2, <2>1, TakenSteps, OthersKeepTable
<1>3. CASE ~Handle
  <2>1. taken' = taken
    BY <1>3, TakenSteps
  <2>2. CASE UNCHANGED <<buf, fired>>
    BY <2>1, <2>2, OthersKeepTable
  <2>3. ASSUME NEW g \in Groups, Fires(g) PROVE Table'
    BY <2>1, <2>3, FireKeepsTable
  <2>. QED BY <1>3, <2>2, <2>3, RowSteps
<1>. QED BY <1>1, <1>2, <1>3

LEMMA InitTable == SerialInit => Table
<1> SUFFICES ASSUME SerialInit, NEW g \in Groups, NEW i \in DOMAIN Channels[g]
             PROVE  ColumnOK(g, i)
  BY DEF Table
<1>1. buf[g] = <<NewRow(g)>> /\ fired[g] = <<>> /\ taken = <<>>
  BY DEF SerialInit, Ring!Init
<1>2. Messages(g, i) = {}
  BY <1>1 DEF Messages
<1>3. Handled(g, i) = 0
  BY <1>2, FS_EmptySet DEF Handled
<1>4. RowCount(g) = 1
  <2>1. Len(<<>>) = 0 /\ Len(<<NewRow(g)>>) = 1
    OBVIOUS
  <2>. QED BY <1>1, <2>1 DEF RowCount
<1>5. Row(g, 1)[i] = Empty
  <2> DEFINE z == NewRow(g)
  <2>1. z[i] = Empty
    BY DEF NewRow
  <2>2. Row(g, 1) = IF 1 <= Len(fired[g]) THEN fired[g][1] ELSE buf[g][1 - Len(fired[g])]
    BY DEF Row
  <2>3. buf[g] = <<z>>
    BY <1>1
  <2> HIDE DEF z
  <2>4. Len(fired[g]) = 0 /\ buf[g][1] = z
    BY <1>1, <2>3
  <2>5. Row(g, 1) = z
    BY <2>2, <2>4
  <2>. QED BY <2>1, <2>5
<1>6. Len(fired[g]) = 0
  BY <1>1
<1>. QED BY <1>3, <1>4, <1>5, <1>6 DEF ColumnOK

LEMMA TableAlways == SerialSpec => [](Typed /\ Table)
<1>1. SerialInit => Typed /\ Table
  BY InitTyped, InitTable
<1>2. (Typed /\ Table) /\ [SerialNext]_serialAll => (Typed /\ Table)'
  BY TypedStep, TableStep
<1>. QED BY <1>1, <1>2, PTL DEF SerialSpec

LEMMA TableAligned == Typed /\ Table => RowsAligned
<1> SUFFICES ASSUME Typed, Table, NEW g \in Groups, NEW n \in DOMAIN fired[g],
                    NEW i \in DOMAIN Channels[g]
             PROVE  IsMessage(g, i, n, fired[g][n][i])
  BY DEF RowsAligned
<1>1. n \in 1 .. Len(fired[g]) /\ Len(fired[g]) \in Nat
  <2>1. fired[g] \in Seq([DOMAIN Channels[g] -> Frames])
    BY DEF Typed, RowTypes
  <2> DEFINE s == fired[g]
  <2> HIDE DEF s
  <2>2. DOMAIN s = 1 .. Len(s) /\ Len(s) \in Nat
    BY <2>1 DEF s
  <2>. QED BY <2>2 DEF s
<1>2. Row(g, n) = fired[g][n]
  BY <1>1 DEF Row
<1>3. ColumnOK(g, i) /\ Handled(g, i) \in Nat
  BY MessagesAre DEF Table
<1>4. n \in 1 .. Handled(g, i)
  BY <1>1, <1>3 DEF ColumnOK
<1>. QED BY <1>2, <1>3, <1>4 DEF ColumnOK

\* The function given to SubscribeAll gets the n-th message of each of its channels
\* together, in whatever order the frames come and the program sets the Serial up
\* (serial.go, bagAndIndex.serialProcessWrapper and assignmentTask).
THEOREM RowsStayAligned == SerialSpec => []RowsAligned
BY TableAlways, TableAligned, PTL

----------------------------------------------------------------------------
(* Serial: every complete row is called                                     *)

\* The program sets the Serial up in this order.
InOrderSetup == Setup = <<"Init", "SubscribeAll", "Run">>

Staged == IF run = "new" THEN step \in 1 .. 3 ELSE step = 4

\* Once subscribed, a group is known to Run until it is unsubscribed.
Known ==
  step >= 3 /\ run # "released" => \A g \in Groups : group[g] # "gone" => g \in Range(bags)

\* Between two assignmentTasks no row is complete.
Idle ==
  run \in {"new", "select", "close"} => \A g \in Groups : group[g] # "gone" => AllFired(g)

\* While Run goes through the bags, those behind it have no complete row.
Behind ==
  IF run = "bags" THEN \A j \in DOMAIN bags : j < bag => AllFired(bags[j]) ELSE bag = 1

Passed == Staged /\ Known /\ Idle /\ Behind

LEMMA SetupSteps ==
  ASSUME InOrderSetup, Typed, Staged
  PROVE  /\ InitCall => step = 1 /\ step' = 2 /\ run = "new"
         /\ SubscribeAll => step = 2 /\ step' = 3 /\ run = "new"
         /\ Run => step = 3 /\ step' = 4 /\ run = "new"
<1>1. /\ DOMAIN Setup = 1 .. 3
      /\ Setup[1] = "Init" /\ Setup[2] = "SubscribeAll" /\ Setup[3] = "Run"
  BY DEF InOrderSetup
<1>2. ASSUME NEW w, SetUp(w)
      PROVE  step \in {1, 2, 3} /\ Setup[step] = w /\ step' = step + 1 /\ run = "new"
  BY <1>1, <1>2 DEF SetUp, Staged
<1>3. InitCall => step = 1 /\ step' = 2 /\ run = "new"
  BY <1>1, <1>2 DEF InitCall
<1>4. SubscribeAll => step = 2 /\ step' = 3 /\ run = "new"
  BY <1>1, <1>2 DEF SubscribeAll
<1>5. Run => step = 3 /\ step' = 4 /\ run = "new"
  BY <1>1, <1>2 DEF Run
<1>. QED BY <1>3, <1>4, <1>5

LEMMA StagedStep ==
  ASSUME InOrderSetup, Typed, Staged, [SerialNext]_serialAll
  PROVE  Staged'
<1>1. CASE UNCHANGED <<run, step>>
  BY <1>1 DEF Staged
<1>2. CASE InitCall \/ SubscribeAll
  BY <1>2, SetupSteps DEF Staged, InitCall, SubscribeAll, runVars
<1>3. CASE Run
  BY <1>3, SetupSteps DEF Staged, Run
<1>4. CASE AssignmentTask
  BY <1>4 DEF Staged, AssignmentTask, Handle, Drained, Fire, NextBag, runVars
<1>5. CASE Tick \/ RunCloses \/ RunClosed \/ Stop \/ Release
  BY <1>5 DEF Staged, Tick, RunCloses, RunClosed, Stop, AfterStop, Release
<1>. QED
  BY <1>1, <1>2, <1>3, <1>4, <1>5
  DEF SerialNext, serialAll, runVars, Arrive, Write, Claim, Fill, Fail, FailSend, FailPanics,
      RunReject, RunUnsubscribe, UnsubscribeCall, UnsubscribeGroup, UnsubscribeSend,
      UnsubscribeTimeout, UnsubscribePanics, Close, CloseEnds, CtxDone

\* SetToSeq leaves no element out.
LEMMA SetToSeqCovers ==
  ASSUME NEW S, IsFiniteSet(S)
  PROVE  S \subseteq Range(SetToSeq(S))
<1> DEFINE n == Cardinality(S)
           q == SetToSeq(S)
<1>1. n \in Nat /\ ExistsBijection(1 .. n, S)
  BY FS_CardinalityType
<1>2. \E f \in [1 .. n -> S] : IsInjective(f)
  BY <1>1 DEF ExistsBijection, Bijection, Injection
<1>3. q \in [1 .. n -> S] /\ IsInjective(q)
  BY <1>2 DEF SetToSeq
<1> HIDE DEF q
<1>4. Range(q) \subseteq S
  BY <1>3 DEF Range
<1>5. q \in Bijection(1 .. n, Range(q))
  BY <1>3 DEF Bijection, Injection, Surjection, IsInjective, Range
<1>6. ExistsBijection(1 .. n, Range(q))
  BY <1>5 DEF ExistsBijection
<1>7. Cardinality(Range(q)) = n
  BY <1>1, <1>6, FS_CountingElements
<1>8. Range(q) = S
  BY <1>4, <1>7, FS_Subset
<1>. QED BY <1>8 DEF q

\* A group that is not gone was not gone.
LEMMA GoneForGood ==
  ASSUME Typed, [SerialNext]_serialAll, NEW g \in Groups, group'[g] # "gone"
  PROVE  group[g] # "gone"
<1>1. group \in [Groups -> {"on", "asked", "sent", "gone", "refused", "panicked"}]
  BY DEF Typed, ChanTypes
<1>2. CASE group' = group
  BY <1>2
<1>3. CASE RunUnsubscribe
  BY <1>1, <1>3 DEF RunUnsubscribe
<1>4. CASE \E h \in Groups : UnsubscribeCall(h)
  BY <1>1, <1>4 DEF UnsubscribeCall, UnsubscribeGroup, UnsubscribeSend, UnsubscribeTimeout,
                    UnsubscribePanics
<1>. QED
  BY <1>2, <1>3, <1>4
  DEF SerialNext, serialAll, goChanVars, InitCall, SubscribeAll, Run, Arrive, Write, Claim, Fill,
      Fail, FailSend, FailPanics, AssignmentTask, Handle, Drained, Fire, NextBag, Tick, RunReject,
      RunCloses, RunClosed, Stop, Release, Close, CloseEnds, CtxDone

LEMMA KnownStep ==
  ASSUME InOrderSetup, Typed, Staged, Known, [SerialNext]_serialAll
  PROVE  Known'
<1>1. CASE InitCall
  BY <1>1, SetupSteps DEF Known
<1>2. CASE SubscribeAll
  <2>1. Groups \subseteq Range(SetToSeq(Groups))
    BY SetToSeqCovers, SerialAssumption
  <2>2. SetToSeq(Groups) \in Seq(Groups) /\ bags \in Seq(Groups)
    BY SetToSeqLists, SerialAssumption DEF Typed, BagTypes
  <2>3. bags' = bags \o SetToSeq(Groups)
    BY <1>2 DEF SubscribeAll
  <2>4. Groups \subseteq Range(bags')
    BY <2>1, <2>2, <2>3, RangeConcatenation
  <2>. QED BY <2>4 DEF Known
<1>3. CASE Run
  <2>1. step = 3 /\ run # "released" /\ bags' = bags
    BY <1>3, SetupSteps DEF Run, bagVars
  <2>. QED BY <2>1, GoneForGood DEF Known
<1>4. CASE RunUnsubscribe
  <2> DEFINE h == Head(unsubscribeChan)
  <2>1. /\ bags' = RemoveFirst(bags, h) /\ group' = [group EXCEPT ![h] = "gone"]
        /\ step' = step /\ run = "select"
    BY <1>4 DEF RunUnsubscribe
  <2>2. bags \in Seq(Groups)
      /\ group \in [Groups -> {"on", "asked", "sent", "gone", "refused", "panicked"}]
    BY DEF Typed, BagTypes, ChanTypes
  <2>3. \A g \in Range(bags) : g # h => g \in Range(bags')
    BY <2>1, <2>2, RemoveFirstKeeps
  <2>4. \A g \in Groups : group'[g] # "gone" => g # h /\ group[g] # "gone"
    BY <2>1, <2>2
  <2>. QED BY <2>1, <2>3, <2>4 DEF Known
<1>5. CASE Release
  BY <1>5 DEF Release, Known
<1>6. CASE UNCHANGED <<step, bags>> /\ (run = "released" => run' = "released")
  BY <1>6, GoneForGood DEF Known
<1>. QED
  BY <1>1, <1>2, <1>3, <1>4, <1>5, <1>6
  DEF SerialNext, serialAll, bagVars, runVars, Arrive, Write, Claim, Fill, Fail, FailSend,
      FailPanics, AssignmentTask, Handle, Drained, Fire, NextBag, Tick, RunReject, RunCloses,
      RunClosed, Stop, UnsubscribeCall, UnsubscribeGroup, UnsubscribeSend, UnsubscribeTimeout,
      UnsubscribePanics, Close, CloseEnds, CtxDone

LEMMA FiredKept ==
  ASSUME NEW g, taken' = taken, fired'[g] = fired[g], AllFired(g)
  PROVE  AllFired(g)'
BY DEF AllFired, Messages

\* Outside drain and the bags no message is handled and no function called.
LEMMA QuietSteps ==
  ASSUME Typed, [SerialNext]_serialAll
  PROVE  /\ run # "drain" => taken' = taken
         /\ run # "bags" => fired' = fired
<1>1. run # "drain" => taken' = taken
  BY TakenSteps DEF Handle
<1>2. CASE Handle
  BY <1>1, <1>2 DEF Handle
<1>3. CASE Fire
  BY <1>1, <1>3 DEF Fire
<1>. QED BY <1>1, <1>2, <1>3, RowSteps

\* A bag whose first row is not complete has none that is.
LEMMA IncompleteIsFired ==
  ASSUME Typed, Table, NEW g \in Groups, ~Complete(g)
  PROVE  AllFired(g)
<1> DEFINE q == buf[g]
           a == Len(fired[g])
<1>1. q \in Seq(Rows(g)) /\ q # <<>> /\ fired[g] \in Seq([DOMAIN Channels[g] -> Frames])
  BY DEF Typed, RowTypes
<1>2. Head(q) \in Rows(g) /\ Head(q) = q[1] /\ Len(q) \in Nat /\ Len(q) >= 1 /\ a \in Nat
  <2>1. a \in Nat
    BY <1>1
  <2> HIDE DEF q, a
  <2>. QED BY <1>1, <2>1
<1>3. PICK i \in DOMAIN Channels[g] : Head(q)[i] = Empty
  BY <1>2 DEF Complete, Range, Rows
<1>4. Handled(g, i) \in Nat /\ ColumnOK(g, i)
  BY MessagesAre DEF Table
<1>5. Row(g, a + 1) = Head(q) /\ RowCount(g) = a + Len(q)
  <2>1. Row(g, a + 1) = IF a + 1 <= a THEN fired[g][a + 1] ELSE q[a + 1 - a]
    BY DEF Row
  <2>2. RowCount(g) = a + Len(q)
    BY DEF RowCount
  <2> HIDE DEF q, a
  <2>3. ~(a + 1 <= a) /\ a + 1 - a = 1
    BY <1>2
  <2>. QED BY <1>2, <2>1, <2>2, <2>3
<1>6. /\ a <= Handled(g, i)
      /\ \A n \in 1 .. Handled(g, i) : IsMessage(g, i, n, Row(g, n)[i])
  BY <1>4 DEF ColumnOK
<1>7. a = Handled(g, i)
  <2> HIDE DEF q, a
  <2> SUFFICES ASSUME a < Handled(g, i) PROVE FALSE
    BY <1>2, <1>4, <1>6
  <2>1. a + 1 \in 1 .. Handled(g, i)
    BY <1>2, <1>4
  <2>2. IsMessage(g, i, a + 1, Row(g, a + 1)[i])
    BY <1>6, <2>1
  <2>. QED BY <1>3, <1>5, <2>2, MessageIsFrame, SerialConstants
<1>. QED BY <1>7 DEF AllFired, Handled

\* One whose first row is complete has one that the function was not called with.
LEMMA CompleteIsNotFired ==
  ASSUME Typed, Table, NEW g \in Groups, Fires(g), taken' = taken
  PROVE  ~AllFired(g)
<1>1. \A i \in DOMAIN Channels[g] : Handled(g, i) >= Len(fired[g]) + 1
  BY FireKeepsTable
<1>2. fired[g] \in Seq([DOMAIN Channels[g] -> Frames])
  BY DEF Typed, RowTypes
<1>3. Len(fired[g]) \in Nat
  BY <1>2
<1>4. \A i \in DOMAIN Channels[g] : Handled(g, i) # Len(fired[g])
  BY <1>1, <1>3
<1>. QED BY <1>4 DEF AllFired, Handled

LEMMA IdleStep ==
  ASSUME InOrderSetup, Typed, Table, Passed, [SerialNext]_serialAll
  PROVE  Idle'
<1>1. CASE run' = run
  <2> SUFFICES ASSUME run \in {"new", "select", "close"}, NEW g \in Groups, group'[g] # "gone"
               PROVE  AllFired(g)'
    BY <1>1 DEF Idle
  <2>1. group[g] # "gone"
    BY GoneForGood
  <2>2. AllFired(g)
    BY <2>1 DEF Passed, Idle
  <2>3. taken' = taken /\ fired' = fired
    BY QuietSteps
  <2>. QED BY <2>2, <2>3, FiredKept
<1>2. ASSUME run \in {"new", "select", "close"}, UNCHANGED <<taken, fired>> PROVE Idle'
  <2> SUFFICES ASSUME NEW g \in Groups, group'[g] # "gone" PROVE AllFired(g)'
    BY DEF Idle
  <2>1. AllFired(g)
    BY <1>2, GoneForGood DEF Passed, Idle
  <2>. QED BY <1>2, <2>1, FiredKept
<1>3. CASE Run
  BY <1>2, <1>3, SetupSteps DEF Run, ringVars, bagVars, Passed
<1>4. CASE RunCloses \/ RunClosed
  BY <1>2, <1>4 DEF RunCloses, RunClosed, ringVars, bagVars
<1>5. CASE NextBag
  <2>1. CASE bag \in DOMAIN bags
    BY <1>1, <1>5, <2>1 DEF NextBag
  <2>2. CASE bag \notin DOMAIN bags
    <3>1. run = "bags" /\ taken' = taken /\ fired' = fired
      BY <1>5 DEF NextBag, ringVars, bagVars
    <3>2. \A j \in DOMAIN bags : j < bag
      <4>1. bags \in Seq(Groups) /\ bag \in Nat /\ bag >= 1
        <5>1. bags \in Seq(Groups) /\ bag \in 1 .. Len(Setup) * Cardinality(Groups) + 1
          BY DEF Typed, BagTypes
        <5>2. Len(Setup) * Cardinality(Groups) \in Nat
          BY SerialConstants
        <5>. QED BY <5>1, <5>2
      <4>2. DOMAIN bags = 1 .. Len(bags) /\ Len(bags) \in Nat
        BY <4>1
      <4>. QED BY <2>2, <4>1, <4>2
    <3>3. \A j \in DOMAIN bags : AllFired(bags[j])
      BY <3>1, <3>2 DEF Passed, Behind
    <3>4. \A g \in Groups : group[g] # "gone" => g \in Range(bags)
      BY <3>1 DEF Passed, Staged, Known
    <3> SUFFICES ASSUME NEW g \in Groups, group'[g] # "gone" PROVE AllFired(g)'
      BY DEF Idle
    <3>5. g \in Range(bags)
      BY <3>4, GoneForGood
    <3>6. AllFired(g)
      BY <3>3, <3>5 DEF Range
    <3>. QED BY <3>1, <3>6, FiredKept
  <2>. QED BY <2>1, <2>2
<1>6. CASE Handle \/ Drained \/ Tick \/ Stop \/ Release
  <2>1. run' = run \/ run' \in {"panicked", "bags", "drain", "released"}
    BY <1>6 DEF Handle, Drained, Tick, Stop, AfterStop, Release
  <2>. QED BY <1>1, <2>1 DEF Idle
<1>. QED
  BY <1>1, <1>3, <1>4, <1>5, <1>6
  DEF SerialNext, serialAll, runVars, InitCall, SubscribeAll, Arrive, Write, Claim, Fill, Fail,
      FailSend, FailPanics, AssignmentTask, Fire, RunReject, RunUnsubscribe, UnsubscribeCall,
      UnsubscribeGroup, UnsubscribeSend, UnsubscribeTimeout, UnsubscribePanics, Close, CloseEnds,
      CtxDone

LEMMA BehindStep ==
  ASSUME InOrderSetup, Typed, Table, Passed, [SerialNext]_serialAll
  PROVE  Behind'
<1>1. Behind /\ Staged
  BY DEF Passed
<1>2. ASSUME run = "bags", run' = "bags", bag' = bag, UNCHANGED <<taken, fired, bags>>
      PROVE  Behind'
  <2>1. ASSUME NEW j \in DOMAIN bags, j < bag PROVE \A h : h = bags'[j] => AllFired(h)'
    <3>1. AllFired(bags[j]) /\ bags'[j] = bags[j]
      BY <1>1, <1>2, <2>1 DEF Behind
    <3>2. \A h : h = bags[j] => AllFired(h)'
      BY <1>2, <3>1, FiredKept
    <3>. QED BY <3>1, <3>2
  <2>2. \A j \in DOMAIN bags' : j < bag' => AllFired(bags[j])'
    BY <1>2, <2>1
  <2>. QED BY <1>2, <2>2 DEF Behind
<1>3. ASSUME run # "bags", run' # "bags", bag' = bag PROVE Behind'
  BY <1>1, <1>3 DEF Behind
<1>4. CASE InitCall \/ SubscribeAll \/ Run
  BY <1>3, <1>4, SetupSteps, <1>1 DEF InitCall, SubscribeAll, Run, runVars
<1>5. CASE Handle
  <2>1. run # "bags" /\ run' # "bags" /\ bag' = bag
    BY <1>5 DEF Handle
  <2>. QED BY <1>3, <2>1
<1>6. CASE Drained
  <2>1. run = "drain" /\ run' = "bags" /\ bag' = bag /\ bags' = bags
    BY <1>6 DEF Drained, bagVars
  <2>2. bag' = 1
    BY <1>1, <2>1 DEF Behind
  <2>3. bags' \in Seq(Groups)
    BY <2>1 DEF Typed, BagTypes
  <2>4. \A j \in DOMAIN bags' : ~(j < 1)
    BY <2>3
  <2>. QED BY <2>1, <2>2, <2>4 DEF Behind
<1>7. CASE Fire
  <2> DEFINE g == bags[bag]
  <2>1. g \in Groups /\ Fires(g) /\ taken' = taken
    BY <1>7 DEF Fire, Fires, Typed, BagTypes, ringVars
  <2>2. run = "bags" /\ run' = "bags" /\ bag' = bag /\ bags' = bags
    BY <1>7 DEF Fire, runVars
  <2>3. bags \in Seq(Groups)
    BY DEF Typed, BagTypes
  <2> HIDE DEF g
  <2>4. ~AllFired(g) /\ \A h \in Groups : h # g => fired'[h] = fired[h]
    BY <2>1, CompleteIsNotFired, FireEffect DEF Typed
  <2>5. ASSUME NEW j \in DOMAIN bags, j < bag PROVE \A h : h = bags'[j] => AllFired(h)'
    <3>1. AllFired(bags[j]) /\ bags[j] \in Groups
      BY <1>1, <2>2, <2>3, <2>5 DEF Behind
    <3>2. bags[j] # g
      BY <2>4, <3>1
    <3>3. AllFired(bags[j]) /\ fired'[bags[j]] = fired[bags[j]]
      BY <2>4, <3>1, <3>2
    <3>4. \A h : h = bags[j] => AllFired(h)'
      BY <2>1, <3>3, FiredKept
    <3>. QED BY <2>2, <3>4
  <2>6. \A j \in DOMAIN bags' : j < bag' => AllFired(bags[j])'
    BY <2>2, <2>5
  <2>. QED BY <2>2, <2>6 DEF Behind
<1>8. CASE NextBag
  <2>1. run = "bags" /\ taken' = taken /\ fired' = fired /\ bags' = bags
    BY <1>8 DEF NextBag, ringVars, bagVars
  <2>2. CASE bag \in DOMAIN bags
    <3>1. bag' = bag + 1 /\ run' = "bags" /\ ~Complete(bags[bag])
      BY <1>8, <2>1, <2>2 DEF NextBag
    <3>2. bags \in Seq(Groups)
      BY DEF Typed, BagTypes
    <3>3. bags[bag] \in Groups /\ \A j \in DOMAIN bags : j < bag + 1 => j < bag \/ j = bag
      BY <2>2, <3>2
    <3>4. AllFired(bags[bag])
      BY <3>1, <3>3, IncompleteIsFired
    <3>5. \A j \in DOMAIN bags : j < bag + 1 => AllFired(bags[j])
      BY <1>1, <2>1, <3>3, <3>4 DEF Behind
    <3>6. ASSUME NEW j \in DOMAIN bags, j < bag + 1 PROVE \A h : h = bags'[j] => AllFired(h)'
      BY <2>1, <3>5, <3>6, FiredKept
    <3>7. \A j \in DOMAIN bags' : j < bag' => AllFired(bags[j])'
      BY <2>1, <3>1, <3>6
    <3>. QED BY <3>1, <3>7 DEF Behind
  <2>3. CASE bag \notin DOMAIN bags
    BY <1>8, <2>3 DEF NextBag, Behind
  <2>. QED BY <2>2, <2>3
<1>9. CASE Tick \/ RunCloses \/ RunClosed \/ Stop \/ Release \/ RunUnsubscribe
  BY <1>3, <1>9
  DEF Tick, RunCloses, RunClosed, Stop, AfterStop, Release, RunUnsubscribe, runVars
<1>10. CASE UNCHANGED <<run, bag, taken, fired, bags>>
  BY <1>2, <1>3, <1>10
<1>11. CASE \E f \in Frames : Arrive(f) \/ Write(f)
  <2>1. taken' = taken
    BY <1>11 DEF Arrive, Write, Claim, Fill, Ring!Claim, Ring!Fill, ringVars
  <2>. QED BY <1>10, <1>11, <2>1 DEF Arrive, Write, Claim, Fill, runVars, bagVars
<1>. QED
  BY <1>4, <1>5, <1>6, <1>7, <1>8, <1>9, <1>10, <1>11
  DEF SerialNext, serialAll, ringVars, runVars, bagVars, Fail, FailSend, FailPanics,
      AssignmentTask, RunReject, UnsubscribeCall, UnsubscribeGroup, UnsubscribeSend,
      UnsubscribeTimeout, UnsubscribePanics, Close, CloseEnds, CtxDone

LEMMA InitPassed == SerialInit => Passed
<1> SUFFICES ASSUME SerialInit PROVE Passed
  OBVIOUS
<1>1. Staged /\ Known /\ Behind
  BY DEF SerialInit, Staged, Known, Behind
<1>2. ASSUME NEW g \in Groups PROVE AllFired(g)
  <2>1. Channels[g] \in Seq(Range(Channels[g])) /\ Channels[g] # <<>>
    BY SerialAssumption
  <2>2. PICK i : i \in DOMAIN Channels[g]
    BY <2>1
  <2>3. Messages(g, i) = {}
    BY DEF SerialInit, Ring!Init, Messages
  <2>4. Len(fired[g]) = 0 /\ Cardinality(Messages(g, i)) = 0
    BY <2>3, FS_EmptySet DEF SerialInit
  <2>. QED BY <2>2, <2>4 DEF AllFired
<1>. QED BY <1>1, <1>2 DEF Passed, Idle

PassedInv == Typed /\ Table /\ Passed

LEMMA PassedAlways == ASSUME InOrderSetup PROVE SerialSpec => []PassedInv
<1>1. SerialInit => PassedInv
  BY InitTyped, InitTable, InitPassed DEF PassedInv
<1>2. PassedInv /\ [SerialNext]_serialAll => PassedInv'
  <2> SUFFICES ASSUME PassedInv, [SerialNext]_serialAll PROVE PassedInv'
    OBVIOUS
  <2>1. Typed' /\ Table'
    BY TypedStep, TableStep DEF PassedInv
  <2>2. Staged' /\ Known'
    BY StagedStep, KnownStep DEF PassedInv, Passed
  <2>3. Idle' /\ Behind'
    BY IdleStep, BehindStep DEF PassedInv
  <2>. QED BY <2>1, <2>2, <2>3 DEF PassedInv, Passed
<1>. QED BY <1>1, <1>2, PTL DEF SerialSpec

\* When the program sets the Serial up as its test does, the rows are aligned, and
\* whenever Run waits in its select the function was called with every row that is
\* complete (serial.go, Run and assignmentTask): none is left for the next tick.
THEOREM BagsStayAligned ==
  ASSUME Setup = <<"Init", "SubscribeAll", "Run">> PROVE SerialSpec => []BagsAligned
<1>1. PassedInv => BagsAligned
  BY TableAligned DEF PassedInv, Passed, Idle, BagsAligned
<1>2. SerialSpec => []PassedInv
  BY PassedAlways DEF InOrderSetup
<1>. QED BY <1>1, <1>2, PTL

=============================================================================
