------------------------------- MODULE ReadLoop -------------------------------
(****************************************************************************)
(* The read loops of the sessions (transport/tcp_server.go tcpReceive and   *)
(* ioLoop, tcp_client.go Run, tcp_session.go ioRead) and the Limiter they   *)
(* share (util/limiter.go).  The bytes of a connection come in any pieces;  *)
(* a session holds them in a buffer of a pool and routes the whole frames.  *)
(****************************************************************************)
EXTENDS Integers, FiniteSets, SequencesExt

CONSTANTS
  Conns,
  Servers,      \* those that were accepted: a protocol head comes first
  Streams,      \* what each one's peer may send: sequences of [len, kind]
  HeadLength,   \* FrameHeadLength
  BufLength,    \* BytesPoolLenght
  LimitSize, LimitRate,
  HeadInPieces, \* the protocol head may come in more than one piece
  SlowLoops     \* a loop may outlast the 5 s after Close

ASSUME ConstantsAssumption ==
  /\ IsFiniteSet(Conns) /\ Servers \subseteq Conns
  /\ {HeadLength, BufLength, LimitSize, LimitRate} \subseteq Nat \ {0}
  /\ BufLength < LimitSize   \* NewSidecar
  /\ \A c \in Conns : \A s \in Streams[c] :
       s \in Seq([len : Nat, kind : {"work", "nobody", "nil", "exit", "panics"}])
         /\ \A k \in DOMAIN s : s[k].len >= HeadLength
  /\ {HeadInPieces, SlowLoops} \subseteq BOOLEAN

VARIABLES
  stream,       \* what the peer of a connection sends, and closes
  got,          \* how many bytes of it were read
  mem,          \* the buffers of bytesPool: cells <<connection, byte>>
  pool,         \* those that nobody holds
  rBuf, r, w,   \* the session's
  closed,       \* SessionTCP.Close: "no", "yes" (Conn.Close()), "pooled" (5 s later)
  pc,           \* the loop's control point
  routed,       \* history: the frames handlers were called with, and came back
  tokens, limiter   \* the Limiter's, and the control point of its Run

sessionVars == <<stream, got, mem, pool, rBuf, r, w, routed>>
limiterVars == <<tokens, limiter>>
vars == <<sessionVars, closed, pc, limiterVars>>

Buffers == 1 .. Cardinality(Conns)
\* The byte the k-th frame of a stream begins at.
Offset(s, k) == FoldLeft(LAMBDA n, f : n + f.len, 0, SubSeq(s, 1, k - 1))

Size(c) == Offset(stream[c], Len(stream[c]) + 1)

Init ==
  /\ stream \in [Conns -> UNION Range(Streams)]
  /\ \A c \in Conns : stream[c] \in Streams[c]
  /\ got = [c \in Conns |-> 0]
  /\ mem = [b \in Buffers |-> [i \in 1 .. BufLength |-> <<>>]]
  /\ pool = Buffers /\ rBuf = [c \in Conns |-> 1]
  /\ r = [c \in Conns |-> 0] /\ w = [c \in Conns |-> 0]
  /\ closed = [c \in Conns |-> "no"]
  /\ pc = [c \in Conns |-> "new"]
  /\ routed = [c \in Conns |-> <<>>]
  /\ tokens = 0 /\ limiter = "new"

Goto(c, l) == pc' = [pc EXCEPT ![c] = l]

----------------------------------------------------------------------------
(* A session begins and ends                                                *)

\* NewSessionTCP: bytesPool.Get gives any buffer that nobody holds, or a new one.
NewSession(c) ==
  /\ pc[c] = "new"
  /\ \E b \in pool : rBuf' = [rBuf EXCEPT ![c] = b] /\ pool' = pool \ {b}
  /\ Goto(c, IF c \in Servers THEN "head" ELSE "read")
  /\ UNCHANGED <<stream, got, mem, r, w, routed, closed, limiterVars>>

\* readUint32 and protocolMagic: one Read, whatever it returns, and its deadline.
ReadHead(c) ==
  /\ pc[c] = "head"
  /\ \/ closed[c] = "no" /\ Goto(c, "read")
     \/ Goto(c, "cut")
     \/ HeadInPieces /\ Goto(c, "refused")
  /\ UNCHANGED <<sessionVars, closed, limiterVars>>

Over(c) == pc[c] \in {"end", "cut", "overflow", "refused"}

\* Close, by the loop when it is over or before by another goroutine: cluster closes
\* the sessions of nodes that are gone.
Close(c) ==
  /\ pc[c] # "new" /\ closed[c] = "no"
  /\ closed' = [closed EXCEPT ![c] = "yes"]
  /\ UNCHANGED <<sessionVars, pc, limiterVars>>

\* 5 s after Close: bytesPool.Put.
Recycle(c) ==
  /\ closed[c] = "yes" /\ (SlowLoops \/ Over(c))
  /\ pool' = pool \cup {rBuf[c]}
  /\ closed' = [closed EXCEPT ![c] = "pooled"]
  /\ UNCHANGED <<stream, got, mem, rBuf, r, w, routed, pc, limiterVars>>

----------------------------------------------------------------------------
(* ioRead                                                                   *)

Moved_Not(c) == mem[rBuf[c]]

\* What is left of the buffer, moved to its beginning.
Moved(c) ==
  [i \in 1 .. BufLength |-> mem[rBuf[c]][IF i + r[c] <= w[c] THEN i + r[c] ELSE i]]

Left(c) == w[c] - r[c]

\* A buffer that is full after the move ends the session.
Overflow(c) ==
  /\ pc[c] = "read" /\ Left(c) >= BufLength
  /\ Goto(c, "overflow")
  /\ UNCHANGED <<sessionVars, closed, limiterVars>>

Read(c, n) ==
  /\ pc[c] = "read" /\ closed[c] = "no"
  /\ Left(c) + n <= BufLength /\ got[c] + n <= Size(c)
  /\ mem' = [mem EXCEPT ![rBuf[c]] =
                [i \in 1 .. BufLength |->
                   IF i - Left(c) \in 1 .. n THEN <<c, got[c] + i - Left(c)>>
                   ELSE Moved(c)[i]]]
  /\ got' = [got EXCEPT ![c] = @ + n]
  /\ r' = [r EXCEPT ![c] = 0] /\ w' = [w EXCEPT ![c] = Left(c) + n]
  /\ Goto(c, "take")
  /\ UNCHANGED <<stream, pool, rBuf, routed, closed, limiterVars>>

\* EOF after all that was sent; or "use of closed network connection", or the deadline
\* of the Read, which may pass while more is to come.
ReadEnds(c) ==
  /\ pc[c] = "read" /\ Left(c) < BufLength
  /\ Goto(c, IF closed[c] = "no" /\ got[c] = Size(c) THEN "end" ELSE "cut")
  /\ UNCHANGED <<sessionVars, closed, limiterVars>>

----------------------------------------------------------------------------
(* Limiter                                                                  *)

\* Wait(n), n = all that is in the buffer
Take(c) ==
  /\ pc[c] = "take"
  /\ tokens' = tokens - w[c]
  /\ Goto(c, IF tokens' < 0 THEN "back" ELSE "route")
  /\ UNCHANGED <<sessionVars, closed, limiter>>

AddBack(c) ==
  /\ pc[c] = "back"
  /\ tokens' = tokens + w[c]
  /\ Goto(c, "take")
  /\ UNCHANGED <<sessionVars, closed, limiter>>

\* Run begins with a plain store, after loops may have begun to wait.
LimiterRun ==
  /\ limiter = "new" /\ limiter' = "select"
  /\ tokens' = LimitSize
  /\ UNCHANGED <<sessionVars, closed, pc>>

Refill ==
  /\ limiter = "select"
  /\ tokens' = tokens + LimitRate
  /\ limiter' = IF tokens' > LimitSize THEN "cap" ELSE "select"
  /\ UNCHANGED <<sessionVars, closed, pc>>

Capped_Not == tokens

Capped == LimitSize

Cap ==
  /\ limiter = "cap" /\ limiter' = "select"
  /\ tokens' = Capped
  /\ UNCHANGED <<sessionVars, closed, pc>>

----------------------------------------------------------------------------
(* getFrameType, GetFrameSlice, route                                       *)

\* The frame whose head is at r.  (There is one whenever there are enough bytes, as
\* long as the buffer is the session's own.)
FramesAt(c) ==
  {fr \in UNION {{d} \X DOMAIN stream[d] : d \in Conns} :
     /\ Left(c) >= HeadLength
     /\ mem[rBuf[c]][r[c] + 1] = <<fr[1], Offset(stream[fr[1]], fr[2]) + 1>>}

Whole_Before(c, len) == r[c] + len < w[c]

Whole(c, len) == r[c] + len <= w[c]

\* What ends a loop at once: FrameTypeExit, and a handler that panics, which ioLoop and
\* Run recover from and return.
Ends(f) == f.kind \in {"exit", "panics"}

\* A handler's error is logged, as is that nobody handles the type.
Route(c) ==
  /\ pc[c] = "route"
  /\ \E fr \in FramesAt(c) :
       LET f == stream[fr[1]][fr[2]]
       IN  /\ Whole(c, f.len) /\ f.kind # "nil"
           /\ IF Ends(f)
              THEN Goto(c, "end") /\ UNCHANGED <<r, routed>>
              ELSE /\ r' = [r EXCEPT ![c] = @ + f.len]
                   /\ routed' = [routed EXCEPT ![c] = IF f.kind = "work" THEN Append(@, fr) ELSE @]
                   /\ UNCHANGED pc
  /\ UNCHANGED <<stream, got, mem, pool, rBuf, w, closed, limiterVars>>

\* FrameTypeNil: nothing whole is left, or a peer sent this type.
RouteNil(c) ==
  /\ pc[c] = "route"
  /\ \A fr \in FramesAt(c) :
       LET f == stream[fr[1]][fr[2]] IN Whole(c, f.len) => f.kind = "nil"
  /\ Goto(c, "read")
  /\ UNCHANGED <<sessionVars, closed, limiterVars>>

----------------------------------------------------------------------------

Reads(c) == Overflow(c) \/ (\E n \in 1 .. BufLength : Read(c, n)) \/ ReadEnds(c)
Loop(c) == NewSession(c) \/ ReadHead(c) \/ Reads(c) \/ Take(c) \/ AddBack(c)
             \/ Route(c) \/ RouteNil(c)

Next ==
  \/ \E c \in Conns : Loop(c) \/ Close(c) \/ Recycle(c)
  \/ LimiterRun \/ Refill \/ Cap

Spec == Init /\ [][Next]_vars

\* A loop goes on, the peer's bytes come, the ticker of the Limiter fires.
FairSpec ==
  /\ Spec
  /\ \A c \in Conns : WF_vars(Loop(c))
  /\ WF_vars(LimiterRun) /\ WF_vars(Refill) /\ WF_vars(Cap)

----------------------------------------------------------------------------
(* Properties                                                               *)

Held == Cardinality(Conns) * BufLength

\* Every variable stays in its type: r and w within the buffer, and the tokens,
\* which loops borrow and the Limiter's Run adds and caps in two steps, between
\* bounds that do not depend on how long they do so.
TypeOK ==
  /\ \A c \in Conns : stream[c] \in Streams[c]
  /\ pool \subseteq Buffers
  /\ rBuf \in [Conns -> Buffers]
  /\ \A c \in Conns : /\ 0 <= r[c] /\ r[c] <= w[c] /\ w[c] <= BufLength
                      /\ got[c] \in 0 .. Size(c)
                      /\ routed[c] \in Seq(Conns \X Nat)
  /\ \A b \in Buffers, i \in 1 .. BufLength : mem[b][i] \in {<<>>} \cup (Conns \X Nat)
  /\ closed \in [Conns -> {"no", "yes", "pooled"}]
  /\ pc \in [Conns -> {"new", "head", "read", "take", "back", "route",
                      "end", "cut", "overflow", "refused"}]
  /\ limiter \in {"new", "select", "cap"}
  /\ tokens \in -Held .. LimitSize + LimitRate + Held

\* What the peer of c sent for the handlers, up to the first frame that a loop
\* cannot get past: one that ends it, FrameTypeNil or one that is longer than rBuf.
Stops(f) == Ends(f) \/ f.kind = "nil" \/ f.len > BufLength

Readable(c) ==
  LET s == stream[c]
      work == {k \in DOMAIN s : s[k].kind = "work" /\ \A j \in 1 .. k : ~Stops(s[j])}
  IN  [i \in 1 .. Cardinality(work) |->
         <<c, CHOOSE k \in work : Cardinality({j \in work : j <= k}) = i>>]

\* The handlers of a session get the frames its peer sent, each once, whole and in
\* order, however the bytes came and whoever had the buffer before.
RoutedInOrder == \A c \in Conns : IsPrefix(routed[c], Readable(c))

\* Every loop comes to an end, and unless the session is closed under it, or its peer
\* is silent for longer than the deadline, all that was sent for the handlers has
\* reached them.
ReadsAll ==
  \A c \in Conns :
    <>(pc[c] = "cut" \/ (pc[c] \in {"end", "overflow"} /\ routed[c] = Readable(c)))
=============================================================================
