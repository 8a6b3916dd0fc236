--------------------------- MODULE CircuitBreaker ---------------------------
(****************************************************************************)
(* The circuit breaker of a session (util/circuitBreaker.go) with the ping  *)
(* and pong that close it again (transport/tcp_session.go, handler.go).     *)
(*                                                                          *)
(* ErrorRecord counts errors in a sliding window of buckets under a mutex   *)
(* and opens the breaker; IsPass lets one caller take the half-open token   *)
(* and ping the peer; the pong closes the breaker and gives the token back. *)
(*                                                                          *)
(* Time is kept as ages: a tick of one bucket period adds one to the age of *)
(* every stamp, up to the first value the code cannot tell from a larger    *)
(* one.                                                                     *)
(****************************************************************************)
EXTENDS Integers, FiniteSets, SequencesExt

CONSTANTS
  Callers,                 \* goroutines that call IsPass
  RollingBucketsNum,
  RequestVolumeThreshold,
  SleepWindow,             \* in bucket periods
  MaxErrors,               \* bound: errors recorded in one bucket period
  MaxPings,                \* bound: pings under way at a time
  Faults                   \* bound: what may befall a pong: "lost" on the way,
                           \* "foreign", handled for another session

ASSUME ConstantsAssumption ==
  /\ IsFiniteSet(Callers)
  /\ RollingBucketsNum \in Nat \ {0}
  /\ RequestVolumeThreshold \in Nat \ {0}
  /\ SleepWindow \in Nat \ {0}
  /\ MaxErrors \in Nat /\ MaxPings \in Nat
  /\ Faults \subseteq {"lost", "foreign"}

VARIABLES
  state,          \* Closed or Open
  halfOpenToken,  \* TRUE: taken
  stampAge,       \* age of timestamp
  item,           \* the buckets, each [age, count, total]
  recorder,       \* the ErrorRecord that holds the mutex
  pc,             \* the callers in IsPass
  pings,          \* pings under way to the peer, or their pongs back
  pong,           \* the read loop in SetCircuitBreakerPass
  errors,         \* history: errors of the last periods, by age
  faults          \* history: what has befallen a pong so far

breakerVars == <<state, halfOpenToken>>
windowVars == <<item, errors>>
vars ==
  <<breakerVars, stampAge, windowVars, recorder, pc, pings, pong, faults>>

Oldest == RollingBucketsNum   \* t - stamp < RollingBucketsNum fails from here on
Asleep == SleepWindow + 1     \* now - timestamp > SleepWindow holds from here on

\* timestamp is 0 at first: long ago.
Init ==
  /\ state = "Closed" /\ halfOpenToken = FALSE
  /\ stampAge = Asleep
  /\ item = <<>>
  /\ errors = [a \in 0 .. RollingBucketsNum - 1 |-> 0]
  /\ recorder = "idle" /\ pc = [c \in Callers |-> "idle"]
  /\ pings = 0 /\ pong = "idle"
  /\ faults = {}

\* Ages from the limit on are one: the code cannot tell them apart.
Older(a, limit) == IF a < limit THEN a + 1 ELSE a

\* One bucket period passes.
Tick ==
  /\ stampAge' = Older(stampAge, Asleep)
  /\ item' = [i \in DOMAIN item |-> [item[i] EXCEPT !.age = Older(@, Oldest)]]
  /\ errors' = [a \in DOMAIN errors |-> IF a = 0 THEN 0 ELSE errors[a - 1]]
  /\ UNCHANGED <<breakerVars, recorder, pc, pings, pong, faults>>

----------------------------------------------------------------------------
(* ErrorRecord                                                              *)

Fresh_Uncounted(total) == [age |-> 0, count |-> 0, total |-> total]

Fresh(total) == [age |-> 0, count |-> 1, total |-> total]

InWindow(b) == b.age < RollingBucketsNum

\* The buckets behind the last one that is out of the window stay.
Kept_All(s) == s

Kept(s) ==
  LET out == {i \in DOMAIN s : ~InWindow(s[i])}
  IN  IF out = {} THEN s ELSE SubSeq(s, Max(out) + 1, Len(s))

SumCounts(s) == FoldSeq(LAMBDA b, n : b.count + n, 0, s)

\* total starts at 1 and the loop adds every bucket in the window, the new one
\* included.
NewTotal(s) == 1 + SumCounts(Kept(Append(s, Fresh(1))))

\* One error more in a bucket.
Counted(b) == [age |-> b.age, count |-> b.count + 1, total |-> b.total + 1]

Recorded ==
  IF item = <<>> THEN <<Fresh(1)>>
  ELSE IF Last(item).age = 0
  THEN [item EXCEPT ![Len(item)] = Counted(@)]
  ELSE Kept(Append(item, Fresh(NewTotal(item))))

Trips(b) == b.total >= RequestVolumeThreshold

ErrorRecord ==
  /\ recorder = "idle"
  /\ errors[0] < MaxErrors
  /\ errors' = [errors EXCEPT ![0] = @ + 1]
  /\ item' = Recorded
  /\ recorder' = IF Trips(Last(Recorded)) THEN "swap" ELSE "idle"
  /\ UNCHANGED <<breakerVars, stampAge, pc, pings, pong, faults>>

\* CompareAndSwapUint32(&cb.state, Closed, Open)
RecordSwap ==
  /\ recorder = "swap"
  /\ \/ /\ state = "Closed"
        /\ state' = "Open" /\ recorder' = "stamp"
     \/ /\ state # "Closed"
        /\ recorder' = "idle" /\ UNCHANGED state
  /\ UNCHANGED <<halfOpenToken, stampAge, windowVars, pc, pings, pong, faults>>

RecordStamp ==
  /\ recorder = "stamp"
  /\ stampAge' = 0
  /\ recorder' = "idle"
  /\ UNCHANGED <<breakerVars, windowVars, pc, pings, pong, faults>>

----------------------------------------------------------------------------
(* IsPass                                                                   *)

Goto(c, l) == pc' = [pc EXCEPT ![c] = l]

\* A closed breaker passes; the call is over at once.
IsPass(c) ==
  /\ pc[c] = "idle"
  /\ state # "Closed"
  /\ Goto(c, "sleep")
  /\ UNCHANGED <<breakerVars, stampAge, windowVars, recorder, pings, pong, faults>>

Awake(c) == stampAge > SleepWindow

CheckSleep(c) ==
  /\ pc[c] = "sleep"
  /\ Goto(c, IF Awake(c) THEN "take" ELSE "idle")
  /\ UNCHANGED <<breakerVars, stampAge, windowVars, recorder, pings, pong, faults>>

TokenFree_Ignored(c) == TRUE

TokenFree(c) == ~halfOpenToken

TakeToken(c) ==
  /\ pc[c] = "take"
  /\ Goto(c, IF TokenFree(c) THEN "stamp" ELSE "idle")
  /\ halfOpenToken' = TRUE
  /\ UNCHANGED <<state, stampAge, windowVars, recorder, pings, pong, faults>>

Stamp(c) ==
  /\ pc[c] = "stamp"
  /\ stampAge' = 0
  /\ Goto(c, "ping")
  /\ UNCHANGED <<breakerVars, windowVars, recorder, pings, pong, faults>>

\* HalfOpenFunc is sessionTCPPing: WriteFrameDataPromptly(FramePing).
PingSent(c) ==
  /\ pc[c] = "ping" /\ pings < MaxPings
  /\ pings' = pings + 1
  /\ Goto(c, "idle")
  /\ UNCHANGED <<breakerVars, stampAge, windowVars, recorder, pong, faults>>

TokenAfterFailure_Kept == halfOpenToken

TokenAfterFailure == FALSE

PingFailed(c) ==
  /\ pc[c] = "ping"
  /\ halfOpenToken' = TokenAfterFailure
  /\ Goto(c, "idle")
  /\ UNCHANGED <<state, stampAge, windowVars, recorder, pings, pong, faults>>

----------------------------------------------------------------------------
(* The pong                                                                 *)

\* sessionTCPPong in the session's read loop: SetCircuitBreakerPass stores the
\* state, then the token.
Pong ==
  /\ pong = "idle"
  /\ pings > 0
  /\ pings' = pings - 1
  /\ state' = "Closed"
  /\ pong' = "token"
  /\ UNCHANGED <<halfOpenToken, stampAge, windowVars, recorder, pc, faults>>

\* The pong of another session runs this session's handler.
ForeignPong ==
  /\ "foreign" \in Faults /\ pong = "idle"
  /\ state' = "Closed"
  /\ pong' = "token"
  /\ faults' = faults \cup {"foreign"}
  /\ UNCHANGED <<halfOpenToken, stampAge, windowVars, recorder, pc, pings>>

PongToken ==
  /\ pong = "token"
  /\ halfOpenToken' = FALSE
  /\ pong' = "idle"
  /\ UNCHANGED <<state, stampAge, windowVars, recorder, pc, pings, faults>>

\* The pong never comes, or runs the handler of another session.
PongLost ==
  /\ "lost" \in Faults /\ pings > 0
  /\ pings' = pings - 1
  /\ faults' = faults \cup {"lost"}
  /\ UNCHANGED <<breakerVars, stampAge, windowVars, recorder, pc, pong>>

----------------------------------------------------------------------------

Call(c) ==
  \/ IsPass(c) \/ CheckSleep(c) \/ TakeToken(c) \/ Stamp(c)
  \/ PingSent(c) \/ PingFailed(c)

Record == ErrorRecord \/ RecordSwap \/ RecordStamp

Next ==
  \/ Tick
  \/ Record
  \/ \E c \in Callers : Call(c)
  \/ Pong \/ ForeignPong \/ PongToken \/ PongLost

Spec == Init /\ [][Next]_vars

\* Time passes, the callers keep calling, a mutex holder goes on, the read loop
\* reads; a ping that is tried again and again is sent at last.
FairSpec ==
  /\ Spec
  /\ WF_vars(Tick) /\ WF_vars(RecordSwap \/ RecordStamp)
  /\ WF_vars(Pong) /\ WF_vars(PongToken)
  /\ \A c \in Callers : WF_vars(Call(c)) /\ SF_vars(PingSent(c))

----------------------------------------------------------------------------
(* Properties                                                               *)

\* Every variable stays in its type.
TypeOK ==
  /\ state \in {"Closed", "Open"}
  /\ halfOpenToken \in BOOLEAN
  /\ stampAge \in 0 .. Asleep
  /\ item \in Seq([age : 0 .. Oldest, count : Nat \ {0}, total : Nat \ {0}])
  /\ errors \in [0 .. RollingBucketsNum - 1 -> 0 .. MaxErrors]
  /\ recorder \in {"idle", "swap", "stamp"}
  /\ pc \in [Callers -> {"idle", "sleep", "take", "stamp", "ping"}]
  /\ pings \in Nat
  /\ pong \in {"idle", "token"}
  /\ faults \subseteq Faults

\* The probes under way: taken tokens, pings, pongs being handled.
Probes ==
  Cardinality({c \in Callers : pc[c] \in {"stamp", "ping"}}) + pings
    + (IF pong = "token" THEN 1 ELSE 0)

\* The half-open state lets one probe through: while a probe is under way the
\* token is taken, so no other caller sends one, and unless a pong was lost the
\* token is held by nothing else.  A pong of another session breaks both.
OneProbe ==
  "foreign" \notin faults =>
    /\ Probes <= 1
    /\ Probes = 1 => halfOpenToken
    /\ halfOpenToken => Probes = 1 \/ "lost" \in faults

\* The errors ErrorRecord saw in the window that ends a periods ago.
ErrorsUpTo(a) ==
  FoldSet(LAMBDA b, n : errors[b] + n, 0,
          {b \in DOMAIN errors : b >= a})

\* Once an error is recorded, the newest bucket's total is the number of errors
\* in the window, or one more: the breaker never opens late.
TotalWithinOne ==
  item # <<>> /\ Last(item).age = 0 =>
    Last(item).total \in {ErrorsUpTo(0), ErrorsUpTo(0) + 1}

\* The breaker opens only when the window holds RequestVolumeThreshold errors.
TripsAtThreshold ==
  recorder = "swap" /\ Last(item).age = 0 =>
    ErrorsUpTo(0) >= RequestVolumeThreshold

\* A probe is sent only after the breaker was open for the SleepWindow: nobody
\* reaches the token while the time of this opening is still to be stored.
SleepsBeforeProbe ==
  recorder = "stamp" /\ state = "Open" =>
    \A c \in Callers : pc[c] = "take" => ~TokenFree(c)

\* Only the answer to the session's own probe closes its breaker.
ClosesOnOwnProbe == [][state = "Open" /\ state' = "Closed" => pings > 0]_vars

\* An open breaker closes again unless a pong was lost: the token always finds its
\* way back, whichever of the callers, the recorder and the read loop comes first.
Recovers == (state = "Open") ~> (state = "Closed" \/ "lost" \in faults)

\* An open breaker closes again, whatever happens to a ping.
AlwaysRecovers == (state = "Open") ~> (state = "Closed")
=============================================================================
