------------------------------ MODULE WriteSlot ------------------------------
(****************************************************************************)
(* The buffered send path of a session (transport/tcp_session.go).          *)
(*                                                                          *)
(* Many goroutines call WriteFrameDataToCache.  Each claims a byte range of *)
(* the session's current slot with atomic additions, copies its frame there *)
(* and returns; the goroutine that claimed offset 0 hands the slot to the   *)
(* dispatcher.  A dispatcher worker runs slot.WorkFunc: it installs a new   *)
(* current slot, waits for the slot's writeLock to drop to zero, writes the *)
(* committed bytes with one Conn.Write and releases the slot.  Close stops  *)
(* new calls, waits for the handed-over jobs and closes the connection.     *)
(*                                                                          *)
(* One step is one atomic operation of the code.  A frame is sent by one    *)
(* call, and the call is named by its frame.                                *)
(****************************************************************************)
EXTENDS Integers, FiniteSets, Sequences

CONSTANTS
  Frames,             \* the frames handed to WriteFrameDataToCache
  FrameLen,           \* the length of every frame, in bytes
  NilErrFunc,         \* the frames sent with errFunc = nil
  BytesPoolLenght,    \* the length of a slot's buffer
  FrameHeadLength,    \* the length of a frame header, the shortest frame
  busyLimit,          \* retries on an overfull slot before ErrFailureBusy
  MaxSlots,           \* bound: slots ever installed after the first one
  SleepOutlastsLoad,  \* TRUE: WorkFunc's sleep outlasts the window between a
                      \* writer's LoadPointer and its writeLock increment
  LateStateEvents     \* TRUE: the cluster may apply a state event of the peer
                      \* to a session that is being closed or is closed

ASSUME ConstantsAssumption ==
  /\ IsFiniteSet(Frames)
  /\ NilErrFunc \subseteq Frames
  /\ FrameHeadLength \in Nat \ {0}
  /\ BytesPoolLenght \in Nat \ {0}
  /\ BytesPoolLenght % FrameHeadLength = 0
  /\ FrameLen \in [Frames -> Nat]
  /\ \A f \in Frames : FrameLen[f] >= FrameHeadLength
  /\ busyLimit \in Nat
  /\ MaxSlots \in Nat
  /\ SleepOutlastsLoad \in BOOLEAN
  /\ LateStateEvents \in BOOLEAN

Slots == 0 .. MaxSlots

\* rejectPool.New allocates one entry for every shortest frame of a buffer.
RejectsLen == BytesPoolLenght \div FrameHeadLength

VARIABLES
  state,            \* SessionTCP.state; StatePause refuses calls like StateDie
  closing,          \* progress of SessionTCP.Close
  wg,               \* the session's WaitGroup counter
  wSlot,            \* SessionTCP.wSlot, the current slot
  slotCount,        \* slots installed after the first one
  allotCursor, availableCursor, writeLock,  \* the slots' atomic counters
  rejects,          \* errFuncs registered in a slot, in rejectCursor order
  phase,            \* where a slot is in its life
  pc, my, start, busy,  \* a call's control point and its local variables
  bigJob,           \* the simpleSlot job of an oversized frame
  sent,             \* frames whose bytes Conn.Write accepted
  rejected,         \* how often a frame's errFunc was called
  torn,             \* a Conn.Write ended inside a frame or skipped bytes
  overtaken         \* history: the slots whose WorkFunc left its spin while a
                    \* call had loaded the slot and not yet counted itself

slotVars == <<allotCursor, availableCursor, writeLock, rejects>>
callVars == <<my, start, busy>>
fateVars == <<sent, rejected, torn, overtaken>>
vars == <<state, closing, wg, wSlot, slotCount, slotVars, phase, pc, callVars,
          bigJob, fateVars>>

Final == {"ok", "ErrConnClose", "ErrcircuitBreakerIsPass", "ErrFailureBusy",
          "panic"}
\* The control points between writeLock's increment and its decrement.
Holding == {"allot", "cross", "crossed", "busy", "commit", "register",
            "unlock", "panic"}
Committed == {"register", "unlock", "submit", "ok", "panic"}
Pcs == {"idle", "bigSubmit", "load", "lock"} \cup Holding \cup Committed
         \cup Final

End(f) == start[f] + FrameLen[f]

Init ==
  /\ state = "Work" /\ closing = "no" /\ wg = 0
  /\ wSlot = 0 /\ slotCount = 0
  /\ allotCursor = [s \in Slots |-> 0]
  /\ availableCursor = [s \in Slots |-> 0]
  /\ writeLock = [s \in Slots |-> 0]
  /\ rejects = [s \in Slots |-> <<>>]
  /\ phase = [s \in Slots |-> "live"]
  /\ pc = [f \in Frames |-> "idle"]
  /\ my = [f \in Frames |-> 0]
  /\ start = [f \in Frames |-> 0]
  /\ busy = [f \in Frames |-> 0]
  /\ bigJob = [f \in Frames |-> "none"]
  /\ sent = {} /\ rejected = [f \in Frames |-> 0] /\ torn = FALSE
  /\ overtaken = {}

Goto(f, l) == pc' = [pc EXCEPT ![f] = l]

\* newSlot followed by CompareAndSwapPointer(&wSlot, s, &ns): a slot that loses
\* the race is put back into the pool and never seen by anyone else.
InstallAfter(s) ==
  IF wSlot = s
  THEN /\ slotCount < MaxSlots
       /\ slotCount' = slotCount + 1
       /\ wSlot' = slotCount'
  ELSE UNCHANGED <<slotCount, wSlot>>

----------------------------------------------------------------------------
(* WriteFrameDataToCache                                                    *)

\* The early returns: closed session, circuit breaker not passing (the breaker
\* is a component of its own: any answer is possible here), oversized frame.
Call(f) ==
  /\ pc[f] = "idle"
  /\ \/ /\ state # "Work"
        /\ Goto(f, "ErrConnClose")
     \/ /\ state = "Work"
        /\ \/ Goto(f, "ErrcircuitBreakerIsPass")
           \/ Goto(f, IF FrameLen[f] >= BytesPoolLenght
                      THEN "bigSubmit" ELSE "load")
  /\ UNCHANGED <<state, closing, wg, wSlot, slotCount, slotVars, phase,
                 callVars, bigJob, fateVars>>

BigSubmit(f) ==
  /\ pc[f] = "bigSubmit"
  /\ wg' = wg + 1
  /\ bigJob' = [bigJob EXCEPT ![f] = "queued"]
  /\ Goto(f, "ok")
  /\ UNCHANGED <<state, closing, wSlot, slotCount, slotVars, phase, callVars,
                 fateVars>>

\* loop: myslot = LoadPointer(&wSlot)
Load(f) ==
  /\ pc[f] = "load"
  /\ my' = [my EXCEPT ![f] = wSlot]
  /\ Goto(f, "lock")
  /\ UNCHANGED <<state, closing, wg, wSlot, slotCount, slotVars, phase, start,
                 busy, bigJob, fateVars>>

Lock(f) ==
  /\ pc[f] = "lock"
  /\ writeLock' = [writeLock EXCEPT ![my[f]] = @ + 1]
  /\ Goto(f, "allot")
  /\ UNCHANGED <<state, closing, wg, wSlot, slotCount, allotCursor,
                 availableCursor, rejects, phase, callVars, bigJob, fateVars>>

Claim_OneByteOver(b, e) ==
  IF e <= BytesPoolLenght + 1 THEN "commit"
  ELSE IF b > BytesPoolLenght THEN "busy" ELSE "cross"

\* Where a claim of the bytes b .. e-1 leads.
Claim(b, e) ==
  IF e <= BytesPoolLenght THEN "commit"
  ELSE IF b > BytesPoolLenght THEN "busy" ELSE "cross"

\* The cursor after AddUint32(&allotCursor, length).
NewAllot(f) == allotCursor[my[f]] + FrameLen[f]

StartOf_OldCursor(f) == allotCursor[my[f]] - FrameLen[f]

\* start = end - length
StartOf(f) == NewAllot(f) - FrameLen[f]

Allot(f) ==
  /\ pc[f] = "allot"
  /\ allotCursor' = [allotCursor EXCEPT ![my[f]] = NewAllot(f)]
  /\ start' = [start EXCEPT ![f] = StartOf(f)]
  /\ Goto(f, Claim(StartOf(f), NewAllot(f)))
  /\ UNCHANGED <<state, closing, wg, wSlot, slotCount, availableCursor,
                 writeLock, rejects, phase, my, busy, bigJob, fateVars>>

\* start is past the end of the buffer: retry, or give up.
BusyUnlocked_KeepsLock(f) == writeLock

BusyUnlocked(f) == [writeLock EXCEPT ![my[f]] = @ - 1]

Busy(f) ==
  /\ pc[f] = "busy"
  /\ writeLock' = BusyUnlocked(f)
  /\ \/ /\ busy[f] > busyLimit
        /\ Goto(f, "ErrFailureBusy")
        /\ UNCHANGED busy
     \/ /\ busy[f] <= busyLimit
        /\ busy' = [busy EXCEPT ![f] = @ + 1]
        /\ Goto(f, "load")
  /\ UNCHANGED <<state, closing, wg, wSlot, slotCount, allotCursor,
                 availableCursor, rejects, phase, my, start, bigJob, fateVars>>

\* The claim that crosses the end of the buffer installs the next slot.
Cross(f) ==
  /\ pc[f] = "cross"
  /\ InstallAfter(my[f])
  /\ busy' = [busy EXCEPT ![f] = 0]
  /\ Goto(f, "crossed")
  /\ UNCHANGED <<state, closing, wg, slotVars, phase, my, start, bigJob,
                 fateVars>>

Crossed(f) ==
  /\ pc[f] = "crossed"
  /\ writeLock' = [writeLock EXCEPT ![my[f]] = @ - 1]
  /\ Goto(f, "load")
  /\ UNCHANGED <<state, closing, wg, wSlot, slotCount, allotCursor,
                 availableCursor, rejects, phase, callVars, bigJob, fateVars>>

NewAvailable(f) == availableCursor[my[f]] + FrameLen[f]

\* WriteToBytes into the claimed range, then AddUint32(&availableCursor, length).
Commit(f) ==
  /\ pc[f] = "commit"
  /\ availableCursor' = [availableCursor EXCEPT ![my[f]] = NewAvailable(f)]
  /\ Goto(f, "register")
  /\ UNCHANGED <<state, closing, wg, wSlot, slotCount, allotCursor, writeLock,
                 rejects, phase, callVars, bigJob, fateVars>>

\* rc := AddUint32(&rejectCursor, 1); rejects[rc] = errFunc.  The first index
\* written is 1; an index past the array panics with writeLock still held.
Register(f) ==
  /\ pc[f] = "register"
  /\ rejects' = [rejects EXCEPT ![my[f]] = Append(@, f)]
  /\ Goto(f, IF Len(rejects'[my[f]]) < RejectsLen THEN "unlock" ELSE "panic")
  /\ UNCHANGED <<state, closing, wg, wSlot, slotCount, allotCursor,
                 availableCursor, writeLock, phase, callVars, bigJob, fateVars>>

Submits_Always(f) == TRUE

Submits_WhenFull(f) == End(f) = BytesPoolLenght

\* start == 0: this call hands the slot to the dispatcher.
Submits(f) == start[f] = 0

Unlock(f) ==
  /\ pc[f] = "unlock"
  /\ writeLock' = [writeLock EXCEPT ![my[f]] = @ - 1]
  /\ Goto(f, IF Submits(f) THEN "submit" ELSE "ok")
  /\ UNCHANGED <<state, closing, wg, wSlot, slotCount, allotCursor,
                 availableCursor, rejects, phase, callVars, bigJob, fateVars>>

\* s.Add(1); JobQueue <- myslot.  A slot that Close released has no session:
\* its job cannot run.
Submit(f) ==
  /\ pc[f] = "submit"
  /\ wg' = wg + 1
  /\ phase' = [phase EXCEPT ![my[f]] = IF @ = "released" THEN "noSession"
                                             ELSE "queued"]
  /\ Goto(f, "ok")
  /\ UNCHANGED <<state, closing, wSlot, slotCount, slotVars, callVars, bigJob,
                 fateVars>>

----------------------------------------------------------------------------
(* The jobs run by the dispatcher's workers                                 *)

\* rejectsRange calls rejects[0 .. rejectCursor-1]; entry 0 is never written.
RejectsRange(s) ==
  {rejects[s][i] : i \in {j \in DOMAIN rejects[s] : j < Len(rejects[s])}}
    \ NilErrFunc

CallErrFuncs(F, n) ==
  rejected' = [f \in Frames |-> rejected[f] + IF f \in F THEN n ELSE 0]

\* slot.WorkFunc: install a successor, sleep, spin on writeLock, ...
WorkSwap(s) ==
  /\ phase[s] = "queued"
  /\ InstallAfter(s)
  /\ phase' = [phase EXCEPT ![s] = "spin"]
  /\ UNCHANGED <<state, closing, wg, slotVars, pc, callVars, bigJob, fateVars>>

Unlocked_Ignored(s) == TRUE

Unlocked(s) == writeLock[s] = 0

\* A call is between its LoadPointer(&wSlot) and its increment of writeLock.
Caught(s) == \E f \in Frames : pc[f] = "lock" /\ my[f] = s

WorkSpin(s) ==
  /\ phase[s] = "spin"
  /\ Unlocked(s)
  /\ SleepOutlastsLoad => ~Caught(s)
  /\ phase' = [phase EXCEPT ![s] = "late"]
  /\ overtaken' = IF Caught(s) THEN overtaken \cup {s} ELSE overtaken
  /\ UNCHANGED <<state, closing, wg, wSlot, slotCount, slotVars, pc, callVars,
                 bigJob, sent, rejected, torn>>

\* ... report an internal timeout (and go on), ...
WorkTimeout(s) ==
  /\ phase[s] = "late"
  /\ \/ CallErrFuncs({}, 0)
     \/ CallErrFuncs(RejectsRange(s), 1)
  /\ phase' = [phase EXCEPT ![s] = "send"]
  /\ UNCHANGED <<state, closing, wg, wSlot, slotCount, slotVars, pc, callVars,
                 bigJob, sent, torn, overtaken>>

CommittedIn(s) ==
  {f \in Frames : my[f] = s /\ pc[f] \in Committed /\ bigJob[f] = "none"}

\* ... write buf[:availableCursor] to the connection or report the error, ...
\* A closed connection fails SetWriteDeadline as well as Write, so it calls the
\* errFuncs twice; an empty slot would report ErrAvailableCursor.
WorkSend(s) ==
  /\ phase[s] = "send"
  /\ \/ /\ availableCursor[s] >= FrameHeadLength
        /\ closing \in {"no", "waiting"}
        /\ sent' = sent \cup
             {f \in CommittedIn(s) : End(f) <= availableCursor[s]}
        /\ torn' = (torn \/ \E f \in CommittedIn(s) :
                              End(f) > availableCursor[s])
        /\ UNCHANGED rejected
     \/ /\ CallErrFuncs(RejectsRange(s),
                        IF /\ availableCursor[s] >= FrameHeadLength
                           /\ closing \notin {"no", "waiting"}
                        THEN 2 ELSE 1)
        /\ UNCHANGED <<sent, torn>>
  /\ phase' = [phase EXCEPT ![s] = "sent"]
  /\ UNCHANGED <<state, closing, wg, wSlot, slotCount, slotVars, pc, callVars,
                 bigJob, overtaken>>

\* ... session.Done() and release().
WorkDone(s) ==
  /\ phase[s] = "sent"
  /\ wg' = wg - 1
  /\ phase' = [phase EXCEPT ![s] = "released"]
  /\ UNCHANGED <<state, closing, wSlot, slotCount, slotVars, pc, callVars,
                 bigJob, fateVars>>

BigDone(f) == wg - 1

\* simpleSlot.WorkFunc: WriteFrameDataPromptly fails on a session that is not
\* working or on a write error.  A nil errFunc panics before session.Done().
BigWork(f) ==
  /\ bigJob[f] = "queued"
  /\ \/ /\ state = "Work" /\ closing \in {"no", "waiting"}
        /\ sent' = sent \cup {f}
        /\ bigJob' = [bigJob EXCEPT ![f] = "done"]
        /\ wg' = BigDone(f)
        /\ UNCHANGED rejected
     \/ /\ f \notin NilErrFunc
        /\ CallErrFuncs({f}, 1)
        /\ bigJob' = [bigJob EXCEPT ![f] = "done"]
        /\ wg' = BigDone(f)
        /\ UNCHANGED sent
     \/ /\ f \in NilErrFunc
        /\ bigJob' = [bigJob EXCEPT ![f] = "panic"]
        /\ UNCHANGED <<wg, sent, rejected>>
  /\ UNCHANGED <<state, closing, wSlot, slotCount, slotVars, phase, pc,
                 callVars, torn, overtaken>>

----------------------------------------------------------------------------
(* State changes from outside: the cluster's SetState, and Close            *)

SetState(u) ==
  /\ closing = "no" \/ LateStateEvents
  /\ state' = u
  /\ UNCHANGED <<closing, wg, wSlot, slotCount, slotVars, phase, pc, callVars,
                 bigJob, fateVars>>

CloseBegin ==
  /\ closing = "no"
  /\ state' = "Die"
  /\ closing' = "waiting"
  /\ UNCHANGED <<wg, wSlot, slotCount, slotVars, phase, pc, callVars, bigJob,
                 fateVars>>

\* s.Wait(); s.Conn.Close()
CloseConn ==
  /\ closing = "waiting"
  /\ wg = 0
  /\ closing' = "closed"
  /\ UNCHANGED <<state, wg, wSlot, slotCount, slotVars, phase, pc, callVars,
                 bigJob, fateVars>>

\* time.AfterFunc(5s): release the current slot.  The five seconds are taken to
\* outlast every call and job that was under way.
Quiescent ==
  /\ \A f \in Frames : pc[f] \in Final \cup {"idle"} /\ bigJob[f] # "queued"
  /\ \A s \in Slots : phase[s] \in {"live", "released"}

CloseRelease ==
  /\ closing = "closed"
  /\ Quiescent
  /\ closing' = "released"
  /\ phase' = [phase EXCEPT ![wSlot] = "released"]
  /\ UNCHANGED <<state, wg, wSlot, slotCount, slotVars, pc, callVars, bigJob,
                 fateVars>>

----------------------------------------------------------------------------

Write(f) ==
  \/ Call(f) \/ BigSubmit(f) \/ Load(f) \/ Lock(f) \/ Allot(f) \/ Busy(f)
  \/ Cross(f) \/ Crossed(f) \/ Commit(f) \/ Register(f) \/ Unlock(f)
  \/ Submit(f)

WorkFunc(s) ==
  WorkSwap(s) \/ WorkSpin(s) \/ WorkTimeout(s) \/ WorkSend(s) \/ WorkDone(s)

Close == CloseBegin \/ CloseConn \/ CloseRelease

Next ==
  \/ \E f \in Frames : Write(f) \/ BigWork(f)
  \/ \E s \in Slots : WorkFunc(s)
  \/ \E u \in {"Work", "Die"} : SetState(u)
  \/ Close

Spec == Init /\ [][Next]_vars

\* A goroutine that can take its next step takes it, the dispatcher runs every
\* queued job, and a Close that was begun goes on.
FairSpec ==
  /\ Spec
  /\ \A f \in Frames : WF_vars(Write(f) /\ pc[f] # "idle") /\ WF_vars(BigWork(f))
  /\ \A s \in Slots : WF_vars(WorkFunc(s))
  /\ WF_vars(CloseConn)

----------------------------------------------------------------------------
(* Properties                                                               *)

SessionOK ==
  /\ state \in {"Work", "Die"}
  /\ closing \in {"no", "waiting", "closed", "released"}
  /\ wg \in Int
  /\ wSlot \in Slots /\ slotCount \in Slots

SlotsOK ==
  /\ allotCursor \in [Slots -> Nat]
  /\ availableCursor \in [Slots -> Nat]
  /\ writeLock \in [Slots -> Int]
  /\ rejects \in [Slots -> Seq(Frames)]
  /\ phase \in [Slots -> {"live", "queued", "spin", "late", "send", "sent",
                          "released", "noSession"}]

CallsOK ==
  /\ pc \in [Frames -> Pcs]
  /\ my \in [Frames -> Slots]
  /\ start \in [Frames -> Nat]
  /\ busy \in [Frames -> Nat]
  /\ bigJob \in [Frames -> {"none", "queued", "done", "panic"}]

FatesOK ==
  /\ sent \subseteq Frames
  /\ rejected \in [Frames -> Nat]
  /\ torn \in BOOLEAN /\ overtaken \subseteq Slots

\* Every variable stays in its type; in particular no claim starts before the
\* buffer (start = end - length does not wrap).
TypeOK == SessionOK /\ SlotsOK /\ CallsOK /\ FatesOK

\* The calls that own bytes of a slot: they may copy, or have copied.
Owns(f) ==
  /\ pc[f] \in Committed \cup {"commit"}
  /\ bigJob[f] = "none"

\* No two calls ever own overlapping bytes of one slot, and no call owns bytes
\* past the buffer, whatever the interleaving of their atomic additions
\* (WriteFrameDataToCache, the copy at myslot.buf[start:end]).
DisjointFrames ==
  \A f \in Frames : Owns(f) =>
    /\ End(f) <= BytesPoolLenght
    /\ \A g \in Frames \ {f} :
         Owns(g) /\ my[g] = my[f] => End(f) <= start[g] \/ End(g) <= start[f]

\* A slot is handed to the dispatcher at most once: a call about to hand it over
\* finds it still live, and is alone (the "start == 0" test; a second hand-over
\* would run WorkFunc and release() twice on one buffer).
HandedOverOnce ==
  \A f \in Frames : pc[f] = "submit" =>
    /\ phase[my[f]] = "live"
    /\ \A g \in Frames \ {f} : pc[g] = "submit" => my[g] # my[f]

\* When WorkFunc has left its spin on writeLock, no call is inside the slot or
\* about to enter it: nothing is copied into bytes that were already written to
\* the connection or given back to the pool.
NoLateCommit ==
  \A s \in Slots : phase[s] \in {"late", "send", "sent", "released"} =>
    \A f \in Frames : my[f] = s => pc[f] \notin {"lock"} \cup (Holding \ {"panic"})

\* Every Conn.Write of a slot carries whole frames only: the committed byte
\* count is exactly the prefix the committed frames tile, so the peer's framing
\* never shifts.
WholeFrames == ~torn

\* A frame whose call returned nil is not forgotten in a buffer: once its slot
\* was written and released, its bytes were accepted by the connection, unless
\* that write failed.
AcceptedIsWritten ==
  \A f \in Frames :
    pc[f] = "ok" /\ bigJob[f] = "none" /\ phase[my[f]] \in {"sent", "released"}
      => \/ f \in sent
         \/ \A g \in CommittedIn(my[f]) : g \notin sent

\* The ErrAvailableCursor branch of WorkFunc is dead code: a slot that reaches
\* the dispatcher holds at least the first frame.
QueuedHoldsFrame ==
  \A s \in Slots : phase[s] \in {"queued", "spin", "late", "send", "sent"} =>
    availableCursor[s] >= FrameHeadLength

\* A frame is not both reported to its errFunc and delivered.
RejectedIsNotSent == \A f \in Frames : ~(f \in sent /\ rejected[f] > 0)

\* A frame whose call returned nil and whose slot is finished was delivered, or
\* its errFunc was called.
FailureIsReported ==
  \A f \in Frames :
    /\ pc[f] = "ok" /\ f \notin NilErrFunc
    /\ bigJob[f] = "none" => phase[my[f]] = "released"
    /\ bigJob[f] # "queued"
    => f \in sent \/ rejected[f] > 0

\* WriteFrameDataToCache never indexes past the rejects array of its slot.
RejectsInRange == \A f \in Frames : pc[f] # "panic"

\* Every Close that was begun ends: calls leave their slot, the spin on
\* writeLock ends, and every Add(1) is matched by a Done().
CloseCompletes == (closing = "waiting") ~> (closing # "waiting")

\* A frame that was copied into a slot does not stay there: the call at offset
\* 0 hands the slot over, its WorkFunc gets past the spin, writes and releases.
CopiedIsFlushed == \A f \in Frames :
  (pc[f] = "commit") ~> (phase[my[f]] = "released")

\* A released buffer belongs to the pool (and soon to another session): no call
\* works on a slot that Close has released.
ClosedIsUntouched ==
  closing = "released" =>
    \A f \in Frames : pc[f] \in Holding => phase[my[f]] # "released"
=============================================================================
