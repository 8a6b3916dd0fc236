-------------------------- MODULE WriteSlotProofs --------------------------
(****************************************************************************)
(* Theorems about the buffered send path, for every set of frames, every    *)
(* frame length, every buffer size and every number of slots.               *)
(****************************************************************************)
EXTENDS WriteSlot, FiniteSetTheorems, TLAPS

----------------------------------------------------------------------------
(* Types                                                                    *)

\* Installing a successor keeps the current slot and the slot count in range.
LEMMA InstallType ==
  ASSUME SessionOK, NEW s \in Slots, InstallAfter(s)
  PROVE  wSlot' \in Slots /\ slotCount' \in Slots
<1>1. MaxSlots \in Nat
  BY ConstantsAssumption
<1>. QED BY <1>1 DEF SessionOK, InstallAfter, Slots

\* The session's own variables keep their types: only the calls and jobs that
\* count in the WaitGroup or install a slot change them.
LEMMA SessionStep ==
  ASSUME TypeOK, [Next]_vars
  PROVE  SessionOK'
<1> USE DEF SessionOK
<1>0. SessionOK /\ CallsOK
  BY DEF TypeOK
<1>1. ASSUME NEW f \in Frames, Write(f) PROVE SessionOK'
  <2>1. CASE BigSubmit(f) \/ Submit(f)
    BY <1>0, <2>1 DEF BigSubmit, Submit
  <2>2. CASE Cross(f)
    BY <1>0, <2>2, InstallType DEF Cross, CallsOK
  <2>3. CASE \/ Call(f) \/ Load(f) \/ Lock(f) \/ Allot(f) \/ Busy(f)
             \/ Crossed(f) \/ Commit(f) \/ Register(f) \/ Unlock(f)
    BY <1>0, <2>3
    DEF Call, Load, Lock, Allot, Busy, Crossed, Commit, Register, Unlock
  <2>. QED BY <1>1, <2>1, <2>2, <2>3 DEF Write
<1>2. ASSUME NEW f \in Frames, BigWork(f) PROVE SessionOK'
  BY <1>0, <1>2 DEF BigWork, BigDone
<1>3. ASSUME NEW s \in Slots, WorkFunc(s) PROVE SessionOK'
  <2>1. CASE WorkSwap(s)
    BY <1>0, <2>1, InstallType DEF WorkSwap
  <2>2. CASE WorkSpin(s) \/ WorkTimeout(s) \/ WorkSend(s)
    BY <1>0, <2>2 DEF WorkSpin, WorkTimeout, WorkSend
  <2>3. CASE WorkDone(s)
    BY <1>0, <2>3 DEF WorkDone
  <2>. QED BY <1>3, <2>1, <2>2, <2>3 DEF WorkFunc
<1>4. CASE (\E u \in {"Work", "Die"} : SetState(u)) \/ Close
  BY <1>0, <1>4 DEF SetState, Close, CloseBegin, CloseConn, CloseRelease
<1>5. CASE UNCHANGED vars
  BY <1>0, <1>5 DEF vars
<1>. QED BY <1>1, <1>2, <1>3, <1>4, <1>5 DEF Next

\* The slots' cursors, locks and phases keep their types.
LEMMA SlotsStep ==
  ASSUME TypeOK, [Next]_vars
  PROVE  SlotsOK'
<1> USE DEF SlotsOK, slotVars
<1>0. SlotsOK /\ CallsOK /\ SessionOK
  BY DEF TypeOK
<1>1. ASSUME NEW f \in Frames, Write(f) PROVE SlotsOK'
  <2>0. my[f] \in Slots /\ FrameLen[f] \in Nat
    BY <1>0, ConstantsAssumption DEF CallsOK
  <2>1. CASE Lock(f)
    BY <1>0, <2>0, <2>1 DEF Lock
  <2>2. CASE Allot(f)
    BY <1>0, <2>0, <2>2 DEF Allot, NewAllot
  <2>3. CASE Busy(f)
    BY <1>0, <2>0, <2>3 DEF Busy, BusyUnlocked
  <2>4. CASE Crossed(f)
    BY <1>0, <2>0, <2>4 DEF Crossed
  <2>5. CASE Commit(f)
    BY <1>0, <2>0, <2>5 DEF Commit, NewAvailable
  <2>6. CASE Register(f)
    BY <1>0, <2>0, <2>6 DEF Register
  <2>7. CASE Unlock(f)
    BY <1>0, <2>0, <2>7 DEF Unlock
  <2>8. CASE Submit(f)
    BY <1>0, <2>0, <2>8 DEF Submit
  <2>9. CASE Call(f) \/ BigSubmit(f) \/ Load(f) \/ Cross(f)
    BY <1>0, <2>9 DEF Call, BigSubmit, Load, Cross
  <2>. QED BY <1>1, <2>1, <2>2, <2>3, <2>4, <2>5, <2>6, <2>7, <2>8, <2>9
           DEF Write
<1>2. ASSUME NEW f \in Frames, BigWork(f) PROVE SlotsOK'
  BY <1>0, <1>2 DEF BigWork
<1>3. ASSUME NEW s \in Slots, WorkFunc(s) PROVE SlotsOK'
  <2>1. \E l \in {"spin", "late", "send", "sent", "released"} :
           phase' = [phase EXCEPT ![s] = l]
    BY <1>3 DEF WorkFunc, WorkSwap, WorkSpin, WorkTimeout, WorkSend, WorkDone
  <2>2. UNCHANGED slotVars
    BY <1>3 DEF WorkFunc, WorkSwap, WorkSpin, WorkTimeout, WorkSend, WorkDone
  <2>. QED BY <1>0, <2>1, <2>2
<1>4. CASE (\E u \in {"Work", "Die"} : SetState(u)) \/ Close
  BY <1>0, <1>4
  DEF SetState, Close, CloseBegin, CloseConn, CloseRelease
<1>5. CASE UNCHANGED vars
  BY <1>0, <1>5 DEF vars
<1>. QED BY <1>1, <1>2, <1>3, <1>4, <1>5 DEF Next

\* A call's control point and locals keep their types.
LEMMA CallsStep ==
  ASSUME TypeOK, [Next]_vars
  PROVE  CallsOK'
<1> USE DEF CallsOK, callVars, Goto
<1>0. CallsOK /\ SlotsOK /\ SessionOK
  BY DEF TypeOK
<1>1. ASSUME NEW f \in Frames, Write(f) PROVE CallsOK'
  <2>1. CASE Call(f)
    BY <1>0, <2>1 DEF Call, Pcs, Final
  <2>2. CASE BigSubmit(f)
    BY <1>0, <2>2 DEF BigSubmit, Pcs, Final
  <2>3. CASE Load(f)
    BY <1>0, <2>3 DEF Load, Pcs, SessionOK
  <2>4. CASE Allot(f)
    <3>1. allotCursor[my[f]] \in Nat /\ FrameLen[f] \in Nat
      BY <1>0, ConstantsAssumption DEF SlotsOK
    <3>2. StartOf(f) \in Nat
      BY <3>1 DEF StartOf, NewAllot
    <3>3. Claim(StartOf(f), NewAllot(f)) \in Pcs
      BY DEF Claim, Pcs, Holding
    <3>. QED BY <1>0, <2>4, <3>2, <3>3 DEF Allot
  <2>5. CASE Busy(f)
    BY <1>0, <2>5 DEF Busy, Pcs, Final
  <2>6. CASE Cross(f)
    BY <1>0, <2>6 DEF Cross, Pcs, Holding
  <2>7. CASE Lock(f) \/ Crossed(f) \/ Commit(f) \/ Register(f) \/ Unlock(f)
             \/ Submit(f)
    <3>1. \E l \in {"allot", "load", "register", "unlock", "panic", "submit", "ok"} :
            Goto(f, l)
      BY <2>7 DEF Lock, Crossed, Commit, Register, Unlock, Submit
    <3>2. UNCHANGED <<callVars, bigJob>>
      BY <2>7 DEF Lock, Crossed, Commit, Register, Unlock, Submit
    <3>. QED BY <1>0, <3>1, <3>2 DEF Pcs, Holding, Committed
  <2>. QED BY <1>1, <2>1, <2>2, <2>3, <2>4, <2>5, <2>6, <2>7 DEF Write
<1>2. ASSUME NEW f \in Frames, BigWork(f) PROVE CallsOK'
  BY <1>0, <1>2 DEF BigWork
<1>3. ASSUME NEW s \in Slots, WorkFunc(s) PROVE CallsOK'
  BY <1>0, <1>3
  DEF WorkFunc, WorkSwap, WorkSpin, WorkTimeout, WorkSend, WorkDone
<1>4. CASE (\E u \in {"Work", "Die"} : SetState(u)) \/ Close
  BY <1>0, <1>4 DEF SetState, Close, CloseBegin, CloseConn, CloseRelease
<1>5. CASE UNCHANGED vars
  BY <1>0, <1>5 DEF vars
<1>. QED BY <1>1, <1>2, <1>3, <1>4, <1>5 DEF Next

\* What is recorded about the frames keeps its type.
LEMMA FatesStep ==
  ASSUME TypeOK, [Next]_vars
  PROVE  FatesOK'
<1> USE DEF FatesOK, fateVars
<1>0. FatesOK
  BY DEF TypeOK
<1>1. ASSUME NEW f \in Frames, Write(f) PROVE FatesOK'
  BY <1>0, <1>1
  DEF Write, Call, BigSubmit, Load, Lock, Allot, Busy, Cross, Crossed, Commit,
      Register, Unlock, Submit
<1>2. ASSUME NEW f \in Frames, BigWork(f) PROVE FatesOK'
  BY <1>0, <1>2 DEF BigWork, CallErrFuncs
<1>3. ASSUME NEW s \in Slots, WorkFunc(s) PROVE FatesOK'
  <2>1. CASE WorkTimeout(s)
    BY <1>0, <2>1 DEF WorkTimeout, CallErrFuncs
  <2>2. CASE WorkSend(s)
    <3>1. sent' \subseteq Frames
      BY <1>0, <2>2 DEF WorkSend, CommittedIn
    <3>2. torn' \in BOOLEAN
      BY <1>0, <2>2, Zenon DEF WorkSend
    <3>3. rejected' \in [Frames -> Nat]
      BY <1>0, <2>2 DEF WorkSend, CallErrFuncs
    <3>4. overtaken' \subseteq Slots
      BY <1>0, <2>2 DEF WorkSend
    <3>. QED BY <3>1, <3>2, <3>3, <3>4
  <2>3. CASE WorkSwap(s) \/ WorkSpin(s) \/ WorkDone(s)
    BY <1>0, <2>3 DEF WorkSwap, WorkSpin, WorkDone
  <2>. QED BY <1>3, <2>1, <2>2, <2>3 DEF WorkFunc
<1>4. CASE (\E u \in {"Work", "Die"} : SetState(u)) \/ Close
  BY <1>0, <1>4 DEF SetState, Close, CloseBegin, CloseConn, CloseRelease
<1>5. CASE UNCHANGED vars
  BY <1>0, <1>5 DEF vars
<1>. QED BY <1>1, <1>2, <1>3, <1>4, <1>5 DEF Next

\* TypeOK is an invariant: every step of a writer, of WorkFunc, of a big job, of
\* the cluster's SetState and of Close keeps the variables in their types.
THEOREM TypeCorrect == Spec => []TypeOK
<1>1. Init => TypeOK
  <2>1. 0 \in Slots
    BY ConstantsAssumption DEF Slots
  <2>. QED BY <2>1
       DEF Init, TypeOK, SessionOK, SlotsOK, CallsOK, FatesOK, Pcs
<1>2. TypeOK /\ [Next]_vars => TypeOK'
  BY SessionStep, SlotsStep, CallsStep, FatesStep DEF TypeOK
<1>. QED BY <1>1, <1>2, PTL DEF Spec

----------------------------------------------------------------------------
(* The layout of a slot                                                     *)

\* What the atomic additions guarantee about the byte ranges: slots are numbered
\* in the order they were installed, a claim lies below the slot's allotCursor,
\* and a commit is counted in its availableCursor.
Layout ==
  /\ wSlot = slotCount
  /\ \A f \in Frames : my[f] <= wSlot
  /\ \A f \in Frames : bigJob[f] # "none" => pc[f] = "ok"
  /\ \A f \in Frames : Owns(f) => End(f) <= allotCursor[my[f]]
  /\ \A f \in Frames : Owns(f) /\ pc[f] # "commit" =>
                          FrameLen[f] <= availableCursor[my[f]]
  /\ \A f \in Frames : pc[f] = "submit" => start[f] = 0
  /\ DisjointFrames

\* Slot numbers are integers (the interval itself stays folded below).
LEMMA SlotsAreInts == Slots \subseteq Int
BY DEF Slots

\* A step of a call that takes no range and gives none up preserves Layout.
LEMMA LayoutCall ==
  ASSUME TypeOK, TypeOK', Layout, NEW f \in Frames, NEW l,
         pc' = [pc EXCEPT ![f] = l],
         wSlot' = slotCount', wSlot <= wSlot',
         UNCHANGED <<start, allotCursor, availableCursor>>,
         pc[f] \notin {"commit", "ok"}, l # "submit",
         \/ /\ my' = my /\ bigJob' = bigJob
            /\ l \in Committed \cup {"commit"} => pc[f] \in Committed
         \/ /\ my' = [my EXCEPT ![f] = wSlot] /\ bigJob' = bigJob
            /\ pc[f] = "load" /\ l = "lock"
         \/ /\ my' = my /\ bigJob' = [bigJob EXCEPT ![f] = "queued"]
            /\ l = "ok"
  PROVE  Layout'
<1>0. /\ SessionOK /\ CallsOK /\ SessionOK' /\ CallsOK'
      /\ pc'[f] = l
      /\ \A g \in Frames \ {f} :
           pc'[g] = pc[g] /\ my'[g] = my[g] /\ bigJob'[g] = bigJob[g]
  BY DEF TypeOK, CallsOK
<1>1. \A g \in Frames : Owns(g)' =>
        /\ Owns(g) /\ my'[g] = my[g] /\ End(g)' = End(g) /\ start'[g] = start[g]
        /\ pc[g] = "commit" => pc'[g] = "commit"
  <2>1. Owns(f)' => Owns(f) /\ my'[f] = my[f]
    BY <1>0 DEF Owns, Committed, CallsOK
  <2>2. \A g \in Frames \ {f} : Owns(g)' => Owns(g)
    BY <1>0 DEF Owns
  <2>. QED BY <2>1, <2>2, <1>0 DEF End
<1>2. \A g \in Frames : my'[g] <= wSlot'
  <2>1. wSlot \in Int /\ wSlot' \in Int /\ \A g \in Frames : my[g] \in Int
    BY <1>0, SlotsAreInts DEF SessionOK, CallsOK
  <2>2. my'[f] \in {my[f], wSlot}
    BY <1>0 DEF CallsOK
  <2>. QED BY <1>0, <2>1, <2>2 DEF Layout
<1>3. \A g \in Frames : bigJob'[g] # "none" => pc'[g] = "ok"
  BY <1>0 DEF Layout, CallsOK
<1>4. \A g \in Frames : Owns(g)' => End(g)' <= allotCursor'[my'[g]]
  BY <1>1 DEF Layout
<1>5. \A g \in Frames : Owns(g)' /\ pc'[g] # "commit" =>
                        FrameLen[g] <= availableCursor'[my'[g]]
  BY <1>1 DEF Layout
<1>6. \A g \in Frames : pc'[g] = "submit" => start'[g] = 0
  BY <1>0 DEF Layout
<1>7. DisjointFrames'
  BY <1>1 DEF Layout, DisjointFrames
<1>. QED BY <1>2, <1>3, <1>4, <1>5, <1>6, <1>7 DEF Layout

\* So does a step that moves no call.
LEMMA LayoutOther ==
  ASSUME TypeOK, TypeOK', Layout,
         wSlot' = slotCount', wSlot <= wSlot',
         UNCHANGED <<pc, my, start, allotCursor, availableCursor>>,
         \A f \in Frames : bigJob'[f] = "none" <=> bigJob[f] = "none"
  PROVE  Layout'
<1>1. \A g \in Frames : (Owns(g)' <=> Owns(g)) /\ End(g)' = End(g)
  BY DEF Owns, End
<1>2. \A g \in Frames : my'[g] <= wSlot'
  <2>1. wSlot \in Int /\ wSlot' \in Int /\ \A g \in Frames : my[g] \in Int
    BY SlotsAreInts DEF TypeOK, SessionOK, CallsOK
  <2>. QED BY <2>1 DEF Layout
<1>3. DisjointFrames'
  BY <1>1 DEF Layout, DisjointFrames
<1>. QED BY <1>1, <1>2, <1>3 DEF Layout

\* Installing a slot moves the current slot forward.
LEMMA InstallForward ==
  ASSUME SessionOK, wSlot = slotCount, NEW s \in Slots, InstallAfter(s)
  PROVE  wSlot' = slotCount' /\ wSlot <= wSlot' /\ (wSlot = s => s < wSlot')
BY SlotsAreInts DEF SessionOK, InstallAfter

\* A fresh claim starts where all earlier claims of its slot ended.
LEMMA LayoutAllot ==
  ASSUME TypeOK, TypeOK', Layout, NEW f \in Frames, Allot(f)
  PROVE  Layout'
<1> DEFINE b == allotCursor[my[f]]
           e == b + FrameLen[f]
<1>0. SessionOK /\ SlotsOK /\ CallsOK
  BY DEF TypeOK
<1>1. /\ my[f] \in Slots /\ b \in Nat /\ e \in Nat /\ b <= e
      /\ FrameLen[f] \in Nat
  BY <1>0, ConstantsAssumption DEF SlotsOK, CallsOK
<1>2. StartOf(f) = b /\ NewAllot(f) = e
  BY <1>1 DEF StartOf, NewAllot
<1>3. /\ pc[f] = "allot"
      /\ pc' = [pc EXCEPT ![f] = Claim(b, e)]
      /\ start' = [start EXCEPT ![f] = b]
      /\ allotCursor' = [allotCursor EXCEPT ![my[f]] = e]
      /\ UNCHANGED <<wSlot, slotCount, my, bigJob, availableCursor>>
  BY <1>2 DEF Allot, Goto, callVars
<1>4. /\ Claim(b, e) \in {"commit", "busy", "cross"}
      /\ Claim(b, e) = "commit" => e <= BytesPoolLenght
  BY DEF Claim
<1>5. pc'[f] = Claim(b, e) /\ start'[f] = b /\ End(f)' = e
  BY <1>0, <1>1, <1>3 DEF CallsOK, End
<1>6. Owns(f)' => pc'[f] = "commit" /\ e <= BytesPoolLenght
  BY <1>4, <1>5 DEF Owns, Committed
<1>7. \A g \in Frames \ {f} :
        /\ pc'[g] = pc[g] /\ start'[g] = start[g]
        /\ End(g)' = End(g) /\ (Owns(g)' <=> Owns(g))
  BY <1>0, <1>3 DEF CallsOK, End, Owns
<1>8. allotCursor'[my[f]] = e /\ \A s \in Slots : allotCursor[s] <= allotCursor'[s]
  BY <1>0, <1>1, <1>3 DEF SlotsOK
<1>9. \A g \in Frames : End(g) \in Int /\ start[g] \in Int /\ my[g] \in Slots
  BY <1>0, ConstantsAssumption DEF CallsOK, End
<1>10. \A g \in Frames : Owns(g)' => End(g)' <= allotCursor'[my'[g]]
  <2>1. \A g \in Frames \ {f} : Owns(g) => End(g) <= allotCursor'[my[g]]
    <3> SUFFICES ASSUME NEW g \in Frames \ {f}, Owns(g)
                 PROVE  End(g) <= allotCursor'[my[g]]
      OBVIOUS
    <3>1. End(g) <= allotCursor[my[g]]
      BY DEF Layout
    <3>2. allotCursor[my[g]] \in Nat /\ allotCursor'[my[g]] \in Nat
      BY <1>0, <1>9, <1>3 DEF SlotsOK, TypeOK
    <3>. QED BY <1>8, <1>9, <3>1, <3>2
  <2>. QED BY <2>1, <1>1, <1>3, <1>5, <1>7, <1>8
<1>11. \A g \in Frames : Owns(g)' /\ pc'[g] # "commit" =>
                         FrameLen[g] <= availableCursor'[my'[g]]
  BY <1>3, <1>6, <1>7 DEF Layout
<1>12. \A g \in Frames \ {f} : Owns(g) /\ my[g] = my[f] => End(g) <= b
  BY DEF Layout
<1>13. DisjointFrames'
  <2>1. \A g \in Frames : Owns(g)' => End(g)' <= BytesPoolLenght
    BY <1>5, <1>6, <1>7 DEF Layout, DisjointFrames
  <2>2. ASSUME NEW g \in Frames, NEW h \in Frames \ {g},
               Owns(g)', Owns(h)', my'[h] = my'[g]
        PROVE  End(g)' <= start'[h] \/ End(h)' <= start'[g]
    <3>1. CASE g = f
      BY <2>2, <3>1, <1>3, <1>5, <1>7, <1>12
    <3>2. CASE h = f
      BY <2>2, <3>2, <1>3, <1>5, <1>7, <1>12
    <3>3. CASE g # f /\ h # f
      BY <2>2, <3>3, <1>3, <1>7 DEF Layout, DisjointFrames
    <3>. QED BY <3>1, <3>2, <3>3
  <2>. QED BY <2>1, <2>2 DEF DisjointFrames
<1>14. \A g \in Frames : bigJob'[g] # "none" => pc'[g] = "ok"
  BY <1>3, <1>7 DEF Layout
<1>15. \A g \in Frames : pc'[g] = "submit" => start'[g] = 0
  BY <1>4, <1>5, <1>7 DEF Layout
<1>. QED BY <1>3, <1>10, <1>11, <1>13, <1>14, <1>15 DEF Layout

\* A commit is counted before its call goes on.
LEMMA LayoutCommit ==
  ASSUME TypeOK, TypeOK', Layout, NEW f \in Frames, Commit(f)
  PROVE  Layout'
<1>0. SlotsOK /\ CallsOK
  BY DEF TypeOK
<1>1. /\ pc[f] = "commit" /\ pc' = [pc EXCEPT ![f] = "register"]
      /\ availableCursor' = [availableCursor EXCEPT ![my[f]] =
                               availableCursor[my[f]] + FrameLen[f]]
      /\ UNCHANGED <<wSlot, slotCount, my, start, bigJob, allotCursor>>
  BY DEF Commit, NewAvailable, Goto, callVars
<1>2. \A g \in Frames : (Owns(g)' <=> Owns(g)) /\ End(g)' = End(g)
  BY <1>0, <1>1 DEF Owns, Committed, End, CallsOK
<1>3. pc'[f] = "register" /\ \A g \in Frames \ {f} : pc'[g] = pc[g]
  BY <1>0, <1>1 DEF CallsOK
<1>4. /\ \A g \in Frames : my[g] \in Slots /\ FrameLen[g] \in Nat
      /\ \A s \in Slots : availableCursor[s] \in Nat /\ availableCursor'[s] \in Nat
  BY <1>0, ConstantsAssumption DEF SlotsOK, CallsOK, TypeOK
<1>5. /\ FrameLen[f] <= availableCursor'[my[f]]
      /\ \A s \in Slots : availableCursor[s] <= availableCursor'[s]
  BY <1>0, <1>1, <1>4 DEF SlotsOK
<1>6. \A g \in Frames : Owns(g)' /\ pc'[g] # "commit" =>
                        FrameLen[g] <= availableCursor'[my'[g]]
  <2> SUFFICES ASSUME NEW g \in Frames \ {f}, Owns(g), pc[g] # "commit"
               PROVE  FrameLen[g] <= availableCursor'[my[g]]
    BY <1>1, <1>2, <1>3, <1>5
  <2>1. FrameLen[g] <= availableCursor[my[g]]
    BY DEF Layout
  <2>. QED BY <2>1, <1>4, <1>5
<1>7. DisjointFrames'
  BY <1>1, <1>2 DEF Layout, DisjointFrames
<1>. QED BY <1>1, <1>2, <1>3, <1>6, <1>7 DEF Layout

\* The call that leaves its slot for the hand-over is the one at offset 0.
LEMMA LayoutUnlock ==
  ASSUME TypeOK, TypeOK', Layout, NEW f \in Frames, Unlock(f)
  PROVE  Layout'
<1>0. CallsOK
  BY DEF TypeOK
<1>1. /\ pc[f] = "unlock"
      /\ pc' = [pc EXCEPT ![f] = IF start[f] = 0 THEN "submit" ELSE "ok"]
      /\ UNCHANGED <<wSlot, slotCount, my, start, bigJob, allotCursor,
                     availableCursor>>
  BY DEF Unlock, Submits, Goto, callVars
<1>2. \A g \in Frames : (Owns(g)' <=> Owns(g)) /\ End(g)' = End(g)
  BY <1>0, <1>1 DEF Owns, Committed, End, CallsOK
<1>3. /\ pc'[f] = IF start[f] = 0 THEN "submit" ELSE "ok"
      /\ \A g \in Frames \ {f} : pc'[g] = pc[g]
  BY <1>0, <1>1 DEF CallsOK
<1>4. DisjointFrames'
  BY <1>1, <1>2 DEF Layout, DisjointFrames
<1>. QED BY <1>1, <1>2, <1>3, <1>4 DEF Layout

\* Layout is inductive: whatever the interleaving of the atomic additions, a
\* slot's claims and commits stay as described above.
THEOREM LayoutCorrect == Spec => []Layout
<1>1. Init => Layout
  BY ConstantsAssumption
  DEF Init, Layout, DisjointFrames, Owns, Committed, Slots
<1>2. TypeOK /\ TypeOK' /\ Layout /\ [Next]_vars => Layout'
  <2> SUFFICES ASSUME TypeOK, TypeOK', Layout, [Next]_vars PROVE Layout'
    OBVIOUS
  <2> USE DEF Goto, callVars, slotVars
  <2>0. /\ SessionOK /\ CallsOK /\ wSlot = slotCount /\ wSlot <= wSlot
        /\ \A f \in Frames : my[f] \in Slots
    BY SlotsAreInts DEF TypeOK, SessionOK, CallsOK, Layout
  <2>1. ASSUME NEW f \in Frames, Write(f) PROVE Layout'
    <3>1. CASE Call(f)
      BY <2>0, <3>1, LayoutCall DEF Call, Committed
    <3>2. CASE BigSubmit(f)
      BY <2>0, <3>2, LayoutCall DEF BigSubmit
    <3>3. CASE Load(f)
      BY <2>0, <3>3, LayoutCall DEF Load, Committed
    <3>4. CASE Lock(f)
      BY <2>0, <3>4, LayoutCall DEF Lock, Committed
    <3>5. CASE Busy(f)
      BY <2>0, <3>5, LayoutCall DEF Busy, Committed
    <3>6. CASE Cross(f)
      <4>1. wSlot' = slotCount' /\ wSlot <= wSlot'
        BY <2>0, <3>6, InstallForward DEF Cross
      <4>. QED BY <3>6, <4>1, LayoutCall DEF Cross, Committed
    <3>7. CASE Crossed(f)
      BY <2>0, <3>7, LayoutCall DEF Crossed, Committed
    <3>8. CASE Register(f)
      BY <2>0, <3>8, LayoutCall DEF Register, Committed
    <3>9. CASE Submit(f)
      BY <2>0, <3>9, LayoutCall DEF Submit, Committed
    <3>. QED BY <2>1, <3>1, <3>2, <3>3, <3>4, <3>5, <3>6, <3>7, <3>8, <3>9,
                LayoutAllot, LayoutCommit, LayoutUnlock DEF Write
  <2>2. ASSUME NEW f \in Frames, BigWork(f) PROVE Layout'
    BY <2>0, <2>2, LayoutOther DEF BigWork, CallsOK
  <2>3. ASSUME NEW s \in Slots, WorkFunc(s) PROVE Layout'
    <3>1. CASE WorkSwap(s)
      <4>1. wSlot' = slotCount' /\ wSlot <= wSlot'
        BY <2>0, <3>1, InstallForward DEF WorkSwap
      <4>. QED BY <3>1, <4>1, LayoutOther DEF WorkSwap
    <3>2. CASE WorkSpin(s) \/ WorkTimeout(s) \/ WorkSend(s) \/ WorkDone(s)
      BY <2>0, <3>2, LayoutOther
      DEF WorkSpin, WorkTimeout, WorkSend, WorkDone
    <3>. QED BY <2>3, <3>1, <3>2 DEF WorkFunc
  <2>4. CASE (\E u \in {"Work", "Die"} : SetState(u)) \/ Close
    BY <2>0, <2>4, LayoutOther
    DEF SetState, Close, CloseBegin, CloseConn, CloseRelease
  <2>5. CASE UNCHANGED vars
    BY <2>0, <2>5, LayoutOther DEF vars
  <2>. QED BY <2>1, <2>2, <2>3, <2>4, <2>5 DEF Next
<1>. QED BY <1>1, <1>2, TypeCorrect, PTL DEF Spec

\* No two calls ever own overlapping bytes of one slot, and none owns bytes past
\* the buffer (the copy into myslot.buf[start:end]).
THEOREM FramesAreDisjoint == Spec => []DisjointFrames
<1>1. Layout => DisjointFrames
  BY DEF Layout
<1>. QED BY <1>1, LayoutCorrect, PTL

----------------------------------------------------------------------------
(* The hand-over to the dispatcher                                          *)

\* f handed slot s over.
HandedBy(f, s) == my[f] = s /\ Owns(f) /\ start[f] = 0 /\ pc[f] = "ok"

\* Until Close releases the current slot, a slot that left its live phase was
\* handed over by the call at its offset 0; after that nothing is under way.
HandOver ==
  /\ closing # "no" => state = "Die"
  /\ closing = "released" =>
       /\ \A f \in Frames : pc[f] \in Final \cup {"idle"}
       /\ \A s \in Slots : phase[s] \in {"live", "released"}
  /\ closing # "released" =>
       \A s \in Slots : phase[s] # "live" => \E f \in Frames : HandedBy(f, s)

\* Two calls at offset 0 of one slot are one call.
LEMMA OffsetZeroIsOne ==
  ASSUME TypeOK, Layout, NEW f \in Frames, NEW g \in Frames,
         Owns(f), Owns(g), my[f] = my[g], start[f] = 0, start[g] = 0
  PROVE  f = g
<1>1. End(f) \in Int /\ End(g) \in Int /\ End(f) > 0 /\ End(g) > 0
  BY ConstantsAssumption DEF End
<1>. QED BY <1>1 DEF Layout, DisjointFrames

\* HandOver gives the property it is about.
LEMMA HandOverImplies ==
  ASSUME TypeOK, Layout, HandOver
  PROVE  HandedOverOnce
<1> SUFFICES ASSUME NEW f \in Frames, pc[f] = "submit"
             PROVE  /\ phase[my[f]] = "live"
                    /\ \A g \in Frames \ {f} : pc[g] = "submit" => my[g] # my[f]
  BY DEF HandedOverOnce
<1>1. \A g \in Frames : pc[g] = "submit" => Owns(g) /\ start[g] = 0
  BY DEF Layout, Owns, Committed
<1>2. closing # "released"
  BY DEF HandOver, Final
<1>3. my[f] \in Slots
  BY DEF TypeOK, CallsOK
<1>4. ASSUME phase[my[f]] # "live" PROVE FALSE
  <2>1. PICK g \in Frames : HandedBy(g, my[f])
    BY <1>2, <1>3, <1>4 DEF HandOver
  <2>2. g = f
    BY <1>1, <2>1, OffsetZeroIsOne DEF HandedBy
  <2>. QED BY <2>1, <2>2 DEF HandedBy
<1>5. \A g \in Frames \ {f} : pc[g] = "submit" => my[g] # my[f]
  BY <1>1, OffsetZeroIsOne
<1>. QED BY <1>4, <1>5

\* A call's step takes no slot out of its live phase but its own submission.
LEMMA HandOverWrite ==
  ASSUME ~LateStateEvents, TypeOK, Layout, HandOver, NEW f \in Frames, Write(f)
  PROVE  HandOver'
<1>0. CallsOK /\ SlotsOK
  BY DEF TypeOK
<1>1. /\ UNCHANGED <<state, closing>>
      /\ \E l : pc' = [pc EXCEPT ![f] = l]
      /\ pc[f] # "ok"
  BY DEF Write, Call, BigSubmit, Load, Lock, Allot, Busy, Cross, Crossed,
         Commit, Register, Unlock, Submit, Goto
<1>2. \A g \in Frames \ {f} : pc'[g] = pc[g]
  BY <1>0, <1>1 DEF CallsOK
<1>3. \A g \in Frames, s \in Slots : HandedBy(g, s) => HandedBy(g, s)'
  <2> SUFFICES ASSUME NEW g \in Frames, NEW s \in Slots, HandedBy(g, s)
               PROVE  HandedBy(g, s)'
    OBVIOUS
  <2>1. g # f
    BY <1>1 DEF HandedBy
  <2>2. my'[g] = my[g] /\ start'[g] = start[g] /\ bigJob'[g] = bigJob[g]
    BY <1>0, <2>1
    DEF Write, Call, BigSubmit, Load, Lock, Allot, Busy, Cross, Crossed,
        Commit, Register, Unlock, Submit, callVars, CallsOK
  <2>. QED BY <1>2, <2>1, <2>2 DEF HandedBy, Owns
<1>4. CASE Call(f)
  <2>1. phase' = phase
    BY <1>4 DEF Call
  <2>2. closing = "released" => pc'[f] \in Final
    BY <1>0, <1>4 DEF Call, Goto, HandOver, CallsOK, Final
  <2>. QED BY <1>1, <1>2, <1>3, <2>1, <2>2 DEF HandOver
<1>5. CASE Submit(f)
  <2>1. /\ pc[f] = "submit" /\ pc' = [pc EXCEPT ![f] = "ok"]
        /\ UNCHANGED <<my, start, bigJob>>
        /\ \A s \in Slots \ {my[f]} : phase'[s] = phase[s]
    BY <1>0, <1>5 DEF Submit, Goto, callVars, SlotsOK
  <2>2. HandedBy(f, my[f])'
    BY <1>0, <2>1 DEF HandedBy, Layout, Owns, Committed, CallsOK
  <2>3. closing # "released"
    BY <2>1 DEF HandOver, Final
  <2>. QED BY <1>1, <1>3, <2>1, <2>2, <2>3 DEF HandOver
<1>6. CASE ~Call(f) /\ ~Submit(f)
  <2>1. phase' = phase
    BY <1>6 DEF Write, BigSubmit, Load, Lock, Allot, Busy, Cross, Crossed,
                Commit, Register, Unlock
  <2>2. pc[f] \notin Final \cup {"idle"}
    BY <1>6 DEF Write, BigSubmit, Load, Lock, Allot, Busy, Cross, Crossed,
                Commit, Register, Unlock, Final
  <2>3. closing # "released"
    BY <2>2 DEF HandOver
  <2>. QED BY <1>1, <1>3, <2>1, <2>3 DEF HandOver
<1>. QED BY <1>4, <1>5, <1>6

\* A worker's step finds its slot handed over.
LEMMA HandOverWork ==
  ASSUME TypeOK, HandOver, NEW s \in Slots, WorkFunc(s)
  PROVE  HandOver'
<1>1. /\ UNCHANGED <<state, closing, pc, my, start, bigJob>>
      /\ phase[s] \notin {"live", "released"}
      /\ \E l : phase' = [phase EXCEPT ![s] = l]
  BY DEF WorkFunc, WorkSwap, WorkSpin, WorkTimeout, WorkSend, WorkDone, callVars
<1>2. \A t \in Slots \ {s} : phase'[t] = phase[t]
  BY <1>1 DEF TypeOK, SlotsOK
<1>3. closing # "released"
  BY <1>1 DEF HandOver
<1>4. \A f \in Frames, t \in Slots : HandedBy(f, t) => HandedBy(f, t)'
  BY <1>1 DEF HandedBy, Owns
<1>. QED BY <1>1, <1>2, <1>3, <1>4 DEF HandOver

\* Close and the cluster's SetState keep the hand-over sound.
LEMMA HandOverRest ==
  ASSUME ~LateStateEvents, TypeOK, HandOver,
         \/ Close
         \/ \E u \in {"Work", "Die"} : SetState(u)
         \/ \E f \in Frames : BigWork(f)
         \/ UNCHANGED vars
  PROVE  HandOver'
<1>1. /\ UNCHANGED <<pc, my, start>>
      /\ \A f \in Frames : bigJob'[f] = "none" <=> bigJob[f] = "none"
  BY DEF Close, CloseBegin, CloseConn, CloseRelease, SetState, BigWork, vars,
         callVars, TypeOK, CallsOK
<1>2. \A f \in Frames, s \in Slots : HandedBy(f, s) => HandedBy(f, s)'
  BY <1>1 DEF HandedBy, Owns
<1>3. CASE CloseRelease
  <2>1. /\ closing = "closed" /\ closing' = "released" /\ Quiescent
        /\ UNCHANGED <<state, pc>>
        /\ phase' = [phase EXCEPT ![wSlot] = "released"]
    BY <1>3 DEF CloseRelease
  <2>2. \A s \in Slots : phase'[s] \in {phase[s], "released"}
    BY <2>1 DEF TypeOK, SlotsOK
  <2>. QED BY <2>1, <2>2 DEF HandOver, Quiescent
<1>4. CASE CloseBegin \/ CloseConn
  BY <1>1, <1>2, <1>4 DEF CloseBegin, CloseConn, HandOver
<1>5. CASE (\E u \in {"Work", "Die"} : SetState(u))
  BY <1>1, <1>2, <1>5 DEF SetState, HandOver
<1>6. CASE (\E f \in Frames : BigWork(f)) \/ UNCHANGED vars
  <2>1. UNCHANGED <<state, closing, phase>>
    BY <1>6 DEF BigWork, vars
  <2>. QED BY <1>1, <1>2, <2>1 DEF HandOver
<1>. QED BY <1>3, <1>4, <1>5, <1>6 DEF Close

\* HandOver is an invariant of a session that no state event of the peer reaches
\* after Close.
LEMMA HandOverCorrect ==
  ASSUME ~LateStateEvents
  PROVE  Spec => []HandOver
<1>1. Init => HandOver
  BY DEF Init, HandOver
<1>2. TypeOK /\ Layout /\ HandOver /\ [Next]_vars => HandOver'
  BY HandOverWrite, HandOverWork, HandOverRest DEF Next
<1>. QED BY <1>1, <1>2, TypeCorrect, LayoutCorrect, PTL DEF Spec

\* WriteFrameDataToCache hands a slot to the dispatcher at most once (its
\* "start == 0" test), for any number of writers.
THEOREM HandOverIsOnce ==
  ASSUME ~LateStateEvents
  PROVE  Spec => []HandedOverOnce
BY HandOverImplies, HandOverCorrect, TypeCorrect, LayoutCorrect, PTL

\* A slot that reaches WorkFunc holds a committed frame: its ErrAvailableCursor
\* branch is dead.
THEOREM QueuedSlotHoldsFrame ==
  ASSUME ~LateStateEvents
  PROVE  Spec => []QueuedHoldsFrame
<1>1. TypeOK /\ Layout /\ HandOver => QueuedHoldsFrame
  <2> SUFFICES ASSUME TypeOK, Layout, HandOver, NEW s \in Slots,
                      phase[s] \in {"queued", "spin", "late", "send", "sent"}
               PROVE  availableCursor[s] >= FrameHeadLength
    BY DEF QueuedHoldsFrame
  <2>1. PICK f \in Frames : HandedBy(f, s)
    BY DEF HandOver
  <2>2. FrameLen[f] <= availableCursor[s]
    BY <2>1 DEF HandedBy, Layout
  <2>3. FrameLen[f] \in Nat /\ FrameLen[f] >= FrameHeadLength
        /\ FrameHeadLength \in Nat /\ availableCursor[s] \in Nat
    BY ConstantsAssumption DEF TypeOK, SlotsOK
  <2>. QED BY <2>2, <2>3
<1>. QED BY <1>1, HandOverCorrect, TypeCorrect, LayoutCorrect, PTL

----------------------------------------------------------------------------
(* The spin on writeLock                                                    *)

\* The calls between writeLock's increment and its decrement on slot s.
Holders(s) == {f \in Frames : my[f] = s /\ pc[f] \in Holding}

\* writeLock counts its holders exactly (every path of WriteFrameDataToCache
\* that adds 1 takes 1 away again, on the same slot).
LockCounts == \A s \in Slots : writeLock[s] = Cardinality(Holders(s))

\* Holders are a finite set, and the count moves with it.
LEMMA HoldersMove ==
  ASSUME NEW f \in Frames, NEW s
  PROVE  /\ IsFiniteSet(Holders(s)) /\ Cardinality(Holders(s)) \in Nat
         /\ (f \notin Holders(s) /\ Holders(s)' = Holders(s) \cup {f}) =>
              Cardinality(Holders(s)') = Cardinality(Holders(s)) + 1
         /\ (f \in Holders(s) /\ Holders(s)' = Holders(s) \ {f}) =>
              Cardinality(Holders(s)') = Cardinality(Holders(s)) - 1
<1>1. IsFiniteSet(Holders(s))
  <2>1. Holders(s) \subseteq Frames
    BY DEF Holders
  <2>. QED BY <2>1, FS_Subset, ConstantsAssumption
<1>2. Cardinality(Holders(s)) \in Nat
  BY <1>1, FS_CardinalityType
<1>3. f \notin Holders(s) =>
        Cardinality(Holders(s) \cup {f}) = Cardinality(Holders(s)) + 1
  BY <1>1, FS_AddElement
<1>4. f \in Holders(s) =>
        Cardinality(Holders(s) \ {f}) = Cardinality(Holders(s)) - 1
  BY <1>1, FS_RemoveElement
<1>. QED BY <1>1, <1>2, <1>3, <1>4

\* A step in which no call starts or stops holding keeps the count.
LEMMA LockKeep ==
  ASSUME LockCounts, writeLock' = writeLock,
         \A s \in Slots : Holders(s)' = Holders(s)
  PROVE  LockCounts'
BY DEF LockCounts

\* A step in which one call stops holding takes one off its slot.
LEMMA LockDrop ==
  ASSUME TypeOK, LockCounts, NEW f \in Frames, NEW l,
         pc[f] \in Holding, l \notin Holding,
         pc' = [pc EXCEPT ![f] = l], my' = my,
         writeLock' = [writeLock EXCEPT ![my[f]] = @ - 1]
  PROVE  LockCounts'
<1>0. CallsOK /\ SlotsOK /\ my[f] \in Slots
  BY DEF TypeOK, CallsOK
<1>1. \A s \in Slots \ {my[f]} : Holders(s)' = Holders(s)
  BY <1>0 DEF Holders, CallsOK
<1>2. f \in Holders(my[f]) /\ Holders(my[f])' = Holders(my[f]) \ {f}
  BY <1>0 DEF Holders, CallsOK
<1>3. Cardinality(Holders(my[f]))' = Cardinality(Holders(my[f])) - 1
  BY <1>2, HoldersMove
<1>. QED BY <1>0, <1>1, <1>3 DEF LockCounts, SlotsOK

\* Every step keeps the count.
LEMMA LockStep ==
  ASSUME TypeOK, LockCounts, [Next]_vars
  PROVE  LockCounts'
<1> USE DEF Goto, callVars, slotVars
<1>0. CallsOK /\ SlotsOK
  BY DEF TypeOK
<1>1. ASSUME NEW f \in Frames, Write(f) PROVE LockCounts'
  <2>0. my[f] \in Slots
    BY <1>0 DEF CallsOK
  <2>1. CASE Call(f) \/ BigSubmit(f) \/ Load(f) \/ Submit(f)
    <3>1. writeLock' = writeLock /\ pc[f] \notin Holding /\ pc'[f] \notin Holding
      BY <1>0, <2>1
      DEF Call, BigSubmit, Load, Submit, CallsOK, Holding
    <3>2. \A g \in Frames \ {f} : pc'[g] = pc[g] /\ my'[g] = my[g]
      BY <1>0, <2>1 DEF Call, BigSubmit, Load, Submit, CallsOK
    <3>. QED BY <3>1, <3>2, LockKeep DEF Holders
  <2>2. CASE Lock(f)
    <3>1. /\ pc[f] = "lock" /\ pc' = [pc EXCEPT ![f] = "allot"] /\ my' = my
          /\ writeLock' = [writeLock EXCEPT ![my[f]] = @ + 1]
      BY <2>2 DEF Lock
    <3>2. \A s \in Slots \ {my[f]} : Holders(s)' = Holders(s)
      BY <1>0, <3>1 DEF Holders, CallsOK
    <3>3. f \notin Holders(my[f]) /\ Holders(my[f])' = Holders(my[f]) \cup {f}
      BY <1>0, <3>1 DEF Holders, CallsOK, Holding
    <3>4. Cardinality(Holders(my[f]))' = Cardinality(Holders(my[f])) + 1
      BY <3>1, <3>3, HoldersMove
    <3>. QED BY <1>0, <2>0, <3>1, <3>2, <3>4 DEF LockCounts, SlotsOK
  <2>3. CASE Allot(f) \/ Cross(f) \/ Commit(f) \/ Register(f)
    <3>1. writeLock' = writeLock /\ my' = my
          /\ pc[f] \in Holding /\ pc'[f] \in Holding
      BY <1>0, <2>3
      DEF Allot, Cross, Commit, Register, CallsOK, Holding, Claim
    <3>2. \A g \in Frames \ {f} : pc'[g] = pc[g]
      BY <1>0, <2>3 DEF Allot, Cross, Commit, Register, CallsOK
    <3>. QED BY <3>1, <3>2, LockKeep DEF Holders
  <2>4. CASE Busy(f)
    <3>1. PICK l \in {"ErrFailureBusy", "load"} : pc' = [pc EXCEPT ![f] = l]
      BY <2>4 DEF Busy
    <3>2. /\ pc[f] \in Holding /\ l \notin Holding /\ my' = my
          /\ writeLock' = [writeLock EXCEPT ![my[f]] = @ - 1]
      BY <2>4 DEF Busy, BusyUnlocked, Holding
    <3>. QED BY <3>1, <3>2, LockDrop
  <2>5. CASE Crossed(f)
    <3>1. /\ pc[f] \in Holding /\ "load" \notin Holding
          /\ pc' = [pc EXCEPT ![f] = "load"] /\ my' = my
          /\ writeLock' = [writeLock EXCEPT ![my[f]] = @ - 1]
      BY <2>5 DEF Crossed, Holding
    <3>. QED BY <3>1, LockDrop
  <2>6. CASE Unlock(f)
    <3>1. PICK l \in {"submit", "ok"} : pc' = [pc EXCEPT ![f] = l]
      BY <2>6 DEF Unlock
    <3>2. /\ pc[f] \in Holding /\ l \notin Holding /\ my' = my
          /\ writeLock' = [writeLock EXCEPT ![my[f]] = @ - 1]
      BY <2>6 DEF Unlock, Holding
    <3>. QED BY <3>1, <3>2, LockDrop
  <2>. QED BY <1>1, <2>1, <2>2, <2>3, <2>4, <2>5, <2>6 DEF Write
<1>2. CASE UNCHANGED <<writeLock, pc, my>>
  BY <1>2, LockKeep DEF Holders
<1>3. CASE ~ \E f \in Frames : Write(f)
  BY <1>2, <1>3
  DEF Next, BigWork, WorkFunc, WorkSwap, WorkSpin, WorkTimeout, WorkSend,
      WorkDone, SetState, Close, CloseBegin, CloseConn, CloseRelease, vars
<1>. QED BY <1>1, <1>3

\* writeLock counts its holders, for any number of writers and slots.
THEOREM LockCountsCorrect == Spec => []LockCounts
<1>1. Init => LockCounts
  <2> SUFFICES ASSUME Init, NEW s \in Slots
               PROVE  writeLock[s] = Cardinality(Holders(s))
    BY DEF LockCounts
  <2>1. Holders(s) = {}
    BY DEF Init, Holders, Holding
  <2>. QED BY <2>1, FS_EmptySet DEF Init
<1>2. TypeOK /\ LockCounts /\ [Next]_vars => LockCounts'
  BY LockStep
<1>. QED BY <1>1, <1>2, TypeCorrect, PTL DEF Spec

\* A slot whose WorkFunc has started is not the current slot any more, so no call
\* can load it.
Superseded ==
  closing # "released" =>
    \A s \in Slots : phase[s] \in {"spin", "late", "send", "sent", "released"} =>
      s < wSlot

\* WorkFunc's CompareAndSwap supersedes the slot before anything else.
LEMMA SupersededStep ==
  ASSUME ~LateStateEvents, TypeOK, Layout, HandOver, HandedOverOnce, Superseded,
         [Next]_vars
  PROVE  Superseded'
<1>0. /\ SessionOK /\ SlotsOK /\ wSlot = slotCount
      /\ wSlot \in Int /\ \A s \in Slots : s \in Int
  BY SlotsAreInts DEF TypeOK, SessionOK, Layout
<1>1. wSlot' \in Int /\ wSlot <= wSlot'
  <2>1. ASSUME NEW s \in Slots, InstallAfter(s)
        PROVE  wSlot' \in Int /\ wSlot <= wSlot'
    BY <1>0, <2>1, InstallForward, InstallType, SlotsAreInts
  <2>2. ASSUME NEW f \in Frames, Cross(f) PROVE InstallAfter(my[f]) /\ my[f] \in Slots
    BY <2>2 DEF Cross, TypeOK, CallsOK
  <2>3. ASSUME NEW s \in Slots, WorkSwap(s) PROVE InstallAfter(s)
    BY <2>3 DEF WorkSwap
  <2>4. CASE wSlot' = wSlot
    BY <1>0, <2>4
  <2>. QED BY <2>1, <2>2, <2>3, <2>4
       DEF Next, Write, Call, BigSubmit, Load, Lock, Allot, Busy, Crossed,
           Commit, Register, Unlock, Submit, BigWork, WorkFunc, WorkSpin,
           WorkTimeout, WorkSend, WorkDone, SetState, Close, CloseBegin,
           CloseConn, CloseRelease, vars
<1>2. CASE closing' = closing /\ phase' = phase
  BY <1>0, <1>1, <1>2 DEF Superseded
<1>3. ASSUME NEW f \in Frames, Submit(f) PROVE Superseded'
  <2>1. /\ closing' = closing /\ phase[my[f]] = "live"
        /\ phase' = [phase EXCEPT ![my[f]] = "queued"]
    BY <1>3 DEF Submit, HandedOverOnce
  <2>2. \A s \in Slots : phase'[s] \in {phase[s], "queued"}
    BY <1>0, <2>1 DEF SlotsOK
  <2>. QED BY <1>0, <1>1, <2>1, <2>2 DEF Superseded
<1>4. ASSUME NEW s \in Slots, WorkFunc(s) PROVE Superseded'
  <2>1. closing' = closing /\ \A t \in Slots \ {s} : phase'[t] = phase[t]
    BY <1>0, <1>4 DEF SlotsOK, WorkFunc, WorkSwap, WorkSpin, WorkTimeout,
                      WorkSend, WorkDone
  <2>2. closing # "released" => s < wSlot'
    <3>1. CASE WorkSwap(s)
      <4>1. phase[s] = "queued" /\ closing # "released" /\ InstallAfter(s)
        BY <3>1 DEF WorkSwap, HandOver
      <4>2. PICK f \in Frames : HandedBy(f, s)
        BY <4>1 DEF HandOver
      <4>3. s <= wSlot
        BY <4>2 DEF HandedBy, Layout
      <4>. QED BY <1>0, <1>1, <4>1, <4>3, InstallForward
    <3>2. CASE ~WorkSwap(s)
      BY <1>0, <1>1, <1>4, <3>2
      DEF WorkFunc, WorkSpin, WorkTimeout, WorkSend, WorkDone, Superseded
    <3>. QED BY <3>1, <3>2
  <2>. QED BY <1>0, <1>1, <2>1, <2>2 DEF Superseded
<1>5. CASE Close
  BY <1>0, <1>1, <1>5
  DEF Close, CloseBegin, CloseConn, CloseRelease, Superseded
<1>6. CASE (\E f \in Frames : Write(f) /\ ~Submit(f)) \/ UNCHANGED vars
           \/ (\E f \in Frames : BigWork(f))
           \/ (\E u \in {"Work", "Die"} : SetState(u))
  <2>1. closing' = closing /\ phase' = phase
    BY <1>6
    DEF Write, Call, BigSubmit, Load, Lock, Allot, Busy, Cross, Crossed,
        Commit, Register, Unlock, BigWork, SetState, vars
  <2>. QED BY <2>1, <1>2
<1>. QED BY <1>3, <1>4, <1>5, <1>6 DEF Next, Write

\* WorkFunc overtakes a call only when it leaves its spin.
LEMMA OvertakenStep ==
  ASSUME [Next]_vars
  PROVE  /\ overtaken' = {} => overtaken = {}
         /\ overtaken' = {} => \A s \in Slots : WorkSpin(s) => ~Caught(s)
<1>1. ASSUME NEW s \in Slots, WorkSpin(s), overtaken' = {}
      PROVE  overtaken = {} /\ ~Caught(s)
  BY <1>1 DEF WorkSpin
<1>2. overtaken' = overtaken \/ \E s \in Slots : WorkSpin(s)
  BY DEF Next, Write, Call, BigSubmit, Load, Lock, Allot, Busy, Cross, Crossed, Commit,
         Register, Unlock, Submit, BigWork, WorkFunc, WorkSwap, WorkTimeout, WorkSend,
         WorkDone, SetState, Close, CloseBegin, CloseConn, CloseRelease, vars, fateVars
<1>. QED BY <1>1, <1>2

\* The only way into a slot is a load of the current slot.
LEMMA NoLateCommitStep ==
  ASSUME overtaken' = {}, ~LateStateEvents, TypeOK, HandOver, HandedOverOnce,
         LockCounts, Superseded, NoLateCommit, [Next]_vars
  PROVE  NoLateCommit'
<1> DEFINE Inside == {"lock"} \cup (Holding \ {"panic"})
           Past == {"late", "send", "sent", "released"}
<1>0. CallsOK /\ SlotsOK /\ SessionOK
  BY DEF TypeOK
<1>1. ASSUME NEW f \in Frames, Write(f) PROVE NoLateCommit'
  <2>1. \A s \in Slots : phase'[s] \in Past => phase[s] \in Past
    <3>1. CASE Submit(f)
      <4>1. phase[my[f]] = "live" /\ phase' = [phase EXCEPT ![my[f]] = "queued"]
        BY <3>1 DEF Submit, HandedOverOnce
      <4>. QED BY <1>0, <4>1 DEF SlotsOK
    <3>2. CASE ~Submit(f)
      BY <1>1, <3>2
      DEF Write, Call, BigSubmit, Load, Lock, Allot, Busy, Cross, Crossed,
          Commit, Register, Unlock
    <3>. QED BY <3>1, <3>2
  <2>2. \A g \in Frames \ {f} : pc'[g] = pc[g] /\ my'[g] = my[g]
    BY <1>0, <1>1
    DEF Write, Call, BigSubmit, Load, Lock, Allot, Busy, Cross, Crossed, Commit,
        Register, Unlock, Submit, Goto, callVars, CallsOK
  <2>3. CASE Load(f)
    <3>1. my'[f] = wSlot /\ phase' = phase /\ pc[f] = "load"
      BY <1>0, <2>3 DEF Load, CallsOK
    <3>2. phase[wSlot] \notin Past
      <4>1. closing # "released"
        BY <3>1 DEF HandOver, Final
      <4>2. wSlot \in Slots /\ ~(wSlot < wSlot)
        BY <1>0, SlotsAreInts DEF SessionOK
      <4>. QED BY <4>1, <4>2 DEF Superseded
    <3>. QED BY <2>1, <2>2, <3>1, <3>2 DEF NoLateCommit
  <2>4. CASE ~Load(f)
    <3>1. my'[f] = my[f] /\ (pc'[f] \in Inside => pc[f] \in Inside)
      BY <1>0, <1>1, <2>4
      DEF Write, Call, BigSubmit, Lock, Allot, Busy, Cross, Crossed, Commit,
          Register, Unlock, Submit, Goto, callVars, CallsOK, Holding, Claim
    <3>. QED BY <2>1, <2>2, <3>1 DEF NoLateCommit
  <2>. QED BY <2>3, <2>4
<1>2. ASSUME NEW s \in Slots, WorkFunc(s) PROVE NoLateCommit'
  <2>1. /\ UNCHANGED <<pc, my>>
        /\ \A t \in Slots \ {s} : phase'[t] = phase[t]
    BY <1>0, <1>2 DEF WorkFunc, WorkSwap, WorkSpin, WorkTimeout, WorkSend,
                      WorkDone, callVars, SlotsOK
  <2>2. CASE WorkSpin(s)
    <3>1. writeLock[s] = 0 /\ \A f \in Frames : pc[f] = "lock" => my[f] # s
      BY <2>2, OvertakenStep DEF WorkSpin, Unlocked, Caught
    <3>2. Holders(s) = {}
      <4>1. IsFiniteSet(Holders(s))
        <5>1. Holders(s) \subseteq Frames
          BY DEF Holders
        <5>. QED BY <5>1, FS_Subset, ConstantsAssumption
      <4>. QED BY <3>1, <4>1, FS_EmptySet DEF LockCounts
    <3>3. \A f \in Frames : my[f] = s => pc[f] \notin Inside
      BY <3>1, <3>2 DEF Holders
    <3>. QED BY <2>1, <3>3 DEF NoLateCommit
  <2>3. CASE ~WorkSpin(s)
    <3>1. phase'[s] \in Past => phase[s] \in Past
      BY <1>0, <1>2, <2>3 DEF WorkFunc, WorkSwap, WorkTimeout, WorkSend,
                              WorkDone, SlotsOK
    <3>. QED BY <2>1, <3>1 DEF NoLateCommit
  <2>. QED BY <2>2, <2>3
<1>3. CASE CloseRelease
  <2>1. UNCHANGED <<pc, my>> /\ \A f \in Frames : pc[f] \in Final \cup {"idle"}
    BY <1>3 DEF CloseRelease, Quiescent, callVars
  <2>. QED BY <2>1 DEF NoLateCommit, Final, Holding
<1>4. CASE UNCHANGED <<phase, pc, my>>
  BY <1>4 DEF NoLateCommit
<1>5. CASE \/ \E f \in Frames : BigWork(f)
           \/ \E u \in {"Work", "Die"} : SetState(u)
           \/ CloseBegin \/ CloseConn \/ UNCHANGED vars
  BY <1>4, <1>5 DEF BigWork, SetState, CloseBegin, CloseConn, vars, callVars
<1>. QED BY <1>1, <1>2, <1>3, <1>5 DEF Next, Close

\* Nothing is copied into a slot whose bytes were written to the connection or given
\* back to the pool, as long as no WorkFunc has left its spin between a caller's
\* LoadPointer(&wSlot) and its increment of writeLock: this gap, and no other
\* interleaving of callers, hand-overs and jobs, is where a commit becomes late.
THEOREM NoCommitIsLate ==
  ASSUME ~LateStateEvents
  PROVE  Spec => [](overtaken = {} => NoLateCommit)
<1>1. Init => Superseded /\ NoLateCommit
  BY DEF Init, Superseded, NoLateCommit
<1>2. /\ TypeOK /\ Layout /\ HandOver /\ HandedOverOnce /\ LockCounts
      /\ Superseded /\ (overtaken = {} => NoLateCommit) /\ [Next]_vars
      => Superseded' /\ (overtaken = {} => NoLateCommit)'
  BY SupersededStep, NoLateCommitStep, OvertakenStep
<1>. QED BY <1>1, <1>2, TypeCorrect, LayoutCorrect, HandOverCorrect,
            HandOverIsOnce, LockCountsCorrect, PTL DEF Spec

----------------------------------------------------------------------------
(* The bytes of a buffer                                                    *)

Covers(f, b) == start[f] <= b /\ b < End(f)

\* The bytes some call owns, and those of the calls that have committed.
Owned(s) ==
  {b \in 0 .. BytesPoolLenght - 1 : \E f \in Frames : Owns(f) /\ my[f] = s /\ Covers(f, b)}

Filled(s) ==
  {b \in 0 .. BytesPoolLenght - 1 : \E f \in CommittedIn(s) : Covers(f, b)}

\* The claims fill a buffer from its beginning without a gap, up to the claim that
\* crossed its end; and availableCursor counts the bytes that were copied.
Tiled ==
  /\ \A s \in Slots : \E p \in 0 .. BytesPoolLenght :
       /\ Owned(s) = 0 .. p - 1
       /\ allotCursor[s] <= BytesPoolLenght => p = allotCursor[s]
  /\ \A s \in Slots : availableCursor[s] = Cardinality(Filled(s))

\* A slot's frames are sent together, by the one Conn.Write of its WorkFunc, or not
\* at all.
SentTogether ==
  /\ \A f \in sent : pc[f] \in Committed
  /\ \A s \in Slots :
       \/ CommittedIn(s) \cap sent = {}
       \/ phase[s] \in {"sent", "released"} /\ CommittedIn(s) \subseteq sent

----------------------------------------------------------------------------
(* The layout, byte by byte                                                 *)

\* The calls that have copied their frame.
Copied(f) == pc[f] \in Committed /\ bigJob[f] = "none"

\* Only Allot gives a call bytes of a slot, only Commit counts them, and no call gives
\* them up.
LEMMA OwnersStay ==
  ASSUME TypeOK, Layout, [Next]_vars, \A f \in Frames : ~Allot(f) /\ ~Commit(f)
  PROVE  /\ UNCHANGED <<start, allotCursor, availableCursor>>
         /\ \A f \in Frames : /\ (Owns(f)' <=> Owns(f)) /\ (Copied(f)' <=> Copied(f))
                              /\ Owns(f) => my'[f] = my[f]
<1> USE DEF Goto, callVars, slotVars
<1>0. CallsOK /\ \A f \in Frames : bigJob[f] # "none" => pc[f] = "ok"
  BY DEF TypeOK, Layout
<1>1. UNCHANGED <<start, allotCursor, availableCursor>>
  BY DEF Next, Write, Call, BigSubmit, Load, Lock, Busy, Cross, Crossed, Register,
         Unlock, Submit, BigWork, WorkFunc, WorkSwap, WorkSpin, WorkTimeout, WorkSend,
         WorkDone, SetState, Close, CloseBegin, CloseConn, CloseRelease, vars
<1>2. ASSUME NEW f \in Frames, Write(f)
      PROVE  \A g \in Frames : /\ (Owns(g)' <=> Owns(g)) /\ (Copied(g)' <=> Copied(g))
                               /\ Owns(g) => my'[g] = my[g]
  <2>1. \A g \in Frames \ {f} : pc'[g] = pc[g] /\ my'[g] = my[g] /\ bigJob'[g] = bigJob[g]
    BY <1>0, <1>2
    DEF Write, Call, BigSubmit, Load, Lock, Allot, Busy, Cross, Crossed, Commit, Register,
        Unlock, Submit, CallsOK
  <2>2. (Owns(f)' <=> Owns(f)) /\ (Copied(f)' <=> Copied(f)) /\ (Owns(f) => my'[f] = my[f])
    BY <1>0, <1>2
    DEF Write, Call, BigSubmit, Load, Lock, Busy, Cross, Crossed, Register, Unlock, Submit,
        CallsOK, Owns, Copied, Committed
  <2>. QED BY <2>1, <2>2 DEF Owns, Copied
<1>3. CASE ~ \E f \in Frames : Write(f)
  <2>1. /\ UNCHANGED <<pc, my>>
        /\ \A f \in Frames : bigJob'[f] = "none" <=> bigJob[f] = "none"
    BY <1>0, <1>3
    DEF Next, BigWork, WorkFunc, WorkSwap, WorkSpin, WorkTimeout, WorkSend, WorkDone,
        SetState, Close, CloseBegin, CloseConn, CloseRelease, vars, CallsOK
  <2>. QED BY <1>1, <2>1 DEF Owns, Copied
<1>. QED BY <1>1, <1>2, <1>3

\* The frames of a slot are those that have copied there.
LEMMA SameCommitted ==
  ASSUME NEW s,
         \A f \in Frames : /\ (Copied(f)' <=> Copied(f))
                           /\ Owns(f) => my'[f] = my[f]
  PROVE  CommittedIn(s)' = CommittedIn(s)
<1>1. \A f \in Frames : Copied(f) => Owns(f)
  BY DEF Copied, Owns
<1>2. \A f \in Frames : f \in CommittedIn(s) <=> my[f] = s /\ Copied(f)
  BY DEF CommittedIn, Copied
<1>3. \A f \in Frames : f \in CommittedIn(s)' <=> my'[f] = s /\ Copied(f)'
  BY DEF CommittedIn, Copied
<1>4. \A f \in Frames : f \in CommittedIn(s)' <=> f \in CommittedIn(s)
  BY <1>1, <1>2, <1>3
<1>5. CommittedIn(s) \subseteq Frames /\ CommittedIn(s)' \subseteq Frames
  BY DEF CommittedIn
<1>. QED BY <1>4, <1>5

\* A claim that fits takes the bytes from where the claims before it ended; one that does
\* not fit takes none, and none is given out after it.
LEMMA TiledAllot ==
  ASSUME TypeOK, Layout, Tiled, NEW f \in Frames, Allot(f)
  PROVE  Tiled'
<1> DEFINE b == allotCursor[my[f]]
           e == b + FrameLen[f]
<1>0. /\ CallsOK /\ SlotsOK /\ my[f] \in Slots /\ b \in Nat /\ e \in Nat /\ b < e
      /\ BytesPoolLenght \in Nat
  BY ConstantsAssumption DEF TypeOK, CallsOK, SlotsOK
<1>1. StartOf(f) = b /\ NewAllot(f) = e
  BY <1>0, ConstantsAssumption DEF StartOf, NewAllot
<1>2. /\ pc[f] = "allot"
      /\ pc' = [pc EXCEPT ![f] = Claim(b, e)]
      /\ start' = [start EXCEPT ![f] = b]
      /\ allotCursor' = [allotCursor EXCEPT ![my[f]] = e]
      /\ UNCHANGED <<my, bigJob, availableCursor>>
  BY <1>1 DEF Allot, Goto
<1>3. pc'[f] = Claim(b, e) /\ start'[f] = b /\ End(f)' = e
  BY <1>0, <1>2 DEF CallsOK, End
<1>4. /\ allotCursor'[my[f]] = e
      /\ \A s \in Slots \ {my[f]} : allotCursor'[s] = allotCursor[s]
  BY <1>0, <1>2 DEF SlotsOK
<1>5. \A g \in Frames \ {f} : /\ pc'[g] = pc[g] /\ my'[g] = my[g]
                              /\ (Owns(g)' <=> Owns(g))
                              /\ \A i : Covers(g, i)' <=> Covers(g, i)
  BY <1>0, <1>2 DEF CallsOK, Owns, Covers, End
<1>6. ~Owns(f) /\ (Owns(f)' <=> e <= BytesPoolLenght)
  BY <1>0, <1>2, <1>3 DEF Owns, Committed, Claim, Layout
<1>7. \A s \in Slots : Filled(s)' = Filled(s)
  <2>1. \A s \in Slots : CommittedIn(s)' = CommittedIn(s) /\ f \notin CommittedIn(s)
    BY <1>2, <1>3, <1>5 DEF CommittedIn, Committed, Claim
  <2>. QED BY <1>5, <2>1 DEF Filled, CommittedIn
<1>8. ASSUME NEW s \in Slots
      PROVE  \E p \in 0 .. BytesPoolLenght :
               /\ Owned(s)' = 0 .. p - 1
               /\ allotCursor'[s] <= BytesPoolLenght => p = allotCursor'[s]
  <2>1. PICK p \in 0 .. BytesPoolLenght :
           /\ Owned(s) = 0 .. p - 1
           /\ allotCursor[s] <= BytesPoolLenght => p = allotCursor[s]
    BY DEF Tiled
  <2>2. CASE s = my[f] /\ e <= BytesPoolLenght
    <3>1. p = b
      BY <1>0, <2>1, <2>2
    <3>2. \A i \in 0 .. BytesPoolLenght - 1 : Covers(f, i)' <=> b <= i /\ i < e
      BY <1>3 DEF Covers
    <3>3. Owned(s)' = Owned(s) \cup {i \in 0 .. BytesPoolLenght - 1 : Covers(f, i)'}
      BY <1>2, <1>5, <1>6, <2>2 DEF Owned
    <3>4. Owned(s)' = 0 .. e - 1
      BY <1>0, <2>1, <2>2, <3>1, <3>2, <3>3
    <3>. QED BY <1>0, <1>4, <2>2, <3>4
  <2>3. CASE s # my[f] \/ e > BytesPoolLenght
    <3>1. Owned(s)' = Owned(s)
      BY <1>0, <1>2, <1>5, <1>6, <2>3 DEF Owned
    <3>2. allotCursor'[s] <= BytesPoolLenght => allotCursor'[s] = allotCursor[s]
      BY <1>0, <1>4, <2>3
    <3>. QED BY <2>1, <3>1, <3>2
  <2>. QED BY <1>0, <2>2, <2>3
<1>. QED BY <1>2, <1>7, <1>8 DEF Tiled

\* Commit counts the bytes of its frame, which no other frame has.
LEMMA TiledCommit ==
  ASSUME TypeOK, Layout, Tiled, NEW f \in Frames, Commit(f)
  PROVE  Tiled'
<1>0. /\ CallsOK /\ SlotsOK /\ my[f] \in Slots /\ BytesPoolLenght \in Nat
      /\ start[f] \in Nat /\ FrameLen[f] \in Nat /\ End(f) = start[f] + FrameLen[f]
      /\ DisjointFrames
  BY ConstantsAssumption DEF TypeOK, CallsOK, End, Layout
<1>1. /\ pc[f] = "commit" /\ pc' = [pc EXCEPT ![f] = "register"]
      /\ availableCursor' = [availableCursor EXCEPT ![my[f]] =
                               availableCursor[my[f]] + FrameLen[f]]
      /\ UNCHANGED <<my, start, bigJob, allotCursor>>
  BY DEF Commit, NewAvailable, Goto, callVars
<1>2. \A g \in Frames : /\ (Owns(g)' <=> Owns(g))
                        /\ \A i : Covers(g, i)' <=> Covers(g, i)
  BY <1>0, <1>1 DEF Owns, Committed, Covers, End, CallsOK
<1>3. \A s \in Slots : Owned(s)' = Owned(s)
  BY <1>1, <1>2 DEF Owned
<1>4. /\ \A s \in Slots \ {my[f]} : CommittedIn(s)' = CommittedIn(s)
      /\ CommittedIn(my[f])' = CommittedIn(my[f]) \cup {f}
  <2>1. bigJob[f] = "none"
    BY <1>1 DEF Layout
  <2>. QED BY <1>0, <1>1, <2>1 DEF CommittedIn, Committed, CallsOK
<1>5. \A s \in Slots \ {my[f]} : Filled(s)' = Filled(s)
  <2>1. \A s : CommittedIn(s) \subseteq Frames
    BY DEF CommittedIn
  <2>. QED BY <1>2, <1>4, <2>1 DEF Filled
<1> DEFINE F == Filled(my[f])
           B == start[f] .. End(f) - 1
<1>6. Filled(my[f])' = F \cup B
  <2>1. Owns(f) /\ End(f) <= BytesPoolLenght
    BY <1>0, <1>1 DEF Owns, Layout, DisjointFrames
  <2>2. Filled(my[f])' = F \cup {i \in 0 .. BytesPoolLenght - 1 : Covers(f, i)}
    <3>1. CommittedIn(my[f]) \subseteq Frames /\ my' = my
      BY <1>1 DEF CommittedIn
    <3>. QED BY <1>2, <1>4, <3>1 DEF Filled
  <2>3. {i \in 0 .. BytesPoolLenght - 1 : Covers(f, i)} = B
    BY <1>0, <2>1 DEF Covers
  <2>. QED BY <2>2, <2>3
<1>7. F \cap B = {}
  <2> SUFFICES ASSUME NEW i \in F, i \in B PROVE FALSE
    OBVIOUS
  <2>1. PICK g \in CommittedIn(my[f]) : Covers(g, i)
    BY DEF Filled
  <2>2. g \in Frames \ {f} /\ Owns(g) /\ my[g] = my[f] /\ Owns(f)
    BY <1>1, <2>1 DEF CommittedIn, Committed, Owns, Layout
  <2>3. End(f) <= start[g] \/ End(g) <= start[f]
    BY <1>0, <2>2 DEF DisjointFrames
  <2>4. End(g) \in Int /\ start[g] \in Int /\ i \in Int
    BY <1>0, <2>2, ConstantsAssumption DEF CallsOK, End
  <2>. QED BY <1>0, <2>1, <2>3, <2>4 DEF Covers
<1>8. IsFiniteSet(F) /\ IsFiniteSet(B) /\ Cardinality(B) = FrameLen[f] /\ Cardinality(F) \in Nat
  <2>0. 0 \in Int /\ BytesPoolLenght - 1 \in Int /\ End(f) - 1 \in Int /\ start[f] \in Int
    BY <1>0
  <2>1. IsFiniteSet(0 .. BytesPoolLenght - 1) /\ IsFiniteSet(B)
    BY <2>0, FS_Interval
  <2>2. Cardinality(B) = IF start[f] > End(f) - 1 THEN 0 ELSE (End(f) - 1) - start[f] + 1
    BY <2>0, FS_Interval
  <2>3. Cardinality(B) = FrameLen[f]
    BY <1>0, <2>2
  <2>4. F \subseteq 0 .. BytesPoolLenght - 1
    BY DEF Filled
  <2>. QED BY <2>1, <2>3, <2>4, FS_Subset, FS_CardinalityType
<1>9. Cardinality(F \cup B) = Cardinality(F) + FrameLen[f]
  <2> HIDE DEF F, B
  <2>1. Cardinality(F \cap B) = 0
    BY <1>7, FS_EmptySet
  <2>2. Cardinality(F \cup B) = Cardinality(F) + Cardinality(B) - Cardinality(F \cap B)
    BY <1>8, FS_Union
  <2>. QED BY <1>0, <1>8, <2>1, <2>2
<1>10. \A s \in Slots : availableCursor'[s] = Cardinality(Filled(s)')
  <2>1. availableCursor'[my[f]] = availableCursor[my[f]] + FrameLen[f]
    BY <1>0, <1>1 DEF SlotsOK
  <2>2. \A s \in Slots \ {my[f]} : availableCursor'[s] = availableCursor[s]
    BY <1>0, <1>1 DEF SlotsOK
  <2>3. /\ \A s \in Slots : availableCursor[s] = Cardinality(Filled(s))
        /\ my' = my
    BY <1>1 DEF Tiled
  <2>4. availableCursor'[my[f]] = Cardinality(Filled(my[f])')
    BY <1>0, <1>6, <1>9, <2>1, <2>3
  <2>. QED BY <1>0, <1>5, <2>2, <2>3, <2>4
<1>. QED BY <1>1, <1>3, <1>10 DEF Tiled

\* The claims tile the buffers and the commits are counted, whatever the order in which
\* the calls add to the cursors.
THEOREM ClaimsTile == Spec => []Tiled
<1>1. Init => Tiled
  <2> SUFFICES ASSUME Init, NEW s \in Slots
               PROVE  Owned(s) = {} /\ Filled(s) = {} /\ allotCursor[s] = 0
                      /\ availableCursor[s] = 0
    <3>1. 0 \in 0 .. BytesPoolLenght /\ 0 .. 0 - 1 = {}
      BY ConstantsAssumption
    <3>. QED BY <3>1, FS_EmptySet DEF Tiled
  <2>. QED BY DEF Init, Owned, Filled, Owns, CommittedIn, Committed
<1>2. TypeOK /\ Layout /\ Tiled /\ [Next]_vars => Tiled'
  <2> SUFFICES ASSUME TypeOK, Layout, Tiled, [Next]_vars,
                      \A f \in Frames : ~Allot(f) /\ ~Commit(f)
               PROVE  Tiled'
    BY TiledAllot, TiledCommit
  <2>1. /\ UNCHANGED <<start, allotCursor, availableCursor>>
        /\ \A f \in Frames : /\ (Owns(f)' <=> Owns(f)) /\ (Copied(f)' <=> Copied(f))
                             /\ Owns(f) => my'[f] = my[f]
    BY OwnersStay
  <2>2. \A f \in Frames : (\A i : Covers(f, i)' <=> Covers(f, i)) /\ (Copied(f) => Owns(f))
    BY <2>1 DEF Covers, End, Copied, Owns
  <2>3. ASSUME NEW s \in Slots
        PROVE  CommittedIn(s)' = CommittedIn(s) /\ CommittedIn(s) \subseteq Frames
    BY <2>1, SameCommitted DEF CommittedIn
  <2>4. ASSUME NEW s \in Slots PROVE Owned(s)' = Owned(s)
    <3>1. \A i : (\E f \in Frames : Owns(f)' /\ my'[f] = s /\ Covers(f, i)')
               <=> (\E f \in Frames : Owns(f) /\ my[f] = s /\ Covers(f, i))
      BY <2>1, <2>2
    <3>. QED BY <3>1 DEF Owned
  <2>5. ASSUME NEW s \in Slots PROVE Filled(s)' = Filled(s)
    BY <2>2, <2>3 DEF Filled
  <2>. QED BY <2>1, <2>4, <2>5 DEF Tiled
<1>. QED BY <1>1, <1>2, TypeCorrect, LayoutCorrect, PTL DEF Spec

\* When nobody copies any more, availableCursor is the end of the last frame.
LEMMA CommittedIsPrefix ==
  ASSUME TypeOK, Layout, Tiled, NEW s \in Slots,
         \A g \in Frames : my[g] = s => pc[g] # "commit",
         NEW f \in CommittedIn(s)
  PROVE  End(f) <= availableCursor[s]
<1>1. PICK p \in 0 .. BytesPoolLenght : Owned(s) = 0 .. p - 1
  BY DEF Tiled
<1>2. Filled(s) = Owned(s)
  BY DEF Filled, Owned, CommittedIn, Owns
<1>3. p \in Nat /\ BytesPoolLenght \in Nat
  BY ConstantsAssumption
<1>4. availableCursor[s] = p
  <2>1. Cardinality(0 .. p - 1) = p
    <3>1. 0 \in Int /\ p - 1 \in Int
      BY <1>3
    <3>2. Cardinality(0 .. p - 1) = IF 0 > p - 1 THEN 0 ELSE (p - 1) - 0 + 1
      BY <3>1, FS_Interval
    <3>. QED BY <1>3, <3>2
  <2>. QED BY <1>1, <1>2, <2>1 DEF Tiled
<1>5. /\ f \in Frames /\ Owns(f) /\ my[f] = s /\ End(f) <= BytesPoolLenght
      /\ start[f] \in Nat /\ End(f) \in Nat /\ start[f] < End(f)
  BY ConstantsAssumption
  DEF CommittedIn, Owns, Layout, DisjointFrames, TypeOK, CallsOK, End
<1>6. End(f) - 1 \in Owned(s)
  BY <1>3, <1>5 DEF Owned, Covers
<1>. QED BY <1>1, <1>3, <1>4, <1>5, <1>6

\* Nobody copies into a slot that is being written.
LEMMA NobodyCopies ==
  ASSUME NoLateCommit, NEW s \in Slots, phase[s] \in {"late", "send", "sent", "released"},
         NEW f \in Frames, my[f] = s
  PROVE  pc[f] # "commit"
BY DEF NoLateCommit, Holding

\* Every Conn.Write of a slot carries whole frames, and never bytes that no frame was
\* copied to: WorkFunc sends buf[:availableCursor], and this is where a frame ends, as
\* long as no WorkFunc has overtaken a call.
THEOREM FramesAreWhole ==
  ASSUME ~LateStateEvents
  PROVE  Spec => [](overtaken = {} => WholeFrames)
<1>1. Init => WholeFrames
  BY DEF Init, WholeFrames
<1>2. /\ TypeOK /\ Layout /\ Tiled /\ (overtaken = {} => NoLateCommit)
      /\ (overtaken = {} => WholeFrames) /\ [Next]_vars
      => (overtaken = {} => WholeFrames)'
  <2> SUFFICES ASSUME TypeOK, Layout, Tiled, NoLateCommit, ~torn, [Next]_vars
               PROVE  ~torn'
    BY OvertakenStep DEF WholeFrames
  <2>1. ASSUME NEW s \in Slots, WorkSend(s) PROVE ~torn'
    <3>1. \A f \in CommittedIn(s) : End(f) <= availableCursor[s]
      BY <2>1, CommittedIsPrefix, NobodyCopies DEF WorkSend
    <3>2. \A f \in CommittedIn(s) : End(f) \in Int /\ availableCursor[s] \in Int
      BY ConstantsAssumption DEF CommittedIn, End, TypeOK, CallsOK, SlotsOK
    <3>3. ~ \E f \in CommittedIn(s) : End(f) > availableCursor[s]
      BY <3>1, <3>2
    <3>. QED BY <2>1, <3>3 DEF WorkSend
  <2>2. CASE ~ \E s \in Slots : WorkSend(s)
    BY <2>2
    DEF Next, Write, Call, BigSubmit, Load, Lock, Allot, Busy, Cross, Crossed, Commit,
        Register, Unlock, Submit, BigWork, WorkFunc, WorkSwap, WorkSpin, WorkTimeout,
        WorkDone, SetState, Close, CloseBegin, CloseConn, CloseRelease, vars, fateVars,
        CallErrFuncs
  <2>. QED BY <2>1, <2>2
<1>. QED BY <1>1, <1>2, TypeCorrect, LayoutCorrect, ClaimsTile, NoCommitIsLate, PTL DEF Spec

----------------------------------------------------------------------------
(* What was accepted is written                                             *)

\* The frames of a slot change only by a commit, and no frame of another slot is
\* written with them.
LEMMA CommittedStay ==
  ASSUME TypeOK, Layout, [Next]_vars
  PROVE  \A s \in Slots : \/ CommittedIn(s)' = CommittedIn(s)
                          \/ \E f \in Frames : /\ Commit(f) /\ my[f] = s
                                               /\ CommittedIn(s)' = CommittedIn(s) \cup {f}
<1>0. CallsOK /\ \A f \in Frames : bigJob[f] # "none" => pc[f] = "ok"
  BY DEF TypeOK, Layout
<1>1. ASSUME NEW f \in Frames, Allot(f)
      PROVE  \A s \in Slots : CommittedIn(s)' = CommittedIn(s)
  BY <1>0, <1>1 DEF Allot, Goto, Claim, CommittedIn, Committed, CallsOK
<1>2. ASSUME NEW f \in Frames, Commit(f), NEW s \in Slots
      PROVE  CommittedIn(s)' = IF my[f] = s THEN CommittedIn(s) \cup {f} ELSE CommittedIn(s)
  BY <1>0, <1>2 DEF Commit, Goto, callVars, CommittedIn, Committed, CallsOK
<1>3. CASE \A f \in Frames : ~Allot(f) /\ ~Commit(f)
  BY <1>3, OwnersStay, SameCommitted
<1>4. ASSUME NEW f \in Frames, Commit(f), NEW s \in Slots
      PROVE  \/ CommittedIn(s)' = CommittedIn(s)
             \/ my[f] = s /\ CommittedIn(s)' = CommittedIn(s) \cup {f}
  BY <1>2, <1>4
<1>. QED BY <1>1, <1>3, <1>4

\* Only WorkSend and a simpleSlot's WorkFunc write frames.
LEMMA SentBy ==
  ASSUME [Next]_vars
  PROVE  \/ sent' = sent
         \/ \E f \in Frames : bigJob[f] = "queued" /\ BigWork(f) /\ sent' = sent \cup {f}
         \/ \E s \in Slots : WorkSend(s)
BY DEF Next, Write, Call, BigSubmit, Load, Lock, Allot, Busy, Cross, Crossed, Commit,
       Register, Unlock, Submit, BigWork, WorkFunc, WorkSwap, WorkSpin, WorkTimeout,
       WorkDone, SetState, Close, CloseBegin, CloseConn, CloseRelease, vars, fateVars,
       CallErrFuncs

\* A slot that was written or released stays so.
LEMMA PastStays ==
  ASSUME TypeOK, HandedOverOnce, [Next]_vars
  PROVE  \A s \in Slots : phase[s] \in {"sent", "released"} => phase'[s] \in {"sent", "released"}
<1>0. SlotsOK /\ CallsOK /\ SessionOK
  BY DEF TypeOK
<1>1. ASSUME NEW f \in Frames, Submit(f)
      PROVE  phase[my[f]] = "live" /\ phase' = [phase EXCEPT ![my[f]] = "queued"]
  BY <1>1 DEF Submit, HandedOverOnce
<1>2. ASSUME NEW s \in Slots, WorkFunc(s)
      PROVE  \/ /\ phase[s] \notin {"sent", "released"}
                /\ \E l : phase' = [phase EXCEPT ![s] = l]
             \/ phase' = [phase EXCEPT ![s] = "released"]
  BY <1>2 DEF WorkFunc, WorkSwap, WorkSpin, WorkTimeout, WorkSend, WorkDone
<1>3. CASE phase' = phase \/ phase' = [phase EXCEPT ![wSlot] = "released"]
  BY <1>0, <1>3 DEF SlotsOK, SessionOK
<1>4. \/ \E f \in Frames : Submit(f)
      \/ \E s \in Slots : WorkFunc(s)
      \/ phase' = phase \/ phase' = [phase EXCEPT ![wSlot] = "released"]
  BY DEF Next, Write, Call, BigSubmit, Load, Lock, Allot, Busy, Cross, Crossed, Commit,
         Register, Unlock, BigWork, SetState, Close, CloseBegin, CloseConn, CloseRelease,
         vars
<1>5. ASSUME NEW f \in Frames, Submit(f)
      PROVE  \A s \in Slots : phase[s] \in {"sent", "released"} => phase'[s] \in {"sent", "released"}
  BY <1>0, <1>1, <1>5 DEF SlotsOK, CallsOK
<1>6. ASSUME NEW t \in Slots, WorkFunc(t)
      PROVE  \A s \in Slots : phase[s] \in {"sent", "released"} => phase'[s] \in {"sent", "released"}
  BY <1>0, <1>2, <1>6 DEF SlotsOK
<1>. QED BY <1>3, <1>4, <1>5, <1>6

LEMMA SentTogetherStep ==
  ASSUME TypeOK, Layout, Tiled, HandedOverOnce, NoLateCommit, SentTogether, [Next]_vars
  PROVE  SentTogether'
<1>0. /\ CallsOK /\ SlotsOK /\ \A f \in Frames : bigJob[f] # "none" => pc[f] = "ok"
      /\ sent \subseteq Frames
  BY DEF TypeOK, Layout, FatesOK
<1>1. \A f \in Frames : pc[f] \in Committed => pc'[f] \in Committed
  <2>1. ASSUME NEW g \in Frames, Write(g)
        PROVE  \A f \in Frames : pc[f] \in Committed => pc'[f] \in Committed
    BY <1>0, <2>1
    DEF Write, Call, BigSubmit, Load, Lock, Allot, Busy, Cross, Crossed, Commit, Register,
        Unlock, Submit, Goto, Committed, CallsOK
  <2>2. CASE pc' = pc
    BY <2>2
  <2>. QED BY <2>1, <2>2
       DEF Next, BigWork, WorkFunc, WorkSwap, WorkSpin, WorkTimeout, WorkSend, WorkDone,
           SetState, Close, CloseBegin, CloseConn, CloseRelease, vars, callVars
<1>2. \A f \in sent' : f \in sent \/ pc[f] \in Committed
  BY <1>0, SentBy DEF WorkSend, CommittedIn, Committed, fateVars
<1>3. \A f \in sent' : pc'[f] \in Committed
  <2>1. sent' \subseteq Frames
    BY FatesStep DEF FatesOK
  <2>. QED BY <1>1, <1>2, <2>1 DEF SentTogether
<1>4. ASSUME NEW s \in Slots
      PROVE  \/ CommittedIn(s)' \cap sent' = {}
             \/ phase'[s] \in {"sent", "released"} /\ CommittedIn(s)' \subseteq sent'
  <2>1. ASSUME NEW f \in Frames, Commit(f), my[f] = s,
               CommittedIn(s)' = CommittedIn(s) \cup {f}
        PROVE  CommittedIn(s)' \cap sent' = {}
    <3>1. sent' = sent /\ f \notin sent
      BY <2>1 DEF Commit, fateVars, SentTogether, Committed
    <3>2. phase[s] \notin {"sent", "released"}
      BY <2>1, NobodyCopies DEF Commit
    <3>. QED BY <2>1, <3>1, <3>2 DEF SentTogether
  <2>2. ASSUME CommittedIn(s)' = CommittedIn(s), NEW t \in Slots, WorkSend(t)
        PROVE  \/ CommittedIn(s)' \cap sent' = {}
               \/ phase'[s] \in {"sent", "released"} /\ CommittedIn(s)' \subseteq sent'
    <3>1. phase[t] = "send" /\ phase'[t] = "sent"
      BY <1>0, <2>2 DEF WorkSend, SlotsOK
    <3>2. \A f \in CommittedIn(t) : End(f) <= availableCursor[t]
      BY <3>1, CommittedIsPrefix, NobodyCopies
    <3>3. sent' = sent \/ sent' = sent \cup CommittedIn(t)
      BY <2>2, <3>2 DEF WorkSend
    <3>4. s # t => CommittedIn(s) \cap CommittedIn(t) = {}
      BY DEF CommittedIn
    <3>5. CommittedIn(t) \cap sent = {}
      BY <3>1 DEF SentTogether
    <3>6. s # t => phase'[s] = phase[s]
      BY <1>0, <2>2 DEF WorkSend, SlotsOK
    <3>. QED BY <2>2, <3>1, <3>3, <3>4, <3>5, <3>6 DEF SentTogether
  <2>3. ASSUME CommittedIn(s)' = CommittedIn(s), NEW f \in Frames, bigJob[f] = "queued",
               sent' = sent \cup {f}
        PROVE  \/ CommittedIn(s)' \cap sent' = {}
               \/ phase'[s] \in {"sent", "released"} /\ CommittedIn(s)' \subseteq sent'
    <3>1. f \notin CommittedIn(s)
      BY <2>3 DEF CommittedIn
    <3>. QED BY <2>3, <3>1, PastStays DEF SentTogether
  <2>4. ASSUME CommittedIn(s)' = CommittedIn(s), sent' = sent
        PROVE  \/ CommittedIn(s)' \cap sent' = {}
               \/ phase'[s] \in {"sent", "released"} /\ CommittedIn(s)' \subseteq sent'
    BY <2>4, PastStays DEF SentTogether
  <2>. QED BY <2>1, <2>2, <2>3, <2>4, CommittedStay, SentBy
<1>. QED BY <1>3, <1>4 DEF SentTogether

\* A frame whose call returned nil does not stay behind in its buffer: when its slot was
\* written, its bytes were, unless the write of the slot failed as a whole, as long as
\* no WorkFunc has overtaken a call.
THEOREM WrittenIfAccepted ==
  ASSUME ~LateStateEvents
  PROVE  Spec => [](overtaken = {} => AcceptedIsWritten)
<1>1. Init => SentTogether
  BY DEF Init, SentTogether
<1>2. /\ TypeOK /\ Layout /\ Tiled /\ HandedOverOnce /\ (overtaken = {} => NoLateCommit)
      /\ (overtaken = {} => SentTogether) /\ [Next]_vars
      => (overtaken = {} => SentTogether)'
  BY SentTogetherStep, OvertakenStep
<1>3. TypeOK /\ SentTogether => AcceptedIsWritten
  BY DEF SentTogether, AcceptedIsWritten, CommittedIn, Committed, TypeOK, CallsOK
<1>. QED BY <1>1, <1>2, <1>3, TypeCorrect, LayoutCorrect, ClaimsTile, HandOverIsOnce,
            NoCommitIsLate, PTL DEF Spec
=============================================================================
