---------------------------- MODULE EdgeConnProofs ----------------------------
(***************************************************************************)
(* Proofs about EdgeConn for any number of speakers, flushers, waiters and *)
(* callers, and any bounds: type correctness, what a barge-in leaves       *)
(* behind, the bound on stale frames, no lost wakeup, the accounting of    *)
(* marks before the first flush, one call verb per leg, and that the leg   *)
(* is the one the turn machine uses (CallLeg).                             *)
(***************************************************************************)
EXTENDS EdgeConn, SequenceTheorems, TLAPS

-----------------------------------------------------------------------------
\* The frames one WritePCM call puts in the queue.
LEMMA FramesQueued ==
  ASSUME NEW n \in Nat, NEW g \in Nat
  PROVE  /\ [i \in 1 .. n |-> g] \in Seq(Nat)
         /\ Len([i \in 1 .. n |-> g]) = n
         /\ \A i \in 1 .. n : [j \in 1 .. n |-> g][i] = g
OBVIOUS

\* A queue that takes k more frames of generation g.
LEMMA QueueGrows ==
  ASSUME NEW q \in Seq(Nat), NEW k \in Nat, NEW g \in Nat
  PROVE  LET r == q \o [i \in 1 .. k |-> g]
         IN /\ r \in Seq(Nat)
            /\ Len(r) = Len(q) + k
            /\ (\A i \in 1 .. Len(q) : q[i] = g) => \A i \in 1 .. Len(r) : r[i] = g
<1>1. /\ [i \in 1 .. k |-> g] \in Seq(Nat)
      /\ Len([i \in 1 .. k |-> g]) = k
      /\ \A i \in 1 .. k : [j \in 1 .. k |-> g][i] = g
  BY FramesQueued
<1> DEFINE t == [i \in 1 .. k |-> g]
<1>2. /\ q \o t \in Seq(Nat) /\ Len(q \o t) = Len(q) + Len(t)
      /\ \A i \in 1 .. Len(q) + Len(t) :
           (q \o t)[i] = IF i <= Len(q) THEN q[i] ELSE t[i - Len(q)]
  BY <1>1, ConcatProperties
<1>3. Len(q) \in Nat /\ Len(t) = k /\ \A i \in 1 .. k : t[i] = g
  BY <1>1, LenProperties
<1> HIDE DEF t
<1>4. ASSUME \A i \in 1 .. Len(q) : q[i] = g, NEW i \in 1 .. Len(q) + k
      PROVE  (q \o t)[i] = g
  <2>1. CASE i <= Len(q)
    BY <1>2, <1>3, <1>4, <2>1
  <2>2. CASE ~(i <= Len(q))
    <3>1. i - Len(q) \in 1 .. k
      BY <1>3, <2>2
    <3> QED
      BY <1>2, <1>3, <2>2, <3>1
  <2> QED
    BY <2>1, <2>2
<1>5. q \o t \in Seq(Nat) /\ Len(q \o t) = Len(q) + k
  BY <1>2, <1>3
<1> QED
  BY <1>4, <1>5 DEF t

\* The frames WritePCM may queue never exceed what it was given, nor the room.
LEMMA RoomLeft ==
  ASSUME TypeOK, NEW n \in 1 .. MaxChunks
  PROVE  LET k == IF n <= Room THEN n ELSE Room
         IN k \in Nat /\ k <= n /\ Len(queue) + k <= MaxQueuedFrames
<1>1. Len(queue) \in Nat /\ Room \in Nat
  BY BoundsAssumption, LenProperties DEF TypeOK, Room
<1> QED
  BY <1>1, BoundsAssumption DEF Room

\* What popping a frame leaves.
LEMMA QueueShrinks ==
  ASSUME NEW q \in Seq(Nat), q # <<>>
  PROVE  /\ Head(q) \in Nat /\ Head(q) = q[1] /\ 1 \in 1 .. Len(q)
         /\ Tail(q) \in Seq(Nat) /\ Len(Tail(q)) = Len(q) - 1
         /\ \A i \in 1 .. Len(Tail(q)) : Tail(q)[i] = q[i + 1] /\ i + 1 \in 1 .. Len(q)
<1>1. Len(q) \in Nat \ {0}
  BY EmptySeq
<1> QED
  BY <1>1, HeadTailProperties

\* Every step keeps the types and the queue within maxQueuedFrames.
LEMMA TypeStep ==
  ASSUME TypeOK, [Next]_vars
  PROVE  TypeOK'
<1> USE BoundsAssumption DEF TypeOK, WriterPC, FlushPC, ActPC
<1>1. ASSUME NEW s \in Speakers, SpeakerStep(s)
      PROVE  TypeOK'
  <2>1. ASSUME NEW n \in 1 .. MaxChunks, WriteEnqueue(s, n)
       PROVE  TypeOK'
    <3> DEFINE k == IF n <= Room THEN n ELSE Room
    <3>1. k \in Nat /\ k <= n /\ Len(queue) + k <= MaxQueuedFrames
      BY RoomLeft
    <3>2. /\ queue' = queue \o [i \in 1 .. k |-> flushGen]
          /\ spk' = [spk EXCEPT ![s] = k] /\ unmarked' = unmarked + k /\ frames' = frames + n
      BY <2>1 DEF WriteEnqueue
    <3> HIDE DEF k
    <3>3. queue' \in Seq(Nat) /\ Len(queue') = Len(queue) + k
      BY <3>1, <3>2, QueueGrows
    <3> QED
      BY <2>1, <3>1, <3>2, <3>3 DEF WriteEnqueue, markVars, callVars, wireVars
  <2>2. CASE WriteAddMarks(s)
    BY <2>2 DEF WriteAddMarks, markVars, callVars, wireVars
  <2> QED
    BY <1>1, <2>1, <2>2 DEF SpeakerStep
<1>2. CASE WriterStep
  <2>1. CASE FlushOnePop
    <3>1. queue' = Tail(queue) /\ wr' = [pc |-> "gen", gen |-> flushGen, frame |-> Head(queue)]
      BY <2>1 DEF FlushOnePop
    <3>2. queue' \in Seq(Nat) /\ Len(queue') <= MaxQueuedFrames /\ Head(queue) \in Nat
      <4>1. queue # <<>> /\ Len(queue) \in Nat
        BY <2>1, LenProperties DEF FlushOnePop
      <4> QED
        BY <3>1, <4>1, QueueShrinks
    <3> QED
      BY <2>1, <3>1, <3>2 DEF FlushOnePop, markVars, callVars, wireVars
  <2>2. CASE WriteAudioCheckGen
    BY <2>2 DEF WriteAudioCheckGen, markVars, callVars, wireVars
  <2>3. CASE WriteAudioCheckClosed
    BY <2>3 DEF WriteAudioCheckClosed, markVars, callVars, wireVars
  <2>4. CASE WriteAudioOk
    <3>1. /\ fails' = 0 /\ wr' = [wr EXCEPT !.pc = "mark"]
          /\ stale' = stale + (IF wr.frame < peerGen THEN 1 ELSE 0)
      BY <2>4 DEF WriteAudioOk
    <3>2. fails' \in Nat /\ stale' \in Nat
      BY <3>1
    <3>3. wr' \in [pc : WriterPC, gen : Nat, frame : Nat]
      BY <3>1
    <3> QED
      BY <2>4, <3>2, <3>3 DEF WriteAudioOk, markVars, callVars
  <2>5. CASE WriteAudioFail
    <3>1. fails' = fails + 1 /\ fails' \in Nat
      BY <2>5 DEF WriteAudioFail, CountFailure
    <3>2. wr' = [wr EXCEPT !.pc = PCAfterFailure("mark")] /\ PCAfterFailure("mark") \in WriterPC
      BY <2>5 DEF WriteAudioFail, PCAfterFailure
    <3>3. wr' \in [pc : WriterPC, gen : Nat, frame : Nat]
      BY <3>2
    <3> QED
      BY <2>5, <3>1, <3>3 DEF WriteAudioFail, markVars, callVars, wireVars
  <2>6. CASE FlushOneMarkDone
    <3>1. wr' = [wr EXCEPT !.pc = "idle"]
      BY <2>6 DEF FlushOneMarkDone
    <3>2. wr' \in [pc : WriterPC, gen : Nat, frame : Nat]
      BY <3>1
    <3>3. pending' \in Nat
      BY <2>6 DEF FlushOneMarkDone, MarkDone, SetPending
    <3>4. inner' \in [Waiters -> {"none", "run", "parked", "exit"}]
      BY <2>6 DEF FlushOneMarkDone, MarkDone, SetPending, Woken
    <3> QED
      BY <2>6, <3>2, <3>3, <3>4 DEF FlushOneMarkDone, callVars, wireVars
  <2> QED
    BY <1>2, <2>1, <2>2, <2>3, <2>4, <2>5, <2>6 DEF WriterStep
<1>3. ASSUME NEW f \in Flushers, FlushDrop(f) \/ FlushProgress(f)
      PROVE  TypeOK'
  <2>1. CASE FlushDrop(f)
    BY <2>1 DEF FlushDrop, markVars, callVars, wireVars
  <2>2. CASE FlushMarks(f)
    BY <2>2 DEF FlushMarks, SetPending, Woken, markVars, callVars, wireVars
  <2>3. CASE FlushCheckClosed(f)
    BY <2>3 DEF FlushCheckClosed, markVars, callVars, wireVars
  <2>4. CASE FlushSendOk(f)
    BY <2>4 DEF FlushSendOk, markVars, callVars, wireVars
  <2>5. CASE FlushSendFail(f)
    <3>1. fails' = fails + 1 /\ fails' \in Nat
      BY <2>5, SMTT(30) DEF FlushSendFail, CountFailure
    <3>2. /\ flu' = [flu EXCEPT ![f].pc = PCAfterFailure("idle")]
          /\ PCAfterFailure("idle") \in FlushPC
      BY <2>5 DEF FlushSendFail, PCAfterFailure
    <3>3. flu' \in [Flushers -> [pc : FlushPC, gen : Nat]]
      BY <3>2
    <3> QED
      BY <2>5, <3>1, <3>3 DEF FlushSendFail, markVars, callVars, wireVars
  <2>6. CASE FlushAfterClose(f)
    <3>1. flu' \in [Flushers -> [pc : FlushPC, gen : Nat]]
      <4>1. flu' = [flu EXCEPT ![f] = [@ EXCEPT !.pc = "idle"]]
        BY <2>6 DEF FlushAfterClose
      <4>2. [flu[f] EXCEPT !.pc = "idle"] \in [pc : FlushPC, gen : Nat]
        BY DEF FlushPC
      <4> QED
        BY <4>1, <4>2
    <3> QED
      BY <2>6, <3>1 DEF FlushAfterClose, markVars, callVars, wireVars
  <2> QED
    BY <1>3, <2>1, <2>2, <2>3, <2>4, <2>5, <2>6 DEF FlushProgress
<1>4. ASSUME NEW w \in Waiters, WaitStart(w) \/ WaitProgress(w) \/ WaitExpire(w)
      PROVE  TypeOK'
  <2>1. CASE WaitStart(w)
    BY <2>1 DEF WaitStart, markVars, callVars, wireVars
  <2>2. CASE InnerCheck(w)
    BY <2>2 DEF InnerCheck, markVars, callVars, wireVars
  <2>3. CASE WaitReturn(w)
    BY <2>3 DEF WaitReturn, markVars, callVars, wireVars
  <2>4. CASE WaitExpire(w)
    BY <2>4 DEF WaitExpire, Woken, markVars, callVars, wireVars
  <2> QED
    BY <1>4, <2>1, <2>2, <2>3, <2>4 DEF WaitProgress
<1>5. ASSUME NEW c \in Callers, ActRequest(c) \/ ActProgress(c)
      PROVE  TypeOK'
  <2>1. CASE ActRequest(c)
    BY <2>1 DEF ActRequest, markVars, callVars, wireVars
  <2>2. CASE ActOnce(c)
    BY <2>2 DEF ActOnce, OnceFree, markVars, callVars, wireVars
  <2>3. CASE ActCheckClosed(c)
    BY <2>3 DEF ActCheckClosed, markVars, callVars, wireVars
  <2>4. CASE ActSendOk(c)
    BY <2>4 DEF ActSendOk, markVars, callVars, wireVars
  <2>5. CASE ActSendFail(c)
    BY <2>5 DEF ActSendFail, CountFailure, PCAfterFailure, markVars, callVars, wireVars
  <2>6. CASE ActAfterClose(c)
    BY <2>6 DEF ActAfterClose, markVars, callVars, wireVars
  <2> QED
    BY <1>5, <2>1, <2>2, <2>3, <2>4, <2>5, <2>6 DEF ActProgress
<1>6. CASE PeerGone
  BY <1>6 DEF PeerGone, BeginClose, markVars, callVars, wireVars
<1>7. CASE FailuresClose
  BY <1>7 DEF FailuresClose, BeginClose, markVars, callVars, wireVars
<1>8. CASE FinishClose
  BY <1>8 DEF FinishClose, SetPending, Woken, markVars, callVars, wireVars
<1>9. CASE UNCHANGED vars
  BY <1>9 DEF vars, markVars, callVars, wireVars
<1> QED
  BY <1>1, <1>2, <1>3, <1>4, <1>5, <1>6, <1>7, <1>8, <1>9 DEF Next

\* EdgeConn, TypeOK: types are kept, and WritePCM never queues more than
\* maxQueuedFrames however many goroutines speak.
THEOREM TypeCorrect == Spec => []TypeOK
<1>1. Init => TypeOK
  <2>1. <<>> \in Seq(Nat) /\ Len(<<>>) = 0
    BY EmptySeq
  <2> QED
    BY <2>1, BoundsAssumption DEF Init, TypeOK, WriterPC, FlushPC, ActPC
<1>2. TypeOK /\ [Next]_vars => TypeOK'
  BY TypeStep
<1> QED
  BY <1>1, <1>2, PTL DEF Spec

-----------------------------------------------------------------------------
\* A flush empties the queue in the section that opens the new generation.
LEMMA CurrentStep ==
  ASSUME TypeOK, QueueIsCurrent, [Next]_vars
  PROVE  QueueIsCurrent'
<1> USE DEF TypeOK, QueueIsCurrent
<1>1. ASSUME NEW s \in Speakers, SpeakerStep(s)
      PROVE  QueueIsCurrent'
  <2>1. ASSUME NEW n \in 1 .. MaxChunks, WriteEnqueue(s, n)
       PROVE  QueueIsCurrent'
    <3> DEFINE k == IF n <= Room THEN n ELSE Room
    <3>1. k \in Nat
      BY RoomLeft
    <3>2. queue' = queue \o [i \in 1 .. k |-> flushGen] /\ flushGen' = flushGen
      BY <2>1 DEF WriteEnqueue
    <3> HIDE DEF k
    <3> QED
      BY <3>1, <3>2, QueueGrows
  <2>2. CASE WriteAddMarks(s)
    BY <2>2 DEF WriteAddMarks, markVars, callVars, wireVars
  <2> QED
    BY <1>1, <2>1, <2>2 DEF SpeakerStep
<1>2. CASE WriterStep
  <2>1. CASE FlushOnePop
    <3>1. queue' = Tail(queue) /\ flushGen' = flushGen /\ queue # <<>>
      BY <2>1 DEF FlushOnePop
    <3> QED
      BY <3>1, QueueShrinks
  <2>2. CASE WriteAudioCheckGen
    BY <2>2 DEF WriteAudioCheckGen, markVars, callVars, wireVars
  <2>3. CASE WriteAudioCheckClosed
    BY <2>3 DEF WriteAudioCheckClosed, markVars, callVars, wireVars
  <2>4. CASE WriteAudioOk
    BY <2>4 DEF WriteAudioOk, markVars, callVars, wireVars
  <2>5. CASE WriteAudioFail
    BY <2>5 DEF WriteAudioFail, CountFailure, PCAfterFailure, markVars, callVars, wireVars
  <2>6. CASE FlushOneMarkDone
    BY <2>6 DEF FlushOneMarkDone, MarkDone, SetPending, Woken, markVars, callVars, wireVars
  <2> QED
    BY <1>2, <2>1, <2>2, <2>3, <2>4, <2>5, <2>6 DEF WriterStep
<1>3. ASSUME NEW f \in Flushers, FlushDrop(f) \/ FlushProgress(f)
      PROVE  QueueIsCurrent'
  <2>1. CASE FlushDrop(f)
    BY <2>1 DEF FlushDrop, markVars, callVars, wireVars
  <2>2. CASE FlushMarks(f)
    BY <2>2 DEF FlushMarks, SetPending, Woken, markVars, callVars, wireVars
  <2>3. CASE FlushCheckClosed(f)
    BY <2>3 DEF FlushCheckClosed, markVars, callVars, wireVars
  <2>4. CASE FlushSendOk(f)
    BY <2>4 DEF FlushSendOk, markVars, callVars, wireVars
  <2>5. CASE FlushSendFail(f)
    BY <2>5 DEF FlushSendFail, CountFailure, PCAfterFailure, markVars, callVars, wireVars
  <2>6. CASE FlushAfterClose(f)
    BY <2>6 DEF FlushAfterClose, markVars, callVars, wireVars
  <2> QED
    BY <1>3, <2>1, <2>2, <2>3, <2>4, <2>5, <2>6 DEF FlushProgress
<1>4. ASSUME NEW w \in Waiters, WaitStart(w) \/ WaitProgress(w) \/ WaitExpire(w)
      PROVE  QueueIsCurrent'
  <2>1. CASE WaitStart(w)
    BY <2>1 DEF WaitStart, markVars, callVars, wireVars
  <2>2. CASE InnerCheck(w)
    BY <2>2 DEF InnerCheck, markVars, callVars, wireVars
  <2>3. CASE WaitReturn(w)
    BY <2>3 DEF WaitReturn, markVars, callVars, wireVars
  <2>4. CASE WaitExpire(w)
    BY <2>4 DEF WaitExpire, Woken, markVars, callVars, wireVars
  <2> QED
    BY <1>4, <2>1, <2>2, <2>3, <2>4 DEF WaitProgress
<1>5. ASSUME NEW c \in Callers, ActRequest(c) \/ ActProgress(c)
      PROVE  QueueIsCurrent'
  <2>1. CASE ActRequest(c)
    BY <2>1 DEF ActRequest, markVars, callVars, wireVars
  <2>2. CASE ActOnce(c)
    BY <2>2 DEF ActOnce, OnceFree, markVars, callVars, wireVars
  <2>3. CASE ActCheckClosed(c)
    BY <2>3 DEF ActCheckClosed, markVars, callVars, wireVars
  <2>4. CASE ActSendOk(c)
    BY <2>4 DEF ActSendOk, markVars, callVars, wireVars
  <2>5. CASE ActSendFail(c)
    BY <2>5 DEF ActSendFail, CountFailure, PCAfterFailure, markVars, callVars, wireVars
  <2>6. CASE ActAfterClose(c)
    BY <2>6 DEF ActAfterClose, markVars, callVars, wireVars
  <2> QED
    BY <1>5, <2>1, <2>2, <2>3, <2>4, <2>5, <2>6 DEF ActProgress
<1>6. CASE PeerGone
  BY <1>6 DEF PeerGone, BeginClose, markVars, callVars, wireVars
<1>7. CASE FailuresClose
  BY <1>7 DEF FailuresClose, BeginClose, markVars, callVars, wireVars
<1>8. CASE FinishClose
  BY <1>8 DEF FinishClose, SetPending, Woken, markVars, callVars, wireVars
<1>9. CASE UNCHANGED vars
  BY <1>9 DEF vars, markVars, callVars, wireVars
<1> QED
  BY <1>1, <1>2, <1>3, <1>4, <1>5, <1>6, <1>7, <1>8, <1>9 DEF Next

\* EdgeConn, QueueIsCurrent: whatever interleaving of speakers, write loop and
\* flushers, a barge-in leaves no frame of the interrupted speech queued.
THEOREM BargeInDropsQueue == Spec => []QueueIsCurrent
<1>1. Init => QueueIsCurrent
  BY DEF Init, QueueIsCurrent
<1>2. TypeOK /\ QueueIsCurrent /\ [Next]_vars => QueueIsCurrent'
  BY CurrentStep
<1> QED
  BY TypeCorrect, <1>1, <1>2, PTL DEF Spec

-----------------------------------------------------------------------------
\* StaleBounded made inductive: the frame in the write loop's hands is charged
\* to the flush that made it stale, and a generation reaches the peer only
\* after it was opened.
StaleHeld == IF Holding /\ wr.frame < flushGen THEN 1 ELSE 0

StaleInv ==
  /\ stale + StaleHeld <= flushGen
  /\ peerGen <= flushGen
  /\ \A f \in Flushers : flu[f].gen <= flushGen

\* One frame at a time is in the write loop's hands, so one flush makes one stale.
LEMMA StaleStep ==
  ASSUME TypeOK, QueueIsCurrent, StaleInv, [Next]_vars
  PROVE  StaleInv'
<1> USE DEF TypeOK, QueueIsCurrent, StaleInv, StaleHeld, Holding
<1>1. ASSUME NEW s \in Speakers, SpeakerStep(s)
      PROVE  StaleInv'
  <2>1. ASSUME NEW n \in 1 .. MaxChunks, WriteEnqueue(s, n)
       PROVE  StaleInv'
    BY <2>1 DEF WriteEnqueue, Room, markVars, callVars, wireVars
  <2>2. CASE WriteAddMarks(s)
    BY <2>2 DEF WriteAddMarks, markVars, callVars, wireVars
  <2> QED
    BY <1>1, <2>1, <2>2 DEF SpeakerStep
<1>2. CASE WriterStep
  <2>1. CASE FlushOnePop
    <3>1. /\ wr' = [pc |-> "gen", gen |-> flushGen, frame |-> Head(queue)]
          /\ flushGen' = flushGen /\ stale' = stale /\ peerGen' = peerGen /\ flu' = flu
      BY <2>1 DEF FlushOnePop, wireVars
    <3>2. Head(queue) = flushGen
      BY <2>1, QueueShrinks DEF FlushOnePop
    <3> QED
      BY <3>1, <3>2
  <2>2. CASE WriteAudioCheckGen
    BY <2>2 DEF WriteAudioCheckGen, markVars, callVars, wireVars
  <2>3. CASE WriteAudioCheckClosed
    BY <2>3 DEF WriteAudioCheckClosed, markVars, callVars, wireVars
  <2>4. CASE WriteAudioOk
    BY <2>4 DEF WriteAudioOk, markVars, callVars, wireVars
  <2>5. CASE WriteAudioFail
    BY <2>5 DEF WriteAudioFail, CountFailure, PCAfterFailure, markVars, callVars, wireVars
  <2>6. CASE FlushOneMarkDone
    BY <2>6 DEF FlushOneMarkDone, MarkDone, SetPending, Woken, markVars, callVars, wireVars
  <2> QED
    BY <1>2, <2>1, <2>2, <2>3, <2>4, <2>5, <2>6 DEF WriterStep
<1>3. ASSUME NEW f \in Flushers, FlushDrop(f) \/ FlushProgress(f)
      PROVE  StaleInv'
  <2>1. CASE FlushDrop(f)
    BY <2>1 DEF FlushDrop, markVars, callVars, wireVars
  <2>2. CASE FlushMarks(f)
    BY <2>2 DEF FlushMarks, SetPending, Woken, markVars, callVars, wireVars
  <2>3. CASE FlushCheckClosed(f)
    BY <2>3 DEF FlushCheckClosed, markVars, callVars, wireVars
  <2>4. CASE FlushSendOk(f)
    BY <2>4 DEF FlushSendOk, markVars, callVars, wireVars
  <2>5. CASE FlushSendFail(f)
    BY <2>5 DEF FlushSendFail, CountFailure, PCAfterFailure, markVars, callVars, wireVars
  <2>6. CASE FlushAfterClose(f)
    BY <2>6 DEF FlushAfterClose, markVars, callVars, wireVars
  <2> QED
    BY <1>3, <2>1, <2>2, <2>3, <2>4, <2>5, <2>6 DEF FlushProgress
<1>4. ASSUME NEW w \in Waiters, WaitStart(w) \/ WaitProgress(w) \/ WaitExpire(w)
      PROVE  StaleInv'
  <2>1. CASE WaitStart(w)
    BY <2>1 DEF WaitStart, markVars, callVars, wireVars
  <2>2. CASE InnerCheck(w)
    BY <2>2 DEF InnerCheck, markVars, callVars, wireVars
  <2>3. CASE WaitReturn(w)
    BY <2>3 DEF WaitReturn, markVars, callVars, wireVars
  <2>4. CASE WaitExpire(w)
    BY <2>4 DEF WaitExpire, Woken, markVars, callVars, wireVars
  <2> QED
    BY <1>4, <2>1, <2>2, <2>3, <2>4 DEF WaitProgress
<1>5. ASSUME NEW c \in Callers, ActRequest(c) \/ ActProgress(c)
      PROVE  StaleInv'
  <2>1. CASE ActRequest(c)
    BY <2>1 DEF ActRequest, markVars, callVars, wireVars
  <2>2. CASE ActOnce(c)
    BY <2>2 DEF ActOnce, OnceFree, markVars, callVars, wireVars
  <2>3. CASE ActCheckClosed(c)
    BY <2>3 DEF ActCheckClosed, markVars, callVars, wireVars
  <2>4. CASE ActSendOk(c)
    BY <2>4 DEF ActSendOk, markVars, callVars, wireVars
  <2>5. CASE ActSendFail(c)
    BY <2>5 DEF ActSendFail, CountFailure, PCAfterFailure, markVars, callVars, wireVars
  <2>6. CASE ActAfterClose(c)
    BY <2>6 DEF ActAfterClose, markVars, callVars, wireVars
  <2> QED
    BY <1>5, <2>1, <2>2, <2>3, <2>4, <2>5, <2>6 DEF ActProgress
<1>6. CASE PeerGone
  BY <1>6 DEF PeerGone, BeginClose, markVars, callVars, wireVars
<1>7. CASE FailuresClose
  BY <1>7 DEF FailuresClose, BeginClose, markVars, callVars, wireVars
<1>8. CASE FinishClose
  BY <1>8 DEF FinishClose, SetPending, Woken, markVars, callVars, wireVars
<1>9. CASE UNCHANGED vars
  BY <1>9 DEF vars, markVars, callVars, wireVars
<1> QED
  BY <1>1, <1>2, <1>3, <1>4, <1>5, <1>6, <1>7, <1>8, <1>9 DEF Next

\* EdgeConn, StaleBounded: the race between writeAudio's generation check and
\* Flush lets at most one frame of flushed speech through for each flush.
THEOREM StaleFramesBounded == Spec => []StaleBounded
<1>1. Init => StaleInv
  BY DEF Init, StaleInv, StaleHeld, Holding
<1>2. TypeOK /\ QueueIsCurrent /\ StaleInv /\ [Next]_vars => StaleInv'
  BY StaleStep
<1>3. TypeOK /\ StaleInv => StaleBounded
  BY DEF TypeOK, StaleInv, StaleHeld, StaleBounded
<1> QED
  BY TypeCorrect, BargeInDropsQueue, <1>1, <1>2, <1>3, PTL DEF Spec

-----------------------------------------------------------------------------
\* Whoever takes pending to zero wakes the parked in the same section.
LEMMA WakeupStep ==
  ASSUME TypeOK, NoLostWakeup, [Next]_vars
  PROVE  NoLostWakeup'
<1> USE DEF TypeOK, NoLostWakeup
<1>1. ASSUME NEW s \in Speakers, SpeakerStep(s)
      PROVE  NoLostWakeup'
  <2>1. ASSUME NEW n \in 1 .. MaxChunks, WriteEnqueue(s, n)
       PROVE  NoLostWakeup'
    BY <2>1 DEF WriteEnqueue, Room, markVars, callVars, wireVars
  <2>2. CASE WriteAddMarks(s)
    BY <2>2 DEF WriteAddMarks, markVars, callVars, wireVars
  <2> QED
    BY <1>1, <2>1, <2>2 DEF SpeakerStep
<1>2. CASE WriterStep
  <2>1. CASE FlushOnePop
    BY <2>1 DEF FlushOnePop, markVars, callVars, wireVars
  <2>2. CASE WriteAudioCheckGen
    BY <2>2 DEF WriteAudioCheckGen, markVars, callVars, wireVars
  <2>3. CASE WriteAudioCheckClosed
    BY <2>3 DEF WriteAudioCheckClosed, markVars, callVars, wireVars
  <2>4. CASE WriteAudioOk
    BY <2>4 DEF WriteAudioOk, markVars, callVars, wireVars
  <2>5. CASE WriteAudioFail
    BY <2>5 DEF WriteAudioFail, CountFailure, PCAfterFailure, markVars, callVars, wireVars
  <2>6. CASE FlushOneMarkDone
    BY <2>6 DEF FlushOneMarkDone, MarkDone, SetPending, Woken, markVars, callVars, wireVars
  <2> QED
    BY <1>2, <2>1, <2>2, <2>3, <2>4, <2>5, <2>6 DEF WriterStep
<1>3. ASSUME NEW f \in Flushers, FlushDrop(f) \/ FlushProgress(f)
      PROVE  NoLostWakeup'
  <2>1. CASE FlushDrop(f)
    BY <2>1 DEF FlushDrop, markVars, callVars, wireVars
  <2>2. CASE FlushMarks(f)
    BY <2>2 DEF FlushMarks, SetPending, Woken, markVars, callVars, wireVars
  <2>3. CASE FlushCheckClosed(f)
    BY <2>3 DEF FlushCheckClosed, markVars, callVars, wireVars
  <2>4. CASE FlushSendOk(f)
    BY <2>4 DEF FlushSendOk, markVars, callVars, wireVars
  <2>5. CASE FlushSendFail(f)
    BY <2>5 DEF FlushSendFail, CountFailure, PCAfterFailure, markVars, callVars, wireVars
  <2>6. CASE FlushAfterClose(f)
    BY <2>6 DEF FlushAfterClose, markVars, callVars, wireVars
  <2> QED
    BY <1>3, <2>1, <2>2, <2>3, <2>4, <2>5, <2>6 DEF FlushProgress
<1>4. ASSUME NEW w \in Waiters, WaitStart(w) \/ WaitProgress(w) \/ WaitExpire(w)
      PROVE  NoLostWakeup'
  <2>1. CASE WaitStart(w)
    BY <2>1 DEF WaitStart, markVars, callVars, wireVars
  <2>2. CASE InnerCheck(w)
    BY <2>2 DEF InnerCheck, markVars, callVars, wireVars
  <2>3. CASE WaitReturn(w)
    BY <2>3 DEF WaitReturn, markVars, callVars, wireVars
  <2>4. CASE WaitExpire(w)
    BY <2>4 DEF WaitExpire, Woken, markVars, callVars, wireVars
  <2> QED
    BY <1>4, <2>1, <2>2, <2>3, <2>4 DEF WaitProgress
<1>5. ASSUME NEW c \in Callers, ActRequest(c) \/ ActProgress(c)
      PROVE  NoLostWakeup'
  <2>1. CASE ActRequest(c)
    BY <2>1 DEF ActRequest, markVars, callVars, wireVars
  <2>2. CASE ActOnce(c)
    BY <2>2 DEF ActOnce, OnceFree, markVars, callVars, wireVars
  <2>3. CASE ActCheckClosed(c)
    BY <2>3 DEF ActCheckClosed, markVars, callVars, wireVars
  <2>4. CASE ActSendOk(c)
    BY <2>4 DEF ActSendOk, markVars, callVars, wireVars
  <2>5. CASE ActSendFail(c)
    BY <2>5 DEF ActSendFail, CountFailure, PCAfterFailure, markVars, callVars, wireVars
  <2>6. CASE ActAfterClose(c)
    BY <2>6 DEF ActAfterClose, markVars, callVars, wireVars
  <2> QED
    BY <1>5, <2>1, <2>2, <2>3, <2>4, <2>5, <2>6 DEF ActProgress
<1>6. CASE PeerGone
  BY <1>6 DEF PeerGone, BeginClose, markVars, callVars, wireVars
<1>7. CASE FailuresClose
  BY <1>7 DEF FailuresClose, BeginClose, markVars, callVars, wireVars
<1>8. CASE FinishClose
  BY <1>8 DEF FinishClose, SetPending, Woken, markVars, callVars, wireVars
<1>9. CASE UNCHANGED vars
  BY <1>9 DEF vars, markVars, callVars, wireVars
<1> QED
  BY <1>1, <1>2, <1>3, <1>4, <1>5, <1>6, <1>7, <1>8, <1>9 DEF Next

\* EdgeConn, NoLostWakeup: no WaitMark goroutine sleeps on a condition that
\* already holds.
THEOREM NoWakeupLost == Spec => []NoLostWakeup
<1>1. Init => NoLostWakeup
  BY DEF Init, NoLostWakeup
<1>2. TypeOK /\ NoLostWakeup /\ [Next]_vars => NoLostWakeup'
  BY WakeupStep
<1> QED
  BY TypeCorrect, <1>1, <1>2, PTL DEF Spec

-----------------------------------------------------------------------------
\* MarkNeverEarly made inductive: before the first flush every frame queued or
\* in the write loop's hands is in pending, or about to be added by its
\* speaker.  An inequality: markDone may run before the speaker's section,
\* and then clamps at zero.
MarkInv ==
  flushGen = 0 =>
    /\ \A f \in Flushers : flu[f].pc = "idle"
    /\ Open => pending + unmarked >= Len(queue) + (IF wr.pc = "idle" THEN 0 ELSE 1)

\* Marks are added after their frames are queued and removed after they are played.
LEMMA MarkStep ==
  ASSUME TypeOK, MarkInv, [Next]_vars
  PROVE  MarkInv'
<1> USE DEF TypeOK, MarkInv, Open
<1>1. ASSUME NEW s \in Speakers, SpeakerStep(s)
      PROVE  MarkInv'
  <2>1. ASSUME NEW n \in 1 .. MaxChunks, WriteEnqueue(s, n)
       PROVE  MarkInv'
    <3> DEFINE k == IF n <= Room THEN n ELSE Room
    <3>1. k \in Nat /\ Len(queue) \in Nat
      BY RoomLeft, LenProperties
    <3>2. /\ queue' = queue \o [i \in 1 .. k |-> flushGen] /\ unmarked' = unmarked + k
          /\ UNCHANGED <<flushGen, closePhase, wr, flu, pending>>
      BY <2>1 DEF WriteEnqueue, markVars
    <3> HIDE DEF k
    <3>3. Len(queue') = Len(queue) + k
      BY <3>1, <3>2, QueueGrows
    <3> QED
      BY <3>1, <3>2, <3>3
  <2>2. CASE WriteAddMarks(s)
    BY <2>2 DEF WriteAddMarks, markVars, callVars, wireVars
  <2> QED
    BY <1>1, <2>1, <2>2 DEF SpeakerStep
<1>2. CASE WriterStep
  <2>1. CASE FlushOnePop
    <3>1. /\ queue' = Tail(queue) /\ queue # <<>> /\ wr.pc = "idle" /\ wr'.pc = "gen"
          /\ UNCHANGED <<flushGen, closePhase, flu, pending, unmarked>>
      BY <2>1 DEF FlushOnePop, markVars
    <3>2. Len(queue') = Len(queue) - 1 /\ Len(queue) \in Nat
      BY <3>1, QueueShrinks, LenProperties
    <3> QED
      BY <3>1, <3>2
  <2>2. CASE WriteAudioCheckGen
    BY <2>2 DEF WriteAudioCheckGen, markVars, callVars, wireVars
  <2>3. CASE WriteAudioCheckClosed
    BY <2>3 DEF WriteAudioCheckClosed, markVars, callVars, wireVars
  <2>4. CASE WriteAudioOk
    BY <2>4 DEF WriteAudioOk, markVars, callVars, wireVars
  <2>5. CASE WriteAudioFail
    BY <2>5 DEF WriteAudioFail, CountFailure, PCAfterFailure, markVars, callVars, wireVars
  <2>6. CASE FlushOneMarkDone
    <3>1. /\ wr.pc # "idle" /\ wr'.pc = "idle"
          /\ pending' = IF pending > 0 THEN pending - 1 ELSE 0
          /\ UNCHANGED <<queue, flushGen, closePhase, flu, unmarked>>
      BY <2>6 DEF FlushOneMarkDone, MarkDone, SetPending
    <3>2. Len(queue) \in Nat
      BY LenProperties
    <3> QED
      BY <3>1, <3>2
  <2> QED
    BY <1>2, <2>1, <2>2, <2>3, <2>4, <2>5, <2>6 DEF WriterStep
<1>3. ASSUME NEW f \in Flushers, FlushDrop(f) \/ FlushProgress(f)
      PROVE  MarkInv'
  <2>1. CASE FlushDrop(f)
    BY <2>1 DEF FlushDrop, markVars, callVars, wireVars
  <2>2. CASE FlushMarks(f)
    BY <2>2 DEF FlushMarks, SetPending, Woken, markVars, callVars, wireVars
  <2>3. CASE FlushCheckClosed(f)
    BY <2>3 DEF FlushCheckClosed, markVars, callVars, wireVars
  <2>4. CASE FlushSendOk(f)
    BY <2>4 DEF FlushSendOk, markVars, callVars, wireVars
  <2>5. CASE FlushSendFail(f)
    BY <2>5 DEF FlushSendFail, CountFailure, PCAfterFailure, markVars, callVars, wireVars
  <2>6. CASE FlushAfterClose(f)
    BY <2>6 DEF FlushAfterClose, markVars, callVars, wireVars
  <2> QED
    BY <1>3, <2>1, <2>2, <2>3, <2>4, <2>5, <2>6 DEF FlushProgress
<1>4. ASSUME NEW w \in Waiters, WaitStart(w) \/ WaitProgress(w) \/ WaitExpire(w)
      PROVE  MarkInv'
  <2>1. CASE WaitStart(w)
    BY <2>1 DEF WaitStart, markVars, callVars, wireVars
  <2>2. CASE InnerCheck(w)
    BY <2>2 DEF InnerCheck, markVars, callVars, wireVars
  <2>3. CASE WaitReturn(w)
    BY <2>3 DEF WaitReturn, markVars, callVars, wireVars
  <2>4. CASE WaitExpire(w)
    BY <2>4 DEF WaitExpire, Woken, markVars, callVars, wireVars
  <2> QED
    BY <1>4, <2>1, <2>2, <2>3, <2>4 DEF WaitProgress
<1>5. ASSUME NEW c \in Callers, ActRequest(c) \/ ActProgress(c)
      PROVE  MarkInv'
  <2>1. CASE ActRequest(c)
    BY <2>1 DEF ActRequest, markVars, callVars, wireVars
  <2>2. CASE ActOnce(c)
    BY <2>2 DEF ActOnce, OnceFree, markVars, callVars, wireVars
  <2>3. CASE ActCheckClosed(c)
    BY <2>3 DEF ActCheckClosed, markVars, callVars, wireVars
  <2>4. CASE ActSendOk(c)
    BY <2>4 DEF ActSendOk, markVars, callVars, wireVars
  <2>5. CASE ActSendFail(c)
    BY <2>5 DEF ActSendFail, CountFailure, PCAfterFailure, markVars, callVars, wireVars
  <2>6. CASE ActAfterClose(c)
    BY <2>6 DEF ActAfterClose, markVars, callVars, wireVars
  <2> QED
    BY <1>5, <2>1, <2>2, <2>3, <2>4, <2>5, <2>6 DEF ActProgress
<1>6. CASE PeerGone
  BY <1>6 DEF PeerGone, BeginClose, markVars, callVars, wireVars
<1>7. CASE FailuresClose
  BY <1>7 DEF FailuresClose, BeginClose, markVars, callVars, wireVars
<1>8. CASE FinishClose
  BY <1>8 DEF FinishClose, SetPending, Woken, markVars, callVars, wireVars
<1>9. CASE UNCHANGED vars
  BY <1>9 DEF vars, markVars, callVars, wireVars
<1> QED
  BY <1>1, <1>2, <1>3, <1>4, <1>5, <1>6, <1>7, <1>8, <1>9 DEF Next

\* EdgeConn, MarkNeverEarly: until the first flush, a WaitMark that returns
\* found the queue played out.
THEOREM MarksNotEarly == Spec => []MarkNeverEarly
<1>1. Init => MarkInv
  <2>1. Len(<<>>) = 0
    BY EmptySeq
  <2> QED
    BY <2>1 DEF Init, MarkInv
<1>2. TypeOK /\ MarkInv /\ [Next]_vars => MarkInv'
  BY MarkStep
<1>3. TypeOK /\ MarkInv => MarkNeverEarly
  <2> SUFFICES ASSUME TypeOK, MarkInv, Open, flushGen = 0, unmarked = 0, pending = 0
               PROVE  queue = <<>> /\ ~Holding
    BY DEF MarkNeverEarly
  <2>1. Len(queue) \in Nat /\ (queue # <<>> => Len(queue) # 0)
    BY LenProperties, EmptySeq DEF TypeOK
  <2> QED
    BY <2>1 DEF TypeOK, MarkInv, Holding
<1> QED
  BY TypeCorrect, <1>1, <1>2, <1>3, PTL DEF Spec

-----------------------------------------------------------------------------
\* VerbAtMostOnce made inductive: at most one request is inside actionOnce,
\* and nothing has been sent while the once is free or taken.
InOnce(c) == act[c] \in {"closed", "send", "close"}

VerbInv ==
  /\ verbsSent <= 1
  /\ verb # "done" => verbsSent = 0
  /\ \A c \in Callers : InOnce(c) => verb = "busy"
  /\ \A c, d \in Callers : InOnce(c) /\ InOnce(d) => c = d

\* Taking and leaving the once are atomic with what the request does.
LEMMA VerbStep ==
  ASSUME TypeOK, VerbInv, [Next]_vars
  PROVE  VerbInv'
<1> USE DEF TypeOK, VerbInv, InOnce, ActPC
<1>1. ASSUME NEW s \in Speakers, SpeakerStep(s)
      PROVE  VerbInv'
  <2>1. ASSUME NEW n \in 1 .. MaxChunks, WriteEnqueue(s, n)
       PROVE  VerbInv'
    BY <2>1 DEF WriteEnqueue, Room, markVars, callVars, wireVars
  <2>2. CASE WriteAddMarks(s)
    BY <2>2 DEF WriteAddMarks, markVars, callVars, wireVars
  <2> QED
    BY <1>1, <2>1, <2>2 DEF SpeakerStep
<1>2. CASE WriterStep
  <2>1. CASE FlushOnePop
    BY <2>1 DEF FlushOnePop, markVars, callVars, wireVars
  <2>2. CASE WriteAudioCheckGen
    BY <2>2 DEF WriteAudioCheckGen, markVars, callVars, wireVars
  <2>3. CASE WriteAudioCheckClosed
    BY <2>3 DEF WriteAudioCheckClosed, markVars, callVars, wireVars
  <2>4. CASE WriteAudioOk
    BY <2>4 DEF WriteAudioOk, markVars, callVars, wireVars
  <2>5. CASE WriteAudioFail
    BY <2>5 DEF WriteAudioFail, CountFailure, PCAfterFailure, markVars, callVars, wireVars
  <2>6. CASE FlushOneMarkDone
    BY <2>6 DEF FlushOneMarkDone, MarkDone, SetPending, Woken, markVars, callVars, wireVars
  <2> QED
    BY <1>2, <2>1, <2>2, <2>3, <2>4, <2>5, <2>6 DEF WriterStep
<1>3. ASSUME NEW f \in Flushers, FlushDrop(f) \/ FlushProgress(f)
      PROVE  VerbInv'
  <2>1. CASE FlushDrop(f)
    BY <2>1 DEF FlushDrop, markVars, callVars, wireVars
  <2>2. CASE FlushMarks(f)
    BY <2>2 DEF FlushMarks, SetPending, Woken, markVars, callVars, wireVars
  <2>3. CASE FlushCheckClosed(f)
    BY <2>3 DEF FlushCheckClosed, markVars, callVars, wireVars
  <2>4. CASE FlushSendOk(f)
    BY <2>4 DEF FlushSendOk, markVars, callVars, wireVars
  <2>5. CASE FlushSendFail(f)
    BY <2>5 DEF FlushSendFail, CountFailure, PCAfterFailure, markVars, callVars, wireVars
  <2>6. CASE FlushAfterClose(f)
    BY <2>6 DEF FlushAfterClose, markVars, callVars, wireVars
  <2> QED
    BY <1>3, <2>1, <2>2, <2>3, <2>4, <2>5, <2>6 DEF FlushProgress
<1>4. ASSUME NEW w \in Waiters, WaitStart(w) \/ WaitProgress(w) \/ WaitExpire(w)
      PROVE  VerbInv'
  <2>1. CASE WaitStart(w)
    BY <2>1 DEF WaitStart, markVars, callVars, wireVars
  <2>2. CASE InnerCheck(w)
    BY <2>2 DEF InnerCheck, markVars, callVars, wireVars
  <2>3. CASE WaitReturn(w)
    BY <2>3 DEF WaitReturn, markVars, callVars, wireVars
  <2>4. CASE WaitExpire(w)
    BY <2>4 DEF WaitExpire, Woken, markVars, callVars, wireVars
  <2> QED
    BY <1>4, <2>1, <2>2, <2>3, <2>4 DEF WaitProgress
<1>5. ASSUME NEW c \in Callers, ActRequest(c) \/ ActProgress(c)
      PROVE  VerbInv'
  <2>1. CASE ActRequest(c)
    BY <2>1 DEF ActRequest, markVars, callVars, wireVars
  <2>2. CASE ActOnce(c)
    BY <2>2 DEF ActOnce, OnceFree, markVars, callVars, wireVars
  <2>3. CASE ActCheckClosed(c)
    BY <2>3 DEF ActCheckClosed, markVars, callVars, wireVars
  <2>4. CASE ActSendOk(c)
    BY <2>4 DEF ActSendOk, markVars, callVars, wireVars
  <2>5. CASE ActSendFail(c)
    BY <2>5 DEF ActSendFail, CountFailure, PCAfterFailure, markVars, callVars, wireVars
  <2>6. CASE ActAfterClose(c)
    BY <2>6 DEF ActAfterClose, markVars, callVars, wireVars
  <2> QED
    BY <1>5, <2>1, <2>2, <2>3, <2>4, <2>5, <2>6 DEF ActProgress
<1>6. CASE PeerGone
  BY <1>6 DEF PeerGone, BeginClose, markVars, callVars, wireVars
<1>7. CASE FailuresClose
  BY <1>7 DEF FailuresClose, BeginClose, markVars, callVars, wireVars
<1>8. CASE FinishClose
  BY <1>8 DEF FinishClose, SetPending, Woken, markVars, callVars, wireVars
<1>9. CASE UNCHANGED vars
  BY <1>9 DEF vars, markVars, callVars, wireVars
<1> QED
  BY <1>1, <1>2, <1>3, <1>4, <1>5, <1>6, <1>7, <1>8, <1>9 DEF Next

LEMMA OnceGuards == Spec => []VerbInv
<1>1. Init => VerbInv
  BY DEF Init, VerbInv, InOnce
<1>2. TypeOK /\ VerbInv /\ [Next]_vars => VerbInv'
  BY VerbStep
<1> QED
  BY TypeCorrect, <1>1, <1>2, PTL DEF Spec

\* EdgeConn, VerbAtMostOnce: however many goroutines ask to hang up or to
\* transfer, one verb at most is written to the leg.
THEOREM OneVerbPerLeg == Spec => []VerbAtMostOnce
<1>1. VerbInv => VerbAtMostOnce
  BY DEF VerbInv, VerbAtMostOnce
<1> QED
  BY OnceGuards, <1>1, PTL

-----------------------------------------------------------------------------
\* The leg of CallLeg: it goes when the close begins, its verb is spent when
\* the once is done.
LegVars == <<Open, verbsSent, verb = "done">>

\* Only the holder of the once spends the verb, and only the write tells it.
LEMMA LegStep ==
  ASSUME VerbInv, [Next]_vars
  PROVE  [Leg!Gone \/ Leg!Tell \/ Leg!Waste]_LegVars
<1> USE DEF LegVars, Open
<1>1. CASE UNCHANGED <<closePhase, verb, verbsSent>>
  BY <1>1
<1>2. CASE UNCHANGED <<verb, verbsSent>> /\ closePhase = "open" /\ closePhase' = "closing"
  BY <1>2 DEF Leg!Gone
<1>3. CASE UNCHANGED <<verb, verbsSent>> /\ closePhase = "closing" /\ closePhase' = "closed"
  BY <1>3
<1>4. CASE UNCHANGED <<closePhase, verbsSent>> /\ (verb' = "done" \/ (verb = "free" /\ verb' = "busy"))
  BY <1>4 DEF Leg!Waste, Leg!Use
<1>5. ASSUME NEW c \in Callers, ActSendOk(c)
      PROVE  Leg!Tell
  <2>1. verb = "busy"
    BY <1>5 DEF ActSendOk, VerbInv, InOnce
  <2> QED
    BY <1>5, <2>1 DEF ActSendOk, Leg!Tell, Leg!Use
<1>6. ASSUME NEW c \in Callers, ActRequest(c) \/ ActProgress(c)
      PROVE  [Leg!Gone \/ Leg!Tell \/ Leg!Waste]_LegVars
  <2>1. CASE ActRequest(c)
    BY <2>1, <1>1 DEF ActRequest
  <2>2. CASE ActOnce(c)
    BY <2>2, <1>1, <1>4 DEF ActOnce, OnceFree
  <2>3. CASE ActCheckClosed(c)
    BY <2>3, <1>1, <1>4 DEF ActCheckClosed
  <2>4. CASE ActSendOk(c)
    BY <2>4, <1>5
  <2>5. CASE ActSendFail(c)
    BY <2>5, <1>1, <1>4 DEF ActSendFail
  <2>6. CASE ActAfterClose(c)
    BY <2>6, <1>4 DEF ActAfterClose
  <2> QED
    BY <1>6, <2>1, <2>2, <2>3, <2>4, <2>5, <2>6 DEF ActProgress
<1>7. ASSUME NEW s \in Speakers, SpeakerStep(s)
      PROVE  UNCHANGED <<closePhase, verb, verbsSent>>
  BY <1>7 DEF SpeakerStep, WriteEnqueue, WriteAddMarks, callVars
<1>8. ASSUME WriterStep
      PROVE  UNCHANGED <<closePhase, verb, verbsSent>>
  BY <1>8 DEF WriterStep, FlushOnePop, WriteAudioCheckGen, WriteAudioCheckClosed,
       WriteAudioOk, WriteAudioFail, FlushOneMarkDone, callVars
<1>9. ASSUME NEW f \in Flushers, FlushDrop(f) \/ FlushProgress(f)
      PROVE  UNCHANGED <<closePhase, verb, verbsSent>>
  BY <1>9 DEF FlushDrop, FlushProgress, FlushMarks, FlushCheckClosed, FlushSendOk,
       FlushSendFail, FlushAfterClose, callVars
<1>10. ASSUME NEW w \in Waiters, WaitStart(w) \/ WaitProgress(w) \/ WaitExpire(w)
       PROVE  UNCHANGED <<closePhase, verb, verbsSent>>
  BY <1>10 DEF WaitStart, WaitProgress, InnerCheck, WaitReturn, WaitExpire, callVars
<1>11. CASE PeerGone \/ FailuresClose
  BY <1>11, <1>2 DEF PeerGone, FailuresClose, BeginClose, callVars
<1>12. CASE FinishClose
  BY <1>12, <1>3 DEF FinishClose, callVars
<1>13. CASE UNCHANGED vars
  BY <1>13, <1>1 DEF vars, callVars
<1> QED
  BY <1>1, <1>6, <1>7, <1>8, <1>9, <1>10, <1>11, <1>12, <1>13 DEF Next

\* EdgeConn, ImplementsCallLeg: for the turn machine the leg is CallLeg, however
\* many goroutines ask for the verb while it closes.
THEOREM EdgeIsALeg == Spec => ImplementsCallLeg
<1>1. Init => Leg!LegInit
  BY DEF Init, Leg!LegInit, Open
<1>2. VerbInv /\ [Next]_vars => [Leg!Gone \/ Leg!Tell \/ Leg!Waste]_LegVars
  BY LegStep
<1> QED
  BY OnceGuards, <1>1, <1>2, PTL
     DEF Spec, ImplementsCallLeg, Leg!LegSpec, LegVars
=============================================================================
