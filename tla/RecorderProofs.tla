--------------------------- MODULE RecorderProofs ---------------------------
(***************************************************************************)
(* Theorems about Recorder, for any backlog, drain limit and catch-up and  *)
(* any number of frames, ticks and crashes: its type invariant, that the   *)
(* mux and Close hand the file over without a frame lost or doubled, that  *)
(* a recording Close finished is complete, and that the sizes it reports   *)
(* are the size of the file.                                               *)
(***************************************************************************)
EXTENDS Recorder, SequenceTheorems, TLAPS

\* Who may write the file.  Close goes on past the wait only when the mux has
\* exited, the mux exits only when done is closed, and nothing comes back after
\* a crash.
Control ==
  /\ rec = "none" => mux = "none" /\ start = "none" /\ stop = "none"
  /\ rec # "none" => mux # "none"
  /\ onDisk => rec # "none"
  /\ stop # "none" => rec = "gone"
  /\ stop \in {"tail", "drain", "write", "settle"} => mux = "exited"
  /\ stop \in {"drain", "write"} => ~failed
  /\ done => failed \/ rec = "gone"
  /\ mux = "exited" => done
  /\ rec = "gone" => stop # "none" \/ mux = "gone"
  /\ mux = "gone" => rec = "gone" /\ stop \in {"none", "done", "gone"} /\ crashes > 0
  /\ mux \in {"take", "write"} => due >= 1
  /\ stop = "write" => drained < DrainCap

TypeInv == TypeOK /\ Control

\* The frames in hand belong to the mux or to Close, and while neither the
\* recorder nor the disk has failed none is lost or doubled.
Conserved ==
  /\ hand # Nothing => mux = "write" \/ stop = "write"
  /\ rec = "none" => written = Nothing
  /\ mux # "gone" /\ ~failed =>
       \A l \in Legs : written[l] \o hand[l] \o buf[l] = accepted[l]
  /\ \A l \in Legs : atClose[l] <= Len(accepted[l])

\* From the last drain on, what was accepted before done was closed is in the
\* file, unless the drain ran into its limit with frames left.
Complete ==
  (stop = "settle" \/ closedBytes # None) /\ ~failed /\ (drained < DrainCap \/ Empty) =>
    \A l \in Legs : Len(written[l]) >= atClose[l]

\* No goroutine will ever write another frame: the mux has gone, and Close is
\* past its drain or, because a write failed, will not drain.
Quiet ==
  /\ mux \in {"exited", "gone"}
  /\ stop \notin {"drain", "write"}
  /\ ~failed => stop \notin {"wait", "tail"}

\* A size that was read while nothing wrote is the size of the file for good.
Sizes ==
  /\ header <= frames
  /\ closedBytes # None => /\ mux = "exited" /\ stop \in {"mark", "done"}
                           /\ closedBytes = frames /\ (~failed => header = frames)
  /\ row.bytes # None /\ ~statLive => row.bytes \in {frames, frames + torn} /\ Quiet
  /\ stat # None /\ ~statLive => stat = frames + torn /\ Quiet

IInv == TypeInv /\ Conserved /\ Complete /\ Sizes

-----------------------------------------------------------------------------
(* What the helpers on the leg buffers do.                                 *)

\* A frame's share of a buffer, and what is left, are the buffer.
LEMMA FrontRest ==
  ASSUME NEW q \in Seq(Nat)
  PROVE  /\ Front(q) \in Seq(Nat) /\ Rest(q) \in Seq(Nat)
         /\ Len(Rest(q)) <= Len(q)
         /\ Front(q) \o Rest(q) = q
<1>1. CASE q = <<>>
  BY <1>1, EmptySeq DEF Front, Rest
<1>2. CASE q # <<>>
  <2>1. Front(q) = <<Head(q)>> /\ Rest(q) = Tail(q)
    BY <1>2 DEF Front, Rest
  <2>2. /\ Head(q) \in Nat /\ Tail(q) \in Seq(Nat) /\ Len(Tail(q)) = Len(q) - 1
        /\ Len(q) \in Nat
    BY <1>2, HeadTailProperties, LenProperties
  <2>3. <<Head(q)>> \in Seq(Nat)
    BY <2>2
  <2>4. <<Head(q)>> \o Tail(q) = q
    BY <1>2
  <2> QED
    BY <2>1, <2>2, <2>3, <2>4
<1> QED
  BY <1>1, <1>2

LEMMA Associative == \A r, s, t \in Seq(Nat) : (r \o s) \o t = r \o (s \o t)
BY ConcatAssociative, SMTT(30)

\* Taking the front into an empty hand moves it without loss.
LEMMA Taking ==
  ASSUME NEW w \in Seq(Nat), NEW q \in Seq(Nat)
  PROVE  w \o Front(q) \o Rest(q) = w \o <<>> \o q
<1>0. Front(q) \in Seq(Nat) /\ Rest(q) \in Seq(Nat)
  BY FrontRest
<1>1. w \o Front(q) \o Rest(q) = w \o (Front(q) \o Rest(q))
  BY <1>0, Associative
<1>2. w \o <<>> = w
  BY ConcatEmptySeq
<1> QED
  BY <1>1, <1>2, FrontRest

\* Writing the hand moves it without loss.
LEMMA Writing ==
  ASSUME NEW w \in Seq(Nat), NEW h \in Seq(Nat), NEW q \in Seq(Nat)
  PROVE  /\ (w \o h) \o <<>> \o q = w \o h \o q
         /\ w \o h \in Seq(Nat)
<1>1. w \o h \in Seq(Nat)
  BY ConcatProperties
<1>2. (w \o h) \o <<>> = w \o h
  BY <1>1, ConcatEmptySeq
<1> QED
  BY <1>1, <1>2

\* A frame that joins the buffer joins what is conserved.
LEMMA Appending ==
  ASSUME NEW w \in Seq(Nat), NEW h \in Seq(Nat), NEW q \in Seq(Nat), NEW e \in Nat
  PROVE  w \o h \o Append(q, e) = Append(w \o h \o q, e)
<1> DEFINE a == w \o h
<1>1. a \in Seq(Nat) /\ a \o q \in Seq(Nat) /\ <<e>> \in Seq(Nat)
  BY ConcatProperties
<1> HIDE DEF a
<1>2. Append(q, e) = q \o <<e>> /\ Append(a \o q, e) = (a \o q) \o <<e>>
  BY <1>1, AppendIsConcat
<1>3. (a \o q) \o <<e>> = a \o (q \o <<e>>)
  BY <1>1, Associative, SMTT(30)
<1> QED
  BY <1>2, <1>3 DEF a

LEMMA NothingTyped ==
  /\ Nothing \in [Legs -> Seq(Nat)]
  /\ \A l \in Legs : Nothing[l] = <<>> /\ Len(Nothing[l]) = 0
BY EmptySeq DEF Nothing

\* Both users of TakeFronts leave buffers and hand of their type.
LEMMA TakeTypes ==
  ASSUME TypeOK, TakeFronts
  PROVE  /\ hand' \in [Legs -> Seq(Nat)] /\ buf' \in [Legs -> Seq(Nat)]
         /\ \A l \in Legs : Len(buf'[l]) <= MaxBacklog
<1>1. \A l \in Legs : /\ buf[l] \in Seq(Nat) /\ Len(buf[l]) <= MaxBacklog
                      /\ Len(buf[l]) \in Nat
  BY LenProperties DEF TypeOK
<1>2. \A l \in Legs : /\ Front(buf[l]) \in Seq(Nat) /\ Rest(buf[l]) \in Seq(Nat)
                      /\ Len(Rest(buf[l])) <= Len(buf[l])
  BY <1>1, FrontRest
<1>3. \A l \in Legs : Len(Rest(buf[l])) \in Nat
  BY <1>2, LenProperties
<1> QED
  BY <1>1, <1>2, <1>3, RecorderAssumption DEF TakeFronts

LEMMA WriteTypes ==
  ASSUME TypeOK, FrameWritten
  PROVE  /\ frames' \in Nat /\ written' \in [Legs -> Seq(Nat)]
         /\ hand' \in [Legs -> Seq(Nat)]
<1>1. \A l \in Legs : written[l] \o hand[l] \in Seq(Nat)
  BY ConcatProperties DEF TypeOK
<1>2. written' = [l \in Legs |-> written[l] \o hand[l]] /\ hand' = Nothing /\ frames' = frames + 1
  BY DEF FrameWritten
<1>3. frames \in Nat
  BY DEF TypeOK
<1> QED
  BY <1>1, <1>2, <1>3, NothingTyped

-----------------------------------------------------------------------------
(* The parts of TypeOK: program counters and flags, counters, the legs.    *)
PCTyped ==
  /\ rec \in {"none", "on", "gone"} /\ done \in BOOLEAN /\ failed \in BOOLEAN
  /\ mux \in {"none", "select", "take", "write", "patch", "exited", "gone"}
  /\ stop \in {"none", "wait", "tail", "drain", "write", "settle", "mark", "done", "gone"}
  /\ start \in {"none", "mark", "done", "gone"} /\ reaper \in {"idle", "stat", "mark"}
  /\ onDisk \in BOOLEAN /\ up \in BOOLEAN /\ statLive \in BOOLEAN

CountTyped ==
  /\ due \in 0 .. CatchUp /\ drained \in 0 .. DrainCap
  /\ ticks \in 0 .. TickBudget /\ crashes \in 0 .. CrashBudget
  /\ frames \in Nat /\ header \in Nat /\ torn \in 0 .. 1
  /\ closedBytes \in Nat \cup {None} /\ stat \in Nat \cup {None}

LegTyped ==
  /\ buf \in [Legs -> Seq(Nat)] /\ \A l \in Legs : Len(buf[l]) <= MaxBacklog
  /\ writer \in [Legs -> BOOLEAN] /\ hand \in [Legs -> Seq(Nat)]
  /\ written \in [Legs -> Seq(Nat)] /\ offered \in [Legs -> Nat]
  /\ accepted \in [Legs -> Seq(Nat)] /\ atClose \in [Legs -> Nat]

RowTyped ==
  row \in [terminal : BOOLEAN, started : BOOLEAN, stopped : BOOLEAN,
           reason : {"", "session", "orphan_reaper"}, bytes : Nat \cup {None}]

LEMMA TypeParts == TypeOK <=> PCTyped /\ CountTyped /\ LegTyped /\ RowTyped
BY DEF TypeOK, PCTyped, CountTyped, LegTyped, RowTyped

LEMMA TypeInit == Init => TypeInv
<1> SUFFICES ASSUME Init PROVE TypeInv
  OBVIOUS
<1>1. PCTyped /\ RowTyped
  BY DEF Init, PCTyped, RowTyped
<1>2. CountTyped
  <2>1. /\ due = 0 /\ drained = 0 /\ ticks = 0 /\ crashes = 0 /\ frames = 0 /\ header = 0
        /\ torn = 0 /\ closedBytes = None /\ stat = None
    BY DEF Init
  <2>2. 0 \in 0 .. CatchUp /\ 0 \in 0 .. DrainCap /\ 0 \in 0 .. TickBudget /\ 0 \in 0 .. CrashBudget
    BY RecorderAssumption
  <2> QED
    BY <2>1, <2>2 DEF CountTyped
<1>3. LegTyped
  <2>1. /\ buf = Nothing /\ hand = Nothing /\ written = Nothing /\ accepted = Nothing
        /\ writer = [l \in Legs |-> FALSE]
        /\ offered = [l \in Legs |-> 0] /\ atClose = [l \in Legs |-> 0]
    BY DEF Init
  <2>2. \A l \in Legs : Len(buf[l]) <= MaxBacklog
    BY <2>1, NothingTyped, RecorderAssumption
  <2> QED
    BY <2>1, <2>2, NothingTyped DEF LegTyped
<1>4. Control
  BY DEF Init, Control
<1> QED
  BY <1>1, <1>2, <1>3, <1>4, TypeParts DEF TypeInv

\* The length of what a leg has accepted is a number.
LEMMA AcceptedLen ==
  ASSUME TypeOK
  PROVE  [l \in Legs |-> Len(accepted[l])] \in [Legs -> Nat]
BY LenProperties DEF TypeOK

\* A stamp keeps the row a row.
LEMMA StampedTyped ==
  ASSUME TypeOK, NEW why \in {"session", "orphan_reaper"}, NEW n \in Nat \cup {None}
  PROVE  /\ Stamped(why, n) \in [terminal : BOOLEAN, started : BOOLEAN, stopped : BOOLEAN,
                                 reason : {"", "session", "orphan_reaper"},
                                 bytes : Nat \cup {None}]
         /\ Stamped(why, n).bytes = IF row.bytes = None THEN n ELSE row.bytes
BY DEF TypeOK, Stamped

\* Every step keeps the types.
LEMMA TypeStep == TypeInv /\ [Next]_vars => TypeOK'
<1> DEFINE Goal == PCTyped' /\ CountTyped' /\ LegTyped' /\ RowTyped'
<1> SUFFICES ASSUME TypeInv, [Next]_vars PROVE Goal
  BY DEF TypeOK, PCTyped, CountTyped, LegTyped, RowTyped
<1>0. /\ PCTyped /\ CountTyped /\ LegTyped /\ RowTyped
      /\ TypeOK /\ Control
  BY TypeParts DEF TypeInv
<1> USE RecorderAssumption
<1>1. CASE StartRecorder
  <2>1. PCTyped'
    BY <1>1, <1>0 DEF StartRecorder, PCTyped, histVars
  <2>2. CountTyped'
    BY <1>1, <1>0 DEF StartRecorder, CountTyped, histVars
  <2>3. LegTyped'
    BY <1>1, <1>0 DEF StartRecorder, LegTyped, histVars
  <2>4. RowTyped'
    BY <1>1, <1>0 DEF StartRecorder, RowTyped, histVars
  <2> QED
    BY <2>1, <2>2, <2>3, <2>4
<1>2. CASE MarkStarted
  <2>1. PCTyped'
    BY <1>2, <1>0 DEF MarkStarted, PCTyped, memVars, fileVars, histVars
  <2>2. CountTyped'
    BY <1>2, <1>0 DEF MarkStarted, CountTyped, memVars, fileVars, histVars
  <2>3. LegTyped'
    BY <1>2, <1>0 DEF MarkStarted, LegTyped, memVars, fileVars, histVars
  <2>4. RowTyped'
    BY <1>2, <1>0 DEF MarkStarted, RowTyped, memVars, fileVars, histVars
  <2> QED
    BY <2>1, <2>2, <2>3, <2>4
<1>3. ASSUME NEW l \in Legs, WriteCheck(l) PROVE Goal
  <2>1. PCTyped'
    BY <1>3, <1>0 DEF WriteCheck, PCTyped, fileVars
  <2>2. CountTyped'
    BY <1>3, <1>0 DEF WriteCheck, CountTyped, fileVars
  <2>3. LegTyped'
    BY <1>3, <1>0 DEF WriteCheck, LegTyped, fileVars
  <2>4. RowTyped'
    BY <1>3, <1>0 DEF WriteCheck, RowTyped, fileVars
  <2> QED
    BY <2>1, <2>2, <2>3, <2>4
<1>4. ASSUME NEW l \in Legs, WriteAppend(l) PROVE Goal
  <2>1. PCTyped'
    BY <1>4, <1>0 DEF WriteAppend, PCTyped, fileVars
  <2>2. CountTyped'
    BY <1>4, <1>0 DEF WriteAppend, CountTyped, fileVars
  <2>3. LegTyped'
    <3>1. CASE Len(buf[l]) >= MaxBacklog
      BY <1>0, <1>4, <3>1 DEF WriteAppend, LegTyped, fileVars
    <3>2. CASE ~(Len(buf[l]) >= MaxBacklog)
      <4>1. /\ buf[l] \in Seq(Nat) /\ accepted[l] \in Seq(Nat) /\ offered[l] \in Nat
            /\ Len(buf[l]) \in Nat
        BY <1>0, LenProperties DEF LegTyped
      <4> DEFINE b == Append(buf[l], offered[l])
                 c == Append(accepted[l], offered[l])
      <4>2. b \in Seq(Nat) /\ Len(b) <= MaxBacklog /\ c \in Seq(Nat)
        BY <3>2, <4>1, AppendProperties
      <4>3. buf' = [buf EXCEPT ![l] = b] /\ accepted' = [accepted EXCEPT ![l] = c]
        BY <1>0, <1>4, <3>2 DEF WriteAppend
      <4> HIDE DEF b, c
      <4>4. /\ buf' \in [Legs -> Seq(Nat)] /\ accepted' \in [Legs -> Seq(Nat)]
            /\ \A k \in Legs : Len(buf'[k]) <= MaxBacklog
        BY <1>0, <4>2, <4>3 DEF LegTyped
      <4> QED
        BY <1>0, <1>4, <4>4 DEF WriteAppend, LegTyped, fileVars
    <3> QED
      BY <3>1, <3>2
  <2>4. RowTyped'
    BY <1>4, <1>0 DEF WriteAppend, RowTyped, fileVars
  <2> QED
    BY <2>1, <2>2, <2>3, <2>4
<1>5. ASSUME NEW n \in 1 .. CatchUp, MuxTick(n) PROVE Goal
  <2>1. PCTyped'
    BY <1>5, <1>0 DEF MuxTick, PCTyped, fileVars
  <2>2. CountTyped'
    BY <1>5, <1>0 DEF MuxTick, CountTyped, fileVars
  <2>3. LegTyped'
    BY <1>5, <1>0 DEF MuxTick, LegTyped, fileVars
  <2>4. RowTyped'
    BY <1>5, <1>0 DEF MuxTick, RowTyped, fileVars
  <2> QED
    BY <2>1, <2>2, <2>3, <2>4
<1>6. CASE MuxTake
  <2>1. PCTyped'
    BY <1>6, <1>0 DEF MuxTake, PCTyped, fileVars, histVars
  <2>2. CountTyped'
    BY <1>6, <1>0 DEF MuxTake, CountTyped, fileVars, histVars
  <2>3. LegTyped'
    BY <1>6, <1>0, TakeTypes, TypeParts DEF MuxTake, LegTyped, fileVars, histVars
  <2>4. RowTyped'
    BY <1>6, <1>0 DEF MuxTake, RowTyped, fileVars, histVars
  <2> QED
    BY <2>1, <2>2, <2>3, <2>4
<1>7. CASE MuxWrite
  <2>1. PCTyped'
    BY <1>7, <1>0 DEF MuxWrite, FrameWritten, PCTyped, histVars
  <2>2. CountTyped'
    BY <1>7, <1>0 DEF MuxWrite, FrameWritten, CountTyped, Control, histVars
  <2>3. LegTyped'
    BY <1>7, <1>0, WriteTypes, TypeParts DEF MuxWrite, FrameWritten, LegTyped, histVars
  <2>4. RowTyped'
    BY <1>7, <1>0 DEF MuxWrite, FrameWritten, RowTyped, histVars
  <2> QED
    BY <2>1, <2>2, <2>3, <2>4
<1>8. CASE MuxWriteFails
  <2>1. PCTyped'
    BY <1>8, <1>0 DEF MuxWriteFails, FrameFailed, PCTyped, fileVars
  <2>2. CountTyped'
    BY <1>8, <1>0 DEF MuxWriteFails, FrameFailed, CountTyped, fileVars
  <2>3. LegTyped'
    BY <1>8, <1>0, NothingTyped, AcceptedLen, TypeParts DEF MuxWriteFails,
       FrameFailed, LegTyped, fileVars
  <2>4. RowTyped'
    BY <1>8, <1>0 DEF MuxWriteFails, FrameFailed, RowTyped, fileVars
  <2> QED
    BY <2>1, <2>2, <2>3, <2>4
<1>9. CASE MuxPatch
  <2>1. PCTyped'
    BY <1>9, <1>0 DEF MuxPatch, PCTyped, histVars
  <2>2. CountTyped'
    BY <1>9, <1>0 DEF MuxPatch, CountTyped, histVars
  <2>3. LegTyped'
    BY <1>9, <1>0 DEF MuxPatch, LegTyped, histVars
  <2>4. RowTyped'
    BY <1>9, <1>0 DEF MuxPatch, RowTyped, histVars
  <2> QED
    BY <2>1, <2>2, <2>3, <2>4
<1>10. CASE MuxExit
  <2>1. PCTyped'
    BY <1>10, <1>0 DEF MuxExit, PCTyped, fileVars, histVars
  <2>2. CountTyped'
    BY <1>10, <1>0 DEF MuxExit, CountTyped, fileVars, histVars
  <2>3. LegTyped'
    BY <1>10, <1>0 DEF MuxExit, LegTyped, fileVars, histVars
  <2>4. RowTyped'
    BY <1>10, <1>0 DEF MuxExit, RowTyped, fileVars, histVars
  <2> QED
    BY <2>1, <2>2, <2>3, <2>4
<1>11. CASE StopBegin
  <2>1. PCTyped'
    BY <1>11, <1>0 DEF StopBegin, PCTyped, fileVars
  <2>2. CountTyped'
    BY <1>11, <1>0 DEF StopBegin, CountTyped, fileVars
  <2>3. LegTyped'
    BY <1>11, <1>0, AcceptedLen, TypeParts DEF StopBegin, LegTyped, fileVars
  <2>4. RowTyped'
    BY <1>11, <1>0 DEF StopBegin, RowTyped, fileVars
  <2> QED
    BY <2>1, <2>2, <2>3, <2>4
<1>12. CASE StopWaited
  <2>1. PCTyped'
    BY <1>12, <1>0 DEF StopWaited, StopMux, PCTyped, memVars, fileVars, histVars
  <2>2. CountTyped'
    BY <1>12, <1>0 DEF StopWaited, StopMux, CountTyped, memVars, fileVars, histVars
  <2>3. LegTyped'
    BY <1>12, <1>0 DEF StopWaited, StopMux, LegTyped, memVars, fileVars, histVars
  <2>4. RowTyped'
    BY <1>12, <1>0 DEF StopWaited, StopMux, RowTyped, memVars, fileVars, histVars
  <2> QED
    BY <2>1, <2>2, <2>3, <2>4
<1>13. CASE StopTimesOut
  <2>1. PCTyped'
    BY <1>13, <1>0 DEF StopTimesOut, StopMux, PCTyped, memVars, fileVars, histVars
  <2>2. CountTyped'
    BY <1>13, <1>0 DEF StopTimesOut, StopMux, CountTyped, memVars, fileVars, histVars
  <2>3. LegTyped'
    BY <1>13, <1>0 DEF StopTimesOut, StopMux, LegTyped, memVars, fileVars, histVars
  <2>4. RowTyped'
    BY <1>13, <1>0 DEF StopTimesOut, StopMux, RowTyped, memVars, fileVars, histVars
  <2> QED
    BY <2>1, <2>2, <2>3, <2>4
<1>14. CASE StopTail
  <2>1. PCTyped'
    BY <1>14, <1>0 DEF StopTail, StopMux, PCTyped, memVars, fileVars, histVars
  <2>2. CountTyped'
    BY <1>14, <1>0 DEF StopTail, StopMux, CountTyped, memVars, fileVars, histVars
  <2>3. LegTyped'
    BY <1>14, <1>0 DEF StopTail, StopMux, LegTyped, memVars, fileVars, histVars
  <2>4. RowTyped'
    BY <1>14, <1>0 DEF StopTail, StopMux, RowTyped, memVars, fileVars, histVars
  <2> QED
    BY <2>1, <2>2, <2>3, <2>4
<1>15. CASE StopDrained
  <2>1. PCTyped'
    BY <1>15, <1>0 DEF StopDrained, StopMux, PCTyped, memVars, fileVars, histVars
  <2>2. CountTyped'
    BY <1>15, <1>0 DEF StopDrained, StopMux, CountTyped, memVars, fileVars, histVars
  <2>3. LegTyped'
    BY <1>15, <1>0 DEF StopDrained, StopMux, LegTyped, memVars, fileVars, histVars
  <2>4. RowTyped'
    BY <1>15, <1>0 DEF StopDrained, StopMux, RowTyped, memVars, fileVars, histVars
  <2> QED
    BY <2>1, <2>2, <2>3, <2>4
<1>16. CASE StopTake
  <2>1. PCTyped'
    BY <1>16, <1>0 DEF StopTake, PCTyped, fileVars, histVars
  <2>2. CountTyped'
    BY <1>16, <1>0 DEF StopTake, CountTyped, fileVars, histVars
  <2>3. LegTyped'
    BY <1>16, <1>0, TakeTypes, TypeParts DEF StopTake, LegTyped, fileVars, histVars
  <2>4. RowTyped'
    BY <1>16, <1>0 DEF StopTake, RowTyped, fileVars, histVars
  <2> QED
    BY <2>1, <2>2, <2>3, <2>4
<1>17. CASE StopWrite
  <2>1. PCTyped'
    BY <1>17, <1>0 DEF StopWrite, FrameWritten, PCTyped, histVars
  <2>2. CountTyped'
    BY <1>17, <1>0 DEF StopWrite, FrameWritten, CountTyped, Control, histVars
  <2>3. LegTyped'
    BY <1>17, <1>0, WriteTypes, TypeParts DEF StopWrite, FrameWritten, LegTyped, histVars
  <2>4. RowTyped'
    BY <1>17, <1>0 DEF StopWrite, FrameWritten, RowTyped, histVars
  <2> QED
    BY <2>1, <2>2, <2>3, <2>4
<1>18. CASE StopWriteFails
  <2>1. PCTyped'
    BY <1>18, <1>0 DEF StopWriteFails, FrameFailed, PCTyped, fileVars, histVars
  <2>2. CountTyped'
    BY <1>18, <1>0 DEF StopWriteFails, FrameFailed, CountTyped, fileVars, histVars
  <2>3. LegTyped'
    BY <1>18, <1>0, NothingTyped DEF StopWriteFails, FrameFailed, LegTyped,
       fileVars, histVars
  <2>4. RowTyped'
    BY <1>18, <1>0 DEF StopWriteFails, FrameFailed, RowTyped, fileVars, histVars
  <2> QED
    BY <2>1, <2>2, <2>3, <2>4
<1>19. CASE StopSettle
  <2>1. PCTyped'
    BY <1>19, <1>0 DEF StopSettle, PCTyped, histVars
  <2>2. CountTyped'
    BY <1>19, <1>0 DEF StopSettle, CountTyped, histVars
  <2>3. LegTyped'
    BY <1>19, <1>0 DEF StopSettle, LegTyped, histVars
  <2>4. RowTyped'
    BY <1>19, <1>0 DEF StopSettle, RowTyped, histVars
  <2> QED
    BY <2>1, <2>2, <2>3, <2>4
<1>20. CASE StopMark
  <2>1. PCTyped'
    BY <1>20, <1>0 DEF StopMark, PCTyped, memVars, fileVars, histVars
  <2>2. CountTyped'
    BY <1>20, <1>0 DEF StopMark, CountTyped, memVars, fileVars, histVars
  <2>3. LegTyped'
    BY <1>20, <1>0 DEF StopMark, LegTyped, memVars, fileVars, histVars
  <2>4. RowTyped'
    <3>1. closedBytes \in Nat \cup {None} /\ stat \in Nat \cup {None}
      BY <1>0 DEF CountTyped
    <3> QED
      BY <1>0, <1>20, <3>1, StampedTyped DEF RowTyped, ReaperMark, StopMark
  <2> QED
    BY <2>1, <2>2, <2>3, <2>4
<1>21. CASE SessionEnds
  <2>1. PCTyped'
    BY <1>21, <1>0 DEF SessionEnds, PCTyped, memVars, fileVars, histVars
  <2>2. CountTyped'
    BY <1>21, <1>0 DEF SessionEnds, CountTyped, memVars, fileVars, histVars
  <2>3. LegTyped'
    BY <1>21, <1>0 DEF SessionEnds, LegTyped, memVars, fileVars, histVars
  <2>4. RowTyped'
    BY <1>21, <1>0 DEF SessionEnds, RowTyped, memVars, fileVars, histVars
  <2> QED
    BY <2>1, <2>2, <2>3, <2>4
<1>22. CASE ReaperList
  <2>1. PCTyped'
    BY <1>22, <1>0 DEF ReaperList, PCTyped, memVars, fileVars, histVars
  <2>2. CountTyped'
    BY <1>22, <1>0 DEF ReaperList, CountTyped, memVars, fileVars, histVars
  <2>3. LegTyped'
    BY <1>22, <1>0 DEF ReaperList, LegTyped, memVars, fileVars, histVars
  <2>4. RowTyped'
    BY <1>22, <1>0 DEF ReaperList, RowTyped, memVars, fileVars, histVars
  <2> QED
    BY <2>1, <2>2, <2>3, <2>4
<1>23. CASE ReaperStat
  <2>1. PCTyped'
    BY <1>23, <1>0 DEF ReaperStat, PCTyped, memVars, fileVars
  <2>2. CountTyped'
    BY <1>23, <1>0 DEF ReaperStat, CountTyped, memVars, fileVars
  <2>3. LegTyped'
    BY <1>23, <1>0 DEF ReaperStat, LegTyped, memVars, fileVars
  <2>4. RowTyped'
    BY <1>23, <1>0 DEF ReaperStat, RowTyped, memVars, fileVars
  <2> QED
    BY <2>1, <2>2, <2>3, <2>4
<1>24. CASE ReaperMark
  <2>1. PCTyped'
    BY <1>24, <1>0 DEF ReaperMark, PCTyped, memVars, fileVars, histVars
  <2>2. CountTyped'
    BY <1>24, <1>0 DEF ReaperMark, CountTyped, memVars, fileVars, histVars
  <2>3. LegTyped'
    BY <1>24, <1>0 DEF ReaperMark, LegTyped, memVars, fileVars, histVars
  <2>4. RowTyped'
    <3>1. closedBytes \in Nat \cup {None} /\ stat \in Nat \cup {None}
      BY <1>0 DEF CountTyped
    <3> QED
      BY <1>0, <1>24, <3>1, StampedTyped DEF RowTyped, ReaperMark, StopMark
  <2> QED
    BY <2>1, <2>2, <2>3, <2>4
<1>25. CASE Sweep
  <2>1. PCTyped'
    <3>1. UNCHANGED <<rec, done, failed, mux, stop, start, reaper, up, statLive>>
      BY <1>25 DEF Sweep, memVars, histVars
    <3>2. onDisk' \in BOOLEAN
      BY <1>25 DEF Sweep
    <3>3. PCTyped
      BY <1>0
    <3> QED
      BY <3>1, <3>2, <3>3 DEF PCTyped
  <2>2. CountTyped'
    BY <1>25, <1>0 DEF Sweep, CountTyped, memVars, histVars
  <2>3. LegTyped'
    BY <1>25, <1>0 DEF Sweep, LegTyped, memVars, histVars
  <2>4. RowTyped'
    BY <1>25, <1>0 DEF Sweep, RowTyped, memVars, histVars
  <2> QED
    BY <2>1, <2>2, <2>3, <2>4
<1>26. CASE Crash
  <2>1. PCTyped'
    BY <1>26, <1>0 DEF Crash, PCTyped, fileVars
  <2>2. CountTyped'
    BY <1>26, <1>0 DEF Crash, CountTyped, fileVars
  <2>3. LegTyped'
    BY <1>26, <1>0, NothingTyped DEF Crash, LegTyped, fileVars
  <2>4. RowTyped'
    BY <1>26, <1>0 DEF Crash, RowTyped, fileVars
  <2> QED
    BY <2>1, <2>2, <2>3, <2>4
<1>27. CASE Restart
  <2>1. PCTyped'
    BY <1>27, <1>0 DEF Restart, PCTyped, memVars, fileVars, histVars
  <2>2. CountTyped'
    BY <1>27, <1>0 DEF Restart, CountTyped, memVars, fileVars, histVars
  <2>3. LegTyped'
    BY <1>27, <1>0 DEF Restart, LegTyped, memVars, fileVars, histVars
  <2>4. RowTyped'
    BY <1>27, <1>0 DEF Restart, RowTyped, memVars, fileVars, histVars
  <2> QED
    BY <2>1, <2>2, <2>3, <2>4
<1>28. CASE UNCHANGED vars
  <2>1. UNCHANGED <<rec, memVars, stop, start, fileVars, row, reaper, stat, up, histVars>>
    BY <1>28 DEF vars
  <2>2. PCTyped' /\ CountTyped'
    BY <1>0, <2>1 DEF PCTyped, CountTyped, memVars, fileVars, histVars
  <2>3. LegTyped' /\ RowTyped'
    BY <1>0, <2>1 DEF LegTyped, RowTyped, memVars, fileVars, histVars
  <2> QED
    BY <2>2, <2>3
<1> QED
  BY <1>1, <1>2, <1>3, <1>4, <1>5, <1>6, <1>7, <1>8, <1>9, <1>10, <1>11,
     <1>12, <1>13, <1>14, <1>15, <1>16, <1>17, <1>18, <1>19, <1>20, <1>21,
     <1>22, <1>23, <1>24, <1>25, <1>26, <1>27, <1>28 DEF Next, Mux, Stop,
     Reaper

\* Every step keeps to who may write.
LEMMA ControlStep == TypeInv /\ [Next]_vars => Control'
<1> SUFFICES ASSUME TypeInv, [Next]_vars PROVE Control'
  OBVIOUS
<1> DEFINE Goal == Control'
<1>0. /\ Control /\ PCTyped /\ CountTyped
      /\ due \in Int /\ crashes \in Nat /\ CatchUp \in Nat /\ drained \in Int
  BY TypeParts, RecorderAssumption DEF TypeInv, CountTyped
<1>1. CASE StartRecorder
  BY <1>0, <1>1 DEF StartRecorder, Control, PCTyped, histVars
<1>2. CASE MarkStarted
  BY <1>0, <1>2 DEF MarkStarted, Control, PCTyped, memVars, fileVars, histVars
<1>3. ASSUME NEW l \in Legs, WriteCheck(l) PROVE Goal
  BY <1>0, <1>3 DEF WriteCheck, Control, PCTyped, fileVars
<1>4. ASSUME NEW l \in Legs, WriteAppend(l) PROVE Goal
  BY <1>0, <1>4 DEF WriteAppend, Control, PCTyped, fileVars
<1>5. ASSUME NEW n \in 1 .. CatchUp, MuxTick(n) PROVE Goal
  BY <1>0, <1>5 DEF MuxTick, Control, PCTyped, fileVars
<1>6. CASE MuxTake
  BY <1>0, <1>6 DEF MuxTake, TakeFronts, Control, PCTyped, fileVars, histVars
<1>7. CASE MuxWrite
  BY <1>0, <1>7 DEF MuxWrite, FrameWritten, Control, PCTyped, histVars
<1>8. CASE MuxWriteFails
  BY <1>0, <1>8 DEF MuxWriteFails, FrameFailed, Control, PCTyped, fileVars
<1>9. CASE MuxPatch
  BY <1>0, <1>9 DEF MuxPatch, Control, PCTyped, histVars
<1>10. CASE MuxExit
  BY <1>0, <1>10 DEF MuxExit, Control, PCTyped, fileVars, histVars
<1>11. CASE StopBegin
  BY <1>0, <1>11 DEF StopBegin, Control, PCTyped, fileVars
<1>12. CASE StopWaited
  BY <1>0, <1>12 DEF StopWaited, StopMux, Control, PCTyped, memVars, fileVars, histVars
<1>13. CASE StopTimesOut
  BY <1>0, <1>13 DEF StopTimesOut, StopMux, Control, PCTyped, memVars, fileVars, histVars
<1>14. CASE StopTail
  BY <1>0, <1>14 DEF StopTail, StopMux, Control, PCTyped, memVars, fileVars, histVars
<1>15. CASE StopDrained
  BY <1>0, <1>15 DEF StopDrained, StopMux, Control, PCTyped, memVars, fileVars, histVars
<1>16. CASE StopTake
  BY <1>0, <1>16 DEF StopTake, TakeFronts, Control, PCTyped, fileVars, histVars
<1>17. CASE StopWrite
  BY <1>0, <1>17 DEF StopWrite, FrameWritten, Control, PCTyped, histVars
<1>18. CASE StopWriteFails
  BY <1>0, <1>18 DEF StopWriteFails, FrameFailed, Control, PCTyped, fileVars, histVars
<1>19. CASE StopSettle
  BY <1>0, <1>19 DEF StopSettle, Control, PCTyped, histVars
<1>20. CASE StopMark
  BY <1>0, <1>20 DEF StopMark, Stamped, Control, PCTyped, memVars, fileVars, histVars
<1>21. CASE SessionEnds
  BY <1>0, <1>21 DEF SessionEnds, Control, PCTyped, memVars, fileVars, histVars
<1>22. CASE ReaperList
  BY <1>0, <1>22 DEF ReaperList, Control, PCTyped, memVars, fileVars, histVars
<1>23. CASE ReaperStat
  BY <1>0, <1>23 DEF ReaperStat, Control, PCTyped, memVars, fileVars
<1>24. CASE ReaperMark
  BY <1>0, <1>24 DEF ReaperMark, Stamped, Control, PCTyped, memVars, fileVars, histVars
<1>25. CASE Sweep
  BY <1>0, <1>25 DEF Sweep, Control, PCTyped, memVars, histVars
<1>26. CASE Crash
  BY <1>0, <1>26 DEF Crash, Control, PCTyped, fileVars
<1>27. CASE Restart
  BY <1>0, <1>27 DEF Restart, Control, PCTyped, memVars, fileVars, histVars
<1>28. CASE UNCHANGED vars
  BY <1>0, <1>28 DEF vars, memVars, fileVars, histVars, Control
<1> QED
  BY <1>1, <1>2, <1>3, <1>4, <1>5, <1>6, <1>7, <1>8, <1>9, <1>10, <1>11,
     <1>12, <1>13, <1>14, <1>15, <1>16, <1>17, <1>18, <1>19, <1>20, <1>21,
     <1>22, <1>23, <1>24, <1>25, <1>26, <1>27, <1>28 DEF Next, Mux, Stop,
     Reaper

LEMMA TypeInvariant == Spec => []TypeInv
<1>1. TypeInv /\ [Next]_vars => TypeInv'
  BY TypeStep, ControlStep DEF TypeInv
<1> QED
  BY TypeInit, <1>1, PTL DEF Spec

\* Recorder, TypeOK: every variable of the recorder keeps its type; no leg
\* buffers more than the backlog allows, and Close drains no more than its limit.
THEOREM RecorderTypes == Spec => []TypeOK
<1>1. TypeInv => TypeOK
  BY DEF TypeInv
<1> QED
  BY TypeInvariant, <1>1, PTL

-----------------------------------------------------------------------------
LEMMA ConservedInit == Init => Conserved
<1> SUFFICES ASSUME Init PROVE Conserved
  OBVIOUS
<1>1. /\ hand = Nothing /\ written = Nothing /\ buf = Nothing /\ accepted = Nothing
      /\ atClose = [l \in Legs |-> 0]
  BY DEF Init
<1>2. <<>> \o <<>> \o <<>> = <<>>
  BY EmptySeq, ConcatEmptySeq
<1> QED
  BY <1>1, <1>2, NothingTyped DEF Conserved

\* What a step that moves no frame has to keep.
LEMMA LegsKept ==
  ASSUME Conserved, UNCHANGED <<buf, hand, written, accepted, atClose>>,
         rec' = "none" => rec = "none", mux = "gone" => mux' = "gone", failed => failed',
         mux = "write" => mux' = "write", stop = "write" => stop' = "write"
  PROVE  Conserved'
BY DEF Conserved

\* The fronts are taken into an empty hand.
LEMMA FrontsTaken ==
  ASSUME TypeInv, Conserved, TakeFronts, hand = Nothing,
         mux' = "write" \/ stop' = "write", rec # "none", rec' = rec, mux # "gone",
         UNCHANGED <<written, accepted, atClose, failed>>
  PROVE  Conserved'
<1>1. ASSUME NEW l \in Legs, ~failed
      PROVE  written'[l] \o hand'[l] \o buf'[l] = accepted'[l]
  <2>1. /\ written[l] \in Seq(Nat) /\ buf[l] \in Seq(Nat)
        /\ hand[l] = <<>>
        /\ written[l] \o hand[l] \o buf[l] = accepted[l]
    BY <1>1, NothingTyped, TypeParts DEF TypeInv, LegTyped, Conserved
  <2>2. hand'[l] = Front(buf[l]) /\ buf'[l] = Rest(buf[l])
    BY DEF TakeFronts
  <2> QED
    BY <2>1, <2>2, Taking
<1> QED
  BY <1>1 DEF Conserved

\* The hand is written to the file.
LEMMA HandWritten ==
  ASSUME TypeInv, Conserved, FrameWritten, rec # "none", rec' = rec, mux # "gone",
         UNCHANGED <<buf, accepted, atClose, failed>>
  PROVE  Conserved'
<1>1. ASSUME NEW l \in Legs, ~failed
      PROVE  written'[l] \o hand'[l] \o buf'[l] = accepted'[l]
  <2>1. /\ written[l] \in Seq(Nat) /\ hand[l] \in Seq(Nat) /\ buf[l] \in Seq(Nat)
        /\ written[l] \o hand[l] \o buf[l] = accepted[l]
    BY <1>1, TypeParts DEF TypeInv, LegTyped, Conserved
  <2>2. written'[l] = written[l] \o hand[l] /\ hand'[l] = <<>>
    BY NothingTyped DEF FrameWritten
  <2>3. buf'[l] = buf[l] /\ accepted'[l] = accepted[l]
    OBVIOUS
  <2>4. (written[l] \o hand[l]) \o <<>> \o buf[l] = written[l] \o hand[l] \o buf[l]
    BY <2>1, Writing
  <2> QED
    BY <2>1, <2>2, <2>3, <2>4
<1>2. hand' = Nothing
  BY DEF FrameWritten
<1> QED
  BY <1>1, <1>2 DEF Conserved

\* Every step conserves the frames.
LEMMA ConservedStep == TypeInv /\ TypeInv' /\ Conserved /\ [Next]_vars => Conserved'
<1> SUFFICES ASSUME TypeInv, TypeInv', Conserved, [Next]_vars PROVE Conserved'
  OBVIOUS
<1> DEFINE Goal == Conserved'
<1>0. Control
  BY DEF TypeInv
<1>1. CASE StartRecorder
  BY <1>0, <1>1, LegsKept DEF StartRecorder, Control, histVars
<1>2. CASE MarkStarted
  BY <1>0, <1>2, LegsKept DEF MarkStarted, Control, memVars, fileVars, histVars
<1>3. ASSUME NEW l \in Legs, WriteCheck(l) PROVE Goal
  BY <1>0, <1>3, LegsKept DEF WriteCheck, Control, fileVars
<1>4. ASSUME NEW l \in Legs, WriteAppend(l) PROVE Goal
  <2>1. UNCHANGED <<rec, failed, mux, stop, hand, written, atClose>>
    BY <1>4 DEF WriteAppend, fileVars
  <2>2. CASE Len(buf[l]) >= MaxBacklog
    <3>1. UNCHANGED <<buf, accepted>>
      BY <1>4, <2>2 DEF WriteAppend
    <3> QED
      BY <2>1, <3>1, LegsKept
  <2>3. CASE ~(Len(buf[l]) >= MaxBacklog)
    <3> DEFINE q == Append(buf[l], offered[l])
               c == Append(accepted[l], offered[l])
    <3>1. /\ written[l] \in Seq(Nat) /\ hand[l] \in Seq(Nat) /\ buf[l] \in Seq(Nat)
          /\ accepted[l] \in Seq(Nat) /\ offered[l] \in Nat
          /\ buf \in [Legs -> Seq(Nat)] /\ accepted \in [Legs -> Seq(Nat)]
          /\ atClose[l] \in Nat
      BY TypeParts DEF TypeInv, LegTyped
    <3>2. buf' = [buf EXCEPT ![l] = q] /\ accepted' = [accepted EXCEPT ![l] = c]
      BY <1>4, <2>3 DEF WriteAppend
    <3>3. Len(c) = Len(accepted[l]) + 1 /\ Len(accepted[l]) \in Nat
      BY <3>1, AppendProperties, LenProperties
    <3>4. written[l] \o hand[l] \o q = Append(written[l] \o hand[l] \o buf[l], offered[l])
      <4> DEFINE w == written[l]
                 h == hand[l]
                 b == buf[l]
                 e == offered[l]
      <4> HIDE DEF w, h, b, e
      <4>1. w \in Seq(Nat) /\ h \in Seq(Nat) /\ b \in Seq(Nat) /\ e \in Nat
        BY <3>1 DEF w, h, b, e
      <4>2. w \o h \o Append(b, e) = Append(w \o h \o b, e)
        BY <4>1, Appending
      <4> QED
        BY <4>2 DEF w, h, b, e
    <3>5. mux # "gone" /\ ~failed => c = Append(written[l] \o hand[l] \o buf[l], offered[l])
      BY DEF Conserved
    <3> HIDE DEF q, c
    <3>6. /\ buf'[l] = q /\ accepted'[l] = c
          /\ \A k \in Legs : k # l => buf'[k] = buf[k] /\ accepted'[k] = accepted[k]
      BY <3>1, <3>2
    <3>7. ASSUME mux # "gone", ~failed, NEW k \in Legs
          PROVE  written[k] \o hand[k] \o buf'[k] = accepted'[k]
      BY <3>4, <3>5, <3>6, <3>7 DEF Conserved
    <3>8. ASSUME NEW k \in Legs PROVE atClose[k] <= Len(accepted'[k])
      <4>1. CASE k = l
        BY <3>1, <3>3, <3>6, <4>1 DEF Conserved
      <4>2. CASE k # l
        BY <3>6, <4>2 DEF Conserved
      <4> QED
        BY <4>1, <4>2
    <3> QED
      BY <2>1, <3>7, <3>8 DEF Conserved
  <2> QED
    BY <2>2, <2>3
<1>5. ASSUME NEW n \in 1 .. CatchUp, MuxTick(n) PROVE Goal
  BY <1>0, <1>5, LegsKept DEF MuxTick, Control, fileVars
<1>6. CASE MuxTake
  <2>1. hand = Nothing
    BY <1>0, <1>6 DEF MuxTake, Control, Conserved
  <2> QED
    BY <1>0, <1>6, <2>1, FrontsTaken DEF MuxTake, Control, fileVars, histVars
<1>7. CASE MuxWrite
  BY <1>0, <1>7, HandWritten DEF MuxWrite, Control, histVars
<1>8. CASE MuxWriteFails
  <2>1. /\ failed' /\ hand' = Nothing /\ UNCHANGED <<written, accepted>>
        /\ rec' = rec
    BY <1>8 DEF MuxWriteFails, FrameFailed, fileVars
  <2>2. \A l \in Legs : atClose'[l] <= Len(accepted'[l])
    <3>1. \A l \in Legs : Len(accepted[l]) \in Nat
      BY AcceptedLen, TypeParts DEF TypeInv
    <3>2. atClose' = atClose \/ atClose' = [l \in Legs |-> Len(accepted[l])]
      BY <1>8 DEF MuxWriteFails
    <3> QED
      BY <2>1, <3>1, <3>2 DEF Conserved
  <2> QED
    BY <2>1, <2>2 DEF Conserved
<1>9. CASE MuxPatch
  BY <1>0, <1>9, LegsKept DEF MuxPatch, Control, histVars
<1>10. CASE MuxExit
  BY <1>0, <1>10, LegsKept DEF MuxExit, Control, fileVars, histVars
<1>11. CASE StopBegin
  <2>1. /\ UNCHANGED <<buf, hand, written, accepted, failed, mux>>
        /\ rec' = "gone" /\ stop # "write"
    BY <1>0, <1>11 DEF StopBegin, Control, fileVars
  <2>2. \A l \in Legs : atClose'[l] <= Len(accepted'[l])
    <3>1. \A l \in Legs : Len(accepted[l]) \in Nat
      BY AcceptedLen, TypeParts DEF TypeInv
    <3>2. atClose' = atClose \/ atClose' = [l \in Legs |-> Len(accepted[l])]
      BY <1>11 DEF StopBegin
    <3> QED
      BY <2>1, <3>1, <3>2 DEF Conserved
  <2> QED
    BY <2>1, <2>2 DEF Conserved
<1>12. CASE StopWaited
  BY <1>0, <1>12, LegsKept DEF StopWaited, StopMux, Control, memVars, fileVars, histVars
<1>13. CASE StopTimesOut
  BY <1>0, <1>13, LegsKept DEF StopTimesOut, StopMux, Control, memVars, fileVars, histVars
<1>14. CASE StopTail
  BY <1>0, <1>14, LegsKept DEF StopTail, StopMux, Control, memVars, fileVars, histVars
<1>15. CASE StopDrained
  BY <1>0, <1>15, LegsKept DEF StopDrained, StopMux, Control, memVars, fileVars, histVars
<1>16. CASE StopTake
  <2>1. hand = Nothing
    BY <1>0, <1>16 DEF StopTake, Control, Conserved
  <2> QED
    BY <1>0, <1>16, <2>1, FrontsTaken DEF StopTake, Control, fileVars, histVars
<1>17. CASE StopWrite
  BY <1>0, <1>17, HandWritten DEF StopWrite, Control, histVars
<1>18. CASE StopWriteFails
  <2>1. /\ failed' /\ hand' = Nothing /\ UNCHANGED <<written, accepted>>
        /\ rec' = rec
    BY <1>18 DEF StopWriteFails, FrameFailed, fileVars, histVars
  <2>2. \A l \in Legs : atClose'[l] <= Len(accepted'[l])
    BY <2>1, <1>18 DEF Conserved, StopWriteFails, histVars
  <2> QED
    BY <2>1, <2>2 DEF Conserved
<1>19. CASE StopSettle
  BY <1>0, <1>19, LegsKept DEF StopSettle, Control, histVars
<1>20. CASE StopMark
  BY <1>0, <1>20, LegsKept DEF StopMark, Stamped, Control, memVars, fileVars, histVars
<1>21. CASE SessionEnds
  BY <1>0, <1>21, LegsKept DEF SessionEnds, Control, memVars, fileVars, histVars
<1>22. CASE ReaperList
  BY <1>0, <1>22, LegsKept DEF ReaperList, Control, memVars, fileVars, histVars
<1>23. CASE ReaperStat
  BY <1>0, <1>23, LegsKept DEF ReaperStat, Control, memVars, fileVars
<1>24. CASE ReaperMark
  BY <1>0, <1>24, LegsKept DEF ReaperMark, Stamped, Control, memVars, fileVars, histVars
<1>25. CASE Sweep
  BY <1>0, <1>25, LegsKept DEF Sweep, Control, memVars, histVars
<1>26. CASE Crash
  <2>1. /\ hand' = Nothing /\ accepted' = Nothing /\ buf' = Nothing /\ written' = written
        /\ atClose' = [l \in Legs |-> 0] /\ failed' = failed
        /\ mux' = IF mux = "none" THEN "none" ELSE "gone"
        /\ rec' = "none" => rec = "none"
    BY <1>26 DEF Crash, fileVars
  <2>2. mux = "none" => rec = "none"
    BY <1>0 DEF Control
  <2>3. rec = "none" => written = Nothing
    BY DEF Conserved
  <2>4. <<>> \o <<>> \o <<>> = <<>>
    BY EmptySeq, ConcatEmptySeq
  <2> QED
    BY <2>1, <2>2, <2>3, <2>4, NothingTyped DEF Conserved
<1>27. CASE Restart
  BY <1>0, <1>27, LegsKept DEF Restart, Control, memVars, fileVars, histVars
<1>28. CASE UNCHANGED vars
  BY <1>28, LegsKept DEF vars, memVars, fileVars, histVars
<1> QED
  BY <1>1, <1>2, <1>3, <1>4, <1>5, <1>6, <1>7, <1>8, <1>9, <1>10, <1>11,
     <1>12, <1>13, <1>14, <1>15, <1>16, <1>17, <1>18, <1>19, <1>20, <1>21,
     <1>22, <1>23, <1>24, <1>25, <1>26, <1>27, <1>28 DEF Next, Mux, Stop,
     Reaper

\* From the last drain on the file stays complete.
LEMMA CompleteStep ==
  TypeInv /\ TypeInv' /\ Conserved /\ Complete /\ Sizes /\ [Next]_vars => Complete'
<1> SUFFICES ASSUME TypeInv, TypeInv', Conserved, Complete, Sizes, [Next]_vars
             PROVE  Complete'
  OBVIOUS
<1> DEFINE Goal == Complete'
<1>0. Control
  BY DEF TypeInv
\* With empty buffers and hands, all that was accepted is in the file.
<1>100. ASSUME ~failed, Empty, mux = "exited", stop # "write"
      PROVE  \A l \in Legs : Len(written[l]) >= atClose[l]
  <2> SUFFICES ASSUME NEW l \in Legs PROVE Len(written[l]) >= atClose[l]
    OBVIOUS
  <2>1. hand[l] = <<>> /\ buf[l] = <<>>
    BY <1>100, NothingTyped DEF Conserved, Empty
  <2>2. written[l] \in Seq(Nat) /\ written[l] \o <<>> = written[l] /\ atClose[l] \in Nat
    BY TypeParts, ConcatEmptySeq DEF TypeInv, LegTyped
  <2>3. written[l] = accepted[l]
    BY <1>100, <2>1, <2>2 DEF Conserved
  <2> QED
    BY <2>2, <2>3, LenProperties DEF Conserved
<1>1. CASE StartRecorder
  BY <1>0, <1>1 DEF StartRecorder, Complete, Empty, Sizes, Control, histVars
<1>2. CASE MarkStarted
  BY <1>0, <1>2 DEF MarkStarted, Complete, Empty, Sizes, Control, memVars, fileVars,
     histVars
<1>3. ASSUME NEW l \in Legs, WriteCheck(l) PROVE Goal
  BY <1>0, <1>3 DEF WriteCheck, Complete, Empty, Sizes, Control, fileVars
<1>4. ASSUME NEW l \in Legs, WriteAppend(l) PROVE Goal
  <2>1. UNCHANGED <<stop, closedBytes, failed, drained, written, atClose>>
    BY <1>4 DEF WriteAppend, fileVars
  <2>2. Empty' => Empty
    <3>1. CASE Len(buf[l]) >= MaxBacklog
      BY <1>4, <3>1 DEF WriteAppend, Empty, Nothing
    <3>2. CASE ~(Len(buf[l]) >= MaxBacklog)
      <4>0. buf' = [buf EXCEPT ![l] = Append(buf[l], offered[l])]
        BY <1>4, <3>2 DEF WriteAppend
      <4>1. buf \in [Legs -> Seq(Nat)] /\ offered[l] \in Nat
        BY TypeParts DEF TypeInv, LegTyped
      <4>2. buf'[l] # <<>>
        BY <4>0, <4>1, AppendProperties
      <4> QED
        BY <4>2, NothingTyped DEF Empty, Nothing
    <3> QED
      BY <3>1, <3>2
  <2> QED
    BY <2>1, <2>2 DEF Complete
<1>5. ASSUME NEW n \in 1 .. CatchUp, MuxTick(n) PROVE Goal
  BY <1>0, <1>5 DEF MuxTick, Complete, Empty, Sizes, Control, fileVars
<1>6. CASE MuxTake
  BY <1>0, <1>6 DEF MuxTake, TakeFronts, Complete, Empty, Sizes, Control, fileVars, histVars
<1>7. CASE MuxWrite
  BY <1>0, <1>7 DEF MuxWrite, FrameWritten, Complete, Empty, Sizes, Control, histVars
<1>8. CASE MuxWriteFails
  BY <1>0, <1>8 DEF MuxWriteFails, FrameFailed, Complete, Empty, Sizes, Control, fileVars
<1>9. CASE MuxPatch
  BY <1>0, <1>9 DEF MuxPatch, Complete, Empty, Sizes, Control, histVars
<1>10. CASE MuxExit
  BY <1>0, <1>10 DEF MuxExit, Complete, Empty, Sizes, Control, fileVars, histVars
<1>11. CASE StopBegin
  BY <1>0, <1>11 DEF StopBegin, Complete, Empty, Sizes, Control, fileVars
<1>12. CASE StopWaited
  BY <1>0, <1>12 DEF StopWaited, StopMux, Complete, Empty, Sizes, Control, memVars,
     fileVars, histVars
<1>13. CASE StopTimesOut
  BY <1>0, <1>13 DEF StopTimesOut, StopMux, Complete, Empty, Sizes, Control, memVars,
     fileVars, histVars
<1>14. CASE StopTail
  BY <1>0, <1>100, <1>14 DEF StopTail, StopMux, Complete, Empty, Sizes, Control,
     memVars, fileVars, histVars
<1>15. CASE StopDrained
  <2>1. drained \in Int /\ DrainCap \in Int
    BY RecorderAssumption, TypeParts DEF TypeInv, CountTyped
  <2> QED
    BY <1>0, <1>100, <2>1, <1>15 DEF StopDrained, StopMux, Complete, Empty, Sizes,
       Control, memVars, fileVars, histVars
<1>16. CASE StopTake
  BY <1>0, <1>16 DEF StopTake, TakeFronts, Complete, Empty, Sizes, Control, fileVars,
     histVars
<1>17. CASE StopWrite
  BY <1>0, <1>17 DEF StopWrite, FrameWritten, Complete, Empty, Sizes, Control, histVars
<1>18. CASE StopWriteFails
  BY <1>0, <1>18 DEF StopWriteFails, FrameFailed, Complete, Empty, Sizes, Control,
     fileVars, histVars
<1>19. CASE StopSettle
  BY <1>0, <1>19 DEF StopSettle, Complete, Empty, Sizes, Control, histVars
<1>20. CASE StopMark
  BY <1>0, <1>20 DEF StopMark, Stamped, Complete, Empty, Sizes, Control, memVars,
     fileVars, histVars
<1>21. CASE SessionEnds
  BY <1>0, <1>21 DEF SessionEnds, Complete, Empty, Sizes, Control, memVars, fileVars,
     histVars
<1>22. CASE ReaperList
  BY <1>0, <1>22 DEF ReaperList, Complete, Empty, Sizes, Control, memVars, fileVars,
     histVars
<1>23. CASE ReaperStat
  BY <1>0, <1>23 DEF ReaperStat, Complete, Empty, Sizes, Control, memVars, fileVars
<1>24. CASE ReaperMark
  BY <1>0, <1>24 DEF ReaperMark, Stamped, Complete, Empty, Sizes, Control, memVars,
     fileVars, histVars
<1>25. CASE Sweep
  BY <1>0, <1>25 DEF Sweep, Complete, Empty, Sizes, Control, memVars, histVars
<1>26. CASE Crash
  BY <1>0, <1>26 DEF Crash, Complete, Empty, Sizes, Control, fileVars
<1>27. CASE Restart
  BY <1>0, <1>27 DEF Restart, Complete, Empty, Sizes, Control, memVars, fileVars, histVars
<1>28. CASE UNCHANGED vars
  BY <1>28 DEF vars, memVars, fileVars, histVars, Complete, Empty, Nothing
<1> QED
  BY <1>1, <1>2, <1>3, <1>4, <1>5, <1>6, <1>7, <1>8, <1>9, <1>10, <1>11,
     <1>12, <1>13, <1>14, <1>15, <1>16, <1>17, <1>18, <1>19, <1>20, <1>21,
     <1>22, <1>23, <1>24, <1>25, <1>26, <1>27, <1>28 DEF Next, Mux, Stop,
     Reaper

LEMMA SizesStep == TypeInv /\ TypeInv' /\ Sizes /\ [Next]_vars => Sizes'
<1> SUFFICES ASSUME TypeInv, TypeInv', Sizes, [Next]_vars PROVE Sizes'
  OBVIOUS
<1> DEFINE Goal == Sizes'
<1>0. /\ Control /\ frames \in Nat /\ header \in Nat /\ frames' \in Nat
      /\ torn \in 0 .. 1 /\ torn' \in 0 .. 1 /\ PCTyped /\ PCTyped' /\ Control'
  BY TypeParts DEF TypeInv, PCTyped, CountTyped, TypeOK
<1>1. CASE StartRecorder
  BY <1>0, <1>1 DEF StartRecorder, Sizes, Quiet, Control, PCTyped, histVars
<1>2. CASE MarkStarted
  BY <1>0, <1>2 DEF MarkStarted, Sizes, Quiet, Control, PCTyped, memVars, fileVars, histVars
<1>3. ASSUME NEW l \in Legs, WriteCheck(l) PROVE Goal
  BY <1>0, <1>3 DEF WriteCheck, Sizes, Quiet, Control, PCTyped, fileVars
<1>4. ASSUME NEW l \in Legs, WriteAppend(l) PROVE Goal
  BY <1>0, <1>4 DEF WriteAppend, Sizes, Quiet, Control, PCTyped, fileVars
<1>5. ASSUME NEW n \in 1 .. CatchUp, MuxTick(n) PROVE Goal
  BY <1>0, <1>5 DEF MuxTick, Sizes, Quiet, Control, PCTyped, fileVars
<1>6. CASE MuxTake
  BY <1>0, <1>6 DEF MuxTake, TakeFronts, Sizes, Quiet, Control, PCTyped, fileVars, histVars
<1>7. CASE MuxWrite
  BY <1>0, <1>7 DEF MuxWrite, FrameWritten, Sizes, Quiet, Control, PCTyped, histVars
<1>8. CASE MuxWriteFails
  BY <1>0, <1>8 DEF MuxWriteFails, FrameFailed, Sizes, Quiet, Control, PCTyped, fileVars
<1>9. CASE MuxPatch
  BY <1>0, <1>9 DEF MuxPatch, Sizes, Quiet, Control, PCTyped, histVars
<1>10. CASE MuxExit
  BY <1>0, <1>10 DEF MuxExit, Sizes, Quiet, Control, PCTyped, fileVars, histVars
<1>11. CASE StopBegin
  BY <1>0, <1>11 DEF StopBegin, Sizes, Quiet, Control, PCTyped, fileVars
<1>12. CASE StopWaited
  BY <1>0, <1>12 DEF StopWaited, StopMux, Sizes, Quiet, Control, PCTyped, memVars,
     fileVars, histVars
<1>13. CASE StopTimesOut
  BY <1>0, <1>13 DEF StopTimesOut, StopMux, Sizes, Quiet, Control, PCTyped, memVars,
     fileVars, histVars
<1>14. CASE StopTail
  BY <1>0, <1>14 DEF StopTail, StopMux, Sizes, Quiet, Control, PCTyped, memVars,
     fileVars, histVars
<1>15. CASE StopDrained
  BY <1>0, <1>15 DEF StopDrained, StopMux, Sizes, Quiet, Control, PCTyped, memVars,
     fileVars, histVars
<1>16. CASE StopTake
  BY <1>0, <1>16 DEF StopTake, TakeFronts, Sizes, Quiet, Control, PCTyped, fileVars,
     histVars
<1>17. CASE StopWrite
  BY <1>0, <1>17 DEF StopWrite, FrameWritten, Sizes, Quiet, Control, PCTyped, histVars
<1>18. CASE StopWriteFails
  BY <1>0, <1>18 DEF StopWriteFails, FrameFailed, Sizes, Quiet, Control, PCTyped,
     fileVars, histVars
<1>19. CASE StopSettle
  BY <1>0, <1>19 DEF StopSettle, Sizes, Quiet, Control, PCTyped, histVars
<1>20. CASE StopMark
  BY <1>0, <1>20 DEF StopMark, Stamped, Sizes, Quiet, Control, PCTyped, memVars,
     fileVars, histVars
<1>21. CASE SessionEnds
  BY <1>0, <1>21 DEF SessionEnds, Sizes, Quiet, Control, PCTyped, memVars, fileVars,
     histVars
<1>22. CASE ReaperList
  BY <1>0, <1>22 DEF ReaperList, Sizes, Quiet, Control, PCTyped, memVars, fileVars, histVars
<1>23. CASE ReaperStat
  <2>1. /\ UNCHANGED <<rec, memVars, stop, start, fileVars, row>>
        /\ stat' = IF onDisk THEN frames + torn ELSE None
        /\ statLive' = (statLive \/ (onDisk /\ StillGrowing))
    BY <1>23 DEF ReaperStat
  <2>2. UNCHANGED <<rec, failed, mux, stop, frames, torn, header, closedBytes, row>>
    BY <2>1 DEF memVars, fileVars
  <2>3. ~statLive' => ~statLive
    BY <1>0, <2>1 DEF PCTyped
  <2>4. stat' # None /\ ~statLive' => stat' = frames + torn /\ Quiet
    <3> SUFFICES ASSUME stat' # None, ~statLive' PROVE stat' = frames + torn /\ Quiet
      OBVIOUS
    <3>1. onDisk /\ stat' = frames + torn /\ ~StillGrowing
      BY <1>0, <2>1 DEF PCTyped
    <3> QED
      BY <1>0, <3>1 DEF StillGrowing, Quiet, Control, PCTyped
  <2> QED
    BY <2>2, <2>3, <2>4 DEF Sizes, Quiet
<1>24. CASE ReaperMark
  BY <1>0, <1>24 DEF ReaperMark, Stamped, Sizes, Quiet, Control, PCTyped, memVars,
     fileVars, histVars
<1>25. CASE Sweep
  BY <1>0, <1>25 DEF Sweep, Sizes, Quiet, Control, PCTyped, memVars, histVars
<1>26. CASE Crash
  BY <1>0, <1>26 DEF Crash, Sizes, Quiet, Control, PCTyped, fileVars
<1>27. CASE Restart
  BY <1>0, <1>27 DEF Restart, Sizes, Quiet, Control, PCTyped, memVars, fileVars, histVars
<1>28. CASE UNCHANGED vars
  BY <1>0, <1>28 DEF vars, memVars, fileVars, histVars, Sizes, Quiet
<1> QED
  BY <1>1, <1>2, <1>3, <1>4, <1>5, <1>6, <1>7, <1>8, <1>9, <1>10, <1>11,
     <1>12, <1>13, <1>14, <1>15, <1>16, <1>17, <1>18, <1>19, <1>20, <1>21,
     <1>22, <1>23, <1>24, <1>25, <1>26, <1>27, <1>28 DEF Next, Mux, Stop,
     Reaper

LEMMA Invariant == Spec => []IInv
<1>1. Init => IInv
  <2> SUFFICES ASSUME Init PROVE Complete /\ Sizes
    BY TypeInit, ConservedInit DEF IInv
  <2>1. /\ stop = "none" /\ closedBytes = None /\ header = 0 /\ frames = 0
        /\ row.bytes = None /\ stat = None
    BY DEF Init
  <2> QED
    BY <2>1 DEF Complete, Sizes
<1>2. IInv /\ [Next]_vars => IInv'
  <2> SUFFICES ASSUME IInv, [Next]_vars PROVE IInv'
    OBVIOUS
  <2>1. TypeInv'
    BY TypeStep, ControlStep DEF IInv, TypeInv
  <2> QED
    BY <2>1, ConservedStep, CompleteStep, SizesStep DEF IInv
<1> QED
  BY <1>1, <1>2, PTL DEF Spec

\* Recorder, FramesConserved: until the process or the disk fails, what a leg
\* took is in the file, in the hand of whoever writes, or buffered, in order.
THEOREM NoFrameLost == Spec => []FramesConserved
<1>1. IInv => FramesConserved
  <2> SUFFICES ASSUME IInv, crashes = 0 PROVE mux # "gone"
    BY DEF IInv, Conserved, FramesConserved
  <2> QED
    BY DEF IInv, TypeInv, Control
<1> QED
  BY Invariant, <1>1, PTL

\* Recorder, FinishedIsComplete: what Close reports as finished holds all that
\* was accepted before it, unless a write failed or the drain was cut short.
THEOREM FinishedComplete == Spec => []FinishedIsComplete
<1>1. IInv => FinishedIsComplete
  BY DEF IInv, Complete, FinishedIsComplete
<1> QED
  BY Invariant, <1>1, PTL

\* Recorder, FileTruthful: the header and the reported sizes tell the truth
\* about the file, and go on doing so.
THEOREM SizesTruthful == Spec => []FileTruthful
<1>1. IInv => FileTruthful
  BY DEF IInv, Sizes, FileTruthful
<1> QED
  BY Invariant, <1>1, PTL

\* Once a size has been stamped that was not read from a growing file, nothing
\* is written to that file any more, whatever crashes or reaps follow.
THEOREM StampedIsFinal ==
  Spec => [][row.bytes # None /\ ~statLive => UNCHANGED <<frames, written, torn>>]_vars
<1>1. IInv /\ [Next]_vars
        => [row.bytes # None /\ ~statLive => UNCHANGED <<frames, written, torn>>]_vars
  <2> SUFFICES ASSUME IInv, Next, row.bytes # None, ~statLive
               PROVE  UNCHANGED <<frames, written, torn>>
    OBVIOUS
  <2>1. Quiet /\ Control
    BY DEF IInv, TypeInv, Sizes
  <2>2. ~MuxWrite /\ ~MuxWriteFails /\ ~StopWrite /\ ~StopWriteFails
    BY <2>1 DEF Quiet, MuxWrite, MuxWriteFails, StopWrite, StopWriteFails
  <2> QED
    BY <2>2 DEF Next, StartRecorder, MarkStarted, WriteCheck, WriteAppend, Mux, MuxTick,
          MuxTake, MuxPatch, MuxExit, StopBegin, Stop, StopMux, StopWaited,
          StopTimesOut, StopTail, StopDrained, StopTake, StopSettle,
          StopMark, SessionEnds, Reaper, ReaperList, ReaperStat, ReaperMark, Sweep,
          Crash, Restart, fileVars, vars
<1> QED
  BY Invariant, <1>1, PTL DEF Spec
=============================================================================
