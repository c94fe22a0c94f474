-------------------------- MODULE BmpFramingProofs --------------------------
(***************************************************************************)
(* The read loops cut a router's stream into its frames, shed nothing but  *)
(* statistics and relay a gapless prefix upstream, for every set of frame  *)
(* lengths, every way the bytes are cut into reads, every channel capacity *)
(* and every setting of the governor.                                      *)
(***************************************************************************)
EXTENDS BmpFraming, SequenceTheorems, TLAPS

-----------------------------------------------------------------------------
(* The inductive invariant *)

FrameKinds == {"route", "stats", "rejected"}
Frame      == [start : Nat, len : Nat, kind : FrameKinds]

\* The position behind the n-th frame
EndOf(n) == IF n = 0 THEN 0 ELSE frames[n].start + frames[n].len

\* The frames lie end to end in the stream, and bytes are lost only by the hang-up.
Layout ==
    /\ frames \in Seq(Frame)
    /\ \A i \in 1 .. Len(frames) : frames[i].len >= HeaderLen /\ frames[i].start = EndOf(i - 1)
    /\ \A i, j \in 1 .. Len(frames) : i < j => EndOf(i) <= frames[j].start
    /\ end <= EndOf(Len(frames))
    /\ ~hungUp => end = EndOf(Len(frames))

\* The buffer starts where the last frame taken ends.
Position == SlicesAreFrames /\ base = EndOf(Len(taken))

\* Only frames that were taken are on the way, and nothing follows the Termination.
Messages ==
    /\ OnlyStatsAreShed
    /\ \A j \in 1 .. Len(InFlight) : InFlight[j] <= Len(taken)
    /\ pc # "closed" => \A j \in 1 .. Len(InFlight) : InFlight[j] # 0

FInv == TypeOK /\ Layout /\ Position /\ Messages

-----------------------------------------------------------------------------
(* Frames in the stream *)

\* What the assumptions say of lengths and capacities.
LEMMA Constants ==
    /\ HeaderLen \in Nat /\ HeaderLen >= 1 /\ ChanCap \in Nat /\ ChanCap >= 1 /\ MaxFrames \in Nat
    /\ \A f \in FrameTypes : f.len \in Nat /\ f.len >= HeaderLen /\ f.kind \in FrameKinds
<1>1. ASSUME NEW f \in FrameTypes
      PROVE  f.len \in RouteLens \cup StatsLens \cup RejectedLens /\ f.kind \in FrameKinds
  BY DEF FrameTypes, FrameKinds
<1> QED
  BY <1>1, FramingAssumption

\* Ends of frames are positions, in the order of the frames, which do not overlap.
FramesInOrder ==
    /\ Len(frames) \in Nat
    /\ \A i \in 1 .. Len(frames) :
          /\ frames[i] \in Frame /\ frames[i].start \in Nat /\ frames[i].len \in Nat
          /\ EndOf(i) = frames[i].start + frames[i].len /\ EndOf(i) > frames[i].start
    /\ \A i \in 0 .. Len(frames) : EndOf(i) \in Nat
    /\ \A i, j \in 0 .. Len(frames) : i < j => EndOf(i) < EndOf(j) /\ EndOf(i) <= frames[j].start
    /\ \A i, j \in 1 .. Len(frames) : frames[i].start = frames[j].start => i = j

\* Frames that lie end to end are ordered by their positions.
LEMMA FrameOrder == Layout => FramesInOrder
<1> SUFFICES ASSUME Layout PROVE FramesInOrder
  OBVIOUS
<1>0. frames \in Seq(Frame) /\ Len(frames) \in Nat
  BY DEF Layout
<1>1. ASSUME NEW i \in 1 .. Len(frames)
      PROVE  /\ frames[i] \in Frame /\ frames[i].start \in Nat /\ frames[i].len \in Nat
             /\ EndOf(i) = frames[i].start + frames[i].len /\ EndOf(i) > frames[i].start
  <2>1. frames[i] \in Frame
    BY <1>0, ElementOfSeq
  <2>2. frames[i].start \in Nat /\ frames[i].len \in Nat /\ frames[i].len >= 1
    <3>1. frames[i].start \in Nat /\ frames[i].len \in Nat
      BY <2>1 DEF Frame
    <3>2. frames[i].len >= HeaderLen
      BY DEF Layout
    <3> QED
      BY <3>1, <3>2, Constants
  <2>3. EndOf(i) = frames[i].start + frames[i].len
    BY <1>0 DEF EndOf
  <2> QED
    BY <2>1, <2>2, <2>3
<1>2. ASSUME NEW i \in 0 .. Len(frames) PROVE EndOf(i) \in Nat
  <2>1. CASE i = 0
    BY <2>1 DEF EndOf
  <2>2. CASE i # 0
    BY <1>0, <1>1, <2>2
  <2> QED
    BY <2>1, <2>2
<1>3. ASSUME NEW i \in 0 .. Len(frames), NEW j \in 0 .. Len(frames), i < j
      PROVE  EndOf(i) < EndOf(j) /\ EndOf(i) <= frames[j].start
  <2>0. j \in 1 .. Len(frames)
    BY <1>0, <1>3
  <2>1. frames[j].start \in Nat /\ EndOf(j) > frames[j].start /\ EndOf(j) \in Nat /\ EndOf(i) \in Nat
    BY <1>1, <1>2, <2>0
  <2>2. EndOf(i) <= frames[j].start
    <3>1. CASE i = 0
      BY <2>1, <3>1 DEF EndOf
    <3>2. CASE i # 0
      <4>1. i \in 1 .. Len(frames)
        BY <1>0, <3>2
      <4> QED
        BY <1>3, <2>0, <4>1 DEF Layout
    <3> QED
      BY <3>1, <3>2
  <2> QED
    BY <2>1, <2>2
<1>4. ASSUME NEW i \in 1 .. Len(frames), NEW j \in 1 .. Len(frames),
             frames[i].start = frames[j].start
      PROVE  i = j
  <2>1. i \in 0 .. Len(frames) /\ j \in 0 .. Len(frames) /\ i \in Int /\ j \in Int
    BY <1>0
  <2>2. ~(i < j)
    <3> SUFFICES ASSUME i < j PROVE FALSE
      OBVIOUS
    <3>1. EndOf(i) <= frames[j].start
      BY <1>3, <2>1
    <3> QED
      BY <1>1, <1>4, <2>1, <3>1
  <2>3. ~(j < i)
    <3> SUFFICES ASSUME j < i PROVE FALSE
      OBVIOUS
    <3>1. EndOf(j) <= frames[i].start
      BY <1>3, <2>1
    <3> QED
      BY <1>1, <1>4, <2>1, <3>1
  <2> QED
    BY <2>1, <2>2, <2>3
<1> QED
  BY <1>0, <1>1, <1>2, <1>3, <1>4 DEF FramesInOrder

\* The router's next frame starts where its stream ends.
LEMMA SendLayout ==
    ASSUME TypeOK, Layout, NEW f \in FrameTypes, RouterSends(f)
    PROVE  /\ Layout'
           /\ Len(frames') = Len(frames) + 1
           /\ \A i \in 1 .. Len(frames) : frames'[i] = frames[i]
           /\ \A i \in 0 .. Len(frames) : EndOf(i)' = EndOf(i)
           /\ frames'[Len(frames) + 1].start = end /\ frames'[Len(frames) + 1].len = f.len
           /\ frames'[Len(frames) + 1].kind = f.kind
           /\ EndOf(Len(frames))' = end + f.len
<1> DEFINE g == [start |-> end, len |-> f.len, kind |-> f.kind]
<1> DEFINE n == Len(frames)
<1>0. FramesInOrder
  BY FrameOrder
<1>1. end \in Nat /\ f.len \in Nat /\ f.len >= HeaderLen /\ f.kind \in FrameKinds
  BY Constants DEF TypeOK
<1>2. g \in Frame /\ g.start = end /\ g.len = f.len /\ g.kind = f.kind
  BY <1>1 DEF Frame
<1>3. frames \in Seq(Frame) /\ frames' = Append(frames, g) /\ n \in Nat /\ ~hungUp /\ ~hungUp'
  BY DEF Layout, RouterSends
<1> HIDE DEF g
<1>4. /\ frames' \in Seq(Frame) /\ Len(frames') = n + 1
      /\ \A i \in 1 .. n : frames'[i] = frames[i]
      /\ frames'[n + 1] = g
  BY <1>2, <1>3
<1>5. \A i \in 0 .. n : EndOf(i)' = EndOf(i)
  BY <1>3, <1>4 DEF EndOf
<1>6. EndOf(Len(frames))' = end + f.len
  <2>1. Len(frames') # 0 /\ frames'[Len(frames')] = g
    BY <1>3, <1>4
  <2> QED
    BY <1>2, <2>1 DEF EndOf
<1>7. end = EndOf(n) /\ end' = end + f.len
  BY <1>3 DEF Layout, RouterSends
<1>8. ASSUME NEW i \in 1 .. Len(frames')
      PROVE  frames'[i].len >= HeaderLen /\ frames'[i].start = EndOf(i - 1)'
  <2>1. CASE i \in 1 .. n
    <3>1. frames[i].len >= HeaderLen /\ frames[i].start = EndOf(i - 1) /\ i - 1 \in 0 .. n
      BY <1>3, <2>1 DEF Layout
    <3> QED
      BY <1>4, <1>5, <2>1, <3>1
  <2>2. CASE i = n + 1
    <3>1. i - 1 = n /\ n \in 0 .. n
      BY <1>3, <2>2
    <3>2. EndOf(i - 1)' = EndOf(n)
      BY <1>5, <3>1
    <3> QED
      BY <1>1, <1>2, <1>4, <1>7, <2>2, <3>2
  <2> QED
    BY <1>3, <1>4, <2>1, <2>2
<1>9. ASSUME NEW i \in 1 .. Len(frames'), NEW j \in 1 .. Len(frames'), i < j
      PROVE  EndOf(i)' <= frames'[j].start
  <2>0. i \in 1 .. n /\ i \in 0 .. n /\ EndOf(i)' = EndOf(i)
    BY <1>3, <1>4, <1>5, <1>9
  <2>1. CASE j \in 1 .. n
    BY <1>4, <1>9, <2>0, <2>1 DEF Layout
  <2>2. CASE j = n + 1
    <3>1. EndOf(i) <= EndOf(n)
      BY <1>0, <1>3, <2>0 DEF FramesInOrder
    <3> QED
      BY <1>2, <1>4, <1>7, <2>0, <2>2, <3>1
  <2> QED
    BY <1>3, <1>4, <2>1, <2>2
<1>10. end' <= EndOf(Len(frames))' /\ end' = EndOf(Len(frames))'
  BY <1>1, <1>4, <1>6, <1>7
<1>11. Layout'
  BY <1>4, <1>8, <1>9, <1>10 DEF Layout
<1> QED
  BY <1>2, <1>4, <1>5, <1>6, <1>11

-----------------------------------------------------------------------------
(* The frame at the head of the buffer *)

\* The header at the start of the buffer is that of the next frame, and so are its length
\* and its message.
LEMMA HeadFrame ==
    ASSUME Layout, Position, NEW n, n = Len(taken) + 1, n \in 1 .. Len(frames), Len(taken) \in Nat
    PROVE  /\ frames[n].start = base /\ FrameAt(base) = {n}
           /\ FrameLen = frames[n].len /\ EndOf(n) = base + FrameLen
           /\ Parse(base, FrameLen) = IF frames[n].kind = "rejected" THEN 0 ELSE n
<1>0. FramesInOrder
  BY FrameOrder
<1>1. frames[n].start = base
  <2>1. n - 1 = Len(taken)
    OBVIOUS
  <2> QED
    BY <2>1 DEF Layout, Position
<1>2. FrameAt(base) = {n}
  BY <1>0, <1>1 DEF FrameAt, FramesInOrder
<1>3. FrameLen = frames[n].len
  <2>1. (CHOOSE i \in {n} : TRUE) = n
    OBVIOUS
  <2> QED
    BY <1>2, <2>1 DEF FrameLen
<1>4. EndOf(n) = base + FrameLen
  BY <1>0, <1>1, <1>3 DEF FramesInOrder
<1>5. Parse(base, FrameLen) = IF frames[n].kind = "rejected" THEN 0 ELSE n
  <2> DEFINE ok == {i \in 1 .. Len(frames) : /\ frames[i].start = base /\ frames[i].len = FrameLen
                                             /\ frames[i].kind # "rejected"}
  <2>1. ok \subseteq FrameAt(base)
    BY DEF FrameAt
  <2>2. n \in ok <=> frames[n].kind # "rejected"
    BY <1>1, <1>3
  <2>3. CASE frames[n].kind = "rejected"
    <3>1. ok = {}
      BY <1>2, <2>1, <2>2, <2>3
    <3> QED
      BY <2>3, <3>1 DEF Parse
  <2>4. CASE frames[n].kind # "rejected"
    <3>1. ok = {n}
      BY <1>2, <2>1, <2>2, <2>4
    <3>2. (CHOOSE i \in {n} : TRUE) = n
      OBVIOUS
    <3> QED
      BY <2>4, <3>1, <3>2 DEF Parse
  <2> QED
    BY <2>3, <2>4
<1> QED
  BY <1>1, <1>2, <1>3, <1>4, <1>5

\* A buffer that holds a header and as many bytes as it states holds the next frame.
LEMMA CompleteFrame ==
    ASSUME TypeOK, Layout, Position, Complete
    PROVE  /\ Len(taken) \in Nat /\ Len(taken) + 1 \in 1 .. Len(frames)
           /\ base + FrameLen <= got /\ FrameLen \in Nat
<1>0. FramesInOrder
  BY FrameOrder
<1>1. Len(taken) \in Nat /\ Len(taken) <= Len(frames) /\ Len(frames) \in Nat
  BY <1>0 DEF TypeOK, Position, SlicesAreFrames, FramesInOrder
<1>2. got \in Nat /\ base \in Nat /\ got <= end /\ end \in Nat
  BY DEF TypeOK
<1>3. EndOf(Len(frames)) \in Nat /\ end <= EndOf(Len(frames)) /\ base = EndOf(Len(taken))
  BY <1>0, <1>1 DEF FramesInOrder, Layout, Position
<1>4. got > base
  BY <1>2, Constants DEF Complete
<1>5. Len(taken) # Len(frames)
  BY <1>2, <1>3, <1>4
<1>6. Len(taken) + 1 \in 1 .. Len(frames)
  BY <1>1, <1>5
<1>7. FrameLen \in Nat
  BY <1>0, <1>1, <1>6, HeadFrame DEF FramesInOrder
<1> QED
  BY <1>1, <1>2, <1>6, <1>7 DEF Complete

\* Otherwise no frame that is not taken has arrived.
LEMMA IncompleteFrame ==
    ASSUME TypeOK, Layout, Position, ~Complete, NEW i \in 1 .. Len(frames), EndOf(i) <= got
    PROVE  i <= Len(taken)
<1>0. FramesInOrder
  BY FrameOrder
<1>1. Len(taken) \in Nat /\ Len(taken) <= Len(frames) /\ Len(frames) \in Nat
  BY <1>0 DEF TypeOK, Position, SlicesAreFrames, FramesInOrder
<1> SUFFICES ASSUME i > Len(taken) PROVE FALSE
  BY <1>1
<1> DEFINE n == Len(taken) + 1
<1>2. n \in 1 .. Len(frames)
  BY <1>1
<1>3. /\ FrameLen = frames[n].len /\ EndOf(n) = base + FrameLen
  BY <1>1, <1>2, HeadFrame
<1>4. FrameLen \in Nat /\ FrameLen >= HeaderLen /\ EndOf(n) \in Nat
  BY <1>0, <1>1, <1>2, <1>3 DEF FramesInOrder, Layout
<1>5. got \in Nat /\ base \in Nat
  BY DEF TypeOK
<1>6. EndOf(n) > got
  BY <1>3, <1>4, <1>5, Constants DEF Complete
<1>7. EndOf(n) <= EndOf(i)
  <2>1. CASE n = i
    BY <1>4, <2>1
  <2>2. CASE n # i
    <3>1. n < i /\ n \in 0 .. Len(frames) /\ i \in 0 .. Len(frames)
      BY <1>1, <2>2
    <3>2. EndOf(n) < EndOf(i) /\ EndOf(i) \in Nat
      BY <1>0, <3>1 DEF FramesInOrder
    <3> QED
      BY <1>4, <3>2
  <2> QED
    BY <2>1, <2>2
<1>8. EndOf(i) \in Nat
  BY <1>0, <1>1 DEF FramesInOrder
<1> QED
  BY <1>4, <1>5, <1>6, <1>7, <1>8

-----------------------------------------------------------------------------
(* Types *)

StreamTypes ==
    /\ hungUp \in BOOLEAN
    /\ \A i \in 1 .. Len(frames) : [len |-> frames[i].len, kind |-> frames[i].kind] \in FrameTypes
    /\ end \in Nat /\ got \in 0 .. end /\ base \in 0 .. got

TaskTypes ==
    /\ pc \in {"read", "forward", "drain", "send", "eof", "closed"}
    /\ cur \in 0 .. Len(frames) /\ (cur # 0 <=> pc = "send")
    /\ taken \in Seq(Nat \X Nat)
    /\ shed \subseteq 1 .. Len(frames)

ChannelTypes ==
    /\ chan \in Seq(0 .. Len(frames)) /\ Len(chan) <= ChanCap
    /\ processed \in Seq(0 .. Len(frames))

RelayTypes ==
    /\ proxy \in BOOLEAN /\ upstream \in BOOLEAN /\ stalled \in BOOLEAN
    /\ unwritten \in 0 .. got /\ relayed \in 0 .. got /\ torn \in BOOLEAN

\* The type invariant is that of the stream, the task, the channel, the relay and the
\* governor.
LEMMA TypeParts ==
    TypeOK <=> StreamTypes /\ TaskTypes /\ ChannelTypes /\ RelayTypes /\ GovernorTypeOK
BY DEF TypeOK, StreamTypes, TaskTypes, ChannelTypes, RelayTypes

\* Steps of the upstream and of the write to it
UpstreamStep == UpstreamStalls \/ ForwardFails \/ \E b \in unwritten + 1 .. got : Forward(b)

\* The write to the upstream touches nothing but the relay.
LEMMA UpstreamSteps ==
    ASSUME UpstreamStep
    PROVE  /\ UNCHANGED <<proxy, frames, end, hungUp, got, base, cur, taken, shed, chan, processed>>
           /\ UNCHANGED governor /\ UNCHANGED wire
           /\ pc' = pc \/ (pc = "forward" /\ pc' \in {"forward", "drain"})
BY DEF UpstreamStep, UpstreamStalls, ForwardFails, Forward, wire, task

\* Steps keep the types of the stream and of the buffer.
LEMMA StreamStep ==
    ASSUME TypeOK, Layout, Position, [Next]_vars
    PROVE  StreamTypes'
<1>0. StreamTypes
  BY TypeParts
<1>1. ASSUME NEW f \in FrameTypes, RouterSends(f) PROVE StreamTypes'
  <2>1. /\ Len(frames') = Len(frames) + 1 /\ Len(frames) \in Nat
        /\ \A i \in 1 .. Len(frames) : frames'[i] = frames[i]
        /\ frames'[Len(frames) + 1].len = f.len /\ frames'[Len(frames) + 1].kind = f.kind
    BY <1>1, SendLayout, FrameOrder DEF FramesInOrder
  <2>2. f = [len |-> f.len, kind |-> f.kind]
    BY DEF FrameTypes
  <2>3. \A i \in 1 .. Len(frames') : [len |-> frames'[i].len, kind |-> frames'[i].kind] \in FrameTypes
    BY <1>0, <2>1, <2>2 DEF StreamTypes
  <2>4. end' = end + f.len /\ f.len \in Nat /\ UNCHANGED <<hungUp, got, base>>
    BY <1>1, Constants DEF RouterSends, task
  <2>5. end' \in Nat /\ got' \in 0 .. end' /\ base' \in 0 .. got'
    BY <1>0, <2>4 DEF StreamTypes
  <2> QED
    BY <1>0, <2>3, <2>4, <2>5 DEF StreamTypes
<1>2. CASE HangUp
  <2>1. end' \in got .. end /\ UNCHANGED <<frames, got, base>> /\ hungUp' = TRUE
    BY <1>2 DEF HangUp, task
  <2>2. end' \in Nat /\ got' \in 0 .. end' /\ base' \in 0 .. got'
    BY <1>0, <2>1 DEF StreamTypes
  <2> QED
    BY <1>0, <2>1, <2>2 DEF StreamTypes
<1>3. ASSUME NEW n \in 1 .. end - got, Read(n) PROVE StreamTypes'
  <2>1. got' = got + n /\ got + n <= end /\ UNCHANGED <<frames, end, hungUp, base>>
    BY <1>3 DEF Read, wire
  <2>2. end' \in Nat /\ got' \in 0 .. end' /\ base' \in 0 .. got'
    BY <1>0, <2>1 DEF StreamTypes
  <2> QED
    BY <1>0, <2>1, <2>2 DEF StreamTypes
<1>4. CASE TakeFrame
  <2>1. base' = base + FrameLen /\ UNCHANGED <<frames, end, hungUp, got>> /\ Complete
    BY <1>4 DEF TakeFrame, wire
  <2>2. base + FrameLen <= got /\ FrameLen \in Nat
    BY <2>1, CompleteFrame
  <2>3. base' \in 0 .. got'
    BY <1>0, <2>1, <2>2 DEF StreamTypes
  <2> QED
    BY <1>0, <2>1, <2>3 DEF StreamTypes
<1>5. CASE DrainDone \/ Eof \/ SendMessage \/ Terminate \/ Pump \/ WriteLoop \/ RateLoop \/ UNCHANGED vars
  <2>1. UNCHANGED <<frames, end, hungUp, got, base>>
    BY <1>5 DEF DrainDone, Eof, SendMessage, Terminate, Pump, WriteLoop, RateLoop, vars, wire, task
  <2> QED
    BY <1>0, <2>1 DEF StreamTypes
<1>6. CASE UpstreamStep
  BY <1>0, <1>6, UpstreamSteps DEF StreamTypes
<1> QED
  BY <1>1, <1>2, <1>3, <1>4, <1>5, <1>6 DEF Next, TaskStep, UpstreamStep

\* Steps keep the types of the read loop.
LEMMA TaskTypeStep ==
    ASSUME TypeOK, Layout, Position, [Next]_vars
    PROVE  TaskTypes'
<1>0. TaskTypes /\ Len(frames) \in Nat
  BY TypeParts, FrameOrder DEF FramesInOrder
<1>1. ASSUME NEW f \in FrameTypes, RouterSends(f) PROVE TaskTypes'
  <2>1. Len(frames') = Len(frames) + 1 /\ UNCHANGED <<pc, cur, taken, shed>>
    BY <1>1, SendLayout DEF RouterSends, task
  <2>2. cur' \in 0 .. Len(frames') /\ shed' \subseteq 1 .. Len(frames')
    BY <1>0, <2>1 DEF TaskTypes
  <2> QED
    BY <1>0, <2>1, <2>2 DEF TaskTypes
<1>2. ASSUME NEW n \in 1 .. end - got, Read(n) PROVE TaskTypes'
  BY <1>0, <1>2 DEF Read, wire, TaskTypes
<1>3. CASE DrainDone
  BY <1>0, <1>3 DEF DrainDone, wire, TaskTypes
<1>4. CASE TakeFrame
  <2> DEFINE n == Len(taken) + 1
  <2>1. n \in 1 .. Len(frames) /\ Len(taken) \in Nat /\ FrameLen \in Nat
    BY <1>4, CompleteFrame DEF TakeFrame
  <2>2. Parse(base, FrameLen) \in {0, n}
    BY <2>1, HeadFrame
  <2>3. taken' \in Seq(Nat \X Nat)
    BY <1>0, <1>4, <2>1 DEF TakeFrame, TaskTypes, TypeOK
  <2>4. frames' = frames /\ pc = "drain"
    BY <1>4 DEF TakeFrame, wire
  <2>5. CASE cur' = n /\ pc' = "send" /\ shed' = shed
    BY <1>0, <2>1, <2>3, <2>4, <2>5 DEF TaskTypes
  <2>6. CASE cur' = cur /\ pc' = pc /\ shed' \in {shed, shed \cup {n}}
    BY <1>0, <2>1, <2>3, <2>4, <2>6 DEF TaskTypes
  <2>7. \/ cur' = n /\ pc' = "send" /\ shed' = shed
        \/ cur' = cur /\ pc' = pc /\ shed' \in {shed, shed \cup {n}}
    BY <1>4, <2>2 DEF TakeFrame
  <2> QED
    BY <2>5, <2>6, <2>7
<1>5. CASE Eof
  BY <1>0, <1>5 DEF Eof, wire, TaskTypes
<1>6. CASE SendMessage
  BY <1>0, <1>6 DEF SendMessage, wire, TaskTypes
<1>7. CASE Terminate
  BY <1>0, <1>7 DEF Terminate, wire, TaskTypes
<1>8. CASE HangUp \/ Pump \/ WriteLoop \/ RateLoop \/ UNCHANGED vars
  <2>1. UNCHANGED <<frames, pc, cur, taken, shed>>
    BY <1>8 DEF HangUp, Pump, WriteLoop, RateLoop, vars, wire, task
  <2> QED
    BY <1>0, <2>1 DEF TaskTypes
<1>9. CASE UpstreamStep
  BY <1>0, <1>9, UpstreamSteps DEF TaskTypes
<1> QED
  BY <1>1, <1>2, <1>3, <1>4, <1>5, <1>6, <1>7, <1>8, <1>9 DEF Next, TaskStep, UpstreamStep

\* Steps keep the types and the capacity of the message channel.
LEMMA ChannelStep ==
    ASSUME TypeOK, Layout, [Next]_vars
    PROVE  ChannelTypes'
<1>0. ChannelTypes /\ Len(frames) \in Nat /\ cur \in 0 .. Len(frames)
  BY TypeParts, FrameOrder DEF FramesInOrder, TaskTypes
<1>1. ASSUME NEW f \in FrameTypes, RouterSends(f) PROVE ChannelTypes'
  <2>1. Len(frames') = Len(frames) + 1 /\ UNCHANGED <<chan, processed>>
    BY <1>1, SendLayout DEF RouterSends
  <2>2. 0 .. Len(frames) \subseteq 0 .. Len(frames')
    BY <1>0, <2>1
  <2>3. chan' \in Seq(0 .. Len(frames')) /\ processed' \in Seq(0 .. Len(frames'))
    BY <1>0, <2>1, <2>2, SeqMonotonic DEF ChannelTypes
  <2> QED
    BY <1>0, <2>1, <2>3 DEF ChannelTypes
<1>2. ASSUME NEW m \in 0 .. Len(frames), Len(chan) < ChanCap, chan' = Append(chan, m),
             processed' = processed, frames' = frames
      PROVE  ChannelTypes'
  <2>1. Len(chan') = Len(chan) + 1 /\ chan' \in Seq(0 .. Len(frames)) /\ Len(chan) \in Nat
    BY <1>0, <1>2 DEF ChannelTypes
  <2> QED
    BY <1>0, <1>2, <2>1, Constants DEF ChannelTypes
<1>3. CASE SendMessage
  BY <1>0, <1>2, <1>3 DEF SendMessage, wire
<1>4. CASE Terminate
  <2>1. 0 \in 0 .. Len(frames)
    BY <1>0
  <2> QED
    BY <1>2, <1>4, <2>1 DEF Terminate, wire
<1>5. CASE Pump
  <2>1. /\ Head(chan) \in 0 .. Len(frames) /\ Tail(chan) \in Seq(0 .. Len(frames))
        /\ Len(Tail(chan)) = Len(chan) - 1 /\ Len(chan) \in Nat
    BY <1>0, <1>5 DEF Pump, ChannelTypes
  <2>2. Append(processed, Head(chan)) \in Seq(0 .. Len(frames))
    BY <1>0, <2>1 DEF ChannelTypes
  <2>3. Len(chan') <= ChanCap
    BY <1>0, <1>5, <2>1, Constants DEF ChannelTypes, Pump
  <2> QED
    BY <1>5, <2>1, <2>2, <2>3 DEF Pump, wire, ChannelTypes
<1>6. ASSUME UNCHANGED <<frames, chan, processed>> PROVE ChannelTypes'
  BY <1>0, <1>6 DEF ChannelTypes
<1>7. CASE \/ HangUp \/ (\E n \in 1 .. end - got : Read(n)) \/ DrainDone \/ TakeFrame \/ Eof
           \/ WriteLoop \/ RateLoop \/ UNCHANGED vars
  BY <1>6, <1>7 DEF HangUp, Read, DrainDone, TakeFrame, Eof, WriteLoop, RateLoop, vars, wire
<1>8. CASE UpstreamStep
  BY <1>6, <1>8, UpstreamSteps
<1> QED
  BY <1>1, <1>3, <1>4, <1>5, <1>7, <1>8 DEF Next, TaskStep, UpstreamStep

\* A write goes on where the last one ended, and the bytes before it were written.
Writing == UpstreamGetsPrefix /\ (pc = "forward" => upstream /\ unwritten = relayed)

\* The upstream gets every chunk once and in order until its connection fails.
LEMMA RelayStep ==
    ASSUME TypeOK, Writing, [Next]_vars
    PROVE  RelayTypes' /\ Writing'
<1>0. RelayTypes /\ got \in Nat /\ relayed \in Nat /\ unwritten \in Nat
  BY TypeParts DEF RelayTypes, TypeOK
<1>1. ASSUME NEW n \in 1 .. end - got, Read(n) PROVE RelayTypes' /\ Writing'
  <2>0. n \in Nat /\ got' = got + n /\ UNCHANGED <<proxy, upstream, stalled, relayed, torn>>
    BY <1>1 DEF Read, TypeOK
  <2>1. pc = "read" /\ \/ upstream /\ pc' = "forward" /\ unwritten' = got
                       \/ ~upstream /\ pc' = "drain" /\ unwritten' = unwritten
    BY <1>1 DEF Read, NewBytes
  <2>2. unwritten' \in 0 .. got' /\ relayed' \in 0 .. got'
    BY <1>0, <2>0, <2>1 DEF RelayTypes
  <2>3. RelayTypes'
    BY <1>0, <2>0, <2>2 DEF RelayTypes
  <2>4. Writing'
    BY <2>0, <2>1 DEF Writing, UpstreamGetsPrefix
  <2> QED
    BY <2>3, <2>4
<1>2. ASSUME NEW b \in unwritten + 1 .. got, Forward(b) PROVE RelayTypes' /\ Writing'
  <2>0. pc = "forward" /\ upstream /\ unwritten = relayed /\ ~torn
    BY <1>2 DEF Forward, Writing, UpstreamGetsPrefix
  <2>1. /\ relayed' = b /\ unwritten' = b /\ UNCHANGED <<proxy, upstream, stalled, got>>
        /\ pc' = IF b = got THEN "drain" ELSE "forward"
    BY <1>2 DEF Forward
  <2>2. torn' = FALSE
    BY <1>2, <2>0 DEF Forward
  <2>3. b \in 0 .. got
    BY <1>0
  <2>4. RelayTypes'
    BY <1>0, <2>1, <2>2, <2>3 DEF RelayTypes
  <2>5. Writing'
    BY <2>0, <2>1, <2>2 DEF Writing, UpstreamGetsPrefix
  <2> QED
    BY <2>4, <2>5
<1>3. CASE ForwardFails
  BY <1>0, <1>3 DEF ForwardFails, RelayTypes, Writing, UpstreamGetsPrefix
<1>4. CASE Eof
  BY <1>0, <1>4 DEF Eof, RelayTypes, Writing, UpstreamGetsPrefix
<1>5. CASE UpstreamStalls
  BY <1>0, <1>5 DEF UpstreamStalls, task, RelayTypes, Writing, UpstreamGetsPrefix
<1>6. ASSUME UNCHANGED <<proxy, got, upstream, stalled, unwritten, relayed, torn>>,
             pc' = pc \/ (pc # "forward" /\ pc' # "forward")
      PROVE  RelayTypes' /\ Writing'
  BY <1>0, <1>6 DEF RelayTypes, Writing, UpstreamGetsPrefix
<1>7. ASSUME \/ \E f \in FrameTypes : RouterSends(f)
             \/ HangUp \/ DrainDone \/ TakeFrame \/ SendMessage \/ Terminate
             \/ Pump \/ WriteLoop \/ RateLoop \/ UNCHANGED vars
      PROVE  /\ UNCHANGED <<proxy, got, upstream, stalled, unwritten, relayed, torn>>
             /\ pc' = pc \/ (pc # "forward" /\ pc' # "forward")
  BY <1>7 DEF RouterSends, HangUp, DrainDone, TakeFrame, SendMessage, Terminate, Pump, WriteLoop,
       RateLoop, vars, task, relay
<1> QED
  BY <1>1, <1>2, <1>3, <1>4, <1>5, <1>6, <1>7 DEF Next, TaskStep

\* The governor keeps its types.
LEMMA GovernorStep ==
    ASSUME TypeOK, [Next]_vars
    PROVE  GovernorTypeOK'
<1>0. GovernorTypeOK
  BY TypeParts
<1>1. CASE Pump
  BY <1>0, <1>1 DEF Pump, RecordEvent, write, GovernorTypeOK
<1>2. CASE WriteLoop
  <2>1. UNCHANGED <<counted, last, shedding>>
    BY <1>2 DEF WriteLoop, WriteTick, rate
  <2>2. overHalf' \in 0 .. Sustain
    BY <1>0, <1>2, GovernorAssumption DEF WriteLoop, WriteTick, GovernorTypeOK
  <2>3. writeFlag' \in BOOLEAN
    BY <1>0, <1>2 DEF WriteLoop, WriteTick, GovernorTypeOK
  <2> QED
    BY <1>0, <2>1, <2>2, <2>3 DEF GovernorTypeOK
<1>3. CASE RateLoop
  <2>1. UNCHANGED <<counted, overHalf, writeFlag>> /\ last' = counted
    BY <1>3 DEF RateLoop, RateTick, write
  <2>2. shedding' \in BOOLEAN
    BY <1>3 DEF RateLoop, RateTick
  <2>3. last' \in 0 .. counted'
    BY <1>0, <2>1 DEF GovernorTypeOK
  <2> QED
    BY <1>0, <2>1, <2>2, <2>3 DEF GovernorTypeOK
<1>4. ASSUME UNCHANGED governor PROVE GovernorTypeOK'
  BY <1>0, <1>4 DEF governor, rate, write, GovernorTypeOK
<1>5. ASSUME \/ \E f \in FrameTypes : RouterSends(f)
             \/ HangUp \/ TaskStep \/ UpstreamStep \/ SendMessage \/ Terminate \/ UNCHANGED vars
      PROVE  UNCHANGED governor
  BY <1>5, UpstreamSteps DEF RouterSends, HangUp, TaskStep, Read, Forward, DrainDone, TakeFrame, Eof,
       SendMessage, Terminate, vars
<1> QED
  BY <1>1, <1>2, <1>3, <1>4, <1>5 DEF Next, UpstreamStep

-----------------------------------------------------------------------------
(* The slices are the frames *)

\* The router appends frames; a hang-up loses bytes at the end only.
LEMMA LayoutStep ==
    ASSUME TypeOK, Layout, [Next]_vars
    PROVE  Layout'
<1>1. ASSUME NEW f \in FrameTypes, RouterSends(f) PROVE Layout'
  BY <1>1, SendLayout
<1>2. CASE HangUp
  <2>1. frames' = frames /\ hungUp' = TRUE /\ end' \in got .. end
    BY <1>2 DEF HangUp
  <2>2. EndOf(Len(frames)) \in Nat /\ end \in Nat /\ got \in Nat
    BY FrameOrder DEF FramesInOrder, TypeOK
  <2>3. end' <= EndOf(Len(frames))
    BY <2>1, <2>2 DEF Layout
  <2> QED
    BY <2>1, <2>3 DEF Layout, EndOf
<1>3. ASSUME UNCHANGED wire PROVE Layout'
  BY <1>3 DEF wire, Layout, EndOf
<1>4. ASSUME \/ TaskStep \/ UpstreamStep \/ SendMessage \/ Terminate
             \/ Pump \/ WriteLoop \/ RateLoop \/ UNCHANGED vars
      PROVE  UNCHANGED wire
  BY <1>4, UpstreamSteps DEF TaskStep, Read, Forward, DrainDone, TakeFrame, Eof, SendMessage, Terminate,
       Pump, WriteLoop, RateLoop, vars
<1> QED
  BY <1>1, <1>2, <1>3, <1>4 DEF Next, UpstreamStep

\* What stays true of the frames taken so far when the frames stay or get one more
LEMMA PositionStep ==
    ASSUME TypeOK, Layout, Position, [Next]_vars
    PROVE  Position'
<1>0. /\ FramesInOrder /\ Len(taken) \in Nat /\ Len(taken) <= Len(frames) /\ Len(frames) \in Nat
      /\ \A i \in 1 .. Len(taken) : taken[i] = <<frames[i].start, frames[i].len>>
      /\ base = EndOf(Len(taken)) /\ taken \in Seq(Nat \X Nat)
      /\ end \in Nat /\ got \in Nat /\ got <= end
  <2>1. FramesInOrder /\ Len(frames) \in Nat
    BY FrameOrder DEF FramesInOrder
  <2>2. taken \in Seq(Nat \X Nat) /\ end \in Nat /\ got \in Nat /\ got <= end
    BY DEF TypeOK
  <2>3. Len(taken) \in Nat
    BY <2>2
  <2> QED
    BY <2>1, <2>2, <2>3 DEF Position, SlicesAreFrames
<1>1. ASSUME NEW f \in FrameTypes, RouterSends(f) PROVE Position'
  <2>1. /\ Len(frames') = Len(frames) + 1
        /\ \A i \in 1 .. Len(frames) : frames'[i] = frames[i]
        /\ \A i \in 0 .. Len(frames) : EndOf(i)' = EndOf(i)
        /\ frames'[Len(frames) + 1].start = end /\ frames'[Len(frames) + 1].len = f.len
    BY <1>1, SendLayout
  <2>2. UNCHANGED <<taken, base, got, pc>>
    BY <1>1 DEF RouterSends, task
  <2>3. Len(taken') <= Len(frames') /\ Len(taken) \in 0 .. Len(frames)
    BY <1>0, <2>1, <2>2
  <2>4. \A i \in 1 .. Len(taken') : taken'[i] = <<frames'[i].start, frames'[i].len>>
    <3> TAKE i \in 1 .. Len(taken')
    <3>1. i \in 1 .. Len(taken) /\ i \in 1 .. Len(frames)
      BY <1>0, <2>2
    <3> QED
      BY <1>0, <2>1, <2>2, <3>1
  <2>5. ASSUME pc \in {"read", "eof", "closed"}, NEW i \in 1 .. Len(frames'),
               frames'[i].start + frames'[i].len <= got
        PROVE  i <= Len(taken)
    <3>1. CASE i \in 1 .. Len(frames)
      BY <2>1, <2>5, <3>1 DEF Position, SlicesAreFrames
    <3>2. CASE i = Len(frames) + 1
      <4>1. f.len \in Nat /\ f.len >= 1
        BY Constants
      <4>2. end + f.len <= got
        BY <2>1, <2>5, <3>2
      <4> QED
        BY <1>0, <4>1, <4>2
    <3> QED
      BY <1>0, <2>1, <3>1, <3>2
  <2>6. EndOf(Len(taken))' = EndOf(Len(taken))
    BY <2>1, <2>2, <2>3 DEF EndOf
  <2> QED
    BY <1>0, <2>2, <2>3, <2>4, <2>5, <2>6 DEF Position, SlicesAreFrames
<1>2. ASSUME UNCHANGED <<frames, taken, base>>,
             \/ pc' \in {"forward", "drain", "send"}
             \/ pc \in {"read", "eof", "closed"} /\ got' = got
             \/ pc' = pc /\ got' = got
             \/ ~Complete /\ got' = got
      PROVE  Position'
  <2>1. EndOf(Len(taken))' = EndOf(Len(taken))
    BY <1>2 DEF EndOf
  <2>2. ASSUME pc' \in {"read", "eof", "closed"}, NEW i \in 1 .. Len(frames),
               frames[i].start + frames[i].len <= got'
        PROVE  i <= Len(taken)
    <3>1. CASE pc \in {"read", "eof", "closed"} /\ got' = got
      BY <2>2, <3>1 DEF Position, SlicesAreFrames
    <3>2. CASE ~Complete /\ got' = got
      <4>1. EndOf(i) <= got
        BY <1>0, <2>2, <3>2 DEF FramesInOrder
      <4> QED
        BY <3>2, <4>1, IncompleteFrame
    <3> QED
      BY <1>2, <2>2, <3>1, <3>2
  <2> QED
    BY <1>0, <1>2, <2>1, <2>2 DEF Position, SlicesAreFrames
<1>3. CASE TakeFrame
  <2> DEFINE n == Len(taken) + 1
  <2>1. Complete /\ taken' = Append(taken, <<base, FrameLen>>) /\ base' = base + FrameLen /\ frames' = frames
    BY <1>3 DEF TakeFrame, wire
  <2>2. n \in 1 .. Len(frames) /\ FrameLen \in Nat
    BY <2>1, CompleteFrame
  <2>3. frames[n].start = base /\ FrameLen = frames[n].len /\ EndOf(n) = base + FrameLen
    BY <1>0, <2>2, HeadFrame
  <2>4. <<base, FrameLen>> \in Nat \X Nat
    BY <2>2 DEF TypeOK
  <2>5. /\ Len(taken') = n /\ taken'[n] = <<base, FrameLen>>
        /\ \A i \in 1 .. Len(taken) : taken'[i] = taken[i]
    BY <1>0, <2>1, <2>4, AppendProperties
  <2>6. \A i \in 1 .. Len(taken') : taken'[i] = <<frames[i].start, frames[i].len>>
    BY <1>0, <2>3, <2>5
  <2>7. EndOf(Len(taken))' = EndOf(n)
    BY <2>1, <2>5 DEF EndOf
  <2>8. pc' \in {"drain", "send"}
    <3>1. pc = "drain" /\ (pc' = "send" \/ pc' = pc)
      BY <1>3 DEF TakeFrame
    <3> QED
      BY <3>1
  <2>9. Len(taken') <= Len(frames')
    BY <1>0, <2>1, <2>2, <2>5
  <2> QED
    BY <2>1, <2>3, <2>6, <2>7, <2>8, <2>9 DEF Position, SlicesAreFrames
<1>4. ASSUME NEW n \in 1 .. end - got, Read(n) PROVE Position'
  BY <1>2, <1>4 DEF Read, wire
<1>5. CASE DrainDone
  BY <1>2, <1>5 DEF DrainDone, wire
<1>6. CASE Eof
  BY <1>2, <1>6 DEF Eof, wire
<1>7. CASE SendMessage
  BY <1>2, <1>7 DEF SendMessage, wire
<1>8. CASE Terminate
  BY <1>2, <1>8 DEF Terminate, wire
<1>9. CASE HangUp \/ Pump \/ WriteLoop \/ RateLoop \/ UNCHANGED vars
  <2>1. UNCHANGED <<frames, taken, base, pc, got>>
    BY <1>9 DEF HangUp, Pump, WriteLoop, RateLoop, vars, wire, task
  <2> QED
    BY <1>2, <2>1
<1>10. CASE UpstreamStep
  BY <1>2, <1>10, UpstreamSteps
<1> QED
  BY <1>1, <1>3, <1>4, <1>5, <1>6, <1>7, <1>8, <1>9, <1>10 DEF Next, TaskStep, UpstreamStep

-----------------------------------------------------------------------------
(* The messages *)

\* The messages on their way form a sequence of frame numbers.
LEMMA InFlightType ==
    ASSUME TypeOK, Layout
    PROVE  InFlight \in Seq(0 .. Len(frames))
<1>1. processed \o chan \in Seq(0 .. Len(frames))
  BY ConcatProperties DEF TypeOK
<1>2. (IF cur = 0 THEN << >> ELSE <<cur>>) \in Seq(0 .. Len(frames))
  <2>1. ASSUME NEW S, NEW c \in S PROVE << >> \in Seq(S) /\ <<c>> \in Seq(S)
    OBVIOUS
  <2>2. cur \in 0 .. Len(frames)
    BY DEF TypeOK
  <2>3. << >> \in Seq(0 .. Len(frames)) /\ <<cur>> \in Seq(0 .. Len(frames))
    BY <2>1, <2>2
  <2> QED
    BY <2>3
<1> QED
  BY <1>1, <1>2, ConcatProperties DEF InFlight

\* Moving a message along leaves the sequence alone, entering one appends it.
LEMMA MessagesMove ==
    ASSUME TypeOK, Layout
    PROVE  /\ SendMessage => InFlight' = InFlight
           /\ Pump => InFlight' = InFlight
           /\ Terminate => InFlight' = Append(InFlight, 0)
           /\ \A n \in 1 .. Len(frames) :
                 (UNCHANGED <<chan, processed>> /\ cur = 0 /\ cur' = n) => InFlight' = Append(InFlight, n)
<1> DEFINE S == 0 .. Len(frames)
<1>0. /\ chan \in Seq(S) /\ processed \in Seq(S) /\ cur \in S /\ processed \o chan \in Seq(S)
      /\ 0 \in S /\ Len(frames) \in Nat
  BY FrameOrder, ConcatProperties DEF TypeOK, FramesInOrder
<1> HIDE DEF S
<1>1. ASSUME SendMessage PROVE InFlight' = InFlight
  <2>1. cur # 0 /\ cur' = 0 /\ chan' = Append(chan, cur) /\ processed' = processed
    BY <1>1 DEF SendMessage, TypeOK
  <2>2. chan' = chan \o <<cur>> /\ <<cur>> \in Seq(S) /\ chan' \in Seq(S)
    BY <1>0, <2>1, AppendIsConcat, AppendProperties
  <2>3. InFlight' = (processed \o chan') \o << >>
    BY <2>1 DEF InFlight
  <2>4. processed \o chan' \in Seq(S)
    BY <1>0, <2>2, ConcatProperties
  <2>5. InFlight' = processed \o chan'
    BY <2>3, <2>4, ConcatEmptySeq
  <2>6. (processed \o chan) \o <<cur>> = processed \o (chan \o <<cur>>)
    BY <1>0, <2>2, ConcatAssociative
  <2> QED
    BY <2>1, <2>2, <2>5, <2>6 DEF InFlight
<1>2. ASSUME Pump PROVE InFlight' = InFlight
  <2>1. /\ chan # << >> /\ processed' = Append(processed, Head(chan)) /\ chan' = Tail(chan)
        /\ cur' = cur
    BY <1>2 DEF Pump, task
  <2>2. Head(chan) \in S /\ Tail(chan) \in Seq(S) /\ <<Head(chan)>> \in Seq(S)
    BY <1>0, <2>1, HeadTailProperties
  <2>3. processed' = processed \o <<Head(chan)>>
    BY <1>0, <2>1, <2>2, AppendIsConcat
  <2>4. chan = <<Head(chan)>> \o Tail(chan)
    BY <1>0, <2>1, <2>2
  <2>5. (processed \o <<Head(chan)>>) \o Tail(chan) = processed \o (<<Head(chan)>> \o Tail(chan))
    BY <1>0, <2>2, ConcatAssociative
  <2>6. processed' \o chan' = processed \o chan
    BY <2>1, <2>3, <2>4, <2>5
  <2> QED
    BY <2>1, <2>6 DEF InFlight
<1>3. ASSUME Terminate PROVE InFlight' = Append(InFlight, 0)
  <2>1. cur = 0 /\ cur' = 0 /\ chan' = Append(chan, 0) /\ processed' = processed
    BY <1>3 DEF Terminate, TypeOK
  <2>2. chan' = chan \o <<0>> /\ <<0>> \in Seq(S) /\ chan' \in Seq(S)
    BY <1>0, <2>1, AppendIsConcat, AppendProperties
  <2>3. InFlight' = processed \o chan' /\ InFlight = processed \o chan
    <3>1. processed \o chan' \in Seq(S)
      BY <1>0, <2>2, ConcatProperties
    <3>2. InFlight' = (processed \o chan') \o << >> /\ InFlight = (processed \o chan) \o << >>
      BY <2>1 DEF InFlight
    <3> QED
      BY <1>0, <3>1, <3>2, ConcatEmptySeq
  <2>4. (processed \o chan) \o <<0>> = processed \o (chan \o <<0>>)
    BY <1>0, <2>2, ConcatAssociative
  <2>5. Append(processed \o chan, 0) = (processed \o chan) \o <<0>>
    BY <1>0, AppendIsConcat
  <2> QED
    BY <2>2, <2>3, <2>4, <2>5
<1>4. ASSUME NEW n \in 1 .. Len(frames), UNCHANGED <<chan, processed>>, cur = 0, cur' = n
      PROVE  InFlight' = Append(InFlight, n)
  <2>1. n \in S /\ n # 0
    BY <1>0 DEF S
  <2>2. InFlight' = (processed \o chan) \o <<n>> /\ InFlight = (processed \o chan) \o << >>
    BY <1>4, <2>1 DEF InFlight
  <2> QED
    BY <1>0, <2>1, <2>2, ConcatEmptySeq, AppendIsConcat
<1> QED
  BY <1>1, <1>2, <1>3, <1>4

\* Nothing enters the sequence and no frame is taken.
LEMMA MessagesStay ==
    ASSUME Messages, Position, UNCHANGED <<taken, shed>>, InFlight' = InFlight,
           pc = "closed" => pc' = "closed",
           \A i \in 1 .. Len(taken) : frames'[i] = frames[i]
    PROVE  Messages'
BY DEF Messages, OnlyStatsAreShed

\* A frame taken out is a message, is shed as statistics, or is rejected.
LEMMA TakeFrameMessages ==
    ASSUME TypeOK, Layout, Position, Messages, TakeFrame
    PROVE  Messages'
<1> DEFINE n == Len(taken) + 1
<1>0. /\ n \in 1 .. Len(frames) /\ Len(taken) \in Nat /\ FrameLen \in Nat /\ base \in Nat
      /\ Len(taken) + 1 > Len(taken) /\ Len(frames) \in Nat
  BY CompleteFrame, FrameOrder DEF TakeFrame, FramesInOrder, TypeOK
<1>1. Parse(base, FrameLen) = IF frames[n].kind = "rejected" THEN 0 ELSE n
  BY <1>0, HeadFrame
<1>2. Len(taken') = n
  BY <1>0 DEF TakeFrame, TypeOK
<1>3. /\ frames' = frames /\ UNCHANGED <<chan, processed>> /\ pc = "drain" /\ cur = 0
  BY DEF TakeFrame, wire, TypeOK
<1>4. InFlight \in Seq(0 .. Len(frames)) /\ Len(InFlight) \in Nat
  BY InFlightType
<1>5. /\ \A j \in 1 .. Len(InFlight) : InFlight[j] \in 0 .. Len(frames)
      /\ \A j \in 1 .. Len(InFlight) : InFlight[j] <= Len(taken) /\ InFlight[j] # 0
      /\ \A i, j \in 1 .. Len(InFlight) :
            (i < j /\ InFlight[j] # 0) => (InFlight[i] < InFlight[j] /\ InFlight[i] # 0)
  <2>1. \A j \in 1 .. Len(InFlight) : InFlight[j] \in 0 .. Len(frames)
    BY <1>4, ElementOfSeq
  <2> QED
    BY <1>3, <2>1 DEF Messages, OnlyStatsAreShed
<1>6. pc' # "closed"
  BY <1>3 DEF TakeFrame
<1>7. ASSUME shed \subseteq shed', InFlight' = InFlight,
             frames[n].kind = "rejected" \/ (frames[n].kind = "stats" /\ n \in shed')
      PROVE  Messages'
  <2>1. ASSUME NEW i \in 1 .. n
        PROVE  \/ frames[i].kind = "rejected"
               \/ frames[i].kind = "stats" /\ i \in shed'
               \/ \E j \in 1 .. Len(InFlight) : InFlight[j] = i
    <3>1. CASE i = n
      BY <1>7, <3>1
    <3>2. CASE i \in 1 .. Len(taken)
      BY <1>7, <3>2 DEF Messages, OnlyStatsAreShed
    <3> QED
      BY <1>0, <3>1, <3>2
  <2>2. \A j \in 1 .. Len(InFlight) : InFlight[j] <= n
    BY <1>0, <1>4, <1>5
  <2> QED
    BY <1>2, <1>3, <1>5, <1>7, <2>1, <2>2 DEF Messages, OnlyStatsAreShed
<1>8. ASSUME shed' = shed, InFlight' = Append(InFlight, n)
      PROVE  Messages'
  <2>0. n \in 0 .. Len(frames) /\ n # 0
    BY <1>0
  <2>1. /\ Len(InFlight') = Len(InFlight) + 1 /\ InFlight'[Len(InFlight) + 1] = n
        /\ \A j \in 1 .. Len(InFlight) : InFlight'[j] = InFlight[j]
    BY <1>4, <1>8, <2>0, AppendProperties
  <2>2. ASSUME NEW i \in 1 .. n
        PROVE  \/ frames[i].kind = "rejected"
               \/ frames[i].kind = "stats" /\ i \in shed
               \/ \E j \in 1 .. Len(InFlight') : InFlight'[j] = i
    <3>1. CASE i = n
      <4>1. Len(InFlight) + 1 \in 1 .. Len(InFlight')
        BY <1>4, <2>1
      <4> QED
        BY <2>1, <3>1, <4>1
    <3>2. CASE i \in 1 .. Len(taken)
      <4>1. ASSUME NEW j \in 1 .. Len(InFlight), InFlight[j] = i
            PROVE  j \in 1 .. Len(InFlight') /\ InFlight'[j] = i
        BY <1>4, <2>1, <4>1
      <4> QED
        BY <3>2, <4>1 DEF Messages, OnlyStatsAreShed
    <3> QED
      BY <1>0, <3>1, <3>2
  <2>3. ASSUME NEW j \in 1 .. Len(InFlight') PROVE InFlight'[j] <= n /\ InFlight'[j] # 0
    <3>1. CASE j \in 1 .. Len(InFlight)
      BY <1>0, <1>5, <2>1, <3>1
    <3>2. CASE j = Len(InFlight) + 1
      BY <1>0, <2>0, <2>1, <3>2
    <3> QED
      BY <1>4, <2>1, <3>1, <3>2
  <2>4. ASSUME NEW i \in 1 .. Len(InFlight'), NEW j \in 1 .. Len(InFlight'), i < j
        PROVE  InFlight'[i] < InFlight'[j] /\ InFlight'[i] # 0
    <3>0. i \in 1 .. Len(InFlight)
      BY <1>4, <2>1, <2>4
    <3>1. CASE j \in 1 .. Len(InFlight)
      BY <1>5, <2>1, <2>4, <3>0, <3>1
    <3>2. CASE j = Len(InFlight) + 1
      BY <1>0, <1>5, <2>1, <3>0, <3>2
    <3> QED
      BY <1>4, <2>1, <3>1, <3>2
  <2> QED
    BY <1>2, <1>3, <1>8, <2>2, <2>3, <2>4 DEF Messages, OnlyStatsAreShed
<1>9. CASE frames[n].kind = "rejected"
  <2>1. cur' = cur /\ shed' = shed
    BY <1>1, <1>9 DEF TakeFrame
  <2>2. InFlight' = InFlight
    BY <1>3, <2>1 DEF InFlight
  <2> QED
    BY <1>7, <1>9, <2>1, <2>2
<1>10. CASE frames[n].kind # "rejected" /\ Dropped(n)
  <2>1. cur' = cur /\ shed' = shed \cup {n} /\ frames[n].kind = "stats"
    BY <1>0, <1>1, <1>10 DEF TakeFrame, Dropped
  <2>2. InFlight' = InFlight
    BY <1>3, <2>1 DEF InFlight
  <2> QED
    BY <1>7, <2>1, <2>2
<1>11. CASE frames[n].kind # "rejected" /\ ~Dropped(n)
  <2>1. cur' = n /\ shed' = shed
    BY <1>0, <1>1, <1>11 DEF TakeFrame
  <2>2. InFlight' = Append(InFlight, n)
    BY <1>0, <1>3, <2>1, MessagesMove
  <2> QED
    BY <1>8, <2>1, <2>2
<1> QED
  BY <1>9, <1>10, <1>11

\* The Termination is the last message of the connection.
LEMMA TerminateMessages ==
    ASSUME TypeOK, Layout, Position, Messages, Terminate
    PROVE  Messages'
<1>0. InFlight \in Seq(0 .. Len(frames)) /\ Len(InFlight) \in Nat /\ Len(taken) \in Nat /\ Len(frames) \in Nat
  BY InFlightType, FrameOrder DEF TypeOK, FramesInOrder
<1>1. pc = "eof" /\ pc' = "closed" /\ frames' = frames /\ taken' = taken /\ shed' = shed
  BY DEF Terminate, wire
<1>2. InFlight' = Append(InFlight, 0) /\ 0 \in 0 .. Len(frames)
  BY <1>0, MessagesMove
<1>3. /\ Len(InFlight') = Len(InFlight) + 1 /\ InFlight'[Len(InFlight) + 1] = 0
      /\ \A j \in 1 .. Len(InFlight) : InFlight'[j] = InFlight[j]
  BY <1>0, <1>2, AppendProperties
<1>4. ASSUME NEW j \in 1 .. Len(InFlight) PROVE j \in 1 .. Len(InFlight') /\ InFlight'[j] = InFlight[j]
  BY <1>0, <1>3
<1>5. ASSUME NEW j \in 1 .. Len(InFlight')
      PROVE  InFlight'[j] <= Len(taken) /\ (InFlight'[j] # 0 => j \in 1 .. Len(InFlight))
  <2>1. CASE j \in 1 .. Len(InFlight)
    BY <1>3, <2>1 DEF Messages
  <2>2. CASE j = Len(InFlight) + 1
    BY <1>0, <1>3, <2>2
  <2> QED
    BY <1>0, <1>3, <2>1, <2>2
<1>6. ASSUME NEW i \in 1 .. Len(InFlight'), NEW j \in 1 .. Len(InFlight'), i < j, InFlight'[j] # 0
      PROVE  InFlight'[i] < InFlight'[j] /\ InFlight'[i] # 0
  <2>1. j \in 1 .. Len(InFlight) /\ i \in 1 .. Len(InFlight)
    BY <1>0, <1>5, <1>6
  <2>2. InFlight'[i] = InFlight[i] /\ InFlight'[j] = InFlight[j]
    BY <1>3, <2>1
  <2> QED
    BY <1>6, <2>1, <2>2 DEF Messages, OnlyStatsAreShed
<1>7. ASSUME NEW i \in 1 .. Len(taken)
      PROVE  \/ frames[i].kind = "rejected"
             \/ frames[i].kind = "stats" /\ i \in shed
             \/ \E j \in 1 .. Len(InFlight') : InFlight'[j] = i
  BY <1>4 DEF Messages, OnlyStatsAreShed
<1> QED
  BY <1>1, <1>5, <1>6, <1>7 DEF Messages, OnlyStatsAreShed

\* Every step keeps the messages in the order of their frames.
LEMMA MessagesStep ==
    ASSUME TypeOK, Layout, Position, Messages, [Next]_vars
    PROVE  Messages'
<1>1. ASSUME NEW f \in FrameTypes, RouterSends(f) PROVE Messages'
  <2>1. UNCHANGED <<taken, shed, pc>> /\ InFlight' = InFlight
    BY <1>1 DEF RouterSends, task, InFlight
  <2>2. \A i \in 1 .. Len(frames) : frames'[i] = frames[i]
    BY <1>1, SendLayout
  <2>3. Len(taken) \in Nat /\ Len(taken) <= Len(frames) /\ Len(frames) \in Nat
    BY FrameOrder DEF TypeOK, Position, SlicesAreFrames, FramesInOrder
  <2>4. \A i \in 1 .. Len(taken) : frames'[i] = frames[i]
    BY <2>2, <2>3
  <2> QED
    BY <2>1, <2>4, MessagesStay
<1>2. CASE TakeFrame
  BY <1>2, TakeFrameMessages
<1>3. CASE Terminate
  BY <1>3, TerminateMessages
<1>4. CASE SendMessage
  <2>1. UNCHANGED <<taken, shed, frames>> /\ pc # "closed" /\ InFlight' = InFlight
    BY <1>4, MessagesMove DEF SendMessage, wire
  <2> QED
    BY <2>1, MessagesStay
<1>5. CASE Pump
  <2>1. UNCHANGED <<taken, shed, frames, pc>> /\ InFlight' = InFlight
    BY <1>5, MessagesMove DEF Pump, wire, task
  <2> QED
    BY <2>1, MessagesStay
<1>6. CASE HangUp \/ (\E n \in 1 .. end - got : Read(n)) \/ DrainDone \/ Eof \/ WriteLoop \/ RateLoop \/ UNCHANGED vars
  <2>1. UNCHANGED <<taken, shed, frames>> /\ (pc = "closed" => pc' = "closed")
    BY <1>6 DEF HangUp, Read, DrainDone, Eof, WriteLoop, RateLoop, vars, wire, task
  <2>2. UNCHANGED <<processed, chan, cur>>
    BY <1>6 DEF HangUp, Read, DrainDone, Eof, WriteLoop, RateLoop, vars, wire, task
  <2>3. InFlight' = InFlight
    BY <2>2 DEF InFlight
  <2> QED
    BY <2>1, <2>3, MessagesStay
<1>7. CASE UpstreamStep
  <2>1. UNCHANGED <<taken, shed, frames>> /\ (pc = "closed" => pc' = "closed") /\ InFlight' = InFlight
    BY <1>7, UpstreamSteps DEF InFlight
  <2> QED
    BY <2>1, MessagesStay
<1> QED
  BY <1>1, <1>2, <1>3, <1>4, <1>5, <1>6, <1>7 DEF Next, TaskStep, UpstreamStep

-----------------------------------------------------------------------------
(* Theorems *)

\* The invariant holds when the connection opens.
LEMMA InitInv == Init => FInv /\ Writing
<1> SUFFICES ASSUME Init PROVE FInv /\ Writing
  OBVIOUS
<1>0. frames = << >> /\ taken = << >> /\ chan = << >> /\ processed = << >> /\ Len(frames) = 0
  BY DEF Init
<1>1. TypeOK
  <2>0. /\ end = 0 /\ got = 0 /\ base = 0 /\ unwritten = 0 /\ relayed = 0 /\ counted = 0 /\ last = 0 /\ overHalf = 0
        /\ hungUp = FALSE /\ torn = FALSE /\ writeFlag = FALSE /\ shedding = FALSE
        /\ proxy \in BOOLEAN /\ upstream \in BOOLEAN /\ stalled = FALSE
    BY DEF Init, GovernorInit
  <2>1. StreamTypes
    <3>1. end \in Nat /\ got \in 0 .. end /\ base \in 0 .. got
      BY <2>0
    <3>2. hungUp \in BOOLEAN
      BY <2>0
    <3>3. 1 .. Len(frames) = {}
      BY <1>0
    <3> QED
      BY <3>1, <3>2, <3>3 DEF StreamTypes
  <2>2. TaskTypes
    BY <1>0 DEF Init, TaskTypes
  <2>3. ChannelTypes
    BY <1>0, Constants DEF ChannelTypes
  <2>4. RelayTypes
    <3>1. relayed \in 0 .. got /\ unwritten \in 0 .. got
      BY <2>0
    <3>2. torn \in BOOLEAN /\ stalled \in BOOLEAN
      BY <2>0
    <3> QED
      BY <2>0, <3>1, <3>2 DEF RelayTypes
  <2>5. GovernorTypeOK
    <3>1. counted \in Nat /\ last \in 0 .. counted /\ overHalf \in 0 .. Sustain
      BY <2>0, GovernorAssumption
    <3> QED
      BY <2>0, <3>1 DEF GovernorTypeOK
  <2> QED
    BY <2>1, <2>2, <2>3, <2>4, <2>5, TypeParts
<1>2. Layout
  BY <1>0 DEF Init, Layout, EndOf
<1>3. Position
  BY <1>0 DEF Init, Position, SlicesAreFrames, EndOf
<1>4. Messages
  <2>1. InFlight = << >>
    BY <1>0 DEF Init, InFlight
  <2> QED
    BY <1>0, <2>1 DEF Messages, OnlyStatsAreShed
<1>5. Writing
  BY DEF Init, Writing, UpstreamGetsPrefix
<1> QED
  BY <1>1, <1>2, <1>3, <1>4, <1>5 DEF FInv

\* Every step keeps the invariant.
LEMMA FInvStep ==
    FInv /\ Writing /\ [Next]_vars => FInv' /\ Writing'
<1> SUFFICES ASSUME FInv, Writing, [Next]_vars PROVE FInv' /\ Writing'
  OBVIOUS
<1>1. StreamTypes' /\ TaskTypes' /\ ChannelTypes' /\ RelayTypes' /\ GovernorTypeOK' /\ Writing'
  BY StreamStep, TaskTypeStep, ChannelStep, RelayStep, GovernorStep DEF FInv
<1>2. TypeOK'
  BY <1>1 DEF TypeOK, StreamTypes, TaskTypes, ChannelTypes, RelayTypes
<1>3. Layout' /\ Position' /\ Messages'
  BY LayoutStep, PositionStep, MessagesStep DEF FInv
<1> QED
  BY <1>1, <1>2, <1>3 DEF FInv

\* Variables keep their types: the buffer lies within the bytes that arrived, the message
\* channel keeps its capacity, and a frame is in hand exactly while it is being sent.
THEOREM TypeCorrect == Spec => []TypeOK
<1>1. FInv => TypeOK
  BY DEF FInv
<1> QED
  BY <1>1, InitInv, FInvStep, PTL DEF Spec

\* receiver.rs and proxy.rs: however the bytes are cut into reads, the parser is given the
\* frames of the router, whole and in order, and none that is complete stays in the buffer
\* while the task waits, for all frame lengths of at least a header.
THEOREM SlicesAreFramesHolds == Spec => []SlicesAreFrames
<1>1. FInv => SlicesAreFrames
  BY DEF FInv, Position
<1> QED
  BY <1>1, InitInv, FInvStep, PTL DEF Spec

\* should_shed: only statistics are dropped, only rejected frames are skipped, and what is
\* left reaches the RIB in the order of the stream, for every budget and channel capacity.
THEOREM OnlyStatsAreShedHolds == Spec => []OnlyStatsAreShed
<1>1. FInv => OnlyStatsAreShed
  BY DEF FInv, Messages
<1> QED
  BY <1>1, InitInv, FInvStep, PTL DEF Spec

\* proxy.rs 32: the upstream sees a gapless prefix of the router's bytes, and all of them
\* while its connection is usable, however many bytes each write takes and wherever it fails.
THEOREM UpstreamGetsPrefixHolds == Spec => []UpstreamGetsPrefix
<1>1. Writing => UpstreamGetsPrefix
  BY DEF Writing
<1> QED
  BY <1>1, InitInv, FInvStep, PTL DEF Spec
=============================================================================
