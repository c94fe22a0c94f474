----------------------------- MODULE BmpFraming -----------------------------
(***************************************************************************)
(* From the bytes of one BMP connection to the messages of the RIB pump:   *)
(* the read loops of crates/rbmp-server/src/receiver.rs and proxy.rs, the  *)
(* message channel, the pump's accounting and the governor that the        *)
(* receiver asks under pressure.                                           *)
(*                                                                         *)
(* Bytes are positions in the router's stream: the buffer holds those from *)
(* base up to, not including, got.  A read appends any number of the bytes *)
(* under way, so a frame may arrive in pieces and several frames at once.  *)
(* A frame is its length, which its header states, and what the parser     *)
(* makes of it: "rejected" are malformed ones and those longer than        *)
(* max_frame_bytes.  Routers send lengths of at least a header.            *)
(***************************************************************************)
EXTENDS Governor, Sequences

CONSTANTS
    HeaderLen,   \* BMP_HEADER_LEN
    RouteLens, StatsLens, RejectedLens,   \* lengths of the frames a router may send, by
                                          \* what they parse to
    ChanCap,     \* capacity of the message channel
    MaxFrames    \* bound: frames sent

ASSUME FramingAssumption ==
    /\ HeaderLen \in Nat \ {0}
    /\ RouteLens \cup StatsLens \cup RejectedLens \subseteq {n \in Nat : n >= HeaderLen}
    /\ ChanCap \in Nat \ {0} /\ MaxFrames \in Nat

\* Frames a router may send: length, and what they parse to
FrameTypes ==
         [len : RouteLens, kind : {"route"}] \cup [len : StatsLens, kind : {"stats"}]
    \cup [len : RejectedLens, kind : {"rejected"}]

VARIABLES
    proxy,       \* the task runs handle_proxy_connection
    frames,      \* the frames the router sent: start, len and kind
    end,         \* bytes that will ever arrive
    hungUp,      \* the router's side of the connection is gone
    got, base,   \* bytes read so far; bytes taken out of the buffer
    pc,          \* "read", "forward", "drain", "send", "eof", "closed"
    cur,         \* number of the frame being sent into the channel
    taken,       \* history: slices <<start, length>> given to the parser
    chan,        \* message channel: frame numbers, 0 for the Termination
    shed,        \* history: frames dropped by should_shed
    processed,   \* history: what the pump took from the channel
    upstream,    \* proxy: the connection to the upstream collector is usable
    stalled,     \* the upstream collector has stopped reading for good
    unwritten,   \* proxy: position of the first byte that write_all has still to write
    relayed,     \* history: position up to which bytes were written upstream
    torn         \* history: bytes were left out or written twice

wire  == <<frames, end, hungUp>>
task  == <<got, base, pc, cur, taken, shed>>
relay == <<upstream, stalled, unwritten, relayed, torn>>
vars  == <<proxy, wire, task, chan, processed, relay, governor>>

Init ==
    /\ proxy \in BOOLEAN
    /\ frames = << >> /\ end = 0 /\ hungUp = FALSE
    /\ got = 0 /\ base = 0 /\ pc = "read" /\ cur = 0
    /\ taken = << >> /\ chan = << >> /\ shed = {} /\ processed = << >>
    /\ upstream \in (IF proxy THEN BOOLEAN ELSE {FALSE})
    /\ stalled = FALSE /\ unwritten = 0 /\ relayed = 0 /\ torn = FALSE
    /\ GovernorInit

-----------------------------------------------------------------------------
(* The router and TCP (external) *)

RouterSends(f) ==
    /\ ~hungUp /\ Len(frames) < MaxFrames
    /\ frames' = Append(frames, [start |-> end, len |-> f.len, kind |-> f.kind])
    /\ end' = end + f.len
    /\ UNCHANGED <<proxy, hungUp, task, chan, processed, relay, governor>>

\* The connection ends; bytes under way may be lost
HangUp ==
    /\ ~hungUp /\ hungUp' = TRUE
    /\ end' \in got .. end
    /\ UNCHANGED <<proxy, frames, task, chan, processed, relay, governor>>

\* The upstream collector keeps its connection and reads no more
UpstreamStalls ==
    /\ upstream /\ ~stalled /\ stalled' = TRUE
    /\ UNCHANGED <<proxy, wire, task, chan, processed, upstream, unwritten, relayed, torn, governor>>

-----------------------------------------------------------------------------
(* The read loop *)

\* Mutant: the whole buffer is written upstream, not the bytes just read
WholeBuffer(n) == base

\* &buf[buf.len() - n..] after a read of n bytes
NewBytes(n) == got

\* read_buf returns n > 0 bytes
Read(n) ==
    /\ pc = "read" /\ got + n <= end
    /\ got' = got + n
    /\ IF upstream THEN pc' = "forward" /\ unwritten' = NewBytes(n)
                   ELSE pc' = "drain" /\ UNCHANGED unwritten
    /\ UNCHANGED <<proxy, wire, base, cur, taken, shed, chan, processed, governor>>
    /\ UNCHANGED <<upstream, stalled, relayed, torn>>

\* write_all, before the tee and without a timeout: the socket takes the bytes
\* up to b, and it returns when it has taken all
Forward(b) ==
    /\ pc = "forward" /\ ~stalled
    /\ relayed' = b /\ torn' = (torn \/ unwritten # relayed) /\ unwritten' = b
    /\ pc' = IF b = got THEN "drain" ELSE "forward"
    /\ UNCHANGED <<proxy, wire, got, base, cur, taken, shed, chan, processed, governor>>
    /\ UNCHANGED <<upstream, stalled>>

\* The write fails: the upstream is given up
ForwardFails ==
    /\ pc = "forward"
    /\ upstream' = FALSE /\ pc' = "drain"
    /\ UNCHANGED <<proxy, wire, got, base, cur, taken, shed, chan, processed, governor>>
    /\ UNCHANGED <<stalled, unwritten, relayed, torn>>

\* The length field at the head of the buffer.  Inside a frame it would be
\* payload: the model then reads the shortest frame.
FrameAt(b) == {i \in 1 .. Len(frames) : frames[i].start = b}
FrameLen ==
    IF FrameAt(base) = {} THEN HeaderLen ELSE frames[CHOOSE i \in FrameAt(base) : TRUE].len

\* Mutant: one byte more than the frame is waited for
CompleteLate == got - base >= HeaderLen /\ got - base > FrameLen

Complete == got - base >= HeaderLen /\ got - base >= FrameLen

DrainDone ==
    /\ pc = "drain" /\ ~Complete
    /\ pc' = "read"
    /\ UNCHANGED <<proxy, wire, got, base, cur, taken, shed, chan, processed, relay, governor>>

\* What parse_bmp_message makes of the slice: a frame number, or 0 on an error
Parse(start, len) ==
    LET ok == {i \in 1 .. Len(frames) : /\ frames[i].start = start /\ frames[i].len = len
                                        /\ frames[i].kind # "rejected"}
    IN  IF ok = {} THEN 0 ELSE CHOOSE i \in ok : TRUE

\* Mutant: any message is shed, not only statistics
DroppedAny(i) == ~proxy /\ shedding

\* shed_stats_on_pressure, receiver only
Dropped(i) == ~proxy /\ shedding /\ frames[i].kind = "stats"

\* Mutant: a frame the parser rejects stays in the buffer after its header
TakeFrameResync ==
    /\ pc = "drain" /\ Complete
    /\ taken' = Append(taken, <<base, FrameLen>>)
    /\ LET i == Parse(base, FrameLen) IN
       /\ base' = base + (IF i = 0 THEN HeaderLen ELSE FrameLen)
       /\ IF i # 0 /\ ~Dropped(i)
            THEN cur' = i /\ pc' = "send" /\ UNCHANGED shed
            ELSE /\ shed' = IF i = 0 THEN shed ELSE shed \cup {i}
                 /\ UNCHANGED <<cur, pc>>
    /\ UNCHANGED <<proxy, wire, got, chan, processed, relay, governor>>

\* copy_to_bytes and parse_bmp_message: skip, shed or send the frame
TakeFrame ==
    /\ pc = "drain" /\ Complete
    /\ taken' = Append(taken, <<base, FrameLen>>)
    /\ base' = base + FrameLen
    /\ LET i == Parse(base, FrameLen) IN
       IF i # 0 /\ ~Dropped(i)
         THEN cur' = i /\ pc' = "send" /\ UNCHANGED shed
         ELSE /\ shed' = IF i = 0 THEN shed ELSE shed \cup {i}
              /\ UNCHANGED <<cur, pc>>
    /\ UNCHANGED <<proxy, wire, got, chan, processed, relay, governor>>

\* tx.send waits for room
SendMessage ==
    /\ pc = "send" /\ Len(chan) < ChanCap
    /\ chan' = Append(chan, cur)
    /\ cur' = 0 /\ pc' = "drain"
    /\ UNCHANGED <<proxy, wire, got, base, taken, shed, processed, relay, governor>>

\* Mutant: the task returns without the Termination
EofReturns ==
    /\ pc = "read" /\ hungUp /\ got = end
    /\ pc' = "closed" /\ upstream' = FALSE
    /\ UNCHANGED <<proxy, wire, got, base, cur, taken, shed, chan, processed, governor>>
    /\ UNCHANGED <<stalled, unwritten, relayed, torn>>

\* read_buf returns 0 or an error
Eof ==
    /\ pc = "read" /\ hungUp /\ got = end
    /\ pc' = "eof" /\ upstream' = FALSE
    /\ UNCHANGED <<proxy, wire, got, base, cur, taken, shed, chan, processed, governor>>
    /\ UNCHANGED <<stalled, unwritten, relayed, torn>>

\* The synthetic Termination
Terminate ==
    /\ pc = "eof" /\ Len(chan) < ChanCap
    /\ chan' = Append(chan, 0) /\ pc' = "closed"
    /\ UNCHANGED <<proxy, wire, got, base, cur, taken, shed, processed, relay, governor>>

-----------------------------------------------------------------------------
(* The pump and the governor *)

\* record_event, then RibManager::process
Pump ==
    /\ chan # << >>
    /\ processed' = Append(processed, Head(chan)) /\ chan' = Tail(chan)
    /\ RecordEvent
    /\ UNCHANGED <<proxy, wire, task, relay>>

WriteLoop ==
    /\ WriteTick(ChanCap - Len(chan), ChanCap)
    /\ UNCHANGED <<proxy, wire, task, chan, processed, relay>>

RateLoop ==
    /\ RateTick
    /\ UNCHANGED <<proxy, wire, task, chan, processed, relay>>

TaskStep ==
    \/ \E n \in 1 .. end - got : Read(n)
    \/ \E b \in unwritten + 1 .. got : Forward(b)
    \/ DrainDone \/ TakeFrame \/ Eof

Next ==
    \/ \E f \in FrameTypes : RouterSends(f)
    \/ HangUp
    \/ UpstreamStalls
    \/ TaskStep
    \/ ForwardFails
    \/ SendMessage
    \/ Terminate
    \/ Pump
    \/ WriteLoop
    \/ RateLoop

\* The runtime keeps polling tasks that can go on, and its intervals tick.
\* Routers owe nothing, nor does an upstream that has stopped reading: its
\* connection may fail or stay.
Fairness ==
    /\ WF_vars(TaskStep) /\ WF_vars(SendMessage) /\ WF_vars(Terminate) /\ WF_vars(Pump)
    /\ WF_vars(WriteLoop) /\ WF_vars(RateLoop)

Spec == Init /\ [][Next]_vars /\ Fairness

-----------------------------------------------------------------------------
(* Properties *)

\* Variables have their types; the channel keeps its capacity.
TypeOK ==
    /\ proxy \in BOOLEAN /\ hungUp \in BOOLEAN
    /\ upstream \in BOOLEAN /\ stalled \in BOOLEAN
    /\ \A i \in 1 .. Len(frames) : [len |-> frames[i].len, kind |-> frames[i].kind] \in FrameTypes
    /\ end \in Nat /\ got \in 0 .. end /\ base \in 0 .. got
    /\ pc \in {"read", "forward", "drain", "send", "eof", "closed"}
    /\ cur \in 0 .. Len(frames) /\ (cur # 0 <=> pc = "send")
    /\ taken \in Seq(Nat \X Nat)
    /\ chan \in Seq(0 .. Len(frames)) /\ Len(chan) <= ChanCap
    /\ shed \subseteq 1 .. Len(frames)
    /\ processed \in Seq(0 .. Len(frames))
    /\ unwritten \in 0 .. got /\ relayed \in 0 .. got /\ torn \in BOOLEAN
    /\ GovernorTypeOK

\* However the bytes are cut into reads, the parser is given the frames the
\* router sent, whole and in order, also after frames it rejects, and no complete
\* frame is left in the buffer while the task waits for more bytes.
SlicesAreFrames ==
    /\ Len(taken) <= Len(frames)
    /\ \A i \in 1 .. Len(taken) : taken[i] = <<frames[i].start, frames[i].len>>
    /\ pc \in {"read", "eof", "closed"} =>
          \A i \in 1 .. Len(frames) : frames[i].start + frames[i].len <= got => i <= Len(taken)

\* The messages on their way to the RIB, oldest first
InFlight == processed \o chan \o (IF cur = 0 THEN << >> ELSE <<cur>>)

\* Of the frames taken out of the buffer only those the parser rejects and
\* statistics under pressure are missing on the way to the RIB, and the others
\* keep their order: no route is ever shed.
OnlyStatsAreShed ==
    /\ \A i \in 1 .. Len(taken) :
          \/ frames[i].kind = "rejected"
          \/ frames[i].kind = "stats" /\ i \in shed
          \/ \E j \in 1 .. Len(InFlight) : InFlight[j] = i
    /\ \A i, j \in 1 .. Len(InFlight) :
          (i < j /\ InFlight[j] # 0) => (InFlight[i] < InFlight[j] /\ InFlight[i] # 0)

\* proxy.rs 32: "Forwards every raw byte received from the router to the
\* upstream".  The upstream sees a gapless prefix of the stream, and while its
\* connection is usable all of it when the write returns, whatever the local
\* pipeline makes of it.
UpstreamGetsPrefix ==
    /\ ~torn
    /\ (upstream /\ pc # "forward") => relayed = got

\* The local pipeline has processed what was received
Teed == chan = << >> /\ got = end

\* Once traffic stops, everything received is processed and the task of a closed
\* connection ends with the Termination as its last message, unless the task
\* waits for ever to write to an upstream that does not read.
StreamIsProcessed ==
    \/ <>[](stalled /\ pc = "forward")
    \/ /\ <>[]Teed
       /\ hungUp ~> (pc = "closed" /\ processed # << >> /\ processed[Len(processed)] = 0)

\* proxy.rs 36: "If the upstream is unavailable the proxy still works - bytes are
\* teed to the local pipeline only".  It fails for an upstream that stops reading:
\* write_all has no timeout and comes before the tee.
TeeOutlivesUpstream == <>[]Teed

\* Shedding ends by itself when the traffic does: it cannot lock itself in.
SheddingEnds == <>[](~shedding /\ ~writeFlag)
=============================================================================
