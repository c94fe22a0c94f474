-------------------------- MODULE AlertAdapterProofs ------------------------
(***************************************************************************)
(* The consumers of the event channel, bulk and alert adapters, Kafka,     *)
(* NATS and server-sent events, keep their types, respect the dedup window *)
(* and implement LossyLog, for every channel capacity, batch size, window, *)
(* set of kinds and number of faults.                                      *)
(***************************************************************************)
EXTENDS AlertAdapter, FiniteSetTheorems, WellFoundedInduction, TLAPS

-----------------------------------------------------------------------------
(* The inductive invariant *)

\* The pump waits exactly when its batch is empty.
Batching == phase = "wait" <=> buf = {}

\* A request is in flight only in an alert adapter, for an alerting event whose key
\* should_send has recorded.
InFlight ==
    posting # 0 => mode = "alert" /\ Key \in Alerting /\ dedup[Key] # Never

\* The dedup map dominates the notifications that arrived: its instants are not in the
\* future, none is older than a notification of its key, and the one recorded for the
\* request in flight is a window younger than all of them.
Ledger ==
    /\ \A k \in Kinds : dedup[k] # Never => dedup[k] <= now
    /\ \A i \in DOMAIN sentAt :
          /\ dedup[sentAt[i].key] # Never
          /\ sentAt[i].at <= dedup[sentAt[i].key]
          /\ (posting # 0 /\ sentAt[i].key = Key) => dedup[Key] - sentAt[i].at >= Window

AInv == ATypeOK /\ Batching /\ InFlight /\ Ledger

-----------------------------------------------------------------------------
(* The event a batch stands at *)

\* A nonempty set of numbers has a least one.
LEMMA LeastOfSet ==
    ASSUME NEW S, S \subseteq Nat, S # {}
    PROVE  \E e \in S : \A f \in S : e <= f
<1>1. PICK e \in S : \A f \in S : ~(<<f, e>> \in OpToRel(<, Nat))
  BY NatLessThanWellFounded, WFMin
<1>2. \A f \in S : ~(f < e)
  BY <1>1 DEF OpToRel
<1> QED
  BY <1>2

\* send_batch stands at the oldest event of its batch, which was published.
CurrentIsOldest ==
    buf # {} => /\ CurrentEvent \in buf /\ CurrentEvent \in 1 .. next - 1 /\ CurrentEvent \in 1 .. LastEvent
                /\ \A f \in buf : CurrentEvent <= f
                /\ Key \in Kinds

\* CurrentEvent is well defined: a batch is a nonempty set of published events.
LEMMA CurrentMeaning == TypeOK => CurrentIsOldest
<1> SUFFICES ASSUME TypeOK, buf # {} PROVE CurrentIsOldest
  BY DEF CurrentIsOldest
<1>0. /\ next \in Nat /\ LastEvent \in Nat /\ next <= LastEvent + 1 /\ buf \subseteq 1 .. next - 1
      /\ events \in Seq(Kinds)
  BY DEF TypeOK, BusTypeOK, LastEvent
<1>1. \E e \in buf : \A f \in buf : e <= f
  <2>1. buf \subseteq Nat
    BY <1>0
  <2> QED
    BY <2>1, LeastOfSet
<1>2. CurrentEvent \in buf /\ \A f \in buf : CurrentEvent <= f
  BY <1>1 DEF CurrentEvent
<1>3. CurrentEvent \in 1 .. next - 1 /\ CurrentEvent \in 1 .. LastEvent
  BY <1>0, <1>2
<1>4. Key \in Kinds
  BY <1>0, <1>3 DEF Key, LastEvent
<1> QED
  BY <1>2, <1>3, <1>4 DEF CurrentIsOldest

\* Batches are finite: one more event adds one, one event less does not exceed the bound.
LEMMA BatchSizes ==
    ASSUME TypeOK
    PROVE  /\ Cardinality(buf) \in Nat
           /\ Cardinality(buf \cup {next}) = Cardinality(buf) + 1
           /\ \A e \in buf : Cardinality(buf \ {e}) <= BatchSize
           /\ Cardinality({}) <= BatchSize
           /\ \A e : Cardinality({e}) <= BatchSize
<1>1. next - 1 \in Int /\ next \notin buf
  BY DEF TypeOK, BusTypeOK, LastEvent
<1>2. IsFiniteSet(buf)
  <2>1. IsFiniteSet(1 .. next - 1)
    BY <1>1, FS_Interval
  <2> QED
    BY <2>1, FS_Subset DEF TypeOK
<1>3. Cardinality(buf) \in Nat /\ Cardinality(buf \cup {next}) = Cardinality(buf) + 1
  BY <1>1, <1>2, FS_AddElement, FS_CardinalityType
<1>4. \A e \in buf : Cardinality(buf \ {e}) = Cardinality(buf) - 1
  BY <1>2, FS_RemoveElement
<1>5. Cardinality({}) = 0 /\ \A e : Cardinality({e}) = 1
  BY FS_EmptySet, FS_Singleton
<1>6. BatchSize \in Nat /\ BatchSize >= 1 /\ Cardinality(buf) <= BatchSize
  BY PumpAssumption DEF TypeOK
<1>7. \A e \in buf : Cardinality(buf \ {e}) <= BatchSize
  BY <1>3, <1>4, <1>6
<1>8. Cardinality({}) <= BatchSize /\ \A e : Cardinality({e}) <= BatchSize
  BY <1>5, <1>6
<1> QED
  BY <1>3, <1>7, <1>8

-----------------------------------------------------------------------------
(* Steps of the channel and of the pump *)

\* RecvNext, SkipLost, Subscribe and a publication keep the channel's types, and the
\* receiver never goes back.
LEMMA BusStep ==
    ASSUME TypeOK
    PROVE  /\ CanRecv /\ RecvNext => BusTypeOK' /\ next' = next + 1 /\ LastEvent' = LastEvent
           /\ Lagging /\ SkipLost => BusTypeOK' /\ next' >= next /\ LastEvent' = LastEvent
           /\ Subscribe => BusTypeOK' /\ next' >= next /\ LastEvent' = LastEvent
           /\ UNCHANGED bus => BusTypeOK' /\ next' = next /\ LastEvent' = LastEvent
           /\ \A k \in Kinds : (Send(k) /\ next' = next) => BusTypeOK' /\ LastEvent' = LastEvent + 1
<1>0. /\ events \in Seq(Kinds) /\ LastEvent \in Nat /\ LastEvent = Len(events) /\ LastEvent <= MaxEvents
      /\ next \in Nat /\ next >= 1 /\ next <= LastEvent + 1
  BY DEF TypeOK, BusTypeOK, LastEvent
<1>1. ASSUME CanRecv, RecvNext PROVE BusTypeOK' /\ next' = next + 1 /\ LastEvent' = LastEvent
  BY <1>0, <1>1 DEF CanRecv, RecvNext, BusTypeOK, LastEvent
<1>2. ASSUME Lagging, SkipLost PROVE BusTypeOK' /\ next' >= next /\ LastEvent' = LastEvent
  BY <1>0, <1>2, BusAssumption DEF Lagging, SkipLost, BusTypeOK, LastEvent
<1>3. ASSUME Subscribe PROVE BusTypeOK' /\ next' >= next /\ LastEvent' = LastEvent
  BY <1>0, <1>3 DEF Subscribe, BusTypeOK, LastEvent
<1>4. ASSUME UNCHANGED bus PROVE BusTypeOK' /\ next' = next /\ LastEvent' = LastEvent
  BY <1>0, <1>4 DEF bus, BusTypeOK, LastEvent
<1>5. ASSUME NEW k \in Kinds, Send(k), next' = next PROVE BusTypeOK' /\ LastEvent' = LastEvent + 1
  BY <1>0, <1>5, BusAssumption DEF Send, BusTypeOK, LastEvent
<1> QED
  BY <1>1, <1>2, <1>3, <1>4, <1>5

\* What the batch looks like after a step, whichever consumer took it: it is empty, or
\* got the next event, or is the same, or lost its oldest event.
BatchStep ==
    \/ buf' = {} /\ phase' = "wait" /\ next' >= next
    \/ buf' = buf \cup {next} /\ next' = next + 1 /\ phase' \in {"drain", "send"}
       /\ (buf = {} \/ Cardinality(buf) < BatchSize)
    \/ buf' = buf /\ next' >= next /\ (phase' = "wait" <=> phase = "wait")
       /\ phase' \in {"wait", "drain", "send"}
    \/ buf' = buf \ {CurrentEvent} /\ buf # {CurrentEvent} /\ buf # {} /\ next' = next /\ phase' = phase

\* Event numbers below an older position lie below a newer one.
LEMMA IntervalGrows ==
    ASSUME NEW a \in Nat, NEW b \in Nat, b >= a
    PROVE  1 .. a - 1 \subseteq 1 .. b - 1
OBVIOUS

\* A step that only fills, empties or shortens the batch keeps the types.
LEMMA PumpType ==
    ASSUME TypeOK, Batching, BusTypeOK', BatchStep,
           delivered' \subseteq 1 .. LastEvent', faults' \in 0 .. MaxFaults
    PROVE  TypeOK' /\ Batching'
<1>0. /\ next \in Nat /\ next' \in Nat /\ buf \subseteq 1 .. next - 1
      /\ Cardinality(buf) <= BatchSize /\ phase \in {"wait", "drain", "send"}
  BY DEF TypeOK, BusTypeOK, LastEvent
<1>1. CASE buf' = {} /\ phase' = "wait" /\ next' >= next
  BY <1>0, <1>1, BatchSizes DEF TypeOK, Batching
<1>2. CASE /\ buf' = buf \cup {next} /\ next' = next + 1 /\ phase' \in {"drain", "send"}
           /\ (buf = {} \/ Cardinality(buf) < BatchSize)
  <2>1. Cardinality(buf') <= BatchSize
    <3>1. CASE buf = {}
      <4>1. buf' = {next}
        BY <1>2, <3>1
      <4> QED
        BY <4>1, BatchSizes
    <3>2. CASE Cardinality(buf) < BatchSize
      BY <1>2, <3>2, BatchSizes, PumpAssumption
    <3> QED
      BY <1>2, <3>1, <3>2
  <2>2. buf' \subseteq 1 .. next' - 1 /\ next >= 1
    BY <1>0, <1>2 DEF TypeOK, BusTypeOK
  <2> QED
    BY <1>2, <2>1, <2>2 DEF TypeOK, Batching
<1>3. CASE /\ buf' = buf /\ next' >= next /\ (phase' = "wait" <=> phase = "wait")
           /\ phase' \in {"wait", "drain", "send"}
  <2>0. buf' = buf /\ next' >= next
    BY <1>3
  <2>1. buf' \subseteq 1 .. next' - 1
    <3>0. next \in Nat /\ next' \in Nat
      BY <1>0
    <3>2. 1 .. next - 1 \subseteq 1 .. next' - 1
      BY <2>0, <3>0, IntervalGrows
    <3> QED
      BY <1>0, <2>0, <3>2
  <2>2. Cardinality(buf') <= BatchSize
    BY <1>0, <1>3
  <2>3. TypeOK'
    BY <1>3, <2>1, <2>2 DEF TypeOK
  <2>4. Batching'
    BY <1>3 DEF Batching
  <2> QED
    BY <2>3, <2>4
<1>4. CASE buf' = buf \ {CurrentEvent} /\ buf # {CurrentEvent} /\ buf # {} /\ next' = next /\ phase' = phase
  <2>1. CurrentEvent \in buf
    BY <1>4, CurrentMeaning DEF CurrentIsOldest
  <2>2. Cardinality(buf') <= BatchSize /\ buf' # {}
    BY <1>4, <2>1, BatchSizes
  <2> QED
    BY <1>0, <1>4, <2>2 DEF TypeOK, Batching
<1> QED
  BY <1>1, <1>2, <1>3, <1>4 DEF BatchStep

-----------------------------------------------------------------------------
(* Every step but a publication and a tick of the clock *)

\* What a consumer's step does to the batch and to the external system: it delivers
\* nothing, or only the batch it ends, or only the event it goes on from.
ConsumerStep ==
    /\ BatchStep /\ BusTypeOK' /\ LastEvent' = LastEvent
    /\ \/ delivered' = delivered
       \/ buf' = {} /\ delivered \subseteq delivered' /\ delivered' \subseteq delivered \cup buf
       \/ buf' = buf \ {CurrentEvent} /\ buf' # {} /\ delivered' = delivered \cup {CurrentEvent}
    /\ faults' \in 0 .. MaxFaults

\* Every step of a consumer keeps the types.
LEMMA ConsumerKeepsTypes ==
    ASSUME TypeOK, Batching, ConsumerStep
    PROVE  TypeOK' /\ Batching'
<1>1. buf \subseteq 1 .. LastEvent /\ delivered \subseteq 1 .. LastEvent
  BY DEF TypeOK, BusTypeOK, LastEvent
<1>2. delivered' \subseteq delivered \cup buf
  <2>1. CASE delivered' = delivered \cup {CurrentEvent} /\ buf' = buf \ {CurrentEvent} /\ buf' # {}
    BY <2>1, CurrentMeaning DEF CurrentIsOldest
  <2> QED
    BY <2>1 DEF ConsumerStep
<1>3. delivered' \subseteq 1 .. LastEvent'
  BY <1>1, <1>2 DEF ConsumerStep
<1> QED
  BY <1>3, PumpType DEF ConsumerStep

\* The pump only receives events and puts them into its batch.
LEMMA PumpStepShape ==
    ASSUME TypeOK, Batching, PumpStep, UNCHANGED <<delivered, faults>>
    PROVE  ConsumerStep
<1>0. faults' \in 0 .. MaxFaults
  BY DEF TypeOK
<1>1. CASE RecvFirst
  <2>1. buf = {} /\ buf' = buf \cup {next} /\ phase' = "drain"
    BY <1>1 DEF RecvFirst, Batching
  <2> QED
    BY <1>0, <1>1, <2>1, BusStep DEF RecvFirst, ConsumerStep, BatchStep
<1>2. CASE RecvLagged
  BY <1>0, <1>2, BusStep DEF RecvLagged, ConsumerStep, BatchStep, pump
<1>3. CASE DrainMore
  BY <1>0, <1>3, BusStep DEF DrainMore, ConsumerStep, BatchStep
<1>4. CASE DrainLagged
  BY <1>0, <1>4, BusStep DEF DrainLagged, ConsumerStep, BatchStep
<1>5. CASE DrainDone
  <2>1. BusTypeOK' /\ LastEvent' = LastEvent /\ next' = next /\ next \in Nat
    BY <1>5, BusStep DEF DrainDone, bus, TypeOK, BusTypeOK, LastEvent
  <2> QED
    BY <1>0, <1>5, <2>1 DEF DrainDone, ConsumerStep, BatchStep
<1> QED
  BY <1>1, <1>2, <1>3, <1>4, <1>5 DEF PumpStep

\* A batch that ends, with some of its events accepted
LEMMA BatchDoneShape ==
    ASSUME TypeOK, BatchDone, delivered \subseteq delivered',
           delivered' \subseteq delivered \cup buf, faults' \in 0 .. MaxFaults
    PROVE  ConsumerStep
<1>1. BusTypeOK' /\ LastEvent' = LastEvent /\ next' = next /\ next \in Nat
  BY BusStep DEF BatchDone, TypeOK, BusTypeOK, LastEvent
<1> QED
  BY <1>1 DEF BatchDone, ConsumerStep, BatchStep

\* A bulk adapter sends its whole batch, or gives it up.
LEMMA BulkShape ==
    ASSUME TypeOK, SendAccepted \/ SendFailed
    PROVE  ConsumerStep
<1>1. CASE SendAccepted
  <2>1. faults' \in 0 .. MaxFaults
    BY <1>1 DEF SendAccepted, TypeOK
  <2> QED
    BY <1>1, <2>1, BatchDoneShape DEF SendAccepted
<1>2. CASE SendFailed
  <2>1. faults' \in 0 .. MaxFaults
    BY <1>2, PumpAssumption DEF SendFailed, TypeOK
  <2>2. delivered' = delivered \/ delivered' = delivered \cup buf
    BY <1>2 DEF SendFailed
  <2> QED
    BY <1>2, <2>1, <2>2, BatchDoneShape DEF SendFailed
<1> QED
  BY <1>1, <1>2

\* Kafka, NATS and server-sent events settle one event at a time.
LEMMA StreamShape ==
    ASSUME TypeOK, Batching, StreamStep(mode) \/ SseReconnect
    PROVE  ConsumerStep
<1>0. faults \in 0 .. MaxFaults /\ MaxFaults \in Nat
  BY PumpAssumption DEF TypeOK
<1>1. CASE TakeOne
  <2>1. buf = {} /\ buf' = buf \cup {next} /\ phase' = "send"
    BY <1>1 DEF TakeOne, Batching
  <2> QED
    BY <1>0, <1>1, <2>1, BusStep DEF TakeOne, ConsumerStep, BatchStep
<1>2. CASE SkipGap
  BY <1>2, PumpStepShape DEF SkipGap, PumpStep
<1>3. CASE SendAccepted \/ SendFailed
  BY <1>3, BulkShape
<1>4. CASE NatsPublish
  <2>1. CASE SendAccepted
    BY <2>1, BulkShape
  <2>2. CASE faults < MaxFaults /\ faults' = faults + 1 /\ BatchDone /\ UNCHANGED delivered
    <3>1. faults' \in 0 .. MaxFaults
      BY <1>0, <2>2
    <3> QED
      BY <2>2, <3>1, BatchDoneShape
  <2> QED
    BY <1>4, <2>1, <2>2 DEF NatsPublish
<1>5. CASE SseReconnect
  <2>1. faults' \in 0 .. MaxFaults
    BY <1>0, <1>5 DEF SseReconnect
  <2> QED
    BY <1>5, <2>1, BusStep DEF SseReconnect, ConsumerStep, BatchStep
<1> QED
  BY <1>1, <1>2, <1>3, <1>4, <1>5 DEF StreamStep, KafkaPublish, SseEmit

\* The alert adapters go on to the next event or end the batch, and have the notification
\* of the event they leave accepted or not.
LEMMA AdvanceShape ==
    ASSUME TypeOK, Batching, phase = "send", Advance,
           delivered' = delivered \/ delivered' = delivered \cup {CurrentEvent},
           faults' \in 0 .. MaxFaults
    PROVE  ConsumerStep
<1>1. buf # {} /\ CurrentEvent \in buf
  BY CurrentMeaning DEF Batching, CurrentIsOldest
<1>2. CASE buf = {CurrentEvent}
  <2>1. BatchDone
    BY <1>2 DEF Advance
  <2> QED
    BY <1>1, <2>1, BatchDoneShape
<1>3. CASE buf # {CurrentEvent}
  <2>1. buf' = buf \ {CurrentEvent} /\ UNCHANGED <<bus, phase>>
    BY <1>3 DEF Advance
  <2>2. BusTypeOK' /\ LastEvent' = LastEvent /\ next' = next
    BY <2>1, BusStep
  <2>3. buf' # {}
    BY <1>1, <1>3, <2>1
  <2> QED
    BY <1>1, <1>3, <2>1, <2>2, <2>3 DEF ConsumerStep, BatchStep
<1> QED
  BY <1>2, <1>3

-----------------------------------------------------------------------------
(* The dedup map and the notifications *)

\* No request is in flight and the adapter's own state stays
LEMMA QuietStep ==
    ASSUME AInv, posting = 0, UNCHANGED alert, TypeOK', Batching'
    PROVE  AInv'
<1>1. UNCHANGED <<mode, dedup, now, posting, sentAt>>
  BY DEF alert
<1>2. ATypeOK'
  BY <1>1 DEF AInv, ATypeOK
<1>3. InFlight'
  BY <1>1 DEF InFlight
<1>4. Ledger'
  BY <1>1 DEF AInv, Ledger
<1> QED
  BY <1>2, <1>3, <1>4 DEF AInv

\* Receiving does not touch the dedup map or a request.
LEMMA PumpKeepsInv ==
    ASSUME AInv, PumpStep, UNCHANGED <<delivered, faults, alert>>
    PROVE  AInv'
<1>1. phase # "send"
  BY DEF PumpStep, RecvFirst, RecvLagged, DrainMore, DrainLagged, DrainDone
<1>2. posting = 0
  BY <1>1 DEF AInv, ATypeOK
<1>3. TypeOK' /\ Batching'
  BY PumpStepShape, ConsumerKeepsTypes DEF AInv, ATypeOK
<1> QED
  BY <1>2, <1>3, QuietStep

\* Consumers other than the alert adapters have neither dedup map nor requests.
LEMMA OtherConsumersKeepInv ==
    ASSUME AInv, UNCHANGED alert,
           \/ mode = "bulk" /\ (SendAccepted \/ SendFailed)
           \/ StreamStep(mode)
           \/ mode = "sse" /\ SseReconnect
    PROVE  AInv'
<1>1. posting = 0
  BY DEF AInv, InFlight, StreamStep
<1>2. ConsumerStep
  BY BulkShape, StreamShape DEF AInv, ATypeOK
<1>3. TypeOK' /\ Batching'
  BY <1>2, ConsumerKeepsTypes DEF AInv, ATypeOK
<1> QED
  BY <1>1, <1>3, QuietStep

\* An event that should_send passes over changes no record.
LEMMA PassOverKeepsInv ==
    ASSUME AInv, PassOver
    PROVE  AInv'
<1>1. faults' \in 0 .. MaxFaults
  BY DEF PassOver, AInv, ATypeOK, TypeOK
<1>2. ConsumerStep
  BY <1>1, AdvanceShape DEF PassOver, AtEvent, AInv, ATypeOK
<1>3. TypeOK' /\ Batching'
  BY <1>2, ConsumerKeepsTypes DEF AInv, ATypeOK
<1> QED
  BY <1>3, QuietStep DEF PassOver, AtEvent

\* The event the batch stands at does not change when another is published.
LEMMA PublishKeepsInv ==
    ASSUME AInv, NEW k \in Kinds, PublishEvent(k), UNCHANGED <<delivered, faults, alert>>
    PROVE  AInv'
<1>0. TypeOK /\ CurrentIsOldest /\ next' = next /\ buf' = buf /\ phase' = phase
  BY CurrentMeaning DEF PublishEvent, pump, AInv, ATypeOK
<1>1. BusTypeOK' /\ LastEvent' = LastEvent + 1 /\ LastEvent \in Nat
  BY <1>0, BusStep DEF PublishEvent, TypeOK, BusTypeOK, LastEvent
<1>2. delivered' \subseteq 1 .. LastEvent'
  BY <1>0, <1>1 DEF TypeOK
<1>3. TypeOK' /\ Batching'
  BY <1>0, <1>1, <1>2 DEF TypeOK, Batching, AInv
<1>4. CurrentEvent' = CurrentEvent
  BY <1>0 DEF CurrentEvent
<1>5. buf # {} => Key' = Key
  <2>1. SUFFICES ASSUME buf # {} PROVE events'[CurrentEvent] = events[CurrentEvent]
    BY <1>4 DEF Key
  <2>2. CurrentEvent \in 1 .. Len(events) /\ events \in Seq(Kinds)
    BY <1>0, <2>1 DEF CurrentIsOldest, TypeOK, BusTypeOK, LastEvent
  <2> QED
    BY <2>2 DEF PublishEvent, Send
<1>6. UNCHANGED <<mode, dedup, now, posting, sentAt>>
  BY DEF alert
<1>7. posting # 0 => buf # {}
  BY DEF AInv, ATypeOK, Batching
<1>8. ATypeOK'
  BY <1>0, <1>3, <1>4, <1>6 DEF AInv, ATypeOK
<1>9. InFlight'
  BY <1>5, <1>6, <1>7 DEF AInv, InFlight
<1>10. Ledger'
  BY <1>5, <1>6, <1>7 DEF AInv, Ledger
<1> QED
  BY <1>3, <1>8, <1>9, <1>10 DEF AInv

\* Time that passes leaves instants in the past.
LEMMA TickKeepsInv ==
    ASSUME AInv, Tick
    PROVE  AInv'
<1>0. UNCHANGED <<events, next, buf, phase, delivered, faults, mode, dedup, posting, sentAt>>
  BY DEF Tick, vars, bus, pump
<1>1. now' = now + 1 /\ now' \in 0 .. MaxTime /\ now \in 0 .. MaxTime /\ MaxTime \in Nat
  BY AlertAssumption DEF Tick, AInv, ATypeOK
<1>2. CurrentEvent' = CurrentEvent /\ Key' = Key
  BY <1>0 DEF CurrentEvent, Key
<1>3. TypeOK' /\ Batching'
  BY <1>0 DEF AInv, ATypeOK, TypeOK, BusTypeOK, LastEvent, Batching
<1>4. ATypeOK'
  BY <1>0, <1>1, <1>2, <1>3 DEF AInv, ATypeOK
<1>5. InFlight'
  BY <1>0, <1>2 DEF AInv, InFlight
<1>6. Ledger'
  <2>1. \A j \in Kinds : dedup'[j] # Never => dedup'[j] <= now'
    <3>1. SUFFICES ASSUME NEW j \in Kinds, dedup[j] # Never PROVE dedup[j] <= now'
      BY <1>0
    <3>2. dedup[j] \in 0 .. MaxTime /\ dedup[j] <= now
      BY <3>1 DEF AInv, ATypeOK, Ledger
    <3> QED
      BY <1>1, <3>2
  <2> QED
    BY <1>0, <1>2, <2>1 DEF AInv, Ledger
<1> QED
  BY <1>3, <1>4, <1>5, <1>6 DEF AInv

\* Elements of a sequence and of the sequence with one more
LEMMA ElementType ==
    ASSUME NEW R, NEW s \in Seq(R), NEW i \in DOMAIN s
    PROVE  s[i] \in R
OBVIOUS

\* A sequence with one more element of the same kind.
LEMMA AppendType ==
    ASSUME NEW R, NEW s \in Seq(R), NEW r \in R
    PROVE  Append(s, r) \in Seq(R)
OBVIOUS

\* should_send lets a key through only a window after its last instant, which is no older
\* than any notification of that key.
LEMMA PostKeepsInv ==
    ASSUME AInv, Post
    PROVE  AInv'
<1>0. UNCHANGED <<events, next, buf, phase, delivered, faults, mode, now, sentAt>>
  BY DEF Post, bus, pump
<1>1. CurrentEvent' = CurrentEvent /\ Key' = Key /\ posting' = CurrentEvent
  BY <1>0 DEF CurrentEvent, Key, Post
<1>2. phase = "send" /\ mode = "alert" /\ Key \in Alerting /\ Key \in Kinds
  BY AlertAssumption DEF Post, AtEvent
<1>3. TypeOK' /\ Batching'
  BY <1>0 DEF AInv, ATypeOK, TypeOK, BusTypeOK, LastEvent, Batching
<1>4. /\ dedup \in [Kinds -> {Never} \cup 0 .. MaxTime] /\ now \in 0 .. MaxTime
      /\ sentAt \in Seq([key : Alerting, at : 0 .. MaxTime])
      /\ MaxTime \in Nat /\ Window \in Nat /\ Never \notin Nat /\ Alerting \subseteq Kinds
  BY AlertAssumption DEF AInv, ATypeOK
<1>5. dedup' \in [Kinds -> {Never} \cup 0 .. MaxTime]
      /\ \A k \in Kinds : dedup'[k] = IF k = Key THEN now ELSE dedup[k]
  BY <1>2, <1>4 DEF Post
<1>6. ATypeOK'
  BY <1>0, <1>1, <1>2, <1>3, <1>5 DEF AInv, ATypeOK
<1>7. InFlight'
  BY <1>0, <1>1, <1>2, <1>4, <1>5 DEF InFlight
<1>8. \A k \in Kinds : dedup'[k] # Never => dedup'[k] <= now'
  BY <1>0, <1>4, <1>5 DEF AInv, Ledger
<1>9. ASSUME NEW i \in DOMAIN sentAt
      PROVE  /\ dedup'[sentAt[i].key] # Never
             /\ sentAt[i].at <= dedup'[sentAt[i].key]
             /\ sentAt[i].key = Key => dedup'[Key] - sentAt[i].at >= Window
  <2>1. sentAt[i].key \in Kinds /\ sentAt[i].at \in 0 .. MaxTime
    <3>1. sentAt[i] \in [key : Alerting, at : 0 .. MaxTime]
      BY <1>4, <1>9, ElementType
    <3> QED
      BY <1>4, <3>1
  <2>2. /\ dedup[sentAt[i].key] \in 0 .. MaxTime /\ dedup[sentAt[i].key] <= now
        /\ sentAt[i].at <= dedup[sentAt[i].key]
    BY <1>4, <2>1 DEF AInv, Ledger
  <2>3. CASE sentAt[i].key = Key
    <3>1. now - dedup[Key] >= Window
      BY <1>4, <2>2, <2>3 DEF Post, Suppressed
    <3>2. dedup'[Key] = now /\ now # Never
      BY <1>2, <1>4, <1>5
    <3> QED
      BY <1>4, <2>1, <2>2, <2>3, <3>1, <3>2
  <2>4. CASE sentAt[i].key # Key
    BY <1>4, <1>5, <2>1, <2>2, <2>4
  <2> QED
    BY <2>3, <2>4
<1>10. Ledger'
  BY <1>0, <1>1, <1>8, <1>9 DEF Ledger
<1> QED
  BY <1>3, <1>6, <1>7, <1>10 DEF AInv

\* The record of a notification that arrived
Arrival == [key |-> Key, at |-> dedup[Key]]

\* The notification of the request in flight carries the instant should_send recorded.
LEMMA ArrivalType ==
    ASSUME AInv, posting # 0
    PROVE  /\ Arrival \in [key : Alerting, at : 0 .. MaxTime]
           /\ Arrival.key = Key /\ Arrival.at = dedup[Key] /\ dedup[Key] # Never
           /\ dedup[Key] \in 0 .. MaxTime /\ Key \in Kinds
<1>1. Key \in Alerting /\ Key \in Kinds /\ dedup[Key] # Never
  BY AlertAssumption DEF AInv, InFlight
<1>2. dedup[Key] \in 0 .. MaxTime
  BY <1>1 DEF AInv, ATypeOK
<1> QED
  BY <1>1, <1>2 DEF Arrival

\* The request ends: it leaves the map alone and at most one more record
LEMMA RequestEnds ==
    ASSUME AInv, posting # 0, posting' = 0, UNCHANGED <<mode, dedup, now>>,
           sentAt' = sentAt \/ sentAt' = Append(sentAt, Arrival),
           TypeOK', Batching'
    PROVE  AInv'
<1>0. /\ sentAt \in Seq([key : Alerting, at : 0 .. MaxTime])
      /\ dedup \in [Kinds -> {Never} \cup 0 .. MaxTime] /\ now \in 0 .. MaxTime
      /\ MaxTime \in Nat
  BY AlertAssumption DEF AInv, ATypeOK
<1>1. sentAt' \in Seq([key : Alerting, at : 0 .. MaxTime])
  <2>1. Append(sentAt, Arrival) \in Seq([key : Alerting, at : 0 .. MaxTime])
    <3>1. Arrival \in [key : Alerting, at : 0 .. MaxTime]
      BY ArrivalType
    <3> QED
      BY <1>0, <3>1, AppendType
  <2> QED
    BY <1>0, <2>1
<1>2. ATypeOK'
  BY <1>0, <1>1 DEF AInv, ATypeOK
<1>3. InFlight'
  BY DEF InFlight
<1>4. ASSUME NEW i \in DOMAIN sentAt'
      PROVE  dedup[sentAt'[i].key] # Never /\ sentAt'[i].at <= dedup[sentAt'[i].key]
  <2>1. CASE i \in DOMAIN sentAt /\ sentAt'[i] = sentAt[i]
    BY <2>1 DEF AInv, Ledger
  <2>2. CASE sentAt'[i] = Arrival
    BY <1>0, <2>2, ArrivalType
  <2>3. sentAt' = Append(sentAt, Arrival) =>
            (i \in DOMAIN sentAt /\ sentAt'[i] = sentAt[i]) \/ sentAt'[i] = Arrival
    BY <1>0, <1>4, ArrivalType
  <2>4. sentAt' = sentAt => i \in DOMAIN sentAt /\ sentAt'[i] = sentAt[i]
    BY <1>4
  <2> QED
    BY <2>1, <2>2, <2>3, <2>4
<1>5. Ledger'
  BY <1>4 DEF AInv, Ledger
<1> QED
  BY <1>2, <1>3, <1>5 DEF AInv

\* A request ends, and at most its own notification arrives.
LEMMA RequestShape ==
    ASSUME AInv, PostAccepted \/ PostRejected \/ PostFailed
    PROVE  /\ ConsumerStep
           /\ posting # 0 /\ posting' = 0 /\ UNCHANGED <<mode, dedup, now>>
           /\ sentAt' = sentAt \/ sentAt' = Append(sentAt, Arrival)
<1>0. posting # 0 /\ posting = CurrentEvent /\ phase = "send" /\ TypeOK /\ Batching
  BY DEF PostAccepted, PostRejected, PostFailed, AInv, ATypeOK
<1>1. faults' \in 0 .. MaxFaults
  <2>1. faults \in 0 .. MaxFaults /\ MaxFaults \in Nat
    BY <1>0, PumpAssumption DEF TypeOK
  <2> QED
    BY <2>1 DEF PostAccepted, PostRejected, PostFailed
<1>2. delivered' = delivered \/ delivered' = delivered \cup {CurrentEvent}
  BY <1>0 DEF PostAccepted, PostRejected, PostFailed, PostArrived
<1>3. ASSUME Advance PROVE ConsumerStep
  BY <1>0, <1>1, <1>2, <1>3, AdvanceShape
<1>4. ASSUME BatchDone PROVE ConsumerStep
  <2>1. CurrentEvent \in buf
    BY <1>0, CurrentMeaning DEF Batching, CurrentIsOldest
  <2> QED
    BY <1>0, <1>1, <1>2, <1>4, <2>1, BatchDoneShape
<1>5. ConsumerStep
  BY <1>3, <1>4 DEF PostAccepted, PostRejected, PostFailed
<1>6. posting' = 0 /\ UNCHANGED <<mode, dedup, now>>
  BY DEF PostAccepted, PostRejected, PostFailed
<1>7. sentAt' = sentAt \/ sentAt' = Append(sentAt, Arrival)
  BY DEF PostAccepted, PostRejected, PostFailed, PostArrived, Arrival
<1> QED
  BY <1>0, <1>5, <1>6, <1>7

\* However a request ends, the dedup map still dominates the arrivals.
LEMMA RequestKeepsInv ==
    ASSUME AInv, PostAccepted \/ PostRejected \/ PostFailed
    PROVE  AInv'
<1>1. TypeOK' /\ Batching'
  BY RequestShape, ConsumerKeepsTypes DEF AInv, ATypeOK
<1> QED
  BY <1>1, RequestShape, RequestEnds

\* The invariant holds before the first event.
LEMMA AInvInit == AInit => AInv
<1> SUFFICES ASSUME AInit PROVE AInv
  OBVIOUS
<1>1. TypeOK
  <2>1. BusTypeOK
    BY BusAssumption DEF AInit, Init, BusInit, BusTypeOK, LastEvent
  <2>2. Cardinality(buf) <= BatchSize
    BY FS_EmptySet, PumpAssumption DEF AInit, Init
  <2> QED
    BY <2>1, <2>2, PumpAssumption DEF AInit, Init, TypeOK
<1>2. ATypeOK
  BY <1>1, AlertAssumption DEF AInit, ATypeOK
<1> QED
  BY <1>2 DEF AInit, Init, AInv, Batching, InFlight, Ledger

\* Every step of every consumer keeps the invariant.
LEMMA AInvStep == AInv /\ [ANext]_avars => AInv'
<1> SUFFICES ASSUME AInv, [ANext]_avars PROVE AInv'
  OBVIOUS
<1>1. CASE \E k \in Kinds : PublishEvent(k) /\ UNCHANGED <<delivered, faults, alert>>
  BY <1>1, PublishKeepsInv
<1>2. CASE AdapterStep
  BY <1>2, PumpKeepsInv, OtherConsumersKeepInv, PassOverKeepsInv, PostKeepsInv,
     RequestKeepsInv DEF AdapterStep
<1>3. CASE mode = "sse" /\ SseReconnect /\ UNCHANGED alert
  BY <1>3, OtherConsumersKeepInv
<1>4. CASE Tick
  BY <1>4, TickKeepsInv
<1>5. CASE UNCHANGED avars
  <2>1. UNCHANGED <<events, next, buf, phase, delivered, faults, mode, dedup, now, posting, sentAt>>
    BY <1>5 DEF avars, vars, alert, bus, pump
  <2>2. AInv'
    <3>1. CurrentEvent' = CurrentEvent /\ Key' = Key
      BY <2>1 DEF CurrentEvent, Key
    <3>2. TypeOK' /\ Batching'
      BY <2>1 DEF AInv, ATypeOK, TypeOK, BusTypeOK, LastEvent, Batching
    <3>3. ATypeOK'
      BY <2>1, <3>1, <3>2 DEF AInv, ATypeOK
    <3>4. InFlight'
      BY <2>1, <3>1 DEF AInv, InFlight
    <3>5. Ledger'
      BY <2>1, <3>1 DEF AInv, Ledger
    <3> QED
      BY <3>2, <3>3, <3>4, <3>5 DEF AInv
  <2> QED
    BY <2>2
<1> QED
  BY <1>1, <1>2, <1>3, <1>4, <1>5 DEF ANext

\* The consumers keep their types: the receiver stays within the channel, a batch holds at
\* most BATCH_SIZE events, all received, and a request is in flight only for the event
\* send_batch stands at.
THEOREM ATypeCorrect == ASpec => []ATypeOK
<1>1. AInv => ATypeOK
  BY DEF AInv
<1> QED
  BY <1>1, AInvInit, AInvStep, PTL DEF ASpec

-----------------------------------------------------------------------------
(* The dedup window *)

\* A notification arrives at least a window after the last one of its key.
LEMMA WindowStep == AInv /\ NoRepeatWithinWindow /\ [ANext]_avars => NoRepeatWithinWindow'
<1> SUFFICES ASSUME AInv, NoRepeatWithinWindow, [ANext]_avars PROVE NoRepeatWithinWindow'
  OBVIOUS
<1>0. sentAt \in Seq([key : Alerting, at : 0 .. MaxTime])
  BY DEF AInv, ATypeOK
<1>1. sentAt' = sentAt \/ (posting # 0 /\ sentAt' = Append(sentAt, Arrival))
  BY RequestShape DEF ANext, AdapterStep, avars, alert, PassOver, Post, Tick
<1>2. CASE sentAt' = sentAt
  BY <1>2 DEF NoRepeatWithinWindow
<1>3. CASE posting # 0 /\ sentAt' = Append(sentAt, Arrival)
  <2>1. SUFFICES ASSUME NEW i \in DOMAIN sentAt', NEW j \in DOMAIN sentAt', i < j,
                        sentAt'[i].key = sentAt'[j].key
                 PROVE  sentAt'[j].at - sentAt'[i].at >= Window
    BY DEF NoRepeatWithinWindow
  <2>2. i \in DOMAIN sentAt /\ sentAt'[i] = sentAt[i]
    BY <1>0, <1>3, <2>1, ArrivalType
  <2>3. CASE j \in DOMAIN sentAt
    <3>1. sentAt'[j] = sentAt[j]
      BY <1>0, <1>3, <2>3, ArrivalType
    <3> QED
      BY <2>1, <2>2, <2>3, <3>1 DEF NoRepeatWithinWindow
  <2>4. CASE j \notin DOMAIN sentAt
    <3>1. sentAt'[j] = Arrival
      BY <1>0, <1>3, <2>1, <2>4, ArrivalType
    <3> QED
      BY <1>3, <2>1, <2>2, <3>1, ArrivalType DEF AInv, Ledger
  <2> QED
    BY <2>3, <2>4
<1> QED
  BY <1>1, <1>2, <1>3

\* webhook.rs and servicenow_em.rs: two notifications of one key that reach the external
\* system were started at least dedup_window_secs apart, whatever was passed over, rejected
\* or lost in between, for every window and batch size.
THEOREM NoRepeatWithinWindowHolds == ASpec => []NoRepeatWithinWindow
<1>1. AInit => NoRepeatWithinWindow
  BY DEF AInit, NoRepeatWithinWindow
<1> QED
  BY <1>1, AInvInit, AInvStep, WindowStep, PTL DEF ASpec

-----------------------------------------------------------------------------
(* The consumers implement LossyLog *)

\* Everything below the batch is settled, nothing in it is.
SettledBelowBatch ==
    /\ Settled \in Nat /\ Settled <= next - 1 /\ Settled <= LastEvent
    /\ buf = {} => Settled = next - 1
    /\ buf # {} => Settled + 1 = CurrentEvent /\ CurrentEvent \in buf
    /\ \A e \in buf : e \in Nat /\ Settled < e /\ e < next

\* Settled events are the received ones before the batch.
LEMMA SettledMeaning == TypeOK => SettledBelowBatch
<1> SUFFICES ASSUME TypeOK PROVE SettledBelowBatch
  OBVIOUS
<1>0. next \in Nat \ {0} /\ LastEvent \in Nat /\ next <= LastEvent + 1 /\ buf \subseteq 1 .. next - 1
  BY DEF TypeOK, BusTypeOK, LastEvent
<1>1. CASE buf = {}
  <2>1. Settled = next - 1
    BY <1>1 DEF Settled
  <2> QED
    BY <1>0, <1>1, <2>1 DEF SettledBelowBatch
<1>2. CASE buf # {}
  <2>1. Settled = CurrentEvent - 1
    BY <1>2 DEF Settled, CurrentEvent
  <2>2. CurrentEvent \in buf /\ CurrentEvent \in 1 .. next - 1 /\ \A f \in buf : CurrentEvent <= f
    BY <1>2, CurrentMeaning DEF CurrentIsOldest
  <2>3. Settled \in Nat /\ Settled <= next - 1 /\ Settled <= LastEvent /\ Settled + 1 = CurrentEvent
    BY <1>0, <2>1, <2>2
  <2>4. \A e \in buf : e \in Nat /\ Settled < e /\ e < next
    BY <1>0, <2>1, <2>2
  <2> QED
    BY <1>2, <2>2, <2>3, <2>4 DEF SettledBelowBatch
<1> QED
  BY <1>1, <1>2

\* Positions in the channel are ordered as numbers.
LEMMA Ordering ==
    /\ \A a, b \in Nat : (a < b + 1 /\ b + 1 # a + 1) => b >= a + 1
    /\ \A a, b, m, n \in Nat : (a <= m - 1 /\ n >= m /\ b = n - 1) => b >= a
OBVIOUS

\* A step of a consumer settles events in order and delivers only what it settles.
LEMMA ConsumerSettles ==
    ASSUME TypeOK, SettledBelowBatch, SettledBelowBatch', ConsumerStep
    PROVE  /\ Settled' >= Settled
           /\ delivered \subseteq delivered'
           /\ \A e \in delivered' \ delivered : e \in Settled + 1 .. Settled'
<1>0. /\ Settled \in Nat /\ Settled' \in Nat /\ next \in Nat /\ Settled <= next - 1
      /\ \A e \in buf : e \in Nat /\ Settled < e /\ e < next
  BY DEF SettledBelowBatch, TypeOK, BusTypeOK, LastEvent
<1>1. CASE buf' = {} /\ next' >= next
  <2>1. Settled' = next' - 1 /\ next' \in Nat
    BY <1>1 DEF SettledBelowBatch, ConsumerStep, BusTypeOK
  <2>2. delivered \subseteq delivered' /\ delivered' \subseteq delivered \cup buf
    BY <1>1 DEF ConsumerStep
  <2>3. Settled' >= Settled
    <3>1. next' >= next /\ next \in Int /\ Settled \in Int /\ Settled <= next - 1
      BY <1>0, <1>1
    <3> QED
      BY <1>0, <2>1, <3>1, Ordering
  <2>4. \A e \in buf : e \in Settled + 1 .. Settled'
    BY <1>0, <1>1, <2>1
  <2> QED
    BY <2>2, <2>3, <2>4
<1>2. CASE buf' = buf \cup {next} /\ next' = next + 1
  <2>1. Settled + 1 \in buf' /\ \A e \in buf' : e > Settled
    BY <1>0, <1>2 DEF SettledBelowBatch
  <2>2. Settled' + 1 \in buf'
    BY <2>1 DEF SettledBelowBatch
  <2>3. Settled' >= Settled
    BY <1>0, <2>1, <2>2
  <2>4. delivered' = delivered
    <3>1. next \notin buf
      BY <1>0
    <3> QED
      BY <1>2, <3>1 DEF ConsumerStep
  <2> QED
    BY <2>3, <2>4
<1>3. CASE buf' = buf /\ next' >= next /\ buf' # {}
  <2>1. Settled' = Settled
    BY <1>3 DEF Settled
  <2>2. delivered' = delivered
    BY <1>3, CurrentMeaning DEF ConsumerStep, CurrentIsOldest
  <2> QED
    BY <1>0, <2>1, <2>2
<1>4. CASE buf' = buf \ {CurrentEvent} /\ buf' # {} /\ next' = next
  <2>1. CurrentEvent = Settled + 1 /\ Settled' + 1 \in buf'
    BY <1>4 DEF SettledBelowBatch
  <2>2. Settled' >= Settled + 1
    <3>1. Settled' + 1 # Settled + 1 /\ Settled' + 1 \in buf
      BY <1>4, <2>1
    <3>2. Settled < Settled' + 1 /\ Settled \in Nat /\ Settled' \in Nat
      BY <1>0, <3>1
    <3> QED
      BY <3>1, <3>2, Ordering
  <2>3. delivered \subseteq delivered' /\ delivered' \subseteq delivered \cup {CurrentEvent}
    BY <1>4 DEF ConsumerStep
  <2>4. CurrentEvent \in Settled + 1 .. Settled' /\ Settled' >= Settled
    BY <1>0, <2>1, <2>2
  <2> QED
    BY <2>3, <2>4
<1>5. \/ buf' = {} /\ next' >= next
      \/ buf' = buf \cup {next} /\ next' = next + 1
      \/ buf' = buf /\ next' >= next /\ buf' # {}
      \/ buf' = buf \ {CurrentEvent} /\ buf' # {} /\ next' = next
  <2>1. buf # {} => CurrentEvent \in buf
    BY CurrentMeaning DEF CurrentIsOldest
  <2> QED
    BY <2>1 DEF ConsumerStep, BatchStep
<1> QED
  BY <1>1, <1>2, <1>3, <1>4, <1>5

\* The sink of the log holds one part of each delivered event
LEMMA SinkElements ==
    ASSUME NEW D, NEW E, D \subseteq E, NEW L \in Nat, NEW H \in Nat,
           \A e \in E \ D : e \in L + 1 .. H
    PROVE  /\ {<<e, 1>> : e \in D} \subseteq {<<e, 1>> : e \in E}
           /\ \A r \in {<<e, 1>> : e \in E} \ {<<e, 1>> : e \in D} : r[1] \in L + 1 .. H
OBVIOUS

\* Every step publishes, settles events in order, or changes nothing LossyLog sees.
LEMMA LogStep == AInv /\ AInv' /\ [ANext]_avars => [Log!LogNext]_(Log!logVars)
<1> SUFFICES ASSUME AInv, AInv', [ANext]_avars PROVE [Log!LogNext]_(Log!logVars)
  OBVIOUS
<1> USE DEF Log!LogNext, Log!logVars
<1>0. TypeOK /\ Batching /\ TypeOK'
  BY DEF AInv, ATypeOK
<1>1. SettledBelowBatch
  BY <1>0, SettledMeaning
<1>2. SettledBelowBatch'
  BY <1>0, SettledMeaning, PTL
<1>3. ASSUME ConsumerStep PROVE Log!Settle \/ UNCHANGED Log!logVars
  <2>1. /\ Settled' >= Settled /\ delivered \subseteq delivered' /\ LastEvent' = LastEvent
        /\ \A e \in delivered' \ delivered : e \in Settled + 1 .. Settled'
    BY <1>0, <1>1, <1>2, <1>3, ConsumerSettles DEF ConsumerStep
  <2>2. Settled \in Nat /\ Settled' \in Nat /\ Settled' <= LastEvent /\ LastEvent \in Nat
    BY <1>0, <1>1, <1>2, <2>1 DEF SettledBelowBatch, TypeOK, BusTypeOK, LastEvent
  <2>3. CASE Settled' = Settled
    <3>1. delivered' = delivered
      BY <2>1, <2>2, <2>3
    <3> QED
      BY <2>1, <2>3, <3>1
  <2>4. CASE Settled' # Settled
    <3>1. Settled' \in Settled + 1 .. LastEvent
      BY <2>1, <2>2, <2>4
    <3> QED
      BY <2>1, <2>2, <3>1, SinkElements DEF Log!Settle
  <2> QED
    BY <2>3, <2>4
<1>4. ASSUME UNCHANGED <<events, next, buf, delivered>> PROVE UNCHANGED Log!logVars
  BY <1>4 DEF Settled, LastEvent
<1>5. ASSUME NEW k \in Kinds, PublishEvent(k), UNCHANGED delivered PROVE Log!LogPublish
  <2>1. LastEvent' = LastEvent + 1
    BY <1>0, <1>5, BusStep DEF PublishEvent
  <2>2. Settled' = Settled
    BY <1>5 DEF PublishEvent, pump, Settled
  <2> QED
    BY <1>5, <2>1, <2>2 DEF Log!LogPublish
<1>6. CASE \E k \in Kinds : PublishEvent(k) /\ UNCHANGED <<delivered, faults, alert>>
  BY <1>5, <1>6
<1>7. CASE PumpStep /\ UNCHANGED <<delivered, faults, alert>>
  BY <1>0, <1>3, <1>7, PumpStepShape
<1>8. CASE SendAccepted \/ SendFailed
  BY <1>0, <1>3, <1>8, BulkShape
<1>9. CASE StreamStep(mode) \/ SseReconnect
  BY <1>0, <1>3, <1>9, StreamShape
<1>10. CASE PassOver
  <2>1. faults' \in 0 .. MaxFaults
    BY <1>0, <1>10 DEF PassOver, TypeOK
  <2> QED
    BY <1>0, <1>3, <1>10, <2>1, AdvanceShape DEF PassOver, AtEvent
<1>11. CASE PostAccepted \/ PostRejected \/ PostFailed
  BY <1>3, <1>11, RequestShape
<1>12. CASE Post \/ Tick \/ UNCHANGED avars
  BY <1>4, <1>12 DEF Post, Tick, avars, vars, bus, pump
<1> QED
  BY <1>6, <1>7, <1>8, <1>9, <1>10, <1>11, <1>12 DEF ANext, AdapterStep

\* Every consumer of the channel, bulk and alert adapters, Kafka, NATS and server-sent
\* events, settles every event once and in order, and delivers none that it settled before
\* or that was not published.
THEOREM AdaptersImplementRetryingLog == ASpec => ImplementsRetryingLog
<1>1. AInit => Log!LogInit
  BY DEF AInit, Init, BusInit, Log!LogInit, LastEvent, Settled
<1>2. [Log!LogNext]_(Log!logVars) => [Log!RetryingNext]_(Log!logVars)
  BY DEF Log!RetryingNext
<1> QED
  BY <1>1, <1>2, AInvInit, AInvStep, LogStep, PTL DEF ASpec, ImplementsRetryingLog, Log!RetryingSpec
=============================================================================
