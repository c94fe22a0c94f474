---------------------------- MODULE AlertAdapter ----------------------------
(***************************************************************************)
(* The consumers of the event channel: the streams of StreamSink, and the  *)
(* adapters behind the pump, those that post a batch in one request        *)
(* (module AdapterPump) and those that post one notification per event and *)
(* suppress repeats: crates/rbmp-server/src/output/webhook.rs and          *)
(* servicenow_em.rs.                                                       *)
(*                                                                         *)
(* send_batch walks the batch in order.  An event that yields no           *)
(* notification, or one below min_severity, is passed over; should_send    *)
(* suppresses a key seen within the window and otherwise records the key   *)
(* before the request is made.  A transport error ends send_batch, an      *)
(* error status is only logged.  The kind of an event is its dedup key.    *)
(***************************************************************************)
EXTENDS StreamSink

CONSTANTS
    Alerting,   \* kinds with a notification of at least min_severity
    Window,     \* dedup_window_secs
    Never,      \* the key is not in the dedup map
    MaxTime     \* bound: clock

ASSUME AlertAssumption ==
    /\ Alerting \subseteq Kinds
    /\ Window \in Nat /\ MaxTime \in Nat
    /\ Never \notin Nat

VARIABLES
    mode,       \* which consumer this is; fixed when it starts
    dedup,      \* the dedup map: Instant of the last should_send per key
    now,        \* Instant::now()
    posting,    \* the event whose request is in flight, 0 if none
    sentAt      \* history: key and start of each notification that arrived

alert == <<mode, dedup, now, posting, sentAt>>
avars == <<vars, alert>>

Modes == {"bulk", "alert", "kafka", "nats", "sse"}

AInit ==
    /\ Init
    /\ mode \in Modes
    /\ dedup = [k \in Kinds |-> Never]
    /\ now = 0 /\ posting = 0
    /\ sentAt = << >>

\* The event send_batch looks at
CurrentEvent == CHOOSE e \in buf : \A f \in buf : e <= f
Key          == events[CurrentEvent]

\* Mutant: the window is one unit too short
SuppressedShort(k) == dedup[k] # Never /\ now - dedup[k] + 1 < Window

Suppressed(k) == dedup[k] # Never /\ now - dedup[k] < Window

AtEvent == phase = "send" /\ mode = "alert" /\ posting = 0

\* The batch goes on with the next event, or send_batch returns
Advance ==
    IF buf = {CurrentEvent} THEN BatchDone
    ELSE buf' = buf \ {CurrentEvent} /\ UNCHANGED <<bus, phase>>

\* No notification, below min_severity, or suppressed
PassOver ==
    /\ AtEvent
    /\ Key \notin Alerting \/ Suppressed(Key)
    /\ Advance
    /\ UNCHANGED <<delivered, faults, alert>>

Post ==
    /\ AtEvent
    /\ Key \in Alerting /\ ~Suppressed(Key)
    /\ dedup' = [dedup EXCEPT ![Key] = now]
    /\ posting' = CurrentEvent
    /\ UNCHANGED <<mode, bus, pump, delivered, faults, now, sentAt>>

PostArrived ==
    /\ delivered' = delivered \cup {posting}
    /\ sentAt' = Append(sentAt, [key |-> Key, at |-> dedup[Key]])

PostAccepted ==
    /\ posting # 0
    /\ PostArrived
    /\ posting' = 0 /\ Advance
    /\ UNCHANGED <<mode, faults, dedup, now>>

\* An error status is logged and the batch goes on
PostRejected ==
    /\ posting # 0
    /\ faults < MaxFaults /\ faults' = faults + 1
    /\ posting' = 0 /\ Advance
    /\ UNCHANGED <<mode, delivered, dedup, now, sentAt>>

\* A transport error, after which the notification may have arrived or not:
\* send_batch returns and the rest of the batch is lost
PostFailed ==
    /\ posting # 0
    /\ faults < MaxFaults /\ faults' = faults + 1
    /\ posting' = 0 /\ BatchDone
    /\ \/ UNCHANGED <<delivered, sentAt>>
       \/ PostArrived
    /\ UNCHANGED <<mode, dedup, now>>

\* Only the alert adapters look at the clock
Tick ==
    /\ mode = "alert" /\ now < MaxTime
    /\ now' = now + 1
    /\ UNCHANGED <<mode, vars, dedup, posting, sentAt>>

AdapterStep ==
    \/ mode \in {"bulk", "alert"} /\ PumpStep /\ UNCHANGED <<delivered, faults, alert>>
    \/ mode = "bulk" /\ (SendAccepted \/ SendFailed) /\ UNCHANGED alert
    \/ StreamStep(mode) /\ UNCHANGED alert
    \/ PassOver
    \/ Post
    \/ PostAccepted
    \/ PostRejected
    \/ PostFailed

ANext ==
    \/ \E k \in Kinds : PublishEvent(k) /\ UNCHANGED <<delivered, faults, alert>>
    \/ AdapterStep
    \/ mode = "sse" /\ SseReconnect /\ UNCHANGED alert
    \/ Tick

\* The runtime keeps polling the task, and requests have a timeout; no client
\* need come back
ASpec == AInit /\ [][ANext]_avars /\ WF_avars(AdapterStep)

-----------------------------------------------------------------------------
(* Properties *)

\* Variables have their types; a request is in flight only for the event the
\* batch stands at.
ATypeOK ==
    /\ TypeOK /\ mode \in Modes
    /\ dedup \in [Kinds -> {Never} \cup 0 .. MaxTime]
    /\ now \in 0 .. MaxTime
    /\ posting = 0 \/ (phase = "send" /\ posting = CurrentEvent)
    /\ sentAt \in Seq([key : Alerting, at : 0 .. MaxTime])

\* webhook.rs 10: all profiles honor dedup_window_secs: two notifications of
\* one key start at least a window apart, whatever lies in between.
NoRepeatWithinWindow ==
    \A i, j \in DOMAIN sentAt :
        (i < j /\ sentAt[i].key = sentAt[j].key) => sentAt[j].at - sentAt[i].at >= Window

\* The external system knows of event e: it got it, or as an alert one of its key
Told(e) == \E d \in delivered : d = e \/ (mode = "alert" /\ events[d] = events[e])

\* output/mod.rs 31: "Implementations should handle retries internally".  What the pump has
\* taken for an adapter reaches the external system, which takes requests again after a
\* bounded number of failures; of an alert it is enough that one of its key does.  It
\* fails: no adapter sends anything twice, a transport error also ends the rest of the
\* batch, and the key of a request that failed suppresses its repeats.
TakenIsDelivered ==
    \A e \in 1 .. MaxEvents :
        (e \in buf /\ (mode = "bulk" \/ (mode = "alert" /\ events[e] \in Alerting)))
            ~> (e <= LastEvent /\ Told(e))
=============================================================================
