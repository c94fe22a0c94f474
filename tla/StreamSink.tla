----------------------------- MODULE StreamSink -----------------------------
(***************************************************************************)
(* The receivers of the event channel that pass on one event at a time:    *)
(* the Kafka sink (crates/rbmp-kafka/src), the NATS sink                   *)
(* (crates/rbmp-nats/src) and a client of the server-sent events endpoint  *)
(* (crates/rbmp-server/src/api/events.rs).  They share AdapterPump's state *)
(* with a batch of one.  Which topic, key or event name an event gets is   *)
(* left out, as are cancellation and serialisation, which cannot fail.     *)
(* What the Kafka and NATS clients do with an accepted message is external.*)
(***************************************************************************)
EXTENDS AdapterPump

\* The receive loops of run_kafka_sink, run_nats_sink and the SSE stream: an
\* event is taken, a gap is logged (or shown to the SSE client) and skipped
TakeOne ==
    /\ phase = "wait" /\ CanRecv
    /\ buf' = {next} /\ phase' = "send"
    /\ RecvNext /\ UNCHANGED <<delivered, faults>>

SkipGap == RecvLagged /\ UNCHANGED <<delivered, faults>>

\* KafkaProducer::publish waits for the delivery report; after the 5 s timeout
\* the broker may have the message or not, and it is not sent again
KafkaPublish == SendAccepted \/ SendFailed

\* NatsPublisher::publish hands the message to the client, or logs that it is closed
NatsPublish ==
    \/ SendAccepted
    \/ /\ phase = "send"
       /\ faults < MaxFaults /\ faults' = faults + 1
       /\ BatchDone /\ UNCHANGED delivered

\* The SSE stream yields the event to the connection
SseEmit == SendAccepted

\* Mutant: the client gets what the channel still retains
SseReconnectReplays ==
    /\ faults < MaxFaults /\ faults' = faults + 1
    /\ buf' = {} /\ phase' = "wait"
    /\ next' = IF LastEvent > Cap THEN LastEvent - Cap + 1 ELSE 1
    /\ UNCHANGED <<events, delivered>>

\* A client that comes back gets a new subscription: what was published in
\* between, and the event being written when the connection broke, are not sent
SseReconnect ==
    /\ faults < MaxFaults /\ faults' = faults + 1
    /\ buf' = {} /\ phase' = "wait"
    /\ Subscribe /\ UNCHANGED delivered

StreamStep(mode) ==
    /\ mode \in {"kafka", "nats", "sse"}
    /\ \/ TakeOne
       \/ SkipGap
       \/ mode = "kafka" /\ KafkaPublish
       \/ mode = "nats" /\ NatsPublish
       \/ mode = "sse" /\ SseEmit
=============================================================================
