----------------------------- MODULE AdapterPump ----------------------------
(***************************************************************************)
(* The task that feeds RibEvents to an output adapter                      *)
(* (crates/rbmp-server/src/output/mod.rs) and the adapters that post a     *)
(* batch in one request (elasticsearch.rs, splunk.rs).                     *)
(*                                                                         *)
(* The pump waits for an event, takes what else is queued without waiting, *)
(* up to BATCH_SIZE, and calls send_batch.  A failed batch is logged and   *)
(* cleared.  try_recv reports Lagged like Empty: the drain ends, and the   *)
(* receiver has skipped the lost events.  Documents are left out, as is    *)
(* Closed: the manager that owns the sender lives as long as the process.  *)
(***************************************************************************)
EXTENDS EventBus, FiniteSets

CONSTANTS
    BatchSize,  \* BATCH_SIZE
    MaxFaults   \* bound: failed requests

ASSUME PumpAssumption == BatchSize \in Nat \ {0} /\ MaxFaults \in Nat

VARIABLES
    buf,        \* numbers of the events in the batch
    phase,      \* "wait" in recv, "drain" in try_recv, "send" in send_batch
    delivered,  \* numbers of the events the external system accepted
    faults      \* requests that failed so far

pump == <<buf, phase>>
vars == <<bus, pump, delivered, faults>>

Init ==
    /\ BusInit
    /\ buf = {} /\ phase = "wait"
    /\ delivered = {} /\ faults = 0

-----------------------------------------------------------------------------
(* spawn_adapter_pump *)

PublishEvent(k) == Send(k) /\ UNCHANGED <<next, pump>>

RecvFirst ==
    /\ phase = "wait" /\ CanRecv
    /\ buf' = {next} /\ phase' = "drain"
    /\ RecvNext

RecvLagged ==
    /\ phase = "wait" /\ Lagging
    /\ SkipLost /\ UNCHANGED pump

DrainMore ==
    /\ phase = "drain" /\ CanRecv /\ Cardinality(buf) < BatchSize
    /\ buf' = buf \cup {next}
    /\ RecvNext /\ UNCHANGED phase

\* Err(_) => break: also taken for Lagged
DrainLagged ==
    /\ phase = "drain" /\ Lagging /\ Cardinality(buf) < BatchSize
    /\ SkipLost
    /\ phase' = "send" /\ UNCHANGED buf

\* Mutant: the pump sends full batches only
DrainDoneWhenFull ==
    /\ phase = "drain" /\ Cardinality(buf) >= BatchSize
    /\ phase' = "send"
    /\ UNCHANGED <<bus, buf>>

DrainDone ==
    /\ phase = "drain" /\ (Drained \/ Cardinality(buf) >= BatchSize)
    /\ phase' = "send"
    /\ UNCHANGED <<bus, buf>>

PumpStep == RecvFirst \/ RecvLagged \/ DrainMore \/ DrainLagged \/ DrainDone

\* send_batch returned: buf.clear()
BatchDone == buf' = {} /\ phase' = "wait" /\ UNCHANGED bus

-----------------------------------------------------------------------------
(* send_batch of the bulk adapters: one request *)

SendAccepted ==
    /\ phase = "send"
    /\ delivered' = delivered \cup buf
    /\ BatchDone /\ UNCHANGED faults

\* The request fails or its status is not a success; after a timeout the
\* external system may have taken the batch
SendFailed ==
    /\ phase = "send"
    /\ faults < MaxFaults /\ faults' = faults + 1
    /\ delivered' \in {delivered, delivered \cup buf}
    /\ BatchDone

-----------------------------------------------------------------------------
(* Properties *)

\* Variables have their types and a batch holds at most BATCH_SIZE events.
TypeOK ==
    /\ BusTypeOK
    /\ buf \subseteq 1 .. next - 1 /\ Cardinality(buf) <= BatchSize
    /\ phase \in {"wait", "drain", "send"}
    /\ delivered \subseteq 1 .. LastEvent
    /\ faults \in 0 .. MaxFaults

\* The pump never waits for more events while it holds some: a batch, full or
\* not, is sent, and everything published is taken from the channel.
NothingHeldBack == <>[](buf = {} /\ Drained)

Settled == IF buf = {} THEN next - 1
           ELSE (CHOOSE e \in buf : \A f \in buf : e <= f) - 1

Log == INSTANCE LossyLog WITH
           published <- LastEvent, settled <- Settled, sink <- {<<e, 1>> : e \in delivered}

\* The consumer settles events in order: once it has gone on from an event, delivered, given
\* up or skipped, the external system never gets that event again, and it gets none that was
\* not published.  Whether a failed request is tried again first is left open.
ImplementsRetryingLog == Log!RetryingSpec
=============================================================================
