------------------------------ MODULE LossyLog ------------------------------
(***************************************************************************)
(* What every consumer of the RibEvent broadcast channel promises of its   *)
(* sink: events are numbered as they are published; the consumer settles   *)
(* them in that order, each one once, and only an event that is being      *)
(* settled may leave rows in the sink.  Which of them do is not promised:  *)
(* a slow consumer loses events, a failing sink loses batches.  A consumer *)
(* that tries again leaves rows before it settles (RetryingSpec).          *)
(***************************************************************************)
EXTENDS Integers

VARIABLES
    published,   \* number of events published so far
    settled,     \* events 1 .. settled are stored or lost for good
    sink         \* pairs <<event, part>> the sink holds

logVars == <<published, settled, sink>>

LogInit == published = 0 /\ settled = 0 /\ sink = {}

LogPublish ==
    /\ published' = published + 1
    /\ UNCHANGED <<settled, sink>>

Settle ==
    /\ settled' \in settled + 1 .. published
    /\ sink \subseteq sink'
    /\ \A r \in sink' \ sink : r[1] \in settled + 1 .. settled'
    /\ UNCHANGED published

LogNext == LogPublish \/ Settle

LogSpec == LogInit /\ [][LogNext]_logVars

\* Rows of events that are not settled yet, which may come a second time
Attempt ==
    /\ sink \subseteq sink'
    /\ \A r \in sink' \ sink : r[1] \in settled + 1 .. published
    /\ UNCHANGED <<published, settled>>

RetryingNext == LogNext \/ Attempt

RetryingSpec == LogInit /\ [][RetryingNext]_logVars
=============================================================================
