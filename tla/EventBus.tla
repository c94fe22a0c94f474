------------------------------ MODULE EventBus ------------------------------
(***************************************************************************)
(* The tokio broadcast channel of RibEvents (external) as one of its       *)
(* receivers sees it: RibManager's sends never wait, the channel retains   *)
(* the last Cap events, and a receiver that fell further behind gets one   *)
(* Lagged error and continues with the oldest retained event.  Events are  *)
(* numbered from 1; of an event only its kind matters.                     *)
(***************************************************************************)
EXTENDS Integers, Sequences

CONSTANTS
    Kinds,      \* kinds of RibEventPayload
    Cap,        \* store.event_capacity: events the channel retains
    MaxEvents   \* bound: events published

ASSUME BusAssumption == Cap \in Nat \ {0} /\ MaxEvents \in Nat

VARIABLES
    events,     \* kinds of the events published so far
    next        \* number of the event this receiver receives next

bus == <<events, next>>

LastEvent == Len(events)

BusInit == events = << >> /\ next = 1

Send(k) == LastEvent < MaxEvents /\ events' = Append(events, k)

CanRecv == next <= LastEvent /\ next > LastEvent - Cap
Lagging == next <= LastEvent - Cap
Drained == next > LastEvent

RecvNext  == next' = next + 1 /\ UNCHANGED events
SkipLost  == next' = LastEvent - Cap + 1 /\ UNCHANGED events
Subscribe == next' = LastEvent + 1 /\ UNCHANGED events

BusTypeOK == events \in Seq(Kinds) /\ LastEvent <= MaxEvents /\ next \in 1 .. LastEvent + 1
=============================================================================
