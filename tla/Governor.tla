------------------------------ MODULE Governor ------------------------------
(***************************************************************************)
(* The write and rate loops of the resource governor:                      *)
(* crates/rbmp-server/src/governor.rs.                                     *)
(*                                                                         *)
(* Both loops tick once a second.  The write loop raises its flag when the *)
(* message channel was more than half full at Sustain ticks in a row; the  *)
(* rate loop compares the events counted since its last tick with the      *)
(* budget.  over_half saturates: values beyond Sustain are not told apart. *)
(* The action counters are metrics and left out, as is the memory loop,    *)
(* whose flag no other code reads.                                         *)
(***************************************************************************)
EXTENDS Integers

CONSTANTS
    Sustain,     \* ticks the channel must stay above half (60)
    Budget       \* rate_budget_eps

ASSUME GovernorAssumption == Sustain \in Nat \ {0} /\ Budget \in Nat

VARIABLES
    counted,     \* inbound_event_counter
    last,        \* the rate loop's counter value at its last tick
    overHalf,    \* ticks in a row with the channel above half
    writeFlag,   \* write_pressure_active
    shedding     \* rate_shedding_active

rate     == <<counted, last, shedding>>
write    == <<overHalf, writeFlag>>
governor == <<rate, write>>

GovernorInit ==
    /\ counted = 0 /\ last = 0 /\ overHalf = 0
    /\ writeFlag = FALSE /\ shedding = FALSE

\* 100 - avail * 100 / cap in unsigned integers
UsedPct(avail, cap) == 100 - (avail * 100) \div cap

\* spawn_write_loop, one tick
WriteTick(avail, cap) ==
    /\ IF UsedPct(avail, cap) > 50
         THEN /\ overHalf' = IF overHalf = Sustain THEN Sustain ELSE overHalf + 1
              /\ writeFlag' = (writeFlag \/ overHalf' = Sustain)
         ELSE overHalf' = 0 /\ writeFlag' = FALSE
    /\ UNCHANGED rate

\* Mutant: the reference value is only moved while the rate is in budget
RateTickKeepsLast ==
    /\ shedding' = (counted - last > Budget)
    /\ last' = IF shedding' THEN last ELSE counted
    /\ UNCHANGED <<counted, write>>

\* spawn_rate_loop, one tick
RateTick ==
    /\ shedding' = (counted - last > Budget)
    /\ last' = counted
    /\ UNCHANGED <<counted, write>>

\* record_event
RecordEvent == counted' = counted + 1 /\ UNCHANGED <<last, shedding, write>>

GovernorTypeOK ==
    /\ counted \in Nat /\ last \in 0 .. counted
    /\ overHalf \in 0 .. Sustain
    /\ writeFlag \in BOOLEAN /\ shedding \in BOOLEAN
=============================================================================
