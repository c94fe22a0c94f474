-------------------------------- MODULE Llgr --------------------------------
(***************************************************************************)
(* Long-lived graceful restart marks on one RibEntry (table.rs 124-156).   *)
(*                                                                         *)
(* llgr_state and stale_at are one field "stale": they are always assigned *)
(* together (Normal with None, StaleMarked with Some(t)), and Deleted is   *)
(* only ever assigned to an entry that the same statement removes.         *)
(***************************************************************************)
EXTENDS Integers

CONSTANTS
    Fresh,       \* llgr_state = Normal, stale_at = None
    MaxTime      \* bound on the clock

ASSUME TimeAssumption == MaxTime \in Nat /\ Fresh \notin Int

Time       == 0 .. MaxTime
StaleMarks == Time \cup {Fresh}

\* Mutants: the timestamp is overwritten; the timestamp is one tick early
MarkStaleAgain(e, at) == [e EXCEPT !.stale = at]
MarkStaleEarly(e, at) == IF e.stale = Fresh THEN [e EXCEPT !.stale = at - 1] ELSE e

\* mark_stale_all on one entry: only a Normal entry gets the timestamp
MarkStale(e, at) == IF e.stale = Fresh THEN [e EXCEPT !.stale = at] ELSE e

\* drain_deleted_stale on one entry: its stale timer has run out
Expired(e, at, secs) == e.stale # Fresh /\ at - e.stale >= secs
=============================================================================
