------------------------------ MODULE Optional ------------------------------
(* Option<T>: a value, or Absent for None. *)

CONSTANT Absent

\* unwrap_or
OrDefault(v, d) == IF v = Absent THEN d ELSE v
=============================================================================
