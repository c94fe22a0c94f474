------------------------------ MODULE RibTable ------------------------------
(***************************************************************************)
(* One peer's route table: crates/rbmp-rib/src/table.rs, driven the way    *)
(* RibManager::process drives it (manager.rs 155-237).                     *)
(*                                                                         *)
(* A table maps a key (RIB type, prefix, Add-Path id) to an entry.  The    *)
(* string key "prefix" / "prefix@id" of entry_key is the triple itself;    *)
(* the path id NoPath stands for None.  What recompute_best_path compares  *)
(* is kept (LOCAL_PREF, hop count, MED); every other path attribute is     *)
(* dropped.  u32::MAX is the constant U32Max, so the subtraction of        *)
(* LOCAL_PREF and the defaults for missing attributes keep their effect    *)
(* at the boundary.                                                        *)
(***************************************************************************)
EXTENDS Llgr, Optional

CONSTANTS
    RibTypes,    \* Adj-RIB-In pre/post policy, Loc-RIB, ...
    Prefixes,
    PathIds,     \* Add-Path identifiers (RFC 7911)
    NoPath,      \* path_id = None
    Attrs,       \* the path attributes routes may carry
    U32Max,      \* u32::MAX
    NoRoute      \* no entry under this key

ASSUME PathAssumption == NoPath \notin PathIds

\* local_pref and multi_exit_disc are optional; hop_count() is 0 without AS_PATH.
ASSUME AttrsAssumption ==
    /\ U32Max \in Nat
    /\ Attrs \subseteq [lp   : (0 .. U32Max) \cup {Absent},
                        hops : 0 .. U32Max,
                        med  : (0 .. U32Max) \cup {Absent}]

Paths == PathIds \cup {NoPath}
Keys  == RibTypes \X Prefixes \X Paths
Entry == [attr : Attrs, best : BOOLEAN, stale : StaleMarks]

ASSUME RouteAssumption == NoRoute \notin Entry

VARIABLES
    table,       \* RibTable.tables, keyed by entry_key
    now          \* wall clock (Utc::now, received_at)

tableVars == <<table, now>>

Stored(t)       == {k \in Keys : t[k] # NoRoute}
Siblings(t, k)  == {j \in Stored(t) : j[1] = k[1] /\ j[2] = k[2]}
EmptyTable      == [k \in Keys |-> NoRoute]

-----------------------------------------------------------------------------
(* Best path selection *)

\* u32::MAX - local_pref, or u32::MAX when there is none
LpRank(a)  == IF a.lp = Absent THEN U32Max ELSE U32Max - a.lp
MedRank(a) == OrDefault(a.med, U32Max)

\* min_by_key on the tuple (lp, hop, med): a is at least as good as b
AtLeastAsGood(a, b) ==
    \/ LpRank(a) < LpRank(b)
    \/ LpRank(a) = LpRank(b) /\ a.hops < b.hops
    \/ LpRank(a) = LpRank(b) /\ a.hops = b.hops /\ MedRank(a) <= MedRank(b)

\* Mutant: the shortest AS_PATH is taken without looking at LOCAL_PREF or MED
BestKeysByHops(t, k) ==
    {j \in Siblings(t, k) :
        \A i \in Siblings(t, k) : t[j].attr.hops <= t[i].attr.hops}

\* The keys min_by_key may return.  Ties go to the first key in HashMap
\* iteration order, which is randomised: any minimum may be chosen.
BestKeys(t, k) ==
    {j \in Siblings(t, k) :
        \A i \in Siblings(t, k) : AtLeastAsGood(t[j].attr, t[i].attr)}

\* Mutant: the flag of the winner is set, the flag of the others is kept
RecomputeWithoutReset(t, k, b) == [t EXCEPT ![b].best = TRUE]

\* recompute_best_path once the winner b among k's siblings is chosen
RecomputeBestPath(t, k, b) ==
    [j \in Keys |-> IF j \in Siblings(t, k)
                      THEN [t[j] EXCEPT !.best = (j = b)]
                      ELSE t[j]]

\* RibTable::insert of a new entry (is_best true, Normal, stale_at None)
Insert(t, k, a) == [t EXCEPT ![k] = [attr |-> a, best |-> TRUE, stale |-> Fresh]]

RemoveWithPathId(t, k) == [t EXCEPT ![k] = NoRoute]

MarkStaleAll(t, at) ==
    [k \in Keys |-> IF t[k] = NoRoute THEN NoRoute ELSE MarkStale(t[k], at)]

DrainDeletedStale(t, at, secs) ==
    [k \in Keys |-> IF t[k] # NoRoute /\ Expired(t[k], at, secs) THEN NoRoute ELSE t[k]]

-----------------------------------------------------------------------------
TableInit == table = EmptyTable /\ now = 0

\* An announced Add-Path route: insert, then recompute (manager.rs 219-223)
AnnouncePath(k, a) ==
    /\ k[3] # NoPath
    /\ LET t == Insert(table, k, a)
       IN  \E b \in BestKeys(t, k) : table' = RecomputeBestPath(t, k, b)
    /\ UNCHANGED now

\* An announced route without path id: insert only
AnnouncePlain(k, a) ==
    /\ k[3] = NoPath
    /\ table' = Insert(table, k, a)
    /\ UNCHANGED now

\* A withdrawn route (manager.rs 158-159): no recomputation follows
Withdraw(k) ==
    /\ table' = RemoveWithPathId(table, k)
    /\ UNCHANGED now

\* Peer Down with LLGR, and Peer Down without
PeerDownLlgr == table' = MarkStaleAll(table, now) /\ UNCHANGED now
ClearAll     == table' = EmptyTable /\ UNCHANGED now

\* clear_rib: public, without a caller in the server
ClearRib(r) ==
    /\ table' = [k \in Keys |-> IF k[1] = r THEN NoRoute ELSE table[k]]
    /\ UNCHANGED now

ExpireStale(secs) ==
    /\ table' = DrainDeletedStale(table, now, secs)
    /\ UNCHANGED now

Tick == now < MaxTime /\ now' = now + 1 /\ UNCHANGED table

TableNext ==
    \/ \E k \in Keys, a \in Attrs : AnnouncePath(k, a)
    \/ \E k \in Keys, a \in Attrs : AnnouncePlain(k, a)
    \/ \E k \in Keys : Withdraw(k)
    \/ PeerDownLlgr
    \/ ClearAll
    \/ \E r \in RibTypes : ClearRib(r)
    \/ \E secs \in Time : ExpireStale(secs)
    \/ Tick

TableSafety == TableInit /\ [][TableNext]_tableVars

-----------------------------------------------------------------------------
(* Properties *)

\* Every key has an entry of its type or none.
TableTypeOK == table \in [Keys -> Entry \cup {NoRoute}] /\ now \in Time

PathKeys == {k \in Keys : k[3] # NoPath}

\* Whatever sequence of announcements, withdrawals and stale expiries ran, at most one
\* Add-Path route of a prefix carries is_best, and no other Add-Path route of the prefix
\* beats it on (LOCAL_PREF, AS_PATH length, MED): recompute_best_path clears the flag of
\* every sibling, although withdrawals and expiries do not recompute and ties are
\* decided by the order of a HashMap (table.rs 68-96).
BestPathIsUniqueAndOptimal ==
    \A j, k \in PathKeys \cap Stored(table) :
        (j[1] = k[1] /\ j[2] = k[2] /\ table[j].best)
            => /\ table[k].best => j = k
               /\ AtLeastAsGood(table[j].attr, table[k].attr)
=============================================================================
