---------------------------- MODULE QueryEngine -----------------------------
(***************************************************************************)
(* The history queries of crates/rbmp-store/src/query.rs, as operators on  *)
(* the sequence of rows the store writer appended.                         *)
(*                                                                         *)
(* A row of route_events is [table, at, speaker, peer, as, rib, action,    *)
(* prefix, attr]; of path_markings [table, at, speaker, peer, prefix,      *)
(* attr]; of peer_events [table, at, speaker, peer, event]; of             *)
(* speaker_events [table, at, speaker, event].  A query answers with       *)
(* positions in the sequence.  SQL picks any row among those with equal    *)
(* time stamps, so a query that ranks rows has a set of possible answers.  *)
(* ORDER BY and LIMIT of the final result are presentation and left out.   *)
(***************************************************************************)
EXTENDS Integers, FiniteSets, Sequences, Optional

CONSTANTS
    FamilyOf,    \* the address family of a prefix, as the afi column has it
    StatusOf,    \* the bits of the Path Status TLV, Absent if there is none
    Hour         \* length of a bucket of prefix_timeline

Table(rows, t) == {i \in DOMAIN rows : rows[i].table = t}
RouteEvents(rows) == Table(rows, "route_events")
PeerEvents(rows)  == Table(rows, "peer_events")

Announcements(rows) == {i \in RouteEvents(rows) : rows[i].action = "announce"}

\* The members of I as the reflexive order Q lists them: n of them come up to the n-th
InOrder(I, Q) == [n \in 1 .. Cardinality(I) |->
                    CHOOSE i \in I : Cardinality({j \in I : <<j, i>> \in Q}) = n]

Groups(I, Key(_)) == {{i \in I : Key(i) = k} : k \in {Key(i) : i \in I}}

\* ROW_NUMBER() OVER (PARTITION BY ... ORDER BY occurred_at DESC) = 1: one newest row
\* of each group
Newest(rows, g) == {i \in g : \A j \in g : rows[j].at <= rows[i].at}

FirstOfEach(rows, groups) ==
    {S \in SUBSET UNION groups : \A g \in groups : \E i \in Newest(rows, g) : S \cap g = {i}}

-----------------------------------------------------------------------------
(* Routes *)

\* Mutant: the rows are narrowed to announcements before they are ranked
CurrentRibRanksAnnounces(rows, p, ribTypes) ==
    FirstOfEach(rows, Groups({i \in Announcements(rows) : rows[i].peer = p /\ rows[i].rib \in ribTypes},
                             LAMBDA i : rows[i].prefix))

\* current_rib: the newest row of each prefix, if it announces.  Without a rib_type
\* (ribTypes is then every type) rows of all RIB types compete for the prefix.
CurrentRib(rows, p, ribTypes) ==
    {S \cap Announcements(rows) :
        S \in FirstOfEach(rows,
                Groups({i \in RouteEvents(rows) : rows[i].peer = p /\ rows[i].rib \in ribTypes},
                       LAMBDA i : rows[i].prefix))}

PrefixHistory(rows, x) == {i \in RouteEvents(rows) : rows[i].prefix = x}

\* until may be Absent
RouteChanges(rows, since, until) ==
    {i \in RouteEvents(rows) : /\ rows[i].at >= since
                               /\ until # Absent => rows[i].at <= until}

TopChurningPrefixes(rows) ==
    [x \in {rows[i].prefix : i \in RouteEvents(rows)} |-> Cardinality(PrefixHistory(rows, x))]

\* Rows of one bucket and action
PrefixTimeline(rows, x, since) ==
    [c \in {<<rows[i].at \div Hour, rows[i].action>> :
                i \in PrefixHistory(rows, x) \cap RouteChanges(rows, since, Absent)} |->
        Cardinality({i \in PrefixHistory(rows, x) \cap RouteChanges(rows, since, Absent) :
                        <<rows[i].at \div Hour, rows[i].action>> = c})]

\* Every peer that ever announced the prefix, with its newest announcement: a
\* withdrawal does not remove it
PrefixPeers(rows, x) ==
    FirstOfEach(rows, Groups(PrefixHistory(rows, x) \cap Announcements(rows), LAMBDA i : rows[i].peer))

\* Older first, and of the same age in the order of insertion
Chronological(rows, I) ==
    InOrder(I, {q \in I \X I : \/ rows[q[1]].at < rows[q[2]].at
                               \/ rows[q[1]].at = rows[q[2]].at /\ q[1] <= q[2]})

\* COUNT(DISTINCT prefix) per RIB type, over every prefix that was ever announced
PolicyDelta(rows, p) ==
    LET I == {i \in Announcements(rows) : rows[i].peer = p}
    IN  [r \in {rows[i].rib : i \in I} |->
            Cardinality({rows[i].prefix : i \in {j \in I : rows[j].rib = r}})]

-----------------------------------------------------------------------------
(* Sessions *)

PeerHistory(rows, p) == {i \in PeerEvents(rows) : rows[i].peer = p}

\* Mutant: every event of the peer counts as a flap
PeerFlapsAll(rows, since) ==
    LET downs == {i \in PeerEvents(rows) : rows[i].at >= since}
        who(i) == <<rows[i].peer, rows[i].speaker>>
    IN  [w \in {who(i) : i \in downs} |-> Cardinality({i \in downs : who(i) = w})]

\* peer_down rows per peer and speaker
PeerFlapEvents(rows, since) ==
    LET downs == {i \in PeerEvents(rows) : rows[i].event = "peer_down" /\ rows[i].at >= since}
        who(i) == <<rows[i].peer, rows[i].speaker>>
    IN  [w \in {who(i) : i \in downs} |-> Cardinality({i \in downs : who(i) = w})]

\* The events of a peer in the window, each with the time to the next one (lead),
\* Absent for the last, whichever speakers reported them
PeerSessionTimeline(rows, p, since) ==
    LET s == Chronological(rows, {i \in PeerHistory(rows, p) : rows[i].at >= since})
    IN  [n \in DOMAIN s |->
            [event    |-> rows[s[n]].event,
             duration |-> IF n = Len(s) THEN Absent ELSE rows[s[n + 1]].at - rows[s[n]].at]]

-----------------------------------------------------------------------------
(* Capacity and path status *)

\* upsert_max_prefix behind its endpoint, which refuses 0
UpsertMaxPrefix(limits, s, p, f, n) ==
    IF n = 0 THEN limits ELSE [limits EXCEPT ![<<s, p, f>>] = n]

\* max_prefix_capacity: a row for every speaker, peer, AS and family that has live
\* prefixes, RIB types taken together, and a limit for the speaker, peer and family,
\* whichever AS the limit names.  The trend is 0: no statistic is called 'Prefixes'.
MaxPrefixCapacity(rows, limits) ==
    {LET live   == S \cap Announcements(rows)
         key(i) == <<rows[i].speaker, rows[i].peer, rows[i].as, FamilyOf[rows[i].prefix]>>
         of(w)  == {rows[i].prefix : i \in {j \in live : key(j) = w}}
         lim(w) == limits[<<w[1], w[2], w[4]>>]
     IN  [w \in {v \in {key(i) : i \in live} : lim(v) # Absent} |->
             [live |-> Cardinality(of(w)), max |-> lim(w)]] :
        S \in FirstOfEach(rows, Groups(RouteEvents(rows),
                  LAMBDA i : <<rows[i].speaker, rows[i].peer, rows[i].prefix>>))}

\* The rows written while a path carried a status, of one prefix and peer
PathStatusHistory(rows, x, p, since) ==
    {i \in Table(rows, "path_markings") :
        rows[i].prefix = x /\ rows[i].peer = p /\ rows[i].at >= since}

\* path_status & 2 or & 8: best or primary
ActivePath(bits) == 2 \in bits \/ 8 \in bits

\* The newest status per prefix and peer of the window, of the prefixes with fewer than
\* n active paths (all prefixes if n is Absent).  A withdrawal writes no status.
PathStatusMatrix(rows, n, since) ==
    {LET active(x) == Cardinality({i \in S : rows[i].prefix = x /\ ActivePath(StatusOf[rows[i].attr])})
     IN  {i \in S : n # Absent => active(rows[i].prefix) < n} :
        S \in FirstOfEach(rows, Groups({i \in Table(rows, "path_markings") : rows[i].at >= since},
                  LAMBDA i : <<rows[i].prefix, rows[i].peer>>))}
=============================================================================
