------------------------------ MODULE History -------------------------------
(***************************************************************************)
(* The RIB and the history the store keeps of it: RibManager composed with *)
(* the rows persist_one (crates/rbmp-store/src/writer.rs) writes for its   *)
(* events, and the retention sweep of crates/rbmp-server/src/retention.rs. *)
(*                                                                         *)
(* A RouteChange carries the time its message was read from the socket,    *)
(* every other event the time it was emitted, and messages of different    *)
(* speakers overtake each other between the two: stamps of one speaker     *)
(* never go back, those of two speakers may.  Events are taken to reach    *)
(* the store at once; module StoreWriter has what happens in between.      *)
(***************************************************************************)
EXTENDS RibManager, QueryEngine

Seqs == INSTANCE SequencesExt

CONSTANTS
    Asns,        \* the AS numbers per-peer headers carry
    Retain,      \* retain_days, in ticks; 0 keeps everything
    MaxRows      \* bound on the rows written

ASSUME RetainAssumption == Retain \in Nat

\* A message carries finitely many prefixes
ASSUME PrefixAssumption == IsFiniteSet(Prefixes)

\* None is no number
ASSUME QueryAssumption == Absent \notin Nat

VARIABLES
    recording,   \* the server runs with a store
    rows,        \* the tables, in the order of insertion
    swept        \* peers and keys that have lost a row to retention

storeVars   == <<recording, rows, swept>>
historyVars == <<vars, storeVars>>

HistoryInit == Init /\ recording \in BOOLEAN /\ rows = << >> /\ swept = {}

-----------------------------------------------------------------------------
(* persist_one *)

SpeakerRow(s, e) == [table |-> "speaker_events", at |-> now, speaker |-> s, event |-> e]

PeerRow(s, p, e) ==
    [table |-> "peer_events", at |-> now, speaker |-> s, peer |-> p, event |-> e]

WithdrawRow(s, p, asn, r, x, at) ==
    [table |-> "route_events", at |-> at, speaker |-> s, peer |-> p, as |-> asn, rib |-> r,
     action |-> "withdraw", prefix |-> x, attr |-> NoRoute]

AnnounceRow(s, p, asn, r, x, a, at) ==
    [table |-> "route_events", at |-> at, speaker |-> s, peer |-> p, as |-> asn, rib |-> r,
     action |-> "announce", prefix |-> x, attr |-> a]

MarkingRow(s, p, x, a, at) ==
    [table |-> "path_markings", at |-> at, speaker |-> s, peer |-> p, prefix |-> x, attr |-> a]

\* The rows of the prefixes w withdrawn and n announced by one message: withdrawals first.
\* A path status has a table of its own, so it makes no difference that its rows stand
\* behind those of all announcements and not each behind its own.
ChangeRows(s, p, asn, r, w, n, a, at) ==
    [i \in DOMAIN w |-> WithdrawRow(s, p, asn, r, w[i], at)]
    \o [i \in DOMAIN n |-> AnnounceRow(s, p, asn, r, n[i], a, at)]
    \o IF StatusOf[a] = Absent THEN << >>
       ELSE [i \in DOMAIN n |-> MarkingRow(s, p, n[i], a, at)]

\* The rows of one UPDATE, of what it withdraws and what the filter accepts
UpdateRows(s, p, asn, r, W, A, a, at) ==
    ChangeRows(s, p, asn, r, Seqs!SetToSeq(W), Seqs!SetToSeq(Accepted(p, A, a)), a, at)

Persist(new) ==
    /\ Len(rows) + Len(new) <= MaxRows
    /\ rows' = IF recording THEN rows \o new ELSE rows
    /\ UNCHANGED <<recording, swept>>

\* The stamps a message of the speaker may carry now
Stamps(s) ==
    {t \in 0 .. now : \A i \in RouteEvents(rows) : rows[i].speaker = s => rows[i].at <= t}

-----------------------------------------------------------------------------
(* Retention *)

Old(e) == e.at < now - Retain

\* The tables sweep deletes from, in its order, of those that are modelled: path_markings
\* is not among them
SweptTables == <<"route_events", "peer_events", "speaker_events">>

\* What a sweep that gets as far as the n-th table takes
Outdated(n) == {i \in DOMAIN rows : /\ Old(rows[i])
                                    /\ \E m \in 1 .. n : rows[i].table = SweptTables[m]}

\* The rows at a set of positions, in the order of insertion
RowsAt(I) == LET kept == InOrder(I, {q \in I \X I : q[1] <= q[2]})
             IN  [n \in DOMAIN kept |-> rows[kept[n]]]

\* Mutant: announcements are kept, as the last known routes
SweepKeepsAnnouncements(n) ==
    /\ Retain > 0
    /\ rows' = RowsAt(DOMAIN rows \ (Outdated(n) \ Announcements(rows)))
    /\ UNCHANGED <<vars, recording, swept>>

\* sweep: a DELETE that fails ends it, and the tables behind keep their rows
Sweep(n) ==
    /\ Retain > 0
    /\ rows' = RowsAt(DOMAIN rows \ Outdated(n))
    /\ swept' = swept \cup {<<rows[i].peer, <<rows[i].rib, rows[i].prefix>>>> :
                               i \in Outdated(n) \cap RouteEvents(rows)}
    /\ UNCHANGED <<vars, recording>>

-----------------------------------------------------------------------------

HistoryNext ==
    \/ \E s \in Speakers : Initiation(s) /\ Persist(<<SpeakerRow(s, "speaker_up")>>)
    \/ \E s \in Speakers : Termination(s) /\ Persist(<<SpeakerRow(s, "speaker_down")>>)
    \/ \E s \in Speakers, p \in Peers, secs \in LlgrSecs :
          PeerUp(s, p, secs) /\ Persist(<<PeerRow(s, p, "peer_up")>>)
    \/ \E s \in Speakers, p \in Peers : \E at \in Stamps(s) :
          PeerDown(s, p, at) /\ Persist(<<PeerRow(s, p, "peer_down")>>)
    \/ \E s \in Speakers, p \in Peers, asn \in Asns, r \in RibTypes, a \in Attrs,
          W, A \in SUBSET Prefixes : \E at \in Stamps(s) :
             RouteMonitoring(s, p, r, W, A, a) /\ Persist(UpdateRows(s, p, asn, r, W, A, a, at))
    \/ \E e \in Engines : SetFilter(e) /\ UNCHANGED storeVars
    \/ \E e \in Engines : SetRotoFilter(e) /\ UNCHANGED storeVars
    \/ ClearFilter /\ UNCHANGED storeVars
    \/ NoStateChange /\ UNCHANGED storeVars
    \/ \E p \in Peers, secs \in LlgrSecs : ExpireStaleForPeer(p, secs) /\ UNCHANGED storeVars
    \/ Tick /\ UNCHANGED storeVars
    \/ \E n \in 1 .. Len(SweptTables) : Sweep(n)

HistorySpec == HistoryInit /\ [][HistoryNext]_historyVars

-----------------------------------------------------------------------------
(* Properties *)

\* The rows of one route, in the order they were written
RowsOf(p, k) == {i \in RouteEvents(rows) : /\ rows[i].peer = p /\ rows[i].rib = k[1]
                                           /\ rows[i].prefix = k[2]}

\* No two rows of the route carry the same stamp, and none went back in time
Orderly(p, k) == \A i, j \in RowsOf(p, k) : i < j => rows[i].at < rows[j].at

EndsSession(e, p) == \/ e.table = "peer_events" /\ e.event = "peer_down" /\ e.peer = p
                     \/ e.table = "speaker_events" /\ e.event = "speaker_down"

\* The snapshot current_rib gives for a peer and a RIB type shows every route of the RIB
\* with its attributes; a route it shows besides was lost with a session, whose end the
\* history holds behind the announcement.  This is so while the stamps of the route's rows
\* follow the order of the updates and retention has taken none of them: an UPDATE that
\* withdraws and announces a prefix, or two speakers that overtake each other, leave the
\* choice to the database (query.rs 50-71, manager.rs 155-237, retention.rs 44-61).
SnapshotFollowsRib ==
    \A p \in Peers, k \in Keys :
        (recording /\ Orderly(p, k) /\ <<p, k>> \notin swept) =>
            \A answer \in CurrentRib(rows, p, {k[1]}) :
                /\ Has(p, k) => \E i \in answer \cap RowsOf(p, k) : rows[i].attr = ribs[p][k].attr
                /\ ~Has(p, k) => \A i \in answer \cap RowsOf(p, k) :
                                    \E j \in DOMAIN rows : j > i /\ EndsSession(rows[j], p)

MayList(p, r, x) == \E answer \in CurrentRib(rows, p, {r}) : \E i \in answer : rows[i].prefix = x

\* Retention never brings a withdrawn route back: what the snapshot may show after a
\* sweep it could show before, since rows leave in the order current_rib ranks them
\* (retention.rs 44-61, query.rs 59).
SweepNeverResurrects ==
    [][Len(rows') < Len(rows) =>
          \A p \in Peers, r \in RibTypes, x \in Prefixes : MayList(p, r, x)' => MayList(p, r, x)
      ]_historyVars

\* Every RIB type in the table, as a query without rib_type takes them
StoredTypes == {rows[i].rib : i \in RouteEvents(rows)}

ReportedBy(s, p) == \A i \in RouteEvents(rows) : rows[i].peer = p => rows[i].speaker = s

\* Where a query's window starts: before everything, or one tick ago
Windows == {0, now - 1}

\* The sum of the values of f, as the number of units
Total(f) == Cardinality(UNION {{k} \X (1 .. f[k]) : k \in DOMAIN f})

\* The possible numbers in the answers: the routes of a family the snapshot shows, and the
\* live prefixes the gauge shows beside a limit, all ASes together
StoredFamilies == {FamilyOf[rows[i].prefix] : i \in RouteEvents(rows)}
NoLimits == [w \in Speakers \X Peers \X StoredFamilies |-> Absent]
SnapshotSizes(p, f) == {Cardinality({i \in answer : FamilyOf[rows[i].prefix] = f}) :
                           answer \in CurrentRib(rows, p, StoredTypes)}
LiveCounts(s, p, f) == {Total([w \in DOMAIN c |-> c[w].live]) :
                           c \in MaxPrefixCapacity(rows, UpsertMaxPrefix(NoLimits, s, p, f, 1))}

\* The rows the capacity gauge shows for a peer and a family, one per AS the headers carried,
\* add up to the routes of that family in the snapshot of all RIB types, if one speaker
\* reports the peer.
GaugeIsSnapshot ==
    \A s \in Speakers, p \in Peers, f \in StoredFamilies :
        ReportedBy(s, p) => LiveCounts(s, p, f) = SnapshotSizes(p, f)

\* A RIB type's prefix count of policy_delta is never below its snapshot.
DeltaCoversSnapshot ==
    \A p \in Peers, r \in StoredTypes : \A answer \in CurrentRib(rows, p, {r}) :
        answer # {} => Cardinality(answer) <= PolicyDelta(rows, p)[r]

\* prefix_peers names every peer whose snapshot shows the prefix.
PeersCoverSnapshot ==
    \A p \in Peers, r \in StoredTypes, x \in Prefixes :
        MayList(p, r, x) => \A S \in PrefixPeers(rows, x) : \E i \in S : rows[i].peer = p

\* The flaps of a peer are the downs of its session timeline.
FlapsAreDowns ==
    \A p \in Peers, since \in Windows :
        LET flaps == PeerFlapEvents(rows, since)
            line  == PeerSessionTimeline(rows, p, since)
        IN  Total([s \in {t \in Speakers : <<p, t>> \in DOMAIN flaps} |-> flaps[<<p, s>>]])
               = Cardinality({n \in DOMAIN line : line[n].event = "peer_down"})

\* Churn is the sum of the prefix's timeline.
ChurnAddsUp ==
    \A x \in DOMAIN TopChurningPrefixes(rows) :
        Total(PrefixTimeline(rows, x, 0)) = TopChurningPrefixes(rows)[x]

\* A prefix the status matrix calls unprotected has no active path in the history of any
\* peer that says so last.
UnprotectedIsInactive ==
    \A since \in Windows : \A S \in PathStatusMatrix(rows, 1, since) : \A i \in S :
        LET h == PathStatusHistory(rows, rows[i].prefix, rows[i].peer, since)
        IN  i \in Newest(rows, h) /\ ~ActivePath(StatusOf[rows[i].attr])

\* Views of the same history agree: whatever rows the queries partition, rank, window and
\* count in their own ways, the numbers a reader sees side by side fit together (query.rs
\* 50-120, 147-204, 238-265, 312-333, 695-777, 852-986).
QueriesAgree ==
    /\ GaugeIsSnapshot
    /\ DeltaCoversSnapshot
    /\ PeersCoverSnapshot
    /\ FlapsAreDowns
    /\ ChurnAddsUp
    /\ UnprotectedIsInactive
=============================================================================
