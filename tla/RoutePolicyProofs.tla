------------------------- MODULE RoutePolicyProofs --------------------------
(***************************************************************************)
(* Which routes are best and which filter is in force: the best-path flags *)
(* of a route table, for any sets of RIB types, prefixes, Add-Path         *)
(* identifiers and attributes; the reloads of the filter file, for any     *)
(* contents, number of concurrent calls and channel capacity; and what a   *)
(* filter list means, for any rules, routes and expressions.               *)
(***************************************************************************)
EXTENDS RibTable, FilterReload, FilterRules, TLAPS

-----------------------------------------------------------------------------
(* RibTable: operators on tables *)

\* insert stores an entry.
LEMMA InsertType ==
    ASSUME NEW t \in [Keys -> Entry \cup {NoRoute}], NEW k \in Keys, NEW a \in Attrs
    PROVE  Insert(t, k, a) \in [Keys -> Entry \cup {NoRoute}]
BY DEF Insert, Entry, StaleMarks

\* recompute_best_path keeps every entry but for its flag, which the winner alone has.
LEMMA RecomputeEntry ==
    ASSUME NEW t \in [Keys -> Entry \cup {NoRoute}], NEW k \in Keys, NEW b, NEW j \in Keys
    PROVE  LET u == RecomputeBestPath(t, k, b) IN
           /\ u \in [Keys -> Entry \cup {NoRoute}]
           /\ j \notin Siblings(t, k) => u[j] = t[j]
           /\ j \in Siblings(t, k) => /\ u[j] # NoRoute
                                      /\ u[j].attr = t[j].attr
                                      /\ u[j].best = (j = b)
<1> DEFINE u == RecomputeBestPath(t, k, b)
<1>1. \A i \in Keys : i \in Siblings(t, k) => t[i] \in Entry
  BY DEF Siblings, Stored
<1>2. \A i \in Keys : i \in Siblings(t, k) =>
          /\ [t[i] EXCEPT !.best = (i = b)] \in Entry
          /\ [t[i] EXCEPT !.best = (i = b)].attr = t[i].attr
          /\ [t[i] EXCEPT !.best = (i = b)].best = (i = b)
  BY <1>1 DEF Entry
<1>3. u \in [Keys -> Entry \cup {NoRoute}]
  BY <1>2 DEF RecomputeBestPath
<1> QED
  BY <1>2, <1>3, RouteAssumption DEF RecomputeBestPath

\* mark_stale_all keeps attributes and flags.
LEMMA MarkStaleKeeps ==
    ASSUME NEW e \in Entry, NEW at \in Time
    PROVE  /\ MarkStale(e, at) \in Entry
           /\ MarkStale(e, at).attr = e.attr /\ MarkStale(e, at).best = e.best
BY DEF MarkStale, Entry, StaleMarks

-----------------------------------------------------------------------------
(* RibTable: types *)

\* Announcements, withdrawals, stale marking and expiry leave a table of entries.
THEOREM TableTypeCorrect == TableSafety => []TableTypeOK
<1>1. TableInit => TableTypeOK
  BY TimeAssumption DEF TableInit, TableTypeOK, EmptyTable, Time
<1>2. TableTypeOK /\ [TableNext]_tableVars => TableTypeOK'
  <2> SUFFICES ASSUME TableTypeOK, [TableNext]_tableVars PROVE TableTypeOK'
    OBVIOUS
  <2> USE DEF TableTypeOK
  <2>1. ASSUME NEW k \in Keys, NEW a \in Attrs, AnnouncePath(k, a) PROVE TableTypeOK'
    <3>1. PICK b : table' = RecomputeBestPath(Insert(table, k, a), k, b)
      BY <2>1 DEF AnnouncePath
    <3>2. Insert(table, k, a) \in [Keys -> Entry \cup {NoRoute}]
      BY InsertType
    <3>3. now' = now
      BY <2>1 DEF AnnouncePath
    <3> QED
      BY <3>1, <3>2, <3>3, RecomputeEntry
  <2>2. ASSUME NEW k \in Keys, NEW a \in Attrs, AnnouncePlain(k, a) PROVE TableTypeOK'
    BY <2>2, InsertType DEF AnnouncePlain
  <2>3. ASSUME NEW k \in Keys, Withdraw(k) PROVE TableTypeOK'
    BY <2>3 DEF Withdraw, RemoveWithPathId
  <2>4. CASE PeerDownLlgr
    <3>1. \A k \in Keys : table[k] # NoRoute => MarkStale(table[k], now) \in Entry
      BY MarkStaleKeeps
    <3> QED
      BY <2>4, <3>1 DEF PeerDownLlgr, MarkStaleAll
  <2>5. CASE ClearAll
    BY <2>5 DEF ClearAll, EmptyTable
  <2>6. ASSUME NEW r \in RibTypes, ClearRib(r) PROVE TableTypeOK'
    BY <2>6 DEF ClearRib
  <2>7. ASSUME NEW secs \in Time, ExpireStale(secs) PROVE TableTypeOK'
    BY <2>7 DEF ExpireStale, DrainDeletedStale
  <2>8. CASE Tick
    BY <2>8, TimeAssumption DEF Tick, Time
  <2>9. CASE UNCHANGED tableVars
    BY <2>9 DEF tableVars
  <2> QED
    BY <2>1, <2>2, <2>3, <2>4, <2>5, <2>6, <2>7, <2>8, <2>9 DEF TableNext
<1> QED
  BY <1>1, <1>2, PTL DEF TableSafety

-----------------------------------------------------------------------------
(* Best paths *)

\* A step that takes entries away, or keeps their attributes and flags, keeps the
\* best paths unique and optimal.
LEMMA FewerRoutes ==
    ASSUME BestPathIsUniqueAndOptimal,
           \A k \in PathKeys \cap Stored(table') :
               /\ k \in Stored(table)
               /\ table'[k].attr = table[k].attr /\ table'[k].best = table[k].best
    PROVE  BestPathIsUniqueAndOptimal'
BY DEF BestPathIsUniqueAndOptimal, PathKeys

\* An Add-Path announcement: among the routes of its prefix only the winner is best,
\* and the winner is a minimum; the routes of other prefixes are as before.
LEMMA AnnouncePathStep ==
    ASSUME TableTypeOK, BestPathIsUniqueAndOptimal,
           NEW k \in Keys, NEW a \in Attrs, AnnouncePath(k, a)
    PROVE  BestPathIsUniqueAndOptimal'
<1> DEFINE t == Insert(table, k, a)
<1>1. PICK b \in BestKeys(t, k) : table' = RecomputeBestPath(t, k, b)
  BY DEF AnnouncePath
<1>2. t \in [Keys -> Entry \cup {NoRoute}]
  BY InsertType DEF TableTypeOK
<1>3. \A j \in Keys : j # k => t[j] = table[j]
  BY DEF Insert, TableTypeOK
<1>4. k \in Siblings(t, k)
  <2>1. t[k] = [attr |-> a, best |-> TRUE, stale |-> Fresh]
    BY DEF Insert, TableTypeOK
  <2>2. t[k] \in Entry
    BY <2>1 DEF Entry, StaleMarks
  <2>3. t[k] # NoRoute
    BY <2>2, RouteAssumption
  <2> QED
    BY <2>3 DEF Siblings, Stored
<1>5. \A j \in Stored(table') :
          \/ /\ j \in Siblings(t, k) /\ table'[j].attr = t[j].attr
             /\ table'[j].best = (j = b)
          \/ /\ ~(j[1] = k[1] /\ j[2] = k[2])
             /\ j \in Stored(table) /\ table'[j] = table[j]
  <2> SUFFICES ASSUME NEW j \in Stored(table'), j \notin Siblings(t, k)
               PROVE  /\ ~(j[1] = k[1] /\ j[2] = k[2])
                      /\ j \in Stored(table) /\ table'[j] = table[j]
    BY <1>1, <1>2, RecomputeEntry DEF Stored
  <2>1. table'[j] = t[j] /\ j \in Keys
    BY <1>1, <1>2, RecomputeEntry DEF Stored
  <2>2. j \in Stored(t) /\ j # k
    BY <2>1, <1>4 DEF Stored
  <2> QED
    BY <1>3, <2>1, <2>2 DEF Siblings, Stored
<1>6. \A i \in Siblings(t, k) : AtLeastAsGood(t[b].attr, t[i].attr)
  BY DEF BestKeys
<1> HIDE DEF t
<1> QED
  <2> SUFFICES ASSUME NEW i \in PathKeys \cap Stored(table'), NEW j \in PathKeys \cap Stored(table'),
                      i[1] = j[1], i[2] = j[2], table'[i].best
               PROVE  /\ table'[j].best => i = j
                      /\ AtLeastAsGood(table'[i].attr, table'[j].attr)
    BY DEF BestPathIsUniqueAndOptimal
  <2>1. CASE i \in Siblings(t, k)
    <3>1. j \in Siblings(t, k)
      BY <1>5, <2>1 DEF Siblings
    <3>2. i = b /\ table'[i].attr = t[i].attr /\ table'[j].attr = t[j].attr
          /\ table'[j].best = (j = b)
      BY <1>5, <2>1, <3>1 DEF Siblings
    <3> QED
      BY <1>6, <3>1, <3>2
  <2>2. CASE i \notin Siblings(t, k)
    <3>1. i \in Stored(table) /\ table'[i] = table[i]
      BY <1>5, <2>2
    <3>2. j \in Stored(table) /\ table'[j] = table[j]
      BY <1>5, <2>2 DEF Siblings
    <3> QED
      BY <3>1, <3>2 DEF BestPathIsUniqueAndOptimal, PathKeys
  <2> QED
    BY <2>1, <2>2

\* table.rs 68-96: whatever was announced, withdrawn, marked stale and expired, and
\* however ties were decided, the Add-Path routes of a prefix have at most one best
\* path and none of them beats it.
THEOREM BestPathHolds == TableSafety => []BestPathIsUniqueAndOptimal
<1>1. TableInit => BestPathIsUniqueAndOptimal
  BY DEF TableInit, EmptyTable, BestPathIsUniqueAndOptimal, Stored
<1>2. TableTypeOK /\ BestPathIsUniqueAndOptimal /\ [TableNext]_tableVars
      => BestPathIsUniqueAndOptimal'
  <2> SUFFICES ASSUME TableTypeOK, BestPathIsUniqueAndOptimal, [TableNext]_tableVars
               PROVE  BestPathIsUniqueAndOptimal'
    OBVIOUS
  <2>1. ASSUME NEW k \in Keys, NEW a \in Attrs, AnnouncePath(k, a)
        PROVE  BestPathIsUniqueAndOptimal'
    BY <2>1, AnnouncePathStep
  <2>2. ASSUME NEW k \in Keys, NEW a \in Attrs, AnnouncePlain(k, a)
        PROVE  BestPathIsUniqueAndOptimal'
    BY <2>2, FewerRoutes DEF AnnouncePlain, Insert, PathKeys, Stored, TableTypeOK
  <2>3. ASSUME NEW k \in Keys, Withdraw(k)
        PROVE  BestPathIsUniqueAndOptimal'
    BY <2>3, FewerRoutes DEF Withdraw, RemoveWithPathId, Stored, TableTypeOK
  <2>4. CASE PeerDownLlgr
    <3>1. \A k \in Stored(table) : table[k] \in Entry /\ now \in Time
      BY DEF Stored, TableTypeOK
    <3>2. \A k \in Stored(table') : /\ k \in Stored(table)
                                    /\ table'[k] = MarkStale(table[k], now)
      BY <2>4 DEF PeerDownLlgr, MarkStaleAll, Stored
    <3> QED
      BY <3>1, <3>2, MarkStaleKeeps, FewerRoutes
  <2>5. CASE ClearAll
    BY <2>5, FewerRoutes DEF ClearAll, EmptyTable, Stored
  <2>6. ASSUME NEW r \in RibTypes, ClearRib(r)
        PROVE  BestPathIsUniqueAndOptimal'
    BY <2>6, FewerRoutes DEF ClearRib, Stored
  <2>7. ASSUME NEW secs \in Time, ExpireStale(secs)
        PROVE  BestPathIsUniqueAndOptimal'
    BY <2>7, FewerRoutes DEF ExpireStale, DrainDeletedStale, Stored
  <2>8. CASE Tick \/ UNCHANGED tableVars
    BY <2>8, FewerRoutes DEF Tick, tableVars
  <2> QED
    BY <2>1, <2>2, <2>3, <2>4, <2>5, <2>6, <2>7, <2>8 DEF TableNext
<1> QED
  BY <1>1, <1>2, TableTypeCorrect, PTL DEF TableSafety

-----------------------------------------------------------------------------
(* FilterReload *)

\* The values a hand takes are hands, and so is an aged one.
LEMMA HandType ==
    /\ Nothing \in Hands
    /\ \A c \in Loadable : Loaded(c) \in Hands
    /\ \A h \in Hands : Aged(h) \in Hands /\ (Aged(h).held => Aged(h).old)
<1>1. Nothing \in Hands /\ \A c \in Loadable : Loaded(c) \in Hands
  BY DEF Nothing, Loaded, Hands
<1>2. ASSUME NEW h \in Hands PROVE Aged(h) \in Hands /\ (Aged(h).held => Aged(h).old)
  BY DEF Aged, Hands
<1> QED BY <1>1, <1>2

\* What a hand that holds something can be is known from its type.
LEMMA InstalledType ==
    ASSUME NEW h \in Hands PROVE h.engine \in Loadable \cup {NoEngine} /\ h.old \in BOOLEAN
BY DEF Hands

\* Every write, relay, load and installation keeps the state well formed: what the
\* task and the calls hold, and what is in force, is nothing or a content that loads.
THEOREM ReloadTypeCorrect == ReloadSafety => []ReloadTypeOK
<1>1. ReloadInit => ReloadTypeOK
  <2> SUFFICES ASSUME ReloadInit PROVE ReloadTypeOK
    OBVIOUS
  <2>1. calls \in [Calls -> Hands] /\ hand \in Hands
    BY HandType DEF ReloadInit
  <2>2. foreign \in BOOLEAN
    BY DEF ReloadInit
  <2> QED BY <2>1, <2>2 DEF ReloadInit, ReloadTypeOK
<1>2. ReloadTypeOK /\ [ReloadNext]_reloadVars => ReloadTypeOK'
  <2> SUFFICES ASSUME ReloadTypeOK, [ReloadNext]_reloadVars PROVE ReloadTypeOK'
    OBVIOUS
  <2> USE CapAssumption, ContentAssumption DEF ReloadTypeOK
  <2>1. ASSUME NEW c \in Contents, WriteFile(c) PROVE ReloadTypeOK'
    BY <2>1, HandType DEF WriteFile
  <2>2. CASE WatchFails BY <2>2 DEF WatchFails
  <2>3. CASE Watch BY <2>3 DEF Watch
  <2>4. CASE SignalInitialLoad BY <2>4 DEF SignalInitialLoad
  <2>5. CASE Relay BY <2>5 DEF Relay
  <2>6. CASE TaskLoad BY <2>6, HandType DEF TaskLoad
  <2>7. CASE TaskInstall BY <2>7, HandType, InstalledType DEF TaskInstall
  <2>8. ASSUME NEW k \in Calls, CallLoad(k) PROVE ReloadTypeOK'
    BY <2>8, HandType DEF CallLoad
  <2>9. ASSUME NEW k \in Calls, CallInstall(k) PROVE ReloadTypeOK'
    BY <2>9, HandType, InstalledType DEF CallInstall
  <2>10. ASSUME NEW c \in Contents, OnboardFilter(c) PROVE ReloadTypeOK'
    BY <2>10 DEF OnboardFilter
  <2>11. CASE UNCHANGED reloadVars BY <2>11 DEF reloadVars
  <2> QED BY <2>1, <2>2, <2>3, <2>4, <2>5, <2>6, <2>7, <2>8, <2>9, <2>10, <2>11
          DEF ReloadNext
<1> QED BY <1>1, <1>2, PTL DEF ReloadSafety

-----------------------------------------------------------------------------
\* What the thread's progress says of the task: nothing is signalled or loaded before
\* the thread relays, and an engine the task still holds, with no signal pending, was
\* read from the file as it is now.
TaskHoldsCurrent ==
    /\ thread # "relay" => queue = 0 /\ ~hand.held
    /\ (thread = "relay" /\ notes = 0 /\ queue = 0 /\ hand.held) => hand.engine = file

\* A call whose engine has not aged holds the content of the file.
YoungCallsHoldCurrent ==
    \A k \in Calls : (calls[k].held /\ ~calls[k].old) => calls[k].engine = file

ReloadInv == ReloadTypeOK /\ TaskHoldsCurrent /\ YoungCallsHoldCurrent /\ QuietFilterIsCurrent

\* Once every notification is worked off, the engine in force is the file's content,
\* unless the last installation was posted or was made by a call that read the file
\* before its last write.  Inductive with TaskHoldsCurrent (a write while the task
\* holds an engine leaves a notification behind) and YoungCallsHoldCurrent.
THEOREM QuietFilterIsCurrentHolds == ReloadSafety => []QuietFilterIsCurrent
<1>1. ReloadInit /\ ReloadTypeOK => ReloadInv
  BY DEF ReloadInit, ReloadInv, Nothing, TaskHoldsCurrent, YoungCallsHoldCurrent,
         QuietFilterIsCurrent, Quiet
<1>2. ReloadInv /\ ReloadTypeOK' /\ [ReloadNext]_reloadVars => ReloadInv'
  <2> SUFFICES ASSUME ReloadInv, ReloadTypeOK', [ReloadNext]_reloadVars
               PROVE  TaskHoldsCurrent' /\ YoungCallsHoldCurrent' /\ QuietFilterIsCurrent'
    BY DEF ReloadInv
  <2> USE CapAssumption, ContentAssumption
      DEF ReloadInv, ReloadTypeOK, TaskHoldsCurrent, YoungCallsHoldCurrent,
          QuietFilterIsCurrent, Quiet
  <2>1. ASSUME NEW c \in Contents, WriteFile(c)
        PROVE  TaskHoldsCurrent' /\ YoungCallsHoldCurrent' /\ QuietFilterIsCurrent'
    <3>1. thread = "relay" => notes' > 0
      BY <2>1 DEF WriteFile
    <3>2. ASSUME NEW k \in Calls PROVE calls'[k].held => calls'[k].old
      BY <2>1, HandType DEF WriteFile
    <3> QED BY <2>1, <3>1, <3>2 DEF WriteFile
  <2>2. CASE WatchFails BY <2>2 DEF WatchFails
  <2>3. CASE Watch BY <2>3 DEF Watch
  <2>4. CASE SignalInitialLoad BY <2>4 DEF SignalInitialLoad
  <2>5. CASE Relay BY <2>5 DEF Relay
  <2>6. CASE TaskLoad BY <2>6 DEF TaskLoad, Nothing, Loaded
  <2>7. CASE TaskInstall BY <2>7 DEF TaskInstall, Nothing
  <2>8. ASSUME NEW k \in Calls, CallLoad(k)
        PROVE  TaskHoldsCurrent' /\ YoungCallsHoldCurrent' /\ QuietFilterIsCurrent'
    BY <2>8 DEF CallLoad, Loaded
  <2>9. ASSUME NEW k \in Calls, CallInstall(k)
        PROVE  TaskHoldsCurrent' /\ YoungCallsHoldCurrent' /\ QuietFilterIsCurrent'
    BY <2>9 DEF CallInstall, Nothing
  <2>10. ASSUME NEW c \in Contents, OnboardFilter(c)
         PROVE  TaskHoldsCurrent' /\ YoungCallsHoldCurrent' /\ QuietFilterIsCurrent'
    BY <2>10 DEF OnboardFilter
  <2>11. CASE UNCHANGED reloadVars BY <2>11 DEF reloadVars
  <2> QED BY <2>1, <2>2, <2>3, <2>4, <2>5, <2>6, <2>7, <2>8, <2>9, <2>10, <2>11
          DEF ReloadNext
<1>3. ReloadInv => QuietFilterIsCurrent
  BY DEF ReloadInv
<1> QED BY <1>1, <1>2, <1>3, ReloadTypeCorrect, PTL DEF ReloadSafety

-----------------------------------------------------------------------------
(* FilterRules: what a list of rules means *)

RulesTypeOK == list \in Seq(Rules) /\ route \in Routes

\* An edit leaves a list of rules.
LEMMA RulesType == RulesSpec => []RulesTypeOK
<1>1. RulesInit => RulesTypeOK
  BY DEF RulesInit, RulesTypeOK
<1>2. RulesTypeOK /\ [RulesNext]_rulesVars => RulesTypeOK'
  <2> SUFFICES ASSUME RulesTypeOK, [RulesNext]_rulesVars PROVE RulesTypeOK'
    OBVIOUS
  <2> USE DEF RulesTypeOK
  <2>1. ASSUME NEW f \in Rules, AppendRule(f) PROVE RulesTypeOK'
    BY <2>1 DEF AppendRule
  <2>2. CASE DropRule
    BY <2>2 DEF DropRule
  <2>3. ASSUME NEW r \in Routes, TryRoute(r) PROVE RulesTypeOK'
    BY <2>3 DEF TryRoute
  <2>4. CASE UNCHANGED rulesVars
    BY <2>4 DEF rulesVars
  <2> QED BY <2>1, <2>2, <2>3, <2>4 DEF RulesNext
<1> QED
  BY <1>1, <1>2, PTL DEF RulesSpec

\* Of a path that has only sequences the printed form shows every ASN.
LEMMA PrintedWhole ==
    ASSUME NEW r, OnlySequences(r)
    PROVE  PathWords(r.attrs.as_path) = FlatAsns(r.attrs.as_path)
<1> DEFINE p == r.attrs.as_path
<1>1. \A i \in DOMAIN p : SegmentWords(p[i]) = p[i].asns
  BY DEF OnlySequences, SegmentWords
<1>2. [i \in DOMAIN p |-> SegmentWords(p[i])] = [i \in DOMAIN p |-> p[i].asns]
  BY <1>1
<1> HIDE DEF p
<1>3. PathWords(p) = FlatAsns(p)
  BY <1>2 DEF PathWords, FlatAsns
<1> QED BY <1>3 DEF p

\* The test endpoint builds the context of the route it is told of, which has neither
\* LOCAL_PREF nor MED.
LEMMA TestedContext ==
    ASSUME NEW r, OnlySequences(r), r.attrs.local_pref = Absent, r.attrs.med = Absent
    PROVE  TestCtx(TestBody(r)) = BuildRouteCtx(r)
BY PrintedWhole DEF TestCtx, TestBody, BuildRouteCtx, OrDefault

\* What the test endpoint evaluates the rules against
Tested(r) == [prefix |-> r.prefix, peer_as |-> r.peer_as, peer_addr |-> Unspecified, attrs |-> NoAttrs]

\* A rule that looks only at what a request can say matches the request as it matches the
\* route, if it has no expression or its expression sees the same context.
LEMMA TestedMatch ==
    ASSUME NEW f, Testable(f), NEW r, r.attrs.local_pref = Absent, r.attrs.med = Absent,
           NEW c, NEW d, c = d \/ Compile(f).compiled = Absent
    PROVE  Matches(Compile(f), Tested(r), c) <=> Matches(Compile(f), r, d)
<1> DEFINE cf == Compile(f)
<1>1. cf.raw = f /\ cf.peer_nets = Parsable(f.peer_addr_list)
  BY DEF Compile
<1>2. f.community_list = {} /\ f.as_path_contains = {} /\ cf.peer_nets = {}
  BY <1>1 DEF Testable
<1>3. /\ Tested(r).prefix = r.prefix /\ Tested(r).peer_as = r.peer_as
      /\ Tested(r).attrs.local_pref = Absent /\ Tested(r).attrs.med = Absent
  BY DEF Tested, NoAttrs
<1>4. BoundsMatch(f, Tested(r).attrs) <=> BoundsMatch(f, r.attrs)
  BY <1>3 DEF BoundsMatch
<1>5. ((cf.compiled # Absent /\ c # Absent) => EvalExpr(cf.compiled, c))
         <=> ((cf.compiled # Absent /\ d # Absent) => EvalExpr(cf.compiled, d))
  OBVIOUS
<1> HIDE DEF cf
<1>6. Matches(cf, Tested(r), c) <=> Matches(cf, r, d)
  BY <1>1, <1>2, <1>3, <1>4, <1>5 DEF Matches
<1> QED BY <1>6 DEF cf

\* The test endpoint gives a comparable route the verdict of the RIB (filters.rs 30-111,
\* filter.rs 255-302).
LEMMA TestedAsLiveHolds == RulesTypeOK => TestedAsLive
<1> SUFFICES ASSUME RulesTypeOK,
                    route.prefix.kind = "plain", OnlySequences(route),
                    route.attrs.local_pref = Absent, route.attrs.med = Absent,
                    \A i \in DOMAIN list : Testable(list[i])
             PROVE  FilterTest(list, TestBody(route)) = Apply(LoadYaml(list), route)
  BY DEF TestedAsLive
<1> DEFINE loaded == LoadYaml(list)
           c == TestCtx(TestBody(route))
           d == IF NeedsCtx(loaded) THEN BuildRouteCtx(route) ELSE Absent
<1>1. list # Absent
  BY RuleAssumption DEF RulesTypeOK
<1>2. c = BuildRouteCtx(route)
  BY TestedContext
<1>3. FilterTest(list, TestBody(route)) = ApplyWithCtx(loaded, Tested(route), c)
  BY <1>1 DEF FilterTest, TestBody, Tested
<1>4. Apply(loaded, route) = ApplyWithCtx(loaded, route, d)
  BY DEF Apply
<1>5. DOMAIN loaded = DOMAIN list /\ \A i \in DOMAIN list : loaded[i] = Compile(list[i])
  BY DEF LoadYaml
<1>6. \A i \in DOMAIN loaded : c = d \/ loaded[i].compiled = Absent
  BY <1>2 DEF NeedsCtx
<1> HIDE DEF loaded, c, d
<1>7. ASSUME NEW i \in DOMAIN loaded
      PROVE  Matches(loaded[i], Tested(route), c) <=> Matches(loaded[i], route, d)
  <2>1. loaded[i] = Compile(list[i]) /\ Testable(list[i])
    BY <1>5
  <2>2. c = d \/ Compile(list[i]).compiled = Absent
    BY <1>6, <2>1
  <2> QED BY <2>1, <2>2, TestedMatch
<1>8. {i \in DOMAIN loaded : Matches(loaded[i], Tested(route), c)}
         = {i \in DOMAIN loaded : Matches(loaded[i], route, d)}
  BY <1>7
<1>9. ApplyWithCtx(loaded, Tested(route), c) = ApplyWithCtx(loaded, route, d)
  BY <1>8 DEF ApplyWithCtx
<1> QED BY <1>3, <1>4, <1>9 DEF loaded

\* For every list of rules and every route, and whatever expressions parse to and say: the
\* test endpoint gives a comparable route the verdict of the RIB, the contexts of YAML
\* expressions, of the endpoint and of Roto agree on what they share, and prefix_in_range
\* is the subnet test (filter.rs 183-221 and 255-302, filters.rs 54-87, roto_ctx.rs 62-185).
THEOREM RulesTravelHolds == RulesSpec => []RulesTravel
<1>1. RulesTypeOK => RulesTravel
  <2> SUFFICES ASSUME RulesTypeOK PROVE RulesTravel
    OBVIOUS
  <2>1. TestedAsLive
    BY TestedAsLiveHolds
  <2>2. ASSUME OnlySequences(route)
        PROVE  /\ Shared(FromBmp(route)) = Shared(BuildRouteCtx(route))
               /\ Shared(TestCtx(TestBody(route))) = Shared(BuildRouteCtx(route))
    <3>1. PathWords(route.attrs.as_path) = FlatAsns(route.attrs.as_path)
      BY <2>2, PrintedWhole
    <3>2. Shared(FromBmp(route)) = Shared(BuildRouteCtx(route))
      BY <3>1 DEF Shared, FromBmp, BuildRouteCtx, RouteCtx
    <3>3. Shared(TestCtx(TestBody(route))) = Shared(BuildRouteCtx(route))
      BY <3>1 DEF Shared, TestCtx, TestBody, BuildRouteCtx, RouteCtx, OrDefault
    <3> QED BY <3>2, <3>3
  <2>3. ASSUME NEW e, e.ok, route.prefix.kind = "plain"
        PROVE  PrefixInRange(FromBmp(route), e) <=> Within(route.prefix.net, e.v)
    BY <2>3 DEF PrefixInRange, FromBmp, Within
  <2> QED BY <2>1, <2>2, <2>3 DEF RulesTravel
<1> QED
  BY <1>1, RulesType, PTL

\* A network that contains the address of another lies within it or around it.
LEMMA ContainedNets ==
    ASSUME NEW n \in Nets, NEW net \in Nets, NetContains(n, net.fam, net.addr)
    PROVE  Within(net, n) \/ Within(n, net)
<1>1. n.len \in Int /\ net.len \in Int
  BY AddrAssumption DEF Nets
<1>2. CASE net.len >= n.len
  BY <1>2 DEF Within
<1>3. CASE n.len >= net.len
  <2>1. \A b \in 1 .. net.len : b \in 1 .. n.len
    BY <1>1, <1>3
  <2>2. n.fam = net.fam /\ \A b \in 1 .. n.len : net.addr[b] = n.addr[b]
    BY DEF NetContains
  <2> QED BY <1>3, <2>1, <2>2 DEF Within, NetContains
<1> QED BY <1>1, <1>2, <1>3

\* For networks of any width and lists of any length: a rule with no criterion but
\* prefix_list decides on the routes within its networks when the rules before it list
\* networks elsewhere (filter.rs 89-124 and 262-278).
THEOREM PrefixListTakesSubnetsHolds == RulesSpec => []PrefixListTakesSubnets
<1>1. RulesTypeOK => PrefixListTakesSubnets
  <2> SUFFICES ASSUME RulesTypeOK, NEW i \in DOMAIN list,
                      list[i] = [AnyRoute(list[i].action) EXCEPT !.prefix_list = list[i].prefix_list],
                      NEW e \in list[i].prefix_list, e.ok, Within(route.prefix.net, e.v),
                      \A j \in 1 .. i - 1 : Elsewhere(list[j])
               PROVE  Apply(LoadYaml(list), route) = IF list[i].action = "deny" THEN "deny" ELSE "accept"
    BY DEF PrefixListTakesSubnets
  <2> DEFINE loaded == LoadYaml(list)
             ctx    == IF NeedsCtx(loaded) THEN BuildRouteCtx(route) ELSE Absent
             hits   == {j \in DOMAIN loaded : Matches(loaded[j], route, ctx)}
             net    == route.prefix.net
  <2>1. DOMAIN loaded = DOMAIN list /\ \A j \in DOMAIN list : loaded[j] = Compile(list[j])
    BY DEF LoadYaml
  <2>2. DOMAIN list = 1 .. Len(list) /\ Len(list) \in Nat /\ \A j \in DOMAIN list : list[j] \in Rules
    BY DEF RulesTypeOK
  <2>3. loaded[i].raw = list[i] /\ loaded[i].peer_nets = {} /\ loaded[i].compiled = Absent
    <3>1. /\ list[i].peer_addr_list = {} /\ list[i].expr = Absent
      BY DEF AnyRoute
    <3> QED BY <2>1, <3>1 DEF Compile, Parsable
  <2>4. Matches(loaded[i], route, ctx)
    <3>1. e.v \in loaded[i].nets
      BY <2>1 DEF Compile, Parsable
    <3>2. NetContains(e.v, net.fam, net.addr)
      BY DEF Within
    <3>3. PrefixMatches(loaded[i], net)
      BY <3>1, <3>2 DEF PrefixMatches
    <3>4. /\ list[i].peer_as_list = {} /\ list[i].community_list = {} /\ list[i].as_path_contains = {}
          /\ list[i].local_pref_min = Absent /\ list[i].local_pref_max = Absent
          /\ list[i].med_max = Absent
      BY DEF AnyRoute
    <3> HIDE DEF loaded, ctx
    <3>5. BoundsMatch(loaded[i].raw, route.attrs)
      BY <2>3, <3>4 DEF BoundsMatch
    <3> QED BY <2>3, <3>3, <3>4, <3>5 DEF Matches
  <2>5. ASSUME NEW j \in DOMAIN list, j < i PROVE ~Matches(loaded[j], route, ctx)
    <3>1. Elsewhere(list[j])
      BY <2>2, <2>5
    <3>2. loaded[j].nets = Parsable(list[j].prefix_list) /\ loaded[j].nets \subseteq Nets
      BY <2>1, <2>2, RuleAssumption DEF Compile
    <3>3. net \in Nets
      BY RuleAssumption DEF RulesTypeOK
    <3> HIDE DEF loaded, ctx, net
    <3>4. ASSUME NEW n \in loaded[j].nets PROVE ~NetContains(n, net.fam, net.addr)
      BY <3>1, <3>2, <3>3, ContainedNets DEF Elsewhere, net
    <3>5. loaded[j].nets # {}
      BY <3>1, <3>2 DEF Elsewhere
    <3>6. ~PrefixMatches(loaded[j], net)
      BY <3>4, <3>5 DEF PrefixMatches
    <3> QED BY <3>6 DEF Matches, net
  <2>6. i \in hits /\ \A j \in hits : i <= j
    BY <2>1, <2>2, <2>4, <2>5
  <2>7. Apply(loaded, route) = ApplyWithCtx(loaded, route, ctx)
    BY DEF Apply
  <2>8. (CHOOSE k \in hits : \A j \in hits : k <= j) = i
    <3>1. \A k \in hits : k \in Int
      BY <2>1, <2>2
    <3> HIDE DEF hits
    <3> QED BY <2>6, <3>1
  <2> HIDE DEF loaded, ctx
  <2>9. ApplyWithCtx(loaded, route, ctx) = IF loaded[i].raw.action = "deny" THEN "deny" ELSE "accept"
    BY <2>6, <2>8 DEF ApplyWithCtx
  <2> QED BY <2>3, <2>7, <2>9 DEF loaded
<1> QED
  BY <1>1, RulesType, PTL

=============================================================================
