# RustyBMP in TLA+

This directory specifies the collector of this repository (`crates/`) in TLA+:
how BMP sessions become a RIB, how the RIB's events reach the database and the
external systems, what the queries make of the stored history, what the filters
mean and how they are replaced, how the edge collector, the RPKI client and the
leader election work, and how bytes are decoded. TLC checks the modules on small
instances; TLAPS proves the results about the RIB and its tables, the history and
the queries on it, the consumers of the event channel, framing, the collector, the
RPKI client, the leader election, the filter lists and their reload for every value
of the constants.

Paths below are relative to `crates/` of the repository unless they start with `src/`.

    tlc -workers 2 -config MCHistory.cfg MCHistory           # one run
    tlapm RibManagerProofs.tla                               # one set of proofs

`PROJECT.json` lists components, runs, mutants, the map from definitions to
source lines, findings, hazards and theorems.

---

## 1. The system

```
 router --TCP--> receiver task --+                    +--> store writer --> DuckDB --> queries
 router --TCP--> proxy task -----+-- mpsc --> pump -->|    adapters (bulk, alert)
 edge collector --TCP--> Core ---+   (4096)  process  +--> SSE, Kafka, NATS
                                             RibManager   broadcast channel of RibEvents
 RTR cache --TCP--> RTR client --> VRP cache
 Redis <--> leader election          governor: looks at the mpsc channel, tells the receiver to shed
```

| Part | State | Operations | Talks to | What is hard |
|---|---|---|---|---|
| BMP/BGP decoders `rbmp-core/src/{bmp,bgp}` | none | one function per message, attribute and address family | called by receiver, proxy, Core | lengths inside lengths; cut or odd input; guessing the AS number width |
| Receiver, proxy `rbmp-server/src/{receiver,proxy}.rs` | a byte buffer per connection | read, cut a frame, parse, shed, send, synthetic Termination | mpsc channel, upstream socket | frames split over reads; back-pressure; reconnects that overlap |
| RIB pump `main.rs` | - | receive one message, process it under the write lock | RibManager | order of messages of several connections |
| RIB manager and tables `rbmp-rib/src/{manager,session,table}.rs` | speakers with their peers, a route table per peer address, filters | one handler per BMP message, filter reload, expiry | sends RibEvents | sessions of several speakers share tables; LLGR; reload between messages |
| Event channel (tokio broadcast) | the last `event_capacity` events | send, receive, Lagged | every consumer | a slow consumer loses events |
| Store writer `rbmp-store/src/{writer,duck}.rs` | batch, tables | receive, flush, close | DuckDB | failure of one of several steps, lag, restart |
| Output adapters `rbmp-server/src/output/` | batch, dedup map | receive, drain, send | HTTP endpoints | lag while sending; errors in the middle of a batch; repeats |
| Edge collector `rbmp-server/src/bin/collector.rs` | bounded ring, connection | receive, dequeue, write, reconnect | Core listener | connections that break with frames under way |
| RTR client, VRP cache `rbmp-enrichment/src/{rtr,vrp_cache}.rs` | VRP set, serial, pending response | one handler per PDU, reconnect | RTR cache | responses interleaved with notifications; lost connections |
| Leader election `rbmp-server/src/ha.rs` | leader flag | SET NX, GET, EXPIRE every half lease | Redis | crashes, partitions, commands whose answer is lost |
| Governor `rbmp-server/src/governor.rs` | flags, counters | one tick per loop | receiver | control that could lock itself in |
| Filters `rbmp-rib/src/{filter,filter_expr,roto_filter,roto_ctx}.rs` | compiled rules | evaluate, test | RibManager, API | expressions that nest; entries that do not parse; three contexts for one rule |
| Filter reload `rbmp-server/src/{filter_watcher,api/filters,api/onboard}.rs` | the engine in force, notifications under way | notify, load, install | RibManager, file system | loads that wait for the lock while the file changes |
| Store queries and retention `rbmp-store/src/query.rs`, `rbmp-server/src/retention.rs` | - | SQL, hourly sweep | API, MCP | reading a current state out of a history with equal stamps, gaps and swept rows |
| Kafka, NATS, SSE `rbmp-kafka`, `rbmp-nats`, `rbmp-server/src/api/events.rs` | one event under way | receive, publish | brokers, browsers | lag, failed deliveries, clients that come back |
| MRT files `rbmp-mrt/src` | - | write and read records | - | lengths that do not count what is written; files cut off |
| Origin validation, ASPA, BGPsec, annotation | - | pure functions | API | corner cases of the RFCs |
| Archive, DNS, vault, API, UI, bmppy | files, queues, caches | see `PROJECT.json` | - | - |

What makes the parts correct, in short: a table reflects the announcements and
withdrawals of live sessions and nothing else; what a session announced goes
when it ends; subscribers can explain the table from the events they saw;
the history has every row of every event unless a loss is accounted for, and
the queries on it reproduce the table and each other; a rule means the same
wherever it is evaluated, and the rules in force are those of the file;
nothing is sent twice; nobody waits for ever; the decoders return what the
router encoded.

---

## 2. Modules

Each module starts with a comment that says what is abstracted. A definition
has the name of the function it models where TLA+ allows it. Definitions
introduced by a comment `Mutant:` (in the decoders: by a comment that names
what is left out) are deliberately wrong variants of the definition that
follows; they are used by no specification, and `PROJECT.json` pairs each with
the property that detects it.

| Module | Models | State and actions |
|---|---|---|
| `Llgr` | `RibEntry` stale marks, `table.rs` | `MarkStale`, `Expired` |
| `RibTable` | `table.rs`, as `manager.rs` drives it | `table`: key (RIB type, prefix, path id) to entry; announce, withdraw, LLGR marking, clear, expiry. Ties of `min_by_key` follow the iteration order of a `HashMap`, so any minimum may win |
| `RibManager` | `manager.rs`, `session.rs` | `speakers`, `ribs`, `filter`, `roto`, and the last RouteChange emitted per route; one action per `BmpPayload`, filter changes, expiry |
| `BmpPipeline` | connection tasks of `receiver.rs`, the channel, the pump of `main.rs` | composes with `RibManager` (EXTENDS): `Accept`, `Read`, `SkipFrame`, `Eof`, `SynthTermination`, `Pump` |
| `EventBus` | the tokio broadcast channel (external), one receiver | `Send`, `RecvNext`, `SkipLost`, `Subscribe` |
| `LossyLog` | abstract: what a consumer of the channel promises | `LogPublish`, `Settle`; `LogSpec` stores rows only while it settles, `RetryingSpec` also allows attempts before (`Attempt`), so a consumer that tries again implements it too |
| `StoreWriter` | `writer.rs`, `duck.rs` | `Recv`, `Lagged`, `Flush` (committed, rolled back, one insert failed), `Closed`, `Crash`; `lost` records what each failure takes; implements `LossyLog` |
| `AdapterPump`, `StreamSink`, `AlertAdapter` | `output/mod.rs`, bulk adapters; Kafka, NATS, SSE; `webhook.rs`, `servicenow_em.rs` | phases wait, drain, send; one event at a time, clients that reconnect; per-event requests and dedup; all implement `LossyLog`'s `RetryingSpec` |
| `QueryEngine` | `query.rs` | operators on the sequence of rows; a query that ranks rows with equal stamps has a set of answers |
| `History` | rows of `persist_one`, `retention.rs` | composes with `RibManager` (EXTENDS): every handler appends its rows; `Sweep(n)`, a sweep that ends with its n-th DELETE, by failing at the next or for good |
| `Optional`, `AsPath` | `Option`, `AsPath` of `bgp/types.rs` | pure operators: all ASNs of a path, and those its printed form still shows |
| `FilterExpr` | `filter.pest`, `filter_expr.rs` | tokens to a tree (the fold of `build_expr`), evaluation; an expression written term by term |
| `FilterEngine`, `RotoFilter` | `filter.rs`, `api/filters.rs`; `roto_ctx.rs`, `roto_filter.rs` | compile, first match, test endpoint, with the expression language as a parameter; context and verdict of a script |
| `FilterRules` | - | a list edited rule by rule and tried on one route after another |
| `FilterReload` | `filter_watcher.rs`, reload and onboarding endpoints | file writes, notifications, loads and installs as separate steps |
| `Collector` | `bin/collector.rs`, `collector_protocol.rs`, `handle_collector_conn` | ring, held envelope, connections, Core's channel |
| `RtrClient` | `rtr.rs`, `vrp_cache.rs`; the RTR cache is external | one action per PDU type, publish, connect, drop |
| `HaElection` | `ha.rs`; Redis is external | one action per Redis command, `HaTick`, crash, start, cut, heal; rounds that are late |
| `Governor`, `BmpFraming` | `governor.rs`; read loops of `receiver.rs` and `proxy.rs` | byte positions in, frames out, shedding; the write to the proxy's upstream is a step of its own, before the tee, and waits for ever for an upstream that has stalled |
| `Wire`, `BgpNlri`, `BgpLs`, `BgpMessages`, `BmpMessages` | the decoders of `rbmp-core` | pure operators on byte strings |
| `RouterEncoder` | a conforming router, from the RFCs and not from the parser (external) | pure operators |
| `Mrt` | `rbmp-mrt/src` | what the writers append, what the readers make of it |
| `WireExchange` | - | a message (or MRT file) is encoded item by item, cut anywhere, decoded; what the code misreads is named: `StatRead`, `HopsRead`, `AlsoTwoByte`, `WithdrawsOtherRoutes` |
| `RibManagerProofs`, `StoreWriterProofs`, `AlertAdapterProofs`, `HaElectionProofs`, `BmpFramingProofs`, `CollectorProofs`, `RtrClientProofs`, `RoutePolicyProofs` | - | theorems (section 4) |

`MC*` modules give values to constants that a `.cfg` cannot write. `MCRoutePolicy`, `MCLinks` and `MCIngest` put components that do not interact side by side: the variable `part` says which of them a behaviour is about, the others are idle.

### Choices that matter

- `RibManager::process` runs under the write lock for a whole message, so it is one action, including every route of an UPDATE. `received_at` is taken before the message enters the channel; only Peer Down stores it, hence its parameter `at`.
- The parser calls `parse_bgp_update(rest, false)`: path ids never reach the manager. `RibManager` therefore keys routes by (RIB type, prefix), and the Add-Path branch is checked in `RibTable`, which the manager's code would drive.
- In `RibManager` a filter engine is the set of (peer, prefix, attributes) it denies: that is all `process` asks of it. What a list of rules denies is `FilterEngine`, and how one engine replaces another is `FilterReload`.
- `FilterEngine` asks two things of an expression: whether it parses and what it evaluates to. Both are constants (`BuildExpr`, `EvalExpr`), so the engine is proved correct for any expression language; `MCRoutePolicy.cfg` gives them the code's, `ParseExpr` and `Eval` of `FilterExpr`. A network's address is its bits, of any width.
- A RouteChange is stamped when its message was read, every other event when it was emitted. `History` lets the stamps of two speakers overtake each other and those of one speaker never go back.
- SQL leaves open which of several rows with equal sort keys comes first. Queries that rank are therefore sets of possible answers, and a property holds for all of them.
- `max_prefix_capacity` has one row per speaker, peer, AS and family and counts the snapshot of that group; the family of a prefix is the constant `FamilyOf`. `as_origin_counts`, `prefix_convergence` and `aspath_graph` are not modelled (section 6).
- A sweep is one step: it deletes under the store mutex. A DELETE that fails ends it, so it may have swept only the first tables.
- Sums over the answers of queries (`Total`) are counted as the number of units, and sorted answers (`InOrder`) are the sequence that lists a set in order: definitions that TLC evaluates and that need no recursion, so the queries can be proved about.
- An MRT writer and its reader are in one crate, so `Mrt` has both, and the reference of the round trip is what was handed to the writer.
- A flush holds the store mutex from BEGIN to COMMIT and is one step for every reader; its failures are separate disjuncts because each leaves different rows.
- A connection that breaks loses a suffix of what was written, and later writes may still "succeed" (`WriteLost`): that is what TCP does, and it is why the edge collector can lose frames without noticing.
- In `HaElection` time is discrete. A round of Redis commands ends within the instant in which its interval fired, unless it is one of `MaxLate` instants late; every command is its own step, so crashes, outages, expiry and other instances come in between. A late instance catches up on the ticks it missed, as a tokio interval does.
- The decoders keep numbers of more than 24 bits as bytes: TLC's integers have 32 bits, and nothing is computed with them except comparisons.

---

## 3. Runs

Counts are distinct states. "Bounds" names the constants of the `.cfg`.

| Run | Module, cfg | States | Bounds |
|---|---|---|---|
| route_policy | `MCRoutePolicy` | 122,486 | *table*: one prefix, path ids 1, 2 and none, 3 attribute sets, `U32Max = 3`, time 0..2; *reload*: 2 files that load and one that does not, 2 concurrent calls, channel of 2, 2 notifications; *rules*: lists of 2 out of 13 rules, 32 routes, addresses of 2 bits; *expr*: 3 terms, at most 5 per expression |
| rib_manager | `MCHistory` | 661,117 | 2 speakers, 1 peer, 1 prefix, 2 attribute sets, stale times 0 and 1, engines "accept all" and "deny bad", symmetry on speakers; 3 modes: no store, recording, a store filled by others with a second RIB type, AS, and prefix of another family; time 0..2 (0..3 when filled), 3 rows, retention 1, sweeps that end after any table |
| pipeline | `MCBmpPipeline`, `MCPipeline.cfg` | 277,586 | 2 speakers with a peer each, 2 connections, channel of 1, 4 frames per connection, 1 lapse, time 0..1 |
| pipeline_overlap | `MCBmpPipeline`, `MCPipelineOverlap.cfg` | violated | 1 speaker, 2 connections, channel of 2 |
| links | `MCLinks` | 531,441 | *store*: kinds with 0, 1, 2 rows, channel of 2, batch of 2, 4 events, 1 failure; *adapter*: 5 modes (bulk, alert, Kafka, NATS, SSE), 3 kinds, 2 of them alerting, channel of 2, batch of 2, 4 events, 1 fault, window 2, time 0..3; *collector*: 2 speakers, 3 PDUs each, one malformed, ring of 2, 2 broken connections; *rtr*: 2 ROAs, 3 serials, 2 lost connections, no deltas; *ha*: 2 instances, lease 4, 2 crashes, 2 outages, rounds up to 3 late in all, time unbounded |
| ingest | `MCIngest` | 755,988 | *stream*: 3 frames of 2 to 4 units, channel of 2, sustain 2, budget 1; *message*: 21 kinds of message or list, at most 2 items (3 in UPDATE, Initiation), every cut, 8 per-peer headers |
| rtr_delta | `RtrClient`, `MCRtrDelta.cfg` | violated | 2 ROAs with 2 maximum lengths, 3 serials, 1 lost connection, `Deltas` |
| adapters_retry | `AlertAdapter`, `MCAdapterRetry.cfg` | violated | 2 events, 1 fault, window 2 |
| ha_takeover | `HaElection`, `MCHaTakeover.cfg` | violated | 2 instances, lease 4, 1 crash, no outage, no late round |
| proxy_stall | `BmpFraming`, `MCProxyStall.cfg` | violated | as *stream* of ingest |
| prefix_list | `MCRoutePolicy`, `MCPrefixList.cfg` | violated | as route_policy |
| roto_stub | `MCHistory`, `MCRotoStub.cfg` | violated | as rib_manager |

What the runs show, beyond their names:

- **route_policy**: four parts that share no variable. `BestPathIsUniqueAndOptimal`: although a withdrawal does not recompute the best path and ties are decided by a hash order, the Add-Path routes of a prefix never have two best paths, nor one that another beats (there may be none: see section 7). `QuietFilterIsCurrent`, `FilterConverges`: loads wait for the lock in any order and may install what is no longer in the file, but once the watcher has nothing left to do the engine in force is that of the file, unless it was posted or a call had read it before the last write; a content that is left alone comes into force. `ExpressionsMeanWhatTheySay`: the fold over pest's flat children evaluates every expression like its tree. `RulesTravel`: a list gives one verdict live and in the test endpoint for the routes both can describe, and the three readings of a route (live, test, Roto) agree where the printed path loses nothing. `PrefixListTakesSubnets`: a rule with no criterion but `prefix_list` decides on the routes within its networks, whatever comes after it, when the rules before it list networks elsewhere. "Elsewhere" excludes networks around the route as well as in it, because the code takes those too.
- **rib_manager**: `EventsExplainRib` (every stored route is the last one announced to subscribers), `StaleRoutesHaveOwner` (an LLGR-stale route can still be evicted by a Termination), `StaleClockNotRestarted` (a flapping peer cannot keep a stale route young). With a store: `SnapshotFollowsRib` (what `current_rib` lists is the RIB, except where equal stamps, a second speaker, a lost session or the sweep explain the difference), `QueriesAgree` (views shown side by side count the same things: the rows of the capacity view and the snapshot of their AS and family, flaps and Peer Downs of the timeline, churn and its hourly buckets; what the snapshot lists, `policy_delta` and `prefix_peers` count), `SweepNeverResurrects` (retention never makes a withdrawn route visible again).
- **pipeline**: `OrderlySpeakerIsEvicted`, `FreshRouteHasUpPeer`; live: `DroppedSpeakerIsEvicted`, `TasksAndChannelDrain`. One speaker may misbehave (an early reconnect, or a frame the parser skips); the other must not be affected.
- **pipeline_overlap** (violation): what `receiver.rs:156` promises fails for a router that reconnects before its old connection is noticed dead. The late synthetic Termination is keyed by the speaker's address, deletes the *new* session, and the routes announced afterwards belong to no session.
- **links**: five parts, one link of the server each.
  - *store*: `OnlyLostIsMissing` (every event received is in the tables with all its rows or in the batch, but for exactly those a failed flush, a failed insert, a lag or a restart took: behind a gap the writer goes on), `EverythingIsFlushed`, `ImplementsLossyLog`.
  - *adapter*: `NoRepeatWithinWindow`, `NothingHeldBack`, `ImplementsRetryingLog` (events are settled in order and nothing is invented; it leaves open whether an adapter tries again, and adapters_retry shows that none does).
  - *collector*: `OnceAndInOrder` (no PDU twice, and in order within a connection), `LossOnlyByOverflow`, `BacklogDrains`.
  - *rtr*: `TableMatchesSerial`, `ClientConverges`, with a cache that always answers a Serial Query with Cache Reset.
  - *ha*: `LeaderHoldsLease` (no split brain while Redis is reachable, whatever crashes, if rounds are on time; without crashes, rounds may be late by less than half a lease), `TakeoverWithinLeaseAndInterval` (the bound the code keeps; the documented one is ha_takeover), `OneLeaderEventually` (after all faults, even if a partition made two leaders).
- **ingest**: `SlicesAreFrames` (frames are cut at the router's boundaries, and a whole frame is not left waiting for the next read), `OnlyStatsAreShed`, `UpstreamGetsPrefix`, `SheddingEnds`; `StreamIsProcessed`: everything received is processed and a closed connection ends with its Termination, unless the proxy task waits for ever to write to an upstream that stopped reading. `DecodesAsSent` (routes, messages, End-of-RIB and MRT records), `CutMessagesLoseOnlyTheirEnd`, `NoPanic`. The encoder is written from the RFCs and shares no code with the decoders except byte-string helpers. Where the decoder misreads what it sends, the property says what is read instead: statistics 9 and 10 lose family and value (`StatRead`), the next hop of a VPN is cut into addresses from its route distinguisher on (`HopsRead`), a path of 4-byte numbers whose bytes are also one of 2-byte numbers may come out as that (`AlsoTwoByte`), and an MP_UNREACH that withdraws only routes of families without prefixes is taken for End-of-RIB (`WithdrawsOtherRoutes`). Nothing else differs.
- **rtr_delta** (violation): with a cache that answers incrementally, End of Data replaces the table by the delta.
- **adapters_retry** (violation): `output/mod.rs:31` asks implementations to retry. `TakenIsDelivered` fails: after one failed request the batch is cleared, and the key of a failed alert suppresses its repeats.
- **ha_takeover** (violation): `ha.rs:5` says "within `lease_secs`". The follower looks every half lease, so a leader that dies right after a renewal is replaced up to an interval later.
- **proxy_stall** (violation): `proxy.rs:36` says the proxy still works if the upstream is unavailable. An upstream that keeps its connection and does not read holds up `write_all`, which has no timeout and comes before the tee.
- **prefix_list** (violation): `filter.rs:29` says "falls within any of these networks". A less specific route whose address lies in a listed network matches, too, and so does every route if no entry of the list parses.
- **roto_stub** (violation): `roto_filter.rs:6` says that without the `roto-jit` feature the YAML rules stay the only active engine. A loaded stub answers Default and the YAML rules are not asked.

### Why the bounds are enough

- *RIB*: handlers treat prefixes and peers independently; two speakers on one peer are what makes tables shared, and two attribute sets are what a filter and an event tell apart. The clock needs three values (before, at and after a stale time of 1). Speakers are symmetric.
- *Route policy*: lists of two show first match; every kind of condition has a rule, and every way a condition can be absent, garbled or on its boundary has a rule or a route. Five terms reach every pair of nested operators and three operators in a row. Two calls and the watcher make three loads wait for the lock at once.
- *History*: three rows are an announcement, its withdrawal and one more that can be equal, older or newer in stamp; retention 1 of 3 instants lets a sweep fall before, between and after them. The store filled by others has every combination of three rows and does not depend on the order in which this server would write them.
- *RibTable*: three attribute sets cover a missing LOCAL_PREF, a missing MED and a tie up to the last criterion, with `U32Max = 3` as the boundary of the subtraction.
- *Pipeline*: a capacity of one blocks every sender at every point; two connections are needed for an overlap, four frames for Initiation, Peer Up, an update and Peer Down or Termination.
- *Channel consumers*: capacity 2 and 4 events make lag happen before, during and after a batch of 2. Row counts 0, 1 and 2 are End-of-RIB, ordinary events and events that write two tables; one fault in every position is what the properties distinguish: what it takes is recorded as `lost`, and the events after it are followed to the end.
- *Collector*: two cuts give three connections, so the tasks of an old and a new connection run side by side twice; the ring of 2 overflows.
- *RTR*: three versions let one be published while the answer for another is under way, two lost connections interrupt a response and its repetition.
- *Leader election*: lease 4, interval 2; two crashes and two outages allow both instances to fail, recover and fail again; three late instants carry a round past half a lease and, with the interval, past the lease.
- *Ingest*: frames of 2, 3 and 4 units with a header of 2 arrive in every partition into reads; the upstream takes them in any pieces, fails or stalls at any of them.
- *Wire*: items have the lengths at which decoders branch (no bits, a partial byte, a full address; one and two labels; short and long form; option present and absent); two items show that a decoder finds the second one, three are needed in UPDATE and Initiation where sections or repeated TLVs interact. Every message is cut at every byte.

### Deadlock

Deadlock checking is off in the runs whose bounds let the system come to rest: the routers, publishers and faults are bounded, and a system with nothing left to do has no step. `route_policy` and `rib_manager` check it. Liveness properties cover "everybody waits" in `pipeline`, `links` and `ingest`.

### Fairness

| Run | Assumed | Why |
|---|---|---|
| pipeline | WF of `Pump` and of time, SF of `SynthTermination` per connection | tokio polls a ready task; a tokio mpsc channel serves waiting senders in the order in which they came, so a task that waits for room gets it although others send too |
| links: rtr | WF of `Connect`, `HandlePdu`, `ServerAnswers` | `run` reconnects after every failure; the client reads in a loop; a conforming cache answers |
| links: store, adapter; adapters_retry | WF of the task's steps as one action | one task; timers fire; HTTP requests have a timeout |
| links: collector | WF of `Connect`, `Dequeue`, `WriteFrame`, `CoreReads`; SF of `WriteFails` | the forwarder retries for ever; the peer's RST eventually makes a write to a broken connection fail |
| links: ha | WF of each instance's round, of healing, of time | rounds are driven by an interval; outages end (assumption about the environment, stated in the property's antecedent for crashes) |
| route_policy | WF of each step of the watcher's thread and of its task | the thread blocks on its channel and the task awaits it; a waiting writer gets tokio's fair `RwLock`; calls of the endpoint owe nothing |
| ingest, proxy_stall | WF of the task, the sends, the pump and the governor's loops | as above; routers owe nothing, nor does an upstream that has stopped reading: its connection may fail or stay |

Safety properties use no fairness.

---

## 4. Proofs

TLAPS 1.4.5 checks the eight `*Proofs` modules completely: nothing is assumed but
the named assumptions on constants, which TLC evaluates on every run. The bounds
of the models (numbers of frames, PDUs, faults, time) are constants too, so the
theorems hold whatever their values. Each inductive invariant was checked by TLC on
its component's run before it was proved.

**RibManager**, for any sets of speakers, peers, RIB types, prefixes, attributes, stale times and engines. Assumptions: `LlgrAssumption` (stale times are naturals), `TimeAssumption`, `AbsentAssumption` (the values that mark an absent map entry differ from entries), `EngineAssumption`.

| Theorem | Argument |
|---|---|
| `TypeCorrect` | `TypeOK` is inductive; lemmas `SessionType`, `RibTypeLemma`, `MarkStaleAllType` for the lookups that create entries |
| `EventsExplainRibHolds` | inductive together with `TypeOK`: an UPDATE changes table and event of the same keys, every other handler only removes routes or changes stale marks (`MarkStaleEntry`: attributes stay) |
| `StaleRoutesHaveOwnerHolds` | inductive with `TypeOK`: marks appear only where `LlgrActive` holds, which needs a session entry; a session entry goes only with the tables of its peers |
| `StaleClockNotRestartedHolds` | action property from `TypeOK`: `MarkStale` leaves a mark alone |

**History** (in `RibManagerProofs`), for any sets of the above with finitely many prefixes, any retention, families and path statuses. Assumptions: those of RibManager, `RetainAssumption`, `PrefixAssumption` (a message carries finitely many prefixes), `QueryAssumption` (None is no number). `SnapshotFollowsRib` speaks of the newest row of a route, by stamp; the steps write and sweep by position. `HInv` relates the two:

- `InTime`: no row is from the future, and a session event is not older than the rows before it. Without it a sweep could take the end of a session and leave an announcement it explains;
- `RowsExplainRib`: the last row of a route whose stamps are in order, and of which the sweep took nothing, announces what the RIB holds; if the route is stale the end of a session follows it. Of a route the RIB does not hold, the last row withdraws it or the end of a session follows. The clause about stale routes is what the property leaves out and expiry needs: it removes routes and writes no row.

| Theorem | Argument |
|---|---|
| `HistoryImplementsRibManager` | refinement: with the rows hidden, every step is one of RibManager or a stutter, so the theorems about the RIB hold with a store |
| `SnapshotFollowsRibHolds` | `HInv` is inductive (`HInvStep`; `UpdateExplained` and `SweepExplained` are its hard steps). With stamps in order the newest row is the last (`NewestIsLast`) |
| `SweepNeverResurrectsHolds` | whether a prefix may be listed depends on its newest rows alone (`MayListNewest`); a sweep takes route events oldest first, so if one of the prefix stays its newest ones all do (`SweptLists`), also when the sweep fails midway; no other step makes the history shorter (`OnlySweepShrinks`) |
| `QueriesAgreeHolds` | from the types and `InTime`, one lemma per pair of views. `Gauge`: a ranking per speaker, peer, AS and family and one per peer give the same sets of answers if one speaker reports the peer under one AS (`AnswerForSome`, `AnswerForAll`, `GaugeDomain`, `GaugeAddsUp`, `SameSize`). `Flaps`, `Churn`: a sum over a partition is the size of the whole (`TotalCounts`). `DeltaCovers`, `PeersCover`, `Unprotected`: what one view shows has a row the other counts |

The run of `rib_manager` also checks these properties over a store other servers have filled, with a RIB type this one does not report; the theorems are about the rows the modelled server writes.

**BmpPipeline** (in `RibManagerProofs`), for any routers, connections, channel capacity and number of frames and lapses. Assumptions: those of RibManager and `PipelineAssumption`. The two properties speak of the RIB, but the RIB lags behind the routers by what is in the channel. `PInv` says what it will be:

- `RoutesOwned`: a route of an orderly speaker belongs to a peer its session lists, and holds Up if the route is fresh;
- `UpdatesOfUpPeers`: an UPDATE at position i of the channel is of a peer that will be Up when the pump gets there (`UpAt`: Up now and not ended by the messages before, or begun by one of them), and so is every peer an open connection has reported Up, for the end of the channel;
- `OneConnection`: an orderly speaker has one live connection, so no other task's Termination comes in between;
- `LastIsTermination`: without a live connection the last message of the speaker is a Termination, or nothing of it is left.

| Theorem | Argument |
|---|---|
| `PTypeCorrect` | inductive (`HandleType`: the pump's call is a step of RibManager, with a Peer Down stamped earlier) |
| `FreshRouteHasUpPeerHolds` | `RoutesOwned`; the pump's step needs `UpAt` at position 1 for the update it handles (`HandleRoutes`), which `UpAtTaken`, `UpAtKept` and `UpAtEnd` carry through the channel |
| `OrderlySpeakerIsEvictedHolds` | `LastIsTermination` leaves no session, and by `RoutesOwned` no session means no route |

**RtrClient**, for any finite set of VRPs and any number of versions and lost connections. Assumption: `RtrAssumption`. `RInv`: every End of Data on the connection ends a whole response (`ResponsesWhole`): what the client has collected, if the Cache Response is already handled, and the prefixes still to come make up the version it names. `TableKept` is stronger than the property: the table is that of its serial while the next one is collected, too.

| Theorem | Argument |
|---|---|
| `TypeCorrect` | inductive with `Wire` (the PDUs under way name published serials), with and without deltas |
| `TableMatchesSerialHolds` | for a server without `Deltas`, the condition under which run links checks it (with them the property is violated: rtr_delta). `FullTableWhole`: the server's answer is a whole response; `ClientWhole`: each PDU the client takes moves a VRP from the connection to what is collected |

**RibTable**, for any RIB types, prefixes, path identifiers and attributes. Assumptions: `RouteAssumption`, `TimeAssumption`.

| Theorem | Argument |
|---|---|
| `TableTypeCorrect` | inductive; lemmas `InsertType`, `RecomputeEntry`, `MarkStaleKeeps` say what the operations leave of an entry |
| `BestPathHolds` | `BestPathIsUniqueAndOptimal` is inductive with the types: after an announcement or a withdrawal the siblings of the key have been ranked anew and nothing else has changed; marking keeps attributes and flags; expiry only removes |

**StoreWriter**, for any kinds, row counts, channel capacity, batch size and number of events. Assumptions: `BusAssumption`, `StoreAssumption`.

| Theorem | Argument |
|---|---|
| `TypeCorrect` | inductive; the batch bound needs that a batch is finite (`BatchFinite`) and the cardinality theorem for one more element |
| `OnlyLostIsMissingHolds`, `BatchIsNewestHolds` | inductive together with `WriterTypeOK` (lemma `HistoryStep`): received events lie in `1 .. next - 1` (`RowsReceived`), whatever a flush adds are rows of the batch (`FlushAddsRowsOfBatch`), and what it neither adds nor records as lost stays accounted for (`KeptRows`) |
| `WriterImplementsLossyLog` | refinement: `settled` is the number before the least event of the batch; its existence is `LeastElement`, its meaning `SettledMeaning`; `LogStep` maps every action to `LogPublish`, `Settle` or a stutter |

`TypeCorrect` and `BatchIsNewestHolds` are proved and not the subject of a run.

**AlertAdapter**, with `AdapterPump` and `StreamSink`: every other consumer of the event channel, for any kinds, capacity, batch size, dedup window and number of faults. Assumptions: `BusAssumption`, `PumpAssumption`, `AlertAssumption`. The invariant is `AInv`:

- `Batching`: the pump waits exactly when its batch is empty;
- `InFlight`: a request is under way only for an alerting event whose key `should_send` has recorded;
- `Ledger`: the dedup map is never older than what arrived, and while a request is under way its instant is a window younger than every arrival of its key. `NoRepeatWithinWindow` compares arrivals only, and is not inductive without it: the step that completes a request must know how far back the last one lies.

| Theorem | Argument |
|---|---|
| `ATypeCorrect` | part of `AInv` |
| `NoRepeatWithinWindowHolds` | with `AInv`: only a request that ends appends an arrival, and `Ledger` puts it a window after the others of its key |
| `AdaptersImplementRetryingLog` | refinement of `RetryingSpec`, which allows attempts the modelled adapters do not make: every action of every consumer is a `ConsumerStep` (receive, skip lost events, settle the oldest ones); `settled` is the number before the least event of the batch, and a `ConsumerStep` maps to `LogPublish`, `Settle` or a stutter |

**HaElection**, for any set of instances, lease, and number of crashes, outages and late rounds. Assumption: `HaAssumption` (a lease of at least two units, so that an interval is not zero). `HInv` joins the types with `Schedule` (an interval is late by at most the time that passed during rounds; who is down does not lead) and `Leases`: the key outlives the next interval of its leader by what an interval leaves of the lease, more so right after it was acquired, and without crashes its holder leads or is about to. A leader's key has time to live only because of that surplus.

| Theorem | Argument |
|---|---|
| `TypeCorrect` | inductive together with `Schedule`, which bounds the timers |
| `LeaderHoldsLeaseHolds` | `HInv` is inductive; `HaTick` takes from the surplus and from the interval alike |
| `TakeoverHolds` | `Vacancies`: while a vacancy is counted nobody is cut off and no interval is overdue; as long as nobody is about to lead, the former key runs out within a lease of its start, and once it is free the next interval ends in time |

**BmpFraming**, for any frame lengths of at least a header, any way to cut the stream into reads, any channel capacity and governor settings. Assumptions: `FramingAssumption`, `GovernorAssumption`. `FInv` joins the types with `Layout` (frames lie end to end; only the hang-up loses bytes), `Position` (the buffer starts where the last frame taken ends) and `Messages` (what is in hand or in the channel are frames taken, in order; nothing follows the Termination).

| Theorem | Argument |
|---|---|
| `TypeCorrect` | part of `FInv`; types of stream, task, channel, relay and governor one lemma each |
| `SlicesAreFramesHolds` | part of `FInv`: the header at the start of the buffer is that of the next frame (`HeadFrame`), so length and message are its own |
| `OnlyStatsAreShedHolds` | part of `FInv` (`TakeFrameMessages`, `MessagesStep`) |
| `UpstreamGetsPrefixHolds` | inductive with the types and `Writing`: while a write is under way the upstream is usable, and what is still to be written starts where the last write ended (`UpstreamSteps`, `RelayStep`) |

**Collector**, for any speakers, unparsable PDUs, ring capacity, numbers of PDUs and reconnects. Assumptions: `CollectorAssumption`, `MalformedAssumption`. `OnceAndInOrder` speaks of what Core received; it is inductive only with the order of everything still under way. `LaneMap` lines up the places a PDU passes: the connections in the order they were opened, the forwarder's hand, the ring. `CInv` says that PDUs of a speaker are older the nearer they are to Core (`Sorted`), were sent (`Known`), and that one delivered through a connection is older than what is on it and behind it and newer than what is on earlier ones (`Passed`, `Delivered`); `Links`: the forwarder writes to the newest connection. A step then does one of four things to the lanes: it cuts them to segments, moves the head of one to the end of the one before, appends a newest PDU, or delivers a head.

| Theorem | Argument |
|---|---|
| `TypeCorrect` | inductive |
| `OnceAndInOrderHolds` | from `CInv` (`InvOnce`): places of equal PDUs would have to be older than themselves |
| `LossOnlyByOverflowHolds` | inductive with the types: breaking a connection makes the premise false for good, every other step keeps what is accounted for |

**FilterReload**, for any contents, number of concurrent calls and channel capacity. Assumptions: `ContentAssumption`, `CapAssumption`.

| Theorem | Argument |
|---|---|
| `ReloadTypeCorrect` | inductive; lemmas `HandType`, `InstalledType` for the engine a load holds |
| `QuietFilterIsCurrentHolds` | inductive as `ReloadInv`, with `TypeOK` and two more parts: an engine the task holds with no signal pending is the file's (a write while it holds one leaves a notification behind), and so is the engine a call holds unless a write has aged it. Without them the step that installs an engine says nothing about the file |

**FilterRules**, with `FilterEngine`, `RotoFilter` and `AsPath`: lists of any length of any rules, tried on any routes, with addresses of any width and any language of expressions. Assumptions: `AddrAssumption`, `RuleAssumption` (what parses of a `prefix_list` is a network; a file that loads is not None).

| Theorem | Argument |
|---|---|
| `RulesTravelHolds` | the printed form of a path of sequences has all its ASNs (`PrintedWhole`), so the contexts of the RIB, the test endpoint and Roto share their fields (`TestedContext`); then a rule that asks only what a test request can say matches live exactly if it matches in the test, whether or not the RIB built a context (`TestedMatch`), and so does the first match of the list (`TestedAsLiveHolds`) |
| `PrefixListTakesSubnetsHolds` | a network that contains the address of another lies within it or around it (`ContainedNets`), so no rule before matches and this one is the first that does |

`TypeCorrect` of the modules other than RibManager, and `BatchIsNewestHolds`, are
proved and not the subject of a run.

Only model-checked:

- liveness, which needs fairness and `ENABLED`: `DroppedSpeakerIsEvicted`, `TasksAndChannelDrain`, `NothingHeldBack`, `BacklogDrains`, `OneLeaderEventually`, `StreamIsProcessed`, `SheddingEnds`, `FilterConverges`, `ClientConverges`, `EverythingIsFlushed`;
- the decoders and encoders, MRT and filter expressions: they recurse over byte strings and token lists, so `DecodesAsSent`, `CutMessagesLoseOnlyTheirEnd`, `NoPanic` and `ExpressionsMeanWhatTheySay` need induction over data.

---

## 5. Findings

Seven disagreements between the code and its own comments have runs that exhibit
them (section 3); `PROJECT.json` quotes the lines.

| Run | The comment | The code |
|---|---|---|
| pipeline_overlap | `receiver.rs:156`: the synthetic Termination makes the RIB evict a dropped speaker's routes | it may end the session of the router's next connection, whose routes then stay |
| rtr_delta | `vrp_cache.rs:51`, `:58`: replace on a reset, apply on a delta | `rtr.rs:153` replaces on both |
| adapters_retry | `output/mod.rs:31`: adapters retry internally | none does |
| ha_takeover | `ha.rs:5`: takeover within a lease | up to half a lease more (`ha.rs:64`) |
| proxy_stall | `proxy.rs:36`: works without the upstream | waits for one that does not read (`proxy.rs:123`) |
| prefix_list | `filter.rs:29`: routes within the listed networks | also routes around them, and every route if no entry parses (`filter.rs:91`, `:120`) |
| roto_stub | `roto_filter.rs:6`: the YAML rules stay active | the stub's Default is final (`manager.rs:179`) |

---

## 6. Not modelled

- *No caller*: the multicast VPN decoder (`mvpn.rs`), ASPA, BGPsec, annotation and origin validation. No route of the program is decoded, validated or annotated by them, so there is no behaviour to relate them to; a model would be a second implementation of the RFCs.
- *DNS cache*: its result is only logged. *Vault and inventory clients*: encryption of one file and HTTP requests; the cipher would be opaque, and what is left is a map that is written back after every change.
- *Message archive*: appends a line per message to a file no code reads, and logs errors.
- *Queries* on tables no Rust code fills (SR policy, anomalies, convergence, policy configuration), the RPKI queries, the statistics `as_origin_counts`, `prefix_convergence` and `aspath_graph` (each counts what no other view shows, the last one over as many of the newest rows as its limit leaves), plain selections, ORDER BY and LIMIT of results. Rows whose columns fail to convert are dropped by `filter_map(|r| r.ok())`; which ones do is a matter of the driver.
- *HTTP API, MCP server, configuration, authentication, TLS*: stateless or read once. Their filter endpoints, the event stream and the queries behind them are modelled.
- *Roto scripts and their JIT*: external; the server is built without the feature.
- *bmppy, UI, dashboards, lab*: consumers outside the server.
- Cancellation tokens: no code of the server cancels them. Back-off delays: a delay is any delay.
- The memory loop of the governor, and its write flag beyond `SheddingEnds`: nothing reads those flags.
- Nothing in `main.rs` starts the leader election or the output adapters, and nothing writes MRT files; `HaElection`, `AdapterPump`, `AlertAdapter` and `Mrt` specify the components as written.
- Two hazards in `PROJECT.json` have no property: a speaker lost behind the edge collector gets no Termination, so nothing that could be promised about its routes is kept by the code (`collector.rs:168`); and frame lengths a router never sends (`receiver.rs:113`).

---

## 7. Behaviour worth knowing

Met while modelling, translated as it is, and not the subject of a run:

- *RIB*. After the best Add-Path route is withdrawn no route of the prefix is best until the next announcement (`manager.rs:159`). Two routers that report on one peer address share one table, and the Termination of one deletes routes of the other (`manager.rs:87`). A skipped Peer Up frame leaves routes without a session (`receiver.rs:149`). `expire_stale_for_peer` has no caller: stale routes last until their speaker's Termination (`manager.rs:63`). EVPN, Flowspec and BGP-LS routes make no RIB entries. Peer Down and Termination remove routes without RouteChange events.
- *History*. `current_rib` ranks rows of all RIB types of a prefix together when no type is given, leaves the choice to the database when an UPDATE withdraws and announces one prefix (two rows, one stamp), and ignores `peer_events`: routes lost with a session, or with a restart of the server, stay listed. `prefix_peers` ("currently see") counts peers that withdrew; `policy_delta` counts what was ever announced; `path_status_matrix` keeps withdrawn paths. `prefix_convergence` also measures gaps before withdrawals, although `query.rs:207` speaks of announce events. `as_origin_counts` fails as a whole when one path ends in an AS set (the CAST). The trend of the capacity view is always 0. Retention never touches `path_markings`, and a stable route vanishes from `current_rib` when its announcement is swept. The RPKI queries look for a column value nobody writes.
- *Filters*. A deny rule whose only condition does not parse denies everything. `NOT NOT` does not parse. The live context always has RPKI state "unknown", so `block-rpki-invalid` never fires. A missing LOCAL_PREF is 0 in rules and in Roto and 100 in expressions. The test endpoint evaluates the default file with empty attributes, not the engine in force. Reload, test and statistics always use `config/filters.yaml`, whatever file is configured. Printed AS paths lose what brackets enclose, so sets and confederations look different to the test endpoint and to Roto. An engine posted for onboarding lasts until the next reload. A reload by the endpoint that read the file before a write may install after the watcher has loaded that write: `QuietFilterIsCurrent` exempts it, and the file is in force again with the next load (`api/filters.rs:122`). A filter file missing at the start ends the watcher; replacing the file by rename may leave the watcher without events (external).
- *Decoders*. `DecodesAsSent` names four misreadings of conforming messages: `is_eor` is true for an UPDATE whose MP_UNREACH withdraws only non-prefix routes (`types.rs:881`); a 4-byte AS_PATH whose bytes are also a valid 2-byte path, as when the low half of its last number is 256 to 1024 in steps of 256, is read as that; VPN next hops are split into addresses, route distinguisher included (`nlri.rs:228`); statistics 9 and 10 are read with 7 bytes where RFC 7854 uses 11 (`parser.rs:252`). `find_path_status_tlv` scans from the BGP marker and never finds a TLV. A withdrawn labelled prefix with label 0x800000 has no bottom-of-stack bit and is misread. EVPN type 5 IPv6 prefixes up to /32 are read as IPv4. The UPDATE's own length is not looked at. SR segment type A takes its label from 24 bits. Types 4, 6 and 7 of the unused multicast VPN decoder do not follow RFC 6514.
- *MRT*. The state change of an IPv6 peer declares 16 bytes for a local address that is written as 0.0.0.0, so the record after it is misframed (`rbmp-mrt/src/writer.rs:131`). A labelled or VPN IPv6 prefix is written under the IPv4 subtype (`rbmp-mrt/src/writer.rs:223`). A file that ends inside a header reads like one that ends properly (`rbmp-mrt/src/reader.rs:36`). `DecodesAsSent` excepts the records of the first two kinds and no other.
- *Consumers*. A lagging store writer drops history (`writer.rs:34`). A dedup key is recorded before its request is made, so a failed alert suppresses the next one (`servicenow_em.rs:67`; part of adapters_retry).
- *Leader election*. An instance cut off from Redis keeps leading until it reaches Redis again, while another takes over (`ha.rs:113`). A key that expires between GET and EXPIRE gives two leaders until the next round, and a restarted instance takes up the rest of its own old lease. `lease_secs = 1` gives a zero interval, which panics.
- *Collector*. The envelope being written when a write fails is lost (`collector.rs:256`).
- *Receiver*. A declared frame length of 0 is never consumed (`receiver.rs:113`).
- *RTR client*. An End of Data PDU of less than 12 bytes panics (`rtr.rs:150`); the modelled cache sends whole PDUs, and no Serial Notify inside a response.
- *Enrichment*. `annotate` never sets `rpki_more_specific`; `verify_signatures` never yields a verdict; `apply_delta` ignores the maximal length.

---

## 8. Plan

The parts of the plan are built: the RIB core, its tables, the pipeline, history
and queries, the event consumers with both refinements, leader election, ingest,
collector, RTR client, filter lists and filter reload, with proofs; the decoders,
MRT and filter expressions, model-checked.

A change of the code under a mapped definition calls for its run first and its
proofs second: a step whose action changed fails by name. What would extend the
project is listed in section 6.
