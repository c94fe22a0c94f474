----------------------------- MODULE RibManager -----------------------------
(***************************************************************************)
(* The RIB engine: crates/rbmp-rib/src/manager.rs and session.rs.          *)
(*                                                                         *)
(* RibManager::process is one step per BmpMessage: main.rs holds the write *)
(* lock for the whole call.  Messages arrive in any order and from any     *)
(* speaker here; module BmpPipeline composes this module with the tasks    *)
(* that produce them.                                                      *)
(*                                                                         *)
(* The parser calls parse_bgp_update(rest, false) (parser.rs 217), so      *)
(* every path id is None and a key is (RIB type, prefix); the Add-Path     *)
(* branch is module RibTable.  A session keeps its state and its LLGR      *)
(* stale time; names, capabilities, AS numbers, timestamps and counters    *)
(* decide nothing and are dropped.  A filter engine is the set of routes   *)
(* it denies.                                                              *)
(***************************************************************************)
EXTENDS Llgr

CONSTANTS
    Speakers,    \* BMP speakers (routers), by address
    Peers,       \* BGP peers, by address
    RibTypes,
    Prefixes,
    Attrs,       \* path attributes
    LlgrSecs,    \* stale times a peer may advertise; 0 = LLGR not active
    Engines,     \* the filter engines that may be loaded
    NoSpeaker, NoPeer, NoRib, NoRoute, NoEngine   \* absent map entries

ASSUME LlgrAssumption == LlgrSecs \subseteq Nat

Keys        == RibTypes \X Prefixes
PeerSession == [state : {"Up", "Down"}, llgr : LlgrSecs]
\* "from" is not in RibEntry: it records, for the properties, who announced.
RibEntry    == [attr : Attrs, stale : StaleMarks, from : Speakers]

ASSUME AbsentAssumption ==
    /\ NoPeer \notin PeerSession
    /\ NoRoute \notin RibEntry
    /\ NoRib \notin [Keys -> RibEntry \cup {NoRoute}]
    /\ NoSpeaker \notin [Peers -> PeerSession \cup {NoPeer}]

ASSUME EngineAssumption ==
    /\ NoEngine \notin Engines
    /\ \A e \in Engines : e \subseteq (Peers \X Prefixes \X Attrs)

VARIABLES
    speakers,    \* RibManager.speakers, each with BmpSession.peers
    ribs,        \* RibManager.ribs: one table per peer address
    filter,      \* RibManager.filter (YAML)
    roto,        \* RibManager.roto_filter, takes priority
    lastChange,  \* the last RouteChange sent on event_tx, per peer and route
    now          \* wall clock

vars == <<speakers, ribs, filter, roto, lastChange, now>>

NoChange  == [act |-> "never"]
Withdrawn == [act |-> "withdraw"]
Announced(a) == [act |-> "announce", attr |-> a]
Changes   == {NoChange, Withdrawn} \cup {Announced(a) : a \in Attrs}

Init ==
    /\ speakers = [s \in Speakers |-> NoSpeaker]
    /\ ribs = [p \in Peers |-> NoRib]
    /\ filter = NoEngine
    /\ roto = NoEngine
    /\ lastChange = [p \in Peers |-> [k \in Keys |-> NoChange]]
    /\ now = 0

-----------------------------------------------------------------------------
(* Lookups *)

NoPeers  == [p \in Peers |-> NoPeer]
EmptyRib == [k \in Keys |-> NoRoute]

\* speakers.entry(s).or_insert_with(BmpSession::new)
Session(s) == IF speakers[s] = NoSpeaker THEN NoPeers ELSE speakers[s]

\* ribs.entry(p).or_default()
Rib(p) == IF ribs[p] = NoRib THEN EmptyRib ELSE ribs[p]

\* The peer has an entry in the speaker's session
Knows(s, p) == speakers[s] # NoSpeaker /\ speakers[s][p] # NoPeer

Has(p, k) == ribs[p] # NoRib /\ ribs[p][k] # NoRoute

\* The verdict for an announced route: a loaded Roto engine decides alone
Denied(p, x, a) ==
    IF roto # NoEngine THEN <<p, x, a>> \in roto
                       ELSE filter # NoEngine /\ <<p, x, a>> \in filter

-----------------------------------------------------------------------------
(* RibManager::process, one operator per BmpPayload *)

Initiation(s) ==
    /\ speakers' = [speakers EXCEPT ![s] = Session(s)]
    /\ UNCHANGED <<ribs, filter, roto, lastChange, now>>

\* Mutant: only the peers that are Up lose their tables
TerminationKeepsDown(s) ==
    /\ speakers' = [speakers EXCEPT ![s] = NoSpeaker]
    /\ ribs' = [p \in Peers |-> IF Knows(s, p) /\ speakers[s][p].state = "Up"
                                THEN NoRib ELSE ribs[p]]
    /\ UNCHANGED <<filter, roto, lastChange, now>>

\* The peers of the speaker's own session lose their tables
Termination(s) ==
    /\ speakers' = [speakers EXCEPT ![s] = NoSpeaker]
    /\ ribs' = [p \in Peers |-> IF Knows(s, p) THEN NoRib ELSE ribs[p]]
    /\ UNCHANGED <<filter, roto, lastChange, now>>

\* PeerSession::new and on_up.  The peer's table is left as it is.
PeerUp(s, p, secs) ==
    /\ speakers' = [speakers EXCEPT ![s] =
                      [Session(s) EXCEPT ![p] = [state |-> "Up", llgr |-> secs]]]
    /\ UNCHANGED <<ribs, filter, roto, lastChange, now>>

\* llgr_active of a peer this speaker's session knows
LlgrActive(s, p) == Knows(s, p) /\ speakers[s][p].llgr > 0

OnDown(s, p) ==
    IF Knows(s, p) THEN [speakers EXCEPT ![s][p].state = "Down"] ELSE speakers

MarkStaleAll(t, at) == [k \in Keys |-> IF t[k] = NoRoute THEN NoRoute ELSE MarkStale(t[k], at)]

\* Mutant: without LLGR the table is left alone
PeerDownKeepsRoutes(s, p, at) ==
    /\ speakers' = OnDown(s, p)
    /\ ribs' = [ribs EXCEPT ![p] = IF LlgrActive(s, p) /\ @ # NoRib
                                     THEN MarkStaleAll(@, at) ELSE @]
    /\ UNCHANGED <<filter, roto, lastChange, now>>

\* at is msg.received_at, taken when the message entered the channel
PeerDown(s, p, at) ==
    /\ speakers' = OnDown(s, p)
    /\ ribs' = [ribs EXCEPT ![p] =
                  IF ~LlgrActive(s, p) THEN EmptyRib
                  ELSE IF ribs[p] = NoRib THEN NoRib ELSE MarkStaleAll(ribs[p], at)]
    /\ UNCHANGED <<filter, roto, lastChange, now>>

\* What an UPDATE for RIB type r makes of one peer's map: the accepted prefixes
\* get the value added, then the other withdrawn ones the value removed.
Updated(old, r, accepted, W, added, removed) ==
    [k \in Keys |-> CASE k[1] = r /\ k[2] \in accepted     -> added
                      [] k[1] = r /\ k[2] \in W \ accepted -> removed
                      [] OTHER                             -> old[k]]

Accepted(p, A, a) == {x \in A : ~Denied(p, x, a)}

\* Mutant: a withdrawal is announced to subscribers but the route is kept
RouteMonitoringKeepsWithdrawn(s, p, r, W, A, a) ==
    /\ ribs' = [ribs EXCEPT ![p] =
                  Updated(Rib(p), r, Accepted(p, A, a), {},
                          [attr |-> a, stale |-> Fresh, from |-> s], NoRoute)]
    /\ lastChange' = [lastChange EXCEPT ![p] =
                        Updated(@, r, Accepted(p, A, a), W, Announced(a), Withdrawn)]
    /\ UNCHANGED <<speakers, filter, roto, now>>

\* An UPDATE that is no End-of-RIB marker: withdrawals W, then announcements A,
\* all with the attributes a.  A denied announcement leaves the key untouched.
RouteMonitoring(s, p, r, W, A, a) ==
    /\ ribs' = [ribs EXCEPT ![p] =
                  Updated(Rib(p), r, Accepted(p, A, a), W,
                          [attr |-> a, stale |-> Fresh, from |-> s], NoRoute)]
    /\ lastChange' = [lastChange EXCEPT ![p] =
                        Updated(@, r, Accepted(p, A, a), W, Announced(a), Withdrawn)]
    /\ UNCHANGED <<speakers, filter, roto, now>>

\* End-of-RIB, statistics and mirrored PDUs change no state
NoStateChange == UNCHANGED vars

SetFilter(e)      == filter' = e /\ UNCHANGED <<speakers, ribs, roto, lastChange, now>>
ClearFilter       == filter' = NoEngine /\ UNCHANGED <<speakers, ribs, roto, lastChange, now>>
SetRotoFilter(e)  == roto' = e /\ UNCHANGED <<speakers, ribs, filter, lastChange, now>>

\* drain_deleted_stale on the peer's table, if it has one
ExpireStaleForPeer(p, secs) ==
    /\ ribs[p] # NoRib
    /\ ribs' = [ribs EXCEPT ![p] =
                  [k \in Keys |-> IF @[k] # NoRoute /\ Expired(@[k], now, secs)
                                    THEN NoRoute ELSE @[k]]]
    /\ UNCHANGED <<speakers, filter, roto, lastChange, now>>

Tick == now < MaxTime /\ now' = now + 1
        /\ UNCHANGED <<speakers, ribs, filter, roto, lastChange>>

Process ==
    \/ \E s \in Speakers : Initiation(s)
    \/ \E s \in Speakers : Termination(s)
    \/ \E s \in Speakers, p \in Peers, secs \in LlgrSecs : PeerUp(s, p, secs)
    \/ \E s \in Speakers, p \in Peers, at \in 0 .. now : PeerDown(s, p, at)
    \/ \E s \in Speakers, p \in Peers, r \in RibTypes, a \in Attrs,
          W, A \in SUBSET Prefixes : RouteMonitoring(s, p, r, W, A, a)
    \/ NoStateChange

Next ==
    \/ Process
    \/ \E e \in Engines : SetFilter(e)
    \/ \E e \in Engines : SetRotoFilter(e)
    \/ ClearFilter
    \/ \E p \in Peers, secs \in LlgrSecs : ExpireStaleForPeer(p, secs)
    \/ Tick

Spec == Init /\ [][Next]_vars

-----------------------------------------------------------------------------
(* Properties *)

\* The maps hold sessions, entries and engines of the right shape.
TypeOK ==
    /\ speakers \in [Speakers -> [Peers -> PeerSession \cup {NoPeer}] \cup {NoSpeaker}]
    /\ ribs \in [Peers -> [Keys -> RibEntry \cup {NoRoute}] \cup {NoRib}]
    /\ filter \in Engines \cup {NoEngine}
    /\ roto \in Engines \cup {NoEngine}
    /\ lastChange \in [Peers -> [Keys -> Changes]]
    /\ now \in Time

\* Every route the manager stores is the one its subscribers saw last: the last
\* RouteChange emitted for it is an Announce with the stored attributes, across
\* denied updates, peer flaps, speaker restarts and filter reloads.
EventsExplainRib ==
    \A p \in Peers, k \in Keys :
        Has(p, k) => lastChange[p][k] = Announced(ribs[p][k].attr)

\* A stale route can always be evicted: some connected speaker's session still
\* lists its peer, so that speaker's Termination removes it.
StaleRoutesHaveOwner ==
    \A p \in Peers, k \in Keys :
        (Has(p, k) /\ ribs[p][k].stale # Fresh) => \E s \in Speakers : Knows(s, p)

StaleMarkKept ==
    \A p \in Peers, k \in Keys :
        (Has(p, k) /\ Has(p, k)' /\ ribs[p][k].stale # Fresh /\ ribs'[p][k].stale # Fresh)
            => ribs'[p][k].stale = ribs[p][k].stale

\* The stale timestamp of a route is never moved by a later Peer Down: a
\* flapping peer cannot keep a stale route alive.
StaleClockNotRestarted == [][StaleMarkKept]_vars

\* In a build without roto-jit every Roto engine answers Default: it denies nothing
RotoStub == {}

NewRoutesPassYaml ==
    \A p \in Peers, k \in Keys :
        (Has(p, k)' /\ (Has(p, k) => ribs'[p][k].attr # ribs[p][k].attr)
                   /\ roto \in {NoEngine, RotoStub} /\ filter # NoEngine)
            => <<p, k[2], ribs'[p][k].attr>> \notin filter

\* Without roto-jit the YAML DSL is preserved as the only active engine: a route it denies
\* neither enters the table nor replaces another, whether or not a .roto script was loaded
\* (roto_filter.rs 6-9, manager.rs 179-205).
YamlStaysActive == [][NewRoutesPassYaml]_vars

=============================================================================
