-------------------------- MODULE RibManagerProofs --------------------------
(***************************************************************************)
(* Theorems about RibManager for every set of speakers, peers, prefixes,   *)
(* attributes and filter engines, and any order of BMP messages; then      *)
(* about BmpPipeline, the connections, channel and pump in front of it,    *)
(* for every number of connections and every channel capacity; then about  *)
(* History, the rows the store writes beside it, their retention and the   *)
(* queries on them.                                                        *)
(***************************************************************************)
EXTENDS BmpPipeline, History, SequenceTheorems, FiniteSetTheorems, WellFoundedInduction, TLAPS

-----------------------------------------------------------------------------
(* Facts about the operators *)

\* A session looked up with or_insert_with has an entry slot for every peer.
LEMMA SessionType ==
    ASSUME TypeOK, NEW s \in Speakers
    PROVE  Session(s) \in [Peers -> PeerSession \cup {NoPeer}]
BY DEF TypeOK, Session, NoPeers

\* A table looked up with or_default has a slot for every route.
LEMMA RibTypeLemma ==
    ASSUME TypeOK, NEW p \in Peers
    PROVE  Rib(p) \in [Keys -> RibEntry \cup {NoRoute}]
BY DEF TypeOK, Rib, EmptyRib

\* Marking an entry stale keeps its attributes and its source.
LEMMA MarkStaleEntry ==
    ASSUME NEW e \in RibEntry, NEW t \in Time
    PROVE  /\ MarkStale(e, t) \in RibEntry
           /\ MarkStale(e, t).attr = e.attr
           /\ e.stale # Fresh => MarkStale(e, t).stale = e.stale
BY DEF RibEntry, MarkStale, StaleMarks

\* Marking a table stale yields a table.
LEMMA MarkStaleAllType ==
    ASSUME NEW t \in [Keys -> RibEntry \cup {NoRoute}], NEW at \in Time
    PROVE  MarkStaleAll(t, at) \in [Keys -> RibEntry \cup {NoRoute}]
BY MarkStaleEntry DEF MarkStaleAll

-----------------------------------------------------------------------------
\* A Peer Down leaves sessions and tables, whenever it was received.
LEMMA PeerDownType ==
    ASSUME TypeOK, NEW s \in Speakers, NEW p \in Peers, NEW at \in Time, PeerDown(s, p, at)
    PROVE  TypeOK'
<1> USE DEF TypeOK
<1>1. speakers' \in [Speakers -> [Peers -> PeerSession \cup {NoPeer}] \cup {NoSpeaker}]
  BY DEF PeerDown, OnDown, Knows, PeerSession
<1>2. ribs' \in [Peers -> [Keys -> RibEntry \cup {NoRoute}] \cup {NoRib}]
  BY MarkStaleAllType DEF PeerDown, EmptyRib
<1> QED BY <1>1, <1>2 DEF PeerDown

\* Every step keeps the types.
LEMMA TypeStep == TypeOK /\ [Next]_vars => TypeOK'
<1> SUFFICES ASSUME TypeOK, [Next]_vars PROVE TypeOK'
  OBVIOUS
<1> USE DEF TypeOK
<1>1. ASSUME NEW s \in Speakers, Initiation(s) PROVE TypeOK'
  BY <1>1, SessionType DEF Initiation
<1>2. ASSUME NEW s \in Speakers, Termination(s) PROVE TypeOK'
  BY <1>2 DEF Termination
<1>3. ASSUME NEW s \in Speakers, NEW p \in Peers, NEW secs \in LlgrSecs,
             PeerUp(s, p, secs)
      PROVE  TypeOK'
  <2>1. [Session(s) EXCEPT ![p] = [state |-> "Up", llgr |-> secs]]
          \in [Peers -> PeerSession \cup {NoPeer}]
    BY SessionType DEF PeerSession
  <2> QED BY <1>3, <2>1 DEF PeerUp
<1>4. ASSUME NEW s \in Speakers, NEW p \in Peers, NEW at \in 0 .. now,
             PeerDown(s, p, at)
      PROVE  TypeOK'
  <2>1. at \in Time
    BY TimeAssumption DEF Time
  <2> QED BY <1>4, <2>1, PeerDownType
<1>5. ASSUME NEW s \in Speakers, NEW p \in Peers, NEW r \in RibTypes, NEW a \in Attrs,
             NEW W \in SUBSET Prefixes, NEW A \in SUBSET Prefixes,
             RouteMonitoring(s, p, r, W, A, a)
      PROVE  TypeOK'
  <2>1. [attr |-> a, stale |-> Fresh, from |-> s] \in RibEntry
    BY DEF RibEntry, StaleMarks
  <2>2. Announced(a) \in Changes /\ Withdrawn \in Changes
    BY DEF Changes
  <2>3. ribs' \in [Peers -> [Keys -> RibEntry \cup {NoRoute}] \cup {NoRib}]
    BY <1>5, <2>1, RibTypeLemma DEF RouteMonitoring, Updated
  <2>4. lastChange' \in [Peers -> [Keys -> Changes]]
    BY <1>5, <2>2 DEF RouteMonitoring, Updated
  <2> QED BY <1>5, <2>3, <2>4 DEF RouteMonitoring
<1>6. ASSUME NEW p \in Peers, NEW secs \in LlgrSecs, ExpireStaleForPeer(p, secs)
      PROVE  TypeOK'
  BY <1>6 DEF ExpireStaleForPeer
<1>7. CASE Tick
  BY <1>7, TimeAssumption DEF Tick, Time
<1>8. CASE \E e \in Engines : SetFilter(e)
  BY <1>8 DEF SetFilter
<1>9. CASE \E e \in Engines : SetRotoFilter(e)
  BY <1>9 DEF SetRotoFilter
<1>10. CASE ClearFilter
  BY <1>10 DEF ClearFilter
<1>11. CASE UNCHANGED vars
  BY <1>11 DEF vars
<1> QED BY <1>1, <1>2, <1>3, <1>4, <1>5, <1>6, <1>7, <1>8, <1>9, <1>10, <1>11
        DEF Next, Process, NoStateChange

\* The empty maps are well formed.
LEMMA TypeInit == Init => TypeOK
BY TimeAssumption DEF Init, TypeOK, Changes, NoChange, Time

\* Every message handler, filter reload and expiry keeps the maps of RibManager
\* well formed.
THEOREM TypeCorrect == Spec => []TypeOK
BY TypeInit, TypeStep, PTL DEF Spec

-----------------------------------------------------------------------------
\* The last RouteChange emitted for a stored route is an Announce with the stored
\* attributes.  Inductive with TypeOK: only RouteMonitoring adds a route or
\* changes attributes, and it emits the matching event in the same step; every
\* other handler removes routes or touches their stale mark only.
THEOREM EventsExplainRibHolds == Spec => []EventsExplainRib
<1>1. Init => EventsExplainRib
  BY DEF Init, EventsExplainRib, Has
<1>2. TypeOK /\ EventsExplainRib /\ [Next]_vars => EventsExplainRib'
  <2> SUFFICES ASSUME TypeOK, EventsExplainRib, [Next]_vars PROVE EventsExplainRib'
    OBVIOUS
  <2> SUFFICES ASSUME NEW q \in Peers, NEW k \in Keys, Has(q, k)'
               PROVE  lastChange'[q][k] = Announced(ribs'[q][k].attr)
    BY DEF EventsExplainRib, Announced
  <2> USE DEF TypeOK, EventsExplainRib, Has
  <2>1. ASSUME NEW s \in Speakers, Initiation(s)
        PROVE  lastChange'[q][k] = Announced(ribs'[q][k].attr)
    BY <2>1 DEF Initiation
  <2>2. ASSUME NEW s \in Speakers, Termination(s)
        PROVE  lastChange'[q][k] = Announced(ribs'[q][k].attr)
    BY <2>2 DEF Termination
  <2>3. ASSUME NEW s \in Speakers, NEW p \in Peers, NEW secs \in LlgrSecs,
               PeerUp(s, p, secs)
        PROVE  lastChange'[q][k] = Announced(ribs'[q][k].attr)
    BY <2>3 DEF PeerUp
  <2>4. ASSUME NEW s \in Speakers, NEW p \in Peers, NEW at \in 0 .. now,
               PeerDown(s, p, at)
        PROVE  lastChange'[q][k] = Announced(ribs'[q][k].attr)
    <3>1. CASE q # p
      BY <2>4, <3>1 DEF PeerDown
    <3>2. CASE q = p
      <4>1. ribs[q] # NoRib /\ ribs'[q] = MarkStaleAll(ribs[q], at)
        BY <2>4, <3>2 DEF PeerDown, EmptyRib
      <4>2. ribs[q][k] \in RibEntry /\ ribs'[q][k] = MarkStale(ribs[q][k], at)
        BY <4>1 DEF MarkStaleAll
      <4>3. ribs'[q][k].attr = ribs[q][k].attr
        <5>1. at \in Time
          BY TimeAssumption DEF Time
        <5> QED BY <4>2, <5>1, MarkStaleEntry
      <4> QED BY <2>4, <4>1, <4>2, <4>3, AbsentAssumption DEF PeerDown
    <3> QED BY <3>1, <3>2
  <2>5. ASSUME NEW s \in Speakers, NEW p \in Peers, NEW r \in RibTypes, NEW a \in Attrs,
               NEW W \in SUBSET Prefixes, NEW A \in SUBSET Prefixes,
               RouteMonitoring(s, p, r, W, A, a)
        PROVE  lastChange'[q][k] = Announced(ribs'[q][k].attr)
    <3>1. CASE q # p
      BY <2>5, <3>1 DEF RouteMonitoring
    <3>2. CASE q = p
      BY <2>5, <3>2 DEF RouteMonitoring, Updated, Accepted, Rib, EmptyRib
    <3> QED BY <3>1, <3>2
  <2>6. ASSUME NEW p \in Peers, NEW secs \in LlgrSecs, ExpireStaleForPeer(p, secs)
        PROVE  lastChange'[q][k] = Announced(ribs'[q][k].attr)
    BY <2>6 DEF ExpireStaleForPeer
  <2>7. CASE Tick
    BY <2>7 DEF Tick
  <2>8. CASE \E e \in Engines : SetFilter(e)
    BY <2>8 DEF SetFilter
  <2>9. CASE \E e \in Engines : SetRotoFilter(e)
    BY <2>9 DEF SetRotoFilter
  <2>10. CASE ClearFilter
    BY <2>10 DEF ClearFilter
  <2>11. CASE UNCHANGED vars
    BY <2>11 DEF vars
  <2> QED BY <2>1, <2>2, <2>3, <2>4, <2>5, <2>6, <2>7, <2>8, <2>9, <2>10, <2>11
          DEF Next, Process, NoStateChange
<1> QED BY <1>1, <1>2, TypeCorrect, PTL DEF Spec

-----------------------------------------------------------------------------
\* The peer of a stale route is listed by some connected speaker, so a
\* Termination can still evict it.  A route becomes stale only in PeerDown of a
\* session that knows the peer, and a session that goes away takes the tables of
\* all the peers it knows with it.
THEOREM StaleRoutesHaveOwnerHolds == Spec => []StaleRoutesHaveOwner
<1>1. Init => StaleRoutesHaveOwner
  BY DEF Init, StaleRoutesHaveOwner, Has
<1>2. TypeOK /\ StaleRoutesHaveOwner /\ [Next]_vars => StaleRoutesHaveOwner'
  <2> SUFFICES ASSUME TypeOK, StaleRoutesHaveOwner, [Next]_vars,
                      NEW q \in Peers, NEW k \in Keys,
                      Has(q, k)', ribs'[q][k].stale # Fresh
               PROVE  \E s \in Speakers : Knows(s, q)'
    BY DEF StaleRoutesHaveOwner
  <2> USE DEF TypeOK
  <2> DEFINE WasStale == Has(q, k) /\ ribs[q][k].stale # Fresh
  <2>0. WasStale => \E s \in Speakers : Knows(s, q)
    BY DEF StaleRoutesHaveOwner
  <2>1. ASSUME NEW s \in Speakers, Initiation(s) PROVE \E t \in Speakers : Knows(t, q)'
    <3>1. WasStale
      BY <2>1 DEF Initiation, Has
    <3>2. PICK t \in Speakers : Knows(t, q)
      BY <2>0, <3>1
    <3>3. Knows(t, q)'
      BY <2>1, <3>2, SessionType, AbsentAssumption DEF Initiation, Session, Knows
    <3> QED BY <3>3
  <2>2. ASSUME NEW s \in Speakers, Termination(s) PROVE \E t \in Speakers : Knows(t, q)'
    <3>1. ~Knows(s, q) /\ WasStale
      BY <2>2 DEF Termination, Has
    <3>2. PICK t \in Speakers : Knows(t, q)
      BY <2>0, <3>1
    <3>3. Knows(t, q)'
      BY <2>2, <3>1, <3>2 DEF Termination, Knows
    <3> QED BY <3>3
  <2>3. ASSUME NEW s \in Speakers, NEW p \in Peers, NEW secs \in LlgrSecs,
               PeerUp(s, p, secs)
        PROVE  \E t \in Speakers : Knows(t, q)'
    <3>1. WasStale
      BY <2>3 DEF PeerUp, Has
    <3>2. PICK t \in Speakers : Knows(t, q)
      BY <2>0, <3>1
    <3>3. [Session(s) EXCEPT ![p] = [state |-> "Up", llgr |-> secs]]
            \in [Peers -> PeerSession \cup {NoPeer}]
      BY SessionType DEF PeerSession
    <3>4. [state |-> "Up", llgr |-> secs] # NoPeer
      BY AbsentAssumption DEF PeerSession
    <3>5. Knows(t, q)'
      BY <2>3, <3>2, <3>3, <3>4, SessionType, AbsentAssumption DEF PeerUp, Session, Knows
    <3> QED BY <3>5
  <2>4. ASSUME NEW s \in Speakers, NEW p \in Peers, NEW at \in 0 .. now,
               PeerDown(s, p, at)
        PROVE  \E t \in Speakers : Knows(t, q)'
    <3>1. \A t \in Speakers : Knows(t, q) => Knows(t, q)'
      <4> SUFFICES ASSUME NEW t \in Speakers, Knows(t, q) PROVE Knows(t, q)'
        OBVIOUS
      <4>1. CASE ~Knows(s, p)
        BY <2>4, <4>1 DEF PeerDown, OnDown, Knows
      <4>2. CASE Knows(s, p)
        <5>1. speakers[s] \in [Peers -> PeerSession \cup {NoPeer}]
              /\ speakers[s][p] \in PeerSession
          BY <4>2 DEF Knows
        <5>2. [speakers[s][p] EXCEPT !.state = "Down"] \in PeerSession
          BY <5>1 DEF PeerSession
        <5>3. speakers' = [speakers EXCEPT ![s] =
                 [speakers[s] EXCEPT ![p] = [speakers[s][p] EXCEPT !.state = "Down"]]]
          BY <2>4, <4>2 DEF PeerDown, OnDown
        <5>4. [speakers[s] EXCEPT ![p] = [speakers[s][p] EXCEPT !.state = "Down"]]
                \in [Peers -> PeerSession \cup {NoPeer}]
          BY <5>1, <5>2
        <5> QED BY <5>1, <5>2, <5>3, <5>4, AbsentAssumption DEF Knows
      <4> QED BY <4>1, <4>2
    <3>2. CASE WasStale
      BY <2>0, <3>1, <3>2
    <3>3. CASE ~WasStale
      <4>1. q = p /\ LlgrActive(s, p)
        BY <2>4, <3>3 DEF PeerDown, Has, EmptyRib
      <4> QED BY <4>1, <3>1 DEF LlgrActive
    <3> QED BY <3>2, <3>3
  <2>5. ASSUME NEW s \in Speakers, NEW p \in Peers, NEW r \in RibTypes, NEW a \in Attrs,
               NEW W \in SUBSET Prefixes, NEW A \in SUBSET Prefixes,
               RouteMonitoring(s, p, r, W, A, a)
        PROVE  \E t \in Speakers : Knows(t, q)'
    <3>1. WasStale
      BY <2>5 DEF RouteMonitoring, Updated, Accepted, Rib, EmptyRib, Has
    <3> QED BY <2>5, <2>0, <3>1 DEF RouteMonitoring, Knows
  <2>6. ASSUME NEW p \in Peers, NEW secs \in LlgrSecs, ExpireStaleForPeer(p, secs)
        PROVE  \E t \in Speakers : Knows(t, q)'
    BY <2>6, <2>0 DEF ExpireStaleForPeer, Has, Knows
  <2>7. CASE UNCHANGED <<speakers, ribs>>
    BY <2>7, <2>0 DEF Has, Knows
  <2> QED BY <2>1, <2>2, <2>3, <2>4, <2>5, <2>6, <2>7
          DEF Next, Process, NoStateChange, Tick, SetFilter, SetRotoFilter, ClearFilter, vars
<1> QED BY <1>1, <1>2, TypeCorrect, PTL DEF Spec

-----------------------------------------------------------------------------
\* A repeated Peer Down never moves the stale timestamp of a route: mark_stale_all
\* skips entries that are already stale, and only a new announcement, which makes
\* the route fresh, replaces an entry.
THEOREM StaleClockNotRestartedHolds == Spec => StaleClockNotRestarted
<1>1. TypeOK /\ [Next]_vars => [StaleMarkKept]_vars
  <2> SUFFICES ASSUME TypeOK, Next, NEW q \in Peers, NEW k \in Keys,
                      Has(q, k), Has(q, k)',
                      ribs[q][k].stale # Fresh, ribs'[q][k].stale # Fresh
               PROVE  ribs'[q][k].stale = ribs[q][k].stale
    BY DEF StaleMarkKept
  <2> USE DEF TypeOK, Has
  <2>1. ASSUME NEW s \in Speakers, Termination(s)
        PROVE  ribs'[q][k].stale = ribs[q][k].stale
    BY <2>1 DEF Termination
  <2>2. ASSUME NEW s \in Speakers, NEW p \in Peers, NEW at \in 0 .. now,
               PeerDown(s, p, at)
        PROVE  ribs'[q][k].stale = ribs[q][k].stale
    <3>1. CASE q # p
      BY <2>2, <3>1 DEF PeerDown
    <3>2. CASE q = p
      <4>1. ribs'[q][k] = MarkStale(ribs[q][k], at) /\ ribs[q][k] \in RibEntry
        BY <2>2, <3>2 DEF PeerDown, EmptyRib, MarkStaleAll
      <4>2. at \in Time
        BY TimeAssumption DEF Time
      <4> QED BY <4>1, <4>2, MarkStaleEntry
    <3> QED BY <3>1, <3>2
  <2>3. ASSUME NEW s \in Speakers, NEW p \in Peers, NEW r \in RibTypes, NEW a \in Attrs,
               NEW W \in SUBSET Prefixes, NEW A \in SUBSET Prefixes,
               RouteMonitoring(s, p, r, W, A, a)
        PROVE  ribs'[q][k].stale = ribs[q][k].stale
    BY <2>3 DEF RouteMonitoring, Updated, Accepted, Rib
  <2>4. ASSUME NEW p \in Peers, NEW secs \in LlgrSecs, ExpireStaleForPeer(p, secs)
        PROVE  ribs'[q][k].stale = ribs[q][k].stale
    BY <2>4 DEF ExpireStaleForPeer
  <2>5. CASE UNCHANGED ribs
    BY <2>5
  <2> QED BY <2>1, <2>2, <2>3, <2>4, <2>5
          DEF Next, Process, Initiation, PeerUp, NoStateChange, Tick,
              SetFilter, SetRotoFilter, ClearFilter, vars
<1> QED BY <1>1, TypeCorrect, PTL DEF Spec, StaleClockNotRestarted

-----------------------------------------------------------------------------
(* The pipeline: its inductive invariant *)

\* A message that ends the session's belief that p is Up, and one that begins it
Ends(m, s, p) == m.spk = s /\ (m.kind = "termination" \/ (m.kind = "peer_down" /\ m.peer = p))
Begins(m, s, p) == m.kind = "peer_up" /\ m.spk = s /\ m.peer = p

SessionUp(s, p) == Knows(s, p) /\ speakers[s][p].state = "Up"

\* The session will hold p Up when the pump has processed the messages before the i-th.
UpAt(s, p, i) ==
    \/ SessionUp(s, p) /\ \A j \in 1 .. i - 1 : ~Ends(chan[j], s, p)
    \/ \E j \in 1 .. i - 1 : Begins(chan[j], s, p) /\ \A l \in j + 1 .. i - 1 : ~Ends(chan[l], s, p)

OrderlySpeakers == Speakers \ lapsed

\* A route belongs to a peer that its speaker's session lists, and holds Up if it is fresh.
RoutesOwned ==
    \A p \in Peers, k \in Keys :
        (Has(p, k) /\ ribs[p][k].from \in OrderlySpeakers) =>
            /\ Knows(ribs[p][k].from, p)
            /\ ribs[p][k].stale = Fresh => speakers[ribs[p][k].from][p].state = "Up"

\* The router at the other end of c has reported p Up and may send updates of it.
Reports(c, s, p) == task[c].phase = "open" /\ ~task[c].done /\ task[c].spk = s /\ p \in task[c].ups

\* An UPDATE is under way, or may be sent, only for a peer that will be Up by then.
UpdatesOfUpPeers ==
    \A s \in OrderlySpeakers, p \in Peers :
        /\ \A i \in 1 .. Len(chan) :
              (chan[i].kind = "update" /\ chan[i].spk = s /\ chan[i].peer = p) => UpAt(s, p, i)
        /\ \A c \in Conns : Reports(c, s, p) => UpAt(s, p, Len(chan) + 1)

\* An orderly speaker has one connection at a time.
OneConnection ==
    \A s \in OrderlySpeakers : \A c, d \in Conns :
        (Live(c) /\ Live(d) /\ task[c].spk = s /\ task[d].spk = s) => c = d

\* No message of s comes after position j of the channel.
SilentAt(s, j) == \A i \in 1 .. Len(chan) : i > j => chan[i].spk # s

\* The session of s is gone and nothing follows, or a Termination is its last message.
LastWord(s) ==
    \/ speakers[s] = NoSpeaker /\ SilentAt(s, 0)
    \/ \E j \in 1 .. Len(chan) :
          chan[j].kind = "termination" /\ chan[j].spk = s /\ SilentAt(s, j)

\* Without a connection the last thing the RIB hears of a speaker is a Termination.
LastIsTermination ==
    \A s \in OrderlySpeakers : (\A c \in Conns : task[c].spk = s => ~Live(c)) => LastWord(s)

PInv == PTypeOK /\ RoutesOwned /\ UpdatesOfUpPeers /\ OneConnection /\ LastIsTermination


-----------------------------------------------------------------------------
(* The pipeline: messages and types *)

\* What the fields of a message hold, by its kind
LEMMA MessageFields ==
    ASSUME NEW m \in Messages
    PROVE  /\ m.spk \in Speakers
           /\ m.kind \in {"initiation", "termination", "peer_up", "peer_down", "update"}
           /\ m.kind = "peer_up" => m.peer \in Peers /\ m.secs \in LlgrSecs
           /\ m.kind = "peer_down" => m.peer \in Peers /\ m.at \in Time
           /\ m.kind = "update" => /\ m.peer \in Peers /\ m.rib \in RibTypes /\ m.attr \in Attrs
                                   /\ m.wd \in SUBSET Prefixes /\ m.ann \in SUBSET Prefixes
<1> USE DEF Messages
<1>1. CASE m \in [kind : {"initiation", "termination"}, spk : Speakers]
  BY <1>1
<1>2. CASE m \in [kind : {"peer_up"}, spk : Speakers, peer : Peers, secs : LlgrSecs]
  BY <1>2
<1>3. CASE m \in [kind : {"peer_down"}, spk : Speakers, peer : Peers, at : Time]
  BY <1>3
<1>4. CASE m \in [kind : {"update"}, spk : Speakers, peer : Peers, rib : RibTypes,
                  wd : SUBSET Prefixes, ann : SUBSET Prefixes, attr : Attrs]
  BY <1>4
<1> QED
  BY <1>1, <1>2, <1>3, <1>4

\* The pump's call keeps the RIB well formed.
LEMMA HandleType ==
    ASSUME TypeOK, NEW m \in Messages, Handle(m)
    PROVE  TypeOK'
<1>1. CASE m.kind = "initiation" /\ Initiation(m.spk)
  BY <1>1, MessageFields, TypeStep DEF Next, Process
<1>2. CASE m.kind = "termination" /\ Termination(m.spk)
  BY <1>2, MessageFields, TypeStep DEF Next, Process
<1>3. CASE m.kind = "peer_up" /\ PeerUp(m.spk, m.peer, m.secs)
  BY <1>3, MessageFields, TypeStep DEF Next, Process
<1>4. CASE m.kind = "peer_down" /\ PeerDown(m.spk, m.peer, m.at)
  BY <1>4, MessageFields, PeerDownType
<1>5. CASE m.kind = "update" /\ RouteMonitoring(m.spk, m.peer, m.rib, m.wd, m.ann, m.attr)
  BY <1>5, MessageFields, TypeStep DEF Next, Process
<1> QED
  BY <1>1, <1>2, <1>3, <1>4, <1>5 DEF Handle

\* A frame leaves a task with its connection and phase.
LEMMA SentTask ==
    ASSUME NEW t \in Task, NEW m \in Messages, t.frames < MaxFrames
    PROVE  /\ Sent(t, m) \in Task
           /\ Sent(t, m).phase = t.phase /\ Sent(t, m).spk = t.spk
           /\ Sent(t, m).done = (m.kind = "termination")
           /\ Sent(t, m).ups \subseteq Peers
           /\ \A p \in Sent(t, m).ups :
                 \/ m.kind = "peer_up" /\ m.peer = p
                 \/ p \in t.ups /\ ~(m.kind = "peer_down" /\ m.peer = p)
<1>0. m.kind = "peer_up" => m.peer \in Peers
  BY MessageFields
<1>1. t.frames + 1 \in 0 .. MaxFrames
  BY PipelineAssumption DEF Task
<1> DEFINE U == CASE m.kind = "peer_up"   -> t.ups \cup {m.peer}
                  [] m.kind = "peer_down" -> t.ups \ {m.peer}
                  [] OTHER                -> t.ups
<1>2. Sent(t, m) = [t EXCEPT !.began = TRUE, !.done = (m.kind = "termination"),
                            !.ups = U, !.frames = t.frames + 1]
  BY DEF Sent
<1>3. U \subseteq Peers
  <2>1. t.ups \subseteq Peers
    BY DEF Task
  <2> QED
    BY <1>0, <2>1
<1>4. \A p \in U : \/ m.kind = "peer_up" /\ m.peer = p
                   \/ p \in t.ups /\ ~(m.kind = "peer_down" /\ m.peer = p)
  OBVIOUS
<1> HIDE DEF U
<1>5. (m.kind = "termination") \in BOOLEAN
  OBVIOUS
<1> QED
  BY <1>1, <1>2, <1>3, <1>4, <1>5 DEF Task

\* A connection opened or left is a task with nothing reported.
LEMMA ConnTask ==
    ASSUME NEW s \in Speakers, NEW ph \in {"idle", "open", "eof", "closed"}
    PROVE  Conn(ph, s) \in Task /\ Conn(ph, s).phase = ph /\ Conn(ph, s).spk = s /\ Conn(ph, s).ups = {}
<1>1. 0 \in 0 .. MaxFrames
  BY PipelineAssumption
<1> QED
  BY <1>1 DEF Conn, Task

\* The channel after a message was sent into it
Sends(m) ==
    /\ Len(chan) \in Nat /\ chan' \in Seq(Messages) /\ Len(chan') = Len(chan) + 1
    /\ chan'[Len(chan) + 1] = m
    /\ \A i \in 1 .. Len(chan) : chan'[i] = chan[i]

\* Appending to the channel is a send.
LEMMA SendShape ==
    ASSUME PTypeOK, NEW m \in Messages, chan' = Append(chan, m)
    PROVE  Sends(m)
BY DEF PTypeOK, Sends

\* The channel after the pump took its first message
Takes ==
    /\ Len(chan) \in Nat /\ Len(chan) >= 1 /\ Head(chan) = chan[1] /\ chan[1] \in Messages
    /\ chan' \in Seq(Messages) /\ Len(chan') = Len(chan) - 1
    /\ \A i \in 1 .. Len(chan) - 1 : chan'[i] = chan[i + 1]

\* Dropping the head of the channel is a take.
LEMMA TakeShape ==
    ASSUME PTypeOK, chan # << >>, chan' = Tail(chan)
    PROVE  Takes
<1>1. chan \in Seq(Messages)
  BY DEF PTypeOK
<1> QED
  BY <1>1 DEF Takes

\* Every step of the tasks and of the pump keeps the types, and the channel its capacity.
LEMMA PTypeStep == PTypeOK /\ [PNext]_pvars => PTypeOK'
<1> SUFFICES ASSUME PTypeOK, [PNext]_pvars PROVE PTypeOK'
  OBVIOUS
<1>0. /\ TypeOK /\ task \in [Conns -> Task] /\ chan \in Seq(Messages) /\ Len(chan) <= ChanCap
      /\ Len(chan) \in Nat /\ ChanCap \in Nat
      /\ lapses \in 0 .. MaxLapses /\ lapsed \subseteq Speakers
  BY PipelineAssumption DEF PTypeOK
<1>a. ASSUME NEW kind, NEW s \in Speakers, Lapse(kind, s)
      PROVE  lapses' \in 0 .. MaxLapses /\ lapsed' \subseteq Speakers
  BY <1>0, <1>a, PipelineAssumption DEF Lapse
<1>b. UNCHANGED vars => TypeOK'
  BY <1>0, TypeStep
<1>1. ASSUME NEW c \in Conns, NEW s \in Speakers, Accept(c, s) PROVE PTypeOK'
  <2>1. task' \in [Conns -> Task]
    BY <1>0, <1>1, ConnTask DEF Accept
  <2>2. lapses' \in 0 .. MaxLapses /\ lapsed' \subseteq Speakers
    BY <1>0, <1>1, <1>a DEF Accept, lapse
  <2> QED
    BY <1>0, <1>1, <1>b, <2>1, <2>2 DEF Accept, PTypeOK
<1>2. ASSUME NEW c \in Conns, Read(c) PROVE PTypeOK'
  <2>1. PICK m \in NextFrames(c) : task' = [task EXCEPT ![c] = Sent(@, m)] /\ chan' = Append(chan, m)
    BY <1>2 DEF Read
  <2>2. m \in Messages
    BY DEF NextFrames
  <2>3. Sent(task[c], m) \in Task
    BY <1>0, <1>2, <2>2, SentTask DEF Read
  <2>4. task' \in [Conns -> Task]
    BY <1>0, <2>1, <2>3
  <2>5. chan' \in Seq(Messages) /\ Len(chan') <= ChanCap
    <3>1. Sends(m)
      BY <2>1, <2>2, SendShape
    <3>2. Len(chan) < ChanCap
      BY <1>2 DEF Read
    <3> QED
      BY <1>0, <3>1, <3>2 DEF Sends
  <2> QED
    BY <1>0, <1>2, <1>b, <2>4, <2>5 DEF Read, PTypeOK, lapse
<1>3. ASSUME NEW c \in Conns, SkipFrame(c) PROVE PTypeOK'
  <2>1. PICK m \in NextFrames(c) : task' = [task EXCEPT ![c] = Sent(@, m)]
    BY <1>3 DEF SkipFrame
  <2>2. m \in Messages
    BY DEF NextFrames
  <2>3. Sent(task[c], m) \in Task
    BY <1>0, <1>3, <2>2, SentTask DEF SkipFrame
  <2>4. task' \in [Conns -> Task]
    BY <1>0, <2>1, <2>3
  <2>5. task[c].spk \in Speakers
    BY <1>0 DEF Task
  <2>6. lapses' \in 0 .. MaxLapses /\ lapsed' \subseteq Speakers
    BY <1>3, <1>a, <2>5 DEF SkipFrame
  <2> QED
    BY <1>0, <1>3, <1>b, <2>4, <2>6 DEF SkipFrame, PTypeOK
<1>4. ASSUME NEW c \in Conns, Eof(c) PROVE PTypeOK'
  <2>1. task[c].spk \in Speakers
    BY <1>0 DEF Task
  <2>2. task' \in [Conns -> Task]
    BY <1>0, <1>4, <2>1, ConnTask DEF Eof
  <2> QED
    BY <1>0, <1>4, <1>b, <2>2 DEF Eof, PTypeOK, lapse
<1>5. ASSUME NEW c \in Conns, SynthTermination(c) PROVE PTypeOK'
  <2>1. task[c].spk \in Speakers /\ [task[c] EXCEPT !.phase = "closed"] \in Task
    BY <1>0 DEF Task
  <2>2. task' \in [Conns -> Task]
    BY <1>0, <1>5, <2>1 DEF SynthTermination
  <2>3. [kind |-> "termination", spk |-> task[c].spk] \in Messages
    BY <2>1 DEF Messages
  <2>4. Sends([kind |-> "termination", spk |-> task[c].spk]) /\ Len(chan) < ChanCap
    BY <1>5, <2>3, SendShape DEF SynthTermination
  <2>5. chan' \in Seq(Messages) /\ Len(chan') <= ChanCap
    BY <1>0, <2>4 DEF Sends
  <2> QED
    BY <1>0, <1>5, <1>b, <2>2, <2>5 DEF SynthTermination, PTypeOK, lapse
<1>6. ASSUME Pump PROVE PTypeOK'
  <2>1. Takes
    BY <1>6, TakeShape DEF Pump
  <2>2. TypeOK'
    BY <1>0, <1>6, <2>1, HandleType DEF Pump, Takes
  <2>3. chan' \in Seq(Messages) /\ Len(chan') <= ChanCap
    BY <1>0, <2>1 DEF Takes
  <2> QED
    BY <1>0, <1>6, <2>2, <2>3 DEF Pump, PTypeOK, lapse
<1>7. ASSUME Tick, UNCHANGED <<task, chan, lapse>> PROVE PTypeOK'
  <2>1. TypeOK'
    BY <1>0, <1>7, TypeStep DEF Next
  <2> QED
    BY <1>0, <1>7, <2>1 DEF PTypeOK, lapse
<1>8. ASSUME UNCHANGED pvars PROVE PTypeOK'
  BY <1>0, <1>8, <1>b DEF PTypeOK, pvars, lapse
<1> QED
  BY <1>1, <1>2, <1>3, <1>4, <1>5, <1>6, <1>7, <1>8 DEF PNext


-----------------------------------------------------------------------------
(* The pipeline: sessions and routes *)

\* Only the messages of a speaker touch its session, and its Termination drops it.
LEMMA HandleSpeaker ==
    ASSUME TypeOK, NEW m \in Messages, Handle(m), NEW s \in Speakers
    PROVE  /\ m.spk # s => speakers'[s] = speakers[s]
           /\ m.kind = "termination" /\ m.spk = s => speakers'[s] = NoSpeaker
<1>0. speakers \in [Speakers -> [Peers -> PeerSession \cup {NoPeer}] \cup {NoSpeaker}]
  BY DEF TypeOK
<1>1. CASE m.kind = "initiation" /\ Initiation(m.spk)
  BY <1>0, <1>1 DEF Initiation
<1>2. CASE m.kind = "termination" /\ Termination(m.spk)
  BY <1>0, <1>2 DEF Termination
<1>3. CASE m.kind = "peer_up" /\ PeerUp(m.spk, m.peer, m.secs)
  BY <1>0, <1>3 DEF PeerUp
<1>4. CASE m.kind = "peer_down" /\ PeerDown(m.spk, m.peer, m.at)
  BY <1>0, <1>4 DEF PeerDown, OnDown
<1>5. CASE m.kind = "update" /\ RouteMonitoring(m.spk, m.peer, m.rib, m.wd, m.ann, m.attr)
  BY <1>5 DEF RouteMonitoring
<1> QED
  BY <1>1, <1>2, <1>3, <1>4, <1>5 DEF Handle

\* What a message does to one peer of a session: only one that ends the peer takes it
\* down, a Peer Up brings it up, and only a Termination forgets it.
LEMMA HandleSession ==
    ASSUME TypeOK, NEW m \in Messages, Handle(m), NEW s \in Speakers, NEW p \in Peers
    PROVE  /\ SessionUp(s, p) /\ ~Ends(m, s, p) => SessionUp(s, p)'
           /\ Begins(m, s, p) => SessionUp(s, p)'
           /\ Knows(s, p) /\ ~(m.kind = "termination" /\ m.spk = s) => Knows(s, p)'
<1>0. /\ speakers \in [Speakers -> [Peers -> PeerSession \cup {NoPeer}] \cup {NoSpeaker}]
      /\ m.spk \in Speakers /\ Session(m.spk) \in [Peers -> PeerSession \cup {NoPeer}]
  BY MessageFields, SessionType DEF TypeOK
<1>1. CASE m.kind = "initiation" /\ Initiation(m.spk)
  <2>1. speakers' = [speakers EXCEPT ![m.spk] = Session(m.spk)]
    BY <1>1 DEF Initiation
  <2>2. speakers[s] # NoSpeaker => speakers'[s] = speakers[s]
    BY <1>0, <2>1 DEF Session
  <2> QED
    BY <1>0, <1>1, <2>1, <2>2 DEF Knows, SessionUp, Ends, Begins
<1>2. CASE m.kind = "termination" /\ Termination(m.spk)
  BY <1>0, <1>2 DEF Termination, Knows, SessionUp, Ends, Begins
<1>3. CASE m.kind = "peer_up" /\ PeerUp(m.spk, m.peer, m.secs)
  <2>1. m.peer \in Peers /\ m.secs \in LlgrSecs
    BY <1>3, MessageFields
  <2> DEFINE up == [state |-> "Up", llgr |-> m.secs]
             S  == [Session(m.spk) EXCEPT ![m.peer] = up]
  <2>2. up \in PeerSession /\ up.state = "Up"
    BY <2>1 DEF PeerSession
  <2>3. speakers' = [speakers EXCEPT ![m.spk] = S]
    BY <1>3 DEF PeerUp
  <2> HIDE DEF up
  <2>4. S \in [Peers -> PeerSession \cup {NoPeer}] /\ S # NoSpeaker /\ S[m.peer] = up
    BY <1>0, <2>1, <2>2, AbsentAssumption
  <2>5. p # m.peer /\ speakers[m.spk] # NoSpeaker => S[p] = speakers[m.spk][p]
    BY <1>0, <2>1 DEF Session
  <2> HIDE DEF S
  <2>6. m.spk # s => speakers'[s] = speakers[s]
    BY <1>0, <2>3
  <2>7. m.spk = s => speakers'[s] = S
    BY <1>0, <2>3
  <2>8. up # NoPeer
    BY <2>2, AbsentAssumption
  <2> QED
    BY <1>3, <2>2, <2>4, <2>5, <2>6, <2>7, <2>8 DEF Knows, SessionUp, Ends, Begins
<1>4. CASE m.kind = "peer_down" /\ PeerDown(m.spk, m.peer, m.at)
  <2>1. m.peer \in Peers
    BY <1>4, MessageFields
  <2>2. CASE ~Knows(m.spk, m.peer)
    BY <1>4, <2>2 DEF PeerDown, OnDown, Knows, SessionUp, Ends, Begins
  <2>3. CASE Knows(m.spk, m.peer)
    <3> DEFINE down == [speakers[m.spk][m.peer] EXCEPT !.state = "Down"]
               S    == [speakers[m.spk] EXCEPT ![m.peer] = down]
    <3>1. speakers' = [speakers EXCEPT ![m.spk] = S]
      BY <1>4, <2>3 DEF PeerDown, OnDown
    <3>2. speakers[m.spk] \in [Peers -> PeerSession \cup {NoPeer}]
          /\ speakers[m.spk][m.peer] \in PeerSession
      BY <1>0, <2>1, <2>3 DEF Knows
    <3>3. down \in PeerSession
      BY <3>2 DEF PeerSession
    <3> HIDE DEF down
    <3>4. S \in [Peers -> PeerSession \cup {NoPeer}] /\ S # NoSpeaker /\ S[m.peer] = down
          /\ down # NoPeer
      BY <2>1, <3>2, <3>3, AbsentAssumption
    <3>5. p # m.peer => S[p] = speakers[m.spk][p]
      BY <3>2
    <3> HIDE DEF S
    <3>6. m.spk # s => speakers'[s] = speakers[s]
      BY <1>0, <3>1
    <3>7. m.spk = s => speakers'[s] = S
      BY <1>0, <3>1
    <3> QED
      BY <1>4, <3>4, <3>5, <3>6, <3>7 DEF Knows, SessionUp, Ends, Begins
  <2> QED
    BY <2>2, <2>3
<1>5. CASE m.kind = "update" /\ RouteMonitoring(m.spk, m.peer, m.rib, m.wd, m.ann, m.attr)
  BY <1>5 DEF RouteMonitoring, Knows, SessionUp, Ends, Begins
<1> QED
  BY <1>1, <1>2, <1>3, <1>4, <1>5 DEF Handle

\* Marking an entry stale keeps who announced it, and does mark it.
LEMMA MarkStaleFrom ==
    ASSUME NEW e \in RibEntry, NEW t \in Time
    PROVE  MarkStale(e, t).from = e.from /\ MarkStale(e, t).stale # Fresh
BY TimeAssumption DEF RibEntry, MarkStale, StaleMarks, Time

\* The source of a stored route is a speaker.
LEMMA RouteEntry ==
    ASSUME TypeOK, NEW p \in Peers, NEW k \in Keys, Has(p, k)
    PROVE  ribs[p] \in [Keys -> RibEntry \cup {NoRoute}] /\ ribs[p][k] \in RibEntry
           /\ ribs[p][k].from \in Speakers
BY DEF TypeOK, Has, RibEntry


\* A message the pump processes keeps the routes of orderly speakers with the
\* sessions that own them, if an update comes from a peer that is Up.
LEMMA HandleRoutes ==
    ASSUME TypeOK, RoutesOwned, NEW m \in Messages, Handle(m), lapsed' = lapsed,
           m.kind = "update" /\ m.spk \in OrderlySpeakers => SessionUp(m.spk, m.peer)
    PROVE  RoutesOwned'
<1> SUFFICES ASSUME NEW p \in Peers, NEW k \in Keys, NEW s \in Speakers \ lapsed,
                    Has(p, k)', ribs'[p][k].from = s
             PROVE  Knows(s, p)' /\ (ribs'[p][k].stale = Fresh => SessionUp(s, p)')
  BY DEF RoutesOwned, OrderlySpeakers, SessionUp, Has, Knows
<1>0. /\ speakers \in [Speakers -> [Peers -> PeerSession \cup {NoPeer}] \cup {NoSpeaker}]
      /\ ribs \in [Peers -> [Keys -> RibEntry \cup {NoRoute}] \cup {NoRib}]
      /\ m.spk \in Speakers /\ s \in Speakers
  BY MessageFields DEF TypeOK
<1>a. ASSUME Has(p, k), ribs[p][k].from = s
      PROVE  Knows(s, p) /\ (ribs[p][k].stale = Fresh => SessionUp(s, p))
  BY <1>a DEF RoutesOwned, SessionUp, OrderlySpeakers
<1>1. CASE m.kind = "initiation" /\ Initiation(m.spk)
  <2>1. Has(p, k) /\ ribs'[p][k] = ribs[p][k]
    BY <1>1 DEF Initiation, Has
  <2>2. ~Ends(m, s, p) /\ ~(m.kind = "termination")
    BY <1>1 DEF Ends
  <2> QED
    BY <1>0, <1>a, <2>1, <2>2, HandleSession
<1>2. CASE m.kind = "termination" /\ Termination(m.spk)
  <2>1. ~Knows(m.spk, p) /\ Has(p, k) /\ ribs'[p][k] = ribs[p][k]
    BY <1>0, <1>2 DEF Termination, Has
  <2>2. m.spk # s
    BY <1>a, <2>1
  <2>3. ~Ends(m, s, p)
    BY <2>2 DEF Ends
  <2> QED
    BY <1>0, <1>a, <2>1, <2>2, <2>3, HandleSession
<1>3. CASE m.kind = "peer_up" /\ PeerUp(m.spk, m.peer, m.secs)
  <2>1. Has(p, k) /\ ribs'[p][k] = ribs[p][k]
    BY <1>3 DEF PeerUp, Has
  <2>2. ~Ends(m, s, p) /\ ~(m.kind = "termination")
    BY <1>3 DEF Ends
  <2> QED
    BY <1>0, <1>a, <2>1, <2>2, HandleSession
<1>4. CASE m.kind = "peer_down" /\ PeerDown(m.spk, m.peer, m.at)
  <2>0. m.peer \in Peers /\ m.at \in Time /\ m.kind # "termination"
    BY <1>4, MessageFields
  <2>1. CASE p # m.peer
    <3>1. Has(p, k) /\ ribs'[p][k] = ribs[p][k]
      BY <1>0, <1>4, <2>0, <2>1 DEF PeerDown, Has
    <3>2. ~Ends(m, s, p)
      BY <2>0, <2>1 DEF Ends
    <3> QED
      BY <1>0, <1>a, <2>0, <3>1, <3>2, HandleSession
  <2>2. CASE p = m.peer
    <3>1. ribs[p] # NoRib /\ ribs'[p] = MarkStaleAll(ribs[p], m.at)
      BY <1>0, <1>4, <2>2 DEF PeerDown, EmptyRib, Has
    <3>2. ribs[p][k] \in RibEntry /\ ribs'[p][k] = MarkStale(ribs[p][k], m.at)
      BY <1>0, <3>1 DEF MarkStaleAll, Has
    <3>3. ribs[p][k].from = s /\ ribs'[p][k].stale # Fresh
      BY <2>0, <3>2, MarkStaleFrom
    <3>4. Has(p, k)
      BY <3>1, <3>2, AbsentAssumption DEF Has
    <3> QED
      BY <1>0, <1>a, <2>0, <3>3, <3>4, HandleSession
  <2> QED
    BY <2>1, <2>2
<1>5. CASE m.kind = "update" /\ RouteMonitoring(m.spk, m.peer, m.rib, m.wd, m.ann, m.attr)
  <2>0. m.peer \in Peers /\ speakers' = speakers
    BY <1>5, MessageFields DEF RouteMonitoring
  <2> DEFINE new == [attr |-> m.attr, stale |-> Fresh, from |-> m.spk]
  <2>1. CASE Has(p, k) /\ ribs'[p][k] = ribs[p][k]
    BY <1>a, <2>0, <2>1 DEF SessionUp, Knows
  <2>2. CASE p = m.peer /\ ribs'[p][k] = new
    <3>1. s = m.spk
      BY <2>2
    <3> QED
      BY <1>5, <2>0, <2>2, <3>1 DEF SessionUp, Knows, OrderlySpeakers
  <2>3. \/ Has(p, k) /\ ribs'[p][k] = ribs[p][k]
        \/ p = m.peer /\ ribs'[p][k] = new
    <3>1. CASE p # m.peer
      BY <1>0, <1>5, <2>0, <3>1 DEF RouteMonitoring, Has
    <3>2. CASE p = m.peer
      <4>1. ribs'[p] = Updated(Rib(p), m.rib, Accepted(p, m.ann, m.attr), m.wd, new, NoRoute)
        BY <1>0, <1>5, <3>2 DEF RouteMonitoring
      <4>2. ribs'[p][k] \in {new, NoRoute, Rib(p)[k]}
        BY <4>1 DEF Updated
      <4>3. ribs'[p][k] # NoRoute
        BY DEF Has
      <4>4. Rib(p)[k] # NoRoute => Has(p, k) /\ Rib(p)[k] = ribs[p][k]
        BY DEF Rib, EmptyRib, Has
      <4> QED
        BY <3>2, <4>2, <4>3, <4>4
    <3> QED
      BY <3>1, <3>2
  <2> QED
    BY <2>1, <2>2, <2>3
<1> QED
  BY <1>1, <1>2, <1>3, <1>4, <1>5 DEF Handle


-----------------------------------------------------------------------------
(* The pipeline: what the channel says about a peer *)

\* Taking the first message moves every position one to the front.
LEMMA UpAtTaken ==
    ASSUME TypeOK, Takes, Handle(chan[1]), NEW s \in Speakers, NEW p \in Peers,
           NEW i \in Nat, 1 <= i, i <= Len(chan), UpAt(s, p, i + 1)
    PROVE  UpAt(s, p, i)'
<1>0. /\ Len(chan) \in Nat /\ chan[1] \in Messages
      /\ \A j \in Nat : 1 <= j /\ j <= Len(chan) - 1 => chan'[j] = chan[j + 1]
  BY DEF Takes
<1>1. CASE SessionUp(s, p) /\ \A j \in 1 .. (i + 1) - 1 : ~Ends(chan[j], s, p)
  <2>1. ~Ends(chan[1], s, p)
    BY <1>1
  <2>2. SessionUp(s, p)'
    BY <1>0, <1>1, <2>1, HandleSession
  <2>3. \A j \in 1 .. i - 1 : ~Ends(chan'[j], s, p)
    <3> SUFFICES ASSUME NEW j \in 1 .. i - 1 PROVE ~Ends(chan'[j], s, p)
      OBVIOUS
    <3>1. j + 1 \in 1 .. (i + 1) - 1 /\ chan'[j] = chan[j + 1]
      BY <1>0
    <3> QED
      BY <1>1, <3>1
  <2> QED
    BY <2>2, <2>3 DEF UpAt, Ends
<1>2. ASSUME NEW j \in 1 .. (i + 1) - 1, Begins(chan[j], s, p),
             \A l \in j + 1 .. (i + 1) - 1 : ~Ends(chan[l], s, p)
      PROVE  UpAt(s, p, i)'
  <2>1. \A l \in j .. i - 1 : ~Ends(chan'[l], s, p)
    <3> SUFFICES ASSUME NEW l \in j .. i - 1 PROVE ~Ends(chan'[l], s, p)
      OBVIOUS
    <3>1. l + 1 \in j + 1 .. (i + 1) - 1 /\ chan'[l] = chan[l + 1]
      BY <1>0
    <3> QED
      BY <1>2, <3>1
  <2>2. CASE j = 1
    <3>1. SessionUp(s, p)'
      BY <1>0, <1>2, <2>2, HandleSession
    <3> QED
      BY <2>1, <2>2, <3>1 DEF UpAt, Ends
  <2>3. CASE j # 1
    <3>0. j \in Nat /\ j >= 2 /\ j <= i
      BY <2>3
    <3>1. j - 1 \in 1 .. i - 1 /\ (j - 1) + 1 = j /\ chan'[j - 1] = chan[j]
      <4>1. j - 1 \in Nat /\ j - 1 >= 1 /\ j - 1 <= Len(chan) - 1 /\ (j - 1) + 1 = j /\ j - 1 <= i - 1
        BY <1>0, <3>0
      <4>2. chan'[j - 1] = chan[(j - 1) + 1]
        BY <1>0, <4>1
      <4> QED
        BY <4>1, <4>2
    <3>2. Begins(chan'[j - 1], s, p) /\ \A l \in (j - 1) + 1 .. i - 1 : ~Ends(chan'[l], s, p)
      BY <1>2, <2>1, <3>1
    <3> QED
      BY <3>1, <3>2 DEF UpAt, Ends, Begins
  <2> QED
    BY <2>2, <2>3
<1> QED
  BY <1>1, <1>2 DEF UpAt

\* A message sent changes nothing for the positions before it.
LEMMA UpAtKept ==
    ASSUME NEW m, Sends(m), speakers' = speakers, NEW s \in Speakers, NEW p \in Peers,
           NEW i \in Nat, i <= Len(chan) + 1, UpAt(s, p, i)
    PROVE  UpAt(s, p, i)'
<1>0. Len(chan) \in Nat /\ \A j \in 1 .. i - 1 : chan'[j] = chan[j]
  BY DEF Sends
<1>1. CASE SessionUp(s, p) /\ \A j \in 1 .. i - 1 : ~Ends(chan[j], s, p)
  BY <1>0, <1>1 DEF UpAt, SessionUp, Knows, Ends
<1>2. ASSUME NEW j \in 1 .. i - 1, Begins(chan[j], s, p),
             \A l \in j + 1 .. i - 1 : ~Ends(chan[l], s, p)
      PROVE  UpAt(s, p, i)'
  <2>1. \A l \in j + 1 .. i - 1 : ~Ends(chan'[l], s, p)
    BY <1>0, <1>2
  <2> QED
    BY <1>0, <1>2, <2>1 DEF UpAt, Ends, Begins
<1> QED
  BY <1>1, <1>2 DEF UpAt

\* A peer that is Up at the end of the channel still is after a message that does
\* not end it, and one that begins makes it Up.
LEMMA UpAtEnd ==
    ASSUME NEW m, Sends(m), speakers' = speakers, NEW s \in Speakers, NEW p \in Peers,
           Begins(m, s, p) \/ (UpAt(s, p, Len(chan) + 1) /\ ~Ends(m, s, p))
    PROVE  UpAt(s, p, Len(chan) + 1)'
<1> DEFINE n == Len(chan)
<1>0. /\ n \in Nat /\ Len(chan') = n + 1 /\ chan'[n + 1] = m
      /\ \A j \in 1 .. n : chan'[j] = chan[j]
  BY DEF Sends
<1> HIDE DEF n
<1>a. (n + 1) + 1 \in Nat /\ ((n + 1) + 1) - 1 = n + 1 /\ (n + 1) - 1 = n
  BY <1>0
<1>b. \A j \in 1 .. n + 1 : j \in 1 .. n \/ j = n + 1
  BY <1>0
<1>c. UpAt(s, p, Len(chan) + 1)' <=>
         \/ SessionUp(s, p)' /\ \A j \in 1 .. n + 1 : ~Ends(chan'[j], s, p)
         \/ \E j \in 1 .. n + 1 : Begins(chan'[j], s, p)
                                  /\ \A l \in j + 1 .. n + 1 : ~Ends(chan'[l], s, p)
  BY <1>0, <1>a DEF UpAt, Ends, Begins
<1>1. CASE Begins(m, s, p)
  <2>1. \A l \in (n + 1) + 1 .. n + 1 : FALSE
    BY <1>0
  <2>2. n + 1 \in 1 .. n + 1
    BY <1>0
  <2> QED
    BY <1>0, <1>1, <1>c, <2>1, <2>2
<1>2. CASE UpAt(s, p, Len(chan) + 1) /\ ~Ends(m, s, p)
  <2>0. \/ SessionUp(s, p) /\ \A j \in 1 .. n : ~Ends(chan[j], s, p)
        \/ \E j \in 1 .. n : Begins(chan[j], s, p) /\ \A l \in j + 1 .. n : ~Ends(chan[l], s, p)
    BY <1>2, <1>a DEF UpAt, n
  <2>1. CASE SessionUp(s, p) /\ \A j \in 1 .. n : ~Ends(chan[j], s, p)
    <3>1. SessionUp(s, p)'
      BY <2>1 DEF SessionUp, Knows
    <3> QED
      BY <1>0, <1>2, <1>b, <1>c, <2>1, <3>1
  <2>2. ASSUME NEW j \in 1 .. n, Begins(chan[j], s, p), \A l \in j + 1 .. n : ~Ends(chan[l], s, p)
        PROVE  UpAt(s, p, Len(chan) + 1)'
    <3>1. \A l \in j + 1 .. n + 1 : ~Ends(chan'[l], s, p)
      <4> SUFFICES ASSUME NEW l \in j + 1 .. n + 1 PROVE ~Ends(chan'[l], s, p)
        OBVIOUS
      <4>1. l = n + 1 \/ (l \in j + 1 .. n /\ l \in 1 .. n)
        BY <1>0
      <4> QED
        BY <1>0, <1>2, <2>2, <4>1
    <3>2. j \in 1 .. n + 1 /\ Begins(chan'[j], s, p)
      BY <1>0, <2>2
    <3> QED
      BY <1>c, <3>1, <3>2
  <2> QED
    BY <2>0, <2>1, <2>2
<1> QED
  BY <1>1, <1>2


-----------------------------------------------------------------------------
(* The pipeline: each step *)

\* The fields of a task.
LEMMA TaskType ==
    ASSUME PTypeOK, NEW c \in Conns
    PROVE  /\ task[c] \in Task /\ task[c].spk \in Speakers /\ task[c].done \in BOOLEAN
           /\ task[c].ups \subseteq Peers
BY DEF PTypeOK, Task

\* The connection c moves to the state u without a change of speaker, and lives after the
\* step only if it did before.
Moves(c, u) ==
    /\ task' = [task EXCEPT ![c] = u]
    /\ u.spk = task[c].spk
    /\ u.phase \in {"open", "eof"} => Live(c)

\* The connections besides c stay as they are.
LEMMA MovesApart ==
    ASSUME PTypeOK, NEW c \in Conns, NEW u, Moves(c, u), NEW d \in Conns
    PROVE  /\ d # c => task'[d] = task[d]
           /\ task'[c] = u
           /\ task'[d].spk = task[d].spk
           /\ Live(d)' => Live(d)
BY DEF Moves, PTypeOK, Live

\* A frame read moves the task and sends the frame.
LEMMA ReadStep ==
    ASSUME PTypeOK, NEW c \in Conns, Read(c)
    PROVE  \E m \in NextFrames(c) :
              /\ m \in Messages /\ m.spk = task[c].spk /\ ~task[c].done
              /\ Moves(c, Sent(task[c], m)) /\ Sends(m)
              /\ Live(c) /\ Live(c)' /\ task[c].phase = "open"
              /\ speakers' = speakers /\ ribs' = ribs /\ lapsed' = lapsed
<1>1. PICK m \in NextFrames(c) : task' = [task EXCEPT ![c] = Sent(@, m)] /\ chan' = Append(chan, m)
  BY DEF Read
<1>2. m \in Messages /\ m.spk = task[c].spk /\ ~task[c].done
  BY DEF NextFrames
<1>3. Sent(task[c], m).phase = task[c].phase /\ Sent(task[c], m).spk = task[c].spk
  BY <1>2, TaskType, SentTask DEF Read
<1>4. task'[c] = Sent(task[c], m) /\ task' = [task EXCEPT ![c] = Sent(task[c], m)]
  BY <1>1 DEF PTypeOK
<1>5. task[c].phase = "open" /\ Live(c) /\ Live(c)'
  BY <1>3, <1>4 DEF Read, Live
<1>6. Sends(m)
  BY <1>1, <1>2, SendShape
<1> QED
  BY <1>2, <1>3, <1>4, <1>5, <1>6 DEF Read, Moves, vars, lapse

\* A frame the parser rejects moves the task and marks its speaker.
LEMMA SkipStep ==
    ASSUME PTypeOK, NEW c \in Conns, SkipFrame(c)
    PROVE  \E u : Moves(c, u) /\ Live(c) /\ Live(c)' /\ chan' = chan /\ speakers' = speakers
                  /\ ribs' = ribs /\ lapsed' = lapsed \cup {task[c].spk}
<1>1. PICK m \in NextFrames(c) : task' = [task EXCEPT ![c] = Sent(@, m)]
  BY DEF SkipFrame
<1>2. m \in Messages
  BY DEF NextFrames
<1>3. Sent(task[c], m).phase = task[c].phase /\ Sent(task[c], m).spk = task[c].spk
  BY <1>2, TaskType, SentTask DEF SkipFrame
<1>4. task'[c] = Sent(task[c], m) /\ task' = [task EXCEPT ![c] = Sent(task[c], m)]
  BY <1>1 DEF PTypeOK
<1>5. Live(c) /\ Live(c)'
  BY <1>3, <1>4 DEF SkipFrame, Live
<1>6. Moves(c, Sent(task[c], m))
  BY <1>3, <1>4, <1>5 DEF Moves
<1> QED
  BY <1>5, <1>6 DEF SkipFrame, vars, Lapse

\* A task that reads the end of the stream lives on with nothing more to send.
LEMMA EofStep ==
    ASSUME PTypeOK, NEW c \in Conns, Eof(c)
    PROVE  \E u : Moves(c, u) /\ u.phase = "eof" /\ Live(c) /\ Live(c)' /\ chan' = chan
                  /\ speakers' = speakers /\ ribs' = ribs /\ lapsed' = lapsed
<1> DEFINE u == Conn("eof", task[c].spk)
<1>1. u.spk = task[c].spk /\ u.phase = "eof"
  BY TaskType, ConnTask
<1>2. task' = [task EXCEPT ![c] = u] /\ task'[c] = u
  BY DEF Eof, PTypeOK
<1>3. Live(c) /\ Live(c)'
  BY <1>1, <1>2 DEF Eof, Live
<1> HIDE DEF u
<1> QED
  BY <1>1, <1>2, <1>3 DEF Eof, Moves, vars, lapse

\* The synthetic Termination is the last thing a task does.
LEMMA SynthStep ==
    ASSUME PTypeOK, NEW c \in Conns, SynthTermination(c)
    PROVE  \E u, m : /\ Moves(c, u) /\ u.phase = "closed" /\ Live(c)
                     /\ m \in Messages /\ m.kind = "termination" /\ m.spk = task[c].spk /\ Sends(m)
                     /\ speakers' = speakers /\ ribs' = ribs /\ lapsed' = lapsed
<1> DEFINE u == [task[c] EXCEPT !.phase = "closed"]
           m == [kind |-> "termination", spk |-> task[c].spk]
<1>0. task[c] \in Task /\ task[c].spk \in Speakers
  BY TaskType
<1>1. u.spk = task[c].spk /\ u.phase = "closed" /\ m \in Messages
  BY <1>0 DEF Messages, Task
<1>2. task' = [task EXCEPT ![c] = u]
  BY DEF SynthTermination
<1>3. Sends(m)
  BY <1>1, SendShape DEF SynthTermination
<1>4. m.kind = "termination" /\ m.spk = task[c].spk
  OBVIOUS
<1> HIDE DEF u, m
<1>5. Moves(c, u) /\ Live(c)
  BY <1>1, <1>2 DEF Moves, Live, SynthTermination
<1> QED
  BY <1>1, <1>3, <1>4, <1>5 DEF SynthTermination, vars, lapse

\* A new connection sends nothing yet; its speaker has lapsed if it has another one.
LEMMA AcceptStep ==
    ASSUME PTypeOK, NEW c \in Conns, NEW s \in Speakers, Accept(c, s)
    PROVE  /\ \A d \in Conns : d # c => task'[d] = task[d]
           /\ task'[c].phase = "open" /\ task'[c].spk = s /\ task'[c].ups = {} /\ ~Live(c) /\ Live(c)'
           /\ s \notin lapsed' => \A d \in Conns : task[d].spk = s => ~Live(d)
           /\ lapsed \subseteq lapsed'
           /\ chan' = chan /\ speakers' = speakers /\ ribs' = ribs
<1>1. task' = [task EXCEPT ![c] = Conn("open", s)] /\ task[c].phase = "idle"
  BY DEF Accept
<1>2. task'[c] = Conn("open", s) /\ \A d \in Conns : d # c => task'[d] = task[d]
  BY <1>1 DEF PTypeOK
<1>3. task'[c].phase = "open" /\ task'[c].spk = s /\ task'[c].ups = {}
  BY <1>2, ConnTask
<1>4. ~Live(c) /\ Live(c)'
  BY <1>1, <1>3 DEF Live
<1> QED
  BY <1>2, <1>3, <1>4 DEF Accept, Lapse, vars, lapse

\* The pump's step.
LEMMA PumpStep ==
    ASSUME PTypeOK, Pump
    PROVE  Takes /\ chan[1] \in Messages /\ Handle(chan[1]) /\ task' = task /\ lapsed' = lapsed
<1>1. Takes
  BY TakeShape DEF Pump
<1> QED
  BY <1>1 DEF Pump, Takes, lapse


\* A step that leaves the RIB alone leaves the routes with their owners.
LEMMA RoutesApart ==
    ASSUME RoutesOwned, speakers' = speakers, ribs' = ribs, lapsed \subseteq lapsed'
    PROVE  RoutesOwned'
BY DEF RoutesOwned, OrderlySpeakers, Has, Knows

\* The routes of an orderly speaker stay with the session that owns them.
LEMMA RoutesStep == PInv /\ [PNext]_pvars => RoutesOwned'
<1> SUFFICES ASSUME PInv, [PNext]_pvars PROVE RoutesOwned'
  OBVIOUS
<1>0. PTypeOK /\ TypeOK /\ RoutesOwned /\ UpdatesOfUpPeers
  BY DEF PInv, PTypeOK
<1>1. ASSUME NEW c \in Conns, NEW s \in Speakers, Accept(c, s) PROVE RoutesOwned'
  BY <1>0, <1>1, AcceptStep, RoutesApart
<1>2. ASSUME NEW c \in Conns, Read(c) PROVE RoutesOwned'
  BY <1>0, <1>2, ReadStep, RoutesApart
<1>3. ASSUME NEW c \in Conns, SkipFrame(c) PROVE RoutesOwned'
  BY <1>0, <1>3, SkipStep, RoutesApart
<1>4. ASSUME NEW c \in Conns, Eof(c) PROVE RoutesOwned'
  BY <1>0, <1>4, EofStep, RoutesApart
<1>5. ASSUME NEW c \in Conns, SynthTermination(c) PROVE RoutesOwned'
  BY <1>0, <1>5, SynthStep, RoutesApart
<1>6. ASSUME Pump PROVE RoutesOwned'
  <2>1. Takes /\ chan[1] \in Messages /\ Handle(chan[1]) /\ lapsed' = lapsed
    BY <1>0, <1>6, PumpStep
  <2>2. ASSUME chan[1].kind = "update", chan[1].spk \in OrderlySpeakers
        PROVE  SessionUp(chan[1].spk, chan[1].peer)
    <3>1. chan[1].peer \in Peers /\ 1 \in 1 .. Len(chan)
      BY <2>1, <2>2, MessageFields DEF Takes
    <3>2. UpAt(chan[1].spk, chan[1].peer, 1)
      BY <1>0, <2>2, <3>1 DEF UpdatesOfUpPeers
    <3> QED
      BY <3>2 DEF UpAt
  <2> QED
    BY <1>0, <2>1, <2>2, HandleRoutes
<1>7. ASSUME Tick, UNCHANGED <<task, chan, lapse>> PROVE RoutesOwned'
  BY <1>0, <1>7, RoutesApart DEF Tick, lapse
<1>8. ASSUME UNCHANGED pvars PROVE RoutesOwned'
  BY <1>0, <1>8, RoutesApart DEF pvars, vars, lapse
<1> QED
  BY <1>1, <1>2, <1>3, <1>4, <1>5, <1>6, <1>7, <1>8 DEF PNext

\* Only an early reconnect, which is a lapse, gives a speaker a second connection.
LEMMA ConnectionStep == PInv /\ [PNext]_pvars => OneConnection'
<1> SUFFICES ASSUME PInv, [PNext]_pvars PROVE OneConnection'
  OBVIOUS
<1>0. PTypeOK /\ OneConnection
  BY DEF PInv
<1>a. ASSUME lapsed \subseteq lapsed',
             \A d \in Conns : task'[d].spk = task[d].spk /\ (Live(d)' => Live(d))
      PROVE  OneConnection'
  BY <1>0, <1>a DEF OneConnection, OrderlySpeakers
<1>1. ASSUME NEW c \in Conns, NEW s \in Speakers, Accept(c, s) PROVE OneConnection'
  <2>1. /\ \A d \in Conns : d # c => task'[d] = task[d]
        /\ task'[c].spk = s
        /\ s \notin lapsed' => \A d \in Conns : task[d].spk = s => ~Live(d)
        /\ lapsed \subseteq lapsed'
    BY <1>0, <1>1, AcceptStep
  <2> SUFFICES ASSUME NEW r \in Speakers \ lapsed', NEW d \in Conns, NEW e \in Conns,
                      Live(d)', Live(e)', task'[d].spk = r, task'[e].spk = r
               PROVE  d = e
    BY DEF OneConnection, OrderlySpeakers
  <2>2. ASSUME NEW f \in Conns, f # c, Live(f)', task'[f].spk = r
        PROVE  r # s /\ Live(f) /\ task[f].spk = r
    BY <2>1, <2>2 DEF Live
  <2>3. CASE r = s
    BY <2>2, <2>3
  <2>4. CASE r # s
    <3>1. d # c /\ e # c
      BY <2>1, <2>4
    <3>2. Live(d) /\ Live(e) /\ task[d].spk = r /\ task[e].spk = r
      BY <2>2, <3>1
    <3> QED
      BY <1>0, <2>1, <3>2 DEF OneConnection, OrderlySpeakers
  <2> QED
    BY <2>3, <2>4
<1>2. ASSUME NEW c \in Conns, Read(c) PROVE OneConnection'
  BY <1>0, <1>2, <1>a, ReadStep, MovesApart
<1>3. ASSUME NEW c \in Conns, SkipFrame(c) PROVE OneConnection'
  BY <1>0, <1>3, <1>a, SkipStep, MovesApart
<1>4. ASSUME NEW c \in Conns, Eof(c) PROVE OneConnection'
  BY <1>0, <1>4, <1>a, EofStep, MovesApart
<1>5. ASSUME NEW c \in Conns, SynthTermination(c) PROVE OneConnection'
  BY <1>0, <1>5, <1>a, SynthStep, MovesApart
<1>6. ASSUME UNCHANGED <<task, lapsed>> PROVE OneConnection'
  BY <1>0, <1>6 DEF OneConnection, OrderlySpeakers, Live
<1> QED
  BY <1>0, <1>1, <1>2, <1>3, <1>4, <1>5, <1>6, PumpStep DEF PNext, pvars, lapse


\* Another speaker's message leaves the last word where it is.
LEMMA LastWordSent ==
    ASSUME NEW m, Sends(m), speakers' = speakers, NEW s \in Speakers, m.spk # s, LastWord(s)
    PROVE  LastWord(s)'
<1>0. /\ Len(chan) \in Nat /\ Len(chan') = Len(chan) + 1 /\ chan'[Len(chan) + 1] = m
      /\ \A j \in 1 .. Len(chan) : chan'[j] = chan[j]
  BY DEF Sends
<1>1. ASSUME NEW j \in Nat, SilentAt(s, j) PROVE SilentAt(s, j)'
  <2> SUFFICES ASSUME NEW i \in 1 .. Len(chan'), i > j PROVE chan'[i].spk # s
    BY DEF SilentAt
  <2>1. i \in 1 .. Len(chan) \/ i = Len(chan) + 1
    BY <1>0
  <2> QED
    BY <1>0, <1>1, <2>1 DEF SilentAt
<1>2. CASE speakers[s] = NoSpeaker /\ SilentAt(s, 0)
  BY <1>1, <1>2 DEF LastWord
<1>3. ASSUME NEW j \in 1 .. Len(chan), chan[j].kind = "termination", chan[j].spk = s, SilentAt(s, j)
      PROVE  LastWord(s)'
  <2>1. j \in Nat /\ j \in 1 .. Len(chan') /\ chan'[j] = chan[j]
    BY <1>0
  <2>2. SilentAt(s, j)'
    BY <1>1, <1>3, <2>1
  <2> QED
    BY <1>3, <2>1, <2>2 DEF LastWord
<1> QED
  BY <1>2, <1>3 DEF LastWord

\* The pump reaches the Termination: the session is gone.  Before, it comes nearer.
LEMMA LastWordTaken ==
    ASSUME TypeOK, Takes, Handle(chan[1]), NEW s \in Speakers, LastWord(s)
    PROVE  LastWord(s)'
<1>0. /\ Len(chan) \in Nat /\ Len(chan) >= 1 /\ chan[1] \in Messages
      /\ Len(chan') = Len(chan) - 1
      /\ \A j \in 1 .. Len(chan) - 1 : chan'[j] = chan[j + 1]
  BY DEF Takes
<1>a. /\ chan[1].spk # s => speakers'[s] = speakers[s]
      /\ chan[1].kind = "termination" /\ chan[1].spk = s => speakers'[s] = NoSpeaker
  BY <1>0, HandleSpeaker
<1>1. ASSUME NEW j \in Nat, SilentAt(s, j + 1) PROVE SilentAt(s, j)'
  <2> SUFFICES ASSUME NEW i \in 1 .. Len(chan'), i > j PROVE chan'[i].spk # s
    BY DEF SilentAt
  <2>1. i \in 1 .. Len(chan) - 1 /\ i + 1 \in 1 .. Len(chan) /\ i + 1 > j + 1
    BY <1>0
  <2>2. chan'[i] = chan[i + 1]
    BY <1>0, <2>1
  <2> QED
    BY <1>1, <2>1, <2>2 DEF SilentAt
<1>2. CASE speakers[s] = NoSpeaker /\ SilentAt(s, 0)
  <2>1. chan[1].spk # s
    BY <1>0, <1>2 DEF SilentAt
  <2>2. SilentAt(s, 0 + 1)
    BY <1>0, <1>2 DEF SilentAt
  <2>3. SilentAt(s, 0)'
    BY <1>1, <2>2
  <2> QED
    BY <1>a, <1>2, <2>1, <2>3 DEF LastWord
<1>3. ASSUME NEW j \in 1 .. Len(chan), chan[j].kind = "termination", chan[j].spk = s, SilentAt(s, j)
      PROVE  LastWord(s)'
  <2>1. CASE j = 1
    <3>1. SilentAt(s, 0 + 1)
      BY <1>3, <2>1
    <3>2. SilentAt(s, 0)'
      BY <1>1, <3>1
    <3> QED
      BY <1>a, <1>3, <2>1, <3>2 DEF LastWord
  <2>2. CASE j # 1
    <3>0. j \in Nat /\ j >= 2 /\ j <= Len(chan)
      BY <2>2
    <3> DEFINE i == j - 1
    <3>1. i \in Nat /\ i >= 1 /\ i <= Len(chan) - 1 /\ i + 1 = j
      BY <1>0, <3>0
    <3> HIDE DEF i
    <3>2. i \in 1 .. Len(chan') /\ chan'[i] = chan[j]
      BY <1>0, <3>1
    <3>3. SilentAt(s, i)'
      BY <1>1, <1>3, <3>1
    <3> QED
      BY <1>3, <3>2, <3>3 DEF LastWord
  <2> QED
    BY <2>1, <2>2
<1> QED
  BY <1>2, <1>3 DEF LastWord

\* Whatever ends the last connection of an orderly speaker, its Termination follows.
LEMMA LastIsTerminationStep == PInv /\ [PNext]_pvars => LastIsTermination'
<1> SUFFICES ASSUME PInv, [PNext]_pvars PROVE LastIsTermination'
  OBVIOUS
<1>0. PTypeOK /\ TypeOK /\ lapsed \subseteq Speakers
  BY DEF PInv, PTypeOK
<1> SUFFICES ASSUME NEW s \in Speakers \ lapsed', \A c \in Conns : task'[c].spk = s => ~Live(c)'
             PROVE  LastWord(s)'
  BY DEF LastIsTermination, OrderlySpeakers, LastWord
<1>a. ASSUME s \notin lapsed, \A c \in Conns : task[c].spk = s => ~Live(c)
      PROVE  LastWord(s)
  BY <1>a DEF PInv, LastIsTermination, OrderlySpeakers, LastWord
<1>b. ASSUME NEW c \in Conns, NEW u, Moves(c, u), lapsed \subseteq lapsed', task[c].spk # s
      PROVE  LastWord(s)
  <2>1. \A d \in Conns : d # c => task'[d] = task[d]
    BY <1>0, <1>b, MovesApart
  <2>2. \A d \in Conns : task[d].spk = s => ~Live(d)
    BY <1>b, <2>1 DEF Live
  <2> QED
    BY <1>a, <1>b, <2>2
<1>c. ASSUME LastWord(s), chan' = chan, speakers' = speakers PROVE LastWord(s)'
  BY <1>c DEF LastWord, SilentAt
<1>d. ASSUME NEW c \in Conns, Live(c)', task'[c].spk = task[c].spk PROVE task[c].spk # s
  BY <1>d
<1>1. ASSUME NEW c \in Conns, NEW r \in Speakers, Accept(c, r) PROVE LastWord(s)'
  <2>1. /\ \A d \in Conns : d # c => task'[d] = task[d]
        /\ task'[c].spk = r /\ ~Live(c) /\ Live(c)' /\ lapsed \subseteq lapsed'
        /\ chan' = chan /\ speakers' = speakers
    BY <1>0, <1>1, AcceptStep
  <2>2. \A d \in Conns : task[d].spk = s => ~Live(d)
    BY <2>1 DEF Live
  <2> QED
    BY <1>a, <1>c, <2>1, <2>2
<1>2. ASSUME NEW c \in Conns, Read(c) PROVE LastWord(s)'
  <2>1. PICK m \in NextFrames(c) :
           /\ m.spk = task[c].spk /\ Moves(c, Sent(task[c], m)) /\ Sends(m)
           /\ Live(c)' /\ speakers' = speakers /\ lapsed' = lapsed
    BY <1>0, <1>2, ReadStep
  <2>2. task[c].spk # s
    BY <1>0, <1>d, <2>1, MovesApart
  <2>3. LastWord(s)
    BY <1>b, <2>1, <2>2
  <2> QED
    BY <2>1, <2>2, <2>3, LastWordSent
<1>3. ASSUME NEW c \in Conns, SkipFrame(c) PROVE LastWord(s)'
  <2>1. PICK u : Moves(c, u) /\ Live(c)' /\ chan' = chan /\ speakers' = speakers
                 /\ lapsed \subseteq lapsed'
    BY <1>0, <1>3, SkipStep
  <2>2. task[c].spk # s
    BY <1>0, <1>d, <2>1, MovesApart
  <2> QED
    BY <1>b, <1>c, <2>1, <2>2
<1>4. ASSUME NEW c \in Conns, Eof(c) PROVE LastWord(s)'
  <2>1. PICK u : Moves(c, u) /\ Live(c)' /\ chan' = chan /\ speakers' = speakers /\ lapsed' = lapsed
    BY <1>0, <1>4, EofStep
  <2>2. task[c].spk # s
    BY <1>0, <1>d, <2>1, MovesApart
  <2> QED
    BY <1>b, <1>c, <2>1, <2>2
<1>5. ASSUME NEW c \in Conns, SynthTermination(c) PROVE LastWord(s)'
  <2>1. PICK u, m : /\ Moves(c, u) /\ m.kind = "termination" /\ m.spk = task[c].spk /\ Sends(m)
                    /\ speakers' = speakers /\ lapsed' = lapsed
    BY <1>0, <1>5, SynthStep
  <2>2. CASE task[c].spk # s
    <3>1. LastWord(s)
      BY <1>b, <2>1, <2>2
    <3> QED
      BY <2>1, <2>2, <3>1, LastWordSent
  <2>3. CASE task[c].spk = s
    <3>1. Len(chan) \in Nat /\ Len(chan') = Len(chan) + 1 /\ chan'[Len(chan) + 1] = m
      BY <2>1 DEF Sends
    <3>2. Len(chan) + 1 \in 1 .. Len(chan') /\ chan'[Len(chan) + 1].kind = "termination"
          /\ chan'[Len(chan) + 1].spk = s
      BY <2>1, <2>3, <3>1
    <3>3. \A i \in 1 .. Len(chan') : ~(i > Len(chan'))
      BY <3>1
    <3> DEFINE j == Len(chan')
    <3>4. j \in 1 .. Len(chan') /\ chan'[j].kind = "termination" /\ chan'[j].spk = s
      BY <3>1, <3>2
    <3>5. \A i \in 1 .. Len(chan') : i > j => chan'[i].spk # s
      BY <3>3
    <3> HIDE DEF j
    <3> QED
      BY <3>4, <3>5 DEF LastWord, SilentAt
  <2> QED
    BY <2>2, <2>3
<1>6. ASSUME Pump PROVE LastWord(s)'
  <2>1. Takes /\ Handle(chan[1]) /\ task' = task /\ lapsed' = lapsed
    BY <1>0, <1>6, PumpStep
  <2>2. LastWord(s)
    BY <1>a, <2>1 DEF Live
  <2> QED
    BY <1>0, <2>1, <2>2, LastWordTaken
<1>7. ASSUME UNCHANGED <<speakers, task, chan, lapsed>> PROVE LastWord(s)'
  BY <1>7, <1>a, <1>c DEF Live
<1> QED
  BY <1>1, <1>2, <1>3, <1>4, <1>5, <1>6, <1>7 DEF PNext, pvars, vars, lapse, Tick


\* A step that leaves channel and sessions alone leaves what they say of a peer.
LEMMA UpAtSame ==
    ASSUME chan' = chan, speakers' = speakers, NEW s, NEW p, NEW i, UpAt(s, p, i)
    PROVE  UpAt(s, p, i)'
BY DEF UpAt, SessionUp, Knows, Ends, Begins

\* Every update in the channel is of a peer that is Up when the pump reaches it.
LEMMA UpdatesStep == PInv /\ [PNext]_pvars => UpdatesOfUpPeers'
<1> SUFFICES ASSUME PInv, [PNext]_pvars PROVE UpdatesOfUpPeers'
  OBVIOUS
<1>0. PTypeOK /\ TypeOK /\ UpdatesOfUpPeers /\ OneConnection /\ chan \in Seq(Messages)
      /\ Len(chan) \in Nat
  BY DEF PInv, PTypeOK
<1> DEFINE Update(m, s, p) == m.kind = "update" /\ m.spk = s /\ m.peer = p
<1> SUFFICES ASSUME NEW s \in Speakers \ lapsed', NEW p \in Peers
             PROVE  /\ \A i \in 1 .. Len(chan') : Update(chan'[i], s, p) => UpAt(s, p, i)'
                    /\ \A d \in Conns : Reports(d, s, p)' => UpAt(s, p, Len(chan) + 1)'
  BY DEF UpdatesOfUpPeers, OrderlySpeakers, Reports
<1>a. ASSUME lapsed \subseteq lapsed'
      PROVE  /\ \A i \in 1 .. Len(chan) : Update(chan[i], s, p) => UpAt(s, p, i)
             /\ \A d \in Conns : Reports(d, s, p) => UpAt(s, p, Len(chan) + 1)
  BY <1>0, <1>a DEF UpdatesOfUpPeers, OrderlySpeakers, Reports
<1> DEFINE Q == /\ \A i \in 1 .. Len(chan') : Update(chan'[i], s, p) => UpAt(s, p, i)'
                /\ \A d \in Conns : Reports(d, s, p)' => UpAt(s, p, Len(chan) + 1)'
<1>b. ASSUME lapsed \subseteq lapsed', chan' = chan, speakers' = speakers,
             \A d \in Conns : Reports(d, s, p)' => Reports(d, s, p)
      PROVE  Q
  <2>1. ASSUME NEW i \in 1 .. Len(chan), UpAt(s, p, i) PROVE UpAt(s, p, i)'
    BY <1>b, <2>1, UpAtSame
  <2>2. UpAt(s, p, Len(chan) + 1) => UpAt(s, p, Len(chan) + 1)'
    BY <1>b DEF UpAt, SessionUp, Knows, Ends, Begins
  <2> QED
    BY <1>a, <1>b, <2>1, <2>2
<1>c. ASSUME NEW m, Sends(m), speakers' = speakers, lapsed \subseteq lapsed',
             Update(m, s, p) => UpAt(s, p, Len(chan) + 1)
      PROVE  \A i \in 1 .. Len(chan') : Update(chan'[i], s, p) => UpAt(s, p, i)'
  <2> SUFFICES ASSUME NEW i \in 1 .. Len(chan'), Update(chan'[i], s, p) PROVE UpAt(s, p, i)'
    OBVIOUS
  <2>1. /\ Len(chan') = Len(chan) + 1 /\ chan'[Len(chan) + 1] = m
        /\ \A j \in 1 .. Len(chan) : chan'[j] = chan[j]
    BY <1>c DEF Sends
  <2>2. i \in Nat /\ i <= Len(chan) + 1 /\ (i \in 1 .. Len(chan) \/ i = Len(chan) + 1)
    BY <1>0, <2>1
  <2>3. UpAt(s, p, i)
    BY <1>a, <1>c, <2>1, <2>2
  <2> QED
    BY <1>c, <2>2, <2>3, UpAtKept
<1>1. ASSUME NEW c \in Conns, NEW r \in Speakers, Accept(c, r) PROVE Q
  <2>1. /\ \A d \in Conns : d # c => task'[d] = task[d]
        /\ task'[c].ups = {} /\ lapsed \subseteq lapsed' /\ chan' = chan /\ speakers' = speakers
    BY <1>0, <1>1, AcceptStep
  <2>2. \A d \in Conns : Reports(d, s, p)' => Reports(d, s, p)
    BY <2>1 DEF Reports
  <2> HIDE DEF Q
  <2> QED
    BY <1>b, <2>1, <2>2
<1>2. ASSUME NEW c \in Conns, Read(c) PROVE Q
  <2>1. PICK m \in NextFrames(c) :
           /\ m \in Messages /\ m.spk = task[c].spk /\ ~task[c].done
           /\ Moves(c, Sent(task[c], m)) /\ Sends(m) /\ task[c].phase = "open" /\ Live(c)
           /\ speakers' = speakers /\ lapsed' = lapsed
    BY <1>0, <1>2, ReadStep
  <2>2. ASSUME Update(m, s, p) PROVE UpAt(s, p, Len(chan) + 1)
    <3>1. p \in task[c].ups
      BY <2>2 DEF NextFrames
    <3>2. Reports(c, s, p)
      BY <2>1, <2>2, <3>1 DEF Reports
    <3> QED
      BY <1>a, <2>1, <3>2
  <2>3. ASSUME NEW d \in Conns, Reports(d, s, p)' PROVE UpAt(s, p, Len(chan) + 1)'
    <3>1. CASE d = c
      <4>1. /\ task'[c] = Sent(task[c], m) /\ task'[c].spk = task[c].spk
            /\ p \in Sent(task[c], m).ups /\ ~Sent(task[c], m).done /\ task[c].spk = s
        BY <1>0, <2>1, <2>3, <3>1, MovesApart DEF Reports
      <4>2. task[c] \in Task /\ task[c].frames < MaxFrames
        BY <1>0, <1>2, TaskType DEF Read
      <4>3. /\ m.kind # "termination"
            /\ \/ m.kind = "peer_up" /\ m.peer = p
               \/ p \in task[c].ups /\ ~(m.kind = "peer_down" /\ m.peer = p)
        BY <2>1, <4>1, <4>2, SentTask
      <4>4. CASE m.kind = "peer_up" /\ m.peer = p
        <5>1. Begins(m, s, p)
          BY <2>1, <4>1, <4>4 DEF Begins
        <5> QED
          BY <2>1, <5>1, UpAtEnd
      <4>5. CASE p \in task[c].ups /\ ~(m.kind = "peer_down" /\ m.peer = p)
        <5>1. Reports(c, s, p)
          BY <2>1, <4>1, <4>5 DEF Reports
        <5>2. UpAt(s, p, Len(chan) + 1) /\ ~Ends(m, s, p)
          BY <1>a, <2>1, <4>3, <4>5, <5>1 DEF Ends
        <5> QED
          BY <2>1, <5>2, UpAtEnd
      <4> QED
        BY <4>3, <4>4, <4>5
    <3>2. CASE d # c
      <4>1. task'[d] = task[d]
        BY <1>0, <2>1, <3>2, MovesApart
      <4>2. Reports(d, s, p) /\ Live(d) /\ task[d].spk = s
        BY <2>3, <4>1 DEF Reports, Live
      <4>3. task[c].spk # s
        BY <1>0, <2>1, <3>2, <4>2 DEF OneConnection, OrderlySpeakers
      <4>4. UpAt(s, p, Len(chan) + 1) /\ ~Ends(m, s, p)
        BY <1>a, <2>1, <4>2, <4>3 DEF Ends
      <4> QED
        BY <2>1, <4>4, UpAtEnd
    <3> QED
      BY <3>1, <3>2
  <2>4. \A i \in 1 .. Len(chan') : Update(chan'[i], s, p) => UpAt(s, p, i)'
    BY <1>c, <2>1, <2>2
  <2> QED
    BY <2>3, <2>4
<1>3. ASSUME NEW c \in Conns, SkipFrame(c) PROVE Q
  <2>1. PICK u : Moves(c, u) /\ chan' = chan /\ speakers' = speakers
                 /\ lapsed' = lapsed \cup {task[c].spk}
    BY <1>0, <1>3, SkipStep
  <2>2. ASSUME NEW d \in Conns, Reports(d, s, p)' PROVE Reports(d, s, p)
    <3>1. d # c
      BY <1>0, <2>1, <2>2, MovesApart DEF Reports
    <3> QED
      BY <1>0, <2>1, <2>2, <3>1, MovesApart DEF Reports
  <2> HIDE DEF Q
  <2> QED
    BY <1>b, <2>1, <2>2
<1>4. ASSUME NEW c \in Conns, Eof(c) PROVE Q
  <2>1. PICK u : Moves(c, u) /\ u.phase = "eof" /\ chan' = chan /\ speakers' = speakers /\ lapsed' = lapsed
    BY <1>0, <1>4, EofStep
  <2>2. ASSUME NEW d \in Conns, Reports(d, s, p)' PROVE Reports(d, s, p)
    <3>1. d # c
      BY <1>0, <2>1, <2>2, MovesApart DEF Reports
    <3> QED
      BY <1>0, <2>1, <2>2, <3>1, MovesApart DEF Reports
  <2> HIDE DEF Q
  <2> QED
    BY <1>b, <2>1, <2>2
<1>5. ASSUME NEW c \in Conns, SynthTermination(c) PROVE Q
  <2>1. PICK u, m : /\ Moves(c, u) /\ u.phase = "closed" /\ Live(c)
                    /\ m.kind = "termination" /\ m.spk = task[c].spk /\ Sends(m)
                    /\ speakers' = speakers /\ lapsed' = lapsed
    BY <1>0, <1>5, SynthStep
  <2>2. ASSUME NEW d \in Conns, Reports(d, s, p)' PROVE UpAt(s, p, Len(chan) + 1)'
    <3>1. d # c
      BY <1>0, <2>1, <2>2, MovesApart DEF Reports
    <3>2. task'[d] = task[d]
      BY <1>0, <2>1, <3>1, MovesApart
    <3>3. Reports(d, s, p) /\ Live(d) /\ task[d].spk = s
      BY <2>2, <3>2 DEF Reports, Live
    <3>4. task[c].spk # s
      BY <1>0, <2>1, <3>1, <3>3 DEF OneConnection, OrderlySpeakers
    <3>5. UpAt(s, p, Len(chan) + 1) /\ ~Ends(m, s, p)
      BY <1>a, <2>1, <3>3, <3>4 DEF Ends
    <3> QED
      BY <2>1, <3>5, UpAtEnd
  <2>3. \A i \in 1 .. Len(chan') : Update(chan'[i], s, p) => UpAt(s, p, i)'
    BY <1>c, <2>1
  <2> QED
    BY <2>2, <2>3
<1>6. ASSUME Pump PROVE Q
  <2>1. Takes /\ Handle(chan[1]) /\ task' = task /\ lapsed' = lapsed
    BY <1>0, <1>6, PumpStep
  <2>2. /\ Len(chan') = Len(chan) - 1 /\ Len(chan) >= 1
        /\ \A j \in 1 .. Len(chan) - 1 : chan'[j] = chan[j + 1]
    BY <2>1 DEF Takes
  <2>3. ASSUME NEW i \in 1 .. Len(chan'), Update(chan'[i], s, p) PROVE UpAt(s, p, i)'
    <3>1. /\ i \in Nat /\ 1 <= i /\ i <= Len(chan) /\ i + 1 \in 1 .. Len(chan)
          /\ i \in 1 .. Len(chan) - 1
      BY <1>0, <2>2
    <3>2. Update(chan[i + 1], s, p)
      BY <2>2, <2>3, <3>1
    <3>3. UpAt(s, p, i + 1)
      BY <1>a, <2>1, <3>1, <3>2
    <3> QED
      BY <1>0, <2>1, <3>1, <3>3, UpAtTaken
  <2>4. ASSUME NEW d \in Conns, Reports(d, s, p)' PROVE UpAt(s, p, Len(chan) + 1)'
    <3>1. Reports(d, s, p)
      BY <2>1, <2>4 DEF Reports
    <3>2. UpAt(s, p, Len(chan) + 1)
      BY <1>a, <2>1, <3>1
    <3> DEFINE i == Len(chan)
    <3>3. i \in Nat /\ 1 <= i /\ i <= Len(chan)
      BY <1>0, <2>2
    <3>4. i = Len(chan') + 1
      BY <1>0, <2>2
    <3>5. UpAt(s, p, i + 1)
      BY <3>2
    <3> HIDE DEF i
    <3>6. \A n \in Nat : n = i => UpAt(s, p, n)'
      BY <1>0, <2>1, <3>3, <3>5, UpAtTaken
    <3>7. Len(chan') + 1 \in Nat
      BY <3>3, <3>4
    <3> QED
      BY <3>4, <3>6, <3>7
  <2> QED
    BY <2>3, <2>4
<1>7. ASSUME UNCHANGED <<speakers, task, chan, lapsed>> PROVE Q
  <2>1. \A d \in Conns : Reports(d, s, p)' => Reports(d, s, p)
    BY <1>7 DEF Reports
  <2> HIDE DEF Q
  <2> QED
    BY <1>b, <1>7, <2>1
<1> HIDE DEF Q
<1>8. Q
  BY <1>1, <1>2, <1>3, <1>4, <1>5, <1>6, <1>7 DEF PNext, pvars, vars, lapse, Tick
<1> QED
  BY <1>8 DEF Q


-----------------------------------------------------------------------------
(* The pipeline: the theorems *)

\* The server starts with no connection, an empty channel and an empty RIB.
LEMMA PInitInv == PInit => PInv
<1> SUFFICES ASSUME PInit PROVE PInv
  OBVIOUS
<1> DEFINE s0 == CHOOSE s \in Speakers : TRUE
<1>0. /\ Init /\ chan = << >> /\ lapses = 0 /\ lapsed = {}
      /\ task = [c \in Conns |-> Conn("idle", s0)] /\ s0 \in Speakers
  BY PipelineAssumption DEF PInit
<1> HIDE DEF s0
<1>1. TypeOK
  BY <1>0, TypeInit
<1>2. Conn("idle", s0) \in Task /\ Conn("idle", s0).phase = "idle"
  BY <1>0, ConnTask
<1>3. task \in [Conns -> Task] /\ \A c \in Conns : task[c].phase = "idle"
  BY <1>0, <1>2
<1>4. Len(chan) = 0 /\ chan \in Seq(Messages)
  BY <1>0
<1>5. PTypeOK
  <2>1. 0 <= ChanCap /\ 0 \in 0 .. MaxLapses
    BY PipelineAssumption
  <2> QED
    BY <1>0, <1>1, <1>3, <1>4, <2>1 DEF PTypeOK
<1>6. \A p \in Peers, k \in Keys : ~Has(p, k)
  BY <1>0 DEF Init, Has
<1>7. RoutesOwned
  BY <1>6 DEF RoutesOwned
<1>8. \A i \in 1 .. Len(chan) : FALSE
  BY <1>4
<1>9. UpdatesOfUpPeers
  BY <1>3, <1>8 DEF UpdatesOfUpPeers, Reports
<1>10. OneConnection
  BY <1>3 DEF OneConnection, Live
<1>11. LastIsTermination
  <2>1. \A s \in Speakers : speakers[s] = NoSpeaker
    BY <1>0 DEF Init
  <2> QED
    BY <1>8, <2>1 DEF LastIsTermination, LastWord, SilentAt, OrderlySpeakers
<1> QED
  BY <1>5, <1>7, <1>9, <1>10, <1>11 DEF PInv

\* The five parts of the invariant carry each other over every step.
LEMMA PInvStep == PInv /\ [PNext]_pvars => PInv'
<1>1. PInv => PTypeOK
  BY DEF PInv
<1> QED
  BY <1>1, PTypeStep, RoutesStep, UpdatesStep, ConnectionStep, LastIsTerminationStep DEF PInv

\* The receiver tasks, the channel and the RIB behind it stay well formed, and the
\* channel within its capacity, however connections, frames and lapses interleave.
THEOREM PTypeCorrect == PSpec => []PTypeOK
<1>1. PInv => PTypeOK
  BY DEF PInv
<1> QED
  BY <1>1, PInitInv, PInvStep, PTL DEF PSpec

\* A fresh route of an orderly speaker belongs to a peer its session holds Up: its
\* update was sent after the peer's Peer Up, on the one connection of the speaker, and
\* whatever takes the session down marks or removes the route in the same step.
THEOREM FreshRouteHasUpPeerHolds == PSpec => []FreshRouteHasUpPeer
<1>1. PInv => FreshRouteHasUpPeer
  <2> SUFFICES ASSUME PInv, NEW p \in Peers, NEW k \in Keys, Has(p, k),
                      ribs[p][k].stale = Fresh, ribs[p][k].from \notin lapsed
               PROVE  Knows(ribs[p][k].from, p) /\ speakers[ribs[p][k].from][p].state = "Up"
    BY DEF FreshRouteHasUpPeer
  <2>1. ribs[p][k].from \in OrderlySpeakers
    BY RouteEntry DEF PInv, PTypeOK, OrderlySpeakers
  <2> QED
    BY <2>1 DEF PInv, RoutesOwned
<1> QED
  BY <1>1, PInitInv, PInvStep, PTL DEF PSpec

\* Once every connection of an orderly speaker has ended and its messages are
\* processed, neither its session nor any of its routes is left: its Termination came
\* last, and every route it announced was of a peer its session listed.
THEOREM OrderlySpeakerIsEvictedHolds == PSpec => []OrderlySpeakerIsEvicted
<1>1. PInv => OrderlySpeakerIsEvicted
  <2> SUFFICES ASSUME PInv, NEW s \in Speakers \ lapsed, Quiet(s)
               PROVE  Evicted(s)
    BY DEF OrderlySpeakerIsEvicted
  <2>1. s \in OrderlySpeakers
    BY DEF OrderlySpeakers
  <2>2. LastWord(s)
    BY <2>1 DEF PInv, LastIsTermination, Quiet
  <2>3. speakers[s] = NoSpeaker
    BY <2>2 DEF LastWord, Quiet
  <2>4. ASSUME NEW p \in Peers, NEW k \in Keys, Has(p, k), ribs[p][k].from = s
        PROVE  FALSE
    BY <2>1, <2>3, <2>4 DEF PInv, RoutesOwned, Knows
  <2> QED
    BY <2>3, <2>4 DEF Evicted
<1> QED
  BY <1>1, PInitInv, PInvStep, PTL DEF PSpec

-----------------------------------------------------------------------------
(***************************************************************************)
(* History: the inductive invariant.  SnapshotFollowsRib is about the row  *)
(* current_rib takes; what the steps keep is that the last row of a route  *)
(* says what the RIB holds, or that the end of a session follows it.       *)
(***************************************************************************)

\* The rows of the four tables
RouteRows   == {e \in [table : {"route_events"}, at : Time, speaker : Speakers, peer : Peers,
                       as : Asns, rib : RibTypes, action : {"announce", "withdraw"}, prefix : Prefixes,
                       attr : Attrs \cup {NoRoute}] : e.action = "announce" => e.attr \in Attrs}
MarkingRows == [table : {"path_markings"}, at : Time, speaker : Speakers, peer : Peers,
                prefix : Prefixes, attr : Attrs]
PeerRows    == [table : {"peer_events"}, at : Time, speaker : Speakers, peer : Peers,
                event : {"peer_up", "peer_down"}]
SpeakerRows == [table : {"speaker_events"}, at : Time, speaker : Speakers,
                event : {"speaker_up", "speaker_down"}]
Rows        == RouteRows \cup MarkingRows \cup PeerRows \cup SpeakerRows

HTypeOK == TypeOK /\ recording \in BOOLEAN /\ rows \in Seq(Rows)

SessionTables == {"peer_events", "speaker_events"}

\* No row is from the future, and a session event, which is stamped when it is written, is
\* not older than the rows before it.
InTime ==
    \A i \in DOMAIN rows :
        /\ rows[i].at <= now
        /\ \A j \in DOMAIN rows :
              (i < j /\ rows[j].table \in SessionTables)
                  => rows[i].at <= rows[j].at

\* The row of the route that was written last
IsLast(p, k, i) == i \in RowsOf(p, k) /\ \A j \in RowsOf(p, k) : j <= i

\* A session the peer's routes depend on ended behind the row
EndedAfter(p, i) == \E j \in DOMAIN rows : j > i /\ EndsSession(rows[j], p)

\* The last row of a route in the table announces it with its attributes, and if the
\* route is stale the end of a session follows; the last row of a route that is in no
\* table withdraws it, or the end of a session follows.
Explained(p, k) ==
    /\ Has(p, k) => \E i \in DOMAIN rows :
                       /\ IsLast(p, k, i)
                       /\ rows[i].action = "announce" /\ rows[i].attr = ribs[p][k].attr
                       /\ ribs[p][k].stale # Fresh => EndedAfter(p, i)
    /\ ~Has(p, k) => \A i \in DOMAIN rows :
                        IsLast(p, k, i) => rows[i].action = "withdraw" \/ EndedAfter(p, i)

Tracked(p, k) == recording /\ Orderly(p, k) /\ <<p, k>> \notin swept

RowsExplainRib == \A p \in Peers, k \in Keys : Tracked(p, k) => Explained(p, k)

HInv == HTypeOK /\ InTime /\ RowsExplainRib

-----------------------------------------------------------------------------
(* The steps of the history *)

\* A message is stamped no later than now.
LEMMA StampsBound ==
    ASSUME HTypeOK, NEW s PROVE Stamps(s) \subseteq 0 .. now
BY DEF Stamps

\* What happens to the RIB in the composition is what RibManager allows.
LEMMA HistoryStepIsStep == [HistoryNext]_historyVars => [Next]_vars
<1> SUFFICES ASSUME [HistoryNext]_historyVars PROVE [Next]_vars
  OBVIOUS
<1>1. ASSUME NEW s \in Speakers, NEW p \in Peers, NEW at \in Stamps(s), PeerDown(s, p, at)
      PROVE  Next
  <2>1. at \in 0 .. now
    BY DEF Stamps
  <2> QED BY <1>1, <2>1 DEF Next, Process
<1>2. ASSUME NEW s \in Speakers, NEW p \in Peers, NEW r \in RibTypes, NEW a \in Attrs,
             NEW W \in SUBSET Prefixes, NEW A \in SUBSET Prefixes,
             RouteMonitoring(s, p, r, W, A, a)
      PROVE  Next
  <2>1. Process
    BY <1>2, Zenon DEF Process
  <2> QED BY <2>1 DEF Next
<1>3. ASSUME NEW s \in Speakers, Initiation(s) \/ Termination(s) PROVE Next
  BY <1>3 DEF Next, Process
<1>4. ASSUME NEW s \in Speakers, NEW p \in Peers, NEW secs \in LlgrSecs, PeerUp(s, p, secs)
      PROVE  Next
  BY <1>4 DEF Next, Process
<1>5. ASSUME NEW n, Sweep(n) PROVE UNCHANGED vars
  BY <1>5 DEF Sweep
<1>6. ASSUME UNCHANGED historyVars PROVE UNCHANGED vars
  BY <1>6 DEF historyVars
<1> QED
  BY <1>1, <1>2, <1>3, <1>4, <1>5, <1>6 DEF HistoryNext, Next, Process

\* The store only looks on: every behaviour of the composition is one of RibManager, so
\* that every theorem about RibManager holds with a store beside it.
THEOREM HistoryImplementsRibManager == HistorySpec => Spec
<1>1. HistoryInit => Init
  BY DEF HistoryInit
<1> QED
  BY <1>1, HistoryStepIsStep, PTL DEF HistorySpec, Spec

\* The rows grow by the sequence new.
Grows(new) ==
    /\ Len(rows') = Len(rows) + Len(new)
    /\ \A i \in 1 .. Len(rows) : rows'[i] = rows[i]
    /\ \A i \in 1 .. Len(rows') :
          i > Len(rows) => i - Len(rows) \in 1 .. Len(new) /\ rows'[i] = new[i - Len(rows)]
    /\ \A i \in 1 .. Len(new) :
          Len(rows) + i \in 1 .. Len(rows') /\ rows'[Len(rows) + i] = new[i]

\* Persist appends, with a store.
LEMMA PersistGrows ==
    ASSUME NEW S, rows \in Seq(S), NEW new, new \in Seq(S), Persist(new), recording
    PROVE  rows' \in Seq(S) /\ Grows(new)
<1>1. rows' = rows \o new
  BY DEF Persist
<1>2. /\ rows' \in Seq(S) /\ Len(rows') = Len(rows) + Len(new)
      /\ \A i \in 1 .. Len(rows) + Len(new) :
            rows'[i] = IF i <= Len(rows) THEN rows[i] ELSE new[i - Len(rows)]
  BY <1>1, ConcatProperties
<1>3. Len(rows) \in Nat /\ Len(new) \in Nat
  OBVIOUS
<1> HIDE <1>1
<1>4. \A i \in 1 .. Len(rows) : rows'[i] = rows[i]
  BY <1>2, <1>3
<1>5. \A i \in 1 .. Len(rows') :
          i > Len(rows) => i - Len(rows) \in 1 .. Len(new) /\ rows'[i] = new[i - Len(rows)]
  BY <1>2, <1>3
<1>6. ASSUME NEW i \in 1 .. Len(new)
      PROVE  Len(rows) + i \in 1 .. Len(rows') /\ rows'[Len(rows) + i] = new[i]
  <2>1. /\ Len(rows) + i \in 1 .. Len(rows) + Len(new)
        /\ ~(Len(rows) + i <= Len(rows)) /\ (Len(rows) + i) - Len(rows) = i
    BY <1>3
  <2> QED BY <1>2, <2>1
<1> QED
  BY <1>2, <1>4, <1>5, <1>6 DEF Grows

\* Without a store nothing is written.
LEMMA PersistIdle ==
    ASSUME NEW new, Persist(new), ~recording PROVE UNCHANGED storeVars
BY DEF Persist, storeVars

\* The sequence made of a finite set has its members, each in some place.
LEMMA SetToSeqRange ==
    ASSUME NEW S, IsFiniteSet(S)
    PROVE  /\ Len(Seqs!SetToSeq(S)) \in Nat /\ Seqs!SetToSeq(S) \in Seq(S)
           /\ {Seqs!SetToSeq(S)[i] : i \in 1 .. Len(Seqs!SetToSeq(S))} = S
<1> DEFINE n == Cardinality(S)
           q == Seqs!SetToSeq(S)
<1>1. n \in Nat /\ ExistsBijection(1 .. n, S)
  BY FS_CardinalityType
<1>2. PICK f \in Bijection(1 .. n, S) : TRUE
  BY <1>1 DEF ExistsBijection
<1>3. f \in [1 .. n -> S] /\ IsInjective(f)
  BY <1>2 DEF Bijection, Injection, IsInjective
<1>a. Seqs!Cardinality(S) = n
  BY DEF Seqs!Cardinality, Cardinality, Seqs!IsFiniteSet, IsFiniteSet
<1>4. q \in [1 .. n -> S] /\ IsInjective(q)
  BY <1>3, <1>a DEF Seqs!SetToSeq, Seqs!IsInjective, IsInjective
<1>5. IsFiniteSet(1 .. n) /\ Cardinality(1 .. n) = n
  BY <1>1, FS_Interval
<1>6. q \in Injection(1 .. n, S)
  BY <1>4 DEF Injection, IsInjective
<1> HIDE DEF q
<1>7. q \in Surjection(1 .. n, S)
  BY <1>5, <1>6, FS_Injection
<1>8. \A x \in S : \E i \in 1 .. n : q[i] = x
  BY <1>7 DEF Surjection
<1>9. q \in Seq(S) /\ Len(q) = n
  BY <1>1, <1>4
<1> QED
  BY <1>1, <1>4, <1>8, <1>9 DEF q


-----------------------------------------------------------------------------
(* The rows of one UPDATE *)

\* The fields of a row
LEMMA RowFields ==
    ASSUME NEW e \in Rows
    PROVE  /\ e.at \in Time /\ e.at \in Nat
           /\ e.table \in {"route_events", "path_markings", "peer_events", "speaker_events"}
           /\ e.table = "route_events" =>
                 /\ e.peer \in Peers /\ e.rib \in RibTypes /\ e.prefix \in Prefixes
                 /\ e.speaker \in Speakers
                 /\ e.action \in {"announce", "withdraw"}
                 /\ e.action = "announce" => e.attr \in Attrs
           /\ e.table = "path_markings" =>
                 e.peer \in Peers /\ e.prefix \in Prefixes /\ e.attr \in Attrs
<1>1. CASE e \in RouteRows
  BY <1>1, TimeAssumption DEF RouteRows, Time
<1>2. CASE e \in MarkingRows
  BY <1>2, TimeAssumption DEF MarkingRows, Time
<1>3. CASE e \in PeerRows
  BY <1>3, TimeAssumption DEF PeerRows, Time
<1>4. CASE e \in SpeakerRows
  BY <1>4, TimeAssumption DEF SpeakerRows, Time
<1> QED
  BY <1>1, <1>2, <1>3, <1>4 DEF Rows

\* What stands at a position is a row.
LEMMA RowAt ==
    ASSUME HTypeOK, NEW i \in DOMAIN rows
    PROVE  rows[i] \in Rows /\ i \in 1 .. Len(rows) /\ i \in Nat
BY DEF HTypeOK

\* The rows that withdrawing W and announcing N writes
Written(s, p, asn, r, W, N, a, at) ==
    {WithdrawRow(s, p, asn, r, x, at) : x \in W}
    \cup {AnnounceRow(s, p, asn, r, x, a, at) : x \in N}
    \cup {MarkingRow(s, p, x, a, at) : x \in {y \in N : StatusOf[a] # Absent}}

\* The rows of withdrawals and announcements are of the tables, and no others are written.
LEMMA ChangeRowsRange ==
    ASSUME NEW s \in Speakers, NEW p \in Peers, NEW asn \in Asns, NEW r \in RibTypes, NEW a \in Attrs,
           NEW at \in Time, NEW w \in Seq(Prefixes), NEW n \in Seq(Prefixes)
    PROVE  /\ ChangeRows(s, p, asn, r, w, n, a, at) \in Seq(Rows)
           /\ Range(ChangeRows(s, p, asn, r, w, n, a, at)) =
                 Written(s, p, asn, r, Range(w), Range(n), a, at)
<1> DEFINE u == [i \in DOMAIN w |-> WithdrawRow(s, p, asn, r, w[i], at)]
           v == [i \in DOMAIN n |-> AnnounceRow(s, p, asn, r, n[i], a, at)]
           m == IF StatusOf[a] = Absent THEN << >>
                ELSE [i \in DOMAIN n |-> MarkingRow(s, p, n[i], a, at)]
<1>1. \A x \in Prefixes : /\ WithdrawRow(s, p, asn, r, x, at) \in Rows
                          /\ AnnounceRow(s, p, asn, r, x, a, at) \in Rows
                          /\ MarkingRow(s, p, x, a, at) \in Rows
  BY DEF WithdrawRow, AnnounceRow, MarkingRow, Rows, RouteRows, MarkingRows
<1>2. u \in Seq(Rows) /\ Range(u) = {WithdrawRow(s, p, asn, r, x, at) : x \in Range(w)}
  BY <1>1 DEF Range
<1>3. v \in Seq(Rows) /\ Range(v) = {AnnounceRow(s, p, asn, r, x, a, at) : x \in Range(n)}
  BY <1>1 DEF Range
<1>4. /\ m \in Seq(Rows)
      /\ Range(m) = {MarkingRow(s, p, x, a, at) : x \in {y \in Range(n) : StatusOf[a] # Absent}}
  <2>1. CASE StatusOf[a] = Absent
    <3>1. m = << >>
      BY <2>1
    <3>2. << >> \in Seq(Rows) /\ Range(<< >>) = {}
      BY EmptySeq DEF Range
    <3> QED BY <2>1, <3>1, <3>2
  <2>2. CASE StatusOf[a] # Absent
    <3> DEFINE z == [i \in DOMAIN n |-> MarkingRow(s, p, n[i], a, at)]
    <3>1. z \in Seq(Rows) /\ Range(z) = {MarkingRow(s, p, x, a, at) : x \in Range(n)}
      BY <1>1 DEF Range
    <3>2. m = z
      BY <2>2
    <3> QED BY <2>2, <3>1, <3>2
  <2> QED BY <2>1, <2>2
<1>5. ChangeRows(s, p, asn, r, w, n, a, at) = (u \o v) \o m
  BY DEF ChangeRows
<1> HIDE DEF u, v, m
<1>6. u \o v \in Seq(Rows) /\ Range(u \o v) = Range(u) \cup Range(v)
  BY <1>2, <1>3, ConcatProperties, RangeConcatenation
<1> DEFINE b == u \o v
<1>7. b \in Seq(Rows)
  BY <1>6
<1>8. ChangeRows(s, p, asn, r, w, n, a, at) = b \o m /\ Range(b) = Range(u) \cup Range(v)
  BY <1>5, <1>6
<1> HIDE DEF b
<1>9. b \o m \in Seq(Rows) /\ Range(b \o m) = Range(b) \cup Range(m)
  BY <1>4, <1>7, ConcatProperties, RangeConcatenation
<1> QED
  BY <1>2, <1>3, <1>4, <1>8, <1>9 DEF Written

\* The rows persist_one writes for one UPDATE: one per prefix withdrawn or accepted, and one
\* per marking.
LEMMA UpdateRowsRange ==
    ASSUME NEW s \in Speakers, NEW p \in Peers, NEW asn \in Asns, NEW r \in RibTypes, NEW a \in Attrs,
           NEW at \in Time, NEW W \in SUBSET Prefixes, NEW A \in SUBSET Prefixes
    PROVE  /\ UpdateRows(s, p, asn, r, W, A, a, at) \in Seq(Rows)
           /\ Range(UpdateRows(s, p, asn, r, W, A, a, at)) =
                 Written(s, p, asn, r, W, Accepted(p, A, a), a, at)
<1> DEFINE N == Accepted(p, A, a)
<1>1. N \in SUBSET Prefixes
  BY DEF Accepted
<1> HIDE DEF N
<1>2. IsFiniteSet(W) /\ IsFiniteSet(N)
  BY <1>1, PrefixAssumption, FS_Subset
<1> DEFINE w == Seqs!SetToSeq(W)
           n == Seqs!SetToSeq(N)
<1>3. w \in Seq(W) /\ {w[i] : i \in 1 .. Len(w)} = W
  BY <1>2, SetToSeqRange
<1>4. n \in Seq(N) /\ {n[i] : i \in 1 .. Len(n)} = N
  BY <1>2, SetToSeqRange
<1>5. UpdateRows(s, p, asn, r, W, A, a, at) = ChangeRows(s, p, asn, r, w, n, a, at)
  BY DEF UpdateRows, N
<1> HIDE DEF w, n
<1>6. w \in Seq(Prefixes) /\ n \in Seq(Prefixes)
  <2>1. w \in Seq(W) /\ n \in Seq(N) /\ W \subseteq Prefixes /\ N \subseteq Prefixes
    BY <1>1, <1>3, <1>4
  <2> QED BY <2>1, SeqMonotonic
<1>7. Range(w) = W /\ Range(n) = N
  <2>1. Range(w) = {w[i] : i \in 1 .. Len(w)}
    BY <1>3, RangeEquality
  <2>2. Range(n) = {n[i] : i \in 1 .. Len(n)}
    BY <1>4, RangeEquality
  <2> QED BY <1>3, <1>4, <2>1, <2>2
<1> QED
  BY <1>5, <1>6, <1>7, ChangeRowsRange DEF N

-----------------------------------------------------------------------------
(* The members of a set in the order of a relation *)

TotalOrder(I, Q) ==
    /\ \A i \in I : <<i, i>> \in Q
    /\ \A i, j \in I : <<i, j>> \in Q \/ <<j, i>> \in Q
    /\ \A i, j \in I : <<i, j>> \in Q /\ <<j, i>> \in Q => i = j
    /\ \A i, j, k \in I : <<i, j>> \in Q /\ <<j, k>> \in Q => <<i, k>> \in Q

\* How many members of I come up to i
Rank(I, Q, i) == Cardinality({j \in I : <<j, i>> \in Q})

\* The rank of a member grows along the order.
LEMMA RankProperties ==
    ASSUME NEW I, IsFiniteSet(I), NEW Q, TotalOrder(I, Q)
    PROVE  /\ Cardinality(I) \in Nat
           /\ \A i \in I : Rank(I, Q, i) \in 1 .. Cardinality(I)
           /\ \A i, k \in I : <<i, k>> \in Q /\ i # k => Rank(I, Q, i) < Rank(I, Q, k)
<1>2. Cardinality(I) \in Nat
  BY FS_CardinalityType
<1>3. ASSUME NEW i \in I
      PROVE  /\ IsFiniteSet({j \in I : <<j, i>> \in Q})
             /\ Rank(I, Q, i) \in Nat /\ Rank(I, Q, i) # 0 /\ Rank(I, Q, i) <= Cardinality(I)
  <2> DEFINE J == {j \in I : <<j, i>> \in Q}
  <2>1. J \in SUBSET I /\ i \in J
    BY DEF TotalOrder
  <2>2. Rank(I, Q, i) = Cardinality(J)
    BY DEF Rank
  <2> HIDE DEF J
  <2>3. IsFiniteSet(J) /\ Cardinality(J) <= Cardinality(I)
    BY <1>2, <2>1, FS_Subset
  <2>4. Cardinality(J) \in Nat
    BY <2>3, FS_CardinalityType
  <2>5. Cardinality(J) # 0
    BY <2>1, <2>3, FS_EmptySet
  <2> QED BY <2>2, <2>3, <2>4, <2>5 DEF J
<1>4. ASSUME NEW i \in I, NEW k \in I, <<i, k>> \in Q, i # k
      PROVE  Rank(I, Q, i) < Rank(I, Q, k)
  <2> DEFINE J == {j \in I : <<j, i>> \in Q}
             K == {j \in I : <<j, k>> \in Q}
  <2>1. J \in SUBSET K /\ k \in K /\ k \notin J
    BY <1>4 DEF TotalOrder
  <2>2. IsFiniteSet(K) /\ Rank(I, Q, i) = Cardinality(J) /\ Rank(I, Q, k) = Cardinality(K)
    BY <1>3 DEF Rank
  <2> HIDE DEF J, K
  <2>3. Cardinality(J) <= Cardinality(K) /\ Cardinality(K) # Cardinality(J)
    BY <2>1, <2>2, FS_Subset
  <2>4. Rank(I, Q, i) \in Nat /\ Rank(I, Q, k) \in Nat
    BY <1>3
  <2> QED BY <2>2, <2>3, <2>4
<1>5. ASSUME NEW i \in I PROVE Rank(I, Q, i) \in 1 .. Cardinality(I)
  <2>1. Rank(I, Q, i) \in Nat /\ Rank(I, Q, i) # 0 /\ Rank(I, Q, i) <= Cardinality(I)
    BY <1>3
  <2> QED BY <1>2, <2>1
<1> QED
  BY <1>2, <1>4, <1>5

\* s lists the members of I, each once, as Q orders them.
Listing(s, I, Q) ==
    /\ Cardinality(I) \in Nat
    /\ s \in [1 .. Cardinality(I) -> I]
    /\ \A n, k \in 1 .. Cardinality(I) : n < k => <<s[n], s[k]>> \in Q /\ s[n] # s[k]
    /\ \A i \in I : \E n \in 1 .. Cardinality(I) : s[n] = i

\* InOrder lists a finite set that is totally ordered.
LEMMA InOrderLists ==
    ASSUME NEW I, IsFiniteSet(I), NEW Q, TotalOrder(I, Q)
    PROVE  Listing(InOrder(I, Q), I, Q)
<1> DEFINE c == Cardinality(I)
           f == [i \in I |-> Rank(I, Q, i)]
           s == InOrder(I, Q)
<1>1. /\ c \in Nat
      /\ \A i \in I : Rank(I, Q, i) \in 1 .. c
      /\ \A i, k \in I : <<i, k>> \in Q /\ i # k => Rank(I, Q, i) < Rank(I, Q, k)
  BY RankProperties
<1>3. ASSUME NEW i \in I, NEW k \in I, Rank(I, Q, i) = Rank(I, Q, k) PROVE i = k
  <2>1. Rank(I, Q, i) \in Int /\ Rank(I, Q, k) \in Int
    BY <1>1
  <2>2. <<i, k>> \in Q \/ <<k, i>> \in Q
    BY DEF TotalOrder
  <2> QED BY <1>1, <1>3, <2>1, <2>2
<1>4. f \in Injection(I, 1 .. c)
  BY <1>1, <1>3 DEF Injection, IsInjective
<1>5. IsFiniteSet(1 .. c) /\ Cardinality(1 .. c) = c
  BY <1>1, FS_Interval
<1>6. f \in Surjection(I, 1 .. c)
  BY <1>4, <1>5, FS_Injection
<1>7. \A n \in 1 .. c : \E i \in I : Rank(I, Q, i) = n
  BY <1>6 DEF Surjection
<1>8. s = [n \in 1 .. c |-> CHOOSE i \in I : Rank(I, Q, i) = n]
  BY DEF InOrder, Rank
<1> HIDE DEF c, f, s
<1>9. ASSUME NEW n \in 1 .. c PROVE s[n] \in I /\ Rank(I, Q, s[n]) = n
  BY <1>7, <1>8
<1>10. s \in [1 .. c -> I]
  BY <1>8, <1>9
<1>11. ASSUME NEW n \in 1 .. c, NEW k \in 1 .. c, n < k
       PROVE  <<s[n], s[k]>> \in Q /\ s[n] # s[k]
  <2>1. /\ s[n] \in I /\ s[k] \in I
        /\ Rank(I, Q, s[n]) = n /\ Rank(I, Q, s[k]) = k
    BY <1>9
  <2>2. n \in Int /\ k \in Int
    BY <1>1
  <2>3. s[n] # s[k]
    BY <1>11, <2>1, <2>2
  <2>4. <<s[k], s[n]>> \in Q => k < n
    BY <1>1, <2>1, <2>3
  <2>5. <<s[n], s[k]>> \in Q
    BY <1>11, <2>1, <2>2, <2>4 DEF TotalOrder
  <2> QED BY <2>3, <2>5
<1>12. ASSUME NEW i \in I PROVE \E n \in 1 .. c : s[n] = i
  <2>1. Rank(I, Q, i) \in 1 .. c
    BY <1>1
  <2>2. s[Rank(I, Q, i)] = i
    BY <1>3, <1>9, <2>1
  <2> QED BY <2>1, <2>2
<1> QED
  BY <1>1, <1>10, <1>11, <1>12 DEF Listing, c, s

\* A set of positions is finite.
LEMMA FinitePositions ==
    ASSUME NEW m \in Nat, NEW I \in SUBSET (1 .. m)
    PROVE  IsFiniteSet(I)
<1>1. IsFiniteSet(1 .. m)
  BY FS_Interval
<1> QED BY <1>1, FS_Subset


-----------------------------------------------------------------------------
(* The three things that happen to the rows *)

\* Rows are appended: stamped no later than now, and session events now.
Appends(new) ==
    /\ new \in Seq(Rows) /\ Persist(new) /\ now' = now
    /\ \A e \in Range(new) : e.at <= now /\ (e.table \in SessionTables => e.at = now)

\* The rows at the positions f lists are kept, in their order.
Keeps(f, n) ==
    /\ rows' \in Seq(Rows)
    /\ \A m \in 1 .. Len(rows') : /\ f[m] \in 1 .. Len(rows) /\ f[m] \notin Outdated(n)
                                  /\ rows'[m] = rows[f[m]]
    /\ \A m, k \in 1 .. Len(rows') : m < k => f[m] < f[k]
    /\ \A i \in 1 .. Len(rows) : i \notin Outdated(n) => \E m \in 1 .. Len(rows') : f[m] = i

\* A sweep keeps what it does not take, in its order (retention.rs 44-61).
LEMMA SweepKeeps ==
    ASSUME HTypeOK, NEW n \in 1 .. Len(SweptTables), Sweep(n)
    PROVE  \E f : Keeps(f, n)
<1> DEFINE I == DOMAIN rows \ Outdated(n)
           Q == {q \in I \X I : q[1] <= q[2]}
           f == InOrder(I, Q)
           c == Cardinality(I)
<1>1. DOMAIN rows = 1 .. Len(rows) /\ Len(rows) \in Nat
  BY DEF HTypeOK
<1>2. I \in SUBSET (1 .. Len(rows))
  BY <1>1
<1>3. \A i \in 1 .. Len(rows) : i \notin Outdated(n) <=> i \in I
  BY <1>1
<1>4. rows' = [m \in DOMAIN f |-> rows[f[m]]]
  BY DEF Sweep, RowsAt
<1> HIDE DEF I
<1>a. IsFiniteSet(I)
  BY <1>1, <1>2, FinitePositions
<1>b. \A i \in I : i \in Int
  BY <1>1, <1>2
<1>c. \A i, j \in I : <<i, j>> \in Q <=> i <= j
  OBVIOUS
<1> HIDE DEF Q
<1>d. TotalOrder(I, Q)
  BY <1>b, <1>c DEF TotalOrder
<1>e. Listing(f, I, Q)
  BY <1>a, <1>d, InOrderLists
<1> HIDE DEF f, c
<1>5. /\ c \in Nat /\ DOMAIN f = 1 .. c
      /\ \A m \in 1 .. c : f[m] \in I
      /\ \A i \in I : \E m \in 1 .. c : f[m] = i
  BY <1>e DEF Listing, c
<1>6. ASSUME NEW m \in 1 .. c PROVE rows[f[m]] \in Rows
  <2>1. f[m] \in 1 .. Len(rows)
    BY <1>2, <1>5
  <2> QED BY <2>1 DEF HTypeOK
<1>7. rows' \in Seq(Rows) /\ Len(rows') = c
  BY <1>4, <1>5, <1>6
<1>8. ASSUME NEW m \in 1 .. c
      PROVE  /\ f[m] \in 1 .. Len(rows) /\ f[m] \notin Outdated(n)
             /\ rows'[m] = rows[f[m]]
  BY <1>2, <1>3, <1>4, <1>5
<1>9. ASSUME NEW m \in 1 .. c, NEW k \in 1 .. c, m < k PROVE f[m] < f[k]
  <2>1. <<f[m], f[k]>> \in Q /\ f[m] # f[k]
    BY <1>9, <1>e DEF Listing, c
  <2>2. f[m] \in I /\ f[k] \in I
    BY <1>5
  <2> QED BY <1>b, <1>c, <2>1, <2>2
<1>10. ASSUME NEW i \in 1 .. Len(rows), i \notin Outdated(n)
       PROVE  \E m \in 1 .. c : f[m] = i
  BY <1>3, <1>5, <1>10
<1>11. Keeps(f, n)
  BY <1>7, <1>8, <1>9, <1>10 DEF Keeps
<1> QED BY <1>11

\* A row that is not outdated is kept whatever the sweep gets to, and route_events is
\* swept first.
LEMMA NotOutdated ==
    ASSUME HTypeOK, NEW n \in 1 .. Len(SweptTables), NEW i \in 1 .. Len(rows)
    PROVE  /\ ~Old(rows[i]) => i \notin Outdated(n)
           /\ i \notin Outdated(n) /\ rows[i].table = "route_events" => ~Old(rows[i])
<1>1. i \in DOMAIN rows
  BY DEF HTypeOK
<1>2. 1 \in 1 .. n /\ SweptTables[1] = "route_events"
  BY DEF SweptTables
<1> QED
  BY <1>1, <1>2 DEF Outdated

\* A session event appends one row.
LEMMA SessionAppends ==
    ASSUME HTypeOK, NEW e, e \in PeerRows \cup SpeakerRows, e.at = now, Persist(<<e>>), now' = now
    PROVE  Appends(<<e>>) /\ Range(<<e>>) = {e}
<1>1. e \in Rows
  BY DEF Rows
<1>2. <<e>> \in Seq(Rows) /\ Range(<<e>>) = {e}
  BY <1>1 DEF Range
<1>3. now \in Nat
  BY TimeAssumption DEF HTypeOK, TypeOK, Time
<1> QED
  BY <1>2, <1>3 DEF Appends

\* An UPDATE appends rows that carry the time it was read.
LEMMA UpdateAppends ==
    ASSUME HTypeOK,
           NEW s \in Speakers, NEW p \in Peers, NEW asn \in Asns, NEW r \in RibTypes, NEW a \in Attrs,
           NEW W \in SUBSET Prefixes, NEW A \in SUBSET Prefixes, NEW at \in Stamps(s),
           Persist(UpdateRows(s, p, asn, r, W, A, a, at)), now' = now
    PROVE  /\ Appends(UpdateRows(s, p, asn, r, W, A, a, at))
           /\ Range(UpdateRows(s, p, asn, r, W, A, a, at)) =
                 Written(s, p, asn, r, W, Accepted(p, A, a), a, at)
<1> DEFINE new == UpdateRows(s, p, asn, r, W, A, a, at)
<1>1. now \in 0 .. MaxTime /\ MaxTime \in Nat /\ at \in 0 .. now
  BY TimeAssumption, StampsBound DEF HTypeOK, TypeOK, Time
<1>2. at \in Time /\ at <= now
  BY <1>1 DEF Time
<1>3. new \in Seq(Rows) /\ Range(new) = Written(s, p, asn, r, W, Accepted(p, A, a), a, at)
  BY <1>2, UpdateRowsRange
<1>4. \A e \in Range(new) : e.at = at /\ e.table \notin SessionTables
  BY <1>3 DEF Written, WithdrawRow, AnnounceRow, MarkingRow, SessionTables
<1> HIDE DEF new
<1>5. Appends(new)
  BY <1>2, <1>3, <1>4 DEF Appends, new
<1> QED BY <1>3, <1>5 DEF new

\* Every step appends rows, sweeps them or leaves them alone.
LEMMA RowSteps ==
    ASSUME HTypeOK, [HistoryNext]_historyVars
    PROVE  \/ \E new : Appends(new)
           \/ \E n \in 1 .. Len(SweptTables) : Sweep(n)
           \/ UNCHANGED storeVars /\ now' \in Nat /\ now <= now'
<1>0. now \in 0 .. MaxTime /\ now \in Nat
  BY TimeAssumption DEF HTypeOK, TypeOK, Time
<1>1. ASSUME NEW s \in Speakers, Initiation(s), Persist(<<SpeakerRow(s, "speaker_up")>>)
      PROVE  \E new : Appends(new)
  <2>1. SpeakerRow(s, "speaker_up") \in SpeakerRows /\ SpeakerRow(s, "speaker_up").at = now
    BY <1>0 DEF SpeakerRow, SpeakerRows, Time
  <2> QED BY <1>1, <2>1, SessionAppends DEF Initiation
<1>2. ASSUME NEW s \in Speakers, Termination(s), Persist(<<SpeakerRow(s, "speaker_down")>>)
      PROVE  \E new : Appends(new)
  <2>1. SpeakerRow(s, "speaker_down") \in SpeakerRows /\ SpeakerRow(s, "speaker_down").at = now
    BY <1>0 DEF SpeakerRow, SpeakerRows, Time
  <2> QED BY <1>2, <2>1, SessionAppends DEF Termination
<1>3. ASSUME NEW s \in Speakers, NEW p \in Peers, NEW secs \in LlgrSecs,
             PeerUp(s, p, secs), Persist(<<PeerRow(s, p, "peer_up")>>)
      PROVE  \E new : Appends(new)
  <2>1. PeerRow(s, p, "peer_up") \in PeerRows /\ PeerRow(s, p, "peer_up").at = now
    BY <1>0 DEF PeerRow, PeerRows, Time
  <2> QED BY <1>3, <2>1, SessionAppends DEF PeerUp
<1>4. ASSUME NEW s \in Speakers, NEW p \in Peers, NEW at \in Stamps(s),
             PeerDown(s, p, at), Persist(<<PeerRow(s, p, "peer_down")>>)
      PROVE  \E new : Appends(new)
  <2>1. PeerRow(s, p, "peer_down") \in PeerRows /\ PeerRow(s, p, "peer_down").at = now
    BY <1>0 DEF PeerRow, PeerRows, Time
  <2> QED BY <1>4, <2>1, SessionAppends DEF PeerDown
<1>5. ASSUME NEW s \in Speakers, NEW p \in Peers, NEW asn \in Asns, NEW r \in RibTypes, NEW a \in Attrs,
             NEW W \in SUBSET Prefixes, NEW A \in SUBSET Prefixes, NEW at \in Stamps(s),
             RouteMonitoring(s, p, r, W, A, a), Persist(UpdateRows(s, p, asn, r, W, A, a, at))
      PROVE  \E new : Appends(new)
  BY <1>5, UpdateAppends DEF RouteMonitoring
<1>6. ASSUME UNCHANGED vars \/ (\E e \in Engines : SetFilter(e) \/ SetRotoFilter(e))
             \/ ClearFilter \/ NoStateChange
             \/ (\E p \in Peers, secs \in LlgrSecs : ExpireStaleForPeer(p, secs))
      PROVE  now' \in Nat /\ now <= now'
  <2>1. now' = now
    BY <1>6 DEF vars, SetFilter, SetRotoFilter, ClearFilter, NoStateChange, ExpireStaleForPeer
  <2> QED BY <1>0, <2>1
<1>7. ASSUME Tick PROVE now' \in Nat /\ now <= now'
  BY <1>0, <1>7 DEF Tick
<1>8. ASSUME UNCHANGED historyVars PROVE UNCHANGED storeVars /\ UNCHANGED vars
  BY <1>8 DEF historyVars
<1> QED
  BY <1>1, <1>2, <1>3, <1>4, <1>5, <1>6, <1>7, <1>8 DEF HistoryNext


-----------------------------------------------------------------------------
(* Types and stamps *)

\* A row behind an append was there before, or is one of the new ones.
LEMMA AppendedRows ==
    ASSUME HTypeOK, NEW new, Appends(new), recording
    PROVE  /\ rows' \in Seq(Rows) /\ Grows(new)
           /\ \A i \in 1 .. Len(rows') : i > Len(rows) => rows'[i] \in Range(new)
           /\ \A e \in Range(new) : \E i \in 1 .. Len(rows') : i > Len(rows) /\ rows'[i] = e
<1>1. rows' \in Seq(Rows) /\ Grows(new) /\ new \in Seq(Rows)
  BY PersistGrows DEF Appends, HTypeOK
<1>2. Range(new) = {new[i] : i \in 1 .. Len(new)}
  BY <1>1, RangeEquality
<1>3. \A i \in 1 .. Len(rows') : i > Len(rows) => rows'[i] \in Range(new)
  BY <1>1, <1>2 DEF Grows
<1>4. ASSUME NEW e \in Range(new)
      PROVE  \E i \in 1 .. Len(rows') : i > Len(rows) /\ rows'[i] = e
  <2>1. PICK i \in 1 .. Len(new) : new[i] = e
    BY <1>2
  <2>2. Len(rows) + i \in 1 .. Len(rows') /\ rows'[Len(rows) + i] = e
    BY <1>1, <2>1 DEF Grows
  <2>3. Len(rows) + i > Len(rows)
    BY <1>1 DEF HTypeOK
  <2> QED BY <2>2, <2>3
<1> QED BY <1>1, <1>3, <1>4

\* Every step leaves rows of the tables.
LEMMA HTypeStep == HTypeOK /\ [HistoryNext]_historyVars => HTypeOK'
<1> SUFFICES ASSUME HTypeOK, [HistoryNext]_historyVars PROVE HTypeOK'
  OBVIOUS
<1>1. TypeOK'
  BY HistoryStepIsStep, TypeStep DEF HTypeOK
<1>2. ASSUME NEW new, Appends(new) PROVE HTypeOK'
  <2>1. recording' = recording
    BY <1>2 DEF Appends, Persist
  <2>2. CASE recording
    BY <1>1, <1>2, <2>1, <2>2, AppendedRows DEF HTypeOK
  <2>3. CASE ~recording
    BY <1>1, <1>2, <2>1, <2>3, PersistIdle DEF HTypeOK, Appends, storeVars
  <2> QED BY <2>2, <2>3
<1>3. ASSUME NEW n \in 1 .. Len(SweptTables), Sweep(n) PROVE HTypeOK'
  <2>1. rows' \in Seq(Rows)
    BY <1>3, SweepKeeps DEF Keeps
  <2> QED BY <1>1, <1>3, <2>1 DEF HTypeOK, Sweep
<1>4. ASSUME UNCHANGED storeVars PROVE HTypeOK'
  BY <1>1, <1>4 DEF HTypeOK, storeVars
<1> QED
  BY <1>2, <1>3, <1>4, RowSteps

\* Every step leaves the rows in time: a session event is stamped when it is emitted, and a
\* sweep changes no order.
LEMMA InTimeStep ==
    ASSUME HTypeOK, HTypeOK', InTime, [HistoryNext]_historyVars PROVE InTime'
<1>0. /\ now \in Nat /\ DOMAIN rows = 1 .. Len(rows) /\ DOMAIN rows' = 1 .. Len(rows')
      /\ Len(rows) \in Nat /\ Len(rows') \in Nat
  BY TimeAssumption DEF HTypeOK, TypeOK, Time
<1>1. \A i \in 1 .. Len(rows) : rows[i].at \in Nat /\ rows[i].at <= now
  BY <1>0, RowAt, RowFields DEF InTime
<1>2. \A i, j \in 1 .. Len(rows) :
          i < j /\ rows[j].table \in SessionTables => rows[i].at <= rows[j].at
  BY <1>0 DEF InTime
<1>3. ASSUME UNCHANGED storeVars, now' \in Nat, now <= now' PROVE InTime'
  <2>1. rows' = rows
    BY <1>3 DEF storeVars
  <2>2. \A i \in 1 .. Len(rows) : rows[i].at <= now'
    BY <1>0, <1>1, <1>3
  <2> QED BY <1>0, <1>2, <2>1, <2>2 DEF InTime
<1>4. ASSUME NEW new, Appends(new) PROVE InTime'
  <2>0. now' = now
    BY <1>4 DEF Appends
  <2>1. CASE ~recording
    BY <1>0, <1>3, <1>4, <2>0, <2>1, PersistIdle DEF Appends
  <2>2. CASE recording
    <3>1. /\ \A i \in 1 .. Len(rows) : rows'[i] = rows[i]
          /\ \A i \in 1 .. Len(rows') : i > Len(rows) => rows'[i] \in Range(new)
      BY <1>4, <2>2, AppendedRows DEF Grows
    <3>2. \A e \in Range(new) : e.at <= now /\ (e.table \in SessionTables => e.at = now)
      BY <1>4 DEF Appends
    <3>3. \A i \in 1 .. Len(rows') : ~(i > Len(rows)) => i \in 1 .. Len(rows)
      BY <1>0
    <3>4. \A i \in 1 .. Len(rows') : rows'[i].at <= now
      BY <1>1, <3>1, <3>2, <3>3
    <3>5. ASSUME NEW i \in 1 .. Len(rows'), NEW j \in 1 .. Len(rows'), i < j,
                 rows'[j].table \in SessionTables
          PROVE  rows'[i].at <= rows'[j].at
      <4>1. CASE j > Len(rows)
        <5>1. rows'[j].at = now
          BY <3>1, <3>2, <3>5, <4>1
        <5> QED BY <3>4, <5>1
      <4>2. CASE ~(j > Len(rows))
        <5>1. i \in 1 .. Len(rows) /\ j \in 1 .. Len(rows)
          BY <1>0, <3>5, <4>2
        <5> QED BY <1>2, <3>1, <3>5, <5>1
      <4> QED BY <4>1, <4>2
    <3> QED BY <1>0, <2>0, <3>4, <3>5 DEF InTime
  <2> QED BY <2>1, <2>2
<1>5. ASSUME NEW n \in 1 .. Len(SweptTables), Sweep(n) PROVE InTime'
  <2>1. now' = now
    BY <1>5 DEF Sweep, vars
  <2>2. PICK f : Keeps(f, n)
    BY <1>5, SweepKeeps
  <2>3. \A m \in 1 .. Len(rows') : f[m] \in 1 .. Len(rows) /\ rows'[m] = rows[f[m]]
    BY <2>2 DEF Keeps
  <2>4. \A m, k \in 1 .. Len(rows') : m < k => f[m] < f[k]
    BY <2>2 DEF Keeps
  <2>5. \A m \in 1 .. Len(rows') : rows'[m].at <= now
    BY <1>1, <2>3
  <2>6. \A m, k \in 1 .. Len(rows') :
           m < k /\ rows'[k].table \in SessionTables => rows'[m].at <= rows'[k].at
    BY <1>2, <2>3, <2>4
  <2> QED BY <1>0, <2>1, <2>5, <2>6 DEF InTime
<1> QED
  BY <1>3, <1>4, <1>5, RowSteps


-----------------------------------------------------------------------------
(* The history explains the RIB *)

OfRoute(e, p, k) == e.table = "route_events" /\ e.peer = p /\ e.rib = k[1] /\ e.prefix = k[2]

\* The rows of a route, by position.
LEMMA RowsOfRoute ==
    HTypeOK => /\ DOMAIN rows = 1 .. Len(rows) /\ Len(rows) \in Nat
               /\ \A p, k : RowsOf(p, k) = {i \in 1 .. Len(rows) : OfRoute(rows[i], p, k)}
BY DEF HTypeOK, RowsOf, RouteEvents, Table, OfRoute

\* No row of the route is written, and none is lost.
SameRows(p, k) ==
    /\ Len(rows) <= Len(rows')
    /\ \A i \in 1 .. Len(rows) : rows'[i] = rows[i]
    /\ \A i \in 1 .. Len(rows') : i > Len(rows) => ~OfRoute(rows'[i], p, k)

EndWritten(p) == \E j \in 1 .. Len(rows') : j > Len(rows) /\ EndsSession(rows'[j], p)

\* The route stays as it is, but it may turn stale or leave with the end of a session,
\* and a stale route may leave.
RibFollows(p, k) ==
    /\ Has(p, k)' => /\ Has(p, k) /\ ribs'[p][k].attr = ribs[p][k].attr
                     /\ ribs'[p][k].stale # Fresh => ribs[p][k].stale # Fresh \/ EndWritten(p)
    /\ ~Has(p, k)' => \/ ~Has(p, k) \/ EndWritten(p)
                      \/ ribs[p][k].stale # Fresh

\* Such a step keeps the explanation.
LEMMA FollowStep ==
    ASSUME HTypeOK, HTypeOK', NEW p, NEW k, SameRows(p, k), RibFollows(p, k),
           recording' = recording, swept' = swept,
           Tracked(p, k) => Explained(p, k), Tracked(p, k)'
    PROVE  Explained(p, k)'
<1>0. /\ DOMAIN rows = 1 .. Len(rows) /\ Len(rows) \in Nat
      /\ RowsOf(p, k) = {i \in 1 .. Len(rows) : OfRoute(rows[i], p, k)}
  BY RowsOfRoute
<1>1. /\ DOMAIN rows' = 1 .. Len(rows') /\ Len(rows') \in Nat
      /\ RowsOf(p, k)' = {i \in 1 .. Len(rows') : OfRoute(rows'[i], p, k)}
  BY DEF HTypeOK, RowsOf, RouteEvents, Table, OfRoute
<1>2. \A i \in 1 .. Len(rows) : i \in 1 .. Len(rows') /\ rows'[i] = rows[i]
  BY <1>0, <1>1 DEF SameRows
<1>3. RowsOf(p, k)' = RowsOf(p, k)
  <2>1. \A i \in RowsOf(p, k) : i \in RowsOf(p, k)'
    BY <1>0, <1>1, <1>2
  <2>2. ASSUME NEW i \in RowsOf(p, k)' PROVE i \in RowsOf(p, k)
    <3>1. i \in 1 .. Len(rows') /\ OfRoute(rows'[i], p, k)
      BY <1>1
    <3>2. i \in 1 .. Len(rows)
      BY <1>0, <1>1, <3>1 DEF SameRows
    <3> QED BY <1>0, <1>2, <3>1, <3>2
  <2> QED BY <2>1, <2>2
<1>4. \A i \in RowsOf(p, k) : rows'[i] = rows[i]
  BY <1>0, <1>2
<1>5. Orderly(p, k)
  BY <1>3, <1>4 DEF Tracked, Orderly
<1>6. Explained(p, k)
  BY <1>5 DEF Tracked
<1>7. \A i : IsLast(p, k, i)' <=> IsLast(p, k, i)
  BY <1>3 DEF IsLast
<1>8. \A i \in 1 .. Len(rows) : EndedAfter(p, i) => EndedAfter(p, i)'
  BY <1>0, <1>1, <1>2 DEF EndedAfter, EndsSession
<1>9. ASSUME NEW i \in 1 .. Len(rows), EndWritten(p) PROVE EndedAfter(p, i)'
  <2>1. PICK j \in 1 .. Len(rows') : j > Len(rows) /\ EndsSession(rows'[j], p)
    BY <1>9 DEF EndWritten
  <2>2. j > i /\ j \in DOMAIN rows'
    BY <1>0, <1>1, <2>1
  <2> QED BY <2>1, <2>2 DEF EndedAfter, EndsSession
<1>10. ASSUME Has(p, k)'
       PROVE  \E i \in DOMAIN rows' :
                 /\ IsLast(p, k, i)'
                 /\ rows'[i].action = "announce" /\ rows'[i].attr = ribs'[p][k].attr
                 /\ ribs'[p][k].stale # Fresh => EndedAfter(p, i)'
  <2>1. /\ Has(p, k) /\ ribs'[p][k].attr = ribs[p][k].attr
        /\ ribs'[p][k].stale # Fresh => ribs[p][k].stale # Fresh \/ EndWritten(p)
    BY <1>10 DEF RibFollows
  <2>2. PICK i \in DOMAIN rows :
           /\ IsLast(p, k, i)
           /\ rows[i].action = "announce" /\ rows[i].attr = ribs[p][k].attr
           /\ ribs[p][k].stale # Fresh => EndedAfter(p, i)
    BY <1>6, <2>1 DEF Explained
  <2>3. i \in 1 .. Len(rows) /\ i \in DOMAIN rows' /\ rows'[i] = rows[i] /\ IsLast(p, k, i)'
    BY <1>0, <1>1, <1>2, <1>7, <2>2
  <2>4. ribs'[p][k].stale # Fresh => EndedAfter(p, i)'
    BY <1>8, <1>9, <2>1, <2>2, <2>3
  <2> QED BY <2>1, <2>2, <2>3, <2>4
<1>11. ASSUME ~Has(p, k)', NEW i \in DOMAIN rows', IsLast(p, k, i)'
       PROVE  rows'[i].action = "withdraw" \/ EndedAfter(p, i)'
  <2>1. IsLast(p, k, i) /\ i \in 1 .. Len(rows) /\ rows'[i] = rows[i]
    BY <1>0, <1>2, <1>7, <1>11 DEF IsLast
  <2>2. CASE EndWritten(p)
    BY <1>9, <2>1, <2>2
  <2>3. CASE ~Has(p, k)
    BY <1>0, <1>6, <1>8, <2>1, <2>3 DEF Explained
  <2>4. CASE Has(p, k) /\ ribs[p][k].stale # Fresh
    <3>1. PICK n \in DOMAIN rows : IsLast(p, k, n) /\ EndedAfter(p, n)
      BY <1>6, <2>4 DEF Explained
    <3>2. n = i
      BY <1>0, <2>1, <3>1 DEF IsLast
    <3> QED BY <1>8, <2>1, <3>1, <3>2
  <2> QED BY <1>11, <2>2, <2>3, <2>4 DEF RibFollows
<1> QED
  BY <1>10, <1>11 DEF Explained


\* Appended rows of other routes
LEMMA OtherRows ==
    ASSUME HTypeOK, NEW new, Appends(new), recording, NEW p, NEW k,
           \A e \in Range(new) : ~OfRoute(e, p, k)
    PROVE  SameRows(p, k)
<1>1. /\ Grows(new)
      /\ \A i \in 1 .. Len(rows') : i > Len(rows) => rows'[i] \in Range(new)
  BY AppendedRows
<1>2. Len(rows) \in Nat /\ Len(new) \in Nat
  BY DEF HTypeOK, Appends
<1>3. Len(rows) <= Len(rows')
  BY <1>1, <1>2 DEF Grows
<1> QED BY <1>1, <1>3 DEF SameRows, Grows

\* A session event is of no route, and the end of a session is written with it.
LEMMA SessionRow ==
    ASSUME HTypeOK, NEW e, e \in PeerRows \cup SpeakerRows, e.at = now, Persist(<<e>>), now' = now,
           recording, NEW p, NEW k
    PROVE  SameRows(p, k) /\ (EndsSession(e, p) => EndWritten(p))
<1>1. Appends(<<e>>) /\ Range(<<e>>) = {e}
  BY SessionAppends
<1>2. e.table # "route_events"
  BY DEF PeerRows, SpeakerRows
<1>3. SameRows(p, k)
  BY <1>1, <1>2, OtherRows DEF OfRoute
<1>4. \E i \in 1 .. Len(rows') : i > Len(rows) /\ rows'[i] = e
  BY <1>1, AppendedRows
<1> QED BY <1>3, <1>4 DEF EndWritten

\* A step that leaves the RIB alone needs no row.
LEMMA RibUnchanged ==
    ASSUME ribs' = ribs, NEW p, NEW k PROVE RibFollows(p, k)
BY DEF RibFollows, Has

\* Routes that leave with a Termination leave behind its speaker_down row.
LEMMA TerminationFollows ==
    ASSUME TypeOK, NEW s, Termination(s), NEW p \in Peers, NEW k \in Keys, EndWritten(p)
    PROVE  RibFollows(p, k)
<1>1. ribs'[p] = IF Knows(s, p) THEN NoRib ELSE ribs[p]
  BY DEF Termination
<1> QED BY <1>1 DEF RibFollows, Has

\* Routes that a Peer Down marks or drops stand before its peer_down row.
LEMMA PeerDownFollows ==
    ASSUME TypeOK, NEW s \in Speakers, NEW q \in Peers, NEW at \in Time, PeerDown(s, q, at),
           NEW p \in Peers, NEW k \in Keys, EndWritten(q)
    PROVE  RibFollows(p, k)
<1>1. ribs' = [ribs EXCEPT ![q] =
                  IF ~LlgrActive(s, q) THEN EmptyRib
                  ELSE IF ribs[q] = NoRib THEN NoRib ELSE MarkStaleAll(ribs[q], at)]
  BY DEF PeerDown
<1>2. CASE p # q
  <2>1. ribs'[p] = ribs[p]
    BY <1>1, <1>2 DEF TypeOK
  <2> QED BY <2>1 DEF RibFollows, Has
<1>3. CASE p = q
  <2>1. ribs'[p] = IF ~LlgrActive(s, q) THEN EmptyRib
                   ELSE IF ribs[p] = NoRib THEN NoRib ELSE MarkStaleAll(ribs[p], at)
    BY <1>1, <1>3 DEF TypeOK
  <2>2. ASSUME Has(p, k)'
        PROVE  Has(p, k) /\ ribs'[p][k].attr = ribs[p][k].attr
    <3>1. ribs'[p] # NoRib /\ ribs'[p][k] # NoRoute
      BY <2>2 DEF Has
    <3>2. ribs[p] # NoRib /\ ribs'[p] = MarkStaleAll(ribs[p], at)
      BY <2>1, <3>1 DEF EmptyRib
    <3>3. ribs'[p][k] = IF ribs[p][k] = NoRoute THEN NoRoute ELSE MarkStale(ribs[p][k], at)
      BY <3>2 DEF MarkStaleAll
    <3>4. ribs[p][k] # NoRoute /\ ribs'[p][k] = MarkStale(ribs[p][k], at)
      BY <3>1, <3>3
    <3>5. ribs[p][k] \in RibEntry
      BY <3>2, <3>4 DEF TypeOK
    <3> QED BY <3>2, <3>4, <3>5 DEF Has, MarkStale, RibEntry
  <2> QED BY <1>3, <2>2 DEF RibFollows
<1> QED BY <1>2, <1>3

\* Expiry takes stale routes only, and the end of the session that made them stale is written.
LEMMA ExpiryFollows ==
    ASSUME TypeOK, NEW q \in Peers, NEW secs, ExpireStaleForPeer(q, secs),
           NEW p \in Peers, NEW k \in Keys
    PROVE  RibFollows(p, k)
<1>1. CASE p # q
  <2>1. ribs'[p] = ribs[p]
    BY <1>1 DEF TypeOK, ExpireStaleForPeer
  <2> QED BY <2>1 DEF RibFollows, Has
<1>2. CASE p = q
  <2>1. /\ ribs[p] # NoRib
        /\ ribs'[p] = [j \in Keys |-> IF ribs[p][j] # NoRoute /\ Expired(ribs[p][j], now, secs)
                                      THEN NoRoute ELSE ribs[p][j]]
    BY <1>2 DEF TypeOK, ExpireStaleForPeer
  <2>2. /\ ribs'[p] # NoRib
        /\ ribs'[p][k] = IF ribs[p][k] # NoRoute /\ Expired(ribs[p][k], now, secs)
                         THEN NoRoute ELSE ribs[p][k]
    <3>1. ribs'[p] \in [Keys -> RibEntry \cup {NoRoute}]
      BY <2>1 DEF TypeOK
    <3> QED BY <2>1, <3>1, AbsentAssumption
  <2> QED BY <2>1, <2>2 DEF RibFollows, Has, Expired
<1> QED BY <1>1, <1>2


\* What an UPDATE that withdraws W and announces N makes of a route
RouteUpdated(s, q, r, W, N, a, p, k) ==
    /\ p # q => ribs'[p] = ribs[p]
    /\ p = q =>
         /\ ribs'[p] # NoRib
         /\ k[1] = r /\ k[2] \in N => ribs'[p][k] = [attr |-> a, stale |-> Fresh, from |-> s]
         /\ k[1] = r /\ k[2] \in W \ N => ribs'[p][k] = NoRoute
         /\ ~(k[1] = r /\ k[2] \in W \cup N) => ribs'[p][k] = Rib(q)[k]

\* What an UPDATE leaves of a route it names.
LEMMA UpdatedRib ==
    ASSUME TypeOK, NEW s \in Speakers, NEW q \in Peers, NEW r, NEW W, NEW A, NEW a \in Attrs,
           RouteMonitoring(s, q, r, W, A, a), NEW p \in Peers, NEW k \in Keys
    PROVE  RouteUpdated(s, q, r, W, Accepted(q, A, a), a, p, k)
<1> DEFINE t == Updated(Rib(q), r, Accepted(q, A, a), W,
                        [attr |-> a, stale |-> Fresh, from |-> s], NoRoute)
<1>1. ribs' = [ribs EXCEPT ![q] = t]
  BY DEF RouteMonitoring
<1>2. p # q => ribs'[p] = ribs[p]
  BY <1>1 DEF TypeOK
<1>3. p = q => ribs'[p] = t
  BY <1>1 DEF TypeOK
<1>4. t \in [Keys -> RibEntry \cup {NoRoute}]
  <2>1. [attr |-> a, stale |-> Fresh, from |-> s] \in RibEntry
    BY DEF RibEntry, StaleMarks
  <2> QED BY <2>1, RibTypeLemma DEF Updated
<1>5. t # NoRib
  BY <1>4, AbsentAssumption
<1>6. t[k] = CASE k[1] = r /\ k[2] \in Accepted(q, A, a)     -> [attr |-> a, stale |-> Fresh, from |-> s]
               [] k[1] = r /\ k[2] \in W \ Accepted(q, A, a) -> NoRoute
               [] OTHER                                      -> Rib(q)[k]
  BY DEF Updated
<1> HIDE DEF t
<1> QED
  BY <1>2, <1>3, <1>5, <1>6 DEF RouteUpdated

\* A route the UPDATE does not mention stays.
LEMMA UpdateFollows ==
    ASSUME TypeOK, NEW s \in Speakers, NEW q \in Peers, NEW r, NEW W, NEW A, NEW a \in Attrs,
           RouteMonitoring(s, q, r, W, A, a), NEW p \in Peers, NEW k \in Keys,
           ~(p = q /\ k[1] = r /\ k[2] \in W \cup Accepted(q, A, a))
    PROVE  RibFollows(p, k)
<1>0. RouteUpdated(s, q, r, W, Accepted(q, A, a), a, p, k)
  BY UpdatedRib
<1>1. CASE p # q
  <2>1. ribs'[p] = ribs[p]
    BY <1>0, <1>1 DEF RouteUpdated
  <2> QED BY <2>1 DEF RibFollows, Has
<1>2. CASE p = q
  <2>1. ribs'[p] # NoRib /\ ribs'[p][k] = Rib(p)[k]
    BY <1>0, <1>2 DEF RouteUpdated
  <2> QED BY <2>1 DEF RibFollows, Has, Rib, EmptyRib
<1> QED BY <1>1, <1>2

\* All rows of an UPDATE carry one stamp: while the stamps of a route grow, the row the
\* UPDATE writes for it is the only one, and the last.
LEMMA UpdateExplained ==
    ASSUME HTypeOK, HTypeOK', NEW s \in Speakers, NEW p \in Peers, NEW asn \in Asns, NEW r \in RibTypes,
           NEW a \in Attrs, NEW W \in SUBSET Prefixes, NEW A \in SUBSET Prefixes,
           NEW at, NEW new, Appends(new), recording,
           Range(new) = Written(s, p, asn, r, W, Accepted(p, A, a), a, at),
           RouteMonitoring(s, p, r, W, A, a),
           NEW k \in Keys, k[1] = r, k[2] \in W \cup Accepted(p, A, a),
           Orderly(p, k)'
    PROVE  Explained(p, k)'
<1> DEFINE N == Accepted(p, A, a)
<1>0. Len(rows) \in Nat /\ now \in Nat
  BY TimeAssumption DEF HTypeOK, TypeOK, Time
<1>1. /\ DOMAIN rows' = 1 .. Len(rows') /\ Len(rows') \in Nat
      /\ RowsOf(p, k)' = {i \in 1 .. Len(rows') : OfRoute(rows'[i], p, k)}
  BY DEF HTypeOK, RowsOf, RouteEvents, Table, OfRoute
<1>2. /\ \A i \in 1 .. Len(rows') : i > Len(rows) => rows'[i] \in Range(new)
      /\ \A e \in Range(new) : \E i \in 1 .. Len(rows') : i > Len(rows) /\ rows'[i] = e
  BY AppendedRows
<1>3. \A e \in Range(new) : e.at = at
  BY DEF Written, WithdrawRow, AnnounceRow, MarkingRow
<1>a. \A i \in 1 .. Len(rows') : rows'[i].at \in Nat
  <2>1. \A i \in 1 .. Len(rows') : rows'[i] \in Rows
    BY DEF HTypeOK
  <2> QED BY <2>1, RowFields
<1>4. ASSUME NEW i \in RowsOf(p, k)', i > Len(rows) PROVE IsLast(p, k, i)'
  <2>1. SUFFICES ASSUME NEW j \in RowsOf(p, k)', ~(j <= i) PROVE FALSE
    BY DEF IsLast
  <2>2. i \in 1 .. Len(rows') /\ j \in 1 .. Len(rows') /\ i < j /\ j > Len(rows)
    BY <1>0, <1>1, <1>4, <2>1
  <2>3. rows'[i].at = at /\ rows'[j].at = at
    BY <1>2, <1>3, <1>4, <2>2
  <2>4. rows'[i].at < rows'[j].at
    BY <2>2 DEF Orderly
  <2> QED BY <1>a, <2>2, <2>3, <2>4
<1>b. RouteUpdated(s, p, r, W, N, a, p, k)
  BY UpdatedRib DEF HTypeOK
<1>5. CASE k[2] \in N
  <2>1. AnnounceRow(s, p, asn, r, k[2], a, at) \in Range(new)
    BY <1>5 DEF Written
  <2>2. PICK i \in 1 .. Len(rows') : i > Len(rows) /\ rows'[i] = AnnounceRow(s, p, asn, r, k[2], a, at)
    BY <1>2, <2>1
  <2>3. OfRoute(rows'[i], p, k) /\ rows'[i].action = "announce" /\ rows'[i].attr = a
    BY <2>2 DEF OfRoute, AnnounceRow
  <2>4. IsLast(p, k, i)'
    BY <1>1, <1>4, <2>2, <2>3
  <2>5. ribs'[p] # NoRib /\ ribs'[p][k] = [attr |-> a, stale |-> Fresh, from |-> s]
    BY <1>5, <1>b DEF RouteUpdated
  <2>6. [attr |-> a, stale |-> Fresh, from |-> s] # NoRoute
    BY AbsentAssumption DEF RibEntry, StaleMarks
  <2>7. Has(p, k)' /\ ribs'[p][k].attr = a /\ ribs'[p][k].stale = Fresh
    BY <2>5, <2>6 DEF Has
  <2> QED BY <1>1, <2>3, <2>4, <2>7 DEF Explained
<1>6. CASE k[2] \in W \ N
  <2>1. WithdrawRow(s, p, asn, r, k[2], at) \in Range(new)
    BY <1>6 DEF Written
  <2>2. PICK i \in 1 .. Len(rows') : i > Len(rows) /\ rows'[i] = WithdrawRow(s, p, asn, r, k[2], at)
    BY <1>2, <2>1
  <2>3. OfRoute(rows'[i], p, k) /\ rows'[i].action = "withdraw"
    BY <2>2 DEF OfRoute, WithdrawRow
  <2>4. IsLast(p, k, i)'
    BY <1>1, <1>4, <2>2, <2>3
  <2>5. ribs'[p][k] = NoRoute
    BY <1>6, <1>b DEF RouteUpdated
  <2>6. ~Has(p, k)'
    BY <2>5 DEF Has
  <2>7. \A j : IsLast(p, k, j)' => j = i
    <3>1. \A j : IsLast(p, k, j)' => j \in 1 .. Len(rows') /\ j <= i /\ i <= j
      BY <1>1, <2>4 DEF IsLast
    <3> QED BY <1>1, <3>1
  <2> QED BY <2>3, <2>6, <2>7 DEF Explained
<1> QED BY <1>5, <1>6


\* A sweep keeps every row of a route it takes no row of, and the end of a session behind
\* them, which is not older.
LEMMA SweepExplained ==
    ASSUME HTypeOK, HTypeOK', InTime, NEW n \in 1 .. Len(SweptTables), Sweep(n),
           NEW p \in Peers, NEW k \in Keys,
           Tracked(p, k) => Explained(p, k), Tracked(p, k)'
    PROVE  Explained(p, k)'
<1>0. /\ DOMAIN rows = 1 .. Len(rows) /\ Len(rows) \in Nat
      /\ RowsOf(p, k) = {i \in 1 .. Len(rows) : OfRoute(rows[i], p, k)}
  BY RowsOfRoute
<1>1. /\ DOMAIN rows' = 1 .. Len(rows') /\ Len(rows') \in Nat
      /\ RowsOf(p, k)' = {i \in 1 .. Len(rows') : OfRoute(rows'[i], p, k)}
  BY DEF HTypeOK, RowsOf, RouteEvents, Table, OfRoute
<1>2. /\ UNCHANGED <<vars, recording>>
      /\ swept' = swept \cup {<<rows[i].peer, <<rows[i].rib, rows[i].prefix>>>> :
                                 i \in Outdated(n) \cap RouteEvents(rows)}
  BY DEF Sweep
<1>3. \A i \in RowsOf(p, k) : i \notin Outdated(n) /\ ~Old(rows[i])
  <2>1. k = <<k[1], k[2]>>
    BY DEF Keys
  <2>2. ASSUME NEW i \in RowsOf(p, k) PROVE i \notin Outdated(n) /\ ~Old(rows[i])
    <3>1. /\ i \in RouteEvents(rows) /\ rows[i].peer = p /\ rows[i].rib = k[1]
          /\ rows[i].prefix = k[2]
      BY DEF RowsOf
    <3>2. <<rows[i].peer, <<rows[i].rib, rows[i].prefix>>>> = <<p, k>>
      BY <2>1, <3>1
    <3>3. i \notin Outdated(n)
      BY <1>2, <3>1, <3>2 DEF Tracked
    <3>4. i \in 1 .. Len(rows) /\ rows[i].table = "route_events"
      BY <1>0 DEF OfRoute
    <3> QED BY <3>3, <3>4, NotOutdated
  <2> QED BY <2>2
<1>4. PICK f : Keeps(f, n)
  BY SweepKeeps
<1>5. /\ \A m \in 1 .. Len(rows') : f[m] \in 1 .. Len(rows) /\ rows'[m] = rows[f[m]]
      /\ \A m, l \in 1 .. Len(rows') : m < l => f[m] < f[l]
      /\ \A i \in 1 .. Len(rows) : i \notin Outdated(n) => \E m \in 1 .. Len(rows') : f[m] = i
  BY <1>4 DEF Keeps
<1>6. \A m, l \in 1 .. Len(rows') : (f[m] < f[l] => m < l) /\ (f[m] <= f[l] => m <= l)
  <2>1. SUFFICES ASSUME NEW m \in 1 .. Len(rows'), NEW l \in 1 .. Len(rows')
                 PROVE  (f[m] < f[l] => m < l) /\ (f[m] <= f[l] => m <= l)
    OBVIOUS
  <2>2. m \in Int /\ l \in Int /\ f[m] \in Int /\ f[l] \in Int
    BY <1>0, <1>1, <1>5
  <2>3. (l < m => f[l] < f[m]) /\ (m = l => f[m] = f[l])
    BY <1>5
  <2> QED BY <2>2, <2>3
<1>7. \A m \in 1 .. Len(rows') : m \in RowsOf(p, k)' <=> f[m] \in RowsOf(p, k)
  BY <1>0, <1>1, <1>5
<1>8. \A i \in RowsOf(p, k) : \E m \in 1 .. Len(rows') : f[m] = i
  BY <1>0, <1>3, <1>5
<1>9. Orderly(p, k)
  <2>1. SUFFICES ASSUME NEW i \in RowsOf(p, k), NEW j \in RowsOf(p, k), i < j
                 PROVE  rows[i].at < rows[j].at
    BY DEF Orderly
  <2>2. PICK m \in 1 .. Len(rows') : f[m] = i
    BY <1>8
  <2>3. PICK l \in 1 .. Len(rows') : f[l] = j
    BY <1>8
  <2>4. m \in RowsOf(p, k)' /\ l \in RowsOf(p, k)' /\ m < l
    BY <1>6, <1>7, <2>1, <2>2, <2>3
  <2>5. rows'[m].at < rows'[l].at
    BY <2>4 DEF Tracked, Orderly
  <2> QED BY <1>5, <2>2, <2>3, <2>5
<1>10. Explained(p, k)
  BY <1>2, <1>9 DEF Tracked
<1>11. \A m \in 1 .. Len(rows') : IsLast(p, k, m)' <=> IsLast(p, k, f[m])
  <2>1. SUFFICES ASSUME NEW m \in 1 .. Len(rows') PROVE IsLast(p, k, m)' <=> IsLast(p, k, f[m])
    OBVIOUS
  <2>2. ASSUME IsLast(p, k, m)' PROVE IsLast(p, k, f[m])
    <3>1. f[m] \in RowsOf(p, k)
      BY <1>7, <2>2 DEF IsLast
    <3>2. ASSUME NEW j \in RowsOf(p, k) PROVE j <= f[m]
      <4>1. PICK l \in 1 .. Len(rows') : f[l] = j
        BY <1>8
      <4>2. l <= m
        BY <1>7, <2>2, <4>1 DEF IsLast
      <4>3. l \in Int /\ m \in Int /\ f[m] \in Int /\ f[l] \in Int
        BY <1>0, <1>1, <1>5
      <4>4. l < m => f[l] < f[m]
        BY <1>5
      <4> QED BY <4>1, <4>2, <4>3, <4>4
    <3> QED BY <3>1, <3>2 DEF IsLast
  <2>3. ASSUME IsLast(p, k, f[m]) PROVE IsLast(p, k, m)'
    <3>1. m \in RowsOf(p, k)'
      BY <1>7, <2>3 DEF IsLast
    <3>2. ASSUME NEW l \in RowsOf(p, k)' PROVE l <= m
      <4>1. l \in 1 .. Len(rows') /\ f[l] \in RowsOf(p, k)
        BY <1>1, <1>7
      <4>2. f[l] <= f[m]
        BY <2>3, <4>1 DEF IsLast
      <4> QED BY <1>6, <4>1, <4>2
    <3> QED BY <3>1, <3>2 DEF IsLast
  <2> QED BY <2>2, <2>3
<1>12. ASSUME NEW m \in 1 .. Len(rows'), f[m] \in RowsOf(p, k), EndedAfter(p, f[m])
       PROVE  EndedAfter(p, m)'
  <2>1. PICK j \in 1 .. Len(rows) : j > f[m] /\ EndsSession(rows[j], p)
    BY <1>0, <1>12 DEF EndedAfter
  <2>2. rows[j].table \in SessionTables
    BY <2>1 DEF EndsSession, SessionTables
  <2>3. f[m] \in 1 .. Len(rows) /\ rows[f[m]] \in Rows /\ rows[j] \in Rows
    BY <1>0, <1>5, RowAt
  <2>4. f[m] < j
    BY <1>0, <2>1, <2>3
  <2>5. rows[f[m]].at <= rows[j].at
    BY <1>0, <2>2, <2>3, <2>4 DEF InTime
  <2>6. /\ rows[f[m]].at \in Int /\ rows[j].at \in Int /\ now \in Int /\ Retain \in Int
    <3>1. now \in Int
      BY TimeAssumption DEF HTypeOK, TypeOK, Time
    <3> QED BY <2>3, <3>1, RowFields, RetainAssumption
  <2>7. ~Old(rows[j])
    <3>1. ~(rows[f[m]].at < now - Retain)
      BY <1>3, <1>12 DEF Old
    <3> QED BY <2>5, <2>6, <3>1 DEF Old
  <2>8. PICK l \in 1 .. Len(rows') : f[l] = j
    BY <1>5, <2>7, NotOutdated
  <2>9. m < l
    BY <1>6, <2>4, <2>8
  <2>10. l > m /\ l \in DOMAIN rows' /\ rows'[l] = rows[j]
    BY <1>1, <1>5, <2>8, <2>9
  <2> QED BY <2>1, <2>10 DEF EndedAfter, EndsSession
<1>13. ribs' = ribs /\ (Has(p, k)' <=> Has(p, k))
  BY <1>2 DEF Has, vars
<1>14. ASSUME Has(p, k)
       PROVE  \E m \in DOMAIN rows' :
                 /\ IsLast(p, k, m)'
                 /\ rows'[m].action = "announce" /\ rows'[m].attr = ribs'[p][k].attr
                 /\ ribs'[p][k].stale # Fresh => EndedAfter(p, m)'
  <2>1. PICK i \in DOMAIN rows :
           /\ IsLast(p, k, i)
           /\ rows[i].action = "announce" /\ rows[i].attr = ribs[p][k].attr
           /\ ribs[p][k].stale # Fresh => EndedAfter(p, i)
    BY <1>10, <1>14 DEF Explained
  <2>2. i \in RowsOf(p, k)
    BY <2>1 DEF IsLast
  <2>3. PICK m \in 1 .. Len(rows') : f[m] = i
    BY <1>8, <2>2
  <2> QED BY <1>1, <1>5, <1>11, <1>12, <1>13, <2>1, <2>2, <2>3
<1>15. ASSUME ~Has(p, k), NEW m \in DOMAIN rows', IsLast(p, k, m)'
       PROVE  rows'[m].action = "withdraw" \/ EndedAfter(p, m)'
  <2>1. m \in 1 .. Len(rows') /\ IsLast(p, k, f[m]) /\ f[m] \in DOMAIN rows
    BY <1>0, <1>1, <1>5, <1>11, <1>15
  <2>2. rows[f[m]].action = "withdraw" \/ EndedAfter(p, f[m])
    BY <1>10, <1>15, <2>1 DEF Explained
  <2>3. f[m] \in RowsOf(p, k)
    BY <2>1 DEF IsLast
  <2> QED BY <1>5, <1>12, <2>1, <2>2, <2>3
<1> QED
  BY <1>13, <1>14, <1>15 DEF Explained


\* Every step keeps the rows an explanation of the RIB.
LEMMA RowsExplainStep ==
    ASSUME HTypeOK, HTypeOK', InTime, RowsExplainRib, [HistoryNext]_historyVars
    PROVE  RowsExplainRib'
<1>1. SUFFICES ASSUME NEW p \in Peers, NEW k \in Keys, Tracked(p, k)' PROVE Explained(p, k)'
  BY DEF RowsExplainRib
<1>2. Tracked(p, k) => Explained(p, k)
  BY DEF RowsExplainRib
<1>0. now \in 0 .. MaxTime /\ now \in Nat /\ TypeOK /\ MaxTime \in Nat
  BY TimeAssumption DEF HTypeOK, TypeOK, Time
<1>3. ASSUME NEW new, Persist(new) PROVE recording /\ recording' = recording /\ swept' = swept
  BY <1>1, <1>3 DEF Persist, Tracked
<1>4. ASSUME NEW s \in Speakers, Initiation(s), Persist(<<SpeakerRow(s, "speaker_up")>>)
      PROVE  Explained(p, k)'
  <2>1. SpeakerRow(s, "speaker_up") \in SpeakerRows /\ SpeakerRow(s, "speaker_up").at = now
    BY <1>0 DEF SpeakerRow, SpeakerRows, Time
  <2>2. SameRows(p, k)
    BY <1>3, <1>4, <2>1, SessionRow DEF Initiation
  <2>3. RibFollows(p, k)
    BY <1>4, RibUnchanged DEF Initiation
  <2> QED BY <1>1, <1>2, <1>3, <1>4, <2>2, <2>3, FollowStep
<1>5. ASSUME NEW s \in Speakers, Termination(s), Persist(<<SpeakerRow(s, "speaker_down")>>)
      PROVE  Explained(p, k)'
  <2>1. /\ SpeakerRow(s, "speaker_down") \in SpeakerRows
        /\ SpeakerRow(s, "speaker_down").at = now /\ EndsSession(SpeakerRow(s, "speaker_down"), p)
    BY <1>0 DEF SpeakerRow, SpeakerRows, Time, EndsSession
  <2>2. SameRows(p, k) /\ EndWritten(p)
    BY <1>3, <1>5, <2>1, SessionRow DEF Termination
  <2>3. RibFollows(p, k)
    BY <1>0, <1>5, <2>2, TerminationFollows
  <2> QED BY <1>1, <1>2, <1>3, <1>5, <2>2, <2>3, FollowStep
<1>6. ASSUME NEW s \in Speakers, NEW q \in Peers, NEW secs \in LlgrSecs,
             PeerUp(s, q, secs), Persist(<<PeerRow(s, q, "peer_up")>>)
      PROVE  Explained(p, k)'
  <2>1. PeerRow(s, q, "peer_up") \in PeerRows /\ PeerRow(s, q, "peer_up").at = now
    BY <1>0 DEF PeerRow, PeerRows, Time
  <2>2. SameRows(p, k)
    BY <1>3, <1>6, <2>1, SessionRow DEF PeerUp
  <2>3. RibFollows(p, k)
    BY <1>6, RibUnchanged DEF PeerUp
  <2> QED BY <1>1, <1>2, <1>3, <1>6, <2>2, <2>3, FollowStep
<1>7. ASSUME NEW s \in Speakers, NEW q \in Peers, NEW at \in Stamps(s),
             PeerDown(s, q, at), Persist(<<PeerRow(s, q, "peer_down")>>)
      PROVE  Explained(p, k)'
  <2>1. /\ PeerRow(s, q, "peer_down") \in PeerRows /\ PeerRow(s, q, "peer_down").at = now
        /\ EndsSession(PeerRow(s, q, "peer_down"), q)
    BY <1>0 DEF PeerRow, PeerRows, Time, EndsSession
  <2>2. SameRows(p, k) /\ EndWritten(q)
    <3>1. SameRows(p, k)
      BY <1>3, <1>7, <2>1, SessionRow DEF PeerDown
    <3>2. EndWritten(q)
      BY <1>3, <1>7, <2>1, SessionRow DEF PeerDown
    <3> QED BY <3>1, <3>2
  <2>3. at \in Time
    BY <1>0, StampsBound DEF Time
  <2>4. RibFollows(p, k)
    BY <1>0, <1>7, <2>2, <2>3, PeerDownFollows
  <2> QED BY <1>1, <1>2, <1>3, <1>7, <2>2, <2>4, FollowStep
<1>8. ASSUME NEW s \in Speakers, NEW q \in Peers, NEW asn \in Asns, NEW r \in RibTypes, NEW a \in Attrs,
             NEW W \in SUBSET Prefixes, NEW A \in SUBSET Prefixes, NEW at \in Stamps(s),
             RouteMonitoring(s, q, r, W, A, a), Persist(UpdateRows(s, q, asn, r, W, A, a, at))
      PROVE  Explained(p, k)'
  <2> DEFINE new == UpdateRows(s, q, asn, r, W, A, a, at)
  <2>1. Appends(new) /\ Range(new) = Written(s, q, asn, r, W, Accepted(q, A, a), a, at)
    BY <1>8, UpdateAppends DEF RouteMonitoring
  <2>2. recording /\ recording' = recording /\ swept' = swept
    BY <1>3, <1>8
  <2> HIDE DEF new
  <2>3. CASE p = q /\ k[1] = r /\ k[2] \in W \cup Accepted(q, A, a)
    <3>1. Orderly(p, k)'
      BY <1>1 DEF Tracked
    <3> QED BY <1>8, <2>1, <2>2, <2>3, <3>1, UpdateExplained
  <2>4. CASE ~(p = q /\ k[1] = r /\ k[2] \in W \cup Accepted(q, A, a))
    <3>1. RibFollows(p, k)
      BY <1>0, <1>8, <2>4, UpdateFollows
    <3>2. \A e \in Range(new) : ~OfRoute(e, p, k)
      BY <2>1, <2>4 DEF Written, WithdrawRow, AnnounceRow, MarkingRow, OfRoute
    <3>3. SameRows(p, k)
      BY <2>1, <2>2, <3>2, OtherRows
    <3> QED BY <1>1, <1>2, <2>2, <3>1, <3>3, FollowStep
  <2> QED BY <2>3, <2>4
<1>9. ASSUME UNCHANGED storeVars, RibFollows(p, k) PROVE Explained(p, k)'
  <2>1. rows' = rows /\ recording' = recording /\ swept' = swept
    BY <1>9 DEF storeVars
  <2>2. SameRows(p, k)
    BY <2>1 DEF SameRows, HTypeOK
  <2> QED BY <1>1, <1>2, <1>9, <2>1, <2>2, FollowStep
<1>10. ASSUME UNCHANGED vars \/ (\E e \in Engines : SetFilter(e) \/ SetRotoFilter(e))
             \/ ClearFilter \/ NoStateChange \/ Tick
             \/ (\E q \in Peers, secs \in LlgrSecs : ExpireStaleForPeer(q, secs))
      PROVE  RibFollows(p, k)
  <2>1. ASSUME NEW q \in Peers, NEW secs \in LlgrSecs, ExpireStaleForPeer(q, secs)
        PROVE  RibFollows(p, k)
    BY <1>0, <2>1, ExpiryFollows
  <2>2. ASSUME UNCHANGED vars \/ (\E e \in Engines : SetFilter(e) \/ SetRotoFilter(e))
             \/ ClearFilter \/ NoStateChange \/ Tick
        PROVE  ribs' = ribs
    BY <2>2 DEF vars, SetFilter, SetRotoFilter, ClearFilter, NoStateChange, Tick
  <2> QED BY <1>10, <2>1, <2>2, RibUnchanged
<1>11. ASSUME NEW n \in 1 .. Len(SweptTables), Sweep(n) PROVE Explained(p, k)'
  BY <1>1, <1>2, <1>11, SweepExplained
<1>12. ASSUME UNCHANGED historyVars PROVE UNCHANGED storeVars /\ UNCHANGED vars
  BY <1>12 DEF historyVars
<1> QED
  BY <1>4, <1>5, <1>6, <1>7, <1>8, <1>9, <1>10, <1>11, <1>12 DEF HistoryNext

\* The empty history explains the empty RIB.
LEMMA HInitInv == HistoryInit => HInv
<1> SUFFICES ASSUME HistoryInit PROVE HInv
  OBVIOUS
<1>1. rows = << >> /\ recording \in BOOLEAN /\ Init
  BY DEF HistoryInit
<1>2. rows \in Seq(Rows) /\ DOMAIN rows = {}
  BY <1>1, EmptySeq
<1>3. HTypeOK
  BY <1>1, <1>2, TypeInit DEF HTypeOK
<1>4. \A p \in Peers, k \in Keys : ~Has(p, k)
  BY <1>1 DEF Init, Has
<1> QED
  BY <1>2, <1>3, <1>4 DEF HInv, InTime, RowsExplainRib, Explained

\* The invariant is inductive.
LEMMA HInvStep == HInv /\ [HistoryNext]_historyVars => HInv'
<1> SUFFICES ASSUME HInv, [HistoryNext]_historyVars PROVE HInv'
  OBVIOUS
<1>1. HTypeOK'
  BY HTypeStep DEF HInv
<1>2. InTime'
  BY <1>1, InTimeStep DEF HInv
<1>3. RowsExplainRib'
  BY <1>1, RowsExplainStep DEF HInv
<1> QED BY <1>1, <1>2, <1>3 DEF HInv

\* The rows of one peer and one RIB type that current_rib ranks, by prefix
Ranked(p, r) == {i \in RouteEvents(rows) : rows[i].peer = p /\ rows[i].rib \in {r}}

ByPrefix(I) == {{i \in I : rows[i].prefix = x} : x \in {rows[i].prefix : i \in I}}

\* current_rib for one RIB type, with its groups named.
LEMMA CurrentRibGroups ==
    ASSUME NEW p, NEW r
    PROVE  CurrentRib(rows, p, {r}) = {S \cap Announcements(rows) :
                                          S \in FirstOfEach(rows, ByPrefix(Ranked(p, r)))}
BY DEF CurrentRib, Groups, ByPrefix, Ranked

\* The rows of a route are one group.
LEMMA RouteGroup ==
    ASSUME NEW p, NEW k, RowsOf(p, k) # {}
    PROVE  RowsOf(p, k) \in ByPrefix(Ranked(p, k[1]))
<1>1. RowsOf(p, k) = {i \in Ranked(p, k[1]) : rows[i].prefix = k[2]}
  BY DEF RowsOf, Ranked
<1>2. k[2] \in {rows[i].prefix : i \in Ranked(p, k[1])}
  BY <1>1
<1> QED BY <1>1, <1>2 DEF ByPrefix

\* While the stamps of a route grow, current_rib takes its last row.
LEMMA NewestIsLast ==
    ASSUME HTypeOK, NEW p, NEW k, Orderly(p, k), NEW S \in FirstOfEach(rows, ByPrefix(Ranked(p, k[1]))),
           NEW i \in RowsOf(p, k)
    PROVE  IsLast(p, k, i) <=> i \in S
<1>1. PICK m \in Newest(rows, RowsOf(p, k)) : S \cap RowsOf(p, k) = {m}
  BY RouteGroup DEF FirstOfEach
<1>2. m \in RowsOf(p, k) /\ \A j \in RowsOf(p, k) : rows[j].at <= rows[m].at
  BY <1>1 DEF Newest
<1>3. RowsOf(p, k) \subseteq Nat /\ \A j \in RowsOf(p, k) : rows[j].at \in Nat
  BY RowAt, RowFields DEF RowsOf, RouteEvents, Table
<1>4. \A j \in RowsOf(p, k) : ~(m < j)
  BY <1>2, <1>3 DEF Orderly
<1>5. IsLast(p, k, m)
  BY <1>2, <1>3, <1>4 DEF IsLast
<1>6. IsLast(p, k, i) <=> i = m
  BY <1>3, <1>5 DEF IsLast
<1> QED BY <1>1, <1>6

\* If the rows explain the RIB, current_rib shows it.
LEMMA ExplainedSnapshot == HInv => SnapshotFollowsRib
<1> SUFFICES ASSUME HInv, NEW p \in Peers, NEW k \in Keys, Tracked(p, k),
                    NEW answer \in CurrentRib(rows, p, {k[1]})
             PROVE  /\ Has(p, k) => \E i \in answer \cap RowsOf(p, k) :
                                       rows[i].attr = ribs[p][k].attr
                    /\ ~Has(p, k) => \A i \in answer \cap RowsOf(p, k) : EndedAfter(p, i)
  BY DEF SnapshotFollowsRib, Tracked, EndedAfter
<1>1. HTypeOK /\ Orderly(p, k) /\ Explained(p, k)
  BY DEF HInv, Tracked, RowsExplainRib
<1>2. PICK S \in FirstOfEach(rows, ByPrefix(Ranked(p, k[1]))) : answer = S \cap Announcements(rows)
  BY CurrentRibGroups
<1>3. ASSUME Has(p, k)
      PROVE  \E i \in answer \cap RowsOf(p, k) : rows[i].attr = ribs[p][k].attr
  <2>1. PICK i \in DOMAIN rows : /\ IsLast(p, k, i) /\ rows[i].action = "announce"
                                 /\ rows[i].attr = ribs[p][k].attr
    BY <1>1, <1>3 DEF Explained
  <2>2. i \in RowsOf(p, k) /\ i \in Announcements(rows)
    BY <2>1 DEF IsLast, RowsOf, Announcements
  <2>3. i \in S
    BY <1>1, <2>1, <2>2, NewestIsLast
  <2> QED BY <1>2, <2>1, <2>2, <2>3
<1>4. ASSUME ~Has(p, k), NEW i \in answer \cap RowsOf(p, k) PROVE EndedAfter(p, i)
  <2>1. i \in S /\ i \in RowsOf(p, k) /\ i \in DOMAIN rows /\ rows[i].action = "announce"
    BY <1>2 DEF Announcements, RouteEvents, Table
  <2>2. IsLast(p, k, i)
    BY <1>1, <2>1, NewestIsLast
  <2> QED BY <1>1, <1>4, <2>1, <2>2 DEF Explained
<1> QED BY <1>3, <1>4

\* The invariant holds throughout.
LEMMA HistoryInvariant == HistorySpec => []HInv
BY HInitInv, HInvStep, PTL DEF HistorySpec

\* For every number of speakers, peers and prefixes, and any order of messages, reloads,
\* expiries and sweeps: the snapshot current_rib gives shows every route of the RIB with its
\* attributes, and one it shows besides was lost with a session whose end is recorded behind
\* it (query.rs 50-71, writer.rs 85-245, manager.rs 65-237, retention.rs 44-61).
THEOREM SnapshotFollowsRibHolds == HistorySpec => []SnapshotFollowsRib
BY HistoryInvariant, ExplainedSnapshot, PTL


-----------------------------------------------------------------------------
(* Retention brings nothing back *)

\* A set of naturals that is not empty has a least member.
LEMMA LeastElement ==
    ASSUME NEW S, S \subseteq Nat, S # {}
    PROVE  \E e \in S : \A f \in S : e <= f
<1>1. PICK e \in S : \A f \in S : ~(<<f, e>> \in OpToRel(<, Nat))
  BY NatLessThanWellFounded, WFMin
<1>2. \A f \in S : ~(f < e)
  BY <1>1 DEF OpToRel
<1> QED
  BY <1>2

\* A group of rows has a newest one.
LEMMA NewestExists ==
    ASSUME HTypeOK, InTime, NEW g, g \subseteq DOMAIN rows, g # {}
    PROVE  Newest(rows, g) # {}
<1>1. now \in Nat /\ \A i \in g : rows[i].at \in Nat /\ rows[i].at <= now
  <2>1. now \in Nat
    BY TimeAssumption DEF HTypeOK, TypeOK, Time
  <2> QED BY <2>1, RowAt, RowFields DEF InTime
<1> DEFINE S == {now - rows[i].at : i \in g}
<1>2. S \subseteq Nat /\ S # {}
  BY <1>1
<1>3. PICK e \in S : \A f \in S : e <= f
  <2> HIDE DEF S
  <2> QED BY <1>2, LeastElement
<1>4. PICK i \in g : e = now - rows[i].at
  BY <1>3
<1>5. ASSUME NEW j \in g PROVE rows[j].at <= rows[i].at
  <2>1. now - rows[i].at <= now - rows[j].at
    BY <1>3, <1>4
  <2> QED BY <1>1, <2>1
<1> QED BY <1>4, <1>5 DEF Newest

\* Whichever newest row of a group one wants, some answer takes it.
LEMMA FirstExists ==
    ASSUME NEW G, \A h \in G : Newest(rows, h) # {},
           \A g, h \in G : g \cap h # {} => g = h,
           NEW g \in G, NEW i \in Newest(rows, g)
    PROVE  \E S \in FirstOfEach(rows, G) : i \in S
<1> DEFINE c(h) == IF h = g THEN i ELSE CHOOSE m : m \in Newest(rows, h)
           S == {c(h) : h \in G}
<1>1. \A h \in G : c(h) \in Newest(rows, h) /\ c(h) \in h
  BY DEF Newest
<1>2. c(g) = i
  OBVIOUS
<1> HIDE DEF c
<1>3. ASSUME NEW h \in G PROVE S \cap h = {c(h)}
  <2>1. c(h) \in S \cap h
    BY <1>1
  <2>2. ASSUME NEW z \in S \cap h PROVE z = c(h)
    <3>1. PICK k \in G : z = c(k)
      OBVIOUS
    <3>2. z \in k \cap h
      BY <1>1, <3>1
    <3> QED BY <3>1, <3>2
  <2> QED BY <2>1, <2>2
<1>4. S \in SUBSET UNION G
  BY <1>1
<1>5. S \in FirstOfEach(rows, G)
  BY <1>1, <1>3, <1>4 DEF FirstOfEach
<1> QED BY <1>2, <1>5

\* The prefix may be listed exactly if one of its newest rows announces it.
CanList(p, r, x) ==
    \E i \in DOMAIN rows :
        /\ OfRoute(rows[i], p, <<r, x>>) /\ rows[i].action = "announce"
        /\ \A j \in DOMAIN rows : OfRoute(rows[j], p, <<r, x>>) => rows[j].at <= rows[i].at

ListsNewest == \A p, r, x : MayList(p, r, x) <=> CanList(p, r, x)

\* The choice among equal stamps is free: current_rib may list a prefix exactly if one of its
\* newest rows announces it.
LEMMA MayListNewest == HTypeOK /\ InTime => ListsNewest
<1> SUFFICES ASSUME HTypeOK, InTime, NEW p, NEW r, NEW x
             PROVE  MayList(p, r, x) <=> CanList(p, r, x)
  BY DEF ListsNewest
<1> DEFINE k == <<r, x>>
           I == Ranked(p, r)
           G == ByPrefix(I)
           R == RowsOf(p, k)
<1>1. R = {i \in DOMAIN rows : OfRoute(rows[i], p, k)} /\ R = {i \in I : rows[i].prefix = x}
  BY DEF RowsOf, RouteEvents, Table, OfRoute, Ranked
<1>2. I \subseteq DOMAIN rows
  BY DEF Ranked, RouteEvents, Table
<1>3. R # {} => R \in G
  BY RouteGroup
<1>4. \A h \in G : h \subseteq I /\ h # {}
  BY DEF ByPrefix
<1>5. \A g, h \in G : g \cap h # {} => g = h
  BY DEF ByPrefix
<1>6. CurrentRib(rows, p, {r}) = {S \cap Announcements(rows) : S \in FirstOfEach(rows, G)}
  BY CurrentRibGroups
<1> HIDE DEF I, G, R
<1>7. ASSUME MayList(p, r, x) PROVE CanList(p, r, x)
  <2>1. PICK answer \in CurrentRib(rows, p, {r}) : \E i \in answer : rows[i].prefix = x
    BY <1>7 DEF MayList
  <2>2. PICK i \in answer : rows[i].prefix = x
    BY <2>1
  <2>3. PICK S \in FirstOfEach(rows, G) : answer = S \cap Announcements(rows)
    BY <1>6, <2>1
  <2>4. i \in S /\ rows[i].action = "announce"
    BY <2>2, <2>3 DEF Announcements
  <2>5. i \in I
    BY <1>4, <2>3, <2>4 DEF FirstOfEach
  <2>6. i \in R /\ R \in G
    BY <1>1, <1>3, <2>2, <2>5
  <2>7. PICK m \in Newest(rows, R) : S \cap R = {m}
    BY <2>3, <2>6 DEF FirstOfEach
  <2>8. \A j \in R : rows[j].at <= rows[i].at
    BY <2>4, <2>6, <2>7 DEF Newest
  <2> QED BY <1>1, <2>4, <2>6, <2>8 DEF CanList
<1>8. ASSUME CanList(p, r, x) PROVE MayList(p, r, x)
  <2>1. PICK i \in DOMAIN rows :
           /\ OfRoute(rows[i], p, <<r, x>>) /\ rows[i].action = "announce"
           /\ \A j \in DOMAIN rows : OfRoute(rows[j], p, <<r, x>>) => rows[j].at <= rows[i].at
    BY <1>8 DEF CanList
  <2>2. i \in R /\ i \in Newest(rows, R)
    BY <1>1, <2>1 DEF Newest
  <2>3. \A h \in G : Newest(rows, h) # {}
    BY <1>2, <1>4, NewestExists
  <2>4. PICK S \in FirstOfEach(rows, G) : i \in S
    BY <1>3, <1>5, <2>2, <2>3, FirstExists
  <2>5. i \in Announcements(rows) /\ rows[i].prefix = x
    BY <2>1 DEF OfRoute, Announcements, RouteEvents, Table
  <2>6. S \cap Announcements(rows) \in CurrentRib(rows, p, {r}) /\ i \in S \cap Announcements(rows)
    BY <1>6, <2>4, <2>5
  <2> QED BY <2>5, <2>6 DEF MayList
<1> QED BY <1>7, <1>8

\* A sweep takes rows of a route from its old end.
LEMMA SweptLists ==
    ASSUME HTypeOK, HTypeOK', NEW n \in 1 .. Len(SweptTables), Sweep(n),
           NEW p, NEW r, NEW x, CanList(p, r, x)'
    PROVE  CanList(p, r, x)
<1>0. /\ DOMAIN rows = 1 .. Len(rows) /\ DOMAIN rows' = 1 .. Len(rows')
      /\ now \in Int /\ Retain \in Int
  BY TimeAssumption, RetainAssumption DEF HTypeOK, TypeOK, Time
<1>1. PICK f : Keeps(f, n)
  BY SweepKeeps
<1>2. /\ \A m \in 1 .. Len(rows') : /\ f[m] \in 1 .. Len(rows) /\ f[m] \notin Outdated(n)
                                    /\ rows'[m] = rows[f[m]]
      /\ \A i \in 1 .. Len(rows) : i \notin Outdated(n) => \E m \in 1 .. Len(rows') : f[m] = i
  BY <1>1 DEF Keeps
<1>3. PICK m \in 1 .. Len(rows') :
         /\ OfRoute(rows'[m], p, <<r, x>>) /\ rows'[m].action = "announce"
         /\ \A l \in 1 .. Len(rows') : OfRoute(rows'[l], p, <<r, x>>) => rows'[l].at <= rows'[m].at
  BY <1>0 DEF CanList, OfRoute
<1> DEFINE i == f[m]
<1>4. i \in 1 .. Len(rows) /\ i \notin Outdated(n) /\ rows'[m] = rows[i]
  BY <1>2
<1> HIDE DEF i
<1>5. ASSUME NEW j \in 1 .. Len(rows), OfRoute(rows[j], p, <<r, x>>) PROVE rows[j].at <= rows[i].at
  <2>1. rows[i].at \in Int /\ rows[j].at \in Int
    BY <1>0, <1>4, RowAt, RowFields
  <2>2. CASE j \notin Outdated(n)
    <3>1. PICK l \in 1 .. Len(rows') : f[l] = j
      BY <1>2, <2>2
    <3>2. rows'[l] = rows[j]
      BY <1>2, <3>1
    <3> QED BY <1>3, <1>4, <1>5, <3>2
  <2>3. CASE j \in Outdated(n)
    <3>1. Old(rows[j])
      BY <2>3 DEF Outdated
    <3>2. ~Old(rows[i])
      BY <1>3, <1>4, NotOutdated DEF OfRoute
    <3> QED BY <1>0, <2>1, <3>1, <3>2 DEF Old
  <2> QED BY <2>2, <2>3
<1> QED BY <1>0, <1>3, <1>4, <1>5 DEF CanList

\* Rows leave by retention alone.
LEMMA OnlySweepShrinks ==
    ASSUME HTypeOK, HTypeOK', [HistoryNext]_historyVars, Len(rows') < Len(rows)
    PROVE  \E n \in 1 .. Len(SweptTables) : Sweep(n)
<1>0. Len(rows) \in Nat
  BY DEF HTypeOK
<1>1. ASSUME NEW new, Appends(new) PROVE FALSE
  <2>1. CASE recording
    <3>1. Len(rows') = Len(rows) + Len(new)
      BY <1>1, <2>1, AppendedRows DEF Grows
    <3>2. Len(new) \in Nat
      BY <1>1 DEF Appends
    <3> QED BY <1>0, <3>1, <3>2
  <2>2. CASE ~recording
    BY <1>0, <1>1, <2>2, PersistIdle DEF Appends, storeVars
  <2> QED BY <2>1, <2>2
<1>2. ASSUME UNCHANGED storeVars PROVE FALSE
  BY <1>0, <1>2 DEF storeVars
<1> QED BY <1>1, <1>2, RowSteps

\* For every retention time, and a sweep that fails after any of its tables: what the snapshot
\* may show after the sweep it could show before (retention.rs 44-61, query.rs 59).
THEOREM SweepNeverResurrectsHolds == HistorySpec => SweepNeverResurrects
<1> DEFINE P == Len(rows') < Len(rows) =>
                  \A p \in Peers, r \in RibTypes, x \in Prefixes : MayList(p, r, x)' => MayList(p, r, x)
<1>1. HInv /\ HInv' /\ [HistoryNext]_historyVars => P
  <2> SUFFICES ASSUME HInv, HInv', [HistoryNext]_historyVars, Len(rows') < Len(rows),
                      NEW p \in Peers, NEW r \in RibTypes, NEW x \in Prefixes, MayList(p, r, x)'
               PROVE  MayList(p, r, x)
    OBVIOUS
  <2>1. HTypeOK /\ HTypeOK' /\ InTime /\ InTime'
    BY DEF HInv
  <2>2. ListsNewest /\ ListsNewest'
    BY <2>1, MayListNewest, PTL
  <2>3. PICK n \in 1 .. Len(SweptTables) : Sweep(n)
    BY <2>1, OnlySweepShrinks
  <2>4. CanList(p, r, x)'
    BY <2>2 DEF ListsNewest
  <2>5. CanList(p, r, x)
    BY <2>1, <2>3, <2>4, SweptLists
  <2> QED BY <2>2, <2>5 DEF ListsNewest
<1> QED
  BY <1>1, HistoryInvariant, PTL DEF SweepNeverResurrects, HistorySpec

-----------------------------------------------------------------------------
(* Counting *)

Class(X, kappa, k) == {x \in X : kappa[x] = k}

Counts(f, X, kappa) == \A k \in DOMAIN f : f[k] = Cardinality(Class(X, kappa, k))

\* Counted class by class, every member of a finite set is counted once.
LEMMA TotalCounts ==
    ASSUME NEW X, IsFiniteSet(X), NEW f, NEW kappa \in [X -> DOMAIN f], Counts(f, X, kappa)
    PROVE  Total(f) = Cardinality(X)
<1> DEFINE K == DOMAIN f
           C(k) == Class(X, kappa, k)
           P == UNION {{k} \X (1 .. f[k]) : k \in K}
           B == [k \in K |-> CHOOSE b : b \in Bijection(1 .. f[k], C(k))]
           g == [q \in P |-> B[q[1]][q[2]]]
<1>1. ASSUME NEW k \in K PROVE B[k] \in Bijection(1 .. f[k], C(k))
  <2>1. C(k) \in SUBSET X
    BY DEF Class
  <2>2. IsFiniteSet(C(k)) /\ f[k] = Cardinality(C(k))
    BY <2>1, FS_Subset DEF Counts
  <2>3. ExistsBijection(1 .. f[k], C(k))
    BY <2>2, FS_CardinalityType
  <2>4. \E b : b \in Bijection(1 .. f[k], C(k))
    BY <2>3 DEF ExistsBijection
  <2> QED BY <2>4
<1> HIDE DEF B
<1>2. ASSUME NEW k \in K
      PROVE  /\ B[k] \in [1 .. f[k] -> C(k)]
             /\ \A m, n \in 1 .. f[k] : B[k][m] = B[k][n] => m = n
             /\ \A x \in C(k) : \E n \in 1 .. f[k] : B[k][n] = x
  <2> DEFINE N == 1 .. f[k]
             T == C(k)
             b == B[k]
  <2>1. b \in Bijection(N, T)
    BY <1>1
  <2> HIDE DEF N, T, b
  <2>2. b \in [N -> T] /\ (\A m, n \in N : b[m] = b[n] => m = n) /\ (\A x \in T : \E n \in N : b[n] = x)
    BY <2>1 DEF Bijection, Injection, IsInjective, Surjection
  <2> QED BY <2>2 DEF N, T, b
<1>3. \A q : q \in P <=> q[1] \in K /\ q[2] \in 1 .. f[q[1]] /\ q = <<q[1], q[2]>>
  OBVIOUS
<1>4. \A k \in K : \A n \in 1 .. f[k] : <<k, n>> \in P
  OBVIOUS
<1> HIDE DEF P
<1>5. ASSUME NEW q \in P
      PROVE  g[q] \in X /\ kappa[g[q]] = q[1]
  <2>1. q[1] \in K /\ q[2] \in 1 .. f[q[1]]
    BY <1>3
  <2>2. B[q[1]] \in [1 .. f[q[1]] -> C(q[1])]
    BY <1>2, <2>1
  <2>3. g[q] \in C(q[1])
    BY <2>1, <2>2
  <2> QED BY <2>3 DEF Class
<1>6. g \in [P -> X]
  BY <1>5
<1>7. ASSUME NEW q \in P, NEW z \in P, g[q] = g[z] PROVE q = z
  <2>1. q[1] = z[1]
    BY <1>5, <1>7
  <2>2. q[2] = z[2]
    BY <1>2, <1>3, <1>7, <2>1
  <2> QED BY <1>3, <2>1, <2>2
<1>8. ASSUME NEW x \in X PROVE \E q \in P : g[q] = x
  <2>1. kappa[x] \in K /\ x \in C(kappa[x])
    BY DEF Class
  <2>2. PICK n \in 1 .. f[kappa[x]] : B[kappa[x]][n] = x
    BY <1>2, <2>1
  <2>3. <<kappa[x], n>> \in P
    BY <1>4, <2>1
  <2> QED BY <2>2, <2>3
<1> HIDE DEF g
<1>9. g \in Injection(P, X) /\ g \in Surjection(P, X)
  BY <1>6, <1>7, <1>8 DEF Injection, IsInjective, Surjection
<1>10. Cardinality(P) = Cardinality(X)
  BY <1>9, FS_Injection
<1> QED
  BY <1>10 DEF Total, P

\* Sets with a one-to-one correspondence are of the same size.
LEMMA SameSize ==
    ASSUME NEW S, NEW T, IsFiniteSet(T), NEW g \in [S -> T],
           \A a, b \in S : g[a] = g[b] => a = b,
           \A t \in T : \E a \in S : g[a] = t
    PROVE  IsFiniteSet(S) /\ Cardinality(S) = Cardinality(T)
<1>1. g \in Injection(S, T) /\ g \in Surjection(S, T)
  BY DEF Injection, IsInjective, Surjection
<1> QED
  BY <1>1, FS_Injection

-----------------------------------------------------------------------------
(* Snapshots and what else is said of their routes *)

\* A set of rows is finite.
LEMMA FiniteRows ==
    ASSUME HTypeOK, NEW I \in SUBSET DOMAIN rows
    PROVE  IsFiniteSet(I)
<1>1. DOMAIN rows = 1 .. Len(rows) /\ Len(rows) \in Nat
  BY DEF HTypeOK
<1> QED BY <1>1, FinitePositions

\* An answer takes one row of a prefix.
LEMMA OneRowPerPrefix ==
    ASSUME NEW I, NEW S \in FirstOfEach(rows, ByPrefix(I))
    PROVE  /\ S \subseteq I
           /\ \A i, j \in S : rows[i].prefix = rows[j].prefix => i = j
<1>1. S \subseteq I
  BY DEF FirstOfEach, ByPrefix
<1>2. ASSUME NEW i \in S, NEW j \in S, rows[i].prefix = rows[j].prefix PROVE i = j
  <2> DEFINE g == {l \in I : rows[l].prefix = rows[i].prefix}
  <2>1. g \in ByPrefix(I) /\ i \in g /\ j \in g
    BY <1>1, <1>2 DEF ByPrefix
  <2> HIDE DEF g
  <2>2. PICK m : S \cap g = {m}
    BY <2>1 DEF FirstOfEach
  <2> QED BY <2>1, <2>2
<1> QED BY <1>1, <1>2

\* The fields of a route event.
LEMMA PrefixOfRow ==
    ASSUME HTypeOK, NEW i \in RouteEvents(rows)
    PROVE  /\ i \in DOMAIN rows /\ rows[i].prefix \in Prefixes /\ rows[i].peer \in Peers
           /\ rows[i].speaker \in Speakers
<1>1. i \in DOMAIN rows /\ rows[i].table = "route_events"
  BY DEF RouteEvents, Table
<1>2. rows[i] \in Rows
  BY <1>1, RowAt
<1> QED BY <1>1, <1>2, RowFields

\* policy_delta counts every prefix the snapshot of its RIB type shows (query.rs 312-333).
LEMMA DeltaCovers == HInv => DeltaCoversSnapshot
<1> SUFFICES ASSUME HInv, NEW p \in Peers, NEW r \in StoredTypes,
                    NEW answer \in CurrentRib(rows, p, {r}), answer # {}
             PROVE  Cardinality(answer) <= PolicyDelta(rows, p)[r]
  BY DEF DeltaCoversSnapshot
<1>0. HTypeOK
  BY DEF HInv
<1>1. PICK S \in FirstOfEach(rows, ByPrefix(Ranked(p, r))) : answer = S \cap Announcements(rows)
  BY CurrentRibGroups
<1>2. /\ S \subseteq Ranked(p, r)
      /\ \A i, j \in S : rows[i].prefix = rows[j].prefix => i = j
  BY OneRowPerPrefix
<1> DEFINE I == {i \in Announcements(rows) : rows[i].peer = p}
           T == {rows[i].prefix : i \in {j \in I : rows[j].rib = r}}
           g == [i \in answer |-> rows[i].prefix]
<1>3. \A i \in answer : i \in I /\ rows[i].rib = r
  BY <1>1, <1>2 DEF Ranked
<1>4. r \in {rows[i].rib : i \in I}
  BY <1>3
<1>5. PolicyDelta(rows, p)[r] = Cardinality(T)
  BY <1>4 DEF PolicyDelta
<1>6. T \in SUBSET Prefixes
  BY <1>0, PrefixOfRow DEF Announcements
<1>7. g \in [answer -> T] /\ \A i, j \in answer : g[i] = g[j] => i = j
  BY <1>1, <1>2, <1>3
<1> HIDE DEF T, g
<1>8. IsFiniteSet(T)
  BY <1>6, PrefixAssumption, FS_Subset
<1>9. g \in Injection(answer, T)
  BY <1>7 DEF Injection, IsInjective
<1> QED
  BY <1>5, <1>8, <1>9, FS_Injection

\* prefix_peers names a peer whose snapshot shows the prefix, since the row shown is an
\* announcement (query.rs 173-204).
LEMMA PeersCover == HInv => PeersCoverSnapshot
<1> SUFFICES ASSUME HInv, NEW p \in Peers, NEW r \in StoredTypes, NEW x \in Prefixes,
                    MayList(p, r, x), NEW S \in PrefixPeers(rows, x)
             PROVE  \E i \in S : rows[i].peer = p
  BY DEF PeersCoverSnapshot
<1>1. CanList(p, r, x)
  BY MayListNewest DEF HInv, ListsNewest
<1> DEFINE I == PrefixHistory(rows, x) \cap Announcements(rows)
           g == {i \in I : rows[i].peer = p}
<1>2. PICK i \in DOMAIN rows : OfRoute(rows[i], p, <<r, x>>) /\ rows[i].action = "announce"
  BY <1>1 DEF CanList
<1>3. i \in I /\ rows[i].peer = p
  BY <1>2 DEF OfRoute, PrefixHistory, Announcements, RouteEvents, Table
<1>4. S \in FirstOfEach(rows, {{j \in I : rows[j].peer = k} : k \in {rows[j].peer : j \in I}})
  BY DEF PrefixPeers, Groups
<1>5. g \in {{j \in I : rows[j].peer = k} : k \in {rows[j].peer : j \in I}}
  BY <1>3
<1>6. PICK m : S \cap g = {m}
  BY <1>4, <1>5 DEF FirstOfEach
<1> QED BY <1>6

\* Fewer than one active path means none, and the row shown is the newest of its prefix and
\* peer (query.rs 852-956).
LEMMA Unprotected == HInv => UnprotectedIsInactive
<1> SUFFICES ASSUME HInv, NEW since \in Windows, NEW A \in PathStatusMatrix(rows, 1, since), NEW i \in A
             PROVE  /\ i \in Newest(rows, PathStatusHistory(rows, rows[i].prefix, rows[i].peer, since))
                    /\ ~ActivePath(StatusOf[rows[i].attr])
  BY DEF UnprotectedIsInactive
<1> DEFINE I == {j \in Table(rows, "path_markings") : rows[j].at >= since}
           key(j) == <<rows[j].prefix, rows[j].peer>>
           G == {{j \in I : key(j) = k} : k \in {key(j) : j \in I}}
           g == {j \in I : key(j) = key(i)}
           active(S, x) == {j \in S : rows[j].prefix = x /\ ActivePath(StatusOf[rows[j].attr])}
<1>1. PICK S \in FirstOfEach(rows, G) :
         A = {j \in S : 1 # Absent => Cardinality(active(S, rows[j].prefix)) < 1}
  BY DEF PathStatusMatrix, Groups
<1>2. i \in S /\ Cardinality(active(S, rows[i].prefix)) < 1
  BY <1>1, QueryAssumption
<1>3. S \subseteq I /\ I \subseteq DOMAIN rows
  BY <1>1 DEF FirstOfEach, Table
<1>4. g \in G /\ i \in g
  BY <1>2, <1>3
<1>5. PathStatusHistory(rows, rows[i].prefix, rows[i].peer, since) = g
  BY DEF PathStatusHistory
<1>6. i \in Newest(rows, g)
  <2> HIDE DEF g, G
  <2>1. PICK m \in Newest(rows, g) : S \cap g = {m}
    BY <1>1, <1>4 DEF FirstOfEach
  <2> QED BY <1>2, <1>4, <2>1
<1>7. ~ActivePath(StatusOf[rows[i].attr])
  <2> DEFINE T == active(S, rows[i].prefix)
  <2>1. T \in SUBSET DOMAIN rows
    BY <1>3
  <2>2. ActivePath(StatusOf[rows[i].attr]) => i \in T
    BY <1>2
  <2> HIDE DEF T
  <2>3. IsFiniteSet(T)
    BY <2>1, FiniteRows DEF HInv
  <2>4. Cardinality(T) = 0
    <3>1. Cardinality(T) \in Nat
      BY <2>3, FS_CardinalityType
    <3> QED BY <1>2, <3>1 DEF T
  <2>5. T = {}
    BY <2>3, <2>4, FS_EmptySet
  <2> QED BY <2>2, <2>5
<1> QED BY <1>5, <1>6, <1>7

-----------------------------------------------------------------------------
(* Timelines *)

\* s has every row of I once, an older one first.
Timeline(s, I) ==
    /\ Cardinality(I) \in Nat
    /\ s \in [1 .. Cardinality(I) -> I]
    /\ \A n, k \in 1 .. Cardinality(I) : n < k => rows[s[n]].at <= rows[s[k]].at
    /\ \A n, k \in 1 .. Cardinality(I) : s[n] = s[k] => n = k
    /\ \A i \in I : \E n \in 1 .. Cardinality(I) : s[n] = i

\* ORDER BY occurred_at lists every row once, none before an older one.
LEMMA ChronologicalTimeline ==
    ASSUME HTypeOK, NEW I \in SUBSET DOMAIN rows
    PROVE  Timeline(Chronological(rows, I), I)
<1> DEFINE Q == {q \in I \X I : \/ rows[q[1]].at < rows[q[2]].at
                                \/ rows[q[1]].at = rows[q[2]].at /\ q[1] <= q[2]}
           s == Chronological(rows, I)
           c == Cardinality(I)
<1>1. IsFiniteSet(I)
  BY FiniteRows
<1>2. \A i \in I : i \in Nat /\ rows[i].at \in Nat
  BY RowAt, RowFields DEF HTypeOK
<1>3. \A i, j \in I : <<i, j>> \in Q <=> \/ rows[i].at < rows[j].at
                                         \/ rows[i].at = rows[j].at /\ i <= j
  OBVIOUS
<1>4. s = InOrder(I, Q)
  BY DEF Chronological
<1> HIDE DEF Q, s, c
<1>5. TotalOrder(I, Q)
  BY <1>2, <1>3 DEF TotalOrder
<1>6. Listing(s, I, Q)
  BY <1>1, <1>4, <1>5, InOrderLists
<1>7. /\ c \in Nat /\ s \in [1 .. c -> I]
      /\ \A n, k \in 1 .. c : n < k => <<s[n], s[k]>> \in Q /\ s[n] # s[k]
      /\ \A i \in I : \E n \in 1 .. c : s[n] = i
  BY <1>6 DEF Listing, c
<1>8. ASSUME NEW n \in 1 .. c, NEW k \in 1 .. c, n < k PROVE rows[s[n]].at <= rows[s[k]].at
  <2>1. s[n] \in I /\ s[k] \in I /\ <<s[n], s[k]>> \in Q
    BY <1>7, <1>8
  <2> QED BY <1>2, <1>3, <2>1
<1>9. ASSUME NEW n \in 1 .. c, NEW k \in 1 .. c, s[n] = s[k] PROVE n = k
  <2>1. n \in Int /\ k \in Int
    BY <1>7
  <2>2. ~(n < k) /\ ~(k < n)
    BY <1>7, <1>9
  <2> QED BY <2>1, <2>2
<1> QED
  BY <1>7, <1>8, <1>9 DEF Timeline, c, s

\* The downs counted by speaker are those of the timeline (query.rs 238-265, 962-986).
LEMMA Flaps == HInv => FlapsAreDowns
<1> SUFFICES ASSUME HInv, NEW p \in Peers, NEW since \in Windows
             PROVE  Total([s \in {t \in Speakers : <<p, t>> \in DOMAIN PeerFlapEvents(rows, since)} |->
                              PeerFlapEvents(rows, since)[<<p, s>>]])
                       = Cardinality({n \in DOMAIN PeerSessionTimeline(rows, p, since) :
                             PeerSessionTimeline(rows, p, since)[n].event = "peer_down"})
  BY DEF FlapsAreDowns
<1>0. HTypeOK
  BY DEF HInv
<1> DEFINE downs == {i \in PeerEvents(rows) : rows[i].event = "peer_down" /\ rows[i].at >= since}
           flaps == PeerFlapEvents(rows, since)
           line  == PeerSessionTimeline(rows, p, since)
           D     == {i \in downs : rows[i].peer = p}
           f     == [s \in {t \in Speakers : <<p, t>> \in DOMAIN flaps} |-> flaps[<<p, s>>]]
           kappa == [i \in D |-> rows[i].speaker]
           H     == {i \in PeerHistory(rows, p) : rows[i].at >= since}
           s     == Chronological(rows, H)
           N     == {n \in DOMAIN line : line[n].event = "peer_down"}
           g     == [n \in N |-> s[n]]
<1>1. flaps = [w \in {<<rows[i].peer, rows[i].speaker>> : i \in downs} |->
                  Cardinality({i \in downs : <<rows[i].peer, rows[i].speaker>> = w})]
  BY DEF PeerFlapEvents
<1>2. D \in SUBSET DOMAIN rows /\ H \in SUBSET DOMAIN rows
  BY DEF PeerEvents, PeerHistory, Table
<1>3. D = {i \in H : rows[i].event = "peer_down"}
  BY DEF PeerHistory
<1>4. \A i \in D : rows[i].speaker \in Speakers
  BY <1>0, RowAt DEF PeerEvents, Table, Rows, RouteRows, MarkingRows, PeerRows, SpeakerRows
<1>5. Total(f) = Cardinality(D)
  <2>1. kappa \in [D -> DOMAIN f]
    BY <1>1, <1>4
  <2>2. ASSUME NEW t \in DOMAIN f PROVE f[t] = Cardinality(Class(D, kappa, t))
    <3>1. Class(D, kappa, t) = {i \in downs : <<rows[i].peer, rows[i].speaker>> = <<p, t>>}
      BY DEF Class
    <3> QED BY <1>1, <3>1
  <2>3. Counts(f, D, kappa)
    BY <2>2 DEF Counts
  <2>4. IsFiniteSet(D)
    BY <1>0, <1>2, FiniteRows
  <2> HIDE DEF f, D, kappa
  <2> QED BY <2>1, <2>3, <2>4, TotalCounts
<1>6. Cardinality(N) = Cardinality(D)
  <2>1. Timeline(s, H)
    BY <1>0, <1>2, ChronologicalTimeline
  <2>2. DOMAIN line = DOMAIN s /\ \A n \in DOMAIN s : line[n].event = rows[s[n]].event
    BY DEF PeerSessionTimeline
  <2> HIDE DEF line, s, H, D
  <2>3. /\ DOMAIN s = 1 .. Cardinality(H) /\ \A n \in DOMAIN s : s[n] \in H
        /\ \A n, k \in DOMAIN s : s[n] = s[k] => n = k
        /\ \A i \in H : \E n \in DOMAIN s : s[n] = i
    BY <2>1 DEF Timeline
  <2>4. g \in [N -> D] /\ \A a, b \in N : g[a] = g[b] => a = b
    BY <1>3, <2>2, <2>3
  <2>5. ASSUME NEW i \in D PROVE \E a \in N : g[a] = i
    BY <1>3, <2>2, <2>3
  <2>6. IsFiniteSet(D)
    BY <1>0, <1>2, FiniteRows
  <2> HIDE DEF g, N
  <2> QED BY <2>4, <2>5, <2>6, SameSize
<1> QED BY <1>5, <1>6

\* Buckets add up to churn (query.rs 105-120, 147-171).
LEMMA Churn == HInv => ChurnAddsUp
<1> SUFFICES ASSUME HInv, NEW x \in DOMAIN TopChurningPrefixes(rows)
             PROVE  Total(PrefixTimeline(rows, x, 0)) = TopChurningPrefixes(rows)[x]
  BY DEF ChurnAddsUp
<1>0. HTypeOK
  BY DEF HInv
<1>1. PrefixHistory(rows, x) \in SUBSET DOMAIN rows
  BY DEF PrefixHistory, RouteEvents, Table
<1>2. \A i \in DOMAIN rows : i \in Nat /\ rows[i].at \in Nat
  BY <1>0, RowAt, RowFields
<1> DEFINE X == PrefixHistory(rows, x)
           key(i) == <<rows[i].at \div Hour, rows[i].action>>
           kappa == [i \in X |-> key(i)]
           f == PrefixTimeline(rows, x, 0)
<1>3. X \cap RouteChanges(rows, 0, Absent) = X
  BY <1>1, <1>2 DEF PrefixHistory, RouteChanges
<1>4. f = [k \in {key(i) : i \in X} |-> Cardinality({i \in X : key(i) = k})]
  BY <1>3 DEF PrefixTimeline
<1>5. kappa \in [X -> DOMAIN f]
  BY <1>4
<1>6. Counts(f, X, kappa)
  <2> SUFFICES ASSUME NEW k \in DOMAIN f PROVE f[k] = Cardinality(Class(X, kappa, k))
    BY DEF Counts
  <2>1. Class(X, kappa, k) = {i \in X : key(i) = k}
    BY DEF Class
  <2> QED BY <1>4, <2>1
<1>7. IsFiniteSet(X)
  BY <1>0, <1>1, FiniteRows
<1>8. TopChurningPrefixes(rows)[x] = Cardinality(X)
  BY DEF TopChurningPrefixes
<1> HIDE DEF X, kappa, f
<1>9. Total(f) = Cardinality(X)
  BY <1>5, <1>6, <1>7, TotalCounts
<1> QED BY <1>8, <1>9 DEF f

-----------------------------------------------------------------------------
(* The capacity gauge *)

\* The groups of max_prefix_capacity
ByRoute == {{i \in RouteEvents(rows) : <<rows[i].speaker, rows[i].peer, rows[i].prefix>> = k} :
               k \in {<<rows[i].speaker, rows[i].peer, rows[i].prefix>> : i \in RouteEvents(rows)}}

OfPeer(p) == {i \in RouteEvents(rows) : rows[i].peer = p}

Apart(G) == \A g, h \in G : g \cap h # {} => g = h

\* An answer for all groups holds one for some of them.
LEMMA AnswerForSome ==
    ASSUME NEW H, NEW G \in SUBSET H, NEW S \in FirstOfEach(rows, H)
    PROVE  S \cap UNION G \in FirstOfEach(rows, G)
<1>1. ASSUME NEW g \in G PROVE \E i \in Newest(rows, g) : (S \cap UNION G) \cap g = {i}
  <2>1. PICK i \in Newest(rows, g) : S \cap g = {i}
    BY DEF FirstOfEach
  <2>2. (S \cap UNION G) \cap g = S \cap g
    OBVIOUS
  <2> QED BY <2>1, <2>2
<1> QED BY <1>1 DEF FirstOfEach

\* An answer for some groups is part of one for all.
LEMMA AnswerForAll ==
    ASSUME NEW H, Apart(H), \A h \in H : Newest(rows, h) # {},
           NEW G \in SUBSET H, NEW S \in FirstOfEach(rows, G)
    PROVE  \E T \in FirstOfEach(rows, H) : T \cap UNION G = S
<1> DEFINE c(h) == CHOOSE m : m \in Newest(rows, h)
           T == S \cup {c(h) : h \in H \ G}
<1>1. \A h \in H : c(h) \in Newest(rows, h) /\ c(h) \in h
  BY DEF Newest
<1> HIDE DEF c
<1>2. S \subseteq UNION G
  BY DEF FirstOfEach
<1>3. \A h \in H \ G : h \cap UNION G = {}
  BY DEF Apart
<1>4. T \cap UNION G = S
  BY <1>1, <1>2, <1>3
<1>5. T \in SUBSET UNION H
  BY <1>1, <1>2
<1>6. ASSUME NEW g \in G PROVE \E i \in Newest(rows, g) : T \cap g = {i}
  <2>1. PICK i \in Newest(rows, g) : S \cap g = {i}
    BY DEF FirstOfEach
  <2>2. T \cap g = (T \cap UNION G) \cap g
    OBVIOUS
  <2> QED BY <1>4, <2>1, <2>2
<1>7. ASSUME NEW h \in H \ G PROVE \E i \in Newest(rows, h) : T \cap h = {i}
  <2>1. c(h) \in T /\ c(h) \in h
    BY <1>1
  <2>2. ASSUME NEW z \in T \cap h PROVE z = c(h)
    <3>1. z \notin S
      BY <1>2, <1>3
    <3>2. PICK k \in H \ G : z = c(k)
      BY <3>1
    <3>3. z \in k
      BY <1>1, <3>2
    <3>4. k = h
      BY <3>3 DEF Apart
    <3> QED BY <3>2, <3>4
  <2>3. T \cap h = {c(h)}
    BY <2>1, <2>2
  <2> QED BY <1>1, <2>3
<1>8. T \in FirstOfEach(rows, H)
  BY <1>5, <1>6, <1>7 DEF FirstOfEach
<1> QED BY <1>4, <1>8

\* The gauge of an answer S: the columns it groups by, the prefixes it counts in a row, and
\* its rows
GaugeKey(i) == <<rows[i].speaker, rows[i].peer, rows[i].as, FamilyOf[rows[i].prefix]>>

InRow(S, w) == {j \in S \cap Announcements(rows) : GaugeKey(j) = w}

GaugeRows(S, L) ==
    [w \in {v \in {GaugeKey(i) : i \in S \cap Announcements(rows)} : L[<<v[1], v[2], v[4]>>] # Absent} |->
        [live |-> Cardinality({rows[i].prefix : i \in InRow(S, w)}), max |-> L[<<w[1], w[2], w[4]>>]]]

\* The announcements of one speaker, peer and family in an answer
LiveRows(S, s, p, f) == {i \in S \cap Announcements(rows) :
                            rows[i].speaker = s /\ rows[i].peer = p /\ FamilyOf[rows[i].prefix] = f}

\* With a limit for one speaker, peer and family, the gauge has a row for each AS among its
\* announcements and no other.
LEMMA GaugeDomain ==
    ASSUME HTypeOK, NEW s \in Speakers, NEW p \in Peers, NEW f \in StoredFamilies, NEW S
    PROVE  DOMAIN GaugeRows(S, UpsertMaxPrefix(NoLimits, s, p, f, 1))
              = {GaugeKey(i) : i \in LiveRows(S, s, p, f)}
<1> DEFINE L == UpsertMaxPrefix(NoLimits, s, p, f, 1)
           K == {GaugeKey(i) : i \in S \cap Announcements(rows)}
<1>1. L = [NoLimits EXCEPT ![<<s, p, f>>] = 1] /\ DOMAIN NoLimits = Speakers \X Peers \X StoredFamilies
  BY DEF UpsertMaxPrefix, NoLimits
<1>2. ASSUME NEW t \in Speakers, NEW q \in Peers, NEW g \in StoredFamilies
      PROVE  L[<<t, q, g>>] # Absent <=> t = s /\ q = p /\ g = f
  <2>1. <<t, q, g>> \in DOMAIN NoLimits /\ <<s, p, f>> \in DOMAIN NoLimits /\ NoLimits[<<t, q, g>>] = Absent
    BY <1>1 DEF NoLimits
  <2>2. 1 # Absent
    BY QueryAssumption
  <2>3. CASE t = s /\ q = p /\ g = f
    BY <1>1, <2>1, <2>2, <2>3
  <2>4. CASE ~(t = s /\ q = p /\ g = f)
    <3>1. <<t, q, g>> # <<s, p, f>>
      BY <2>4
    <3> QED BY <1>1, <2>1, <2>4, <3>1
  <2> QED BY <2>3, <2>4
<1> HIDE DEF L
<1>3. ASSUME NEW i \in S \cap Announcements(rows)
      PROVE  L[<<GaugeKey(i)[1], GaugeKey(i)[2], GaugeKey(i)[4]>>] # Absent <=> i \in LiveRows(S, s, p, f)
  <2>1. i \in RouteEvents(rows)
    BY DEF Announcements
  <2>2. rows[i].speaker \in Speakers /\ rows[i].peer \in Peers /\ FamilyOf[rows[i].prefix] \in StoredFamilies
    BY <2>1, PrefixOfRow DEF StoredFamilies
  <2>3. /\ GaugeKey(i)[1] = rows[i].speaker /\ GaugeKey(i)[2] = rows[i].peer
        /\ GaugeKey(i)[4] = FamilyOf[rows[i].prefix]
    BY DEF GaugeKey
  <2> QED BY <1>2, <2>2, <2>3 DEF LiveRows
<1>4. DOMAIN GaugeRows(S, L) = {v \in K : L[<<v[1], v[2], v[4]>>] # Absent}
  BY DEF GaugeRows
<1>5. LiveRows(S, s, p, f) \subseteq S \cap Announcements(rows)
  BY DEF LiveRows
<1>6. {v \in K : L[<<v[1], v[2], v[4]>>] # Absent} = {GaugeKey(i) : i \in LiveRows(S, s, p, f)}
  BY <1>3, <1>5
<1> QED BY <1>4, <1>6 DEF L

\* The rows of the gauge add up to the announcements of the family, if the answer has one row
\* of each prefix.
LEMMA GaugeAddsUp ==
    ASSUME HTypeOK, NEW s \in Speakers, NEW p \in Peers, NEW f \in StoredFamilies, NEW S,
           \A i, j \in LiveRows(S, s, p, f) : rows[i].prefix = rows[j].prefix => i = j
    PROVE  LET c == GaugeRows(S, UpsertMaxPrefix(NoLimits, s, p, f, 1))
           IN  Total([w \in DOMAIN c |-> c[w].live]) = Cardinality(LiveRows(S, s, p, f))
<1> DEFINE c == GaugeRows(S, UpsertMaxPrefix(NoLimits, s, p, f, 1))
           h == [w \in DOMAIN c |-> c[w].live]
           X == LiveRows(S, s, p, f)
           kappa == [i \in X |-> GaugeKey(i)]
<1>1. DOMAIN c = {GaugeKey(i) : i \in X}
  BY GaugeDomain
<1>2. \A w \in DOMAIN c : c[w].live = Cardinality({rows[i].prefix : i \in InRow(S, w)})
  BY DEF GaugeRows
<1>3. IsFiniteSet(X)
  <2>1. X \in SUBSET DOMAIN rows
    BY DEF LiveRows, Announcements, RouteEvents, Table
  <2> QED BY <2>1, FiniteRows
<1>4. ASSUME NEW w \in DOMAIN c PROVE InRow(S, w) = Class(X, kappa, w)
  <2>1. PICK i \in X : w = GaugeKey(i)
    BY <1>1
  <2>2. ASSUME NEW j \in S \cap Announcements(rows), GaugeKey(j) = w PROVE j \in X
    <3>1. rows[j].speaker = rows[i].speaker /\ rows[j].peer = rows[i].peer
          /\ FamilyOf[rows[j].prefix] = FamilyOf[rows[i].prefix]
      BY <2>1, <2>2 DEF GaugeKey
    <3> QED BY <3>1 DEF LiveRows
  <2>3. X \subseteq S \cap Announcements(rows)
    BY DEF LiveRows
  <2> HIDE DEF X
  <2> QED BY <2>2, <2>3 DEF InRow, Class
<1> HIDE DEF X, c
<1>5. kappa \in [X -> DOMAIN h]
  BY <1>1
<1>6. Counts(h, X, kappa)
  <2> SUFFICES ASSUME NEW w \in DOMAIN h PROVE h[w] = Cardinality(Class(X, kappa, w))
    BY DEF Counts
  <2> DEFINE C == Class(X, kappa, w)
             T == {rows[i].prefix : i \in C}
             g == [i \in C |-> rows[i].prefix]
  <2>1. h[w] = Cardinality(T)
    BY <1>2, <1>4
  <2>2. C \in SUBSET X
    BY DEF Class
  <2>3. IsFiniteSet(C)
    BY <1>3, <2>2, FS_Subset
  <2>4. \A a, b \in C : g[a] = g[b] => a = b
    BY <2>2 DEF X
  <2>5. g \in Injection(C, T) /\ g \in Surjection(C, T)
    BY <2>4 DEF Injection, IsInjective, Surjection
  <2> HIDE DEF C, T, g
  <2>6. Cardinality(C) = Cardinality(T)
    BY <2>3, <2>5, FS_Surjection, FS_Injection
  <2> QED BY <2>1, <2>6 DEF C
<1> HIDE DEF h, kappa
<1>7. Total(h) = Cardinality(X)
  BY <1>3, <1>5, <1>6, TotalCounts
<1> QED BY <1>7 DEF h, X, c

\* If one speaker reports the peer, the gauge's groups of the peer are the snapshot's.
LEMMA PeerGroups ==
    ASSUME HTypeOK, NEW s \in Speakers, NEW p \in Peers, ReportedBy(s, p)
    PROVE  /\ ByPrefix(OfPeer(p)) \in SUBSET ByRoute
           /\ UNION ByPrefix(OfPeer(p)) = OfPeer(p)
           /\ Apart(ByRoute)
           /\ \A h \in ByRoute : h \subseteq DOMAIN rows /\ h # {}
<1>1. ASSUME NEW g \in ByPrefix(OfPeer(p)) PROVE g \in ByRoute
  <2>1. PICK i \in OfPeer(p) : g = {j \in OfPeer(p) : rows[j].prefix = rows[i].prefix}
    BY DEF ByPrefix
  <2>2. i \in RouteEvents(rows) /\ \A j \in OfPeer(p) : rows[j].speaker = s /\ rows[j].peer = p
    BY DEF OfPeer, ReportedBy
  <2>3. g = {j \in RouteEvents(rows) : <<rows[j].speaker, rows[j].peer, rows[j].prefix>>
                                          = <<rows[i].speaker, rows[i].peer, rows[i].prefix>>}
    BY <2>1, <2>2 DEF OfPeer
  <2> QED BY <2>2, <2>3 DEF ByRoute
<1>2. UNION ByPrefix(OfPeer(p)) = OfPeer(p)
  BY DEF ByPrefix
<1>3. Apart(ByRoute)
  BY DEF Apart, ByRoute
<1>4. \A h \in ByRoute : h \subseteq DOMAIN rows /\ h # {}
  BY DEF ByRoute, RouteEvents, Table
<1> QED BY <1>1, <1>2, <1>3, <1>4

\* The announcements of the family in the gauge's answer are those of the snapshot's.
LEMMA LiveIsListed ==
    ASSUME NEW s, NEW p, NEW f, ReportedBy(s, p), NEW S,
           S \cap OfPeer(p) \in FirstOfEach(rows, ByPrefix(OfPeer(p)))
    PROVE  /\ LiveRows(S, s, p, f) = {i \in (S \cap OfPeer(p)) \cap Announcements(rows) :
                                        FamilyOf[rows[i].prefix] = f}
           /\ \A i, j \in LiveRows(S, s, p, f) : rows[i].prefix = rows[j].prefix => i = j
<1>1. LiveRows(S, s, p, f) = {i \in (S \cap OfPeer(p)) \cap Announcements(rows) :
                                FamilyOf[rows[i].prefix] = f}
  BY DEF LiveRows, OfPeer, Announcements, ReportedBy
<1>2. \A i, j \in S \cap OfPeer(p) : rows[i].prefix = rows[j].prefix => i = j
  BY OneRowPerPrefix
<1> QED BY <1>1, <1>2

\* What the rows of max_prefix_capacity for a peer that one speaker reports may add up to is
\* what current_rib may list of the family (query.rs 50-71, 695-777).
LEMMA Gauge == HInv => GaugeIsSnapshot
<1> SUFFICES ASSUME HInv, NEW s \in Speakers, NEW p \in Peers, NEW f \in StoredFamilies, ReportedBy(s, p)
             PROVE  LiveCounts(s, p, f) = SnapshotSizes(p, f)
  BY DEF GaugeIsSnapshot
<1>0. HTypeOK /\ InTime
  BY DEF HInv
<1> DEFINE J == OfPeer(p)
           G == ByPrefix(J)
           L == UpsertMaxPrefix(NoLimits, s, p, f, 1)
           value(c) == Total([w \in DOMAIN c |-> c[w].live])
           shown(S) == {i \in S \cap Announcements(rows) : FamilyOf[rows[i].prefix] = f}
<1>1. SnapshotSizes(p, f) = {Cardinality(shown(S)) : S \in FirstOfEach(rows, G)}
  <2>1. {i \in RouteEvents(rows) : rows[i].peer = p /\ rows[i].rib \in StoredTypes} = J
    BY DEF OfPeer, StoredTypes
  <2>2. CurrentRib(rows, p, StoredTypes) = {S \cap Announcements(rows) : S \in FirstOfEach(rows, G)}
    BY <2>1 DEF CurrentRib, Groups, ByPrefix
  <2> QED BY <2>2 DEF SnapshotSizes
<1>2. /\ G \in SUBSET ByRoute /\ UNION G = J /\ Apart(ByRoute)
      /\ \A h \in ByRoute : h \subseteq DOMAIN rows /\ h # {}
  BY <1>0, PeerGroups
<1>3. \A h \in ByRoute : Newest(rows, h) # {}
  BY <1>0, <1>2, NewestExists
<1>4. LiveCounts(s, p, f) = {value(GaugeRows(S, L)) : S \in FirstOfEach(rows, ByRoute)}
  <2>1. MaxPrefixCapacity(rows, L) = {GaugeRows(S, L) : S \in FirstOfEach(rows, ByRoute)}
    BY DEF MaxPrefixCapacity, ByRoute, Groups, GaugeRows, GaugeKey, InRow
  <2> HIDE DEF L
  <2> QED BY <2>1 DEF LiveCounts, L
<1>5. ASSUME NEW S, S \cap J \in FirstOfEach(rows, G)
      PROVE  value(GaugeRows(S, L)) = Cardinality(shown(S \cap J))
  <2>1. /\ LiveRows(S, s, p, f) = shown(S \cap J)
        /\ \A i, j \in LiveRows(S, s, p, f) : rows[i].prefix = rows[j].prefix => i = j
    BY <1>5, LiveIsListed
  <2> HIDE DEF shown
  <2> QED BY <1>0, <2>1, GaugeAddsUp
<1> HIDE DEF J, G, L, value, shown
<1>6. ASSUME NEW n \in LiveCounts(s, p, f) PROVE n \in SnapshotSizes(p, f)
  <2>1. PICK S \in FirstOfEach(rows, ByRoute) : n = value(GaugeRows(S, L))
    BY <1>4
  <2>2. S \cap J \in FirstOfEach(rows, G)
    BY <1>2, <2>1, AnswerForSome
  <2> QED BY <1>1, <1>5, <2>1, <2>2
<1>7. ASSUME NEW n \in SnapshotSizes(p, f) PROVE n \in LiveCounts(s, p, f)
  <2>1. PICK S \in FirstOfEach(rows, G) : n = Cardinality(shown(S))
    BY <1>1
  <2>2. PICK T \in FirstOfEach(rows, ByRoute) : T \cap J = S
    BY <1>2, <1>3, <2>1, AnswerForAll
  <2> QED BY <1>4, <1>5, <2>1, <2>2
<1> QED BY <1>6, <1>7

\* For every content the tables can have, and whichever rows the database picks among equal
\* stamps: gauge, snapshot, policy delta, prefix peers, flaps, churn and status matrix, each
\* with its own grouping and window, fit together (query.rs 50-120, 147-204, 238-265,
\* 312-333, 695-777, 852-986).
THEOREM QueriesAgreeHolds == HistorySpec => []QueriesAgree
<1>1. HInv => QueriesAgree
  BY Gauge, DeltaCovers, PeersCover, Flaps, Churn, Unprotected DEF QueriesAgree
<1> QED
  BY <1>1, HistoryInvariant, PTL

=============================================================================
