------------------------------ MODULE Collector ------------------------------
(***************************************************************************)
(* The edge collector and its link to Core:                                *)
(* crates/rbmp-server/src/bin/collector.rs (handle_speaker, run_forwarder),*)
(* crates/rbmp-core/src/collector_protocol.rs (the frames) and             *)
(* handle_collector_conn in crates/rbmp-server/src/main.rs.                *)
(*                                                                         *)
(* Speaker tasks put PDUs into a bounded ring; one forwarder takes them    *)
(* out and writes them to a TCP connection, which it replaces when a write *)
(* fails.  Core runs one task per connection, so the task of a broken      *)
(* connection and that of its successor may run side by side.  TCP is      *)
(* external: a connection keeps order, and when it breaks it loses a       *)
(* suffix of what was written to it, and later writes may still succeed.   *)
(***************************************************************************)
EXTENDS Integers, Sequences, FiniteSets, SequencesExt

CONSTANTS
    Speakers,
    Malformed,   \* PDUs that Core cannot parse: pairs of speaker and number
    RingCap,     \* ring_capacity
    MaxPdus,     \* bound: PDUs per speaker
    MaxCuts      \* bound: connections that break

ASSUME CollectorAssumption ==
    /\ RingCap \in Nat \ {0}
    /\ MaxPdus \in Nat /\ MaxCuts \in Nat

Pdus  == Speakers \X (1 .. MaxPdus)
Conns == 1 .. MaxCuts + 1

ASSUME MalformedAssumption == Malformed \subseteq Pdus

VARIABLES
    sent,        \* PDUs each speaker has sent
    ring,        \* the mpsc channel
    held,        \* the envelope the forwarder has taken out and not yet written, if any
    link,        \* connection of the forwarder, 0 while it has none
    opened,      \* connections opened so far
    whole,       \* connections that have not broken
    wire,        \* written to a connection and not yet read by Core
    received,    \* Core's message channel, with the connection of each PDU
    overflow     \* history: PDUs dropped because the ring was full

collectorVars == <<sent, ring, held, link, opened, whole, wire, received, overflow>>

CollectorInit ==
    /\ sent = [s \in Speakers |-> 0]
    /\ ring = <<>> /\ held = <<>>
    /\ link = 0 /\ opened = 0 /\ whole = {}
    /\ wire = [c \in Conns |-> <<>>]
    /\ received = <<>> /\ overflow = {}

-----------------------------------------------------------------------------
(* Edge *)

\* handle_speaker: one PDU is read and offered to the ring
Receive(s) ==
    /\ sent[s] < MaxPdus
    /\ sent' = [sent EXCEPT ![s] = @ + 1]
    /\ LET pdu == <<s, sent[s] + 1>> IN
       IF Len(ring) < RingCap
         THEN ring' = Append(ring, pdu) /\ UNCHANGED overflow
         ELSE overflow' = overflow \cup {pdu} /\ UNCHANGED ring
    /\ UNCHANGED <<held, link, opened, whole, wire, received>>

\* Mutant: the forwarder connects once and does not return to the outer loop
ConnectOnce ==
    /\ link = 0 /\ opened = 0
    /\ link' = opened + 1 /\ opened' = opened + 1
    /\ whole' = whole \cup {opened + 1}
    /\ UNCHANGED <<sent, ring, held, wire, received, overflow>>

\* run_forwarder: the inner connect loop; failed attempts change only the delay
Connect ==
    /\ link = 0 /\ opened < MaxCuts + 1
    /\ link' = opened + 1 /\ opened' = opened + 1
    /\ whole' = whole \cup {opened + 1}
    /\ UNCHANGED <<sent, ring, held, wire, received, overflow>>

\* Mutant: the forwarder takes an envelope while it holds another one
DequeueOver ==
    /\ link # 0 /\ ring # <<>>
    /\ held' = <<Head(ring)>> /\ ring' = Tail(ring)
    /\ UNCHANGED <<sent, link, opened, whole, wire, received, overflow>>

Dequeue ==
    /\ link # 0 /\ held = <<>> /\ ring # <<>>
    /\ held' = <<Head(ring)>> /\ ring' = Tail(ring)
    /\ UNCHANGED <<sent, link, opened, whole, wire, received, overflow>>

\* Mutant: the envelope is kept after it was written
WriteKeeps ==
    /\ held # <<>> /\ link \in whole
    /\ wire' = [wire EXCEPT ![link] = @ \o held]
    /\ UNCHANGED <<sent, ring, held, link, opened, whole, received, overflow>>

WriteFrame ==
    /\ held # <<>> /\ link \in whole
    /\ wire' = [wire EXCEPT ![link] = @ \o held]
    /\ held' = <<>>
    /\ UNCHANGED <<sent, ring, link, opened, whole, received, overflow>>

\* A write that the kernel of the edge accepts and the broken connection loses
WriteLost ==
    /\ held # <<>> /\ link # 0 /\ link \notin whole
    /\ held' = <<>>
    /\ UNCHANGED <<sent, ring, link, opened, whole, wire, received, overflow>>

\* The write fails: the envelope is gone and the forwarder reconnects
WriteFails ==
    /\ held # <<>> /\ link # 0 /\ link \notin whole
    /\ held' = <<>> /\ link' = 0
    /\ UNCHANGED <<sent, ring, opened, whole, wire, received, overflow>>

-----------------------------------------------------------------------------
(* TCP and Core *)

\* The connection breaks; Core may still read a prefix of what was under way
Break(c) ==
    /\ c \in whole /\ opened - Cardinality(whole) < MaxCuts
    /\ whole' = whole \ {c}
    /\ \E n \in 0 .. Len(wire[c]) : wire' = [wire EXCEPT ![c] = SubSeq(@, 1, n)]
    /\ UNCHANGED <<sent, ring, held, link, opened, received, overflow>>

\* Mutant: Core reads the newest frame first
CoreReadsNewest(c) ==
    /\ wire[c] # <<>>
    /\ received' = Append(received, <<wire[c][Len(wire[c])], c>>)
    /\ wire' = [wire EXCEPT ![c] = SubSeq(@, 1, Len(@) - 1)]
    /\ UNCHANGED <<sent, ring, held, link, opened, whole, overflow>>

\* handle_collector_conn: one frame is read; a PDU that does not parse is skipped
CoreReads(c) ==
    /\ wire[c] # <<>>
    /\ LET pdu == Head(wire[c]) IN
       received' = IF pdu \in Malformed THEN received
                                        ELSE Append(received, <<pdu, c>>)
    /\ wire' = [wire EXCEPT ![c] = Tail(@)]
    /\ UNCHANGED <<sent, ring, held, link, opened, whole, overflow>>

CollectorNext ==
    \/ \E s \in Speakers : Receive(s)
    \/ Connect \/ Dequeue \/ WriteFrame \/ WriteLost \/ WriteFails
    \/ \E c \in Conns : Break(c) \/ CoreReads(c)

\* Core is reachable again in the end; TCP does not swallow writes for ever
CollectorFairness ==
    /\ WF_collectorVars(Connect) /\ WF_collectorVars(Dequeue) /\ WF_collectorVars(WriteFrame)
    /\ SF_collectorVars(WriteFails)
    /\ \A c \in Conns : WF_collectorVars(CoreReads(c))

CollectorSpec == CollectorInit /\ [][CollectorNext]_collectorVars /\ CollectorFairness

-----------------------------------------------------------------------------
(* Properties *)

Arrived   == {received[k][1] : k \in 1 .. Len(received)}
OnTheWay  ==
    ToSet(ring) \cup ToSet(held) \cup UNION {ToSet(wire[c]) : c \in Conns}
Sent      == {p \in Pdus : p[2] <= sent[p[1]]}

\* Variables have their types; the ring keeps its capacity.
CollectorTypeOK ==
    /\ sent \in [Speakers -> 0 .. MaxPdus]
    /\ ring \in Seq(Pdus) /\ Len(ring) <= RingCap
    /\ held \in {<<>>} \cup {<<p>> : p \in Pdus}
    /\ opened \in 0 .. MaxCuts + 1 /\ link \in 0 .. opened /\ whole \subseteq 1 .. opened
    /\ wire \in [Conns -> Seq(Pdus)]
    /\ received \in Seq((Pdus \ Malformed) \X Conns)
    /\ overflow \subseteq Pdus

\* Reconnecting never delivers a PDU twice: no PDU is received while a copy of
\* it is still on the way, or again after it.  And two PDUs of one speaker change
\* places only if the link was replaced between them, when the tasks of both
\* connections feed the channel side by side.
OnceAndInOrder ==
    /\ Cardinality(Arrived) = Len(received)
    /\ Arrived \cap OnTheWay = {}
    /\ \A i, j \in 1 .. Len(received) :
          LET p == received[i][1] q == received[j][1] IN
          (i < j /\ p[1] = q[1] /\ p[2] > q[2]) => received[i][2] > received[j][2]

\* While no connection breaks, a PDU is received, on the way, unparsable, or was
\* refused by a full ring; nothing is lost elsewhere.
LossOnlyByOverflow ==
    whole = 1 .. opened =>
        (Sent \ Malformed) \subseteq (Arrived \cup OnTheWay \cup overflow)

\* Once Core stays reachable the collector catches up: ring and link run empty.
BacklogDrains == <>[](OnTheWay = {})
==============================================================================
