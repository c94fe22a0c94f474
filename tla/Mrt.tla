-------------------------------- MODULE Mrt ---------------------------------
(***************************************************************************)
(* MRT files (RFC 6396) of crates/rbmp-mrt/src: what writer.rs appends for *)
(* a BGP message, a change of a session's state, a peer table and a route, *)
(* and what reader.rs makes of such a file.  Timestamps, AS numbers and    *)
(* addresses are their bytes; a body is shorter than 2^24 bytes.           *)
(***************************************************************************)
EXTENDS RouterEncoder

(* types.rs *)
MrtType == [TableDumpV2 |-> 13, Bgp4Mp |-> 16]
TableDumpV2Subtype == [PeerIndexTable |-> 1, RibIpv4Unicast |-> 2, RibIpv6Unicast |-> 4]
Bgp4MpSubtype == [MessageAs4 |-> 4, StateChangeAs4 |-> 5]
BgpState == [Idle |-> 1, Active |-> 3, Established |-> 6]

IsV6(addr) == Len(addr) = 16

----------------------------------------------------------------------------
(* writer.rs *)

write_mrt_header(ts, type, subtype, length) ==
    ts \o Put16(type) \o Put16(subtype) \o <<0>> \o Put24(length)

(* A labelled or VPN prefix is written as the prefix inside. *)
write_prefix_nlri(p) ==
    LET net == IF "prefix" \in DOMAIN p THEN p.prefix ELSE p
    IN  <<net.len>> \o Take(net.addr, Octets(net.len))

(* What messages and state changes begin with, and the length declared for *)
(* it: both addresses are counted with the size of the peer's.             *)
Bgp4MpFields(r) ==
    r.peer_as \o r.local_as \o Put16(r.interface)
    \o Put16(IF IsV6(r.peer_addr) THEN 2 ELSE 1) \o r.peer_addr \o r.local_addr
Bgp4MpLen(r) == 12 + 2 * Len(r.peer_addr)

write_bgp4mp_message(r) ==
    write_mrt_header(r.ts, MrtType.Bgp4Mp, Bgp4MpSubtype.MessageAs4,
                     Bgp4MpLen(r) + Len(r.pdu))
    \o Bgp4MpFields(r) \o r.pdu

write_bgp4mp_state_change(r) ==
    write_mrt_header(r.ts, MrtType.Bgp4Mp, Bgp4MpSubtype.StateChangeAs4, Bgp4MpLen(r) + 4)
    \o Bgp4MpFields(r) \o Put16(r.old) \o Put16(r.new)

write_peer_index_table(r) ==
    LET Entry(p) == <<IF IsV6(p.addr) THEN 3 ELSE 2>> \o p.bgp_id \o p.addr \o p.as
        body == r.collector_id \o Len16(r.view_name) \o Put16(Len(r.peers)) \o Cat(r.peers, Entry)
    IN  write_mrt_header(r.ts, MrtType.TableDumpV2, TableDumpV2Subtype.PeerIndexTable, Len(body))
        \o body

RibSubtype(p) ==
    IF "addr" \in DOMAIN p /\ IsV6(p.addr) THEN TableDumpV2Subtype.RibIpv6Unicast
    ELSE TableDumpV2Subtype.RibIpv4Unicast

write_rib_entry(r) ==
    LET Entry(e) == Put16(e.peer_index) \o e.originated \o Len16(e.path_attrs)
        body == r.seq \o write_prefix_nlri(r.prefix) \o Put16(Len(r.entries)) \o Cat(r.entries, Entry)
    IN  write_mrt_header(r.ts, MrtType.TableDumpV2, RibSubtype(r.prefix), Len(body)) \o body

(* The record of an event of the RIB: a session that came up or went down. *)
StateChange(e) ==
    [ts |-> e.ts, peer_as |-> e.peer_as, local_as |-> Zeros(4), interface |-> 0,
     peer_addr |-> e.peer_addr, local_addr |-> Zeros(4),
     old |-> IF e.payload = "peer_up" THEN BgpState.Active ELSE BgpState.Established,
     new |-> IF e.payload = "peer_up" THEN BgpState.Established ELSE BgpState.Idle]

rib_event_to_mrt(e) ==
    IF e.payload \in {"peer_up", "peer_down"} THEN write_bgp4mp_state_change(StateChange(e)) ELSE <<>>

----------------------------------------------------------------------------
(* reader.rs *)

(* A length of 2^24 or more is past the end of every file. *)
BodyLength(b) == IF b[9] # 0 THEN 2^24 ELSE U24(b, 10)

MrtRecord(x) ==
    [ts |-> Take(x.head, 4), type |-> U16(x.head, 5), subtype |-> U16(x.head, 7), body |-> x.body]

(* The iteration over a file: fewer bytes than a header end it, a body     *)
(* that runs past the end is a last item that failed.                      *)
read_records(file) ==
    LET w == Walk(file, 12, LAMBDA b : 12, BodyLength)
    IN  [records |-> MapSeq(w.items, MrtRecord), failed |-> ~w.whole]

parse_bgp4mp_header(body) ==
    IF Len(body) < 12 THEN Err
    ELSE LET n == IF U16(body, 11) = 2 THEN 16 ELSE 4 IN
         Then(Cut(body, <<4, 4, 2, 2, n, n>>), LAMBDA f :
             Ok([header |-> [peer_as |-> f[1], local_as |-> f[2], interface |-> U16(f[3], 1),
                             peer_addr |-> f[5], local_addr |-> f[6]],
                 rest |-> Drop(body, 12 + 2 * n)]))

parse_bgp4mp_message(body) == parse_bgp4mp_header(body)

parse_bgp4mp_state_change(body) ==
    Then(parse_bgp4mp_header(body), LAMBDA h :
        IF Len(h.rest) < 4 THEN Err
        ELSE Ok([header |-> h.header, old |-> U16(h.rest, 1), new |-> U16(h.rest, 3)]))
=============================================================================
