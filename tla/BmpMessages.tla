---------------------------- MODULE BmpMessages -----------------------------
(***************************************************************************)
(* BMP messages (crates/rbmp-core/src/bmp: parser.rs, path_status_tlv.rs   *)
(* and RibType::from_peer of types.rs).  Texts are byte strings.           *)
(***************************************************************************)
EXTENDS BgpMessages

CONSTANT MaxFrame              \* max_frame, compared with the declared length

MsgTypes ==
    <<"route_monitoring", "stats_report", "peer_down", "peer_up", "initiation",
      "termination", "route_mirroring">>

----------------------------------------------------------------------------
(* The per-peer header: 42 bytes. *)

from_peer(peer_type, flags) ==
    LET post == IF Bit(flags, 64) THEN "post" ELSE "pre"
    IN  IF peer_type = 3 THEN IF Bit(flags, 8) THEN <<"loc-rib-filtered">> ELSE <<"loc-rib">>
        ELSE IF peer_type = 2 \/ Bit(flags, 16) THEN <<"adj-rib-out", post>>
        ELSE <<"adj-rib-in", post>>

(* An IPv4 address is the last four of the sixteen bytes. *)
AddrField(b, ipv6) == IF ipv6 THEN b ELSE Drop(b, 12)

parse_peer_header(b) ==
    LET f == Cut(b, <<1, 1, 8, 16, 4, 4, 4, 4>>).val
    IN  IF Len(b) < 42 \/ b[1] \notin 0..3 THEN Err
        ELSE Ok([type |-> b[1], flags |-> b[2], rd |-> f[3],
                 addr |-> AddrField(f[4], Bit(b[2], 128)), as |-> f[5], bgp_id |-> f[6],
                 timestamp |-> <<f[7], f[8]>>, rib_type |-> from_peer(b[1], b[2])])

(* A body after the peer header; Body gets the header and the bytes left. *)
WithPeer(b, min, Body(_, _)) ==
    Then(parse_peer_header(b), LAMBDA h :
        IF Len(b) < 42 + min THEN Err ELSE Body(h, Drop(b, 42)))

----------------------------------------------------------------------------
Id(v) == v

parse_initiation(b) ==
    LET tlvs == Tlvs22(b)
    IN  Ok([sys_descr |-> LastVal(tlvs, 0, 0, Id), sys_name |-> LastVal(tlvs, 1, 0, Id),
            labels |-> MapSeq(OfType(tlvs, 2, 0), LAMBDA x : x.val)])

parse_termination(b) ==
    LET tlvs == Tlvs22(b)
        code == LastVal(tlvs, 0, 2, LAMBDA v : U16(v, 1))
    IN  Ok([reason_code |-> IF code = None THEN 0 ELSE code[1],
            reason_text |-> LastVal(tlvs, 1, 0, Id)])

(* The first OPEN ends where its own length says. *)
bgp_open_pdu_len(b) == IF Len(b) < 19 THEN Len(b) ELSE U16(b, 17)

(* Without the comparison of the declared length with what is left. *)
parse_bgp_open_pdu_unchecked(b) == parse_bgp_open(b)

parse_bgp_open_pdu(b) ==
    IF Len(b) < 19 \/ Len(b) < U16(b, 17) THEN Err ELSE parse_bgp_open(Take(b, U16(b, 17)))

parse_peer_up(b) ==
    WithPeer(b, 20, LAMBDA h, r :
        LET pdus == Drop(r, 20) IN
        Then(parse_bgp_open_pdu(pdus), LAMBDA sent :
        Then(parse_bgp_open_pdu(Drop(pdus, bgp_open_pdu_len(pdus))), LAMBDA recv :
            Ok([header |-> h, local_addr |-> AddrField(Take(r, 16), Bit(h.flags, 128)),
                ports |-> <<U16(r, 17), U16(r, 19)>>,
                sent_open |-> sent, recv_open |-> recv]))))

(* Reasons 1 and 3 carry the NOTIFICATION that follows. *)
parse_peer_down(b) ==
    WithPeer(b, 1, LAMBDA h, r :
        Ok([header |-> h, reason |-> r[1],
            notification |-> IF r[1] \in {1, 3} THEN Some(Drop(r, 1)) ELSE None]))

----------------------------------------------------------------------------
(* Route monitoring, with the path status TLV looked for from the start of *)
(* the BGP message.                                                        *)

parse_path_status_tlv(v) ==
    IF Len(v) < 4 THEN None
    ELSE Some([status |-> Take(v, 4), reason |-> IF Len(v) >= 6 THEN U16(v, 5) ELSE 0])

find_path_status_tlv(b, t) ==
    LET hits == OfType(Tlvs22(b), t, 0)
    IN  IF hits = <<>> THEN None ELSE parse_path_status_tlv(Head(hits).val)

parse_route_monitoring(b) ==
    WithPeer(b, 19, LAMBDA h, r :
        Then(parse_bgp_update(r, FALSE), LAMBDA u :
            Ok([header |-> h, update |-> u, path_status |-> find_path_status_tlv(r, 6)])))

----------------------------------------------------------------------------
(* Statistics: at most stat_count entries, the values by length. *)

StatsPerAfi11 == {19, 21, 22, 23, 25, 26, 27, 28, 30, 32, 34, 35, 36, 38}
StatsPerAfi7  == {9, 10, 13, 14}

StatEntry(x) ==
    LET n == Len(x.val)
        per_afi == \/ x.type \in StatsPerAfi11 /\ n = 11
                   \/ x.type \in StatsPerAfi7 /\ n = 7
    IN  [stat_type |-> x.type,
         afi_safi |-> IF per_afi THEN Some(<<U16(x.val, 1), x.val[3]>>) ELSE None,
         value |-> IF per_afi THEN Zeros(11 - n) \o Drop(x.val, 3)
                   ELSE IF n \in {4, 8} THEN Zeros(8 - n) \o x.val ELSE Zeros(8)]

(* The count is compared only where it fits the model's integers. *)
StatCount(r, most) ==
    IF r[1] # 0 \/ U24(r, 2) > most THEN most ELSE U24(r, 2)

parse_stats_report(b) ==
    WithPeer(b, 4, LAMBDA h, r :
        LET entries == MapSeq(Tlvs22(Drop(r, 4)), StatEntry)
        IN  Ok([header |-> h, stats |-> Take(entries, StatCount(r, Len(entries)))]))

(* The last mirrored message. *)
parse_route_mirroring(b) ==
    WithPeer(b, 0, LAMBDA h, r :
        LET pdu == LastVal(Tlvs22(r), 0, 0, Id)
        IN  Ok([header |-> h, pdu |-> IF pdu = None THEN <<>> ELSE pdu[1]]))

----------------------------------------------------------------------------
parse_bmp_message(b) ==
    LET body == Drop(b, 6)
    IN  IF \/ Len(b) < 6 \/ b[1] # 3 \/ b[2] # 0 \/ U24(b, 3) > MaxFrame \/ b[6] \notin 0..6
        THEN Err
        ELSE Then(CASE b[6] = 0 -> parse_route_monitoring(body)
                    [] b[6] = 1 -> parse_stats_report(body)
                    [] b[6] = 2 -> parse_peer_down(body)
                    [] b[6] = 3 -> parse_peer_up(body)
                    [] b[6] = 4 -> parse_initiation(body)
                    [] b[6] = 5 -> parse_termination(body)
                    [] b[6] = 6 -> parse_route_mirroring(body),
                  LAMBDA p : Ok([type |-> MsgTypes[b[6] + 1], payload |-> p]))
=============================================================================
