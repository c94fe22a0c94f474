------------------------------ MODULE MCIngest ------------------------------
(* What arrives from a router, in two parts:                                 *)
(*   stream   the read loops that cut the bytes of a connection into frames, *)
(*            and the governor                                               *)
(*   message  the encoding and decoding of one message or MRT file           *)
(* Of messages: a few items of every kind, with the lengths at which the     *)
(* decoders branch (no bits, a partial byte, a full address; one and two     *)
(* labels; short and long forms; present and absent options).                *)
EXTENDS BmpFraming, WireExchange

VARIABLE part

Rd  == <<0, 1, 0, 0, 253, 232, 0, 7>>
Esi == <<1, 2, 3, 4, 5, 6, 7, 8, 9, 0>>
Ip4 == <<10, 1, 2, 3>>
Ip6 == <<32, 1, 13, 184, 0, 0, 0, 0, 0, 0, 0, 0, 0, 0, 0, 9>>
Tag == <<0, 0, 0, 5>>
P(len, bytes)  == Net(bytes, len, 4)
P6(len, bytes) == Net(bytes, len, 16)

MCPrefixes == <<P(0, <<>>), P(8, <<10>>), P(9, <<10, 128>>), P(32, <<192, 0, 2, 24>>)>>
MCPrefixes6 == <<P6(0, <<>>), P6(33, <<32, 1, 13, 184, 128>>), P6(128, Ip6)>>
MCLabeled == <<[labels |-> <<16>>, prefix |-> P(8, <<10>>)],
              [labels |-> <<17, 1048575>>, prefix |-> P(25, <<10, 2, 3, 128>>)]>>
MCVpn == <<[labels |-> <<299>>, rd |-> Rd, prefix |-> P(0, <<>>)],
          [labels |-> <<3>>, rd |-> Rd, prefix |-> P(17, <<172, 16, 128>>)]>>

R(t, f) == [type |-> t, fields |-> f]
MCEvpn == <<R(1, <<Rd, Esi, Tag, 77>>),
           R(2, <<Rd, Esi, Tag, <<2, 0, 0, 0, 0, 1>>, <<>>, 5, None>>),
           R(2, <<Rd, Esi, Tag, <<2, 0, 0, 0, 0, 1>>, Ip4, 5, Some(6)>>),
           R(3, <<Rd, Tag, Ip4>>), R(4, <<Rd, Esi, Ip6>>),
           R(5, <<Rd, Esi, Tag, 24, <<10, 1, 2, 0>>, None, 9>>),
           R(6, <<Rd, Tag, Ip4, <<232, 0, 0, 1>>, Ip4>>),
           R(11, <<<<1, 2>>, <<0, 0, 0, 4>>>>), R(12, <<<<7>>>>)>>

C(t, v)       == [type |-> t, val |-> v]
Op(f, v)      == [and |-> FALSE, flags |-> f, value |-> v]
MCFlowspec == <<<<C(1, <<9, <<10, 128, 0, 0>>>>), C(3, <<Op(1, <<6>>)>>)>>,
               <<C(5, <<Op(2, <<0, 80>>), [Op(4, <<1, 187>>) EXCEPT !.and = TRUE]>>),
                 C(9, <<Op(1, <<2>>)>>)>>,
               <<C(13, [i \in 1..240 |-> 1])>>>>

Node == [asn |-> Some(<<0, 0, 253, 232>>), bgp_ls_id |-> None, ospf_area |-> None,
         igp_router |-> Some(<<0, 0, 0, 0, 0, 1>>)]
L(t, b) == [type |-> t, protocol |-> 2, identifier |-> Zeros(8), body |-> b]
MCBgpLs == <<L(1, Node),
            L(2, [local_node |-> Node, remote_node |-> [Node EXCEPT !.asn = None],
                  local_id |-> Some(<<0, 0, 0, 1>>), remote_id |-> Some(<<0, 0, 0, 2>>),
                  local_addr |-> Some(Ip4), remote_addr |-> Some(Ip6)]),
            L(3, [local_node |-> Node, prefix |-> P(9, <<10, 128>>)]),
            L(6, [local_node |-> Node, srv6_sid |-> Ip6, endpoint_behavior |-> Some(5),
                  sid_structure |-> Some(<<32, 16, 16, 0>>)])>>

Stat(t, a, v) == [stat_type |-> t, afi_safi |-> a, value |-> Zeros(4) \o v]
MCStats == <<Stat(0, None, Ip4), Stat(7, None, Tag), Stat(9, Some(<<1, 1>>), Ip4),
            Stat(13, None, Tag), Stat(19, Some(<<2, 1>>), Ip4)>>

Seg(t, a) == [type |-> t, asns |-> a]
MCAsPath == <<Seg(2, <<<<0, 0, 253, 76>>, <<0, 1, 0, 7>>>>), Seg(2, <<<<0, 0, 2, 1>>>>),
             Seg(1, <<<<0, 0, 0, 1>>>>), Seg(2, <<<<0, 0, 2, 0>>>>), Seg(2, <<<<0, 1, 5, 0>>>>)>>

T(t, v, meaning) == [type |-> t, val |-> v, means |-> meaning]
MCLsTlvs == <<T(1024, <<8, 1>>, Some(8)), T(1028, Ip4, Some(Ip4)), T(1028, <<1, 2>>, None),
             T(1034, <<192, 0, 0, 31, 64, 1, 3, 0, 62, 128>>,
               Some(<<192, <<<<<<0, 62, 128>>, <<0, 31, 64>>>>>>>>)),
             T(1083, Zeros(28) \o Ip4, [i \in 1..7 |-> Zeros(4)] \o <<Ip4>>),
             T(1094, Ip4 \o Tag, <<Ip4, Tag>>), T(1095, <<1, 2>>, Some(<<0, 0, 1, 2>>)),
             T(1099, <<1, 2, 0, 0, 0, 93, 192>>, Some(<<1, 2, <<0, 93, 192>>>>)),
             T(1158, <<1, 0, 0, 0>> \o Tag, Some(<<1, 0, Tag>>)),
             T(1039, <<128, 0, 0, 5>> \o PutTlv22(3, Tag),
               Some(<<<<128, 0, 0, 5>>, <<None, None, Some(Tag)>>>>)),
             T(2000, <<1>>, None)>>

Path(pref, name, segs) ==
    [preference |-> <<0, 0, pref, 0>>, name |-> name,
     lists |-> IF segs = <<>> THEN <<>> ELSE <<[weight |-> Tag, segments |-> segs]>>]
Segment(t, d) == [type |-> t, data |-> d]
MCPaths == <<Path(1, None, <<Segment(2, Ip6), Segment(3, <<128>> \o Ip4 \o <<7>>)>>),
            Path(2, Some(<<65>>), <<>>), Path(2, None, <<>>)>>

MCVpls == <<<<Rd, <<0, 1>>, <<0, 2>>, <<0, 8>>, 1000>>, <<Rd, <<0, 3>>, <<0, 4>>, <<0, 8>>, 16>>>>
MCSrPolicy == <<<<Tag, <<0, 0, 0, 100>>, Ip4>>, <<<<0, 0, 0, 6>>, <<0, 0, 0, 100>>, Ip4>>>>
Rtc(len, data, asn) == [len |-> len, data |-> data, origin_as |-> asn]
MCRtc == <<Rtc(0, <<>>, None), Rtc(96, <<0, 0, 253, 232>> \o Rd, Some(<<0, 0, 253, 232>>)),
          Rtc(20, <<0, 0, 253>>, None)>>

----------------------------------------------------------------------------
(* Parts of an UPDATE. *)

W(p) == [part |-> "withdraw", val |-> p]
A(p) == [part |-> "announce", val |-> p]
At(t, v, form) == [part |-> "attr", type |-> t, val |-> v, form |-> form]
Mp14(afi, safi, hops, prefixes, routes) ==
    [afi |-> afi, safi |-> safi, hops |-> hops, prefixes |-> prefixes, routes |-> routes]
Mp15(afi, safi, prefixes, routes) == Mp14(afi, safi, <<>>, prefixes, routes)

MCMpReach ==
    <<Mp14(2, 1, <<Ip6>>, <<P6(33, <<32, 1, 13, 184, 128>>), P6(0, <<>>)>>, <<>>),
     Mp14(1, 4, <<Ip4>>, Take(MCLabeled, 1), <<>>), Mp14(1, 128, <<Ip4>>, Take(MCVpn, 1), <<>>),
     Mp14(25, 70, <<Ip4>>, <<>>, <<R(3, <<Rd, Tag, Ip4>>)>>),
     Mp14(1, 133, <<>>, <<>>, <<<<C(3, <<Op(1, <<6>>)>>)>>>>),
     Mp14(1, 73, <<Ip4>>, <<>>, Take(MCSrPolicy, 1))>>

MCMpUnreach ==
    <<Mp15(2, 1, <<P6(33, <<32, 1, 13, 184, 128>>)>>, <<>>), Mp15(2, 1, <<>>, <<>>),
     Mp15(16388, 71, <<>>, <<L(1, Node)>>)>>

MCAttrs ==
    <<At(1, 0, 0), At(2, <<Seg(2, <<<<0, 0, 253, 76>>, <<0, 0, 0, 7>>>>)>>, 2),
     At(2, <<Seg(2, <<<<0, 1, 0, 7>>>>)>>, 4), At(5, Tag, 1), At(6, TRUE, 0),
     At(7, <<<<0, 0, 0, 7>>, Ip4>>, 2),
     At(8, <<<<253, 232, 0, 1>>, <<253, 232, 0, 2>>>>, 1), At(32, <<Ip4 \o Tag \o Tag>>, 0),
     At(23, <<[tunnel_type |-> 8, info |-> [endpoint |-> Some(Ip4), color |-> Some(Tag)]]>>, 0),
     At(30, [asns |-> <<Tag>>, blocks |-> 1], 0),
     At(40, [label_index |-> Some(Tag), originator_srgb |-> None,
             srv6_l3_service |-> Some(<<<<Ip6, <<0>>, <<0, 18>>>>>>),
             raw_tlvs |-> <<C(9, <<1>>)>>], 0),
     At(99, [i \in 1..256 |-> 7], 0)>>

MCParts ==
    <<W(P(9, <<10, 128>>)), A(P(0, <<>>)), A(P(25, <<10, 2, 3, 128>>))>> \o MCAttrs
    \o MapSeq(MCMpReach, LAMBDA m : At(14, m, 0)) \o MapSeq(MCMpUnreach, LAMBDA m : At(15, m, 0))

----------------------------------------------------------------------------
Cap(code, v) == [code |-> code, val |-> v]
MCCaps == <<Cap(1, <<2, 1>>), Cap(2, None), Cap(5, <<1, 128, 2>>), Cap(9, 3),
           Cap(64, <<120, <<<<1, 1, 128>>>>>>), Cap(65, <<0, 1, 17, 112>>), Cap(65, Tag),
           Cap(69, <<<<1, 1, 3>>, <<2, 1, 1>>>>), Cap(73, <<<<114>>, <<100, 46>>>>),
           Cap(Unknown, <<128, <<>>>>)>>

MCInfo == <<C(0, <<1>>), C(1, <<>>), C(1, <<65>>), C(2, <<66>>), C(9, <<1, 2>>)>>
MCTerm == <<C(0, <<0, 1>>), C(0, <<0, 2>>), C(1, <<88>>)>>

Peer(t, f, addr, rib) ==
    [type |-> t, flags |-> f, rd |-> Rd, addr |-> addr, as |-> Tag, bgp_id |-> <<10, 0, 0, 2>>,
     timestamp |-> <<Tag, Zeros(4)>>, rib_type |-> rib]
Plain == Peer(0, 0, Ip4, <<"adj-rib-in", "pre">>)

Ts == <<101, 83, 241, 0>>
Asn(n) == <<0, 0, 253, n>>
Message(a, l, pdu) ==
    [writer |-> "message", ts |-> Ts, peer_as |-> Asn(1), local_as |-> Asn(2), interface |-> 3,
     peer_addr |-> a, local_addr |-> l, pdu |-> pdu]
Event(payload, a) ==
    [writer |-> "event", ts |-> Ts, payload |-> payload, peer_as |-> Asn(1), peer_addr |-> a]
PeerEntry(a) == [bgp_id |-> <<10, 0, 0, 2>>, addr |-> a, as |-> Asn(1)]
Route(p, n) ==
    [writer |-> "route", ts |-> Ts, seq |-> Tag, prefix |-> p,
     entries |-> [i \in 1..n |-> [peer_index |-> i, originated |-> Ts, path_attrs |-> <<64, 1, 1, 0>>]]]
MCMrt == <<Message(Ip4, <<10, 0, 0, 1>>, <<255, 1>>), Message(Ip6, Ip6, <<>>),
          Event("peer_up", Ip4), Event("peer_down", Ip6), Event("stats", Ip4),
          [writer |-> "peers", ts |-> Ts, collector_id |-> Ip4, view_name |-> <<65>>,
           peers |-> <<PeerEntry(Ip6), PeerEntry(Ip4)>>],
          Route(P(9, <<10, 128>>), 2), Route(P6(33, <<32, 1, 13, 184, 128>>), 1),
          Route([labels |-> <<16>>, prefix |-> P(0, <<>>)], 0),
          Route([labels |-> <<16>>, rd |-> Rd, prefix |-> P6(16, <<32, 1>>)], 0)>>

MCItems ==
    [k \in Kinds |->
        CASE k = "unicast4" -> MCPrefixes [] k = "unicast6" -> MCPrefixes6
          [] k = "labeled" -> MCLabeled   [] k = "vpn" -> MCVpn
          [] k = "vpls" -> MCVpls         [] k = "evpn" -> MCEvpn
          [] k = "flowspec" -> MCFlowspec [] k = "bgpls" -> MCBgpLs
          [] k = "srpolicy" -> MCSrPolicy [] k = "rtc" -> MCRtc
          [] k = "stats" -> MCStats       [] k = "as_path" -> MCAsPath
          [] k = "ls_attribute" -> MCLsTlvs [] k = "paths" -> MCPaths
          [] k = "update" -> MCParts      [] k = "peer_up" -> MCCaps
          [] k = "initiation" -> MCInfo   [] k = "termination" -> MCTerm
          [] k = "mirroring" -> MCInfo    [] k = "peer_down" -> <<Marker, Tag>>
          [] k = "mrt" -> MCMrt]

(* Every peer type and the flags that choose its RIB, on a short message. *)
MCPeers ==
    [k \in Kinds |-> IF k # "peer_down" THEN {Plain} ELSE
        {Plain, Peer(0, 64, Ip4, <<"adj-rib-in", "post">>), Peer(1, 128, Ip6, <<"adj-rib-in", "pre">>),
         Peer(0, 16, Ip4, <<"adj-rib-out", "pre">>), Peer(1, 80, Ip4, <<"adj-rib-out", "post">>),
         Peer(2, 64, Ip4, <<"adj-rib-out", "post">>), Peer(3, 0, Ip4, <<"loc-rib">>),
         Peer(3, 8, Ip4, <<"loc-rib-filtered">>)}]

MCMaxItems == [k \in Kinds |-> IF k \in {"update", "initiation"} THEN 3 ELSE 2]

----------------------------------------------------------------------------
mcVars == <<vars, wireVars, part>>

(* While a message is exchanged no router is connected; while a stream is   *)
(* read the other part has decoded an Initiation without TLVs.              *)
NoMessage ==
    /\ kind = "initiation" /\ peer = Plain
    /\ picks = <<>> /\ buf = Encoded(kind, peer, sent) /\ decoded = Some(Decoded(kind, buf))

MCInit ==
    /\ part \in {"stream", "message"}
    /\ Init /\ (part = "message" => ~proxy)
    /\ IF part = "message" THEN WireInit ELSE NoMessage

InStream  == part = "stream" /\ UNCHANGED <<wireVars, part>>
InMessage == part = "message" /\ UNCHANGED <<vars, part>>

MCNext ==
    \/ InStream /\ Next
    \/ InMessage /\ WireNext

\* The fairness of BmpFraming's Spec; WireSpec has none
MCSpec ==
    /\ MCInit /\ [][MCNext]_mcVars
    /\ WF_mcVars(InStream /\ TaskStep) /\ WF_mcVars(InStream /\ SendMessage)
    /\ WF_mcVars(InStream /\ Terminate) /\ WF_mcVars(InStream /\ Pump)
    /\ WF_mcVars(InStream /\ WriteLoop) /\ WF_mcVars(InStream /\ RateLoop)
=============================================================================
