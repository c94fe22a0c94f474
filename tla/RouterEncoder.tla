--------------------------- MODULE RouterEncoder ----------------------------
(***************************************************************************)
(* The router's side of the wire: how a conforming BMP speaker encodes     *)
(* what the decoders return (RFC 4271, 4364, 4760, 5575, 6793, 7432, 7752, *)
(* 7854, 8277, 9012, 9256).  Not code of the repository: it is the         *)
(* reference that the decoders of BmpMessages are checked against.         *)
(***************************************************************************)
EXTENDS BmpMessages

Cat(s, Enc(_)) == FlattenSeq(MapSeq(s, Enc))
Put16(n) == <<n \div 256, n % 256>>
Put24(n) == <<n \div 65536, (n \div 256) % 256, n % 256>>
Len16(b) == Put16(Len(b)) \o b
PutLabel(l, bottom) == Put24(l * 16 + (IF bottom THEN 1 ELSE 0))
PutTlv22(t, b) == Put16(t) \o Len16(b)
PutTlv12(t, b) == <<t>> \o Len16(b)
PutTlv11(t, b) == <<t, Len(b)>> \o b
NetBytes(p) == Take(p.addr, Octets(p.len))

PutNet(p) == <<p.len>> \o NetBytes(p)

PutLabeled(r) ==
    LET n == Len(r.labels)
    IN  <<24 * n + r.prefix.len>>
        \o FlattenSeq([i \in 1..n |-> PutLabel(r.labels[i], i = n)]) \o NetBytes(r.prefix)

PutVpn(r) == <<88 + r.prefix.len>> \o PutLabel(r.labels[1], TRUE) \o r.rd \o NetBytes(r.prefix)

PutVpls(r) == Len16(r[1] \o r[2] \o r[3] \o r[4] \o PutLabel(r[5], TRUE))

PutEvpn(r) ==
    LET f == r.fields
        Ip(a) == <<8 * Len(a)>> \o a
        Ips(from) == Cat(Drop(f, from), Ip)
        v == CASE r.type = 1 -> f[1] \o f[2] \o f[3] \o PutLabel(f[4], TRUE)
               [] r.type = 2 -> f[1] \o f[2] \o f[3] \o <<48>> \o f[4] \o Ip(f[5])
                                \o PutLabel(f[6], FALSE)
                                \o Cat(f[7], LAMBDA l : PutLabel(l, TRUE))
               [] r.type \in {3, 4} \cup 6..10 -> f[1] \o f[2] \o Ips(2)
               [] r.type = 5 -> f[1] \o f[2] \o f[3] \o <<f[4]>> \o f[5]
                                \o (IF f[6] = None THEN Zeros(Len(f[5])) ELSE f[6][1])
                                \o PutLabel(f[7], TRUE)
               [] OTHER -> FlattenSeq(f)
    IN  PutTlv11(r.type, v)

PutOp(op, last) ==
    <<(IF last THEN 128 ELSE 0) + (IF op.and THEN 64 ELSE 0) + op.flags
      + 16 * (CASE Len(op.value) = 1 -> 0 [] Len(op.value) = 2 -> 1
                [] Len(op.value) = 4 -> 2 [] Len(op.value) = 8 -> 3)>> \o op.value

PutComponent(c) ==
    <<c.type>> \o
    (CASE c.type \in {1, 2} -> <<c.val[1]>> \o Take(c.val[2], Octets(c.val[1]))
       [] c.type \in 3..12 ->
            FlattenSeq([i \in DOMAIN c.val |-> PutOp(c.val[i], i = Len(c.val))])
       [] OTHER -> c.val)

PutFlowspec(rule) ==
    LET b == Cat(rule, PutComponent)
    IN  (IF Len(b) < 240 THEN <<Len(b)>> ELSE <<240 + Len(b) \div 256, Len(b) % 256>>) \o b

----------------------------------------------------------------------------
(* BGP-LS *)

PutOpt(t, o) == Cat(o, LAMBDA v : PutTlv22(t, v))

PutNode(outer, n) ==
    PutTlv22(outer, PutOpt(512, n.asn) \o PutOpt(513, n.bgp_ls_id)
                    \o PutOpt(514, n.ospf_area) \o PutOpt(515, n.igp_router))

PutBgpLs(r) ==
    LET b == r.body
        Addr(v4, o) == Cat(o, LAMBDA a : PutTlv22(IF Len(a) = 4 THEN v4 ELSE v4 + 2, a))
        body ==
          CASE r.type = 1 -> PutNode(256, b)
            [] r.type = 2 -> PutNode(256, b.local_node) \o PutNode(257, b.remote_node)
                             \o Cat(b.local_id, LAMBDA id : PutTlv22(258, id \o b.remote_id[1]))
                             \o Addr(259, b.local_addr) \o Addr(260, b.remote_addr)
            [] r.type \in {3, 4} -> PutNode(256, b.local_node) \o PutTlv22(265, PutNet(b.prefix))
            [] r.type = 6 -> PutNode(256, b.local_node)
                             \o PutTlv22(1, b.srv6_sid
                                  \o Cat(b.endpoint_behavior, LAMBDA e : PutTlv22(1, Put16(e)))
                                  \o PutOpt(2, b.sid_structure))
    IN  PutTlv22(r.type, <<r.protocol>> \o r.identifier \o body)

(* TLVs of the BGP-LS attribute and of the Prefix-SID attribute are items  *)
(* with their type and raw value.                                          *)
PutLsTlv(x) == PutTlv22(x.type, x.val)

PutSrPolicy(r) == FlattenSeq(r)
PutRtc(r) == <<r.len>> \o r.data

(* Candidate paths with their name and segment lists. *)
PutSegment(s) == <<s.type, 2 + Len(s.data), 0, 0>> \o s.data
PutSegList(l) == PutTlv12(132, l.weight \o Cat(l.segments, PutSegment))
PutPath(p) ==
    PutTlv12(128, Zeros(4) \o p.preference \o Cat(p.lists, PutSegList)
                  \o Cat(p.name, LAMBDA n : PutTlv12(130, n)))

----------------------------------------------------------------------------
(* Path attributes: form is the AS number width of a path, and otherwise   *)
(* whether the extended length is used.                                    *)

PutAsPath(path, size) ==
    Cat(path, LAMBDA s : <<s.type, Len(s.asns)>> \o Cat(s.asns, LAMBDA a : Drop(a, 4 - size)))

(* RFC 4364: a VPN next hop has a route distinguisher of zero in front. *)
VpnHop(safi) == IF safi = 128 THEN Zeros(8) ELSE <<>>

PutMp(t, mp) ==
    LET b == CASE mp.safi = 1   -> Cat(mp.prefixes, PutNet)
               [] mp.safi = 4   -> Cat(mp.prefixes, PutLabeled)
               [] mp.safi = 128 -> Cat(mp.prefixes, PutVpn)
               [] mp.safi = 70  -> Cat(mp.routes, PutEvpn)
               [] mp.safi = 133 -> Cat(mp.routes, PutFlowspec)
               [] mp.safi = 71  -> Cat(mp.routes, PutBgpLs)
               [] mp.safi = 73  -> Cat(mp.routes, PutSrPolicy)
        nh == Cat(mp.hops, LAMBDA hop : VpnHop(mp.safi) \o hop)
    IN  Put16(mp.afi) \o <<mp.safi>> \o (IF t = 14 THEN <<Len(nh)>> \o nh \o <<0>> ELSE <<>>) \o b

PutTunnel(e) ==
    PutTlv22(e.tunnel_type,
             Cat(e.info.endpoint, LAMBDA a : PutTlv11(1, a))
             \o Cat(e.info.color, LAMBDA c : PutTlv11(9, <<0, 0>> \o c)))

PutBgpsec(v) ==
    Len16(Cat(v.asns, LAMBDA a : <<1, 0>> \o a))
    \o FlattenSeq([i \in 1..v.blocks |-> Len16(<<1, i>>)])

PutPrefixSid(v) ==
    Cat(v.label_index, LAMBDA l : PutTlv12(1, <<0, 0>> \o l))
    \o Cat(v.originator_srgb, LAMBDA g : PutTlv12(3, g[1] \o Cat(g[2], FlattenSeq)))
    \o Cat(v.srv6_l3_service, LAMBDA sv :
            PutTlv12(5, <<0>> \o Cat(sv, LAMBDA x : PutTlv12(1, FlattenSeq(x)))))
    \o Cat(v.raw_tlvs, LAMBDA x : PutTlv12(x.type, x.val))

PutAttrValue(a) ==
    LET v == a.val
    IN  CASE a.type = 1 -> <<v>>
          [] a.type \in {2, 17} -> PutAsPath(v, a.form)
          [] a.type = 6 -> <<>>
          [] a.type \in {7, 18} -> Drop(v[1], 4 - a.form) \o v[2]
          [] a.type \in {8, 10, 16, 32} -> FlattenSeq(v)
          [] a.type \in {14, 15} -> PutMp(a.type, v)
          [] a.type = 23 -> Cat(v, PutTunnel)
          [] a.type = 30 -> PutBgpsec(v)
          [] a.type = 40 -> PutPrefixSid(v)
          [] OTHER -> v

PutAttrBytes(type, ext, b) ==
    IF ext THEN <<80, type>> \o Len16(b) ELSE <<64, type, Len(b)>> \o b

PutAttr(a) ==
    LET b == PutAttrValue(a) IN PutAttrBytes(a.type, a.form = 1 \/ Len(b) > 255, b)

Parts(items, part) == SelectSeq(items, LAMBDA x : x.part = part)

PutUpdateBytes(b) == Marker \o Put16(19 + Len(b)) \o <<2>> \o b

PutUpdate(items) ==
    LET Nets(part) == Cat(Parts(items, part), LAMBDA x : PutNet(x.val))
    IN  PutUpdateBytes(Len16(Nets("withdraw")) \o Len16(Cat(Parts(items, "attr"), PutAttr))
                       \o Nets("announce"))

----------------------------------------------------------------------------
(* OPEN, one optional parameter per capability, and BMP messages. *)

PutCap(c) ==
    LET Families(es) == Cat(es, LAMBDA e : Put16(e[1]) \o <<e[2], e[3]>>)
        v == c.val
    IN  PutTlv11(IF c.code = Unknown THEN v[1] ELSE c.code,
            CASE c.code = 1  -> Put16(v[1]) \o <<0, v[2]>>
              [] c.code = 5  -> Put16(v[1]) \o <<0, v[2]>> \o Put16(v[3])
              [] c.code = 9  -> <<v>>
              [] c.code = 64 -> Put16(v[1]) \o Families(v[2])
              [] c.code = 69 -> Families(v)
              [] c.code \in {65, 71} -> v
              [] c.code = 73 -> <<Len(v[1])>> \o v[1] \o <<Len(v[2])>> \o v[2]
              [] c.code = Unknown -> v[2]
              [] OTHER -> <<>>)

PutOpen(asn, hold, id, caps) ==
    LET params == Cat(caps, LAMBDA c : PutTlv11(2, PutCap(c)))
    IN  Marker \o Put16(29 + Len(params)) \o <<1, 4>> \o asn \o Put16(hold) \o id
        \o <<Len(params)>> \o params

PutPeer(h) ==
    <<h.type, h.flags>> \o h.rd \o Zeros(16 - Len(h.addr)) \o h.addr \o h.as \o h.bgp_id
    \o FlattenSeq(h.timestamp)

(* RFC 7854: types 0 to 6 and 11 to 13 are 4-byte counters, the others     *)
(* 8-byte gauges, per family with AFI and SAFI in front.                   *)
PutStat(s) ==
    PutTlv22(s.stat_type,
             Cat(s.afi_safi, LAMBDA f : Put16(f[1]) \o <<f[2]>>)
             \o (IF s.stat_type \in 0..6 \cup 11..13 THEN Drop(s.value, 4) ELSE s.value))

PutBmp(type, body) == <<3, 0>> \o Put24(6 + Len(body)) \o <<type>> \o body
=============================================================================
