------------------------------ MODULE BgpNlri -------------------------------
(***************************************************************************)
(* The NLRI decoders of crates/rbmp-core/src/bgp: nlri.rs, evpn.rs,        *)
(* flowspec.rs and srpolicy.rs.  Each maps a byte string to an outcome     *)
(* whose value is the sequence of routes.                                  *)
(***************************************************************************)
EXTENDS Wire

AddrSize(afi) == IF afi = "ipv6" THEN 16 ELSE 4
MaxBits(afi)  == 8 * AddrSize(afi)

----------------------------------------------------------------------------
(* nlri.rs *)

(* Every prefix one length byte; longer than the family allows is an error. *)
OneNlri(x, skip, afi) ==
    LET len == x.head[skip + 1]
    IN  IF len > MaxBits(afi) THEN Err ELSE Ok(Net(x.body, len, AddrSize(afi)))

NlriWalk(buf, skip) ==
    Walk(buf, 1, LAMBDA b : skip + 1, LAMBDA b : Octets(b[skip + 1]))

decode_nlri(buf, afi) ==
    Strict(NlriWalk(buf, 0), LAMBDA x : OneNlri(x, 0, afi))

(* With Add-Path every prefix is preceded by a 4-byte path id. *)
decode_nlri_with_path_id(buf, afi, add_path) ==
    LET skip   == IF add_path THEN 4 ELSE 0
        One(x) == Then(OneNlri(x, skip, afi), LAMBDA p :
                      Ok([prefix  |-> p,
                          path_id |-> IF add_path THEN Some(Take(x.head, 4)) ELSE None]))
    IN  Strict(NlriWalk(buf, skip), One)

Label(b)  == U24(b, 1) \div 16
Bottom(b) == b[3] % 2 = 1

(* The labels after the length byte, up to the one at the bottom of stack. *)
LabelCount(b) ==
    LET ls == Chunks(Drop(b, 1), 3)
        ends == {i \in DOMAIN ls : Bottom(ls[i])}
    IN  IF ends = {} THEN Len(b) ELSE CHOOSE i \in ends : \A j \in ends : i <= j

Minus(a, b) == IF a > b THEN a - b ELSE 0       \* saturating_sub

(* What is left of the length after labels and distinguisher; more bits    *)
(* than an address has overrun the address array.                          *)
InnerNet(x, used, afi) ==
    LET len == Minus(x.head[1], used)
    IN  IF len > MaxBits(afi) THEN Panic ELSE Ok(Net(x.body, len, AddrSize(afi)))

decode_labeled_nlri(buf, afi) ==
    LET One(x) ==
            LET ls == Chunks(Drop(x.head, 1), 3) IN
            Then(InnerNet(x, 24 * Len(ls), afi), LAMBDA p :
                Ok([labels |-> MapSeq(ls, Label), prefix |-> p]))
    IN  Strict(Walk(buf, 1, LAMBDA b : 1 + 3 * LabelCount(b),
                    LAMBDA b : Octets(Minus(b[1], 24 * LabelCount(b)))), One)

decode_vpn_nlri(buf, afi) ==
    LET One(x) ==
            Then(InnerNet(x, 24 + 64, afi), LAMBDA p :
                Ok([labels |-> <<Label(Slice(x.head, 2, 3))>>,
                    rd |-> Slice(x.head, 5, 8), prefix |-> p]))
    IN  Strict(Walk(buf, 1, LAMBDA b : 12, LAMBDA b : Octets(Minus(b[1], 24 + 64))), One)

(* 2-byte length; entries that are too short are skipped. *)
decode_vpls_nlri(buf) ==
    LET w == Walk(buf, 2, LAMBDA b : 2, LAMBDA b : U16(b, 1))
        long == SelectSeq(w.items, LAMBDA x : Len(x.body) >= 17)
        One(x) == LET f == Cut(x.body, <<8, 2, 2, 2, 3>>).val
                  IN  <<f[1], f[2], f[3], f[4], Label(f[5])>>
    IN  Ok(MapSeq(long, One))

(* The next hops and the bytes after them. *)
decode_next_hops(b, afi) ==
    IF Len(b) < 1 + b[1] THEN Err
    ELSE Ok([hops |-> Chunks(Slice(b, 2, b[1]), AddrSize(afi)),
             rest |-> Drop(b, 1 + b[1])])

----------------------------------------------------------------------------
(* evpn.rs *)

(* k addresses, each after its length in bits, which is 32 or 128. *)
decode_evpn_router_ips(v, k) ==
    LET RECURSIVE Ips(_, _)
        Ips(b, n) ==
            IF n = 0 THEN Ok(<<>>)
            ELSE IF b = <<>> \/ b[1] \notin {32, 128} \/ Len(b) < 1 + b[1] \div 8
            THEN Err
            ELSE Then(Ips(Drop(b, 1 + b[1] \div 8), n - 1), LAMBDA ips :
                     Ok(<<Slice(b, 2, b[1] \div 8)>> \o ips))
    IN  Ips(v, k)

(* Types 3, 4, 6 to 10: fixed fields, then one or three addresses. *)
EvpnFixed(t) == IF t = 4 THEN <<8, 10>> ELSE <<8, 4>>
EvpnIps(t)   == IF t \in {3, 4, 9} THEN 1 ELSE 3

EvpnAddressed(t, v) ==
    LET n == IF t = 4 THEN 18 ELSE 12 IN
    Then(Cut(v, EvpnFixed(t)), LAMBDA f :
    Then(decode_evpn_router_ips(Drop(v, n), EvpnIps(t)), LAMBDA ips : Ok(f \o ips)))

(* Type 2: the address may be missing, and so may the second label. *)
EvpnMacIp(v) ==
    IF \/ Len(v) < 33 \/ v[23] # 48 \/ v[30] \notin {0, 32, 128}
       \/ Len(v) < 30 + v[30] \div 8 + 3
    THEN Err
    ELSE LET pos == 30 + v[30] \div 8
         IN  Ok(Cut(v, <<8, 10, 4>>).val
                \o <<Slice(v, 24, 6), Slice(v, 31, v[30] \div 8),
                     Label(Slice(v, pos + 1, 3)),
                     IF Len(v) >= pos + 6 THEN Some(Label(Slice(v, pos + 4, 3))) ELSE None>>)

(* Type 5: the prefix length decides between IPv4 and IPv6; an all-zero    *)
(* gateway is none.                                                        *)
EvpnIpPrefix(v) ==
    LET n == IF v[23] <= 32 THEN 4 ELSE 16 IN
    Then(Cut(v, <<8, 10, 4, 1, n, n, 3>>), LAMBDA f :
        Ok([f EXCEPT ![4] = @[1], ![6] = IF @ = Zeros(n) THEN None ELSE Some(@),
                     ![7] = Label(@)]))

parse_evpn_route(t, v) ==
    Then(CASE t = 1 -> Then(Cut(v, <<8, 10, 4, 3>>), LAMBDA f : Ok([f EXCEPT ![4] = Label(@)]))
           [] t = 2 -> EvpnMacIp(v)
           [] t \in {3, 4} \cup 6..10 -> EvpnAddressed(t, v)
           [] t = 5 -> IF Len(v) < 34 THEN Err ELSE EvpnIpPrefix(v)
           [] t = 11 -> IF Len(v) < 4 THEN Err
                        ELSE Ok(<<Take(v, Len(v) - 4), Drop(v, Len(v) - 4)>>)
           [] OTHER -> Ok(<<v>>),
         LAMBDA f : Ok([type |-> t, fields |-> f]))

decode_evpn_nlri(buf) ==
    Strict(Walk11(buf), LAMBDA x : parse_evpn_route(x.head[1], x.body))

----------------------------------------------------------------------------
(* flowspec.rs *)

(* Operator and value pairs up to the end-of-list bit.  A value that runs  *)
(* past the end leaves only its operator byte consumed.  Bitmask values    *)
(* wider than two bytes are read as zero.                                  *)
parse_ops(buf, bitmask) ==
    LET RECURSIVE Ops(_, _)
        Ops(pos, acc) ==
            IF pos >= Len(buf) THEN [ops |-> acc, used |-> pos]
            ELSE LET op   == buf[pos + 1]
                     vlen == 2^((op \div 16) % 4)
                     val  == Slice(buf, pos + 2, vlen)
                     one  == [and   |-> Bit(op, 64),
                              flags |-> IF bitmask THEN op % 4 ELSE op % 8,
                              value |-> IF bitmask /\ vlen > 2 THEN <<0>> ELSE val]
                 IN  IF pos + 1 + vlen > Len(buf) THEN [ops |-> acc, used |-> pos + 1]
                     ELSE IF Bit(op, 128)
                     THEN [ops |-> Append(acc, one), used |-> pos + 1 + vlen]
                     ELSE Ops(pos + 1 + vlen, Append(acc, one))
    IN  Ops(0, <<>>)

(* One component after its type byte, and the bytes it takes.  IPv4 keeps  *)
(* four bytes of a longer prefix, IPv6 overruns its array.                 *)
parse_flowspec_component(t, buf, ipv6) ==
    IF t \in {1, 2} THEN
        IF buf = <<>> \/ Len(buf) < 1 + Octets(buf[1]) THEN Err
        ELSE IF ipv6 /\ Octets(buf[1]) > 16 THEN Panic
        ELSE LET size == IF ipv6 THEN 16 ELSE 4
                 b    == Slice(buf, 2, Octets(buf[1]))
                 kept == Take(b, IF Len(b) < size THEN Len(b) ELSE size)
             IN  Ok([val |-> <<buf[1], kept \o Zeros(size - Len(kept))>>,
                     used |-> 1 + Len(b)])
    ELSE IF t \in 3..12 THEN
        LET r == parse_ops(buf, t \in {9, 12}) IN Ok([val |-> r.ops, used |-> r.used])
    ELSE Ok([val |-> buf, used |-> Len(buf)])

parse_flowspec_nlri(nlri, ipv6) ==
    LET RECURSIVE Comps(_)
        Comps(b) ==
            IF b = <<>> THEN Ok(<<>>)
            ELSE Then(parse_flowspec_component(b[1], Drop(b, 1), ipv6), LAMBDA c :
                 Then(Comps(Drop(b, 1 + c.used)), LAMBDA rest :
                     Ok(<<[type |-> b[1], val |-> c.val]>> \o rest)))
    IN  Comps(nlri)

(* A length below 240 in one byte, otherwise 12 bits of two; a rule that   *)
(* runs past the end ends the list.                                        *)
decode_flowspec_nlri(buf, ipv6) ==
    LET w == Walk(buf, 1, LAMBDA b : IF b[1] < 240 THEN 1 ELSE 2,
                  LAMBDA b : IF b[1] < 240 THEN b[1] ELSE (b[1] % 16) * 256 + b[2])
    IN  Collect(MapSeq(w.items, LAMBDA x : parse_flowspec_nlri(x.body, ipv6)))

----------------------------------------------------------------------------
(* srpolicy.rs *)

decode_srpolicy_nlri(buf, ipv6) ==
    LET ep == IF ipv6 THEN 16 ELSE 4
    IN  Ok(MapSeq(Chunks(buf, 8 + ep), LAMBDA c : Cut(c, <<4, 4, ep>>).val))

(* Each segment: type, length (which counts flags and reserved), flags,    *)
(* reserved, data; the width its type needs, else kept raw.                *)
SegmentMin ==
    [t \in 1..10 |-> <<3, 16, 6, 18, 8, 8, 36, 40, 5, 17>>[t]]

(* An MPLS segment is read from its first 24 bits; the others keep their    *)
(* bytes, an SRv6 SID with its behaviour when there is one.                *)
SegmentData(t, d) ==
    IF t = 1 THEN LET raw == U24(d, 1)
                  IN  <<raw \div 4096, (raw \div 512) % 8, (raw \div 256) % 2, raw % 256>>
    ELSE Take(d, IF t = 2 /\ Len(d) >= 18 THEN 18 ELSE SegmentMin[t])

parse_segments(buf) ==
    LET RECURSIVE Segs(_)
        Segs(bytes) ==
            LET w == Walk(bytes, 2, LAMBDA b : 4, LAMBDA b : b[2] - 2)
                One(x) == LET t == x.head[1] IN
                    IF t = 11 THEN [type |-> t, data |-> Segs(x.body)]
                    ELSE IF t \in 1..10 /\ Len(x.body) >= SegmentMin[t]
                    THEN [type |-> t, data |-> SegmentData(t, x.body)]
                    ELSE [type |-> Unknown, data |-> <<t, x.body>>]
            IN  MapSeq(w.items, One)
    IN  Segs(buf)

parse_segment_lists(buf) ==
    MapSeq(OfType(Tlvs12(buf), 132, 4),
           LAMBDA x : [weight |-> Take(x.val, 4), segments |-> parse_segments(Drop(x.val, 4))])

(* The first name in the nested TLVs. *)
extract_path_name(v) ==
    LET names == OfType(Tlvs12(Drop(v, 8)), 130, 0)
    IN  IF names = <<>> THEN None ELSE Some(Head(names).val)

(* Byte strings of one length, compared as big-endian numbers. *)
AtMost(a, b) ==
    a = b \/ \E i \in DOMAIN a : a[i] < b[i] /\ \A j \in 1..(i-1) : a[j] = b[j]

(* Candidate paths; of those with the highest preference the last is best. *)
parse_srpolicy_candidate_paths(buf) ==
    LET tlvs == OfType(Tlvs12(buf), 128, 8)
        Pref(i) == Slice(tlvs[i].val, 5, 4)
        Best(i) == \A j \in DOMAIN tlvs : /\ AtMost(Pref(j), Pref(i))
                                          /\ j > i => Pref(j) # Pref(i)
    IN  Ok([i \in DOMAIN tlvs |->
              [preference |-> Pref(i), name |-> extract_path_name(tlvs[i].val),
               lists |-> parse_segment_lists(Drop(tlvs[i].val, 8)), is_best |-> Best(i)]])

(* Route target constraints: a zero length is the wildcard. *)
decode_rtc_nlri(buf) ==
    Strict(Walk(buf, 1, LAMBDA b : 1, LAMBDA b : Octets(b[1])),
           LAMBDA x : Ok(IF x.head[1] = 0 THEN [len |-> 0, origin_as |-> None, data |-> <<>>]
                         ELSE [len |-> x.head[1], data |-> x.body,
                               origin_as |-> IF Len(x.body) >= 4 THEN Some(Take(x.body, 4))
                                             ELSE None]))
=============================================================================
