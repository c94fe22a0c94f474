---------------------------- MODULE BgpMessages -----------------------------
(***************************************************************************)
(* BGP UPDATE and OPEN (crates/rbmp-core/src/bgp: attributes.rs,           *)
(* update.rs, open.rs, capabilities.rs and the BgpUpdate and AsPath        *)
(* methods of types.rs).                                                   *)
(***************************************************************************)
EXTENDS BgpLs

----------------------------------------------------------------------------
(* AS paths: segments of type 1 to 4 with 2- or 4-byte AS numbers. *)

parse_as_path_with_asn_size(buf, size) ==
    LET Asn(c) == Zeros(4 - size) \o c
        One(x) == IF x.head[1] \in 1..4
                  THEN Ok([type |-> x.head[1], asns |-> MapSeq(Chunks(x.body, size), Asn)])
                  ELSE Err
    IN  Strict(Walk(buf, 2, LAMBDA b : 2, LAMBDA b : b[2] * size), One)

(* AS_PATH is read with 2-byte numbers, with 4-byte ones if that fails. *)
parse_as_path(buf, four_byte) ==
    LET two  == parse_as_path_with_asn_size(buf, 2)
        four == parse_as_path_with_asn_size(buf, 4)
    IN  IF four_byte THEN four ELSE IF two.ok \/ ~four.ok THEN two ELSE four

----------------------------------------------------------------------------
(* MP_REACH and MP_UNREACH.  Prefix families fail the whole UPDATE when    *)
(* malformed; the others become empty, and never hold prefixes.            *)

AfiOf(n) == IF n = 2 THEN "ipv6" ELSE "other"

MpPrefixes(afi, safi, b) ==
    CASE safi \in {1, 2} -> decode_nlri(b, afi)
      [] safi = 4        -> decode_labeled_nlri(b, afi)
      [] safi = 128      -> decode_vpn_nlri(b, afi)
      [] OTHER           -> Ok(<<>>)

MpRoutes(afi, safi, b, reach) ==
    CASE safi = 70                 -> OkOr(decode_evpn_nlri(b), <<>>)
      [] safi \in {133, 134}       -> OkOr(decode_flowspec_nlri(b, afi = "ipv6"), <<>>)
      [] safi = 71 \/ (safi = 72 /\ reach) -> OkOr(decode_bgpls_nlri(b), <<>>)
      [] safi = 73                 -> OkOr(decode_srpolicy_nlri(b, afi = "ipv6"), <<>>)
      [] safi = 132 /\ reach       -> OkOr(decode_rtc_nlri(b), <<>>)
      [] OTHER                     -> <<>>

Mp(v, hops, b, reach) ==
    LET afi == AfiOf(U16(v, 1)) IN
    Then(MpPrefixes(afi, v[3], b), LAMBDA p :
        Ok([afi |-> U16(v, 1), safi |-> v[3], hops |-> hops, prefixes |-> p,
            routes |-> MpRoutes(afi, v[3], b, reach)]))

(* Next hops, a reserved byte, then the NLRI. *)
parse_mp_reach(v) ==
    Then(decode_next_hops(Drop(v, 3), AfiOf(U16(v, 1))), LAMBDA nh :
        IF nh.rest = <<>> THEN Err ELSE Mp(v, nh.hops, Drop(nh.rest, 1), TRUE))

parse_mp_unreach(v) == Mp(v, <<>>, Drop(v, 3), FALSE)

----------------------------------------------------------------------------
(* The optional attributes that nest TLVs. *)

parse_tunnel_subtlvs(v) ==
    LET subs == Tlvs11(v)
        ends == SelectSeq(subs, LAMBDA x : x.type = 1 /\ Len(x.val) \in {4, 16})
    IN  [endpoint |-> IF ends = <<>> THEN None ELSE Some(Last(ends).val),
         color    |-> LastVal(subs, 9, 6, LAMBDA c : Slice(c, 3, 4))]

parse_tunnel_encap(v) ==
    MapSeq(Tlvs22(v), LAMBDA x : [tunnel_type |-> x.type, info |-> parse_tunnel_subtlvs(x.val)])

(* The signing AS numbers of the secure path, and the signature blocks,    *)
(* the last of which may run past the end.                                 *)
parse_bgpsec_path(v) ==
    LET n == U16(v, 1)
        blocks == Walk(Drop(v, 2 + n), 3, LAMBDA b : 2, LAMBDA b : U16(b, 1))
    IN  IF Len(v) < 2 \/ Len(v) < 2 + n THEN [asns |-> <<>>, blocks |-> 0]
        ELSE [asns |-> MapSeq(Chunks(Slice(v, 3, n), 6), LAMBDA c : Drop(c, 2)),
              blocks |-> (Len(blocks.items) + (IF blocks.whole THEN 0 ELSE 1)) % 256]

----------------------------------------------------------------------------
(* Path attributes: what is read of each type, and which accumulate.  A    *)
(* known type with an unexpected length is kept as unknown.                *)

AttrAccepts(t, n) ==
    \/ t \in {2, 6, 8, 10, 16, 17, 23, 29, 30, 32, 40}
    \/ t \in {3, 4, 5, 9, 35} /\ n = 4
    \/ t = 1 /\ n >= 1
    \/ t = 7 /\ n \in {6, 8}
    \/ t = 14 /\ n >= 4
    \/ t = 15 /\ n >= 3
    \/ t = 18 /\ n = 8

ListAttrs == [t \in {8, 10} |-> 4] @@ [t \in {16} |-> 8] @@ [t \in {32} |-> 12]
AttrTypes == {t \in 1..40 : \E n \in 0..8 : AttrAccepts(t, n)}

AttrValue(t, v) ==
    CASE t = 1 -> IF v[1] \in 0..2 THEN Ok(v[1]) ELSE Err
      [] t \in {2, 17} -> parse_as_path(v, t = 17)
      [] t = 6 -> Ok(TRUE)
      [] t \in {7, 18} -> Ok(<<Zeros(8 - Len(v)) \o Take(v, Len(v) - 4), Drop(v, Len(v) - 4)>>)
      [] t \in DOMAIN ListAttrs -> Ok(Chunks(v, ListAttrs[t]))
      [] t = 14 -> parse_mp_reach(v)
      [] t = 15 -> parse_mp_unreach(v)
      [] t = 23 -> Ok(parse_tunnel_encap(v))
      [] t = 29 -> Ok(parse_bgpls_attribute(v))
      [] t = 30 -> Ok(parse_bgpsec_path(v))
      [] t = 40 -> Ok(parse_prefix_sid(v))
      [] OTHER -> Ok(v)

(* SR policies announced or withdrawn share one field: each MP_REACH sets  *)
(* it, an MP_UNREACH only for that family.                                 *)
SrPolicyNlris(parsed) ==
    LET sets == SelectSeq(parsed, LAMBDA x :
                    \/ x.known /\ x.type = 14
                    \/ x.known /\ x.type = 15 /\ x.val.safi = 73)
    IN  IF sets = <<>> \/ Last(sets).val.safi # 73 THEN <<>> ELSE Last(sets).val.routes

AttrWalk(buf) ==
    Walk(buf, 3, LAMBDA b : IF Bit(b[1], 16) THEN 4 ELSE 3,
                 LAMBDA b : IF Bit(b[1], 16) THEN U16(b, 3) ELSE b[3])

OneAttr(x) ==
    LET known == AttrAccepts(x.head[2], Len(x.body))
    IN  Then(IF known THEN AttrValue(x.head[2], x.body) ELSE Ok(<<x.head[1], x.body>>),
             LAMBDA v : Ok([type |-> x.head[2], known |-> known, val |-> v]))

(* The fields of PathAttributes: the last of each type, the lists joined. *)
Fields(attrs) ==
    LET Of(t) == MapSeq(SelectSeq(attrs, LAMBDA x : x.known /\ x.type = t), LAMBDA x : x.val)
    IN  [known   |-> [t \in AttrTypes |->
                        IF t \in DOMAIN ListAttrs THEN FlattenSeq(Of(t))
                        ELSE IF Of(t) = <<>> THEN None ELSE Some(Last(Of(t)))],
         sr_policy_nlris |-> SrPolicyNlris(attrs),
         unknown |-> SelectSeq(attrs, LAMBDA x : ~x.known)]

parse_path_attributes(buf) ==
    Then(Strict(AttrWalk(buf), OneAttr), LAMBDA attrs : Ok(Fields(attrs)))

----------------------------------------------------------------------------
(* update.rs *)

Marker == [i \in 1..16 |-> 255]

(* A section cut to the bytes that are there. *)
SectionClamped(b, i) ==
    LET n == IF Len(b) < i + 1 THEN 0 ELSE U16(b, i)
    IN  Ok(SubSeq(b, i + 2, IF i + 1 + n > Len(b) THEN Len(b) ELSE i + 1 + n))

(* A 2-byte length at position i and that many bytes. *)
Section(b, i) ==
    IF Len(b) < i + 1 \/ Len(b) < i + 1 + U16(b, i) THEN Err
    ELSE Ok(Slice(b, i + 2, U16(b, i)))

(* Marker, length (not looked at), type, withdrawn prefixes, attributes,   *)
(* announced prefixes.  A buffer shorter than the header panics.           *)
parse_bgp_update(b, add_path) ==
    IF Len(b) < 16 THEN Panic
    ELSE IF Take(b, 16) # Marker THEN Err
    ELSE IF Len(b) < 19 THEN Panic
    ELSE IF b[19] # 2 THEN Err
    ELSE Then(Section(b, 20), LAMBDA w :
         Then(decode_nlri_with_path_id(w, "ipv4", add_path), LAMBDA withdrawn :
         Then(Section(b, 22 + Len(w)), LAMBDA a :
         Then(parse_path_attributes(a), LAMBDA attrs :
         Then(decode_nlri_with_path_id(Drop(b, 23 + Len(w) + Len(a)), "ipv4", add_path),
              LAMBDA announced : Ok([withdrawn |-> withdrawn, announced |-> announced,
                                     attributes |-> attrs]))))))

MpOf(u, t) == LET mp == u.attributes.known[t] IN IF mp = None THEN <<>> ELSE mp[1].prefixes
NoPath(p)  == [prefix |-> p, path_id |-> None]

all_announced_with_path_id(u) == u.announced \o MapSeq(MpOf(u, 14), NoPath)
all_withdrawn_with_path_id(u) == u.withdrawn \o MapSeq(MpOf(u, 15), NoPath)

(* A plausible slip: only the classic fields are looked at. *)
is_eor_classic(u) == u.withdrawn = <<>> /\ u.announced = <<>>

is_eor(u) ==
    /\ u.withdrawn = <<>> /\ u.announced = <<>>
    /\ u.attributes.known[14] = None
    /\ MpOf(u, 15) = <<>>

----------------------------------------------------------------------------
(* capabilities.rs and open.rs *)

(* Entries of four bytes; the last may lack its flags. *)
RestartEntries(d) ==
    LET whole == MapSeq(Chunks(d, 4), LAMBDA c : <<U16(c, 1), c[3], c[4]>>)
        rest  == Drop(d, 4 * Len(whole))
    IN  IF Len(rest) = 3 THEN Append(whole, <<U16(rest, 1), rest[3], 0>>) ELSE whole

(* data.get(a..b).unwrap_or_default(): n bytes from i, or nothing. *)
Get(d, i, n) == IF i + n - 1 <= Len(d) THEN Slice(d, i, n) ELSE <<>>

Fqdn(d) ==
    LET n == d[1]
    IN  <<Get(d, 2, n), IF Len(d) > 1 + n THEN Get(d, 3 + n, d[2 + n]) ELSE <<>>>>

CapMin == [c \in {1, 65} |-> 4] @@ [c \in {5} |-> 6] @@ [c \in {64} |-> 2]
          @@ [c \in {9, 73} |-> 1] @@ [c \in {2, 6, 69, 70, 71} |-> 0]

parse_one_capability(code, d) ==
    IF code \notin DOMAIN CapMin \/ Len(d) < CapMin[code]
    THEN [code |-> Unknown, val |-> <<code, d>>]
    ELSE [code |-> code,
          val |-> CASE code = 1  -> <<U16(d, 1), d[4]>>
                    [] code = 5  -> <<U16(d, 1), d[4], U16(d, 5)>>
                    [] code = 9  -> d[1]
                    [] code = 64 -> <<U16(d, 1) % 4096, RestartEntries(Drop(d, 2))>>
                    [] code = 65 -> Take(d, 4)
                    [] code = 69 -> MapSeq(Chunks(d, 4), LAMBDA c : <<U16(c, 1), c[3], c[4]>>)
                    [] code = 71 -> d
                    [] code = 73 -> Fqdn(d)
                    [] OTHER     -> None]

parse_capabilities(buf) ==
    LET Caps(x) == IF x.head[1] # 2 THEN Ok(<<>>)
                   ELSE Strict(Walk11(x.body),
                               LAMBDA c : Ok(parse_one_capability(c.head[1], c.body)))
    IN  Then(Strict(Walk11(buf), Caps), LAMBDA caps : Ok(FlattenSeq(caps)))

(* The first 4-byte AS capability overrides the 2-byte field. *)
OpenAsn(my_asn, caps) ==
    LET fours == SelectSeq(caps, LAMBDA c : c.code = 65)
    IN  IF fours = <<>> THEN <<0, 0>> \o my_asn ELSE Head(fours).val

(* Marker and type, then version, AS, hold time, identifier and options;   *)
(* the caller's slice may be shorter than the header, which panics.        *)
parse_bgp_open(b) ==
    IF Len(b) < 16 THEN Panic
    ELSE IF Take(b, 16) # Marker THEN Err
    ELSE IF Len(b) < 19 THEN Panic
    ELSE IF b[19] # 1 THEN Err
    ELSE IF Len(b) < 29 \/ Len(b) < 29 + b[29] THEN Err
    ELSE Then(parse_capabilities(Slice(b, 30, b[29])), LAMBDA caps :
             Ok([version |-> b[20], asn |-> OpenAsn(Slice(b, 21, 2), caps),
                 hold_time |-> U16(b, 23), bgp_id |-> Slice(b, 25, 4),
                 capabilities |-> caps]))
=============================================================================
