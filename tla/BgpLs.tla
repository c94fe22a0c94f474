-------------------------------- MODULE BgpLs -------------------------------
(***************************************************************************)
(* BGP-LS NLRI and attribute (crates/rbmp-core/src/bgp/bgpls.rs) and the   *)
(* Prefix-SID attribute (srv6.rs): nested TLVs in which the last value of  *)
(* a type wins, some accumulate, and unknown ones are kept or ignored.     *)
(***************************************************************************)
EXTENDS BgpNlri, TLC

Four(v)    == Take(v, 4)
Sixteen(v) == Take(v, 16)

(* A node descriptor from its sub-TLVs: AS number 512, BGP-LS id 513, OSPF *)
(* area 514, IGP router id 515.                                            *)
NodeDescriptor(subs) ==
    [asn        |-> LastVal(subs, 512, 4, Four),
     bgp_ls_id  |-> LastVal(subs, 513, 4, Four),
     ospf_area  |-> LastVal(subs, 514, 4, Four),
     igp_router |-> LastVal(subs, 515, 0, LAMBDA v : v)]

decode_node_sub_tlvs(buf) == NodeDescriptor(Tlvs22(buf))

(* The descriptor in its outer TLV, whose type is not looked at. *)
decode_node_descriptor(b) ==
    IF Len(b) < 4 \/ Len(b) < 4 + U16(b, 3) THEN NodeDescriptor(<<>>)
    ELSE decode_node_sub_tlvs(Slice(b, 5, U16(b, 3)))

(* All descriptors of one outer type are read into the same record. *)
NodeOf(tlvs, t) ==
    NodeDescriptor(FlattenSeq(MapSeq(OfType(tlvs, t, 0), LAMBDA x : Tlvs22(x.val))))

(* The last interface (or neighbour) address, of either family. *)
LinkAddr(tlvs, v4, v6) ==
    LET hits == SelectSeq(tlvs, LAMBDA x : \/ x.type = v4 /\ Len(x.val) >= 4
                                           \/ x.type = v6 /\ Len(x.val) >= 16)
    IN  IF hits = <<>> THEN None
        ELSE Some(Take(Last(hits).val, IF Last(hits).type = v4 THEN 4 ELSE 16))

decode_link_nlri(rest) ==
    LET tlvs == Tlvs22(rest)
    IN  [local_node  |-> NodeOf(tlvs, 256),
         remote_node |-> NodeOf(tlvs, 257),
         local_id    |-> LastVal(tlvs, 258, 8, Four),
         remote_id   |-> LastVal(tlvs, 258, 8, LAMBDA v : Slice(v, 5, 4)),
         local_addr  |-> LinkAddr(tlvs, 259, 261),
         remote_addr |-> LinkAddr(tlvs, 260, 262)]

(* The last complete IP reachability TLV (265), or the default route. *)
decode_prefix_nlri(rest, ipv6) ==
    LET tlvs == Tlvs22(rest)
        size == IF ipv6 THEN 16 ELSE 4
        hits == SelectSeq(OfType(tlvs, 265, 1), LAMBDA x : Len(x.val) >= 1 + Octets(x.val[1]))
        v    == Last(hits).val
    IN  IF \E i \in DOMAIN hits : Octets(hits[i].val[1]) > size THEN Panic
        ELSE Ok([local_node |-> NodeOf(tlvs, 256),
                 prefix |-> IF hits = <<>> THEN Net(<<>>, 0, size)
                            ELSE Net(Slice(v, 2, Octets(v[1])), v[1], size)])

(* The descriptor, then SID TLVs whose first 16 bytes are the SID and      *)
(* whose sub-TLVs carry the behaviour (1) and the structure (2).           *)
decode_srv6_sid_nlri(rest) ==
    LET nd   == IF Len(rest) >= 4 THEN U16(rest, 3) + 4 ELSE Len(rest)
        sids == OfType(Tlvs22(Drop(rest, nd)), 1, 16)
        subs == FlattenSeq(MapSeq(sids, LAMBDA x : Tlvs22(Drop(x.val, 16))))
    IN  [local_node        |-> decode_node_descriptor(rest),
         srv6_sid          |-> IF sids = <<>> THEN Zeros(16) ELSE Sixteen(Last(sids).val),
         endpoint_behavior |-> LastVal(subs, 1, 2, LAMBDA v : U16(v, 1)),
         sid_structure     |-> LastVal(subs, 2, 4, Four)]

(* Every NLRI starts with protocol (1) and identifier (8). *)
decode_one(t, b) ==
    LET rest == Drop(b, 9)
        Named(body) == Ok([type |-> t, protocol |-> b[1], identifier |-> Slice(b, 2, 8),
                           body |-> body])
        prefix == decode_prefix_nlri(rest, t = 4)
    IN  IF Len(b) < 9 \/ t \notin {1, 2, 3, 4, 6} THEN Ok([type |-> t, data |-> b])
        ELSE CASE t = 1 -> Named(decode_node_descriptor(rest))
               [] t = 2 -> Named(decode_link_nlri(rest))
               [] t \in {3, 4} -> IF prefix.ok THEN Named(prefix.val) ELSE prefix
               [] t = 6 -> Named(decode_srv6_sid_nlri(rest))

decode_bgpls_nlri(buf) ==
    Strict(Walk22(buf), LAMBDA x : decode_one(U16(x.head, 1), x.body))

----------------------------------------------------------------------------
(* The BGP-LS attribute: the lengths a TLV type accepts, the types whose   *)
(* values accumulate, and what is read of a value.                         *)
LsExact  == [t \in {1028, 1081, 1082, 1088, 1092, 1155} |-> 4]
            @@ [t \in {1029} |-> 16] @@ [t \in {1083} |-> 32]
LsAtLeast == [t \in {1026, 1027, 1035, 1094} |-> 0] @@ [t \in {1024} |-> 1]
             @@ [t \in {1034, 1036} |-> 2] @@ [t \in {1039} |-> 4] @@ [t \in {1044} |-> 5]
             @@ [t \in {1099, 1101, 1102, 1103, 1158} |-> 7] @@ [t \in {1100} |-> 14]
LsRepeated == {1039, 1044, 1083, 1094, 1099, 1100, 1158}
LsTypes    == DOMAIN LsExact \cup DOMAIN LsAtLeast \cup {1095, 1156}

LsAccepts(x) ==
    LET n == Len(x.val) IN
    \/ x.type \in DOMAIN LsExact   /\ n = LsExact[x.type]
    \/ x.type \in DOMAIN LsAtLeast /\ n >= LsAtLeast[x.type]
    \/ x.type = 1095 /\ n \in 1..4
    \/ x.type = 1156 /\ n \in {4, 16}

(* Flags, then blocks of range (3), two bytes for 1034 only, and base (3). *)
SegmentBlocks(v, gap) ==
    <<v[1], MapSeq(Chunks(Drop(v, 2), 6 + gap),
                   LAMBDA c : <<Drop(c, 3 + gap), Take(c, 3)>>)>>

FlexAlgoDef(v) ==
    LET subs == Tlvs22(Drop(v, 4))
    IN  <<Take(v, 4), [s \in 1..3 |-> LastVal(subs, s, 4, Four)]>>

LsValue(x) ==
    LET v == x.val IN
    CASE x.type = 1024 -> v[1]
      [] x.type = 1034 -> SegmentBlocks(v, 2)
      [] x.type = 1036 -> SegmentBlocks(v, 0)
      [] x.type \in {1083, 1094} -> Chunks(v, 4)
      [] x.type = 1095 -> Zeros(4 - Len(v)) \o v
      [] x.type = 1099 -> <<v[1], v[2], Slice(v, 5, 3)>>
      [] x.type = 1100 -> <<v[1], v[2], Slice(v, 3, 7), Slice(v, 12, 3)>>
      [] x.type \in 1101..1103 -> Slice(v, 5, 3)
      [] x.type = 1158 -> <<v[1], v[2], IF Len(v) >= 8 THEN Slice(v, 5, 4)
                                        ELSE <<0>> \o Slice(v, 5, 3)>>
      [] x.type = 1039 -> FlexAlgoDef(v)
      [] x.type = 1044 -> <<v[1], Slice(v, 2, 4)>>
      [] OTHER -> v

parse_bgpls_attribute(buf) ==
    LET tlvs == Tlvs22(buf)
        Of(t) == MapSeq(SelectSeq(tlvs, LAMBDA x : x.type = t /\ LsAccepts(x)), LsValue)
    IN  [known   |-> [t \in LsTypes |->
                        IF t \in {1083, 1094} THEN FlattenSeq(Of(t))
                        ELSE IF t \in LsRepeated \/ Of(t) = <<>> THEN Of(t)
                        ELSE <<Last(Of(t))>>],
         unknown |-> SelectSeq(tlvs, LAMBDA x : ~LsAccepts(x))]

----------------------------------------------------------------------------
(* srv6.rs *)

(* After a reserved byte, SID information TLVs: SID, flags, behaviour. *)
parse_srv6_l3_service(v) ==
    MapSeq(OfType(Tlvs12(Drop(v, 1)), 1, 19), LAMBDA x : Cut(x.val, <<16, 1, 2>>).val)

parse_prefix_sid(buf) ==
    LET tlvs == Tlvs12(buf)
    IN  [label_index     |-> LastVal(tlvs, 1, 6, LAMBDA v : Slice(v, 3, 4)),
         originator_srgb |-> LastVal(tlvs, 3, 2, LAMBDA v :
                               <<Take(v, 2), MapSeq(Chunks(Drop(v, 2), 6),
                                                    LAMBDA c : Cut(c, <<3, 3>>).val)>>),
         srv6_l3_service |-> LastVal(tlvs, 5, 0, parse_srv6_l3_service),
         raw_tlvs        |-> SelectSeq(tlvs, LAMBDA x : x.type \notin {1, 3, 5})]
=============================================================================
