---------------------------- MODULE WireExchange ----------------------------
(***************************************************************************)
(* A router encodes a list of items one by one (routes of one family, the  *)
(* parts of an UPDATE, capabilities, statistics, TLVs), all or only the    *)
(* first bytes of the encoding arrive, and the collector decodes them.     *)
(* With kind mrt the collector is its own counterpart: it writes records   *)
(* to an MRT file, and reads back the file or what of it reached the disk. *)
(***************************************************************************)
EXTENDS Mrt

CONSTANTS
    Items,       \* a sequence of what may be sent, by kind
    Peers,       \* per-peer headers, as decoded, by kind
    MaxItems     \* bound: items in one message, by kind

VARIABLES
    kind,        \* what is being exchanged
    peer,        \* per-peer header of the message
    picks,       \* positions in Items of what is encoded so far
    buf,         \* the bytes that arrived
    decoded      \* what the decoder returned, None before

wireVars == <<kind, peer, picks, buf, decoded>>

(* The items encoded so far. *)
sent == [i \in DOMAIN picks |-> Items[kind][picks[i]]]

(* Lists of routes or statistics. *)
ListKinds == {"unicast4", "unicast6", "labeled", "vpn", "vpls", "evpn", "flowspec",
              "bgpls", "srpolicy", "rtc", "stats"}
MessageKinds == {"update", "peer_up", "peer_down", "initiation", "termination", "mirroring"}
Kinds == ListKinds \cup {"as_path", "ls_attribute", "paths", "mrt"} \cup MessageKinds

LocalId == <<10, 0, 0, 1>>

Written(r) ==
    CASE r.writer = "message" -> write_bgp4mp_message(r)
      [] r.writer = "event"   -> rib_event_to_mrt(r)
      [] r.writer = "peers"   -> write_peer_index_table(r)
      [] r.writer = "route"   -> write_rib_entry(r)

Encoded(k, h, items) ==
    CASE k \in {"unicast4", "unicast6"} -> Cat(items, PutNet)
      [] k = "labeled"  -> Cat(items, PutLabeled)
      [] k = "vpn"      -> Cat(items, PutVpn)
      [] k = "vpls"     -> Cat(items, PutVpls)
      [] k = "evpn"     -> Cat(items, PutEvpn)
      [] k = "flowspec" -> Cat(items, PutFlowspec)
      [] k = "bgpls"    -> Cat(items, PutBgpLs)
      [] k = "srpolicy" -> Cat(items, PutSrPolicy)
      [] k = "rtc"      -> Cat(items, PutRtc)
      [] k = "as_path"  -> PutAsPath(items, 4)
      [] k = "ls_attribute" -> Cat(items, PutLsTlv)
      [] k = "paths"    -> Cat(items, PutPath)
      [] k = "mrt"      -> Cat(items, Written)
      [] k = "update"   -> PutBmp(0, PutPeer(h) \o PutUpdate(items))
      [] k = "stats"    -> PutBmp(1, PutPeer(h) \o <<0>> \o Put24(Len(items))
                                      \o Cat(items, PutStat))
      [] k = "peer_down" -> PutBmp(2, PutPeer(h) \o (IF items = <<>> THEN <<2>> ELSE <<1>>)
                                      \o FlattenSeq(items))
      [] k = "peer_up"  ->
            PutBmp(3, PutPeer(h) \o Zeros(12) \o LocalId \o Put16(179) \o Put16(5000)
                      \o PutOpen(<<91, 160>>, 180, LocalId, items)
                      \o PutOpen(<<0, 77>>, 90, h.bgp_id, <<>>))
      [] k = "initiation"  -> PutBmp(4, Cat(items, PutLsTlv))
      [] k = "termination" -> PutBmp(5, Cat(items, PutLsTlv))
      [] k = "mirroring"   -> PutBmp(6, PutPeer(h) \o Cat(items, PutLsTlv))

Payload(r) == IF r.ok THEN Ok(r.val.payload) ELSE r

Decoded(k, b) ==
    CASE k = "unicast4" -> decode_nlri(b, "ipv4")
      [] k = "unicast6" -> decode_nlri(b, "ipv6")
      [] k = "labeled"  -> decode_labeled_nlri(b, "ipv4")
      [] k = "vpn"      -> decode_vpn_nlri(b, "ipv4")
      [] k = "vpls"     -> decode_vpls_nlri(b)
      [] k = "evpn"     -> decode_evpn_nlri(b)
      [] k = "flowspec" -> decode_flowspec_nlri(b, FALSE)
      [] k = "bgpls"    -> decode_bgpls_nlri(b)
      [] k = "srpolicy" -> decode_srpolicy_nlri(b, FALSE)
      [] k = "rtc"      -> decode_rtc_nlri(b)
      [] k = "as_path"  -> parse_as_path(b, FALSE)
      [] k = "ls_attribute" -> Ok(parse_bgpls_attribute(b))
      [] k = "paths"    -> parse_srpolicy_candidate_paths(b)
      [] k = "mrt"      -> Ok(read_records(b))
      [] OTHER          -> Payload(parse_bmp_message(b))

----------------------------------------------------------------------------
WireInit ==
    /\ kind \in Kinds
    /\ peer \in Peers[kind]
    /\ picks = <<>> /\ buf = <<>> /\ decoded = None

(* An UPDATE has its parts in this order and no attribute twice. *)
PartOrder == [withdraw |-> 1, attr |-> 2, announce |-> 3]
InOrder(item) ==
    \A i \in DOMAIN sent :
        /\ PartOrder[sent[i].part] <= PartOrder[item.part]
        /\ (sent[i].part = "attr" /\ item.part = "attr") => sent[i].type < item.type

(* The n-th item is sent. *)
Send(n) ==
    /\ decoded = None /\ Len(picks) < MaxItems[kind]
    /\ kind = "update" => InOrder(Items[kind][n])
    /\ picks' = Append(picks, n)
    /\ UNCHANGED <<kind, peer, buf, decoded>>

(* The first n bytes arrive and are decoded. *)
Receive(n) ==
    /\ decoded = None
    /\ buf' = Take(Encoded(kind, peer, sent), n)
    /\ decoded' = Some(Decoded(kind, buf'))
    /\ UNCHANGED <<kind, peer, picks>>

WireNext ==
    \/ \E n \in DOMAIN Items[kind] : Send(n)
    \/ \E n \in 0..Len(Encoded(kind, peer, sent)) : Receive(n)

WireSpec == WireInit /\ [][WireNext]_wireVars

----------------------------------------------------------------------------
Decoding == decoded # None
Whole    == Decoding /\ Len(buf) = Len(Encoded(kind, peer, sent))
Result   == decoded[1]
Cutoff   == Decoding /\ ~Whole /\ Result.ok

(* Of the BGP-LS attribute every TLV is found: read as RFC 7752 and 9085   *)
(* lay it out, in order where values accumulate, the last one otherwise,   *)
(* and preserved raw when unknown or of another length.                    *)
LsAttributeAsSent(v, items) ==
    LET Of(t) == SelectSeq(items, LAMBDA x : x.type = t /\ x.means # None)
        Means(t) == FlattenSeq(MapSeq(Of(t), LAMBDA x : x.means))
        raw == SelectSeq(items, LAMBDA x : x.means = None)
    IN  /\ \A t \in LsTypes :
             v.known[t] = IF t \in LsRepeated \/ Of(t) = <<>> THEN Means(t)
                          ELSE <<Last(Means(t))>>
        /\ v.unknown = MapSeq(raw, LAMBDA x : [type |-> x.type, val |-> x.val])

(* Of the candidate paths exactly one is best, of the highest preference,  *)
(* and only the best mark is added to what was sent.                       *)
PathsAsSent(v, items) ==
    LET best == {i \in DOMAIN v : v[i].is_best}
        AsSent(p) == [preference |-> p.preference, name |-> p.name, lists |-> p.lists]
    IN  /\ MapSeq(v, AsSent) = items
        /\ items # <<>> =>
             \E i \in best : /\ best = {i}
                             /\ \A j \in DOMAIN v : AtMost(v[j].preference, v[i].preference)

(* A VPN next hop is read as addresses from its route distinguisher on.    *)
HopsRead(a) ==
    IF a.type = 14 /\ a.val.safi = 128
    THEN [a.val EXCEPT !.hops = Chunks(Zeros(8) \o a.val.hops[1], AddrSize(AfiOf(a.val.afi)))]
    ELSE a.val

(* Withdrawals and announcements with those of MP_UNREACH and MP_REACH,    *)
(* and every attribute, whichever length form it was sent with, but for    *)
(* the next hop of a VPN.                                                  *)
UpdateAsSent(u) ==
    LET attrs == Parts(sent, "attr")
        Nets(part) == MapSeq(Parts(sent, part), LAMBDA x : NoPath(x.val))
        Mps(t) == FlattenSeq(MapSeq(SelectSeq(attrs, LAMBDA a : a.type = t),
                                    LAMBDA a : MapSeq(a.val.prefixes, NoPath)))
    IN  /\ all_announced_with_path_id(u) = Nets("announce") \o Mps(14)
        /\ all_withdrawn_with_path_id(u) = Nets("withdraw") \o Mps(15)
        /\ \A i \in DOMAIN attrs : LET a == attrs[i] IN
             IF a.type \in AttrTypes
             THEN u.attributes.known[a.type] =
                    IF a.type \in DOMAIN ListAttrs THEN a.val ELSE Some(HopsRead(a))
             ELSE \E j \in DOMAIN u.attributes.unknown :
                    u.attributes.unknown[j].val[2] = a.val

(* Both OPENs are found although only the first tells where the second     *)
(* starts; the first 4-byte AS capability replaces the AS field.           *)
PeerUpAsSent(up) ==
    LET fours == SelectSeq(sent, LAMBDA c : c.code = 65)
    IN  /\ up.sent_open.capabilities = sent
        /\ up.sent_open.asn = IF fours = <<>> THEN <<0, 0, 91, 160>> ELSE Head(fours).val
        /\ up.recv_open.asn = <<0, 0, 0, 77>>
        /\ up.recv_open.bgp_id = peer.bgp_id
        /\ up.recv_open.capabilities = <<>>

(* The last value of a single field, and every label. *)
TlvsAsSent(v, items) ==
    LET LastOf(t) == LET x == SelectSeq(items, LAMBDA y : y.type = t)
                     IN  IF x = <<>> THEN None ELSE Some(Last(x).val)
    IN  CASE kind = "initiation" ->
               /\ v.sys_descr = LastOf(0) /\ v.sys_name = LastOf(1)
               /\ v.labels = MapSeq(SelectSeq(items, LAMBDA y : y.type = 2), LAMBDA y : y.val)
          [] kind = "termination" ->
               /\ v.reason_text = LastOf(1)
               /\ v.reason_code = IF LastOf(0) = None THEN 0 ELSE U16(LastOf(0)[1], 1)
          [] kind = "mirroring" ->
               v.pdu = IF LastOf(0) = None THEN <<>> ELSE LastOf(0)[1]

(* A record that is read from a file is what was written.  A peer table    *)
(* and a route are read the way RFC 6396 lays them out.                    *)
RecordAsWritten(rec, r) ==
    LET b == rec.body
        Peers4(p) == Walk(p, 1, LAMBDA x : 5, LAMBDA x : IF x[1] % 2 = 1 THEN 20 ELSE 8)
        nlri == Slice(b, 5, 1 + Octets(b[5]))
        net  == IF "prefix" \in DOMAIN r.prefix THEN r.prefix.prefix ELSE r.prefix
        Same(m) == \A f \in DOMAIN m : m[f] = r[f]
        Change(m) == \A f \in DOMAIN m : m[f] = StateChange(r)[f]
    IN  /\ rec.ts = r.ts
        /\ CASE r.writer = "message" ->
                  LET p == parse_bgp4mp_message(b)
                  IN  /\ <<rec.type, rec.subtype>> = <<16, 4>>
                      /\ p.ok /\ Same(p.val.header) /\ p.val.rest = r.pdu
             [] r.writer = "event" ->
                  LET p == parse_bgp4mp_state_change(b)
                  IN  /\ <<rec.type, rec.subtype>> = <<16, 5>>
                      /\ p.ok /\ Change(p.val.header)
                      /\ <<p.val.old, p.val.new>> = <<StateChange(r).old, StateChange(r).new>>
             [] r.writer = "peers" ->
                  /\ <<rec.type, rec.subtype>> = <<13, 1>>
                  /\ MapSeq(Peers4(Drop(b, 8 + U16(b, 5))).items,
                            LAMBDA x : Drop(x.head, 1) \o x.body)
                     = MapSeq(r.peers, LAMBDA p : p.bgp_id \o p.addr \o p.as)
             [] r.writer = "route" ->
                  /\ rec.type = 13
                  /\ decode_nlri(nlri, IF rec.subtype = 4 THEN "ipv6" ELSE "ipv4") = Ok(<<net>>)
                  /\ U16(b, 5 + Len(nlri)) = Len(r.entries)

(* Events other than sessions coming up and going down leave no record. *)
Recorded == SelectSeq(sent, LAMBDA r : r.writer # "event" \/ r.payload \in {"peer_up", "peer_down"})

RecordsAsWritten(records) ==
    /\ Len(records) <= Len(Recorded)
    /\ \A i \in DOMAIN records : RecordAsWritten(records[i], Recorded[i])

(* The two kinds of record that are not framed or labelled as written: the *)
(* session of an IPv6 peer, whose local address is written as 0.0.0.0 but  *)
(* counted with 16 bytes, and an IPv6 prefix inside a VPN or labelled one, *)
(* written as an IPv4 route.                                               *)
Misframed(r) ==
    \/ r.writer = "event" /\ IsV6(r.peer_addr)
    \/ r.writer = "route" /\ "prefix" \in DOMAIN r.prefix /\ IsV6(r.prefix.prefix.addr)
Sound == \A i \in DOMAIN Recorded : ~Misframed(Recorded[i])

MrtAsWritten(v) ==
    (~v.failed /\ Len(v.records) = Len(Recorded) /\ RecordsAsWritten(v.records)) <=> Sound

(* RFC 4724: End-of-RIB is an UPDATE with nothing in it, or with nothing   *)
(* but an MP_UNREACH that withdraws nothing.                               *)
Unreach(item) == item.part = "attr" /\ item.type = 15
EndOfRib ==
    \/ sent = <<>>
    \/ Len(sent) = 1 /\ Unreach(sent[1]) /\ sent[1].val.prefixes = <<>> /\ sent[1].val.routes = <<>>

(* Routes of families without prefixes are withdrawn, and nothing else. *)
WithdrawsOtherRoutes ==
    \A i \in DOMAIN sent : Unreach(sent[i]) /\ sent[i].val.prefixes = <<>>

(* Other attributes come with routes. *)
HasRoutes(item) == item.part # "attr" \/ item.type \in {14, 15}
Conforming == (\E i \in DOMAIN sent : ~HasRoutes(sent[i])) =>
                 \E i \in DOMAIN sent : HasRoutes(sent[i]) /\ ~Unreach(sent[i])

(* is_eor recognises every End-of-RIB, and takes nothing else for one but  *)
(* an MP_UNREACH that withdraws routes of a family without prefixes.       *)
EndOfRibAsSent(u) ==
    /\ EndOfRib => is_eor(u)
    /\ (is_eor(u) /\ Conforming) => (EndOfRib \/ WithdrawsOtherRoutes)

(* The family and the value of statistics 9 and 10 are lost: the parser    *)
(* expects a 4-byte counter.                                               *)
StatRead(s) ==
    IF s.stat_type \in {9, 10} THEN [s EXCEPT !.afi_safi = None, !.value = Zeros(8)] ELSE s

(* The bytes of the path with 4-byte numbers are also those of one with    *)
(* 2-byte numbers, as when the low half of an AS number reads as the       *)
(* header of an empty segment (AS 512).                                    *)
AlsoTwoByte(path) == parse_as_path_with_asn_size(PutAsPath(path, 4), 2).ok

(* What a router sends, encoded as the RFCs say, is decoded to what it put *)
(* in: of a family the same routes in the same order; of statistics every  *)
(* entry; of an AS path with 4-byte numbers the segments, although the     *)
(* parser tries 2-byte numbers first; of the BGP-LS attribute and of SR    *)
(* policies what was meant; of a BMP message every part, the per-peer      *)
(* header with the RIB the router meant, and End-of-RIB (nlri.rs, evpn.rs, *)
(* flowspec.rs, bgpls.rs, srpolicy.rs, update.rs, open.rs, attributes.rs,  *)
(* capabilities.rs, parser.rs, is_eor).  The exceptions are what the code  *)
(* misreads: StatRead, HopsRead, AlsoTwoByte and, in EndOfRibAsSent,       *)
(* WithdrawsOtherRoutes.  An MRT file is read back record by record unless *)
(* it holds one of the two misframed kinds.                                *)
DecodesAsSent ==
    Whole =>
        LET v == Result.val IN
        /\ Result.ok
        /\ kind \in MessageKinds \ {"initiation", "termination"} => v.header = peer
        /\ CASE kind = "stats" -> v = [header |-> peer, stats |-> MapSeq(sent, StatRead)]
             [] kind = "as_path" -> AlsoTwoByte(sent) \/ v = sent
             [] kind = "ls_attribute" -> LsAttributeAsSent(v, sent)
             [] kind = "paths" -> PathsAsSent(v, sent)
             [] kind = "mrt" -> MrtAsWritten(v)
             [] kind = "update" -> UpdateAsSent(v.update) /\ EndOfRibAsSent(v.update)
             [] kind = "peer_up" -> PeerUpAsSent(v)
             [] kind = "peer_down" ->
                  v.notification = IF sent = <<>> THEN None ELSE Some(FlattenSeq(sent))
             [] kind \in {"initiation", "termination", "mirroring"} -> TlvsAsSent(v, sent)
             [] OTHER -> v = sent

LosesAnnouncements(u, whole) ==
    /\ u.withdrawn = whole.withdrawn
    /\ u.attributes = whole.attributes
    /\ IsPrefix(u.announced, whole.announced)

(* When only the first bytes arrive, a decoder that does not refuse them   *)
(* returns the first routes, statistics or TLVs and never one that was not *)
(* sent: a length that runs past the end is noticed by every loop.  An     *)
(* UPDATE loses announcements at its end and nothing else, so no route is  *)
(* recorded with some of its attributes; a cut Peer Up is always refused.  *)
(* Of an MRT file cut short, whole records of the beginning are read.  An  *)
(* AS path never arrives cut: the length of its attribute is checked.      *)
CutMessagesLoseOnlyTheirEnd ==
    Cutoff =>
        LET v == Result.val
        IN  CASE kind = "stats" -> IsPrefix(v.stats, MapSeq(sent, StatRead))
              [] kind \in ListKinds \ {"stats"} -> IsPrefix(v, sent)
              [] kind = "update" ->
                    LosesAnnouncements(v.update,
                                       Decoded(kind, Encoded(kind, peer, sent)).val.update)
              [] kind = "peer_up" -> FALSE
              [] kind = "peer_down" ->
                    v.notification = None \/ IsPrefix(v.notification[1], FlattenSeq(sent))
              [] kind = "ls_attribute" -> \E k \in 0..Len(sent) : LsAttributeAsSent(v, Take(sent, k))
              [] kind = "paths" -> \E k \in 0..Len(sent) : PathsAsSent(v, Take(sent, k))
              [] kind = "mrt" -> Sound => RecordsAsWritten(v.records)
              [] kind \in {"initiation", "termination", "mirroring"} ->
                    \E k \in 0..Len(sent) : TlvsAsSent(v, Take(sent, k))
              [] kind = "as_path" -> TRUE

(* Decoding what arrives of a conforming message never indexes past it. *)
NoPanic == (Decoding /\ ~Result.ok) => Result.val = "error"
=============================================================================
