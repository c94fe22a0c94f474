----------------------------- MODULE RotoFilter -----------------------------
(***************************************************************************)
(* Roto filters: the context of crates/rbmp-rib/src/roto_ctx.rs, the       *)
(* functions a script may call on it, and RotoFilterEngine of              *)
(* roto_filter.rs.  A script is external: what matters is whether it       *)
(* answers true, answers false or fails.                                   *)
(***************************************************************************)
EXTENDS FilterEngine

\* RouteCtx::from_bmp: the ASNs come from the printed path, LOCAL_PREF and MED are 0
\* when absent, and "ipv6" is said of plain IPv6 prefixes only
FromBmp(r) ==
    [prefix      |-> r.prefix,
     prefix_len  |-> r.prefix.net.len,
     afi         |-> IF r.prefix.kind = "plain" /\ r.prefix.net.fam = 6 THEN "ipv6" ELSE "ipv4",
     peer_as     |-> r.peer_as,
     peer_addr   |-> r.peer_addr,
     action      |-> "announce",
     as_path     |-> PathWords(r.attrs.as_path),
     as_path_len |-> Len(PathWords(r.attrs.as_path)),
     origin_asn  |-> LastAsn(PathWords(r.attrs.as_path)),
     has_prepend |-> HasPrepend(PathWords(r.attrs.as_path)),
     local_pref  |-> OrDefault(r.attrs.local_pref, 0),
     med         |-> OrDefault(r.attrs.med, 0),
     community_set |-> r.attrs.communities,
     rpki        |-> "unknown"]

\* Functions of the Roto runtime
CommunityHas(ctx, c) == c \in ctx.community_set
AsPathContains(ctx, asn) == \E i \in DOMAIN ctx.as_path : ctx.as_path[i] = asn

\* prefix_in_range: both texts must parse, so a labelled or VPN prefix never is
PrefixInRange(ctx, cidr) ==
    /\ cidr.ok
    /\ ctx.prefix.kind = "plain"
    /\ NetContains(cidr.v, ctx.prefix.net.fam, ctx.prefix.net.addr)
    /\ ctx.prefix_len >= cidr.v.len

\* RotoFilterEngine::evaluate with the feature roto-jit (answer of the script), and
\* without it, where the engine is a no-op
Evaluate(jit, answer) ==
    CASE ~jit                      -> "default"
      [] jit /\ answer = "true"    -> "accept"
      [] jit /\ answer = "false"   -> "deny"
      [] jit /\ answer = "error"   -> "default"
=============================================================================
