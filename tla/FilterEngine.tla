---------------------------- MODULE FilterEngine ----------------------------
(***************************************************************************)
(* The YAML filter engine: crates/rbmp-rib/src/filter.rs, and the filter   *)
(* test endpoint of crates/rbmp-server/src/api/filters.rs.                 *)
(*                                                                         *)
(* A filter list is a sequence of RouteFilter records.  An entry of        *)
(* prefix_list or peer_addr_list is [ok, v]: ok says whether the text      *)
(* parses.  The address of a network is its bits, the first one first; the *)
(* address of a peer and a community are opaque values, equal exactly when *)
(* the formatted strings are.  The engine is the same whatever expressions *)
(* say, so what parses and what it evaluates to are parameters: module     *)
(* FilterExpr has the code's.                                              *)
(***************************************************************************)
EXTENDS Integers, Sequences, AsPath, Optional

CONSTANTS
    AddrBits,       \* width of an address (32 or 128 in the code)
    Unspecified,    \* the address 0.0.0.0 the test endpoint uses as peer
    BuildExpr(_),   \* parse_expr: [ok, e] of the words of an expression
    EvalExpr(_, _)  \* Expr::eval of a parsed expression in a context

ASSUME AddrAssumption == AddrBits \in Nat \ {0}

Nets == [fam : {4, 6}, addr : [1 .. AddrBits -> {0, 1}], len : 0 .. AddrBits]

Net(fam, addr, len) == [fam |-> fam, addr |-> addr, len |-> len]

\* IpNet::contains of one address
NetContains(net, fam, addr) ==
    net.fam = fam /\ \A b \in 1 .. net.len : addr[b] = net.addr[b]

\* A RouteFilter in which nothing but name and action is given
AnyRoute(action) ==
    [action |-> action, prefix_list |-> {}, peer_as_list |-> {}, community_list |-> {},
     peer_addr_list |-> {}, as_path_contains |-> {}, local_pref_min |-> Absent,
     local_pref_max |-> Absent, med_max |-> Absent, expr |-> Absent]

-----------------------------------------------------------------------------
(* Compiling *)

Parsable(entries) == {e.v : e \in {x \in entries : x.ok}}

CompiledExpr(r) == IF r.ok THEN r.e ELSE Absent

\* CompiledFilter::compile: what does not parse is left out
Compile(f) ==
    [raw       |-> f,
     nets      |-> Parsable(f.prefix_list),
     peer_nets |-> Parsable(f.peer_addr_list),
     compiled  |-> IF f.expr = Absent THEN Absent ELSE CompiledExpr(BuildExpr(f.expr))]

\* FilterEngine::load_yaml
LoadYaml(filters) == [i \in DOMAIN filters |-> Compile(filters[i])]

-----------------------------------------------------------------------------
(* Matching *)

\* A prefix is plain, labelled or of a VPN; inner_addr and prefix_len look at the
\* network it carries (the decoder nests no further)
Prefix(kind, net) == [kind |-> kind, net |-> net]

\* Mutant: the network of the prefix is compared instead of its address, so a
\* route longer than the listed network no longer falls within it
PrefixMatchesExactly(cf, net) ==
    cf.nets = {} \/ \E n \in cf.nets : n.fam = net.fam /\ n.len = net.len
                                        /\ NetContains(n, net.fam, net.addr)

PrefixMatches(cf, net) ==
    cf.nets = {} \/ \E n \in cf.nets : NetContains(n, net.fam, net.addr)

\* A missing LOCAL_PREF or MED counts as 0
BoundsMatch(f, attrs) ==
    /\ f.local_pref_min # Absent => OrDefault(attrs.local_pref, 0) >= f.local_pref_min
    /\ f.local_pref_max # Absent => OrDefault(attrs.local_pref, 0) <= f.local_pref_max
    /\ f.med_max # Absent        => OrDefault(attrs.med, 0) <= f.med_max

\* CompiledFilter::matches; ctx is Absent when the caller built none
Matches(cf, r, ctx) ==
    /\ PrefixMatches(cf, r.prefix.net)
    /\ cf.raw.peer_as_list = {} \/ r.peer_as \in cf.raw.peer_as_list
    /\ cf.peer_nets = {} \/ r.peer_addr \in cf.peer_nets
    /\ cf.raw.community_list = {}
          \/ cf.raw.community_list \cap r.attrs.communities # {}
    /\ \A a \in cf.raw.as_path_contains :
          \E i \in DOMAIN FlatAsns(r.attrs.as_path) : FlatAsns(r.attrs.as_path)[i] = a
    /\ BoundsMatch(cf.raw, r.attrs)
    /\ (cf.compiled # Absent /\ ctx # Absent) => EvalExpr(cf.compiled, ctx)

\* build_route_ctx
RouteCtx(len, asns, rpki, action, peer_as, lp, med, comms) ==
    [prefix_len |-> len, as_path_len |-> Len(asns), origin_asn |-> LastAsn(asns),
     has_prepend |-> HasPrepend(asns), rpki |-> rpki, action |-> action,
     peer_as |-> peer_as, local_pref |-> lp, med |-> med, community_set |-> comms]

Reversed(asns) == [i \in DOMAIN asns |-> asns[Len(asns) + 1 - i]]

\* Mutant: the first ASN of the path is taken for the origin
BuildRouteCtxFirst(r) ==
    RouteCtx(r.prefix.net.len, Reversed(FlatAsns(r.attrs.as_path)), "unknown", "announce",
             r.peer_as, r.attrs.local_pref, r.attrs.med, r.attrs.communities)

BuildRouteCtx(r) ==
    RouteCtx(r.prefix.net.len, FlatAsns(r.attrs.as_path), "unknown", "announce",
             r.peer_as, r.attrs.local_pref, r.attrs.med, r.attrs.communities)

\* The loop of apply and apply_with_ctx: the first match decides, a tag accepts
ApplyWithCtx(engine, r, ctx) ==
    LET hits == {i \in DOMAIN engine : Matches(engine[i], r, ctx)}
    IN  CASE hits = {} -> "default"
          [] hits # {} -> LET i == CHOOSE i \in hits : \A j \in hits : i <= j
                          IN  IF engine[i].raw.action = "deny" THEN "deny" ELSE "accept"

NeedsCtx(engine) == \E i \in DOMAIN engine : engine[i].compiled # Absent

\* Mutant: no context is built, so the expressions are passed over
ApplyWithoutCtx(engine, r) == ApplyWithCtx(engine, r, Absent)

\* FilterEngine::apply, which RibManager::process calls
Apply(engine, r) == ApplyWithCtx(engine, r, IF NeedsCtx(engine) THEN BuildRouteCtx(r) ELSE Absent)

-----------------------------------------------------------------------------
(* POST /api/filters/test *)

NoAttrs == [as_path |-> << >>, communities |-> {}, local_pref |-> Absent, med |-> Absent]

\* The request that describes a route: its AS path as printed, and no LOCAL_PREF or
\* MED, for which the body has no field.  A body's as_path is the words that parse.
TestBody(r) ==
    [prefix |-> r.prefix, peer_as |-> r.peer_as, as_path |-> PathWords(r.attrs.as_path),
     rpki |-> Absent, action |-> Absent, communities |-> r.attrs.communities]

TestCtx(body) ==
    RouteCtx(body.prefix.net.len, body.as_path, OrDefault(body.rpki, "unknown"),
             OrDefault(body.action, "announce"), body.peer_as, Absent, Absent, body.communities)

\* filter_test on the file's content (Absent: the file does not load); a labelled or
\* VPN prefix does not parse as IpNet
FilterTest(file, body) ==
    CASE body.prefix.kind # "plain" -> "bad request"
      [] body.prefix.kind = "plain" /\ file = Absent -> "default"
      [] body.prefix.kind = "plain" /\ file # Absent ->
            ApplyWithCtx(LoadYaml(file),
                         [prefix |-> body.prefix, peer_as |-> body.peer_as,
                          peer_addr |-> Unspecified, attrs |-> NoAttrs],
                         TestCtx(body))

\* GET /api/filters/stats counts the filters of the file, not of the engine
FilterStats(file) == IF file = Absent THEN 0 ELSE Len(LoadYaml(file))
=============================================================================
