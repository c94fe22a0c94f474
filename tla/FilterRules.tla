---------------------------- MODULE FilterRules -----------------------------
(***************************************************************************)
(* What a filter list means: an operator edits the list and tries it on    *)
(* one route after another.  Rules and routes are constants; every list up *)
(* to MaxRules is reached.                                                 *)
(***************************************************************************)
EXTENDS RotoFilter

CONSTANTS
    Rules,      \* RouteFilter records
    MaxRules,   \* bound on the length of the list
    Routes      \* decoded routes

\* What parses of a prefix_list are networks, and a file that loads is not None
ASSUME RuleAssumption ==
    /\ \A f \in Rules : Parsable(f.prefix_list) \subseteq Nets
    /\ \A r \in Routes : r.prefix.net \in Nets
    /\ Absent \notin Seq(Rules)

VARIABLES
    list,       \* the filter file, loaded
    route       \* the route it is tried on

rulesVars == <<list, route>>

RulesInit == list = << >> /\ route \in Routes

AppendRule(f) == Len(list) < MaxRules /\ list' = Append(list, f) /\ UNCHANGED route
DropRule      == list # << >> /\ list' = Tail(list) /\ UNCHANGED route
TryRoute(r)   == route' = r /\ UNCHANGED list

RulesNext ==
    \/ \E f \in Rules : AppendRule(f)
    \/ DropRule
    \/ \E r \in Routes : TryRoute(r)

RulesSpec == RulesInit /\ [][RulesNext]_rulesVars

-----------------------------------------------------------------------------
(* Properties *)

OnlySequences(r) == \A i \in DOMAIN r.attrs.as_path : r.attrs.as_path[i].kind = "Sequence"

\* The rules that look only at what the body of a test request can say
Testable(f) == /\ f.community_list = {} /\ f.as_path_contains = {}
               /\ Parsable(f.peer_addr_list) = {}

\* The verdict of POST /api/filters/test, which evaluates lists against empty attributes:
\* comparable for a plain prefix without LOCAL_PREF, MED and AS sets and rules that do
\* not ask for the peer's address, communities or path members
TestedAsLive ==
    (/\ route.prefix.kind = "plain" /\ OnlySequences(route)
     /\ route.attrs.local_pref = Absent /\ route.attrs.med = Absent
     /\ \A i \in DOMAIN list : Testable(list[i]))
        => FilterTest(list, TestBody(route)) = Apply(LoadYaml(list), route)

Within(a, b) == a.len >= b.len /\ NetContains(b, a.fam, a.addr)

Shared(ctx) == <<ctx.prefix_len, ctx.as_path_len, ctx.origin_asn, ctx.has_prepend,
                 ctx.peer_as, ctx.community_set, ctx.rpki, ctx.action>>

\* A rule keeps its meaning when it moves between YAML expressions, the test endpoint
\* and Roto.  The test endpoint gives a comparable route the verdict the RIB gives it once
\* the same file is loaded, expressions included; the three contexts agree on every
\* field they share when the AS path has only sequences, although two of them read the
\* printed path; and Roto's prefix_in_range is the subnet test (filter.rs 183-221 and
\* 255-302, filters.rs 54-87, roto_ctx.rs 62-185).
RulesTravel ==
    /\ TestedAsLive
    /\ OnlySequences(route) =>
         /\ Shared(FromBmp(route)) = Shared(BuildRouteCtx(route))
         /\ Shared(TestCtx(TestBody(route))) = Shared(BuildRouteCtx(route))
         /\ \A i \in DOMAIN list : \A e \in list[i].prefix_list :
               (e.ok /\ route.prefix.kind = "plain")
                 => (PrefixInRange(FromBmp(route), e) <=> Within(route.prefix.net, e.v))

\* The route neither lies in a listed network nor contains one; at least one is listed
Elsewhere(f) ==
    /\ Parsable(f.prefix_list) # {}
    /\ \A n \in Parsable(f.prefix_list) : ~Within(route.prefix.net, n) /\ ~Within(n, route.prefix.net)

\* A rule with no criterion but prefix_list decides on every route within one of its
\* networks, labelled and VPN ones included, when the rules before it list networks
\* elsewhere: entries that do not parse hide none of the others, and the rules are tried
\* in order (filter.rs 29, 89-124 and 262-278).
PrefixListTakesSubnets ==
    \A i \in DOMAIN list :
        (/\ list[i] = [AnyRoute(list[i].action) EXCEPT !.prefix_list = list[i].prefix_list]
         /\ \E e \in list[i].prefix_list : e.ok /\ Within(route.prefix.net, e.v)
         /\ \A j \in 1 .. i - 1 : Elsewhere(list[j]))
        => Apply(LoadYaml(list), route) = IF list[i].action = "deny" THEN "deny" ELSE "accept"

\* filter.rs 29: "Match if route prefix falls within any of these networks"; filters.yaml 4:
\* "prefix_list uses subnet matching".  A rule with a prefix_list takes no other route.  It
\* fails: only the address is compared, so a route less specific than the network matches,
\* and a list of which nothing parses is no condition at all.
PrefixListTakesOnlySubnets ==
    \A i \in DOMAIN list :
        (list[i].prefix_list # {} /\ Matches(Compile(list[i]), route, BuildRouteCtx(route)))
            => \E e \in list[i].prefix_list : e.ok /\ Within(route.prefix.net, e.v)
=============================================================================
