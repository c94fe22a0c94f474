---------------------------- MODULE MCRoutePolicy ---------------------------
(* Which routes the RIB takes and which it calls best: the route table, the    *)
(* reloads of the filter file and the meaning of filter lists and expressions, *)
(* side by side.  They share no variable; a behaviour exercises one of them,   *)
(* the others stay as they start.                                              *)
EXTENDS RibTable, FilterReload, FilterRules, FilterExpr

VARIABLE part   \* "table", "reload", "rules" or "expr"

vars == <<tableVars, reloadVars, rulesVars, exprVars, part>>

(* RibTable: one RIB type, one prefix, two Add-Path ids and the plain path.     *)
(* The attributes exercise the boundary of the ranking: a missing LOCAL_PREF    *)
(* ranks like LOCAL_PREF 0, a missing MED like u32::MAX.                        *)
MCAttrs == { [lp |-> 2,      hops |-> 2, med |-> Absent],
             [lp |-> 0,      hops |-> 1, med |-> 1],
             [lp |-> Absent, hops |-> 1, med |-> 2] }

(* FilterRules: addresses of two bits, two ASNs. *)
Listed(n)  == [ok |-> TRUE, v |-> n]
Garbled    == [ok |-> FALSE, v |-> Net(4, <<0, 0>>, 0)]

MCRules ==
    { AnyRoute("accept"),
      [AnyRoute("deny")   EXCEPT !.prefix_list = {Listed(Net(4, <<1, 0>>, 1))}],
      [AnyRoute("tag")    EXCEPT !.prefix_list = {Listed(Net(4, <<0, 0>>, 2)), Garbled}],
      [AnyRoute("deny")   EXCEPT !.prefix_list = {Garbled}, !.peer_as_list = {1}],
      [AnyRoute("deny")   EXCEPT !.peer_addr_list = {Listed(1)}],
      [AnyRoute("deny")   EXCEPT !.peer_addr_list = {Garbled}, !.local_pref_min = 1],
      [AnyRoute("accept") EXCEPT !.local_pref_max = 1, !.med_max = 0],
      [AnyRoute("deny")   EXCEPT !.community_list = {"c"}],
      [AnyRoute("deny")   EXCEPT !.as_path_contains = {1, 2}],
      [AnyRoute("deny")   EXCEPT !.expr = Written(And(Cmp("prefix_len", ">", 1), Flag("has_prepend")))],
      [AnyRoute("deny")   EXCEPT !.expr = Written(CmpStr("rpki", "!=", "invalid"))],
      [AnyRoute("tag")    EXCEPT !.expr = Written(Or(Cmp("local_pref", "<", 100), Cmp("med", "=", 0)))],
      [AnyRoute("deny")   EXCEPT !.expr = <<Word("NOT"), Word("NOT"), AtomTok(Flag("true"))>>] }

Seq1(asns) == Segment("Sequence", asns)

MCPaths == { << >>, <<Seq1(<<1>>)>>, <<Seq1(<<1, 2, 2>>)>>, <<Seq1(<<2>>), Seq1(<<1>>)>>,
             <<Seq1(<<1>>), Segment("Set", <<2>>)>>,
             <<Segment("ConfedSequence", <<1, 2, 1>>), Seq1(<<2>>)>> }

MCNets == { Net(4, <<0, 0>>, 0), Net(4, <<1, 0>>, 1), Net(4, <<1, 1>>, 2), Net(6, <<1, 0>>, 1) }

MCRoutes ==
    { [prefix |-> Prefix(k, n), peer_as |-> 1, peer_addr |-> 1,
       attrs |-> [as_path |-> <<Seq1(<<1>>)>>, communities |-> {}, local_pref |-> Absent, med |-> Absent]] :
          k \in {"plain", "vpn"}, n \in MCNets }
    \cup
    { [prefix |-> Prefix("plain", Net(4, <<1, 1>>, 2)), peer_as |-> 2, peer_addr |-> 2,
       attrs |-> [as_path |-> p, communities |-> {"c"}, local_pref |-> lp, med |-> med]] :
          p \in MCPaths, lp \in {Absent, 1}, med \in {Absent, 1} }

MCContexts == {BuildRouteCtx(r) : r \in MCRoutes}

MCTerms == { Cmp("prefix_len", ">=", 2), Member("origin_as", {2}), CmpStr("community", "==", "c") }

Init ==
    /\ part \in {"table", "reload", "rules", "expr"}
    /\ TableInit
    /\ ReloadInit /\ (part # "reload" => file = Missing)
    /\ RulesInit  /\ (part # "rules" => route = CHOOSE r \in Routes : TRUE)
    /\ ExprInit   /\ (part # "expr" => tree = CHOOSE t \in Terms : TRUE)

Next ==
    \/ part = "table"  /\ TableNext  /\ UNCHANGED <<reloadVars, rulesVars, exprVars, part>>
    \/ part = "reload" /\ ReloadNext /\ UNCHANGED <<tableVars, rulesVars, exprVars, part>>
    \/ part = "rules"  /\ RulesNext  /\ UNCHANGED <<tableVars, reloadVars, exprVars, part>>
    \/ part = "expr"   /\ ExprNext   /\ UNCHANGED <<tableVars, reloadVars, rulesVars, part>>

Spec == Init /\ [][Next]_vars /\ ReloadFairness
=============================================================================
