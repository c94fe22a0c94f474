----------------------------- MODULE FilterExpr -----------------------------
(***************************************************************************)
(* Filter expressions: the grammar filter.pest and the parser and          *)
(* evaluator of crates/rbmp-rib/src/filter_expr.rs.                        *)
(*                                                                         *)
(* An expression arrives as a sequence of tokens; splitting the text into  *)
(* words is pest's work.  A token is a keyword, a parenthesis or a whole   *)
(* atom: a comparison (field, operator, value), a membership test or a     *)
(* flag.  A value says whether it was written as an integer or quoted.     *)
(*                                                                         *)
(* The specification writes an expression term by term (ExprNext): every   *)
(* one up to MaxTerms is reached.                                          *)
(***************************************************************************)
EXTENDS Integers, Sequences, Optional

CONSTANTS
    U8Max,      \* u8::MAX, the width of prefix_len
    Terms,      \* atoms of expressions, all supported
    MaxTerms,   \* bound on the size of an expression
    Contexts    \* what build_route_ctx makes of routes

VARIABLE tree   \* an expression as its author means it

ASSUME WidthAssumption == U8Max \in Nat

Word(w)  == [t |-> w]
AtomTok(a) == [t |-> "atom", a |-> a]

Cmp(f, o, n)    == [kind |-> "cmp", field |-> f, op |-> o, quoted |-> FALSE, val |-> n]
CmpStr(f, o, s) == [kind |-> "cmp", field |-> f, op |-> o, quoted |-> TRUE, val |-> s]
Member(f, S)    == [kind |-> "in", field |-> f, set |-> S]
NotMember(f, S) == [kind |-> "not in", field |-> f, set |-> S]
Flag(name)      == [kind |-> "flag", name |-> name]

And(a, b) == [kind |-> "and", l |-> a, r |-> b]
Or(a, b)  == [kind |-> "or", l |-> a, r |-> b]
Not(a)    == [kind |-> "not", l |-> a]

-----------------------------------------------------------------------------
(* Building: which atoms have an Expr constructor *)

Equals == {"=", "=="}

\* build_comparison: the operator must exist for the field, and a numeric field
\* parses its value, which fails on a quoted one and beyond the field's width
CmpSupported(a) ==
    \/ a.field = "prefix_len" /\ a.op \in Equals \cup {">", "<", ">=", "<="}
       /\ ~a.quoted /\ a.val <= U8Max
    \/ a.field = "as_path_len" /\ a.op \in Equals \cup {">", "<", ">=", "<="} /\ ~a.quoted
    \/ a.field \in {"local_pref", "med"} /\ a.op \in Equals \cup {">", "<"} /\ ~a.quoted
    \/ a.field = "rpki" /\ a.op \in Equals \cup {"!="}
    \/ a.field \in {"action", "community"} /\ a.op \in Equals

AtomSupported(a) ==
    CASE a.kind = "cmp"              -> CmpSupported(a)
      [] a.kind \in {"in", "not in"} -> a.field \in {"origin_as", "peer_as"}
      [] a.kind = "flag"             -> a.name \in {"has_prepend", "true", "false"}

-----------------------------------------------------------------------------
(* Parsing: filter.pest as recursive descent, build_expr folding to the left *)

RECURSIVE OrExpr(_, _), OrTail(_, _), AndTail(_, _)

Parsed(e, at) == [ok |-> TRUE, e |-> e, at |-> at]
NoParse       == [ok |-> FALSE, e |-> Flag("false"), at |-> 0]

Is(ts, i, w) == i <= Len(ts) /\ ts[i].t = w

\* The closing parenthesis after a nested or_expr
Closed(ts, inner) ==
    IF inner.ok /\ Is(ts, inner.at, ")") THEN Parsed(inner.e, inner.at + 1) ELSE NoParse

\* "(" or_expr ")" | membership | comparison | flag
AtomExpr(ts, i) ==
    CASE Is(ts, i, "(")                               -> Closed(ts, OrExpr(ts, i + 1))
      [] Is(ts, i, "atom") /\ AtomSupported(ts[i].a)  -> Parsed(ts[i].a, i + 1)
      [] OTHER                                        -> NoParse

Negated(r) == [r EXCEPT !.e = Not(@)]

\* not_kw atom | atom: one NOT at most
NotExpr(ts, i) ==
    IF Is(ts, i, "NOT") THEN Negated(AtomExpr(ts, i + 1)) ELSE AtomExpr(ts, i)

Fold(node, l, r) == [ok |-> r.ok, e |-> [kind |-> node, l |-> l.e, r |-> r.e], at |-> r.at]

\* Mutant: OR is read where AND is, so it binds as tightly
AndTailTakesOr(ts, l) ==
    CASE l.ok /\ Is(ts, l.at, "AND") -> AndTail(ts, Fold("and", l, NotExpr(ts, l.at + 1)))
      [] l.ok /\ Is(ts, l.at, "OR")  -> AndTail(ts, Fold("or", l, NotExpr(ts, l.at + 1)))
      [] OTHER -> l

AndTail(ts, l) ==
    IF l.ok /\ Is(ts, l.at, "AND")
    THEN AndTail(ts, Fold("and", l, NotExpr(ts, l.at + 1)))
    ELSE l

OrTail(ts, l) ==
    IF l.ok /\ Is(ts, l.at, "OR")
    THEN OrTail(ts, Fold("or", l, AndTail(ts, NotExpr(ts, l.at + 1))))
    ELSE l

OrExpr(ts, i) == OrTail(ts, AndTail(ts, NotExpr(ts, i)))

\* or_expr must reach the end of the input
AtEnd(ts, r) == IF r.ok /\ r.at = Len(ts) + 1 THEN r ELSE NoParse
ParseExpr(ts) == AtEnd(ts, OrExpr(ts, 1))

-----------------------------------------------------------------------------
(* Expr::eval on a RouteCtx *)

Rel(op, x, n) ==
    CASE op = ">"  -> x > n
      [] op = "<"  -> x < n
      [] op = ">=" -> x >= n
      [] op = "<=" -> x <= n
      [] op \in Equals -> x = n

\* A missing LOCAL_PREF counts as 100 here, a missing MED as 0
EvalCmp(a, ctx) ==
    CASE a.field = "prefix_len"  -> Rel(a.op, ctx.prefix_len, a.val)
      [] a.field = "as_path_len" -> Rel(a.op, ctx.as_path_len, a.val)
      [] a.field = "local_pref"  -> Rel(a.op, OrDefault(ctx.local_pref, 100), a.val)
      [] a.field = "med"         -> Rel(a.op, OrDefault(ctx.med, 0), a.val)
      [] a.field = "rpki" /\ a.op = "!=" -> ~a.quoted \/ ctx.rpki # a.val
      [] a.field = "rpki" /\ a.op # "!=" -> a.quoted /\ ctx.rpki = a.val
      [] a.field = "action"      -> a.quoted /\ ctx.action = a.val
      [] a.field = "community"   -> a.quoted /\ a.val \in ctx.community_set

AsField(f, ctx) == IF f = "origin_as" THEN ctx.origin_asn ELSE ctx.peer_as

EvalAtom(a, ctx) ==
    CASE a.kind = "cmp"    -> EvalCmp(a, ctx)
      [] a.kind = "in"     -> AsField(a.field, ctx) \in a.set
      [] a.kind = "not in" -> AsField(a.field, ctx) \notin a.set
      [] a.kind = "flag"   -> a.name = "true" \/ (a.name = "has_prepend" /\ ctx.has_prepend)

RECURSIVE Eval(_, _)
Eval(e, ctx) ==
    CASE e.kind = "and" -> Eval(e.l, ctx) /\ Eval(e.r, ctx)
      [] e.kind = "or"  -> Eval(e.l, ctx) \/ Eval(e.r, ctx)
      [] e.kind = "not" -> ~Eval(e.l, ctx)
      [] OTHER          -> EvalAtom(e, ctx)

-----------------------------------------------------------------------------
(* What an expression is meant to say: the usual precedence, NOT before AND  *)
(* before OR, parentheses where the tree needs them and nowhere else.        *)

Strength(e) == CASE e.kind = "or" -> 1 [] e.kind = "and" -> 2
                 [] e.kind = "not" -> 3 [] OTHER -> 4

Wrapped(ts, yes) == IF yes THEN <<Word("(")>> \o ts \o <<Word(")")>> ELSE ts

RECURSIVE Written(_)
Written(e) ==
    CASE e.kind = "or"  -> Written(e.l) \o <<Word("OR")>> \o Wrapped(Written(e.r), Strength(e.r) < 2)
      [] e.kind = "and" -> Wrapped(Written(e.l), Strength(e.l) < 2) \o <<Word("AND")>>
                             \o Wrapped(Written(e.r), Strength(e.r) < 3)
      [] e.kind = "not" -> <<Word("NOT")>> \o Wrapped(Written(e.l), Strength(e.l) < 4)
      [] OTHER          -> <<AtomTok(e)>>

-----------------------------------------------------------------------------
(* Writing an expression *)

exprVars == <<tree>>

RECURSIVE Size(_)
Size(e) == CASE e.kind \in {"and", "or"} -> Size(e.l) + Size(e.r)
             [] e.kind = "not"           -> Size(e.l) + 1
             [] OTHER                    -> 1

ExprInit == tree \in Terms

Combined(e, t) == {And(e, t), And(t, e), Or(e, t), Or(t, e)}

AddTerm(t) == Size(tree) < MaxTerms /\ tree' \in Combined(tree, t) \cup Combined(tree, Not(t))
Negate     == Size(tree) < MaxTerms /\ tree' = Not(tree)
Restart(t) == tree' = t

ExprNext ==
    \/ \E t \in Terms : AddTerm(t)
    \/ Negate
    \/ \E t \in Terms : Restart(t)

\* An expression written with the usual precedence (NOT before AND before OR,
\* parentheses only where they are needed) is parsed, whole, into something that is
\* true of exactly the routes its author meant: build_expr folds what filter.pest
\* groups, whatever the nesting.
ExpressionsMeanWhatTheySay ==
    LET parsed == ParseExpr(Written(tree))
    IN  parsed.ok /\ \A ctx \in Contexts : Eval(parsed.e, ctx) = Eval(tree, ctx)
=============================================================================
