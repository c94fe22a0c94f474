------------------------------- MODULE AsPath -------------------------------
(***************************************************************************)
(* AS paths as the filters and validators read them: AsPathSegment and     *)
(* AsPath of crates/rbmp-core/src/bgp/types.rs.                            *)
(*                                                                         *)
(* A path is a sequence of segments [kind, asns].  Two readings of it are  *)
(* in use: the ASNs of every segment, and the words of the printed path    *)
(* that still parse as numbers, which loses what brackets enclose.         *)
(***************************************************************************)
EXTENDS Integers, Sequences

Seqs == INSTANCE SequencesExt

SegmentKinds == {"Sequence", "Set", "ConfedSequence", "ConfedSet"}

Segment(kind, asns) == [kind |-> kind, asns |-> asns]

\* flat_map over AsPathSegment::asns
FlatAsns(path) == Seqs!FlattenSeq([i \in DOMAIN path |-> path[i].asns])

\* The printed segment, split at spaces, keeping the words that parse: "{1,2}" and
\* "[1,2]" are one word, and the first and last word of "(1 2 3)" carry a bracket.
SegmentWords(seg) ==
    CASE seg.kind = "Sequence"       -> seg.asns
      [] seg.kind = "ConfedSequence" -> SubSeq(seg.asns, 2, Len(seg.asns) - 1)
      [] OTHER                       -> << >>

PathWords(path) == Seqs!FlattenSeq([i \in DOMAIN path |-> SegmentWords(path[i])])

\* asns.last().unwrap_or(0)
LastAsn(asns) == IF asns = << >> THEN 0 ELSE Seqs!Last(asns)

\* windows(2).any(|w| w[0] == w[1])
HasPrepend(asns) == \E i \in 1 .. Len(asns) - 1 : asns[i] = asns[i + 1]
=============================================================================
