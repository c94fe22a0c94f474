-------------------------------- MODULE Wire --------------------------------
(***************************************************************************)
(* What the decoders of crates/rbmp-core/src share: byte strings, the      *)
(* outcome of a decoder, and the loop "while a header is left, read the    *)
(* length it declares, take that many bytes".                              *)
(*                                                                         *)
(* A buffer is a sequence of 0..255.  A number of more than 24 bits is     *)
(* kept as its bytes: big-endian conversion is one-to-one.  Each decoder   *)
(* keeps the source's name.  Only TLC uses these modules.                  *)
(***************************************************************************)
EXTENDS Integers, Sequences, SequencesExt

None == <<>>
Some(x) == <<x>>
Unknown == 256                 \* the Unknown variant of an enum: no byte has this value

Ok(x) == [ok |-> TRUE, val |-> x]
Err   == [ok |-> FALSE, val |-> "error"]
Panic == [ok |-> FALSE, val |-> "panic"]   \* an index past the end of a slice

OkOr(r, default) == IF r.ok THEN r.val ELSE default        \* unwrap_or
Then(r, Rest(_)) == IF r.ok THEN Rest(r.val) ELSE r        \* the ? operator

(* The values of a sequence of outcomes, or the first failure. *)
Collect(rs) ==
    IF \A i \in DOMAIN rs : rs[i].ok
    THEN Ok([i \in DOMAIN rs |-> rs[i].val])
    ELSE rs[CHOOSE i \in DOMAIN rs : ~rs[i].ok /\ \A j \in 1..(i-1) : rs[j].ok]

MapSeq(s, Op(_)) == [i \in DOMAIN s |-> Op(s[i])]

Take(b, n)     == SubSeq(b, 1, n)
Drop(b, n)     == SubSeq(b, n + 1, Len(b))
Slice(b, i, n) == SubSeq(b, i, i + n - 1)       \* n bytes from position i
U16(b, i)      == b[i] * 256 + b[i + 1]
U24(b, i)      == b[i] * 65536 + b[i + 1] * 256 + b[i + 2]
Bit(b, mask)   == (b \div mask) % 2 = 1         \* mask a power of two
Zeros(n)       == [i \in 1..n |-> 0]

(* b cut at the given widths, what is left over dropped; Err when too short. *)
Cut(b, widths) ==
    LET At[i \in 0..Len(widths)] == IF i = 0 THEN 0 ELSE At[i-1] + widths[i]
    IN  IF Len(b) < At[Len(widths)] THEN Err
        ELSE Ok([i \in DOMAIN widths |-> Slice(b, At[i-1] + 1, widths[i])])

(* b in pieces of n bytes; a shorter rest is ignored. *)
Chunks(b, n) == [i \in 1..(Len(b) \div n) |-> Slice(b, (i - 1) * n + 1, n)]

(***************************************************************************)
(* The loop: while min bytes are left, a header of HeadLen bytes declares  *)
(* a body of BodyLen bytes.  "whole" says that no declared length ran past *)
(* the end; the strict decoders fail otherwise, the others stop there.     *)
(***************************************************************************)
Walk(buf, min, HeadLen(_), BodyLen(_)) ==
    LET RECURSIVE From(_)
        From(b) ==
            IF Len(b) < min THEN [items |-> <<>>, whole |-> TRUE]
            ELSE IF \/ Len(b) < HeadLen(b)
                    \/ BodyLen(b) < 0
                    \/ Len(b) < HeadLen(b) + BodyLen(b)
                 THEN [items |-> <<>>, whole |-> FALSE]
            ELSE LET h == HeadLen(b)
                     n == BodyLen(b)
                     w == From(Drop(b, h + n))
                 IN  [w EXCEPT !.items = 
                        <<[head |-> Take(b, h), body |-> Slice(b, h + 1, n)]>> \o @]
    IN  From(buf)

Strict(w, Parse(_)) ==
    LET rs == MapSeq(w.items, Parse)
    IN  IF ~Collect(rs).ok \/ w.whole THEN Collect(rs) ELSE Err

(* The three TLV headers of the decoders: type and length of 2+2, 1+2 and  *)
(* 1+1 bytes.                                                              *)
Tlv(x) == [type |-> IF Len(x.head) = 4 THEN U16(x.head, 1) ELSE x.head[1],
           val  |-> x.body]
Walk22(b) == Walk(b, 4, LAMBDA r : 4, LAMBDA r : U16(r, 3))
Walk12(b) == Walk(b, 3, LAMBDA r : 3, LAMBDA r : U16(r, 2))
Walk11(b) == Walk(b, 2, LAMBDA r : 2, LAMBDA r : r[2])
Tlvs22(b) == MapSeq(Walk22(b).items, Tlv)
Tlvs12(b) == MapSeq(Walk12(b).items, Tlv)
Tlvs11(b) == MapSeq(Walk11(b).items, Tlv)

OfType(tlvs, t, min) == SelectSeq(tlvs, LAMBDA x : x.type = t /\ Len(x.val) >= min)

(* An assignment in such a loop: the last TLV of the type wins. *)
LastVal(tlvs, t, min, Read(_)) ==
    LET hits == OfType(tlvs, t, min)
    IN  IF hits = <<>> THEN None ELSE Some(Read(Last(hits).val))

(***************************************************************************)
(* Prefixes: a length in bits and the bytes that hold them, padded to the  *)
(* address size and with the host bits cleared (Ipv4Net::trunc).           *)
(***************************************************************************)
Octets(bits) == (bits + 7) \div 8

Masked(addr, len) ==
    [i \in DOMAIN addr |->
        LET keep == IF len >= 8 * i THEN 8 ELSE IF len <= 8 * (i - 1) THEN 0
                    ELSE len - 8 * (i - 1)
        IN  (addr[i] \div 2^(8 - keep)) * 2^(8 - keep)]

Net(bytes, len, size) ==
    [len |-> len, addr |-> Masked(bytes \o Zeros(size - Len(bytes)), len)]
=============================================================================
