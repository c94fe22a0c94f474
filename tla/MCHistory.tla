----------------------------- MODULE MCHistory ------------------------------
(* The RIB manager without a store, with one, and idle over a store that other *)
(* servers have filled, whose rows come in every combination.                 *)
EXTENDS History, TLC

CONSTANTS
    Bad,         \* the attributes the filter engines deny
    OwnTime,     \* bound on the clock while the RIB is in use; MaxTime is for the rest
    Extra,       \* a RIB type only other servers report
    OtherAs,     \* an AS number only other servers report
    OtherPrefix  \* an IPv6 prefix only other servers report

VARIABLE filled  \* the store is filled by others

DenyBad   == Peers \X Prefixes \X {Bad}
MCEngines == {{}, DenyBad}
MCSymmetry == Permutations(Speakers)

MCFamilyOf == [x \in Prefixes \cup {OtherPrefix} |-> IF x = OtherPrefix THEN 2 ELSE 1]
MCStatusOf == [a \in Attrs |-> IF a = Bad THEN Absent ELSE {4}]

\* A row somebody else wrote: the announcement or withdrawal of a route, which another server
\* may have under another AS in another RIB type, the announcement of a prefix of another
\* family, or a session event
EarlierRows(s, p) ==
    LET columns == (Asns \X RibTypes) \cup {<<OtherAs, Extra>>}
    IN  {<<WithdrawRow(s, p, c[1], c[2], x, at)>> : c \in columns, x \in Prefixes, at \in Stamps(s)}
        \cup {ChangeRows(s, p, c[1], c[2], << >>, <<x>>, a, at) :
                 c \in columns, x \in Prefixes, a \in Attrs, at \in Stamps(s)}
        \cup {<<AnnounceRow(s, p, OtherAs, Extra, OtherPrefix, Bad, now)>>}
        \cup {<<PeerRow(s, p, e)>> : e \in {"peer_up", "peer_down"}}

Earlier ==
    \/ \E s \in Speakers, p \in Peers : \E new \in EarlierRows(s, p) :
          /\ Len(rows) + Len(new) <= MaxRows
          /\ rows' = rows \o new
          /\ UNCHANGED <<vars, recording, swept>>
    \/ Tick /\ UNCHANGED storeVars
    \/ \E n \in 1 .. Len(SweptTables) : Sweep(n)

\* With a store the filters stay as they are (a denied update changes nothing) and Peer Up
\* brings LLGR; the tables of peers that were never up are cleared without it
Kept == /\ UNCHANGED <<filter, roto>>
        /\ \A s \in Speakers, p \in Peers : Knows(s, p)' => speakers'[s][p].llgr # 0

Own == HistoryNext /\ now' <= OwnTime /\ (recording => Kept)

MCInit == HistoryInit /\ filled \in BOOLEAN /\ (filled => ~recording)

MCNext == UNCHANGED filled /\ IF filled THEN Earlier ELSE Own

MCSpec == MCInit /\ [][MCNext]_<<historyVars, filled>>
=============================================================================
