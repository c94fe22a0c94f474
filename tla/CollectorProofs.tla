-------------------------- MODULE CollectorProofs ---------------------------
(***************************************************************************)
(* The collector's link delivers a PDU at most once, keeps the order of a  *)
(* connection, and without broken connections loses nothing but what a     *)
(* full ring refuses, for every set of speakers, ring capacity and number  *)
(* of PDUs and reconnects.                                                 *)
(***************************************************************************)
EXTENDS Collector, FiniteSetTheorems, SequenceTheorems, TLAPS

-----------------------------------------------------------------------------
(* The inductive invariant *)

\* The places a PDU passes on its way, the nearest to Core first: the connections in the
\* order they were opened, the forwarder's hand, the ring.
Hand  == MaxCuts + 2
Ring  == MaxCuts + 3
Lanes == 1 .. MaxCuts + 3
LaneMap == [l \in Lanes |-> IF l \in Conns THEN wire[l] ELSE IF l = Hand THEN held ELSE ring]

\* Of two PDUs of one speaker, p is the older one
Older(p, q) == p[1] = q[1] => p[2] < q[2]

\* PDUs of a speaker are older the nearer they are to Core.
Sorted(L) ==
    \A l, m \in Lanes : \A i \in 1 .. Len(L[l]), j \in 1 .. Len(L[m]) :
        (l < m \/ (l = m /\ i < j)) => Older(L[l][i], L[m][j])

\* Only PDUs that were sent are under way.
Known(L) == \A l \in Lanes : \A i \in 1 .. Len(L[l]) : L[l][i][2] <= sent[L[l][i][1]]

\* A PDU that was received through a connection is older than all that are on that
\* connection or behind it, and newer than those still on an earlier connection.
Passed(L) ==
    \A k \in 1 .. Len(received) : \A l \in Lanes : \A i \in 1 .. Len(L[l]) :
        IF received[k][2] <= l THEN Older(received[k][1], L[l][i])
                                ELSE Older(L[l][i], received[k][1])

\* Delivered PDUs keep the order of their connections and the order within each.
Delivered ==
    /\ \A k \in 1 .. Len(received) :
          received[k][2] <= opened /\ received[k][1][2] <= sent[received[k][1][1]]
    /\ \A k, m \in 1 .. Len(received) :
          (received[k][2] < received[m][2] \/ (received[k][2] = received[m][2] /\ k < m))
             => Older(received[k][1], received[m][1])

\* The forwarder writes to the newest connection.
Links ==
    /\ link # 0 => link = opened
    /\ \A c \in Conns : c > opened => wire[c] = << >>

CInv ==
    /\ CollectorTypeOK /\ Links /\ Delivered
    /\ Sorted(LaneMap) /\ Known(LaneMap) /\ Passed(LaneMap)

-----------------------------------------------------------------------------
(* What a step may do to the lanes *)

\* Every lane of M is a segment of the same lane of L.
Segments(L, M) ==
    \A l \in Lanes : \E o \in Nat : \A i \in 1 .. Len(M[l]) :
        i + o \in 1 .. Len(L[l]) /\ M[l][i] = L[l][i + o]

\* The first PDU of lane b goes to the end of lane a; there are none in between.
HeadMoves(L, M, a, b) ==
    /\ a \in Lanes /\ b \in Lanes /\ a < b
    /\ \A l \in Lanes : (a < l /\ l < b) => Len(M[l]) = 0
    /\ \A l \in Lanes \ {a, b} : M[l] = L[l]
    /\ Len(L[b]) >= 1
    /\ Len(M[a]) = Len(L[a]) + 1 /\ M[a][Len(L[a]) + 1] = L[b][1]
    /\ \A i \in 1 .. Len(L[a]) : M[a][i] = L[a][i]
    /\ Len(M[b]) = Len(L[b]) - 1
    /\ \A i \in 1 .. Len(M[b]) : M[b][i] = L[b][i + 1]

\* Losing PDUs at the ends of lanes keeps the order.
LEMMA SegmentsSorted ==
    ASSUME NEW L \in [Lanes -> Seq(Pdus)], NEW M \in [Lanes -> Seq(Pdus)], Segments(L, M), Sorted(L)
    PROVE  Sorted(M)
<1> SUFFICES ASSUME NEW l \in Lanes, NEW m \in Lanes,
                    NEW i \in 1 .. Len(M[l]), NEW j \in 1 .. Len(M[m]),
                    l < m \/ (l = m /\ i < j)
             PROVE  Older(M[l][i], M[m][j])
  BY DEF Sorted
<1>1. PICK o \in Nat : \A k \in 1 .. Len(M[l]) : k + o \in 1 .. Len(L[l]) /\ M[l][k] = L[l][k + o]
  BY DEF Segments
<1>2. CASE l = m
  <2>1. i + o \in 1 .. Len(L[l]) /\ j + o \in 1 .. Len(L[l]) /\ M[l][i] = L[l][i + o] /\ M[l][j] = L[l][j + o]
    BY <1>1, <1>2
  <2>2. i + o < j + o
    BY <1>2 DEF Lanes
  <2> QED
    BY <1>2, <2>1, <2>2 DEF Sorted
<1>3. CASE l # m
  <2>1. PICK u \in Nat : \A k \in 1 .. Len(M[m]) : k + u \in 1 .. Len(L[m]) /\ M[m][k] = L[m][k + u]
    BY DEF Segments
  <2>2. i + o \in 1 .. Len(L[l]) /\ j + u \in 1 .. Len(L[m]) /\ M[l][i] = L[l][i + o] /\ M[m][j] = L[m][j + u]
    BY <1>1, <2>1
  <2> QED
    BY <1>3, <2>2 DEF Sorted
<1> QED
  BY <1>2, <1>3

\* A PDU of a segment was in the same lane before.
LEMMA SegmentsOrigin ==
    ASSUME NEW L, NEW M, Segments(L, M), NEW l \in Lanes, NEW i \in 1 .. Len(M[l])
    PROVE  \E j \in 1 .. Len(L[l]) : M[l][i] = L[l][j]
<1>1. PICK o \in Nat : \A k \in 1 .. Len(M[l]) : k + o \in 1 .. Len(L[l]) /\ M[l][k] = L[l][k + o]
  BY DEF Segments
<1> QED
  BY <1>1

\* The place in L that a PDU of M comes from
ComesFrom(L, M, a, b, l, i) ==
    \/ l # b /\ i \in 1 .. Len(L[l]) /\ M[l][i] = L[l][i]
    \/ l = b /\ i + 1 \in 1 .. Len(L[b]) /\ M[l][i] = L[b][i + 1]
    \/ l = a /\ i = Len(L[a]) + 1 /\ 1 \in 1 .. Len(L[b]) /\ M[l][i] = L[b][1]

\* A PDU is where it was, one place further, or the one that moved.
LEMMA MoveOrigin ==
    ASSUME NEW L \in [Lanes -> Seq(Pdus)], NEW M \in [Lanes -> Seq(Pdus)],
           NEW a, NEW b, HeadMoves(L, M, a, b), NEW l \in Lanes, NEW i \in 1 .. Len(M[l])
    PROVE  ComesFrom(L, M, a, b, l, i)
<1> USE DEF ComesFrom
<1>0. a \in Lanes /\ b \in Lanes /\ a < b /\ a \in Int /\ b \in Int /\ a # b
  BY CollectorAssumption DEF HeadMoves, Lanes
<1>1. Len(L[a]) \in Nat /\ Len(L[b]) \in Nat /\ Len(L[b]) >= 1
  BY <1>0 DEF HeadMoves
<1>2. CASE l = a
  <2>1. Len(M[a]) = Len(L[a]) + 1
    BY DEF HeadMoves
  <2>2. i \in 1 .. Len(L[a]) \/ i = Len(L[a]) + 1
    BY <1>1, <1>2, <2>1
  <2> QED
    BY <1>0, <1>1, <1>2, <2>2 DEF HeadMoves
<1>3. CASE l = b
  <2>1. Len(M[b]) = Len(L[b]) - 1 /\ M[b][i] = L[b][i + 1]
    BY <1>3 DEF HeadMoves
  <2>2. i + 1 \in 1 .. Len(L[b])
    BY <1>1, <1>3, <2>1
  <2> QED
    BY <1>3, <2>1, <2>2
<1>4. CASE l \notin {a, b}
  BY <1>4 DEF HeadMoves
<1> QED
  BY <1>2, <1>3, <1>4

\* Moving the first PDU to the end of the lane before keeps the order.
LEMMA MoveSorted ==
    ASSUME NEW L \in [Lanes -> Seq(Pdus)], NEW M \in [Lanes -> Seq(Pdus)],
           NEW a, NEW b, HeadMoves(L, M, a, b), Sorted(L)
    PROVE  Sorted(M)
<1> SUFFICES ASSUME NEW l \in Lanes, NEW m \in Lanes,
                    NEW i \in 1 .. Len(M[l]), NEW j \in 1 .. Len(M[m]),
                    l < m \/ (l = m /\ i < j)
             PROVE  Older(M[l][i], M[m][j])
  BY DEF Sorted
<1>0. a \in Lanes /\ b \in Lanes /\ a < b /\ a \in Int /\ b \in Int /\ l \in Int /\ m \in Int
  BY CollectorAssumption DEF HeadMoves, Lanes
<1>a. ComesFrom(L, M, a, b, l, i)
  BY MoveOrigin
<1>b. ComesFrom(L, M, a, b, m, j)
  BY MoveOrigin
<1>1. ASSUME NEW u \in Lanes, NEW v \in Lanes, NEW x \in 1 .. Len(L[u]), NEW y \in 1 .. Len(L[v]),
             u < v \/ (u = v /\ x < y), M[l][i] = L[u][x], M[m][j] = L[v][y]
      PROVE  Older(M[l][i], M[m][j])
  BY <1>1 DEF Sorted
<1>2. CASE l # b /\ i \in 1 .. Len(L[l]) /\ M[l][i] = L[l][i]
  <2>1. CASE m # b /\ j \in 1 .. Len(L[m]) /\ M[m][j] = L[m][j]
    BY <1>1, <1>2, <2>1
  <2>2. CASE m = b /\ j + 1 \in 1 .. Len(L[b]) /\ M[m][j] = L[b][j + 1]
    BY <1>0, <1>1, <1>2, <2>2
  <2>3. CASE m = a /\ j = Len(L[a]) + 1 /\ 1 \in 1 .. Len(L[b]) /\ M[m][j] = L[b][1]
    <3>1. l < b
      BY <1>0, <2>3
    <3> QED
      BY <1>0, <1>1, <1>2, <2>3, <3>1
  <2> QED
    BY <1>b, <2>1, <2>2, <2>3 DEF ComesFrom
<1>3. CASE l = b /\ i + 1 \in 1 .. Len(L[b]) /\ M[l][i] = L[b][i + 1]
  <2>1. CASE m # b /\ j \in 1 .. Len(L[m]) /\ M[m][j] = L[m][j]
    BY <1>0, <1>1, <1>3, <2>1
  <2>2. CASE m = b /\ j + 1 \in 1 .. Len(L[b]) /\ M[m][j] = L[b][j + 1]
    <3>1. i + 1 < j + 1
      BY <1>0, <1>3, <2>2
    <3> QED
      BY <1>0, <1>1, <1>3, <2>2, <3>1
  <2>3. CASE m = a
    BY <1>0, <1>3, <2>3
  <2> QED
    BY <1>b, <2>1, <2>2, <2>3 DEF ComesFrom
<1>4. CASE l = a /\ i = Len(L[a]) + 1 /\ 1 \in 1 .. Len(L[b]) /\ M[l][i] = L[b][1]
  <2>1. CASE m = a
    <3>1. Len(M[a]) = Len(L[a]) + 1 /\ Len(L[a]) \in Nat
      BY <1>0 DEF HeadMoves
    <3> QED
      BY <1>0, <1>4, <2>1, <3>1
  <2>2. CASE m = b /\ j + 1 \in 1 .. Len(L[b]) /\ M[m][j] = L[b][j + 1]
    <3>1. 1 < j + 1
      OBVIOUS
    <3> QED
      BY <1>0, <1>1, <1>4, <2>2, <3>1
  <2>3. CASE m # a /\ m # b /\ j \in 1 .. Len(L[m]) /\ M[m][j] = L[m][j]
    <3>1. a < m
      BY <1>0, <1>4, <2>3
    <3>2. b < m
      <4>1. Len(M[m]) # 0
        OBVIOUS
      <4> QED
        BY <1>0, <2>3, <3>1, <4>1 DEF HeadMoves
    <3> QED
      BY <1>0, <1>1, <1>4, <2>3, <3>2
  <2> QED
    BY <1>b, <2>1, <2>2, <2>3 DEF ComesFrom
<1> QED
  BY <1>a, <1>2, <1>3, <1>4 DEF ComesFrom

\* Known and Passed follow the PDUs to where they came from; a PDU that moves stays behind
\* every connection that received something.
LEMMA SegmentsKept ==
    ASSUME NEW L, NEW M, Segments(L, M)
    PROVE  (Known(L) => Known(M)) /\ (Passed(L) => Passed(M))
<1>0. ASSUME NEW l \in Lanes, NEW i \in 1 .. Len(M[l])
      PROVE  \E j \in 1 .. Len(L[l]) : M[l][i] = L[l][j]
  BY <1>0, SegmentsOrigin
<1>1. ASSUME Known(L) PROVE Known(M)
  <2> SUFFICES ASSUME NEW l \in Lanes, NEW i \in 1 .. Len(M[l])
               PROVE  M[l][i][2] <= sent[M[l][i][1]]
    BY DEF Known
  <2>1. PICK j \in 1 .. Len(L[l]) : M[l][i] = L[l][j]
    BY <1>0
  <2>2. L[l][j][2] <= sent[L[l][j][1]]
    BY <1>1 DEF Known
  <2> QED
    BY <2>1, <2>2
<1>2. ASSUME Passed(L) PROVE Passed(M)
  <2> SUFFICES ASSUME NEW k \in 1 .. Len(received), NEW l \in Lanes, NEW i \in 1 .. Len(M[l])
               PROVE  IF received[k][2] <= l THEN Older(received[k][1], M[l][i])
                                              ELSE Older(M[l][i], received[k][1])
    BY DEF Passed
  <2>1. PICK j \in 1 .. Len(L[l]) : M[l][i] = L[l][j]
    BY <1>0
  <2>2. IF received[k][2] <= l THEN Older(received[k][1], L[l][j])
                                ELSE Older(L[l][j], received[k][1])
    BY <1>2 DEF Passed
  <2> QED
    BY <2>1, <2>2
<1> QED
  BY <1>1, <1>2

\* An arithmetic fact the provers need on its own.
LEMMA BelowStays ==
    ASSUME NEW x \in Int, NEW y \in Int, NEW z \in Int, x <= y, y < z
    PROVE  x <= z
OBVIOUS

\* The PDU that moves stays behind every connection that received something.
LEMMA MoveKept ==
    ASSUME NEW L \in [Lanes -> Seq(Pdus)], NEW M \in [Lanes -> Seq(Pdus)],
           NEW a, NEW b, HeadMoves(L, M, a, b), Known(L), Passed(L),
           \A k \in 1 .. Len(received) : received[k][2] \in Int /\ received[k][2] <= a
    PROVE  Known(M) /\ Passed(M)
<1>0. a \in Lanes /\ b \in Lanes /\ a < b /\ a \in Int /\ b \in Int
  BY CollectorAssumption DEF HeadMoves, Lanes
<1>1. ASSUME NEW l \in Lanes, NEW i \in 1 .. Len(M[l])
      PROVE  \E m \in Lanes : \E j \in 1 .. Len(L[m]) :
                 M[l][i] = L[m][j] /\ (m = l \/ (l = a /\ m = b))
  <2>1. ComesFrom(L, M, a, b, l, i)
    BY <1>1, MoveOrigin
  <2> QED
    BY <1>0, <2>1 DEF ComesFrom
<1>2. Known(M)
  <2> SUFFICES ASSUME NEW l \in Lanes, NEW i \in 1 .. Len(M[l])
               PROVE  M[l][i][2] <= sent[M[l][i][1]]
    BY DEF Known
  <2>1. PICK m \in Lanes : \E j \in 1 .. Len(L[m]) : M[l][i] = L[m][j]
    BY <1>1
  <2>2. PICK j \in 1 .. Len(L[m]) : M[l][i] = L[m][j]
    BY <2>1
  <2>3. L[m][j][2] <= sent[L[m][j][1]]
    BY DEF Known
  <2> QED
    BY <2>2, <2>3
<1>3. Passed(M)
  <2> SUFFICES ASSUME NEW k \in 1 .. Len(received), NEW l \in Lanes, NEW i \in 1 .. Len(M[l])
               PROVE  IF received[k][2] <= l THEN Older(received[k][1], M[l][i])
                                              ELSE Older(M[l][i], received[k][1])
    BY DEF Passed
  <2>1. PICK m \in Lanes : \E j \in 1 .. Len(L[m]) :
                 M[l][i] = L[m][j] /\ (m = l \/ (l = a /\ m = b))
    BY <1>1
  <2>2. PICK j \in 1 .. Len(L[m]) : M[l][i] = L[m][j] /\ (m = l \/ (l = a /\ m = b))
    BY <2>1
  <2>3. received[k][2] <= l <=> received[k][2] <= m
    <3>1. received[k][2] \in Int /\ received[k][2] <= a
      OBVIOUS
    <3>2. CASE m = l
      BY <3>2
    <3>3. CASE l = a /\ m = b
      <4>1. received[k][2] <= b
        BY <1>0, <3>1, BelowStays
      <4> QED
        BY <3>1, <3>3, <4>1
    <3> QED
      BY <2>2, <3>2, <3>3
  <2>4. IF received[k][2] <= m THEN Older(received[k][1], L[m][j])
                                ELSE Older(L[m][j], received[k][1])
    BY DEF Passed
  <2> QED
    BY <2>2, <2>3, <2>4
<1> QED
  BY <1>2, <1>3

-----------------------------------------------------------------------------
(* The lanes of a state *)

LaneMeaning ==
    /\ LaneMap \in [Lanes -> Seq(Pdus)]
    /\ \A c \in Conns : LaneMap[c] = wire[c]
    /\ LaneMap[Hand] = held /\ LaneMap[Ring] = ring

\* The lanes are the connections, the hand and the ring, in this order.
LEMMA LaneNumbers ==
    /\ Hand \in Lanes /\ Ring \in Lanes /\ Hand < Ring /\ Conns \subseteq Lanes
    /\ \A c \in Conns : c \in Nat /\ c < Hand /\ c < Ring /\ c # Hand /\ c # Ring
    /\ \A l \in Lanes : l \in Nat /\ (l \in Conns \/ l = Hand \/ l = Ring)
    /\ Hand \notin Conns /\ Ring \notin Conns /\ Hand # Ring /\ Hand \in Nat /\ Ring \in Nat
BY CollectorAssumption DEF Hand, Ring, Lanes, Conns

\* LaneMap gives every lane its sequence.
LEMMA LaneTypes == CollectorTypeOK => LaneMeaning
<1> SUFFICES ASSUME CollectorTypeOK PROVE LaneMeaning
  OBVIOUS
<1>1. held \in Seq(Pdus)
  <2>1. held = << >> \/ \E p \in Pdus : held = <<p>>
    BY DEF CollectorTypeOK
  <2>2. << >> \in Seq(Pdus)
    OBVIOUS
  <2>3. \A p \in Pdus : <<p>> \in Seq(Pdus)
    OBVIOUS
  <2> QED
    BY <2>1, <2>2, <2>3, Zenon
<1>2. ring \in Seq(Pdus) /\ wire \in [Conns -> Seq(Pdus)]
  BY DEF CollectorTypeOK
<1> QED
  BY <1>1, <1>2, LaneNumbers DEF LaneMeaning, LaneMap

\* Everything but Receive and CoreReads: PDUs move on or are lost
LEMMA LanesKept ==
    ASSUME CInv, CollectorTypeOK', UNCHANGED <<sent, received>>, opened' >= opened, Links',
           \/ Segments(LaneMap, LaneMap')
           \/ HeadMoves(LaneMap, LaneMap', Hand, Ring)
           \/ \E c \in Conns : c = opened /\ HeadMoves(LaneMap, LaneMap', c, Hand)
    PROVE  CInv'
<1> DEFINE L == LaneMap  M == LaneMap'
<1>0. L \in [Lanes -> Seq(Pdus)] /\ M \in [Lanes -> Seq(Pdus)]
  <2>1. LaneMeaning
    BY LaneTypes DEF CInv
  <2>2. LaneMeaning'
    BY LaneTypes, PTL
  <2> QED
    BY <2>1, <2>2 DEF LaneMeaning
<1>1. Sorted(L) /\ Known(L) /\ Passed(L)
  BY DEF CInv
<1>2. \A k \in 1 .. Len(received) : /\ received[k][2] \in Int /\ received[k][2] \in Conns
                                     /\ received[k][2] <= opened
  <2> TAKE k \in 1 .. Len(received)
  <2>1. received[k] \in (Pdus \ Malformed) \X Conns
    BY ElementOfSeq DEF CInv, CollectorTypeOK
  <2>2. received[k][2] \in Conns
    BY <2>1
  <2>3. received[k][2] \in Int
    <3>1. \A c \in Conns : c \in Int
      BY CollectorAssumption DEF Conns
    <3> QED
      BY <2>2, <3>1, Zenon
  <2>4. received[k][2] <= opened
    BY DEF CInv, Delivered
  <2> QED
    BY <2>2, <2>3, <2>4
<1> HIDE DEF L, M
<1>3. Sorted(M) /\ Known(M) /\ Passed(M)
  <2>1. CASE Segments(L, M)
    BY <1>0, <1>1, <2>1, SegmentsSorted, SegmentsKept
  <2>2. CASE HeadMoves(L, M, Hand, Ring)
    <3>1. \A k \in 1 .. Len(received) : received[k][2] \in Int /\ received[k][2] <= Hand
      BY <1>2, LaneNumbers
    <3> QED
      BY <1>0, <1>1, <2>2, <3>1, MoveSorted, MoveKept
  <2>3. CASE \E c \in Conns : c = opened /\ HeadMoves(L, M, c, Hand)
    <3>1. HeadMoves(L, M, opened, Hand)
      BY <2>3
    <3> QED
      BY <1>0, <1>1, <1>2, <3>1, MoveSorted, MoveKept
  <2> QED
    BY <2>1, <2>2, <2>3 DEF L, M
<1>4. Sorted(LaneMap)' /\ Known(LaneMap)' /\ Passed(LaneMap)'
  BY <1>3 DEF M, Sorted, Known, Passed
<1>5. Delivered'
  <2>1. opened \in Int /\ opened' \in Int
    BY CollectorAssumption DEF CInv, CollectorTypeOK
  <2>2. \A k \in 1 .. Len(received) : received[k][2] <= opened'
    BY <1>2, <2>1
  <2> QED
    BY <2>2 DEF CInv, Delivered
<1> QED
  BY <1>4, <1>5 DEF CInv

-----------------------------------------------------------------------------
(* Types *)

\* The forwarder holds at most one envelope.
LEMMA HeldIsOne ==
    ASSUME CollectorTypeOK, held # << >>
    PROVE  \E p \in Pdus : held = <<p>>
BY DEF CollectorTypeOK

\* Counting up below a bound stays within it.
LEMMA BoundGrows ==
    ASSUME NEW n \in Nat, NEW x \in 0 .. n, x < n
    PROVE  x + 1 \in 1 .. n /\ x + 1 \in 0 .. n /\ x + 1 \in 0 .. x + 1 /\ 1 .. x \subseteq 1 .. x + 1
           /\ x + 1 \in 1 .. x + 1
OBVIOUS

\* A prefix of a sequence has its type.
LEMMA SegmentType ==
    ASSUME NEW S, NEW q \in Seq(S), NEW n \in 0 .. Len(q)
    PROVE  SubSeq(q, 1, n) \in Seq(S)
BY SubSeqProperties

\* Every step keeps the types.
LEMMA TypeStep == CollectorTypeOK /\ [CollectorNext]_collectorVars => CollectorTypeOK'
<1> SUFFICES ASSUME CollectorTypeOK, [CollectorNext]_collectorVars PROVE CollectorTypeOK'
  OBVIOUS
<1> USE CollectorAssumption DEF CollectorTypeOK
<1>1. ASSUME NEW s \in Speakers, Receive(s) PROVE CollectorTypeOK'
  <2>0. sent[s] \in 0 .. MaxPdus /\ sent[s] < MaxPdus
    BY <1>1 DEF Receive
  <2>1. sent[s] + 1 \in 1 .. MaxPdus /\ sent[s] + 1 \in 0 .. MaxPdus
    BY <2>0, BoundGrows
  <2>2. sent' \in [Speakers -> 0 .. MaxPdus]
    BY <1>1, <2>1 DEF Receive
  <2>3. <<s, sent[s] + 1>> \in Pdus
    BY <2>1 DEF Pdus
  <2>4. CASE Len(ring) < RingCap
    <3>1. ring' = Append(ring, <<s, sent[s] + 1>>) /\ UNCHANGED overflow
      BY <1>1, <2>4 DEF Receive
    <3>2. ring' \in Seq(Pdus) /\ Len(ring') = Len(ring) + 1 /\ Len(ring) \in Nat
      BY <2>3, <3>1, AppendProperties
    <3>3. Len(ring') <= RingCap
      BY <2>4, <3>2
    <3> QED
      BY <1>1, <2>2, <3>1, <3>2, <3>3 DEF Receive
  <2>5. CASE ~(Len(ring) < RingCap)
    BY <1>1, <2>2, <2>3, <2>5 DEF Receive
  <2> QED
    BY <2>4, <2>5
<1>2. ASSUME Connect PROVE CollectorTypeOK'
  <2>1. MaxCuts + 1 \in Nat /\ opened \in 0 .. MaxCuts + 1 /\ opened < MaxCuts + 1
    BY <1>2 DEF Connect
  <2>2. /\ opened + 1 \in 0 .. MaxCuts + 1 /\ opened + 1 \in 0 .. opened + 1
        /\ 1 .. opened \subseteq 1 .. opened + 1 /\ opened + 1 \in 1 .. opened + 1
    BY <2>1, BoundGrows
  <2>3. whole \cup {opened + 1} \subseteq 1 .. opened + 1
    BY <2>2
  <2> QED
    BY <1>2, <2>2, <2>3 DEF Connect
<1>3. ASSUME Dequeue PROVE CollectorTypeOK'
  <2>1. Head(ring) \in Pdus /\ Tail(ring) \in Seq(Pdus) /\ Len(Tail(ring)) = Len(ring) - 1 /\ Len(ring) \in Nat
    BY <1>3, HeadTailProperties DEF Dequeue
  <2>2. Len(Tail(ring)) <= RingCap
    BY <2>1
  <2> QED
    BY <1>3, <2>1, <2>2 DEF Dequeue
<1>4. ASSUME WriteFrame PROVE CollectorTypeOK'
  <2>1. PICK p \in Pdus : held = <<p>>
    BY <1>4, HeldIsOne DEF WriteFrame
  <2>2. link \in Conns
    BY <1>4 DEF WriteFrame, Conns
  <2>3. wire[link] \o held \in Seq(Pdus)
    <3>1. wire[link] \in Seq(Pdus) /\ held \in Seq(Pdus)
      BY <2>1, <2>2
    <3> QED
      BY <3>1, ConcatProperties
  <2> QED
    BY <1>4, <2>2, <2>3 DEF WriteFrame
<1>5. ASSUME WriteLost PROVE CollectorTypeOK'
  BY <1>5 DEF WriteLost
<1>6. ASSUME WriteFails PROVE CollectorTypeOK'
  BY <1>6 DEF WriteFails
<1>7. ASSUME NEW c \in Conns, Break(c) PROVE CollectorTypeOK'
  <2>1. PICK n \in 0 .. Len(wire[c]) : wire' = [wire EXCEPT ![c] = SubSeq(@, 1, n)]
    BY <1>7 DEF Break
  <2>2. SubSeq(wire[c], 1, n) \in Seq(Pdus)
    BY SegmentType
  <2>3. wire' \in [Conns -> Seq(Pdus)]
    BY <2>1, <2>2
  <2> QED
    BY <1>7, <2>3 DEF Break
<1>8. ASSUME NEW c \in Conns, CoreReads(c) PROVE CollectorTypeOK'
  <2>1. Head(wire[c]) \in Pdus /\ Tail(wire[c]) \in Seq(Pdus)
    BY <1>8, HeadTailProperties DEF CoreReads
  <2>2. wire' \in [Conns -> Seq(Pdus)]
    BY <1>8, <2>1 DEF CoreReads
  <2>3. received' \in Seq((Pdus \ Malformed) \X Conns)
    <3>1. CASE Head(wire[c]) \in Malformed
      BY <1>8, <3>1 DEF CoreReads
    <3>2. CASE Head(wire[c]) \notin Malformed
      <4>1. <<Head(wire[c]), c>> \in (Pdus \ Malformed) \X Conns
        BY <2>1, <3>2
      <4> QED
        BY <1>8, <3>2, <4>1, AppendProperties DEF CoreReads
    <3> QED
      BY <3>1, <3>2
  <2> QED
    BY <1>8, <2>2, <2>3 DEF CoreReads
<1>9. ASSUME UNCHANGED collectorVars PROVE CollectorTypeOK'
  BY <1>9 DEF collectorVars
<1> QED
  BY <1>1, <1>2, <1>3, <1>4, <1>5, <1>6, <1>7, <1>8, <1>9 DEF CollectorNext

\* The type invariant of the collector's link.
THEOREM TypeCorrect == CollectorSpec => []CollectorTypeOK
<1>1. CollectorInit => CollectorTypeOK
  BY CollectorAssumption DEF CollectorInit, CollectorTypeOK
<1> QED
  BY <1>1, TypeStep, PTL DEF CollectorSpec

-----------------------------------------------------------------------------
(* The forwarder's steps *)

\* The meaning of the lanes before and after a step
LEMMA LanesMean ==
    ASSUME CollectorTypeOK, CollectorTypeOK'
    PROVE  LaneMeaning /\ LaneMeaning'
BY LaneTypes, PTL

\* A lane whose PDUs, or the first of whose PDUs, stay
LEMMA PrefixSegments ==
    ASSUME NEW L \in [Lanes -> Seq(Pdus)], NEW M \in [Lanes -> Seq(Pdus)],
           \A l \in Lanes : Len(M[l]) <= Len(L[l]) /\ \A i \in 1 .. Len(M[l]) : M[l][i] = L[l][i]
    PROVE  Segments(L, M)
<1> SUFFICES ASSUME NEW l \in Lanes
             PROVE  \E o \in Nat : \A i \in 1 .. Len(M[l]) : i + o \in 1 .. Len(L[l]) /\ M[l][i] = L[l][i + o]
  BY DEF Segments
<1>1. Len(M[l]) \in Nat /\ Len(L[l]) \in Nat /\ Len(M[l]) <= Len(L[l])
  OBVIOUS
<1>2. \A i \in 1 .. Len(M[l]) : i + 0 = i /\ i \in 1 .. Len(L[l]) /\ M[l][i] = L[l][i]
  BY <1>1
<1>3. \A i \in 1 .. Len(M[l]) : i + 0 \in 1 .. Len(L[l]) /\ M[l][i] = L[l][i + 0]
  BY <1>2
<1> QED
  BY <1>3

\* A new connection is empty.
LEMMA ConnectKept == ASSUME CInv, Connect, CollectorTypeOK' PROVE CInv'
<1>1. LaneMeaning /\ LaneMeaning'
  BY LanesMean DEF CInv
<1>2. LaneMap' = LaneMap
  BY DEF Connect, LaneMap
<1>3. Segments(LaneMap, LaneMap')
  BY <1>1, <1>2, PrefixSegments DEF LaneMeaning
<1>4. Links'
  <2>1. opened \in Int /\ \A c \in Conns : c \in Int
    BY CollectorAssumption DEF CInv, CollectorTypeOK, Conns
  <2>2. \A c \in Conns : c > opened + 1 => c > opened
    BY <2>1
  <2> QED
    BY <2>2 DEF CInv, Links, Connect
<1>5. opened' >= opened
  BY CollectorAssumption DEF CInv, CollectorTypeOK, Connect
<1> QED
  BY <1>3, <1>4, <1>5, LanesKept DEF Connect

\* The forwarder takes the oldest PDU of the ring into its empty hand.
LEMMA DequeueKept == ASSUME CInv, Dequeue, CollectorTypeOK' PROVE CInv'
<1>1. LaneMeaning /\ LaneMeaning'
  BY LanesMean DEF CInv
<1>2. HeadMoves(LaneMap, LaneMap', Hand, Ring)
  <2>1. /\ LaneMap[Hand] = << >> /\ LaneMap[Ring] = ring
        /\ LaneMap'[Hand] = <<Head(ring)>> /\ LaneMap'[Ring] = Tail(ring)
    BY <1>1 DEF LaneMeaning, Dequeue
  <2>2. \A l \in Lanes \ {Hand, Ring} : LaneMap'[l] = LaneMap[l]
    BY <1>1, LaneNumbers DEF LaneMeaning, Dequeue
  <2>3. \A l \in Lanes : ~(Hand < l /\ l < Ring)
    BY CollectorAssumption DEF Hand, Ring, Lanes
  <2>4. ring \in Seq(Pdus) /\ ring # << >>
    BY DEF CInv, CollectorTypeOK, Dequeue
  <2>5. /\ Len(ring) \in Nat /\ Len(ring) >= 1 /\ Head(ring) = ring[1] /\ Len(Tail(ring)) = Len(ring) - 1
        /\ \A i \in 1 .. Len(Tail(ring)) : Tail(ring)[i] = ring[i + 1]
    BY <2>4
  <2> QED
    BY <2>1, <2>2, <2>3, <2>5, LaneNumbers DEF HeadMoves
<1>3. Links'
  BY DEF CInv, Links, Dequeue
<1>4. opened' >= opened
  BY CollectorAssumption DEF CInv, CollectorTypeOK, Dequeue
<1> QED
  BY <1>2, <1>3, <1>4, LanesKept DEF Dequeue

\* A frame is written to the newest connection; later ones are empty.
LEMMA WriteFrameKept == ASSUME CInv, WriteFrame, CollectorTypeOK' PROVE CInv'
<1>1. LaneMeaning /\ LaneMeaning'
  BY LanesMean DEF CInv
<1>2. link \in Conns /\ link = opened
  <2>1. opened \in 0 .. MaxCuts + 1 /\ link \in 1 .. opened
    BY DEF CInv, CollectorTypeOK, WriteFrame
  <2>2. link \in 1 .. MaxCuts + 1 /\ link # 0
    BY <2>1, CollectorAssumption
  <2> QED
    BY <2>2 DEF Conns, CInv, Links
<1>3. HeadMoves(LaneMap, LaneMap', link, Hand)
  <2>0. PICK p \in Pdus : held = <<p>>
    BY HeldIsOne DEF CInv, WriteFrame
  <2>1. wire[link] \in Seq(Pdus) /\ wire' = [wire EXCEPT ![link] = wire[link] \o <<p>>]
    BY <1>2, <2>0 DEF CInv, CollectorTypeOK, WriteFrame
  <2>2. /\ LaneMap[Hand] = <<p>> /\ LaneMap[link] = wire[link]
        /\ LaneMap'[Hand] = << >> /\ LaneMap'[link] = wire[link] \o <<p>>
    <3>1. wire'[link] = wire[link] \o <<p>>
      BY <1>2, <2>1 DEF CInv, CollectorTypeOK
    <3> QED
      BY <1>1, <1>2, <2>0, <3>1 DEF LaneMeaning, WriteFrame
  <2>3. \A l \in Lanes \ {link, Hand} : LaneMap'[l] = LaneMap[l]
    <3> TAKE l \in Lanes \ {link, Hand}
    <3>1. CASE l \in Conns
      <4>1. wire'[l] = wire[l]
        BY <1>2, <2>1, <3>1 DEF CInv, CollectorTypeOK
      <4> QED
        BY <1>1, <3>1, <4>1 DEF LaneMeaning
    <3>2. CASE l = Ring
      BY <1>1, <3>2 DEF LaneMeaning, WriteFrame
    <3> QED
      BY <3>1, <3>2, LaneNumbers
  <2>4. \A l \in Lanes : (link < l /\ l < Hand) => Len(LaneMap'[l]) = 0
    <3> SUFFICES ASSUME NEW l \in Lanes, link < l, l < Hand PROVE Len(LaneMap'[l]) = 0
      OBVIOUS
    <3>1. l \in Conns
      BY CollectorAssumption DEF Lanes, Hand, Conns
    <3>2. l > opened /\ l # link /\ l # Hand
      BY <1>2, <3>1, LaneNumbers
    <3>3. wire[l] = << >>
      BY <3>1, <3>2 DEF CInv, Links
    <3>4. LaneMap'[l] = << >>
      BY <1>1, <2>3, <3>1, <3>2, <3>3 DEF LaneMeaning
    <3> QED
      BY <3>4
  <2>5. /\ Len(wire[link]) \in Nat /\ Len(wire[link] \o <<p>>) = Len(wire[link]) + 1
        /\ (wire[link] \o <<p>>)[Len(wire[link]) + 1] = p
        /\ \A i \in 1 .. Len(wire[link]) : (wire[link] \o <<p>>)[i] = wire[link][i]
    BY <2>1
  <2>6. Len(<<p>>) = 1 /\ <<p>>[1] = p /\ Len(<< >>) = 0
    OBVIOUS
  <2>7. link \in Lanes /\ Hand \in Lanes /\ link < Hand
    BY <1>2, LaneNumbers
  <2> QED
    BY <2>2, <2>3, <2>4, <2>5, <2>6, <2>7 DEF HeadMoves
<1>4. Links'
  <2> SUFFICES ASSUME NEW c \in Conns, c > opened PROVE wire'[c] = << >>
    BY DEF CInv, Links, WriteFrame
  <2>1. c # link
    BY <1>2, LaneNumbers
  <2> QED
    BY <2>1 DEF CInv, CollectorTypeOK, Links, WriteFrame
<1>5. opened' >= opened
  BY CollectorAssumption DEF CInv, CollectorTypeOK, WriteFrame
<1> QED
  BY <1>2, <1>3, <1>4, <1>5, LanesKept DEF WriteFrame

\* The envelope of a write to a broken connection is lost
LEMMA WriteGoneKept == ASSUME CInv, WriteLost \/ WriteFails, CollectorTypeOK' PROVE CInv'
<1>1. LaneMeaning /\ LaneMeaning'
  BY LanesMean DEF CInv
<1>2. Segments(LaneMap, LaneMap')
  <2> DEFINE L == LaneMap  M == LaneMap'
  <2>0. L \in [Lanes -> Seq(Pdus)] /\ M \in [Lanes -> Seq(Pdus)]
    BY <1>1 DEF LaneMeaning
  <2>1. M[Hand] = << >>
    BY <1>1 DEF LaneMeaning, WriteLost, WriteFails
  <2>2. \A l \in Lanes \ {Hand} : M[l] = L[l]
    BY <1>1, LaneNumbers DEF LaneMeaning, WriteLost, WriteFails
  <2> HIDE DEF L, M
  <2>3. ASSUME NEW l \in Lanes
        PROVE  Len(M[l]) <= Len(L[l]) /\ \A i \in 1 .. Len(M[l]) : M[l][i] = L[l][i]
    BY <2>0, <2>1, <2>2, <2>3
  <2>4. Segments(L, M)
    BY <2>0, <2>3, PrefixSegments
  <2> QED
    BY <2>4 DEF L, M
<1>3. Links'
  BY DEF CInv, Links, WriteLost, WriteFails
<1>4. opened' >= opened
  BY CollectorAssumption DEF CInv, CollectorTypeOK, WriteLost, WriteFails
<1> QED
  BY <1>2, <1>3, <1>4, LanesKept DEF WriteLost, WriteFails

\* A connection that breaks keeps a prefix of what was under way.
LEMMA BreakKept == ASSUME CInv, NEW c \in Conns, Break(c), CollectorTypeOK' PROVE CInv'
<1>1. LaneMeaning /\ LaneMeaning'
  BY LanesMean DEF CInv
<1>0. PICK n \in 0 .. Len(wire[c]) : wire' = [wire EXCEPT ![c] = SubSeq(@, 1, n)]
  BY DEF Break
<1>a. wire[c] \in Seq(Pdus) /\ wire'[c] = SubSeq(wire[c], 1, n) /\ \A d \in Conns \ {c} : wire'[d] = wire[d]
  BY <1>0 DEF CInv, CollectorTypeOK
<1>b. Len(wire'[c]) <= Len(wire[c]) /\ \A i \in 1 .. Len(wire'[c]) : wire'[c][i] = wire[c][i]
  BY <1>a
<1>2. Segments(LaneMap, LaneMap')
  <2> DEFINE L == LaneMap  M == LaneMap'
  <2>0. L \in [Lanes -> Seq(Pdus)] /\ M \in [Lanes -> Seq(Pdus)]
    BY <1>1 DEF LaneMeaning
  <2>1. L[c] = wire[c] /\ M[c] = wire'[c]
    BY <1>1 DEF LaneMeaning
  <2>2. \A l \in Lanes \ {c} : M[l] = L[l]
    BY <1>1, <1>a, LaneNumbers DEF LaneMeaning, Break
  <2> HIDE DEF L, M
  <2>3. ASSUME NEW l \in Lanes
        PROVE  Len(M[l]) <= Len(L[l]) /\ \A i \in 1 .. Len(M[l]) : M[l][i] = L[l][i]
    <3>1. CASE l = c
      BY <1>b, <2>1, <3>1
    <3>2. CASE l # c
      BY <2>0, <2>2, <2>3, <3>2
    <3> QED
      BY <3>1, <3>2
  <2>4. Segments(L, M)
    BY <2>0, <2>3, PrefixSegments
  <2> QED
    BY <2>4 DEF L, M
<1>3. Links'
  <2> SUFFICES ASSUME NEW d \in Conns, d > opened PROVE wire'[d] = << >>
    BY DEF CInv, Links, Break
  <2>1. wire[d] = << >>
    BY DEF CInv, Links
  <2> QED
    BY <1>a, <2>1
<1>4. opened' >= opened
  BY CollectorAssumption DEF CInv, CollectorTypeOK, Break
<1> QED
  BY <1>2, <1>3, <1>4, LanesKept DEF Break

-----------------------------------------------------------------------------
(* A speaker's PDU arrives *)

\* An arithmetic fact the provers need on its own.
LEMMA NumberArith ==
    ASSUME NEW x \in Int, NEW y \in Int, x <= y
    PROVE  x <= y + 1 /\ x < y + 1
OBVIOUS

\* The PDU a speaker sends next is newer than every PDU it has sent.
LEMMA NextIsNewest ==
    ASSUME CollectorTypeOK, NEW s \in Speakers, Receive(s), NEW q \in Pdus, q[2] <= sent[q[1]]
    PROVE  q[2] <= sent'[q[1]] /\ Older(q, <<s, sent[s] + 1>>)
<1>1. q[1] \in Speakers /\ q[2] \in Int
  BY CollectorAssumption DEF Pdus
<1>2. sent[q[1]] \in Int
  BY <1>1, CollectorAssumption DEF CollectorTypeOK
<1>3. q[2] <= sent[q[1]] + 1 /\ q[2] < sent[q[1]] + 1
  BY <1>1, <1>2, NumberArith
<1>4. sent'[q[1]] = IF q[1] = s THEN sent[q[1]] + 1 ELSE sent[q[1]]
  BY <1>1 DEF Receive, CollectorTypeOK
<1> QED
  BY <1>3, <1>4 DEF Older

\* What Core received came through a connection.
LEMMA DeliveredType ==
    ASSUME CollectorTypeOK, NEW k \in 1 .. Len(received)
    PROVE  received[k][1] \in Pdus /\ received[k][2] \in Conns /\ received[k][2] \in Int
<1>1. received[k] \in (Pdus \ Malformed) \X Conns
  BY ElementOfSeq DEF CollectorTypeOK
<1>2. received[k][1] \in Pdus /\ received[k][2] \in Conns
  BY <1>1
<1>3. \A c \in Conns : c \in Int
  BY CollectorAssumption DEF Conns
<1> QED
  BY <1>2, <1>3, Zenon

\* A speaker's next PDU is the newest of its PDUs, at the end of the ring or refused.
LEMMA ReceiveKept == ASSUME CInv, NEW s \in Speakers, Receive(s), CollectorTypeOK' PROVE CInv'
<1> DEFINE L == LaneMap  M == LaneMap'  p == <<s, sent[s] + 1>>
<1>0. CollectorTypeOK /\ Links /\ Delivered /\ Sorted(L) /\ Known(L) /\ Passed(L)
  BY DEF CInv
<1>1. LaneMeaning /\ LaneMeaning'
  BY <1>0, LanesMean
<1>2. Links'
  BY <1>0 DEF Links, Receive
<1>3. \A q \in Pdus : q[2] <= sent[q[1]] => q[2] <= sent'[q[1]] /\ Older(q, p)
  BY <1>0, NextIsNewest
<1>4. \A k \in 1 .. Len(received) : received[k][1] \in Pdus /\ received[k][2] \in Conns
  BY <1>0, DeliveredType
<1>5. Delivered'
  BY <1>0, <1>3, <1>4 DEF Delivered, Receive
<1>6. L \in [Lanes -> Seq(Pdus)] /\ M \in [Lanes -> Seq(Pdus)]
  BY <1>1 DEF LaneMeaning
<1>7. \A l \in Lanes \ {Ring} : M[l] = L[l]
  BY <1>1, LaneNumbers DEF LaneMeaning, Receive
<1>8. M[Ring] = L[Ring] \/ M[Ring] = Append(L[Ring], p)
  BY <1>1 DEF LaneMeaning, Receive
<1>9. p[2] <= sent'[p[1]]
  <2>1. sent[s] \in Int
    BY <1>0, CollectorAssumption DEF CollectorTypeOK
  <2> QED
    BY <1>0, <2>1 DEF Receive, CollectorTypeOK
<1> HIDE DEF L, M, p
\* Where a PDU of M was before
<1>10. ASSUME NEW l \in Lanes, NEW i \in 1 .. Len(M[l])
       PROVE  \/ i \in 1 .. Len(L[l]) /\ M[l][i] = L[l][i]
              \/ l = Ring /\ i = Len(L[Ring]) + 1 /\ Len(M[Ring]) = Len(L[Ring]) + 1 /\ M[l][i] = p
  <2>1. CASE l # Ring \/ M[l] = L[l]
    BY <1>7, <2>1
  <2>2. CASE l = Ring /\ M[Ring] = Append(L[Ring], p)
    <3>1. L[Ring] \in Seq(Pdus) /\ Len(L[Ring]) \in Nat
      BY <1>6, LaneNumbers
    <3>2. Len(M[Ring]) = Len(L[Ring]) + 1 /\ M[Ring][Len(L[Ring]) + 1] = p
          /\ \A j \in 1 .. Len(L[Ring]) : M[Ring][j] = L[Ring][j]
      BY <2>2, <3>1
    <3>3. i \in 1 .. Len(L[Ring]) \/ i = Len(L[Ring]) + 1
      BY <2>2, <3>1, <3>2
    <3> QED
      BY <2>2, <3>2, <3>3
  <2> QED
    BY <1>8, <2>1, <2>2
<1>11. ASSUME NEW l \in Lanes, NEW i \in 1 .. Len(L[l])
       PROVE  L[l][i][2] <= sent'[L[l][i][1]] /\ Older(L[l][i], p)
  <2>1. L[l][i] \in Pdus
    BY <1>6, ElementOfSeq
  <2>2. L[l][i][2] <= sent[L[l][i][1]]
    BY <1>0 DEF Known
  <2> QED
    BY <1>3, <2>1, <2>2
<1>12. ASSUME NEW l \in Lanes, NEW i \in 1 .. Len(M[l])
       PROVE  M[l][i][2] <= sent'[M[l][i][1]]
  BY <1>9, <1>10, <1>11
<1>13. Sorted(M)
  <2> SUFFICES ASSUME NEW l \in Lanes, NEW m \in Lanes,
                      NEW i \in 1 .. Len(M[l]), NEW j \in 1 .. Len(M[m]),
                      l < m \/ (l = m /\ i < j)
               PROVE  Older(M[l][i], M[m][j])
    BY DEF Sorted
  <2>1. \A k \in Lanes : k <= Ring /\ k \in Int
    BY CollectorAssumption DEF Lanes, Ring
  <2>2. i \in 1 .. Len(L[l]) /\ M[l][i] = L[l][i]
    <3> SUFFICES ASSUME l = Ring, i = Len(L[Ring]) + 1, Len(M[Ring]) = Len(L[Ring]) + 1 PROVE FALSE
      BY <1>10
    <3>1. m = Ring
      BY <2>1
    <3>2. j \in Int /\ i \in Int /\ j <= i
      BY <3>1
    <3> QED
      BY <2>1, <3>1, <3>2
  <2>3. CASE j \in 1 .. Len(L[m]) /\ M[m][j] = L[m][j]
    BY <1>0, <2>2, <2>3 DEF Sorted
  <2>4. CASE M[m][j] = p
    BY <1>11, <2>2, <2>4
  <2> QED
    BY <1>10, <2>3, <2>4
<1>14. Passed(M)
  <2> SUFFICES ASSUME NEW k \in 1 .. Len(received), NEW l \in Lanes, NEW i \in 1 .. Len(M[l])
               PROVE  IF received[k][2] <= l THEN Older(received[k][1], M[l][i])
                                              ELSE Older(M[l][i], received[k][1])
    BY DEF Passed
  <2>1. CASE i \in 1 .. Len(L[l]) /\ M[l][i] = L[l][i]
    BY <1>0, <2>1 DEF Passed
  <2>2. CASE l = Ring /\ M[l][i] = p
    <3>1. received[k][2] <= Ring
      <4>1. \A c \in Conns : c <= Ring
        BY CollectorAssumption DEF Conns, Ring
      <4> QED
        BY <1>4, <4>1
    <3>2. received[k][1][2] <= sent[received[k][1][1]]
      BY <1>0 DEF Delivered
    <3>3. Older(received[k][1], p)
      BY <1>3, <1>4, <3>2
    <3> QED
      BY <2>2, <3>1, <3>3
  <2> QED
    BY <1>10, <2>1, <2>2
<1>15. Sorted(LaneMap)' /\ Known(LaneMap)' /\ Passed(LaneMap)'
  <2>1. UNCHANGED received
    BY DEF Receive
  <2> QED
    BY <1>12, <1>13, <1>14, <2>1 DEF M, Sorted, Known, Passed
<1> QED
  BY <1>2, <1>5, <1>15 DEF CInv

-----------------------------------------------------------------------------
(* Core reads a frame *)

\* Core reads the oldest PDU of a connection: newer than what came through this or an
\* earlier one, older than all behind it.
LEMMA CoreReadsKept == ASSUME CInv, NEW c \in Conns, CoreReads(c), CollectorTypeOK' PROVE CInv'
<1> DEFINE L == LaneMap  M == LaneMap'  h == Head(wire[c])  N == Len(received)
<1>0. CollectorTypeOK /\ Links /\ Delivered /\ Sorted(L) /\ Known(L) /\ Passed(L)
  BY DEF CInv
<1>1. LaneMeaning /\ LaneMeaning'
  BY <1>0, LanesMean
<1>2. wire[c] \in Seq(Pdus) /\ wire[c] # << >>
  BY <1>0 DEF CoreReads, CollectorTypeOK
<1>3. /\ Len(wire[c]) \in Nat /\ 1 \in 1 .. Len(wire[c]) /\ h = wire[c][1]
      /\ Tail(wire[c]) \in Seq(Pdus) /\ Len(Tail(wire[c])) = Len(wire[c]) - 1
      /\ \A i \in 1 .. Len(Tail(wire[c])) : Tail(wire[c])[i] = wire[c][i + 1]
  BY <1>2
<1>4. wire'[c] = Tail(wire[c]) /\ \A d \in Conns \ {c} : wire'[d] = wire[d]
  BY <1>0 DEF CoreReads, CollectorTypeOK
<1>5. Links'
  <2> SUFFICES ASSUME NEW d \in Conns, d > opened PROVE wire'[d] = << >>
    BY <1>0 DEF Links, CoreReads
  <2>1. wire[d] = << >>
    BY <1>0 DEF Links
  <2> QED
    BY <1>2, <1>4, <2>1
<1>6. c \in Int /\ opened \in Int /\ c <= opened
  <2>1. c \in Int /\ opened \in Int
    BY <1>0, CollectorAssumption DEF CollectorTypeOK, Conns
  <2>2. ~(c > opened)
    BY <1>0, <1>2 DEF Links
  <2> QED
    BY <2>1, <2>2
<1>7. L \in [Lanes -> Seq(Pdus)] /\ M \in [Lanes -> Seq(Pdus)]
  BY <1>1 DEF LaneMeaning
<1>8. c \in Lanes /\ L[c] = wire[c] /\ M[c] = Tail(wire[c])
  BY <1>1, <1>4, LaneNumbers DEF LaneMeaning
<1>9. \A l \in Lanes \ {c} : M[l] = L[l]
  BY <1>1, <1>4, LaneNumbers DEF LaneMeaning, CoreReads
<1> HIDE DEF L, M
<1>a. \A i \in 1 .. Len(M[c]) : i + 1 \in 1 .. Len(L[c]) /\ M[c][i] = L[c][i + 1] /\ 1 < i + 1
  BY <1>3, <1>8
<1>10. Segments(L, M)
  <2> SUFFICES ASSUME NEW l \in Lanes
               PROVE  \E o \in Nat : \A i \in 1 .. Len(M[l]) :
                         i + o \in 1 .. Len(L[l]) /\ M[l][i] = L[l][i + o]
    BY DEF Segments
  <2>1. CASE l = c
    BY <1>a, <2>1
  <2>2. CASE l # c
    <3>1. M[l] = L[l] /\ Len(L[l]) \in Nat
      BY <1>7, <1>9, <2>2
    <3>2. \A i \in 1 .. Len(M[l]) : i + 0 \in 1 .. Len(L[l]) /\ M[l][i] = L[l][i + 0]
      BY <3>1
    <3> QED
      BY <3>2
  <2> QED
    BY <2>1, <2>2
<1>11. Sorted(M) /\ Known(M) /\ Passed(M)
  BY <1>0, <1>7, <1>10, SegmentsSorted, SegmentsKept
<1>12. CASE h \in Malformed
  <2>1. UNCHANGED <<sent, received, opened>>
    BY <1>12 DEF CoreReads
  <2>2. opened' >= opened
    BY <1>6, <2>1
  <2> QED
    BY <1>5, <1>10, <2>1, <2>2, LanesKept DEF L, M
<1>13. CASE h \notin Malformed
  <2>1. UNCHANGED <<sent, opened>> /\ received' = Append(received, <<h, c>>)
    BY <1>13 DEF CoreReads
  <2> HIDE DEF h
  <2>2. N \in Nat /\ Len(received') = N + 1 /\ received'[N + 1] = <<h, c>>
        /\ \A k \in 1 .. N : received'[k] = received[k]
    BY <1>0, <2>1 DEF CollectorTypeOK
  <2>3. \A k \in 1 .. Len(received') : k \in 1 .. N \/ k = N + 1
    BY <2>2
  <2>4. received'[N + 1][1] = h /\ received'[N + 1][2] = c
    BY <2>2
  <2>a. \A k \in 1 .. N : received'[k][1] = received[k][1] /\ received'[k][2] = received[k][2]
    BY <2>2
  <2>b. \A k \in 1 .. N : received[k][2] \in Int
    BY <1>0, DeliveredType
  <2>c. 1 \in 1 .. Len(L[c]) /\ L[c][1] = h
    BY <1>3, <1>8
  <2>d. h[2] <= sent[h[1]]
    BY <1>0, <1>8, <2>c DEF Known
  <2>e. ASSUME NEW k \in 1 .. N
        PROVE  IF received[k][2] <= c THEN Older(received[k][1], h) ELSE Older(h, received[k][1])
    BY <1>0, <1>8, <2>c DEF Passed
  <2> HIDE DEF N
  <2>5. Delivered'
    <3>1. \A k \in 1 .. Len(received') :
             received'[k][2] <= opened' /\ received'[k][1][2] <= sent'[received'[k][1][1]]
      <4> TAKE k \in 1 .. Len(received')
      <4>1. CASE k \in 1 .. N
        <5>1. received[k][2] <= opened /\ received[k][1][2] <= sent[received[k][1][1]]
          BY <1>0, <4>1 DEF Delivered, N
        <5> QED
          BY <2>1, <2>a, <4>1, <5>1
      <4>2. CASE k = N + 1
        BY <1>6, <2>1, <2>4, <2>d, <4>2
      <4> QED
        BY <2>3, <4>1, <4>2
    <3>2. ASSUME NEW k \in 1 .. Len(received'), NEW m \in 1 .. Len(received'),
                 received'[k][2] < received'[m][2] \/ (received'[k][2] = received'[m][2] /\ k < m)
          PROVE  Older(received'[k][1], received'[m][1])
      <4>1. CASE k \in 1 .. N /\ m \in 1 .. N
        BY <1>0, <2>a, <3>2, <4>1 DEF Delivered, N
      <4>2. CASE k \in 1 .. N /\ m = N + 1
        <5>1. received[k][2] < c \/ received[k][2] = c
          BY <2>4, <2>a, <3>2, <4>2
        <5>2. received[k][2] \in Int
          BY <2>b, <4>2
        <5>3. received[k][2] <= c
          BY <1>6, <5>1, <5>2
        <5> QED
          BY <2>4, <2>a, <2>e, <4>2, <5>3
      <4>3. CASE k = N + 1 /\ m \in 1 .. N
        <5>0. ~(k < m)
          BY <2>2, <4>3
        <5>1. c < received[m][2]
          BY <2>4, <2>a, <3>2, <4>3, <5>0
        <5>2. received[m][2] \in Int
          BY <2>b, <4>3
        <5>3. ~(received[m][2] <= c)
          BY <1>6, <5>1, <5>2
        <5> QED
          BY <2>4, <2>a, <2>e, <4>3, <5>3
      <4>4. CASE k = N + 1 /\ m = N + 1
        <5>1. ~(k < m) /\ ~(c < c)
          BY <1>6, <2>2, <4>4
        <5> QED
          BY <2>4, <3>2, <4>4, <5>1
      <4> QED
        BY <2>3, <4>1, <4>2, <4>3, <4>4
    <3> QED
      BY <3>1, <3>2 DEF Delivered
  <2>6. ASSUME NEW k \in 1 .. Len(received'), NEW l \in Lanes, NEW i \in 1 .. Len(M[l])
        PROVE  IF received'[k][2] <= l THEN Older(received'[k][1], M[l][i])
                                        ELSE Older(M[l][i], received'[k][1])
    <3>1. CASE k \in 1 .. N
      <4>1. IF received[k][2] <= l THEN Older(received[k][1], M[l][i])
                                    ELSE Older(M[l][i], received[k][1])
        BY <1>11, <2>6, <3>1 DEF Passed, N
      <4> QED
        BY <2>a, <3>1, <4>1
    <3>2. CASE k = N + 1
      <4>0. l \in Int
        BY CollectorAssumption DEF Lanes
      <4>1. CASE l = c
        <5>1. i + 1 \in 1 .. Len(L[c]) /\ M[c][i] = L[c][i + 1] /\ 1 < i + 1
          BY <1>a, <2>6, <4>1
        <5>2. Older(h, M[l][i])
          BY <1>0, <1>8, <2>c, <4>1, <5>1 DEF Sorted
        <5>3. c <= l
          BY <1>6, <4>1
        <5> QED
          BY <2>4, <3>2, <5>2, <5>3
      <4>2. CASE c < l
        <5>1. M[l] = L[l] /\ c <= l
          BY <1>6, <1>9, <4>0, <4>2
        <5>2. Older(h, M[l][i])
          BY <1>0, <1>8, <2>6, <2>c, <4>2, <5>1 DEF Sorted
        <5> QED
          BY <2>4, <3>2, <5>1, <5>2
      <4>3. CASE l < c
        <5>1. M[l] = L[l] /\ ~(c <= l)
          BY <1>6, <1>9, <4>0, <4>3
        <5>2. Older(M[l][i], h)
          BY <1>0, <1>8, <2>6, <2>c, <4>3, <5>1 DEF Sorted
        <5> QED
          BY <2>4, <3>2, <5>1, <5>2
      <4> QED
        BY <1>6, <4>0, <4>1, <4>2, <4>3
    <3> QED
      BY <2>3, <2>6, <3>1, <3>2
  <2>7. Sorted(LaneMap)' /\ Known(LaneMap)' /\ Passed(LaneMap)'
    BY <1>11, <2>1, <2>6 DEF M, Sorted, Known, Passed
  <2> QED
    BY <1>5, <2>5, <2>7 DEF CInv
<1> QED
  BY <1>12, <1>13

-----------------------------------------------------------------------------
(* Delivery *)

\* Every step keeps the invariant.
LEMMA InvStep == CInv /\ [CollectorNext]_collectorVars => CInv'
<1> SUFFICES ASSUME CInv, [CollectorNext]_collectorVars PROVE CInv'
  OBVIOUS
<1>0. CollectorTypeOK'
  BY TypeStep DEF CInv
<1>1. ASSUME NEW s \in Speakers, Receive(s) PROVE CInv'
  BY <1>0, <1>1, ReceiveKept
<1>2. ASSUME Connect PROVE CInv'
  BY <1>0, <1>2, ConnectKept
<1>3. ASSUME Dequeue PROVE CInv'
  BY <1>0, <1>3, DequeueKept
<1>4. ASSUME WriteFrame PROVE CInv'
  BY <1>0, <1>4, WriteFrameKept
<1>5. ASSUME WriteLost \/ WriteFails PROVE CInv'
  BY <1>0, <1>5, WriteGoneKept
<1>6. ASSUME NEW c \in Conns, Break(c) PROVE CInv'
  BY <1>0, <1>6, BreakKept
<1>7. ASSUME NEW c \in Conns, CoreReads(c) PROVE CInv'
  BY <1>0, <1>7, CoreReadsKept
<1>8. ASSUME UNCHANGED collectorVars PROVE CInv'
  BY <1>8 DEF collectorVars, CInv, CollectorTypeOK, Links, Delivered, Sorted, Known, Passed, LaneMap
<1> QED
  BY <1>1, <1>2, <1>3, <1>4, <1>5, <1>6, <1>7, <1>8 DEF CollectorNext

\* Nothing is under way in the beginning.
LEMMA InvInit == CollectorInit => CInv
<1> SUFFICES ASSUME CollectorInit PROVE CInv
  OBVIOUS
<1>1. CollectorTypeOK
  BY CollectorAssumption DEF CollectorInit, CollectorTypeOK
<1>2. LaneMeaning
  BY <1>1, LaneTypes
<1>3. \A l \in Lanes : LaneMap[l] = << >>
  BY <1>2, LaneNumbers DEF LaneMeaning, CollectorInit
<1>4. Sorted(LaneMap) /\ Known(LaneMap) /\ Passed(LaneMap)
  BY <1>3 DEF Sorted, Known, Passed
<1>5. Links /\ Delivered
  BY DEF CollectorInit, Links, Delivered
<1> QED
  BY <1>1, <1>4, <1>5 DEF CInv

\* A PDU is not older than itself.
LEMMA OlderDiffers ==
    ASSUME NEW p \in Pdus, NEW q \in Pdus, Older(p, q)
    PROVE  p # q /\ (p[1] = q[1] => ~(p[2] > q[2]))
<1>1. p[2] \in Int /\ q[2] \in Int
  BY CollectorAssumption DEF Pdus
<1> QED
  BY <1>1 DEF Older

\* Of two deliveries the one through the older connection, or the first of one connection,
\* is of the older PDU.
LEMMA DeliveryOrder ==
    ASSUME CInv, NEW i \in 1 .. Len(received), NEW j \in 1 .. Len(received), i < j
    PROVE  \/ received[i][2] > received[j][2] /\ Older(received[j][1], received[i][1])
           \/ Older(received[i][1], received[j][1])
<1>1. received[i][2] \in Int /\ received[j][2] \in Int
  BY DeliveredType DEF CInv
<1>2. received[i][2] > received[j][2] \/ received[i][2] < received[j][2] \/ received[i][2] = received[j][2]
  BY <1>1
<1>3. received[i][2] > received[j][2] => received[j][2] < received[i][2]
  BY <1>1
<1> QED
  BY <1>2, <1>3 DEF CInv, Delivered

\* A list without repetitions has as many elements as places.
LEMMA CountOfImage ==
    ASSUME NEW n \in Nat, NEW f, DOMAIN f = 1 .. n,
           \A i, j \in 1 .. n : i < j => f[i] # f[j]
    PROVE  Cardinality({f[k] : k \in 1 .. n}) = n
<1> DEFINE S == {f[k] : k \in 1 .. n}  g == [k \in 1 .. n |-> f[k]]
<1>1. g \in [1 .. n -> S]
  OBVIOUS
<1>2. ASSUME NEW i \in 1 .. n, NEW j \in 1 .. n, g[i] = g[j] PROVE i = j
  <2>1. i < j \/ j < i \/ i = j
    OBVIOUS
  <2> QED
    BY <1>2, <2>1
<1>3. \A y \in S : \E k \in 1 .. n : g[k] = y
  OBVIOUS
<1>4. g \in Bijection(1 .. n, S)
  BY <1>1, <1>2, <1>3 DEF Bijection, Injection, Surjection, IsInjective
<1>5. ExistsBijection(1 .. n, S)
  BY <1>4 DEF ExistsBijection
<1> QED
  BY <1>5, FS_CountingElements

\* The invariant gives OnceAndInOrder.
LEMMA InvOnce == CInv => OnceAndInOrder
<1> SUFFICES ASSUME CInv PROVE OnceAndInOrder
  OBVIOUS
<1>0. CollectorTypeOK /\ Passed(LaneMap)
  BY DEF CInv
<1>1. \A k \in 1 .. Len(received) : received[k][1] \in Pdus
  BY <1>0, DeliveredType
<1>2. Cardinality(Arrived) = Len(received)
  <2> DEFINE f == [k \in 1 .. Len(received) |-> received[k][1]]
  <2>1. ASSUME NEW i \in 1 .. Len(received), NEW j \in 1 .. Len(received), i < j
        PROVE  f[i] # f[j]
    BY <1>1, <2>1, DeliveryOrder, OlderDiffers
  <2>2. Len(received) \in Nat
    BY <1>0 DEF CollectorTypeOK
  <2>3. Arrived = {f[k] : k \in 1 .. Len(received)}
    BY DEF Arrived
  <2>4. DOMAIN f = 1 .. Len(received)
    OBVIOUS
  <2> HIDE DEF f
  <2> QED
    BY <2>1, <2>2, <2>3, <2>4, CountOfImage
<1>3. Arrived \cap OnTheWay = {}
  <2> SUFFICES ASSUME NEW k \in 1 .. Len(received), received[k][1] \in OnTheWay PROVE FALSE
    BY DEF Arrived
  <2>1. \E l \in Lanes : \E i \in 1 .. Len(LaneMap[l]) : received[k][1] = LaneMap[l][i]
    <3>1. LaneMeaning
      BY <1>0, LaneTypes
    <3>2. CASE received[k][1] \in ToSet(ring)
      <4>1. ring \in Seq(Pdus)
        BY <3>1, LaneNumbers DEF LaneMeaning
      <4>2. PICK i \in 1 .. Len(ring) : received[k][1] = ring[i]
        BY <3>2, <4>1 DEF ToSet
      <4>3. Ring \in Lanes /\ LaneMap[Ring] = ring
        BY <3>1, LaneNumbers DEF LaneMeaning
      <4> QED
        BY <4>2, <4>3
    <3>3. CASE received[k][1] \in ToSet(held)
      <4>1. held \in Seq(Pdus)
        BY <3>1, LaneNumbers DEF LaneMeaning
      <4>2. PICK i \in 1 .. Len(held) : received[k][1] = held[i]
        BY <3>3, <4>1 DEF ToSet
      <4>3. Hand \in Lanes /\ LaneMap[Hand] = held
        BY <3>1, LaneNumbers DEF LaneMeaning
      <4> QED
        BY <4>2, <4>3
    <3>4. ASSUME NEW c \in Conns, received[k][1] \in ToSet(wire[c])
          PROVE  \E l \in Lanes : \E i \in 1 .. Len(LaneMap[l]) : received[k][1] = LaneMap[l][i]
      <4>1. wire[c] \in Seq(Pdus)
        BY <1>0 DEF CollectorTypeOK
      <4>2. PICK i \in 1 .. Len(wire[c]) : received[k][1] = wire[c][i]
        BY <3>4, <4>1 DEF ToSet
      <4> QED
        BY <3>1, <4>2, LaneNumbers DEF LaneMeaning
    <3> QED
      BY <3>2, <3>3, <3>4 DEF OnTheWay
  <2>2. PICK l \in Lanes : \E i \in 1 .. Len(LaneMap[l]) : received[k][1] = LaneMap[l][i]
    BY <2>1
  <2>3. PICK i \in 1 .. Len(LaneMap[l]) : received[k][1] = LaneMap[l][i]
    BY <2>2
  <2>4. Older(received[k][1], received[k][1])
    BY <1>0, <2>3 DEF Passed
  <2> QED
    BY <1>1, <2>4, OlderDiffers
<1>4. ASSUME NEW i \in 1 .. Len(received), NEW j \in 1 .. Len(received), i < j,
             received[i][1][1] = received[j][1][1], received[i][1][2] > received[j][1][2]
      PROVE  received[i][2] > received[j][2]
  BY <1>1, <1>4, DeliveryOrder, OlderDiffers
<1> QED
  BY <1>2, <1>3, <1>4 DEF OnceAndInOrder

\* Reconnecting never delivers a PDU twice: what Core received is not received again and is
\* not under way any more, and of two PDUs of one speaker the newer one is received first
\* only if it came through a later connection than the older one.
THEOREM OnceAndInOrderHolds == CollectorSpec => []OnceAndInOrder
BY InvInit, InvStep, InvOnce, PTL DEF CollectorSpec

-----------------------------------------------------------------------------
(* Loss *)

\* Where a PDU that was sent may be, unless a broken connection lost it
Accounted == Arrived \cup OnTheWay \cup overflow \cup Malformed

\* r is q with e at its end
Extends(r, q, e) ==
    /\ Len(q) \in Nat /\ Len(r) = Len(q) + 1 /\ r[Len(q) + 1] = e
    /\ \A k \in 1 .. Len(q) : r[k] = q[k]

\* The elements of a sequence with one more at its end.
LEMMA ExtendedElements ==
    ASSUME NEW r, NEW q, NEW e, Extends(r, q, e)
    PROVE  ToSet(r) = ToSet(q) \cup {e}
<1>1. 1 .. Len(q) + 1 = (1 .. Len(q)) \cup {Len(q) + 1}
  BY DEF Extends
<1> QED
  BY <1>1 DEF Extends, ToSet

\* The elements of a sequence are its head and those of its tail.
LEMMA HeadElements ==
    ASSUME NEW S, NEW q \in Seq(S), q # << >>
    PROVE  ToSet(q) \subseteq {Head(q)} \cup ToSet(Tail(q))
<1> SUFFICES ASSUME NEW k \in 1 .. Len(q) PROVE q[k] = Head(q) \/ q[k] \in ToSet(Tail(q))
  BY DEF ToSet
<1>1. Len(q) \in Nat /\ Head(q) = q[1] /\ Len(Tail(q)) = Len(q) - 1
  OBVIOUS
<1>2. CASE k = 1
  BY <1>1, <1>2
<1>3. CASE k # 1
  <2>1. k - 1 \in 1 .. Len(Tail(q)) /\ (k - 1) + 1 = k
    BY <1>1, <1>3
  <2>2. Tail(q)[k - 1] = q[(k - 1) + 1]
    BY <2>1
  <2>3. DOMAIN Tail(q) = 1 .. Len(Tail(q))
    <3>1. Tail(q) \in Seq(S)
      OBVIOUS
    <3> QED
      BY <3>1
  <2>4. q[k] = Tail(q)[k - 1]
    BY <2>1, <2>2
  <2>5. k - 1 \in DOMAIN Tail(q)
    BY <2>1, <2>3
  <2> QED
    BY <2>4, <2>5 DEF ToSet
<1> QED
  BY <1>2, <1>3

\* The element of a sequence of one.
LEMMA OneElement == ASSUME NEW p PROVE ToSet(<<p>>) = {p}
BY DEF ToSet

\* While a connection is broken, not all connections are whole.
LEMMA LossStep == CollectorTypeOK /\ LossOnlyByOverflow /\ [CollectorNext]_collectorVars => LossOnlyByOverflow'
<1> SUFFICES ASSUME CollectorTypeOK, LossOnlyByOverflow, [CollectorNext]_collectorVars, whole' = 1 .. opened'
             PROVE  Sent' \subseteq Accounted'
  BY DEF LossOnlyByOverflow, Accounted
<1>0. whole = 1 .. opened => Sent \subseteq Accounted
  BY DEF LossOnlyByOverflow, Accounted
<1>1. ASSUME NEW s \in Speakers, Receive(s) PROVE Sent' \subseteq Accounted'
  <2> DEFINE p == <<s, sent[s] + 1>>
  <2>1. Sent \subseteq Accounted
    BY <1>0, <1>1 DEF Receive
  <2>2. Sent' \subseteq Sent \cup {p}
    <3> SUFFICES ASSUME NEW q \in Pdus, q[2] <= sent'[q[1]], q # p PROVE q[2] <= sent[q[1]]
      BY DEF Sent
    <3>1. q[1] \in Speakers /\ q[2] \in Int /\ q = <<q[1], q[2]>>
      BY CollectorAssumption DEF Pdus
    <3>2. sent[q[1]] \in Int /\ sent' = [sent EXCEPT ![s] = sent[s] + 1]
      BY <1>1, <3>1, CollectorAssumption DEF CollectorTypeOK, Receive
    <3>3. CASE q[1] = s
      <4>1. sent'[s] = sent[s] + 1 /\ q[2] # sent[s] + 1
        BY <3>1, <3>2, <3>3 DEF CollectorTypeOK
      <4> QED
        BY <3>1, <3>2, <3>3, <4>1
    <3>4. CASE q[1] # s
      BY <3>1, <3>2, <3>4 DEF CollectorTypeOK
    <3> QED
      BY <3>3, <3>4
  <2>3. p \in Pdus
    BY <1>1, CollectorAssumption DEF CollectorTypeOK, Pdus, Receive
  <2>4. /\ ToSet(ring) \subseteq ToSet(ring') /\ overflow \subseteq overflow'
        /\ p \in ToSet(ring') \cup overflow'
    <3>1. CASE Len(ring) < RingCap
      <4>1. ring' = Append(ring, p) /\ UNCHANGED overflow
        BY <1>1, <3>1 DEF Receive
      <4>2. ToSet(ring') = ToSet(ring) \cup {p}
        <5>1. Extends(ring', ring, p)
          BY <2>3, <4>1 DEF Extends, CollectorTypeOK
        <5> QED
          BY <5>1, ExtendedElements
      <4> QED
        BY <4>1, <4>2
    <3>2. CASE ~(Len(ring) < RingCap)
      BY <1>1, <3>2 DEF Receive
    <3> QED
      BY <3>1, <3>2
  <2>5. UNCHANGED <<received, held, wire>>
    BY <1>1 DEF Receive
  <2> HIDE DEF p
  <2>6. Accounted \cup {p} \subseteq Accounted'
    BY <2>4, <2>5 DEF Accounted, Arrived, OnTheWay
  <2> QED
    BY <2>1, <2>2, <2>6
<1>2. ASSUME Connect PROVE Sent' \subseteq Accounted'
  <2>1. whole = 1 .. opened
    <3>1. opened \in Nat /\ whole \subseteq 1 .. opened /\ whole \cup {opened + 1} = 1 .. opened + 1
      BY <1>2, CollectorAssumption DEF CollectorTypeOK, Connect
    <3>2. ASSUME NEW c \in 1 .. opened PROVE c \in whole
      <4>1. c \in 1 .. opened + 1 /\ c # opened + 1
        BY <3>1, <3>2
      <4> QED
        BY <3>1, <4>1
    <3> QED
      BY <3>1, <3>2
  <2> QED
    BY <1>0, <1>2, <2>1 DEF Connect, Sent, Accounted, Arrived, OnTheWay
<1>3. ASSUME Dequeue PROVE Sent' \subseteq Accounted'
  <2>1. Sent' = Sent /\ Sent \subseteq Accounted
    BY <1>0, <1>3 DEF Dequeue, Sent
  <2>2. ToSet(ring) \subseteq {Head(ring)} \cup ToSet(Tail(ring))
    BY <1>3, HeadElements DEF Dequeue, CollectorTypeOK
  <2>3. ToSet(held') = {Head(ring)} /\ ToSet(held) = {}
    <3>1. ToSet(<< >>) = {}
      BY DEF ToSet
    <3> QED
      BY <1>3, <3>1, OneElement DEF Dequeue
  <2>4. ring' = Tail(ring) /\ UNCHANGED <<wire, received, overflow>>
    BY <1>3 DEF Dequeue
  <2>5. OnTheWay \subseteq OnTheWay'
    BY <2>2, <2>3, <2>4 DEF OnTheWay
  <2> QED
    BY <2>1, <2>4, <2>5 DEF Accounted, Arrived
<1>4. ASSUME WriteFrame PROVE Sent' \subseteq Accounted'
  <2>1. Sent' = Sent /\ Sent \subseteq Accounted
    BY <1>0, <1>4 DEF WriteFrame, Sent
  <2>2. PICK p \in Pdus : held = <<p>>
    BY <1>4, HeldIsOne DEF WriteFrame
  <2>3. link \in Conns
    BY <1>4, CollectorAssumption DEF WriteFrame, CollectorTypeOK, Conns
  <2>4. wire[link] \in Seq(Pdus) /\ wire'[link] = wire[link] \o <<p>> /\ \A c \in Conns \ {link} : wire'[c] = wire[c]
    BY <1>4, <2>2, <2>3 DEF WriteFrame, CollectorTypeOK
  <2>5. ToSet(wire'[link]) = ToSet(wire[link]) \cup {p}
    <3>1. Extends(wire'[link], wire[link], p)
      BY <2>4 DEF Extends
    <3> QED
      BY <3>1, ExtendedElements
  <2>6. ToSet(held) = {p}
    BY <2>2, OneElement
  <2>7. UNCHANGED <<ring, received, overflow>>
    BY <1>4 DEF WriteFrame
  <2>8. \A c \in Conns : ToSet(wire[c]) \subseteq ToSet(wire'[c])
    BY <2>4, <2>5
  <2>9. OnTheWay \subseteq OnTheWay'
    BY <2>3, <2>5, <2>6, <2>7, <2>8 DEF OnTheWay
  <2> QED
    BY <2>1, <2>7, <2>9 DEF Accounted, Arrived
<1>5. ASSUME WriteLost \/ WriteFails PROVE FALSE
  <2>1. link \in 1 .. opened /\ link \notin whole /\ whole' = whole /\ opened' = opened
    BY <1>5, CollectorAssumption DEF CollectorTypeOK, WriteLost, WriteFails
  <2> QED
    BY <2>1
<1>6. ASSUME NEW c \in Conns, Break(c) PROVE FALSE
  <2>1. c \in 1 .. opened /\ c \notin whole' /\ opened' = opened
    BY <1>6 DEF CollectorTypeOK, Break
  <2> QED
    BY <2>1
<1>7. ASSUME NEW c \in Conns, CoreReads(c) PROVE Sent' \subseteq Accounted'
  <2> DEFINE h == Head(wire[c])
  <2>1. Sent' = Sent /\ Sent \subseteq Accounted
    BY <1>0, <1>7 DEF CoreReads, Sent
  <2>2. wire[c] \in Seq(Pdus) /\ wire[c] # << >> /\ wire'[c] = Tail(wire[c])
        /\ \A d \in Conns \ {c} : wire'[d] = wire[d]
    BY <1>7 DEF CoreReads, CollectorTypeOK
  <2>3. ToSet(wire[c]) \subseteq {h} \cup ToSet(wire'[c])
    BY <2>2, HeadElements
  <2>4. UNCHANGED <<ring, held, overflow>>
    BY <1>7 DEF CoreReads
  <2>5. Arrived \subseteq Arrived' /\ (h \in Malformed \/ h \in Arrived')
    <3>1. CASE h \in Malformed
      BY <1>7, <3>1 DEF CoreReads, Arrived
    <3>2. CASE h \notin Malformed
      <4>1. received' = Append(received, <<h, c>>)
        BY <1>7, <3>2 DEF CoreReads
      <4> HIDE DEF h
      <4>2. /\ Len(received) \in Nat /\ Len(received') = Len(received) + 1
            /\ received'[Len(received) + 1] = <<h, c>>
            /\ \A k \in 1 .. Len(received) : received'[k] = received[k]
        BY <4>1 DEF CollectorTypeOK
      <4>3. 1 .. Len(received') = (1 .. Len(received)) \cup {Len(received) + 1}
        BY <4>2
      <4>4. received'[Len(received) + 1][1] = h
        BY <4>2
      <4> QED
        BY <4>2, <4>3, <4>4 DEF Arrived
    <3> QED
      BY <3>1, <3>2
  <2> HIDE DEF h
  <2>6. \A d \in Conns : ToSet(wire[d]) \subseteq {h} \cup ToSet(wire'[d])
    BY <2>2, <2>3
  <2>7. OnTheWay \subseteq {h} \cup OnTheWay'
    BY <2>4, <2>6 DEF OnTheWay
  <2> QED
    BY <2>1, <2>4, <2>5, <2>7 DEF Accounted
<1>8. ASSUME UNCHANGED collectorVars PROVE Sent' \subseteq Accounted'
  BY <1>0, <1>8 DEF collectorVars, Sent, Accounted, Arrived, OnTheWay
<1> QED
  BY <1>1, <1>2, <1>3, <1>4, <1>5, <1>6, <1>7, <1>8 DEF CollectorNext

\* While no connection breaks, every PDU a speaker sent is received, on the way, unparsable,
\* or was refused by a full ring.
THEOREM LossOnlyByOverflowHolds == CollectorSpec => []LossOnlyByOverflow
<1>1. CollectorInit => LossOnlyByOverflow
  <2> SUFFICES ASSUME CollectorInit PROVE Sent = {}
    BY DEF LossOnlyByOverflow
  <2> SUFFICES ASSUME NEW p \in Pdus, p[2] <= sent[p[1]] PROVE FALSE
    BY DEF Sent
  <2>1. p[1] \in Speakers /\ p[2] \in 1 .. MaxPdus
    BY DEF Pdus
  <2>2. sent[p[1]] = 0
    BY <2>1 DEF CollectorInit
  <2> QED
    BY <2>1, <2>2, CollectorAssumption
<1> QED
  BY <1>1, LossStep, TypeCorrect, PTL DEF CollectorSpec
=============================================================================
