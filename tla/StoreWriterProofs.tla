------------------------- MODULE StoreWriterProofs --------------------------
(***************************************************************************)
(* The store writer keeps its invariants and implements LossyLog for every *)
(* channel capacity, batch size, kind of event and number of failures.     *)
(***************************************************************************)
EXTENDS StoreWriter, FiniteSetTheorems, WellFoundedInduction, TLAPS

\* The rows of a set of events, element by element
LEMMA RowsOfElement ==
    ASSUME NEW E, NEW r
    PROVE  r \in RowsOf(E) <=> /\ r \in E \X (1 .. MaxRows)
                               /\ r[2] <= RowCount[events[r[1]]]
BY DEF RowsOf

\* More events have more rows.
LEMMA RowsOfMonotone ==
    ASSUME NEW E, NEW F, E \subseteq F
    PROVE  RowsOf(E) \subseteq RowsOf(F)
BY RowsOfElement

\* A batch is finite, and one more event adds one
LEMMA BatchFinite ==
    ASSUME WriterTypeOK
    PROVE  /\ IsFiniteSet(batch)
           /\ Cardinality(batch) \in Nat
           /\ Cardinality(batch \cup {next}) = Cardinality(batch) + 1
<1>1. next - 1 \in Int /\ 1 \in Int
  BY DEF WriterTypeOK, BusTypeOK, LastEvent
<1>2. IsFiniteSet(1 .. next - 1)
  BY <1>1, FS_Interval
<1>3. IsFiniteSet(batch)
  BY <1>2, FS_Subset DEF WriterTypeOK
<1>4. next \notin batch
  BY DEF WriterTypeOK, BusTypeOK, LastEvent
<1> QED
  BY <1>3, <1>4, FS_AddElement, FS_CardinalityType

\* An empty batch has no rows to write.
LEMMA EmptyBatch ==
    Cardinality({}) = 0 /\ RowsOf({}) = {}
BY FS_EmptySet DEF RowsOf

\* What a flush may add to the tables: rows of the batch
LEMMA FlushAddsRowsOfBatch ==
    ASSUME WriterTypeOK, FlushBatch
    PROVE  /\ rows \subseteq rows'
           /\ rows' \subseteq rows \cup RowsOf(batch)
           /\ lost \subseteq lost' /\ lost' \subseteq lost \cup batch /\ failures' \in 0 .. MaxFailures
           /\ RowsOf(batch \ lost') \subseteq rows'
<1>1. CASE Committed
  <2>1. RowsOf(batch \ lost') \subseteq RowsOf(batch)
    BY RowsOfMonotone
  <2> QED
    BY <1>1, <2>1 DEF Committed, WriterTypeOK
<1>2. CASE RolledBack
  <2>1. rows' = rows /\ failures' \in 0 .. MaxFailures
    BY <1>2, StoreAssumption DEF RolledBack, WriterTypeOK
  <2>2. lost' = lost \cup batch
    BY <1>2 DEF RolledBack
  <2>3. RowsOf(batch \ lost') = {}
    BY <2>2 DEF RowsOf
  <2> QED
    BY <2>1, <2>2, <2>3
<1>3. CASE InsertFailed
  <2>0. PICK e \in batch : \E n \in 0 .. RowCount[events[e]] - 1 :
            /\ rows' = rows \cup RowsOf(batch \ {e}) \cup {<<e, i>> : i \in 1 .. n}
            /\ lost' = lost \cup {e}
    BY <1>3 DEF InsertFailed
  <2>1. PICK n \in 0 .. RowCount[events[e]] - 1 :
            /\ rows' = rows \cup RowsOf(batch \ {e}) \cup {<<e, i>> : i \in 1 .. n}
            /\ lost' = lost \cup {e}
    BY <2>0
  <2>2. RowsOf(batch \ {e}) \subseteq RowsOf(batch)
    BY RowsOfMonotone
  <2>3. events[e] \in Kinds
    BY DEF WriterTypeOK, BusTypeOK, LastEvent
  <2>4. RowCount[events[e]] \in 0 .. MaxRows /\ MaxRows \in Nat
    BY <2>3, StoreAssumption
  <2>5. {<<e, i>> : i \in 1 .. n} \subseteq RowsOf(batch)
    <3>1. SUFFICES ASSUME NEW i \in 1 .. n
                   PROVE  <<e, i>> \in RowsOf(batch)
      OBVIOUS
    <3>2. i \in 1 .. MaxRows /\ i <= RowCount[events[e]]
      BY <2>4
    <3> QED
      BY <3>2 DEF RowsOf
  <2> QED
    <3>1. failures' \in 0 .. MaxFailures
      BY <1>3, StoreAssumption DEF InsertFailed, WriterTypeOK
    <3>2. RowsOf(batch \ lost') \subseteq RowsOf(batch \ {e})
      <4>1. batch \ lost' \subseteq batch \ {e}
        BY <2>1
      <4> QED
        BY <4>1, RowsOfMonotone
    <3> QED
      BY <2>1, <2>2, <2>5, <3>1, <3>2
<1> QED
  BY <1>1, <1>2, <1>3 DEF FlushBatch

-----------------------------------------------------------------------------
(* Type correctness *)

\* Rows of received events stay rows of received events when next advances
LEMMA RowsStayReceived ==
    ASSUME WriterTypeOK, NEW m \in Nat, next <= m
    PROVE  rows \subseteq RowsOf(1 .. m - 1)
<1>1. 1 .. next - 1 \subseteq 1 .. m - 1
  BY DEF WriterTypeOK, BusTypeOK, LastEvent
<1> QED
  BY <1>1, RowsOfMonotone DEF WriterTypeOK

\* Every step keeps the types.
LEMMA TypeStep ==
    ASSUME WriterTypeOK, [WriterNext]_writerVars
    PROVE  WriterTypeOK'
<1> USE BusAssumption, StoreAssumption
<1>0. /\ next \in Nat /\ LastEvent \in Nat /\ next <= LastEvent + 1
      /\ batch \subseteq 1 .. LastEvent /\ 1 .. next - 1 \subseteq 1 .. LastEvent
  BY DEF WriterTypeOK, BusTypeOK, LastEvent
<1>1. ASSUME NEW k \in Kinds, Publish(k)
      PROVE  WriterTypeOK'
  <2>1. BusTypeOK'
    BY <1>1 DEF Publish, Send, WriterTypeOK, BusTypeOK, LastEvent
  <2>2. RowsOf(1 .. next - 1)' = RowsOf(1 .. next - 1)
    <3>1. \A e \in 1 .. LastEvent : events'[e] = events[e]
      BY <1>1 DEF Publish, Send, WriterTypeOK, BusTypeOK, LastEvent
    <3> QED
      BY <1>0, <1>1, <3>1 DEF Publish, RowsOf
  <2> QED
    BY <1>1, <2>1, <2>2 DEF Publish, WriterTypeOK
<1>2. CASE Close
  <2>1. BusTypeOK' /\ RowsOf(1 .. next - 1)' = RowsOf(1 .. next - 1)
    BY <1>2 DEF Close, WriterTypeOK, BusTypeOK, bus, LastEvent, RowsOf
  <2>2. open' \in BOOLEAN
    BY <1>2 DEF Close
  <2> QED
    BY <1>2, <2>1, <2>2 DEF Close, WriterTypeOK, bus
<1>3. CASE Recv
  <2>1. BusTypeOK'
    BY <1>3 DEF Recv, RecvNext, CanRecv, WriterTypeOK, BusTypeOK, LastEvent
  <2>2. batch' \subseteq 1 .. next' - 1
    BY <1>3 DEF Recv, RecvNext, WriterTypeOK, BusTypeOK, LastEvent
  <2>3. Cardinality(batch') <= FlushSize
    BY <1>3, BatchFinite DEF Recv
  <2>4. rows \subseteq RowsOf(1 .. next - 1)'
    <3>1. rows \subseteq RowsOf(1 .. (next + 1) - 1)
      BY <1>0, RowsStayReceived
    <3> QED
      BY <1>3, <3>1 DEF Recv, RecvNext, RowsOf
  <2>5. lost' \subseteq 1 .. next' - 1
    BY <1>0, <1>3 DEF Recv, RecvNext, WriterTypeOK
  <2> QED
    BY <1>3, <2>1, <2>2, <2>3, <2>4, <2>5 DEF Recv, WriterTypeOK
<1>4. CASE Lagged
  <2>1. BusTypeOK'
    BY <1>4 DEF Lagged, SkipLost, Lagging, WriterTypeOK, BusTypeOK, LastEvent
  <2>2. batch' \subseteq 1 .. next' - 1
    BY <1>4 DEF Lagged, SkipLost, Lagging, WriterTypeOK, BusTypeOK, LastEvent
  <2>3. rows \subseteq RowsOf(1 .. next - 1)'
    <3>1. LastEvent - Cap + 1 \in Nat /\ next <= LastEvent - Cap + 1
      BY <1>0, <1>4 DEF Lagged, Lagging
    <3>2. rows \subseteq RowsOf(1 .. (LastEvent - Cap + 1) - 1)
      BY <3>1, RowsStayReceived
    <3> QED
      BY <1>4, <3>2 DEF Lagged, SkipLost, RowsOf
  <2>4. lost' \subseteq 1 .. next' - 1
    <3>1. /\ lost \subseteq 1 .. next - 1 /\ next' = LastEvent - Cap + 1 /\ next <= LastEvent - Cap
          /\ lost' = lost \cup next .. next' - 1 /\ next >= 1 /\ Cap \in Nat
      BY <1>4 DEF Lagged, SkipLost, Lagging, WriterTypeOK, BusTypeOK
    <3> QED
      BY <1>0, <3>1
  <2> QED
    BY <1>4, <2>1, <2>2, <2>3, <2>4 DEF Lagged, WriterTypeOK
<1>5. ASSUME FlushBatch, batch' = {}, UNCHANGED bus, open' \in BOOLEAN, running' \in BOOLEAN
      PROVE  WriterTypeOK'
  <2>1. BusTypeOK' /\ RowsOf(1 .. next - 1)' = RowsOf(1 .. next - 1)
    BY <1>5 DEF WriterTypeOK, BusTypeOK, bus, LastEvent, RowsOf
  <2>2. RowsOf(batch) \subseteq RowsOf(1 .. next - 1)
    <3>1. batch \subseteq 1 .. next - 1
      BY DEF WriterTypeOK
    <3> QED
      BY <3>1, RowsOfMonotone
  <2>3. Cardinality(batch') <= FlushSize
    BY <1>5, EmptyBatch
  <2> QED
    BY <1>5, <2>1, <2>2, <2>3, FlushAddsRowsOfBatch DEF WriterTypeOK, bus
<1>6. CASE Flush
  BY <1>5, <1>6 DEF Flush, WriterTypeOK
<1>7. CASE Closed
  <2>1. CASE batch = {}
    <3>1. running' \in BOOLEAN
      BY <1>7 DEF Closed
    <3>2. BusTypeOK' /\ RowsOf(1 .. next - 1)' = RowsOf(1 .. next - 1)
      BY <1>7 DEF Closed, WriterTypeOK, BusTypeOK, bus, LastEvent, RowsOf
    <3> QED
      BY <1>7, <2>1, <3>1, <3>2 DEF Closed, WriterTypeOK, bus
  <2>2. CASE batch # {}
    BY <1>5, <1>7, <2>2 DEF Closed, WriterTypeOK
  <2> QED
    BY <2>1, <2>2
<1>8. CASE Crash
  <2>1. BusTypeOK'
    BY <1>8 DEF Crash, Subscribe, WriterTypeOK, BusTypeOK, LastEvent
  <2>2. Cardinality(batch') <= FlushSize
    BY <1>8, EmptyBatch DEF Crash
  <2>3. open' \in BOOLEAN /\ running' \in BOOLEAN /\ lost' \subseteq 1 .. next' - 1
    <3>1. /\ lost' = lost \cup batch \cup next .. LastEvent /\ next' = LastEvent + 1
          /\ lost \subseteq 1 .. next - 1 /\ next >= 1
      BY <1>8 DEF Crash, Subscribe, WriterTypeOK, BusTypeOK
    <3>2. lost' \subseteq 1 .. next' - 1
      BY <1>0, <3>1
    <3> QED
      BY <1>8, <3>2 DEF Crash
  <2>4. batch' \subseteq 1 .. next' - 1 /\ failures' \in 0 .. MaxFailures
    BY <1>8 DEF Crash, WriterTypeOK
  <2>5. rows' \subseteq RowsOf(1 .. next - 1)'
    <3>1. rows \subseteq RowsOf(1 .. (LastEvent + 1) - 1)
      BY <1>0, RowsStayReceived
    <3> QED
      BY <1>8, <3>1 DEF Crash, Subscribe, RowsOf
  <2> QED
    BY <2>1, <2>2, <2>3, <2>4, <2>5 DEF WriterTypeOK
<1>9. CASE UNCHANGED writerVars
  <2>1. BusTypeOK' /\ RowsOf(1 .. next - 1)' = RowsOf(1 .. next - 1)
    BY <1>9 DEF writerVars, WriterTypeOK, BusTypeOK, bus, LastEvent, RowsOf
  <2> QED
    BY <1>9, <2>1 DEF writerVars, WriterTypeOK, bus
<1> QED
  BY <1>1, <1>2, <1>3, <1>4, <1>6, <1>7, <1>8, <1>9 DEF WriterNext, WriterStep

\* Variables keep their types, and a batch never exceeds BATCH_SIZE, for every
\* capacity of the channel and every number of failed flushes and crashes.
THEOREM TypeCorrect == WriterSpec => []WriterTypeOK
<1>1. WriterInit => WriterTypeOK
  BY EmptyBatch, BusAssumption, StoreAssumption
  DEF WriterInit, BusInit, WriterTypeOK, BusTypeOK, LastEvent
<1> QED
  BY <1>1, TypeStep, PTL DEF WriterSpec

-----------------------------------------------------------------------------
(* Completeness and order of the history *)

\* Every row belongs to an event that was received
LEMMA RowsReceived ==
    ASSUME WriterTypeOK, NEW r \in rows
    PROVE  r[1] \in 1 .. next - 1
<1>1. r \in RowsOf(1 .. next - 1)
  BY DEF WriterTypeOK
<1> QED
  BY <1>1 DEF RowsOf

\* While no event is published, fewer events have fewer rows
LEMMA KeptRows ==
    ASSUME UNCHANGED <<events, batch, rows>>, OnlyLostIsMissing,
           (1 .. next' - 1) \ lost' \subseteq (1 .. next - 1) \ lost
    PROVE  OnlyLostIsMissing'
BY DEF OnlyLostIsMissing, RowsOf

\* The batch stays newer than the tables, and tables and batch together stay complete but
\* for what was lost.
LEMMA HistoryStep ==
    ASSUME WriterTypeOK, OnlyLostIsMissing, BatchIsNewest, [WriterNext]_writerVars
    PROVE  OnlyLostIsMissing' /\ BatchIsNewest'
<1> USE BusAssumption, StoreAssumption
<1>0. /\ next \in Nat /\ LastEvent \in Nat /\ next <= LastEvent + 1
      /\ batch \subseteq 1 .. LastEvent /\ 1 .. next - 1 \subseteq 1 .. LastEvent
  BY DEF WriterTypeOK, BusTypeOK, LastEvent
<1>1. ASSUME NEW k \in Kinds, Publish(k)
      PROVE  OnlyLostIsMissing' /\ BatchIsNewest'
  <2>1. \A e \in 1 .. LastEvent : events'[e] = events[e]
    BY <1>1 DEF Publish, Send, WriterTypeOK, BusTypeOK, LastEvent
  <2>2. RowsOf(batch)' = RowsOf(batch)
    BY <1>0, <1>1, <2>1 DEF Publish, RowsOf
  <2>3. RowsOf((1 .. next - 1) \ lost)' = RowsOf((1 .. next - 1) \ lost)
    BY <1>0, <1>1, <2>1 DEF Publish, RowsOf
  <2> QED
    BY <1>1, <2>2, <2>3 DEF Publish, OnlyLostIsMissing, BatchIsNewest
<1>2. CASE Close
  <2>1. RowsOf(batch)' = RowsOf(batch) /\ RowsOf((1 .. next - 1) \ lost)' = RowsOf((1 .. next - 1) \ lost)
    BY <1>2 DEF Close, RowsOf, bus
  <2> QED
    BY <1>2, <2>1 DEF Close, OnlyLostIsMissing, BatchIsNewest
<1>3. CASE Recv
  <2>1. RowsOf(batch)' = RowsOf(batch) \cup RowsOf({next})
    BY <1>3 DEF Recv, RecvNext, RowsOf
  <2>2. 1 .. next' - 1 = (1 .. next - 1) \cup {next}
    BY <1>0, <1>3 DEF Recv, RecvNext, WriterTypeOK, BusTypeOK
  <2>3. RowsOf((1 .. next - 1) \ lost)' \subseteq RowsOf((1 .. next - 1) \ lost) \cup RowsOf({next})
    BY <1>3, <2>2 DEF Recv, RecvNext, RowsOf
  <2>4. OnlyLostIsMissing'
    BY <1>3, <2>1, <2>3 DEF Recv, OnlyLostIsMissing
  <2>5. \A r \in rows : r[1] < next
    BY <1>0, RowsReceived
  <2> QED
    BY <1>3, <2>4, <2>5 DEF Recv, BatchIsNewest
<1>4. CASE Lagged
  <2>1. (1 .. next' - 1) \ lost' \subseteq (1 .. next - 1) \ lost
    BY <1>0, <1>4 DEF Lagged, SkipLost, Lagging
  <2> QED
    BY <1>4, <2>1, KeptRows DEF Lagged, SkipLost, OnlyLostIsMissing, BatchIsNewest
<1>5. ASSUME FlushBatch, batch' = {}, UNCHANGED bus
      PROVE  OnlyLostIsMissing' /\ BatchIsNewest'
  <2>1. RowsOf(batch)' = {} /\ RowsOf((1 .. next - 1) \ lost)' = RowsOf((1 .. next - 1) \ lost')
    BY <1>5 DEF RowsOf, bus
  <2>2. RowsOf((1 .. next - 1) \ lost') \subseteq rows'
    <3>1. SUFFICES ASSUME NEW r \in RowsOf((1 .. next - 1) \ lost') PROVE r \in rows'
      OBVIOUS
    <3>2. r \in RowsOf((1 .. next - 1) \ lost)
      BY <3>1, FlushAddsRowsOfBatch, <1>5, RowsOfMonotone
    <3>3. CASE r \in rows
      BY <1>5, <3>3, FlushAddsRowsOfBatch
    <3>4. CASE r \in RowsOf(batch)
      <4>1. r \in RowsOf(batch \ lost')
        BY <3>1, <3>4, RowsOfElement
      <4> QED
        BY <1>5, <4>1, FlushAddsRowsOfBatch
    <3> QED
      BY <3>2, <3>3, <3>4 DEF OnlyLostIsMissing
  <2> QED
    BY <1>5, <2>1, <2>2 DEF OnlyLostIsMissing, BatchIsNewest
<1>6. CASE Flush
  BY <1>5, <1>6 DEF Flush
<1>7. CASE Closed
  <2>1. CASE batch = {}
    <3>1. RowsOf(batch)' = RowsOf(batch) /\ RowsOf((1 .. next - 1) \ lost)' = RowsOf((1 .. next - 1) \ lost)
      BY <1>7, <2>1 DEF Closed, RowsOf, bus
    <3> QED
      BY <1>7, <2>1, <3>1 DEF Closed, OnlyLostIsMissing, BatchIsNewest
  <2>2. CASE batch # {}
    BY <1>5, <1>7, <2>2 DEF Closed
  <2> QED
    BY <2>1, <2>2
<1>8. CASE Crash
  <2>1. RowsOf((1 .. next - 1) \ lost)' \subseteq rows
    <3>1. SUFFICES ASSUME NEW r \in RowsOf((1 .. next - 1) \ lost)' PROVE r \in rows
      OBVIOUS
    <3>2. /\ r \in ((1 .. LastEvent) \ lost') \X (1 .. MaxRows) /\ r[2] <= RowCount[events[r[1]]]
          /\ r[1] \in (1 .. next - 1) \ lost /\ r[1] \notin batch
      BY <1>0, <1>8, <3>1 DEF Crash, Subscribe, RowsOf
    <3>3. r \in RowsOf((1 .. next - 1) \ lost) /\ r \notin RowsOf(batch)
      BY <3>2 DEF RowsOf
    <3> QED
      BY <3>3 DEF OnlyLostIsMissing
  <2> QED
    BY <1>8, <2>1 DEF Crash, OnlyLostIsMissing, BatchIsNewest
<1>9. CASE UNCHANGED writerVars
  <2>1. RowsOf(batch)' = RowsOf(batch) /\ RowsOf((1 .. next - 1) \ lost)' = RowsOf((1 .. next - 1) \ lost)
    BY <1>9 DEF writerVars, RowsOf, bus
  <2> QED
    BY <1>9, <2>1 DEF writerVars, OnlyLostIsMissing, BatchIsNewest
<1> QED
  BY <1>1, <1>2, <1>3, <1>4, <1>6, <1>7, <1>8, <1>9 DEF WriterNext, WriterStep

\* Nothing is stored or received in the beginning.
LEMMA HistoryInit == WriterInit => OnlyLostIsMissing /\ BatchIsNewest
<1>1. ASSUME WriterInit PROVE RowsOf(1 .. next - 1) = {} /\ RowsOf(batch) = {}
  BY <1>1 DEF WriterInit, BusInit, RowsOf
<1> QED
  BY <1>1 DEF WriterInit, OnlyLostIsMissing, BatchIsNewest

\* run_store_writer: whatever it lost before, the writer has stored or still holds every row
\* of every other event it received.
THEOREM OnlyLostIsMissingHolds == WriterSpec => []OnlyLostIsMissing
BY HistoryInit, TypeCorrect, HistoryStep, PTL DEF WriterSpec

\* flush_batch: whatever was lost, events waiting in the batch are newer than
\* every row of the tables.
THEOREM BatchIsNewestHolds == WriterSpec => []BatchIsNewest
BY HistoryInit, TypeCorrect, HistoryStep, PTL DEF WriterSpec

-----------------------------------------------------------------------------
(* The writer implements LossyLog *)

\* A nonempty set of numbers has a least one.
LEMMA LeastElement ==
    ASSUME NEW S, S \subseteq Nat, S # {}
    PROVE  \E e \in S : \A f \in S : e <= f
<1>1. PICK e \in S : \A f \in S : ~(<<f, e>> \in OpToRel(<, Nat))
  BY NatLessThanWellFounded, WFMin
<1>2. \A f \in S : ~(f < e)
  BY <1>1 DEF OpToRel
<1> QED
  BY <1>2

\* WriterSettled stands just below the oldest event of the batch
SettledBelowBatch ==
    /\ WriterSettled \in 0 .. next - 1
    /\ batch = {} => WriterSettled = next - 1
    /\ \A e \in batch : WriterSettled < e
    /\ batch # {} => WriterSettled + 1 \in batch

\* WriterSettled events are the received ones before the batch.
LEMMA SettledMeaning == WriterTypeOK => SettledBelowBatch
<1> SUFFICES ASSUME WriterTypeOK PROVE SettledBelowBatch
  OBVIOUS
<1> USE DEF SettledBelowBatch
<1>0. next \in Nat \ {0} /\ batch \subseteq 1 .. next - 1
  BY DEF WriterTypeOK, BusTypeOK, LastEvent
<1>1. CASE batch = {}
  BY <1>0, <1>1 DEF WriterSettled
<1>2. CASE batch # {}
  <2>1. \E e \in batch : \A f \in batch : e <= f
    <3>1. batch \subseteq Nat
      BY <1>0
    <3> QED
      BY <1>2, <3>1, LeastElement
  <2> DEFINE m == CHOOSE e \in batch : \A f \in batch : e <= f
  <2>2. m \in batch /\ \A f \in batch : m <= f
    BY <2>1
  <2>3. WriterSettled = m - 1
    BY <1>2 DEF WriterSettled
  <2> HIDE DEF m
  <2> QED
    BY <1>0, <1>2, <2>2, <2>3
<1> QED
  BY <1>1, <1>2

\* Arithmetic of a step that moves settled from a to n - 1
LEMMA SettleRange ==
    ASSUME NEW a \in Int, NEW b \in Int, NEW m \in Int, NEW n \in Int, NEW l \in Int,
           a <= m - 1, m <= n, n <= l + 1, b = n - 1, b # a
    PROVE  /\ b \in a + 1 .. l
           /\ \A e \in 1 .. m - 1 : a < e => e \in a + 1 .. b
OBVIOUS

\* Every step of the writer is a step of the log or leaves it alone
LEMMA LogStep ==
    ASSUME WriterTypeOK, WriterTypeOK', [WriterNext]_writerVars
    PROVE  [WriterLog!LogNext]_(WriterLog!logVars)
<1> USE BusAssumption, StoreAssumption
<1> USE DEF WriterLog!LogNext, WriterLog!logVars, SettledBelowBatch
<1>0. /\ next \in Nat \ {0} /\ next' \in Nat \ {0} /\ LastEvent \in Nat
      /\ next <= LastEvent + 1 /\ next' <= LastEvent' + 1
      /\ batch \subseteq 1 .. next - 1
  BY DEF WriterTypeOK, BusTypeOK, LastEvent
<1>a. SettledBelowBatch
  BY SettledMeaning
<1>b. SettledBelowBatch'
  BY SettledMeaning, PTL
<1>1. ASSUME NEW k \in Kinds, Publish(k)
      PROVE  WriterLog!LogPublish
  <2>1. LastEvent' = LastEvent + 1
    BY <1>1 DEF Publish, Send, WriterTypeOK, BusTypeOK, LastEvent
  <2>2. WriterSettled' = WriterSettled /\ rows' = rows
    BY <1>1 DEF Publish, WriterSettled
  <2> QED
    BY <2>1, <2>2 DEF WriterLog!LogPublish
<1>2. CASE Close \/ UNCHANGED writerVars
  <2>1. batch' = batch /\ next' = next /\ events' = events /\ rows' = rows
    BY <1>2 DEF Close, writerVars, bus
  <2>2. WriterSettled' = WriterSettled /\ LastEvent' = LastEvent
    BY <2>1 DEF WriterSettled, LastEvent
  <2> QED
    BY <2>1, <2>2
<1>3. CASE Recv
  <2>1. LastEvent' = LastEvent /\ rows' = rows /\ batch' = batch \cup {next} /\ next' = next + 1
    BY <1>3 DEF Recv, RecvNext, LastEvent
  <2>2. WriterSettled' = WriterSettled
    <3>1. WriterSettled + 1 \in batch' /\ \A e \in batch' : WriterSettled < e
      BY <1>0, <1>a, <2>1
    <3>2. WriterSettled' < WriterSettled + 1 /\ WriterSettled' + 1 \in batch'
      BY <1>b, <3>1
    <3>3. WriterSettled \in Int /\ WriterSettled' \in Int
      BY <1>0, <1>a, <1>b
    <3> QED
      BY <3>1, <3>2, <3>3
  <2> QED
    BY <2>1, <2>2
<1>4. ASSUME LastEvent' = LastEvent, next <= next', batch' = batch \/ batch' = {},
             rows \subseteq rows', \A r \in rows' \ rows : r[1] \in batch,
             batch' # {} => rows' = rows
      PROVE  WriterLog!Settle \/ UNCHANGED WriterLog!logVars
  <2>1. CASE batch' # {}
    <3>0. batch' = batch /\ batch # {}
      BY <1>4, <2>1
    <3>1. WriterSettled' = WriterSettled
      BY <3>0 DEF WriterSettled
    <3> QED
      BY <1>4, <2>1, <3>1
  <2>2. CASE batch' = {} /\ WriterSettled' = WriterSettled
    <3>1. batch = {}
      BY <1>0, <1>4, <1>a, <1>b, <2>2
    <3> QED
      BY <1>4, <2>2, <3>1
  <2>3. CASE batch' = {} /\ WriterSettled' # WriterSettled
    <3>1. WriterSettled' = next' - 1
      BY <1>b, <2>3
    <3>2. WriterSettled \in Int /\ WriterSettled <= next - 1 /\ next <= next' /\ next' <= LastEvent + 1
      BY <1>0, <1>4, <1>a
    <3>3. next' \in Int /\ next \in Int /\ LastEvent \in Int /\ WriterSettled' \in Int
      BY <1>0, <3>1
    <3>4. /\ WriterSettled' \in WriterSettled + 1 .. LastEvent
          /\ \A e \in 1 .. next - 1 : WriterSettled < e => e \in WriterSettled + 1 .. WriterSettled'
      BY <2>3, <3>1, <3>2, <3>3, SettleRange
    <3>5. \A r \in rows' \ rows : r[1] \in WriterSettled + 1 .. WriterSettled'
      BY <1>0, <1>4, <1>a, <3>4
    <3> QED
      BY <1>4, <3>4, <3>5 DEF WriterLog!Settle
  <2> QED
    BY <2>1, <2>2, <2>3
<1>5. CASE Lagged
  <2>1. LastEvent' = LastEvent /\ next <= next' /\ batch' = batch /\ rows' = rows
    BY <1>0, <1>5 DEF Lagged, Lagging, SkipLost, LastEvent
  <2> QED
    BY <1>4, <2>1
<1>6. CASE FlushBatch /\ batch' = {} /\ UNCHANGED bus
  <2>1. LastEvent' = LastEvent /\ next' = next
    BY <1>6 DEF bus, LastEvent
  <2>2. rows \subseteq rows' /\ rows' \subseteq rows \cup RowsOf(batch)
    BY <1>6, FlushAddsRowsOfBatch
  <2>3. \A r \in RowsOf(batch) : r[1] \in batch
    BY DEF RowsOf
  <2> QED
    BY <1>0, <1>4, <1>6, <2>1, <2>2, <2>3
<1>7. CASE Flush
  BY <1>6, <1>7 DEF Flush
<1>8. CASE Closed
  <2>1. CASE batch = {}
    BY <1>8, <2>1 DEF Closed, bus, WriterSettled, LastEvent
  <2>2. CASE batch # {}
    BY <1>6, <1>8, <2>2 DEF Closed
  <2> QED
    BY <2>1, <2>2
<1>9. CASE Crash
  <2>1. LastEvent' = LastEvent /\ next <= next' /\ batch' = {} /\ rows' = rows
    BY <1>0, <1>9 DEF Crash, Subscribe, LastEvent
  <2> QED
    BY <1>4, <2>1
<1> QED
  BY <1>1, <1>2, <1>3, <1>5, <1>7, <1>8, <1>9 DEF WriterNext, WriterStep

\* The store writer implements LossyLog: it settles every event once and in
\* order, and adds no row for an event settled before or not yet published.
THEOREM WriterImplementsLossyLog == WriterSpec => ImplementsLossyLog
<1>1. WriterInit => WriterLog!LogInit
  BY DEF WriterInit, BusInit, WriterLog!LogInit, LastEvent, WriterSettled
<1> QED
  BY <1>1, TypeCorrect, LogStep, PTL DEF WriterSpec, ImplementsLossyLog, WriterLog!LogSpec
=============================================================================
