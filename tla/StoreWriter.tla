----------------------------- MODULE StoreWriter ----------------------------
(***************************************************************************)
(* The task that drives RibEvents into DuckDB:                             *)
(* crates/rbmp-store/src/writer.rs and duck.rs.                            *)
(*                                                                         *)
(* run_store_writer collects up to BATCH_SIZE events or what arrives       *)
(* within BATCH_TIMEOUT and flushes them in one transaction; a batch is    *)
(* never retried.  The store mutex is held for the whole flush, so it is   *)
(* one step for every reader.  The timeout is a step the writer may take   *)
(* whenever it has a batch.  A row is named by its event and its position  *)
(* among the rows of that event; columns are left out.                     *)
(***************************************************************************)
EXTENDS EventBus, FiniteSets

CONSTANTS
    MaxRows,    \* bound: rows of one event
    RowCount,   \* rows persist_one writes for an event of each kind
    FlushSize,  \* BATCH_SIZE
    MaxFailures   \* bound: failed flushes and crashes

ASSUME StoreAssumption ==
    /\ MaxRows \in Nat
    /\ RowCount \in [Kinds -> 0 .. MaxRows]
    /\ FlushSize \in Nat \ {0}
    /\ MaxFailures \in Nat

VARIABLES
    batch,      \* numbers of the events collected
    rows,       \* the tables
    open,       \* some sender of the channel is alive
    running,    \* run_store_writer has not returned
    lost,       \* history: events the writer skipped or failed to store
    failures      \* history: failed flushes and crashes so far

writerVars == <<bus, batch, rows, open, running, lost, failures>>

\* The rows of a set of events: persist_one writes nothing for End-of-RIB
RowsOf(E) == {r \in E \X (1 .. MaxRows) : r[2] <= RowCount[events[r[1]]]}

WriterInit ==
    /\ BusInit
    /\ batch = {} /\ rows = {}
    /\ open = TRUE /\ running = TRUE
    /\ lost = {} /\ failures = 0

-----------------------------------------------------------------------------
(* The channel *)

Publish(k) ==
    /\ open /\ Send(k)
    /\ UNCHANGED <<next, batch, rows, open, running, lost, failures>>

\* RibManager and every clone of its sender are dropped
Close ==
    /\ open
    /\ open' = FALSE
    /\ UNCHANGED <<bus, batch, rows, running, lost, failures>>

-----------------------------------------------------------------------------
(* run_store_writer *)

\* Mutant: the receiver is not advanced past the event
RecvAgain ==
    /\ running /\ CanRecv /\ Cardinality(batch) < FlushSize
    /\ batch' = batch \cup {next}
    /\ UNCHANGED <<bus, rows, open, running, lost, failures>>

Recv ==
    /\ running /\ CanRecv /\ Cardinality(batch) < FlushSize
    /\ batch' = batch \cup {next}
    /\ RecvNext
    /\ UNCHANGED <<rows, open, running, lost, failures>>

Lagged ==
    /\ running /\ Lagging /\ Cardinality(batch) < FlushSize
    /\ SkipLost
    /\ lost' = lost \cup next .. next' - 1
    /\ UNCHANGED <<batch, rows, open, running, failures>>

\* BEGIN, persist_one for every event, COMMIT
Committed == rows' = rows \cup RowsOf(batch) /\ UNCHANGED <<lost, failures>>

\* The lock is poisoned, BEGIN or COMMIT fails, or a failed statement aborts the
\* whole transaction: none of the rows stay
RolledBack ==
    /\ failures < MaxFailures
    /\ failures' = failures + 1
    /\ lost' = lost \cup batch /\ UNCHANGED rows

\* persist_one fails for event e after its first n rows, which stay
InsertFailed ==
    /\ failures < MaxFailures
    /\ \E e \in batch : \E n \in 0 .. RowCount[events[e]] - 1 :
         /\ rows' = rows \cup RowsOf(batch \ {e}) \cup {<<e, i>> : i \in 1 .. n}
         /\ lost' = lost \cup {e}
    /\ failures' = failures + 1

FlushBatch == Committed \/ RolledBack \/ InsertFailed

\* Mutant: no timeout, only full batches are flushed
FlushWhenFull ==
    /\ running /\ Cardinality(batch) >= FlushSize
    /\ FlushBatch
    /\ batch' = {}
    /\ UNCHANGED <<bus, open, running>>

\* The batch is full or the timeout fired
Flush ==
    /\ running /\ batch # {}
    /\ FlushBatch
    /\ batch' = {}
    /\ UNCHANGED <<bus, open, running>>

\* Mutant: the task returns without the last flush
ClosedWithoutFlush ==
    /\ running /\ ~open /\ Drained
    /\ Cardinality(batch) < FlushSize
    /\ batch' = {} /\ running' = FALSE
    /\ UNCHANGED <<bus, rows, open, lost, failures>>

\* The channel is closed and drained: flush what is left and return
Closed ==
    /\ running /\ ~open /\ Drained
    /\ Cardinality(batch) < FlushSize
    /\ IF batch = {} THEN UNCHANGED <<rows, lost, failures>> ELSE FlushBatch
    /\ batch' = {} /\ running' = FALSE
    /\ UNCHANGED <<bus, open>>

\* The process dies and is restarted: the tables survive, the channel and the
\* batch do not
Crash ==
    /\ failures < MaxFailures
    /\ failures' = failures + 1
    /\ batch' = {} /\ Subscribe
    /\ open' = TRUE /\ running' = TRUE
    /\ lost' = lost \cup batch \cup next .. LastEvent
    /\ UNCHANGED rows

WriterStep == Recv \/ Lagged \/ Flush \/ Closed

WriterNext ==
    \/ \E k \in Kinds : Publish(k)
    \/ Close
    \/ WriterStep
    \/ Crash

\* The runtime keeps polling the writer task, and its timer fires
WriterSpec == WriterInit /\ [][WriterNext]_writerVars /\ WF_writerVars(WriterStep)

-----------------------------------------------------------------------------
(* Properties *)

\* Variables have their types; a batch holds at most BATCH_SIZE events, and it
\* and the tables hold received events only.
WriterTypeOK ==
    /\ BusTypeOK
    /\ batch \subseteq 1 .. next - 1 /\ Cardinality(batch) <= FlushSize
    /\ rows \subseteq RowsOf(1 .. next - 1)
    /\ open \in BOOLEAN /\ running \in BOOLEAN
    /\ lost \subseteq 1 .. next - 1
    /\ failures \in 0 .. MaxFailures

\* Every event received is in the tables with all its rows or waits in the batch, but for
\* those of a flush that failed, the one event persist_one failed for, and what a lagging or
\* restarted receiver skipped: behind a gap or a failure the writer goes on, also in the last
\* flush of Closed.
OnlyLostIsMissing == RowsOf((1 .. next - 1) \ lost) \subseteq rows \cup RowsOf(batch)

\* Events that wait in the batch have no rows yet, and none of them is older
\* than an event that has rows: what a flush adds is newer than the tables.
BatchIsNewest == \A e \in batch, r \in rows : r[1] < e

\* The timeout flushes a batch however slowly events arrive, so a writer that
\* runs always ends up with everything received flushed.
EverythingIsFlushed == <>[](batch = {} /\ (running => Drained))

\* The writer implements LossyLog: events that wait in the batch are unsettled.
WriterSettled == IF batch = {} THEN next - 1
           ELSE (CHOOSE e \in batch : \A f \in batch : e <= f) - 1

WriterLog == INSTANCE LossyLog WITH published <- LastEvent, settled <- WriterSettled, sink <- rows

\* Every step of the writer settles events in order, once, and never invents a
\* row (flush_batch, Lagged and a restart only ever drop events).
ImplementsLossyLog == WriterLog!LogSpec
=============================================================================
