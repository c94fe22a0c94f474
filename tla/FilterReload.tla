---------------------------- MODULE FilterReload ----------------------------
(***************************************************************************)
(* How a filter file reaches the RIB: the watcher of                       *)
(* crates/rbmp-server/src/filter_watcher.rs (an OS thread that relays      *)
(* notifications, and a task that reloads), POST /api/filters/reload of    *)
(* api/filters.rs and POST /api/onboard/{addr}/filter of api/onboard.rs.   *)
(*                                                                         *)
(* All of them first build an engine and then wait for the write lock of   *)
(* the RIB, so what was read may be old when it is installed.  The file    *)
(* watched is the one the endpoint reads (config/filters.yaml); a content  *)
(* is opaque here: it loads or it does not.                                *)
(***************************************************************************)
EXTENDS Integers

CONSTANTS
    Contents,   \* what the filter file may hold
    Loadable,   \* the contents load_file accepts
    Missing,    \* no file at the path
    NoEngine,   \* RibManager.filter = None
    Calls,      \* calls of the reload endpoint that may be under way at once
    QueueCap,   \* capacity of the channel to the task: 8
    MaxNotes    \* bound on the notifications waiting in the OS thread's channel

ASSUME ContentAssumption ==
    /\ Loadable \subseteq Contents
    /\ Missing \notin Contents
    /\ NoEngine \notin Contents

ASSUME CapAssumption == QueueCap \in Nat \ {0} /\ MaxNotes \in Nat \ {0}

Nothing == [held |-> FALSE, engine |-> NoEngine, old |-> FALSE]
Loaded(c) == [held |-> TRUE, engine |-> c, old |-> FALSE]
Hands == [held : BOOLEAN, engine : Loadable \cup {NoEngine}, old : BOOLEAN]

VARIABLES
    file,       \* what is at the path
    thread,     \* OS thread: "start", "signal", "relay" or "gone"
    notes,      \* notifications in the thread's channel
    queue,      \* signals in the task's channel
    hand,       \* the engine the task holds while it waits for the lock
    calls,      \* the same for each call of the endpoint
    engine,     \* RibManager.filter
    foreign     \* the engine in force was posted, or a call had read it from the
                \* file before the file's last write

reloadVars == <<file, thread, notes, queue, hand, calls, engine, foreign>>

ReloadInit ==
    /\ file \in Contents \cup {Missing}
    /\ thread = "start" /\ notes = 0 /\ queue = 0
    /\ hand = Nothing /\ calls = [k \in Calls |-> Nothing]
    /\ engine = NoEngine /\ foreign = FALSE

-----------------------------------------------------------------------------
(* The file *)

Aged(h) == IF h.held THEN [h EXCEPT !.old = TRUE] ELSE h

\* Somebody writes the file: a watched file reports a Modify or Create event
WriteFile(c) ==
    /\ notes < MaxNotes
    /\ file' = c
    /\ notes' = IF thread \in {"signal", "relay"} THEN notes + 1 ELSE notes
    /\ calls' = [k \in Calls |-> Aged(calls[k])]
    /\ UNCHANGED <<thread, queue, hand, engine, foreign>>

-----------------------------------------------------------------------------
(* The OS thread *)

\* watcher.watch fails: the thread returns, and the task with it
WatchFails ==
    /\ thread = "start" /\ file = Missing
    /\ thread' = "gone"
    /\ UNCHANGED <<file, notes, queue, hand, calls, engine, foreign>>

Watch ==
    /\ thread = "start" /\ file # Missing
    /\ thread' = "signal"
    /\ UNCHANGED <<file, notes, queue, hand, calls, engine, foreign>>

\* Mutant: nobody asks for the initial load
SignalNothing ==
    /\ thread = "signal" /\ queue < QueueCap
    /\ thread' = "relay"
    /\ UNCHANGED <<file, notes, queue, hand, calls, engine, foreign>>

\* The signal for the initial load, once the watch is in place
SignalInitialLoad ==
    /\ thread = "signal" /\ queue < QueueCap
    /\ thread' = "relay"
    /\ queue' = queue + 1
    /\ UNCHANGED <<file, notes, hand, calls, engine, foreign>>

\* blocking_send waits while the task's channel is full
Relay ==
    /\ thread = "relay" /\ notes > 0 /\ queue < QueueCap
    /\ notes' = notes - 1
    /\ queue' = queue + 1
    /\ UNCHANGED <<file, thread, hand, calls, engine, foreign>>

-----------------------------------------------------------------------------
(* The task *)

\* Mutant: the task drops the signals that arrived while it waited for the lock, as
\* if one reload stood for them all
TaskInstallDrains ==
    /\ hand.held
    /\ engine' = hand.engine
    /\ foreign' = FALSE
    /\ hand' = Nothing
    /\ queue' = 0
    /\ UNCHANGED <<file, thread, notes, calls>>

\* reload_yaml_filter, phase 1: load_file; an error keeps the previous engine
TaskLoad ==
    /\ ~hand.held /\ queue > 0
    /\ queue' = queue - 1
    /\ hand' = IF file \in Loadable THEN Loaded(file) ELSE Nothing
    /\ UNCHANGED <<file, thread, notes, calls, engine, foreign>>

\* reload_yaml_filter, phase 2: set_filter under the write lock
TaskInstall ==
    /\ hand.held
    /\ engine' = hand.engine
    /\ foreign' = FALSE
    /\ hand' = Nothing
    /\ UNCHANGED <<file, thread, notes, queue, calls>>

-----------------------------------------------------------------------------
(* The endpoints *)

\* filter_reload: load_file on the blocking pool; an error is the answer
CallLoad(k) ==
    /\ ~calls[k].held /\ file \in Loadable
    /\ calls' = [calls EXCEPT ![k] = Loaded(file)]
    /\ UNCHANGED <<file, thread, notes, queue, hand, engine, foreign>>

\* filter_reload: set_filter under the write lock
CallInstall(k) ==
    /\ calls[k].held
    /\ engine' = calls[k].engine
    /\ foreign' = calls[k].old
    /\ calls' = [calls EXCEPT ![k] = Nothing]
    /\ UNCHANGED <<file, thread, notes, queue, hand>>

\* apply_filter of onboard.rs: the body becomes the engine, the file is not written
OnboardFilter(c) ==
    /\ c \in Loadable
    /\ engine' = c
    /\ foreign' = TRUE
    /\ UNCHANGED <<file, thread, notes, queue, hand, calls>>

ReloadNext ==
    \/ \E c \in Contents : WriteFile(c)
    \/ WatchFails
    \/ Watch
    \/ SignalInitialLoad
    \/ Relay
    \/ TaskLoad
    \/ TaskInstall
    \/ \E k \in Calls : CallLoad(k)
    \/ \E k \in Calls : CallInstall(k)
    \/ \E c \in Contents : OnboardFilter(c)

ReloadSafety == ReloadInit /\ [][ReloadNext]_reloadVars

\* The thread and the task are scheduled: tokio and the OS run what can run
ReloadFairness ==
    /\ WF_reloadVars(Watch) /\ WF_reloadVars(SignalInitialLoad) /\ WF_reloadVars(Relay)
    /\ WF_reloadVars(TaskLoad) /\ WF_reloadVars(TaskInstall)

-----------------------------------------------------------------------------
(* Properties *)

ReloadTypeOK ==
    /\ file \in Contents \cup {Missing}
    /\ thread \in {"start", "signal", "relay", "gone"}
    /\ notes \in Nat
    /\ queue \in Nat
    /\ hand \in Hands
    /\ calls \in [Calls -> Hands]
    /\ engine \in Loadable \cup {NoEngine}
    /\ foreign \in BOOLEAN

Quiet == thread = "relay" /\ notes = 0 /\ queue = 0 /\ ~hand.held

\* Once every notification has been worked off, the engine in force is the content of
\* the file, however writes, failed loads and calls of the endpoint interleaved, unless
\* the last engine installed was posted by the onboarding endpoint or had been read by
\* a reload call before the last write: the initial load follows the watch, and each
\* signal makes the task read the file again (filter_watcher.rs 40-96).
QuietFilterIsCurrent == (Quiet /\ file \in Loadable /\ ~foreign) => engine = file

\* While a change of the watched file has not been worked off, a content that loads and
\* is left alone eventually comes into force: a full channel, a load that failed before
\* or an engine installed by somebody else delays the reload and never cancels it
\* (filter_watcher.rs 46-96).
FilterConverges ==
    \A c \in Loadable :
        (file = c /\ thread \in {"signal", "relay"} /\ ~Quiet) ~> (engine = c \/ file # c)
=============================================================================
