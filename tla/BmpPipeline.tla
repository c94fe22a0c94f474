---------------------------- MODULE BmpPipeline -----------------------------
(***************************************************************************)
(* BMP sessions into the RIB: the receiver tasks (receiver.rs), the        *)
(* bounded mpsc channel they share and the RIB pump (main.rs 236-246),     *)
(* composed with RibManager.                                               *)
(*                                                                         *)
(* Each accepted TCP connection is a task of its own.  The router at the   *)
(* other end speaks BMP in order: Initiation, then Peer Up before the      *)
(* updates of a peer, Peer Down, an optional Termination.  One Read step   *)
(* is one complete frame: parsed, archived (best effort, no effect here)   *)
(* and sent into the channel, which waits while the channel is full.  A    *)
(* frame the parser rejects is skipped.  Cutting the byte stream into      *)
(* frames is not part of this module.  The cancellation token is never     *)
(* cancelled by any code of the server, so the shutdown path is left out.  *)
(* received_at matters for Peer Down only, which records it as stale_at.    *)
(* No task calls expire_stale_for_peer, so it is no action here.           *)
(***************************************************************************)
EXTENDS RibManager, Sequences

CONSTANTS
    Conns,        \* TCP connections, each used once
    Monitored,    \* [Speakers -> SUBSET Peers]: the peers a router reports on
    ChanCap,      \* capacity of the message channel (4096 in main.rs)
    MaxFrames,    \* bound: frames a router sends on one connection
    LapseKinds,   \* what may go wrong: "overlap", an early reconnect, "skip", a
                  \* frame the parser rejects
    MaxLapses     \* bound: how often

ASSUME PipelineAssumption ==
    /\ Speakers # {}
    /\ Monitored \in [Speakers -> SUBSET Peers]
    /\ ChanCap \in Nat \ {0}
    /\ MaxFrames \in Nat
    /\ LapseKinds \subseteq {"overlap", "skip"}
    /\ MaxLapses \in Nat

Messages ==
         [kind : {"initiation", "termination"}, spk : Speakers]
    \cup [kind : {"peer_up"}, spk : Speakers, peer : Peers, secs : LlgrSecs]
    \cup [kind : {"peer_down"}, spk : Speakers, peer : Peers, at : Time]
    \cup [kind : {"update"}, spk : Speakers, peer : Peers, rib : RibTypes,
          wd : SUBSET Prefixes, ann : SUBSET Prefixes, attr : Attrs]

VARIABLES
    task,         \* [Conns -> state of the connection's task and its router]
    chan,         \* mpsc::channel<BmpMessage>
    lapses,       \* early reconnects and rejected frames so far
    lapsed        \* history: the speakers they concerned

lapse == <<lapses, lapsed>>
pvars == <<vars, task, chan, lapse>>

\* phase: idle (no connection yet), open (read loop), eof (loop left), closed.
\* began, ups, done: what the router has sent so far; frames counts.
Task == [phase : {"idle", "open", "eof", "closed"}, spk : Speakers,
         began : BOOLEAN, ups : SUBSET Peers, done : BOOLEAN, frames : 0 .. MaxFrames]

\* A connection on which the router has sent nothing, or no longer sends
Conn(phase, s) == [phase |-> phase, spk |-> s, began |-> FALSE, ups |-> {},
                   done |-> FALSE, frames |-> 0]

PInit ==
    /\ Init
    /\ chan = << >> /\ lapses = 0 /\ lapsed = {}
    /\ task = [c \in Conns |-> Conn("idle", CHOOSE s \in Speakers : TRUE)]

-----------------------------------------------------------------------------
(* The router's side of a connection *)

Live(c) == task[c].phase \in {"open", "eof"}

Lapse(kind, s) ==
    /\ kind \in LapseKinds
    /\ lapses < MaxLapses
    /\ lapses' = lapses + 1
    /\ lapsed' = lapsed \cup {s}

\* run_bmp_receiver: accept and spawn handle_connection.  A router may reconnect
\* before the task of its old connection has noticed the loss.
Accept(c, s) ==
    /\ task[c].phase = "idle"
    /\ IF \E d \in Conns : Live(d) /\ task[d].spk = s THEN Lapse("overlap", s)
                                                     ELSE UNCHANGED lapse
    /\ task' = [task EXCEPT ![c] = Conn("open", s)]
    /\ UNCHANGED <<vars, chan>>

\* The frames the router may send next on connection c
NextFrames(c) ==
    LET t == task[c] IN
    {m \in Messages :
        /\ m.spk = t.spk
        /\ ~t.done
        /\ m.kind = "initiation" <=> ~t.began
        /\ m.kind = "peer_up" => m.peer \in Monitored[t.spk] \ t.ups
        /\ m.kind \in {"peer_down", "update"} => m.peer \in t.ups
        /\ m.kind = "peer_down" => m.at = now
        /\ m.kind = "update" => m.wd \cup m.ann # {}}

\* The router's own state after it sent m
Sent(t, m) ==
    [t EXCEPT !.began  = TRUE,
              !.done   = (m.kind = "termination"),
              !.ups    = CASE m.kind = "peer_up"   -> @ \cup {m.peer}
                           [] m.kind = "peer_down" -> @ \ {m.peer}
                           [] OTHER                -> @,
              !.frames = @ + 1]

-----------------------------------------------------------------------------
(* handle_connection *)

\* One frame read, parsed and sent
Read(c) ==
    /\ task[c].phase = "open"
    /\ task[c].frames < MaxFrames
    /\ Len(chan) < ChanCap
    /\ \E m \in NextFrames(c) :
          /\ task' = [task EXCEPT ![c] = Sent(@, m)]
          /\ chan' = Append(chan, m)
    /\ UNCHANGED <<vars, lapse>>

\* "BMP parse error - skipping frame"
SkipFrame(c) ==
    /\ task[c].phase = "open"
    /\ task[c].frames < MaxFrames
    /\ \E m \in NextFrames(c) : task' = [task EXCEPT ![c] = Sent(@, m)]
    /\ Lapse("skip", task[c].spk)
    /\ UNCHANGED <<vars, chan>>

\* read_buf returns 0 or an error: the loop is left
Eof(c) ==
    /\ task[c].phase = "open"
    /\ task' = [task EXCEPT ![c] = Conn("eof", task[c].spk)]
    /\ UNCHANGED <<vars, chan, lapse>>

\* Mutant: the task ends without the synthetic Termination
EndSilently(c) ==
    /\ task[c].phase = "eof"
    /\ task' = [task EXCEPT ![c].phase = "closed"]
    /\ UNCHANGED <<vars, chan, lapse>>

\* The synthetic Termination that ends the task
SynthTermination(c) ==
    /\ task[c].phase = "eof"
    /\ Len(chan) < ChanCap
    /\ task' = [task EXCEPT ![c].phase = "closed"]
    /\ chan' = Append(chan, [kind |-> "termination", spk |-> task[c].spk])
    /\ UNCHANGED <<vars, lapse>>

-----------------------------------------------------------------------------
(* The RIB pump: msg_rx.recv(), then process under the write lock *)

Handle(m) ==
    \/ m.kind = "initiation"  /\ Initiation(m.spk)
    \/ m.kind = "termination" /\ Termination(m.spk)
    \/ m.kind = "peer_up"     /\ PeerUp(m.spk, m.peer, m.secs)
    \/ m.kind = "peer_down"   /\ PeerDown(m.spk, m.peer, m.at)
    \/ m.kind = "update"      /\ RouteMonitoring(m.spk, m.peer, m.rib, m.wd, m.ann, m.attr)

\* Mutant: the pump gives up on a message whose speaker it does not know
PumpKnownOnly ==
    /\ chan # << >>
    /\ Head(chan).kind \in {"initiation", "termination"} \/ speakers[Head(chan).spk] # NoSpeaker
    /\ Handle(Head(chan))
    /\ chan' = Tail(chan)
    /\ UNCHANGED <<task, lapse>>

Pump ==
    /\ chan # << >>
    /\ Handle(Head(chan))
    /\ chan' = Tail(chan)
    /\ UNCHANGED <<task, lapse>>

PNext ==
    \/ \E c \in Conns, s \in Speakers : Accept(c, s)
    \/ \E c \in Conns : Read(c)
    \/ \E c \in Conns : SkipFrame(c)
    \/ \E c \in Conns : Eof(c)
    \/ \E c \in Conns : SynthTermination(c)
    \/ Pump
    \/ Tick /\ UNCHANGED <<task, chan, lapse>>

PSpec == PInit /\ [][PNext]_pvars

\* The runtime keeps polling a task that can make progress: the pump takes what
\* is queued, and a task past EOF gets its message into the channel.  Waiting
\* senders of a tokio channel are served in order.  Routers owe nothing;
\* time passes.
FairPSpec ==
    /\ PSpec
    /\ WF_pvars(Pump)
    /\ WF_pvars(Tick /\ UNCHANGED <<task, chan, lapse>>)
    /\ \A c \in Conns : SF_pvars(SynthTermination(c))

-----------------------------------------------------------------------------
(* Properties *)

\* The RIB is well formed, the channel holds messages and respects its capacity.
PTypeOK ==
    /\ TypeOK
    /\ task \in [Conns -> Task]
    /\ chan \in Seq(Messages)
    /\ Len(chan) <= ChanCap
    /\ lapses \in 0 .. MaxLapses /\ lapsed \subseteq Speakers

\* No route announced by s, and no session of s, is left in the RIB
Evicted(s) ==
    /\ speakers[s] = NoSpeaker
    /\ \A p \in Peers, k \in Keys : Has(p, k) => ribs[p][k].from # s

\* Every connection of s has ended and the pump has seen all its messages
Quiet(s) ==
    /\ \A c \in Conns : task[c].spk = s => ~Live(c)
    /\ \A i \in 1 .. Len(chan) : chan[i].spk # s

\* receiver.rs 156: the Termination is synthesised after a TCP drop "so RibManager
\* evicts all stale routes for this speaker".  Once every connection of a speaker
\* has ended and its messages are processed, nothing of it is left in the RIB.
QuietSpeakerIsEvicted == \A s \in Speakers : Quiet(s) => Evicted(s)

\* The same for a speaker that reconnected only after its old connection was
\* closed and whose frames all parsed, whatever other speakers did.
OrderlySpeakerIsEvicted == \A s \in Speakers \ lapsed : Quiet(s) => Evicted(s)

\* A route that is not stale belongs to a peer that its speaker's session holds
\* Up: no interleaving of sessions leaves live routes of an orderly speaker
\* behind a peer that went down, or behind a session that ended.
FreshRouteHasUpPeer ==
    \A p \in Peers, k \in Keys :
        (Has(p, k) /\ ribs[p][k].stale = Fresh /\ ribs[p][k].from \notin lapsed) =>
            LET s == ribs[p][k].from
            IN  Knows(s, p) /\ speakers[s][p].state = "Up"

\* An orderly speaker whose connections have all dropped is evicted, or connects
\* again.
DroppedSpeakerIsEvicted ==
    \A s \in Speakers :
        LET dropped == /\ \E c \in Conns : task[c].phase # "idle" /\ task[c].spk = s
                       /\ \A c \in Conns : task[c].phase = "open" => task[c].spk # s
                       /\ s \notin lapsed
        IN  dropped ~> (Evicted(s) \/ ~dropped)

\* Backpressure never wedges a task: however full the channel gets, a task past
\* EOF gets its Termination into it and ends, and the pump empties the channel.
TasksAndChannelDrain ==
    /\ \A c \in Conns : task[c].phase = "eof" ~> task[c].phase = "closed"
    /\ []<>(chan = << >>)

=============================================================================
