------------------------------ MODULE MCLinks -------------------------------
(* What the server exchanges with other systems, one link at a time:           *)
(*   store      the store writer, with events of no, one and two rows          *)
(*   adapter    an output adapter or stream of a server without store          *)
(*   collector  the collector and Core; one PDU of one speaker does not parse  *)
(*   rtr        the RTR client and its cache server                            *)
(*   ha         the HA instances and Redis                                     *)
EXTENDS StoreWriter, AlertAdapter, Collector, RtrClient, HaElection

CONSTANTS r1, r2

VARIABLE part

MCRowCount  == [eor |-> 0, down |-> 1, speaker |-> 1, route |-> 2]
MCKinds     == DOMAIN MCRowCount
MCAlerting  == {"down", "speaker"}
MCSpeakers  == {r1, r2}
MCMalformed == {<<r1, 2>>}

writerOnly  == <<batch, rows, open, running, lost, failures>>
adapterOnly == <<pump, delivered, faults, alert>>
mcVars      == <<avars, writerOnly, collectorVars, rtrVars, haVars, part>>

-----------------------------------------------------------------------------
(* The links of the other parts are idle *)

\* No writer runs, and all is lost to it
NoStore ==
    /\ batch = {} /\ rows = {} /\ open = TRUE
    /\ running = FALSE /\ lost = 1 .. MaxEvents /\ failures = 0

\* The client has the one table, which is empty
RtrIdle ==
    /\ published = <<{}>> /\ vrps = {} /\ serial = 1
    /\ connected = FALSE /\ pending = {} /\ collecting = FALSE
    /\ toClient = << >> /\ toServer = << >> /\ drops = 0

\* No instance runs
HaIdle ==
    /\ holder = Free /\ ttl = 0
    /\ pc = [i \in Instances |-> "sleep"] /\ timer = [i \in Instances |-> 0]
    /\ leader = [i \in Instances |-> FALSE] /\ up = leader
    /\ reach = [i \in Instances |-> TRUE]
    /\ crashes = 0 /\ outages = 0 /\ late = 0 /\ vacant = timer

MCInit ==
    /\ part \in {"store", "adapter", "collector", "rtr", "ha"}
    /\ AInit /\ (part # "adapter" => mode = "bulk")
    /\ IF part = "store" THEN WriterInit ELSE NoStore
    /\ CollectorInit
    /\ IF part = "rtr" THEN RtrInit ELSE RtrIdle
    /\ IF part = "ha" THEN HaInit ELSE HaIdle

-----------------------------------------------------------------------------
(* Steps of one link.  Of the kinds of event that look alike to a consumer one *)
(* is enough.                                                                  *)
Publishes(kinds) == LastEvent' > LastEvent => events'[LastEvent'] \in kinds

InStore     == /\ part = "store" /\ Publishes({"eor", "down", "route"})
               /\ UNCHANGED <<adapterOnly, collectorVars, rtrVars, haVars, part>>
InAdapter   == /\ part = "adapter" /\ Publishes({"down", "speaker", "route"})
               /\ UNCHANGED <<writerOnly, collectorVars, rtrVars, haVars, part>>
InCollector == part = "collector" /\ UNCHANGED <<avars, writerOnly, rtrVars, haVars, part>>
InRtr       == part = "rtr" /\ UNCHANGED <<avars, writerOnly, collectorVars, haVars, part>>
InHa        == part = "ha" /\ UNCHANGED <<avars, writerOnly, collectorVars, rtrVars, part>>

MCNext ==
    \/ part = "store" /\ WriterNext /\ InStore
    \/ part = "adapter" /\ ANext /\ InAdapter
    \/ InCollector /\ CollectorNext
    \/ InRtr /\ RtrNext
    \/ InHa /\ HaNext

\* The fairness of WriterSpec, ASpec, CollectorSpec, RtrSpec and HaSpec
MCSpec ==
    /\ MCInit /\ [][MCNext]_mcVars
    /\ WF_mcVars(part = "store" /\ WriterStep /\ InStore)
    /\ WF_mcVars(part = "adapter" /\ AdapterStep /\ InAdapter)
    /\ WF_mcVars(InCollector /\ Connect) /\ WF_mcVars(InCollector /\ Dequeue)
    /\ WF_mcVars(InCollector /\ WriteFrame) /\ SF_mcVars(InCollector /\ WriteFails)
    /\ \A c \in Conns : WF_mcVars(InCollector /\ CoreReads(c))
    /\ WF_mcVars(InRtr /\ RtrConnect) /\ WF_mcVars(InRtr /\ HandlePdu)
    /\ WF_mcVars(InRtr /\ ServerAnswers)
    /\ \A i \in Instances : WF_mcVars(InHa /\ Round(i)) /\ WF_mcVars(InHa /\ Heal(i))
    /\ WF_mcVars(InHa /\ HaTick)
=============================================================================
