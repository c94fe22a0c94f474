----------------------------- MODULE RtrClient ------------------------------
(***************************************************************************)
(* The RPKI-to-Router client and the VRP cache it feeds:                   *)
(* crates/rbmp-enrichment/src/rtr.rs and vrp_cache.rs.                     *)
(*                                                                         *)
(* The client opens a connection, asks for the full table with a Reset     *)
(* Query and then handles PDUs one at a time.  The RTR cache server is     *)
(* external: it publishes VRP sets under increasing serials, notifies the  *)
(* connected client, and answers queries the way RFC 8210 prescribes.      *)
(* With Deltas it answers a Serial Query with the changes since that       *)
(* serial; without, or when the serial is unknown, with a Cache Reset.     *)
(*                                                                         *)
(* A VRP is a (prefix, origin) pair "roa" with a maximum length "ml".      *)
(* Vec<VrpEntry> is a set: duplicates change no validation result.  The    *)
(* reconnect delay is any delay.  PDUs that are too short, unknown or      *)
(* router keys are skipped without effect and left out.                    *)
(***************************************************************************)
EXTENDS Integers, FiniteSets, Sequences, SequencesExt

CONSTANTS
    Roas,        \* (prefix, origin) pairs
    MaxLens,     \* maximum lengths
    Deltas,      \* the server answers Serial Queries incrementally
    MaxSerial,   \* bound: versions the server publishes
    MaxDrops     \* bound: connections lost

\* VrpEntry
VRPs == [roa : Roas, ml : MaxLens]

ASSUME RtrAssumption ==
    /\ IsFiniteSet(VRPs)
    /\ Deltas \in BOOLEAN
    /\ MaxSerial \in Nat \ {0}
    /\ MaxDrops \in Nat

VARIABLES
    vrps, serial,       \* VrpCacheInner.entries and .serial
    connected,          \* connect_and_sync is running
    pending, collecting,\* pending, in_cache_response of connect_and_sync
    published,          \* server: published[n] is the VRP set of serial n
    toClient, toServer, \* PDUs in flight on the connection
    drops               \* connections lost so far

cache   == <<vrps, serial>>
session == <<connected, pending, collecting>>
rtrVars    == <<cache, session, published, toClient, toServer, drops>>

Current == Len(published)

RtrInit ==
    /\ vrps = {} /\ serial = 0
    /\ connected = FALSE /\ pending = {} /\ collecting = FALSE
    /\ \E S \in SUBSET VRPs : published = <<S>>
    /\ toClient = << >> /\ toServer = << >>
    /\ drops = 0

-----------------------------------------------------------------------------
(* PDUs *)

CacheResponse == [type |-> "cache_response"]
CacheReset    == [type |-> "cache_reset"]
SerialNotify  == [type |-> "serial_notify"]
EndOfData(n)  == [type |-> "end_of_data", serial |-> n]
Prefix(v, f)  == [type |-> "prefix", vrp |-> v, announce |-> f]

ResetQuery     == [type |-> "reset_query"]
SerialQuery(n) == [type |-> "serial_query", serial |-> n]

\* The prefix PDUs for a set of VRPs
PrefixPdus(S, f) == LET q == SetToSeq(S) IN [i \in 1 .. Len(q) |-> Prefix(q[i], f)]

-----------------------------------------------------------------------------
(* The server (external) *)

RtrPublish(S) ==
    /\ Current < MaxSerial
    /\ published' = Append(published, S)
    /\ toClient' = IF connected THEN Append(toClient, SerialNotify) ELSE toClient
    /\ UNCHANGED <<cache, session, toServer, drops>>

FullTable ==
    <<CacheResponse>> \o PrefixPdus(published[Current], TRUE) \o <<EndOfData(Current)>>

Changes(n) ==
    LET old == published[n]
        new == published[Current]
    IN  <<CacheResponse>> \o PrefixPdus(old \ new, FALSE)
                          \o PrefixPdus(new \ old, TRUE) \o <<EndOfData(Current)>>

Answer(q) ==
    IF q.type = "reset_query" THEN FullTable
    ELSE IF Deltas /\ q.serial \in 1 .. Current THEN Changes(q.serial)
    ELSE <<CacheReset>>

ServerAnswers ==
    /\ connected /\ toServer # << >>
    /\ toClient' = toClient \o Answer(Head(toServer))
    /\ toServer' = Tail(toServer)
    /\ UNCHANGED <<cache, session, published, drops>>

-----------------------------------------------------------------------------
(* VrpCache *)

Reset(S, n) == vrps' = S /\ serial' = n

\* Removal compares prefix and origin only
ApplyDelta(adds, removes, n) ==
    /\ vrps' = {v \in vrps : \A r \in removes : r.roa # v.roa} \cup adds
    /\ serial' = n

-----------------------------------------------------------------------------
(* RtrClient::connect_and_sync *)

RtrConnect ==
    /\ ~connected
    /\ connected' = TRUE
    /\ toServer' = <<ResetQuery>>
    /\ toClient' = << >>
    /\ pending' = {} /\ collecting' = FALSE
    /\ UNCHANGED <<cache, published, drops>>

\* EOF, a read or write error, an Error Report: run() will reconnect
Drop ==
    /\ connected
    /\ drops < MaxDrops
    /\ drops' = drops + 1
    /\ connected' = FALSE
    /\ toServer' = << >> /\ toClient' = << >>
    /\ pending' = {} /\ collecting' = FALSE
    /\ UNCHANGED <<cache, published>>

OnCacheResponse(pdu) ==
    /\ pdu.type = "cache_response"
    /\ collecting' = TRUE /\ pending' = {}
    /\ UNCHANGED <<cache, toServer>>

OnPrefix(pdu) ==
    /\ pdu.type = "prefix"
    /\ IF pdu.announce
         THEN pending' = pending \cup {pdu.vrp} /\ UNCHANGED cache
         ELSE ApplyDelta({}, {pdu.vrp}, serial) /\ UNCHANGED pending
    /\ UNCHANGED <<collecting, toServer>>

\* Mutant: the new table is added to the old one
EndOfDataExtends(pdu) ==
    /\ pdu.type = "end_of_data"
    /\ ApplyDelta(pending, {}, pdu.serial)
    /\ pending' = {} /\ collecting' = FALSE
    /\ UNCHANGED toServer

OnEndOfData(pdu) ==
    /\ pdu.type = "end_of_data"
    /\ IF collecting
         THEN Reset(pending, pdu.serial) /\ pending' = {} /\ collecting' = FALSE
         ELSE ApplyDelta({}, {}, pdu.serial) /\ UNCHANGED <<pending, collecting>>
    /\ UNCHANGED toServer

\* Mutant: no query follows the Cache Reset
CacheResetIgnored(pdu) ==
    /\ pdu.type = "cache_reset"
    /\ pending' = {} /\ collecting' = FALSE
    /\ UNCHANGED <<cache, toServer>>

OnCacheReset(pdu) ==
    /\ pdu.type = "cache_reset"
    /\ toServer' = Append(toServer, ResetQuery)
    /\ pending' = {} /\ collecting' = FALSE
    /\ UNCHANGED cache

OnSerialNotify(pdu) ==
    /\ pdu.type = "serial_notify"
    /\ toServer' = Append(toServer, SerialQuery(serial))
    /\ UNCHANGED <<cache, pending, collecting>>

HandlePdu ==
    /\ connected /\ toClient # << >>
    /\ LET pdu == Head(toClient)
       IN  \/ OnCacheResponse(pdu)
           \/ OnPrefix(pdu)
           \/ OnEndOfData(pdu)
           \/ OnCacheReset(pdu)
           \/ OnSerialNotify(pdu)
    /\ toClient' = Tail(toClient)
    /\ UNCHANGED <<connected, published, drops>>

RtrNext ==
    \/ \E S \in SUBSET VRPs : RtrPublish(S)
    \/ ServerAnswers
    \/ RtrConnect
    \/ Drop
    \/ HandlePdu

\* run() reconnects after every failure and the client reads what arrives; the
\* server answers.  Publications and connection losses owe nothing.
RtrSpec ==
    /\ RtrInit /\ [][RtrNext]_rtrVars
    /\ WF_rtrVars(RtrConnect) /\ WF_rtrVars(HandlePdu) /\ WF_rtrVars(ServerAnswers)

-----------------------------------------------------------------------------
(* Properties *)

\* Cache, session and published versions have their types; the client never
\* holds a serial the server has not published.
RtrTypeOK ==
    /\ vrps \subseteq VRPs /\ serial \in 0 .. Current
    /\ connected \in BOOLEAN /\ collecting \in BOOLEAN
    /\ pending \subseteq VRPs
    /\ published \in Seq(SUBSET VRPs)
    /\ drops \in 0 .. MaxDrops

\* vrp_cache.rs 51 and 58: reset replaces the table on a cache reset, apply_delta
\* applies the increments of a serial notify.  So between responses the table is
\* the server's table of the serial the cache reports, and while a full response
\* streams in, or its connection is lost half way, the old table stays in use.
TableMatchesSerial ==
    (serial # 0 /\ ~collecting) => vrps = published[serial]

\* When the server stops changing, the client ends up with the server's table
\* and its serial, whatever connections were lost before.
ClientConverges == <>[](vrps = published[Current] /\ serial = Current)
=============================================================================
