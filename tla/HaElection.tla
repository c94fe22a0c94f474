----------------------------- MODULE HaElection -----------------------------
(***************************************************************************)
(* Leader election through a Redis lease: crates/rbmp-server/src/ha.rs.    *)
(*                                                                         *)
(* Every lease_secs/2 an instance tries SET NX EX on the lease key.  When  *)
(* it gets the key it renews it and leads; otherwise it reads the key and  *)
(* renews it if the value is its own, or follows.  Each Redis command is a *)
(* step of its own.  A failed connection changes nothing.  Redis is        *)
(* external: one key that expires.  Time is counted in units; what counts  *)
(* are the time left to the key and to the next interval of each instance. *)
(* A round of commands is short against the unit of time and ends, or      *)
(* fails, within the instant in which its interval fired, unless it is     *)
(* late: the task is not scheduled, or an answer of Redis takes long.      *)
(***************************************************************************)
EXTENDS Integers, FiniteSets

CONSTANTS
    Instances,
    Free,        \* the key does not exist
    Lease,       \* lease_secs
    MaxCrashes,  \* bound: instances that die
    MaxOutages,  \* bound: instances cut off from Redis
    MaxLate      \* bound: time that passes during rounds

\* interval() panics on a zero period, so lease_secs is at least 2
ASSUME HaAssumption ==
    /\ Free \notin Instances
    /\ Lease \in Nat \ {0, 1}
    /\ MaxCrashes \in Nat /\ MaxOutages \in Nat /\ MaxLate \in Nat

Half == Lease \div 2

VARIABLES
    holder, ttl,     \* Redis: value of the key and time until it expires
    pc,              \* position in the election loop
    timer,           \* time until the next tick of the interval; negative when
                     \* ticks were missed, which fire at once (Burst)
    leader,          \* HaState.is_leader
    up, reach,       \* the instance runs; it reaches Redis
    crashes, outages,\* how often
    late,            \* time that passed during rounds so far
    vacant           \* history: how long an instance has been up while nobody
                     \* led and nobody was cut off, since the last fault

redis == <<holder, ttl>>
env   == <<up, reach, crashes, outages, late>>
haVars  == <<redis, pc, timer, leader, env, vacant>>

HaInit ==
    /\ holder = Free /\ ttl = 0
    /\ pc = [i \in Instances |-> "sleep"]
    /\ timer = [i \in Instances |-> 0]
    /\ leader = [i \in Instances |-> FALSE]
    /\ up \in {u \in [Instances -> BOOLEAN] : \E i \in Instances : u[i]}
    /\ reach = [i \in Instances |-> TRUE]
    /\ crashes = 0 /\ outages = 0 /\ late = 0
    /\ vacant = [i \in Instances |-> 0]

Goto(i, l)  == pc' = [pc EXCEPT ![i] = l]
Lead(i, b)  == leader' = [leader EXCEPT ![i] = b]

-----------------------------------------------------------------------------
(* The election loop *)

\* EXPIRE sets the time to live of the key, whoever holds it
Expire ==
    /\ ttl' = IF holder = Free THEN 0 ELSE Lease
    /\ UNCHANGED holder

Due(i) == up[i] /\ pc[i] = "sleep" /\ timer[i] <= 0

SetNx(i) ==
    /\ Due(i) /\ reach[i]
    /\ IF holder = Free
         THEN holder' = i /\ ttl' = Lease /\ Goto(i, "acquired")
         ELSE UNCHANGED redis /\ Goto(i, "refused")
    /\ timer' = [timer EXCEPT ![i] = @ + Half]
    /\ UNCHANGED <<leader, env, vacant>>

\* No connection: the leader flag is retained
NoRedis(i) ==
    /\ Due(i) /\ ~reach[i]
    /\ timer' = [timer EXCEPT ![i] = @ + Half]
    /\ UNCHANGED <<redis, pc, leader, env, vacant>>

\* The connection breaks during SET, which Redis may have executed: it counts as
\* refused, and the GET that follows fails as well
SetLost(i) ==
    /\ Due(i) /\ ~reach[i]
    /\ \/ UNCHANGED redis
       \/ holder = Free /\ holder' = i /\ ttl' = Lease
    /\ timer' = [timer EXCEPT ![i] = @ + Half]
    /\ Lead(i, FALSE)
    /\ UNCHANGED <<pc, env, vacant>>

Acquired(i) ==
    /\ up[i] /\ pc[i] = "acquired" /\ reach[i]
    /\ Expire /\ Lead(i, TRUE) /\ Goto(i, "sleep")
    /\ UNCHANGED <<timer, env, vacant>>

\* Mutant: a follower renews the lease before it looks whose it is
GetRenews(i) ==
    /\ up[i] /\ pc[i] = "refused" /\ reach[i]
    /\ IF holder = i THEN Goto(i, "holds") /\ UNCHANGED leader
                     ELSE Goto(i, "sleep") /\ Lead(i, FALSE)
    /\ Expire
    /\ UNCHANGED <<timer, env, vacant>>

Get(i) ==
    /\ up[i] /\ pc[i] = "refused" /\ reach[i]
    /\ IF holder = i THEN Goto(i, "holds") /\ UNCHANGED leader
                     ELSE Goto(i, "sleep") /\ Lead(i, FALSE)
    /\ UNCHANGED <<redis, timer, env, vacant>>

\* Mutant: the lease is not renewed
RenewForgotten(i) ==
    /\ up[i] /\ pc[i] = "holds" /\ reach[i]
    /\ Lead(i, TRUE) /\ Goto(i, "sleep")
    /\ UNCHANGED <<redis, timer, env, vacant>>

Renew(i) ==
    /\ up[i] /\ pc[i] = "holds" /\ reach[i]
    /\ Expire /\ Lead(i, TRUE) /\ Goto(i, "sleep")
    /\ UNCHANGED <<timer, env, vacant>>

\* The connection breaks later in the round: a failed GET counts as another
\* holder, the result of EXPIRE is ignored
CommandFails(i) ==
    /\ up[i] /\ pc[i] # "sleep" /\ ~reach[i]
    /\ Lead(i, pc[i] # "refused") /\ Goto(i, "sleep")
    /\ UNCHANGED <<redis, timer, env, vacant>>

Round(i) ==
    \/ SetNx(i) \/ NoRedis(i) \/ SetLost(i) \/ Acquired(i) \/ Get(i) \/ Renew(i) \/ CommandFails(i)

-----------------------------------------------------------------------------
(* Time and faults *)

Busy(i) == up[i] /\ (pc[i] # "sleep" \/ timer[i] <= 0)

\* Counted up to just beyond what the properties ask for
Vacancy(i) ==
    IF up[i] /\ \A j \in Instances : reach[j] /\ ~leader[j]
      THEN (IF vacant[i] > Lease + Half THEN vacant[i] ELSE vacant[i] + 1)
      ELSE 0

HaTick ==
    /\ IF \E i \in Instances : Busy(i)
         THEN /\ late < MaxLate /\ late' = late + 1
              /\ vacant' = [i \in Instances |-> 0]
         ELSE /\ UNCHANGED late
              /\ vacant' = [i \in Instances |-> Vacancy(i)]
    /\ ttl' = IF ttl = 0 THEN 0 ELSE ttl - 1
    /\ holder' = IF ttl <= 1 THEN Free ELSE holder
    /\ timer' = [i \in Instances |-> IF up[i] THEN timer[i] - 1 ELSE 0]
    /\ UNCHANGED <<pc, leader, up, reach, crashes, outages>>

HaCrash(i) ==
    /\ up[i] /\ crashes < MaxCrashes
    /\ crashes' = crashes + 1
    /\ up' = [up EXCEPT ![i] = FALSE]
    /\ Lead(i, FALSE) /\ Goto(i, "sleep")
    /\ vacant' = [j \in Instances |-> 0]
    /\ UNCHANGED <<redis, timer, reach, outages, late>>

\* A new process: its interval ticks at once
Start(i) ==
    /\ ~up[i]
    /\ up' = [up EXCEPT ![i] = TRUE]
    /\ timer' = [timer EXCEPT ![i] = 0]
    /\ vacant' = [vacant EXCEPT ![i] = 0]
    /\ UNCHANGED <<redis, pc, leader, reach, crashes, outages, late>>

Cut(i) ==
    /\ reach[i] /\ outages < MaxOutages
    /\ outages' = outages + 1
    /\ reach' = [reach EXCEPT ![i] = FALSE]
    /\ vacant' = [j \in Instances |-> 0]
    /\ UNCHANGED <<redis, pc, timer, leader, up, crashes, late>>

Heal(i) ==
    /\ ~reach[i]
    /\ reach' = [reach EXCEPT ![i] = TRUE]
    /\ vacant' = [j \in Instances |-> 0]
    /\ UNCHANGED <<redis, pc, timer, leader, up, crashes, outages, late>>

HaNext ==
    \/ \E i \in Instances : Round(i) \/ HaCrash(i) \/ Start(i) \/ Cut(i) \/ Heal(i)
    \/ HaTick

\* Running instances keep taking rounds, time passes, outages end
HaFairness ==
    /\ \A i \in Instances : WF_haVars(Round(i)) /\ WF_haVars(Heal(i))
    /\ WF_haVars(HaTick)

HaSpec == HaInit /\ [][HaNext]_haVars /\ HaFairness

-----------------------------------------------------------------------------
(* Properties *)

\* Variables have their types; a key that exists has time to live.
HaTypeOK ==
    /\ holder \in Instances \cup {Free}
    /\ ttl \in 0 .. Lease /\ (ttl = 0 <=> holder = Free)
    /\ pc \in [Instances -> {"sleep", "acquired", "refused", "holds"}]
    /\ timer \in [Instances -> -MaxLate .. Half]
    /\ leader \in [Instances -> BOOLEAN]
    /\ up \in [Instances -> BOOLEAN] /\ reach \in [Instances -> BOOLEAN]
    /\ crashes \in 0 .. MaxCrashes /\ outages \in 0 .. MaxOutages /\ late \in 0 .. MaxLate
    /\ vacant \in [Instances -> 0 .. Lease + Half + 1]

\* ha.rs 35: is_leader "Returns true if this instance currently holds the leader
\* lease".  As long as no instance was cut off from Redis, who leads holds the key
\* with time to live, so there are never two leaders: whatever crashes when no
\* round is late, and with rounds late by less than what an interval leaves of
\* the lease when nothing crashes.  (A restarted instance may take up the rest of
\* its former lease, which then has less left.)
LeaderHoldsLease ==
    (outages = 0 /\ (late = 0 \/ (crashes = 0 /\ late < Lease - Half))) =>
        \A i \in Instances : leader[i] => (holder = i /\ ttl > 0)

\* ha.rs 5: the follower "takes over within `lease_secs` on leader failure".  While
\* an instance is up, nobody is cut off and no other fault follows, nobody leads
\* for at most a lease.  It fails: the key of a leader that dies just after a
\* renewal lasts a lease, and the follower looks at it only every half lease.
TakeoverWithinLease == \A i \in Instances : vacant[i] <= Lease

\* What the code does guarantee in place of TakeoverWithinLease: there is a leader
\* again before a lease and an interval have passed, when the lease of the dead
\* leader has run out and the next round of the follower takes it.
TakeoverWithinLeaseAndInterval == \A i \in Instances : vacant[i] < Lease + Half

\* When outages, crashes and delays end, one instance ends up leading for good,
\* even if a partition, or a key that expired between GET and EXPIRE, made two of
\* them leaders before.
OneLeaderEventually ==
    <>[](\E i \in Instances : up[i]) =>
        <>[](\E i \in Instances : \A j \in Instances : leader[j] <=> j = i)
=============================================================================
