-------------------------- MODULE HaElectionProofs --------------------------
(***************************************************************************)
(* A leader holds the lease and a vacancy is filled within a lease and an  *)
(* interval, for every set of instances, every lease, and every number of  *)
(* crashes, outages and late rounds.                                       *)
(***************************************************************************)
EXTENDS HaElection, TLAPS

-----------------------------------------------------------------------------
(* The inductive invariants *)

\* Time until the interval of the round in progress, or of the next one, fires or fired
Deadline(i) == IF pc[i] = "sleep" THEN timer[i] ELSE timer[i] - Half

\* Intervals are late by at most the time that passed during rounds; an instance that is
\* down neither leads nor is in a round; nobody is cut off before the first cut.
Schedule ==
    /\ \A i \in Instances : Deadline(i) >= -late
    /\ \A i \in Instances : ~up[i] => pc[i] = "sleep" /\ ~leader[i]
    /\ outages = 0 => \A i \in Instances : reach[i]

\* The hypothesis of LeaderHoldsLease
Calm == outages = 0 /\ (late = 0 \/ (crashes = 0 /\ late < Lease - Half))

\* What the rounds know of the key: a leader has renewed it, so that it outlives the next
\* interval by what an interval leaves of the lease; so has the key just acquired; and
\* without crashes the key's holder is a leader or about to be one.
Leases ==
    Calm =>
        /\ \A i \in Instances : leader[i] => holder = i /\ ttl >= Deadline(i) + Lease - Half
        /\ \A i \in Instances : pc[i] = "acquired" => holder = i /\ ttl >= Deadline(i) + Lease
        /\ \A i \in Instances : pc[i] = "holds" => holder = i
        /\ crashes = 0 => \A i \in Instances : holder = i => leader[i] \/ pc[i] = "acquired"

HInv == HaTypeOK /\ Schedule /\ Leases

\* Nobody leads or is about to
Idle == \A j \in Instances : ~leader[j] /\ pc[j] \notin {"acquired", "holds"}

\* While a vacancy is counted nobody is cut off and no interval is overdue, so that a round
\* ends before the next one of the same instance starts.  Until somebody is about to lead,
\* the key of the former leader runs out, and after that the interval of each instance.
Filling(i) ==
    /\ up[i] /\ vacant[i] < Lease + Half
    /\ \A j \in Instances : reach[j]
    /\ \A j \in Instances : up[j] => timer[j] >= 0
    /\ \A j \in Instances : pc[j] # "sleep" => timer[j] >= 1
    /\ \A j \in Instances : leader[j] => pc[j] = "sleep" /\ timer[j] >= 1
    /\ Idle => IF holder = Free THEN vacant[i] + timer[i] < Lease + Half
                                ELSE vacant[i] + ttl <= Lease

Vacancies == \A i \in Instances : vacant[i] > 0 => Filling(i)

-----------------------------------------------------------------------------
(* Types and schedule *)

\* An interval is shorter than the lease.
LEMMA HalfFacts ==
    /\ Lease \in Nat /\ Half \in Nat /\ Half >= 1 /\ Half < Lease
    /\ MaxLate \in Nat /\ MaxCrashes \in Nat /\ MaxOutages \in Nat
BY HaAssumption DEF Half

\* An interval that just fired is in the range of the timers.
LEMMA ZeroIsInRange == 0 \in -MaxLate .. Half /\ \A n \in Nat : 0 >= -n
BY HalfFacts

\* The first state has every invariant.
LEMMA InitInv == HaInit => HInv /\ Vacancies
<1> SUFFICES ASSUME HaInit PROVE HInv /\ Vacancies
  OBVIOUS
<1>0. up \in [Instances -> BOOLEAN]
  BY DEF HaInit
<1>1. HaTypeOK
  BY <1>0, HalfFacts DEF HaInit, HaTypeOK
<1>2. Schedule
  BY DEF HaInit, Schedule, Deadline
<1>3. Leases
  BY HaAssumption DEF HaInit, Leases
<1>4. Vacancies
  BY DEF HaInit, Vacancies
<1> QED
  BY <1>1, <1>2, <1>3, <1>4 DEF HInv

\* The steps of a round leave the environment and the history alone and touch only the
\* entries of one instance.
LEMMA RoundTypes ==
    ASSUME HaTypeOK, Schedule, NEW i \in Instances, Round(i)
    PROVE  HaTypeOK' /\ Schedule'
<1> USE HalfFacts
<1>0. UNCHANGED <<up, reach, crashes, outages, late, vacant>> /\ up[i]
  BY DEF Round, SetNx, NoRedis, SetLost, Acquired, Get, Renew, CommandFails, env, Due
<1>1. ASSUME Due(i), timer' = [timer EXCEPT ![i] = @ + Half], pc' = pc \/ Goto(i, "acquired") \/ Goto(i, "refused")
      PROVE  /\ timer' \in [Instances -> -MaxLate .. Half]
             /\ pc' \in [Instances -> {"sleep", "acquired", "refused", "holds"}]
             /\ \A j \in Instances : Deadline(j)' >= -late
  <2>1. timer[i] \in -MaxLate .. Half /\ timer[i] <= 0 /\ late \in 0 .. MaxLate
    BY <1>1 DEF HaTypeOK, Due
  <2>2. timer' \in [Instances -> -MaxLate .. Half]
    BY <1>1, <2>1 DEF HaTypeOK
  <2>3. pc' \in [Instances -> {"sleep", "acquired", "refused", "holds"}]
    BY <1>1 DEF HaTypeOK, Goto
  <2>4. ASSUME NEW j \in Instances PROVE Deadline(j)' >= -late
    <3>1. Deadline(j) >= -late /\ timer[j] \in Int /\ late \in Nat
      BY DEF Schedule, HaTypeOK
    <3>2. CASE j # i
      <4>1. timer'[j] = timer[j] /\ pc'[j] = pc[j]
        BY <1>1, <3>2 DEF HaTypeOK, Goto
      <4> QED
        BY <3>1, <4>1 DEF Deadline
    <3>3. CASE j = i
      <4>1. timer'[i] = timer[i] + Half /\ pc[i] = "sleep"
        BY <1>1 DEF HaTypeOK, Due
      <4> QED
        BY <3>1, <3>3, <4>1 DEF Deadline
    <3> QED
      BY <3>2, <3>3
  <2> QED
    BY <2>2, <2>3, <2>4
<1>2. ASSUME timer' = timer, Goto(i, "sleep") \/ Goto(i, "holds"), pc[i] # "sleep"
      PROVE  /\ timer' \in [Instances -> -MaxLate .. Half]
             /\ pc' \in [Instances -> {"sleep", "acquired", "refused", "holds"}]
             /\ \A j \in Instances : Deadline(j)' >= -late
  <2>1. pc' \in [Instances -> {"sleep", "acquired", "refused", "holds"}]
    BY <1>2 DEF HaTypeOK, Goto
  <2>2. ASSUME NEW j \in Instances PROVE Deadline(j)' >= -late
    <3>1. Deadline(j) >= -late /\ timer[j] \in Int /\ late \in Nat
      BY DEF Schedule, HaTypeOK
    <3>2. j # i => pc'[j] = pc[j]
      BY <1>2 DEF HaTypeOK, Goto
    <3> QED
      BY <1>2, <3>1, <3>2 DEF Deadline
  <2> QED
    BY <1>2, <2>1, <2>2 DEF HaTypeOK
<1>3. /\ timer' \in [Instances -> -MaxLate .. Half]
      /\ pc' \in [Instances -> {"sleep", "acquired", "refused", "holds"}]
      /\ \A j \in Instances : Deadline(j)' >= -late
  BY <1>1, <1>2 DEF Round, SetNx, NoRedis, SetLost, Acquired, Get, Renew, CommandFails
<1>4. leader' \in [Instances -> BOOLEAN]
  BY DEF HaTypeOK, Round, SetNx, NoRedis, SetLost, Acquired, Get, Renew, CommandFails, Lead
<1>5. /\ holder' \in Instances \cup {Free}
      /\ ttl' \in 0 .. Lease /\ (ttl' = 0 <=> holder' = Free)
  <2>1. CASE UNCHANGED redis
    BY <2>1 DEF HaTypeOK, redis
  <2>2. CASE holder' = i /\ ttl' = Lease
    BY <2>2, HaAssumption
  <2>3. CASE Expire
    BY <2>3 DEF Expire, HaTypeOK
  <2> QED
    BY <2>1, <2>2, <2>3 DEF Round, SetNx, NoRedis, SetLost, Acquired, Get, Renew, CommandFails
<1>6. HaTypeOK'
  BY <1>0, <1>3, <1>4, <1>5 DEF HaTypeOK
<1>7. ASSUME NEW j \in Instances, ~up[j]
      PROVE  pc'[j] = "sleep" /\ ~leader'[j]
  <2>1. j # i /\ pc[j] = "sleep" /\ ~leader[j]
    BY <1>0, <1>7 DEF Schedule
  <2> QED
    BY <2>1 DEF HaTypeOK, Round, SetNx, NoRedis, SetLost, Acquired, Get, Renew, CommandFails, Lead, Goto
<1>8. Schedule'
  BY <1>0, <1>3, <1>7 DEF Schedule
<1> QED
  BY <1>6, <1>8

\* One unit of time: the intervals and the key of every instance come closer.
LEMMA TickTypes ==
    ASSUME HaTypeOK, Schedule, HaTick
    PROVE  HaTypeOK' /\ Schedule'
<1> USE HalfFacts
<1>0. UNCHANGED <<pc, leader, up, reach, crashes, outages>>
  BY DEF HaTick
<1>1. late' \in 0 .. MaxLate /\ late' >= late /\ late \in 0 .. MaxLate
  BY DEF HaTick, HaTypeOK
<1>2. ttl' \in 0 .. Lease /\ holder' \in Instances \cup {Free} /\ (ttl' = 0 <=> holder' = Free)
  BY HaAssumption DEF HaTick, HaTypeOK
<1>3. ASSUME NEW j \in Instances
      PROVE  timer'[j] \in -MaxLate .. Half /\ Deadline(j)' >= -late'
  <2>1. /\ timer[j] \in -MaxLate .. Half /\ Deadline(j) >= -late
        /\ timer'[j] = IF up[j] THEN timer[j] - 1 ELSE 0
    BY DEF HaTick, HaTypeOK, Schedule
  <2>2. CASE ~up[j]
    <3>1. pc'[j] = "sleep" /\ timer'[j] = 0
      BY <1>0, <2>1, <2>2 DEF Schedule
    <3>2. Deadline(j)' = 0
      BY <3>1 DEF Deadline
    <3>3. 0 \in -MaxLate .. Half /\ 0 >= -late'
      <4>1. late' \in Nat
        BY <1>1
      <4> QED
        BY <4>1, ZeroIsInRange
    <3> QED
      BY <3>1, <3>2, <3>3
  <2>3. CASE up[j] /\ Busy(j)
    <3>1. late' = late + 1 /\ timer'[j] = timer[j] - 1
      BY <2>1, <2>3 DEF HaTick
    <3>2. timer[j] >= -late
      BY <1>1, <2>1 DEF Deadline
    <3> QED
      BY <1>0, <1>1, <2>1, <3>1, <3>2 DEF Deadline
  <2>4. CASE up[j] /\ ~Busy(j)
    <3>1. pc[j] = "sleep" /\ timer[j] >= 1 /\ timer'[j] = timer[j] - 1
      BY <2>1, <2>4 DEF Busy
    <3> QED
      BY <1>0, <1>1, <2>1, <3>1 DEF Deadline
  <2> QED
    BY <2>2, <2>3, <2>4
<1>4. timer' \in [Instances -> -MaxLate .. Half]
  BY <1>3 DEF HaTick
<1>5. vacant' \in [Instances -> 0 .. Lease + Half + 1]
  BY DEF HaTick, HaTypeOK, Vacancy
<1>6. HaTypeOK'
  BY <1>0, <1>1, <1>2, <1>4, <1>5 DEF HaTypeOK
<1>7. Schedule'
  BY <1>0, <1>3 DEF Schedule
<1> QED
  BY <1>6, <1>7

\* Crashes, restarts, outages and their ends.
Fault(i) == HaCrash(i) \/ Start(i) \/ Cut(i) \/ Heal(i)

\* Crashes, restarts, outages and heals keep types and schedule.
LEMMA FaultTypes ==
    ASSUME HaTypeOK, Schedule, NEW i \in Instances, Fault(i)
    PROVE  HaTypeOK' /\ Schedule'
<1> USE HalfFacts
<1>1. CASE HaCrash(i)
  <2>1. HaTypeOK'
    BY <1>1 DEF HaCrash, HaTypeOK, Lead, Goto, redis
  <2>2. ASSUME NEW j \in Instances
        PROVE  Deadline(j)' >= -late' /\ (~up'[j] => pc'[j] = "sleep" /\ ~leader'[j])
    <3>1. Deadline(j) >= -late /\ timer[j] \in Int /\ timer' = timer /\ late' = late /\ late \in Nat
      BY <1>1 DEF Schedule, HaTypeOK, HaCrash
    <3>2. CASE j = i
      <4>1. pc'[j] = "sleep" /\ ~leader'[j]
        BY <1>1, <3>2 DEF HaCrash, HaTypeOK, Lead, Goto
      <4> QED
        BY <3>1, <4>1 DEF Deadline
    <3>3. CASE j # i
      <4>1. pc'[j] = pc[j] /\ leader'[j] = leader[j] /\ up'[j] = up[j]
        BY <1>1, <3>3 DEF HaCrash, HaTypeOK, Lead, Goto
      <4> QED
        BY <3>1, <4>1 DEF Deadline, Schedule
    <3> QED
      BY <3>2, <3>3
  <2> QED
    BY <1>1, <2>1, <2>2 DEF Schedule, HaCrash
<1>2. CASE Start(i)
  <2>1. HaTypeOK'
    BY <1>2 DEF Start, HaTypeOK, redis
  <2>2. ASSUME NEW j \in Instances
        PROVE  Deadline(j)' >= -late' /\ (~up'[j] => pc'[j] = "sleep" /\ ~leader'[j])
    <3>1. Deadline(j) >= -late /\ timer[j] \in Int /\ late' = late /\ late \in Nat
      BY <1>2 DEF Schedule, HaTypeOK, Start
    <3>2. CASE j = i
      <4>1. pc'[j] = "sleep" /\ timer'[j] = 0 /\ up'[j]
        BY <1>2, <3>2 DEF Start, HaTypeOK, Schedule
      <4> QED
        BY <3>1, <4>1 DEF Deadline
    <3>3. CASE j # i
      <4>1. pc'[j] = pc[j] /\ leader'[j] = leader[j] /\ up'[j] = up[j] /\ timer'[j] = timer[j]
        BY <1>2, <3>3 DEF Start, HaTypeOK
      <4> QED
        BY <3>1, <4>1 DEF Deadline, Schedule
    <3> QED
      BY <3>2, <3>3
  <2> QED
    BY <1>2, <2>1, <2>2 DEF Schedule, Start
<1>3. CASE Cut(i)
  <2>1. HaTypeOK'
    BY <1>3 DEF Cut, HaTypeOK, redis
  <2>2. outages' # 0
    BY <1>3 DEF Cut, HaTypeOK
  <2> QED
    BY <1>3, <2>1, <2>2 DEF Cut, Schedule, Deadline
<1>4. CASE Heal(i)
  <2>1. HaTypeOK'
    BY <1>4 DEF Heal, HaTypeOK, redis
  <2>2. outages' = 0 => \A j \in Instances : reach'[j]
    BY <1>4 DEF Heal, HaTypeOK, Schedule
  <2> QED
    BY <1>4, <2>1, <2>2 DEF Heal, Schedule, Deadline
<1> QED
  BY <1>1, <1>2, <1>3, <1>4 DEF Fault

\* Every step keeps types and schedule.
LEMMA TypeStep == HaTypeOK /\ Schedule /\ [HaNext]_haVars => HaTypeOK' /\ Schedule'
<1> SUFFICES ASSUME HaTypeOK, Schedule, [HaNext]_haVars PROVE HaTypeOK' /\ Schedule'
  OBVIOUS
<1>1. CASE UNCHANGED haVars
  BY <1>1 DEF haVars, redis, env, HaTypeOK, Schedule, Deadline
<1>2. CASE HaNext
  BY <1>2, RoundTypes, FaultTypes, TickTypes DEF HaNext, Fault
<1> QED
  BY <1>1, <1>2

\* Variables keep their types; in particular a key that exists has time to live, and an
\* interval is late by at most the time that passed during rounds.
THEOREM TypeCorrect == HaSpec => []HaTypeOK
BY InitInv, TypeStep, PTL DEF HaSpec, HInv

-----------------------------------------------------------------------------
(* A leader holds the lease *)

\* A round step in calm times: everybody reaches Redis.
LEMMA RoundLeases ==
    ASSUME HInv, HaTypeOK', Schedule', NEW i \in Instances, Round(i)
    PROVE  Leases'
<1> USE HalfFacts
<1>0. UNCHANGED <<up, reach, crashes, outages, late>>
  BY DEF Round, SetNx, NoRedis, SetLost, Acquired, Get, Renew, CommandFails, env
<1>1. SUFFICES ASSUME Calm
               PROVE  /\ \A j \in Instances : leader'[j] => holder' = j /\ ttl' >= Deadline(j)' + Lease - Half
                      /\ \A j \in Instances : pc'[j] = "acquired" => holder' = j /\ ttl' >= Deadline(j)' + Lease
                      /\ \A j \in Instances : pc'[j] = "holds" => holder' = j
                      /\ crashes' = 0 => \A j \in Instances : holder' = j => leader'[j] \/ pc'[j] = "acquired"
  <2>1. Calm' => Calm
    BY <1>0 DEF Calm
  <2> QED
    BY <1>1, <2>1 DEF Leases
<1>2. /\ \A j \in Instances : leader[j] => holder = j /\ ttl >= Deadline(j) + Lease - Half
      /\ \A j \in Instances : pc[j] = "acquired" => holder = j /\ ttl >= Deadline(j) + Lease
      /\ \A j \in Instances : pc[j] = "holds" => holder = j
      /\ crashes = 0 => \A j \in Instances : holder = j => leader[j] \/ pc[j] = "acquired"
  BY <1>1 DEF HInv, Leases
<1>3. reach[i] /\ HaTypeOK
  BY <1>1 DEF HInv, Schedule, Calm
<1>4. \A j \in Instances : timer[j] \in -MaxLate .. Half /\ ttl \in 0 .. Lease
  BY <1>3 DEF HaTypeOK
<1>5. ASSUME NEW j \in Instances, j # i
      PROVE  pc'[j] = pc[j] /\ timer'[j] = timer[j] /\ leader'[j] = leader[j] /\ Deadline(j)' = Deadline(j)
  <2>1. pc'[j] = pc[j]
    BY <1>3, <1>5 DEF Round, SetNx, NoRedis, SetLost, Acquired, Get, Renew, CommandFails, HaTypeOK, Goto
  <2>2. timer'[j] = timer[j]
    BY <1>3, <1>5 DEF Round, SetNx, NoRedis, SetLost, Acquired, Get, Renew, CommandFails, HaTypeOK
  <2>3. leader'[j] = leader[j]
    BY <1>3, <1>5 DEF Round, SetNx, NoRedis, SetLost, Acquired, Get, Renew, CommandFails, HaTypeOK, Lead
  <2> QED
    BY <2>1, <2>2, <2>3 DEF Deadline
<1>6. CASE SetNx(i) /\ holder = Free
  <2>1. /\ holder' = i /\ ttl' = Lease /\ pc'[i] = "acquired" /\ leader' = leader
        /\ timer'[i] = timer[i] + Half /\ timer[i] <= 0
    BY <1>3, <1>6 DEF SetNx, HaTypeOK, Goto, Due
  <2>2. Deadline(i)' <= 0
    BY <1>4, <2>1 DEF Deadline
  <2>3. \A j \in Instances : ~leader[j] /\ pc[j] # "acquired" /\ pc[j] # "holds"
    BY <1>2, <1>6, HaAssumption
  <2>4. Deadline(i)' \in Int
    BY <1>4, <2>1 DEF Deadline
  <2> QED
    BY <1>5, <2>1, <2>2, <2>3, <2>4
<1>7. CASE SetNx(i) /\ holder # Free
  <2>1. /\ holder' = holder /\ ttl' = ttl /\ pc'[i] = "refused" /\ leader' = leader /\ pc[i] = "sleep"
        /\ timer'[i] = timer[i] + Half
    BY <1>3, <1>7 DEF SetNx, HaTypeOK, Goto, Due, redis
  <2>2. Deadline(i)' = Deadline(i)
    BY <1>4, <2>1 DEF Deadline
  <2> QED
    BY <1>0, <1>2, <1>5, <2>1, <2>2
<1>8. CASE Acquired(i) \/ Renew(i)
  <2>1. /\ holder' = holder /\ holder = i /\ ttl' = Lease /\ pc'[i] = "sleep" /\ leader'[i]
        /\ timer' = timer
    BY <1>2, <1>3, <1>8, HaAssumption DEF Acquired, Renew, HaTypeOK, Goto, Lead, Expire
  <2>2. Deadline(i)' <= Half /\ Deadline(i)' \in Int
    BY <1>4, <2>1 DEF Deadline
  <2> QED
    BY <1>2, <1>5, <2>1, <2>2
<1>9. CASE Get(i)
  <2>1. /\ holder' = holder /\ ttl' = ttl /\ timer' = timer /\ pc[i] = "refused"
        /\ holder = i => pc'[i] = "holds" /\ leader' = leader
        /\ holder # i => pc'[i] = "sleep" /\ ~leader'[i]
    BY <1>3, <1>9 DEF Get, HaTypeOK, Goto, Lead, redis
  <2>2. holder = i => Deadline(i)' = Deadline(i)
    BY <1>4, <2>1 DEF Deadline
  <2> QED
    BY <1>0, <1>2, <1>5, <2>1, <2>2
<1> QED
  BY <1>3, <1>6, <1>7, <1>8, <1>9 DEF Round, NoRedis, SetLost, CommandFails

\* Time passes in calm times: with a busy instance only if nothing has crashed and the
\* lateness stays below what an interval leaves of the lease.
LEMMA TickLeases ==
    ASSUME HInv, HaTick
    PROVE  Leases'
<1> USE HalfFacts
<1>0. UNCHANGED <<pc, leader, up, reach, crashes, outages>> /\ HaTypeOK
  BY DEF HaTick, HInv
<1>1. late \in Nat /\ late' \in Nat /\ late' >= late /\ ttl \in 0 .. Lease
  BY <1>0 DEF HaTick, HaTypeOK
<1>2. SUFFICES ASSUME Calm, Calm'
               PROVE  /\ \A j \in Instances : leader[j] => holder' = j /\ ttl' >= Deadline(j)' + Lease - Half
                      /\ \A j \in Instances : pc[j] = "acquired" => holder' = j /\ ttl' >= Deadline(j)' + Lease
                      /\ \A j \in Instances : pc[j] = "holds" => holder' = j
                      /\ crashes = 0 => \A j \in Instances : holder' = j => leader[j] \/ pc[j] = "acquired"
  <2>1. Calm' => Calm
    BY <1>0, <1>1 DEF Calm
  <2> QED
    BY <1>0, <1>2, <2>1 DEF Leases
<1>3. /\ \A j \in Instances : leader[j] => holder = j /\ ttl >= Deadline(j) + Lease - Half
      /\ \A j \in Instances : pc[j] = "acquired" => holder = j /\ ttl >= Deadline(j) + Lease
      /\ \A j \in Instances : pc[j] = "holds" => holder = j
      /\ crashes = 0 => \A j \in Instances : holder = j => leader[j] \/ pc[j] = "acquired"
  BY <1>2 DEF HInv, Leases
<1>4. ASSUME NEW j \in Instances, leader[j] \/ pc[j] # "sleep"
      PROVE  /\ Deadline(j)' = Deadline(j) - 1 /\ Deadline(j) \in Int
             /\ Deadline(j) + Lease - Half > 1
  <2>1. /\ up[j] /\ timer[j] \in Int /\ timer'[j] = timer[j] - 1 /\ Deadline(j) >= -late
    BY <1>0, <1>4 DEF HInv, Schedule, HaTick, HaTypeOK
  <2>2. Deadline(j)' = Deadline(j) - 1 /\ Deadline(j) \in Int
    BY <1>0, <2>1 DEF Deadline
  <2>3. CASE \E k \in Instances : Busy(k)
    <3>1. late' = late + 1
      BY <2>3 DEF HaTick
    <3>2. late + 1 < Lease - Half
      BY <1>1, <1>2, <3>1 DEF Calm
    <3> QED
      BY <1>1, <2>1, <2>2, <3>2
  <2>4. CASE ~ \E k \in Instances : Busy(k)
    <3>1. pc[j] = "sleep" /\ timer[j] >= 1
      BY <2>1, <2>4 DEF Busy
    <3>2. Deadline(j) >= 1
      BY <3>1 DEF Deadline
    <3> QED
      BY <2>2, <3>2
  <2> QED
    BY <2>3, <2>4
<1>5. /\ ttl > 1 => holder' = holder /\ ttl' = ttl - 1
      /\ holder' = holder \/ holder' = Free
  BY <1>1 DEF HaTick
<1>6. ASSUME NEW j \in Instances, leader[j]
      PROVE  holder' = j /\ ttl' >= Deadline(j)' + Lease - Half
  BY <1>1, <1>3, <1>4, <1>5, <1>6
<1>7. ASSUME NEW j \in Instances, pc[j] = "acquired"
      PROVE  holder' = j /\ ttl' >= Deadline(j)' + Lease
  BY <1>1, <1>3, <1>4, <1>5, <1>7
<1>8. ASSUME NEW j \in Instances, pc[j] = "holds"
      PROVE  holder' = j
  <2>1. Busy(j)
    BY <1>8 DEF HInv, Schedule, Busy
  <2>2. late' = late + 1 /\ crashes = 0
    BY <1>0, <1>1, <1>2, <2>1 DEF HaTick, Calm
  <2>3. leader[j]
    BY <1>3, <1>8, <2>2
  <2> QED
    BY <1>6, <2>3
<1>9. crashes = 0 => \A j \in Instances : holder' = j => leader[j] \/ pc[j] = "acquired"
  BY <1>3, <1>5, HaAssumption
<1> QED
  BY <1>6, <1>7, <1>8, <1>9

\* A crash, a start and the end of an outage leave the key and the leaders' view of it.
LEMMA FaultLeases ==
    ASSUME HInv, NEW i \in Instances, Fault(i)
    PROVE  Leases'
<1> USE HalfFacts
<1>0. UNCHANGED <<holder, ttl, late>> /\ HaTypeOK
  BY DEF Fault, HaCrash, Start, Cut, Heal, redis, HInv
<1>1. crashes \in Nat /\ outages \in Nat
  BY <1>0 DEF HaTypeOK
<1>2. CASE HaCrash(i)
  <2>1. Calm' => Calm /\ crashes' # 0
    BY <1>0, <1>1, <1>2 DEF HaCrash, Calm
  <2>2. ASSUME NEW j \in Instances, leader'[j] \/ pc'[j] # "sleep"
        PROVE  pc'[j] = pc[j] /\ leader'[j] = leader[j] /\ Deadline(j)' = Deadline(j)
    <3>1. j # i
      BY <1>0, <1>2, <2>2 DEF HaCrash, Lead, Goto, HaTypeOK
    <3>2. pc'[j] = pc[j] /\ leader'[j] = leader[j] /\ timer' = timer
      BY <1>0, <1>2, <3>1 DEF HaCrash, Lead, Goto, HaTypeOK
    <3> QED
      BY <3>2 DEF Deadline
  <2> QED
    BY <1>0, <2>1, <2>2 DEF HInv, Leases
<1>3. CASE Start(i)
  <2>1. Calm' => Calm
    BY <1>0, <1>3 DEF Start, Calm
  <2>2. ASSUME NEW j \in Instances, leader[j] \/ pc[j] # "sleep"
        PROVE  Deadline(j)' = Deadline(j)
    <3>1. j # i
      BY <1>3, <2>2 DEF HInv, Schedule, Start
    <3>2. timer'[j] = timer[j] /\ pc' = pc
      BY <1>0, <1>3, <3>1 DEF Start, HaTypeOK
    <3> QED
      BY <3>2 DEF Deadline
  <2>3. UNCHANGED <<pc, leader, crashes>>
    BY <1>3 DEF Start
  <2> QED
    BY <1>0, <2>1, <2>2, <2>3 DEF HInv, Leases
<1>4. CASE Cut(i)
  <2>1. ~Calm'
    BY <1>1, <1>4 DEF Cut, Calm
  <2> QED
    BY <2>1 DEF Leases
<1>5. CASE Heal(i)
  <2>1. UNCHANGED <<pc, leader, crashes, outages, timer>>
    BY <1>5 DEF Heal
  <2>2. Calm' => Calm
    BY <1>0, <2>1 DEF Calm
  <2> QED
    BY <1>0, <2>1, <2>2 DEF HInv, Leases, Deadline
<1> QED
  BY <1>2, <1>3, <1>4, <1>5 DEF Fault

\* Every step keeps the invariant.
LEMMA HInvStep == HInv /\ [HaNext]_haVars => HInv'
<1> SUFFICES ASSUME HInv, [HaNext]_haVars PROVE HInv'
  OBVIOUS
<1>1. HaTypeOK' /\ Schedule'
  BY TypeStep DEF HInv
<1>2. Leases'
  <2>1. CASE UNCHANGED haVars
    BY <2>1 DEF haVars, redis, env, HInv, Leases, Calm, Deadline
  <2>2. CASE HaNext
    BY <1>1, <2>2, RoundLeases, FaultLeases, TickLeases DEF HaNext, Fault
  <2> QED
    BY <2>1, <2>2
<1> QED
  BY <1>1, <1>2 DEF HInv

\* ha.rs 35, is_leader "Returns true if this instance currently holds the leader lease": for
\* every lease and set of instances, as long as nobody was cut off from Redis, and either no
\* round was late or nothing crashed and rounds were late by less than what an interval
\* leaves of the lease.
THEOREM LeaderHoldsLeaseHolds == HaSpec => []LeaderHoldsLease
<1>1. HInv => LeaderHoldsLease
  <2>1. SUFFICES ASSUME HInv, Calm, NEW i \in Instances, leader[i]
                 PROVE  holder = i /\ ttl > 0
    BY DEF LeaderHoldsLease, Calm
  <2>2. holder = i
    BY <2>1 DEF HInv, Leases
  <2>3. ttl \in Nat /\ ttl # 0
    BY <2>1, <2>2, HaAssumption DEF HInv, HaTypeOK
  <2> QED
    BY <2>2, <2>3
<1> QED
  BY <1>1, InitInv, HInvStep, PTL DEF HaSpec

-----------------------------------------------------------------------------
(* A vacancy is filled within a lease and an interval *)

\* A round in which nobody comes to lead leaves the key to run out.
LEMMA RoundVacancies ==
    ASSUME HaTypeOK, NEW i \in Instances, Round(i), NEW k \in Instances, Filling(k)
    PROVE  Filling(k)'
<1> USE HalfFacts
<1>0. UNCHANGED <<up, reach, vacant>> /\ up[i] /\ reach[i]
  BY DEF Round, SetNx, NoRedis, SetLost, Acquired, Get, Renew, CommandFails, env, Due, Filling
<1>1. /\ up[k] /\ vacant[k] < Lease + Half
      /\ \A j \in Instances : reach[j]
      /\ \A j \in Instances : up[j] => timer[j] >= 0
      /\ \A j \in Instances : pc[j] # "sleep" => timer[j] >= 1
      /\ \A j \in Instances : leader[j] => pc[j] = "sleep" /\ timer[j] >= 1
  BY DEF Filling
<1>2. ASSUME NEW j \in Instances, j # i
      PROVE  pc'[j] = pc[j] /\ timer'[j] = timer[j] /\ leader'[j] = leader[j]
  <2>1. pc'[j] = pc[j]
    BY <1>2 DEF Round, SetNx, NoRedis, SetLost, Acquired, Get, Renew, CommandFails, HaTypeOK, Goto
  <2>2. timer'[j] = timer[j]
    BY <1>2 DEF Round, SetNx, NoRedis, SetLost, Acquired, Get, Renew, CommandFails, HaTypeOK
  <2>3. leader'[j] = leader[j]
    BY <1>2 DEF Round, SetNx, NoRedis, SetLost, Acquired, Get, Renew, CommandFails, HaTypeOK, Lead
  <2> QED
    BY <2>1, <2>2, <2>3
<1>3. timer[i] \in Int /\ timer[k] \in Int
  BY DEF HaTypeOK
<1>4. CASE SetNx(i)
  <2>1. /\ pc[i] = "sleep" /\ timer[i] = 0 /\ timer'[i] = timer[i] + Half /\ leader' = leader
        /\ holder = Free => pc'[i] = "acquired"
        /\ holder # Free => holder' = holder /\ ttl' = ttl /\ pc'[i] = "refused"
    BY <1>0, <1>1, <1>3, <1>4 DEF SetNx, Due, HaTypeOK, Goto, redis
  <2>2. ~leader[i] /\ timer'[i] >= 1
    BY <1>1, <2>1
  <2>3. Idle' => Idle /\ holder # Free
    BY <1>2, <2>1, <2>2 DEF Idle
  <2>4. Idle' => holder' # Free /\ vacant'[k] + ttl' <= Lease
    BY <1>0, <2>1, <2>3 DEF Filling
  <2> QED
    BY <1>0, <1>1, <1>2, <2>1, <2>2, <2>4 DEF Filling
<1>5. CASE Acquired(i) \/ Renew(i)
  <2>1. leader'[i] /\ pc'[i] = "sleep" /\ timer' = timer /\ pc[i] # "sleep"
    BY <1>5 DEF Acquired, Renew, HaTypeOK, Lead, Goto
  <2>2. ~Idle'
    BY <2>1 DEF Idle
  <2> QED
    BY <1>0, <1>1, <1>2, <2>1, <2>2 DEF Filling
<1>6. CASE Get(i)
  <2>1. /\ pc[i] = "refused" /\ timer' = timer /\ holder' = holder /\ ttl' = ttl
        /\ holder = i => pc'[i] = "holds" /\ leader' = leader
        /\ holder # i => pc'[i] = "sleep" /\ ~leader'[i]
    BY <1>6 DEF Get, HaTypeOK, Lead, Goto, redis
  <2>2. ~leader[i] /\ timer'[i] >= 1
    BY <1>1, <2>1
  <2>3. Idle' => Idle
    BY <1>2, <2>1, <2>2 DEF Idle
  <2>4. Idle' => IF holder' = Free THEN vacant'[k] + timer'[k] < Lease + Half
                                   ELSE vacant'[k] + ttl' <= Lease
    BY <1>0, <2>1, <2>3 DEF Filling
  <2> QED
    BY <1>0, <1>1, <1>2, <2>1, <2>2, <2>4 DEF Filling
<1> QED
  BY <1>0, <1>4, <1>5, <1>6 DEF Round, NoRedis, SetLost, CommandFails

\* A vacancy grows only while nobody is busy: its key or its interval comes closer.
LEMMA TickVacancies ==
    ASSUME HaTypeOK, Schedule, Vacancies, HaTick, NEW k \in Instances, vacant'[k] > 0
    PROVE  Filling(k)'
<1> USE HalfFacts
<1>0. UNCHANGED <<pc, leader, up, reach>>
  BY DEF HaTick
<1>1. ~ \E i \in Instances : Busy(i)
  BY DEF HaTick
<1>2. /\ vacant'[k] = Vacancy(k) /\ up[k] /\ vacant[k] \in Nat
      /\ \A j \in Instances : reach[j] /\ ~leader[j]
  BY <1>1 DEF HaTick, Vacancy, HaTypeOK
<1>3. ASSUME NEW j \in Instances
      PROVE  pc[j] = "sleep" /\ (up[j] => timer[j] >= 1 /\ timer'[j] = timer[j] - 1 /\ timer[j] <= Half)
             /\ timer[j] \in Int
  <2>1. timer[j] \in -MaxLate .. Half /\ timer'[j] = IF up[j] THEN timer[j] - 1 ELSE 0
    BY DEF HaTick, HaTypeOK
  <2>2. ~Busy(j)
    BY <1>1
  <2> QED
    BY <2>1, <2>2 DEF Schedule, Busy
<1>4. Idle
  BY <1>2, <1>3 DEF Idle
<1>5. vacant[k] > 0 => Filling(k)
  BY DEF Vacancies
<1>6. vacant[k] < Lease + Half /\ vacant'[k] = vacant[k] + 1
  BY <1>2, <1>5 DEF Vacancy, Filling
<1>7. ttl \in 0 .. Lease /\ (ttl = 0 <=> holder = Free)
  BY DEF HaTypeOK
<1>8. IF holder = Free THEN vacant[k] + timer[k] <= Lease + Half ELSE vacant[k] + ttl <= Lease
  <2>1. CASE vacant[k] = 0
    BY <1>2, <1>3, <1>7, <2>1
  <2>2. CASE vacant[k] > 0
    BY <1>2, <1>3, <1>4, <1>5, <2>2 DEF Filling
  <2> QED
    BY <1>2, <2>1, <2>2
<1>9. vacant[k] + timer[k] < Lease + Half \/ holder # Free
  <2>1. CASE vacant[k] = 0
    BY <1>2, <1>3, <2>1
  <2>2. CASE vacant[k] > 0
    BY <1>4, <1>5, <2>2 DEF Filling
  <2> QED
    BY <1>2, <2>1, <2>2
<1>10. timer[k] >= 1 /\ timer'[k] = timer[k] - 1 /\ timer[k] <= Half /\ timer[k] \in Int
  BY <1>2, <1>3
<1>11. IF holder' = Free THEN vacant'[k] + timer'[k] < Lease + Half
                         ELSE vacant'[k] + ttl' <= Lease
  <2>1. CASE holder = Free
    <3>1. holder' = Free
      BY <2>1 DEF HaTick
    <3> QED
      BY <1>2, <1>6, <1>9, <1>10, <2>1, <3>1
  <2>2. CASE holder # Free /\ ttl = 1
    <3>1. holder' = Free /\ vacant[k] + 1 <= Lease
      BY <1>2, <1>8, <2>2 DEF HaTick
    <3> QED
      BY <1>2, <1>6, <1>10, <3>1
  <2>3. CASE holder # Free /\ ttl # 1
    <3>1. holder' = holder /\ ttl' = ttl - 1 /\ ttl \in Nat
      BY <1>7, <2>3 DEF HaTick
    <3> QED
      BY <1>2, <1>6, <1>8, <2>3, <3>1
  <2> QED
    BY <2>1, <2>2, <2>3
<1>12. vacant'[k] < Lease + Half
  <2>1. CASE holder = Free
    BY <1>2, <1>6, <1>9, <1>10, <2>1
  <2>2. CASE holder # Free
    BY <1>2, <1>6, <1>7, <1>8, <2>2
  <2> QED
    BY <2>1, <2>2
<1>13. \A j \in Instances : up[j] => timer'[j] >= 0
  BY <1>3
<1> QED
  BY <1>0, <1>2, <1>3, <1>11, <1>12, <1>13 DEF Filling

\* Faults end a count; only a restart does not, and the instance that joins tries at once.
LEMMA FaultVacancies ==
    ASSUME HaTypeOK, Schedule, NEW i \in Instances, Fault(i),
           NEW k \in Instances, vacant'[k] > 0, vacant[k] > 0 => Filling(k)
    PROVE  Filling(k)'
<1>1. Start(i) /\ k # i /\ vacant'[k] = vacant[k]
  <2>1. Start(i)
    <3>1. vacant'[k] # 0
      OBVIOUS
    <3> QED
      BY <3>1 DEF Fault, HaCrash, Cut, Heal
  <2> QED
    BY <2>1 DEF Start, HaTypeOK
<1>2. UNCHANGED <<holder, ttl, pc, leader, reach>>
  BY <1>1 DEF Start, redis
<1>3. pc[i] = "sleep" /\ ~leader[i] /\ up'[i] /\ timer'[i] = 0
  BY <1>1 DEF Start, Schedule, HaTypeOK
<1>4. \A j \in Instances : j # i => timer'[j] = timer[j] /\ up'[j] = up[j]
  BY <1>1 DEF Start, HaTypeOK
<1>5. Filling(k)
  BY <1>1
<1>6. Idle' => Idle
  BY <1>2 DEF Idle
<1> QED
  BY <1>1, <1>2, <1>3, <1>4, <1>5, <1>6 DEF Filling

\* Every step keeps the bound on vacancies.
LEMMA VacanciesStep == HaTypeOK /\ Schedule /\ Vacancies /\ [HaNext]_haVars => Vacancies'
<1> SUFFICES ASSUME HaTypeOK, Schedule, Vacancies, [HaNext]_haVars,
                    NEW k \in Instances, vacant'[k] > 0
             PROVE  Filling(k)'
  BY DEF Vacancies
<1>0. vacant[k] > 0 => Filling(k)
  BY DEF Vacancies
<1>1. ASSUME NEW i \in Instances, Round(i) PROVE Filling(k)'
  <2>1. vacant' = vacant
    BY <1>1 DEF Round, SetNx, NoRedis, SetLost, Acquired, Get, Renew, CommandFails
  <2> QED
    BY <1>0, <1>1, <2>1, RoundVacancies
<1>2. CASE UNCHANGED haVars
  BY <1>0, <1>2 DEF haVars, redis, env, Filling, Idle
<1>3. ASSUME NEW i \in Instances, Fault(i) PROVE Filling(k)'
  BY <1>0, <1>3, FaultVacancies
<1>4. CASE HaTick
  BY <1>4, TickVacancies
<1> QED
  BY <1>1, <1>2, <1>3, <1>4 DEF HaNext, Fault

\* While an instance is up, nobody is cut off and no other fault follows, somebody leads
\* again before a lease and an interval have passed, for every lease and set of instances.
THEOREM TakeoverHolds == HaSpec => []TakeoverWithinLeaseAndInterval
<1>1. HaTypeOK /\ Vacancies => TakeoverWithinLeaseAndInterval
  <2>1. SUFFICES ASSUME HaTypeOK, Vacancies, NEW i \in Instances
                 PROVE  vacant[i] < Lease + Half
    BY DEF TakeoverWithinLeaseAndInterval
  <2>2. vacant[i] \in Nat
    BY <2>1, HalfFacts DEF HaTypeOK
  <2>3. CASE vacant[i] = 0
    BY <2>3, HalfFacts
  <2>4. CASE vacant[i] > 0
    BY <2>1, <2>4 DEF Vacancies, Filling
  <2> QED
    BY <2>2, <2>3, <2>4
<1>2. HInv => HaTypeOK /\ Schedule
  BY DEF HInv
<1> QED
  BY <1>1, <1>2, InitInv, TypeStep, VacanciesStep, PTL DEF HaSpec
=============================================================================
