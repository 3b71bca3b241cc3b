----------------------------- MODULE VideoJobs ------------------------------
(* The runner of video jobs (src/src/media/video-jobs.ts): slots, a        *)
(* bounded queue in front of them and an hourly allowance per tenant.      *)
(*                                                                         *)
(* A call is one call of run. A timer (the wait in the queue, the budget   *)
(* of a job) may fire at any time after it is set: no property depends on  *)
(* how long it is. The clock is there for the hour.                        *)
EXTENDS Integers, FiniteSets, Sequences

CONSTANTS
  Calls,
  Tenants,
  tenant,          \* call -> tenantId
  Signals,         \* the calls with a signal
  MaxConcurrent,   \* maxConcurrent     (2)
  MaxQueued,       \* maxQueued         (8)
  PerTenant,       \* perTenantPerHour  (30)
  Hour,            \* HOUR_MS
  MaxTime          \* bound: the clock stops here

ASSUME RunnerAssumption ==
  /\ IsFiniteSet(Calls) /\ Signals \subseteq Calls /\ tenant \in [Calls -> Tenants]
  /\ MaxConcurrent \in Nat \ {0} /\ MaxQueued \in Nat /\ PerTenant \in Nat
  /\ Hour \in Nat \ {0} /\ MaxTime \in Nat

VARIABLES
  now,             \* now()
  running,
  waiters,
  tenantWindows,   \* tenant -> the calls it made in the hour, with their times
  phase,           \* call -> where run is
  outcome,         \* call -> how the job, or run, ended
  aborted,         \* the calls whose own signal is aborted
  cut              \* the calls whose job runs with an aborted signal

runnerVars == <<running, waiters, tenantWindows, phase, outcome, cut>>

Phases == {"idle", "queued", "granted", "mkdtemp", "job", "cleanup", "settled"}

\* The calls that hold a slot.
Holders == {c \in Calls : phase[c] \in {"granted", "mkdtemp", "job", "cleanup"}}

RunnerOK ==
  /\ now \in Nat /\ running \in Int
  /\ waiters \in Seq(Calls) /\ Len(waiters) <= MaxQueued
  /\ tenantWindows \in [Tenants -> SUBSET [by : Calls, at : Nat]]
  /\ phase \in [Calls -> Phases]
  /\ outcome \in [Calls -> {"none", "ok", "error"}]
  /\ aborted \subseteq Calls /\ cut \subseteq Calls

InitRunner ==
  /\ now = 0 /\ running = 0 /\ waiters = <<>>
  /\ tenantWindows = [t \in Tenants |-> {}]
  /\ phase = [c \in Calls |-> "idle"]
  /\ outcome = [c \in Calls |-> "none"]
  /\ aborted = {} /\ cut = {}
-----------------------------------------------------------------------------
\* run rejects.
Rejects(c) ==
  /\ phase' = [phase EXCEPT ![c] = "settled"]
  /\ outcome' = [outcome EXCEPT ![c] = "error"]

\* Mutant: the queue holds one more.
acquireOneMore(c) ==
  \/ /\ running < MaxConcurrent
     /\ running' = running + 1
     /\ phase' = [phase EXCEPT ![c] = "granted"]
     /\ UNCHANGED <<waiters, outcome>>
  \/ /\ running >= MaxConcurrent /\ Len(waiters) > MaxQueued
     /\ Rejects(c)
     /\ UNCHANGED <<running, waiters>>
  \/ /\ running >= MaxConcurrent /\ Len(waiters) <= MaxQueued
     /\ waiters' = Append(waiters, c)
     /\ phase' = [phase EXCEPT ![c] = "queued"]
     /\ UNCHANGED <<running, outcome>>

\* acquire: a slot, a place in the queue, or VideoJobBusyError.
acquire(c) ==
  \/ /\ running < MaxConcurrent
     /\ running' = running + 1
     /\ phase' = [phase EXCEPT ![c] = "granted"]
     /\ UNCHANGED <<waiters, outcome>>
  \/ /\ running >= MaxConcurrent /\ Len(waiters) >= MaxQueued
     /\ Rejects(c)
     /\ UNCHANGED <<running, waiters>>
  \/ /\ running >= MaxConcurrent /\ Len(waiters) < MaxQueued
     /\ waiters' = Append(waiters, c)
     /\ phase' = [phase EXCEPT ![c] = "queued"]
     /\ UNCHANGED <<running, outcome>>

purged == [t \in Tenants |-> {s \in tenantWindows[t] : now - s.at < Hour}]

\* run up to its first wait. A call counts for the hour before it has a slot,
\* and still does when the queue is full (checkTenantRate, acquire).
run(c) ==
  /\ phase[c] = "idle"
  /\ \/ /\ c \in aborted
        /\ Rejects(c)
        /\ UNCHANGED <<running, waiters, tenantWindows>>
     \/ /\ c \notin aborted /\ Cardinality(purged[tenant[c]]) >= PerTenant
        /\ tenantWindows' = purged
        /\ Rejects(c)
        /\ UNCHANGED <<running, waiters>>
     \/ /\ c \notin aborted /\ Cardinality(purged[tenant[c]]) < PerTenant
        /\ tenantWindows' = [purged EXCEPT ![tenant[c]] = @ \cup {[by |-> c, at |-> now]}]
        /\ acquire(c)
  /\ UNCHANGED <<now, aborted, cut>>

\* Mutant: a freed slot is not handed on.
releaseOnly(c) ==
  /\ running' = running - 1
  /\ phase' = [phase EXCEPT ![c] = "settled"]
  /\ UNCHANGED waiters

\* release: the slot goes to the first waiter in the same step, or is free.
release(c) ==
  \/ /\ waiters = <<>>
     /\ running' = running - 1
     /\ phase' = [phase EXCEPT ![c] = "settled"]
     /\ UNCHANGED waiters
  \/ /\ waiters # <<>>
     /\ running' = (running - 1) + 1
     /\ phase' = [phase EXCEPT ![c] = "settled", ![Head(waiters)] = "granted"]
     /\ waiters' = Tail(waiters)

\* The call goes on with its slot: listeners and the budget's timer are set.
Start(c) ==
  /\ phase[c] = "granted" /\ c \notin aborted
  /\ phase' = [phase EXCEPT ![c] = "mkdtemp"]
  /\ UNCHANGED <<now, running, waiters, tenantWindows, outcome, aborted, cut>>

\* Its caller left while the slot was handed over.
StartAborted(c) ==
  /\ phase[c] = "granted" /\ c \in aborted
  /\ release(c)
  /\ outcome' = [outcome EXCEPT ![c] = "error"]
  /\ UNCHANGED <<now, tenantWindows, aborted, cut>>

MadeDir(c) ==
  /\ phase[c] = "mkdtemp"
  /\ phase' = [phase EXCEPT ![c] = "job"]
  /\ UNCHANGED <<now, running, waiters, tenantWindows, outcome, aborted, cut>>

\* Mutant: mkdtemp outside the try: the slot is not released.
NoDirLeaks(c) ==
  /\ phase[c] = "mkdtemp"
  /\ Rejects(c)
  /\ UNCHANGED <<now, running, waiters, tenantWindows, aborted, cut>>

\* mkdtemp fails.
NoDir(c) ==
  /\ phase[c] = "mkdtemp"
  /\ release(c)
  /\ outcome' = [outcome EXCEPT ![c] = "error"]
  /\ cut' = cut \ {c}
  /\ UNCHANGED <<now, tenantWindows, aborted>>

\* The job settles, and its signal with it; its scratch directory is being
\* removed.
JobEnds(c, result) ==
  /\ phase[c] = "job"
  /\ phase' = [phase EXCEPT ![c] = "cleanup"]
  /\ outcome' = [outcome EXCEPT ![c] = result]
  /\ cut' = cut \ {c}
  /\ UNCHANGED <<now, running, waiters, tenantWindows, aborted>>

\* rm has ended, well or not.
CleanedUp(c) ==
  /\ phase[c] = "cleanup"
  /\ release(c)
  /\ UNCHANGED <<now, tenantWindows, outcome, aborted, cut>>

\* waiter.cancel: out of the queue at once.
cancel(c) ==
  /\ \E i \in DOMAIN waiters :
       /\ waiters[i] = c
       /\ waiters' = SubSeq(waiters, 1, i - 1) \o SubSeq(waiters, i + 1, Len(waiters))
  /\ Rejects(c)

\* queueWaitMs have passed without a slot.
QueueTimeout(c) ==
  /\ phase[c] = "queued"
  /\ cancel(c)
  /\ UNCHANGED <<now, running, tenantWindows, aborted, cut>>

\* The caller's signal: it takes a waiter out of the queue, and aborts the
\* signal of a job that has started. It has no listener in between, and none
\* when the job is over.
Abort(c) ==
  /\ c \in Signals \ aborted /\ phase[c] \notin {"cleanup", "settled"}
  /\ aborted' = aborted \cup {c}
  /\ cut' = IF phase[c] \in {"mkdtemp", "job"} THEN cut \cup {c} ELSE cut
  /\ IF phase[c] = "queued" THEN cancel(c) ELSE UNCHANGED <<waiters, phase, outcome>>
  /\ UNCHANGED <<now, running, tenantWindows>>

\* The budget of the job is used up.
DeadlineFires(c) ==
  /\ phase[c] \in {"mkdtemp", "job"} /\ c \notin cut
  /\ cut' = cut \cup {c}
  /\ UNCHANGED <<now, running, waiters, tenantWindows, phase, outcome, aborted>>

Tick ==
  /\ now < MaxTime
  /\ now' = now + 1
  /\ UNCHANGED <<runnerVars, aborted>>

\* The runner by itself, with jobs that may end at any time.
RunnerNext ==
  \/ Tick
  \/ \E c \in Calls :
       \/ run(c) \/ Start(c) \/ StartAborted(c) \/ MadeDir(c) \/ NoDir(c)
       \/ JobEnds(c, "ok") \/ JobEnds(c, "error") \/ CleanedUp(c)
       \/ QueueTimeout(c) \/ Abort(c) \/ DeadlineFires(c)

RunnerSpec == InitRunner /\ [][RunnerNext]_<<now, runnerVars, aborted>>
-----------------------------------------------------------------------------
\* The slots counted are those in use, never more than there are: whichever
\* way a call ends (refused, timed out, aborted in the queue or while the slot
\* is handed over, no scratch directory, a failed job), none leaks.
SlotsHeld == running = Cardinality(Holders) /\ running <= MaxConcurrent

\* The queue holds exactly the calls that wait, each once, and somebody waits
\* only while every slot is in use: no wake-up is lost, no gone caller keeps a
\* place (waiter.cancel, release).
NobodyWaitsInVain ==
  /\ waiters # <<>> => running = MaxConcurrent
  /\ \A c \in Calls : phase[c] = "queued" => \E i \in DOMAIN waiters : waiters[i] = c
  /\ \A i \in DOMAIN waiters : phase[waiters[i]] = "queued"
  /\ \A i, j \in DOMAIN waiters : waiters[i] = waiters[j] => i = j
=============================================================================
