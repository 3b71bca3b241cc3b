--------------------------- MODULE VideoAnalysis ---------------------------
(* The analysis of videos with Gemini                                      *)
(* (src/src/gemini/video-analysis.ts, uploadFile of gemini/client.ts) over *)
(* the job runner: identical calls share one work in flight, the tenant    *)
(* has an hourly allowance, and a large video is a file at Google until it *)
(* is deleted.                                                             *)
(*                                                                         *)
(* Work is named after the call that started it. A call begins here when   *)
(* its API key is resolved. Left out: what is downloaded, compacted, asked *)
(* and answered, and the entries of the result cache but for their keys:   *)
(* one may expire or be evicted at any time.                               *)
EXTENDS VideoJobs

CONSTANTS
  Deliveries,        \* the calls of run by other tools, by deliverVideos
  CacheKeys,
  cacheKey,          \* call -> its key, which names tenant, video and question
  NoCall,
  AnalysesPerHour    \* GEMINI_ANALYSES_PER_TENANT_PER_HOUR

Analyses == Calls \ Deliveries

ASSUME AnalysisAssumption ==
  /\ Deliveries \subseteq Calls
  /\ cacheKey \in [Calls -> CacheKeys] /\ NoCall \notin Calls
  /\ \A c, d \in Calls : cacheKey[c] = cacheKey[d] => tenant[c] = tenant[d]
  /\ AnalysesPerHour \in Nat

VARIABLES
  call,        \* where analyzeVideoWithGemini is
  joins,       \* the work of others a call waits for, or NoCall
  work,        \* the promise of a call's work
  step,        \* where the work is inside the job, or after it
  inFlight,    \* key -> work in progress, or NoCall
  cache,       \* the keys with a cached result
  permits,     \* tenant -> the stamps of the allowance
  startedAt,   \* history: when a call took the permit it has
  billed,      \* the works that may have cost something
  file         \* the works whose upload is at Google, still to be deleted

Allowance == INSTANCE SlidingWindow WITH
  Callers <- Calls, WindowKeys <- Tenants, Limit <- AnalysesPerHour,
  WindowMs <- Hour, windows <- permits

vars == <<now, runnerVars, aborted, call, joins, work, step, inFlight, cache,
          permits, startedAt, billed, file>>

TypeOK ==
  /\ RunnerOK
  /\ call \in [Calls -> {"new", "joined", "working", "answered", "failed"}]
  /\ joins \in [Calls -> Calls \cup {NoCall}]
  /\ work \in [Calls -> {"none", "pending", "ok", "failed"}]
  /\ step \in [Calls -> {"none", "prepare", "announce", "upload", "generate",
                         "delete_ok", "delete_error", "publish"}]
  /\ inFlight \in [CacheKeys -> Calls \cup {NoCall}]
  /\ cache \subseteq CacheKeys /\ billed \subseteq Calls /\ file \subseteq Calls
  /\ permits \in [Tenants -> SUBSET Allowance!Stamps]
  /\ startedAt \in [Calls -> Nat]

Init ==
  /\ InitRunner
  /\ call = [c \in Calls |-> "new"] /\ joins = [c \in Calls |-> NoCall]
  /\ work = [c \in Calls |-> "none"] /\ step = [c \in Calls |-> "none"]
  /\ inFlight = [k \in CacheKeys |-> NoCall]
  /\ cache = {} /\ billed = {} /\ file = {}
  /\ permits = [t \in Tenants |-> {}]
  /\ startedAt = [c \in Calls |-> 0]
-----------------------------------------------------------------------------
\* The call does the work itself: a permit, the job and the entry in flight,
\* which replaces any other. Without a permit it fails.
startWork(c) ==
  /\ Allowance!acquire(c, tenant[c])
  /\ \/ /\ Allowance!MayAcquire(tenant[c])
        /\ run(c)
        /\ call' = [call EXCEPT ![c] = "working"]
        /\ work' = [work EXCEPT ![c] = "pending"]
        /\ inFlight' = [inFlight EXCEPT ![cacheKey[c]] = c]
        /\ startedAt' = [startedAt EXCEPT ![c] = now]
     \/ /\ ~Allowance!MayAcquire(tenant[c])
        /\ call' = [call EXCEPT ![c] = "failed"]
        /\ UNCHANGED <<now, runnerVars, aborted, work, inFlight, startedAt>>
  /\ UNCHANGED <<step, cache, billed, file>>

CacheHit(c) ==
  /\ call[c] = "new" /\ cacheKey[c] \in cache
  /\ call' = [call EXCEPT ![c] = "answered"]
  /\ UNCHANGED <<now, runnerVars, aborted, joins, work, step, inFlight, cache,
                 permits, startedAt, billed, file>>

\* An identical call is in flight: wait for it (raceAbort).
Join(c) ==
  /\ call[c] = "new" /\ cacheKey[c] \notin cache /\ inFlight[cacheKey[c]] # NoCall
  /\ IF c \in aborted
     THEN call' = [call EXCEPT ![c] = "failed"] /\ UNCHANGED joins
     ELSE /\ call' = [call EXCEPT ![c] = "joined"]
          /\ joins' = [joins EXCEPT ![c] = inFlight[cacheKey[c]]]
  /\ UNCHANGED <<now, runnerVars, aborted, work, step, inFlight, cache, permits,
                 startedAt, billed, file>>

StartNew(c) ==
  /\ call[c] = "new" /\ cacheKey[c] \notin cache /\ inFlight[cacheKey[c]] = NoCall
  /\ startWork(c)
  /\ UNCHANGED joins

JoinAnswered(c) ==
  /\ call[c] = "joined" /\ work[joins[c]] = "ok"
  /\ call' = [call EXCEPT ![c] = "answered"]
  /\ joins' = [joins EXCEPT ![c] = NoCall]
  /\ UNCHANGED <<now, runnerVars, aborted, work, step, inFlight, cache,
                 permits, startedAt, billed, file>>

JoinStuck(c) == FALSE   \* mutant: a joiner does not notice the failure
\* That caller's failure is not this one's. Neither the cache nor the work in
\* flight is looked at again.
JoinFailed(c) ==
  /\ call[c] = "joined" /\ work[joins[c]] = "failed"
  /\ startWork(c)
  /\ joins' = [joins EXCEPT ![c] = NoCall]

\* The caller goes away; a joiner stops waiting.
AbortCall(c) ==
  /\ call[c] \notin {"answered", "failed"} /\ Abort(c)
  /\ IF call[c] = "joined" /\ work[joins[c]] = "pending"
     THEN /\ call' = [call EXCEPT ![c] = "failed"]
          /\ joins' = [joins EXCEPT ![c] = NoCall]
     ELSE UNCHANGED <<call, joins>>
  /\ UNCHANGED <<work, step, inFlight, cache, permits, startedAt, billed, file>>
-----------------------------------------------------------------------------
\* Inside the job. Everything but the actions on the runner and the step.
analysisVars == <<call, joins, work, inFlight, cache, permits, startedAt>>
At(c, s) == phase[c] = "job" /\ step[c] = s
Goes(c, s) == step' = [step EXCEPT ![c] = s] /\ UNCHANGED <<now, runnerVars, aborted>>
Ends(c, result) == JobEnds(c, result) /\ step' = [step EXCEPT ![c] = "none"]

JobStarts(c) ==
  /\ c \in Analyses /\ MadeDir(c)
  /\ step' = [step EXCEPT ![c] = "prepare"]
  /\ UNCHANGED <<analysisVars, billed, file>>

\* Download, inspection or compaction fails, or the job is out of time.
PrepareFails(c) ==
  /\ At(c, "prepare") /\ Ends(c, "error")
  /\ UNCHANGED <<analysisVars, billed, file>>

\* The last look at the signal before anything is billed.
Prepared(c) ==
  /\ At(c, "prepare") /\ c \notin cut
  /\ Goes(c, "announce")
  /\ UNCHANGED <<analysisVars, billed, file>>

\* The progress report is out: from here on the permit stays used.
Announced(c) ==
  /\ At(c, "announce")
  /\ billed' = billed \cup {c}
  /\ Goes(c, "generate") \/ Goes(c, "upload")
  /\ UNCHANGED <<analysisVars, file>>

\* The upload session is refused: there is no file.
UploadRefused(c) ==
  /\ At(c, "upload") /\ Ends(c, "error")
  /\ UNCHANGED <<analysisVars, billed, file>>

\* Mutant: a lost response leaves nothing to delete.
UploadLostIgnored(c) ==
  /\ At(c, "upload") /\ Ends(c, "error")
  /\ file' \in {file, file \cup {c}}
  /\ UNCHANGED <<analysisVars, billed>>

\* The upload fails after its bytes were sent: Google may hold the file, and
\* the error carries the name to delete.
UploadLost(c) ==
  /\ At(c, "upload") /\ Goes(c, "delete_error")
  /\ file' \in {file, file \cup {c}}
  /\ UNCHANGED <<analysisVars, billed>>

Uploaded(c) ==
  /\ At(c, "upload")
  /\ file' = file \cup {c}
  /\ Goes(c, "generate")
  /\ UNCHANGED <<analysisVars, billed>>

\* generateJson, after waitForFileActive for an upload, and the look at its
\* answer; an upload is deleted either way.
Generated(c) ==
  /\ At(c, "generate")
  /\ IF c \in file THEN Goes(c, "delete_ok") ELSE Ends(c, "ok")
  /\ UNCHANGED <<analysisVars, billed, file>>
GenerateFails(c) ==
  /\ At(c, "generate")
  /\ IF c \in file THEN Goes(c, "delete_error") ELSE Ends(c, "error")
  /\ UNCHANGED <<analysisVars, billed, file>>

\* deleteFile answered, or did not: best effort, tried once, never aborted. A
\* file it leaves is out of the server's hands.
Deleted(c) ==
  /\ \/ At(c, "delete_ok") /\ Ends(c, "ok")
     \/ At(c, "delete_error") /\ Ends(c, "error")
  /\ file' = file \ {c}
  /\ UNCHANGED <<analysisVars, billed>>
-----------------------------------------------------------------------------
\* The job succeeded: the result is cached, then reported.
Publish(c) ==
  /\ call[c] = "working" /\ phase[c] = "settled" /\ outcome[c] = "ok" /\ step[c] # "publish"
  /\ cache' = cache \cup {cacheKey[c]}
  /\ step' = [step EXCEPT ![c] = "publish"]
  /\ UNCHANGED <<now, runnerVars, aborted, call, joins, work, inFlight, permits,
                 startedAt, billed, file>>

\* Mutants: the entry stays; the permit comes back for work that was billed;
\* or it never comes back.
FinishKept(c) ==
  /\ call[c] = "working" /\ phase[c] = "settled"
  /\ outcome[c] = "ok" => step[c] = "publish"
  /\ work' = [work EXCEPT ![c] = IF outcome[c] = "ok" THEN "ok" ELSE "failed"]
  /\ call' = [call EXCEPT ![c] = IF outcome[c] = "ok" THEN "answered" ELSE "failed"]
  /\ IF outcome[c] = "error" /\ c \notin billed
     THEN Allowance!refund(c, tenant[c]) ELSE UNCHANGED permits
  /\ UNCHANGED <<now, runnerVars, aborted, joins, step, inFlight, cache, startedAt,
                 billed, file>>
Refundable(c) == outcome[c] = "error"
NeverRefunded(c) == FALSE

\* The work failed before anything was billed.
GivesBack(c) == outcome[c] = "error" /\ c \notin billed

\* The work settles: its caller gives back the permit if it failed for free,
\* and takes its own entry out of the work in flight.
Finish(c) ==
  /\ call[c] = "working" /\ phase[c] = "settled"
  /\ outcome[c] = "ok" => step[c] = "publish"
  /\ work' = [work EXCEPT ![c] = IF outcome[c] = "ok" THEN "ok" ELSE "failed"]
  /\ call' = [call EXCEPT ![c] = IF outcome[c] = "ok" THEN "answered" ELSE "failed"]
  /\ inFlight' = IF inFlight[cacheKey[c]] = c
                 THEN [inFlight EXCEPT ![cacheKey[c]] = NoCall] ELSE inFlight
  /\ IF GivesBack(c)
     THEN Allowance!refund(c, tenant[c]) /\ startedAt' = [startedAt EXCEPT ![c] = 0]
     ELSE UNCHANGED <<permits, startedAt>>
  /\ UNCHANGED <<now, runnerVars, aborted, joins, step, cache, billed, file>>

\* An entry of the cache expires or is evicted.
CacheDrops(k) ==
  /\ k \in cache
  /\ cache' = cache \ {k}
  /\ UNCHANGED <<now, runnerVars, aborted, call, joins, work, step, inFlight,
                 permits, startedAt, billed, file>>

\* The runner's own steps.
Runner(c) ==
  /\ \/ Start(c) \/ StartAborted(c) \/ NoDir(c) \/ CleanedUp(c)
     \/ QueueTimeout(c) \/ DeadlineFires(c)
  /\ UNCHANGED <<analysisVars, step, billed, file>>

\* A job of another tool: it has no step of its own here, and never throws.
Deliver(c) ==
  /\ run(c) \/ MadeDir(c) \/ JobEnds(c, "ok")
  /\ UNCHANGED <<analysisVars, step, billed, file>>

Next ==
  \/ Tick /\ UNCHANGED <<analysisVars, step, billed, file>>
  \/ \E k \in CacheKeys : CacheDrops(k)
  \/ \E c \in Calls : AbortCall(c) \/ Runner(c)
  \/ \E c \in Deliveries : Deliver(c)
  \/ \E c \in Analyses :
       \/ CacheHit(c) \/ Join(c) \/ StartNew(c) \/ JoinAnswered(c) \/ JoinFailed(c)
       \/ JobStarts(c) \/ PrepareFails(c) \/ Prepared(c) \/ Announced(c)
       \/ UploadRefused(c) \/ UploadLost(c) \/ Uploaded(c) \/ Generated(c) \/ GenerateFails(c)
       \/ Deleted(c) \/ Publish(c) \/ Finish(c)

Spec == Init /\ [][Next]_vars

\* A job whose signal is aborted ends: requests and subprocesses honour it.
HonoursSignal(c) ==
  c \in cut /\ (PrepareFails(c) \/ UploadRefused(c) \/ UploadLost(c) \/ GenerateFails(c))

\* Settled promises are noticed, the file system and the progress report end,
\* timers fire, and what is aborted ends. Nothing is assumed of Google, and
\* nothing of a video that takes long: the budget's timer aborts it.
Fairness ==
  /\ \A c \in Calls : WF_vars(Runner(c))
  /\ \A c \in Deliveries : WF_vars(MadeDir(c) /\ Deliver(c)) /\ WF_vars(c \in cut /\ Deliver(c))
  /\ \A c \in Analyses :
    /\ WF_vars(JoinAnswered(c) \/ JoinFailed(c) \/ Publish(c) \/ Finish(c))
    /\ WF_vars(JobStarts(c) \/ Announced(c))
    /\ WF_vars(HonoursSignal(c)) /\ WF_vars(Deleted(c))

FairSpec == Spec /\ Fairness
-----------------------------------------------------------------------------
\* In any hour a tenant's billed works are within its allowance, by the time
\* they started: no refund of a failed work gives back the permit of another,
\* or its own once something may have been billed (limiter, billed, refund).
BilledWithinAllowance ==
  \A t \in Tenants, from \in 0..now :
    Cardinality({c \in billed : tenant[c] = t /\ startedAt[c] \in from..(from + Hour - 1)})
      <= AnalysesPerHour

\* A permit is kept only by work that was billed or is going on: work that was
\* refused a slot, timed out in the queue or failed before anything was billed
\* gives its own back (permit.refund).
AllowanceNotLost ==
  \A t \in Tenants : \A s \in permits[t] : s.by \in billed \/ call[s.by] = "working"

\* What is found in flight can still be joined: it has not settled, whichever
\* of several attempts wrote and removed the entry.
InFlightIsPending ==
  \A k \in CacheKeys : inFlight[k] # NoCall => work[inFlight[k]] = "pending"

\* The upload of a job is at Google only while the job runs, or because its
\* deletion was tried and failed: not after an aborted call, a failed
\* generation or an upload whose response was lost.
UploadsDeleted == \A c \in Calls : c \in file => phase[c] = "job"

\* A call that waits, for others' work or for its own, ends.
EveryCallSettles ==
  \A c \in Analyses : call[c] \in {"joined", "working"} ~> call[c] \in {"answered", "failed"}
=============================================================================
