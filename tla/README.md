# Verification of meta-ads-mcp

`meta-ads-mcp` is a server that gives AI agents access to Meta's advertising API: about 140 MCP
tools over one Graph API client, an OAuth server in front of it, a dashboard with its own
assistant, and video and competitor-research pipelines behind some of the tools. This directory
holds TLA+ models of its stateful parts, the TLC runs that check them on small instances, and
proofs, checked by TLAPS, of their safety properties, for every value of the constants.
Paths below are relative to the repository's root, as in `src/meta/client.ts`.

Everything here is about one Node.js process (an instance): JavaScript runs to the next `await`
without interruption, so **an action of a model is the code between two awaits**, and what
interleaves are requests, timers, Meta's answers and restarts.

## 1. Inventory

### The Graph API client (`src/meta/`)

| Part | State | Operations | What makes it correct |
|---|---|---|---|
| Circuit breaker `circuit-breaker.ts` | open circuits and recent throttles per (token, account, type) | `assertClosed`, `trip` | a stop Meta asks for is never cut short; repeated throttles always stop; nothing else does |
| Write pacer `write-pacer.ts` | a token bucket per (token, account); writers that wait | `acquire`, `updateTier` | writes stay within the burst and the refill |
| Rate limiter `rate-limiter.ts` | usage buckets per scope | `updateFromHeaders`, `markRetryAfter`, `waitIfNeeded` | the delay follows what Meta said; a hint about one account spares the others |
| Classification `errors.ts` | none | `classifyMetaError` | no throttle is taken for an error worth a retry |
| `execute` `client.ts` | each call's place in its attempts | `get`, `postForm`, ... | a creation is sent once; a throttle is not retried; a stop binds later calls; every call ends |

The client asks the breaker, then the pacer (writes only), then the limiter, then sends up to four
attempts. Calls run concurrently and share the three throttles; each answer feeds all of them.

### The dashboard and its assistant (`src/dashboard/`, `src/claude/`)

| Part | State | Operations | What makes it correct |
|---|---|---|---|
| Read cache `dashboard/cache.ts` | entries that are promises of loads | `getOrLoad`, `invalidatePrefix` | failures are not kept; nobody reads a value older than a write he was told of |
| Agent loop `claude/agent.ts` | one turn: step, tool and byte budgets, the staged plan | `runAgent`, `executeToolUse` | one plan a turn; budgets hold; a turn ends |
| Confirmation store `claude/confirmations.ts` | staged plans with owner and deadline | `stageWrite`, `takeWrite`, `discardWrite` | single use, owner-bound, in time |
| Approval `dashboard/ai/service.ts`, `claude/tools.ts` | a claimed plan on its way to Meta | `applyDashboardConfirmation`, `applyWritePlan` | nothing lands unapproved, twice (creations), or over a change the user has not seen |
| Audit trail `store/audit-log.ts` | appended entries | `recordAudit` | an entry says what happened |

A chat turn reads through the cache and stages a plan that rests on what it read; a later request
confirms or cancels it; Meta, where colleagues and rules edit too, may execute a write whose answer
is lost.

### Video, competitor research, stores and OAuth

| Part | State | What makes it correct |
|---|---|---|
| Video job runner `media/video-jobs.ts` | running slots, a bounded queue, an hourly count per tenant | no slot leaks, the queue moves, limits hold, every job ends |
| Video analysis `gemini/video-analysis.ts`, `gemini/client.ts` | shared in-flight work, a cache, the allowance | identical calls share, a refund only for what cost nothing, uploads are deleted |
| Sliding window `utils/sliding-window-limiter.ts` | stamps per key | a permit given back is the caller's own |
| Dataset lookup `apify/dataset-lookup.ts` | cached offsets, shared scans, generations | a retired scan is never published; what is there is found |
| OAuth `auth/oauth-provider.ts` and its stores | codes, refresh ids | codes and refresh tokens are used once; a revoked grant never again |
| Token repository `store/meta-token-repo.ts` | tokens per user, one of them the default | one default at rest; nothing deleted comes back |
| Transport, frontend, scripts | per-address counters, pending authorisations | plumbing around the parts above |

### The tools and what the assistant concludes (`src/tools/`, `src/claude/`)

| Part | State | What makes it correct |
|---|---|---|
| The MCP tools `tools/*.ts` | none: each call is a sequence of requests | a tool keeps the hints it is registered with, whatever fails midway |
| Ad-set clone `tools/adsets.ts`, `store/clone-bundle-store.ts` | a record per idempotency key | one bundle per key; the ledger lists what was created |
| Bulk video ads `tools/bulk-ads.ts` | the batch at hand | every video, and every object left over, is reported |
| URL tags `tools/ads.ts` | the ads and creatives at hand | only what is reported as updated changed; no creative is lost sight of |
| Decision engine, review, diagnosis `claude/*.ts` | none: functions of the rows | each is coherent, and they do not contradict one another |

`PROJECT.json` lists every component with its status, and as hazards what is hard to test in each
of them, at its line. The hard behaviours are: answers applied out of order to shared throttles;
state computed before an `await` and used after it (the pacer's wait, the breaker's check, a
plan's snapshot); requests that Meta executes although their answer is lost, with automatic
retries; caches shared with loads in flight; restarts that lose what is kept in memory; and
documents in Firestore that are read and written in separate steps.

## 2. Plan

The order followed, the most important first. All of it is built.

1. `CircuitBreaker`, `WritePacer`, `MetaErrors`, `RateLimiter`: one module per part, with proofs.
2. `MetaClient`: composes them under concurrent calls; proved to implement `CircuitBreaker`.
3. `Confirmations`, `TtlCache`: one module per part. `ApprovedWrites`: the abstract promise.
4. `Dashboard`: composes them with the approval, the client's retries, other editors and restarts;
   refines `ApprovedWrites`.
5. `VideoJobs` with proofs, `SlidingWindow`, and `VideoAnalysis`, which composes them and refines
   `VideoJobs`.
6. `CloneBundle`: claim, stale takeover, unfenced updates and the copy loop under crashes; proofs.
7. `OAuth` and `MetaTokens`, with proofs.
8. `AgentTurn` with proofs: the budgets of one turn. `Dashboard` relies on a turn staging one plan.
9. `DatasetLookup`, with proofs: generations and shared scans.
10. `BulkAds`, `UrlTags`, `McpTools`: the tools, with proofs.
11. `DecisionEngine`, `PerformanceReview`, `Diagnosis`: what is concluded from the same rows, with proofs.
12. `MCBackend`: 6 to 11 side by side; what is proved of each holds in the composition. `MCThrottles`
    does the same for the breaker and the pacer.

What is left to do: the registration of OAuth clients.

## 3. The modules

### CircuitBreaker

One circuit per key. `openUntil[k]` is the map `circuits` (0: no entry) and `throttleEvents[k]` the
list of remembered throttles, kept as positions in the history `throttles[k]`, so that properties
can speak of throttles the code has forgotten. `AssertClosed` is the successful `assertClosed`
with its sweep; `Trip` has one action per way `trip` can go: `TripExplicit` (abuse, block or hint),
`TripCounted` (a throttle that is counted) and `TripIgnored`. `owed[k]` is a history variable: the
end of the longest stop Meta's answers asked for.

### WritePacer

The bucket of one (token, account). Tokens are fractional in the code; here they are integers, in
units of which a write costs `Cost`, and a tick refills `Rate[tier]`. `Acquire` goes through at
once, `StartWait` computes a wait and reserves nothing, `Wake` is the timer, which refills and takes
a token if there is one. The code's clamp at 0 is `Positive`. `updateActiveAds` is never called,
so the number of active ads keeps its default.

### MetaErrors, RateLimiter

`MetaErrors` is the decision table of `classifyMetaError`: an ordered list of categories and what
each matches. `RateLimiter` is the limiter for one token. A bucket's three percentages are one
usage, their maximum, which is all the code reads.

### MetaClient

Each element of `Calls` is one call of `execute`, its place `pc`. The breaker, the limiter and the
table are instances of their modules over the same clock. `Call` runs from the start to the first
wait, `Paced` ends the pacer's wait, `Fetch` sends an attempt, `ReceiveHeaders` feeds the limiter,
and the answer is one of `Result`, `BadBody`, `PlainError`, `Throttled` or, at either point,
`TransportError` (the abort timer or the network). The catch clause, which retries what has no
`code`, is `RetryOrFail`. The pacer's wait may be any length here: `WritePacer` says how long it is.
`Meant` states, from Meta's documentation as the code quotes it, what an error means: the
properties judge the table by it.

What a call does and what the client takes it for are two things. `Read`, `Update` and `Create` are
the calls by effect; `CreatingPath` are the POSTs whose path `isCreatingRequest` recognises
(`client.ts:219-223`), and only these are not sent again after a failed connection. A creation need
not be among them: replies to comments (`/{comment}/comments`), lead forms, budget schedules and the
reports of an object that is no account are POSTs on other paths. `SentAtMostOnce` is therefore about
paths, which is all the retry loop knows; that a creation is sent once is `CreationsNotResent`, which
the code does not keep.

### Confirmations, TtlCache, ApprovedWrites, Dashboard

`Confirmations` is the store: a set of plans, with the order of insertion that the JavaScript map
keeps. `TtlCache` is the cache: an entry holds the load whose promise it is; a load in flight has
no expiry. `Dashboard` composes them. A chat turn reads an object at Meta through the cache
(`ReadObject`, `LoadRead`, `LoadSettled`) and stages a plan that remembers what it read
(`Propose`). A confirm request claims the plan (`Confirm`), re-reads the object (`CheckDrift`),
sends the POST, which Meta executes now or later (`Land`), hears of it (`Acknowledge`), sends an
update again (`Retry`) or gives up, reads back and invalidates (`Verify`), and records the outcome
(`RecordAudit`). `Meta` is a version that every change moves on and an object that every update
changes. `EditByOthers` is a colleague, `Restart` a deploy or crash that loses the memory.

`ApprovedWrites` is what the confirmation dialog promises, with no store, cache or client in it: a
proposal waits, is approved by its owner before its deadline, or lapses; Meta executes only approved
changes, and a creation once. `Dashboard` implements it under the mapping `Promise`: a plan is
approved once somebody claimed it, waits while it is pending, and has lapsed when it was staged
and is neither.

### VideoJobs, SlidingWindow, VideoAnalysis

An element of `Calls` is one call of the runner's `run`, with its place `phase`: it waits in the
queue, was granted a slot it has not started to use, makes its scratch directory, runs its job, has
it removed, or is settled. `run` goes up to the first wait; `release` frees a slot and grants it to
the first waiter in one step, which `StartAborted`, `NoDir` and `CleanedUp` make. `cut` are the jobs
whose signal is aborted, by the caller (`Abort`) or by the budget's timer (`DeadlineFires`). Timers
may fire at any time after they are set: no property depends on how long they are. The clock only
moves the hour. `RunnerSpec` is the runner by itself, with jobs that end when they like.

`SlidingWindow` is the limiter; a stamp also names its caller. In `VideoAnalysis` a call of
`analyzeVideoWithGemini` finds a cached result, joins the work in flight under its key, or does the
work (`startWork`): a permit, a job and an entry in `inFlight`, up to the first wait. Inside the job
`step` says where it is: prepare the video, announce it, upload or not, generate, delete the upload.
`file` are the uploads Google may hold that this server can still delete. `Finish` is the code after
the work: refund and removal of the entry. `Deliveries` are the jobs of `deliverVideos`, which
compete for slots and never throw. `Signals` are the calls whose caller may go away.

### CloneBundle

Calls of `ads_clone_ad_set_bundle` with one idempotency key. `record` is the key's document in
Firestore and `clone[r]` where a call is and what it has made (`createdResources`). `Look` is the
read before the source is read, `Claim` the transaction, `Save` the unfenced update that follows
every creation, `Complete` and `markFailed` the last ones. `PostNew` is a POST that is answered,
refused, or executed with its answer lost. `Die` ends a call, or the server with it, anywhere.
`exists` and `claimedAt` are history.

### OAuth, MetaTokens

`OAuth` has the two stores, `codes` and `allowed`, and requests that present a code or a token and
run through the places between two round trips to them: look, consume (a transaction), store the
next token, answer. Requests may overlap, come again, be aborted at any place, and find what they
present expired. A refresh token is named after the request that minted it, so that `grant` can say
which authorisation it descends from.

`MetaTokens` is the documents of one user. Every operation of the repository, with its caller where
that makes calls of its own, is broken up at each round trip, since none is in a transaction:
`Login`, `Register`, `Select`, `Delete`, `GetToken` begin them. A query for the default answers with
any of several. `updateOrThrow` is Firestore's update, which refuses a document that is gone.

### DatasetLookup

The cache of partial maps from ad to offset, the registered scans and the generations, with the
aliasing of the code: a scan that resumes a cached map writes into that very object, so maps have
identities (`maps`). `BeginLookup` to `Settle` are the places of `findDatasetItem` and of the scan it
starts or joins. Datasets change under the lookups; entries age, are evicted and invalidated.

### AgentTurn

`runAgent` and `executeToolUse`: the rounds, the tool uses of a reply, the budgets, repeated reads,
the one plan and every way a turn ends. What is read or planned is of no matter here.

### McpTools, BulkAds, UrlTags

In `McpTools` a tool is its hints and the sequence of requests of its handler; a request may be
optional, tolerated when it fails, checked for Meta's confirmation, or a creation the client sends
again when the connection breaks (`Again`, by its path). `Tools` lists all of them but the three that
have more control than a sequence and a module of their own. A host calls a tool; requests are
executed once or, where they are sent again, several times, fail, lose their answer or are declined;
and the host repeats what the hints let it repeat. A report run that was started counts as a creation
like any other: Meta keeps it for 30 days (`tools/reports.ts:63`). An update whose status may be
DELETED removes or does not (`Edit`).

The module is a table of handlers and a small machine that runs them: what it can find is a handler
whose requests, in their order and with what is caught and checked, do not fit its hints. What it
finds is written down beside the property as four sets: `SpendsUnmarked`, `RemovesUnmarked`,
`CreatesAgain` and `LosesTrack`. `ToolsKeepTheirWord` says that these are all. The first two
contradict documents (see "Seen while modelling"). Tools with equal hints and equal
requests are one value of `Tools`, so a property cannot name one and spare the other; none of the
tools in the four sets has an equal outside its set that the property means to cover.

`BulkAds` goes through the videos of one call: upload, wait for processing, creative, ad; failures of
one video and of all, the same verdict twice in succession, time that runs out. `UrlTags` is one call, and its
repetition, of `ads_update_ad_url_tags`: ads are read and grouped by creative, creatives rebuilt, ads
repointed, with a read-back after a failure.

### DecisionEngine, PerformanceReview, Diagnosis

The three analyses as functions from rows to findings; one action each that takes any rows. Rates are
fractions compared by cross-multiplying, so nulls, zeroes and equality at a threshold are what they
are in the code, and no rounding of a quotient blurs them; where the code compares rounded changes,
the module does (`PerformanceReview`). Each extends the one before, and all three judge the same
kind of rows, so that properties can relate their results.

A row has counters, a revenue and two rates that Meta may report beside them: the return
(`purchase_roas`) and the cost of a purchase (`cost_per_action_type`). `rate` takes these where they
are reported and `derived`, the quotient of the counters, where they are not, as
`dashboard/services/metrics.ts:128-132` does. A reported rate may have any value: it need not agree
with the counters of its row. What the account as a whole returns is always the quotient of the sums
(`computeBaselines`), and so are the four factors of the diagnosis; the return of the whole that
the diagnosis speaks of is reported on its own (`HeadlineReports`, as `claude/tools.ts:775` takes it from
the insights of the scope). So conclusions that follow from arithmetic on counters follow only in part:

- Whatever Meta reports: nothing is to be stopped and grown at once; what can be written is a write; a
  short list keeps its order; the review agrees with the advice (`ReviewIsCoherent` as a whole); the
  counters' own return does not move without a factor; purchases are shared out among the children.
- One object that earns is left running, if no object that earns reports a return below the one its counters give.
- Those to be grown hold less than two thirds of the spend, if none of them reports a return above it.
- More spend without more purchases is no cheaper purchase and no better return in the review, if the
  rates that are reported do not understate the cost now or the return before, or overstate the other two.

Without those conditions each of the last three is false, and so are two sentences of the code's own
comments (the run `diagnosis_headline`, and `decision-engine.ts:503-505`, see below).

## 4. The runs

| Run | Checks | Result |
|---|---|---|
| `throttles` | `OwedStopHonoured`, `RepeatedThrottlesStop`, `OpenHasCause`, `WriterWithinQuota` | hold |
| `write_pacer_burst` | `BurstWithinQuota` | violated |
| `meta_client` | `SentAtMostOnce`, `StopBindsNewCalls`, `ThrottleNeverRetried` | hold |
| `meta_client_accounts` | `EveryCallSettles`, `HintsStayInAccount` | hold |
| `meta_client_abuse` | `AbuseStopsAccount` | violated |
| `meta_client_retry` | `OnlyTransientRetried` | violated |
| `meta_client_create` | `CreationsNotResent` | violated |
| `dashboard` | `KeepsPromise` (refinement), `NothingOverwrittenUnseen`, `ReadYourWrites`, `FailuresNotCached` | hold |
| `dashboard_failed` | `FailedMeansUnchanged` | violated |
| `backend` | `DuplicatesOnlyByTakeover`, `LedgerKept`, `OneRightPerGrant`, `RevocationEndsGrant`, `ToldIsHonoured`, `OneDefaultAtRest`, `AloneRepairs`, `NoResurrection`, `RetiredStaysOut`, `StableIsFound`, `TurnBounded`, `BatchReportsAll`, `TagsReportHolds`, `AnalysesAgree`, `ToolsKeepTheirWord` | hold |
| `diagnosis_headline` | `HeadlineExplained` | violated |
| `video_analysis` | `SlotsHeld`, `NobodyWaitsInVain`, `BilledWithinAllowance`, `AllowanceNotLost`, `InFlightIsPending`, `UploadsDeleted`, `EveryCallSettles` | hold |

The passing runs check the type invariant of their modules, too, but for that of `WritePacer`
(`PacerTypeOK`), which is proved.

**Bounds.** Times are small integers in the order of the code's constants (hint < window <
cool-down < block < abuse), since only their order and their sums decide anything. In `throttles` a
behaviour is one of the breaker or one of the pacer (`part`). One key sees five throttles against a
threshold of three, so a count is completed, forgotten and begun again; keys do not interact, which
the proofs confirm. The pacer has two writers and both tiers, a write at three units, so that buckets
hold fractions of a token and waits are rounded.
`meta_client` has a read, an update and a creation on one key, an abuse signal under a transient
code, a hint, a counted throttle and a transient error, one retry: enough for a stop to be received
while another call waits, and for a shorter hint to follow a longer stop. `meta_client_accounts`
has two accounts and usage headers, and lets the clock run past the longest delay. `dashboard` has
an update and a creation, two requests for any plan by the owner or a stranger, two cache keys and
room for one, one edit by others and one restart; a proposal lapses and a read expires within the
run. `InScope` bounds what comes together: two turns and all the rest, or three turns and one request
with neither edits nor restarts. The third turn is for the cache: one turn's load is in flight across
a write, and another turn begins after it and must not be given what that load returns.
`video_analysis` has
three identical analyses, so that two of them may have joined the third when it fails, and a
delivery, over one slot and one place in the queue, so that calls wait, are refused and are handed
slots; two analyses an hour and an hour of one tick, so that permits are refused, given back and
outlive the hour. A second tenant would share nothing with the first but the queue.

`backend` checks the components that share no state in one run. `MCBackend` has a variable `part`,
chosen at first: a behaviour is one of that component, and the others stay as they began. The
reachable states are the sum of the components' and not their product; nothing is lost, since no
action of one reads another's variables. Its bounds: two clone calls alike and one with other
arguments, an ad set of two ads and one override, a claim that is stale after one tick of two; one
grant and four requests, so that an exchange, two refreshes and a revocation race, and tokens expire;
three operations on two tokens, so that two overlap and a third runs alone on what they left; two
lookups on one dataset and one on another with room for one in the cache, pages of one ad, one change
of a dataset, and an item without a well-formed id (`NoId`); replies of up to three tool uses, three rounds, three tool calls and two bytes, each of
which runs out first in some turn; three videos and two verdicts; three ads over three creatives, one
with the tags already and one that cannot be rebuilt, and two calls; every tool, called twice at
most, and a resent creation sent twice at most (`MaxSends`), one more than it takes to make a second
one; three rows whose figures lie on either side of every threshold, with rates reported as derived,
far below the counters and above them on a revenue that is not known, the first of the rows with a
past and a status of its own. There nothing is reported of the whole (`HeadlineReports`); the run
`diagnosis_headline` takes one child, two kinds of rows and one reported return.

**Fairness.** Only the two properties named `EveryCallSettles` need any. In `MetaClient`, `Fairness` says that time passes and timers fire:
the pacer's wait and the limiter's wait end, a backoff ends, and an attempt Meta never answers is
aborted. The first three are `setTimeout`; the last is the abort timer up to the headers and the
runtime's own body timeout after them, since `client.ts:242` clears the timer before the body is
read. Nothing is assumed of Meta. In `VideoAnalysis` it says that settled promises are noticed, the
file system and progress reports end, timers fire, and a job whose signal is aborted ends, since
requests and subprocesses are given that signal; deleting an upload, which is not, has a time-out
(`gemini/client.ts:585`). Nothing is assumed of Google. No run checks deadlock: in each the clock stops at its bound
and calls, turns and requests may all be over.

**What the violations show.**

- `write_pacer_burst`: the pacer exists so that "a burst of writes from an agent never blows the
  hourly quota" (`write-pacer.ts:10-12`). `acquire` computes a wait without reserving a token, so
  concurrent writers compute the same wait, wake together and share one refilled token. Each writer
  alone stays within the quota, which is `WriterWithinQuota`.
- `meta_client_abuse`: `README.md:639` promises a 60-minute circuit per (token, account) on an abuse
  signal; the circuit's key holds the type too. Other types are held back by the retry-after bucket
  only, which a later, shorter hint of a concurrent call overwrites.
- `meta_client_retry`: `README.md:700` says only codes 1 and 2, HTTP 5xx and aborts are retried; the
  error for a plain HTTP 4xx is thrown inside the `try` and retried by its own `catch`.
- `meta_client_create`: `client.ts:207-218` holds that POSTs other than those on its list are idempotent;
  a reply to a comment, a lead form, a budget schedule and an object's report are creations on paths
  that the list does not have, and are sent again after a failed connection. Of the replies
  `tools/comments.ts:126` says that "re-running creates duplicate replies".
- `diagnosis_headline`: "ROAS is an identity", whose change "decomposes exactly" into four factors
  (`diagnosis-engine.ts:17-22`). The change told is of the return Meta reports, the factors are of
  the counters: the row of `tests/dashboard/metrics.test.ts:130-138`, after one without a reported
  return, has fallen while no factor moved.
- `dashboard_failed`: `store/audit-log.ts:28-29` defines "failed" as "Meta refused the write; nothing
  changed"; a write whose answer is lost is recorded the same way, and the cache is not invalidated.

**Seen while modelling, without a run of their own.**

- The breaker is asked once per call: a call admitted before a stop, and its retries, are sent
  during it (`client.ts:193-194`). `StopBindsNewCalls` states what does hold.
- `buc` buckets bind every account of the token (`rate-limiter.ts:276-305`), although the header
  names the account's business and the hint buckets are kept apart on purpose.
- The comment at `dashboard/ai/service.ts:410-412` says a refused approval leaves the plan usable;
  line 414 discards it, and a test agrees with the code.
- `stageWrite` purges before it inserts, so the map may hold one plan more than `MAX_PENDING`.
- Between the re-read at `claude/tools.ts:1582` and the POST at 1589 somebody may still edit the
  object. `NothingOverwrittenUnseen` is about what Meta held when the user approved; Meta offers
  no conditional update that could close the rest.

- When shared work fails, everyone who joined it starts work of its own without looking at the work
  in flight again (`gemini/video-analysis.ts:410-415`): identical calls may then be billed at the
  same time, which the comments at lines 275-277 and 403 speak against. The allowance still bounds
  them, which is `BilledWithinAllowance`.
- A call that is refused because the queue is full counts for the tenant's hour all the same
  (`media/video-jobs.ts:153-154`).
- A taken-over clone record loses the earlier run's ledger, and a run that lost its claim may still
  overwrite the new one's, since `update` is not fenced (`store/clone-bundle-store.ts:100`).
  `LedgerKept` holds for keys that were not taken over. A takeover does not compare the signatures
  again (line 79), and a creation whose answer was lost is on no ledger.
- A refresh of a Meta token that races a registration under the same name writes the refreshed old
  token over the new one (`store/meta-token-repo.ts:155`).
- The comment "every exit path returns an AgentResult" (`claude/agent.ts:38`) does not hold when the
  model's API throws: the turn throws, and a plan staged in an earlier round is reported to nobody. A
  read that failed counts as served all the same (line 264). The limit on a turn's time is given to
  each attempt of the API client, which retries once, and bounds no tool.
- The comment at `tools/bulk-ads.ts:22-24` and the test at `tests/tools/bulk-ads.test.ts:392` say that
  identical failures halt the batch. A failure that is not Meta's, such as an unsafe URL, sets the count
  back (`bulk-ads.ts:269-270`), so that rejections which alternate with it go on to the end of the
  list. That like rejections of Meta's halt the batch held for three videos; the attempt to prove it
  for any number showed the fourth. What holds, and is proved, is the last part of `BatchReportsAll`.
- A complete cached map of a dataset misses ads added later until it expires. The guard against a
  lookup that does not get on (`stalls`) never fires in the model: `LookupInv` keeps its count at 0.
- `ads_analyze_video` is registered as read-only, which hosts run unasked, and uses the tenant's paid
  Gemini quota (`tools/video-analysis.ts:265,277`); the skills say "Reads are free"
  (`skills/meta-ads-mcp-guide/SKILL.md:12`). It is all of `SpendsUnmarked`.
- `docs/migration-v3.md:78-86` promises `destructiveHint` and a prompt for every delete; the updates of
  campaigns, ad sets, ads and entities accept the status DELETED, which is all that their delete tools
  send (`tools/campaigns.ts:19,238,280-282`). They are `RemovesUnmarked`.
- `ads_run_report_and_wait` throws without naming the report it started when a poll fails
  (`LosesTrack`). The updates of ads do not look at `success` in the answer, as others do. `ads_update_ad_url_tags` is registered as idempotent; called again
  after a failure midway it leaves an extra creative, which its report accounts for.
- An object above one and a half times the account's return is, "arithmetically", said to take less of
  the spend than of the revenue (`claude/decision-engine.ts:503-505`); not if its return is reported
  and the account's is summed up. `AdviceIsCoherent` has that condition.
- The advice for a low return says to reduce the budget or refresh the creative while its action type
  is to pause. An ad set with a lifetime budget only is advised a budget change that has no write
  tool. A paused object that spent in the period is advised to be paused, where the review excludes
  it. An object may be both low in return and improving.
- The review's threshold is on the change rounded to a tenth of a per cent, so 19.95 % counts as a rise,
  whereas the decision engine compares the unrounded change, and without the review's floor of
  purchases: `ReviewIsCoherent` relates them where both have enough of them. The diagnosis gives a
  child that was absent in the earlier period no share.

## 5. The proofs

`CircuitBreakerProofs` proves, for all keys, hints, windows, thresholds and cool-downs:

- `TypeCorrect`: `Spec => []TypeOK`. Besides the types it says that fewer than `Threshold` throttles
  of a key are remembered: a completed count is forgotten.
- `OwedStopsKept`: a stop Meta asked for is kept. `OwedStopHonoured` is inductive with the types,
  since `openCircuit` never shrinks a deadline (lemma `OpenCircuitNeverShrinks`).
- `BurstsStop`: any `Threshold` throttles within a window have started a cool-down. The property
  speaks of sets of throttles the code may have forgotten, so it is not inductive; `BurstInv` adds
  that whatever is remembered is part of the history and that every throttle not remembered is out
  of the window or covered by a cool-down (`Forgotten`). Then a new burst either consists of
  throttles that are all remembered, and the count reaches the threshold, or holds one that is covered.
- `OpenOnlyForCause`: an open circuit has a cause. A cause stays one as the history only grows.

`WritePacerProofs` proves `WritersWithinQuota` for any number of writers, any rates, capacities and
any cost. `QuotaInv` says that what a writer was granted plus what the bucket holds is covered by
the burst and the refill up to the last refill, and that a waiting writer's next write is covered at
its wake-up time. The lemmas are the arithmetic of refilling and of rounding a wait up.

`BucketTypes` is its type invariant: the tokens never become negative.

`MetaClientProofs` composes. `ImplementsBreaker` says that every behaviour of the client is one of
`CircuitBreaker`. `StopsBind` proves `StopBindsNewCalls` from the breaker's part of it: `StopsOwed` (a
circuit is open as long as a stop is owed) is kept by every step of the breaker, and `ToldFirst` says
that a call past the breaker began when none was owed to its key. `CreationsSentOnce` (`SentAtMostOnce`) counts requests
against attempts at every place of `execute` (`SendCount`): a call on a creating path never backs off.
It says nothing of creations on other paths, which are resent.
`ThrottlesEndCalls` rests on the lemma `RetryableIsTransient` about the order of the table: whatever
subcode comes with the code of a transient error, what is retried means no throttle.
`ClientTypes` is the type invariant. Its weight is in the limiter: the delay a call waits for is a time
(`DelayTyped`), since it is the greatest of finitely many delays (`FiniteProduct`, `FiniteBuckets`,
`Greatest`); so the assumption on the constants says that accounts, types and businesses are finite.
`HintsSpareOthers` is the action property `HintsStayInAccount`, for any number of accounts and any
buckets: the one bucket a hint writes is one that no other account asks about.

`VideoAnalysisProofs` begins with the runner: `SlotsNeverLeak` and `NoWakeUpIsLost` for any number of
calls, slots and places in the queue. Neither property is inductive alone: that a slot handed on was
counted needs the queue to hold calls that wait, each once, and that a free slot means an empty queue
needs the count. `QueueInv` is both with the types they need. There is one lemma for each way the
slots and the queue change (`AcquireKeeps`, `ReleaseKeeps`, `CancelKeeps`, `PhaseKeeps`), over lemmas
about what a queue loses. `ImplementsRunner` says that every behaviour of `VideoAnalysis` is one of
`RunnerSpec`, so what is proved of the runner holds while analyses run, fail and are aborted
(`AnalysesLeakNoSlot`). Of the analyses themselves:

- `JoinersFindPendingWork` is `InFlightIsPending` for any number of calls, keys and limits; `FlightInv`
  adds that work in flight belongs to a call that is at work, under its own key.
- `UploadsAreDeleted` is `UploadsDeleted`; `UploadInv` adds at which steps of a job Google may hold its
  file, and uses `QueueInv`: a freed slot goes to a call that waits, so no step of the runner but its
  own end takes a job from its place (`JobsStay`).
- `BillsStayWithinAllowance` and `NoPermitIsLost` are the two sides of the allowance. `Kept` is the work
  that may cost something: billed, or going on. `WorkInv` says where kept work may be, and that work
  which ends well was billed, so the refund at its end is decided by `billed` alone. `GrantInv` says
  that permits are stamps of kept work, that kept work has its permit until its hour is over, and that
  no hour holds more kept work than the allowance. The last is what a new permit could break: all
  kept work of the hour it closes is still in the limiter's window at that moment, and was counted.
- `AnalysisTypes` is the type invariant of the composition, over that of the runner (`RunnerTypes`).

`DashboardProofs` proves, for any number of turns, requests, owners and cache keys, the properties of
the confirmation store, the read cache and the approved writes together, from one invariant,
`DashboardInv`, whose parts need each other:

- `StoreInv` (what is pending was staged and not approved) and `ClaimInv` (two requests never work on
  one plan: it is gone from the store once claimed);
- `PostInv` counts POSTs: in flight and landed together they are as many as the one claimer sent, and
  for a creation one. With `ClaimInv` it gives `PromiseIsKept`, the refinement of `ApprovedWrites`:
  one lemma for each step of the promise (`ProposeStep`, `ConfirmStep`, `LapseStep`, `LandStep`), and
  every other step of the dashboard is a stutter or the clock;
- `ValueInv`: values of an object only grow, so an object that is found at its expected value after
  the claim had it at the claim as well. `NothingIsOverwrittenUnseen` follows;
- `LoadInv` and `FreshInv` are about the cache: an entry of an owner's tenant holds a load that read no
  less than any write the owner was told of, or that is about to be acknowledged (`Fresh`): every
  other entry was dropped by the invalidation before the acknowledgement. `UsersReadTheirWrites`
  follows, and `FailuresAreNeverCached` is a conjunct of its own.
- `DashboardTypes` is the type invariant.

`StoreProofs` is about what is kept in Firestore. Of OAuth it proves, for any number of codes and requests, `SingleUse` (`OneRightPerGrant`),
`RevokedForGood` (`RevocationEndsGrant`) and `TokensHonoured` (`ToldIsHonoured`) with the types. None is
inductive alone. `GrantInv` adds what a request presents (`Presented`), that a token is stored by the
request it is named after before that request answers (`Stored`), and that a grant was authorised
once (`Authorized`), without which a revoked grant could begin anew. Two lemmas carry the steps: a
right is lost, or exchanged for one of the same grant (`RightsLost`, `RightExchanged`).

Of the Meta tokens it proves, for any number of tokens and operations, `DeletedStaysDeleted`
(`NoResurrection`), `OneDefaultKept` (`OneDefaultAtRest`) and `AloneMeansRepaired`, the action property
`AloneRepairs`. `TokensInv` says for each place of an operation which kind of operation it is (`PlaceOf`); of one
that has run alone so far, what it knows of the documents whatever it found (`AloneAt`); and of one that
began with a single default and with no overlap before it, which defaults there are at each of its
places (`OrderlyAt`). The steps go by two lemmas, for one that changes documents (`OwnStep`) and one that
only moves its operation on (`ReadStep`).

Of the clones it proves `OneBundlePerClaim` (`DuplicatesOnlyByTakeover`) for any number of calls, ads and
overrides. `ClaimInv` says that a run claims before it creates, that no claim is younger than the
record says, and that any two claims lie further apart than `Stale`; updates move neither the
record away nor its beginning (`UpdateKeepsClaim`), so a new claim finds every other one stale.
`LedgerIsKept` is `LedgerKept`, on top of it: `LedgerInv` says what a run may have made (`MadeOf`) and, of a run
that is the only claimant, which of it the record may not list yet (`LedgerOf`): creatives, and one ad set
or ad that is being saved or was when the run died. What was passed on to a call alike is that
run's result (`PassedOn`). `CloneTypesKept` is the type
invariant.

`DatasetLookupProofs` proves, for any number of lookups, datasets and ads and any page size and limits,
`WhatStaysIsFound` (`StableIsFound`), `RetiredNeverReturns` (`RetiredStaysOut`) and the types. The inductive
invariant `LookupInv` has four parts, and none holds without the others:

- `Registered`: a running scan was retired if and only if it belongs to an earlier generation, else it is
  the one registered for its dataset, and the lookup that started it still awaits it;
- `Generations`: a dataset has a generation exactly as long as something of it is cached, being scanned
  or looked up, which is what `maybeForget` is for;
- `Maps`: no map is referred to on behalf of two datasets or written by two running scans, and only the
  scan of the current generation writes into the one that is cached. That a scan finds a fresh map
  (`FreshMap`) is a count of those in use;
- `Waiters`: whoever awaits a scan will get more from it than was cached when the wait began. It makes
  the counter `stalls` of the code stay at zero: in the model, where Apify returns the pages its dataset
  has, a lookup never ends because a scan made no progress.

On top of it `StableInv` says that as long as no dataset has changed, every cached map, every map being
read and every map handed to a waiter is right (`RightIn`): all that was read is in it, at its offset.
`PageRight` shows that reading one more page keeps that, `OutOfReach` that what a right and exhausted map
lacks is not within reach.

`BackendProofs` is about the assistant's turn and the tools, one invariant for each:

- `EveryTurnBounded` (`TurnBounded`) for any limits: the model has not been heard before the round after
  a plan (`HeardAfterPlan`).
- `BatchAccounted` (`BatchReportsAll`) for any number of videos and verdicts. `BulkInv` says what the videos
  behind, at and ahead of the loop look like (`PlaceInv`), that an object nobody was told of ended the
  batch (`ArtifactInv`), and that the count of like verdicts stands for the rejection of the video just
  done (`RepeatInv`). It was here that the property as first stated turned out false.
- `TagsAccounted` (`TagsReportHolds`) for any ads, sources and calls. `PhaseInv` has the types and what a phase
  leaves for the next, `MovedInv` says of every ad where it points given the list it is on, `FreshInv`
  that a creative of this call was made for a group which has an ad on it or a failure to show, and
  `ListedInv` that an ad is on a list once its group is done.
- `HintsAreKept` (`ToolsKeepTheirWord`), for any number of repetitions and of resent requests: lemma
  `AllTrusted` goes through all tools by the shape of their handlers and shows of each what its hints
  allow or which of the four sets it is in; `WordInv` carries that over lost answers, resent
  requests, failures and repetitions: what was executed, what was heard of and what was declined are
  all accounted for by the requests behind (`ExecutedTyped`, `Behind`).

It is also about the three analyses, for any number of objects and any figures. Here the state is small,
since each is one step from rows to a result (`AdviceInv`, `ReviewInv` and `DiagnosisInv` say that the result
is that of the rows kept beside it), and the arithmetic is the proof:

- Sums over the rows (`Total`) are recursive functions. Nothing about them needs induction: a sum that
  went wrong would have a first row where it does, and the least element of a set of naturals exists
  (`Least`). So sums are defined and unique (`TotalIsSum`), linear (`TotalLinear`), no less than any figure
  of a row (`TotalCovers`) and no more than so many times the largest (`TotalBounded`).
- `AdviceFitsTogether` (`AdviceIsCoherent`). An object that is to be stopped returns less than half of what
  the account does, as reported and so, unless that is understated, by its counters (`ReturnBelow`);
  were all that earn to be stopped, the account would return less than half of itself
  (`SomeEarnerStays`). Objects to be grown return more than one and a half times as much (`ReturnAbove`,
  where the counters bear it out); on two
  thirds of the spend they would bring more than the whole revenue (`RoomToShift`). A short list holds
  what precedes the rest because fewer precede what precedes it (`ShortListInOrder`).
- `ReviewAndAdviceAgree` (`ReviewIsCoherent`), for any reported rates: both go by the same one. What is judged by its return cannot be above one and a half
  times the account's and be weak, not even by the cost of a purchase (`WellOffIsNotWeak`), and a move of
  a fifth, unrounded, is one of 19.95 % as the review rounds it (`Cross`, `TrendsAgree`).
- `ChangeExplained` (`DiagnosisExplains`). The return that the counters give is a product of fractions that cancel, so that one of
  them moved if it did (`Through`, three times in `NothingToBlame`); the parts of the children add up to
  the change, so that one has its sign and the largest is an equal share at least (`PartsOfChange`).
  A shift of spend is compared over three rates, from the one reported now to the counters, across
  the two periods, and back to the one reported then (`Between`, `RisesFurther`, `SpendShifted`).

The proofs found two places where a property had said more than the code does, though no run could
tell. An account whose revenue comes with no purchases at all could have all that earns it advised to
be stopped: `AdviceIsCoherent` speaks of accounts whose revenue is reported with the purchases it comes
from, as `dashboard/services/metrics.ts:101-108` reads it. And the split of a return is also blocked by a
period without impressions, whatever its clicks.

Last, a behaviour of `backend` is one of each of its components (`SideBySide`, from `OneAtATime`: a step of
one leaves the variables of the others alone). So every theorem about one of them holds in the
composition; `BackendTypes` (`BackendTypeOK`) collects their types and `AnalysesFitTogether` (`AnalysesAgree`)
the three analyses.

The proofs assume what the modules' `ASSUME`s say of the constants, which TLC evaluates in the runs
above. Of the analyses it is that figures are naturals (money in its smallest unit) or not reported.

Only model-checked, because liveness under fairness needs `ENABLED`, which the proof system does not have:
both `EveryCallSettles`. Every other property of a run that passes is a theorem. Induction over data is
out of its reach too; where a result is defined row by row, the argument is the one of the first row
that goes wrong.

## 6. Not modelled

Formatting, validation of arguments, the guardrails and planners of the single write tools; the
Express and MCP plumbing; streams, subprocesses, cryptography; the frontend, the scripts; `withDeadline`,
the sweep of old scratch directories, and what the analysis cache holds. Pagination is a sequential
loop over the client's reads without a state of its own. Of OAuth, the registration of clients,
signatures, scopes and access tokens; of the token repository, the file-backed store and encryption;
of the agent's turn, time and the API client's retry; of the tools, fields and the interval between
polls; of the analyses, frequency, the sizes of logarithmic shares, the order of the lists and
the texts. The login flow, sessions and the Apify client keep nothing between two requests but what is
in the stores modelled. Instances do not share their throttles, caches or limiters
(`docs/dashboard.md` says so), so one process is modelled; what several instances share is in
Firestore, where `CloneBundle`, `OAuth` and `MetaTokens` let any number of requests interleave at every
round trip, whichever instance they run on.
