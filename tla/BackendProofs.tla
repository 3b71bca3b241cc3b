---------------------------- MODULE BackendProofs ----------------------------
(* What is promised of the assistant's turn and of the tools, whatever fails *)
(* on the way: the limits of a turn, the reports of the two tools that work  *)
(* through a list, and the hints every tool of the server is registered with.*)
(* Then that its three analyses of an account fit together, whatever the     *)
(* account reports, and what follows for all components side by side.        *)
EXTENDS MCBackend, StoreProofs, DatasetLookupProofs

(* The limits of a turn, for every value of them and any tools.             *)
\* How often the model was heard after a plan was staged: not before the round
\* that follows it.
HeardAfterPlan ==
  /\ ~staged => tally.after = 0
  /\ agent.pc \in {"idle", "round", "tools"} => tally.after = 0
  /\ agent.pc = "idle" => ~staged

TurnInv == AgentTypeOK /\ HeardAfterPlan /\ TurnBounded

LEMMA InitialTurn == AgentInit => TurnInv
<1> SUFFICES ASSUME AgentInit PROVE TurnInv
  OBVIOUS
<1>1. 0 * MaxResultBytes = 0
  BY AgentAssumption
<1>2. AgentTypeOK
  <2>1. agent \in [pc : {"idle"}, steps : 0..MaxSteps, uses : 0..MaxUses]
    BY AgentAssumption DEF AgentInit
  <2>2. budget \in [calls : 0..MaxToolCalls, bytes : Nat]
    BY AgentAssumption DEF AgentInit
  <2>3. agent \in [pc : {"idle", "round", "asking", "tools", "threw"} \cup Stops,
                   steps : 0..MaxSteps, uses : 0..MaxUses]
    BY <2>1
  <2> QED BY <2>2, <2>3 DEF AgentInit, AgentTypeOK
<1>3. HeardAfterPlan
  BY DEF AgentInit, HeardAfterPlan
<1>4. TurnBounded
  BY <1>1, AgentAssumption DEF AgentInit, TurnBounded, Stops
<1> QED BY <1>2, <1>3, <1>4 DEF TurnInv

\* What a stop leaves as it is, and that it reports.
LEMMA FinishReports ==
  ASSUME TurnInv, NEW reason \in Stops, finish(reason),
         UNCHANGED <<writesAllowed, budget, served, staged>>
  PROVE  TurnInv'
<1> USE DEF TurnInv
<1>1. /\ agent' = [pc |-> reason, steps |-> agent.steps, uses |-> 0]
      /\ tally' = [reads |-> tally.reads, plans |-> tally.plans, after |-> tally.after,
                   reported |-> staged]
  BY DEF finish, AgentTypeOK
<1>2. AgentTypeOK'
  BY <1>1, AgentAssumption DEF AgentTypeOK
<1>3. HeardAfterPlan'
  BY <1>1 DEF HeardAfterPlan, Stops
<1>4. TurnBounded'
  BY <1>1 DEF TurnBounded
<1> QED BY <1>2, <1>3, <1>4

\* One tool use, whatever it asks for.
LEMMA UseToolKeeps == TurnInv /\ UseTool => TurnInv'
<1> SUFFICES ASSUME TurnInv, UseTool PROVE TurnInv'
  OBVIOUS
<1> USE DEF TurnInv
<1>1. /\ agent' = [pc |-> "tools", steps |-> agent.steps, uses |-> agent.uses - 1]
      /\ agent.uses \in 1..MaxUses /\ agent.uses - 1 \in 0..MaxUses
      /\ agent.pc = "tools" /\ agent.steps \in 0..MaxSteps /\ UNCHANGED writesAllowed
  BY AgentAssumption DEF UseTool, Handled, AgentTypeOK
<1>2. CASE BudgetExhausted
  BY <1>1, <1>2 DEF BudgetExhausted, AgentTypeOK, HeardAfterPlan, TurnBounded, Stops
<1>3. ASSUME ~exhausted
      PROVE  budget.calls + 1 \in 1..MaxToolCalls /\ budget.bytes < MaxTotalBytes
  BY <1>3, AgentAssumption DEF exhausted, AgentTypeOK
<1>4. CASE UseRefused
  <2>1. /\ budget' = [calls |-> budget.calls + 1, bytes |-> budget.bytes]
        /\ UNCHANGED <<served, staged, tally>>
    BY <1>4 DEF UseRefused, spend, AgentTypeOK
  <2> QED BY <1>1, <1>3, <1>4, <2>1 DEF UseRefused, AgentTypeOK, HeardAfterPlan, TurnBounded, Stops
<1>5. CASE PlanWrite
  <2>1. /\ budget' = [calls |-> budget.calls + 1, bytes |-> budget.bytes]
        /\ UNCHANGED served /\ ~staged /\ writesAllowed
    BY <1>5 DEF PlanWrite, mayPlan, spend, AgentTypeOK
  <2>2. CASE UNCHANGED <<staged, tally>>
    BY <1>1, <1>3, <1>5, <2>1, <2>2 DEF PlanWrite, AgentTypeOK, HeardAfterPlan, TurnBounded, Stops
  <2>3. CASE staged' = TRUE /\ tally' = [tally EXCEPT !.plans = @ + 1]
    <3>1. tally' = [reads |-> tally.reads, plans |-> 1, after |-> 0, reported |-> tally.reported]
      BY <1>1, <2>1, <2>3 DEF AgentTypeOK, HeardAfterPlan, TurnBounded
    <3>2. tally.plans = 0
      BY <2>1 DEF AgentTypeOK, TurnBounded
    <3> QED BY <1>1, <1>3, <1>5, <2>1, <2>3, <3>1, <3>2
            DEF PlanWrite, AgentTypeOK, HeardAfterPlan, TurnBounded, Stops
  <2> QED BY <1>5, <2>2, <2>3 DEF PlanWrite
<1>6. ASSUME NEW k \in Reads, DuplicateRead(k) PROVE TurnInv'
  BY <1>1, <1>6 DEF DuplicateRead, AgentTypeOK, HeardAfterPlan, TurnBounded, Stops
<1>7. ASSUME NEW k \in Reads, RunRead(k) PROVE TurnInv'
  <2>1. PICK bytes \in 0..MaxResultBytes :
          budget' = [calls |-> budget.calls + 1, bytes |-> budget.bytes + bytes]
    BY <1>7 DEF RunRead
  <2>2. /\ tally' = [reads |-> tally.reads + 1, plans |-> tally.plans, after |-> tally.after,
                     reported |-> tally.reported]
        /\ UNCHANGED staged /\ served' \subseteq Reads
    BY <1>7 DEF RunRead, AgentTypeOK
  <2>3. (tally.reads + 1) * MaxResultBytes = tally.reads * MaxResultBytes + MaxResultBytes
    BY AgentAssumption DEF AgentTypeOK
  <2>4. AgentTypeOK'
    BY <1>1, <1>3, <1>7, <2>1, <2>2, AgentAssumption DEF RunRead, AgentTypeOK
  <2>5. HeardAfterPlan'
    BY <1>1, <2>2 DEF HeardAfterPlan
  <2>6. budget'.bytes < MaxTotalBytes + MaxResultBytes /\ budget'.calls <= MaxToolCalls
    BY <1>3, <1>7, <2>1, AgentAssumption DEF RunRead, AgentTypeOK
  <2>7. budget'.bytes <= tally'.reads * MaxResultBytes
    <3> DEFINE most == tally.reads * MaxResultBytes
    <3>1. most \in Nat /\ budget.bytes <= most
      BY AgentAssumption DEF AgentTypeOK, TurnBounded
    <3>2. budget'.bytes = budget.bytes + bytes /\ tally'.reads * MaxResultBytes = most + MaxResultBytes
      BY <2>1, <2>2, <2>3
    <3> HIDE DEF most
    <3> QED BY <3>1, <3>2, AgentAssumption DEF AgentTypeOK
  <2>8. tally'.reads + tally'.plans <= budget'.calls
    BY <2>1, <2>2 DEF AgentTypeOK, TurnBounded
  <2>9. TurnBounded'
    BY <1>1, <2>2, <2>6, <2>7, <2>8 DEF TurnBounded, Stops
  <2> QED BY <2>4, <2>5, <2>9
<1> QED BY <1>2, <1>4, <1>5, <1>6, <1>7 DEF UseTool

LEMMA TurnInvHolds == AgentSpec => []TurnInv
<1>1. TurnInv /\ [AgentNext]_agentVars => TurnInv'
  <2> SUFFICES ASSUME TurnInv, [AgentNext]_agentVars PROVE TurnInv'
    OBVIOUS
  <2> USE DEF TurnInv
  <2>1. CASE Ask
    BY <2>1 DEF Ask, AgentTypeOK, HeardAfterPlan, TurnBounded, Stops
  <2>2. CASE StartRound
    <3>1. CASE \E reason \in Stops : finish(reason)
      BY <2>2, <3>1, FinishReports DEF StartRound
    <3>2. CASE agent.steps < MaxSteps /\ agent' = [agent EXCEPT !.pc = "asking", !.steps = @ + 1]
               /\ tally' = [tally EXCEPT !.after = IF staged THEN @ + 1 ELSE @]
      <4>1. agent' = [pc |-> "asking", steps |-> agent.steps + 1, uses |-> agent.uses]
        BY <3>2 DEF AgentTypeOK
      <4>2. agent.steps + 1 \in 0..MaxSteps
        BY <3>2, AgentAssumption DEF AgentTypeOK
      <4>3. tally.after = 0
        BY <2>2 DEF StartRound, HeardAfterPlan
      <4>4. tally' = [reads |-> tally.reads, plans |-> tally.plans,
                      after |-> IF staged THEN 1 ELSE 0, reported |-> tally.reported]
        BY <3>2, <4>3 DEF AgentTypeOK
      <4>5. UNCHANGED <<writesAllowed, budget, served, staged>>
        BY <2>2 DEF StartRound
      <4> QED BY <4>1, <4>2, <4>4, <4>5 DEF AgentTypeOK, HeardAfterPlan, TurnBounded, Stops
    <3> QED BY <2>2, <3>1, <3>2 DEF StartRound, Stops
  <2>3. CASE Reply
    <3>1. CASE \E reason \in Stops : finish(reason)
      BY <2>3, <3>1, FinishReports DEF Reply
    <3>2. ASSUME NEW uses \in 0..MaxUses, stopsAfterReply(uses) = {},
                 agent' = [agent EXCEPT !.pc = "tools", !.uses = uses], UNCHANGED tally
          PROVE  TurnInv'
      <4>1. ~staged
        BY <3>2 DEF stopsAfterReply
      <4>2. agent' = [pc |-> "tools", steps |-> agent.steps, uses |-> uses]
        BY <3>2 DEF AgentTypeOK
      <4>3. UNCHANGED <<writesAllowed, budget, served, staged>>
        BY <2>3 DEF Reply
      <4> QED BY <3>2, <4>1, <4>2, <4>3 DEF AgentTypeOK, HeardAfterPlan, TurnBounded, Stops
    <3> QED BY <2>3, <3>1, <3>2 DEF Reply, stopsAfterReply, Stops
  <2>4. CASE ModelFails
    BY <2>4 DEF ModelFails, AgentTypeOK, HeardAfterPlan, TurnBounded, Stops
  <2>5. CASE UseTool
    BY <2>5, UseToolKeeps
  <2>6. CASE EndRound
    BY <2>6 DEF EndRound, AgentTypeOK, HeardAfterPlan, TurnBounded, Stops
  <2>7. CASE UNCHANGED agentVars
    BY <2>7 DEF agentVars, AgentTypeOK, HeardAfterPlan, TurnBounded
  <2> QED BY <2>1, <2>2, <2>3, <2>4, <2>5, <2>6, <2>7 DEF AgentNext
<1> QED BY <1>1, InitialTurn, PTL DEF AgentSpec

\* Whatever the model asks for, a turn stays within its limits of steps, tool
\* calls and bytes, plans once at most and reports what it planned (runAgent).
THEOREM EveryTurnBounded == AgentSpec => []TurnBounded
BY TurnInvHolds, PTL DEF TurnInv
-----------------------------------------------------------------------------
(* ads_bulk_create_video_ads, for any number of videos and any verdicts.    *)
\* What a video that has not been begun looks like.
Untouched(v) ==
  /\ results[v] = [ids |-> {}, failed |-> "none", skipped |-> FALSE]
  /\ rejections[v] = NoFailure
  /\ \A it \in sent : it[1] # v

\* The videos behind the one at hand, which is one of them between two videos.
Past == IF batch.pc \in Stages THEN 1..(batch.at - 1) ELSE 1..batch.at
Stopped == batch.systemic \/ batch.late

\* Where the batch is: nothing of a later video is begun, a stage is only entered
\* while nothing has stopped the batch, and what is behind is accounted for.
PlaceInv ==
  /\ \A v \in (batch.at + 1)..Videos : Untouched(v)
  /\ batch.pc \in Stages =>
       /\ batch.at # 0 /\ ~Stopped
       /\ ~results[batch.at].skipped /\ rejections[batch.at] = NoFailure
  /\ \A v \in Past : results[v].skipped \/ results[v].failed # "none" \/ "ad" \in results[v].ids
  /\ \A it \in sent : ~results[it[1]].skipped

\* An object nobody was told of ended the batch.
ArtifactInv ==
  /\ \A x, y \in unheardOf : x = y
  /\ unheardOf # {} => batch.systemic
  /\ \A it \in unheardOf : results[it[1]].failed = it[2]
  /\ batch.pc = "threw" => created = unheardOf
  /\ batch.pc = "reported" => batch.at = Videos

\* The count of repetitions knows the video before, as long as the batch goes on.
RepeatInv ==
  /\ ~batch.systemic => repeats.count < REPEATED_FAILURE_LIMIT
  /\ ~Stopped => \A v \in Past : v + 1 \notin Past /\ rejections[v] # NoFailure =>
       repeats.signature = rejections[v] /\ repeats.count >= 1
  /\ \A v \in 2..Videos : Alike(v - 1, v) => batch.systemic /\ \A it \in sent : it[1] <= v

BulkInv == BulkTypeOK /\ PlaceInv /\ ArtifactInv /\ RepeatInv

LEMMA InitialBatch == BulkInit => BulkInv
<1> SUFFICES ASSUME BulkInit PROVE BulkInv
  OBVIOUS
<1> USE BulkAssumption DEF BulkInit
<1>1. BulkTypeOK
  BY DEF BulkTypeOK, Failures
<1>2. PlaceInv
  BY DEF PlaceInv, Untouched, Stages, Past
<1>3. ArtifactInv
  BY DEF ArtifactInv, unheardOf
<1>4. RepeatInv
  BY DEF RepeatInv, Past, Stages, Alike, REPEATED_FAILURE_LIMIT
<1> QED BY <1>1, <1>2, <1>3, <1>4 DEF BulkInv

\* The video at hand fails, and may leave an object nobody was told of. A verdict
\* is remembered by the count, which stops the batch when the video before met it.
LEMMA StageFails ==
  ASSUME BulkInv, batch.pc \in Stages, NEW stops \in BOOLEAN, NEW r \in Failures,
         failed, Leave(stops), repeats' \in [signature : Failures, count : 0..2],
         rejections' = [rejections EXCEPT ![v0] = r],
         sent' \in {sent, sent \cup {<<v0, batch.pc>>}},
         created' \in {created, created \cup {<<v0, batch.pc>>}}, created' \subseteq sent',
         created' # created => stops,
         ~stops => repeats'.count < REPEATED_FAILURE_LIMIT,
         r # NoFailure => repeats'.signature = r /\ repeats'.count >= 1,
         v0 # 1 /\ r = rejections[v0 - 1] /\ r # NoFailure => stops
  PROVE  BulkInv'
<1> USE BulkAssumption DEF BulkInv, v0
<1> DEFINE v == batch.at
<1>1. /\ batch' = [pc |-> "next", at |-> v, late |-> batch.late, systemic |-> stops]
      /\ v \in 1..Videos /\ batch.late \in BOOLEAN /\ ~Stopped /\ ~batch.late /\ ~batch.systemic
      /\ batch.pc \in Stages /\ batch.pc # "none"
  <2>1. batch \in [pc : Stages \cup {"idle", "next", "reported", "threw"}, at : 0..Videos,
                    late : BOOLEAN, systemic : BOOLEAN]
    BY DEF BulkTypeOK
  <2>2. ~Stopped /\ v # 0
    BY DEF PlaceInv
  <2>3. batch' = [pc |-> "next", at |-> v, late |-> batch.late, systemic |-> stops]
    BY <2>1 DEF Leave
  <2> QED BY <2>1, <2>2, <2>3 DEF Stopped, Stages
<1>2. /\ results' = [results EXCEPT ![v].failed = batch.pc]
      /\ results'[v] = [ids |-> results[v].ids, failed |-> batch.pc, skipped |-> FALSE]
      /\ \A w \in 1..Videos : w # v => results'[w] = results[w]
      /\ \A w \in 1..Videos : results'[w].ids = results[w].ids
                               /\ results'[w].skipped = results[w].skipped
  BY <1>1 DEF failed, BulkTypeOK, PlaceInv
<1>3. /\ rejections'[v] = r /\ rejections[v] = NoFailure
      /\ \A w \in 1..Videos : w # v => rejections'[w] = rejections[w]
      /\ rejections' \in [1..Videos -> Failures]
  BY <1>1 DEF BulkTypeOK, PlaceInv
<1>4. BulkTypeOK'
  <2>1. results' \in [1..Videos -> [ids : SUBSET Stages, failed : Stages \cup {"none"},
                                    skipped : BOOLEAN]]
    BY <1>1, <1>2 DEF BulkTypeOK
  <2>2. sent' \subseteq (1..Videos) \X Stages
    BY <1>1 DEF BulkTypeOK
  <2> QED BY <1>1, <1>3, <2>1, <2>2 DEF BulkTypeOK
<1>5. \A w \in (v + 1)..Videos : Untouched(w) /\ w # v /\ w \in 1..Videos
  BY <1>1 DEF PlaceInv
<1>6. \A it \in sent' : it \in sent \/ it = <<v, batch.pc>>
  OBVIOUS
<1>7. \A w \in (v + 1)..Videos : Untouched(w)'
  BY <1>1, <1>2, <1>3, <1>5, <1>6 DEF Untouched
<1>8. Past' = 1..v /\ Past = 1..(v - 1)
  BY <1>1 DEF Past, Stages
<1>9. PlaceInv'
  <2>1. \A w \in 1..v : results'[w].skipped \/ results'[w].failed # "none" \/ "ad" \in results'[w].ids
    BY <1>1, <1>2, <1>8 DEF PlaceInv
  <2>2. \A it \in sent' : ~results'[it[1]].skipped
    BY <1>1, <1>2, <1>6 DEF PlaceInv, BulkTypeOK
  <2> QED BY <1>1, <1>7, <1>8, <2>1, <2>2 DEF PlaceInv, Stages
<1>10. ArtifactInv'
  <2>1. unheardOf = {}
    BY <1>1 DEF ArtifactInv
  <2>2. \A it \in unheardOf' : it = <<v, batch.pc>> /\ created' # created
    BY <1>1, <1>2, <2>1 DEF unheardOf, BulkTypeOK
  <2> QED BY <1>1, <1>2, <2>2 DEF ArtifactInv
<1>11. RepeatInv'
  <2>1. ~Stopped' => \A w \in Past' : w + 1 \notin Past' /\ rejections'[w] # NoFailure =>
          repeats'.signature = rejections'[w] /\ repeats'.count >= 1
    BY <1>1, <1>3, <1>8
  <2>2. ASSUME NEW w \in 2..Videos, Alike(w - 1, w)' 
        PROVE  stops /\ \A it \in sent' : it[1] <= w
    <3>1. w - 1 \in 1..Videos /\ w \in 1..Videos
      OBVIOUS
    <3>2. ~Alike(w - 1, w)
      BY <1>1 DEF RepeatInv
    <3>3. w = v
      <4>1. CASE w > v
        BY <1>7, <2>2, <4>1, <1>1 DEF Untouched, Alike
      <4>2. CASE w < v
        BY <1>3, <2>2, <3>1, <3>2, <4>2, <1>1 DEF Alike
      <4> QED BY <1>1, <4>1, <4>2
    <3>4. stops
      BY <1>1, <1>3, <2>2, <3>1, <3>3 DEF Alike
    <3>5. \A it \in sent' : it[1] <= v
      <4>1. \A it \in sent' : it[1] \in 1..Videos
        BY <1>4 DEF BulkTypeOK
      <4> QED BY <1>1, <1>7, <4>1 DEF Untouched
    <3> QED BY <3>3, <3>4, <3>5
  <2> QED BY <1>1, <2>1, <2>2 DEF RepeatInv
<1> QED BY <1>4, <1>9, <1>10, <1>11

\* The three ways a stage fails.
LEMMA FailureKeeps ==
  ASSUME BulkInv, batch.pc \in Stages,
         sent' \in {sent, sent \cup {<<v0, batch.pc>>}},
         created' \in {created, created \cup {<<v0, batch.pc>>}}, created' \subseteq sent',
         \/ (FailedLocally \/ \E text \in Verdicts : Rejected(text)) /\ created' = created
         \/ Condemned
  PROVE  BulkInv'
<1>1. /\ v0 \in 1..Videos /\ rejections[v0] = NoFailure /\ rejections \in [1..Videos -> Failures]
      /\ repeats \in [signature : Failures, count : 0..2] /\ repeats.count < 2 /\ ~Stopped
  BY BulkAssumption DEF BulkInv, BulkTypeOK, PlaceInv, RepeatInv, Stopped, v0, REPEATED_FAILURE_LIMIT
<1>2. NoFailure \in Failures /\ [rejections EXCEPT ![v0] = NoFailure] = rejections
  BY <1>1 DEF Failures
<1>3. CASE FailedLocally /\ created' = created
  <2>1. repeats' = [signature |-> NoFailure, count |-> 0]
    BY <1>3 DEF FailedLocally, resetRepeats
  <2>2. repeats' \in [signature : Failures, count : 0..2] /\ repeats'.count < REPEATED_FAILURE_LIMIT
    BY <1>2, <2>1 DEF REPEATED_FAILURE_LIMIT
  <2> QED BY <1>2, <1>3, <2>2, StageFails DEF FailedLocally
<1>4. CASE Condemned
  BY <1>1, <1>2, <1>4, StageFails DEF Condemned
<1>5. ASSUME NEW text \in Verdicts, Rejected(text), created' = created PROVE BulkInv'
  <2> DEFINE r == <<batch.pc, text>>
             stops == repeats'.count >= REPEATED_FAILURE_LIMIT
  <2>1. r \in Failures /\ r # NoFailure
    BY DEF Failures, NoFailure, Stages
  <2>2. /\ repeats' = [signature |-> r, count |-> IF r = repeats.signature THEN repeats.count + 1 ELSE 1]
        /\ rejections' = [rejections EXCEPT ![v0] = r] /\ failed /\ Leave(stops)
    BY <1>5 DEF Rejected, counted
  <2>3. repeats' \in [signature : Failures, count : 0..2] /\ repeats'.signature = r /\ repeats'.count >= 1
    BY <1>1, <2>1, <2>2
  <2>4. ASSUME v0 # 1, r = rejections[v0 - 1] PROVE stops
    <3>1. v0 - 1 \in Past /\ (v0 - 1) + 1 \notin Past
      BY <1>1, <2>4 DEF Past, v0
    <3>2. repeats.signature = r /\ repeats.count >= 1
      BY <1>1, <2>1, <2>4, <3>1 DEF BulkInv, RepeatInv
    <3> QED BY <1>1, <2>2, <3>2 DEF REPEATED_FAILURE_LIMIT
  <2>5. ~stops => repeats'.count < REPEATED_FAILURE_LIMIT
    BY <2>3 DEF REPEATED_FAILURE_LIMIT
  <2>6. stops \in BOOLEAN
    BY <2>3 DEF REPEATED_FAILURE_LIMIT
  <2> HIDE DEF r, stops
  <2> QED BY <1>5, <2>1, <2>2, <2>3, <2>4, <2>5, <2>6, StageFails
<1> QED BY <1>3, <1>4, <1>5

\* A stage is done and what it made is known; the video's last ends the row of failures.
LEMMA StageDone ==
  ASSUME BulkInv, batch.pc \in Stages, NEW then \in (Stages \ {"upload"}) \cup {"next"},
         then = "next" => batch.pc = "ad",
         NEW made \in SUBSET {<<v0, batch.pc>>},
         sent' = sent \cup made, created' = created \cup made,
         batch' = [batch EXCEPT !.pc = then], UNCHANGED rejections,
         results' = [results EXCEPT ![v0].ids = @ \cup {it[2] : it \in made}],
         then = "next" => made # {},
         IF then = "next" THEN resetRepeats ELSE UNCHANGED repeats
  PROVE  BulkInv'
<1> USE BulkAssumption DEF BulkInv, v0
<1> DEFINE v == batch.at
<1>1. /\ batch' = [pc |-> then, at |-> v, late |-> batch.late, systemic |-> batch.systemic]
      /\ v \in 1..Videos /\ ~batch.late /\ ~Stopped /\ ~batch.systemic
      /\ batch.pc \in Stages /\ rejections[v] = NoFailure /\ ~results[v].skipped
  <2>1. batch \in [pc : Stages \cup {"idle", "next", "reported", "threw"}, at : 0..Videos,
                    late : BOOLEAN, systemic : BOOLEAN]
    BY DEF BulkTypeOK
  <2>2. ~Stopped /\ v # 0 /\ rejections[v] = NoFailure /\ ~results[v].skipped
    BY DEF PlaceInv
  <2>3. batch' = [pc |-> then, at |-> v, late |-> batch.late, systemic |-> batch.systemic]
    BY <2>1
  <2> QED BY <2>1, <2>2, <2>3 DEF Stopped
<1>2. /\ results'[v] = [ids |-> results[v].ids \cup {it[2] : it \in made},
                        failed |-> results[v].failed, skipped |-> results[v].skipped]
      /\ \A w \in 1..Videos : w # v => results'[w] = results[w]
      /\ \A w \in 1..Videos : results'[w].skipped = results[w].skipped
  <2>1. results \in [1..Videos -> [ids : SUBSET Stages, failed : Stages \cup {"none"},
                                   skipped : BOOLEAN]]
    BY DEF BulkTypeOK
  <2> DEFINE heard == {it[2] : it \in made}
  <2>2. results' = [results EXCEPT ![v].ids = @ \cup heard]
    OBVIOUS
  <2> HIDE DEF heard
  <2>3. results'[v] = [ids |-> results[v].ids \cup heard,
                       failed |-> results[v].failed, skipped |-> results[v].skipped]
    <3>1. results[v] \in [ids : SUBSET Stages, failed : Stages \cup {"none"}, skipped : BOOLEAN]
      BY <1>1, <2>1
    <3>2. results'[v] = [results[v] EXCEPT !.ids = @ \cup heard]
      BY <1>1, <2>1, <2>2
    <3> QED BY <3>1, <3>2
  <2>4. \A w \in 1..Videos : w # v => results'[w] = results[w]
    BY <1>1, <2>1, <2>2
  <2> QED BY <2>3, <2>4 DEF heard
<1>3. /\ {it[2] : it \in made} \subseteq {batch.pc}
      /\ made # {} => batch.pc \in {it[2] : it \in made}
  OBVIOUS
<1>4. BulkTypeOK'
  <2>1. results' \in [1..Videos -> [ids : SUBSET Stages, failed : Stages \cup {"none"},
                                    skipped : BOOLEAN]]
    BY <1>1, <1>2, <1>3 DEF BulkTypeOK
  <2>2. sent' \subseteq (1..Videos) \X Stages /\ created' \subseteq sent'
    BY <1>1 DEF BulkTypeOK
  <2>3. repeats' \in [signature : Failures, count : 0..2]
    BY DEF BulkTypeOK, resetRepeats, Failures
  <2> QED BY <1>1, <2>1, <2>2, <2>3 DEF BulkTypeOK
<1>5. \A w \in (v + 1)..Videos : Untouched(w) /\ w # v /\ w \in 1..Videos
  BY <1>1 DEF PlaceInv
<1>6. \A it \in sent' : it \in sent \/ it = <<v, batch.pc>>
  OBVIOUS
<1>7. \A w \in (v + 1)..Videos : Untouched(w)'
  BY <1>1, <1>2, <1>5, <1>6 DEF Untouched
<1>8. Past = 1..(v - 1) /\ Past' = IF then = "next" THEN 1..v ELSE 1..(v - 1)
  BY <1>1 DEF Past, Stages
<1>9. PlaceInv'
  <2>1. \A w \in Past' : results'[w].skipped \/ results'[w].failed # "none" \/ "ad" \in results'[w].ids
    BY <1>1, <1>2, <1>3, <1>8 DEF PlaceInv
  <2>2. \A it \in sent' : ~results'[it[1]].skipped
    BY <1>1, <1>2, <1>6 DEF PlaceInv, BulkTypeOK
  <2> QED BY <1>1, <1>2, <1>7, <2>1, <2>2 DEF PlaceInv, Stopped
<1>10. ArtifactInv'
  <2>1. unheardOf = {}
    BY <1>1 DEF ArtifactInv
  <2>2. \A it \in created' : it[2] \in results'[it[1]].ids
    BY <1>1, <1>2, <1>3, <2>1 DEF unheardOf, BulkTypeOK
  <2>3. unheardOf' = {}
    BY <2>2 DEF unheardOf
  <2> QED BY <1>1, <2>3 DEF ArtifactInv, Stages
<1>11. RepeatInv'
  <2>1. repeats'.count < REPEATED_FAILURE_LIMIT
    BY <1>1 DEF RepeatInv, resetRepeats, REPEATED_FAILURE_LIMIT
  <2>2. ASSUME NEW w \in Past', w + 1 \notin Past', rejections'[w] # NoFailure
        PROVE  repeats'.signature = rejections'[w] /\ repeats'.count >= 1
    <3>1. then # "next"
      BY <1>1, <1>8, <2>2
    <3> QED BY <1>1, <1>8, <2>2, <3>1 DEF RepeatInv
  <2>3. \A w \in 2..Videos : ~Alike(w - 1, w)'
    BY <1>1 DEF RepeatInv, Alike
  <2> QED BY <2>1, <2>2, <2>3 DEF RepeatInv
<1> QED BY <1>4, <1>9, <1>10, <1>11

LEMMA PostKeeps ==
  ASSUME BulkInv, batch.pc \in Stages, NEW then \in (Stages \ {"upload"}) \cup {"next"},
         then = "next" <=> batch.pc = "ad", Post(then)
  PROVE  BulkInv'
<1> DEFINE it == <<v0, batch.pc>>
<1>1. sent' = sent \cup {it} /\ created \subseteq sent
  BY DEF Post, BulkInv, BulkTypeOK
<1>2. CASE /\ created' = created \cup {it}
           /\ results' = [results EXCEPT ![v0].ids = @ \cup {batch.pc}]
           /\ batch' = [batch EXCEPT !.pc = then]
           /\ IF then = "next" THEN resetRepeats ELSE UNCHANGED repeats
           /\ UNCHANGED rejections
  <2>1. it[2] = batch.pc
    OBVIOUS
  <2>2. {x[2] : x \in {it}} = {batch.pc}
    BY <2>1, Zenon
  <2> QED BY <1>1, <1>2, <2>2, StageDone
<1>3. CASE (\E text \in Verdicts : Rejected(text)) /\ UNCHANGED created
  BY <1>1, <1>3, FailureKeeps
<1>4. CASE Condemned /\ created' \in {created, created \cup {it}}
  BY <1>1, <1>4, FailureKeeps
<1> QED BY <1>2, <1>3, <1>4 DEF Post

LEMMA FailsBeforeKeeps ==
  ASSUME BulkInv, batch.pc \in Stages, FailsBefore PROVE BulkInv'
<1>1. created \subseteq sent
  BY DEF BulkInv, BulkTypeOK
<1> QED BY <1>1, FailureKeeps DEF FailsBefore

LEMMA WaitKeeps ==
  ASSUME BulkInv, waitForVideoReady PROVE BulkInv'
<1>1. /\ batch.pc = "processing" /\ batch.pc \in Stages /\ sent' = sent /\ created' = created
      /\ created \subseteq sent
  BY DEF waitForVideoReady, Stages, BulkInv, BulkTypeOK
<1>2. CASE batch' = [batch EXCEPT !.pc = "creative"] /\ UNCHANGED <<repeats, results, rejections>>
  <2>1. {it[2] : it \in {}} = {} /\ v0 \in 1..Videos
    BY <1>1, BulkAssumption DEF BulkInv, BulkTypeOK, PlaceInv, v0
  <2>2. results \in [1..Videos -> [ids : SUBSET Stages, failed : Stages \cup {"none"},
                                   skipped : BOOLEAN]]
    BY DEF BulkInv, BulkTypeOK
  <2>4. results[v0] \in [ids : SUBSET Stages, failed : Stages \cup {"none"}, skipped : BOOLEAN]
    BY <2>1, <2>2
  <2>5. [results[v0] EXCEPT !.ids = @ \cup {it[2] : it \in {}}] = results[v0]
    BY <2>1, <2>4
  <2>6. results' = [results EXCEPT ![v0].ids = @ \cup {it[2] : it \in {}}]
    BY <1>2, <2>1, <2>2, <2>5
  <2>3. "creative" \in (Stages \ {"upload"}) \cup {"next"}
    BY DEF Stages
  <2> QED BY <1>1, <1>2, <2>1, <2>3, <2>6, StageDone
<1>3. CASE FailedLocally \/ Condemned \/ \E text \in Verdicts : Rejected(text)
  BY <1>1, <1>3, FailureKeeps
<1> QED BY <1>2, <1>3 DEF waitForVideoReady

LEMMA NextVideoKeeps ==
  ASSUME BulkInv, NextVideo PROVE BulkInv'
<1> USE BulkAssumption DEF BulkInv
<1> DEFINE v == batch.at + 1
<1>1. /\ batch.pc = "next" /\ v \in 1..Videos /\ v - 1 \in 0..Videos /\ batch.at \in 0..Videos
      /\ UNCHANGED <<repeats, sent, created, rejections>>
      /\ batch.late \in BOOLEAN /\ batch.systemic \in BOOLEAN /\ Past = 1..(v - 1)
      /\ rejections[v] = NoFailure /\ Untouched(v)
  BY DEF NextVideo, BulkTypeOK, PlaceInv, Untouched, Past, Stages
<1>2. CASE /\ ~batch.systemic /\ ~batch.late
           /\ batch' = [batch EXCEPT !.pc = "upload", !.at = v]
           /\ UNCHANGED results
  <2>1. batch' = [pc |-> "upload", at |-> v, late |-> batch.late, systemic |-> batch.systemic]
    BY <1>1, <1>2 DEF BulkTypeOK
  <2>2. Past' = Past
    BY <1>1, <2>1 DEF Past, Stages
  <2>3. BulkTypeOK'
    BY <1>1, <1>2, <2>1 DEF BulkTypeOK, Stages
  <2>4. PlaceInv'
    BY <1>1, <1>2, <2>1, <2>2 DEF PlaceInv, Untouched, Stopped
  <2>5. ArtifactInv'
    BY <1>1, <1>2, <2>1 DEF ArtifactInv, unheardOf
  <2>6. RepeatInv'
    BY <1>1, <1>2, <2>1, <2>2 DEF RepeatInv, Alike, Stopped
  <2> QED BY <2>3, <2>4, <2>5, <2>6
<1>3. CASE /\ batch' = [batch EXCEPT !.at = v, !.late = @ \/ ~batch.systemic]
           /\ results' = [results EXCEPT ![v].skipped = TRUE]
  <2>1. batch' = [pc |-> "next", at |-> v, late |-> batch.late \/ ~batch.systemic,
                  systemic |-> batch.systemic]
    BY <1>1, <1>3 DEF BulkTypeOK
  <2>2. /\ results'[v].ids = {} /\ results'[v].failed = "none" /\ results'[v].skipped
        /\ results'[v] \in [ids : SUBSET Stages, failed : Stages \cup {"none"}, skipped : BOOLEAN]
        /\ \A w \in 1..Videos : w # v => results'[w] = results[w]
        /\ \A w \in 1..Videos : results'[w].ids = results[w].ids /\ results'[w].failed = results[w].failed
    <3>1. DOMAIN results = 1..Videos
      BY DEF BulkTypeOK
    <3>2. results[v] = [ids |-> {}, failed |-> "none", skipped |-> FALSE]
      BY <1>1 DEF Untouched
    <3>3. results' = [results EXCEPT ![v] = [results[v] EXCEPT !.skipped = TRUE]]
      BY <1>3
    <3> DEFINE new == [results[v] EXCEPT !.skipped = TRUE]
    <3>4. /\ new.skipped /\ new.ids = {} /\ new.failed = "none"
          /\ new \in [ids : SUBSET Stages, failed : Stages \cup {"none"}, skipped : BOOLEAN]
          /\ results[v].ids = {} /\ results[v].failed = "none"
      <4>1. results[v] \in [ids : SUBSET Stages, failed : Stages \cup {"none"}, skipped : BOOLEAN]
        BY <1>1 DEF BulkTypeOK
      <4>2. results[v].ids = {} /\ results[v].failed = "none"
        BY <3>2
      <4> QED BY <4>1, <4>2
    <3> HIDE DEF new
    <3>5. results'[v] = new /\ \A w \in 1..Videos : w # v => results'[w] = results[w]
      BY <1>1, <3>1, <3>3 DEF new
    <3>6. \A w \in 1..Videos : results'[w].ids = results[w].ids /\ results'[w].failed = results[w].failed
      BY <3>4, <3>5
    <3> QED BY <3>4, <3>5, <3>6
  <2>3. Past' = 1..v /\ Stopped'
    BY <1>1, <2>1 DEF Past, Stages, Stopped
  <2>4. BulkTypeOK'
    <3>1. results' \in [1..Videos -> [ids : SUBSET Stages, failed : Stages \cup {"none"},
                                      skipped : BOOLEAN]]
      BY <1>1, <1>3, <2>2 DEF BulkTypeOK
    <3> QED BY <1>1, <2>1, <3>1 DEF BulkTypeOK
  <2>5. PlaceInv'
    <3>1. \A w \in (v + 1)..Videos : Untouched(w)'
      BY <1>1, <2>2 DEF PlaceInv, Untouched
    <3>2. \A w \in 1..v : results'[w].skipped \/ results'[w].failed # "none" \/ "ad" \in results'[w].ids
      BY <1>1, <2>2 DEF PlaceInv
    <3>3. \A it \in sent : it[1] # v /\ it[1] \in 1..Videos
      BY <1>1 DEF Untouched, BulkTypeOK
    <3> QED BY <1>1, <2>1, <2>2, <2>3, <3>1, <3>2, <3>3 DEF PlaceInv, Stages
  <2>6. unheardOf' = unheardOf /\ \A it \in created : it[1] \in 1..Videos
    BY <1>1, <2>2 DEF unheardOf, BulkTypeOK
  <2>7. ArtifactInv'
    BY <1>1, <2>1, <2>2, <2>6 DEF ArtifactInv, unheardOf
  <2>8. RepeatInv'
    BY <1>1, <2>1, <2>3 DEF RepeatInv, Alike
  <2> QED BY <2>4, <2>5, <2>7, <2>8
<1> QED BY <1>2, <1>3 DEF NextVideo

LEMMA BeginKeeps ==
  ASSUME BulkInv, BeginBatch PROVE BulkInv'
<1> USE DEF BulkInv
<1>1. /\ batch' = [pc |-> "next", at |-> batch.at, late |-> batch.late, systemic |-> batch.systemic]
      /\ batch.pc = "idle" /\ UNCHANGED <<repeats, results, sent, created, rejections>>
  BY DEF BeginBatch, BulkTypeOK
<1>2. Past' = Past /\ Stopped' = Stopped /\ unheardOf' = unheardOf
  BY <1>1 DEF Past, Stages, Stopped, unheardOf
<1>3. BulkTypeOK'
  BY <1>1 DEF BulkTypeOK
<1>4. PlaceInv'
  BY <1>1, <1>2 DEF PlaceInv, Untouched, Stages
<1>5. ArtifactInv'
  BY <1>1, <1>2 DEF ArtifactInv
<1>6. RepeatInv'
  BY <1>1, <1>2 DEF RepeatInv, Alike
<1> QED BY <1>3, <1>4, <1>5, <1>6

LEMMA ReportKeeps ==
  ASSUME BulkInv, Report PROVE BulkInv'
<1> USE DEF BulkInv
<1> DEFINE end == IF batch.systemic /\ ~leftArtifacts THEN "threw" ELSE "reported"
<1>1. /\ batch' = [pc |-> end, at |-> batch.at, late |-> batch.late, systemic |-> batch.systemic]
      /\ batch.pc = "next" /\ batch.at = Videos
      /\ UNCHANGED <<repeats, results, sent, created, rejections>>
  BY DEF Report, BulkTypeOK
<1>2. Past' = Past /\ Stopped' = Stopped /\ unheardOf' = unheardOf
  BY <1>1 DEF Past, Stages, Stopped, unheardOf
<1>3. BulkTypeOK'
  BY <1>1 DEF BulkTypeOK
<1>4. PlaceInv'
  BY <1>1, <1>2 DEF PlaceInv, Untouched, Stages
<1>5. end = "threw" => created = unheardOf
  BY DEF leftArtifacts, unheardOf, BulkTypeOK
<1>6. ArtifactInv'
  BY <1>1, <1>2, <1>5 DEF ArtifactInv
<1>7. RepeatInv'
  BY <1>1, <1>2 DEF RepeatInv, Alike
<1> QED BY <1>3, <1>4, <1>6, <1>7

LEMMA BatchInvariance == BulkSpec => []BulkInv
<1>1. BulkInit => BulkInv
  BY InitialBatch
<1>2. BulkInv /\ [BulkNext]_bulkVars => BulkInv'
  <2> SUFFICES ASSUME BulkInv, [BulkNext]_bulkVars PROVE BulkInv'
    OBVIOUS
  <2>1. CASE BeginBatch
    BY <2>1, BeginKeeps
  <2>2. CASE NextVideo
    BY <2>2, NextVideoKeeps
  <2>3. CASE Upload
    BY <2>3, FailsBeforeKeeps, PostKeeps DEF Upload, Stages
  <2>4. CASE waitForVideoReady
    BY <2>4, WaitKeeps
  <2>5. CASE BuildCreative
    BY <2>5, FailsBeforeKeeps, PostKeeps DEF BuildCreative, Stages
  <2>6. CASE BuildAd
    BY <2>6, PostKeeps DEF BuildAd, Stages
  <2>7. CASE Report
    BY <2>7, ReportKeeps
  <2>8. CASE UNCHANGED bulkVars
    BY <2>8 DEF bulkVars, BulkInv, BulkTypeOK, PlaceInv, ArtifactInv, RepeatInv, Untouched, Past,
                Stopped, unheardOf, Alike
  <2> QED BY <2>1, <2>2, <2>3, <2>4, <2>5, <2>6, <2>7, <2>8 DEF BulkNext
<1> QED BY <1>1, <1>2, PTL DEF BulkSpec

\* Whatever Meta answers and whenever the time runs out, a batch of any number of
\* videos reports all it created but one object of a failed video, and sends
\* nothing after two like rejections in succession (ads_bulk_create_video_ads).
THEOREM BatchAccounted == BulkSpec => []BatchReportsAll
<1>1. BulkInv => BatchReportsAll
  <2> SUFFICES ASSUME BulkInv PROVE BatchReportsAll
    OBVIOUS
  <2>1. batch.pc = "reported" => Past = 1..Videos
    BY DEF BulkInv, ArtifactInv, Past, Stages
  <2> QED BY <2>1 DEF BulkInv, PlaceInv, ArtifactInv, RepeatInv, BatchReportsAll
<1> QED BY <1>1, BatchInvariance, PTL
-----------------------------------------------------------------------------
(* ads_update_ad_url_tags, for any ads, creatives and number of calls.      *)
began == before.pointsAt
fresh == minted \ before.minted
grouped == {group[a] : a \in TaggedAds} \ {NoCreative}
Moving == round.pc \in {"repointing", "checking"}

\* What the history and the groups hold, and what each phase works on: ads, then
\* their creatives, then those to be rebuilt, and for each of them its ads.
PhaseInv ==
  /\ began \in [TaggedAds -> AllCreatives] /\ before.minted \subseteq minted
  /\ round.pc # "idle" => round.number \in 1..Rounds
  /\ \A a \in TaggedAds : group[a] # NoCreative => group[a] = began[a]
  /\ round.pc \in {"idle", "reading", "planning"} \/ round.dry => pointsAt = began /\ fresh = {}
  /\ round.dry => round.pc \in {"reading", "planning", "over"}
  /\ round.pc = "reading" => todo \subseteq TaggedAds /\ plan = {}
  /\ round.pc = "planning" => todo \subseteq grouped /\ todo \cap plan = {}
  /\ round.pc = "minting" => todo = plan
  /\ round.pc = "over" /\ ~round.dry => plan = {}
  /\ \A c \in plan : c \in grouped /\ ~hasTags(c) /\ planRebuild(c) /\ ~(Moving /\ round.source = c)
  /\ Moving => /\ round.source \in grouped /\ ~hasTags(round.source) /\ planRebuild(round.source)
               /\ todo \subseteq sharing(round.source)
  /\ round.pc = "checking" => round.ad \in sharing(round.source)

\* An ad that moved went to the new creative of its own, and is accounted for.
MovedInv ==
  \A a \in TaggedAds :
    /\ \/ pointsAt[a] = began[a]
       \/ /\ pointsAt[a] = <<began[a][1], round.number>> /\ ~hasTags(began[a])
          /\ outcome[a] \in {"updated", "failed"} \/ (round.pc = "checking" /\ round.ad = a)
    /\ outcome[a] = "updated" =>
         group[a] # NoCreative /\ pointsAt[a] = <<group[a][1], round.number>>

\* A new creative stands for one that ads of this call share. It is none that is
\* yet to be rebuilt, and its ads are being moved or have been.
FreshInv ==
  \A c \in fresh :
    LET ads == sharing(Original(c[1])) IN
    /\ c[2] = round.number /\ Original(c[1]) \in grouped \ plan /\ ~hasTags(Original(c[1]))
    /\ \/ Moving /\ round.source = Original(c[1])
       \/ \A a \in ads : outcome[a] = "updated"
       \/ \E a \in ads : outcome[a] = "failed"

\* Which ads are on no final list yet.
ListedInv ==
  \A a \in TaggedAds :
    /\ round.pc = "idle" => outcome[a] = "none"
    /\ round.pc = "reading" =>
         outcome[a] = IF a \in todo \/ group[a] # NoCreative THEN "none" ELSE "failed"
    /\ round.pc = "reading" /\ a \in todo => group[a] = NoCreative
    /\ round.pc \notin {"idle", "reading"} =>
         /\ group[a] = NoCreative => outcome[a] = "failed"
         /\ outcome[a] = "none" => round.pc = "planning" /\ group[a] \in todo
         /\ outcome[a] = "planned" =>
              \/ group[a] \in plan
              \/ /\ Moving /\ group[a] = round.source
                 /\ a \in todo \/ (round.pc = "checking" /\ a = round.ad)
    /\ outcome[a] = "skipped" => hasTags(group[a]) \/ ~planRebuild(group[a])
    /\ outcome[a] = "updated" => ~round.dry

TagsInv == TagsTypeOK /\ PhaseInv /\ MovedInv /\ FreshInv /\ ListedInv

Lists == {"none", "planned", "updated", "skipped", "failed"}
Round == [pc : {"idle", "reading", "planning", "minting", "repointing", "checking", "over"},
          number : 0..Rounds, dry : BOOLEAN, source : AllCreatives \cup {NoCreative},
          ad : TaggedAds \cup {NoCreative}]

\* A creative that does not carry the tags is one of those there were at first.
LEMMA Untagged ==
  /\ NoCreative \notin AllCreatives
  /\ \A c \in AllCreatives : ~hasTags(c) => c[1] \in Sources /\ c = Original(c[1])
  /\ \A c \in AllCreatives : c[1] \in Sources
  /\ \A s \in Sources : Original(s)[1] = s /\ Original(s) \in AllCreatives
  /\ \A c \in New : c[1] \in Sources
  /\ New \subseteq AllCreatives
<1> USE TagsAssumption DEF AllCreatives, New, Original, hasTags
<1>1. NoCreative \notin AllCreatives
  <2>1. AllCreatives \subseteq Sources \X (0..Rounds)
    OBVIOUS
  <2> QED BY <2>1, Zenon
<1> QED BY <1>1

LEMMA RoundTyped ==
  ASSUME TagsTypeOK
  PROVE  /\ round \in Round /\ round.number \in Nat
         /\ pointsAt \in [TaggedAds -> AllCreatives] /\ group \in [TaggedAds -> AllCreatives \cup {NoCreative}]
         /\ outcome \in [TaggedAds -> Lists]
         /\ plan \subseteq AllCreatives /\ minted \subseteq New
<1>1. round \in Round
  BY DEF TagsTypeOK, Round
<1>2. round.number \in Nat
  BY <1>1, TagsAssumption DEF Round
<1> QED BY <1>1, <1>2 DEF TagsTypeOK, Lists

LEMMA PutOn ==
  ASSUME TagsTypeOK, NEW ads, NEW list \in Lists, put(ads, list)
  PROVE  /\ outcome' \in [TaggedAds -> Lists]
         /\ \A a \in TaggedAds : outcome'[a] = IF a \in ads THEN list ELSE outcome[a]
  BY DEF put, TagsTypeOK, Lists

LEMMA InitialTags == TagsInit => TagsInv
<1> SUFFICES ASSUME TagsInit PROVE TagsInv
  OBVIOUS
<1>1. /\ round.pc = "idle" /\ round.number = 0 /\ round.dry = FALSE /\ began = pointsAt /\ fresh = {}
      /\ before.minted = {} /\ plan = {} /\ \A a \in TaggedAds : group[a] = NoCreative /\ outcome[a] = "none"
  BY DEF TagsInit, began, fresh
<1>2. TagsTypeOK
  <2>1. pointsAt \in [TaggedAds -> AllCreatives]
    BY DEF TagsInit, AllCreatives
  <2>2. 0 \in 0..Rounds
    BY TagsAssumption
  <2> QED BY <2>1, <2>2 DEF TagsInit, TagsTypeOK
<1>3. PhaseInv
  <2>1. began \in [TaggedAds -> AllCreatives]
    BY <1>1, <1>2 DEF TagsTypeOK
  <2> QED BY <1>1, <2>1 DEF PhaseInv, Moving
<1>4. MovedInv /\ FreshInv
  BY <1>1 DEF MovedInv, FreshInv
<1>5. ListedInv
  BY <1>1 DEF ListedInv
<1> QED BY <1>2, <1>3, <1>4, <1>5 DEF TagsInv

LEMMA CallKeeps == ASSUME TagsInv, CallTags PROVE TagsInv'
<1> USE DEF TagsInv
<1>1. PICK dry \in BOOLEAN :
        round' = [pc |-> "reading", number |-> round.number + 1, dry |-> dry,
                  source |-> NoCreative, ad |-> NoCreative]
  BY DEF CallTags
<1>2. /\ todo' = TaggedAds /\ plan' = {} /\ UNCHANGED <<pointsAt, minted>>
      /\ group' = [a \in TaggedAds |-> NoCreative] /\ outcome' = [a \in TaggedAds |-> "none"]
      /\ began' = pointsAt /\ before'.minted = minted /\ round.number < Rounds
  BY DEF CallTags, began
<1>3. TagsTypeOK'
  <2>1. round.number + 1 \in 0..Rounds
    BY <1>2, RoundTyped, TagsAssumption
  <2>2. round' \in Round
    BY <1>1, <2>1 DEF Round
  <2> QED BY <1>2, <2>2 DEF TagsTypeOK, Round
<1>4. fresh' = {} /\ ~Moving'
  BY <1>1, <1>2 DEF fresh, Moving
<1>5. PhaseInv'
  <2>1. round.number + 1 \in 1..Rounds
    BY <1>2, RoundTyped, TagsAssumption
  <2>2. began' \in [TaggedAds -> AllCreatives]
    BY <1>2, RoundTyped
  <2> QED BY <1>1, <1>2, <1>4, <2>1, <2>2 DEF PhaseInv
<1>6. MovedInv' /\ FreshInv'
  BY <1>2, <1>4 DEF MovedInv, FreshInv
<1>7. ListedInv'
  BY <1>1, <1>2, <1>4 DEF ListedInv
<1> QED BY <1>3, <1>5, <1>6, <1>7

LEMMA ReadAdKeeps == ASSUME TagsInv, ReadAd PROVE TagsInv'
<1> USE DEF TagsInv
<1>1. PICK a \in TaggedAds :
        /\ a \in todo /\ todo' = todo \ {a}
        /\ \/ group' = [group EXCEPT ![a] = pointsAt[a]] /\ UNCHANGED outcome
           \/ put({a}, "failed") /\ UNCHANGED group
  BY DEF ReadAd, PhaseInv
<1>2. /\ round.pc = "reading" /\ UNCHANGED <<pointsAt, minted, round, plan, before>>
      /\ plan = {} /\ pointsAt = began /\ fresh = {} /\ todo \subseteq TaggedAds
  BY DEF ReadAd, PhaseInv
<1>3. fresh' = fresh /\ began' = began /\ ~Moving' /\ ~Moving
  BY <1>2 DEF fresh, began, Moving
<1>4. /\ group' \in [TaggedAds -> AllCreatives \cup {NoCreative}] /\ outcome' \in [TaggedAds -> Lists]
      /\ \A b \in TaggedAds \ {a} : group'[b] = group[b] /\ outcome'[b] = outcome[b]
      /\ \/ group'[a] = pointsAt[a] /\ pointsAt[a] # NoCreative /\ outcome'[a] = outcome[a]
         \/ group'[a] = group[a] /\ outcome'[a] = "failed"
  <2>1. "failed" \in Lists
    BY DEF Lists
  <2> QED BY <1>1, <2>1, PutOn, RoundTyped, Untagged
<1>5. TagsTypeOK'
  BY <1>1, <1>2, <1>4 DEF TagsTypeOK, Lists
<1>6. PhaseInv'
  BY <1>1, <1>2, <1>3, <1>4 DEF PhaseInv
<1>7. MovedInv' /\ FreshInv'
  <2>1. \A b \in TaggedAds : outcome'[b] # "updated"
    BY <1>1, <1>2, <1>4 DEF ListedInv
  <2> QED BY <1>2, <1>3, <2>1 DEF MovedInv, FreshInv
<1>8. ListedInv'
  BY <1>1, <1>2, <1>4 DEF ListedInv
<1> QED BY <1>5, <1>6, <1>7, <1>8

LEMMA GroupKeeps == ASSUME TagsInv, groupAds PROVE TagsInv'
<1> USE DEF TagsInv
<1>1. /\ round.pc = "reading" /\ todo = {} /\ todo' = grouped
      /\ round' = [round EXCEPT !.pc = "planning"]
      /\ UNCHANGED <<pointsAt, minted, group, plan, outcome, before>>
      /\ plan = {} /\ pointsAt = began /\ fresh = {}
  BY DEF groupAds, PhaseInv, Phase, grouped
<1>2. /\ round' \in Round /\ round'.pc = "planning" /\ round'.number = round.number
      /\ round'.dry = round.dry
  BY <1>1, RoundTyped DEF Round
<1>3. fresh' = fresh /\ began' = began /\ ~Moving' /\ grouped' = grouped /\ grouped \subseteq AllCreatives
  BY <1>1, <1>2, RoundTyped DEF fresh, began, Moving, grouped
<1>4. TagsTypeOK'
  BY <1>1, <1>2, <1>3 DEF TagsTypeOK, Round
<1>5. PhaseInv'
  BY <1>1, <1>2, <1>3 DEF PhaseInv
<1>6. MovedInv' /\ FreshInv'
  BY <1>1, <1>2, <1>3 DEF MovedInv, FreshInv, ListedInv
<1>7. ListedInv'
  BY <1>1, <1>2, <1>3 DEF ListedInv, grouped
<1> QED BY <1>4, <1>5, <1>6, <1>7

LEMMA ReadCreativeKeeps == ASSUME TagsInv, ReadCreative PROVE TagsInv'
<1> USE DEF TagsInv
<1>1. PICK c \in todo :
        /\ todo' = todo \ {c}
        /\ \/ /\ hasTags(c) \/ ~planRebuild(c)
              /\ put(sharing(c), "skipped") /\ UNCHANGED plan
           \/ /\ ~hasTags(c) /\ planRebuild(c)
              /\ put(sharing(c), "planned") /\ plan' = plan \cup {c}
           \/ put(sharing(c), "failed") /\ UNCHANGED plan
  BY DEF ReadCreative
<1>2. /\ round.pc = "planning" /\ UNCHANGED <<pointsAt, minted, round, group, before>>
      /\ pointsAt = began /\ fresh = {} /\ todo \subseteq grouped /\ todo \cap plan = {}
  BY DEF ReadCreative, PhaseInv
<1>3. /\ fresh' = fresh /\ began' = began /\ ~Moving' /\ ~Moving /\ grouped' = grouped
      /\ grouped \subseteq AllCreatives
  BY <1>2, RoundTyped DEF fresh, began, Moving, grouped
<1>4. /\ outcome' \in [TaggedAds -> Lists]
      /\ \A a \in TaggedAds :
           IF group[a] = c
           THEN \/ (hasTags(c) \/ ~planRebuild(c)) /\ outcome'[a] = "skipped"
                \/ outcome'[a] = "planned" /\ c \in plan'
                \/ outcome'[a] = "failed"
           ELSE outcome'[a] = outcome[a]
  <2>1. {"failed", "skipped", "planned"} \subseteq Lists
    BY DEF Lists
  <2>2. ASSUME NEW list \in Lists, put(sharing(c), list)
        PROVE  /\ outcome' \in [TaggedAds -> Lists]
               /\ \A a \in TaggedAds : outcome'[a] = IF group[a] = c THEN list ELSE outcome[a]
    BY <2>2, PutOn DEF sharing
  <2> QED BY <1>1, <2>1, <2>2
<1>5. plan' \subseteq plan \cup {c} /\ plan \subseteq plan'
      /\ (c \in plan' => ~hasTags(c) /\ planRebuild(c))
  BY <1>1, <1>2
<1>6. TagsTypeOK'
  BY <1>1, <1>2, <1>3, <1>4, <1>5 DEF TagsTypeOK, Lists
<1>7. PhaseInv'
  <2>1. todo' \subseteq grouped /\ todo' \cap plan' = {}
    BY <1>1, <1>2, <1>5
  <2>2. \A x \in plan' : x \in grouped /\ ~hasTags(x) /\ planRebuild(x)
    BY <1>2, <1>5 DEF PhaseInv
  <2> QED BY <1>2, <1>3, <2>1, <2>2 DEF PhaseInv
<1>8. MovedInv' /\ FreshInv'
  BY <1>2, <1>3, <1>4 DEF MovedInv, FreshInv
<1>9. ListedInv'
  <2>1. c # NoCreative
    BY <1>2 DEF grouped
  <2> QED BY <1>1, <1>2, <1>3, <1>4, <1>5, <2>1 DEF ListedInv
<1> QED BY <1>6, <1>7, <1>8, <1>9

LEMMA PlannedKeeps == ASSUME TagsInv, Planned PROVE TagsInv'
<1> USE DEF TagsInv
<1>1. /\ round.pc = "planning" /\ todo = {} /\ UNCHANGED <<pointsAt, minted, group, plan, outcome, before>>
      /\ pointsAt = began /\ fresh = {}
  BY DEF Planned, PhaseInv
<1>2. PICK pc \in {"over", "minting"} :
        /\ round' = [round EXCEPT !.pc = pc]
        /\ IF pc = "over" THEN round.dry /\ todo' = {} ELSE ~round.dry /\ todo' = plan
  BY DEF Planned, Phase
<1>3. round' \in Round /\ round'.pc = pc /\ round'.number = round.number /\ round'.dry = round.dry
  BY <1>2, RoundTyped DEF Round
<1>4. fresh' = fresh /\ began' = began /\ ~Moving' /\ ~Moving /\ grouped' = grouped
  BY <1>1, <1>2, <1>3 DEF fresh, began, Moving, grouped
<1>5. TagsTypeOK'
  BY <1>1, <1>2, <1>3 DEF TagsTypeOK, Round
<1>6. PhaseInv'
  BY <1>1, <1>2, <1>3, <1>4 DEF PhaseInv
<1>7. MovedInv' /\ FreshInv'
  BY <1>1, <1>2, <1>3, <1>4 DEF MovedInv, FreshInv
<1>8. ListedInv'
  BY <1>1, <1>2, <1>3, <1>4 DEF ListedInv
<1> QED BY <1>5, <1>6, <1>7, <1>8

LEMMA RebuildKeeps == ASSUME TagsInv, Rebuild PROVE TagsInv'
<1> USE DEF TagsInv
<1>1. PICK c \in todo :
        LET new == <<c[1], round.number>> IN
        /\ plan' = plan \ {c}
        /\ \/ /\ minted' = minted \cup {new}
              /\ round' = [round EXCEPT !.pc = "repointing", !.source = c]
              /\ todo' = sharing(c) /\ UNCHANGED outcome
           \/ /\ minted' \in {minted, minted \cup {new}}
              /\ put(sharing(c), "failed") /\ todo' = todo \ {c} /\ UNCHANGED round
  BY DEF Rebuild
<1> DEFINE new == <<c[1], round.number>>
<1>2. /\ round.pc = "minting" /\ UNCHANGED <<pointsAt, group, before>> /\ todo = plan
      /\ ~round.dry /\ round.number \in 1..Rounds
      /\ c \in grouped /\ ~hasTags(c) /\ planRebuild(c)
  BY <1>1 DEF Rebuild, PhaseInv
<1>3. /\ began' = began /\ ~Moving /\ grouped' = grouped /\ grouped \subseteq AllCreatives
      /\ sharing(c) \subseteq TaggedAds /\ sharing(c) # {}
  BY <1>2, RoundTyped DEF began, Moving, grouped, sharing
<1>4. new \in New /\ new[1] = c[1] /\ new[2] = round.number /\ Original(new[1]) = c
  BY <1>2, <1>3, Untagged DEF New
<1>5. /\ minted \subseteq minted' /\ minted' \subseteq minted \cup {new}
      /\ fresh' \subseteq fresh \cup {new} /\ fresh \subseteq fresh'
  BY <1>1, <1>2 DEF fresh
<1>6. /\ plan' = plan \ {c}
      /\ \/ /\ round'.pc = "repointing" /\ round'.source = c /\ todo' = sharing(c) /\ UNCHANGED outcome
         \/ /\ round' = round /\ todo' = plan'
            /\ \A a \in TaggedAds : outcome'[a] = IF group[a] = c THEN "failed" ELSE outcome[a]
      /\ outcome' \in [TaggedAds -> Lists]
      /\ round' \in Round /\ round'.number = round.number /\ round'.dry = round.dry
      /\ round'.pc \in {"repointing", "minting"}
  <2>1. CASE /\ round' = [round EXCEPT !.pc = "repointing", !.source = c]
             /\ todo' = sharing(c) /\ UNCHANGED outcome
    <3>1. c \in AllCreatives
      BY <1>2, <1>3
    <3> HIDE DEF new
    <3> QED BY <1>1, <2>1, <3>1, RoundTyped DEF Round
  <2>2. CASE put(sharing(c), "failed") /\ todo' = todo \ {c} /\ UNCHANGED round
    <3>1. "failed" \in Lists
      BY DEF Lists
    <3>2. /\ outcome' \in [TaggedAds -> Lists]
          /\ \A a \in TaggedAds : outcome'[a] = IF a \in sharing(c) THEN "failed" ELSE outcome[a]
      BY <2>2, <3>1, PutOn
    <3> QED BY <1>1, <1>2, <2>2, <3>2, RoundTyped DEF sharing
  <2> QED BY <1>1, <2>1, <2>2
<1> HIDE DEF new
<1>7. TagsTypeOK'
  <2>1. minted' \subseteq New
    BY <1>4, <1>5 DEF TagsTypeOK
  <2>2. todo' \subseteq TaggedAds \cup AllCreatives /\ plan' \subseteq AllCreatives
    BY <1>2, <1>3, <1>6, RoundTyped
  <2> QED BY <1>2, <1>6, <2>1, <2>2 DEF TagsTypeOK, Round, Lists
<1>8. Moving' <=> round'.pc = "repointing"
  BY <1>6 DEF Moving
<1>9. PhaseInv'
  <2>1. sharing(c)' = sharing(c)
    BY <1>2 DEF sharing
  <2>2. before'.minted \subseteq minted'
    BY <1>2, <1>5 DEF PhaseInv
  <2> QED BY <1>2, <1>3, <1>6, <1>8, <2>1, <2>2 DEF PhaseInv
<1>10. MovedInv'
  BY <1>2, <1>3, <1>6 DEF MovedInv
<1>11. FreshInv'
  <2> SUFFICES ASSUME NEW x \in fresh'
               PROVE  /\ x[2] = round'.number /\ Original(x[1]) \in grouped /\ ~hasTags(Original(x[1]))
                      /\ Original(x[1]) \notin plan'
                      /\ \/ Moving' /\ round'.source = Original(x[1])
                         \/ \A a \in TaggedAds : group[a] = Original(x[1]) => outcome'[a] = "updated"
                         \/ \E a \in TaggedAds : group[a] = Original(x[1]) /\ outcome'[a] = "failed"
    BY <1>2, <1>3 DEF FreshInv, sharing
  <2>1. CASE Original(x[1]) = c /\ x[2] = round.number
    BY <1>2, <1>3, <1>6, <1>8, <2>1 DEF sharing
  <2>2. CASE x \in fresh /\ Original(x[1]) # c
    BY <1>2, <1>3, <1>6, <2>2 DEF FreshInv, sharing
  <2>3. x \in fresh => Original(x[1]) # c
    BY <1>1, <1>2 DEF FreshInv
  <2> QED BY <1>4, <1>5, <2>1, <2>2, <2>3
<1>12. ListedInv'
  <2>1. c # NoCreative
    BY <1>2 DEF grouped
  <2> SUFFICES ASSUME NEW a \in TaggedAds
               PROVE  /\ group[a] = NoCreative => outcome'[a] = "failed"
                      /\ outcome'[a] # "none"
                      /\ outcome'[a] = "planned" =>
                           \/ group[a] \in plan'
                           \/ Moving' /\ group[a] = round'.source /\ a \in todo'
                      /\ outcome'[a] = "skipped" => hasTags(group[a]) \/ ~planRebuild(group[a])
    BY <1>2, <1>6 DEF ListedInv
  <2> QED BY <1>2, <1>3, <1>6, <1>8, <2>1 DEF ListedInv, sharing
<1> QED BY <1>7, <1>9, <1>10, <1>11, <1>12

\* The steps of moving the ads of one creative: only its own ads are concerned.
LEMMA MovingStep ==
  ASSUME TagsInv, Moving, round.number \in 1..Rounds, NEW a \in sharing(round.source),
         a \in todo \/ (round.pc = "checking" /\ round.ad = a),
         UNCHANGED <<minted, group, plan, before>>,
         NEW pc \in {"repointing", "checking"}, NEW ad \in TaggedAds \cup {NoCreative},
         round' = [round EXCEPT !.pc = pc, !.ad = ad], pc = "checking" => ad = a,
         todo' \in {todo, todo \ {a}},
         pointsAt' \in {pointsAt, [pointsAt EXCEPT ![a] = newCreative]},
         round.pc = "checking" => round.ad = a,
         \/ pc = "checking" /\ UNCHANGED outcome
         \/ put({a}, "failed") /\ pc = "repointing"
         \/ put({a}, "updated") /\ pointsAt'[a] = newCreative /\ pc = "repointing"
  PROVE  TagsInv'
<1> USE DEF TagsInv
<1> DEFINE s == round.source
           new == <<s[1], round.number>>
<1>1. /\ a \in TaggedAds /\ group[a] = s /\ s \in grouped /\ s \in AllCreatives /\ ~hasTags(s)
      /\ began[a] = s /\ planRebuild(s) /\ s # NoCreative
  BY RoundTyped DEF sharing, PhaseInv, grouped
<1>2. new \in AllCreatives /\ newCreative = new
  BY <1>1, Untagged DEF New, AllCreatives, newCreative
<1>3. /\ round' \in Round /\ round'.pc = pc /\ round'.ad = ad /\ round'.source = s
      /\ round'.number = round.number /\ round'.dry = round.dry /\ round.pc \in {"repointing", "checking"}
  BY RoundTyped DEF Round, Moving
<1>4. /\ began' = began /\ fresh' = fresh /\ grouped' = grouped /\ Moving'
      /\ sharing(round.source)' = sharing(s)
  BY <1>3 DEF began, fresh, grouped, Moving, sharing
<1>5. /\ outcome' \in [TaggedAds -> Lists]
      /\ \A b \in TaggedAds \ {a} : outcome'[b] = outcome[b]
      /\ \/ pc = "checking" /\ outcome'[a] = outcome[a]
         \/ pc = "repointing" /\ outcome'[a] = "failed"
         \/ pc = "repointing" /\ outcome'[a] = "updated" /\ pointsAt'[a] = new
  <2>1. {"failed", "updated"} \subseteq Lists
    BY DEF Lists
  <2> QED BY <1>1, <1>2, <2>1, PutOn, RoundTyped
<1>6. /\ pointsAt' \in [TaggedAds -> AllCreatives]
      /\ \A b \in TaggedAds \ {a} : pointsAt'[b] = pointsAt[b]
      /\ pointsAt'[a] \in {pointsAt[a], new}
  BY <1>1, <1>2, RoundTyped
<1> HIDE DEF s, new
<1>7. TagsTypeOK'
  BY <1>3, <1>5, <1>6 DEF TagsTypeOK, Round, Lists
<1>8. PhaseInv'
  BY <1>1, <1>3, <1>4, Untagged DEF PhaseInv, s
<1>9. MovedInv'
  <2>1. new = <<began[a][1], round.number>> /\ new = <<group[a][1], round.number>>
    BY <1>1 DEF new
  <2> QED BY <1>1, <1>3, <1>4, <1>5, <1>6, <2>1 DEF MovedInv
<1>10. FreshInv'
  <2>1. \A c \in fresh : \A b \in sharing(Original(c[1])) : 
          Original(c[1]) # s => outcome'[b] = outcome[b]
    BY <1>1, <1>5 DEF sharing
  <2> QED BY <1>3, <1>4, <2>1 DEF FreshInv, s, sharing
<1>11. ListedInv'
  BY <1>1, <1>3, <1>4, <1>5 DEF ListedInv, s, PhaseInv
<1> QED BY <1>7, <1>8, <1>9, <1>10, <1>11

LEMMA RepointKeeps == ASSUME TagsInv, Repoint PROVE TagsInv'
<1> DEFINE atNew(a) == [pointsAt EXCEPT ![a] = newCreative]
<1>1. PICK a \in todo :
        /\ todo' = todo \ {a}
        /\ \/ pointsAt' = atNew(a) /\ put({a}, "updated") /\ UNCHANGED round
           \/ /\ pointsAt' \in {pointsAt, atNew(a)}
              /\ round' = [round EXCEPT !.pc = "checking", !.ad = a]
              /\ UNCHANGED outcome
  BY DEF Repoint
<1>2. /\ round.pc = "repointing" /\ Moving /\ UNCHANGED <<minted, group, plan, before>>
      /\ a \in sharing(round.source) /\ a \in TaggedAds /\ round.number \in 1..Rounds
  BY <1>1 DEF Repoint, TagsInv, PhaseInv, Moving, sharing
<1>3. round \in Round /\ DOMAIN pointsAt = TaggedAds
  BY RoundTyped DEF TagsInv
<1>4. CASE pointsAt' = atNew(a) /\ put({a}, "updated") /\ UNCHANGED round
  <2>1. round' = [round EXCEPT !.pc = "repointing", !.ad = round.ad]
    BY <1>2, <1>3, <1>4 DEF Round
  <2>2. round.ad \in TaggedAds \cup {NoCreative}
    BY <1>3 DEF Round
  <2>3. pointsAt'[a] = newCreative
    BY <1>2, <1>3, <1>4
  <2> QED BY <1>1, <1>2, <1>4, <2>1, <2>2, <2>3, MovingStep
<1>5. CASE /\ pointsAt' \in {pointsAt, atNew(a)}
           /\ round' = [round EXCEPT !.pc = "checking", !.ad = a]
           /\ UNCHANGED outcome
  BY <1>1, <1>2, <1>5, MovingStep
<1> QED BY <1>1, <1>4, <1>5

LEMMA CheckKeeps == ASSUME TagsInv, readCreativeIdAfterFailedRepoint PROVE TagsInv'
<1> DEFINE a == round.ad
<1>1. /\ round.pc = "checking" /\ Moving /\ round.number \in 1..Rounds
      /\ UNCHANGED <<pointsAt, minted, todo, group, plan, before>>
      /\ a \in sharing(round.source)
      /\ round' = [round EXCEPT !.pc = "repointing", !.ad = NoCreative]
      /\ put({a}, "failed") \/ (put({a}, "updated") /\ pointsAt[a] = newCreative)
  BY DEF readCreativeIdAfterFailedRepoint, TagsInv, PhaseInv, Moving
<1> QED BY <1>1, MovingStep

\* All ads of a creative have been dealt with.
LEMMA NextCreativeKeeps == ASSUME TagsInv, NextCreative PROVE TagsInv'
<1> USE DEF TagsInv
<1>1. /\ round.pc = "repointing" /\ todo = {} /\ todo' = plan
      /\ round' = [round EXCEPT !.pc = "minting", !.source = NoCreative]
      /\ UNCHANGED <<pointsAt, minted, group, plan, outcome, before>>
  BY DEF NextCreative
<1>2. round' \in Round /\ round'.pc = "minting" /\ round'.number = round.number /\ round'.dry = round.dry
  BY <1>1, RoundTyped DEF Round
<1>3. fresh' = fresh /\ began' = began /\ ~Moving' /\ Moving /\ grouped' = grouped
  BY <1>1, <1>2 DEF fresh, began, Moving, grouped
<1>4. TagsTypeOK'
  BY <1>1, <1>2 DEF TagsTypeOK, Round
<1>5. PhaseInv'
  BY <1>1, <1>2, <1>3 DEF PhaseInv
<1>6. MovedInv'
  BY <1>1, <1>2, <1>3 DEF MovedInv
<1>7. \A a \in sharing(round.source) : outcome[a] \in {"updated", "failed"}
  <2> TAKE a \in sharing(round.source)
  <2>1. /\ a \in TaggedAds /\ group[a] = round.source /\ group[a] # NoCreative
        /\ ~hasTags(group[a]) /\ planRebuild(group[a]) /\ group[a] \notin plan
    BY <1>3 DEF sharing, PhaseInv, grouped
  <2>2. outcome[a] \in Lists
    BY <2>1, RoundTyped
  <2> QED BY <1>1, <2>1, <2>2 DEF ListedInv, Lists
<1>8. FreshInv'
  <2> SUFFICES ASSUME NEW c \in fresh
               PROVE  /\ c[2] = round.number /\ Original(c[1]) \in grouped
                      /\ ~hasTags(Original(c[1])) /\ Original(c[1]) \notin plan
                      /\ \/ \A a \in sharing(Original(c[1])) : outcome[a] = "updated"
                         \/ \E a \in sharing(Original(c[1])) : outcome[a] = "failed"
    BY <1>1, <1>2, <1>3 DEF FreshInv, sharing
  <2> QED BY <1>7 DEF FreshInv
<1>9. ListedInv'
  BY <1>1, <1>2, <1>3 DEF ListedInv
<1> QED BY <1>4, <1>5, <1>6, <1>8, <1>9

LEMMA ReportTagsKeeps == ASSUME TagsInv, ReportTags PROVE TagsInv'
<1> USE DEF TagsInv
<1>1. /\ round.pc = "minting" /\ todo = {} /\ todo' = {} /\ plan = {}
      /\ round' = [round EXCEPT !.pc = "over"]
      /\ UNCHANGED <<pointsAt, minted, group, plan, outcome, before>>
  BY DEF ReportTags, Phase, PhaseInv
<1>2. round' \in Round /\ round'.pc = "over" /\ round'.number = round.number /\ round'.dry = round.dry
  BY <1>1, RoundTyped DEF Round
<1>3. fresh' = fresh /\ began' = began /\ ~Moving' /\ ~Moving /\ grouped' = grouped
  BY <1>1, <1>2 DEF fresh, began, Moving, grouped
<1>4. TagsTypeOK'
  BY <1>1, <1>2 DEF TagsTypeOK, Round
<1>5. PhaseInv'
  BY <1>1, <1>2, <1>3 DEF PhaseInv
<1>6. MovedInv'
  BY <1>1, <1>2, <1>3 DEF MovedInv
<1>7. FreshInv'
  BY <1>1, <1>2, <1>3 DEF FreshInv, sharing
<1>8. ListedInv'
  BY <1>1, <1>2, <1>3 DEF ListedInv
<1> QED BY <1>4, <1>5, <1>6, <1>7, <1>8

LEMMA TagsReported == TagsInv => TagsReportHolds
<1> SUFFICES ASSUME TagsInv PROVE TagsReportHolds
  OBVIOUS
<1> USE DEF TagsInv
<1>1. ASSUME NEW a \in TaggedAds
      PROVE  /\ pointsAt[a][1] = began[a][1]
             /\ outcome[a] = "updated" => hasTags(pointsAt[a])
             /\ outcome[a] = "skipped" \/ hasTags(began[a]) => pointsAt[a] = began[a]
  <2>1. pointsAt[a][1] = began[a][1]
    BY DEF MovedInv
  <2>2. ASSUME outcome[a] = "updated" PROVE hasTags(pointsAt[a])
    <3>1. group[a] # NoCreative /\ pointsAt[a] = <<group[a][1], round.number>> /\ group[a] \in AllCreatives
      BY <2>2, RoundTyped DEF MovedInv
    <3>2. round.pc # "idle"
      BY <2>2 DEF ListedInv
    <3>3. round.number \in 1..Rounds /\ group[a][1] \in Sources
      BY <3>1, <3>2, Untagged DEF PhaseInv
    <3> QED BY <3>1, <3>3 DEF hasTags, New
  <2>3. ASSUME outcome[a] = "skipped", pointsAt[a] # began[a] PROVE FALSE
    <3>1. round.pc = "checking" /\ round.ad = a /\ group[a] = round.source
      BY <2>3 DEF MovedInv, PhaseInv, sharing
    <3> QED BY <2>3, <3>1 DEF ListedInv, PhaseInv, Moving
  <2> QED BY <2>1, <2>2, <2>3 DEF MovedInv
<1>2. \A c \in fresh : \E a \in TaggedAds : began[a][1] = c[1] /\ ~hasTags(began[a])
  <2> TAKE c \in fresh
  <2>1. c[1] \in Sources
    BY RoundTyped, Untagged DEF fresh
  <2>2. PICK a \in TaggedAds : group[a] = Original(c[1]) /\ group[a] # NoCreative /\ ~hasTags(group[a])
    BY DEF FreshInv, grouped
  <2>3. began[a] = group[a]
    BY <2>2 DEF PhaseInv
  <2> QED BY <2>1, <2>2, <2>3, Untagged
<1>3. round.dry => pointsAt = began /\ minted = before.minted
  BY DEF PhaseInv, fresh
<1>4. ASSUME round.pc = "over", NEW a \in TaggedAds
      PROVE  outcome[a] \in {"skipped", "failed", IF round.dry THEN "planned" ELSE "updated"}
  <2>1. outcome[a] \in Lists
    BY RoundTyped
  <2>2. outcome[a] = "planned" => round.dry
    BY <1>4 DEF ListedInv, PhaseInv, Moving
  <2> QED BY <1>4, <2>1, <2>2 DEF ListedInv, Lists
<1>5. ASSUME round.pc = "over", NEW c \in stray
      PROVE  \E a \in TaggedAds : outcome[a] = "failed" /\ group[a] = Original(c[1])
  <2>1. c \in fresh /\ c \in New /\ \A a \in TaggedAds : pointsAt[a] # c
    BY RoundTyped DEF stray, fresh, began
  <2>2. PICK b \in TaggedAds : group[b] = Original(c[1])
    BY <2>1 DEF FreshInv, grouped
  <2>3. c = <<c[1], round.number>> /\ c[1] \in Sources
    BY <2>1 DEF FreshInv, New
  <2>4. outcome[b] # "updated"
    BY <2>1, <2>2, <2>3, Untagged DEF MovedInv
  <2> QED BY <1>5, <2>1, <2>2, <2>4 DEF FreshInv, sharing, Moving
<1> QED BY <1>1, <1>2, <1>3, <1>4, <1>5 DEF TagsReportHolds, fresh, began

LEMMA TagsInvariance == TagsSpec => []TagsInv
<1>1. TagsInv /\ [TagsNext]_tagVars => TagsInv'
  <2> SUFFICES ASSUME TagsInv, [TagsNext]_tagVars PROVE TagsInv'
    OBVIOUS
  <2>1. CASE UNCHANGED tagVars
    BY <2>1 DEF tagVars, TagsInv, TagsTypeOK, PhaseInv, MovedInv, FreshInv, ListedInv, began, fresh,
                grouped, Moving, sharing
  <2> QED
    BY <2>1, CallKeeps, ReadAdKeeps, GroupKeeps, ReadCreativeKeeps, PlannedKeeps, RebuildKeeps,
       RepointKeeps, CheckKeeps, NextCreativeKeeps, ReportTagsKeeps DEF TagsNext
<1> QED BY <1>1, InitialTags, PTL DEF TagsSpec

\* For any ads and creatives, and any number of calls: what a call reports as
\* updated is, and no creative it made is lost sight of (ads_update_ad_url_tags).
THEOREM TagsAccounted == TagsSpec => []TagsReportHolds
BY TagsInvariance, TagsReported, PTL
-----------------------------------------------------------------------------
(* The tools of the server under their hints, called any number of times.   *)
\* What a request may be under the hints of its tool.
Permitted(t, r) ==
  /\ t.hints.readOnly => r.does \notin Changing /\ (r.does = "spend" => t \in SpendsUnmarked)
  /\ r.does \in Removing => t.hints.destructive \/ t \in RemovesUnmarked
  /\ t.hints.idempotent => r.does # "create"
  /\ r.does = "create" => ~r.tolerated
  /\ r.resent => t \in CreatesAgain

\* What comes after a creation neither throws nor changes anything.
Harmless(r) == r.tolerated /\ r.does \notin Changing

\* A tool whose requests keep the word of its hints.
Trusted(t) ==
  /\ Len(t.requests) \in 0..4
  /\ \A i \in 1..Len(t.requests) : Permitted(t, t.requests[i])
  /\ t \notin LosesTrack =>
       \A i, j \in 1..Len(t.requests) :
         i < j /\ t.requests[i].does = "create" => Harmless(t.requests[j])

\* What the requests do, whatever may be left out, is tolerated or confirmed.
LEMMA RequestKinds ==
  /\ \A r \in {Query, May(Query), Try(Query), May(Try(Query))} : r.does = "read" /\ ~r.resent
  /\ Spend.does = "spend" /\ ~Spend.resent
  /\ \A r \in {Make, Sure(Make), Again(Make)} : r.does = "create" /\ ~r.tolerated
  /\ \A r \in {Make, Sure(Make)} : ~r.resent
  /\ \A r \in {Update, Sure(Update), May(Sure(Update))} : r.does = "change" /\ ~r.resent
  /\ \A r \in {Remove, Sure(Remove), May(Remove)} : r.does = "remove" /\ ~r.resent
  /\ Edit.does = "change or remove" /\ ~Edit.resent
  /\ Try(Query).tolerated
  BY DEF Query, Make, Update, Remove, Edit, Spend, Request, May, Try, Sure, Again

LEMMA HintKinds ==
  /\ \A h \in {CREATE, UPLOAD} : ~h.readOnly /\ ~h.idempotent
  /\ \A h \in {UPDATE, TOGGLE, TOKEN} : ~h.readOnly
  /\ ~DELETE.readOnly /\ DELETE.destructive
  BY DEF CREATE, UPLOAD, UPDATE, DELETE, TOGGLE, TOKEN, Hints

\* What a request may be when its tool is exempt from nothing.
Allowed(hints, r) ==
  /\ hints.readOnly => r.does \notin Changing /\ r.does # "spend"
  /\ r.does \in Removing => hints.destructive
  /\ hints.idempotent => r.does # "create"
  /\ r.does = "create" => ~r.tolerated
  /\ ~r.resent

LEMMA AllowedIsPermitted ==
  ASSUME NEW hints, NEW rs, NEW r, Allowed(hints, r)
  PROVE  Permitted(Tool(hints, rs), r)
<1>1. Tool(hints, rs).hints = hints
  BY DEF Tool
<1> QED BY <1>1 DEF Allowed, Permitted

\* Tools by the number of their requests.
LEMMA NoRequest ==
  ASSUME NEW hints PROVE Trusted(Tool(hints, <<>>))
<1>1. Tool(hints, <<>>).requests = <<>>
  BY DEF Tool
<1> QED BY <1>1 DEF Trusted

LEMMA OneRequest ==
  ASSUME NEW hints, NEW r, Permitted(Tool(hints, <<r>>), r)
  PROVE  Trusted(Tool(hints, <<r>>))
<1> DEFINE t == Tool(hints, <<r>>)
<1>1. t.requests = <<r>> /\ Permitted(t, r)
  BY DEF Tool
<1>2. Len(t.requests) = 1 /\ t.requests[1] = r
  BY <1>1
<1> HIDE DEF t
<1>3. Trusted(t)
  BY <1>1, <1>2 DEF Trusted
<1> QED BY <1>3 DEF t

LEMMA TwoRequests ==
  ASSUME NEW hints, NEW r, NEW s,
         \A x \in {r, s} : Permitted(Tool(hints, <<r, s>>), x),
         r.does = "create" => Harmless(s)
  PROVE  Trusted(Tool(hints, <<r, s>>))
<1> DEFINE t == Tool(hints, <<r, s>>)
<1>1. t.requests = <<r, s>> /\ \A x \in {r, s} : Permitted(t, x)
  BY DEF Tool
<1>2. Len(t.requests) = 2 /\ t.requests[1] = r /\ t.requests[2] = s
  BY <1>1
<1> HIDE DEF t
<1>3. Trusted(t)
  BY <1>1, <1>2 DEF Trusted
<1> QED BY <1>3 DEF t

\* No tool of more requests creates anything, but for the one that loses track.
LEMMA ThreeRequests ==
  ASSUME NEW hints, NEW r, NEW s, NEW u,
         \A x \in {r, s, u} : Permitted(Tool(hints, <<r, s, u>>), x),
         \/ Tool(hints, <<r, s, u>>) \in LosesTrack
         \/ \A x \in {r, s, u} : x.does # "create"
  PROVE  Trusted(Tool(hints, <<r, s, u>>))
<1> DEFINE t == Tool(hints, <<r, s, u>>)
<1>1. t.requests = <<r, s, u>> /\ \A x \in {r, s, u} : Permitted(t, x)
      /\ (t \in LosesTrack \/ \A y \in {r, s, u} : y.does # "create")
  BY DEF Tool
<1>2. Len(t.requests) = 3 /\ t.requests[1] = r /\ t.requests[2] = s /\ t.requests[3] = u
  BY <1>1
<1> HIDE DEF t
<1>3. \A i \in 1..3 : t.requests[i] \in {r, s, u}
  BY <1>2
<1>4. Trusted(t)
  BY <1>1, <1>2, <1>3 DEF Trusted
<1> QED BY <1>4 DEF t

LEMMA FourRequests ==
  ASSUME NEW hints, NEW r, NEW s, NEW u, NEW v,
         \A x \in {r, s, u, v} : Permitted(Tool(hints, <<r, s, u, v>>), x) /\ x.does # "create"
  PROVE  Trusted(Tool(hints, <<r, s, u, v>>))
<1> DEFINE t == Tool(hints, <<r, s, u, v>>)
<1>1. t.requests = <<r, s, u, v>> /\ \A x \in {r, s, u, v} : Permitted(t, x)
  BY DEF Tool
<1>2. /\ Len(t.requests) = 4 /\ t.requests[1] = r /\ t.requests[2] = s /\ t.requests[3] = u
      /\ t.requests[4] = v
  BY <1>1
<1> HIDE DEF t
<1>3. \A i \in 1..4 : t.requests[i] \in {r, s, u, v}
  BY <1>2
<1>4. Trusted(t)
  BY <1>1, <1>2, <1>3 DEF Trusted
<1> QED BY <1>4 DEF t

\* Every tool there is, by the shape of its handler.
LEMMA AllTrusted == \A t \in Tools : Trusted(t)
<1>1. /\ Trusted(Tool(READ, <<>>))
  BY NoRequest
<1>2. /\ \A r \in {Query, Try(Query), May(Query)} : Trusted(Tool(READ, <<r>>))
      /\ \A r \in {Make, Sure(Make)} : Trusted(Tool(CREATE, <<r>>))
      /\ Trusted(Tool(UPLOAD, <<Make>>))
      /\ \A r \in {Update, Sure(Update)} :
           Trusted(Tool(UPDATE, <<r>>)) /\ Trusted(Tool(TOGGLE, <<r>>))
      /\ \A r \in {Remove, Sure(Remove), May(Remove)} : Trusted(Tool(DELETE, <<r>>))
  <2>1. /\ \A r \in {Query, Try(Query), May(Query)} : Allowed(READ, r)
        /\ \A r \in {Make, Sure(Make)} : Allowed(CREATE, r)
        /\ Allowed(UPLOAD, Make)
        /\ \A r \in {Update, Sure(Update)} : Allowed(UPDATE, r) /\ Allowed(TOGGLE, r)
        /\ \A r \in {Remove, Sure(Remove), May(Remove)} : Allowed(DELETE, r)
    BY RequestKinds, HintKinds DEF Allowed, Changing, Removing
  <2> QED BY <2>1, AllowedIsPermitted, OneRequest
<1>3. /\ Trusted(Tool(READ, <<May(Try(Query)), May(Query)>>))
      /\ Trusted(Tool(TOKEN, <<Query, Update>>))
      /\ Trusted(Tool(READ, <<Query, May(Try(Query))>>))
      /\ Trusted(Tool(READ, <<May(Query), Query>>))
      /\ Trusted(Tool(READ, <<May(Query), May(Query)>>))
      /\ Trusted(Tool(CREATE, <<Make, Try(Query)>>))
      /\ Trusted(Tool(READ, <<Query, Try(Query)>>))
      /\ Trusted(Tool(READ, <<Query, Query>>))
      /\ Trusted(Tool(READ, <<Query, May(Query)>>))
      /\ Trusted(Tool(TOKEN, <<Update, May(Query)>>))
      /\ Trusted(Tool(UPDATE, <<May(Sure(Update)), May(Sure(Update))>>))
  <2>1. /\ \A r \in {Query, Try(Query), May(Query), May(Try(Query))} : Allowed(READ, r)
        /\ \A r \in {Query, May(Query), Update} : Allowed(TOKEN, r)
        /\ \A r \in {Make, Try(Query)} : Allowed(CREATE, r)
        /\ Allowed(UPDATE, May(Sure(Update)))
    BY RequestKinds, HintKinds DEF Allowed, Changing, Removing
  <2>2. \A hints, r, s :
          Allowed(hints, r) /\ Allowed(hints, s) /\ (r.does = "create" => Harmless(s))
            => Trusted(Tool(hints, <<r, s>>))
    BY AllowedIsPermitted, TwoRequests
  <2>3. Harmless(Try(Query)) /\ Query.does # "create" /\ May(Query).does # "create"
        /\ May(Try(Query)).does # "create" /\ Update.does # "create"
        /\ May(Sure(Update)).does # "create"
    BY RequestKinds DEF Harmless, Changing
  <2> QED BY <2>1, <2>2, <2>3
<1>4. /\ Trusted(Tool(READ, <<Query, Query, Try(Query)>>))
      /\ Trusted(Tool(READ, <<Try(Query), May(Try(Query)), May(Try(Query))>>))
      /\ Trusted(Tool(READ, <<May(Query), May(Query), May(Query)>>))
      /\ Trusted(Tool(READ, <<Query, May(Try(Query)), May(Try(Query)), May(Try(Query))>>))
      /\ Trusted(Tool(READ, <<May(Query), Query, May(Try(Query)), May(Try(Query))>>))
  <2>1. \A r \in {Query, Try(Query), May(Query), May(Try(Query))} :
          Allowed(READ, r) /\ r.does # "create"
    BY RequestKinds DEF Allowed, Changing, Removing
  <2> QED BY <2>1, AllowedIsPermitted, ThreeRequests, FourRequests
\* The tools named as exceptions.
<1>5. Trusted(ads_analyze_video)
  <2>1. \A r \in {Query, Spend} : Permitted(ads_analyze_video, r)
    BY RequestKinds, HintKinds DEF Permitted, Changing, Removing, SpendsUnmarked
  <2> QED BY <2>1, RequestKinds, TwoRequests DEF ads_analyze_video
<1>6. Trusted(Tool(UPDATE, <<Edit>>))
  <2>1. Tool(UPDATE, <<Edit>>) \in RemovesUnmarked /\ Tool(UPDATE, <<Edit>>).hints = UPDATE
    BY DEF RemovesUnmarked, ads_update_ad, Tool
  <2>2. Permitted(Tool(UPDATE, <<Edit>>), Edit)
    BY <2>1, RequestKinds, HintKinds DEF Permitted
  <2> QED BY <2>2, OneRequest
<1>7. Trusted(Tool(CREATE, <<Again(Make)>>))
  <2>1. /\ Tool(CREATE, <<Again(Make)>>) \in CreatesAgain
        /\ Tool(CREATE, <<Again(Make)>>).hints = CREATE
    BY DEF CreatesAgain, ads_create_async_report, Tool
  <2>2. Permitted(Tool(CREATE, <<Again(Make)>>), Again(Make))
    BY <2>1, RequestKinds, HintKinds DEF Permitted, Removing
  <2> QED BY <2>2, OneRequest
<1>8. Trusted(ads_run_report_and_wait)
  <2>1. /\ ads_run_report_and_wait \in CreatesAgain /\ ads_run_report_and_wait \in LosesTrack
        /\ ads_run_report_and_wait.hints = CREATE
    BY DEF CreatesAgain, LosesTrack, ads_run_report_and_wait, Tool
  <2>2. \A r \in {Again(Make), Query, May(Query)} : Permitted(ads_run_report_and_wait, r)
    BY <2>1, RequestKinds, HintKinds DEF Permitted, Removing
  <2> QED BY <2>1, <2>2, ThreeRequests DEF ads_run_report_and_wait
<1> QED
  BY <1>1, <1>2, <1>3, <1>4, <1>5, <1>6, <1>7, <1>8
  DEF Tools, ads_get_ad_studies, ads_create_ad_study, ads_get_study_details, ads_get_ad_accounts,
      ads_get_account_info, ads_get_pages_for_business, ads_get_ad_dossier,
      ads_library_register_apify_token, ads_library_get_apify_token_status,
      ads_library_delete_apify_token, ads_library_scrape, ads_library_get_run_status,
      ads_library_get_results, ads_library_abort_run, ads_library_list_runs,
      ads_library_get_ad_details, ads_get_ads, ads_get_ad_details, ads_create_ad, ads_update_ad,
      ads_delete_ad, ads_get_ad_sets, ads_get_ad_set_details, ads_create_ad_set,
      ads_update_ad_set, ads_delete_ad_set, ads_get_custom_audiences, ads_get_audience_details,
      ads_create_custom_audience, ads_create_lookalike_audience, ads_share_custom_audience,
      ads_unshare_custom_audience, ads_get_audience_shared_accounts, ads_delete_custom_audience,
      ads_get_billing_info, ads_get_spend_limit, ads_update_spend_cap, ads_get_invoices,
      ads_create_budget_schedule, ads_get_campaigns, ads_get_campaign_details,
      ads_create_campaign, ads_update_campaign, ads_delete_campaign, ads_get_ad_comments,
      ads_hide_comment, ads_reply_comment, ads_delete_comment, ads_get_creative_media,
      ads_get_ad_creatives, ads_get_creative_details, ads_create_ad_creative,
      ads_update_ad_creative, ads_upload_ad_image, ads_get_ad_images, ads_get_ad_videos,
      ads_get_video_details, ads_upload_ad_video, ads_get_opportunity_score,
      ads_get_dataset_quality, ads_get_errors, ads_get_ad_entities, ads_update_entity,
      ads_activate_entity, ads_register_gemini_key, ads_get_gemini_key_status,
      ads_delete_gemini_key, ads_get_help_article, ads_insights_performance_trend,
      ads_insights_anomaly_signal, ads_insights_auction_ranking_benchmarks,
      ads_insights_industry_benchmark, ads_insights_advertiser_context, ads_get_insights,
      ads_get_instagram_account, ads_get_instagram_media, ads_get_lead_forms, ads_get_leads,
      ads_get_ad_leads, ads_create_lead_form, ads_diagnose_underperformance,
      ads_portfolio_summary, ads_get_pixels, ads_get_pixel_details, ads_get_pixel_events,
      ads_get_custom_conversions, ads_create_custom_conversion, ads_get_ad_preview,
      ads_generate_preview, ads_rate_status, ads_create_async_report, ads_get_report_status,
      ads_get_report_results, ads_run_report_and_wait, ads_get_ad_rules, ads_create_ad_rule,
      ads_get_rule_details, ads_update_ad_rule, ads_delete_ad_rule, ads_search_interests,
      ads_get_interest_suggestions, ads_search_behaviors, ads_search_demographics,
      ads_search_geo_locations, ads_estimate_audience_size, ads_get_targeting_description,
      ads_list_tokens, ads_set_active_token, ads_register_token, ads_delete_token,
      ads_analyze_video, ads_get_video_media, whatsapp_get_qr_codes, whatsapp_create_qr_code,
      whatsapp_update_qr_code, whatsapp_delete_qr_code, whatsapp_get_webhook_subscriptions,
      whatsapp_subscribe_webhook, whatsapp_unsubscribe_webhook, whatsapp_get_flows,
      whatsapp_create_flow, whatsapp_update_flow, whatsapp_publish_flow, whatsapp_deprecate_flow,
      whatsapp_delete_flow, whatsapp_get_templates, whatsapp_create_template,
      whatsapp_update_template, whatsapp_delete_template, whatsapp_get_analytics,
      whatsapp_get_template_analytics, whatsapp_get_business_accounts,
      whatsapp_get_phone_numbers, whatsapp_register_phone, whatsapp_deregister_phone,
      whatsapp_request_verification_code, whatsapp_verify_code, whatsapp_get_business_profile,
      whatsapp_update_business_profile

\* The requests of the call as far as they have been handled.
Behind == 1..toolCall.at

\* A call was told of a creation only if its tool makes one, which is behind it;
\* it was told of all there are unless its client resends them or it threw; and
\* it has let pass what was declined only where it asks for no confirmation.
WordInv ==
  LET t == toolCall.tool
  IN
  /\ t.hints.readOnly => ~effects.changed /\ (effects.spent => t \in SpendsUnmarked)
  /\ effects.removed => t.hints.destructive \/ t \in RemovesUnmarked
  /\ t.hints.idempotent => effects.made = 0
  /\ effects.known <= effects.made
  /\ t \notin LosesTrack /\ effects.known > 0 =>
       /\ toolCall.pc # "threw"
       /\ \E i \in Behind : t.requests[i].does = "create"
  /\ t \notin CreatesAgain /\ toolCall.pc # "threw" => effects.made = effects.known
  /\ effects.declined /\ toolCall.pc # "threw" =>
       \E i \in Behind : ~t.requests[i].confirmed

EffectsType == [made : Nat, known : Nat, changed : BOOLEAN, removed : BOOLEAN, spent : BOOLEAN,
                declined : BOOLEAN]

CallInv ==
  /\ toolCall.at <= Len(toolCall.tool.requests)
  /\ toolCall.pc = "idle" => effects = NoEffects

ToolsInv == ToolsTypeOK /\ CallInv /\ WordInv

CallType == [pc : {"idle", "running", "done", "refused", "threw"}, tool : Tools, at : 0..4,
             tries : 0..MaxTries]

\* What is known of a call, without the list of tools.
LEMMA CallTyped ==
  ASSUME ToolsInv
  PROVE  /\ toolCall \in CallType
         /\ Trusted(toolCall.tool)
         /\ toolCall.at \in 0..Len(toolCall.tool.requests)
         /\ Len(toolCall.tool.requests) \in 0..4
<1>1. toolCall \in CallType
  BY DEF ToolsInv, ToolsTypeOK, CallType
<1>2. Trusted(toolCall.tool)
  BY <1>1, AllTrusted DEF CallType
<1> QED BY <1>1, <1>2 DEF CallType, Trusted, ToolsInv, CallInv

LEMMA InitialTools == ToolsInit => ToolsInv
<1> SUFFICES ASSUME ToolsInit PROVE ToolsInv
  OBVIOUS
<1>1. ads_rate_status \in Tools
  BY DEF Tools
<1>2. Len(ads_rate_status.requests) = 0
  BY DEF ads_rate_status, Tool
<1>3. ToolsTypeOK
  BY <1>1, ToolsAssumption DEF ToolsInit, ToolsTypeOK, NoEffects
<1>4. CallInv /\ WordInv
  BY <1>2 DEF ToolsInit, CallInv, WordInv, NoEffects
<1> QED BY <1>3, <1>4 DEF ToolsInv

LEMMA CallToolKeeps == ASSUME ToolsInv, CallTool PROVE ToolsInv'
<1>1. PICK t \in Tools : toolCall' = [pc |-> "running", tool |-> t, at |-> 0, tries |-> 1]
  BY DEF CallTool
<1>2. effects' = effects /\ effects = NoEffects
  BY DEF CallTool, ToolsInv, CallInv
<1>3. Len(t.requests) \in 0..4
  BY AllTrusted DEF Trusted
<1>4. ToolsTypeOK'
  BY <1>1, <1>2, ToolsAssumption DEF ToolsTypeOK, NoEffects
<1> QED BY <1>1, <1>2, <1>3, <1>4 DEF ToolsInv, CallInv, WordInv, NoEffects

\* Executing the request n times, told of it or not.
LEMMA ExecutedTyped ==
  ASSUME effects \in EffectsType, NEW n \in sends, NEW heard \in BOOLEAN,
         effects' \in executed(effects, n, heard)
  PROVE  /\ effects' \in EffectsType
         /\ \/ effects'.made = effects.made
            \/ request.does = "create" /\ effects'.made = effects.made + n
         /\ \/ effects'.known = effects.known /\ ~(request.does = "create" /\ heard)
            \/ /\ request.does = "create" /\ heard /\ effects'.known = effects.known + 1
               /\ effects'.made = effects.made + n
         /\ effects'.changed => effects.changed \/ request.does \in Changing
         /\ effects'.removed => effects.removed \/ request.does \in Removing
         /\ effects'.spent => effects.spent \/ request.does = "spend"
         /\ effects'.declined = effects.declined
         /\ n \in Nat \ {0} /\ (~request.resent => n = 1)
<1>1. n \in Nat \ {0}
  <2>1. MaxSends \in Nat \ {0}
    BY ToolsAssumption
  <2>2. sends \subseteq 1..MaxSends
    BY <2>1 DEF sends
  <2> QED BY <2>1, <2>2
<1> DEFINE made == IF request.does = "create" THEN effects.made + n ELSE effects.made
           known == IF request.does = "create" /\ heard THEN effects.known + 1 ELSE effects.known
<1>2. made \in Nat /\ known \in Nat
  BY <1>1 DEF EffectsType
<1>3. ~request.resent => n = 1
  BY DEF sends
<1>4. PICK deleted \in {FALSE, request.does = "change or remove"} :
        effects' = [effects EXCEPT !.made = IF request.does = "create" THEN @ + n ELSE @,
                                   !.known = IF request.does = "create" /\ heard THEN @ + 1 ELSE @,
                                   !.changed = @ \/ request.does \in Changing,
                                   !.removed = @ \/ request.does = "remove" \/ deleted,
                                   !.spent = @ \/ request.does = "spend"]
  BY DEF executed
<1> DEFINE changed == effects.changed \/ request.does \in Changing
           removed == effects.removed \/ request.does = "remove" \/ deleted
           costs == effects.spent \/ request.does = "spend"
<1>5. changed \in BOOLEAN /\ removed \in BOOLEAN /\ costs \in BOOLEAN
  OBVIOUS
<1>6. removed => effects.removed \/ request.does \in Removing
  BY DEF Removing
<1>7. /\ made = effects.made \/ (request.does = "create" /\ made = effects.made + n)
      /\ \/ known = effects.known /\ ~(request.does = "create" /\ heard)
         \/ /\ request.does = "create" /\ heard /\ known = effects.known + 1
            /\ made = effects.made + n
      /\ changed => effects.changed \/ request.does \in Changing
      /\ costs => effects.spent \/ request.does = "spend"
  OBVIOUS
<1>8. effects' = [effects EXCEPT !.made = made, !.known = known, !.changed = changed,
                                 !.removed = removed, !.spent = costs]
  BY <1>4
<1> HIDE DEF made, known, changed, removed, costs
<1>9. /\ effects' \in EffectsType
      /\ effects'.made = made /\ effects'.known = known /\ effects'.changed = changed
      /\ effects'.removed = removed /\ effects'.spent = costs
      /\ effects'.declined = effects.declined
  BY <1>2, <1>5, <1>8 DEF EffectsType
<1> QED BY <1>1, <1>3, <1>6, <1>7, <1>9

\* A request that is handled: skipped, declined, failed or executed, heard of or not.
LEMMA RequestStep ==
  ASSUME ToolsInv, toolCall.pc = "running", more,
         NEW heard \in BOOLEAN,
         \/ GoesOn
         \/ Throws /\ (~request.tolerated \/ (request.confirmed /\ request.does \in Changing)) /\ ~heard,
         \/ effects' = effects
         \/ /\ \E n \in sends : effects' \in executed(effects, n, heard)
            /\ heard \/ request.tolerated \/ Throws
         \/ /\ effects' = [effects EXCEPT !.declined = TRUE] /\ ~heard
            /\ request.confirmed => Throws
  PROVE  ToolsInv'
<1> DEFINE t == toolCall.tool
           next == toolCall.at + 1
           r == t.requests[next]
<1>1. /\ toolCall \in CallType /\ Trusted(t) /\ Len(t.requests) \in 0..4
      /\ next \in 1..Len(t.requests) /\ next \in 1..4 /\ toolCall.at \in 0..4
      /\ request = r
  <2>1. toolCall.at \in 0..4 /\ toolCall.at < Len(t.requests)
    BY CallTyped DEF more, CallType
  <2>2. request = r
    BY DEF request
  <2> QED BY <2>1, <2>2, CallTyped
<1>2. /\ Permitted(t, r)
      /\ t \notin LosesTrack =>
           \A i \in Behind : t.requests[i].does = "create" => Harmless(r)
  BY <1>1 DEF Trusted, Behind
<1>3. /\ toolCall'.tool = t /\ toolCall' \in CallType
      /\ \/ toolCall'.pc = "running" /\ toolCall'.at = next
         \/ /\ toolCall'.pc = "threw" /\ toolCall'.at = toolCall.at /\ ~heard
            /\ ~r.tolerated \/ (r.confirmed /\ r.does \in Changing)
            /\ Throws
      /\ Throws => toolCall'.pc = "threw"
  <2>1. CASE GoesOn
    BY <1>1, <2>1 DEF GoesOn, Throws, CallType
  <2>2. CASE /\ Throws /\ ~heard
             /\ ~request.tolerated \/ (request.confirmed /\ request.does \in Changing)
    BY <1>1, <2>2 DEF Throws, CallType
  <2> QED BY <2>1, <2>2
<1>4. Behind \subseteq Behind' /\ (toolCall'.pc = "running" => next \in Behind')
  BY <1>1, <1>3 DEF Behind
<1>5. /\ t.hints.readOnly => ~effects.changed /\ (effects.spent => t \in SpendsUnmarked)
      /\ effects.removed => t.hints.destructive \/ t \in RemovesUnmarked
      /\ t.hints.idempotent => effects.made = 0
      /\ effects.known <= effects.made
      /\ t \notin LosesTrack /\ effects.known > 0 =>
           \E i \in Behind : t.requests[i].does = "create"
      /\ t \notin CreatesAgain => effects.made = effects.known
      /\ effects.declined => \E i \in Behind : ~t.requests[i].confirmed
  BY DEF ToolsInv, WordInv
<1>6. request = r
  BY <1>1
<1> HIDE DEF t, next, r
<1>7. effects \in EffectsType
  BY DEF ToolsInv, ToolsTypeOK, EffectsType
<1>8. /\ effects' \in EffectsType
      /\ effects'.made = effects.made \/ r.does = "create"
      /\ effects'.known <= effects'.made
      /\ effects'.known = effects.known \/ (r.does = "create" /\ heard)
      /\ t \notin CreatesAgain /\ toolCall'.pc # "threw" => effects'.made = effects'.known
      /\ effects'.changed => effects.changed \/ r.does \in Changing
      /\ effects'.removed => effects.removed \/ r.does \in Removing
      /\ effects'.spent => effects.spent \/ r.does = "spend"
      /\ effects'.declined /\ toolCall'.pc = "running" => effects.declined \/ ~r.confirmed
  <2>1. CASE effects' = effects
    BY <1>7, <1>5, <2>1
  <2>2. CASE /\ \E n \in sends : effects' \in executed(effects, n, heard)
             /\ heard \/ request.tolerated \/ Throws
    <3>1. PICK n \in sends : effects' \in executed(effects, n, heard)
      BY <2>2
    <3>2. /\ effects' \in EffectsType
          /\ \/ effects'.made = effects.made
             \/ r.does = "create" /\ effects'.made = effects.made + n
          /\ \/ effects'.known = effects.known /\ ~(r.does = "create" /\ heard)
             \/ /\ r.does = "create" /\ heard /\ effects'.known = effects.known + 1
                /\ effects'.made = effects.made + n
          /\ effects'.changed => effects.changed \/ r.does \in Changing
          /\ effects'.removed => effects.removed \/ r.does \in Removing
          /\ effects'.spent => effects.spent \/ r.does = "spend"
          /\ effects'.declined = effects.declined
          /\ n \in Nat \ {0} /\ (~r.resent => n = 1)
      BY <1>7, <1>6, <3>1, ExecutedTyped
    <3>3. effects.made \in Nat /\ effects.known \in Nat
      BY <1>7 DEF EffectsType
    \* A creation that was not heard of throws.
    <3>4. r.does = "create" /\ ~heard => toolCall'.pc = "threw"
      BY <1>2, <1>3, <1>6, <2>2 DEF Permitted
    <3>5. t \notin CreatesAgain => n = 1
      BY <1>2, <3>2 DEF Permitted
    <3>6. effects'.known <= effects'.made
      BY <1>5, <3>2, <3>3
    <3>7. t \notin CreatesAgain /\ toolCall'.pc # "threw" => effects'.made = effects'.known
      BY <1>5, <3>2, <3>3, <3>4, <3>5
    <3> QED BY <3>2, <3>6, <3>7
  <2>3. CASE effects' = [effects EXCEPT !.declined = TRUE] /\ (request.confirmed => Throws)
    <3>1. /\ effects' \in EffectsType
          /\ effects'.made = effects.made /\ effects'.known = effects.known
          /\ effects'.changed = effects.changed /\ effects'.removed = effects.removed
          /\ effects'.spent = effects.spent
      BY <1>7, <2>3 DEF EffectsType
    <3> QED BY <1>3, <1>6, <1>5, <2>3, <3>1
  <2> QED BY <2>1, <2>2, <2>3
<1>9. ToolsTypeOK'
  BY <1>3, <1>8 DEF ToolsTypeOK, CallType, EffectsType
<1>10. CallInv'
  BY <1>1, <1>3 DEF CallInv, ToolsInv, next, t
<1>11. WordInv'
  <2>1. t.hints.readOnly => ~effects'.changed /\ (effects'.spent => t \in SpendsUnmarked)
    BY <1>2, <1>8, <1>5 DEF Permitted
  <2>2. effects'.removed => t.hints.destructive \/ t \in RemovesUnmarked
    BY <1>2, <1>8, <1>5 DEF Permitted
  <2>3. t.hints.idempotent => effects'.made = 0
    BY <1>2, <1>8, <1>5 DEF Permitted
  <2>4. t \notin LosesTrack /\ effects'.known > 0 =>
          /\ toolCall'.pc # "threw"
          /\ \E i \in Behind' : t.requests[i].does = "create"
    <3> SUFFICES ASSUME t \notin LosesTrack, effects'.known > 0
                 PROVE  /\ toolCall'.pc # "threw"
                        /\ \E i \in Behind' : t.requests[i].does = "create"
      OBVIOUS
    <3>1. CASE effects.known > 0
      <4>1. PICK i \in Behind : t.requests[i].does = "create"
        BY <1>5, <3>1
      <4>2. Harmless(r)
        BY <1>2, <4>1
      <4> QED BY <1>3, <1>4, <4>1, <4>2 DEF Harmless
    <3>2. CASE ~(effects.known > 0)
      <4>1. r.does = "create" /\ heard
        BY <1>8, <3>2
      <4> QED BY <1>3, <1>4, <4>1 DEF r
    <3> QED BY <3>1, <3>2
  <2>5. effects'.declined /\ toolCall'.pc # "threw" => \E i \in Behind' : ~t.requests[i].confirmed
    BY <1>1, <1>3, <1>4, <1>8, <1>5 DEF r
  <2> QED BY <1>3, <1>8, <2>1, <2>2, <2>3, <2>4, <2>5 DEF WordInv
<1> QED BY <1>9, <1>10, <1>11 DEF ToolsInv

LEMMA RepeatKeeps == ASSUME ToolsInv, Repeat PROVE ToolsInv'
<1>1. /\ toolCall \in CallType /\ toolCall.pc = "threw" /\ Len(toolCall.tool.requests) \in 0..4
      /\ toolCall.tries < MaxTries
      /\ toolCall' = [toolCall EXCEPT !.pc = "running", !.at = 0, !.tries = @ + 1]
      /\ effects' = [effects EXCEPT !.declined = FALSE]
      /\ effects \in EffectsType /\ toolCall.tool.hints.idempotent
  BY CallTyped DEF Repeat, ToolsInv, ToolsTypeOK, EffectsType
<1>2. /\ toolCall' \in CallType /\ toolCall'.tool = toolCall.tool /\ toolCall'.at = 0
      /\ toolCall'.pc = "running"
  <2> DEFINE tries == toolCall.tries + 1
  <2>1. tries \in 0..MaxTries
    BY <1>1, ToolsAssumption DEF CallType
  <2>2. toolCall' = [toolCall EXCEPT !.pc = "running", !.at = 0, !.tries = tries]
    BY <1>1
  <2> HIDE DEF tries
  <2>3. toolCall \in CallType
    BY <1>1
  <2>4. toolCall' = [pc |-> "running", tool |-> toolCall.tool, at |-> 0, tries |-> tries]
    BY <2>2, <2>3 DEF CallType
  <2>5. toolCall.tool \in Tools /\ 0 \in 0..4
    BY <2>3 DEF CallType
  <2> QED BY <2>1, <2>4, <2>5 DEF CallType
<1>3. /\ effects' \in EffectsType
      /\ effects'.made = effects.made /\ effects'.known = effects.known
      /\ effects'.changed = effects.changed /\ effects'.removed = effects.removed
      /\ effects'.spent = effects.spent /\ ~effects'.declined
  BY <1>1 DEF EffectsType
\* Only what creates nothing is repeated.
<1>4. effects.made = 0 /\ effects.known = 0
  BY <1>1 DEF ToolsInv, WordInv, EffectsType
<1>5. ToolsTypeOK' /\ CallInv'
  BY <1>1, <1>2, <1>3 DEF ToolsTypeOK, CallType, CallInv, EffectsType
<1>6. WordInv'
  BY <1>2, <1>3, <1>4 DEF ToolsInv, WordInv
<1> QED BY <1>5, <1>6 DEF ToolsInv

\* A call ends, refused or done.
LEMMA EndKeeps ==
  ASSUME ToolsInv, NEW pc \in {"refused", "done"}, toolCall.pc = "running",
         toolCall' = [toolCall EXCEPT !.pc = pc], UNCHANGED effects
  PROVE  ToolsInv'
<1>1. /\ toolCall' \in CallType /\ toolCall'.tool = toolCall.tool /\ toolCall'.at = toolCall.at
      /\ toolCall'.pc = pc
  BY CallTyped DEF CallType
<1> QED BY <1>1 DEF ToolsInv, ToolsTypeOK, CallType, CallInv, WordInv, Behind

LEMMA ToolsStep == ASSUME ToolsInv, [ToolsNext]_toolVars PROVE ToolsInv'
<1>1. CASE CallTool
  BY <1>1, CallToolKeeps
<1>2. CASE Refuse
  BY <1>2, EndKeeps DEF Refuse
<1>3. CASE Skip
  BY <1>3, RequestStep DEF Skip
<1>4. CASE Succeed
  BY <1>4, RequestStep DEF Succeed
<1>5. CASE Fail
  BY <1>5, RequestStep DEF Fail
<1>6. CASE Decline
  BY <1>6, RequestStep DEF Decline
<1>7. CASE Finish
  BY <1>7, EndKeeps DEF Finish
<1>8. CASE Repeat
  BY <1>8, RepeatKeeps
<1>9. CASE UNCHANGED toolVars
  BY <1>9 DEF toolVars, ToolsInv, ToolsTypeOK, CallInv, WordInv, Behind
<1> QED BY <1>1, <1>2, <1>3, <1>4, <1>5, <1>6, <1>7, <1>8, <1>9 DEF ToolsNext

LEMMA ToolsInvariance == ToolsSpec => []ToolsInv
BY InitialTools, ToolsStep, PTL DEF ToolsSpec

\* Every tool keeps the word of the hints registerTool gave it, whatever requests
\* fail and however often the host repeats the call its hints let it repeat.
THEOREM HintsAreKept == ToolsSpec => []ToolsKeepTheirWord
<1>1. ToolsInv => ToolsKeepTheirWord
  <2> SUFFICES ASSUME ToolsInv PROVE ToolsKeepTheirWord
    OBVIOUS
  <2>1. /\ effects.known \in Nat /\ effects.made \in Nat
        /\ Behind \subseteq 1..Len(toolCall.tool.requests)
    BY CallTyped DEF ToolsInv, ToolsTypeOK, Behind
  <2> QED BY <2>1 DEF ToolsInv, WordInv, ToolsKeepTheirWord
<1> QED BY <1>1, ToolsInvariance, PTL

-----------------------------------------------------------------------------
(* Sums over the rows of an analysis. Nothing is proved by induction: a sum *)
(* that went wrong would have a first row where it does (Least).            *)
Size == Cardinality(Objects)

\* s adds up the first k figures of x.
AddsUp(s, x, k) ==
  /\ s \in [0..k -> Int] /\ s[0] = 0
  /\ \A o \in 1..k : s[o] = x[o] + s[o - 1]

LEMMA Rows == Size \in Nat /\ Objects = 1..Size /\ Objects \cup {0} = 0..Size
<1>1. Size \in Nat
  BY EngineAssumption, FS_CardinalityType DEF Size
<1>2. Objects = 1..Size
  BY EngineAssumption DEF Size
<1> QED BY <1>1, <1>2

\* Any number of figures can be added up, and one way only.
LEMMA SumExists ==
  ASSUME NEW x \in [Objects -> Int]
  PROVE  \A k \in 0..Size : \E s : AddsUp(s, x, k)
<1> DEFINE Bad == {k \in 0..Size : ~\E s : AddsUp(s, x, k)}
<1>1. SUFFICES ASSUME Bad # {} PROVE FALSE
  OBVIOUS
<1>2. Bad \subseteq Nat
  BY Rows
<1>3. PICK k \in Bad : \A m \in Bad : k <= m
  <2> HIDE DEF Bad
  <2> QED BY <1>1, <1>2, Least
<1>4. AddsUp([o \in 0..0 |-> 0], x, 0)
  BY DEF AddsUp
<1>5. k \in 1..Size
  BY <1>4, Rows
<1>6. PICK s : AddsUp(s, x, k - 1)
  BY <1>3, <1>5, Rows
<1> DEFINE t == [o \in 0..k |-> IF o = k THEN x[k] + s[k - 1] ELSE s[o]]
<1>7. s[k - 1] \in Int /\ x[k] \in Int
  BY <1>5, <1>6, Rows DEF AddsUp
<1>8. \A o \in 0..(k - 1) : t[o] = s[o] /\ s[o] \in Int
  BY <1>5, <1>6, Rows DEF AddsUp
<1>9. AddsUp(t, x, k)
  BY <1>5, <1>6, <1>7, <1>8, Rows DEF AddsUp
<1> QED BY <1>9

LEMMA TotalIsSum ==
  ASSUME NEW x \in [Objects -> Int]
  PROVE  \E s : AddsUp(s, x, Size) /\ Total(x) = s[Size]
<1> DEFINE Defines(s) == s = [o \in Objects \cup {0} |-> IF o = 0 THEN 0 ELSE x[o] + s[o - 1]]
           sum == CHOOSE s : Defines(s)
<1>1. PICK s : AddsUp(s, x, Size)
  BY SumExists, Rows
<1>2. Defines(s)
  <2>1. s = [o \in 0..Size |-> s[o]]
    BY <1>1 DEF AddsUp
  <2>2. \A o \in 0..Size : s[o] = IF o = 0 THEN 0 ELSE x[o] + s[o - 1]
    BY <1>1, Rows DEF AddsUp
  <2> QED BY <2>1, <2>2, Rows
<1>3. Defines(sum)
  BY <1>2
<1>4. Total(x) = sum[Size]
  BY DEF Total, Size
<1> HIDE DEF sum
<1>5. sum[0] = 0 /\ \A o \in 1..Size : sum[o] = x[o] + sum[o - 1]
  BY <1>3, Rows
<1> DEFINE Bad == {k \in 0..Size : sum[k] # s[k]}
<1>6. ASSUME Bad # {} PROVE FALSE
  <2>1. Bad \subseteq Nat
    BY Rows
  <2>2. PICK k \in Bad : \A m \in Bad : k <= m
    <3> HIDE DEF Bad
    <3> QED BY <1>6, <2>1, Least
  <2>3. k \in 1..Size
    BY <1>1, <1>5, Rows DEF AddsUp
  <2>4. sum[k - 1] = s[k - 1]
    BY <2>2, <2>3, Rows
  <2> QED BY <1>1, <1>5, <2>3, <2>4 DEF AddsUp
<1> QED BY <1>1, <1>4, <1>6, Rows

LEMMA TotalTyped ==
  ASSUME NEW x \in [Objects -> Int]
  PROVE  Total(x) \in Int
BY TotalIsSum, Rows DEF AddsUp

\* Sums are linear.
LEMMA Distributes ==
  \A a, b, p, q, r, s \in Int : a * (p + q) + b * (r + s) = (a * p + b * r) + (a * q + b * s)
OBVIOUS

Combined(a, x, b, y) == [o \in Objects |-> a * x[o] + b * y[o]]

LEMMA TotalLinear ==
  ASSUME NEW x \in [Objects -> Int], NEW y \in [Objects -> Int], NEW a \in Int, NEW b \in Int
  PROVE  /\ Combined(a, x, b, y) \in [Objects -> Int]
         /\ Total(Combined(a, x, b, y)) = a * Total(x) + b * Total(y)
<1> DEFINE z == Combined(a, x, b, y)
<1>0. z \in [Objects -> Int] /\ \A o \in Objects : z[o] = a * x[o] + b * y[o]
  BY DEF Combined
<1> HIDE DEF z
<1>1. PICK s : AddsUp(s, x, Size) /\ Total(x) = s[Size]
  BY TotalIsSum
<1>2. PICK t : AddsUp(t, y, Size) /\ Total(y) = t[Size]
  BY TotalIsSum
<1>3. PICK u : AddsUp(u, z, Size) /\ Total(z) = u[Size]
  BY <1>0, TotalIsSum
<1> SUFFICES ASSUME u[Size] # a * s[Size] + b * t[Size]
             PROVE  FALSE
  BY <1>0, <1>1, <1>2, <1>3 DEF z
<1> DEFINE Bad == {k \in 0..Size : u[k] # a * s[k] + b * t[k]}
<1>4. Bad # {}
  BY Rows
<1>5. Bad \subseteq Nat
  BY Rows
<1>6. PICK k \in Bad : \A m \in Bad : k <= m
  <2> HIDE DEF Bad
  <2> QED BY <1>4, <1>5, Least
<1>7. k \in 1..Size
  BY <1>1, <1>2, <1>3, Rows DEF AddsUp
<1>8. u[k - 1] = a * s[k - 1] + b * t[k - 1]
  BY <1>6, <1>7, Rows
<1>9. /\ u[k] = z[k] + u[k - 1] /\ s[k] = x[k] + s[k - 1] /\ t[k] = y[k] + t[k - 1]
      /\ s[k - 1] \in Int /\ t[k - 1] \in Int /\ x[k] \in Int /\ y[k] \in Int
      /\ z[k] = a * x[k] + b * y[k]
  BY <1>0, <1>1, <1>2, <1>3, <1>7, Rows DEF AddsUp
<1>10. u[k] = (a * x[k] + b * y[k]) + (a * s[k - 1] + b * t[k - 1])
  BY <1>8, <1>9
<1>11. a * (x[k] + s[k - 1]) + b * (y[k] + t[k - 1]) = u[k]
  BY <1>9, <1>10, Distributes
<1>12. u[k] # a * s[k] + b * t[k]
  OBVIOUS
<1> QED BY <1>9, <1>11, <1>12

\* What adds up from naturals is no less than any of them.
LEMMA TotalCovers ==
  ASSUME NEW x \in [Objects -> Nat]
  PROVE  Total(x) \in Nat /\ \A o \in Objects : x[o] <= Total(x)
<1>1. PICK s : AddsUp(s, x, Size) /\ Total(x) = s[Size]
  BY TotalIsSum
<1>2. \A k \in 0..Size : s[k] \in Nat
  <2> DEFINE Bad == {k \in 0..Size : s[k] \notin Nat}
  <2> SUFFICES ASSUME Bad # {} PROVE FALSE
    OBVIOUS
  <2>1. Bad \subseteq Nat
    BY Rows
  <2>2. PICK k \in Bad : \A m \in Bad : k <= m
    <3> HIDE DEF Bad
    <3> QED BY <2>1, Least
  <2>3. k \in 1..Size
    BY <1>1, Rows DEF AddsUp
  <2>4. s[k - 1] \in Nat /\ x[k] \in Nat
    BY <2>2, <2>3, Rows
  <2> QED BY <1>1, <2>3, <2>4, Rows DEF AddsUp
<1>3. ASSUME NEW o \in Objects PROVE x[o] <= s[Size]
  <2> DEFINE Bad == {k \in o..Size : ~(x[o] <= s[k])}
  <2> SUFFICES ASSUME Bad # {} PROVE FALSE
    BY <1>3, Rows
  <2>1. Bad \subseteq Nat /\ o \in 1..Size
    BY <1>3, Rows
  <2>2. PICK k \in Bad : \A m \in Bad : k <= m
    <3> HIDE DEF Bad
    <3> QED BY <2>1, Least
  <2>3. k \in 1..Size /\ o <= k
    BY <2>1, Rows
  <2>4. s[k] = x[k] + s[k - 1] /\ x[k] \in Nat /\ x[o] \in Nat /\ s[k - 1] \in Nat
    BY <1>1, <1>2, <2>1, <2>3, Rows DEF AddsUp
  <2>5. k # o
    BY <2>4
  <2>6. x[o] <= s[k - 1]
    BY <2>2, <2>3, <2>5, <2>1, Rows
  <2> QED BY <2>4, <2>6
<1> QED BY <1>1, <1>2, <1>3, Rows

\* A sum of figures none of which is above c.
LEMMA TotalBounded ==
  ASSUME NEW x \in [Objects -> Int], NEW c \in Int, \A o \in Objects : x[o] <= c
  PROVE  Total(x) <= Size * c
<1>1. PICK s : AddsUp(s, x, Size) /\ Total(x) = s[Size]
  BY TotalIsSum
<1> DEFINE Bad == {k \in 0..Size : ~(s[k] <= k * c)}
<1> SUFFICES ASSUME Bad # {} PROVE FALSE
  BY <1>1, Rows
<1>2. Bad \subseteq Nat
  BY Rows
<1>3. PICK k \in Bad : \A m \in Bad : k <= m
  <2> HIDE DEF Bad
  <2> QED BY <1>2, Least
<1>4. k \in 1..Size
  <2>1. 0 * c = 0 /\ s[0] = 0
    BY <1>1 DEF AddsUp
  <2> QED BY <2>1, Rows
<1>5. s[k - 1] <= (k - 1) * c
  BY <1>3, <1>4, Rows
<1>6. s[k] = x[k] + s[k - 1] /\ x[k] <= c /\ x[k] \in Int /\ s[k - 1] \in Int
  BY <1>1, <1>4, Rows DEF AddsUp
<1>7. k * c = (k - 1) * c + c /\ (k - 1) * c \in Int /\ k * c \in Int
  BY <1>4, Rows
<1>8. ~(s[k] <= k * c)
  OBVIOUS
<1> HIDE DEF Bad
<1> QED BY <1>5, <1>6, <1>7, <1>8


-----------------------------------------------------------------------------
(* Products and shares.                                                     *)
LEMMA Products ==
  /\ \A a, x, y \in Int : x * y \in Int /\ x * y = y * x /\ (a * x) * y = a * (x * y)
  /\ \A x, y \in Nat : x * y \in Nat
  /\ \A x, y, c \in Int : x <= y /\ c >= 0 => x * c <= y * c
  /\ \A x, y, c \in Int : x < y /\ c > 0 => x * c < y * c
OBVIOUS

LEMMA Cancel ==
  ASSUME NEW x \in Int, NEW y \in Int, NEW c \in Int, c > 0
  PROVE  /\ x * c < y * c => x < y
         /\ x * c <= y * c => x <= y
BY Products

LEMMA Cleared == \A x \in Amount : orZero(x) \in Nat /\ (x # Null => orZero(x) = x /\ x \in Nat)
BY DEF orZero, Amount, Null

LEMMA BaselinesCover ==
  ASSUME NEW rows \in [Objects -> Reports]
  PROVE  /\ computeBaselines(rows) \in [spend : Nat, purchases : Nat, value : Amount]
         /\ \A o \in Objects :
              /\ orZero(rows[o].spend) <= computeBaselines(rows).spend
              /\ orZero(rows[o].purchases) <= computeBaselines(rows).purchases
              /\ rows[o].value # Null =>
                   rows[o].value \in Nat /\ rows[o].value <= computeBaselines(rows).value
<1> DEFINE spends == [o \in Objects |-> orZero(rows[o].spend)]
           purchases == [o \in Objects |-> orZero(rows[o].purchases)]
           value == [o \in Objects |-> orZero(rows[o].value)]
<1>1. \A o \in Objects : /\ rows[o].spend \in Amount /\ rows[o].purchases \in Amount
                         /\ rows[o].value \in Amount
  BY DEF Reports
<1>2. spends \in [Objects -> Nat] /\ purchases \in [Objects -> Nat] /\ value \in [Objects -> Nat]
  BY <1>1, Cleared
<1>3. /\ computeBaselines(rows).spend = Total(spends)
      /\ computeBaselines(rows).purchases = Total(purchases)
      /\ computeBaselines(rows).value = IF \A o \in Objects : rows[o].value = Null THEN Null
                                        ELSE Total(value)
      /\ computeBaselines(rows) = [spend |-> computeBaselines(rows).spend,
           purchases |-> computeBaselines(rows).purchases, value |-> computeBaselines(rows).value]
  BY DEF computeBaselines
<1> HIDE DEF spends, purchases, value
<1>4. /\ Total(spends) \in Nat /\ \A o \in Objects : spends[o] <= Total(spends)
      /\ Total(purchases) \in Nat /\ \A o \in Objects : purchases[o] <= Total(purchases)
      /\ Total(value) \in Nat /\ \A o \in Objects : value[o] <= Total(value)
  BY <1>2, TotalCovers
<1>5. computeBaselines(rows) \in [spend : Nat, purchases : Nat, value : Amount]
  BY <1>3, <1>4 DEF Amount
<1>6. \A o \in Objects : rows[o].value # Null =>
        rows[o].value \in Nat /\ rows[o].value <= computeBaselines(rows).value
  BY <1>1, <1>3, <1>4, Cleared DEF value
<1> QED BY <1>3, <1>4, <1>5, <1>6 DEF spends, purchases

-----------------------------------------------------------------------------
(* Rates, derived and reported.                                             *)
RateNames == {"roas", "costPerPurchase", "ctr", "cpc", "cpm"}
Fraction(x) == x[1] \in Nat /\ x[2] \in Nat /\ x[2] > 0

LEMMA DerivedOf ==
  ASSUME NEW m
  PROVE  /\ derived(m, "roas") = ratio(m.value, m.spend)
         /\ derived(m, "costPerPurchase") = ratio(m.spend, m.purchases)
         /\ derived(m, "ctr") = ratio(m.clicks, m.impressions)
         /\ derived(m, "cpc") = ratio(m.spend, m.clicks)
         /\ derived(m, "cpm") = ratio(m.spend, m.impressions)
BY DEF derived

LEMMA RatesOf ==
  ASSUME NEW m
  PROVE  /\ rate(m, "roas") = IF m.roas # NoRate THEN m.roas ELSE derived(m, "roas")
         /\ rate(m, "costPerPurchase") =
              IF m.cost # NoRate THEN m.cost ELSE derived(m, "costPerPurchase")
         /\ \A k \in {"ctr", "cpc", "cpm"} : rate(m, k) = derived(m, k)
BY DEF rate

LEMMA RatioTyped ==
  ASSUME NEW x \in Amount, NEW y \in Amount, ratio(x, y) # NoRate
  PROVE  /\ ratio(x, y) = <<x, y>> /\ x \in Nat /\ y \in Nat /\ y > 0
         /\ ratio(x, y)[1] = x /\ ratio(x, y)[2] = y
BY DEF ratio, NoRate, Amount, Null

LEMMA ReportTyped ==
  ASSUME NEW m \in Reports
  PROVE  /\ m.spend \in Amount /\ m.impressions \in Amount /\ m.clicks \in Amount
         /\ m.purchases \in Amount /\ m.value \in Amount
         /\ m.cost # NoRate => Fraction(m.cost)
         /\ m.roas # NoRate => Fraction(m.roas)
BY DEF Reports, Rates, Fraction

\* A rate that is told is a fraction.
LEMMA DerivedTyped ==
  ASSUME NEW m \in Reports, NEW k \in RateNames, derived(m, k) # NoRate
  PROVE  Fraction(derived(m, k))
BY ReportTyped, DerivedOf, RatioTyped DEF RateNames, Fraction

LEMMA RateTyped ==
  ASSUME NEW m \in Reports, NEW k \in RateNames, rate(m, k) # NoRate
  PROVE  Fraction(rate(m, k))
<1>1. CASE k \in {"ctr", "cpc", "cpm"}
  BY <1>1, RatesOf, DerivedTyped
<1>2. CASE k = "roas"
  BY <1>2, RatesOf, DerivedTyped, ReportTyped
<1>3. CASE k = "costPerPurchase"
  BY <1>3, RatesOf, DerivedTyped, ReportTyped
<1> QED BY <1>1, <1>2, <1>3 DEF RateNames

LEMMA NothingReported == Absent \in Reports /\ \A k \in RateNames : rate(Absent, k) = NoRate
<1>1. Absent \in Reports
  BY DEF Absent, Reports, Amount, Rates
<1>2. ratio(Null, Null) = NoRate
  BY DEF ratio
<1>3. \A k \in RateNames : derived(Absent, k) = NoRate
  BY <1>2, DerivedOf DEF Absent, RateNames
<1>4. Absent.roas = NoRate /\ Absent.cost = NoRate
  BY DEF Absent
<1> QED BY <1>1, <1>3, <1>4, RatesOf DEF RateNames

\* The return of a row beside the account's.
LEMMA ReturnCompared ==
  ASSUME NEW m \in Reports, NEW b, b \in [spend : Nat, purchases : Nat, value : Amount],
         judgedByReturn(m, b)
  PROVE  LET x == rate(m, "roas")
             y == accountRoas(b)
         IN  /\ Fraction(x) /\ Fraction(y) /\ y[1] = b.value /\ y[2] = b.spend
             /\ b.value \in Nat /\ b.spend \in Nat /\ b.spend > 0
             /\ x[1] * b.spend \in Nat /\ b.value * x[2] \in Nat
             /\ lower(x, y) <=> x[1] * b.spend < b.value * x[2]
             /\ belowHalves(x, y, 1) <=> 2 * (x[1] * b.spend) < b.value * x[2]
             /\ aboveHalves(x, y, 3) <=> 2 * (x[1] * b.spend) > 3 * (b.value * x[2])
<1> DEFINE x == rate(m, "roas")
           y == accountRoas(b)
<1>1. Fraction(x)
  BY RateTyped DEF judgedByReturn, RateNames
<1>2. Fraction(y) /\ y[1] = b.value /\ y[2] = b.spend /\ b.value \in Nat /\ b.spend \in Nat /\ b.spend > 0
  <2>1. b.value \in Amount /\ b.spend \in Amount
    BY DEF Amount
  <2> QED BY <2>1, RatioTyped DEF judgedByReturn, accountRoas, Fraction
<1> HIDE DEF x, y
<1>3. x[1] * b.spend \in Nat /\ b.value * x[2] \in Nat
  BY <1>1, <1>2, Products DEF Fraction
<1>4. /\ lower(x, y) <=> x[1] * b.spend < b.value * x[2]
      /\ aboveHalves(x, y, 3) <=> 2 * (x[1] * b.spend) > 3 * (b.value * x[2])
  BY <1>2 DEF lower, aboveHalves
<1>5. belowHalves(x, y, 1) <=> 2 * (x[1] * b.spend) < b.value * x[2]
  BY <1>2, <1>3 DEF belowHalves
<1> QED BY <1>1, <1>2, <1>3, <1>4, <1>5 DEF x, y

\* A return v/s that is at most one that is below half, or at least one that is
\* above one and a half times, of another.
LEMMA Chained ==
  ASSUME NEW v \in Nat, NEW s \in Nat, NEW n \in Nat, NEW d \in Nat, NEW w \in Nat, NEW t \in Nat,
         s > 0, d > 0
  PROVE  /\ v * d <= n * s /\ 2 * (n * t) < w * d => 2 * (v * t) < w * s
         /\ n * s <= v * d /\ 2 * (n * t) > 3 * (w * d) => 2 * (v * t) > 3 * (w * s)
<1>1. /\ v * d \in Nat /\ n * s \in Nat /\ n * t \in Nat /\ w * d \in Nat /\ v * t \in Nat /\ w * s \in Nat
  BY Products
<1>2. /\ (v * d) * t = (v * t) * d /\ (n * s) * t = (n * t) * s /\ (w * d) * s = (w * s) * d
  BY Products
<1>3. /\ (2 * (v * t)) * d = 2 * ((v * t) * d) /\ (2 * (n * t)) * s = 2 * ((n * t) * s)
      /\ (3 * (w * d)) * s = 3 * ((w * d) * s) /\ (3 * (w * s)) * d = 3 * ((w * s) * d)
  BY <1>1, Products
<1>4. /\ (v * t) * d \in Nat /\ (n * t) * s \in Nat /\ (w * s) * d \in Nat
  BY <1>1, Products
<1>5. ASSUME v * d <= n * s, 2 * (n * t) < w * d PROVE 2 * (v * t) < w * s
  <2>1. (v * d) * t <= (n * s) * t
    BY <1>1, <1>5, Products
  <2>2. (2 * (n * t)) * s < (w * d) * s
    <3>1. 2 * (n * t) \in Int
      BY <1>1
    <3> QED BY <1>1, <1>5, <3>1, Products
  <2>3. (2 * (v * t)) * d < (w * s) * d
    BY <1>2, <1>3, <1>4, <2>1, <2>2
  <2>4. 2 * (v * t) \in Int
    BY <1>1
  <2> QED BY <1>1, <2>3, <2>4, Cancel
<1>6. ASSUME n * s <= v * d, 2 * (n * t) > 3 * (w * d) PROVE 2 * (v * t) > 3 * (w * s)
  <2>0. 2 * (v * t) \in Int /\ 3 * (w * s) \in Int /\ 2 * (n * t) \in Int /\ 3 * (w * d) \in Int
    BY <1>1
  <2>1. (n * s) * t <= (v * d) * t
    BY <1>1, <1>6, Products
  <2>2. (3 * (w * d)) * s < (2 * (n * t)) * s
    BY <1>6, <2>0, Products
  <2>3. (3 * (w * s)) * d < (2 * (v * t)) * d
    BY <1>2, <1>3, <1>4, <2>1, <2>2
  <2>4. 3 * (w * s) < 2 * (v * t)
    BY <2>0, <2>3, Cancel
  <2> QED BY <2>0, <2>4
<1> QED BY <1>5, <1>6

-----------------------------------------------------------------------------
(* The advice: what DecisionEngine finds, and how its findings are related. *)
Kinds == RANKED_KINDS \cup {"improving", "active_no_delivery", "paused_not_spending"}

\* What a finding is told for.
Grounded(f) ==
  LET m == advice.rows[f.object]
      b == computeBaselines(advice.rows)
  IN  /\ f.object \in Objects /\ f.kind \in Kinds
      /\ f = Finding(f.kind, f.object, m, b, advice.level, advice.cbo)
      /\ f.kind = "zero_conversion_spend" => zeroConversionSpend(m, b)
      /\ f.kind = "low_roas" => lowRoas(m, b)
      /\ f.kind = "high_roas_underfunded" => highRoasUnderfunded(m, b)

AdviceInv == AdviceTypeOK /\ \A f \in advice.findings : Grounded(f)

LEMMA FindingsTold ==
  ASSUME NEW m, NEW st, NEW p, NEW b, NEW k \in findingsForRow(m, st, p, b)
  PROVE  /\ k \in Kinds
         /\ k = "zero_conversion_spend" => zeroConversionSpend(m, b)
         /\ k = "low_roas" => lowRoas(m, b)
         /\ k = "high_roas_underfunded" => highRoasUnderfunded(m, b)
<1>1. k \in {"paused_not_spending", "active_no_delivery"}
      \/ (k = "zero_conversion_spend" /\ zeroConversionSpend(m, b))
      \/ (k = "low_roas" /\ lowRoas(m, b))
      \/ (k = "high_roas_underfunded" /\ highRoasUnderfunded(m, b))
      \/ k \in trends(m, p)
  BY DEF findingsForRow
<1>2. trends(m, p) \subseteq {"cpa_rising", "ctr_falling", "cpc_rising", "cpm_rising", "improving"}
  BY DEF trends
<1> QED BY <1>1, <1>2 DEF Kinds, RANKED_KINDS

LEMMA AdviceStep == ASSUME AdviceInv, [analyze]_adviceVars PROVE AdviceInv'
<1>1. CASE UNCHANGED adviceVars
  BY <1>1 DEF adviceVars, AdviceInv, AdviceTypeOK, Grounded
<1>2. CASE analyze
  <2>1. PICK level \in Levels, cbo \in BOOLEAN, rows \in [Objects -> Metrics], p \in Earlier,
             st \in Statuses :
          advice' = [pc |-> "done", level |-> level, cbo |-> cbo, rows |-> rows,
                     findings |-> findingsOf(level, cbo, rows, p, st)]
    BY <1>2 DEF analyze
  <2> DEFINE b == computeBaselines(rows)
  <2>2. advice'.pc = "done" /\ advice'.level = level /\ advice'.cbo = cbo /\ advice'.rows = rows
    BY <2>1
  <2>3. ASSUME NEW f \in advice'.findings PROVE Grounded(f)' /\ f.object \in Objects /\ f.stake \in Nat
    <3>0. PICK o \in Objects : \E s, q : \E k \in findingsForRow(rows[o], s, q, b) :
            f = Finding(k, o, rows[o], b, level, cbo)
      BY <2>1 DEF findingsOf
    <3>1. PICK s, q : \E k \in findingsForRow(rows[o], s, q, b) :
            f = Finding(k, o, rows[o], b, level, cbo)
      BY <3>0
    <3>2. PICK k \in findingsForRow(rows[o], s, q, b) : f = Finding(k, o, rows[o], b, level, cbo)
      BY <3>1
    <3>3. f.kind = k /\ f.object = o /\ f.stake = orZero(rows[o].spend)
      BY <3>2 DEF Finding
    <3>4. f.stake \in Nat
      BY <3>3, Cleared, EngineAssumption DEF Reports
    <3>5. Grounded(f)'
      BY <2>2, <3>2, <3>3, FindingsTold DEF Grounded
    <3> QED BY <3>3, <3>4, <3>5
  <2>4. AdviceTypeOK'
    BY <2>2, <2>3 DEF AdviceTypeOK
  <2> QED BY <2>3, <2>4 DEF AdviceInv
<1> QED BY <1>1, <1>2

LEMMA AdviceInitially == AdviceInit => AdviceInv
<1> SUFFICES ASSUME AdviceInit PROVE AdviceInv
  OBVIOUS
<1>1. (CHOOSE m \in Metrics : TRUE) \in Metrics
  BY EngineAssumption
<1> QED BY <1>1 DEF AdviceInit, AdviceInv, AdviceTypeOK

\* A row that is to be stopped for its return, or grown for it.
LEMMA ReturnJudged ==
  ASSUME NEW m, NEW b, lowRoas(m, b) \/ highRoasUnderfunded(m, b)
  PROVE  judgedByReturn(m, b)
BY DEF lowRoas, highRoasUnderfunded, converts, judgedByReturn

LEMMA ReturnBelow ==
  ASSUME NEW m \in Reports, NEW b, b \in [spend : Nat, purchases : Nat, value : Amount],
         lowRoas(m, b), m.value > 0,
         ~lower(rate(m, "roas"), derived(m, "roas"))
  PROVE  /\ m.value \in Nat /\ m.spend \in Nat /\ b.value \in Nat
         /\ 2 * (m.value * b.spend) < b.value * m.spend
<1> DEFINE x == rate(m, "roas")
<1>1. /\ m.value \in Nat /\ m.spend \in Nat /\ m.spend > 0
      /\ derived(m, "roas") = <<m.value, m.spend>>
  <2>1. m.value \in Nat /\ m.value # Null
    BY ReportTyped DEF Amount, Null
  <2>2. m.spend \in Nat /\ m.spend # Null /\ m.spend > 0
    BY ReportTyped DEF lowRoas, material, orZero, Amount, Null
  <2> QED BY <2>1, <2>2, DerivedOf DEF ratio
<1>2. /\ Fraction(x) /\ b.value \in Nat /\ b.spend \in Nat
      /\ 2 * (x[1] * b.spend) < b.value * x[2]
  BY ReturnJudged, ReturnCompared DEF lowRoas
<1> HIDE DEF x
<1>3. m.value * x[2] <= x[1] * m.spend
  <2>1. ~(x[1] * m.spend < m.value * x[2])
    BY <1>1 DEF lower, x
  <2>2. x[1] * m.spend \in Nat /\ m.value * x[2] \in Nat
    BY <1>1, <1>2, Products DEF Fraction
  <2> QED BY <2>1, <2>2
<1> QED BY <1>1, <1>2, <1>3, Chained DEF Fraction

LEMMA ReturnAbove ==
  ASSUME NEW m \in Reports, NEW b, b \in [spend : Nat, purchases : Nat, value : Amount],
         highRoasUnderfunded(m, b), atMost(rate(m, "roas"), derived(m, "roas"))
  PROVE  /\ m.value \in Nat /\ m.spend \in Nat /\ b.value \in Nat
         /\ m.value * b.spend \in Nat /\ b.value * m.spend \in Nat
         /\ 2 * (m.value * b.spend) > 3 * (b.value * m.spend)
<1> DEFINE x == rate(m, "roas")
<1>1. /\ m.value \in Nat /\ m.spend \in Nat /\ m.spend > 0
      /\ derived(m, "roas") = <<m.value, m.spend>>
  <2>1. ratio(m.value, m.spend) # NoRate
    BY DerivedOf DEF atMost
  <2> QED BY <2>1, ReportTyped, DerivedOf, RatioTyped
<1>2. /\ Fraction(x) /\ b.value \in Nat /\ b.spend \in Nat
      /\ 2 * (x[1] * b.spend) > 3 * (b.value * x[2])
  BY ReturnJudged, ReturnCompared DEF highRoasUnderfunded
<1> HIDE DEF x
<1>3. x[1] * m.spend <= m.value * x[2]
  <2>1. ~(m.value * x[2] < x[1] * m.spend)
    BY <1>1 DEF atMost, lower, x
  <2>2. x[1] * m.spend \in Nat /\ m.value * x[2] \in Nat
    BY <1>1, <1>2, Products DEF Fraction
  <2> QED BY <2>1, <2>2
<1>4. m.value * b.spend \in Nat /\ b.value * m.spend \in Nat
  BY <1>1, <1>2, Products
<1> QED BY <1>1, <1>2, <1>3, <1>4, Chained DEF Fraction

LEMMA AdvisedRows ==
  ASSUME AdviceInv
  PROVE  /\ advice.rows \in [Objects -> Reports]
         /\ \A o \in Objects : advice.rows[o] \in Reports
         /\ computeBaselines(advice.rows) \in [spend : Nat, purchases : Nat, value : Amount]
BY EngineAssumption, BaselinesCover DEF AdviceInv, AdviceTypeOK

\* Nothing is to be stopped and grown at once.
LEMMA NeverBoth ==
  ASSUME AdviceInv
  PROVE  advisedTo(Stop) \cap advisedTo({"high_roas_underfunded"}) = {}
<1> DEFINE b == computeBaselines(advice.rows)
<1>1. ASSUME NEW f \in advice.findings, NEW g \in advice.findings, f.kind \in Stop,
             g.kind = "high_roas_underfunded", f.object = g.object
      PROVE  FALSE
  <2>1. Grounded(f) /\ Grounded(g)
    BY DEF AdviceInv
  <2> DEFINE m == advice.rows[g.object]
  <2>2. m \in Reports /\ b \in [spend : Nat, purchases : Nat, value : Amount]
    BY <2>1, AdvisedRows DEF Grounded
  <2>3. highRoasUnderfunded(m, b) /\ (zeroConversionSpend(m, b) \/ lowRoas(m, b))
    BY <1>1, <2>1 DEF Grounded, Stop
  <2> HIDE DEF m, b
  <2>4. m.purchases > 0
    BY <2>3 DEF highRoasUnderfunded, converts
  <2>5. lowRoas(m, b)
    BY <2>3, <2>4 DEF zeroConversionSpend
  <2> DEFINE P == rate(m, "roas")[1] * b.spend
             Q == b.value * rate(m, "roas")[2]
  <2>6. P \in Nat /\ Q \in Nat /\ 2 * P < Q /\ 2 * P > 3 * Q
    BY <2>2, <2>3, <2>5, ReturnJudged, ReturnCompared DEF lowRoas, highRoasUnderfunded
  <2> HIDE DEF P, Q
  <2> QED BY <2>6
<1> QED BY <1>1 DEF advisedTo

\* Of the objects that earn, not all return less than half of the account's return.
LEMMA SomeEarnerStays ==
  ASSUME AdviceInv, NEW best \in Objects, advice.rows[best].value > 0,
         \A o \in Objects : advice.rows[o].value > 0 =>
                           advice.rows[o].purchases > 0 /\ ~understated(o)
  PROVE  \E o \in Objects : advice.rows[o].value > 0 /\ o \notin advisedTo(Stop)
<1> SUFFICES ASSUME \A o \in Objects : advice.rows[o].value > 0 => o \in advisedTo(Stop)
             PROVE  FALSE
  OBVIOUS
<1> DEFINE rows == advice.rows
           b == computeBaselines(rows)
           v == [o \in Objects |-> orZero(rows[o].value)]
           s == [o \in Objects |-> orZero(rows[o].spend)]
           c == -2 * b.spend
           gap == Combined(b.value, s, c, v)
<1>1. rows \in [Objects -> Reports] /\ b \in [spend : Nat, purchases : Nat, value : Amount]
  BY AdvisedRows
<1>2. /\ rows[best].value # Null /\ b.value \in Nat /\ b.value > 0
  BY <1>1, BaselinesCover DEF Null, Reports, Amount
<1>3. /\ v \in [Objects -> Nat] /\ s \in [Objects -> Nat]
      /\ b.spend = Total(s) /\ b.value = Total(v)
  <2>1. b.spend = Total(s) /\ b.value = Total(v)
    BY <1>2 DEF computeBaselines
  <2>2. \A o \in Objects : rows[o].value \in Amount /\ rows[o].spend \in Amount
    BY <1>1 DEF Reports
  <2> QED BY <2>1, <2>2, Cleared
<1>4. \A o \in Objects : /\ v[o] \in Nat /\ s[o] \in Nat
                         /\ b.value * s[o] \in Nat /\ c * v[o] \in Int
                         /\ c * v[o] = -2 * (v[o] * b.spend)
  <2> HIDE DEF v, s, b
  <2> TAKE o \in Objects
  <2>1. v[o] \in Nat /\ s[o] \in Nat /\ b.spend \in Nat /\ b.value \in Nat
    BY <1>1, <1>2, <1>3
  <2> QED BY <2>1, Products
<1>5. \A o \in Objects : gap[o] \in Nat /\ (rows[o].value > 0 => gap[o] > 0)
  <2> TAKE o \in Objects
  <2>0. gap[o] = b.value * s[o] + c * v[o]
    BY DEF Combined
  <2>1. CASE rows[o].value > 0
    <3>1. PICK f \in advice.findings : f.kind \in Stop /\ f.object = o
      BY <2>1 DEF advisedTo
    <3>2. Grounded(f) /\ rows[o] \in Reports /\ rows[o].purchases > 0
      BY <1>1, <2>1 DEF AdviceInv
    <3>3. lowRoas(rows[o], b)
      BY <3>1, <3>2 DEF Grounded, Stop, zeroConversionSpend
    <3>4. /\ rows[o].value \in Nat /\ rows[o].spend \in Nat
          /\ 2 * (rows[o].value * b.spend) < b.value * rows[o].spend
      BY <1>1, <2>1, <3>2, <3>3, ReturnBelow DEF understated
    <3>5. v[o] = rows[o].value /\ s[o] = rows[o].spend
      BY <3>4 DEF orZero, Null
    <3> HIDE DEF v, s, b, rows
    <3>6. v[o] * b.spend \in Nat
      BY <1>1, <1>4, Products
    <3> QED BY <1>4, <2>0, <3>4, <3>5, <3>6
  <2>2. CASE ~(rows[o].value > 0)
    <3>1. v[o] = 0
      BY <1>1, <2>2 DEF orZero, Null, Reports, Amount
    <3> HIDE DEF v, s, b, rows
    <3>2. v[o] * b.spend = 0
      BY <1>1, <3>1
    <3> QED BY <1>4, <2>0, <2>2, <3>2
  <2> QED BY <2>1, <2>2
<1>6. /\ Total(gap) = b.value * Total(s) + c * Total(v)
      /\ Total(gap) > 0
  <2> HIDE DEF b, v, s
  <2>1. /\ c \in Int /\ b.value \in Int
        /\ v \in [Objects -> Int] /\ s \in [Objects -> Int]
    BY <1>1, <1>2, <1>3
  <2>2. /\ gap \in [Objects -> Int]
        /\ Total(gap) = b.value * Total(s) + c * Total(v)
    <3> HIDE DEF c
    <3> QED BY <2>1, TotalLinear
  <2>3. gap[best] > 0 /\ \A o \in Objects : gap[o] \in Nat
    BY <1>5
  <2> HIDE DEF gap, rows, c
  <2>4. gap \in [Objects -> Nat]
    BY <2>2, <2>3
  <2>5. Total(gap) \in Nat /\ gap[best] <= Total(gap) /\ gap[best] \in Nat
    BY <2>4, TotalCovers
  <2> QED BY <2>2, <2>3, <2>5
<1>7. b.value * b.spend \in Nat /\ c * b.value = -2 * (b.value * b.spend)
  <2> HIDE DEF b
  <2> QED BY <1>1, <1>2, Products
<1> QED
  <2> HIDE DEF b, v, s, gap, c
  <2> QED BY <1>3, <1>6, <1>7

\* What is to be grown holds less than two thirds of the spend: it returns one and a
\* half times the account's return on it, and no more than the account's revenue.
LEMMA RoomToShift ==
  ASSUME AdviceInv, advisedTo({"high_roas_underfunded"}) # {},
         \A o \in advisedTo({"high_roas_underfunded"}) : bornOut(o)
  PROVE  3 * spent(advisedTo({"high_roas_underfunded"})) < 2 * spent(Objects)
<1> DEFINE G == advisedTo({"high_roas_underfunded"})
           rows == advice.rows
           b == computeBaselines(rows)
           v == [o \in Objects |-> orZero(rows[o].value)]
           s == [o \in Objects |-> orZero(rows[o].spend)]
           vG == [o \in Objects |-> IF o \in G THEN orZero(rows[o].value) ELSE 0]
           sG == [o \in Objects |-> IF o \in G THEN orZero(rows[o].spend) ELSE 0]
           c == 2 * b.spend
           d == -3 * b.value
           gap == Combined(c, vG, d, sG)
           rest == Combined(1, v, -1, vG)
<1>1. rows \in [Objects -> Reports] /\ b \in [spend : Nat, purchases : Nat, value : Amount]
  BY AdvisedRows
<1>2. ASSUME NEW o \in G
      PROVE  /\ o \in Objects /\ vG[o] = rows[o].value /\ sG[o] = rows[o].spend
             /\ rows[o].value \in Nat /\ rows[o].spend \in Nat /\ b.value \in Nat
             /\ rows[o].value * b.spend \in Nat /\ b.value * rows[o].spend \in Nat
             /\ 2 * (rows[o].value * b.spend) > 3 * (b.value * rows[o].spend)
  <2>1. PICK f \in advice.findings : f.kind = "high_roas_underfunded" /\ f.object = o
    BY DEF advisedTo
  <2>2. o \in Objects /\ highRoasUnderfunded(rows[o], b)
    BY <2>1 DEF AdviceInv, Grounded
  <2>3. /\ rows[o].value \in Nat /\ rows[o].spend \in Nat /\ b.value \in Nat
        /\ rows[o].value * b.spend \in Nat /\ b.value * rows[o].spend \in Nat
        /\ 2 * (rows[o].value * b.spend) > 3 * (b.value * rows[o].spend)
    BY <1>1, <2>2, ReturnAbove DEF bornOut
  <2> QED BY <2>2, <2>3 DEF orZero, Null
<1>3. PICK grown \in G : grown \in Objects
  BY <1>2
<1>4. b.value \in Nat /\ c \in Int /\ d \in Int /\ b.spend \in Nat
  <2>1. b.value \in Nat
    BY <1>2, <1>3
  <2> HIDE DEF b
  <2>2. b.spend \in Nat
    BY <1>1
  <2> QED BY <2>1, <2>2
<1>5. \A o \in Objects : rows[o].value \in Amount /\ rows[o].spend \in Amount
  BY <1>1 DEF Reports
<1>6. /\ v \in [Objects -> Nat] /\ s \in [Objects -> Nat]
      /\ vG \in [Objects -> Nat] /\ sG \in [Objects -> Nat]
  BY <1>5, Cleared
<1>7. b.spend = Total(s) /\ b.value = Total(v)
  BY <1>4 DEF computeBaselines, Null
<1>8. spent(G) = Total(sG) /\ spent(Objects) = Total(s)
  BY DEF spent
<1>9. \A o \in Objects : gap[o] \in Nat /\ (o \in G => gap[o] > 0)
  <2> TAKE o \in Objects
  <2>1. gap[o] = c * vG[o] + d * sG[o]
    BY DEF Combined
  <2>2. CASE o \in G
    <3>1. /\ vG[o] = rows[o].value /\ sG[o] = rows[o].spend
          /\ rows[o].value \in Nat /\ rows[o].spend \in Nat
          /\ rows[o].value * b.spend \in Nat /\ b.value * rows[o].spend \in Nat
          /\ 2 * (rows[o].value * b.spend) > 3 * (b.value * rows[o].spend)
      BY <1>2, <2>2
    <3> HIDE DEF b, vG, sG, gap
    <3>2. c * vG[o] = 2 * (rows[o].value * b.spend)
      BY <1>4, <3>1, Products
    <3>3. d * sG[o] = -3 * (b.value * rows[o].spend)
      BY <1>4, <3>1, Products
    <3> HIDE DEF c, d
    <3> QED BY <2>1, <3>1, <3>2, <3>3
  <2>3. CASE o \notin G
    <3>1. vG[o] = 0 /\ sG[o] = 0
      BY <2>3
    <3> HIDE DEF c, d, vG, sG, gap
    <3> QED BY <1>4, <2>1, <2>3, <3>1
  <2> QED BY <2>2, <2>3
<1>10. c * Total(vG) + d * Total(sG) > 0
  <2> HIDE DEF c, d, vG, sG, G
  <2>1. gap \in [Objects -> Int] /\ Total(gap) = c * Total(vG) + d * Total(sG)
    BY <1>4, <1>6, TotalLinear
  <2>2. gap \in [Objects -> Nat] /\ gap[grown] > 0
    <3> HIDE DEF gap
    <3> QED BY <1>3, <1>9, <2>1
  <2> HIDE DEF gap
  <2>3. Total(gap) \in Nat /\ gap[grown] <= Total(gap) /\ gap[grown] \in Nat
    BY <1>3, <2>2, TotalCovers
  <2> QED BY <2>1, <2>2, <2>3
<1>11. Total(vG) <= Total(v)
  <2>1. \A o \in Objects : rest[o] \in Nat
    BY <1>6 DEF Combined
  <2> HIDE DEF v, vG
  <2>2. rest \in [Objects -> Int] /\ Total(rest) = 1 * Total(v) + (-1) * Total(vG)
    BY <1>6, TotalLinear
  <2> HIDE DEF rest
  <2>3. Total(rest) \in Nat
    BY <2>1, <2>2, TotalCovers
  <2> QED BY <1>6, <2>2, <2>3, TotalCovers
<1>12. Total(v) \in Nat /\ Total(vG) \in Nat /\ Total(sG) \in Nat /\ Total(s) \in Nat
  <2> HIDE DEF v, vG, s, sG
  <2> QED BY <1>6, TotalCovers
<1> DEFINE S == Total(s) V == Total(v) SG == Total(sG) VG == Total(vG)
<1>13. c = 2 * S /\ d = -3 * V
  BY <1>7
<1> HIDE DEF S, V, SG, VG, c, d, b
<1>14. (2 * S) * VG + (-3 * V) * SG > 0
  BY <1>10, <1>13 DEF VG, SG
<1>15. S \in Nat /\ V \in Nat /\ SG \in Nat /\ VG \in Nat /\ VG <= V
  BY <1>11, <1>12 DEF S, V, SG, VG
<1>16. VG * (2 * S) <= V * (2 * S) /\ (2 * S) * VG = VG * (2 * S) /\ V * (2 * S) = (2 * S) * V
  BY <1>15, Products
<1>17. (-3 * V) * SG = -((3 * SG) * V) /\ (3 * SG) * V \in Int /\ (2 * S) * V \in Int
  BY <1>15, Products
<1>18. (3 * SG) * V < (2 * S) * V
  BY <1>14, <1>15, <1>16, <1>17, Products
<1>19. V > 0
  BY <1>15, <1>18
<1>20. 3 * SG < 2 * S
  <2>1. 3 * SG \in Int /\ 2 * S \in Int
    BY <1>15
  <2> QED BY <1>15, <1>18, <1>19, <2>1, Cancel
<1> QED BY <1>8, <1>20 DEF S, SG

\* What can be written is a write.
LEMMA WritesAreWrites ==
  ASSUME AdviceInv, NEW f \in advice.findings, f.writeTool # "none"
  PROVE  f.actionType # "INVESTIGATE"
<1> DEFINE level == advice.level
           cbo == advice.cbo
<1>1. Grounded(f)
  BY DEF AdviceInv
<1>2. /\ f.writeTool = writeToolOf(f.kind, level, f.object, cbo)
      /\ f.actionType = actionTypeFor(f.kind, level, budgetOwnerOf(level, f.object, cbo))
  <2>1. f = Finding(f.kind, f.object, advice.rows[f.object], computeBaselines(advice.rows), level, cbo)
    BY <1>1 DEF Grounded
  <2> QED BY <2>1 DEF Finding
<1>3. CASE f.kind \in Stop
  BY <1>2, <1>3 DEF actionTypeFor, Stop
<1>4. CASE f.kind = "high_roas_underfunded"
  <2>1. budgetActionFor(level, f.object, cbo) # "none"
    BY <1>2, <1>4 DEF writeToolOf, Stop
  <2>2. budgetOwnerOf(level, f.object, cbo) # "unknown"
    BY <2>1 DEF budgetActionFor, budgetOwnerOf
  <2> QED BY <1>2, <1>4, <2>2 DEF actionTypeFor, Stop
<1>5. CASE f.kind \notin Stop /\ f.kind # "high_roas_underfunded"
  BY <1>2, <1>5 DEF writeToolOf
<1> QED BY <1>3, <1>4, <1>5

LEMMA FindingsFinite == ASSUME AdviceInv PROVE IsFiniteSet(advice.findings)
<1> DEFINE K == Kinds
           stated == [x \in Kinds \X Objects |->
                     Finding(x[1], x[2], advice.rows[x[2]], computeBaselines(advice.rows),
                             advice.level, advice.cbo)]
           kindOf == [f \in advice.findings |-> <<f.kind, f.object>>]
<1>1. IsFiniteSet(Kinds)
  <2>1. Kinds = {"zero_conversion_spend"} \cup {"low_roas"} \cup {"high_roas_underfunded"}
                \cup {"cpa_rising"} \cup {"ctr_falling"} \cup {"cpc_rising"} \cup {"cpm_rising"}
                \cup {"improving"} \cup {"active_no_delivery"} \cup {"paused_not_spending"}
    BY DEF Kinds, RANKED_KINDS
  <2> QED BY <2>1, FS_Singleton, FS_Union
<1>2. IsFiniteSet(Kinds \X Objects)
  BY <1>1, FS_Product, EngineAssumption
<1>3. \A f \in advice.findings : f.kind \in Kinds /\ f.object \in Objects /\ f = stated[<<f.kind, f.object>>]
  BY DEF AdviceInv, Grounded
<1> HIDE DEF stated
<1>4. kindOf \in Injection(advice.findings, Kinds \X Objects)
  BY <1>3 DEF Injection, IsInjective
<1> QED BY <1>2, <1>4, FS_Injection

\* A short list never holds what comes after something left off it.
LEMMA ShortListInOrder ==
  ASSUME AdviceInv, NEW limit \in Nat, NEW f \in shown(advice.findings, limit),
         NEW g \in advice.findings, g \notin shown(advice.findings, limit)
  PROVE  ~precedes(g, f)
<1> SUFFICES ASSUME precedes(g, f) PROVE FALSE
  OBVIOUS
<1> DEFINE above(h) == {e \in advice.findings : precedes(e, h)}
<1>1. \A e \in advice.findings : e.stake \in Nat /\ e.object \in Nat
  BY Rows DEF AdviceInv, AdviceTypeOK
<1>2. f \in advice.findings /\ Cardinality(above(f)) < limit /\ ~(Cardinality(above(g)) < limit)
  BY DEF shown
<1>3. above(g) \subseteq above(f)
  BY <1>1, <1>2 DEF precedes
<1>4. IsFiniteSet(above(f)) /\ above(f) \subseteq advice.findings
  BY FindingsFinite, FS_Subset
<1>5. /\ Cardinality(above(g)) \in Nat /\ Cardinality(above(f)) \in Nat
      /\ Cardinality(above(g)) <= Cardinality(above(f))
  <2> HIDE DEF above
  <2> QED BY <1>3, <1>4, FS_Subset, FS_CardinalityType
<1> HIDE DEF above
<1> QED BY <1>2, <1>5

LEMMA AdviceFits == AdviceInv => AdviceIsCoherent
<1> SUFFICES ASSUME AdviceInv PROVE AdviceIsCoherent
  OBVIOUS
<1>1. advisedTo(Stop) \cap advisedTo({"high_roas_underfunded"}) = {}
  BY NeverBoth
<1>2. ASSUME NEW limit \in 1..MAX_FINDINGS, NEW f \in shown(advice.findings, limit),
             NEW g \in advice.findings \ shown(advice.findings, limit)
      PROVE  /\ g.kind \notin {"paused_not_spending", "active_no_delivery", "improving"} =>
                  f.kind \in RANKED_KINDS
             /\ f.kind \in RANKED_KINDS /\ g.kind \in RANKED_KINDS => f.stake >= g.stake
  <2>1. f \in advice.findings /\ ~precedes(g, f) /\ g.kind \in Kinds
    <3>1. limit \in Nat
      BY DEF MAX_FINDINGS
    <3> QED BY <3>1, ShortListInOrder DEF shown, AdviceInv, Grounded
  <2>2. f.stake \in Nat /\ g.stake \in Nat
    BY <2>1 DEF AdviceInv, AdviceTypeOK
  <2> QED BY <2>1, <2>2 DEF precedes, Kinds
<1> QED BY <1>1, <1>2, SomeEarnerStays, RoomToShift, WritesAreWrites DEF AdviceIsCoherent

\* Whatever the rows of an account are, and of however many objects, the advice
\* on them hangs together (analyze of decision-engine.ts).
THEOREM AdviceFitsTogether == AdviceSpec => []AdviceIsCoherent
<1>1. AdviceInv /\ [analyze]_adviceVars => AdviceInv'
  BY AdviceStep
<1> QED BY <1>1, AdviceInitially, AdviceFits, PTL DEF AdviceSpec

-----------------------------------------------------------------------------
(* The review: what PerformanceReview says of the rows the advice is about. *)
LEMMA ReadingsOf ==
  ASSUME NEW m
  PROVE  /\ reading(m, "purchases") = amount(m.purchases)
         /\ reading(m, "purchaseValue") = amount(m.value)
         /\ reading(m, "conversionRate") = ratio(m.purchases, m.clicks)
         /\ reading(m, "averageOrderValue") = ratio(m.value, m.purchases)
         /\ \A k \in RateNames : reading(m, k) = rate(m, k)
BY DEF reading, RateNames

-----------------------------------------------------------------------------
(* One row, m now and p before, against the baselines b.                    *)
\* Who returns more than the account, and sold something, is not weak.
LEMMA WellOffIsNotWeak ==
  ASSUME NEW m \in Reports, NEW b, b \in [spend : Nat, purchases : Nat, value : Amount],
         judgedByReturn(m, b), aboveHalves(rate(m, "roas"), accountRoas(b), 3),
         orZero(m.purchases) > 0
  PROVE  weaknessesOf(m, b) = {}
<1> DEFINE X == rate(m, "roas")[1] * b.spend
           Y == b.value * rate(m, "roas")[2]
<1>1. /\ X \in Nat /\ Y \in Nat /\ 2 * X > 3 * Y
      /\ lower(rate(m, "roas"), accountRoas(b)) <=> X < Y
      /\ belowHalves(rate(m, "roas"), accountRoas(b), 1) <=> 2 * X < Y
  BY ReturnCompared
<1>2. ~(X < Y) /\ ~(2 * X < Y)
  <2> HIDE DEF X, Y
  <2> QED BY <1>1
<1>3. paysForItself(m, b) /\ ~belowHalves(rate(m, "roas"), accountRoas(b), 1)
  BY <1>1, <1>2 DEF paysForItself
<1>4. orZero(m.purchases) # 0
  OBVIOUS
<1> QED BY <1>3, <1>4 DEF weaknessesOf

\* Who spends, and is thin in one respect at most, can be judged.
LEMMA Judged ==
  ASSUME NEW m \in Reports, NEW b, b \in [spend : Nat, purchases : Nat, value : Amount],
         orZero(m.spend) > 0,
         20 * orZero(m.spend) >= b.spend \/ orZero(m.purchases) >= MIN_PURCHASES_FOR_HIGH_CONFIDENCE
  PROVE  sufficiencyOf(m, b) # "insufficient"
<1> DEFINE thin == {x \in {"spend", "purchases"} :
                     \/ x = "spend" /\ 20 * orZero(m.spend) < b.spend
                     \/ x = "purchases" /\ orZero(m.purchases) < MIN_PURCHASES_FOR_HIGH_CONFIDENCE}
<1>1. orZero(m.spend) \in Nat /\ orZero(m.purchases) \in Nat
  BY Cleared DEF Reports
<1>2. thin = {} \/ thin = {"spend"} \/ thin = {"purchases"}
  BY <1>1 DEF MIN_PURCHASES_FOR_HIGH_CONFIDENCE
<1>3. Cardinality(thin) \in {0, 1}
  <2> HIDE DEF thin
  <2> QED BY <1>2, FS_EmptySet, FS_Singleton
<1>4. sufficiencyOf(m, b) = CASE orZero(m.spend) = 0 \/ Cardinality(thin) = 2 -> "insufficient"
                              [] orZero(m.spend) > 0 /\ Cardinality(thin) = 1 -> "limited"
                              [] OTHER -> "sufficient"
  BY DEF sufficiencyOf
<1> HIDE DEF thin
<1>5. ~(orZero(m.spend) = 0 \/ Cardinality(thin) = 2)
  BY <1>1, <1>3
<1>6. sufficiencyOf(m, b) \in {"limited", "sufficient"}
  BY <1>4, <1>5
<1> QED BY <1>6

\* What is to be stopped is weak, and can be judged.
LEMMA StoppedIsWeak ==
  ASSUME NEW m \in Reports, NEW b, b \in [spend : Nat, purchases : Nat, value : Amount],
         zeroConversionSpend(m, b) \/ lowRoas(m, b)
  PROVE  weaknessesOf(m, b) # {} /\ sufficiencyOf(m, b) # "insufficient"
<1>1. orZero(m.spend) \in Nat /\ material(orZero(m.spend), b)
  BY Cleared DEF zeroConversionSpend, lowRoas, Reports
<1>2. orZero(m.spend) > 0 /\ 20 * orZero(m.spend) >= b.spend
  BY <1>1 DEF material
<1>3. CASE zeroConversionSpend(m, b)
  <2>1. orZero(m.purchases) = 0
    BY <1>3 DEF zeroConversionSpend, orZero, Null
  <2>2. "zero_conversion_spend" \in weaknessesOf(m, b)
    BY <1>2, <1>3, <2>1 DEF zeroConversionSpend, weaknessesOf
  <2> QED BY <1>2, <2>2, Judged
<1>4. CASE lowRoas(m, b)
  <2>1. "roas_below_account" \in weaknessesOf(m, b)
    BY <1>4, ReturnJudged DEF lowRoas, weaknessesOf
  <2> QED BY <1>2, <2>1, Judged
<1> QED BY <1>3, <1>4

\* What is to be grown is not weak; it is strong once its purchases suffice.
LEMMA GrownIsStrong ==
  ASSUME NEW m \in Reports, NEW b, b \in [spend : Nat, purchases : Nat, value : Amount],
         highRoasUnderfunded(m, b)
  PROVE  /\ weaknessesOf(m, b) = {}
         /\ m.purchases >= MIN_PURCHASES_FOR_HIGH_CONFIDENCE =>
              isStrong(m, b) /\ sufficiencyOf(m, b) # "insufficient"
<1>1. judgedByReturn(m, b) /\ aboveHalves(rate(m, "roas"), accountRoas(b), 3)
  BY ReturnJudged DEF highRoasUnderfunded
<1>2. m.purchases > 0 /\ orZero(m.purchases) = m.purchases /\ orZero(m.spend) > 0
  BY DEF highRoasUnderfunded, converts, orZero, Null
<1>3. weaknessesOf(m, b) = {}
  BY <1>1, <1>2, WellOffIsNotWeak
<1> QED BY <1>1, <1>2, <1>3, Judged DEF isStrong

-----------------------------------------------------------------------------
(* What moved for the advice, by a fifth or more, moved for the review.     *)
LEMMA Cross ==
  ASSUME NEW x, NEW y, x[1] \in Nat, x[2] \in Nat, y[1] \in Nat, y[2] \in Nat, y[1] # 0, x[2] > 0
  PROVE  /\ percentUp(x, y, MATERIAL_CHANGE_PCT) => rises(x, y)
         /\ percentDown(x, y, MATERIAL_CHANGE_PCT) => falls(x, y)
<1> DEFINE A == x[1] * y[2]
           P == y[1] * x[2]
<1>1. A \in Nat /\ P \in Nat /\ (20 * y[1]) * x[2] = 20 * P /\ (1995 * y[1]) * x[2] = 1995 * P
  BY Products
<1>2. P > 0
  BY Products
<1>3. /\ percentUp(x, y, MATERIAL_CHANGE_PCT) => 100 * (A - P) >= 20 * P
      /\ percentDown(x, y, MATERIAL_CHANGE_PCT) => 100 * (P - A) >= 20 * P
      /\ 10000 * (A - P) >= 1995 * P => rises(x, y)
      /\ 10000 * (P - A) > 1995 * P => falls(x, y)
  BY <1>1 DEF percentUp, percentDown, rises, falls, MATERIAL_CHANGE_PCT
<1> HIDE DEF A, P
<1> QED BY <1>1, <1>2, <1>3

LEMMA MovedForBoth ==
  ASSUME NEW m \in Reports, NEW p \in Reports, NEW k \in RateNames
  PROVE  /\ moved(m, p, k, percentUp) => rises(reading(m, k), reading(p, k))
         /\ moved(m, p, k, percentDown) => falls(reading(m, k), reading(p, k))
         /\ moved(m, p, k, percentUp) \/ moved(m, p, k, percentDown) =>
              NoRate \notin {reading(m, k), reading(p, k)} /\ p # Absent
<1>1. reading(m, k) = rate(m, k) /\ reading(p, k) = rate(p, k)
  BY ReadingsOf
<1> SUFFICES ASSUME comparable(rate(m, k), rate(p, k))
             PROVE  /\ percentUp(rate(m, k), rate(p, k), MATERIAL_CHANGE_PCT) =>
                         rises(rate(m, k), rate(p, k))
                    /\ percentDown(rate(m, k), rate(p, k), MATERIAL_CHANGE_PCT) =>
                         falls(rate(m, k), rate(p, k))
                    /\ NoRate \notin {rate(m, k), rate(p, k)} /\ p # Absent
  BY <1>1 DEF moved
<1>2. rate(m, k) # NoRate /\ rate(p, k) # NoRate /\ rate(p, k)[1] # 0
  BY DEF comparable
<1>3. p # Absent
  BY <1>2, NothingReported
<1> QED BY <1>2, <1>3, RateTyped, Cross DEF Fraction

LEMMA TrendsAgree ==
  ASSUME NEW m \in Reports, NEW p \in Reports, NEW st, NEW b
  PROVE  LET found == findingsForRow(m, st, p, b)
             worse == deteriorationSignals(m, p)
             better == improvementSignals(m, p)
             enough == \E q \in {m, p} : orZero(q.purchases) >= MIN_PURCHASES_FOR_HIGH_CONFIDENCE
         IN  /\ "ctr_falling" \in found => "ctr" \in worse
             /\ enough /\ "cpa_rising" \in found => worse # {} /\ p # Absent
             /\ enough /\ "improving" \in found => better # {} /\ p # Absent
<1> DEFINE found == findingsForRow(m, st, p, b)
<1>1. /\ "ctr_falling" \in found => moved(m, p, "ctr", percentDown)
      /\ "cpa_rising" \in found => moved(m, p, "costPerPurchase", percentUp)
      /\ "improving" \in found => moved(m, p, "roas", percentUp)
  <2>1. \A k \in {"ctr_falling", "cpa_rising", "improving"} : k \in found => k \in trends(m, p)
    BY DEF findingsForRow
  <2> QED BY <2>1 DEF trends
<1> HIDE DEF found
<1>2. ASSUME "ctr_falling" \in found PROVE "ctr" \in deteriorationSignals(m, p)
  <2>1. "ctr" \in HigherIsBetter /\ "ctr" \notin PurchaseBound /\ "ctr" \in RateNames
    BY DEF HigherIsBetter, PurchaseBound, RateNames
  <2>2. moves(m, p, "ctr") /\ falls(reading(m, "ctr"), reading(p, "ctr"))
    BY <1>1, <1>2, <2>1, MovedForBoth DEF moves, enoughPurchases
  <2> QED BY <2>1, <2>2 DEF deteriorationSignals
<1>3. ASSUME "cpa_rising" \in found,
             \E q \in {m, p} : orZero(q.purchases) >= MIN_PURCHASES_FOR_HIGH_CONFIDENCE
      PROVE  "costPerPurchase" \in deteriorationSignals(m, p) /\ p # Absent
  <2>1. "costPerPurchase" \in LowerIsBetter /\ "costPerPurchase" \in RateNames
    BY DEF LowerIsBetter, RateNames
  <2>2. /\ moves(m, p, "costPerPurchase") /\ p # Absent
        /\ rises(reading(m, "costPerPurchase"), reading(p, "costPerPurchase"))
    BY <1>1, <1>3, <2>1, MovedForBoth DEF moves, enoughPurchases
  <2> QED BY <2>1, <2>2 DEF deteriorationSignals
<1>4. ASSUME "improving" \in found,
             \E q \in {m, p} : orZero(q.purchases) >= MIN_PURCHASES_FOR_HIGH_CONFIDENCE
      PROVE  "roas" \in improvementSignals(m, p) /\ p # Absent
  <2>1. "roas" \in HigherIsBetter /\ "roas" \in RateNames
    BY DEF HigherIsBetter, RateNames
  <2>2. moves(m, p, "roas") /\ rises(reading(m, "roas"), reading(p, "roas")) /\ p # Absent
    BY <1>1, <1>4, <2>1, MovedForBoth DEF moves, enoughPurchases
  <2> QED BY <2>1, <2>2 DEF improvementSignals
<1> QED BY <1>2, <1>3, <1>4 DEF found

LEMMA TrendTold ==
  ASSUME NEW p, p # Absent, NEW worse, NEW better
  PROVE  /\ worse # {} => trend(p, worse, better) \in {"deteriorating", "mixed"}
         /\ better # {} => trend(p, worse, better) \in {"improving", "mixed"}
<1>1. CASE worse # {} /\ better # {}
  BY <1>1 DEF trend
<1>2. CASE worse # {} /\ better = {}
  BY <1>2 DEF trend
<1>3. CASE worse = {} /\ better # {}
  BY <1>3 DEF trend
<1> QED BY <1>1, <1>2, <1>3

pastOf(o) == IF o = 1 THEN review.before ELSE Absent
statusOf(o) == IF o = 1 THEN review.status ELSE "ACTIVE"

ReviewInv ==
  /\ ReviewTypeOK
  /\ review.pc = "done" =>
       \A o \in Objects : review.objects[o] =
         reviewRow(review.rows[o], pastOf(o), statusOf(o), computeBaselines(review.rows))

LEMMA ReviewInitially == ReviewInit => ReviewInv
<1>1. (CHOOSE m \in Metrics : TRUE) \in Metrics
  BY EngineAssumption
<1> QED BY <1>1 DEF ReviewInit, ReviewInv, ReviewTypeOK

LEMMA ReviewStep == ASSUME ReviewInv, [reviewPerformance]_reviewVars PROVE ReviewInv'
<1>1. CASE UNCHANGED reviewVars
  BY <1>1 DEF reviewVars, ReviewInv, ReviewTypeOK, pastOf, statusOf
<1>2. CASE reviewPerformance
  <2>1. PICK rows \in [Objects -> Metrics], p \in Earlier, st \in ReviewStatuses :
          review' = [pc |-> "done", rows |-> rows, before |-> p, status |-> st,
                     objects |-> [o \in Objects |->
                       IF o = 1 THEN reviewRow(rows[o], p, st, computeBaselines(rows))
                       ELSE reviewRow(rows[o], Absent, "ACTIVE", computeBaselines(rows))]]
    BY <1>2 DEF reviewPerformance
  <2>2. ReviewTypeOK'
    BY <2>1 DEF ReviewTypeOK
  <2>3. \A o \in Objects : review'.objects[o] =
          reviewRow(rows[o], IF o = 1 THEN p ELSE Absent, IF o = 1 THEN st ELSE "ACTIVE",
                    computeBaselines(rows))
    BY <2>1
  <2>4. /\ review'.rows = rows /\ review'.before = p /\ review'.status = st
    BY <2>1
  <2> QED BY <2>2, <2>3, <2>4 DEF ReviewInv, pastOf, statusOf
<1> QED BY <1>1, <1>2

LEMMA RowStrong ==
  ASSUME NEW m, NEW p, NEW st, NEW b, NEW it, it = reviewRow(m, p, st, b)
  PROVE  it.strong = (it.excludedBecause = "none" /\ isStrong(m, b))
<1>1. reviewRow(m, p, st, b).strong = (exclusionOf(m, st) = "none" /\ isStrong(m, b))
  BY Zenon DEF reviewRow
<1>2. reviewRow(m, p, st, b).excludedBecause = exclusionOf(m, st)
  BY DEF reviewRow
<1> QED BY <1>1, <1>2, Zenon

LEMMA ReviewFits == ReviewInv => ReviewIsCoherent
<1> SUFFICES ASSUME ReviewInv, review.pc = "done" PROVE ReviewIsCoherent
  BY DEF ReviewIsCoherent
<1> DEFINE b == computeBaselines(review.rows)
<1>1. /\ review.rows \in [Objects -> Reports] /\ b \in [spend : Nat, purchases : Nat, value : Amount]
      /\ \A o \in Objects : review.rows[o] \in Reports /\ pastOf(o) \in Reports
  <2>1. review.rows \in [Objects -> Reports] /\ review.before \in Reports
    BY EngineAssumption, NothingReported DEF ReviewInv, ReviewTypeOK
  <2> QED BY <2>1, BaselinesCover, NothingReported DEF pastOf
<1>2. ASSUME NEW o \in Objects
      PROVE  LET it == review.objects[o]
                 m == review.rows[o]
                 p == pastOf(o)
             IN  /\ it.sufficiency = sufficiencyOf(m, b)
                 /\ it.worse = deteriorationSignals(m, p)
                 /\ it.trend = trend(p, deteriorationSignals(m, p), improvementSignals(m, p))
                 /\ it.excludedBecause = "none" => it.weaknesses = weaknessesOf(m, b)
                 /\ it.excludedBecause # "none" => it.weaknesses = {}
                 /\ it.strong <=> it.excludedBecause = "none" /\ isStrong(m, b)
  <2>1. review.objects[o] = reviewRow(review.rows[o], pastOf(o), statusOf(o), b)
    BY DEF ReviewInv
  <2> HIDE DEF b
  <2>2. review.objects[o].strong = (review.objects[o].excludedBecause = "none" /\ isStrong(review.rows[o], b))
    BY <2>1, RowStrong
  <2>3. LET it == review.objects[o]
            m == review.rows[o]
            p == pastOf(o)
        IN  /\ it.sufficiency = sufficiencyOf(m, b)
            /\ it.worse = deteriorationSignals(m, p)
            /\ it.trend = trend(p, deteriorationSignals(m, p), improvementSignals(m, p))
            /\ it.excludedBecause = "none" => it.weaknesses = weaknessesOf(m, b)
            /\ it.excludedBecause # "none" => it.weaknesses = {}
    BY <2>1 DEF reviewRow
  <2> QED BY <2>2, <2>3, Zenon
<1> HIDE DEF b
<1>3. strong \cap (underperforming \cup insufficientData) = {}
  <2> SUFFICES ASSUME NEW o \in strong, o \in underperforming PROVE FALSE
    BY DEF strong, insufficientData
  <2>1. o \in Objects /\ review.objects[o].strong /\ review.objects[o].weaknesses # {}
    BY DEF strong, underperforming, judged, active
  <2> DEFINE m == review.rows[o]
  <2>2. isStrong(m, b) /\ weaknessesOf(m, b) # {} /\ m \in Reports
    BY <1>1, <1>2, <2>1
  <2> HIDE DEF m
  <2>3. orZero(m.purchases) > 0
    BY <2>2, Cleared DEF isStrong, MIN_PURCHASES_FOR_HIGH_CONFIDENCE, Reports
  <2> QED BY <1>1, <2>2, <2>3, WellOffIsNotWeak DEF isStrong
<1>4. ASSUME NEW o \in Objects, review.objects[o].excludedBecause = "none"
      PROVE  LET it == review.objects[o]
                 m == review.rows[o]
                 p == pastOf(o)
                 found == findingsForRow(m, statusOf(o), p, b)
                 enough == \E q \in {m, p} : orZero(q.purchases) >= MIN_PURCHASES_FOR_HIGH_CONFIDENCE
             IN  /\ found \cap Stop # {} => o \in underperforming
                 /\ "high_roas_underfunded" \in found =>
                      /\ o \notin underperforming
                      /\ m.purchases >= MIN_PURCHASES_FOR_HIGH_CONFIDENCE => o \in strong
                 /\ "ctr_falling" \in found => "ctr" \in it.worse
                 /\ enough /\ "cpa_rising" \in found => it.trend \in {"deteriorating", "mixed"}
                 /\ enough /\ "improving" \in found => it.trend \in {"improving", "mixed"}
  <2> DEFINE it == review.objects[o]
             m == review.rows[o]
             p == pastOf(o)
             found == findingsForRow(m, statusOf(o), p, b)
  <2>1. /\ m \in Reports /\ p \in Reports
        /\ it.sufficiency = sufficiencyOf(m, b)
        /\ it.worse = deteriorationSignals(m, p)
        /\ it.trend = trend(p, deteriorationSignals(m, p), improvementSignals(m, p))
        /\ it.weaknesses = weaknessesOf(m, b)
        /\ it.strong <=> isStrong(m, b)
    BY <1>1, <1>2, <1>4
  <2>2. o \in active
    BY <1>4 DEF active
  <2> HIDE DEF m, p
  <2>3. ASSUME found \cap Stop # {} PROVE o \in underperforming
    <3>1. zeroConversionSpend(m, b) \/ lowRoas(m, b)
      BY <2>3, FindingsTold DEF Stop
    <3> QED BY <1>1, <2>1, <2>2, <3>1, StoppedIsWeak DEF underperforming, judged
  <2>4. ASSUME "high_roas_underfunded" \in found
        PROVE  /\ o \notin underperforming
               /\ m.purchases >= MIN_PURCHASES_FOR_HIGH_CONFIDENCE => o \in strong
    <3>1. highRoasUnderfunded(m, b)
      BY <2>4, FindingsTold
    <3> QED BY <1>1, <2>1, <2>2, <3>1, GrownIsStrong DEF underperforming, strong, judged
  <2>5. /\ "ctr_falling" \in found => "ctr" \in it.worse
        /\ \A q \in {m, p} : orZero(q.purchases) >= MIN_PURCHASES_FOR_HIGH_CONFIDENCE =>
             /\ "cpa_rising" \in found => it.trend \in {"deteriorating", "mixed"}
             /\ "improving" \in found => it.trend \in {"improving", "mixed"}
    <3> HIDE DEF it
    <3> QED BY <2>1, TrendsAgree, TrendTold
  <2> QED BY <2>3, <2>4, <2>5 DEF m, p
<1>5. \A o \in Objects : foundIn(o) = findingsForRow(review.rows[o], statusOf(o), pastOf(o), b)
  BY DEF foundIn, pastOf, statusOf, b
<1> QED BY <1>3, <1>4, <1>5 DEF ReviewIsCoherent, pastOf

\* The review of any rows contradicts neither itself nor the advice on them
\* (reviewPerformance, findingsForRow of decision-engine.ts).
THEOREM ReviewAndAdviceAgree == ReviewSpec => []ReviewIsCoherent
<1>1. ReviewInv /\ [reviewPerformance /\ UNCHANGED adviceVars]_reviewVars => ReviewInv'
  BY ReviewStep
<1> QED BY <1>1, ReviewInitially, ReviewFits, PTL DEF ReviewSpec

-----------------------------------------------------------------------------
(* The diagnosis: four factors, and the parts of the children.              *)
\* What is below another by way of a third.
LEMMA Through ==
  ASSUME NEW A \in Nat, NEW D \in Nat, NEW E \in Nat, NEW a \in Nat, NEW d \in Nat, NEW e \in Nat,
         d > 0, a * D <= A * d, d * E <= D * e
  PROVE  a * E <= A * e
<1>1. (a * D) * e <= (A * d) * e
  BY Products
<1>2. (d * E) * a <= (D * e) * a
  BY Products
<1>3. (a * D) * e = (D * e) * a /\ (A * d) * e = (A * e) * d /\ (d * E) * a = (a * E) * d
  BY Products
<1>4. (a * E) * d <= (A * e) * d
  <2>1. (a * D) * e \in Int /\ (A * e) * d \in Int /\ (a * E) * d \in Int
    BY Products
  <2> QED BY <1>1, <1>2, <1>3, <2>1
<1>5. a * E \in Int /\ A * e \in Int
  BY Products
<1> QED BY <1>4, <1>5, Cancel

\* The figures of a whole.
Figures(w) ==
  /\ w.spend \in Nat /\ w.impressions \in Nat /\ w.clicks \in Nat /\ w.purchases \in Nat
  /\ w.value \in Amount
Sold(w) == w.spend > 0 /\ w.impressions > 0 /\ w.clicks > 0 /\ w.purchases > 0 /\ w.value > 0

LEMMA WholeTyped ==
  ASSUME NEW rows \in [Objects -> Reports], NEW headline
  PROVE  Figures(Whole(rows, headline))
<1>1. \A o \in Objects : /\ rows[o].spend \in Amount /\ rows[o].impressions \in Amount
                         /\ rows[o].clicks \in Amount /\ rows[o].purchases \in Amount
  BY ReportTyped
<1>2. /\ [o \in Objects |-> orZero(rows[o].spend)] \in [Objects -> Nat]
      /\ [o \in Objects |-> orZero(rows[o].impressions)] \in [Objects -> Nat]
      /\ [o \in Objects |-> orZero(rows[o].clicks)] \in [Objects -> Nat]
      /\ [o \in Objects |-> orZero(rows[o].purchases)] \in [Objects -> Nat]
  BY <1>1, Cleared
<1>3. computeBaselines(rows).value \in Amount
  BY BaselinesCover
<1>4. /\ Whole(rows, headline).spend = Total([o \in Objects |-> orZero(rows[o].spend)])
      /\ Whole(rows, headline).impressions = Total([o \in Objects |-> orZero(rows[o].impressions)])
      /\ Whole(rows, headline).clicks = Total([o \in Objects |-> orZero(rows[o].clicks)])
      /\ Whole(rows, headline).purchases = Total([o \in Objects |-> orZero(rows[o].purchases)])
      /\ Whole(rows, headline).value = computeBaselines(rows).value
  BY DEF Whole
<1>5. \A x \in [Objects -> Nat] : Total(x) \in Nat
  BY TotalCovers
<1> QED BY <1>2, <1>3, <1>4, <1>5 DEF Figures

\* What Meta reports of the whole is beside its figures.
LEMMA FiguresApart ==
  ASSUME NEW rows, NEW headline
  PROVE  LET w == Whole(rows, headline)
             u == Whole(rows, NoRate)
         IN  /\ w.spend = u.spend /\ w.impressions = u.impressions /\ w.clicks = u.clicks
             /\ w.purchases = u.purchases /\ w.value = u.value
             /\ derived(w, "roas") = derived(u, "roas")
<1>1. LET w == Whole(rows, headline)
          u == Whole(rows, NoRate)
      IN  /\ w.spend = u.spend /\ w.impressions = u.impressions /\ w.clicks = u.clicks
          /\ w.purchases = u.purchases /\ w.value = u.value
  BY DEF Whole
<1> QED BY <1>1, DerivedOf

\* The four factors, as fractions, of what sold.
LEMMA FactorsOf ==
  ASSUME NEW w, Figures(w)
  PROVE  /\ Sold(w) => /\ reading(w, "cpm") = <<w.spend, w.impressions>>
                       /\ reading(w, "ctr") = <<w.clicks, w.impressions>>
                       /\ reading(w, "conversionRate") = <<w.purchases, w.clicks>>
                       /\ reading(w, "averageOrderValue") = <<w.value, w.purchases>>
                       /\ derived(w, "roas") = <<w.value, w.spend>>
                       /\ w.value \in Nat
         /\ (\A f \in Factors : positive(reading(w, f))) <=> Sold(w)
<1>1. /\ reading(w, "cpm") = ratio(w.spend, w.impressions)
      /\ reading(w, "ctr") = ratio(w.clicks, w.impressions)
      /\ reading(w, "conversionRate") = ratio(w.purchases, w.clicks)
      /\ reading(w, "averageOrderValue") = ratio(w.value, w.purchases)
      /\ derived(w, "roas") = ratio(w.value, w.spend)
  BY RatesOf, DerivedOf, ReadingsOf DEF RateNames
<1>2. /\ w.spend \in Amount /\ w.impressions \in Amount /\ w.clicks \in Amount
      /\ w.purchases \in Amount /\ w.value \in Amount
  BY DEF Figures, Amount
<1>3. \A x, y \in Amount : positive(ratio(x, y)) <=> x > 0 /\ y > 0
  BY DEF ratio, positive, NoRate, Amount, Null
<1>4. \A x, y \in Amount : x > 0 /\ y > 0 => ratio(x, y) = <<x, y>> /\ x \in Nat
  BY DEF ratio, Amount, Null
<1> HIDE DEF ratio
<1>5. (\A f \in Factors : positive(reading(w, f))) <=>
        /\ positive(reading(w, "cpm")) /\ positive(reading(w, "ctr"))
        /\ positive(reading(w, "conversionRate")) /\ positive(reading(w, "averageOrderValue"))
  BY DEF Factors
<1> QED BY <1>1, <1>2, <1>3, <1>4, <1>5 DEF Sold

\* A return is no lower when none of its factors is to blame.
LEMMA NothingToBlame ==
  ASSUME NEW now, NEW past, Figures(now), Figures(past), Sold(now), Sold(past),
         \A f \in Factors \ {"cpm"} : ~lower(reading(now, f), reading(past, f)),
         ~lower(reading(past, "cpm"), reading(now, "cpm"))
  PROVE  ~lower(derived(now, "roas"), derived(past, "roas"))
<1> DEFINE S == now.spend  I == now.impressions  C == now.clicks  P == now.purchases  V == now.value
           s == past.spend  i == past.impressions  c == past.clicks
           p == past.purchases  v == past.value
<1>1. /\ S \in Nat /\ I \in Nat /\ C \in Nat /\ P \in Nat /\ V \in Nat
      /\ s \in Nat /\ i \in Nat /\ c \in Nat /\ p \in Nat /\ v \in Nat
      /\ s > 0 /\ i > 0 /\ c > 0 /\ p > 0 /\ I > 0
  BY FactorsOf DEF Figures, Sold
<1>2. /\ ~(C * i < c * I) /\ ~(P * c < p * C) /\ ~(V * p < v * P) /\ ~(s * I < S * i)
  BY FactorsOf DEF lower, Factors
<1>3. lower(derived(now, "roas"), derived(past, "roas")) <=> V * s < v * S
  BY FactorsOf DEF lower
<1> HIDE DEF S, I, C, P, V, s, i, c, p, v
<1>4. \A x, y \in Nat : x * y \in Nat
  BY Products
<1>5. c * I <= C * i /\ p * C <= P * c /\ v * P <= V * p /\ S * i <= s * I
  BY <1>1, <1>2, <1>4
<1>6. p * I <= P * i
  BY <1>1, <1>5, Through
<1>7. v * I <= V * i
  BY <1>1, <1>5, <1>6, Through
<1>8. i * S <= I * s
  BY <1>1, <1>5, Products
<1>9. v * S <= V * s
  BY <1>1, <1>7, <1>8, Through
<1> QED BY <1>1, <1>3, <1>4, <1>9

LEMMA SplitExplains ==
  ASSUME NEW now, NEW past, Figures(now), Figures(past)
  PROVE  LET factors == decomposeRoas(now, past) IN
         IF factors.blockedBy = {}
         THEN /\ lower(derived(now, "roas"), derived(past, "roas")) => factors.hurt # {}
              /\ lower(derived(past, "roas"), derived(now, "roas")) => factors.helped # {}
         ELSE \E w \in {now, past} : w.value <= 0 \/ 0 \in {w.purchases, w.clicks, w.impressions, w.spend}
<1> DEFINE factors == decomposeRoas(now, past)
           fell == {f \in Factors : lower(reading(now, f), reading(past, f))}
           rose == {f \in Factors : lower(reading(past, f), reading(now, f))}
<1>1. /\ factors.blockedBy = blockedBy(now, past)
      /\ blockedBy(now, past) = {} =>
           /\ factors.hurt = (fell \ {"cpm"}) \cup (rose \cap {"cpm"})
           /\ factors.helped = (rose \ {"cpm"}) \cup (fell \cap {"cpm"})
  BY DEF decomposeRoas
<1>2. blockedBy(now, past) = {} <=> Sold(now) /\ Sold(past)
  BY FactorsOf DEF blockedBy
<1>3. ~Sold(now) \/ ~Sold(past) =>
        \E w \in {now, past} : w.value <= 0 \/ 0 \in {w.purchases, w.clicks, w.impressions, w.spend}
  BY DEF Sold, Figures, Amount, Null
<1>4. ASSUME blockedBy(now, past) = {}
      PROVE  /\ lower(derived(now, "roas"), derived(past, "roas")) => factors.hurt # {}
             /\ lower(derived(past, "roas"), derived(now, "roas")) => factors.helped # {}
  <2>1. Sold(now) /\ Sold(past) /\ "cpm" \in Factors
    BY <1>2, <1>4 DEF Factors
  <2>2. ASSUME factors.hurt = {} PROVE ~lower(derived(now, "roas"), derived(past, "roas"))
    <3>1. /\ \A f \in Factors \ {"cpm"} : ~lower(reading(now, f), reading(past, f))
          /\ ~lower(reading(past, "cpm"), reading(now, "cpm"))
      BY <1>1, <1>4, <2>1, <2>2
    <3> QED BY <2>1, <3>1, NothingToBlame
  <2>3. ASSUME factors.helped = {} PROVE ~lower(derived(past, "roas"), derived(now, "roas"))
    <3>1. /\ \A f \in Factors \ {"cpm"} : ~lower(reading(past, f), reading(now, f))
          /\ ~lower(reading(now, "cpm"), reading(past, "cpm"))
      BY <1>1, <1>4, <2>1, <2>3
    <3> QED BY <2>1, <3>1, NothingToBlame
  <2> QED BY <2>2, <2>3
<1> HIDE DEF factors
<1> QED BY <1>1, <1>2, <1>3, <1>4 DEF factors

DiagnosisInv ==
  /\ DiagnosisTypeOK
  /\ diagnosis.pc = "done" =>
       \E headline, headlineBefore :
         LET whole == Whole(diagnosis.now, headline)
             past == Whole(diagnosis.before, headlineBefore)
         IN  /\ diagnosis.factors = decomposeRoas(whole, past)
             /\ \A o \in Objects : diagnosis.contributions[o] =
                  attribute(diagnosis.now[o], diagnosis.before[o], whole.purchases - past.purchases, whole)

LEMMA DiagnosisInitially == DiagnosisInit => DiagnosisInv
<1>1. (CHOOSE m \in Metrics : TRUE) \in Metrics
  BY EngineAssumption
<1> QED BY <1>1 DEF DiagnosisInit, DiagnosisInv, DiagnosisTypeOK

LEMMA DiagnosisStep == ASSUME DiagnosisInv, [diagnose]_diagnosisVars PROVE DiagnosisInv'
<1>1. CASE UNCHANGED diagnosisVars
  BY <1>1 DEF diagnosisVars, DiagnosisInv, DiagnosisTypeOK, overallConfidence
<1>2. CASE diagnose
  <2>1. PICK now \in [Objects -> Metrics], past \in [Objects -> Earlier], headline \in HeadlineReports :
          LET w == Whole(now, headline[1])
              u == Whole(past, headline[2])
          IN  diagnosis' = [pc |-> "done", now |-> now, before |-> past,
                factors |-> decomposeRoas(w, u),
                contributions |-> [o \in Objects |->
                  attribute(now[o], past[o], w.purchases - u.purchases, w)]]
    BY <1>2 DEF diagnose
  <2> DEFINE w == Whole(now, headline[1])
             u == Whole(past, headline[2])
  <2>2. /\ diagnosis'.pc = "done" /\ diagnosis'.now = now /\ diagnosis'.before = past
        /\ diagnosis'.factors = decomposeRoas(w, u)
        /\ \A o \in Objects : diagnosis'.contributions[o] =
             attribute(now[o], past[o], w.purchases - u.purchases, w)
    BY <2>1
  <2>3. overallConfidence' \in {"low", "medium", "high"}
    BY DEF overallConfidence
  <2>4. DiagnosisTypeOK'
    BY <2>2, <2>3 DEF DiagnosisTypeOK
  <2> QED BY <2>2, <2>4 DEF DiagnosisInv
<1> QED BY <1>1, <1>2

LEMMA Attributed ==
  ASSUME NEW m, NEW p, NEW change, NEW whole
  PROVE  /\ attribute(m, p, change, whole).known = (p # Absent)
         /\ attribute(m, p, change, whole).deltaPurchases =
              IF p # Absent THEN orZero(m.purchases) - orZero(p.purchases) ELSE 0
         /\ attribute(m, p, change, whole).deltaSpend = orZero(m.spend) - orZero(p.spend)
         /\ p # Absent /\ change # 0 => attribute(m, p, change, whole).share =
              <<orZero(m.purchases) - orZero(p.purchases), change>>
         /\ p # Absent => attribute(m, p, change, whole).movedWithScope =
              ((orZero(m.purchases) - orZero(p.purchases)) * change > 0)
<1> DEFINE c == attribute(m, p, change, whole)
<1>1. c.known = (p # Absent)
  BY Zenon DEF attribute
<1>2. c.deltaPurchases = IF p # Absent THEN orZero(m.purchases) - orZero(p.purchases) ELSE 0
  BY Zenon DEF attribute
<1>3. c.deltaSpend = orZero(m.spend) - orZero(p.spend)
  BY Zenon DEF attribute
<1>4. p # Absent /\ change # 0 => c.share = <<orZero(m.purchases) - orZero(p.purchases), change>>
  BY DEF attribute
<1>5. p # Absent => c.movedWithScope = ((orZero(m.purchases) - orZero(p.purchases)) * change > 0)
  BY Zenon DEF attribute
<1> HIDE DEF c
<1> QED BY <1>1, <1>2, <1>3, <1>4, <1>5, Zenon DEF c

\* Where no part of a change is above c, the change is not above all of that.
LEMMA ChangeShared ==
  ASSUME NEW x \in [Objects -> Nat], NEW y \in [Objects -> Nat], NEW c \in Int,
         \A o \in Objects : x[o] - y[o] <= c
  PROVE  Total(x) - Total(y) <= Size * c
<1>1. x \in [Objects -> Int] /\ y \in [Objects -> Int]
  OBVIOUS
<1> DEFINE z == Combined(1, x, -1, y)
<1>2. z \in [Objects -> Int] /\ Total(z) = 1 * Total(x) + (-1) * Total(y)
  BY <1>1, TotalLinear
<1>3. \A o \in Objects : z[o] <= c
  BY DEF Combined
<1> HIDE DEF z
<1>4. Total(z) <= Size * c
  BY <1>2, <1>3, TotalBounded
<1> QED BY <1>1, <1>2, <1>4, TotalTyped

\* The parts are the whole change.
LEMMA PartsOfChange ==
  ASSUME NEW x \in [Objects -> Nat], NEW y \in [Objects -> Nat], NEW change,
         change = Total(x) - Total(y), change # 0
  PROVE  /\ \E o \in Objects : (x[o] - y[o]) * change > 0
         /\ \A c \in Nat : (\A o \in Objects : x[o] - y[o] <= c /\ y[o] - x[o] <= c) =>
              change <= Size * c /\ 0 - change <= Size * c
<1>1. change \in Int /\ Total(x) \in Int /\ Total(y) \in Int
  BY TotalTyped
<1>2. \A c \in Nat : (\A o \in Objects : x[o] - y[o] <= c /\ y[o] - x[o] <= c) =>
              change <= Size * c /\ 0 - change <= Size * c
  BY <1>1, ChangeShared
<1>3. \A a, b \in Int : (a > 0 /\ b > 0) \/ (a < 0 /\ b < 0) => a * b > 0
  OBVIOUS
<1>4. Size * 0 = 0
  BY Rows
<1>5. ASSUME change > 0 PROVE \E o \in Objects : (x[o] - y[o]) * change > 0
  <2>1. PICK o \in Objects : x[o] - y[o] > 0
    BY <1>1, <1>4, <1>5, ChangeShared
  <2> QED BY <1>1, <1>3, <1>5, <2>1
<1>6. ASSUME change < 0 PROVE \E o \in Objects : (x[o] - y[o]) * change > 0
  <2>1. PICK o \in Objects : y[o] - x[o] > 0
    BY <1>1, <1>4, <1>6, ChangeShared
  <2>2. x[o] - y[o] \in Int /\ x[o] - y[o] < 0
    BY <2>1
  <2> QED BY <1>1, <1>3, <1>6, <2>2
<1> QED BY <1>1, <1>2, <1>5, <1>6

\* Orders of rates are orders.
LEMMA Between ==
  ASSUME NEW x, NEW y, NEW z, Fraction(x), Fraction(y), Fraction(z), ~lower(y, x), ~lower(z, y)
  PROVE  ~lower(z, x)
<1> DEFINE a == x[1]  A == x[2]  d == y[1]  D == y[2]  e == z[1]  E == z[2]
<1>1. /\ a \in Nat /\ A \in Nat /\ d \in Nat /\ D \in Nat /\ e \in Nat /\ E \in Nat /\ D > 0
      /\ ~(d * A < a * D) /\ ~(e * D < d * E) /\ (lower(z, x) <=> e * A < a * E)
  BY DEF Fraction, lower
<1> HIDE DEF a, A, d, D, e, E
<1>2. /\ a * D \in Nat /\ d * A \in Nat /\ e * D \in Nat /\ d * E \in Nat /\ e * A \in Nat /\ a * E \in Nat
  BY <1>1, Products
<1>3. a * D <= d * A /\ d * E <= e * D
  BY <1>1, <1>2
<1>4. (a * D) * E <= (d * A) * E /\ (d * E) * A <= (e * D) * A
  BY <1>1, <1>2, <1>3, Products
<1>5. /\ (a * D) * E = (a * E) * D /\ (d * A) * E = (d * E) * A /\ (e * D) * A = (e * A) * D
      /\ (a * E) * D \in Nat /\ (d * E) * A \in Nat /\ (e * A) * D \in Nat
  BY <1>1, <1>2, Products
<1>6. (a * E) * D <= (e * A) * D
  BY <1>4, <1>5
<1>7. a * E <= e * A
  BY <1>1, <1>2, <1>6, Cancel
<1> QED BY <1>1, <1>2, <1>7

\* A rate rises by a fifth, about, to one that is not lower than it raised.
Raised(x) == <<11995 * x[1], 10000 * x[2]>>

LEMMA RaisedOrder ==
  ASSUME NEW x, NEW y, Fraction(x), Fraction(y)
  PROVE  /\ Fraction(Raised(y))
         /\ y[1] # 0 => (rises(x, y) <=> ~lower(x, Raised(y)))
         /\ ~lower(x, y) => ~lower(Raised(x), Raised(y))
         /\ falls(x, y) => lower(x, y)
<1> DEFINE A == x[1] * y[2]
           B == y[1] * x[2]
<1>1. x[1] \in Nat /\ x[2] \in Nat /\ y[1] \in Nat /\ y[2] \in Nat /\ y[2] > 0
  BY DEF Fraction
<1>2. Fraction(Raised(y))
  BY <1>1 DEF Raised, Fraction
<1>3. /\ A \in Nat /\ B \in Nat /\ (1995 * y[1]) * x[2] = 1995 * B
      /\ x[1] * (10000 * y[2]) = 10000 * A /\ (11995 * y[1]) * x[2] = 11995 * B
  BY <1>1, Products
<1>4. /\ (11995 * x[1]) * (10000 * y[2]) = 119950000 * A
      /\ (11995 * y[1]) * (10000 * x[2]) = 119950000 * B
  BY <1>1, Products
<1>5. /\ y[1] # 0 => (rises(x, y) <=> 10000 * (A - B) >= 1995 * B)
      /\ falls(x, y) => 10000 * (B - A) > 1995 * B
      /\ lower(x, y) <=> A < B
      /\ lower(x, Raised(y)) <=> 10000 * A < 11995 * B
      /\ lower(Raised(x), Raised(y)) <=> 119950000 * A < 119950000 * B
  BY <1>3, <1>4 DEF rises, falls, lower, Raised
<1> HIDE DEF A, B
<1> QED BY <1>2, <1>3, <1>5

\* What rises still does from a lower rate or to a higher one.
LEMMA RisesFurther ==
  ASSUME NEW x, NEW y, NEW X, NEW Y, Fraction(x), Fraction(y), Fraction(X), Fraction(Y),
         rises(x, y), ~lower(X, x), ~lower(y, Y)
  PROVE  rises(X, Y)
<1>1. /\ x[1] \in Nat /\ x[2] \in Nat /\ y[1] \in Nat /\ y[2] \in Nat
      /\ X[1] \in Nat /\ X[2] \in Nat /\ Y[1] \in Nat /\ Y[2] \in Nat
      /\ x[2] > 0 /\ y[2] > 0 /\ X[2] > 0 /\ Y[2] > 0
  BY DEF Fraction
<1>2. \A a, c \in Nat : (a > 0 /\ c > 0 => a * c > 0) /\ (a = 0 => a * c = 0) /\ a * c \in Nat
  BY Products
<1>3. x[1] > 0
  <2>1. CASE y[1] = 0
    BY <2>1 DEF rises
  <2>2. CASE y[1] # 0 /\ x[1] = 0
    <3>1. ~(x[1] * (10000 * y[2]) < (11995 * y[1]) * x[2])
      <4>1. ~lower(x, Raised(y))
        BY <2>2, RaisedOrder
      <4>2. Raised(y)[1] = 11995 * y[1] /\ Raised(y)[2] = 10000 * y[2]
        BY DEF Raised
      <4> QED BY <4>1, <4>2 DEF lower
    <3>2. 10000 * y[2] \in Nat /\ 11995 * y[1] \in Nat /\ 11995 * y[1] > 0
      BY <1>1, <2>2
    <3> QED BY <1>1, <1>2, <2>2, <3>1, <3>2
  <2> QED BY <1>1, <2>1, <2>2
<1>4. X[1] > 0
  <2>1. ~(X[1] * x[2] < x[1] * X[2])
    BY DEF lower
  <2> QED BY <1>1, <1>2, <1>3, <2>1
<1>5. Y[1] # 0 => y[1] # 0
  <2>1. ~(y[1] * Y[2] < Y[1] * y[2])
    BY DEF lower
  <2> QED BY <1>1, <1>2, <2>1
<1>6. CASE Y[1] = 0
  BY <1>4, <1>6 DEF rises
<1>7. CASE Y[1] # 0
  <2>1. /\ ~lower(x, Raised(y)) /\ ~lower(Raised(y), Raised(Y))
        /\ Fraction(Raised(y)) /\ Fraction(Raised(Y))
    BY <1>5, <1>7, RaisedOrder
  <2>2. ~lower(x, Raised(Y))
    BY <2>1, Between
  <2>3. ~lower(X, Raised(Y))
    BY <2>1, <2>2, Between
  <2> QED BY <1>7, <2>3, RaisedOrder
<1> QED BY <1>6, <1>7

\* What spends more and sells no more has not become a cheaper purchase, and a
\* better return is one of more revenue, where the rates Meta reports of it do
\* not say better than its counters.
LEMMA SpendShifted ==
  ASSUME NEW m \in Reports, NEW p \in Reports,
         orZero(m.spend) - orZero(p.spend) > 0, orZero(m.purchases) - orZero(p.purchases) <= 0
  PROVE  LET better == improvementSignals(m, p)
         IN  /\ /\ atMost(derived(m, "costPerPurchase"), rate(m, "costPerPurchase"))
                /\ atMost(rate(p, "costPerPurchase"), derived(p, "costPerPurchase"))
                => "costPerPurchase" \notin better
             /\ /\ atMost(rate(m, "roas"), derived(m, "roas"))
                /\ atMost(derived(p, "roas"), rate(p, "roas"))
                /\ "roas" \in better
                => "purchaseValue" \in better
<1> DEFINE better == improvementSignals(m, p)
<1>1. /\ m.spend \in Amount /\ m.purchases \in Amount /\ m.value \in Amount
      /\ p.spend \in Amount /\ p.purchases \in Amount /\ p.value \in Amount
  BY ReportTyped
<1>2. /\ orZero(m.spend) \in Nat /\ orZero(p.spend) \in Nat /\ orZero(m.purchases) \in Nat
      /\ orZero(p.purchases) \in Nat
  BY <1>1, Cleared
<1>3. /\ reading(m, "costPerPurchase") = rate(m, "costPerPurchase")
      /\ reading(p, "costPerPurchase") = rate(p, "costPerPurchase")
      /\ reading(m, "roas") = rate(m, "roas") /\ reading(p, "roas") = rate(p, "roas")
      /\ reading(m, "purchaseValue") = amount(m.value) /\ reading(p, "purchaseValue") = amount(p.value)
  BY ReadingsOf DEF RateNames
<1>4. ASSUME atMost(derived(m, "costPerPurchase"), rate(m, "costPerPurchase")),
             atMost(rate(p, "costPerPurchase"), derived(p, "costPerPurchase")),
             "costPerPurchase" \in better
      PROVE  FALSE
  <2> DEFINE x == derived(m, "costPerPurchase")
             y == derived(p, "costPerPurchase")
  <2>1. falls(rate(m, "costPerPurchase"), rate(p, "costPerPurchase"))
    BY <1>3, <1>4 DEF improvementSignals, HigherIsBetter, LowerIsBetter
  <2>2. /\ Fraction(x) /\ Fraction(y)
        /\ Fraction(rate(m, "costPerPurchase")) /\ Fraction(rate(p, "costPerPurchase"))
        /\ ~lower(rate(m, "costPerPurchase"), x) /\ ~lower(y, rate(p, "costPerPurchase"))
    BY <1>4, DerivedTyped, RateTyped DEF atMost, RateNames
  <2>3. /\ x = <<m.spend, m.purchases>> /\ m.spend \in Nat /\ m.purchases \in Nat
        /\ y = <<p.spend, p.purchases>> /\ p.spend \in Nat /\ p.purchases \in Nat
    <3>1. x # NoRate /\ y # NoRate
      BY <1>4 DEF atMost
    <3> QED BY <1>1, <3>1, DerivedOf, RatioTyped
  <2>4. p.spend < m.spend /\ m.purchases <= p.purchases
    BY <2>3 DEF orZero, Null
  <2>5. p.spend * m.purchases <= m.spend * p.purchases
    <3>1. p.spend * m.purchases <= m.spend * m.purchases
      BY <2>3, <2>4, Products
    <3>2. m.purchases * m.spend <= p.purchases * m.spend
      BY <2>3, <2>4, Products
    <3>3. /\ m.purchases * m.spend = m.spend * m.purchases /\ p.purchases * m.spend = m.spend * p.purchases
          /\ p.spend * m.purchases \in Nat /\ m.spend * m.purchases \in Nat /\ m.spend * p.purchases \in Nat
      BY <2>3, Products
    <3> QED BY <3>1, <3>2, <3>3
  <2>6. ~lower(x, y)
    <3>1. lower(x, y) <=> m.spend * p.purchases < p.spend * m.purchases
      BY <2>3 DEF lower
    <3>2. m.spend * p.purchases \in Nat /\ p.spend * m.purchases \in Nat
      BY <2>3, Products
    <3> QED BY <2>5, <3>1, <3>2
  <2> HIDE DEF x, y
  <2>7. ~lower(x, rate(p, "costPerPurchase"))
    BY <2>2, <2>6, Between
  <2>8. ~lower(rate(m, "costPerPurchase"), rate(p, "costPerPurchase"))
    BY <2>2, <2>7, Between
  <2> QED BY <2>1, <2>2, <2>8, RaisedOrder
<1>5. ASSUME atMost(rate(m, "roas"), derived(m, "roas")), atMost(derived(p, "roas"), rate(p, "roas")),
             "roas" \in better
      PROVE  "purchaseValue" \in better
  <2> DEFINE x == derived(m, "roas")
             y == derived(p, "roas")
  <2>1. rises(rate(m, "roas"), rate(p, "roas")) /\ enoughPurchases("roas", m, p)
    BY <1>3, <1>5 DEF improvementSignals, moves, HigherIsBetter, LowerIsBetter
  <2>2. /\ x = <<m.value, m.spend>> /\ m.value \in Nat /\ m.spend \in Nat
        /\ y = <<p.value, p.spend>> /\ p.value \in Nat /\ p.spend \in Nat /\ p.spend > 0
    <3>1. x # NoRate /\ y # NoRate
      BY <1>5 DEF atMost
    <3> QED BY <1>1, <3>1, DerivedOf, RatioTyped
  <2>3. rises(x, y)
    <3>1. /\ Fraction(x) /\ Fraction(y) /\ Fraction(rate(m, "roas")) /\ Fraction(rate(p, "roas"))
          /\ ~lower(x, rate(m, "roas")) /\ ~lower(rate(p, "roas"), y)
      BY <1>5, DerivedTyped, RateTyped DEF atMost, RateNames
    <3> HIDE DEF x, y
    <3> QED BY <2>1, <3>1, RisesFurther
  <2>4. p.spend < m.spend
    BY <2>2 DEF orZero, Null
  <2>5. reading(m, "purchaseValue") = <<m.value, 1>> /\ reading(p, "purchaseValue") = <<p.value, 1>>
    BY <1>3, <2>2 DEF amount, Null
  <2>6. rises(<<m.value, 1>>, <<p.value, 1>>)
    <3>1. CASE p.value = 0
      BY <2>2, <2>3, <3>1 DEF rises
    <3>2. CASE p.value # 0
      <4> DEFINE A == m.value * p.spend  B == p.value * m.spend  C == p.value * p.spend
      <4>1. 10000 * (A - B) >= (1995 * p.value) * m.spend
        BY <2>2, <2>3, <3>2 DEF rises
      <4>2. /\ A \in Nat /\ B \in Nat /\ C \in Nat /\ (1995 * p.value) * m.spend = 1995 * B
            /\ (10000 * m.value) * p.spend = 10000 * A /\ (11995 * p.value) * p.spend = 11995 * C
            /\ (10000 * m.value) \in Int /\ 11995 * p.value \in Int
        BY <2>2, Products
      <4>3. C <= B
        <5>1. p.spend * p.value <= m.spend * p.value
          BY <2>2, <2>4, Products
        <5> QED BY <5>1, <2>2, Products
      <4> HIDE DEF A, B, C
      <4>4. (11995 * p.value) * p.spend <= (10000 * m.value) * p.spend
        BY <4>1, <4>2, <4>3
      <4>5. 11995 * p.value <= 10000 * m.value
        BY <2>2, <4>2, <4>4, Cancel
      <4> QED BY <2>2, <3>2, <4>5 DEF rises
    <3> QED BY <3>1, <3>2
  <2>7. enoughPurchases("purchaseValue", m, p)
    BY <2>1 DEF enoughPurchases, PurchaseBound
  <2>8. <<m.value, 1>> # NoRate /\ <<p.value, 1>> # NoRate
    BY DEF NoRate
  <2> QED BY <2>5, <2>6, <2>7, <2>8 DEF improvementSignals, moves, HigherIsBetter
<1> QED BY <1>4, <1>5

LEMMA DiagnosisFits == DiagnosisInv => DiagnosisExplains
<1> SUFFICES ASSUME DiagnosisInv, diagnosis.pc = "done" PROVE DiagnosisExplains
  BY DEF DiagnosisExplains
<1>1. PICK headline, headlineBefore :
        LET whole == Whole(diagnosis.now, headline)
            past == Whole(diagnosis.before, headlineBefore)
        IN  /\ diagnosis.factors = decomposeRoas(whole, past)
            /\ \A o \in Objects : diagnosis.contributions[o] =
                 attribute(diagnosis.now[o], diagnosis.before[o], whole.purchases - past.purchases, whole)
  BY DEF DiagnosisInv
<1> DEFINE now == Whole(diagnosis.now, headline)
           past == Whole(diagnosis.before, headlineBefore)
           sold == Whole(diagnosis.now, NoRate)
           soldBefore == Whole(diagnosis.before, NoRate)
           parts == diagnosis.contributions
           change == now.purchases - past.purchases
           size(x) == IF x < 0 THEN 0 - x ELSE x
           listed == {o \in Objects : \A q \in Objects :
                       ~listedBefore(parts[q], parts[o], diagnosis.now[q], diagnosis.now[o])}
           x == [o \in Objects |-> orZero(diagnosis.now[o].purchases)]
           y == [o \in Objects |-> orZero(diagnosis.before[o].purchases)]
<1>2. diagnosis.now \in [Objects -> Reports] /\ diagnosis.before \in [Objects -> Reports]
  BY EngineAssumption, NothingReported DEF DiagnosisInv, DiagnosisTypeOK
<1>3. diagnosis.factors = decomposeRoas(now, past)
  BY <1>1
<1>4. \A o \in Objects : parts[o] = attribute(diagnosis.now[o], diagnosis.before[o], change, now)
  BY <1>1
<1>5. Figures(now) /\ Figures(past)
  BY <1>2, WholeTyped
<1>6. x \in [Objects -> Nat] /\ y \in [Objects -> Nat] /\ change = Total(x) - Total(y)
  <2>1. \A o \in Objects : diagnosis.now[o].purchases \in Amount /\ diagnosis.before[o].purchases \in Amount
    BY <1>2 DEF Reports
  <2>2. x \in [Objects -> Nat] /\ y \in [Objects -> Nat]
    BY <2>1, Cleared
  <2> QED BY <2>2 DEF Whole
<1>7. \A o \in Objects : x[o] = orZero(diagnosis.now[o].purchases) /\ y[o] = orZero(diagnosis.before[o].purchases)
  OBVIOUS
<1>8. /\ now.purchases = sold.purchases /\ past.purchases = soldBefore.purchases
      /\ now.spend = sold.spend /\ past.spend = soldBefore.spend
      /\ now.impressions = sold.impressions /\ past.impressions = soldBefore.impressions
      /\ now.clicks = sold.clicks /\ past.clicks = soldBefore.clicks
      /\ now.value = sold.value /\ past.value = soldBefore.value
      /\ derived(now, "roas") = derived(sold, "roas")
      /\ derived(past, "roas") = derived(soldBefore, "roas")
  BY FiguresApart
<1>9. change = sold.purchases - soldBefore.purchases
  BY <1>8
<1> HIDE DEF now, past, parts, change, x, y, sold, soldBefore
<1>10. IF diagnosis.factors.blockedBy = {}
      THEN /\ lower(derived(sold, "roas"), derived(soldBefore, "roas")) => diagnosis.factors.hurt # {}
           /\ lower(derived(soldBefore, "roas"), derived(sold, "roas")) => diagnosis.factors.helped # {}
      ELSE \E w \in {sold, soldBefore} :
             w.value <= 0 \/ 0 \in {w.purchases, w.clicks, w.impressions, w.spend}
  <2>1. IF diagnosis.factors.blockedBy = {}
        THEN /\ lower(derived(now, "roas"), derived(past, "roas")) => diagnosis.factors.hurt # {}
             /\ lower(derived(past, "roas"), derived(now, "roas")) => diagnosis.factors.helped # {}
        ELSE \E w \in {now, past} :
               w.value <= 0 \/ 0 \in {w.purchases, w.clicks, w.impressions, w.spend}
    BY <1>3, <1>5, SplitExplains
  <2> QED BY <1>8, <2>1
<1>11. ASSUME change # 0, \A o \in Objects : parts[o].known
      PROVE  /\ \E o \in Objects : parts[o].movedWithScope
             /\ \A o \in listed : Cardinality(Objects) * size(parts[o].deltaPurchases) >= size(change)
  <2>1. \A o \in Objects : /\ parts[o].deltaPurchases = x[o] - y[o]
                           /\ parts[o].share = <<x[o] - y[o], change>>
                           /\ parts[o].movedWithScope = ((x[o] - y[o]) * change > 0)
    <3> TAKE o \in Objects
    <3>1. parts[o] = attribute(diagnosis.now[o], diagnosis.before[o], change, now)
      BY <1>4
    <3>2. parts[o].known = (diagnosis.before[o] # Absent)
      BY <3>1, Attributed
    <3>3. diagnosis.before[o] # Absent
      BY <1>11, <3>2
    <3>4. parts[o].deltaPurchases = x[o] - y[o]
      BY <1>7, <3>1, <3>3, Attributed
    <3>5. parts[o].share = <<x[o] - y[o], change>>
      BY <1>7, <1>11, <3>1, <3>3, Attributed
    <3>6. parts[o].movedWithScope = ((x[o] - y[o]) * change > 0)
      BY <1>7, <3>1, <3>3, Attributed
    <3> QED BY <3>4, <3>5, <3>6
  <2>2. \E o \in Objects : parts[o].movedWithScope
    <3>1. PICK o \in Objects : (x[o] - y[o]) * change > 0
      BY <1>6, <1>11, PartsOfChange
    <3>2. parts[o].movedWithScope = ((x[o] - y[o]) * change > 0)
      BY <2>1
    <3> QED BY <3>1, <3>2
  <2>3. ASSUME NEW o \in listed PROVE Size * size(parts[o].deltaPurchases) >= size(change)
    <3> DEFINE c == size(parts[o].deltaPurchases)
    <3>1. o \in Objects /\ c \in Nat
      BY <1>6, <2>1
    <3>2. \A q \in Objects : size(x[q] - y[q]) <= c
      <4> TAKE q \in Objects
      <4>1. ~listedBefore(parts[q], parts[o], diagnosis.now[q], diagnosis.now[o])
        OBVIOUS
      <4>2. parts[q].share # NoRate /\ parts[o].share # NoRate
        BY <1>11, <2>1, <3>1 DEF NoRate
      <4>3. ~(size(parts[q].deltaPurchases) > size(parts[o].deltaPurchases))
        BY <4>1, <4>2 DEF listedBefore
      <4>4. parts[q].deltaPurchases = x[q] - y[q] /\ x[q] - y[q] \in Int
        BY <1>6, <2>1
      <4> QED BY <3>1, <4>3, <4>4
    <3> HIDE DEF c
    <3>3. \A q \in Objects : x[q] - y[q] <= c /\ y[q] - x[q] <= c
      BY <1>6, <3>1, <3>2
    <3>4. change <= Size * c /\ 0 - change <= Size * c
      BY <1>6, <1>11, <3>1, <3>3, PartsOfChange
    <3>5. change \in Int /\ Size * c \in Int
      BY <1>6, <3>1, TotalTyped, Rows
    <3> QED BY <3>4, <3>5 DEF c
  <2> HIDE DEF size, listed
  <2> QED BY <2>2, <2>3 DEF Size
<1>12. ASSUME NEW o \in Objects, "spend_shifted" \in observedSignals(o, diagnosis.now[o], parts[o])
      PROVE  LET m == diagnosis.now[o]
                 p == diagnosis.before[o]
                 better == improvementSignals(m, p)
             IN  /\ /\ atMost(derived(m, "costPerPurchase"), rate(m, "costPerPurchase"))
                    /\ atMost(rate(p, "costPerPurchase"), derived(p, "costPerPurchase"))
                    => "costPerPurchase" \notin better
                 /\ /\ atMost(rate(m, "roas"), derived(m, "roas"))
                    /\ atMost(derived(p, "roas"), rate(p, "roas"))
                    /\ "roas" \in better
                    => "purchaseValue" \in better
  <2>1. parts[o].deltaSpend > 0 /\ parts[o].known /\ parts[o].deltaPurchases <= 0
    BY <1>12 DEF observedSignals
  <2>2. diagnosis.before[o] # Absent
    <3>1. attribute(diagnosis.now[o], diagnosis.before[o], change, now).known = (diagnosis.before[o] # Absent)
      BY Attributed
    <3> QED BY <1>4, <2>1, <3>1
  <2>3. /\ orZero(diagnosis.now[o].spend) - orZero(diagnosis.before[o].spend) > 0
        /\ orZero(diagnosis.now[o].purchases) - orZero(diagnosis.before[o].purchases) <= 0
    <3>1. parts[o] = attribute(diagnosis.now[o], diagnosis.before[o], change, now)
      BY <1>4
    <3> QED BY <2>1, <2>2, <3>1, Attributed
  <2> QED BY <1>2, <2>3, SpendShifted
<1> HIDE DEF listed, size
<1> QED BY <1>9, <1>10, <1>11, <1>12 DEF DiagnosisExplains, sold, soldBefore, parts, listed, size

\* A change between any two periods is explained by what made it: the factors
\* of the return and the parts of the children (diagnose of diagnosis-engine.ts).
THEOREM ChangeExplained == DiagnosisSpec => []DiagnosisExplains
<1>1. DiagnosisInv /\ [diagnose /\ UNCHANGED <<reviewVars, adviceVars>>]_diagnosisVars => DiagnosisInv'
  BY DiagnosisStep
<1> QED BY <1>1, DiagnosisInitially, DiagnosisFits, PTL DEF DiagnosisSpec

-----------------------------------------------------------------------------
(* All components side by side. None disturbs another, so that what is      *)
(* proved of each in its module holds in the backend.                       *)

LEMMA OneAtATime ==
  [BackendNext]_backendVars =>
    /\ [CloneNext]_cloneVars /\ [OAuthNext]_oauthVars /\ [TokensNext]_tokenVars
    /\ [LookupNext]_lookupVars /\ [AgentNext]_agentVars /\ [BulkNext]_bulkVars
    /\ [TagsNext]_tagVars /\ [ToolsNext]_toolVars
    /\ [analyze]_adviceVars /\ [reviewPerformance]_reviewVars /\ [diagnose]_diagnosisVars
<1> SUFFICES ASSUME [BackendNext]_backendVars
             PROVE  /\ [CloneNext]_cloneVars /\ [OAuthNext]_oauthVars /\ [TokensNext]_tokenVars
                    /\ [LookupNext]_lookupVars /\ [AgentNext]_agentVars /\ [BulkNext]_bulkVars
                    /\ [TagsNext]_tagVars /\ [ToolsNext]_toolVars
                    /\ [analyze]_adviceVars /\ [reviewPerformance]_reviewVars /\ [diagnose]_diagnosisVars
  OBVIOUS
<1>1. CASE UNCHANGED backendVars
  BY <1>1 DEF backendVars, analysisVars
<1>2. CASE BackendNext
  BY <1>2 DEF BackendNext, analysisVars
<1> QED BY <1>1, <1>2

\* A behaviour of the backend is one of each of its components.
THEOREM SideBySide ==
  BackendSpec => /\ CloneSpec /\ OAuthSpec /\ TokensSpec /\ LookupSpec /\ AgentSpec /\ BulkSpec
                 /\ TagsSpec /\ ToolsSpec
<1>1. BackendInit => /\ CloneInit /\ OAuthInit /\ TokensInit /\ LookupInit /\ AgentInit /\ BulkInit
                     /\ TagsInit /\ ToolsInit
  BY DEF BackendInit
<1> QED BY <1>1, OneAtATime, PTL
        DEF BackendSpec, CloneSpec, OAuthSpec, TokensSpec, LookupSpec, AgentSpec, BulkSpec, TagsSpec, ToolsSpec

AnalysisInv == AdviceInv /\ ReviewInv /\ DiagnosisInv

LEMMA AnalysesInvariance == BackendSpec => []AnalysisInv
<1>1. BackendInit => AnalysisInv
  BY AdviceInitially, ReviewInitially, DiagnosisInitially DEF BackendInit, AnalysisInv
<1>2. AnalysisInv /\ [BackendNext]_backendVars => AnalysisInv'
  BY OneAtATime, AdviceStep, ReviewStep, DiagnosisStep DEF AnalysisInv
<1> QED BY <1>1, <1>2, PTL DEF BackendSpec

\* Whatever an account reports in two periods, and of however many objects, the
\* advice hangs together, the review contradicts neither itself nor the advice,
\* and the diagnosis explains a change by what made it (analyze of
\* decision-engine.ts, reviewPerformance and diagnose).
THEOREM AnalysesFitTogether == BackendSpec => []AnalysesAgree
<1>1. AnalysisInv => AnalysesAgree
  BY AdviceFits, ReviewFits, DiagnosisFits DEF AnalysisInv, AnalysesAgree
<1> QED BY <1>1, AnalysesInvariance, PTL

\* Every variable of every component keeps its type.
THEOREM BackendTypes == BackendSpec => []BackendTypeOK
<1>1. BackendSpec => [](part \in Parts)
  <2>1. BackendInit => part \in Parts
    BY DEF BackendInit
  <2>2. part \in Parts /\ [BackendNext]_backendVars => (part \in Parts)'
    BY DEF BackendNext, backendVars
  <2> QED BY <2>1, <2>2, PTL DEF BackendSpec
<1>2. TokensInv => TokensTypeOK
  BY DEF TokensInv
<1>3. TurnInv => AgentTypeOK
  BY DEF TurnInv
<1>4. BulkInv => BulkTypeOK
  BY DEF BulkInv
<1>5. TagsInv => TagsTypeOK
  BY DEF TagsInv
<1>6. ToolsInv => ToolsTypeOK
  BY DEF ToolsInv
<1>7. AnalysisInv => AdviceTypeOK /\ ReviewTypeOK /\ DiagnosisTypeOK
  BY DEF AnalysisInv, AdviceInv, ReviewInv, DiagnosisInv
<1>8. /\ part \in Parts /\ CloneTypeOK /\ OAuthTypeOK /\ TokensTypeOK /\ LookupTypeOK /\ AgentTypeOK
      /\ BulkTypeOK /\ TagsTypeOK /\ ToolsTypeOK /\ AdviceTypeOK /\ ReviewTypeOK /\ DiagnosisTypeOK
      => BackendTypeOK
  BY DEF BackendTypeOK
<1> QED BY SideBySide, <1>1, <1>2, <1>3, <1>4, <1>5, <1>6, <1>7, <1>8, CloneTypesKept, GrantTypes,
           TokensInvariance, LookupTypeCorrect, TurnInvHolds, BatchInvariance, TagsInvariance,
           ToolsInvariance, AnalysesInvariance, PTL
=============================================================================
