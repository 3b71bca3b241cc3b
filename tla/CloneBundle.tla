----------------------------- MODULE CloneBundle ----------------------------
(* ads_clone_ad_set_bundle: calls with one idempotency key that clone an ad *)
(* set and its ads, and the Firestore record of that key, by which a call   *)
(* learns what an earlier one did (src/src/tools/adsets.ts,                 *)
(* src/src/store/clone-bundle-store.ts). Every call may die at any point,   *)
(* the server with it, and every POST may be refused, executed, or executed *)
(* with its answer lost. Renaming a copied ad and attaching a new creative  *)
(* to it create nothing and only add a warning when they fail: left out.    *)
EXTENDS Integers, FiniteSets

CONSTANTS
  Runs,           \* calls of the tool with the key, dry_run false
  NoRun, 
  payload,        \* run -> the signature of its arguments
  Ads,            \* how many ads the source ad set has
  Overridden,     \* those with an override to swap in
  Stale,          \* STALE_IN_PROGRESS_MS
  MaxCloneTime    \* bound: the clock stops here

ASSUME CloneAssumption ==
  /\ NoRun \notin Runs
  /\ Ads \in Nat /\ Overridden \subseteq 1..Ads
  /\ Stale \in Nat /\ MaxCloneTime \in Nat

VARIABLES
  cloneNow,
  record,    \* the document of the key, or NoRecord
  clone,     \* run -> [pc, ad: ads handled, made: createdResources]
  reused,    \* run -> the run whose result it was given, or NoRun
  exists,    \* history: the resources Meta created
  claimedAt  \* history: run -> when it claimed the key, or -1

cloneVars == <<cloneNow, record, clone, reused, exists, claimedAt>>

AdSet(r) == <<r, "ad set", 0>>
Ad(r, n) == <<r, "ad", n>>
Creative(r, n) == <<r, "creative", n>>
Resources == Runs \X {"ad set", "ad", "creative"} \X (0..Ads)

Signatures == {payload[r] : r \in Runs}
NoRecord == [state |-> "none", signature |-> NoRun, startedAt |-> 0,
             created |-> {}, result |-> NoRun]

CloneTypeOK ==
  /\ cloneNow \in Nat
  /\ record = NoRecord \/
     record \in [state : {"in_progress", "completed", "failed"}, signature : Signatures,
                 startedAt : 0..cloneNow, created : SUBSET Resources, result : Runs \cup {NoRun}]
  /\ clone \in [Runs -> [pc : {"idle", "reading", "claiming", "creating", "savingAdSet", "copying",
                               "savingAd", "overriding", "savingCreative", "failing", "over"},
                         ad : 0..Ads, made : SUBSET Resources]]
  /\ reused \in [Runs -> Runs \cup {NoRun}]
  /\ exists \subseteq Resources
  /\ claimedAt \in [Runs -> -1..cloneNow]

CloneInit ==
  /\ cloneNow = 0
  /\ record = NoRecord
  /\ clone = [r \in Runs |-> [pc |-> "idle", ad |-> 0, made |-> {}]]
  /\ reused = [r \in Runs |-> NoRun]
  /\ exists = {}
  /\ claimedAt = [r \in Runs |-> -1]

At(r, place) == clone[r].pc = place
GoOn(r, place) == clone' = [clone EXCEPT ![r].pc = place]

\* isStale with the claim taken over at the limit already.
isStaleAtLimit == record.state = "in_progress" /\ cloneNow - record.startedAt >= Stale

\* A claim this old may be taken over: its run is presumed dead.
isStale == record.state = "in_progress" /\ cloneNow - record.startedAt > Stale

\* store.update merges the fields into whatever record is there, or throws.
update(fields) == record' = [f \in DOMAIN record |->
                               IF f \in DOMAIN fields THEN fields[f] ELSE record[f]]
-----------------------------------------------------------------------------
(* Whether the key was used before.                                         *)

\* The caller gets the earlier result, or an error, and nothing is created.
AnswerFromRecord(r) ==
  /\ reused' = [reused EXCEPT ![r] =
       IF record.signature = payload[r] /\ record.state = "completed" THEN record.result ELSE @]
  /\ GoOn(r, "over")
  /\ UNCHANGED <<cloneNow, record, exists, claimedAt>>

mayGoOn(r) == record = NoRecord \/ (record.signature = payload[r] /\ isStale)

Look(r) ==
  /\ At(r, "idle")
  /\ \/ ~mayGoOn(r) /\ AnswerFromRecord(r)
     \/ mayGoOn(r) /\ GoOn(r, "reading") /\ UNCHANGED <<cloneNow, record, reused, exists, claimedAt>>

\* The source is read; it may be unreadable, unfit or without ads.
ReadSource(r) ==
  /\ At(r, "reading")
  /\ \E place \in {"claiming", "over"} : GoOn(r, place)
  /\ UNCHANGED <<cloneNow, record, reused, exists, claimedAt>>

\* The transaction of store.claim; a stale record is not compared with the
\* payload again.
mayClaim == record = NoRecord \/ isStale

Claim(r) ==
  /\ At(r, "claiming")
  /\ \/ ~mayClaim /\ AnswerFromRecord(r)
     \/ /\ mayClaim
        /\ record' = [NoRecord EXCEPT !.state = "in_progress", !.signature = payload[r],
                                      !.startedAt = cloneNow]
        /\ claimedAt' = [claimedAt EXCEPT ![r] = cloneNow]
        /\ GoOn(r, "creating")
        /\ UNCHANGED <<cloneNow, reused, exists>>
-----------------------------------------------------------------------------
(* Creating at Meta, and writing down what was created.                     *)

\* A POST that creates resource x: it is answered and the run goes on at
\* "then", or it fails, executed or not, and the run goes on at "otherwise".
PostNew(r, x, ad, then, otherwise) ==
  /\ \/ /\ exists' = exists \cup {x}
        /\ clone' = [clone EXCEPT ![r] = [pc |-> then, ad |-> ad, made |-> @.made \cup {x}]]
     \/ /\ exists' \in {exists, exists \cup {x}}
        /\ clone' = [clone EXCEPT ![r] = [@ EXCEPT !.pc = otherwise, !.ad = ad]]
  /\ UNCHANGED <<cloneNow, record, reused, claimedAt>>

\* The ledger in the record becomes what the run has made, or the update fails.
Save(r, then, otherwise) ==
  /\ \/ update([created |-> clone[r].made]) /\ GoOn(r, then)
     \/ UNCHANGED record /\ GoOn(r, otherwise)
  /\ UNCHANGED <<cloneNow, reused, exists, claimedAt>>

CreateAdSet(r) == At(r, "creating") /\ PostNew(r, AdSet(r), 0, "savingAdSet", "failing")
SaveAdSet(r) == At(r, "savingAdSet") /\ Save(r, "copying", "over")

\* CopyAd that goes on after the last ad.
CopyAdOneMore(r) ==
  LET n == clone[r].ad + 1 IN
  At(r, "copying") /\ PostNew(r, Ad(r, n), n, "savingAd", "copying")

\* An ad that could not be copied is skipped.
CopyAd(r) ==
  LET n == clone[r].ad + 1 IN
  At(r, "copying") /\ n <= Ads /\ PostNew(r, Ad(r, n), n, "savingAd", "copying")

\* SaveAd that leaves the ledger to a later save.
SaveAdLater(r) ==
  /\ At(r, "savingAd")
  /\ GoOn(r, IF clone[r].ad \in Overridden THEN "overriding" ELSE "copying")
  /\ UNCHANGED <<cloneNow, record, reused, exists, claimedAt>>

SaveAd(r) ==
  /\ At(r, "savingAd")
  /\ Save(r, IF clone[r].ad \in Overridden THEN "overriding" ELSE "copying", "over")

\* Whatever fails in swapping the creative is a warning, the save included.
SwapCreative(r) ==
  LET n == clone[r].ad IN
  At(r, "overriding") /\ PostNew(r, Creative(r, n), n, "savingCreative", "copying")
SaveCreative(r) == At(r, "savingCreative") /\ Save(r, "copying", "copying")

copiedSome(r) == \E n \in 1..Ads : Ad(r, n) \in clone[r].made

Complete(r) ==
  /\ At(r, "copying") /\ clone[r].ad = Ads
  /\ IF copiedSome(r)
     THEN /\ GoOn(r, "over")
          /\ \/ update([state |-> "completed", result |-> r])
             \/ UNCHANGED record
     ELSE GoOn(r, "failing") /\ UNCHANGED record
  /\ UNCHANGED <<cloneNow, reused, exists, claimedAt>>

\* Best effort: that the record could not be written is not reported.
markFailed(r) ==
  /\ At(r, "failing")
  /\ GoOn(r, "over")
  /\ \/ update([state |-> "failed", created |-> clone[r].made])
     \/ UNCHANGED record
  /\ UNCHANGED <<cloneNow, reused, exists, claimedAt>>

Die(r) ==
  /\ clone[r].pc \notin {"idle", "over"}
  /\ GoOn(r, "over")
  /\ UNCHANGED <<cloneNow, record, reused, exists, claimedAt>>

CloneTick ==
  /\ cloneNow < MaxCloneTime
  /\ cloneNow' = cloneNow + 1
  /\ UNCHANGED <<record, clone, reused, exists, claimedAt>>

CloneStep(r) ==
  \/ Look(r) \/ ReadSource(r) \/ Claim(r)
  \/ CreateAdSet(r) \/ SaveAdSet(r) \/ CopyAd(r) \/ SaveAd(r)
  \/ SwapCreative(r) \/ SaveCreative(r) \/ Complete(r) \/ markFailed(r)
  \/ Die(r)

CloneNext == (\E r \in Runs : CloneStep(r)) \/ CloneTick

CloneSpec == CloneInit /\ [][CloneNext]_cloneVars
-----------------------------------------------------------------------------
claimants == {r \in Runs : claimedAt[r] >= 0}

\* Two calls with one key both create an ad set only when the second claimed
\* the key after the first one's claim had gone stale: any other repetition,
\* concurrent, after a crash or after a failure, creates nothing
\* (ads_clone_ad_set_bundle and claim).
DuplicatesOnlyByTakeover ==
  \A r, s \in Runs :
    r # s /\ AdSet(r) \in exists /\ AdSet(s) \in exists =>
      \/ claimedAt[r] - claimedAt[s] > Stale
      \/ claimedAt[s] - claimedAt[r] > Stale

\* Unless the key was taken over, its record lists the ad set and the ads its
\* run was told of, all of them once it has completed or failed and all but the
\* last one before: a crash or a failed save hides one resource from the
\* clean-up, never more. A failed record lists the creatives too. And a caller
\* that is given its result gets one of a run with the same arguments that had
\* created its ad set and an ad at least (saveProgress, markCloneFailed).
LedgerKept ==
  \A r \in Runs : claimants = {r} =>
    LET missing == clone[r].made \ record.created
        creatives == {Creative(r, n) : n \in 1..Ads}
    IN  /\ Cardinality(missing \ creatives) <= IF record.state = "in_progress" THEN 1 ELSE 0
        /\ record.state = "failed" => missing = {}
        /\ \A s \in Runs : reused[s] # NoRun =>
             /\ reused[s] = r /\ payload[s] = payload[r]
             /\ AdSet(r) \in exists /\ \E n \in 1..Ads : Ad(r, n) \in exists

=============================================================================
