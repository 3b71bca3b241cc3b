------------------------------- MODULE BulkAds -------------------------------
(* ads_bulk_create_video_ads: videos become ads one after the other, each   *)
(* in three POSTs with a wait between the first two, in one call that must  *)
(* return within its time (src/src/tools/bulk-ads.ts). A verdict is the     *)
(* text of an error by which Meta rejects parameters; any other error       *)
(* condemns the whole batch. Time is left out but for its running short.    *)
EXTENDS Integers

CONSTANTS
  Videos,      \* how many the caller gave
  Verdicts     \* texts of Meta's rejections

ASSUME BulkAssumption == Videos \in Nat \ {0}

VARIABLES
  batch,       \* [pc, at: the video at hand, late, systemic]
  repeats,     \* [signature: lastFailure, count: repeatedFailures]
  results,     \* video -> [ids: stages whose id is known, failed, skipped]
  sent,        \* history: <<video, stage>> whose POST was sent
  created,     \* history: those Meta executed
  rejections   \* history: video -> the stage and the verdict it failed by, or NoFailure

bulkVars == <<batch, repeats, results, sent, created, rejections>>

Stages == {"upload", "processing", "creative", "ad"}
NoFailure == <<"none", "none">>
Failures == (Stages \X Verdicts) \cup {NoFailure}

BulkTypeOK ==
  /\ batch \in [pc : Stages \cup {"idle", "next", "reported", "threw"}, at : 0..Videos,
                late : BOOLEAN, systemic : BOOLEAN]
  /\ repeats \in [signature : Failures, count : 0..2]
  /\ results \in [1..Videos -> [ids : SUBSET Stages, failed : Stages \cup {"none"},
                                skipped : BOOLEAN]]
  /\ sent \subseteq (1..Videos) \X Stages /\ created \subseteq sent
  /\ rejections \in [1..Videos -> Failures]

BulkInit ==
  /\ batch = [pc |-> "idle", at |-> 0, late |-> FALSE, systemic |-> FALSE]
  /\ repeats = [signature |-> NoFailure, count |-> 0]
  /\ results = [v \in 1..Videos |-> [ids |-> {}, failed |-> "none", skipped |-> FALSE]]
  /\ sent = {} /\ created = {}
  /\ rejections = [v \in 1..Videos |-> NoFailure]

BeginBatch ==
  /\ batch.pc = "idle"
  /\ batch' = [batch EXCEPT !.pc = "next"]
  /\ UNCHANGED <<repeats, results, sent, created, rejections>>

\* The next video, unless the batch stopped or its time runs short, which it
\* does for good.
NextVideo ==
  /\ batch.pc = "next" /\ batch.at < Videos
  /\ LET v == batch.at + 1 IN
     \/ /\ ~batch.systemic /\ ~batch.late
        /\ batch' = [batch EXCEPT !.pc = "upload", !.at = v]
        /\ UNCHANGED results
     \/ /\ batch' = [batch EXCEPT !.at = v, !.late = @ \/ ~batch.systemic]
        /\ results' = [results EXCEPT ![v].skipped = TRUE]
  /\ UNCHANGED <<repeats, sent, created, rejections>>
-----------------------------------------------------------------------------
(* How a stage of the video at hand fails.                                  *)

v0 == batch.at
failed == results' = [results EXCEPT ![v0].failed = batch.pc]
Leave(stops) == batch' = [batch EXCEPT !.pc = "next", !.systemic = stops]
resetRepeats == repeats' = [signature |-> NoFailure, count |-> 0]

\* Decided here: an unsafe URL, a video that is not ready, no thumbnail.
FailedLocally ==
  /\ failed /\ resetRepeats /\ Leave(FALSE)
  /\ UNCHANGED rejections

REPEATED_FAILURE_LIMIT == 2
counted(c, signature) ==
  [signature |-> signature, count |-> IF signature = c.signature THEN c.count + 1 ELSE 1]

\* Meta rejects the parameters: of this video, or of all, as the repetition shows.
Rejected(text) ==
  /\ failed
  /\ repeats' = counted(repeats, <<batch.pc, text>>)
  /\ rejections' = [rejections EXCEPT ![v0] = <<batch.pc, text>>]
  /\ Leave(repeats'.count >= REPEATED_FAILURE_LIMIT)

\* Condemned that lets the batch go on.
CondemnedGoesOn ==
  /\ failed /\ Leave(FALSE)
  /\ UNCHANGED <<repeats, rejections>>

\* A throttle, an expired token, a timeout, a failure of Meta or the network:
\* the repetitions are not looked at again.
Condemned ==
  /\ failed /\ Leave(TRUE)
  /\ UNCHANGED <<repeats, rejections>>
-----------------------------------------------------------------------------
(* The stages.                                                              *)

\* A POST, after which the call goes on at "then"; one whose answer is lost
\* may have been executed.
Post(then) ==
  LET it == <<v0, batch.pc>> IN
  /\ sent' = sent \cup {it}
  /\ \/ /\ created' = created \cup {it}
        /\ results' = [results EXCEPT ![v0].ids = @ \cup {batch.pc}]
        /\ batch' = [batch EXCEPT !.pc = then]
        /\ IF then = "next" THEN resetRepeats ELSE UNCHANGED repeats
        /\ UNCHANGED rejections
     \/ (\E text \in Verdicts : Rejected(text)) /\ UNCHANGED created
     \/ Condemned /\ created' \in {created, created \cup {it}}

FailsBefore == FailedLocally /\ UNCHANGED <<sent, created>>

Upload == batch.pc = "upload" /\ (FailsBefore \/ Post("processing"))

waitForVideoReady ==
  /\ batch.pc = "processing"
  /\ UNCHANGED <<sent, created>>
  /\ \/ batch' = [batch EXCEPT !.pc = "creative"] /\ UNCHANGED <<repeats, results, rejections>>
     \/ FailedLocally \/ Condemned
     \/ \E text \in Verdicts : Rejected(text)

BuildCreative == batch.pc = "creative" /\ (FailsBefore \/ Post("ad"))
BuildAd == batch.pc = "ad" /\ Post("next")

leftArtifacts == \E v \in 1..Videos : results[v].ids # {}

Report ==
  /\ batch.pc = "next" /\ batch.at = Videos
  /\ batch' = [batch EXCEPT !.pc = IF batch.systemic /\ ~leftArtifacts THEN "threw" ELSE "reported"]
  /\ UNCHANGED <<repeats, results, sent, created, rejections>>

BulkNext ==
  BeginBatch \/ NextVideo \/ Upload \/ waitForVideoReady \/ BuildCreative \/ BuildAd \/ Report

BulkSpec == BulkInit /\ [][BulkNext]_bulkVars
-----------------------------------------------------------------------------
unheardOf == {it \in created : it[2] \notin results[it[1]].ids}
Alike(v, w) == rejections[v] = rejections[w] /\ rejections[v] # NoFailure

\* Running the call again with the videos it skipped duplicates nothing, and
\* the report is complete: what Meta created is in it but for one object, of a
\* video reported as failed; when the call throws instead, that one object is
\* all there can be. And nothing is sent any more once Meta has rejected two
\* videos in succession alike (the loop of ads_bulk_create_video_ads).
BatchReportsAll ==
  /\ \A it \in sent : ~results[it[1]].skipped
  /\ \A x, y \in unheardOf : x = y
  /\ batch.pc \in {"next", "reported", "threw"} =>
       \A it \in unheardOf : results[it[1]].failed = it[2]
  /\ batch.pc = "threw" => created = unheardOf
  /\ batch.pc = "reported" =>
       \A v \in 1..Videos : results[v].skipped \/ results[v].failed # "none" \/ "ad" \in results[v].ids
  /\ \A v \in 2..Videos : Alike(v - 1, v) => \A it \in sent : it[1] <= v
=============================================================================
