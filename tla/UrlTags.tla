------------------------------- MODULE UrlTags -------------------------------
(* ads_update_ad_url_tags: creatives are immutable, so new tags mean a new  *)
(* creative for every one the ads share, and each ad pointed at it          *)
(* (src/src/tools/ads.ts). The tool is registered as idempotent: its host   *)
(* may call it again. A new creative is named by its source and the call    *)
(* that made it.                                                            *)
EXTENDS Integers, FiniteSets

CONSTANTS
  TaggedAds,       \* the ads named in the call
  Sources,         \* the creatives they point at to begin with
  equal,           \* sources that carry the requested tags already
  unfit,           \* sources that cannot be rebuilt
  NoCreative,
  Rounds           \* bound: how often the tool is called

ASSUME TagsAssumption ==
  /\ equal \subseteq Sources /\ unfit \subseteq Sources
  /\ Rounds \in Nat /\ NoCreative \notin Sources \X (0..Rounds)

VARIABLES
  pointsAt,        \* ad -> its creative, at Meta
  minted,          \* history: the new creatives that exist
  round,           \* [pc, number, dry, source: of the creative at hand, ad]
  todo,            \* what the phase still has to handle: ads or creatives
  group,           \* ad -> the creative it was read with, or NoCreative
  plan,            \* sources to rebuild
  outcome,         \* ad -> the list of the report it is on
  before           \* history: pointsAt and minted when the call began

tagVars == <<pointsAt, minted, round, todo, group, plan, outcome, before>>

New == Sources \X (1..Rounds)
\* The stored creatives as pairs: a source is a pair of itself and round 0.
Original(c) == <<c, 0>>
AllCreatives == New \cup {Original(c) : c \in Sources}

TagsTypeOK ==
  /\ pointsAt \in [TaggedAds -> AllCreatives]
  /\ minted \subseteq New
  /\ round \in [pc : {"idle", "reading", "planning", "minting", "repointing", "checking", "over"},
                number : 0..Rounds, dry : BOOLEAN, source : AllCreatives \cup {NoCreative},
                ad : TaggedAds \cup {NoCreative}]
  /\ todo \subseteq TaggedAds \cup AllCreatives
  /\ group \in [TaggedAds -> AllCreatives \cup {NoCreative}]
  /\ plan \subseteq AllCreatives
  /\ outcome \in [TaggedAds -> {"none", "planned", "updated", "skipped", "failed"}]

TagsInit ==
  /\ pointsAt \in [TaggedAds -> {Original(c) : c \in Sources}]
  /\ minted = {}
  /\ round = [pc |-> "idle", number |-> 0, dry |-> FALSE, source |-> NoCreative, ad |-> NoCreative]
  /\ todo = {} /\ plan = {}
  /\ group = [a \in TaggedAds |-> NoCreative]
  /\ outcome = [a \in TaggedAds |-> "none"]
  /\ before = [pointsAt |-> pointsAt, minted |-> {}]

hasTags(c) == c \in New \/ c[1] \in equal
sharing(c) == {a \in TaggedAds : group[a] = c}
put(ads, list) == outcome' = [a \in TaggedAds |-> IF a \in ads THEN list ELSE outcome[a]]
Phase(pc, work) == round' = [round EXCEPT !.pc = pc] /\ todo' = work

CallTags ==
  /\ round.pc \in {"idle", "over"} /\ round.number < Rounds
  /\ \E dry \in BOOLEAN :
       round' = [pc |-> "reading", number |-> round.number + 1, dry |-> dry,
                 source |-> NoCreative, ad |-> NoCreative]
  /\ todo' = TaggedAds /\ plan' = {}
  /\ group' = [a \in TaggedAds |-> NoCreative]
  /\ outcome' = [a \in TaggedAds |-> "none"]
  /\ before' = [pointsAt |-> pointsAt, minted |-> minted]
  /\ UNCHANGED <<pointsAt, minted>>
-----------------------------------------------------------------------------
(* Reading the ads and their creatives.                                     *)

\* The read may fail, or tell of no creative or no account.
ReadAd ==
  /\ round.pc = "reading"
  /\ \E a \in todo :
       /\ todo' = todo \ {a}
       /\ \/ group' = [group EXCEPT ![a] = pointsAt[a]] /\ UNCHANGED outcome
          \/ put({a}, "failed") /\ UNCHANGED group
  /\ UNCHANGED <<pointsAt, minted, round, plan, before>>

groupAds ==
  /\ round.pc = "reading" /\ todo = {}
  /\ Phase("planning", {group[a] : a \in TaggedAds} \ {NoCreative})
  /\ UNCHANGED <<pointsAt, minted, group, plan, outcome, before>>

planRebuild(c) == c[1] \notin unfit

ReadCreative ==
  /\ round.pc = "planning"
  /\ \E c \in todo :
       /\ todo' = todo \ {c}
       /\ \/ /\ hasTags(c) \/ ~planRebuild(c)
             /\ put(sharing(c), "skipped") /\ UNCHANGED plan
          \/ /\ ~hasTags(c) /\ planRebuild(c)
             /\ put(sharing(c), "planned") /\ plan' = plan \cup {c}
          \/ put(sharing(c), "failed") /\ UNCHANGED plan
  /\ UNCHANGED <<pointsAt, minted, round, group, before>>

Planned ==
  /\ round.pc = "planning" /\ todo = {}
  /\ IF round.dry THEN Phase("over", {}) ELSE Phase("minting", plan)
  /\ UNCHANGED <<pointsAt, minted, group, plan, outcome, before>>
-----------------------------------------------------------------------------
(* Rebuilding a creative and pointing its ads at the new one.               *)

newCreative == <<round.source[1], round.number>>

\* The POST is answered, or it fails, executed or not.
Rebuild ==
  /\ round.pc = "minting"
  /\ \E c \in todo :
       LET new == <<c[1], round.number>> IN
       /\ plan' = plan \ {c}
       /\ \/ /\ minted' = minted \cup {new}
             /\ round' = [round EXCEPT !.pc = "repointing", !.source = c]
             /\ todo' = sharing(c) /\ UNCHANGED outcome
          \/ /\ minted' \in {minted, minted \cup {new}}
             /\ put(sharing(c), "failed") /\ todo' = todo \ {c} /\ UNCHANGED round
  /\ UNCHANGED <<pointsAt, group, before>>

Repoint ==
  /\ round.pc = "repointing"
  /\ \E a \in todo :
       LET moved == [pointsAt EXCEPT ![a] = newCreative] IN
       /\ todo' = todo \ {a}
       /\ \/ pointsAt' = moved /\ put({a}, "updated") /\ UNCHANGED round
          \/ /\ pointsAt' \in {pointsAt, moved}
             /\ round' = [round EXCEPT !.pc = "checking", !.ad = a]
             /\ UNCHANGED outcome
  /\ UNCHANGED <<minted, group, plan, before>>

\* readCreativeIdAfterFailedRepoint with the ad not read back.
repointTakenAsDone ==
  /\ round.pc = "checking"
  /\ put({round.ad}, "updated")
  /\ round' = [round EXCEPT !.pc = "repointing", !.ad = NoCreative]
  /\ UNCHANGED <<pointsAt, minted, todo, group, plan, before>>

\* The ad is read back, which may fail as well.
readCreativeIdAfterFailedRepoint ==
  /\ round.pc = "checking"
  /\ \/ put({round.ad}, IF pointsAt[round.ad] = newCreative THEN "updated" ELSE "failed")
     \/ put({round.ad}, "failed")
  /\ round' = [round EXCEPT !.pc = "repointing", !.ad = NoCreative]
  /\ UNCHANGED <<pointsAt, minted, todo, group, plan, before>>

NextCreative ==
  /\ round.pc = "repointing" /\ todo = {}
  /\ round' = [round EXCEPT !.pc = "minting", !.source = NoCreative]
  /\ todo' = plan
  /\ UNCHANGED <<pointsAt, minted, group, plan, outcome, before>>

ReportTags ==
  /\ round.pc = "minting" /\ todo = {}
  /\ Phase("over", {})
  /\ UNCHANGED <<pointsAt, minted, group, plan, outcome, before>>

TagsNext ==
  \/ CallTags \/ ReadAd \/ groupAds \/ ReadCreative \/ Planned
  \/ Rebuild \/ Repoint \/ readCreativeIdAfterFailedRepoint \/ NextCreative \/ ReportTags

TagsSpec == TagsInit /\ [][TagsNext]_tagVars
-----------------------------------------------------------------------------
stray == minted \ (before.minted \cup {pointsAt[a] : a \in TaggedAds})

\* Whatever fails on the way, and however often the tool is called: an ad keeps
\* its content; one reported as updated carries the tags; one reported as
\* skipped, or that carried them before, was not touched, and no creative is
\* made for it again; a dry run changes nothing; and at the end every ad is on
\* one of the lists, with a failure to account for every creative no ad uses.
TagsReportHolds ==
  /\ \A a \in TaggedAds :
       /\ pointsAt[a][1] = before.pointsAt[a][1]
       /\ outcome[a] = "updated" => hasTags(pointsAt[a])
       /\ outcome[a] = "skipped" \/ hasTags(before.pointsAt[a]) =>
            pointsAt[a] = before.pointsAt[a]
  /\ \A c \in minted \ before.minted : \E a \in TaggedAds :
       before.pointsAt[a][1] = c[1] /\ ~hasTags(before.pointsAt[a])
  /\ round.dry => pointsAt = before.pointsAt /\ minted = before.minted
  /\ round.pc = "over" =>
       /\ \A a \in TaggedAds : outcome[a] \in {"skipped", "failed",
                                               IF round.dry THEN "planned" ELSE "updated"}
       /\ \A c \in stray : \E a \in TaggedAds :
            outcome[a] = "failed" /\ group[a] = Original(c[1])
=============================================================================
