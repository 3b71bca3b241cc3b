--------------------------- MODULE DecisionEngine ---------------------------
(* The optimisation pass of the assistant: what it advises about the        *)
(* objects of an account, from their metrics in a period and the one before *)
(* (src/src/claude/decision-engine.ts), and the part the model is shown     *)
(* (meta_find_opportunities in src/src/claude/tools.ts). A rate is a        *)
(* fraction, a pair, and rates are compared by cross-multiplying. Texts are *)
(* left out.                                                                *)
EXTENDS Integers, FiniteSets

CONSTANTS
  Objects,         \* the rows of the analysis: 1, 2 and so on, in their order
  Metrics,         \* what a row may report, Null where it reports nothing
  Earlier,         \* what the period before may report; all Null when it lacks the row
  Levels,          \* what is analysed: "campaign", "adset", "ad"
  budgetOf         \* object -> "daily", "lifetime" or "none"

Null == -1
NoRate == <<0, 0>>
Amount == Nat \cup {Null}
Rates == {NoRate} \cup (Nat \X (Nat \ {0}))
\* A row of Meta's: the counters, the revenue, and the two rates Meta may
\* report beside them, of its own reckoning.
Reports == [spend : Amount, impressions : Amount, clicks : Amount, purchases : Amount,
            value : Amount, cost : Rates, roas : Rates]

ASSUME EngineAssumption ==
  /\ IsFiniteSet(Objects) /\ Objects = 1..Cardinality(Objects)
  /\ Metrics # {} /\ Metrics \subseteq Reports /\ Earlier \subseteq Reports
  /\ budgetOf \in [Objects -> {"daily", "lifetime", "none"}]

VARIABLE advice    \* [pc, level, cbo, rows, statuses, findings]

adviceVars == <<advice>>

Statuses == {"ACTIVE", "PAUSED"}
orZero(x) == IF x = Null THEN 0 ELSE x
ratio(a, b) == IF a = Null \/ b = Null \/ b = 0 THEN NoRate ELSE <<a, b>>

\* What the counters give.
derived(m, metric) ==
  CASE metric = "roas" -> ratio(m.value, m.spend)
    [] metric = "costPerPurchase" -> ratio(m.spend, m.purchases)
    [] metric = "ctr" -> ratio(m.clicks, m.impressions)
    [] metric = "cpc" -> ratio(m.spend, m.clicks)
    [] metric = "cpm" -> ratio(m.spend, m.impressions)

\* What the analyses go by: for the return and the cost of a purchase the rate
\* Meta reported, where it did.
rate(m, metric) ==
  CASE metric = "roas" /\ m.roas # NoRate -> m.roas
    [] metric = "costPerPurchase" /\ m.cost # NoRate -> m.cost
    [] OTHER -> derived(m, metric)

\* Orders of rates. A rate that is not known is below none and above none.
lower(x, y) == x[1] * y[2] < y[1] * x[2]
belowHalves(x, y, k) == 2 * (x[1] * y[2]) < k * (y[1] * x[2])   \* x < k/2 of y
aboveHalves(x, y, k) == 2 * (x[1] * y[2]) > k * (y[1] * x[2])   \* x > k/2 of y
atMost(x, y) == NoRate \notin {x, y} /\ ~lower(y, x)

\* Whether k per cent of y is at most, or less than, x - y.
percentUp(x, y, k) == 100 * (x[1] * y[2] - y[1] * x[2]) >= k * y[1] * x[2]
percentDown(x, y, k) == 100 * (y[1] * x[2] - x[1] * y[2]) >= k * y[1] * x[2]
comparable(x, y) == x # NoRate /\ y # NoRate /\ y[1] # 0

MATERIAL_CHANGE_PCT == 20
-----------------------------------------------------------------------------
(* The account in the period: spend, purchases and value over all rows.     *)

\* The sum of the figures x of all rows.
Total(x) ==
  LET sum[o \in Objects \cup {0}] == IF o = 0 THEN 0 ELSE x[o] + sum[o - 1]
  IN  sum[Cardinality(Objects)]

computeBaselines(rows) ==
  [spend |-> Total([o \in Objects |-> orZero(rows[o].spend)]),
   purchases |-> Total([o \in Objects |-> orZero(rows[o].purchases)]),
   value |-> IF \A o \in Objects : rows[o].value = Null THEN Null
             ELSE Total([o \in Objects |-> orZero(rows[o].value)])]

accountRoas(b) == ratio(b.value, b.spend)
accountCostPerPurchase(b) == ratio(b.spend, b.purchases)

\* A twentieth of the spend.
material(s, b) == s > 0 /\ 20 * s >= b.spend
\* Half of it.
dominant(s, b) == 2 * s >= b.spend

budgetOwnerOf(level, o, cbo) ==
  IF level = "campaign" THEN "campaign"
  ELSE IF budgetOf[o] # "none" THEN "adset"
  ELSE IF cbo THEN "campaign" ELSE "unknown"

\* The level of the object whose budget a tool can raise, if one can.
budgetActionFor(level, o, cbo) ==
  IF level = "campaign" THEN "campaign"
  ELSE IF budgetOwnerOf(level, o, cbo) = "adset" /\ budgetOf[o] = "daily" THEN "adset"
  ELSE "none"

Stop == {"zero_conversion_spend", "low_roas"}

actionTypeFor(kind, level, owner) ==
  CASE kind \in Stop -> "PAUSE"
    [] kind = "high_roas_underfunded" /\ owner # "unknown" -> "CHANGE_BUDGET"
    [] OTHER -> "INVESTIGATE"

MIN_PURCHASES_FOR_HIGH_CONFIDENCE == 3

confidenceFor(kind, m, b) ==
  LET s == orZero(m.spend)
      level == IF b.spend > 0 /\ 10 * s >= b.spend THEN "high"
               ELSE IF b.spend > 0 /\ 20 * s >= b.spend THEN "medium" ELSE "low"
      few == kind = "high_roas_underfunded"
             /\ orZero(m.purchases) < MIN_PURCHASES_FOR_HIGH_CONFIDENCE
  IN  IF few THEN (IF level = "high" THEN "medium" ELSE "low") ELSE level
-----------------------------------------------------------------------------
(* The signals of a row m, with status st and earlier metrics p, given the  *)
(* baselines b.                                                             *)

pausedNotSpending(m, st) == st = "PAUSED" /\ orZero(m.spend) = 0
activeNoDelivery(m, st) == st = "ACTIVE" /\ orZero(m.spend) = 0 /\ orZero(m.impressions) = 0

zeroConversionSpend(m, b) ==
  /\ material(orZero(m.spend), b) /\ m.purchases = 0
  /\ b.purchases > 0 => m.spend * b.purchases >= b.spend

converts(m) == m.purchases > 0 /\ rate(m, "roas") # NoRate

\* Less than half of the account's return.
lowRoas(m, b) ==
  /\ material(orZero(m.spend), b) /\ converts(m) /\ accountRoas(b) # NoRate
  /\ belowHalves(rate(m, "roas"), accountRoas(b), 1)

\* highRoasUnderfunded from the account's own return on.
highRoasUnderfundedSooner(m, b) ==
  /\ orZero(m.spend) > 0 /\ converts(m) /\ accountRoas(b) # NoRate
  /\ accountCostPerPurchase(b) # NoRate /\ m.spend * b.purchases >= b.spend
  /\ aboveHalves(rate(m, "roas"), accountRoas(b), 2)
  /\ ~dominant(m.spend, b)

\* More than one and a half times of it, on less than half of the spend but the
\* cost of one purchase at least.
highRoasUnderfunded(m, b) ==
  /\ orZero(m.spend) > 0 /\ converts(m) /\ accountRoas(b) # NoRate
  /\ accountCostPerPurchase(b) # NoRate /\ m.spend * b.purchases >= b.spend
  /\ aboveHalves(rate(m, "roas"), accountRoas(b), 3)
  /\ ~dominant(m.spend, b)

moved(m, p, metric, Up(_, _, _)) ==
  /\ comparable(rate(m, metric), rate(p, metric))
  /\ Up(rate(m, metric), rate(p, metric), MATERIAL_CHANGE_PCT)

trends(m, p) ==
  (IF moved(m, p, "costPerPurchase", percentUp) THEN {"cpa_rising"} ELSE {}) \cup
  (IF moved(m, p, "ctr", percentDown) THEN {"ctr_falling"} ELSE {}) \cup
  (IF moved(m, p, "cpc", percentUp) THEN {"cpc_rising"} ELSE {}) \cup
  (IF moved(m, p, "cpm", percentUp) THEN {"cpm_rising"} ELSE {}) \cup
  (IF moved(m, p, "roas", percentUp) THEN {"improving"} ELSE {})

findingsForRow(m, st, p, b) ==
  IF pausedNotSpending(m, st) THEN {"paused_not_spending"}
  ELSE IF activeNoDelivery(m, st) THEN {"active_no_delivery"}
  ELSE (IF zeroConversionSpend(m, b) THEN {"zero_conversion_spend"} ELSE {}) \cup
       (IF lowRoas(m, b) THEN {"low_roas"} ELSE {}) \cup
       (IF highRoasUnderfunded(m, b) THEN {"high_roas_underfunded"} ELSE {}) \cup
       (IF material(orZero(m.spend), b) THEN trends(m, p) ELSE {})

writeToolOf(kind, level, o, cbo) ==
  CASE kind \in Stop -> level
    [] kind = "high_roas_underfunded" -> budgetActionFor(level, o, cbo)
    [] OTHER -> "none"

Finding(kind, o, m, b, level, cbo) ==
  [kind |-> kind, object |-> o, stake |-> orZero(m.spend),
   actionType |-> actionTypeFor(kind, level, budgetOwnerOf(level, o, cbo)),
   confidence |-> confidenceFor(kind, m, b),
   writeTool |-> writeToolOf(kind, level, o, cbo)]
-----------------------------------------------------------------------------
RANKED_KINDS == {"zero_conversion_spend", "low_roas", "high_roas_underfunded",
                 "cpa_rising", "ctr_falling", "cpc_rising", "cpm_rising"}

\* Actions before observations, then the most spend; ties as they were found.
precedes(f, g) ==
  IF (f.kind \in RANKED_KINDS) # (g.kind \in RANKED_KINDS) THEN f.kind \in RANKED_KINDS
  ELSE f.stake > g.stake \/ (f.stake = g.stake /\ f.object < g.object)

MAX_FINDINGS == 8
\* What the model is shown; of findings that tie on one object any may be cut.
shown(findings, limit) ==
  {f \in findings : Cardinality({g \in findings : precedes(g, f)}) < limit}

AdviceInit ==
  advice = [pc |-> "idle", level |-> "ad", cbo |-> FALSE,
            rows |-> [o \in Objects |-> CHOOSE m \in Metrics : TRUE], findings |-> {}]

\* What is found in the rows; only the first has a past p and a status st of its own here.
findingsOf(level, cbo, rows, p, st) ==
  LET b == computeBaselines(rows)
      before(o) == IF o = 1 THEN p ELSE CHOOSE q \in Earlier : q.spend = Null
      status(o) == IF o = 1 THEN st ELSE "ACTIVE"
  IN  UNION {{Finding(k, o, rows[o], b, level, cbo) :
                k \in findingsForRow(rows[o], status(o), before(o), b)} : o \in Objects}

\* meta_find_opportunities: one analysis of what the account reports.
analyze ==
  /\ advice.pc = "idle"
  /\ \E level \in Levels, cbo \in BOOLEAN, rows \in [Objects -> Metrics],
        p \in Earlier, st \in Statuses :
       /\ level = "campaign" => ~cbo
       /\ advice' = [pc |-> "done", level |-> level, cbo |-> cbo, rows |-> rows,
                     findings |-> findingsOf(level, cbo, rows, p, st)]

AdviceSpec == AdviceInit /\ [][analyze]_adviceVars
-----------------------------------------------------------------------------
AdviceTypeOK ==
  /\ advice.pc \in {"idle", "done"} /\ advice.level \in Levels \cup {"ad"}
  /\ advice.rows \in [Objects -> Metrics]
  /\ \A f \in advice.findings : f.object \in Objects /\ f.stake \in Nat

advisedTo(kinds) == {f.object : f \in {g \in advice.findings : g.kind \in kinds}}
spent(S) == Total([o \in Objects |-> IF o \in S THEN orZero(advice.rows[o].spend) ELSE 0])

\* Meta reports a return below what its own counters give, or not below.
understated(o) == lower(rate(advice.rows[o], "roas"), derived(advice.rows[o], "roas"))
bornOut(o) == atMost(rate(advice.rows[o], "roas"), derived(advice.rows[o], "roas"))

\* The pieces of advice fit together. Whatever Meta reports: no object is to be
\* stopped and grown at once; what can be written is a write; and an
\* observation, or a smaller stake, never pushes an action off a short list,
\* however short. Of the objects that bring the account's revenue one at least
\* is left running, where revenue is reported with the purchases it comes from
\* and no return below it; and those to be grown hold less than two thirds of
\* the spend, so that there is something to shift, where their counters bear
\* out the returns Meta reports of them.
AdviceIsCoherent ==
  /\ advisedTo(Stop) \cap advisedTo({"high_roas_underfunded"}) = {}
  /\ LET earners == {o \in Objects : advice.rows[o].value > 0}
     IN  earners # {} /\ (\A o \in earners : advice.rows[o].purchases > 0 /\ ~understated(o))
           => \E o \in earners : o \notin advisedTo(Stop)
  /\ LET grown == advisedTo({"high_roas_underfunded"})
     IN  grown # {} /\ (\A o \in grown : bornOut(o)) => 3 * spent(grown) < 2 * spent(Objects)
  /\ \A f \in advice.findings : f.writeTool # "none" => f.actionType # "INVESTIGATE"
  /\ \A limit \in 1..MAX_FINDINGS :
       LET list == shown(advice.findings, limit)
       IN  \A f \in list, g \in advice.findings \ list :
             /\ g.kind \notin {"paused_not_spending", "active_no_delivery", "improving"} =>
                  f.kind \in RANKED_KINDS
             /\ f.kind \in RANKED_KINDS /\ g.kind \in RANKED_KINDS => f.stake >= g.stake
=============================================================================
