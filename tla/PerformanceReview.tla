-------------------------- MODULE PerformanceReview --------------------------
(* The review of the assistant: which objects are weak now, which got worse *)
(* and which cannot be judged (src/src/claude/performance-review.ts). It is *)
(* computed beside the advice of DecisionEngine, from the same rows, and    *)
(* both are told to the user. Texts and the order of the lists are left out.*)
EXTENDS DecisionEngine

CONSTANT ReviewStatuses      \* effective statuses an object is reviewed with

VARIABLE review              \* [pc, rows, before: of the first row, status, objects]

reviewVars == <<review>>

Absent == [spend |-> Null, impressions |-> Null, clicks |-> Null, purchases |-> Null,
           value |-> Null, cost |-> NoRate, roas |-> NoRate]
amount(x) == IF x = Null THEN NoRate ELSE <<x, 1>>

HigherIsBetter == {"purchases", "purchaseValue", "roas", "ctr", "conversionRate", "averageOrderValue"}
LowerIsBetter == {"costPerPurchase", "cpc", "cpm"}
PurchaseBound == {"purchases", "purchaseValue", "roas", "costPerPurchase", "conversionRate",
                  "averageOrderValue"}

reading(m, metric) ==
  CASE metric = "purchases" -> amount(m.purchases)
    [] metric = "purchaseValue" -> amount(m.value)
    [] metric = "conversionRate" -> ratio(m.purchases, m.clicks)
    [] metric = "averageOrderValue" -> ratio(m.value, m.purchases)
    [] OTHER -> rate(m, metric)
-----------------------------------------------------------------------------
(* One metric over both periods, x now and y before.                        *)

\* A change is rounded to a tenth of a per cent before it is compared with 20;
\* halves are rounded upwards, so 19.95 is enough of a rise and not of a fall.
rises(x, y) ==
  IF y[1] = 0 THEN x[1] > 0 ELSE 10000 * (x[1] * y[2] - y[1] * x[2]) >= 1995 * y[1] * x[2]
falls(x, y) == y[1] # 0 /\ 10000 * (y[1] * x[2] - x[1] * y[2]) > 1995 * y[1] * x[2]

enoughPurchases(metric, m, p) ==
  metric \in PurchaseBound =>
    \E q \in {m, p} : orZero(q.purchases) >= MIN_PURCHASES_FOR_HIGH_CONFIDENCE

moves(m, p, metric) ==
  enoughPurchases(metric, m, p) /\ NoRate \notin {reading(m, metric), reading(p, metric)}

deteriorationSignals(m, p) ==
  {k \in HigherIsBetter : moves(m, p, k) /\ falls(reading(m, k), reading(p, k))} \cup
  {k \in LowerIsBetter : moves(m, p, k) /\ rises(reading(m, k), reading(p, k))}
improvementSignals(m, p) ==
  {k \in HigherIsBetter : moves(m, p, k) /\ rises(reading(m, k), reading(p, k))} \cup
  {k \in LowerIsBetter : moves(m, p, k) /\ falls(reading(m, k), reading(p, k))}

PATTERNS == {{"costPerPurchase", "roas", "purchases"}, {"ctr", "cpc", "purchases"}}

trend(p, worse, better) ==
  CASE p = Absent -> "unknown"
    [] p # Absent /\ worse # {} /\ better # {} -> "mixed"
    [] p # Absent /\ worse # {} /\ better = {} -> "deteriorating"
    [] p # Absent /\ worse = {} /\ better # {} -> "improving"
    [] OTHER -> "flat"
-----------------------------------------------------------------------------
(* One object in the period, against the baselines b of the account.        *)

exclusionOf(m, st) ==
  CASE st = "PAUSED" -> "paused"
    [] st \notin {"PAUSED", "ACTIVE"} -> "inactive"
    [] st = "ACTIVE" /\ orZero(m.spend) = 0 /\ orZero(m.impressions) = 0 -> "no_delivery"
    [] OTHER -> "none"

sufficiencyOf(m, b) ==
  LET thin == {x \in {"spend", "purchases"} :
                 \/ x = "spend" /\ 20 * orZero(m.spend) < b.spend
                 \/ x = "purchases" /\ orZero(m.purchases) < MIN_PURCHASES_FOR_HIGH_CONFIDENCE}
  IN  CASE orZero(m.spend) = 0 \/ Cardinality(thin) = 2 -> "insufficient"
        [] orZero(m.spend) > 0 /\ Cardinality(thin) = 1 -> "limited"
        [] OTHER -> "sufficient"

judgedByReturn(m, b) == rate(m, "roas") # NoRate /\ accountRoas(b) # NoRate
paysForItself(m, b) == judgedByReturn(m, b) /\ ~lower(rate(m, "roas"), accountRoas(b))

weaknessesOf(m, b) ==
  (IF orZero(m.purchases) = 0 /\ orZero(m.spend) > 0
      /\ (b.purchases > 0 => m.spend * b.purchases >= b.spend)
   THEN {"zero_conversion_spend"} ELSE {}) \cup
  (IF judgedByReturn(m, b) /\ belowHalves(rate(m, "roas"), accountRoas(b), 1)
   THEN {"roas_below_account"} ELSE {}) \cup
  (IF /\ ~paysForItself(m, b)
      /\ rate(m, "costPerPurchase") # NoRate /\ accountCostPerPurchase(b) # NoRate
      /\ aboveHalves(rate(m, "costPerPurchase"), accountCostPerPurchase(b), 3)
   THEN {"cpa_above_account"} ELSE {})

isStrong(m, b) ==
  /\ judgedByReturn(m, b) /\ aboveHalves(rate(m, "roas"), accountRoas(b), 3)
  /\ orZero(m.purchases) >= MIN_PURCHASES_FOR_HIGH_CONFIDENCE

reviewRow(m, p, st, b) ==
  LET excluded == exclusionOf(m, st)
      worse == deteriorationSignals(m, p)
  IN  [excludedBecause |-> excluded, sufficiency |-> sufficiencyOf(m, b),
       trend |-> trend(p, worse, improvementSignals(m, p)), worse |-> worse,
       patterns |-> {k \in PATTERNS : k \subseteq worse},
       weaknesses |-> IF excluded = "none" THEN weaknessesOf(m, b) ELSE {},
       strong |-> excluded = "none" /\ isStrong(m, b)]
-----------------------------------------------------------------------------
ReviewInit ==
  review = [pc |-> "idle", rows |-> [o \in Objects |-> CHOOSE m \in Metrics : TRUE],
            before |-> Absent, status |-> "ACTIVE", objects |-> <<>>]

\* One review; as in analyze only the first row has a past and a status of its own.
reviewPerformance ==
  /\ review.pc = "idle"
  /\ \E rows \in [Objects -> Metrics], p \in Earlier, st \in ReviewStatuses :
       LET b == computeBaselines(rows) IN
       review' = [pc |-> "done", rows |-> rows, before |-> p, status |-> st,
                  objects |-> [o \in Objects |-> IF o = 1 THEN reviewRow(rows[o], p, st, b)
                                                ELSE reviewRow(rows[o], Absent, "ACTIVE", b)]]

\* The lists of the review.
active == {o \in Objects : review.objects[o].excludedBecause = "none"}
judged == {o \in active : review.objects[o].sufficiency # "insufficient"}
deteriorating == {o \in judged : review.objects[o].worse # {}}
underperforming == {o \in judged : review.objects[o].weaknesses # {}}
strong == {o \in judged : review.objects[o].strong}
insufficientData == active \ judged

ReviewSpec == ReviewInit /\ AdviceInit /\ [][reviewPerformance /\ UNCHANGED adviceVars]_reviewVars
-----------------------------------------------------------------------------
ReviewTypeOK ==
  /\ review.pc \in {"idle", "done"} /\ review.rows \in [Objects -> Metrics]
  /\ review.before \in Earlier \cup {Absent} /\ review.status \in ReviewStatuses \cup {"ACTIVE"}
  /\ review.pc = "done" => DOMAIN review.objects = Objects

\* What DecisionEngine finds in an object of the review.
foundIn(o) ==
  findingsForRow(review.rows[o], IF o = 1 THEN review.status ELSE "ACTIVE",
                 IF o = 1 THEN review.before ELSE Absent, computeBaselines(review.rows))

\* The review never contradicts itself or the advice given on the same rows. A
\* strong object is on no list of weak ones, nor among those too thin to judge.
\* Of the objects that run: one to be stopped is weak, one to be grown is not,
\* and is strong once its purchases suffice. A cost, a click rate or a return
\* that moved for the advice, on enough purchases, has moved in the review, the
\* way it should.
ReviewIsCoherent ==
  review.pc = "done" =>
    /\ strong \cap (underperforming \cup insufficientData) = {}
    /\ \A o \in Objects :
         LET it == review.objects[o]
             m == review.rows[o]
             p == IF o = 1 THEN review.before ELSE Absent
             found == foundIn(o)
             enough == \E q \in {m, p} : orZero(q.purchases) >= MIN_PURCHASES_FOR_HIGH_CONFIDENCE
         IN  it.excludedBecause = "none" =>
               /\ found \cap Stop # {} => o \in underperforming
               /\ "high_roas_underfunded" \in found =>
                    /\ o \notin underperforming
                    /\ m.purchases >= MIN_PURCHASES_FOR_HIGH_CONFIDENCE => o \in strong
               /\ "ctr_falling" \in found => "ctr" \in it.worse
               /\ enough /\ "cpa_rising" \in found => it.trend \in {"deteriorating", "mixed"}
               /\ enough /\ "improving" \in found => it.trend \in {"improving", "mixed"}
=============================================================================
