------------------------------ MODULE Diagnosis ------------------------------
(* Where a change came from: the return split into the four factors that    *)
(* make it up, the change shared out among the children of what is looked   *)
(* at, and signals beside them (src/src/claude/diagnosis-engine.ts). The    *)
(* counters of the whole are the sums over the children; what Meta reports  *)
(* of its return is a reading of its own. Frequency, texts, and the size of *)
(* a factor's share, a quotient of logarithms, are left out.                *)
EXTENDS PerformanceReview

CONSTANTS
  PeriodBudget,    \* a child's daily budget times the days, where it has one
  HeadlineReports  \* what Meta may report of the return of the whole: <<now, before>>

ASSUME DiagnosisAssumption == HeadlineReports \subseteq Rates \X Rates

VARIABLE diagnosis       \* [pc, now, before, factors, contributions]

diagnosisVars == <<diagnosis>>

Factors == {"cpm", "ctr", "conversionRate", "averageOrderValue"}

Whole(rows, reported) ==
  [spend |-> Total([o \in Objects |-> orZero(rows[o].spend)]),
   impressions |-> Total([o \in Objects |-> orZero(rows[o].impressions)]),
   clicks |-> Total([o \in Objects |-> orZero(rows[o].clicks)]),
   purchases |-> Total([o \in Objects |-> orZero(rows[o].purchases)]),
   value |-> computeBaselines(rows).value, cost |-> NoRate, roas |-> reported]

positive(x) == x # NoRate /\ x[1] > 0
blockedBy(now, before) ==
  {f \in Factors : ~positive(reading(now, f)) \/ ~positive(reading(before, f))}

\* Whether the return went down or up, and the factors that moved it so; none is
\* told while one is blocked.
decomposeRoas(now, before) ==
  LET fell == {f \in Factors : lower(reading(now, f), reading(before, f))}
      rose == {f \in Factors : lower(reading(before, f), reading(now, f))}
      blocked == blockedBy(now, before)
  IN  [fell |-> lower(rate(now, "roas"), rate(before, "roas")),
       rose |-> lower(rate(before, "roas"), rate(now, "roas")),
       blockedBy |-> blocked,
       hurt |-> IF blocked # {} THEN {} ELSE (fell \ {"cpm"}) \cup (rose \cap {"cpm"}),
       helped |-> IF blocked # {} THEN {} ELSE (rose \ {"cpm"}) \cup (fell \cap {"cpm"})]
-----------------------------------------------------------------------------
(* The children.                                                            *)

\* Of the spend of the whole, at least k per cent.
shareAtLeast(m, whole, k) == whole.spend > 0 /\ 100 * orZero(m.spend) >= k * whole.spend

diagnosisConfidence(m, p, whole) ==
  LET n == orZero(m.purchases) + orZero(p.purchases) IN
  CASE p = Absent \/ ~shareAtLeast(m, whole, 5) \/ n < MIN_PURCHASES_FOR_HIGH_CONFIDENCE -> "low"
    [] p # Absent /\ shareAtLeast(m, whole, 10) /\ n >= 3 * MIN_PURCHASES_FOR_HIGH_CONFIDENCE -> "high"
    [] OTHER -> "medium"

\* A child's part in the change of the whole, by "change" purchases: no part of
\* it when the child was not there before.
attribute(m, p, change, whole) ==
  LET known == p # Absent
      delta == IF known THEN orZero(m.purchases) - orZero(p.purchases) ELSE 0
  IN  [known |-> known, deltaPurchases |-> delta,
       deltaSpend |-> orZero(m.spend) - orZero(p.spend),
       share |-> IF ~known \/ change = 0 THEN NoRate ELSE <<delta, change>>,
       movedWithScope |-> delta * change > 0,
       material |-> whole.spend > 0 /\ 10000 * orZero(m.spend) >= 495 * whole.spend,
       confidence |-> diagnosisConfidence(m, p, whole)]

\* The use of the budget, as the share of the spend above, is rounded to a tenth of a per cent.
observedSignals(o, m, c) ==
  (IF c.material /\ budgetOf[o] = "daily" /\ 10000 * orZero(m.spend) >= 9495 * PeriodBudget
   THEN {"budget_capped"} ELSE {}) \cup
  (IF c.material /\ budgetOf[o] = "daily" /\ 10000 * orZero(m.spend) < 6005 * PeriodBudget
   THEN {"under_delivering"} ELSE {}) \cup
  (IF c.material /\ c.deltaSpend > 0 /\ c.known /\ c.deltaPurchases <= 0
   THEN {"spend_shifted"} ELSE {}) \cup
  (IF orZero(m.spend) = 0 /\ orZero(m.impressions) = 0 THEN {"no_delivery"} ELSE {})

\* The largest part first, then the most spend.
listedBefore(c, d, m, n) ==
  LET size(x) == IF x < 0 THEN 0 - x ELSE x
      part(x) == IF x.share = NoRate THEN 0 ELSE size(x.deltaPurchases)
  IN  part(c) > part(d) \/ (part(c) = part(d) /\ orZero(m.spend) > orZero(n.spend))

DiagnosisInit ==
  diagnosis = [pc |-> "idle", now |-> [o \in Objects |-> CHOOSE m \in Metrics : TRUE],
               before |-> [o \in Objects |-> Absent], factors |-> <<>>, contributions |-> <<>>]

diagnose ==
  /\ diagnosis.pc = "idle"
  /\ \E now \in [Objects -> Metrics], before \in [Objects -> Earlier], told \in HeadlineReports :
       LET whole == Whole(now, told[1])
           past == Whole(before, told[2])
           change == whole.purchases - past.purchases
       IN  diagnosis' = [pc |-> "done", now |-> now, before |-> before,
             factors |-> decomposeRoas(whole, past),
             contributions |-> [o \in Objects |-> attribute(now[o], before[o], change, whole)]]

overallConfidence ==
  LET levels == {diagnosis.contributions[o].confidence : o \in Objects}
  IN  IF "high" \in levels THEN "high" ELSE IF "medium" \in levels THEN "medium" ELSE "low"

DiagnosisSpec ==
  /\ DiagnosisInit /\ ReviewInit /\ AdviceInit
  /\ [][diagnose /\ UNCHANGED <<reviewVars, adviceVars>>]_diagnosisVars
-----------------------------------------------------------------------------
DiagnosisTypeOK ==
  /\ diagnosis.pc \in {"idle", "done"} /\ diagnosis.now \in [Objects -> Metrics]
  /\ diagnosis.before \in [Objects -> Earlier \cup {Absent}]
  /\ diagnosis.pc = "done" => overallConfidence \in {"low", "medium", "high"}

\* Revenue for the money spent that fell has a factor that hurt it, and one that
\* rose a factor that helped, unless the split is blocked, which it is only
\* where a period sold nothing of a known value. When every child was there
\* before, their parts are the whole change: one moved with it, and so much as
\* an equal part is listed first. Spend that went up without more purchases
\* never shows in the review as a cheaper purchase, nor as a better return on
\* the same revenue, unless Meta reports rates its counters do not bear out.
DiagnosisExplains ==
  diagnosis.pc = "done" =>
    LET now == Whole(diagnosis.now, NoRate)
        before == Whole(diagnosis.before, NoRate)
        part == diagnosis.contributions
        change == now.purchases - before.purchases
        size(x) == IF x < 0 THEN 0 - x ELSE x
        first == {o \in Objects : \A q \in Objects :
                    ~listedBefore(part[q], part[o], diagnosis.now[q], diagnosis.now[o])}
    IN
    /\ IF diagnosis.factors.blockedBy = {}
       THEN /\ lower(derived(now, "roas"), derived(before, "roas")) => diagnosis.factors.hurt # {}
            /\ lower(derived(before, "roas"), derived(now, "roas")) => diagnosis.factors.helped # {}
       ELSE \E w \in {now, before} : w.value <= 0 \/ 0 \in {w.purchases, w.clicks, w.impressions, w.spend}
    /\ change # 0 /\ (\A o \in Objects : part[o].known) =>
         /\ \E o \in Objects : part[o].movedWithScope
         /\ \A o \in first : Cardinality(Objects) * size(part[o].deltaPurchases) >= size(change)
    /\ \A o \in Objects : "spend_shifted" \in observedSignals(o, diagnosis.now[o], part[o]) =>
         LET m == diagnosis.now[o]
             p == diagnosis.before[o]
             better == improvementSignals(m, p)
         IN  /\ /\ atMost(derived(m, "costPerPurchase"), rate(m, "costPerPurchase"))
                /\ atMost(rate(p, "costPerPurchase"), derived(p, "costPerPurchase"))
                => "costPerPurchase" \notin better
             /\ /\ atMost(rate(m, "roas"), derived(m, "roas"))
                /\ atMost(derived(p, "roas"), rate(p, "roas"))
                /\ "roas" \in better
                => "purchaseValue" \in better

\* "ROAS is an identity ... so a change in ROAS decomposes exactly into changes
\* in those four" (diagnosis-engine.ts:17-22): where all four are told, a return
\* said to have fallen has a factor that hurt it, one said to have risen a
\* factor that helped.
HeadlineExplained ==
  diagnosis.pc = "done" /\ diagnosis.factors.blockedBy = {} =>
    /\ diagnosis.factors.fell => diagnosis.factors.hurt # {}
    /\ diagnosis.factors.rose => diagnosis.factors.helped # {}
=============================================================================
