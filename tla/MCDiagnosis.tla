---------------------------- MODULE MCDiagnosis ----------------------------
(* Model checking of Diagnosis where Meta reports the return of the whole:  *)
(* the row of metrics.test.ts:130-138, of which Meta reports 4.75 while its *)
(* counters give 5, and one that sold nothing.                              *)
EXTENDS Diagnosis

Row(p, v) == [spend |-> 100, impressions |-> 1000, clicks |-> 40, purchases |-> p,
              value |-> v, cost |-> NoRate, roas |-> NoRate]
RowMetrics == {Row(4, 500), Row(0, Null)}
RowBudget == [o \in Objects |-> "daily"]
Headlines == {<<NoRate, NoRate>>, <<<<19, 4>>, NoRate>>}
=============================================================================
