------------------------------ MODULE MCBackend ------------------------------
(* The components behind the tools and the dashboard that share no state:   *)
(* each behaviour is one of a single component, the one "part" names, while *)
(* the others stay as they began. The reachable states are those of all the *)
(* components side by side, not their product.                              *)
EXTENDS CloneBundle, OAuth, MetaTokens, DatasetLookup, AgentTurn, BulkAds, UrlTags,
        McpTools, Diagnosis

VARIABLE part

CONSTANTS r1, r2, r3, n1, n2, l1, l2, l3, d1, d2, idA, idB

\* The third call has other arguments than the first two.
ClonePayload == [r \in Runs |-> IF r = r3 THEN r3 ELSE r1]
PersonalToken == n1
LookupDataset == [l \in Lookups |-> IF l = l3 THEN d2 ELSE d1]
LookupTarget == [l \in Lookups |-> IF l = l2 THEN idB ELSE idA]
DatasetContents ==
  [d \in Datasets |-> IF d = d1 THEN {<<idA, idB>>, <<idB>>} ELSE {<<idB>>, <<NoId, idB>>}]

\* Rows without and with rates of Meta's own. The last ones report a return and
\* a cost as derived, a return far below the counters, and one above them on
\* revenue that is not known.
Row(s, i, c, p, v) ==
  [spend |-> s, impressions |-> i, clicks |-> c, purchases |-> p, value |-> v,
   cost |-> NoRate, roas |-> NoRate]
With(row, cost, roas) == [row EXCEPT !.cost = cost, !.roas = roas]
SmallSales == {<<0, Null>>, <<1, 40>>}
LargeSales == SmallSales \cup {<<1, 1>>, <<3, 1>>, <<3, 40>>, <<3, Null>>}
RowMetrics == {Row(0, 0, 0, 0, Null), Row(0, 10, 2, 0, Null)}
              \cup {Row(1, 10, 2, sale[1], sale[2]) : sale \in SmallSales}
              \cup {Row(20, 10, 2, sale[1], sale[2]) : sale \in LargeSales}
              \cup {With(Row(20, 10, 2, 3, 40), <<20, 3>>, <<2, 1>>),
                    With(Row(20, 10, 2, 3, 40), NoRate, <<1, 4>>),
                    With(Row(20, 10, 2, 3, Null), <<1, 1>>, <<5, 1>>)}
EarlierMetrics == {Absent, Row(20, 20, 6, 3, 20), Row(1, 1, 1, 1, 10),
                   With(Row(10, 20, 6, 3, 20), <<3, 1>>, <<3, 1>>)}
RowBudget == <<"daily", "lifetime", "none">>
Headlines == {<<NoRate, NoRate>>}

Parts == {"clone", "oauth", "tokens", "lookup", "agent", "bulk", "tags", "tools", "advice", "review", "diagnosis"}

BackendInit ==
  /\ part \in Parts
  /\ CloneInit /\ OAuthInit /\ TokensInit /\ LookupInit /\ AgentInit /\ BulkInit
  /\ TagsInit /\ ToolsInit /\ AdviceInit /\ ReviewInit /\ DiagnosisInit
  \* What one component chooses is chosen in its own behaviours only.
  /\ part # "lookup" => content = [d \in Datasets |-> <<idB>>]
  /\ part # "tags" => pointsAt = [a \in TaggedAds |-> Original(CHOOSE c \in Sources : TRUE)]

analysisVars == <<adviceVars, reviewVars, diagnosisVars>>
backendVars == <<part, cloneVars, oauthVars, tokenVars, lookupVars, agentVars, bulkVars, tagVars,
                 toolVars, analysisVars>>

BackendNext ==
  /\ UNCHANGED part
  /\ \/ part = "clone" /\ CloneNext
        /\ UNCHANGED <<oauthVars, tokenVars, lookupVars, agentVars, bulkVars, tagVars, toolVars, analysisVars>>
     \/ part = "oauth" /\ OAuthNext
        /\ UNCHANGED <<cloneVars, tokenVars, lookupVars, agentVars, bulkVars, tagVars, toolVars, analysisVars>>
     \/ part = "tokens" /\ TokensNext
        /\ UNCHANGED <<cloneVars, oauthVars, lookupVars, agentVars, bulkVars, tagVars, toolVars, analysisVars>>
     \/ part = "lookup" /\ LookupNext
        /\ UNCHANGED <<cloneVars, oauthVars, tokenVars, agentVars, bulkVars, tagVars, toolVars, analysisVars>>
     \/ part = "agent" /\ AgentNext
        /\ UNCHANGED <<cloneVars, oauthVars, tokenVars, lookupVars, bulkVars, tagVars, toolVars, analysisVars>>
     \/ part = "bulk" /\ BulkNext
        /\ UNCHANGED <<cloneVars, oauthVars, tokenVars, lookupVars, agentVars, tagVars, toolVars, analysisVars>>
     \/ part = "tags" /\ TagsNext
        /\ UNCHANGED <<cloneVars, oauthVars, tokenVars, lookupVars, agentVars, bulkVars, toolVars, analysisVars>>
     \/ part = "tools" /\ ToolsNext
        /\ UNCHANGED <<cloneVars, oauthVars, tokenVars, lookupVars, agentVars, bulkVars, tagVars, analysisVars>>
     \/ part = "advice" /\ analyze
        /\ UNCHANGED <<cloneVars, oauthVars, tokenVars, lookupVars, agentVars, bulkVars, tagVars, toolVars, reviewVars, diagnosisVars>>
     \/ part = "review" /\ reviewPerformance
        /\ UNCHANGED <<cloneVars, oauthVars, tokenVars, lookupVars, agentVars, bulkVars, tagVars, toolVars, adviceVars, diagnosisVars>>
     \/ part = "diagnosis" /\ diagnose
        /\ UNCHANGED <<cloneVars, oauthVars, tokenVars, lookupVars, agentVars, bulkVars, tagVars, toolVars, adviceVars, reviewVars>>

BackendSpec == BackendInit /\ [][BackendNext]_backendVars
-----------------------------------------------------------------------------
\* Every component stays within its type (the declarations of its module).
BackendTypeOK ==
  /\ part \in Parts
  /\ CloneTypeOK /\ OAuthTypeOK /\ TokensTypeOK /\ LookupTypeOK /\ AgentTypeOK /\ BulkTypeOK
  /\ TagsTypeOK /\ ToolsTypeOK /\ AdviceTypeOK /\ ReviewTypeOK /\ DiagnosisTypeOK

\* The three analyses the assistant may run on the same rows each hang together
\* and do not contradict one another.
AnalysesAgree == AdviceIsCoherent /\ ReviewIsCoherent /\ DiagnosisExplains
=============================================================================
