----------------------------- MODULE MetaErrors -----------------------------
(* classifyMetaError (src/src/meta/errors.ts): the decision table from a   *)
(* Graph API error [code, subcode] to what the client does about it.       *)
(* Messages and the critical flag, which only logs read, are left out.     *)
EXTENDS Integers

CONSTANTS
  GlobalInsightsHint,  \* 2 min
  BlockHint,           \* 30 min
  AbuseHint            \* 60 min

NoHint == -1

BUC_RATE_LIMIT_CODES == (80000..80009 \ {80007}) \cup {80014}

\* The table: the categories in the order the code tries them, each with the
\* errors it matches. (First a mutant of it: transient before abuse.)
OrderTransientFirst == <<"transient", "abuse_signal", "auth", "temporary_block",
           "data_per_call_limit", "global_insights_rate_limit", "buc_rate_limit",
           "platform_rate_limit", "invalid_params", "duplicate", "unknown">>
Order == <<"abuse_signal", "auth", "temporary_block", "data_per_call_limit",
           "global_insights_rate_limit", "buc_rate_limit",
           "platform_rate_limit", "invalid_params", "duplicate", "transient",
           "unknown">>

Matches(category, e) ==
  CASE category = "abuse_signal"        -> e.subcode = 1996
    [] category = "auth"                -> e.code \in {190, 102, 10}
    [] category = "temporary_block"     -> e.code = 368 \/ e.subcode = 1487742
    [] category = "data_per_call_limit" -> e.code = 100 /\ e.subcode = 1487534
    [] category = "global_insights_rate_limit" ->
         e.code = 4 /\ e.subcode = 1504022
    [] category = "buc_rate_limit"      -> e.code \in BUC_RATE_LIMIT_CODES
    [] category = "platform_rate_limit" -> e.code \in {4, 17, 32, 613}
    [] category = "invalid_params"      -> e.code \in {803, 100}
    [] category = "duplicate"           -> e.code = 2650
    [] category = "transient"           -> e.code \in {1, 2}
    [] category = "unknown"             -> TRUE

CategoryOf(e) ==
  Order[CHOOSE i \in DOMAIN Order :
          /\ Matches(Order[i], e)
          /\ \A j \in 1..(i - 1) : ~Matches(Order[j], e)]

Throttling == {"abuse_signal", "temporary_block", "global_insights_rate_limit",
               "buc_rate_limit", "platform_rate_limit"}

classifyMetaError(e) ==
  LET category == CategoryOf(e)
  IN  [category   |-> category,
       throttled  |-> category \in Throttling,
       retryable  |-> category = "transient",
       retryAfter |-> CASE category = "abuse_signal"    -> AbuseHint
                        [] category = "temporary_block" -> BlockHint
                        [] category = "global_insights_rate_limit" ->
                             GlobalInsightsHint
                        [] OTHER -> NoHint]
=============================================================================
