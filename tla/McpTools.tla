------------------------------ MODULE McpTools ------------------------------
(* The tools of the MCP server (src/src/tools): for each, the hints it is   *)
(* registered with and the requests its handler makes, in order, to Meta,   *)
(* to Apify, to Gemini and to the stores. What the host of the server may   *)
(* do with a tool follows from the hints; whether it may is decided by the  *)
(* requests. Schemas, fields and texts are left out. The three tools with   *)
(* more control than a sequence are in CloneBundle, BulkAds and UrlTags.    *)
EXTENDS Integers, Sequences

CONSTANTS
  MaxTries,  \* bound: how often the host makes one call
  MaxSends   \* bound: how often the Meta client sends a request that it resends

ASSUME ToolsAssumption == MaxTries \in Nat \ {0} /\ MaxSends \in Nat \ {0}

VARIABLES
  toolCall,  \* [pc, tool, at: requests handled, tries]
  effects    \* history: [made, known: creations executed and heard of, changed, removed, spent,
             \* declined]

toolVars == <<toolCall, effects>>
-----------------------------------------------------------------------------
(* The hints: what a tool promises of itself.                               *)

Hints(readOnly, destructive, idempotent) ==
  [readOnly |-> readOnly, destructive |-> destructive, idempotent |-> idempotent]

READ == Hints(TRUE, FALSE, TRUE)   \* what MCP takes of a read-only tool
CREATE == Hints(FALSE, FALSE, FALSE)
UPDATE == Hints(FALSE, FALSE, TRUE)
DELETE == Hints(FALSE, TRUE, TRUE)
TOGGLE == Hints(FALSE, FALSE, TRUE)
UPLOAD == Hints(FALSE, FALSE, FALSE)
TOKEN == Hints(FALSE, FALSE, TRUE)

\* A request: what it does when it is executed.
Request(does) ==
  [does |-> does, optional |-> FALSE, tolerated |-> FALSE, confirmed |-> FALSE, resent |-> FALSE]

Query == Request("read")
Make == Request("create")
Update == Request("change")
Remove == Request("remove")
Edit == Request("change or remove")   \* an update whose status may be DELETED
Spend == Request("spend")             \* quota of a paid service

May(s) == [s EXCEPT !.optional = TRUE]     \* made or not, as the arguments and answers say
Try(s) == [s EXCEPT !.tolerated = TRUE]    \* its failure is caught
Sure(s) == [s EXCEPT !.confirmed = TRUE]   \* an answer without success is an error
Again(s) == [s EXCEPT !.resent = TRUE]     \* a creation on a path the client takes for repeatable

Tool(hints, requests) == [hints |-> hints, requests |-> requests]
-----------------------------------------------------------------------------
(* The tools, by file.                                                      *)

\* src/src/tools/abtesting.ts
ads_get_ad_studies == Tool(READ, <<Query>>)
ads_create_ad_study == Tool(CREATE, <<Make>>)
ads_get_study_details == Tool(READ, <<Query>>)

\* src/src/tools/accounts.ts
ads_get_ad_accounts == Tool(READ, <<Query>>)
ads_get_account_info == Tool(READ, <<Query>>)
ads_get_pages_for_business == Tool(READ, <<May(Try(Query)), May(Query)>>)

\* src/src/tools/ad-dossier.ts
ads_get_ad_dossier == Tool(READ, <<Query, May(Try(Query)), May(Try(Query)), May(Try(Query))>>)

\* src/src/tools/ads-library.ts
ads_library_register_apify_token == Tool(TOKEN, <<Query, Update>>)
ads_library_get_apify_token_status == Tool(READ, <<Query, May(Try(Query))>>)
ads_library_delete_apify_token == Tool(DELETE, <<Remove>>)
ads_library_scrape == Tool(CREATE, <<Make>>)
ads_library_get_run_status == Tool(READ, <<Query>>)
ads_library_get_results == Tool(READ, <<Query>>)
ads_library_abort_run == Tool(TOGGLE, <<Update>>)
ads_library_list_runs == Tool(READ, <<Query>>)
ads_library_get_ad_details == Tool(READ, <<Query, May(Try(Query))>>)

\* src/src/tools/ads.ts
ads_get_ads == Tool(READ, <<Query>>)
ads_get_ad_details == Tool(READ, <<Query>>)
ads_create_ad == Tool(CREATE, <<Make>>)
ads_update_ad == Tool(UPDATE, <<Edit>>)
ads_delete_ad == Tool(DELETE, <<Remove>>)

\* src/src/tools/adsets.ts
ads_get_ad_sets == Tool(READ, <<Query>>)
ads_get_ad_set_details == Tool(READ, <<Query>>)
ads_create_ad_set == Tool(CREATE, <<Make>>)
ads_update_ad_set == Tool(UPDATE, <<Edit>>)
ads_delete_ad_set == Tool(DELETE, <<Remove>>)

\* src/src/tools/audiences.ts
ads_get_custom_audiences == Tool(READ, <<Query>>)
ads_get_audience_details == Tool(READ, <<Query>>)
ads_create_custom_audience == Tool(CREATE, <<Make>>)
ads_create_lookalike_audience == Tool(CREATE, <<Make>>)
ads_share_custom_audience == Tool(UPDATE, <<Sure(Update)>>)
ads_unshare_custom_audience == Tool(UPDATE, <<Sure(Update)>>)
ads_get_audience_shared_accounts == Tool(READ, <<Query>>)
ads_delete_custom_audience == Tool(DELETE, <<Sure(Remove)>>)

\* src/src/tools/billing.ts
ads_get_billing_info == Tool(READ, <<Query>>)
ads_get_spend_limit == Tool(READ, <<Query>>)
ads_update_spend_cap == Tool(UPDATE, <<Update>>)
ads_get_invoices == Tool(READ, <<May(Query), Query>>)

\* src/src/tools/budget.ts
ads_create_budget_schedule == Tool(CREATE, <<Again(Make)>>)

\* src/src/tools/campaigns.ts
ads_get_campaigns == Tool(READ, <<Query>>)
ads_get_campaign_details == Tool(READ, <<Query>>)
ads_create_campaign == Tool(CREATE, <<Make>>)
ads_update_campaign == Tool(UPDATE, <<Edit>>)
ads_delete_campaign == Tool(DELETE, <<Remove>>)

\* src/src/tools/comments.ts
ads_get_ad_comments == Tool(READ, <<May(Query), May(Query)>>)
ads_hide_comment == Tool(TOGGLE, <<Update>>)
ads_reply_comment == Tool(CREATE, <<Again(Make)>>)
ads_delete_comment == Tool(DELETE, <<Remove>>)

\* src/src/tools/creative-media.ts
ads_get_creative_media == Tool(READ, <<May(Query), Query, May(Try(Query)), May(Try(Query))>>)

\* src/src/tools/creatives.ts
ads_get_ad_creatives == Tool(READ, <<Query>>)
ads_get_creative_details == Tool(READ, <<Query>>)
\* ads_create_ad_creative with the read after the creation left uncaught.
creativeReadUncaught == Tool(CREATE, <<Make, Query>>)

ads_create_ad_creative == Tool(CREATE, <<Make, Try(Query)>>)
ads_update_ad_creative == Tool(UPDATE, <<Update>>)
ads_upload_ad_image == Tool(UPLOAD, <<Make>>)
ads_get_ad_images == Tool(READ, <<Query>>)
ads_get_ad_videos == Tool(READ, <<Query>>)
ads_get_video_details == Tool(READ, <<Query>>)
ads_upload_ad_video == Tool(UPLOAD, <<Make>>)

\* src/src/tools/diagnostics.ts
ads_get_opportunity_score == Tool(READ, <<Query>>)
ads_get_dataset_quality == Tool(READ, <<Query>>)
ads_get_errors == Tool(READ, <<Query, Try(Query)>>)

\* src/src/tools/entities.ts
ads_get_ad_entities == Tool(READ, <<Query>>)
ads_update_entity == Tool(UPDATE, <<Edit>>)
ads_activate_entity == Tool(TOGGLE, <<Update>>)

\* src/src/tools/gemini-keys.ts
ads_register_gemini_key == Tool(TOKEN, <<Query, Update>>)
ads_get_gemini_key_status == Tool(READ, <<Query, May(Try(Query))>>)
ads_delete_gemini_key == Tool(DELETE, <<Remove>>)

\* src/src/tools/help.ts
ads_get_help_article == Tool(READ, <<>>)

\* src/src/tools/insights-views.ts
ads_insights_performance_trend == Tool(READ, <<Query>>)
ads_insights_anomaly_signal == Tool(READ, <<Query, Query>>)
ads_insights_auction_ranking_benchmarks == Tool(READ, <<Query>>)
ads_insights_industry_benchmark == Tool(READ, <<Query>>)
ads_insights_advertiser_context == Tool(READ, <<Query, Query, Try(Query)>>)

\* src/src/tools/insights.ts
ads_get_insights == Tool(READ, <<Query>>)

\* src/src/tools/instagram.ts
ads_get_instagram_account == Tool(READ, <<Query>>)
ads_get_instagram_media == Tool(READ, <<Query>>)

\* src/src/tools/leads.ts
ads_get_lead_forms == Tool(READ, <<Query>>)
ads_get_leads == Tool(READ, <<Query>>)
ads_get_ad_leads == Tool(READ, <<Query>>)
ads_create_lead_form == Tool(CREATE, <<Again(Make)>>)

\* src/src/tools/macros.ts
ads_diagnose_underperformance == Tool(READ, <<Try(Query), May(Try(Query)), May(Try(Query))>>)
ads_portfolio_summary == Tool(READ, <<Try(Query)>>)

\* src/src/tools/pixels.ts
ads_get_pixels == Tool(READ, <<Query>>)
ads_get_pixel_details == Tool(READ, <<Query>>)
ads_get_pixel_events == Tool(READ, <<Query>>)
ads_get_custom_conversions == Tool(READ, <<Query>>)
ads_create_custom_conversion == Tool(CREATE, <<Make>>)

\* src/src/tools/previews.ts
ads_get_ad_preview == Tool(READ, <<Query>>)
ads_generate_preview == Tool(READ, <<Query>>)

\* src/src/tools/rate-status.ts
ads_rate_status == Tool(READ, <<>>)

\* src/src/tools/reports.ts
ads_create_async_report == Tool(CREATE, <<Again(Make)>>)
ads_get_report_status == Tool(READ, <<Query>>)
ads_get_report_results == Tool(READ, <<Query>>)
ads_run_report_and_wait == Tool(CREATE, <<Again(Make), Query, May(Query)>>)

\* src/src/tools/rules.ts
ads_get_ad_rules == Tool(READ, <<Query>>)
ads_create_ad_rule == Tool(CREATE, <<Make>>)
ads_get_rule_details == Tool(READ, <<Query, May(Query)>>)
ads_update_ad_rule == Tool(UPDATE, <<Update>>)
ads_delete_ad_rule == Tool(DELETE, <<Remove>>)

\* src/src/tools/targeting.ts
ads_search_interests == Tool(READ, <<Query>>)
ads_get_interest_suggestions == Tool(READ, <<Query>>)
ads_search_behaviors == Tool(READ, <<Query>>)
ads_search_demographics == Tool(READ, <<Query>>)
ads_search_geo_locations == Tool(READ, <<Query>>)
ads_estimate_audience_size == Tool(READ, <<Query>>)
ads_get_targeting_description == Tool(READ, <<Query>>)

\* src/src/tools/tokens.ts
ads_list_tokens == Tool(READ, <<May(Query)>>)
ads_set_active_token == Tool(TOKEN, <<Update, May(Query)>>)
ads_register_token == Tool(TOKEN, <<Query, Update>>)
ads_delete_token == Tool(DELETE, <<May(Remove)>>)

\* src/src/tools/video-analysis.ts
ads_analyze_video == Tool(READ, <<Query, Spend>>)

\* src/src/tools/video-media.ts
ads_get_video_media == Tool(READ, <<Query, Try(Query)>>)

\* src/src/tools/whatsapp-config.ts
whatsapp_get_qr_codes == Tool(READ, <<Query>>)
whatsapp_create_qr_code == Tool(CREATE, <<Make>>)
whatsapp_update_qr_code == Tool(UPDATE, <<Update>>)
whatsapp_delete_qr_code == Tool(DELETE, <<Sure(Remove)>>)
whatsapp_get_webhook_subscriptions == Tool(READ, <<Query>>)
whatsapp_subscribe_webhook == Tool(TOGGLE, <<Sure(Update)>>)
whatsapp_unsubscribe_webhook == Tool(TOGGLE, <<Sure(Update)>>)

\* src/src/tools/whatsapp-flows.ts
whatsapp_get_flows == Tool(READ, <<Query>>)
whatsapp_create_flow == Tool(CREATE, <<Make>>)
whatsapp_update_flow == Tool(UPDATE, <<May(Sure(Update)), May(Sure(Update))>>)
whatsapp_publish_flow == Tool(TOGGLE, <<Sure(Update)>>)
whatsapp_deprecate_flow == Tool(DELETE, <<Sure(Remove)>>)
whatsapp_delete_flow == Tool(DELETE, <<Sure(Remove)>>)

\* src/src/tools/whatsapp-templates.ts
whatsapp_get_templates == Tool(READ, <<Query>>)
whatsapp_create_template == Tool(CREATE, <<Make>>)
whatsapp_update_template == Tool(UPDATE, <<Sure(Update)>>)
whatsapp_delete_template == Tool(DELETE, <<Sure(Remove)>>)
whatsapp_get_analytics == Tool(READ, <<Query>>)
whatsapp_get_template_analytics == Tool(READ, <<Query>>)

\* src/src/tools/whatsapp.ts
whatsapp_get_business_accounts == Tool(READ, <<May(Query), May(Query), May(Query)>>)
whatsapp_get_phone_numbers == Tool(READ, <<Query>>)
whatsapp_register_phone == Tool(UPDATE, <<Sure(Update)>>)
whatsapp_deregister_phone == Tool(TOGGLE, <<Sure(Update)>>)
whatsapp_request_verification_code == Tool(CREATE, <<Sure(Make)>>)
whatsapp_verify_code == Tool(UPDATE, <<Sure(Update)>>)
whatsapp_get_business_profile == Tool(READ, <<Query>>)
whatsapp_update_business_profile == Tool(UPDATE, <<Sure(Update)>>)

Tools == {
    ads_get_ad_studies, ads_create_ad_study, ads_get_study_details, ads_get_ad_accounts,
    ads_get_account_info, ads_get_pages_for_business, ads_get_ad_dossier,
    ads_library_register_apify_token, ads_library_get_apify_token_status,
    ads_library_delete_apify_token, ads_library_scrape, ads_library_get_run_status,
    ads_library_get_results, ads_library_abort_run, ads_library_list_runs,
    ads_library_get_ad_details, ads_get_ads, ads_get_ad_details, ads_create_ad, ads_update_ad,
    ads_delete_ad, ads_get_ad_sets, ads_get_ad_set_details, ads_create_ad_set, ads_update_ad_set,
    ads_delete_ad_set, ads_get_custom_audiences, ads_get_audience_details,
    ads_create_custom_audience, ads_create_lookalike_audience, ads_share_custom_audience,
    ads_unshare_custom_audience, ads_get_audience_shared_accounts, ads_delete_custom_audience,
    ads_get_billing_info, ads_get_spend_limit, ads_update_spend_cap, ads_get_invoices,
    ads_create_budget_schedule, ads_get_campaigns, ads_get_campaign_details, ads_create_campaign,
    ads_update_campaign, ads_delete_campaign, ads_get_ad_comments, ads_hide_comment,
    ads_reply_comment, ads_delete_comment, ads_get_creative_media, ads_get_ad_creatives,
    ads_get_creative_details, ads_create_ad_creative, ads_update_ad_creative, ads_upload_ad_image,
    ads_get_ad_images, ads_get_ad_videos, ads_get_video_details, ads_upload_ad_video,
    ads_get_opportunity_score, ads_get_dataset_quality, ads_get_errors, ads_get_ad_entities,
    ads_update_entity, ads_activate_entity, ads_register_gemini_key, ads_get_gemini_key_status,
    ads_delete_gemini_key, ads_get_help_article, ads_insights_performance_trend,
    ads_insights_anomaly_signal, ads_insights_auction_ranking_benchmarks,
    ads_insights_industry_benchmark, ads_insights_advertiser_context, ads_get_insights,
    ads_get_instagram_account, ads_get_instagram_media, ads_get_lead_forms, ads_get_leads,
    ads_get_ad_leads, ads_create_lead_form, ads_diagnose_underperformance, ads_portfolio_summary,
    ads_get_pixels, ads_get_pixel_details, ads_get_pixel_events, ads_get_custom_conversions,
    ads_create_custom_conversion, ads_get_ad_preview, ads_generate_preview, ads_rate_status,
    ads_create_async_report, ads_get_report_status, ads_get_report_results, ads_run_report_and_wait,
    ads_get_ad_rules, ads_create_ad_rule, ads_get_rule_details, ads_update_ad_rule,
    ads_delete_ad_rule, ads_search_interests, ads_get_interest_suggestions, ads_search_behaviors,
    ads_search_demographics, ads_search_geo_locations, ads_estimate_audience_size,
    ads_get_targeting_description, ads_list_tokens, ads_set_active_token, ads_register_token,
    ads_delete_token, ads_analyze_video, ads_get_video_media, whatsapp_get_qr_codes,
    whatsapp_create_qr_code, whatsapp_update_qr_code, whatsapp_delete_qr_code,
    whatsapp_get_webhook_subscriptions, whatsapp_subscribe_webhook, whatsapp_unsubscribe_webhook,
    whatsapp_get_flows, whatsapp_create_flow, whatsapp_update_flow, whatsapp_publish_flow,
    whatsapp_deprecate_flow, whatsapp_delete_flow, whatsapp_get_templates, whatsapp_create_template,
    whatsapp_update_template, whatsapp_delete_template, whatsapp_get_analytics,
    whatsapp_get_template_analytics, whatsapp_get_business_accounts, whatsapp_get_phone_numbers,
    whatsapp_register_phone, whatsapp_deregister_phone, whatsapp_request_verification_code,
    whatsapp_verify_code, whatsapp_get_business_profile, whatsapp_update_business_profile }
-----------------------------------------------------------------------------
(* Calling them.                                                            *)

Changing == {"create", "change", "remove", "change or remove"}
Removing == {"remove", "change or remove"}

ToolsTypeOK ==
  /\ toolCall \in [pc : {"idle", "running", "done", "refused", "threw"}, tool : Tools, at : 0..4,
                   tries : 0..MaxTries]
  /\ effects \in [made : Nat, known : Nat, changed : BOOLEAN, removed : BOOLEAN, spent : BOOLEAN,
                  declined : BOOLEAN]

NoEffects == [made |-> 0, known |-> 0, changed |-> FALSE, removed |-> FALSE, spent |-> FALSE,
              declined |-> FALSE]

ToolsInit ==
  /\ toolCall = [pc |-> "idle", tool |-> ads_rate_status, at |-> 0, tries |-> 0]
  /\ effects = NoEffects

CallTool ==
  /\ toolCall.pc = "idle"
  /\ \E t \in Tools :
       toolCall' = [pc |-> "running", tool |-> t, at |-> 0, tries |-> 1]
  /\ UNCHANGED effects

request == toolCall.tool.requests[toolCall.at + 1]
more == toolCall.at < Len(toolCall.tool.requests)
GoesOn == toolCall' = [toolCall EXCEPT !.at = @ + 1]
Throws == toolCall' = [toolCall EXCEPT !.pc = "threw"]

\* The arguments are of no use: found before the first request.
Refuse ==
  /\ toolCall.pc = "running" /\ toolCall.at = 0
  /\ toolCall' = [toolCall EXCEPT !.pc = "refused"]
  /\ UNCHANGED effects

Skip ==
  /\ toolCall.pc = "running" /\ more /\ request.optional
  /\ GoesOn
  /\ UNCHANGED effects

\* What n executions of the request come to. The status an edit sets is DELETED
\* or another.
executed(e, n, heard) ==
  {[e EXCEPT !.made = IF request.does = "create" THEN @ + n ELSE @,
             !.known = IF request.does = "create" /\ heard THEN @ + 1 ELSE @,
             !.changed = @ \/ request.does \in Changing,
             !.removed = @ \/ request.does = "remove" \/ deleted,
             !.spent = @ \/ request.does = "spend"]
    : deleted \in {FALSE, request.does = "change or remove"}}

\* The client sends it again when the connection is lost, whether or not the
\* request had been executed.
sends == IF request.resent THEN 1..MaxSends ELSE {1}

Succeed ==
  /\ toolCall.pc = "running" /\ more
  /\ GoesOn
  /\ \E n \in sends : effects' \in executed(effects, n, TRUE)

\* The request fails, or is executed and its answer is lost.
Fail ==
  /\ toolCall.pc = "running" /\ more
  /\ IF request.tolerated THEN GoesOn ELSE Throws
  /\ \/ UNCHANGED effects
     \/ \E n \in sends : effects' \in executed(effects, n, FALSE)

\* Meta answers a change without carrying it out.
Decline ==
  /\ toolCall.pc = "running" /\ more /\ request.does \in Changing \ {"create"}
  /\ IF request.confirmed THEN Throws ELSE GoesOn
  /\ effects' = [effects EXCEPT !.declined = TRUE]

Finish ==
  /\ toolCall.pc = "running" /\ ~more
  /\ toolCall' = [toolCall EXCEPT !.pc = "done"]
  /\ UNCHANGED effects

\* The host makes the call again: of its own accord only a call of a tool that
\* says it may be repeated.
Repeat ==
  /\ toolCall.pc = "threw" /\ toolCall.tries < MaxTries
  /\ toolCall.tool.hints.idempotent
  /\ toolCall' = [toolCall EXCEPT !.pc = "running", !.at = 0, !.tries = @ + 1]
  /\ effects' = [effects EXCEPT !.declined = FALSE]

ToolsNext ==
  CallTool \/ Refuse \/ Skip \/ Succeed \/ Fail \/ Decline \/ Finish \/ Repeat

ToolsSpec == ToolsInit /\ [][ToolsNext]_toolVars
-----------------------------------------------------------------------------
\* The tools that bear out less than their hints, or than their caller needs.
\* "Reads are free" (skills/meta-ads-mcp-guide/SKILL.md:12), but this one uses
\* the tenant's Gemini quota.
SpendsUnmarked == {ads_analyze_video}
\* "destructiveHint: true on every delete" (docs/migration-v3.md:78), but the
\* status of these updates may be DELETED.
RemovesUnmarked ==
  {ads_update_ad, ads_update_ad_set, ads_update_campaign, ads_update_entity}
CreatesAgain ==                                \* creations that the client resends
  {ads_create_async_report, ads_create_budget_schedule, ads_create_lead_form, ads_reply_comment,
   ads_run_report_and_wait}
LosesTrack == {ads_run_report_and_wait}        \* a poll that fails does not name the report run

\* A host that trusts the hints is misled by the tools named above and by no
\* other, whatever becomes of the requests: a read-only tool, which hosts run
\* unasked, changes nothing and spends nothing; a tool that removes says so;
\* repeating the tools that may be repeated creates nothing; a call that threw
\* was not told of anything it created, which the caller would not learn of and
\* create anew; a call that is done reports all it created; and a call that
\* asks for confirmation does not report as done what Meta declined.
ToolsKeepTheirWord ==
  LET tool == toolCall.tool
  IN
  /\ tool.hints.readOnly => ~effects.changed /\ (effects.spent => tool \in SpendsUnmarked)
  /\ effects.removed => tool.hints.destructive \/ tool \in RemovesUnmarked
  /\ tool.hints.idempotent => effects.made = 0
  /\ toolCall.pc = "threw" /\ tool \notin LosesTrack => effects.known = 0
  /\ toolCall.pc = "done" /\ tool \notin CreatesAgain => effects.made = effects.known
  /\ toolCall.pc = "done" /\ effects.declined =>
       \E i \in 1..Len(tool.requests) : ~tool.requests[i].confirmed
=============================================================================
