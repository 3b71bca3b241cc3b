---------------------------- MODULE MCMetaClient ----------------------------
(* Model checking of MetaClient: up to three calls, on one or two accounts.*)
EXTENDS MetaClient, TLC
CONSTANTS c1, c2, c3, a1, a2, biz, insights, management

Err(code, subcode) == [code |-> code, subcode |-> subcode]
TransientAbuse == Err(2, 1996)
GlobalInsights == Err(4, 1504022)
Platform == Err(17, 0)
Transient == Err(2, 0)


\* Three calls that share a key.
OneType == (c1 :> insights) @@ (c2 :> insights) @@ (c3 :> insights)
\* Two calls that share a key, and one of another type on the same account.
OneAccount == (c1 :> a1) @@ (c2 :> a1) @@ (c3 :> a1)
TwoOneTypes == (c1 :> insights) @@ (c2 :> insights) @@ (c3 :> management)
\* One call that concerns no account.
OneType1 == c1 :> management
NoAccount1 == c1 :> NoAccount
OneAccount2 == (c1 :> a1) @@ (c2 :> a1)
OneType2 == (c1 :> insights) @@ (c2 :> insights)
TwoAccounts == (c1 :> a1) @@ (c2 :> a2)

HeaderOf(kind, usage, regain) ==
  [kind |-> kind, business |-> biz, type |-> insights, usage |-> usage,
   accountUsage |-> 0, regain |-> regain]
HintErrors == {GlobalInsights, Transient}
Quiet == {{}}
BusinessUsage == {{}, {HeaderOf("buc", 96, 2)}}
SafetyErrors == {TransientAbuse, GlobalInsights, Platform, Transient}
=============================================================================
