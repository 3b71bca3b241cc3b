------------------------------ MODULE AgentTurn ------------------------------
(* One turn of the dashboard assistant: the loop of runAgent, which asks    *)
(* the model, carries out the tools it asks for and stops within its        *)
(* limits (src/src/claude/agent.ts). A read tool with its arguments is a    *)
(* key, so that a repetition can be told; a read returns up to              *)
(* MaxResultBytes. Time is left out: a round may find too little of it      *)
(* left. Which plan a write tool makes, and what becomes of it, is module   *)
(* Dashboard, which relies on a turn proposing one plan at most.            *)
EXTENDS Integers

CONSTANTS
  Reads,           \* read tools with their arguments
  MaxUses,         \* bound: tool uses in one reply
  MaxSteps, MaxToolCalls, MaxResultBytes, MaxTotalBytes

ASSUME AgentAssumption ==
  /\ MaxUses \in Nat /\ MaxSteps \in Nat \ {0} /\ MaxToolCalls \in Nat
  /\ MaxResultBytes \in Nat \ {0} /\ MaxTotalBytes \in Nat

VARIABLES
  agent,           \* [pc, steps, uses: tool uses of the reply still to handle]
  writesAllowed,   \* input.allowWrites
  budget,          \* [calls, bytes]: state.toolCalls, state.toolBytes
  served,          \* reads served this turn
  staged,          \* state.pending: whether a plan is staged
  tally            \* history: [reads, plans, replies since a plan was staged, reported]

agentVars == <<agent, writesAllowed, budget, served, staged, tally>>

Stops == {"timeout", "refusal", "answered", "awaiting_confirmation", "max_steps"}

AgentTypeOK ==
  /\ agent \in [pc : {"idle", "round", "asking", "tools", "threw"} \cup Stops,
                steps : 0..MaxSteps, uses : 0..MaxUses]
  /\ writesAllowed \in BOOLEAN /\ staged \in BOOLEAN
  /\ budget \in [calls : 0..MaxToolCalls, bytes : Nat]
  /\ served \subseteq Reads
  /\ tally \in [reads : Nat, plans : Nat, after : Nat, reported : BOOLEAN]

AgentInit ==
  /\ agent = [pc |-> "idle", steps |-> 0, uses |-> 0]
  /\ writesAllowed = FALSE
  /\ budget = [calls |-> 0, bytes |-> 0]
  /\ served = {}
  /\ staged = FALSE
  /\ tally = [reads |-> 0, plans |-> 0, after |-> 0, reported |-> FALSE]

\* Every stop reports the staged plan with the answer.
finish(reason) ==
  /\ agent' = [agent EXCEPT !.pc = reason, !.uses = 0]
  /\ tally' = [tally EXCEPT !.reported = staged]

Ask ==
  /\ agent.pc = "idle"
  /\ agent' = [agent EXCEPT !.pc = "round"]
  /\ writesAllowed' \in BOOLEAN
  /\ UNCHANGED <<budget, served, staged, tally>>
-----------------------------------------------------------------------------
(* A round trip to the model.                                               *)

StartRound ==
  /\ agent.pc = "round"
  /\ \/ agent.steps = MaxSteps /\ finish("max_steps")
     \/ agent.steps < MaxSteps /\ finish("timeout")
     \/ /\ agent.steps < MaxSteps
        /\ agent' = [agent EXCEPT !.pc = "asking", !.steps = @ + 1]
        /\ tally' = [tally EXCEPT !.after = IF staged THEN @ + 1 ELSE @]
  /\ UNCHANGED <<writesAllowed, budget, served, staged>>

stopsAfterReply(uses) ==
  IF staged THEN {"awaiting_confirmation"} ELSE IF uses = 0 THEN {"answered"} ELSE {}

\* The model refuses, answers, or asks for tools, which it may not after it
\* proposed a change.
Reply ==
  /\ agent.pc = "asking"
  /\ \/ finish("refusal")
     \/ \E uses \in 0..MaxUses :
          \/ \E reason \in stopsAfterReply(uses) : finish(reason)
          \/ /\ stopsAfterReply(uses) = {}
             /\ agent' = [agent EXCEPT !.pc = "tools", !.uses = uses]
             /\ UNCHANGED tally
  /\ UNCHANGED <<writesAllowed, budget, served, staged>>

\* createMessage throws, and with it the turn: no plan is reported.
ModelFails ==
  /\ agent.pc = "asking"
  /\ agent' = [agent EXCEPT !.pc = "threw"]
  /\ UNCHANGED <<writesAllowed, budget, served, staged, tally>>
-----------------------------------------------------------------------------
(* executeToolUse, for the next tool use of the reply.                      *)

exhausted == budget.calls >= MaxToolCalls \/ budget.bytes >= MaxTotalBytes
Handled == agent' = [agent EXCEPT !.uses = @ - 1]
spend == budget' = [budget EXCEPT !.calls = @ + 1]

BudgetExhausted ==
  /\ exhausted
  /\ UNCHANGED <<budget, served, staged, tally>>

\* An unknown tool, invalid arguments, or a write that may not be made: the
\* slot is spent all the same.
UseRefused ==
  /\ ~exhausted
  /\ spend
  /\ UNCHANGED <<served, staged, tally>>

\* mayPlan without a look at the plan that is staged.
mayPlanAgain == writesAllowed

mayPlan == writesAllowed /\ ~staged

\* A write tool plans, which may fail, and its plan is staged.
PlanWrite ==
  /\ ~exhausted /\ mayPlan
  /\ spend
  /\ \/ staged' = TRUE /\ tally' = [tally EXCEPT !.plans = @ + 1]
     \/ UNCHANGED <<staged, tally>>
  /\ UNCHANGED served

\* The slot of a repeated read is given back.
DuplicateRead(k) ==
  /\ ~exhausted /\ k \in served
  /\ UNCHANGED <<budget, served, staged, tally>>

\* A read counts as served before it runs; when it fails it adds no bytes.
RunRead(k) ==
  /\ ~exhausted /\ k \notin served
  /\ served' = served \cup {k}
  /\ \E bytes \in 0..MaxResultBytes :
       budget' = [calls |-> budget.calls + 1, bytes |-> budget.bytes + bytes]
  /\ tally' = [tally EXCEPT !.reads = @ + 1]
  /\ UNCHANGED staged

UseTool ==
  /\ agent.pc = "tools" /\ agent.uses > 0
  /\ \/ BudgetExhausted \/ UseRefused \/ PlanWrite
     \/ \E k \in Reads : DuplicateRead(k) \/ RunRead(k)
  /\ Handled
  /\ UNCHANGED writesAllowed

EndRound ==
  /\ agent.pc = "tools" /\ agent.uses = 0
  /\ agent' = [agent EXCEPT !.pc = "round"]
  /\ UNCHANGED <<writesAllowed, budget, served, staged, tally>>

AgentNext == Ask \/ StartRound \/ Reply \/ ModelFails \/ UseTool \/ EndRound

AgentSpec == AgentInit /\ [][AgentNext]_agentVars
-----------------------------------------------------------------------------
\* Whatever the model asks for, one turn spends no more than its limits (the
\* list at the head of agent.ts): reads and plans together within the tool
\* calls, given-back slots included, the bytes short of the total before the
\* last read. It proposes one change at most, hears the model once more at most
\* after it, and whichever way it returns it reports the change it proposed.
TurnBounded ==
  /\ tally.reads + tally.plans <= budget.calls /\ budget.calls <= MaxToolCalls
  /\ budget.bytes < MaxTotalBytes + MaxResultBytes
  /\ budget.bytes <= tally.reads * MaxResultBytes
  /\ tally.plans <= 1 /\ tally.after <= 1
  /\ staged <=> tally.plans = 1
  /\ staged => writesAllowed
  /\ agent.pc \in Stops => tally.reported = staged
=============================================================================
