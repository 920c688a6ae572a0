----------------------------- MODULE AgentGraph -----------------------------
(* The LangGraph graph of one run: router, classifier, planner, then the   *)
(* agent/tools/evaluator cycle with its three bounds - tool rounds         *)
(* (max_retries), evaluator cycles (max_cycles), and LangGraph's own limit *)
(* on the nodes of one call, which the program leaves at its default.      *)
(*                                                                         *)
(* What a language model answers is chosen freely.  tools is one node      *)
(* here; ToolNode has its inside, and shows that it interrupts only        *)
(* finitely often before it returns.                                       *)
EXTENDS Integers

CONSTANTS
    MaxSetting, \* the largest max_retries and max_cycles the settings API takes
    StepLimit   \* recursion_limit: the nodes one call of the graph may run

ASSUME SettingAssumption == MaxSetting \in Nat \ {0}
ASSUME LimitAssumption == StepLimit \in Nat

VARIABLES
    max_retries, \* tool rounds, from the user's settings
    max_cycles,  \* evaluator cycles, from the user's settings
    node,        \* the node to run next, or how the run stopped
    task_type,   \* the classifier's verdict
    response,    \* "none" (None), "empty" or "text"
    fresh,       \* history: response was written after the last verdict
    tool_rounds, eval_cycle,
    steps,       \* nodes run since the graph was last called
    resumed      \* the graph runs in runner.resume, which has no watchdog

settings == <<max_retries, max_cycles>>
answer == <<response, fresh>>
vars == <<max_retries, max_cycles, node, task_type, response, fresh,
          tool_rounds, eval_cycle, steps, resumed>>

-----------------------------------------------------------------------------
TaskTypes == {"none", "simple_utility", "execution", "research"}

Running == {"router", "classifier", "planner", "agent", "tools", "evaluator"}

(* end: the graph finished.  recursion: LangGraph raised.  failed: a node  *)
(* raised.  cut: the watchdog cancelled the graph.                         *)
Stopped == {"end", "recursion", "failed", "cut"}

Init ==
    /\ max_retries \in 1 .. MaxSetting
    /\ max_cycles \in 1 .. MaxSetting
    /\ node = "router"
    /\ task_type = "none"
    /\ response = "none" /\ fresh = FALSE
    /\ tool_rounds = 0 /\ eval_cycle = 0
    /\ steps = 0 /\ resumed = FALSE

(* Mutant: no limit on the nodes. *)
EnterUnlimited(next) == steps' = steps + 1 /\ node' = next

(* A node has run and next is to follow.  Whether a graph that is done on  *)
(* the very last step still raises depends on LangGraph's version.         *)
Enter(next) ==
    /\ steps' = steps + 1
    /\ \/ steps' < StepLimit /\ node' = next
       \/ steps' = StepLimit /\ next = "end" /\ node' = "end"
       \/ steps' >= StepLimit /\ node' = "recursion"

RouteAfterClassifier(type) == IF type = "simple_utility" THEN "agent" ELSE "planner"

RouteAfterAgent(calls) == IF calls THEN "tools" ELSE "evaluator"

(* Mutant: the last round is not counted. *)
RouteAfterToolsLate(rounds) == IF rounds > max_retries THEN "evaluator" ELSE "agent"

RouteAfterTools(rounds) == IF rounds >= max_retries THEN "evaluator" ELSE "agent"

(* Mutant: one more cycle. *)
RouteAfterEvaluatorLate(verdict, cycle) ==
    IF verdict = "reroute" /\ cycle <= max_cycles THEN "agent" ELSE "end"

RouteAfterEvaluator(verdict, cycle) ==
    IF verdict = "reroute" /\ cycle < max_cycles THEN "agent" ELSE "end"

-----------------------------------------------------------------------------
(* The router settles privacy and models, which bound nothing here. *)
Router ==
    /\ node = "router"
    /\ Enter("classifier")
    /\ UNCHANGED <<settings, task_type, answer, tool_rounds, eval_cycle, resumed>>

Classifier ==
    /\ node = "classifier"
    /\ task_type' \in TaskTypes \ {"none"}
    /\ Enter(RouteAfterClassifier(task_type'))
    /\ UNCHANGED <<settings, answer, tool_rounds, eval_cycle, resumed>>

Planner ==
    /\ node = "planner"
    /\ Enter("agent")
    /\ UNCHANGED <<settings, task_type, answer, tool_rounds, eval_cycle, resumed>>

(* Mutant: an empty answer is not an answer. *)
AgentIgnoresEmpty ==
    /\ node = "agent"
    /\ \E calls \in BOOLEAN, content \in {"empty", "text"} :
          /\ IF calls \/ content = "empty" THEN UNCHANGED answer
             ELSE response' = content /\ fresh' = TRUE
          /\ Enter(RouteAfterAgent(calls))
    /\ UNCHANGED <<settings, task_type, tool_rounds, eval_cycle, resumed>>

(* The model calls tools, or gives its answer, if only an empty one. *)
Agent ==
    /\ node = "agent"
    /\ \E calls \in BOOLEAN, content \in {"empty", "text"} :
          /\ IF calls THEN UNCHANGED answer
             ELSE response' = content /\ fresh' = TRUE
          /\ Enter(RouteAfterAgent(calls))
    /\ UNCHANGED <<settings, task_type, tool_rounds, eval_cycle, resumed>>

(* The model's provider fails; of the nodes only the agent lets it pass. *)
AgentFails ==
    /\ node = "agent"
    /\ node' = "failed"
    /\ UNCHANGED <<settings, task_type, answer, tool_rounds, eval_cycle, steps, resumed>>

(* Mutant: the round is counted only in the first call of the graph. *)
ToolsForget ==
    /\ node = "tools"
    /\ tool_rounds' = IF resumed THEN tool_rounds ELSE tool_rounds + 1
    /\ Enter(RouteAfterTools(tool_rounds'))
    /\ UNCHANGED <<settings, task_type, answer, eval_cycle, resumed>>

Tools ==
    /\ node = "tools"
    /\ tool_rounds' = tool_rounds + 1
    /\ Enter(RouteAfterTools(tool_rounds'))
    /\ UNCHANGED <<settings, task_type, answer, eval_cycle, resumed>>

(* interrupt() leaves the graph inside the node. *)
ToolsInterrupt ==
    /\ node = "tools"
    /\ node' = "waiting"
    /\ UNCHANGED <<settings, task_type, answer, tool_rounds, eval_cycle, steps, resumed>>

(* The user decides: the graph is called again, to run the node again. *)
Resume ==
    /\ node = "waiting"
    /\ node' = "tools" /\ steps' = 0 /\ resumed' = TRUE
    /\ UNCHANGED <<settings, task_type, answer, tool_rounds, eval_cycle>>

(* A simple task, no response, no evaluator model or a failed call of it.  *)
EvaluatorPasses ==
    /\ node = "evaluator"
    /\ Enter(RouteAfterEvaluator("pass", eval_cycle))
    /\ fresh' = FALSE
    /\ UNCHANGED <<settings, task_type, response, tool_rounds, eval_cycle, resumed>>

(* Mutant: the judged response stays. *)
EvaluatorKeeps ==
    /\ node = "evaluator"
    /\ task_type # "simple_utility" /\ response = "text"
    /\ \E verdict \in {"pass", "flag", "reroute"} :
          /\ eval_cycle' = IF verdict = "reroute" /\ eval_cycle < max_cycles
                           THEN eval_cycle + 1 ELSE eval_cycle
          /\ Enter(RouteAfterEvaluator(verdict, eval_cycle'))
    /\ fresh' = FALSE
    /\ UNCHANGED <<settings, task_type, response, tool_rounds, resumed>>

(* A rerouted response is cleared and feedback appended to the messages;   *)
(* the route is then chosen by the cycle count this very step increased.   *)
EvaluatorScores ==
    /\ node = "evaluator"
    /\ task_type # "simple_utility" /\ response = "text"
    /\ \E verdict \in {"pass", "flag", "reroute"} :
          /\ IF verdict = "reroute" /\ eval_cycle < max_cycles
             THEN eval_cycle' = eval_cycle + 1 /\ response' = "none"
             ELSE UNCHANGED <<eval_cycle, response>>
          /\ Enter(RouteAfterEvaluator(verdict, eval_cycle'))
    /\ fresh' = FALSE
    /\ UNCHANGED <<settings, task_type, tool_rounds, resumed>>

(* The watchdog looks at the clock when a node's output arrives, the last  *)
(* one's included, in the first call of the graph only.                    *)
Timeout ==
    /\ ~resumed /\ steps > 0
    /\ node \in Running \cup {"end"}
    /\ node' = "cut"
    /\ UNCHANGED <<settings, task_type, answer, tool_rounds, eval_cycle, steps, resumed>>

NodeStep ==
    Router \/ Classifier \/ Planner \/ Agent \/ AgentFails \/ EvaluatorPasses \/ EvaluatorScores

Next == NodeStep \/ Tools \/ ToolsInterrupt \/ Resume \/ Timeout

Spec == Init /\ [][Next]_vars

(* The event loop runs each node; every call of a provider has a time      *)
(* limit.  The tool node, interrupted finitely often, returns if it is     *)
(* resumed again and again.  That the user answers is not assumed.         *)
Fairness == WF_vars(NodeStep) /\ SF_vars(Tools)

FairSpec == Spec /\ Fairness

-----------------------------------------------------------------------------
(* Types; the step count never exceeds LangGraph's limit unless the graph  *)
(* has been stopped for it.                                                *)
TypeOK ==
    /\ max_retries \in 1 .. MaxSetting
    /\ max_cycles \in 1 .. MaxSetting
    /\ node \in Running \cup Stopped \cup {"waiting"}
    /\ task_type \in TaskTypes
    /\ response \in {"none", "empty", "text"}
    /\ fresh \in BOOLEAN
    /\ tool_rounds \in Nat /\ eval_cycle \in 0 .. MaxSetting
    /\ steps \in Nat /\ (node \in Running => steps < StepLimit \/ steps = 0)
    /\ resumed \in BOOLEAN

(* Bounded autonomy: route_after_tools compares the rounds only after they *)
(* have run, and a reroute sends the run back to the agent, whose calls    *)
(* nothing compares.  Still no run has more tool rounds than the user      *)
(* allows: only a response reroutes, and a response leaves a round unused. *)
ToolRoundsCapped == tool_rounds <= max_retries

(* A verdict is about an answer the agent gave since the last verdict: a   *)
(* rerouted response is not judged again when the tool rounds run out      *)
(* before the agent has written another (evaluator_node, agent_node).      *)
JudgedFresh == node = "evaluator" /\ response # "none" => fresh

(* A finished graph that leaves the user without any answer of the agent   *)
(* has used up a bound: its tool rounds, or its evaluator cycles.          *)
SilenceExplained ==
    node = "end" /\ response = "none" =>
        tool_rounds = max_retries \/ eval_cycle = max_cycles

(* LangGraph's limit, which no setting controls, stops no run whose        *)
(* settings keep the graph's longest path within it.                       *)
LongestPath == 2 * (max_retries + max_cycles) + 2

LimitSpares == node = "recursion" => LongestPath >= StepLimit

(* The three counters end the cycle: a run stops, or waits for the user,   *)
(* however often it was interrupted and resumed.                           *)
GraphEnds == <>[](node \in Stopped \cup {"waiting"})

=============================================================================
