-------------------------- MODULE AgentGraph_proofs --------------------------
(* Theorems of AgentGraph, for any settings and any limit on the steps.    *)
EXTENDS AgentGraph, TLAPS

Early == {"router", "classifier", "planner", "agent", "tools", "waiting"}

(* Before the evaluator there is no response, and both a round and a cycle *)
(* are left; a response leaves a round unused.                             *)
BudgetInv ==
    /\ tool_rounds <= max_retries
    /\ eval_cycle <= max_cycles
    /\ node \in Early =>
          response = "none" /\ tool_rounds < max_retries /\ eval_cycle < max_cycles
    /\ node = "evaluator" => eval_cycle < max_cycles
    /\ response # "none" => tool_rounds < max_retries

(* At the evaluator a response is new, and none means that the rounds are  *)
(* used up.                                                                *)
AnswerInv ==
    /\ JudgedFresh
    /\ node = "evaluator" /\ response = "none" => tool_rounds = max_retries
    /\ SilenceExplained

(* Each node is reached within so many steps of the last call. *)
Reach(n) ==
    CASE n = "router" -> 0
      [] n = "classifier" -> 1
      [] n = "planner" -> 2
      [] n = "agent" -> 3 + 2 * tool_rounds + 2 * eval_cycle
      [] n \in {"tools", "waiting"} -> 4 + 2 * tool_rounds + 2 * eval_cycle
      [] n = "evaluator" /\ response # "none" -> 4 + 2 * tool_rounds + 2 * eval_cycle
      [] OTHER -> 3 + 2 * tool_rounds + 2 * eval_cycle

StepsInv ==
    /\ node \in Running \cup {"waiting"} => steps <= Reach(node)
    /\ LimitSpares

IInv == TypeOK /\ BudgetInv /\ AnswerInv /\ StepsInv

USE SettingAssumption, LimitAssumption

-----------------------------------------------------------------------------
(* A fresh run has every budget and is at its first node.                  *)
LEMMA InitIInv == Init => IInv
<1> SUFFICES ASSUME Init PROVE IInv
  OBVIOUS
<1>1. TypeOK
  <2>1. max_retries \in 1 .. MaxSetting /\ max_cycles \in 1 .. MaxSetting /\ steps = 0
    BY DEF Init
  <2>2. /\ node \in Running \cup Stopped \cup {"waiting"} /\ task_type \in TaskTypes
        /\ response \in {"none", "empty", "text"}
    BY DEF Init, Running, TaskTypes
  <2>3. fresh \in BOOLEAN /\ resumed \in BOOLEAN
    BY DEF Init
  <2>4. tool_rounds \in Nat /\ eval_cycle \in 0 .. MaxSetting
    BY DEF Init
  <2> QED
    BY <2>1, <2>2, <2>3, <2>4 DEF TypeOK
<1>2. BudgetInv
  BY DEF Init, BudgetInv
<1>3. AnswerInv
  BY DEF Init, AnswerInv, JudgedFresh, SilenceExplained
<1>4. StepsInv
  BY DEF Init, StepsInv, Reach, LimitSpares
<1> QED
  BY <1>1, <1>2, <1>3, <1>4 DEF IInv

-----------------------------------------------------------------------------
(* A step keeps the types.                                                 *)
LEMMA NextType == ASSUME IInv, [Next]_vars PROVE TypeOK'
<1> USE DEF IInv, TypeOK, BudgetInv, settings, answer, Running, Stopped, TaskTypes, Enter
<1> DEFINE Moves == /\ node' \in Running \cup Stopped \cup {"waiting"} /\ steps' \in Nat
                    /\ node' \in Running => steps' < StepLimit \/ steps' = 0
           Answers == /\ response' \in {"none", "empty", "text"} /\ fresh' \in BOOLEAN
                      /\ eval_cycle' \in 0 .. MaxSetting
           Rest == UNCHANGED <<max_retries, max_cycles, task_type, tool_rounds, resumed>>
<1>1. CASE Router
  BY <1>1 DEF Router
<1>2. CASE Classifier
  BY <1>2 DEF Classifier, RouteAfterClassifier
<1>3. CASE Planner
  BY <1>3 DEF Planner
<1>4. CASE Agent
  <2>1. Moves
    BY <1>4 DEF Agent, RouteAfterAgent
  <2>2. Answers
    BY <1>4 DEF Agent
  <2>3. Rest
    BY <1>4 DEF Agent
  <2> QED
    BY <2>1, <2>2, <2>3
<1>5. CASE AgentFails
  BY <1>5 DEF AgentFails
<1>6. CASE EvaluatorPasses
  <2>1. Moves
    BY <1>6 DEF EvaluatorPasses, RouteAfterEvaluator
  <2>2. Answers
    BY <1>6 DEF EvaluatorPasses
  <2>3. Rest
    BY <1>6 DEF EvaluatorPasses
  <2> QED
    BY <2>1, <2>2, <2>3
<1>7. CASE EvaluatorScores
  <2>1. Moves
    BY <1>7 DEF EvaluatorScores, RouteAfterEvaluator
  <2>2. Answers
    <3>1. fresh' \in BOOLEAN
      BY <1>7 DEF EvaluatorScores
    <3>2. response' \in {"none", "empty", "text"}
      BY <1>7 DEF EvaluatorScores
    <3>3. eval_cycle' \in Nat /\ eval_cycle' <= max_cycles
      BY <1>7 DEF EvaluatorScores
    <3> QED
      BY <3>1, <3>2, <3>3
  <2>3. Rest
    BY <1>7 DEF EvaluatorScores
  <2> QED
    BY <2>1, <2>2, <2>3
<1>8. CASE Tools
  BY <1>8 DEF Tools, RouteAfterTools
<1>9. CASE ToolsInterrupt
  BY <1>9 DEF ToolsInterrupt
<1>10. CASE Resume
  BY <1>10 DEF Resume
<1>11. CASE Timeout
  BY <1>11 DEF Timeout
<1>12. CASE UNCHANGED vars
  BY <1>12 DEF vars
<1> QED
  BY <1>1, <1>2, <1>3, <1>4, <1>5, <1>6, <1>7, <1>8, <1>9, <1>10, <1>11, <1>12
  DEF Next, NodeStep

(* A step spends the budgets only where the routes allow it.               *)
LEMMA NextBudget == ASSUME IInv, [Next]_vars PROVE BudgetInv'
<1> USE DEF IInv, TypeOK, BudgetInv, settings, answer, Early, Running, Stopped, Enter
<1>1. CASE Router
  BY <1>1 DEF Router
<1>2. CASE Classifier
  BY <1>2 DEF Classifier, RouteAfterClassifier
<1>3. CASE Planner
  BY <1>3 DEF Planner
<1>4. CASE Agent
  BY <1>4 DEF Agent, RouteAfterAgent
<1>5. CASE AgentFails
  BY <1>5 DEF AgentFails
<1>6. CASE EvaluatorPasses
  BY <1>6 DEF EvaluatorPasses, RouteAfterEvaluator
<1>7. CASE EvaluatorScores
  BY <1>7 DEF EvaluatorScores, RouteAfterEvaluator
<1>8. CASE Tools
  BY <1>8 DEF Tools, RouteAfterTools
<1>9. CASE ToolsInterrupt
  BY <1>9 DEF ToolsInterrupt
<1>10. CASE Resume
  BY <1>10 DEF Resume
<1>11. CASE Timeout
  BY <1>11 DEF Timeout
<1>12. CASE UNCHANGED vars
  BY <1>12 DEF vars
<1> QED
  BY <1>1, <1>2, <1>3, <1>4, <1>5, <1>6, <1>7, <1>8, <1>9, <1>10, <1>11, <1>12
  DEF Next, NodeStep

(* A step leaves no judged response at the evaluator, and no unexplained  *)
(* silence.                                                               *)
LEMMA NextAnswer == ASSUME IInv, [Next]_vars PROVE AnswerInv'
<1> USE DEF IInv, TypeOK, BudgetInv, settings, answer, Early, Running, Stopped, Enter,
           AnswerInv, JudgedFresh, SilenceExplained
<1>1. CASE Router
  BY <1>1 DEF Router
<1>2. CASE Classifier
  BY <1>2 DEF Classifier, RouteAfterClassifier
<1>3. CASE Planner
  BY <1>3 DEF Planner
<1>4. CASE Agent
  BY <1>4 DEF Agent, RouteAfterAgent
<1>5. CASE AgentFails
  BY <1>5 DEF AgentFails
<1>6. CASE EvaluatorPasses
  BY <1>6 DEF EvaluatorPasses, RouteAfterEvaluator
<1>7. CASE EvaluatorScores
  BY <1>7 DEF EvaluatorScores, RouteAfterEvaluator
<1>8. CASE Tools
  BY <1>8 DEF Tools, RouteAfterTools
<1>9. CASE ToolsInterrupt
  BY <1>9 DEF ToolsInterrupt
<1>10. CASE Resume
  BY <1>10 DEF Resume
<1>11. CASE Timeout
  BY <1>11 DEF Timeout
<1>12. CASE UNCHANGED vars
  BY <1>12 DEF vars
<1> QED
  BY <1>1, <1>2, <1>3, <1>4, <1>5, <1>6, <1>7, <1>8, <1>9, <1>10, <1>11, <1>12
  DEF Next, NodeStep

(* A step from a node is one more than its reach, within that of the next *)
(* node and within the longest path.                                      *)
LEMMA NextSteps == ASSUME IInv, [Next]_vars PROVE StepsInv'
<1> USE DEF IInv, TypeOK, BudgetInv, settings, answer, Early, Running, Stopped, Enter,
           AnswerInv, StepsInv, Reach, LimitSpares, LongestPath
<1>1. CASE Router
  BY <1>1 DEF Router
<1>2. CASE Classifier
  BY <1>2 DEF Classifier, RouteAfterClassifier
<1>3. CASE Planner
  BY <1>3 DEF Planner
<1>4. CASE Agent
  BY <1>4 DEF Agent, RouteAfterAgent
<1>5. CASE AgentFails
  BY <1>5 DEF AgentFails
<1>6. CASE EvaluatorPasses
  BY <1>6 DEF EvaluatorPasses, RouteAfterEvaluator
<1>7. CASE EvaluatorScores
  BY <1>7 DEF EvaluatorScores, RouteAfterEvaluator
<1>8. CASE Tools
  BY <1>8 DEF Tools, RouteAfterTools
<1>9. CASE ToolsInterrupt
  BY <1>9 DEF ToolsInterrupt
<1>10. CASE Resume
  BY <1>10 DEF Resume
<1>11. CASE Timeout
  BY <1>11 DEF Timeout
<1>12. CASE UNCHANGED vars
  BY <1>12 DEF vars
<1> QED
  BY <1>1, <1>2, <1>3, <1>4, <1>5, <1>6, <1>7, <1>8, <1>9, <1>10, <1>11, <1>12
  DEF Next, NodeStep

(* The invariant is inductive and holds of every run.                     *)
LEMMA Inductive == Spec => []IInv
<1>1. IInv /\ [Next]_vars => IInv'
  BY NextType, NextBudget, NextAnswer, NextSteps DEF IInv
<1> QED
  BY InitIInv, <1>1, PTL DEF Spec

-----------------------------------------------------------------------------
(* The state is well typed, and no node starts beyond the limit.          *)
THEOREM TypeCorrect == Spec => []TypeOK
<1>1. IInv => TypeOK
  BY DEF IInv
<1> QED
  BY Inductive, <1>1, PTL

(* No run has more tool rounds than the user allows.                      *)
THEOREM RoundsCapped == Spec => []ToolRoundsCapped
<1>1. IInv => ToolRoundsCapped
  BY DEF IInv, BudgetInv, ToolRoundsCapped
<1> QED
  BY Inductive, <1>1, PTL

(* The evaluator never sees a response it has judged before.              *)
THEOREM VerdictsAreFresh == Spec => []JudgedFresh
<1>1. IInv => JudgedFresh
  BY DEF IInv, AnswerInv
<1> QED
  BY Inductive, <1>1, PTL

(* A graph ends without a response only when a bound is used up.          *)
THEOREM SilenceHasACause == Spec => []SilenceExplained
<1>1. IInv => SilenceExplained
  BY DEF IInv, AnswerInv
<1> QED
  BY Inductive, <1>1, PTL

(* LangGraph's limit stops only runs whose longest path reaches it.       *)
THEOREM LimitSparesShortRuns == Spec => []LimitSpares
<1>1. IInv => LimitSpares
  BY DEF IInv, StepsInv
<1> QED
  BY Inductive, <1>1, PTL

-----------------------------------------------------------------------------
(* What a run has left to do: the nodes before the next round, the rounds  *)
(* and the cycles.                                                         *)
Rank(n) ==
    CASE n = "router" -> 7
      [] n = "classifier" -> 6
      [] n = "planner" -> 5
      [] n = "agent" -> 4
      [] n \in {"tools", "waiting"} -> 3
      [] n = "evaluator" -> 2
      [] n = "end" -> 1
      [] OTHER -> 0

WorkLeft == Rank(node) + 2 * (max_retries - tool_rounds) + 3 * (max_cycles - eval_cycle)

WorkShrinks ==
    IF "waiting" \in {node, node'} THEN WorkLeft' = WorkLeft ELSE WorkLeft' < WorkLeft

(* Each node brings the run nearer to its end, whatever the models answer, *)
(* and an interrupt or a resume does not take it further away: at most     *)
(* 7 + 2 * max_retries + 3 * max_cycles nodes run, the interrupted ones    *)
(* not counted, before a run has stopped or waits (graph.py's routes; the  *)
(* safety part of GraphEnds).                                              *)
THEOREM RunsWindDown == Spec => [](WorkLeft \in Nat) /\ [][WorkShrinks]_vars
<1>1. IInv => WorkLeft \in Nat
  <2> SUFFICES ASSUME IInv PROVE WorkLeft \in Nat
    OBVIOUS
  <2>1. /\ max_retries \in Nat /\ max_cycles \in Nat /\ tool_rounds \in Nat /\ eval_cycle \in Nat
        /\ tool_rounds <= max_retries /\ eval_cycle <= max_cycles
    BY DEF IInv, TypeOK, BudgetInv
  <2>2. Rank(node) \in 0 .. 7
    BY DEF Rank
  <2> QED
    BY <2>1, <2>2 DEF WorkLeft
<1>2. IInv /\ [Next]_vars => [WorkShrinks]_vars
  <2> SUFFICES ASSUME IInv, Next PROVE WorkShrinks
    OBVIOUS
  <2> USE DEF WorkShrinks, WorkLeft, Rank, Enter, settings, answer
  <2>1. /\ max_retries \in Nat /\ max_cycles \in Nat /\ tool_rounds \in Nat /\ eval_cycle \in Nat
        /\ tool_rounds <= max_retries /\ eval_cycle <= max_cycles
    BY DEF IInv, TypeOK, BudgetInv
  <2>2. CASE Router
    BY <2>1, <2>2 DEF Router
  <2>3. CASE Classifier
    BY <2>1, <2>3 DEF Classifier, RouteAfterClassifier
  <2>4. CASE Planner
    BY <2>1, <2>4 DEF Planner
  <2>5. CASE Agent
    BY <2>1, <2>5 DEF Agent, RouteAfterAgent
  <2>6. CASE AgentFails
    BY <2>1, <2>6 DEF AgentFails
  <2>7. CASE EvaluatorPasses
    BY <2>1, <2>7 DEF EvaluatorPasses, RouteAfterEvaluator
  <2>8. CASE EvaluatorScores
    BY <2>1, <2>8 DEF EvaluatorScores, RouteAfterEvaluator
  <2>9. CASE Tools
    BY <2>1, <2>9 DEF Tools, RouteAfterTools
  <2>10. CASE ToolsInterrupt
    BY <2>1, <2>10 DEF ToolsInterrupt
  <2>11. CASE Resume
    BY <2>1, <2>11 DEF Resume
  <2>12. CASE Timeout
    BY <2>1, <2>12 DEF Timeout, Running
  <2> QED
    BY <2>2, <2>3, <2>4, <2>5, <2>6, <2>7, <2>8, <2>9, <2>10, <2>11, <2>12 DEF Next, NodeStep
<1> QED
  BY Inductive, <1>1, <1>2, PTL DEF Spec
==============================================================================
