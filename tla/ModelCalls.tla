----------------------------- MODULE ModelCalls -----------------------------
(* The model calls of one run: which provider each node's text goes to,    *)
(* what the clients make of the answers, and which calls are paid for in   *)
(* usage_stats.                                                            *)
(*                                                                         *)
(* A turn is one message to the run; another message may join the run      *)
(* while it is active, and takes up the state that was saved for it.  The  *)
(* order and the bounds of the nodes are AgentGraph's, the approval of a   *)
(* parked turn is RunLifecycle's.  The providers are external; waiting     *)
(* between attempts takes no step of its own.                              *)
EXTENDS Integers

CONSTANTS
    Turns,          \* the messages that come to the run
    Configured,     \* providers with a key; "ollama" is always there
    Chosen,         \* providers users choose for the agent
    NodeProvider,   \* provider in node_models for the other nodes, or "default"
    MaxRetries,     \* _MAX_RETRIES
    MaxCalls        \* bound: answers of the agent's model

External == {"anthropic", "openai", "google_ai", "kimi"}

ASSUME ModelAssumption ==
    /\ MaxRetries \in Nat \ {0} /\ MaxCalls \in Nat
    /\ Configured \subseteq External /\ Chosen # {}
    /\ NodeProvider \in Configured \cup {"ollama", "default"}

VARIABLES
    stage,      \* [Turns -> Stages]: the node the turn is at
    privacy,    \* [Turns -> {"private", "external"}]
    choice,     \* [Turns -> Chosen]: user_provider_override
    wire,       \* [Turns -> Wires]: the call in flight
    usage,      \* [Turns -> SUBSET Answers]: llm_usage
    saved,      \* the usage in the run's checkpoint
    counted,    \* [Answers -> Nat]: its rows in usage_stats
    answers,    \* answers of the agent's model so far
    reached,    \* [Turns -> providers]: where its text has been sent
    own,        \* history: [Turns -> SUBSET Answers]: the answers it got
    joined,     \* history: a turn took up the state of another
    uncounted   \* history: turns whose rows were not written

modelVars == <<stage, privacy, choice, wire, usage, saved, counted, answers,
               reached, own, joined, uncounted>>
turn == <<privacy, choice>>
books == <<usage, saved, counted, answers, own, joined, uncounted>>

-----------------------------------------------------------------------------
Answers == 1 .. MaxCalls
Stages == {"idle", "classifier", "planner", "agent", "tools", "evaluator", "compaction",
           "ready", "result", "parked", "answered", "failed"}
Asking == {"classifier", "planner", "agent", "evaluator", "compaction"}
NoCall == [provider |-> "none", attempt |-> 0]
Wires == [provider : External \cup {"ollama"}, attempt : 1 .. MaxRetries] \cup {NoCall}

(* ModelConfig.for_privacy_mode with router_node's merge: node_models wins *)
(* except for the agent, whose model is the mode's or the user's choice.   *)
ModelOf(t, node) ==
    CASE node = "compaction"                          -> "openai"
      [] node = "agent"                               -> IF privacy[t] = "private" THEN "ollama"
                                                         ELSE choice[t]
      [] node \notin {"compaction", "agent"}          ->
            IF NodeProvider # "default" THEN NodeProvider
            ELSE IF privacy[t] = "private" THEN "ollama" ELSE "openai"

(* ProviderRouter.select: "none" when the privacy mode forbids the choice. *)
Select(mode, provider) ==
    IF mode = "private"
    THEN IF provider \in External THEN "none" ELSE "ollama"
    ELSE provider

(* Only the agent's calls carry the run's privacy mode.                    *)
Mode(t, node) == IF node = "agent" THEN privacy[t] ELSE "external"

(* complete: a client there is.  Gemini's takes neither model nor tools,   *)
(* and the router always passes a model.                                   *)
Dispatches(provider) == provider \in (Configured \ {"google_ai"}) \cup {"ollama"}

(* What a client makes of a response: again, done, or raised.              *)
Client(retried, response, attempt) ==
    IF response \in retried /\ attempt < MaxRetries THEN "again"
    ELSE IF response = "ok" THEN "done" ELSE "raised"

Responses == {"ok", "limited", "overloaded", "error", "timeout"}
OpenAIClient(response, attempt) == Client({"limited"}, response, attempt)
KimiClient(response, attempt) == Client({"limited"}, response, attempt)
AnthropicClient(response, attempt) == Client({"limited", "overloaded"}, response, attempt)
OllamaClient(response, attempt) == Client({}, response, attempt)
ClientOf(provider, response, attempt) ==
    CASE provider = "openai"    -> OpenAIClient(response, attempt)
      [] provider = "kimi"      -> KimiClient(response, attempt)
      [] provider = "anthropic" -> AnthropicClient(response, attempt)
      [] provider = "ollama"    -> OllamaClient(response, attempt)

(* Streaming, which the agent does without tools, is never tried again, and*)
(* a stream that is cut short ends as a complete one.                      *)
StreamOf(response) == IF response = "ok" THEN "done" ELSE "raised"

ModelInit ==
    /\ stage = [t \in Turns |-> "idle"]
    /\ privacy = [t \in Turns |-> "external"]
    /\ choice = [t \in Turns |-> CHOOSE p \in Chosen : TRUE]
    /\ wire = [t \in Turns |-> NoCall]
    /\ usage = [t \in Turns |-> {}]
    /\ saved = {}
    /\ counted = [c \in Answers |-> 0]
    /\ answers = 0
    /\ reached = [t \in Turns |-> {}]
    /\ own = [t \in Turns |-> {}]
    /\ joined = FALSE /\ uncounted = {}

(* runner.run: fresh state, then the saved state of the run over it; and   *)
(* router_node.                                                            *)
StartTurn(t) ==
    /\ stage[t] = "idle"
    /\ stage' = [stage EXCEPT ![t] = "classifier"]
    /\ privacy' \in {[privacy EXCEPT ![t] = m] : m \in {"private", "external"}}
    /\ choice' \in {[choice EXCEPT ![t] = p] : p \in Chosen}
    /\ usage' = [usage EXCEPT ![t] = saved]
    /\ joined' = (joined \/ saved # {})
    /\ UNCHANGED <<wire, saved, counted, answers, reached, own, uncounted>>

(* invoke_llm up to the first request.                                     *)
Invoke(t) ==
    /\ stage[t] \in Asking /\ wire[t] = NoCall
    /\ LET provider == Select(Mode(t, stage[t]), ModelOf(t, stage[t])) IN
         /\ Dispatches(provider)
         /\ wire' = [wire EXCEPT ![t] = [provider |-> provider, attempt |-> 1]]
         /\ reached' = [reached EXCEPT ![t] = @ \cup {provider}]
    /\ UNCHANGED <<stage, turn, books>>

Again(t) ==
    /\ wire[t] # NoCall
    /\ \E response \in Responses :
         ClientOf(wire[t].provider, response, wire[t].attempt) = "again"
    /\ wire' = [wire EXCEPT ![t].attempt = @ + 1]
    /\ UNCHANGED <<stage, turn, reached, books>>

(* The turn goes on to a node; a call that was in flight is over.          *)
GoTo(t, nodes) ==
    /\ stage' \in {[stage EXCEPT ![t] = n] : n \in nodes}
    /\ wire' = [wire EXCEPT ![t] = NoCall]

Answered(t) ==
    /\ wire[t] # NoCall
    /\ ClientOf(wire[t].provider, "ok", wire[t].attempt) = "done"
Refused(t) ==
    IF wire[t] = NoCall
    THEN ~Dispatches(Select(Mode(t, stage[t]), ModelOf(t, stage[t])))
    ELSE \E response \in Responses :
           \/ ClientOf(wire[t].provider, response, wire[t].attempt) = "raised"
           \/ stage[t] = "agent" /\ StreamOf(response) = "raised"

(* Whatever the answer, or none: these nodes have a default for a call that*)
(* fails, and need no call for what is simple.                             *)
Helper(t, node, nodes) ==
    /\ stage[t] = node
    /\ Answered(t) \/ Refused(t) \/ wire[t] = NoCall
    /\ GoTo(t, nodes)
    /\ UNCHANGED <<turn, reached, books>>

Classifier(t) == Helper(t, "classifier", {"planner", "agent"})
Planner(t) == Helper(t, "planner", {"agent"})
Evaluator(t) == Helper(t, "evaluator", {"agent", "compaction"})
Compaction(t) == Helper(t, "compaction", {"ready"})

(* Mutant: the record replaces the ones before it.                         *)
AgentOverwrites(t) ==
    /\ stage[t] = "agent" /\ Answered(t) /\ answers < MaxCalls
    /\ answers' = answers + 1
    /\ usage' = [usage EXCEPT ![t] = {answers + 1}]
    /\ own' = [own EXCEPT ![t] = @ \cup {answers + 1}]
    /\ GoTo(t, {"tools", "evaluator"})
    /\ UNCHANGED <<turn, reached, saved, counted, joined, uncounted>>

(* agent_node appends a usage record; only its own calls get one.          *)
Agent(t) ==
    /\ stage[t] = "agent" /\ Answered(t) /\ answers < MaxCalls
    /\ answers' = answers + 1
    /\ usage' = [usage EXCEPT ![t] = @ \cup {answers + 1}]
    /\ own' = [own EXCEPT ![t] = @ \cup {answers + 1}]
    /\ GoTo(t, {"tools", "evaluator"})
    /\ UNCHANGED <<turn, reached, saved, counted, joined, uncounted>>

(* The graph raises; nothing is saved or counted.                          *)
AgentFails(t) ==
    /\ stage[t] = "agent" /\ Refused(t)
    /\ GoTo(t, {"failed"})
    /\ UNCHANGED <<turn, reached, books>>

(* The tools run, or the graph stops for an approval: the stream then ends *)
(* without usage, and the resumed run's is in an event nobody counts.      *)
Tools(t) ==
    /\ stage[t] = "tools"
    /\ GoTo(t, {"agent", "parked"})
    /\ UNCHANGED <<turn, reached, books>>

(* The client goes away, or the timeout ends the turn between two nodes.   *)
Abandon(t) ==
    /\ stage[t] \notin {"idle", "parked", "answered", "failed"}
    /\ GoTo(t, {"failed"})
    /\ UNCHANGED <<turn, reached, books>>

(* checkpointer.save, whose error fails the run that has its answer.       *)
SaveState(t) ==
    /\ stage[t] = "ready"
    /\ \/ GoTo(t, {"result"}) /\ saved' = usage[t]
       \/ GoTo(t, {"failed"}) /\ UNCHANGED saved
    /\ UNCHANGED <<turn, reached, usage, counted, answers, own, joined, uncounted>>

(* After result_ready _record_usage: all rows, or with an error none.      *)
RecordUsage(t) ==
    /\ stage[t] = "result"
    /\ GoTo(t, {"answered"})
    /\ \/ /\ counted' = [c \in Answers |-> IF c \in usage[t] THEN counted[c] + 1 ELSE counted[c]]
          /\ UNCHANGED uncounted
       \/ uncounted' = uncounted \cup {t} /\ UNCHANGED counted
    /\ UNCHANGED <<turn, reached, usage, saved, answers, own, joined>>

ModelNext ==
    \E t \in Turns :
      \/ StartTurn(t) \/ Invoke(t) \/ Again(t)
      \/ Classifier(t) \/ Planner(t) \/ Evaluator(t) \/ Compaction(t)
      \/ Agent(t) \/ AgentFails(t) \/ Tools(t) \/ Abandon(t)
      \/ SaveState(t) \/ RecordUsage(t)

ModelSpec == ModelInit /\ [][ModelNext]_modelVars
-----------------------------------------------------------------------------
ModelTypeOK ==
    /\ stage \in [Turns -> Stages] /\ wire \in [Turns -> Wires]
    /\ privacy \in [Turns -> {"private", "external"}] /\ choice \in [Turns -> Chosen]
    /\ usage \in [Turns -> SUBSET Answers] /\ saved \in SUBSET Answers
    /\ counted \in [Answers -> Nat] /\ answers \in 0 .. MaxCalls
    /\ reached \in [Turns -> SUBSET (External \cup {"ollama"})]
    /\ own \in [Turns -> SUBSET Answers]
    /\ joined \in BOOLEAN /\ uncounted \in SUBSET Turns

(* Over tool rounds, reroutes, retries and turns that fail half way, no    *)
(* answer of the agent's model is counted twice, unless a turn took up the *)
(* saved state of another one; and all answers that led to a response are  *)
(* counted once the response is there, if their rows could be written.     *)
CallsCountedOnce ==
    /\ ~joined => \A c \in Answers : counted[c] <= 1
    /\ \A t \in Turns : stage[t] = "answered" /\ t \notin uncounted =>
         \A c \in own[t] : counted[c] > 0

(* The text of a private message reaches no external provider.             *)
PrivateStaysLocal ==
    \A t \in Turns : privacy[t] = "private" => reached[t] \subseteq {"ollama"}
=============================================================================
