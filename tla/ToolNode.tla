------------------------------ MODULE ToolNode ------------------------------
(* One execution of the graph's tools node: it takes the agent's list of   *)
(* tool calls in order through the gateway and interrupts where the user   *)
(* has to decide or answer.  LangGraph resumes an interrupted node by      *)
(* running it again from its first line; the nth interrupt() of the rerun  *)
(* returns the nth value the user gave, the values being kept by position. *)
(*                                                                         *)
(* Decisions arrive for the call that is shown (RunLifecycle has what      *)
(* happens when they do not).  The policy is PolicyEngine's; adapters,     *)
(* rate limits and LangGraph are external.                                 *)
EXTENDS Integers, Sequences

CONSTANTS
    Count,            \* how many calls the agent made: calls are 1 .. Count
    Kinds,            \* the kinds of call the instance contains
    RevocationsLeft,  \* bound: capability revocations and grants by the user
    ErrorsLeft        \* bound: dispatches that fail where they should ask

ASSUME CountAssumption == Count \in Nat
ASSUME KindsAssumption ==
    Kinds \subseteq {"low", "medium", "high", "cross", "ask", "unscoped",
                     "unregistered", "private"}
ASSUME RevocationsAssumption == RevocationsLeft \in Nat /\ ErrorsLeft \in Nat

Call == 1 .. Count

VARIABLES
    \* fixed when the node is entered
    kind,      \* [Call -> Kinds]: what scope, registry, domains and policy make of it
    enforced,  \* state["approvals_enabled"]
    \* the run of the node's code in progress
    step,      \* where in the loop's body it is
    at,        \* the call the loop is at
    asked,     \* how many interrupt() calls this run of the code has passed
    given,     \* <<v>>: the resume value no interrupt() has taken yet, or <<>>
    result,    \* [Call -> Result]: the entries of tool_results so far
    \* LangGraph's checkpoint of the interrupted node
    values,    \* sequence of the resume values taken so far, in order
    shownFor,  \* history: the call that was shown when each of them was given
    \* outside the node
    capable,   \* the calls whose tool the user has the capability for
    toggles,   \* how often the user has changed that
    errors,    \* how many dispatches raised instead of asking for approval
    \* history
    granted,   \* calls approved while shown
    refused,   \* calls denied, or answered as if a question, while shown
    runs       \* [Call -> Nat]: how often the call's adapter was executed

fixed == <<kind, enforced>>
code == <<step, at, asked, given, result>>
checkpoint == <<values, shownFor>>
outside == <<capable, toggles, errors>>
history == <<granted, refused, runs>>
vars == <<fixed, code, checkpoint, outside, history>>

-----------------------------------------------------------------------------
Step == {"call", "gate", "approved", "parked", "done"}
Result == {"none", "rejected", "error", "ran", "answered", "denied", "blocked"}
Value == {"approved", "denied", "answer"}

(* requires_approval: medium and high; unknown actions are classified high.*)
RequiresApproval(c) == kind[c] \in {"medium", "high"}

(* dispatch asks for approval of an external tool in a private run         *)
(* whatever approvals_enabled says.                                        *)
CrossDomain(c) == kind[c] = "cross"

Init ==
    /\ kind \in [Call -> Kinds]
    /\ enforced \in BOOLEAN
    /\ step = "call"
    /\ at = 1
    /\ asked = 0
    /\ given = <<>>
    /\ result = [c \in Call |-> "none"]
    /\ values = <<>>
    /\ shownFor = <<>>
    /\ capable = Call
    /\ toggles = 0
    /\ errors = 0
    /\ granted = {}
    /\ refused = {}
    /\ runs = [c \in Call |-> 0]

-----------------------------------------------------------------------------
(* Mutant: the loop skips the call after it. *)
AppendSkipping(outcome) ==
    /\ result' = [result EXCEPT ![at] = outcome]
    /\ at' = at + 2
    /\ step' = "call"

(* The call's entry is appended and the loop goes on. *)
Append1(outcome) ==
    /\ result' = [result EXCEPT ![at] = outcome]
    /\ at' = at + 1
    /\ step' = "call"

(* Not in the scope's allowlist, not registered, or a private tool in an   *)
(* external run.                                                           *)
Reject ==
    /\ step = "call" /\ at \in Call
    /\ kind[at] \in {"unscoped", "unregistered", "private"}
    /\ Append1("rejected")
    /\ UNCHANGED <<fixed, asked, given, checkpoint, outside, history>>

(* dispatch, first time, answers that approval is needed; ask_user needs   *)
(* no dispatch.                                                            *)
NeedsInterrupt ==
    \/ kind[at] = "ask"
    \/ CrossDomain(at)
    \/ RequiresApproval(at) /\ enforced /\ at \in capable

(* The loop comes to a call that interrupts. *)
DispatchAsks ==
    /\ step = "call" /\ at \in Call
    /\ NeedsInterrupt
    /\ step' = "gate"
    /\ UNCHANGED <<fixed, at, asked, given, result, checkpoint, outside, history>>

(* The user lacks the tool's capability. *)
CapabilityDenied ==
    /\ step \in {"call", "approved"} /\ at \in Call
    /\ kind[at] \in {"low", "medium", "high"}
    /\ at \notin capable
    /\ Append1("error")
    /\ UNCHANGED <<fixed, asked, given, checkpoint, outside, history>>

(* dispatch raises before it asks or executes, as has_capability does when *)
(* its query fails, and _dispatch_gateway makes an error result of it.     *)
DispatchRaises ==
    /\ step \in {"call", "approved"} /\ at \in Call
    /\ kind[at] \in {"low", "medium", "high"}
    /\ IF step = "call" /\ NeedsInterrupt
       THEN errors < ErrorsLeft /\ errors' = errors + 1
       ELSE UNCHANGED errors
    /\ Append1("error")
    /\ UNCHANGED <<fixed, asked, given, checkpoint, capable, toggles, history>>

(* Past every check: the rate limit refuses, or the adapter executes and   *)
(* succeeds or fails.                                                      *)
Execute ==
    /\ at \in Call /\ at \in capable
    /\ \/ Append1("error") /\ UNCHANGED runs
       \/ /\ \E outcome \in {"ran", "error"} : Append1(outcome)
          /\ runs' = [runs EXCEPT ![at] = @ + 1]
    /\ UNCHANGED <<fixed, asked, given, checkpoint, outside, granted, refused>>

DispatchRuns ==
    /\ step = "call" /\ at \in Call
    /\ kind[at] = "low" \/ (RequiresApproval(at) /\ ~enforced)
    /\ Execute

(* Re-dispatch after an approval, with approvals_enabled = False. *)
RedispatchRuns ==
    /\ step = "approved" /\ at \in Call
    /\ ~CrossDomain(at)
    /\ Execute

(* The re-dispatched request is not marked approved, so a cross-domain one *)
(* is answered with approval_required again, and that is its result.       *)
RedispatchBlocked ==
    /\ step = "approved" /\ at \in Call
    /\ CrossDomain(at)
    /\ Append1("blocked")
    /\ UNCHANGED <<fixed, asked, given, checkpoint, outside, history>>

-----------------------------------------------------------------------------
(* Mutant: anything but a denial is an approval. *)
UseUnlessDenied(value) ==
    IF kind[at] = "ask" THEN Append1("answered")
    ELSE IF value # "denied" THEN step' = "approved" /\ UNCHANGED <<at, result>>
    ELSE Append1("denied")

(* Mutant: the decisions are taken the wrong way round. *)
UseSwapped(value) ==
    IF kind[at] = "ask" THEN Append1("answered")
    ELSE IF value = "denied" THEN step' = "approved" /\ UNCHANGED <<at, result>>
    ELSE Append1("denied")

(* What the node does with the value interrupt() returned. *)
Use(value) ==
    IF kind[at] = "ask" THEN Append1("answered")
    ELSE IF value = "approved" THEN step' = "approved" /\ UNCHANGED <<at, result>>
    ELSE Append1("denied")

(* Mutant: the last value is not replayed. *)
InterruptReplaysButLast ==
    /\ step = "gate"
    /\ asked + 1 < Len(values)
    /\ Use(values[asked + 1])
    /\ asked' = asked + 1
    /\ UNCHANGED <<fixed, given, checkpoint, outside, history>>

(* interrupt() returns a value of an earlier resume, by position. *)
InterruptReplays ==
    /\ step = "gate"
    /\ asked < Len(values)
    /\ Use(values[asked + 1])
    /\ asked' = asked + 1
    /\ UNCHANGED <<fixed, given, checkpoint, outside, history>>

(* It takes the value of this resume. *)
InterruptReturns ==
    /\ step = "gate"
    /\ asked >= Len(values)
    /\ given # <<>>
    /\ Use(given[1])
    /\ values' = Append(values, given[1])
    /\ asked' = asked + 1
    /\ given' = <<>>
    /\ UNCHANGED <<fixed, shownFor, outside, history>>

(* It raises: the node's work is dropped and the call is shown to the user.*)
InterruptParks ==
    /\ step = "gate"
    /\ asked >= Len(values)
    /\ given = <<>>
    /\ step' = "parked"
    /\ UNCHANGED <<fixed, at, asked, given, result, checkpoint, outside, history>>

(* Mutant: the rerun goes on at the call that was shown. *)
ResumeInPlace(value) ==
    /\ step = "parked"
    /\ step' = "call"
    /\ asked' = 0
    /\ given' = <<value>>
    /\ shownFor' = Append(shownFor, at)
    /\ granted' = IF value = "approved" THEN granted \cup {at} ELSE granted
    /\ refused' = IF value = "approved" THEN refused ELSE refused \cup {at}
    /\ UNCHANGED <<fixed, at, result, values, outside, runs>>

(* The user decides the call shown, and the node runs again from its start.*)
Resume(value) ==
    /\ step = "parked"
    /\ step' = "call"
    /\ at' = 1
    /\ asked' = 0
    /\ given' = <<value>>
    /\ result' = [c \in Call |-> "none"]
    /\ shownFor' = Append(shownFor, at)
    /\ granted' = IF value = "approved" THEN granted \cup {at} ELSE granted
    /\ refused' = IF value = "approved" THEN refused ELSE refused \cup {at}
    /\ UNCHANGED <<fixed, values, outside, runs>>

Finish ==
    /\ step = "call" /\ at = Count + 1
    /\ step' = "done"
    /\ UNCHANGED <<fixed, at, asked, given, result, checkpoint, outside, history>>

(* Meanwhile the user switches the capability for a call's tool. *)
ToggleCapability(c) ==
    /\ toggles < RevocationsLeft
    /\ toggles' = toggles + 1
    /\ capable' = IF c \in capable THEN capable \ {c} ELSE capable \cup {c}
    /\ UNCHANGED <<fixed, code, checkpoint, errors, history>>

NodeStep ==
    \/ Reject
    \/ DispatchAsks
    \/ CapabilityDenied
    \/ DispatchRaises
    \/ DispatchRuns
    \/ RedispatchRuns
    \/ RedispatchBlocked
    \/ InterruptReplays
    \/ InterruptReturns
    \/ InterruptParks
    \/ Finish

Next ==
    \/ NodeStep
    \/ \E value \in Value : Resume(value)
    \/ \E c \in Call : ToggleCapability(c)

Spec == Init /\ [][Next]_vars

(* The graph task runs, every adapter call returns, and the user answers   *)
(* what is shown to them.                                                  *)
Fairness == WF_vars(NodeStep) /\ WF_vars(\E value \in Value : Resume(value))

FairSpec == Spec /\ Fairness

-----------------------------------------------------------------------------
(* Properties *)

(* Every variable keeps its shape; the loop never runs past its list.      *)
TypeOK ==
    /\ kind \in [Call -> Kinds]
    /\ enforced \in BOOLEAN
    /\ step \in Step
    /\ at \in 1 .. Count + 1
    /\ step \in {"gate", "approved", "parked"} => at \in Call
    /\ asked \in Nat
    /\ given \in Seq(Value)
    /\ result \in [Call -> Result]
    /\ values \in Seq(Value)
    /\ shownFor \in Seq(Call)
    /\ capable \in SUBSET Call
    /\ toggles \in 0 .. RevocationsLeft
    /\ errors \in 0 .. ErrorsLeft
    /\ granted \in SUBSET Call
    /\ refused \in SUBSET Call
    /\ runs \in [Call -> Nat]

(* The calls the user must decide before they run. *)
Gated == {c \in Call : CrossDomain(c) \/ (RequiresApproval(c) /\ enforced)}

(* Each dispatch that was to ask has asked: no capability has been changed *)
(* and no dispatch has raised in the asking.                               *)
Steady == toggles = 0 /\ errors = 0

(* The node lets the user's gate decide: until the user changes a          *)
(* capability, or the asking fails, it implements ApprovalGate, replays    *)
(* and all (tool_node's interrupt()).                                      *)
Gate == INSTANCE ApprovalGate WITH
            Calls <- Call, gated <- Gated,
            granted <- granted, refused <- refused,
            ran <- {c \in Call : runs[c] > 0},
            lapsed <- ~Steady
ImplementsGate == Gate!Spec

(* A value given for one call is never taken by another: as long as each   *)
(* dispatch asks that asked before, the rerun meets the interrupts it met, *)
(* in the same order (tool_node replay).                                   *)
ValuesStayWithTheirCalls ==
    Steady /\ step = "gate" /\ asked < Len(shownFor) => shownFor[asked + 1] = at

(* What the agent is told of a call is what happened: one reported as run  *)
(* did run, none is left without a report, and one reported as denied was  *)
(* refused by the user, unless a capability changed or the asking failed   *)
(* meanwhile (tool_node's results).                                        *)
ResultsAreHonest ==
    /\ \A c \in Call :
          /\ result[c] = "ran" => runs[c] > 0
          /\ Steady /\ result[c] = "denied" => c \in refused
          /\ c < at => result[c] # "none"
    /\ step = "done" => at = Count + 1

(* A user who answers whatever is shown brings the node to its end: reruns *)
(* do not ask for ever (tool_node under LangGraph's replay).               *)
NodeFinishes == <>(step = "done")

(* A call that needs approval runs only after the user approved that call: *)
(* refuted, for dispatch looks the capability up before it asks: when the  *)
(* user revokes it between interrupt and resume, or the lookup fails, the  *)
(* interrupts of the rerun shift (SPEC.md's explicit user approval).       *)
RunsOnlyGranted == \A c \in Gated : runs[c] > 0 => c \in granted
=============================================================================
