# NoaOS in TLA+

NoaOS is a governed assistant: a FastAPI process (`src/src/noa`) runs a LangGraph
agent for each chat message, gates its tool calls by risk tier and user approval,
queues private work while the private worker is away, and records what happened.
This directory holds TLA+ modules of its state machines, the TLC instances that
check them and the proofs that hold for instances of every size.  All paths below
are relative to `src/src/noa` unless they start with `src/`.

## 1. Inventory

| Component | State it keeps | Operations | Interacts through | What makes it correct |
|---|---|---|---|---|
| Chat API (`api/v1/chat.py`) | rows `runs`, `conversations`, `approvals`, `messages`, `idempotency_keys`, `usage_stats`; one SSE coroutine per message | check the key, choose mode and thread, find or make a run, start the runner, persist approval, messages and usage, settle the run | reads and writes rows across awaits; runner generator; durable queue | a run is owned while it runs, settles once for a reason, stays in its domain; a message is handled once; what is stored of a turn is true |
| Runs API (`api/v1/runs.py`, `runs/`) | `runs.status`, run events | complete, answer (`/resume`), list, replay | resume tasks on the runner | terminal statuses are final |
| Approvals API (`api/v1/approvals.py`) | `approvals.decision` | decide, background resume | runner.resume, an uncommitted session | a decision is made once, and releases the call it names |
| Runner (`orchestrator/runner.py`) | `_pending_interrupts`, LangGraph's checkpoint per run | run, resume | graph task, event queue, SSE stream | each run ends with one outcome; a parked call waits for its decision |
| Graph nodes (`orchestrator/nodes`, `graph.py`) | graph state: plan, messages, tool calls, counters, usage | classify, plan, route, agent, tools, evaluate, compact | LLM router, tool gateway | iteration, retry and reroute bounds |
| Tool node and gateway (`orchestrator/nodes/tools.py`, `tools/gateway.py`) | interrupt values, rate windows | gate, interrupt, dispatch, audit | policy engine, adapters, audit log | a call runs only when permitted, and is reported as what it was |
| Tool catalogue (`tools/registration.py`, `capabilities.py`, `api/v1/tools.py`) | adapters in the process, rows `custom_tools`, `tool_capabilities`, probe results | register, restore, grant, revoke, probe | gateway | a disabled tool is refused |
| Policy, preview (`policy/`) | none that takes effect | tier check, preview | gateway | high tiers need approval and step-up |
| Durable queue, drain, health (`queue/`) | rows `task_queue`; availability flag | enqueue, poll, dispatch, settle, cancel | chat API, runner, private worker | accepted work is done at least once, once when nothing crashes |
| Scheduler (`scheduler/`) | in-memory heap and dependency graph | enqueue, next, complete, cancel, retry | task API | tasks do not wait for each other in a circle; a cancel reaches dependents |
| Audit (`audit/`) | the `audit_log` hash chain | append, verify | tool dispatch | the chain has no fork and no gap |
| Auth (`auth/`, `api/v1/auth.py`) | rows `users`, `sessions`, `token_blacklist` | register, login, refresh, logout, reset, clean up | every request | logged out is final; rotation strands nobody |
| Google account (`tools/google_*.py`, `api/v1/tools.py`) | row `google_credentials`, live client, environment | connect, disconnect, refresh, load, save | calendar and gmail tools | what the user did last is what holds |
| Settings (`settings/`, `api/v1/settings.py`) | row `user_settings`, prompt file, live router | PUT, PATCH, scope overrides | router, agent prompt | no update undoes another |
| Memory (`private_worker/memory_store.py`, `api/v1/memory.py`) | facts in a dictionary and in files | create, remember, approve, update, delete, load | memory tool and API | a fact is what the user last made of it |
| LLM router and clients (`external_worker/`, `llm_router.py`) | none between calls | choose a provider, call, retry, stream | graph nodes | private text stays local; no answer is paid for twice |
| Privacy classifier (`privacy/classifier.py`) | none | classify | chat API, router node | explicit choices win |
| Cost (`cost/`) | rows `usage_stats` | record, report | chat API | see the LLM router |
| Push, validation, voice, retention, backup (`push/`, `validation/`, `voice/`, `maintenance/`) | device tokens; files | send, scan, transcribe | API | see "Not modelled" |
| Web client (`src/web`), iOS client (`src/ios`) | tokens, SSE connection | refresh, send, render | the API | see "Not modelled" |

### Why it is hard

* Everything in the API process is a coroutine: each `await` between reading a
  row and writing it lets another request in, and sessions are READ COMMITTED
  without row locks (`db/engine.py`).
* Long work (the graph) outlives the request that started it, and a second
  request, perhaps from another device, decides how it goes on.
* The process restarts: coroutines, MemorySaver's checkpoints, caches and counters are
  lost, rows stay.
* Best-effort steps are wrapped in `except Exception`: each may be missing.

The hazards this leaves are listed, each at its line, under "hazards" of
`PROJECT.json`; the properties below are aimed at them.

## 2. Modules, runs and plan

| Step | Modules | State |
|---|---|---|
| 1 | `RunLifecycle`: the runs of a thread, approvals, resumes, restarts | done, section 3 |
| 2 | `ToolNode`, abstract `ApprovalGate`: gates and LangGraph's replay | done, section 4 |
| 3 | `TaskQueue`, abstract `TaskBoard`: durable queue, drain worker | done, section 5 |
| 4 | `AuditChain`: concurrent appends and verification | done, section 6 |
| 5 | `AgentGraph`: the graph's routes and bounds | done, section 7 |
| 6 | `AuthSessions`, `GoogleLink`, `SettingsStore`: the user's account | done, sections 8 to 10 |
| 7 | `MemoryFacts`, `TaskScheduler`, `ToolCatalog`: the stores of the process | done, sections 11 to 13 |
| 8 | `MessageRouting`, `ThreadHistory`, `ModelCalls`: a message's way in, what it leaves and what it costs | done, sections 14 to 16 |
| 9 | `Services`: the ten modules of 4 and 6 to 8 in one run | done, section 17 |
| 10 | proofs of the safety of 1 to 9 | done, section 20 |
| 11 | `RunLifecycle` with `MessageRouting` and with `ToolNode` over shared state; the audit log with its users | left |

Each component has its module, its abstract specification if it has one, and a `.cfg`
named after it.  The proofs of `RunLifecycle`, `ToolNode`, `TaskQueue` and
`AgentGraph` are in a module of their own each; those of the services are in
three: `Accounts_proofs` (`AuthSessions`, `GoogleLink`, `SettingsStore`),
`Stores_proofs` (`AuditChain`, `MemoryFacts`, `TaskScheduler`, `ToolCatalog`) and
`Messages_proofs` (`MessageRouting`, `ThreadHistory`, `ModelCalls`); `Services_proofs`
puts these together.  A module `MC...` adds symmetry where the run checks
safety only.  Definitions whose comment begins with "Mutant" are variants of the
definition that follows them, with a plausible bug in it; no specification uses
them.

| Run | Module | Question | Expected |
|---|---|---|---|
| `run_safety` | `MCRunLifecycle` | do runs keep owners, reasons and grants under every interleaving and a restart | pass |
| `run_live` | `MCRunLifecycle` | does every stream and request end | pass |
| `run_grant`, `run_resume` | `MCRunLifecycle` | does an approval release its own call; does a resumed run settle | refuted |
| `node_gate` | `ToolNode` | does the node implement `ApprovalGate`, report honestly and finish | pass |
| `node_position` | `ToolNode` | does that survive a capability change | refuted |
| `queue_board` | `TaskQueue` | does the queue implement `TaskBoard` and settle everything | pass |
| `graph_bounds` | `AgentGraph` | do the bounds hold for every setting | pass |
| `services` | `Services` | does each service keep its promise | pass |
| `audit_fork` | `AuditChain` | does `FOR UPDATE` keep the chain from forking | refuted |
| `privacy_path` | `ModelCalls` | does private text stay local | refuted |
| `history_pairs` | `ThreadHistory` | does each stored result answer a stored call | refuted |

## 3. RunLifecycle

**State and actions.** `status`, `born` and `approval` are the columns of `runs` and
`approvals` that decide anything.  A message is a stream `s` whose `pc` is the await
`submit_chat`'s coroutine stands at: `FindActiveRun` (`_find_active_run`),
`StartRunner` (the Run row, or a reused one put back to running, and the graph's
start), `RunnerInterrupt`, `RunnerAskUser`, `RunnerFinish` (how `runner.run` ends),
`CreateApproval`, then `UpdateRunStatusRead` and `UpdateRunStatusWrite`, between which
other requests come in, or `Disconnect`.  In a private thread `MakeQueuedRun`,
`EnqueuePrivateChat` and `DrainQueued` take their place.  A request `q` is a POST to
`/decide` (`DecideCheck`, `DecideCommit`), `/resume` (`AnswerRun`) or `/complete`
(`CompleteCheck`, `CompleteCommit`), and the background resume it schedules
(`ResumeStart`, `ResumeEnd`).  `parked` is what MemorySaver holds for a run.  The
session of a resume is never committed: what it flushes is a row lock (`rowLock`)
and nothing else.  A stream's database calls are all best effort
(`api/v1/chat.py:183`, `:650`, `:1060`): with `InsertsMayFail` the look-up finds
nothing, a row is not made, an approval is not inserted, or the last status is not
written and the stream ends with its run unsettled (`pc` is `gone`, as after a
disconnect).  A row that has its last status already gets at most a summary, an update
that waits for the row lock like any other (`write` is `"summary"`).  `Restart` drops coroutines, locks and MemorySaver and fails any
part of the running runs (`_recover_orphaned_runs` takes those old enough).

**Runs.** `run_safety` has two runs, messages, calls and requests, a private thread,
failing database calls and one restart: enough for a message to reuse another's run while
it settles, for two decisions of two calls to race, and for a restart between any
two steps.  `run_live` leaves out restarts and the second call, which liveness does
not need, and has one run so that both streams meet in it.
`run_grant` and `run_resume` are refutations:

* `run_grant`: `_resume_graph` passes only the run id.  A follow-up message
  supersedes the parked call; the approve of the old one is then handed to the call
  the run is parked on now (finding at `api/v1/approvals.py:254`).
  `ReleaseNeedsGrant` is what does hold: some call of that run was granted.
* `run_resume`: nothing commits the statuses a resume writes, so a run whose graph
  is over stays `awaiting_approval` (`api/v1/approvals.py:317`).

**Fairness.** Weak, for each stream and each request: the event loop runs ready
coroutines and every model call has a time limit.  Nothing is assumed of users,
restarts or the private worker.

**Proved**, for any sets, any number of restarts, with or without failing database calls:
the twelve theorems of `RunLifecycle_proofs`.  The inductive invariant is
`TypeOK /\ WellLinked /\ ReleaseNeedsGrant /\ LockHolderIsResuming /\ OwnedInv /\
EarnedInv /\ ApprovalInv`.  `WellLinked` is needed because a handler uses after an await what it
read before it: only as long as call and run still belong together does a scheduled
approve imply a grant.  `OwnedInv` and `EarnedInv` add to `RunningIsOwned` and
`StatusIsEarned` what a stream between its read and its write is about to do.
`ApprovalInv` is for `SettledDecisionStands`: a call is interrupted once,
so no stream inserts its approval's row, which would make it pending again, after a
decision.

Three theorems say how far the refuted claims and the lost message reach:
`OneInterruptIsSafe` (`run_grant`'s claim holds of each call whose run was interrupted for
no other), `AwaitingNeedsDisturbance` (`run_resume`'s claim holds of a run that one
stream serves and that no decision, no answer and no restart has touched; its invariant
`ParkedInv` says what that stream parked while it settles the run) and
`FirstMessageIsQueued` (a message that began its run is lost by a failing call alone,
since a queued run is not an active one that others take up).  `StreamsEnd` and
`RequestsEnd` are model-checked only; `WorkIsBounded` is the safety half of them: no
interleaving sends a coroutine back, and a thread's work is over after at most seven
steps of each message, four of each request, and the restarts.

**Reachable, though a reader might not expect it**: a settled run goes back to running
while a handler that had found it active is under way (hence `Quiet` in
`QuiescentTerminalIsFinal`); two decisions that both read `pending` both commit; a
thread has two active runs; a run whose stream cannot
write its status stays running until a restart that finds it old enough; a run parked on
`ask_user` settles as failed; the second
interrupt of a resumed graph has no approval row and cannot be decided; a second
deferred message of a run is dropped as the first's duplicate
(`api/v1/chat.py:1223`) though its sender is told it is queued.

## 4. ToolNode and ApprovalGate

**State and actions.** One entry of `tool_node`: the loop is `at` a call, at a `step` of
the body, and has passed `asked` interrupts.  `kind[c]` is what scope, registry,
domains and policy make of a call: one of eight classes, each a path through the
body.  `Reject`, `DispatchAsks`, `CapabilityDenied`, `DispatchRaises`, `DispatchRuns`,
`RedispatchRuns` and `RedispatchBlocked` are the gateway's outcomes.  LangGraph resumes a node by
running it from its first line, and its nth `interrupt()` returns the nth value given:
`InterruptParks` leaves the node, `Resume` appends a value and starts over,
`InterruptReplays` and `InterruptReturns` consume.  Results are local and are
collected anew; executions are not undone, so a low-tier call before an interrupt
runs again in every rerun.

**What happens meanwhile.** `capable` are the calls whose capability stands; the user may
change it at any time, at most `RevocationsLeft` times (`toggles` counts).  The query for
it may fail: `dispatch` has no handler of its own, and `_dispatch_gateway` turns whatever
it raises into an error result (`tools.py:383`, `DispatchRaises`).  Where the call would
have asked for approval this takes its interrupt out of this run of the code, just as a
revoked capability does; `errors` counts those, at most `ErrorsLeft`.  Everywhere else a
dispatch may fail as often as it likes.  `Steady` says that neither has happened: each
dispatch asks that asked before.  `ApprovalGate` promises that a gated call runs only
after that very call was granted and never after it was refused, until `Steady` ends
(`lapsed`).

**Runs.** `node_gate`: three calls of all eight kinds in every combination, approvals
enforced or not, one capability change and one dispatch that fails in the asking, each
at any time; three calls are enough for a replay with one value before and one after the
call in question.
`node_position` refutes `RunsOnlyGranted` with one change: a capability revoked between
two resumes removes an interrupt from the rerun, and the next call takes the earlier
call's approval (`orchestrator/nodes/tools.py:192`).  A failed query refutes it as well:
with `RevocationsLeft = 0` and `ErrorsLeft = 1` TLC finds the same ending.

**Fairness.** Weak for the node's code and for the user's answer to what is shown;
without the latter a parked node rightly waits.

**Proved**, for any number of calls, of capability changes and of failing dispatches:
`TypeOK`, `ValuesStayWithTheirCalls`, `ResultsAreHonest`, `ImplementsGate`, and
`RunsOnlyGranted` as long as `Steady`, which the refutation shows to be necessary.  Which
value a call takes, what a denial means and the gate itself depend on `Steady` as well.
What is left without it is `NothingRunsUnasked`: no gated call runs before the user has
approved some call of the list.
The invariant is `TypeOK`, and while `Steady` `Kept`: `capable = Call /\ Paired
/\ Prefix /\ Position /\ Remembered`.  The calls shown so far are the first
interrupting ones, in order (`Prefix`), and the loop has passed exactly those whose
values it has taken (`Position`); lemma `NextValueFits` concludes that the next value is
for the call the loop is at.  `HonestInv` adds `Reports`, which nothing disturbs, and
`Refusals`: each value that is no approval is a refusal of the call it was shown for.

`NobodyIsAskedTwice` adds that while `Steady` no call is shown twice, and that
each entry of the node comes, within `4 * Count + 3` steps, to its end or to a call to
show: with the user's answers, that is why `NodeFinishes`, which is model-checked only,
holds.  `ReplayIsBounded` counts the repeated side effects, with changes or without: a
call runs once, and once more for each answer given to a call after it.

**Reachable**: a cross-domain call stays blocked after its approval; a high-tier call is
dispatched after an approve without the step-up its tier names; a low-tier side effect
happens once per rerun, within the bound of `ReplayIsBounded`.

## 5. TaskQueue and TaskBoard

**State and actions.** Rows (`status`, `retries`, `deadline`, `aged`), one request per task
(`CheckDuplicate`, `CountDepth`, `InsertTask`, which may fail - three awaits without a lock or a unique
key), `Cancel`, the availability flag (`HealthPoll`) and the drain worker's steps between
awaits: `PollStale`, `PollReady`, `MarkProcessing`, then `DispatchReturns`,
`DispatchRaises` or `ReturnUndispatched`.  `CommitFails` and `Restart` end what the worker had
in hand at any point.  Time is what it does to rows: `DeadlinePasses`, `WindowPasses`.

**Run.** `queue_board`: two messages with equal or different keys, depth one (so that
the limit is met), two retries, one fault.  The queue implements `TaskBoard`: an
accepted item is not lost, a settled one does not come back, and a cancel is lost only
if the worker had the item in hand.

**Fairness.** Weak for coroutines, deadlines, the worker and a healthy poll; strong for
`PollStale`, since the flag comes and goes and the drain loop must now and then wake
while it is set.  `HealthPoll(TRUE)` fair means that the private worker comes back.

**Proved**, for any tasks, keys, limits and faults: `TypeOK`, `OnceUnlessSpoiled`,
`AnswersAreHonest` and `ImplementsBoard`, from `TypeOK /\ WorkerInv /\ RowsInv /\
CountInv`.  `CountInv` pays each dispatch with a fault: a row that can be dispatched
again owes none.  `DispatchesAreBounded` pays them with retries: a task is dispatched at
most `max(1, MaxRetries)` times and once more for each restart or failed commit, for the
dispatches a fault spoiled are the retries counted and the one the next poll will count
(`SpoiledInv`).  `EverythingSettles` is model-checked only.

**Reachable**: two racing requests of one key both get a row, and a racing pair exceeds
the depth; `poll()` counts a retry for a row past its deadline and compares it with
nothing (`queue/durable.py:163`), so that a task whose dispatch kills the process is
dispatched after every restart (once: `DispatchesAreBounded`), although `queue/drain.py:130` says that a task without
retries left fails.

## 6. AuditChain

**State and actions.** An append is the transaction of one tool dispatch:
`SelectLatest` (the snapshot), `LockLatest` (`FOR UPDATE`: wait while another transaction
holds the row, then get that same row), `Flush`, `Commit`; `Rollback` at any point.
SHA-256 is taken to have no collisions, so a hash is the entry's name.  A later flush
has a later timestamp; where the process assigns equal ones `verify_chain`'s order is
open, which is not modelled.

**Runs.** In `services`: four appends, two of which can wait for a third while a fourth
is rolled back.  Links lead to older committed entries whatever overlaps;
appends that do not overlap make a log `verify_chain` accepts; nobody waits for ever.
`audit_fork` refutes the comment that `FOR UPDATE` keeps two inserts from reading the same latest
entry: an empty table has no row to lock, and who waited for a lock gets the row it
waited for.

**Fairness.** Weak for the appends together once one has begun: the database goes on with
one of them.  `AppendsEnd` says that the log comes to rest again and again, as it must
with four appends.

**Proved**, for any number of appends: `TypeOK`, `LinksLeadBack`, `SerialAppendsVerify`,
from `TypeOK /\ TimesInv /\ ReadInv /\ SerialInv`; `SerialInv` says that an append in
progress that overlaps no other knows the newest entry.  `AppendsEnd` is
model-checked only.

**Not modelled**: the purge, which is handed an async session and fails before it deletes
(`api/app.py:421`); `GET /audit/verify`'s walk of one user's entries of the common
chain (`api/v1/audit.py:111`); which columns the hash covers.

## 7. AgentGraph

**State and actions.** `node` is the graph's node to run next; `Router`, `Classifier`, `Planner`,
`Agent`, `Tools`, `EvaluatorPasses` and `EvaluatorScores` are one node each with the route
taken from it (`graph.py`'s `route_after_...`), the models' answers chosen freely.
`ToolsInterrupt` and `Resume` leave the graph and call it again; that this happens only
finitely often per node is `NodeFinishes` of section 4.  `Timeout` is the watchdog of
`runner.run`, which looks when a node's output arrives, the last one's included;
`runner.resume` has none.  `Enter` is LangGraph's count of steps: the program never
sets `recursion_limit`, so a call of the graph runs at most 25 nodes.  At exactly the
limit the model allows both outcomes, since LangGraph's versions differ.  `fresh` is a
history variable.

**Run.** `graph_bounds` has the real bounds: every `max_retries` and `max_cycles` of
1..10 the settings API accepts and the limit of 25.

**Reachable**: `evaluator_node` compares `eval_cycle` with `max_cycles` before it
increments it and `route_after_evaluator` after, so the last reroute clears the
response, appends the feedback and ends the graph.  The "max 2 cycles" are one, and
with `max_cycles` 1 the evaluator discards an answer without another try.

**What holds.** The tool rounds never exceed the setting although a reroute sends the
run back to the agent unchecked (`ToolRoundsCapped`); no response is judged twice
(`JudgedFresh`); a graph ends without any response only when its rounds or cycles are
used up (`SilenceExplained`); LangGraph's limit stops only runs with
`2 * (max_retries + max_cycles) + 2 >= 25`, that is with settings that add up to 12 or
more (`LimitSpares`) - the settings API accepts such values, and their runs can fail.

**Fairness.** Weak for the nodes other than `tools`: each call of a provider has a time
limit.  Strong for `Tools`, which may be interrupted and resumed.  Nobody need answer:
`GraphEnds` allows a run to wait for ever.

**Proved**, for any settings and limit: the five safety properties, from `TypeOK /\
BudgetInv /\ AnswerInv /\ StepsInv`.  `BudgetInv` holds the argument for the rounds: a
response leaves a round unused, and only a response reroutes.  `StepsInv` bounds the
steps at each node by the rounds and cycles so far.  `RunsWindDown` gives a variant that
each node lowers and no interrupt or resume changes, so that at most
`7 + 2 * max_retries + 3 * max_cycles` nodes run whatever the models answer; `GraphEnds`,
of which that is the safety half, is model-checked only.

**Not modelled here**: prompts and the messages' content (plan and memories are prepended
at every iteration).  Models, compaction and a run id used a second time are
`ModelCalls`'s.

## 8. AuthSessions

**State and actions.** A pair is the access and the refresh token of one login or
refresh, named by its number; `hash` and `active` are the rows of `sessions`, `held` is
the pair in the browser's cookie jar, and `at`, `pair`, `row` are what a request in
flight has read.  `Login`, `RefreshRead`, `RefreshRefused`, `RefreshCommit` and
`RefreshAnswer`, `LogoutSession` and `LogoutRevoke`, `ResetPassword` and `Cleanup` are the
service's calls cut at their awaits.  Time passes in half seconds, since `jose` compares
whole seconds and the clean-up of the blacklist microseconds.

**Checked and proved**, for any requests, pairs and lifetimes: `LoggedOutStaysOut` - no
late refresh reopens a closed session, and a revoked access token is accepted again at
most within the second in which it expires, when the clean-up has forgotten it; and
`HeldTokenLives` - the token in the jar is the one its session stores, unless `spoiled`.
`LogoutInv` adds the logouts that are half done, and that no session is older than the
pairs that name it; `RotationInv` that, unless spoiled, each refresh has the session it
read to itself and knows the hash that is stored.  With two requests, three pairs and
lifetimes of none and one second, a token expires, is refreshed and is revoked in every
order.

**Reachable**: two refreshes that overlap both answer, and one answer's token is dead
(`auth/service.py:119`); a token made by a refresh names no session, so that a logout
after it leaves the session open (`auth/service.py:125`); a password reset leaves the
sessions open and its token can be used again; nothing calls
`revoke_all_user_tokens`.  The blacklist check lets a token pass when the database
fails, which is left out.

## 9. GoogleLink

**State and actions.** `stored` is the `google_credentials` row, `live` the client's tokens,
`env` the environment variable, `saves` the fire-and-forget save tasks, `sent` the
refreshes under way.  `Callback`, `StoreGrant`, `PublishGrant`, and `DeleteRow`,
`ClearTokens` are connect and disconnect, cut between row and client; `RefreshSend` and
`RefreshDone` a tool's token refresh; `Save` ends any pending task, whose commit may fail;
`GoogleRestart` registers from the environment and leaves the row to a task that selects
it (`LoadRead`) and, after another await, hands its tokens to the client (`LoadApply`).
Either may raise - the database, the decryption - and what it raises is logged and
forgotten (`tools/registration.py:211`): then the client stays empty beside a row that
holds the grant (`unloaded`), until the user connects again or a later start succeeds.

**Checked and proved**, for any tools and bounds: `LastWordHolds` - once nothing is
pending, row and client hold what the user did last, after a restart too, except that the
client holds nothing if the load failed.  It excuses a user who acts while
a refresh, save or load is pending (`crossed`), and a deployment that carries a grant of
its own; `LinkInv` says that otherwise only the last grant is about, in row, saves,
refreshes and client alike.

**Reachable**: a refresh that ends after a disconnect brings the tokens back into the
client; saves commit out of order; a deployment's token is saved over a newer row at
startup; a failed load leaves a connected account without tokens, and no status or error
shows it.  One connect or disconnect is in progress at a time: two that overlap would
count as `crossed` and are left out.  The clients' own token check has neither a user nor a session and does
nothing.

## 10. SettingsStore

**State and actions.** A setting is shown as the row's `column`, or as `Unset` while there
is no row.  Two columns stand for the plain ones: `url`, which the router is rebuilt
from, and `mode`, for which the row has another default (`Standard`,
`settings/models.py:51`) than is shown without one (`settings/service.py:63`).
`scope_overrides` is one column that holds a value for every scope.  A request sets some
keys to some values (`asks`) and is cut at its awaits: `Ask`, `SelectRow`, `FlushRow`
(which takes the row's lock, or fails on the unique user), `CommitRow`, `ReloadRouter`;
`PromptOnly` writes the prompt file alone, and `UpdateFails` rolls a request back at any
await.  What the flush writes is decided at the SELECT (`dirty`): an insert writes every
column, with the row's defaults; an update leaves out a column whose attribute was set to
the value it was loaded with (`settings/repository.py:43`).  `ReloadRouter` installs the
url or fails and keeps the old router (`api/v1/settings.py:148`).

**Checked and proved**, for any requests, values and scopes: `LastSettingHolds`.  Its
three parts excuse as little as the code allows.  A column that no two requests were at
work on at once (`contested`) shows what was last asked for.  A plain column does so even
then, unless the last to commit sent back the value it had loaded (`resent`).  And the
router has the url shown unless requests on the url overlapped, from a rebuild on until a
restart or a rebuild that fails (`behind`).  The inductive invariant `SettingsInv` has one
conjunct for each: `ColumnsInv` (a request alone on its column has a snapshot equal to
what is stored and wished, and leaves out only what stands there already), `PlainInv`
and `RouterInv`.

**Reachable**: two overlapping overrides lose one (`settings/service.py:248`); of two
overlapping updates of one plain setting the later one, sent back as it was loaded, is
not written and the other's value stays; a restart ignores the stored url, and a failed
rebuild is answered like a successful one; a failed update leaves the prompt file
changed.  The first update of any setting turns the `default_privacy_mode` shown,
`external`, into the row's default, `standard`, although `update_settings` promises that
only the provided fields change (`last` takes the row's defaults at the insert).

## 11. MemoryFacts

**State and actions.** `memory` is the dictionary, `disk` the files: a write may leave the
old file or one that is no JSON, and either error is swallowed.  `CreateFact`,
`Embed` and `Remember` (which wait for an embedding in between), `ApproveFact`,
`UpdateFact`, `DeleteFact`, `MemoryRestart`.

**Checked and proved**, for any texts, calls and facts: `LastWishRemembered`, from
`Synced` (a file none of whose writes failed holds what memory holds) and `Single` (pending
facts, too, are stored once).

**Reachable**: a failed unlink brings a deleted fact back at the next start, a torn
update loses one, an updated fact keeps the embedding of its old text.  Two processes
on one volume, each with its own dictionary, are not modelled.

## 12. TaskScheduler

**State and actions.** `Enqueue` with its cycle and depth checks, `Dequeue` (priority, then
order, of what is not blocked), `Complete`, `Cancel` with its cascade, `Retry`; each is one
step of the event loop, but the order in which clients call them is free: an id may be
enqueued again, and a dependency may name a task that does not exist yet.

**Checked and proved**, for any finite set of tasks, priorities and chain limit:
`NoCircularWait` and `CancelReachesAll`; the run takes every sequence of three enqueues and
retries on three tasks, enough for a circle of three.  `Closure` is defined as the least
closed set, so that no induction over its steps is needed: `Acyclic` says that some
closed set holds what a task depends on and not the task, and an enqueue joins or
intersects such sets.  Of the queued tasks, the one that needs the least set of tasks
then waits for no other (`SomeTaskWaitsForNone`).

**Reachable**: the depth limit is evaded by enqueueing dependents first; who depends on
a task that is already cancelled waits for ever; `retry`, `complete` and `cancel` look at
no status.

## 13. ToolCatalog

**State and actions.** `adapter` is the gateway's registry, filled at startup and by
`LoadCustom`; `granted` counts the rows of `tool_capabilities`, for `grant` looks for one,
awaits and inserts without a unique key (`Grant`, `GrantInsert`).  A call passes
`CallTool`, `CheckCapability`, `Execute` with the user's and the global rate window.

**Checked and proved**, for any tools, functions and calls: `DisabledToolIsRefused`, from
`Barred`: while the tool is disabled it has no row and no grant is on its way to one.

**Reachable**: racing grants leave two rows; a probe asks no capability; a tool a user
registered needs a restart and is then denied, for nothing grants it; no caller
gives the gateway an idempotency key, so its store is not modelled.

## 14. MessageRouting

**State and actions.** A message arrives with a key, a thread and a mode (`Arrive`, with
`EffectiveMode` and the classifier's `Classify`), has its key looked up and then written
(`CheckKey`, `RegisterKey`), and goes to the queue (`QueueMessage`) or, perhaps redirected
to a fresh thread (`Redirect`), to its run (`StartRun`).  `SweepKey`, `DeleteThread` and
`RoutingRestart` come between any two of these.  What a handler read of a thread's
domain travels with it in `seen`.

**Checked and proved**, for any messages, keys and threads: `MessageOnce`, from `KeyInv`
(a stored key is that of a message that was let through), and `ThreadKeepsDomain`, from
`FreshInv` (the thread kept for a message has no row and no other message until its
stream tells of it), `SeenInv` (what was seen is still so) and `RoutedInv` (nobody of another
mind is on the way to a fresh thread).  `blind` and `loose` hold exactly the excuses the
properties name: a domain that could not be seen, a key that was not looked up and
written in turn.

**Reachable**: a key is registered before its run exists, so that after a crash the
retry is refused and the message lost (`api/v1/chat.py:276`); a private message for
which the worker is away is queued in a thread of the other domain, before the redirect
(`api/v1/chat.py:283`).  The classifier's confidences are .85 and .8, so the fail-safe for
less than .7 is never reached; and the web composer always sends a mode, so that the
classifier is not asked for its messages, whatever the comment at `chat.py:211` says.

## 15. ThreadHistory

**State and actions.** `log` is the thread's stored messages.  A turn hears the newest
`HistoryLimit` of them (`BeginTurn`), its agent uses tools (`AgentCalls`), the stream
tells of each call and then of each result (`SendToolCalled`, `SendResult`), answers
(`TurnAnswers`, or with a fallback) or breaks off, and `PersistMessages` stores what the
events tell.  `_extract_turn_messages` reads all events when the stream is over, but in
order and without looking ahead, so that `kept` holds the rows it makes of the events so
far: `WithCall` and `WithResult` are its two cases.  A transaction's rows are taken to
have adjacent timestamps.

**Checked**: `StoredTurnsAreTrue`, with two turns of at most two uses of two tools, and a
limit of four: two uses of one tool in one call and in two rounds both occur, and the
limit cuts.  `history_pairs` refutes that "each round is emitted as a separate
assistant+tool message pair": a result is sent as `tool_end` and as `tool_result` and
stored twice, the second time as the answer to no call; one use suffices.

**Proved**, for any turns that overlap, break or vanish, any tools and any limit:
`HistoryTypeOK` and `StoredTurnsAreTrue`, from `HistoryTypeOK /\ KeptFits /\ LogIsStored /\
WordsAreSaid /\ StoredTurnsAreTrue`.  `KeptFits` relates the rows a turn has kept to what
it did: the results on record are those of the uses that returned, in order; each
call kept is that of a tool's first use, and is answered from then on when that use has
returned; a call still open is in the last round, so that the next result of its tool
finds it and no other.  `WordsAreSaid` is why a borrowed answer is an earlier one:
what a turn heard stays in the log, which only grows.  That appending keeps all this is
lemma by lemma a statement about rows (`WithCall`, `WithResult`, and the joining of
`kept` to `log`), and only the last of them speaks of states.  `FirstUsesPairUp` is what
is left of the refuted pairing: each stored call whose tool returned has an answer, and
the result of the first use of a tool in a turn is filed under its call.

**Reachable**: a tool is announced once per turn, so that its later results answer no
stored call; an interrupted turn stores calls without results; the fallback answer may
be an earlier turn's (`orchestrator/runner.py:1302`); the limit may cut between a call and
its result.  A failed tool's run is summarised as completed (`_build_run_summary` reads
keys the event does not have); summaries are not in the model.

## 16. ModelCalls

**State and actions.** A turn is one message to a run, `stage` its node, `wire` its call in
flight.  `Invoke` chooses the provider as `ProviderRouter` does and refuses private text
for an external one, `Again` is a client's retry; `Agent` takes the answer's usage,
`SaveState` saves or fails to, `RecordUsage` writes the rows.  A second message may join
the run and takes up the state saved for it, of which only the usage is a variable:
`privacy` and `choice` are what the run goes on with, and since `runner.py:323` takes them
from the saved state too, a joining message may be served under an earlier one's mode.
A streamed external call, whose coroutine the router returns without awaiting it, fails
before anything is sent; the model lets it reach the provider, more than the code does.

**Checked and proved**, for any turns, providers and answers: `CallsCountedOnce`, from
`BooksInv` (a turn has the record of each answer it got, and, unless turns joined, of no
other's), and `ModelTypeOK`.  `privacy_path` refutes README.md:267: compaction calls OpenAI with the
messages of any run, without its privacy mode (`orchestrator/nodes/compactor.py:20`).
`PrivateTextGoesNowhereElse` bounds the leak: private text reaches the local model, the
provider the user chose for a node other than the agent's, and, from the compaction on,
OpenAI where it is configured; nothing else, whatever is retried or joined.

**Reachable**: `GoogleAIClient.complete` does not take the arguments the router passes, so
`google_ai` never answers; a joining message's saved usage is counted twice
(`orchestrator/runner.py:323`); a state that is no JSON fails an answered run
(`orchestrator/runner.py:734`); runs that park, fail or are resumed have no usage rows.

## 17. Services

Ten modules are checked in one run.  They share the process and the database, but no
variable that a property of one of them speaks of, so a behaviour of one is not changed
by steps of another, and `Services` is their sum, not their product: `part` names the
service at work and the others stay at rest (only the settings' part may begin with a
row in place).  An invariant of one service holds in the
product exactly if it holds in its part.  Where two modules do meet - the thread a
message is routed to and the run it gets, the model calls and the graph's nodes - each
leaves the other's side free, as its comment says.

**Bounds.** Four appends; two requests and three token pairs; two grants, two saves, two
tools; two settings requests, two scopes, and two values to set, one of them the value
shown before; two texts and facts; three tasks; two
messages, one key and one thread besides the messages' own; two turns with two uses
of two tools; two turns, two answers and two attempts.  They are enough for two actors
to meet between any two steps, and for a third thing (a waiting append, a restart, a
deletion, a clean-up) to come between; the theorems hold without them.  `ServicesTypeOK` is
the conjunction of the types.

**Proved**, for all values of the constants: `ServicesSpec` implements each of the ten
specifications, its fairness aside (`EachServiceIsImplemented`: a step of `Services` is
one of a service's or leaves its variables alone), so that `ServicesTypeOK` and the
fourteen invariants of the run, proved of each service alone, hold of `Services`.
`AppendsEnd` is model-checked only.

**Fairness.** Only of the appends; nothing is claimed to happen eventually elsewhere:
the other services wait for users, or do one synchronous thing.

## 18. Hazards no property covers

* `GET /audit/verify` walks one user's entries of the common chain
  (`api/v1/audit.py:111`): the model's entries have no user.
* A second deferred message of a run is dropped as the first's duplicate
  (`api/v1/chat.py:1223`): reachable in `RunLifecycle`, and nothing in the code prevents it.
  `FirstMessageIsQueued` proves that a run's first message is not.
* A task whose dispatch kills the process is dispatched after every restart
  (`queue/durable.py:163`): reachable in `TaskQueue`, likewise.  `DispatchesAreBounded`
  proves that it takes a fault each time.

## 19. Not modelled

* `validation/`: nothing at runtime calls `ValidationPipeline`, `validate_response` or
  `ContractViolationTracker`; `validate_request` and `scan_output_recursive` are pure scans.
* `memory/vector_store.py`, the embedder, `PrivacyMetrics`, `classify_async`, `CostTracker`,
  `CostLimiter`, `ApprovalBatcher`, `ApprovalService`: no code that runs uses them, or
  (the last) it is handed a session of the wrong kind and takes no effect.
* `maintenance/`: `RetentionScheduler` is handed an async session and deletes nothing
  (`api/app.py:421`); backup and database maintenance shell out to other programs.
* Push and voice keep no state between requests; sending is fire-and-forget.
* The RPC of the private worker is one stateless request with a shared secret; DLP
  matches patterns.
* The web client keeps its tokens in httpOnly cookies, which are `AuthSessions`'s jar; that
  one page refreshes once at a time only removes interleavings.  The iOS client's offline
  queue is wired without a network monitor, so that nothing is ever queued in it.
* Row shapes, migrations, deployment, logging, reads and wording.

## 20. What is proved, what is checked, what is assumed

* Proved, for every value of the constants: the type invariants and the safety
  properties, action properties included, that the passing runs check, and that
  `ToolNode` implements `ApprovalGate`, `TaskQueue` `TaskBoard`, and `Services` each of
  its services.
* Only model-checked: liveness under fairness (`GraphEnds`, `StreamsEnd`, `RequestsEnd`,
  `AppendsEnd`, `EverythingSettles`, `NodeFinishes`), which is out of the prover's reach.
  For four of them its safety half is proved, a bound on the steps: `RunsWindDown`,
  `WorkIsBounded` and `NobodyIsAskedTwice`.
* Of the claims the runs refute, the theorems prove what is left:
  `OneInterruptIsSafe`, `AwaitingNeedsDisturbance`, `FirstUsesPairUp`,
  `PrivateTextGoesNowhereElse`, and of `node_position` `NothingRunsUnasked` and the case
  `Steady`; for
  `audit_fork` it is `SerialAppendsVerify`.
* Assumed of the constants: the named assumptions of each module - bounds are natural
  numbers, the special values are none of the ordinary ones, `MaxRetries` and
  `MaxSaves` are at least one.
* Postgres, LangGraph, the event loop, the file system, Google, adapters and providers
  are external and modelled from how the code uses them: READ COMMITTED, row locks,
  replay by position, default step limit, a write that may fail or tear.
* One API process (the code keeps `_pending_interrupts`, MemorySaver, the registry and
  the health flag in memory).
* `CHECK_DEADLOCK FALSE` is set throughout since each model comes to rest when its
  requests are served.
