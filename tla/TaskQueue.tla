------------------------------ MODULE TaskQueue ------------------------------
(* The durable queue of private messages (task_queue), the requests that   *)
(* enqueue into it while the private worker is away, the health checker,   *)
(* the drain worker of the API process, and restarts of that process.      *)
(*                                                                         *)
(* A task is named by the request that enqueues it.  Every await between a *)
(* SELECT and the COMMIT that relies on it is a step boundary.  Time is    *)
(* what it does to the rows: deadlines pass, and a day does.               *)
EXTENDS Integers, FiniteSets

CONSTANTS
    Tasks,          \* the requests, and the rows they insert
    Keys,           \* idempotency keys
    NoTask,
    MaxQueueDepth,  \* MAX_QUEUE_DEPTH
    MaxRetries,     \* task_queue.max_retries
    MaxFaults       \* bound: restarts and failed commits

ASSUME NullAssumption == NoTask \notin Tasks
ASSUME LimitsAssumption ==
    /\ MaxQueueDepth \in Nat
    /\ MaxRetries \in Nat
    /\ MaxFaults \in Nat

VARIABLES
    \* committed rows
    status,    \* [Tasks -> Status], "none" before the row is inserted
    retries,   \* [Tasks -> Nat]: retry_count
    deadline,  \* [Tasks -> Deadline]: timeout_at against the clock
    aged,      \* the rows queued more than 24 hours ago
    \* the coroutines that enqueue
    pc,        \* [Tasks -> RequestPC]
    key,       \* [Tasks -> Keys]: idempotency_key, fixed
    queuedAt,  \* [Tasks -> Nat]: queued_at, 0 before the row is made
    clock,     \* the last queued_at handed out
    \* the health checker and the drain worker
    available, \* HealthChecker._available
    hasRunner, \* whether the worker was given a runner, fixed
    wpc,       \* where in _drain_one the worker is
    stale,     \* the rows poll() found past their deadline
    held,      \* the task it dispatches, or NoTask
    \* history
    tries,     \* [Tasks -> Nat]: how often the runner was started on the task
    spoiled,   \* [Tasks -> Nat]: dispatches that raised or were cut off
    faults     \* restarts and failed commits so far

rows == <<status, retries, deadline, aged>>
request == <<pc, key, queuedAt, clock>>
worker == <<wpc, stale, held>>
history == <<tries, spoiled>>
vars == <<rows, request, available, hasRunner, worker, history, faults>>

-----------------------------------------------------------------------------
Status == {"none", "queued", "processing", "completed", "failed", "cancelled"}
Deadline == {"none", "set", "past"}
RequestPC == {"idle", "checked", "counted", "queued", "duplicate", "full", "gone"}
WorkerPC == {"asleep", "polling", "polled", "running", "returning"}

(* The task whose dispatch is in progress. *)
Busy(t) == held = t /\ wpc \in {"running", "returning"}

Init ==
    /\ status = [t \in Tasks |-> "none"]
    /\ retries = [t \in Tasks |-> 0]
    /\ deadline = [t \in Tasks |-> "none"]
    /\ aged = {}
    /\ pc = [t \in Tasks |-> "idle"]
    /\ key \in [Tasks -> Keys]
    /\ queuedAt = [t \in Tasks |-> 0]
    /\ clock = 0
    /\ available = FALSE
    /\ hasRunner \in BOOLEAN
    /\ wpc = "asleep"
    /\ stale = {}
    /\ held = NoTask
    /\ tries = [t \in Tasks |-> 0]
    /\ spoiled = [t \in Tasks |-> 0]
    /\ faults = 0

-----------------------------------------------------------------------------
(* enqueue *)

(* The rows that make a request with t's key a duplicate. *)
SameKey(t) == {u \in Tasks : status[u] # "none" /\ u \notin aged /\ key[u] = key[t]}

(* The depth check counts these; no code ever writes "retrying". *)
Waiting == {t \in Tasks : status[t] = "queued"}

(* Mutant: any task in the window counts as a duplicate. *)
CheckDuplicateAnyKey(t) ==
    /\ pc[t] = "idle"
    /\ ~available
    /\ pc' = [pc EXCEPT ![t] =
          IF {u \in Tasks : status[u] # "none" /\ u \notin aged} = {} THEN "checked"
          ELSE "duplicate"]
    /\ UNCHANGED <<rows, key, queuedAt, clock, available, hasRunner, worker,
                   history, faults>>

(* A private message comes in while the private worker is away. *)
CheckDuplicate(t) ==
    /\ pc[t] = "idle"
    /\ ~available
    /\ pc' = [pc EXCEPT ![t] = IF SameKey(t) = {} THEN "checked" ELSE "duplicate"]
    /\ UNCHANGED <<rows, key, queuedAt, clock, available, hasRunner, worker,
                   history, faults>>

(* Under the limit, the row is made, with the time as its queued_at. *)
CountDepth(t) ==
    /\ pc[t] = "checked"
    /\ \/ /\ Cardinality(Waiting) >= MaxQueueDepth
          /\ pc' = [pc EXCEPT ![t] = "full"]
          /\ UNCHANGED <<queuedAt, clock>>
       \/ /\ Cardinality(Waiting) < MaxQueueDepth
          /\ pc' = [pc EXCEPT ![t] = "counted"]
          /\ clock' = clock + 1
          /\ queuedAt' = [queuedAt EXCEPT ![t] = clock']
    /\ UNCHANGED <<rows, key, available, hasRunner, worker, history, faults>>

(* flush and commit, which may fail: then there is no row. *)
InsertTask(t) ==
    /\ pc[t] = "counted"
    /\ \/ pc' = [pc EXCEPT ![t] = "queued"] /\ status' = [status EXCEPT ![t] = "queued"]
       \/ pc' = [pc EXCEPT ![t] = "gone"] /\ UNCHANGED status
    /\ UNCHANGED <<retries, deadline, aged, key, queuedAt, clock, available,
                   hasRunner, worker, history, faults>>

(* cancel() gets the row and its caller commits.  It waits for the lock    *)
(* that poll's flush takes on the rows it requeues.                        *)
Cancel(t) ==
    /\ status[t] \notin {"none", "cancelled"}
    /\ ~(wpc = "polled" /\ t \in stale)
    /\ status' = [status EXCEPT ![t] = "cancelled"]
    /\ UNCHANGED <<retries, deadline, aged, request, available, hasRunner,
                   worker, history, faults>>

-----------------------------------------------------------------------------
(* HealthChecker, and the clock *)

HealthPoll(healthy) ==
    /\ available # healthy
    /\ available' = healthy
    /\ UNCHANGED <<rows, request, hasRunner, worker, history, faults>>

(* Only the deadline of a row in processing is ever looked at. *)
DeadlinePasses(t) ==
    /\ status[t] = "processing"
    /\ deadline[t] = "set"
    /\ deadline' = [deadline EXCEPT ![t] = "past"]
    /\ UNCHANGED <<status, retries, aged, request, available, hasRunner,
                   worker, history, faults>>

WindowPasses ==
    /\ aged' = {t \in Tasks : status[t] # "none"}
    /\ aged' # aged
    /\ UNCHANGED <<status, retries, deadline, request, available, hasRunner,
                   worker, history, faults>>

-----------------------------------------------------------------------------
(* QueueDrainWorker *)

(* Mutants: the status is not asked for; no row is taken for stale. *)
StaleOfAnyStatus == {t \in Tasks : deadline[t] = "past"}
StaleNever == {}

(* The rows whose dispatch was cut off long enough ago. *)
Stale == {t \in Tasks : status[t] = "processing" /\ deadline[t] = "past"}

(* Every ten seconds, if the private worker is there, poll() starts. *)
PollStale ==
    /\ wpc = "asleep"
    /\ available
    /\ stale' = Stale
    /\ wpc' = "polling"
    /\ UNCHANGED <<rows, request, available, hasRunner, held, history, faults>>

(* Mutant: cancelled rows are ready too. *)
ReadyThoughCancelled ==
    {t \in Tasks : t \in stale \/ status[t] \in {"queued", "cancelled"}}

(* What the worker's transaction sees: the stale rows are queued again. *)
Ready == {t \in Tasks : t \in stale \/ status[t] = "queued"}

PollReady ==
    /\ wpc = "polling"
    /\ \/ Ready = {} /\ wpc' = "asleep" /\ UNCHANGED held
       \/ /\ \E t \in Ready :
                /\ \A u \in Ready : queuedAt[t] <= queuedAt[u]
                /\ held' = t
          /\ wpc' = "polled"
    /\ UNCHANGED <<rows, request, available, hasRunner, stale, history, faults>>

(* poll counts a retry for each stale row, which it never compares with    *)
(* max_retries.                                                            *)
RetriesOnRequeue == [t \in Tasks |-> IF t \in stale THEN retries[t] + 1 ELSE retries[t]]

(* One commit requeues the stale rows and marks the ready one; the runner  *)
(* starts on it.                                                           *)
MarkProcessing ==
    /\ wpc = "polled"
    /\ status' = [t \in Tasks |->
          IF t = held THEN "processing" ELSE IF t \in stale THEN "queued" ELSE status[t]]
    /\ retries' = RetriesOnRequeue
    /\ deadline' = [deadline EXCEPT ![held] = "set"]
    /\ stale' = {}
    /\ \/ hasRunner /\ wpc' = "running" /\ tries' = [tries EXCEPT ![held] = @ + 1]
       \/ ~hasRunner /\ wpc' = "returning" /\ UNCHANGED tries
    /\ UNCHANGED <<aged, request, available, hasRunner, held, spoiled, faults>>

(* The worker writes what became of the held task, over whatever the row   *)
(* says by now, and sleeps.                                                *)
Settle(verdict) ==
    /\ status' = [status EXCEPT ![held] = verdict]
    /\ wpc' = "asleep"
    /\ held' = NoTask
    /\ UNCHANGED <<deadline, aged, request, available, hasRunner, stale, tries,
                   faults>>

(* The runner's events are consumed; its own errors are among them. *)
DispatchReturns ==
    /\ wpc = "running"
    /\ Settle("completed")
    /\ UNCHANGED <<retries, spoiled>>

(* Mutant: a task is put off under a status that poll does not look for. *)
DispatchRaisesRetrying ==
    /\ wpc = "running"
    /\ Settle("retrying")
    /\ retries' = [retries EXCEPT ![held] = @ + 1]
    /\ spoiled' = [spoiled EXCEPT ![held] = @ + 1]

(* The runner raised. *)
DispatchRaises ==
    /\ wpc = "running"
    /\ Settle(IF retries[held] + 1 >= MaxRetries THEN "failed" ELSE "queued")
    /\ retries' = [retries EXCEPT ![held] = @ + 1]
    /\ spoiled' = [spoiled EXCEPT ![held] = @ + 1]

(* There is no runner. *)
ReturnUndispatched ==
    /\ wpc = "returning"
    /\ Settle("queued")
    /\ UNCHANGED <<retries, spoiled>>

(* Whatever the dispatch came to is lost with the worker's session. *)
CutOff ==
    /\ faults < MaxFaults
    /\ faults' = faults + 1
    /\ wpc' = "asleep"
    /\ held' = NoTask
    /\ stale' = {}
    /\ spoiled' = [t \in Tasks |-> IF Busy(t) THEN spoiled[t] + 1 ELSE spoiled[t]]
    /\ UNCHANGED <<rows, key, queuedAt, clock, hasRunner, tries>>

(* A commit of the worker fails. *)
CommitFails ==
    /\ wpc # "asleep"
    /\ CutOff
    /\ UNCHANGED <<pc, available>>

(* The process dies, or stops and cancels the worker, and starts again. *)
Restart ==
    /\ CutOff
    /\ pc' = [t \in Tasks |-> IF pc[t] \in {"checked", "counted"} THEN "gone" ELSE pc[t]]
    /\ available' = FALSE

WorkerStep ==
    \/ PollReady
    \/ MarkProcessing
    \/ DispatchReturns
    \/ DispatchRaises
    \/ ReturnUndispatched

Next ==
    \/ \E t \in Tasks : CheckDuplicate(t) \/ CountDepth(t) \/ InsertTask(t) \/ Cancel(t)
    \/ \E healthy \in BOOLEAN : HealthPoll(healthy)
    \/ \E t \in Tasks : DeadlinePasses(t)
    \/ WindowPasses
    \/ PollStale
    \/ WorkerStep
    \/ CommitFails
    \/ Restart

Spec == Init /\ [][Next]_vars

(* Coroutines run on, deadlines pass, and the private worker comes back    *)
(* again and again for long enough that the drain loop finds it there.     *)
Fairness ==
    /\ \A t \in Tasks : WF_vars(CountDepth(t) \/ InsertTask(t))
    /\ \A t \in Tasks : WF_vars(DeadlinePasses(t))
    /\ WF_vars(HealthPoll(TRUE))
    /\ SF_vars(PollStale)
    /\ WF_vars(WorkerStep)

FairSpec == Spec /\ Fairness

-----------------------------------------------------------------------------
(* Properties *)

(* Every variable keeps its shape. *)
TypeOK ==
    /\ status \in [Tasks -> Status]
    /\ retries \in [Tasks -> Nat]
    /\ deadline \in [Tasks -> Deadline]
    /\ aged \in SUBSET Tasks
    /\ pc \in [Tasks -> RequestPC]
    /\ key \in [Tasks -> Keys]
    /\ queuedAt \in [Tasks -> Nat]
    /\ clock \in Nat
    /\ available \in BOOLEAN
    /\ hasRunner \in BOOLEAN
    /\ wpc \in WorkerPC
    /\ stale \in SUBSET Tasks
    /\ held \in Tasks \cup {NoTask}
    /\ wpc \in {"polled", "running", "returning"} => held \in Tasks
    /\ tries \in [Tasks -> Nat]
    /\ spoiled \in [Tasks -> Nat]
    /\ faults \in 0 .. MaxFaults

(* A message is handed to the runner a second time only if an earlier      *)
(* dispatch of it raised or was cut off, and is charged a retry only for   *)
(* such a dispatch: recovery by deadline repeats no work that was settled, *)
(* cancels or not (poll, _drain_one, _dispatch_task).                      *)
OnceUnlessSpoiled ==
    \A t \in Tasks : tries[t] <= spoiled[t] + 1 /\ retries[t] <= spoiled[t]

(* What a request was told is true: a queued message has its row, and one  *)
(* refused as a duplicate has another request's row of its key (enqueue).  *)
AnswersAreHonest ==
    \A t \in Tasks :
        /\ pc[t] = "queued" => status[t] # "none"
        /\ pc[t] = "duplicate" =>
              \E u \in Tasks \ {t} : status[u] # "none" /\ key[u] = key[t]

(* A row's status as the board sees it. *)
BoardView(s) ==
    CASE s = "none" -> "absent"
      [] s \in {"queued", "processing"} -> "open"
      [] s = "completed" -> "done"
      [] s = "failed" -> "failed"
      [] s = "cancelled" -> "cancelled"

BoardState == [t \in Tasks |-> BoardView(status[t])]

(* The queue, its worker and their crashes implement TaskBoard: accepted   *)
(* messages are not lost, settled ones do not come back, and a cancel is   *)
(* lost only if the worker had read the row before (DurableQueue,          *)
(* QueueDrainWorker).                                                      *)
Board == INSTANCE TaskBoard WITH
            Items <- Tasks, state <- BoardState,
            taken <- stale \cup ({held} \ {NoTask}),
            begun <- {t \in Tasks : tries[t] > 0}
ImplementsBoard == Board!Spec

(* With a runner, whatever crashes and however the private worker comes    *)
(* and goes, every accepted message is settled in the end: a row left      *)
(* processing by a crash is recovered (poll, MVP-L3).                      *)
EverythingSettles ==
    \A t \in Tasks :
        hasRunner /\ status[t] # "none"
        ~> status[t] \in {"completed", "failed", "cancelled"}

=============================================================================
