---------------------------- MODULE RunLifecycle ----------------------------
(***************************************************************************)
(* The life of the runs of one conversation thread of one user: the        *)
(* messages POSTed to /chat, the SSE stream that serves each of them, the  *)
(* approval rows it leaves behind, the requests that decide, answer or     *)
(* complete, the resume task a decision starts, and process restarts.      *)
(*                                                                         *)
(* Every handler is a coroutine on one event loop and every database       *)
(* session is READ COMMITTED, so a handler is split where it awaits        *)
(* between reading a row and writing it.  The LangGraph graph is external: *)
(* it either answers, fails, or parks on one interrupted call, which       *)
(* MemorySaver keeps under the run's id.                                   *)
(***************************************************************************)
EXTENDS Integers

CONSTANTS
    Runs,          \* run ids
    Streams,       \* messages submitted to POST /chat, one SSE stream each
    Calls,         \* tool calls the graph may interrupt on
    Requests,      \* POSTs to /decide, /resume and /complete
    NoRun, NoCall, NoRequest,
    PrivateThread, \* whether the thread is private, so that its messages are
                   \* queued while the private worker is down
    InsertsMayFail, \* whether the database calls of a stream, all of them best
                   \* effort, may fail
    MaxRestarts    \* bound: process restarts

ASSUME NullsAssumption ==
    /\ NoRun \notin Runs
    /\ NoCall \notin Calls
    /\ NoRequest \notin Requests
ASSUME BoundsAssumption ==
    /\ MaxRestarts \in Nat
    /\ PrivateThread \in BOOLEAN
    /\ InsertsMayFail \in BOOLEAN

VARIABLES
    \* committed rows
    status,    \* [Runs -> Status]: runs.status, "none" before the row is inserted
    born,      \* [Runs -> Nat]: order of runs.created_at, 0 before the row
    clock,     \* the last value handed out as created_at
    approval,  \* [Calls -> Decision]: the call's approvals row, "none" if absent
    \* the coroutines that serve POST /chat
    pc,        \* [Streams -> StreamPC]
    runOf,     \* [Streams -> Runs or NoRun]: run_id
    fresh,     \* [Streams -> BOOLEAN]: is_new_run
    callOf,    \* [Streams -> Calls or NoCall]: the interrupt its runner reported
    outcome,   \* [Streams -> Outcome]: has_pending_approval, response_text
    write,     \* [Streams -> Status or "summary"]: what it is about to write, or "none"
    \* the graph, and MemorySaver
    callRun,   \* [Calls -> Runs or NoRun]: the run whose graph raised the interrupt
    asks,      \* the calls that are ask_user questions
    parked,    \* [Runs -> Calls or NoCall]: the interrupt the run's graph waits on
    \* the coroutines that serve /decide, /resume, /complete, and resume tasks
    rpc,       \* [Requests -> RequestPC]
    kind,      \* [Requests -> Kind]
    target,    \* [Requests -> Runs or NoRun]
    about,     \* [Requests -> Calls or NoCall]: the call decided, then resumed
    rowLock,   \* [Runs -> Requests or NoRequest]: open transaction of a resume
    \* history
    granted,   \* the calls on whose row an approve was committed
    released,  \* pairs <<call, request>>: interrupts resumed as approved
    restarts   \* number of restarts so far

rows == <<status, born, clock>>
streamData == <<runOf, fresh, callOf, outcome, write>>
streams == <<pc, streamData>>
gates == <<callRun, asks, parked>>
requestData == <<kind, target, about>>
requests == <<rpc, requestData>>
history == <<granted, released>>
vars == <<rows, approval, streams, gates, requests, rowLock, history, restarts>>

-----------------------------------------------------------------------------
Active == {"pending", "running", "awaiting_approval"}
Terminal == {"completed", "failed", "cancelled"}
Status == Active \cup Terminal \cup {"none", "queued"}
Decision == {"none", "pending", "approved", "denied"}

(* Mutant: running may not fail. *)
ValidTransitionsNoFailure ==
    [from \in Status |->
        CASE from = "pending" -> {"running", "cancelled"}
          [] from = "running" -> {"awaiting_approval", "completed", "cancelled"}
          [] from = "awaiting_approval" -> {"running", "cancelled"}
          [] OTHER -> {}]

(* The transitions RunService accepts; "queued" is not one of its statuses. *)
ValidTransitions ==
    [from \in Status |->
        CASE from = "pending" -> {"running", "cancelled"}
          [] from = "running" -> {"awaiting_approval", "completed", "failed", "cancelled"}
          [] from = "awaiting_approval" -> {"running", "cancelled"}
          [] OTHER -> {}]

StreamPC == {"idle", "found", "private", "enqueue", "queued", "lost", "drained",
             "graph", "event", "settle", "write", "ended", "gone"}
(* The stream's coroutine is alive. *)
Alive == {"found", "private", "enqueue", "graph", "event", "settle", "write"}
(* It has made sure of its Run row and not yet settled it. *)
Serving == {"graph", "event", "settle", "write"}
(* Its message is for the private worker, which is down. *)
Deferred == {"private", "enqueue", "queued", "lost", "drained"}
Outcome == {"none", "asked", "answered"}

RequestPC == {"idle", "checked", "scheduled", "resuming", "done", "lost"}
InFlight == {"checked", "scheduled", "resuming"}
Kind == {"approved", "denied", "answer", "complete"}

Init ==
    /\ status = [r \in Runs |-> "none"]
    /\ born = [r \in Runs |-> 0]
    /\ clock = 0
    /\ approval = [c \in Calls |-> "none"]
    /\ pc = [s \in Streams |-> "idle"]
    /\ runOf = [s \in Streams |-> NoRun]
    /\ fresh = [s \in Streams |-> TRUE]
    /\ callOf = [s \in Streams |-> NoCall]
    /\ outcome = [s \in Streams |-> "none"]
    /\ write = [s \in Streams |-> "none"]
    /\ callRun = [c \in Calls |-> NoRun]
    /\ asks = {}
    /\ parked = [r \in Runs |-> NoCall]
    /\ rpc = [q \in Requests |-> "idle"]
    /\ kind = [q \in Requests |-> "complete"]
    /\ target = [q \in Requests |-> NoRun]
    /\ about = [q \in Requests |-> NoCall]
    /\ rowLock = [r \in Runs |-> NoRequest]
    /\ granted = {}
    /\ released = {}
    /\ restarts = 0

-----------------------------------------------------------------------------
(* POST /chat *)

(* The stream goes on to another step, its data unchanged. *)
GoTo(s, step) == pc' = [pc EXCEPT ![s] = step] /\ UNCHANGED streamData

(* A run row no open transaction has locked: an UPDATE of it does not wait. *)
Unlocked(r) == rowLock[r] = NoRequest

NewestActive(r) ==
    /\ status[r] \in Active
    /\ \A o \in Runs : status[o] \in Active => born[o] <= born[r]

Unused(r) == status[r] = "none" /\ \A s \in Streams : runOf[s] # r

(* A follow-up message continues the thread's newest active run; otherwise,*)
(* or when the look-up fails, a new id is drawn.  The rest of the handler  *)
(* runs after more awaits.                                                 *)
FindActiveRun(s) ==
    /\ pc[s] = "idle"
    /\ \E r \in Runs :
          /\ \/ NewestActive(r)
             \/ Unused(r) /\ (InsertsMayFail \/ \A o \in Runs : status[o] \notin Active)
          /\ runOf' = [runOf EXCEPT ![s] = r]
          /\ fresh' = [fresh EXCEPT ![s] = (status[r] = "none")]
    /\ \/ pc' = [pc EXCEPT ![s] = "found"]
       \/ PrivateThread /\ pc' = [pc EXCEPT ![s] = "private"]
    /\ UNCHANGED <<rows, approval, callOf, outcome, write, gates, requests,
                   rowLock, history, restarts>>

(* Insert the Run row, or put a reused run back to running whatever its    *)
(* status has become since it was found; a failure is swallowed.           *)
MakeRun(s, initialStatus) ==
    LET r == runOf[s] IN
    \/ /\ fresh[s]
       /\ status' = [status EXCEPT ![r] = initialStatus]
       /\ clock' = clock + 1
       /\ born' = [born EXCEPT ![r] = clock + 1]
    \/ /\ ~fresh[s]
       /\ status[r] = "running" \/ Unlocked(r)
       /\ status' = [status EXCEPT ![r] = "running"]
       /\ UNCHANGED <<born, clock>>
    \/ InsertsMayFail /\ UNCHANGED rows

(* The stream makes its run, and the runner starts the graph from a new    *)
(* input, which supersedes an interrupt left from before.                  *)
StartRunner(s) ==
    /\ pc[s] = "found"
    /\ MakeRun(s, "running")
    /\ GoTo(s, "graph")
    /\ parked' = [parked EXCEPT ![runOf[s]] = NoCall]
    /\ UNCHANGED <<approval, callRun, asks, requests, rowLock, history, restarts>>

(* The private worker is down: the run is made, but no stream.             *)
MakeQueuedRun(s) ==
    /\ pc[s] = "private"
    /\ MakeRun(s, "queued")
    /\ GoTo(s, "enqueue")
    /\ UNCHANGED <<approval, gates, requests, rowLock, history, restarts>>

(* The message goes to the durable queue under the run's id as idempotency *)
(* key, so a second message of the same run is taken for a duplicate.  A   *)
(* failure is swallowed; in every case the client is told that its message *)
(* was queued.                                                             *)
EnqueuePrivateChat(s) ==
    LET duplicate == \E o \in Streams : runOf[o] = runOf[s] /\ pc[o] \in {"queued", "drained"}
    IN  /\ pc[s] = "enqueue"
        /\ \/ ~duplicate /\ GoTo(s, "queued")
           \/ (duplicate \/ InsertsMayFail) /\ GoTo(s, "lost")
        /\ UNCHANGED <<rows, approval, gates, requests, rowLock, history, restarts>>

-----------------------------------------------------------------------------
(* The runner and the rest of the SSE stream *)

(* The graph of run r parks on a new interrupt. *)
Interrupt(r, c, ask) ==
    /\ callRun[c] = NoRun
    /\ callRun' = [callRun EXCEPT ![c] = r]
    /\ asks' = IF ask THEN asks \cup {c} ELSE asks
    /\ parked' = [parked EXCEPT ![r] = c]

(* The drain loop runs a queued message with a service that writes nothing *)
(* and drops the events: no row of this thread changes, but the graph may  *)
(* park.                                                                   *)
DrainQueued(s) ==
    /\ pc[s] = "queued"
    /\ GoTo(s, "drained")
    /\ \/ \E c \in Calls, ask \in BOOLEAN : Interrupt(runOf[s], c, ask)
       \/ /\ parked' = [parked EXCEPT ![runOf[s]] = NoCall]
          /\ UNCHANGED <<callRun, asks>>
    /\ UNCHANGED <<rows, approval, requests, rowLock, history, restarts>>

(* The runner yields approval_requested and returns. *)
RunnerInterrupt(s) ==
    /\ pc[s] = "graph"
    /\ \E c \in Calls :
          /\ Interrupt(runOf[s], c, FALSE)
          /\ callOf' = [callOf EXCEPT ![s] = c]
    /\ pc' = [pc EXCEPT ![s] = "event"]
    /\ outcome' = [outcome EXCEPT ![s] = "asked"]
    /\ UNCHANGED <<rows, approval, runOf, fresh, write, requests, rowLock,
                   history, restarts>>

(* The runner yields ask_user and returns; the stream treats the event as  *)
(* any other and has no response.                                          *)
RunnerAskUser(s) ==
    /\ pc[s] = "graph"
    /\ \E c \in Calls :
          /\ Interrupt(runOf[s], c, TRUE)
          /\ callOf' = [callOf EXCEPT ![s] = c]
    /\ pc' = [pc EXCEPT ![s] = "settle"]
    /\ UNCHANGED <<rows, approval, runOf, fresh, outcome, write, requests,
                   rowLock, history, restarts>>

(* The graph ends: result_ready with a response, or an error, a timeout or *)
(* an empty response.                                                      *)
RunnerFinish(s) ==
    /\ pc[s] = "graph"
    /\ \E end \in {"answered", "none"} : outcome' = [outcome EXCEPT ![s] = end]
    /\ pc' = [pc EXCEPT ![s] = "settle"]
    /\ UNCHANGED <<rows, approval, runOf, fresh, callOf, write, gates, requests,
                   rowLock, history, restarts>>

(* Best effort: when the insert fails the stream goes on without the row.  *)
CreateApproval(s) ==
    /\ pc[s] = "event"
    /\ \/ approval' = [approval EXCEPT ![callOf[s]] = "pending"]
       \/ InsertsMayFail /\ UNCHANGED approval
    /\ GoTo(s, "settle")
    /\ UNCHANGED <<rows, gates, requests, rowLock, history, restarts>>

(* Mutant: an empty response counts as one. *)
FinalStatusNeverFailed(s) ==
    IF outcome[s] = "asked" THEN "awaiting_approval" ELSE "completed"

FinalStatus(s) ==
    CASE outcome[s] = "asked" -> "awaiting_approval"
      [] outcome[s] = "none" -> "failed"
      [] outcome[s] = "answered" -> "completed"

(* _update_run_status reads the row, and writes it after another await; an *)
(* invalid transition is dropped, but a row that has the status already is *)
(* given a summary when there is one.                                      *)
UpdateRunStatusRead(s) ==
    LET now == status[runOf[s]] IN
    /\ pc[s] = "settle"
    /\ pc' = [pc EXCEPT ![s] = "write"]
    /\ \/ FinalStatus(s) \in ValidTransitions[now] /\ write' = [write EXCEPT ![s] = FinalStatus(s)]
       \/ FinalStatus(s) \notin ValidTransitions[now] /\ write' = [write EXCEPT ![s] = "none"]
       \/ FinalStatus(s) = now /\ write' = [write EXCEPT ![s] = "summary"]
    /\ UNCHANGED <<rows, approval, runOf, fresh, callOf, outcome, gates,
                   requests, rowLock, history, restarts>>

(* Either write waits for the row; one that fails leaves the run unsettled.*)
UpdateRunStatusWrite(s) ==
    /\ pc[s] = "write"
    /\ \/ write[s] = "none" /\ UNCHANGED status /\ GoTo(s, "ended")
       \/ /\ write[s] # "none" /\ Unlocked(runOf[s])
          /\ status' = IF write[s] = "summary" THEN status
                       ELSE [status EXCEPT ![runOf[s]] = write[s]]
          /\ GoTo(s, "ended")
       \/ InsertsMayFail /\ UNCHANGED status /\ GoTo(s, "gone")
    /\ UNCHANGED <<born, clock, approval, gates, requests, rowLock, history, restarts>>

(* The client goes away: the stream's coroutine and its graph task are     *)
(* cancelled where they stand.                                             *)
Disconnect(s) ==
    /\ pc[s] \in Alive
    /\ GoTo(s, "gone")
    /\ UNCHANGED <<rows, approval, gates, requests, rowLock, history, restarts>>

-----------------------------------------------------------------------------
(* POST /approvals/{id}/decide, /runs/{id}/resume and /runs/{id}/complete *)

(* Request q passes its handler's checks. *)
Accept(q, step, k, r, c) ==
    /\ rpc[q] = "idle"
    /\ rpc' = [rpc EXCEPT ![q] = step]
    /\ kind' = [kind EXCEPT ![q] = k]
    /\ target' = [target EXCEPT ![q] = r]
    /\ about' = [about EXCEPT ![q] = c]
    /\ UNCHANGED <<rows, approval, streams, gates, rowLock, history, restarts>>

(* Mutant: a decided approval may be decided again. *)
DecideCheckAgain(q) ==
    \E c \in Calls, k \in {"approved", "denied"} :
        approval[c] # "none" /\ Accept(q, "checked", k, callRun[c], c)

(* decide_approval finds the approval still pending. *)
DecideCheck(q) ==
    \E c \in Calls, k \in {"approved", "denied"} :
        approval[c] = "pending" /\ Accept(q, "checked", k, callRun[c], c)

(* It commits the decision and schedules the resume of the run's graph. *)
DecideCommit(q) ==
    /\ rpc[q] = "checked"
    /\ kind[q] \in {"approved", "denied"}
    /\ approval' = [approval EXCEPT ![about[q]] = kind[q]]
    /\ granted' = IF kind[q] = "approved" THEN granted \cup {about[q]} ELSE granted
    /\ rpc' = [rpc EXCEPT ![q] = "scheduled"]
    /\ UNCHANGED <<rows, streams, gates, requestData, rowLock, released, restarts>>

(* resume_run: the user's answer to an ask_user question. *)
AnswerRun(q) ==
    \E r \in Runs :
        status[r] = "awaiting_approval" /\ Accept(q, "scheduled", "answer", r, NoCall)

(* complete_run accepts every status that is not terminal. *)
CompleteCheck(q) ==
    \E r \in Runs :
        /\ status[r] \notin Terminal \cup {"none"}
        /\ Accept(q, "checked", "complete", r, NoCall)

CompleteCommit(q) ==
    /\ rpc[q] = "checked"
    /\ kind[q] = "complete"
    /\ Unlocked(target[q])
    /\ status' = [status EXCEPT ![target[q]] = "completed"]
    /\ rpc' = [rpc EXCEPT ![q] = "done"]
    /\ UNCHANGED <<born, clock, approval, streams, gates, requestData, rowLock,
                   history, restarts>>

(* Mutant: anything but a denial lets the call run. *)
ApprovesUnlessDenied(q) == kind[q] # "denied"

(* What tool_node makes of the value its interrupt returns. *)
Approves(q) == kind[q] = "approved"

(* Mutant: the session is left open. *)
UnlockNothing(q) == rowLock

(* Closing a session rolls its transaction back. *)
Unlock(q) == [r \in Runs |-> IF rowLock[r] = q THEN NoRequest ELSE rowLock[r]]

(* The resume task flushes status running in a session it never commits,   *)
(* which locks the row when the transition is valid, and hands the         *)
(* decision to whatever interrupt the run's graph is parked on now.        *)
ResumeStart(q) ==
    LET r == target[q] IN
    /\ rpc[q] = "scheduled"
    /\ \/ /\ "running" \in ValidTransitions[status[r]]
          /\ Unlocked(r)
          /\ rowLock' = [rowLock EXCEPT ![r] = q]
       \/ /\ "running" \notin ValidTransitions[status[r]]
          /\ UNCHANGED rowLock
    /\ rpc' = [rpc EXCEPT ![q] = "resuming"]
    /\ about' = [about EXCEPT ![q] = parked[r]]
    /\ released' = IF Approves(q) /\ parked[r] # NoCall
                   THEN released \cup {<<parked[r], q>>} ELSE released
    /\ UNCHANGED <<rows, approval, streams, gates, kind, target, granted, restarts>>

(* The resumed graph ends, fails where it was, or parks on a further call  *)
(* for which nobody inserts an approval; the session is closed and its     *)
(* status updates roll back.                                               *)
ResumeEnd(q) ==
    LET r == target[q] IN
    /\ rpc[q] = "resuming"
    /\ \/ UNCHANGED gates
       \/ /\ about[q] # NoCall
          /\ parked' = [parked EXCEPT ![r] = NoCall]
          /\ UNCHANGED <<callRun, asks>>
       \/ /\ about[q] # NoCall
          /\ \E c \in Calls, ask \in BOOLEAN : Interrupt(r, c, ask)
    /\ rowLock' = Unlock(q)
    /\ rpc' = [rpc EXCEPT ![q] = "done"]
    /\ UNCHANGED <<rows, approval, streams, requestData, history, restarts>>

-----------------------------------------------------------------------------
(* Mutants: the orphans' status is not asked for; a wrong one is written. *)
OrphansOfAnyStatus == {r \in Runs : status[r] # "none"}
RestartWithUnknownStatus ==
    /\ restarts < MaxRestarts
    /\ restarts' = restarts + 1
    /\ status' = [r \in Runs |-> IF status[r] = "running" THEN "orphaned" ELSE status[r]]
    /\ UNCHANGED <<born, clock, approval, streams, gates, requests, rowLock, history>>

(* The running runs, of which startup fails those created long enough ago. *)
Orphans == {r \in Runs : status[r] = "running"}

(* The process dies and starts again: coroutines, locks and MemorySaver    *)
(* are gone, rows and the queue stay.  Any part of the orphans is old      *)
(* enough.                                                                 *)
Restart ==
    /\ restarts < MaxRestarts
    /\ restarts' = restarts + 1
    /\ pc' = [s \in Streams |-> IF pc[s] \in Alive THEN "gone" ELSE pc[s]]
    /\ rpc' = [q \in Requests |-> IF rpc[q] \in InFlight THEN "lost" ELSE rpc[q]]
    /\ parked' = [r \in Runs |-> NoCall]
    /\ rowLock' = [r \in Runs |-> NoRequest]
    /\ \E old \in SUBSET Orphans :
          status' = [r \in Runs |-> IF r \in old THEN "failed" ELSE status[r]]
    /\ UNCHANGED <<born, clock, approval, streamData, callRun, asks, requestData, history>>

StreamStep(s) ==
    \/ StartRunner(s)
    \/ MakeQueuedRun(s)
    \/ EnqueuePrivateChat(s)
    \/ RunnerInterrupt(s)
    \/ RunnerAskUser(s)
    \/ RunnerFinish(s)
    \/ CreateApproval(s)
    \/ UpdateRunStatusRead(s)
    \/ UpdateRunStatusWrite(s)

RequestStep(q) ==
    \/ DecideCommit(q)
    \/ CompleteCommit(q)
    \/ ResumeStart(q)
    \/ ResumeEnd(q)

UserStep ==
    \/ \E s \in Streams : FindActiveRun(s) \/ Disconnect(s)
    \/ \E q \in Requests : DecideCheck(q) \/ AnswerRun(q) \/ CompleteCheck(q)

Next ==
    \/ \E s \in Streams : StreamStep(s)
    \/ \E q \in Requests : RequestStep(q)
    \/ \E s \in Streams : DrainQueued(s)
    \/ UserStep
    \/ Restart

Spec == Init /\ [][Next]_vars

(* The event loop runs every ready coroutine and the graph's calls all     *)
(* time out; users owe nothing, and the private worker may stay down.      *)
Fairness ==
    /\ \A s \in Streams : WF_vars(StreamStep(s))
    /\ \A q \in Requests : WF_vars(RequestStep(q))

FairSpec == Spec /\ Fairness

-----------------------------------------------------------------------------
(* Properties *)

(* Every variable keeps its shape.                                         *)
TypeOK ==
    /\ status \in [Runs -> Status]
    /\ born \in [Runs -> Nat]
    /\ clock \in Nat
    /\ approval \in [Calls -> Decision]
    /\ pc \in [Streams -> StreamPC]
    /\ runOf \in [Streams -> Runs \cup {NoRun}]
    /\ fresh \in [Streams -> BOOLEAN]
    /\ callOf \in [Streams -> Calls \cup {NoCall}]
    /\ outcome \in [Streams -> Outcome]
    /\ write \in [Streams -> Status \cup {"summary"}]
    /\ callRun \in [Calls -> Runs \cup {NoRun}]
    /\ asks \in SUBSET Calls
    /\ parked \in [Runs -> Calls \cup {NoCall}]
    /\ rpc \in [Requests -> RequestPC]
    /\ kind \in [Requests -> Kind]
    /\ target \in [Requests -> Runs \cup {NoRun}]
    /\ about \in [Requests -> Calls \cup {NoCall}]
    /\ rowLock \in [Runs -> Requests \cup {NoRequest}]
    /\ granted \in SUBSET Calls
    /\ released \in SUBSET (Calls \X Requests)
    /\ restarts \in 0 .. MaxRestarts

(* An interrupted call is resumed as approved only in a run for which the  *)
(* user committed an approve: no race of decisions, answers, follow-ups    *)
(* and restarts opens the gate by itself (decide_approval, _resume_graph). *)
ReleaseNeedsGrant ==
    \A p \in released : \E g \in granted : callRun[g] = callRun[p[1]]

(* What the handlers carry across their awaits still means what it meant   *)
(* when they read it: a decision's call and its run, a parked call and the *)
(* run it is parked in, a scheduled approve and a granted call of its run. *)
WellLinked ==
    /\ \A s \in Streams : pc[s] # "idle" => runOf[s] \in Runs
    /\ \A s \in Streams :
          pc[s] = "event" => callOf[s] \in Calls /\ callRun[callOf[s]] = runOf[s]
    /\ \A c \in Calls : approval[c] # "none" => callRun[c] \in Runs
    /\ \A r \in Runs : parked[r] # NoCall => callRun[parked[r]] = r
    /\ \A q \in Requests : rpc[q] # "idle" => target[q] \in Runs
    /\ \A q \in Requests :
          rpc[q] = "checked" /\ kind[q] \in {"approved", "denied"}
          => about[q] \in Calls /\ callRun[about[q]] = target[q]
    /\ \A q \in Requests :
          rpc[q] = "scheduled" /\ kind[q] = "approved"
          => \E g \in granted : callRun[g] = target[q]
    /\ \A g \in granted : callRun[g] \in Runs
    /\ \A p \in released : callRun[p[1]] \in Runs

(* A run is shown as running only while a stream serves it, or because its *)
(* stream was cut off or could not settle it, or because a message deferred*)
(* to the private worker reused it (submit_chat, _make_run_service).       *)
RunningIsOwned ==
    \A r \in Runs : status[r] = "running" =>
        \E s \in Streams :
            /\ runOf[s] = r
            /\ \/ pc[s] \in Serving \cup {"gone"}
               \/ pc[s] \in Deferred /\ ~fresh[s]

(* A settled status rests on what happened: completed on a response or on  *)
(* the user's /complete, awaiting_approval on a stream that was asked for  *)
(* one, failed on a stream without a response or on a restart.             *)
StatusIsEarned ==
    LET Ended(r, end) ==
            \E s \in Streams : runOf[s] = r /\ pc[s] = "ended" /\ outcome[s] = end
        UserCompleted(r) ==
            \E q \in Requests : target[q] = r /\ rpc[q] = "done" /\ kind[q] = "complete"
    IN  \A r \in Runs :
            /\ status[r] = "completed" => Ended(r, "answered") \/ UserCompleted(r)
            /\ status[r] = "awaiting_approval" => Ended(r, "asked")
            /\ status[r] = "failed" => Ended(r, "none") \/ restarts > 0

(* A row stays locked only by a resume task that is still running its      *)
(* graph, so whoever waits for the row is waiting for work in progress.    *)
LockHolderIsResuming ==
    \A r \in Runs : rowLock[r] # NoRequest =>
        rpc[rowLock[r]] = "resuming" /\ target[rowLock[r]] = r

(* Nothing that looked at run r earlier is still in flight. *)
Quiet(r) ==
    /\ \A s \in Streams : runOf[s] = r => pc[s] \notin Alive
    /\ \A q \in Requests : target[q] = r => rpc[q] \notin InFlight

(* Once a run is over and nothing that looked at it earlier is in flight,  *)
(* it stays over: later messages start another run (_find_active_run,      *)
(* complete_run, RunService.update_status).                                *)
QuiescentTerminalIsFinal ==
    [][\A r \in Runs : status[r] \in Terminal /\ Quiet(r) => status'[r] = status[r]]_vars

(* Call c is decided as d, and no request that read its approval as        *)
(* pending is still under way.                                             *)
Settled(c, d) ==
    approval[c] = d /\ \A q \in Requests : ~(rpc[q] = "checked" /\ about[q] = c)

(* A settled decision stands: only decisions that race overwrite one       *)
(* another, and no later one, no stream, answer, resume or restart does    *)
(* (decide_approval).                                                      *)
SettledDecisionStands ==
    \A c \in Calls, d \in {"approved", "denied"} :
        [](Settled(c, d) => [](approval[c] = d))

(* Whatever the interleaving with resumes that lock the run's row, every   *)
(* submitted message's stream comes to an end.                             *)
StreamsEnd == \A s \in Streams : pc[s] \in Alive ~> pc[s] \notin Alive

(* Every accepted decision, answer or completion is carried through,       *)
(* unless a restart loses it.                                              *)
RequestsEnd == \A q \in Requests : rpc[q] \in InFlight ~> rpc[q] \in {"done", "lost"}

-----------------------------------------------------------------------------
(* What the repository's own words promise and a run refutes.              *)

(* The call that runs is the one whose approval the user granted.          *)
ReleaseMatchesGrant == \A p \in released : p[1] \in granted

(* A run whose resumed graph is over no longer waits for an approval.      *)
AwaitingIsParked ==
    \A r \in Runs :
        status[r] = "awaiting_approval" /\ Quiet(r) => parked[r] # NoCall
=============================================================================
