---------------------------- MODULE TaskScheduler ----------------------------
(* The in-memory task scheduler behind /api/v1/tasks: priorities,          *)
(* dependencies, cancellation with its cascade, retries.                   *)
(*                                                                         *)
(* Every call is one synchronous step of the event loop.  A dependency may *)
(* name a task that was never enqueued, and an id may be enqueued again,   *)
(* which replaces the task.                                                *)
EXTENDS Integers, FiniteSets

CONSTANTS
    TaskIds,
    Priorities,     \* the values of Priority, the smaller the more urgent
    MaxChain,       \* MAX_CHAIN_DEPTH
    MaxSequence     \* bound: enqueues and retries

ASSUME SchedulerAssumption ==
    Priorities \subseteq Nat /\ Priorities # {}
    /\ MaxChain \in Nat \ {0} /\ MaxSequence \in Nat
    /\ IsFiniteSet(TaskIds)

VARIABLES
    state,          \* [TaskIds -> TaskStates]
    deps,           \* [TaskIds -> SUBSET TaskIds]: dependencies
    priority,       \* [TaskIds -> Priorities]
    sequence,       \* [TaskIds -> Nat]
    counter,        \* the next sequence number
    cancelled       \* history: [TaskIds -> Nat]: counter when it was cancelled

schedulerVars == <<state, deps, priority, sequence, counter, cancelled>>

-----------------------------------------------------------------------------
TaskStates == {"absent", "queued", "running", "completed", "cancelled"}

Enqueued == {t \in TaskIds : state[t] # "absent"}
Active == {t \in TaskIds : state[t] \in {"queued", "running"}}

(* What next reaches from the tasks of from, in any number of steps: the   *)
(* least set of tasks that holds them and all that next gives of it.       *)
Closure(from, next(_)) ==
    {t \in TaskIds : \A ts \in SUBSET TaskIds :
                       from \subseteq ts /\ next(ts) \subseteq ts => t \in ts}

(* What the tasks ds depend on, themselves included.                       *)
Needs(ds) == Closure(ds, LAMBDA ts : UNION {deps[t] : t \in ts \cap Enqueued})

(* Mutant: only the queued tasks are in the graph that is searched.        *)
CircularInQueue(t, ds) ==
    t \in Closure(ds, LAMBDA ts : UNION {deps[u] : u \in {v \in ts : state[v] = "queued"}})

(* _check_circular: the proposed task closes a cycle.                      *)
Circular(t, ds) == t \in Needs(ds)

(* _get_chain_depth >= MAX_CHAIN_DEPTH; a task that is not known counts 1. *)
TooDeep(ds) ==
    LET deep[n \in 1 .. MaxChain] ==
          IF n = 1 THEN TaskIds
          ELSE {t \in Enqueued : deps[t] \cap deep[n - 1] # {}}
    IN  ds \cap deep[MaxChain] # {}

IsBlocked(t) == \E d \in deps[t] : state[d] # "completed"

SchedulerInit ==
    /\ state = [t \in TaskIds |-> "absent"]
    /\ deps = [t \in TaskIds |-> {}]
    /\ priority = [t \in TaskIds |-> CHOOSE p \in Priorities : TRUE]
    /\ sequence = [t \in TaskIds |-> 0]
    /\ counter = 0
    /\ cancelled = [t \in TaskIds |-> 0]

Enqueue(t, p, ds) ==
    /\ counter < MaxSequence
    /\ ~Circular(t, ds) /\ ~TooDeep(ds)
    /\ state' = [state EXCEPT ![t] = "queued"]
    /\ deps' = [deps EXCEPT ![t] = ds]
    /\ priority' = [priority EXCEPT ![t] = p]
    /\ sequence' = [sequence EXCEPT ![t] = counter]
    /\ counter' = counter + 1
    /\ UNCHANGED cancelled

Precedes(t, u) ==
    priority[t] < priority[u] \/ (priority[t] = priority[u] /\ sequence[t] < sequence[u])

(* next                                                                    *)
Dequeue(t) ==
    /\ state[t] = "queued" /\ ~IsBlocked(t)
    /\ \A u \in TaskIds \ {t} : state[u] = "queued" /\ ~IsBlocked(u) => Precedes(t, u)
    /\ state' = [state EXCEPT ![t] = "running"]
    /\ UNCHANGED <<deps, priority, sequence, counter, cancelled>>

(* complete, which no route calls; it does not ask for the status.         *)
Complete(t) ==
    /\ state[t] # "absent"
    /\ state' = [state EXCEPT ![t] = "completed"]
    /\ UNCHANGED <<deps, priority, sequence, counter, cancelled>>

(* Mutant: the cascade is not recursive.                                   *)
DirectCascade(t) == {t} \cup {u \in Active : t \in deps[u]}

(* t, and what _cascade_cancel reaches: queued and running dependents.     *)
Cascade(t) == Closure({t}, LAMBDA ts : {u \in Active : deps[u] \cap ts # {}})

Cancel(t) ==
    /\ state[t] # "absent"
    /\ state' = [u \in TaskIds |-> IF u \in Cascade(t) THEN "cancelled" ELSE state[u]]
    /\ cancelled' = [u \in TaskIds |-> IF u \in Cascade(t) THEN counter ELSE cancelled[u]]
    /\ UNCHANGED <<deps, priority, sequence, counter>>

(* Whatever the status.                                                    *)
Retry(t) ==
    /\ state[t] # "absent" /\ counter < MaxSequence
    /\ state' = [state EXCEPT ![t] = "queued"]
    /\ sequence' = [sequence EXCEPT ![t] = counter]
    /\ counter' = counter + 1
    /\ UNCHANGED <<deps, priority, cancelled>>

SchedulerNext ==
    \E t \in TaskIds :
      \/ Dequeue(t) \/ Complete(t) \/ Cancel(t) \/ Retry(t)
      \/ \E p \in Priorities, ds \in SUBSET TaskIds : Enqueue(t, p, ds)

SchedulerSpec == SchedulerInit /\ [][SchedulerNext]_schedulerVars

-----------------------------------------------------------------------------
SchedulerTypeOK ==
    /\ state \in [TaskIds -> TaskStates]
    /\ deps \in [TaskIds -> SUBSET TaskIds]
    /\ priority \in [TaskIds -> Priorities]
    /\ counter \in 0 .. MaxSequence
    /\ sequence \in [TaskIds -> 0 .. MaxSequence]
    /\ cancelled \in [TaskIds -> 0 .. MaxSequence]

(* Tasks do not wait for each other: whatever was enqueued again, retried  *)
(* or cancelled, when tasks are queued and none runs, next finds one, or a *)
(* queued task depends on one that is cancelled or was never enqueued.     *)
NoCircularWait ==
    (\E t \in TaskIds : state[t] = "queued") /\ (\A t \in TaskIds : state[t] # "running") =>
      \E t \in TaskIds :
        /\ state[t] = "queued"
        /\ IsBlocked(t) => \E d \in deps[t] : state[d] \in {"cancelled", "absent"}

(* A cancellation reaches every task that depends on it, over any number   *)
(* of steps: one that is still queued or running was enqueued or retried   *)
(* afterwards.                                                             *)
CancelReachesAll ==
    \A t \in Active : \A d \in deps[t] :
      state[d] = "cancelled" => sequence[t] >= cancelled[d]
=============================================================================
