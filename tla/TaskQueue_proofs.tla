-------------------------- MODULE TaskQueue_proofs --------------------------
(* Theorems of TaskQueue, for any requests, keys, limits and numbers of    *)
(* faults.                                                                 *)
EXTENDS TaskQueue, TLAPS

(* The worker holds a task and stale rows only where its code does. *)
WorkerInv ==
    /\ wpc = "asleep" => stale = {} /\ held = NoTask
    /\ wpc = "polling" => held = NoTask
    /\ wpc \in {"running", "returning"} => stale = {}
    /\ wpc = "running" => tries[held] > 0

(* A row is there exactly if its request says so, and the worker has only  *)
(* such rows in hand.                                                      *)
RowsInv ==
    /\ \A t \in Tasks : status[t] # "none" <=> pc[t] = "queued"
    /\ \A t \in Tasks : t \in stale \/ held = t => status[t] # "none"

(* The dispatches a task has had, against those that were spoiled: one     *)
(* that may be dispatched again has none left that counted.                *)
Owed(t) ==
    /\ tries[t] <= spoiled[t] + 1 /\ retries[t] <= spoiled[t]
    /\ \/ status[t] \in {"none", "queued"}
       \/ t \in stale
       \/ status[t] = "processing" /\ ~Busy(t)
       \/ held = t /\ wpc \in {"polled", "returning"}
       => tries[t] <= spoiled[t]
    /\ t \in stale \/ (status[t] = "processing" /\ ~Busy(t)) => retries[t] < spoiled[t]
CountInv == \A t \in Tasks : Owed(t)

IInv == TypeOK /\ WorkerInv /\ RowsInv /\ CountInv

-----------------------------------------------------------------------------
(* Every step keeps every variable's shape.                                *)
LEMMA TypeStep == TypeOK /\ [Next]_vars => TypeOK'
<1> SUFFICES ASSUME TypeOK, [Next]_vars
             PROVE  TypeOK'
  OBVIOUS
<1> USE DEF TypeOK, vars, rows, request, worker, history
<1>1. ASSUME NEW t \in Tasks, CheckDuplicate(t) PROVE TypeOK'
  BY <1>1 DEF CheckDuplicate, Status, Deadline, RequestPC, WorkerPC
<1>2. ASSUME NEW t \in Tasks, CountDepth(t) PROVE TypeOK'
  BY <1>2 DEF CountDepth, Status, Deadline, RequestPC, WorkerPC
<1>3. ASSUME NEW t \in Tasks, InsertTask(t) PROVE TypeOK'
  BY <1>3 DEF InsertTask, Status, Deadline, RequestPC, WorkerPC
<1>4. ASSUME NEW t \in Tasks, Cancel(t) PROVE TypeOK'
  BY <1>4 DEF Cancel, Status, Deadline, RequestPC, WorkerPC
<1>5. ASSUME NEW h \in BOOLEAN, HealthPoll(h) PROVE TypeOK'
  BY <1>5 DEF HealthPoll, Status, Deadline, RequestPC, WorkerPC
<1>6. ASSUME NEW t \in Tasks, DeadlinePasses(t) PROVE TypeOK'
  BY <1>6 DEF DeadlinePasses, Status, Deadline, RequestPC, WorkerPC
<1>7. ASSUME WindowPasses PROVE TypeOK'
  BY <1>7 DEF WindowPasses, Status, Deadline, RequestPC, WorkerPC
<1>8. ASSUME PollStale PROVE TypeOK'
  BY <1>8 DEF PollStale, Stale, Status, Deadline, RequestPC, WorkerPC
<1>9. ASSUME PollReady PROVE TypeOK'
  BY <1>9 DEF PollReady, Ready, Status, Deadline, RequestPC, WorkerPC
<1>10. ASSUME MarkProcessing PROVE TypeOK'
  BY <1>10 DEF MarkProcessing, RetriesOnRequeue, Status, Deadline, RequestPC,
         WorkerPC
<1>11. ASSUME DispatchReturns PROVE TypeOK'
  BY <1>11 DEF DispatchReturns, Settle, Status, Deadline, RequestPC, WorkerPC
<1>12. ASSUME DispatchRaises PROVE TypeOK'
  BY <1>12 DEF DispatchRaises, Settle, Status, Deadline, RequestPC, WorkerPC
<1>13. ASSUME ReturnUndispatched PROVE TypeOK'
  BY <1>13 DEF ReturnUndispatched, Settle, Status, Deadline, RequestPC, WorkerPC
<1>14. ASSUME CommitFails PROVE TypeOK'
  <2>1. /\ faults' \in 0 .. MaxFaults /\ stale' \in SUBSET Tasks
        /\ held' \in Tasks \cup {NoTask} /\ wpc' = "asleep"
    BY <1>14, LimitsAssumption DEF CommitFails, CutOff
  <2>2. spoiled' \in [Tasks -> Nat]
    BY <1>14 DEF CommitFails, CutOff
  <2> QED
    BY <1>14, <2>1, <2>2 DEF CommitFails, CutOff, RequestPC, WorkerPC
<1>15. ASSUME Restart PROVE TypeOK'
  <2>1. /\ faults' \in 0 .. MaxFaults /\ stale' \in SUBSET Tasks
        /\ held' \in Tasks \cup {NoTask} /\ wpc' = "asleep"
    BY <1>15, LimitsAssumption DEF Restart, CutOff
  <2>2. spoiled' \in [Tasks -> Nat]
    BY <1>15 DEF Restart, CutOff
  <2> QED
    BY <1>15, <2>1, <2>2 DEF Restart, CutOff, RequestPC, WorkerPC
<1>16. CASE UNCHANGED vars
  BY <1>16
<1> QED
  BY <1>1, <1>2, <1>3, <1>4, <1>5, <1>6, <1>7, <1>8, <1>9, <1>10, <1>11, <1>12, <1>13, <1>14, <1>15, <1>16 DEF Next, WorkerStep

(* The worker's hands are empty when it sleeps. *)
LEMMA WorkerStepInv == TypeOK /\ WorkerInv /\ [Next]_vars => WorkerInv'
<1> SUFFICES ASSUME TypeOK, WorkerInv, [Next]_vars
             PROVE  WorkerInv'
  OBVIOUS
<1> USE DEF TypeOK, WorkerInv, vars, rows, request, worker, history
<1>1. ASSUME NEW t \in Tasks, CheckDuplicate(t) PROVE WorkerInv'
  BY <1>1 DEF CheckDuplicate
<1>2. ASSUME NEW t \in Tasks, CountDepth(t) PROVE WorkerInv'
  BY <1>2 DEF CountDepth
<1>3. ASSUME NEW t \in Tasks, InsertTask(t) PROVE WorkerInv'
  BY <1>3 DEF InsertTask
<1>4. ASSUME NEW t \in Tasks, Cancel(t) PROVE WorkerInv'
  BY <1>4, NullAssumption DEF Cancel
<1>5. ASSUME NEW h \in BOOLEAN, HealthPoll(h) PROVE WorkerInv'
  BY <1>5 DEF HealthPoll
<1>6. ASSUME NEW t \in Tasks, DeadlinePasses(t) PROVE WorkerInv'
  BY <1>6 DEF DeadlinePasses
<1>7. ASSUME WindowPasses PROVE WorkerInv'
  BY <1>7 DEF WindowPasses
<1>8. ASSUME PollStale PROVE WorkerInv'
  BY <1>8 DEF PollStale, Stale
<1>9. ASSUME PollReady PROVE WorkerInv'
  BY <1>9 DEF PollReady, Ready
<1>10. ASSUME MarkProcessing PROVE WorkerInv'
  BY <1>10 DEF MarkProcessing, RetriesOnRequeue
<1>11. ASSUME DispatchReturns PROVE WorkerInv'
  BY <1>11 DEF DispatchReturns, Settle
<1>12. ASSUME DispatchRaises PROVE WorkerInv'
  BY <1>12 DEF DispatchRaises, Settle
<1>13. ASSUME ReturnUndispatched PROVE WorkerInv'
  BY <1>13 DEF ReturnUndispatched, Settle
<1>14. ASSUME CommitFails PROVE WorkerInv'
  BY <1>14 DEF CommitFails, CutOff
<1>15. ASSUME Restart PROVE WorkerInv'
  BY <1>15 DEF Restart, CutOff
<1>16. CASE UNCHANGED vars
  BY <1>16
<1> QED
  BY <1>1, <1>2, <1>3, <1>4, <1>5, <1>6, <1>7, <1>8, <1>9, <1>10, <1>11, <1>12, <1>13, <1>14, <1>15, <1>16 DEF Next, WorkerStep

(* Rows and requests agree. *)
LEMMA RowsStep == TypeOK /\ WorkerInv /\ RowsInv /\ [Next]_vars => RowsInv'
<1> SUFFICES ASSUME TypeOK, WorkerInv, RowsInv, [Next]_vars
             PROVE  RowsInv'
  OBVIOUS
<1> USE DEF TypeOK, WorkerInv, RowsInv, vars, rows, request, worker, history
<1>1. ASSUME NEW t \in Tasks, CheckDuplicate(t) PROVE RowsInv'
  BY <1>1, NullAssumption DEF CheckDuplicate
<1>2. ASSUME NEW t \in Tasks, CountDepth(t) PROVE RowsInv'
  BY <1>2, NullAssumption DEF CountDepth
<1>3. ASSUME NEW t \in Tasks, InsertTask(t) PROVE RowsInv'
  BY <1>3, NullAssumption DEF InsertTask
<1>4. ASSUME NEW t \in Tasks, Cancel(t) PROVE RowsInv'
  BY <1>4, NullAssumption DEF Cancel
<1>5. ASSUME NEW h \in BOOLEAN, HealthPoll(h) PROVE RowsInv'
  BY <1>5, NullAssumption DEF HealthPoll
<1>6. ASSUME NEW t \in Tasks, DeadlinePasses(t) PROVE RowsInv'
  BY <1>6, NullAssumption DEF DeadlinePasses
<1>7. ASSUME WindowPasses PROVE RowsInv'
  BY <1>7, NullAssumption DEF WindowPasses
<1>8. ASSUME PollStale PROVE RowsInv'
  BY <1>8, NullAssumption DEF PollStale, Stale
<1>9. ASSUME PollReady PROVE RowsInv'
  BY <1>9, NullAssumption DEF PollReady, Ready
<1>10. ASSUME MarkProcessing PROVE RowsInv'
  BY <1>10, NullAssumption DEF MarkProcessing, RetriesOnRequeue
<1>11. ASSUME DispatchReturns PROVE RowsInv'
  BY <1>11, NullAssumption DEF DispatchReturns, Settle
<1>12. ASSUME DispatchRaises PROVE RowsInv'
  BY <1>12, NullAssumption DEF DispatchRaises, Settle
<1>13. ASSUME ReturnUndispatched PROVE RowsInv'
  BY <1>13, NullAssumption DEF ReturnUndispatched, Settle
<1>14. ASSUME CommitFails PROVE RowsInv'
  BY <1>14, NullAssumption DEF CommitFails, CutOff
<1>15. ASSUME Restart PROVE RowsInv'
  BY <1>15, NullAssumption DEF Restart, CutOff
<1>16. CASE UNCHANGED vars
  BY <1>16, NullAssumption
<1> QED
  BY <1>1, <1>2, <1>3, <1>4, <1>5, <1>6, <1>7, <1>8, <1>9, <1>10, <1>11, <1>12, <1>13, <1>14, <1>15, <1>16 DEF Next, WorkerStep

(* No dispatch is repeated without a spoiled one. *)
LEMMA CountStep == TypeOK /\ WorkerInv /\ RowsInv /\ CountInv /\ [Next]_vars => CountInv'
<1> SUFFICES ASSUME TypeOK, WorkerInv, RowsInv, CountInv, [Next]_vars
             PROVE  CountInv'
  OBVIOUS
<1> USE DEF TypeOK, WorkerInv, CountInv, RowsInv, vars, rows, request, worker, history
<1>1. ASSUME NEW t \in Tasks, CheckDuplicate(t) PROVE CountInv'
  BY <1>1, NullAssumption DEF CheckDuplicate, Owed, Busy
<1>2. ASSUME NEW t \in Tasks, CountDepth(t) PROVE CountInv'
  BY <1>2, NullAssumption DEF CountDepth, Owed, Busy
<1>3. ASSUME NEW t \in Tasks, InsertTask(t) PROVE CountInv'
  BY <1>3, NullAssumption DEF InsertTask, Owed, Busy
<1>4. ASSUME NEW t \in Tasks, Cancel(t) PROVE CountInv'
  BY <1>4, NullAssumption DEF Cancel, Owed, Busy
<1>5. ASSUME NEW h \in BOOLEAN, HealthPoll(h) PROVE CountInv'
  BY <1>5, NullAssumption DEF HealthPoll, Owed, Busy
<1>6. ASSUME NEW t \in Tasks, DeadlinePasses(t) PROVE CountInv'
  BY <1>6, NullAssumption DEF DeadlinePasses, Owed, Busy
<1>7. ASSUME WindowPasses PROVE CountInv'
  BY <1>7, NullAssumption DEF WindowPasses, Owed, Busy
<1>8. ASSUME PollStale PROVE CountInv'
  BY <1>8, NullAssumption DEF PollStale, Stale, Owed, Busy
<1>9. ASSUME PollReady PROVE CountInv'
  BY <1>9, NullAssumption DEF PollReady, Ready, Owed, Busy
<1>10. ASSUME MarkProcessing PROVE CountInv'
  BY <1>10, NullAssumption DEF MarkProcessing, RetriesOnRequeue, Owed, Busy
<1>11. ASSUME DispatchReturns PROVE CountInv'
  BY <1>11, NullAssumption DEF DispatchReturns, Settle, Owed, Busy
<1>12. ASSUME DispatchRaises PROVE CountInv'
  BY <1>12, NullAssumption DEF DispatchRaises, Settle, Owed, Busy
<1>13. ASSUME ReturnUndispatched PROVE CountInv'
  BY <1>13, NullAssumption DEF ReturnUndispatched, Settle, Owed, Busy
<1>14. ASSUME CommitFails PROVE CountInv'
  BY <1>14, NullAssumption DEF CommitFails, CutOff, Owed, Busy
<1>15. ASSUME Restart PROVE CountInv'
  BY <1>15, NullAssumption DEF Restart, CutOff, Owed, Busy
<1>16. CASE UNCHANGED vars
  BY <1>16, NullAssumption DEF Owed, Busy
<1> QED
  BY <1>1, <1>2, <1>3, <1>4, <1>5, <1>6, <1>7, <1>8, <1>9, <1>10, <1>11, <1>12, <1>13, <1>14, <1>15, <1>16 DEF Next, WorkerStep

(* Init and every step establish the inductive invariant.                  *)
LEMMA Invariance == Spec => []IInv
<1>1. ASSUME Init PROVE IInv
  <2>1. TypeOK
    <3>1. /\ status \in [Tasks -> Status] /\ deadline \in [Tasks -> Deadline]
          /\ pc \in [Tasks -> RequestPC] /\ wpc \in WorkerPC
      BY <1>1 DEF Init, Status, Deadline, RequestPC, WorkerPC
    <3>2. /\ retries \in [Tasks -> Nat] /\ queuedAt \in [Tasks -> Nat]
          /\ tries \in [Tasks -> Nat] /\ spoiled \in [Tasks -> Nat]
          /\ clock \in Nat /\ faults \in 0 .. MaxFaults
      BY <1>1, LimitsAssumption DEF Init
    <3> QED
      BY <1>1, <3>1, <3>2 DEF Init, TypeOK
  <2>2. WorkerInv /\ RowsInv
    BY <1>1, NullAssumption DEF Init, WorkerInv, RowsInv
  <2>3. CountInv
    BY <1>1, NullAssumption DEF Init, CountInv, Owed, Busy
  <2> QED
    BY <2>1, <2>2, <2>3 DEF IInv
<1>2. IInv /\ [Next]_vars => IInv'
  BY TypeStep, WorkerStepInv, RowsStep, CountStep DEF IInv
<1> QED
  BY <1>1, <1>2, PTL DEF Spec

-----------------------------------------------------------------------------
(* Every variable of the queue keeps its shape (task_queue, _drain_one).   *)
THEOREM TypeCorrect == Spec => []TypeOK
<1>1. IInv => TypeOK
  BY DEF IInv
<1> QED
  BY <1>1, Invariance, PTL

(* The runner is started again on a task, and a retry charged to it, only  *)
(* for an earlier dispatch that raised or was cut off (poll, _drain_one).  *)
THEOREM NoNeedlessRepeat == Spec => []OnceUnlessSpoiled
<1>1. IInv => OnceUnlessSpoiled
  BY DEF IInv, CountInv, Owed, OnceUnlessSpoiled
<1> QED
  BY <1>1, Invariance, PTL

(* A request answered as queued has its row, and a duplicate another's row.*)
LEMMA HonestStep ==
    IInv /\ IInv' /\ AnswersAreHonest /\ [Next]_vars => AnswersAreHonest'
<1> SUFFICES ASSUME IInv, IInv', AnswersAreHonest, [Next]_vars
             PROVE  AnswersAreHonest'
  OBVIOUS
<1> USE DEF IInv, TypeOK, RowsInv, AnswersAreHonest
<1>1. \A u \in Tasks : status[u] # "none" => status'[u] # "none"
  <2> SUFFICES ASSUME NEW u \in Tasks, status[u] # "none"
               PROVE  status'[u] # "none"
    OBVIOUS
  <2> USE DEF vars, rows, request, worker, history
  <2>1. ASSUME NEW t \in Tasks, CheckDuplicate(t) PROVE status'[u] # "none"
    BY <2>1, NullAssumption DEF CheckDuplicate
  <2>2. ASSUME NEW t \in Tasks, CountDepth(t) PROVE status'[u] # "none"
    BY <2>2, NullAssumption DEF CountDepth
  <2>3. ASSUME NEW t \in Tasks, InsertTask(t) PROVE status'[u] # "none"
    BY <2>3, NullAssumption DEF InsertTask
  <2>4. ASSUME NEW t \in Tasks, Cancel(t) PROVE status'[u] # "none"
    BY <2>4, NullAssumption DEF Cancel
  <2>5. ASSUME NEW h \in BOOLEAN, HealthPoll(h) PROVE status'[u] # "none"
    BY <2>5, NullAssumption DEF HealthPoll
  <2>6. ASSUME NEW t \in Tasks, DeadlinePasses(t) PROVE status'[u] # "none"
    BY <2>6, NullAssumption DEF DeadlinePasses
  <2>7. ASSUME WindowPasses PROVE status'[u] # "none"
    BY <2>7, NullAssumption DEF WindowPasses
  <2>8. ASSUME PollStale PROVE status'[u] # "none"
    BY <2>8, NullAssumption DEF PollStale, Stale
  <2>9. ASSUME PollReady PROVE status'[u] # "none"
    BY <2>9, NullAssumption DEF PollReady, Ready
  <2>10. ASSUME MarkProcessing PROVE status'[u] # "none"
    BY <2>10, NullAssumption DEF MarkProcessing, RetriesOnRequeue
  <2>11. ASSUME DispatchReturns PROVE status'[u] # "none"
    BY <2>11, NullAssumption DEF DispatchReturns, Settle
  <2>12. ASSUME DispatchRaises PROVE status'[u] # "none"
    BY <2>12, NullAssumption DEF DispatchRaises, Settle
  <2>13. ASSUME ReturnUndispatched PROVE status'[u] # "none"
    BY <2>13, NullAssumption DEF ReturnUndispatched, Settle
  <2>14. ASSUME CommitFails PROVE status'[u] # "none"
    BY <2>14, NullAssumption DEF CommitFails, CutOff
  <2>15. ASSUME Restart PROVE status'[u] # "none"
    BY <2>15, NullAssumption DEF Restart, CutOff
  <2>16. CASE UNCHANGED vars
    BY <2>16, NullAssumption
  <2> QED
    BY <2>1, <2>2, <2>3, <2>4, <2>5, <2>6, <2>7, <2>8, <2>9, <2>10, <2>11, <2>12, <2>13, <2>14, <2>15, <2>16 DEF Next, WorkerStep
<1>2. key' = key
  <2> USE DEF vars, rows, request, worker, history
  <2>1. ASSUME NEW t \in Tasks, CheckDuplicate(t) PROVE key' = key
    BY <2>1 DEF CheckDuplicate
  <2>2. ASSUME NEW t \in Tasks, CountDepth(t) PROVE key' = key
    BY <2>2 DEF CountDepth
  <2>3. ASSUME NEW t \in Tasks, InsertTask(t) PROVE key' = key
    BY <2>3 DEF InsertTask
  <2>4. ASSUME NEW t \in Tasks, Cancel(t) PROVE key' = key
    BY <2>4 DEF Cancel
  <2>5. ASSUME NEW h \in BOOLEAN, HealthPoll(h) PROVE key' = key
    BY <2>5 DEF HealthPoll
  <2>6. ASSUME NEW t \in Tasks, DeadlinePasses(t) PROVE key' = key
    BY <2>6 DEF DeadlinePasses
  <2>7. ASSUME WindowPasses PROVE key' = key
    BY <2>7 DEF WindowPasses
  <2>8. ASSUME PollStale PROVE key' = key
    BY <2>8 DEF PollStale, Stale
  <2>9. ASSUME PollReady PROVE key' = key
    BY <2>9 DEF PollReady, Ready
  <2>10. ASSUME MarkProcessing PROVE key' = key
    BY <2>10 DEF MarkProcessing, RetriesOnRequeue
  <2>11. ASSUME DispatchReturns PROVE key' = key
    BY <2>11 DEF DispatchReturns, Settle
  <2>12. ASSUME DispatchRaises PROVE key' = key
    BY <2>12 DEF DispatchRaises, Settle
  <2>13. ASSUME ReturnUndispatched PROVE key' = key
    BY <2>13 DEF ReturnUndispatched, Settle
  <2>14. ASSUME CommitFails PROVE key' = key
    BY <2>14 DEF CommitFails, CutOff
  <2>15. ASSUME Restart PROVE key' = key
    BY <2>15 DEF Restart, CutOff
  <2>16. CASE UNCHANGED vars
    BY <2>16
  <2> QED
    BY <2>1, <2>2, <2>3, <2>4, <2>5, <2>6, <2>7, <2>8, <2>9, <2>10, <2>11, <2>12, <2>13, <2>14, <2>15, <2>16 DEF Next, WorkerStep
<1>3. \A t \in Tasks : pc'[t] = "queued" => status'[t] # "none"
  OBVIOUS
<1>4. ASSUME NEW t \in Tasks, pc'[t] = "duplicate"
      PROVE  \E u \in Tasks \ {t} : status'[u] # "none" /\ key'[u] = key'[t]
  <2>1. CASE pc[t] = "duplicate"
    BY <2>1, <1>1, <1>2
  <2>2. CASE pc[t] # "duplicate"
    <3>1. CheckDuplicate(t)
      <4> USE DEF vars, rows, request, worker, history
      <4>1. ASSUME NEW s \in Tasks, CheckDuplicate(s) PROVE CheckDuplicate(t)
        <5>1. s = t
          BY <4>1, <1>4, <2>2 DEF CheckDuplicate
        <5> QED
          BY <4>1, <5>1
      <4>2. ASSUME NEW s \in Tasks, CountDepth(s) PROVE CheckDuplicate(t)
        BY <4>2, <1>4, <2>2 DEF CountDepth
      <4>3. ASSUME NEW s \in Tasks, InsertTask(s) PROVE CheckDuplicate(t)
        BY <4>3, <1>4, <2>2 DEF InsertTask
      <4>4. ASSUME NEW s \in Tasks, Cancel(s) PROVE CheckDuplicate(t)
        BY <4>4, <1>4, <2>2 DEF Cancel
      <4>5. ASSUME NEW h \in BOOLEAN, HealthPoll(h) PROVE CheckDuplicate(t)
        BY <4>5, <1>4, <2>2 DEF HealthPoll
      <4>6. ASSUME NEW s \in Tasks, DeadlinePasses(s) PROVE CheckDuplicate(t)
        BY <4>6, <1>4, <2>2 DEF DeadlinePasses
      <4>7. ASSUME WindowPasses PROVE CheckDuplicate(t)
        BY <4>7, <1>4, <2>2 DEF WindowPasses
      <4>8. ASSUME PollStale PROVE CheckDuplicate(t)
        BY <4>8, <1>4, <2>2 DEF PollStale, Stale
      <4>9. ASSUME PollReady PROVE CheckDuplicate(t)
        BY <4>9, <1>4, <2>2 DEF PollReady, Ready
      <4>10. ASSUME MarkProcessing PROVE CheckDuplicate(t)
        BY <4>10, <1>4, <2>2 DEF MarkProcessing, RetriesOnRequeue
      <4>11. ASSUME DispatchReturns PROVE CheckDuplicate(t)
        BY <4>11, <1>4, <2>2 DEF DispatchReturns, Settle
      <4>12. ASSUME DispatchRaises PROVE CheckDuplicate(t)
        BY <4>12, <1>4, <2>2 DEF DispatchRaises, Settle
      <4>13. ASSUME ReturnUndispatched PROVE CheckDuplicate(t)
        BY <4>13, <1>4, <2>2 DEF ReturnUndispatched, Settle
      <4>14. ASSUME CommitFails PROVE CheckDuplicate(t)
        BY <4>14, <1>4, <2>2 DEF CommitFails, CutOff
      <4>15. ASSUME Restart PROVE CheckDuplicate(t)
        BY <4>15, <1>4, <2>2 DEF Restart, CutOff
      <4>16. CASE UNCHANGED vars
        BY <4>16, <1>4, <2>2
      <4> QED
        BY <4>1, <4>2, <4>3, <4>4, <4>5, <4>6, <4>7, <4>8, <4>9, <4>10, <4>11, <4>12, <4>13, <4>14, <4>15, <4>16 DEF Next, WorkerStep
    <3>2. pc[t] = "idle" /\ SameKey(t) # {}
      BY <3>1, <1>4 DEF CheckDuplicate
    <3>3. PICK u \in Tasks : status[u] # "none" /\ key[u] = key[t]
      BY <3>2 DEF SameKey
    <3>4. u # t
      BY <3>2, <3>3
    <3> QED
      BY <3>3, <3>4, <1>1, <1>2
  <2> QED
    BY <2>1, <2>2
<1> QED
  BY <1>3, <1>4

(* What a request was told is true (enqueue).                              *)
THEOREM HonestAnswers == Spec => []AnswersAreHonest
<1>1. Init => AnswersAreHonest
  BY DEF Init, AnswersAreHonest
<1>2. AnswersAreHonest /\ UNCHANGED vars => AnswersAreHonest'
  BY DEF AnswersAreHonest, vars, rows, request
<1> QED
  BY <1>1, <1>2, HonestStep, Invariance, PTL DEF Spec

-----------------------------------------------------------------------------
(* Every step of the queue is a step of the board, or none. *)
LEMMA BoardStep == IInv /\ IInv' /\ [Next]_vars => [Board!Next]_(Board!boardVars)
<1> SUFFICES ASSUME IInv, IInv', [Next]_vars
             PROVE  [Board!Next]_(Board!boardVars)
  OBVIOUS
<1> DEFINE Hand == stale \cup ({held} \ {NoTask})
           Begun == {t \in Tasks : tries[t] > 0}
           Same == UNCHANGED <<BoardState, Hand, Begun>>
<1>0. Same => [Board!Next]_(Board!boardVars)
  BY DEF Board!boardVars
<1>view. /\ BoardView("none") = "absent"
         /\ BoardView("queued") = "open" /\ BoardView("processing") = "open"
         /\ BoardView("completed") = "done" /\ BoardView("failed") = "failed"
         /\ BoardView("cancelled") = "cancelled"
  BY DEF BoardView
<1>here. \A t \in Tasks : status[t] # "none" => BoardView(status[t]) # "absent"
  BY DEF TypeOK, IInv, Status, BoardView
<1> USE DEF IInv, TypeOK, WorkerInv, RowsInv
<1> USE DEF vars, rows, request, worker, history
<1>1. ASSUME NEW t \in Tasks, CheckDuplicate(t) PROVE [Board!Next]_(Board!boardVars)
  BY <1>1, <1>0 DEF CheckDuplicate, BoardState
<1>2. ASSUME NEW t \in Tasks, CountDepth(t) PROVE [Board!Next]_(Board!boardVars)
  BY <1>2, <1>0 DEF CountDepth, BoardState
<1>3. ASSUME NEW t \in Tasks, InsertTask(t) PROVE [Board!Next]_(Board!boardVars)
  <2>1. UNCHANGED <<stale, held, tries>>
    BY <1>3 DEF InsertTask, worker, history
  <2>2. CASE status' = status
    BY <1>0, <2>1, <2>2 DEF BoardState
  <2>3. CASE status' # status
    <3>1. status[t] = "none" /\ status' = [status EXCEPT ![t] = "queued"]
      BY <1>3, <2>3 DEF InsertTask
    <3>2. BoardState' = [BoardState EXCEPT ![t] = "open"] /\ BoardState[t] = "absent"
      BY <3>1, <1>view DEF BoardState
    <3>3. Board!Post(t)
      BY <2>1, <3>2 DEF Board!Post
    <3> QED
      BY <3>3 DEF Board!Next
  <2> QED
    BY <2>2, <2>3
<1>4. ASSUME NEW t \in Tasks, Cancel(t) PROVE [Board!Next]_(Board!boardVars)
  <2>1. /\ status[t] # "none"
        /\ status' = [status EXCEPT ![t] = "cancelled"]
        /\ UNCHANGED <<stale, held, tries>>
    BY <1>4 DEF Cancel, worker, history
  <2>2. BoardState' = [BoardState EXCEPT ![t] = "cancelled"] /\ BoardState[t] # "absent"
    BY <2>1, <1>view, <1>here DEF BoardState
  <2>3. Board!Cancel(t)
    BY <2>1, <2>2 DEF Board!Cancel
  <2> QED
    BY <2>3 DEF Board!Next
<1>5. ASSUME NEW h \in BOOLEAN, HealthPoll(h) PROVE [Board!Next]_(Board!boardVars)
  BY <1>5, <1>0 DEF HealthPoll, BoardState
<1>6. ASSUME NEW t \in Tasks, DeadlinePasses(t) PROVE [Board!Next]_(Board!boardVars)
  BY <1>6, <1>0 DEF DeadlinePasses, BoardState
<1>7. ASSUME WindowPasses PROVE [Board!Next]_(Board!boardVars)
  BY <1>7, <1>0 DEF WindowPasses, BoardState
<1>8. ASSUME PollStale PROVE [Board!Next]_(Board!boardVars)
  <2>1. /\ stale = {} /\ held = NoTask /\ held' = NoTask /\ stale' = Stale
        /\ UNCHANGED <<status, tries>>
    BY <1>8 DEF PollStale, rows, history
  <2>2. \A t \in Stale : t \in Tasks /\ BoardState[t] = "open"
    BY <1>view DEF Stale, BoardState
  <2>3. Board!Take(Stale)
    BY <2>1, <2>2, NullAssumption DEF Board!Take, BoardState
  <2>4. Stale \in SUBSET Tasks
    BY DEF Stale
  <2> QED
    BY <2>3, <2>4 DEF Board!Next
<1>9. ASSUME PollReady PROVE [Board!Next]_(Board!boardVars)
  <2>1. held = NoTask /\ UNCHANGED <<status, tries, stale>>
    BY <1>9 DEF PollReady, rows, history
  <2>2. CASE UNCHANGED held
    BY <1>0, <2>1, <2>2 DEF BoardState
  <2>3. CASE held' # held
    <3>1. held' \in Ready
      BY <1>9, <2>3 DEF PollReady
    <3>2. held' \in Tasks /\ (held' \in stale \/ BoardState[held'] = "open")
      BY <3>1, <1>view DEF Ready, BoardState
    <3>3. Board!Take({held'} \ stale)
      BY <2>1, <3>2, NullAssumption DEF Board!Take, BoardState
    <3>4. {held'} \ stale \in SUBSET Tasks
      BY <3>2
    <3> QED
      BY <3>3, <3>4 DEF Board!Next
  <2> QED
    BY <2>2, <2>3
<1>10. ASSUME MarkProcessing PROVE [Board!Next]_(Board!boardVars)
  <2>1. /\ held \in Tasks /\ held # NoTask /\ held' = held /\ stale' = {}
        /\ status' = [t \in Tasks |->
              IF t = held THEN "processing" ELSE IF t \in stale THEN "queued" ELSE status[t]]
        /\ tries' = tries \/ tries' = [tries EXCEPT ![held] = @ + 1]
    BY <1>10, NullAssumption DEF MarkProcessing
  <2>2. BoardState' = [t \in Tasks |-> IF t \in Hand THEN "open" ELSE BoardState[t]]
    BY <2>1, <1>view DEF BoardState
  <2>3. Begun' \in {Begun, Begun \cup {held}}
    <3>1. CASE tries' = tries
      BY <3>1
    <3>2. CASE tries' = [tries EXCEPT ![held] = @ + 1]
      <4>1. \A t \in Tasks : tries'[t] > 0 <=> t = held \/ tries[t] > 0
        BY <3>2, <2>1
      <4>2. Begun' = Begun \cup {held}
        BY <4>1, <2>1
      <4> QED
        BY <4>2
    <3> QED
      BY <2>1, <3>1, <3>2
  <2>4. held \in Hand /\ Hand' = {held}
    BY <2>1
  <2>5. PICK h \in Tasks : h = held
    BY <2>1
  <2>6. Board!Choose1(h)
    BY <2>2, <2>3, <2>4, <2>5 DEF Board!Choose1
  <2> QED
    BY <2>6 DEF Board!Next
<1>11. ASSUME DispatchReturns PROVE [Board!Next]_(Board!boardVars)
  <2>1. /\ held \in Tasks /\ held # NoTask /\ stale = {}
        /\ held' = NoTask /\ stale' = {} /\ UNCHANGED tries
    BY <1>11, NullAssumption DEF DispatchReturns, Settle
  <2>2. PICK v \in {"completed"} : status' = [status EXCEPT ![held] = v]
    BY <1>11 DEF DispatchReturns, Settle
  <2>3. PICK b \in {"done"} : BoardState' = [BoardState EXCEPT ![held] = b]
    BY <2>1, <2>2, <1>view DEF BoardState
  <2>4. Hand = {held} /\ Hand' = {} /\ UNCHANGED Begun
    BY <2>1
  <2>5. b \in {"done", "failed"} => held \in Begun
    BY <1>11, <2>1 DEF DispatchReturns
  <2>6. Board!Settle(held, b)
    BY <2>3, <2>4, <2>5 DEF Board!Settle
  <2> QED
    BY <2>1, <2>6 DEF Board!Next
<1>12. ASSUME DispatchRaises PROVE [Board!Next]_(Board!boardVars)
  <2>1. /\ held \in Tasks /\ held # NoTask /\ stale = {}
        /\ held' = NoTask /\ stale' = {} /\ UNCHANGED tries
    BY <1>12, NullAssumption DEF DispatchRaises, Settle
  <2>2. PICK v \in {"failed", "queued"} : status' = [status EXCEPT ![held] = v]
    BY <1>12 DEF DispatchRaises, Settle
  <2>3. PICK b \in {"failed", "open"} : BoardState' = [BoardState EXCEPT ![held] = b]
    BY <2>1, <2>2, <1>view DEF BoardState
  <2>4. Hand = {held} /\ Hand' = {} /\ UNCHANGED Begun
    BY <2>1
  <2>5. b \in {"done", "failed"} => held \in Begun
    BY <1>12, <2>1 DEF DispatchRaises
  <2>6. Board!Settle(held, b)
    BY <2>3, <2>4, <2>5 DEF Board!Settle
  <2> QED
    BY <2>1, <2>6 DEF Board!Next
<1>13. ASSUME ReturnUndispatched PROVE [Board!Next]_(Board!boardVars)
  <2>1. /\ held \in Tasks /\ held # NoTask /\ stale = {}
        /\ held' = NoTask /\ stale' = {} /\ UNCHANGED tries
    BY <1>13, NullAssumption DEF ReturnUndispatched, Settle
  <2>2. PICK v \in {"queued"} : status' = [status EXCEPT ![held] = v]
    BY <1>13 DEF ReturnUndispatched, Settle
  <2>3. PICK b \in {"open"} : BoardState' = [BoardState EXCEPT ![held] = b]
    BY <2>1, <2>2, <1>view DEF BoardState
  <2>4. Hand = {held} /\ Hand' = {} /\ UNCHANGED Begun
    BY <2>1
  <2>5. b \in {"done", "failed"} => held \in Begun
    OBVIOUS
  <2>6. Board!Settle(held, b)
    BY <2>3, <2>4, <2>5 DEF Board!Settle
  <2> QED
    BY <2>1, <2>6 DEF Board!Next
<1>14. ASSUME CommitFails PROVE [Board!Next]_(Board!boardVars)
  <2>1. held' = NoTask /\ stale' = {} /\ UNCHANGED <<status, tries>>
    BY <1>14 DEF CommitFails, CutOff, rows
  <2>2. Board!Drop
    BY <2>1 DEF Board!Drop, BoardState
  <2> QED
    BY <2>2 DEF Board!Next
<1>15. ASSUME Restart PROVE [Board!Next]_(Board!boardVars)
  <2>1. held' = NoTask /\ stale' = {} /\ UNCHANGED <<status, tries>>
    BY <1>15 DEF Restart, CutOff, rows
  <2>2. Board!Drop
    BY <2>1 DEF Board!Drop, BoardState
  <2> QED
    BY <2>2 DEF Board!Next
<1>16. CASE UNCHANGED vars
  BY <1>16, <1>0 DEF BoardState
<1> QED
  BY <1>1, <1>2, <1>3, <1>4, <1>5, <1>6, <1>7, <1>8, <1>9, <1>10, <1>11, <1>12, <1>13, <1>14, <1>15, <1>16 DEF Next, WorkerStep

(* The queue, its worker and its crashes implement TaskBoard: nothing      *)
(* accepted is lost, nothing settled comes back, and only a task in hand   *)
(* is taken from a cancel (DurableQueue, QueueDrainWorker).                *)
THEOREM QueueImplementsBoard == Spec => ImplementsBoard
<1>1. ASSUME Init PROVE Board!Init
  <2>1. BoardState = [t \in Tasks |-> "absent"]
    BY <1>1 DEF Init, BoardState, BoardView
  <2>2. stale \cup ({held} \ {NoTask}) = {}
    BY <1>1 DEF Init
  <2>3. {t \in Tasks : tries[t] > 0} = {}
    BY <1>1 DEF Init
  <2> QED
    BY <2>1, <2>2, <2>3 DEF Board!Init
<1> QED
  BY <1>1, BoardStep, Invariance, PTL DEF Spec, ImplementsBoard, Board!Spec

-----------------------------------------------------------------------------
(* A task may be dispatched as often as retries are allowed, and at least  *)
(* once.                                                                   *)
Allowed == IF MaxRetries = 0 THEN 1 ELSE MaxRetries

(* The worker may still dispatch the task, or is at it. *)
MayRun(t) == status[t] \in {"none", "queued", "processing"} \/ t \in stale \/ held = t

(* Every dispatch that was spoiled is a retry, but for one the next poll   *)
(* will count; and only those that were cut off can exceed the limit.      *)
SpoiledFits(t) ==
    /\ MayRun(t) => /\ spoiled[t] < Allowed + faults
                    /\ IF t \in stale \/ (status[t] = "processing" /\ ~Busy(t))
                       THEN spoiled[t] = retries[t] + 1
                       ELSE spoiled[t] = retries[t]
    /\ tries[t] <= Allowed + faults /\ spoiled[t] <= Allowed + faults
    /\ t \in stale \/ Busy(t) => status[t] \in {"processing", "cancelled"}
    /\ held = t /\ wpc = "polled" /\ t \notin stale => status[t] \in {"queued", "cancelled"}

SpoiledInv == \A t \in Tasks : SpoiledFits(t)

(* No step dispatches a task whose allowance is used up.                   *)
LEMMA SpoiledStep == IInv /\ SpoiledInv /\ [Next]_vars => SpoiledInv'
<1> SUFFICES ASSUME IInv, SpoiledInv, [Next]_vars, NEW t \in Tasks
             PROVE  SpoiledFits(t)'
  BY DEF SpoiledInv
<1>0. /\ SpoiledFits(t) /\ Owed(t) /\ TypeOK /\ WorkerInv /\ RowsInv /\ faults \in Nat /\ Allowed \in Nat
      /\ tries[t] \in Nat /\ spoiled[t] \in Nat /\ retries[t] \in Nat
      /\ Allowed >= MaxRetries /\ Allowed > 0 /\ MaxRetries \in Nat
  BY LimitsAssumption DEF IInv, SpoiledInv, CountInv, TypeOK, Allowed
<1> HIDE DEF Allowed
<1> USE <1>0, NullAssumption DEF SpoiledFits, Owed, MayRun, Busy, TypeOK, WorkerInv,
              RowsInv, vars, rows, request, worker, history
<1>1. ASSUME NEW u \in Tasks, CheckDuplicate(u) PROVE SpoiledFits(t)'
  BY <1>1 DEF CheckDuplicate
<1>2. ASSUME NEW u \in Tasks, CountDepth(u) PROVE SpoiledFits(t)'
  BY <1>2 DEF CountDepth
<1>3. ASSUME NEW u \in Tasks, InsertTask(u) PROVE SpoiledFits(t)'
  BY <1>3 DEF InsertTask
<1>4. ASSUME NEW u \in Tasks, Cancel(u) PROVE SpoiledFits(t)'
  <2>1. CASE u = t
    BY <1>4, <2>1 DEF Cancel, WorkerPC
  <2>2. CASE u # t
    BY <1>4, <2>2 DEF Cancel
  <2> QED
    BY <2>1, <2>2
<1>5. ASSUME NEW h \in BOOLEAN, HealthPoll(h) PROVE SpoiledFits(t)'
  BY <1>5 DEF HealthPoll
<1>6. ASSUME NEW u \in Tasks, DeadlinePasses(u) PROVE SpoiledFits(t)'
  BY <1>6 DEF DeadlinePasses
<1>7. ASSUME WindowPasses PROVE SpoiledFits(t)'
  BY <1>7 DEF WindowPasses
<1>8. ASSUME PollStale PROVE SpoiledFits(t)'
  BY <1>8 DEF PollStale, Stale
<1>9. ASSUME PollReady PROVE SpoiledFits(t)'
  BY <1>9 DEF PollReady, Ready
<1>10. ASSUME MarkProcessing PROVE SpoiledFits(t)'
  BY <1>10 DEF MarkProcessing, RetriesOnRequeue
<1>11. ASSUME DispatchReturns PROVE SpoiledFits(t)'
  BY <1>11 DEF DispatchReturns, Settle
<1>12. ASSUME DispatchRaises PROVE SpoiledFits(t)'
  BY <1>12 DEF DispatchRaises, Settle
<1>13. ASSUME ReturnUndispatched PROVE SpoiledFits(t)'
  BY <1>13 DEF ReturnUndispatched, Settle
<1>14. ASSUME CommitFails PROVE SpoiledFits(t)'
  BY <1>14 DEF CommitFails, CutOff
<1>15. ASSUME Restart PROVE SpoiledFits(t)'
  BY <1>15 DEF Restart, CutOff
<1>16. ASSUME UNCHANGED vars PROVE SpoiledFits(t)'
  BY <1>16
<1> QED
  BY <1>1, <1>2, <1>3, <1>4, <1>5, <1>6, <1>7, <1>8, <1>9, <1>10, <1>11, <1>12, <1>13, <1>14, <1>15, <1>16
     DEF Next, WorkerStep

(* A message is handed to the runner no oftener than max_retries allows,   *)
(* and once more for each restart or failed commit: poll counts a retry    *)
(* without comparing it, but only for a dispatch that a fault cut off      *)
(* (_dispatch_task, DurableQueue.poll).                                    *)
THEOREM DispatchesAreBounded ==
    Spec => [](\A t \in Tasks : tries[t] <= Allowed + faults /\ retries[t] <= Allowed + faults)
<1>1. Init => SpoiledInv
  BY NullAssumption, LimitsAssumption DEF Init, SpoiledInv, SpoiledFits, MayRun, Busy, Allowed
<1>2. IInv /\ SpoiledInv =>
        \A t \in Tasks : tries[t] <= Allowed + faults /\ retries[t] <= Allowed + faults
  <2> SUFFICES ASSUME IInv, SpoiledInv, NEW t \in Tasks
               PROVE  tries[t] <= Allowed + faults /\ retries[t] <= Allowed + faults
    OBVIOUS
  <2>1. /\ tries[t] <= Allowed + faults /\ spoiled[t] <= Allowed + faults /\ retries[t] <= spoiled[t]
        /\ retries[t] \in Nat /\ spoiled[t] \in Nat /\ Allowed \in Nat /\ faults \in Nat
    BY LimitsAssumption DEF SpoiledInv, SpoiledFits, IInv, CountInv, Owed, TypeOK, Allowed
  <2> QED
    BY <2>1
<1> QED
  BY <1>1, <1>2, SpoiledStep, Invariance, PTL DEF Spec
=============================================================================
