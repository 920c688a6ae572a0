------------------------ MODULE RunLifecycle_proofs ------------------------
(* Theorems of RunLifecycle, for any sets of runs, messages, calls and     *)
(* requests, any number of restarts, and with or without failing inserts.  *)
EXTENDS RunLifecycle, TLAPS

(* Every step keeps every variable's shape.                                *)
LEMMA TypeStep == TypeOK /\ WellLinked /\ [Next]_vars => TypeOK'
<1> SUFFICES ASSUME TypeOK, WellLinked, [Next]_vars
             PROVE  TypeOK'
  OBVIOUS
<1> USE DEF TypeOK, vars, rows, streamData, streams, gates, requestData, requests, history
<1>1. ASSUME NEW s \in Streams, FindActiveRun(s) PROVE TypeOK'
  BY <1>1
     DEF FindActiveRun, StreamPC
<1>2. ASSUME NEW s \in Streams, StartRunner(s) PROVE TypeOK'
  <2>1. status' \in [Runs -> Status] /\ born' \in [Runs -> Nat] /\ clock' \in Nat
    BY <1>2 DEF StartRunner, MakeRun, Status, Active, Terminal
  <2>2. pc' \in [Streams -> StreamPC]
    BY <1>2 DEF StartRunner, GoTo, StreamPC
  <2>3. parked' \in [Runs -> Calls \cup {NoCall}]
    BY <1>2 DEF StartRunner
  <2> QED
    BY <1>2, <2>1, <2>2, <2>3 DEF StartRunner, GoTo
<1>3. ASSUME NEW s \in Streams, MakeQueuedRun(s) PROVE TypeOK'
  BY <1>3
     DEF MakeQueuedRun, MakeRun, GoTo, StreamPC, Status, Active,
         Terminal
<1>4. ASSUME NEW s \in Streams, EnqueuePrivateChat(s) PROVE TypeOK'
  BY <1>4
     DEF EnqueuePrivateChat, GoTo, StreamPC
<1>5. ASSUME NEW s \in Streams, DrainQueued(s) PROVE TypeOK'
  BY <1>5
     DEF DrainQueued, GoTo, Interrupt, StreamPC
<1>6. ASSUME NEW s \in Streams, RunnerInterrupt(s) PROVE TypeOK'
  <2>1. PICK c \in Calls : /\ Interrupt(runOf[s], c, FALSE)
                           /\ callOf' = [callOf EXCEPT ![s] = c]
    BY <1>6 DEF RunnerInterrupt
  <2>2. /\ callRun' \in [Calls -> Runs \cup {NoRun}]
        /\ asks' \in SUBSET Calls
        /\ parked' \in [Runs -> Calls \cup {NoCall}]
    BY <2>1 DEF Interrupt
  <2>3. pc' \in [Streams -> StreamPC] /\ outcome' \in [Streams -> Outcome]
    BY <1>6 DEF RunnerInterrupt, StreamPC, Outcome
  <2> QED
    BY <1>6, <2>1, <2>2, <2>3 DEF RunnerInterrupt
<1>7. ASSUME NEW s \in Streams, RunnerAskUser(s) PROVE TypeOK'
  <2>1. PICK c \in Calls : /\ Interrupt(runOf[s], c, TRUE)
                           /\ callOf' = [callOf EXCEPT ![s] = c]
    BY <1>7 DEF RunnerAskUser
  <2>2. /\ callRun' \in [Calls -> Runs \cup {NoRun}]
        /\ asks' \in SUBSET Calls
        /\ parked' \in [Runs -> Calls \cup {NoCall}]
    BY <2>1 DEF Interrupt
  <2>3. pc' \in [Streams -> StreamPC]
    BY <1>7 DEF RunnerAskUser, StreamPC
  <2> QED
    BY <1>7, <2>1, <2>2, <2>3 DEF RunnerAskUser
<1>8. ASSUME NEW s \in Streams, RunnerFinish(s) PROVE TypeOK'
  BY <1>8
     DEF RunnerFinish, StreamPC, Outcome
<1>9. ASSUME NEW s \in Streams, CreateApproval(s) PROVE TypeOK'
  BY <1>9
     DEF CreateApproval, GoTo, StreamPC, Decision
<1>10. ASSUME NEW s \in Streams, UpdateRunStatusRead(s) PROVE TypeOK'
  BY <1>10
     DEF UpdateRunStatusRead, FinalStatus, StreamPC, Outcome, Status,
         Active, Terminal
<1>11. ASSUME NEW s \in Streams, UpdateRunStatusWrite(s) PROVE TypeOK'
  BY <1>11
     DEF UpdateRunStatusWrite, GoTo, StreamPC
<1>12. ASSUME NEW s \in Streams, Disconnect(s) PROVE TypeOK'
  BY <1>12
     DEF Disconnect, GoTo, StreamPC
<1>13. ASSUME NEW q \in Requests, DecideCheck(q) PROVE TypeOK'
  BY <1>13
     DEF DecideCheck, Accept, RequestPC, Kind
<1>14. ASSUME NEW q \in Requests, DecideCommit(q) PROVE TypeOK'
  <2>1. approval' \in [Calls -> Decision]
    BY <1>14 DEF DecideCommit, Decision
  <2>2. rpc' \in [Requests -> RequestPC]
    BY <1>14 DEF DecideCommit, RequestPC
  <2>3. granted' \in SUBSET Calls
    BY <1>14 DEF DecideCommit, WellLinked
  <2> QED
    BY <1>14, <2>1, <2>2, <2>3 DEF DecideCommit
<1>15. ASSUME NEW q \in Requests, AnswerRun(q) PROVE TypeOK'
  BY <1>15
     DEF AnswerRun, Accept, RequestPC, Kind
<1>16. ASSUME NEW q \in Requests, CompleteCheck(q) PROVE TypeOK'
  BY <1>16
     DEF CompleteCheck, Accept, RequestPC, Kind
<1>17. ASSUME NEW q \in Requests, CompleteCommit(q) PROVE TypeOK'
  BY <1>17
     DEF CompleteCommit, RequestPC, Status, Terminal
<1>18. ASSUME NEW q \in Requests, ResumeStart(q) PROVE TypeOK'
  <2>1. rowLock' \in [Runs -> Requests \cup {NoRequest}]
    BY <1>18 DEF ResumeStart
  <2>2. rpc' \in [Requests -> RequestPC]
    BY <1>18 DEF ResumeStart, RequestPC
  <2>0. target[q] \in Runs
    BY <1>18 DEF ResumeStart, WellLinked
  <2>3. about' \in [Requests -> Calls \cup {NoCall}]
    BY <1>18, <2>0 DEF ResumeStart
  <2>4. released' \in SUBSET (Calls \X Requests)
    <3>1. CASE released' = released
      BY <3>1
    <3>2. CASE released' = released \cup {<<parked[target[q]], q>>}
               /\ parked[target[q]] # NoCall
      <4>1. <<parked[target[q]], q>> \in Calls \X Requests
        BY <2>0, <3>2
      <4> QED
        BY <3>2, <4>1
    <3> QED
      BY <1>18, <3>1, <3>2 DEF ResumeStart
  <2> QED
    BY <1>18, <2>1, <2>2, <2>3, <2>4 DEF ResumeStart
<1>19. ASSUME NEW q \in Requests, ResumeEnd(q) PROVE TypeOK'
  BY <1>19
     DEF ResumeEnd, Interrupt, Unlock, RequestPC
<1>20. CASE Restart
  <2>1. pc' \in [Streams -> StreamPC]
    BY <1>20 DEF Restart, StreamPC
  <2>2. rpc' \in [Requests -> RequestPC]
    BY <1>20 DEF Restart, RequestPC
  <2>3. status' \in [Runs -> Status]
    BY <1>20 DEF Restart, Status, Terminal
  <2> QED
    BY <1>20, <2>1, <2>2, <2>3, BoundsAssumption DEF Restart
<1>21. CASE UNCHANGED vars
  BY <1>21
<1> QED
  BY <1>1, <1>2, <1>3, <1>4, <1>5, <1>6, <1>7, <1>8, <1>9, <1>10, <1>11,
     <1>12, <1>13, <1>14, <1>15, <1>16, <1>17, <1>18, <1>19, <1>20, <1>21
     DEF Next, StreamStep, RequestStep, UserStep

(* Every step keeps the links between the handlers' data and the rows.     *)
LEMMA LinkStep == TypeOK /\ WellLinked /\ [Next]_vars => WellLinked'
<1> SUFFICES ASSUME TypeOK, WellLinked, [Next]_vars
             PROVE  WellLinked'
  OBVIOUS
<1> USE NullsAssumption DEF TypeOK, WellLinked, vars, rows, streamData, streams, gates,
                            requestData, requests, history
<1>1. ASSUME NEW s \in Streams, FindActiveRun(s) PROVE WellLinked'
  BY <1>1
     DEF FindActiveRun
<1>2. ASSUME NEW s \in Streams, StartRunner(s) PROVE WellLinked'
  BY <1>2
     DEF StartRunner, MakeRun, GoTo
<1>3. ASSUME NEW s \in Streams, MakeQueuedRun(s) PROVE WellLinked'
  BY <1>3
     DEF MakeQueuedRun, MakeRun, GoTo
<1>4. ASSUME NEW s \in Streams, EnqueuePrivateChat(s) PROVE WellLinked'
  BY <1>4
     DEF EnqueuePrivateChat, GoTo
<1>5. ASSUME NEW s \in Streams, DrainQueued(s) PROVE WellLinked'
  BY <1>5
     DEF DrainQueued, GoTo, Interrupt
<1>6. ASSUME NEW s \in Streams, RunnerInterrupt(s) PROVE WellLinked'
  BY <1>6
     DEF RunnerInterrupt, Interrupt
<1>7. ASSUME NEW s \in Streams, RunnerAskUser(s) PROVE WellLinked'
  BY <1>7
     DEF RunnerAskUser, Interrupt
<1>8. ASSUME NEW s \in Streams, RunnerFinish(s) PROVE WellLinked'
  BY <1>8
     DEF RunnerFinish
<1>9. ASSUME NEW s \in Streams, CreateApproval(s) PROVE WellLinked'
  BY <1>9
     DEF CreateApproval, GoTo
<1>10. ASSUME NEW s \in Streams, UpdateRunStatusRead(s) PROVE WellLinked'
  BY <1>10
     DEF UpdateRunStatusRead
<1>11. ASSUME NEW s \in Streams, UpdateRunStatusWrite(s) PROVE WellLinked'
  BY <1>11
     DEF UpdateRunStatusWrite, GoTo
<1>12. ASSUME NEW s \in Streams, Disconnect(s) PROVE WellLinked'
  BY <1>12
     DEF Disconnect, GoTo, Alive
<1>13. ASSUME NEW q \in Requests, DecideCheck(q) PROVE WellLinked'
  BY <1>13
     DEF DecideCheck, Accept
<1>14. ASSUME NEW q \in Requests, DecideCommit(q) PROVE WellLinked'
  BY <1>14
     DEF DecideCommit
<1>15. ASSUME NEW q \in Requests, AnswerRun(q) PROVE WellLinked'
  BY <1>15
     DEF AnswerRun, Accept
<1>16. ASSUME NEW q \in Requests, CompleteCheck(q) PROVE WellLinked'
  BY <1>16
     DEF CompleteCheck, Accept
<1>17. ASSUME NEW q \in Requests, CompleteCommit(q) PROVE WellLinked'
  BY <1>17
     DEF CompleteCommit
<1>18. ASSUME NEW q \in Requests, ResumeStart(q) PROVE WellLinked'
  BY <1>18
     DEF ResumeStart
<1>19. ASSUME NEW q \in Requests, ResumeEnd(q) PROVE WellLinked'
  BY <1>19
     DEF ResumeEnd, Interrupt
<1>20. CASE Restart
  BY <1>20
     DEF Restart, Alive, InFlight
<1>21. CASE UNCHANGED vars
  BY <1>21
<1> QED
  BY <1>1, <1>2, <1>3, <1>4, <1>5, <1>6, <1>7, <1>8, <1>9, <1>10, <1>11,
     <1>12, <1>13, <1>14, <1>15, <1>16, <1>17, <1>18, <1>19, <1>20, <1>21
     DEF Next, StreamStep, RequestStep, UserStep

(* A step resumes a call as approved only where an approve was committed.  *)
LEMMA ReleaseStep ==
    TypeOK /\ WellLinked /\ ReleaseNeedsGrant /\ [Next]_vars => ReleaseNeedsGrant'
<1> SUFFICES ASSUME TypeOK, WellLinked, ReleaseNeedsGrant, [Next]_vars
             PROVE  ReleaseNeedsGrant'
  OBVIOUS
<1> USE NullsAssumption DEF TypeOK, WellLinked, ReleaseNeedsGrant, vars, rows,
            streamData, streams, gates, requestData, requests, history
<1>1. ASSUME NEW s \in Streams, FindActiveRun(s) PROVE ReleaseNeedsGrant'
  BY <1>1
     DEF FindActiveRun
<1>2. ASSUME NEW s \in Streams, StartRunner(s) PROVE ReleaseNeedsGrant'
  BY <1>2
     DEF StartRunner, MakeRun, GoTo
<1>3. ASSUME NEW s \in Streams, MakeQueuedRun(s) PROVE ReleaseNeedsGrant'
  BY <1>3
     DEF MakeQueuedRun, MakeRun, GoTo
<1>4. ASSUME NEW s \in Streams, EnqueuePrivateChat(s) PROVE ReleaseNeedsGrant'
  BY <1>4
     DEF EnqueuePrivateChat, GoTo
<1>5. ASSUME NEW s \in Streams, DrainQueued(s) PROVE ReleaseNeedsGrant'
  BY <1>5
     DEF DrainQueued, GoTo, Interrupt
<1>6. ASSUME NEW s \in Streams, RunnerInterrupt(s) PROVE ReleaseNeedsGrant'
  BY <1>6
     DEF RunnerInterrupt, Interrupt
<1>7. ASSUME NEW s \in Streams, RunnerAskUser(s) PROVE ReleaseNeedsGrant'
  BY <1>7
     DEF RunnerAskUser, Interrupt
<1>8. ASSUME NEW s \in Streams, RunnerFinish(s) PROVE ReleaseNeedsGrant'
  BY <1>8
     DEF RunnerFinish
<1>9. ASSUME NEW s \in Streams, CreateApproval(s) PROVE ReleaseNeedsGrant'
  BY <1>9
     DEF CreateApproval, GoTo
<1>10. ASSUME NEW s \in Streams, UpdateRunStatusRead(s) PROVE ReleaseNeedsGrant'
  BY <1>10
     DEF UpdateRunStatusRead
<1>11. ASSUME NEW s \in Streams, UpdateRunStatusWrite(s) PROVE ReleaseNeedsGrant'
  BY <1>11
     DEF UpdateRunStatusWrite, GoTo
<1>12. ASSUME NEW s \in Streams, Disconnect(s) PROVE ReleaseNeedsGrant'
  BY <1>12
     DEF Disconnect, GoTo, Alive
<1>13. ASSUME NEW q \in Requests, DecideCheck(q) PROVE ReleaseNeedsGrant'
  BY <1>13
     DEF DecideCheck, Accept
<1>14. ASSUME NEW q \in Requests, DecideCommit(q) PROVE ReleaseNeedsGrant'
  BY <1>14
     DEF DecideCommit
<1>15. ASSUME NEW q \in Requests, AnswerRun(q) PROVE ReleaseNeedsGrant'
  BY <1>15
     DEF AnswerRun, Accept
<1>16. ASSUME NEW q \in Requests, CompleteCheck(q) PROVE ReleaseNeedsGrant'
  BY <1>16
     DEF CompleteCheck, Accept
<1>17. ASSUME NEW q \in Requests, CompleteCommit(q) PROVE ReleaseNeedsGrant'
  BY <1>17
     DEF CompleteCommit
<1>18. ASSUME NEW q \in Requests, ResumeStart(q) PROVE ReleaseNeedsGrant'
  BY <1>18
     DEF ResumeStart, Approves
<1>19. ASSUME NEW q \in Requests, ResumeEnd(q) PROVE ReleaseNeedsGrant'
  BY <1>19
     DEF ResumeEnd, Interrupt
<1>20. CASE Restart
  BY <1>20
     DEF Restart, Alive, InFlight
<1>21. CASE UNCHANGED vars
  BY <1>21
<1> QED
  BY <1>1, <1>2, <1>3, <1>4, <1>5, <1>6, <1>7, <1>8, <1>9, <1>10, <1>11,
     <1>12, <1>13, <1>14, <1>15, <1>16, <1>17, <1>18, <1>19, <1>20, <1>21
     DEF Next, StreamStep, RequestStep, UserStep

(* A lock is taken by a task that starts to resume and dropped at its end. *)
LEMMA LockStep ==
    TypeOK /\ LockHolderIsResuming /\ [Next]_vars => LockHolderIsResuming'
<1> SUFFICES ASSUME TypeOK, LockHolderIsResuming, [Next]_vars
             PROVE  LockHolderIsResuming'
  OBVIOUS
<1> USE NullsAssumption DEF TypeOK, LockHolderIsResuming, vars, rows, streamData,
            streams, gates, requestData, requests, history
<1>1. ASSUME NEW s \in Streams, FindActiveRun(s) PROVE LockHolderIsResuming'
  BY <1>1
     DEF FindActiveRun
<1>2. ASSUME NEW s \in Streams, StartRunner(s) PROVE LockHolderIsResuming'
  BY <1>2
     DEF StartRunner, MakeRun, GoTo
<1>3. ASSUME NEW s \in Streams, MakeQueuedRun(s) PROVE LockHolderIsResuming'
  BY <1>3
     DEF MakeQueuedRun, MakeRun, GoTo
<1>4. ASSUME NEW s \in Streams, EnqueuePrivateChat(s) PROVE LockHolderIsResuming'
  BY <1>4
     DEF EnqueuePrivateChat, GoTo
<1>5. ASSUME NEW s \in Streams, DrainQueued(s) PROVE LockHolderIsResuming'
  BY <1>5
     DEF DrainQueued, GoTo, Interrupt
<1>6. ASSUME NEW s \in Streams, RunnerInterrupt(s) PROVE LockHolderIsResuming'
  BY <1>6
     DEF RunnerInterrupt, Interrupt
<1>7. ASSUME NEW s \in Streams, RunnerAskUser(s) PROVE LockHolderIsResuming'
  BY <1>7
     DEF RunnerAskUser, Interrupt
<1>8. ASSUME NEW s \in Streams, RunnerFinish(s) PROVE LockHolderIsResuming'
  BY <1>8
     DEF RunnerFinish
<1>9. ASSUME NEW s \in Streams, CreateApproval(s) PROVE LockHolderIsResuming'
  BY <1>9
     DEF CreateApproval, GoTo
<1>10. ASSUME NEW s \in Streams, UpdateRunStatusRead(s) PROVE LockHolderIsResuming'
  BY <1>10
     DEF UpdateRunStatusRead
<1>11. ASSUME NEW s \in Streams, UpdateRunStatusWrite(s) PROVE LockHolderIsResuming'
  BY <1>11
     DEF UpdateRunStatusWrite, GoTo
<1>12. ASSUME NEW s \in Streams, Disconnect(s) PROVE LockHolderIsResuming'
  BY <1>12
     DEF Disconnect, GoTo, Alive
<1>13. ASSUME NEW q \in Requests, DecideCheck(q) PROVE LockHolderIsResuming'
  BY <1>13
     DEF DecideCheck, Accept
<1>14. ASSUME NEW q \in Requests, DecideCommit(q) PROVE LockHolderIsResuming'
  BY <1>14
     DEF DecideCommit
<1>15. ASSUME NEW q \in Requests, AnswerRun(q) PROVE LockHolderIsResuming'
  BY <1>15
     DEF AnswerRun, Accept
<1>16. ASSUME NEW q \in Requests, CompleteCheck(q) PROVE LockHolderIsResuming'
  BY <1>16
     DEF CompleteCheck, Accept
<1>17. ASSUME NEW q \in Requests, CompleteCommit(q) PROVE LockHolderIsResuming'
  BY <1>17
     DEF CompleteCommit
<1>18. ASSUME NEW q \in Requests, ResumeStart(q) PROVE LockHolderIsResuming'
  BY <1>18
     DEF ResumeStart
<1>19. ASSUME NEW q \in Requests, ResumeEnd(q) PROVE LockHolderIsResuming'
  BY <1>19
     DEF ResumeEnd, Interrupt, Unlock
<1>20. CASE Restart
  BY <1>20
     DEF Restart, Alive, InFlight
<1>21. CASE UNCHANGED vars
  BY <1>21
<1> QED
  BY <1>1, <1>2, <1>3, <1>4, <1>5, <1>6, <1>7, <1>8, <1>9, <1>10, <1>11,
     <1>12, <1>13, <1>14, <1>15, <1>16, <1>17, <1>18, <1>19, <1>20, <1>21
     DEF Next, StreamStep, RequestStep, UserStep

(* RunningIsOwned is not inductive: a stream about to end without settling *)
(* owns nothing.  A stream that read the run as running will settle it.    *)
OwnedInv ==
    /\ \A r \in Runs : status[r] = "running" =>
          \E s \in Streams :
              /\ runOf[s] = r
              /\ \/ pc[s] \in Serving \cup {"gone"}
                 \/ pc[s] \in Deferred /\ ~fresh[s]
              /\ pc[s] = "write" => write[s] \notin {"none", "summary"}
    /\ \A s \in Streams : write[s] # "running"

(* A running run has an owner after every step.                            *)
LEMMA OwnedStep ==
    TypeOK /\ WellLinked /\ OwnedInv /\ [Next]_vars => OwnedInv'
<1> SUFFICES ASSUME TypeOK, WellLinked, OwnedInv, [Next]_vars
             PROVE  OwnedInv'
  OBVIOUS
<1> USE NullsAssumption DEF TypeOK, WellLinked, OwnedInv, Serving, Deferred, vars, rows,
            streamData, streams, gates, requestData, requests, history
<1>1. ASSUME NEW s \in Streams, FindActiveRun(s) PROVE OwnedInv'
  BY <1>1
     DEF FindActiveRun
<1>2. ASSUME NEW s \in Streams, StartRunner(s) PROVE OwnedInv'
  BY <1>2
     DEF StartRunner, MakeRun, GoTo
<1>3. ASSUME NEW s \in Streams, MakeQueuedRun(s) PROVE OwnedInv'
  BY <1>3
     DEF MakeQueuedRun, MakeRun, GoTo
<1>4. ASSUME NEW s \in Streams, EnqueuePrivateChat(s) PROVE OwnedInv'
  BY <1>4
     DEF EnqueuePrivateChat, GoTo
<1>5. ASSUME NEW s \in Streams, DrainQueued(s) PROVE OwnedInv'
  BY <1>5
     DEF DrainQueued, GoTo, Interrupt
<1>6. ASSUME NEW s \in Streams, RunnerInterrupt(s) PROVE OwnedInv'
  BY <1>6
     DEF RunnerInterrupt, Interrupt
<1>7. ASSUME NEW s \in Streams, RunnerAskUser(s) PROVE OwnedInv'
  BY <1>7
     DEF RunnerAskUser, Interrupt
<1>8. ASSUME NEW s \in Streams, RunnerFinish(s) PROVE OwnedInv'
  BY <1>8
     DEF RunnerFinish
<1>9. ASSUME NEW s \in Streams, CreateApproval(s) PROVE OwnedInv'
  BY <1>9
     DEF CreateApproval, GoTo
<1>10. ASSUME NEW s \in Streams, UpdateRunStatusRead(s) PROVE OwnedInv'
  <2>1. FinalStatus(s) \in {"awaiting_approval", "failed", "completed"}
    BY DEF FinalStatus, Outcome
  <2>2. ValidTransitions["running"] = {"awaiting_approval", "completed", "failed", "cancelled"}
    BY DEF ValidTransitions, Status, Active, Terminal
  <2>3. /\ status[runOf[s]] = "running" => write'[s] \notin {"none", "summary"}
        /\ write'[s] # "running"
    BY <1>10, <2>1, <2>2 DEF UpdateRunStatusRead
  <2>4. /\ pc' = [pc EXCEPT ![s] = "write"]
        /\ \A o \in Streams : o # s => write'[o] = write[o]
        /\ UNCHANGED <<status, runOf, fresh>>
    BY <1>10 DEF UpdateRunStatusRead
  <2> QED
    BY <2>3, <2>4
<1>11. ASSUME NEW s \in Streams, UpdateRunStatusWrite(s) PROVE OwnedInv'
  <2>1. /\ pc[s] = "write"
        /\ \/ /\ pc'[s] = "ended"
              /\ \/ write[s] \in {"none", "summary"} /\ status' = status
                 \/ /\ write[s] \notin {"none", "summary"}
                    /\ status' = [status EXCEPT ![runOf[s]] = write[s]]
           \/ pc'[s] = "gone" /\ status' = status
        /\ \A o \in Streams : o # s => pc'[o] = pc[o]
        /\ UNCHANGED <<runOf, fresh, write>>
    BY <1>11 DEF UpdateRunStatusWrite, GoTo
  <2>2. \A o \in Streams : pc[o] = "write" => runOf[o] \in Runs
    OBVIOUS
  <2>3. \A r \in Runs : status'[r] = "running" => status[r] = "running"
    BY <2>1, <2>2
  <2>4. ASSUME NEW r \in Runs, status'[r] = "running"
        PROVE  \E o \in Streams :
                  /\ runOf'[o] = r
                  /\ \/ pc'[o] \in Serving \cup {"gone"}
                     \/ pc'[o] \in Deferred /\ ~fresh'[o]
                  /\ pc'[o] = "write" => write'[o] \notin {"none", "summary"}
    <3>1. PICK o \in Streams :
            /\ runOf[o] = r
            /\ \/ pc[o] \in Serving \cup {"gone"}
               \/ pc[o] \in Deferred /\ ~fresh[o]
            /\ pc[o] = "write" => write[o] \notin {"none", "summary"}
      BY <2>3, <2>4
    <3>2. CASE o # s
      BY <2>1, <3>1, <3>2
    <3>3. CASE o = s /\ pc'[s] = "gone"
      BY <2>1, <3>1, <3>3
    <3>4. CASE o = s /\ pc'[s] = "ended"
      <4>1. status'[r] = write[s]
        BY <2>1, <3>1, <3>4
      <4> QED
        BY <2>4, <4>1
    <3> QED
      BY <2>1, <3>2, <3>3, <3>4
  <2> QED
    BY <2>1, <2>4
<1>12. ASSUME NEW s \in Streams, Disconnect(s) PROVE OwnedInv'
  BY <1>12
     DEF Disconnect, GoTo, Alive
<1>13. ASSUME NEW q \in Requests, DecideCheck(q) PROVE OwnedInv'
  BY <1>13
     DEF DecideCheck, Accept
<1>14. ASSUME NEW q \in Requests, DecideCommit(q) PROVE OwnedInv'
  BY <1>14
     DEF DecideCommit
<1>15. ASSUME NEW q \in Requests, AnswerRun(q) PROVE OwnedInv'
  BY <1>15
     DEF AnswerRun, Accept
<1>16. ASSUME NEW q \in Requests, CompleteCheck(q) PROVE OwnedInv'
  BY <1>16
     DEF CompleteCheck, Accept
<1>17. ASSUME NEW q \in Requests, CompleteCommit(q) PROVE OwnedInv'
  BY <1>17
     DEF CompleteCommit
<1>18. ASSUME NEW q \in Requests, ResumeStart(q) PROVE OwnedInv'
  BY <1>18
     DEF ResumeStart
<1>19. ASSUME NEW q \in Requests, ResumeEnd(q) PROVE OwnedInv'
  BY <1>19
     DEF ResumeEnd, Interrupt
<1>20. CASE Restart
  BY <1>20
     DEF Restart, Alive, InFlight, Orphans
<1>21. CASE UNCHANGED vars
  BY <1>21
<1> QED
  BY <1>1, <1>2, <1>3, <1>4, <1>5, <1>6, <1>7, <1>8, <1>9, <1>10, <1>11,
     <1>12, <1>13, <1>14, <1>15, <1>16, <1>17, <1>18, <1>19, <1>20, <1>21
     DEF Next, StreamStep, RequestStep, UserStep

(* A stream writes the status its outcome calls for.                       *)
EarnedInv ==
    /\ StatusIsEarned
    /\ \A s \in Streams : pc[s] = "write" => write[s] \in {"none", "summary", FinalStatus(s)}

(* A status is earned after every step.                                    *)
LEMMA EarnedStep ==
    TypeOK /\ WellLinked /\ EarnedInv /\ [Next]_vars => EarnedInv'
<1> SUFFICES ASSUME TypeOK, WellLinked, EarnedInv, [Next]_vars
             PROVE  EarnedInv'
  OBVIOUS
<1> USE NullsAssumption DEF TypeOK, WellLinked, EarnedInv, StatusIsEarned, FinalStatus,
            Outcome, vars, rows, streamData, streams, gates, requestData, requests, history
<1>1. ASSUME NEW s \in Streams, FindActiveRun(s) PROVE EarnedInv'
  BY <1>1
     DEF FindActiveRun
<1>2. ASSUME NEW s \in Streams, StartRunner(s) PROVE EarnedInv'
  BY <1>2
     DEF StartRunner, MakeRun, GoTo
<1>3. ASSUME NEW s \in Streams, MakeQueuedRun(s) PROVE EarnedInv'
  BY <1>3
     DEF MakeQueuedRun, MakeRun, GoTo
<1>4. ASSUME NEW s \in Streams, EnqueuePrivateChat(s) PROVE EarnedInv'
  BY <1>4
     DEF EnqueuePrivateChat, GoTo
<1>5. ASSUME NEW s \in Streams, DrainQueued(s) PROVE EarnedInv'
  BY <1>5
     DEF DrainQueued, GoTo, Interrupt
<1>6. ASSUME NEW s \in Streams, RunnerInterrupt(s) PROVE EarnedInv'
  BY <1>6
     DEF RunnerInterrupt, Interrupt
<1>7. ASSUME NEW s \in Streams, RunnerAskUser(s) PROVE EarnedInv'
  BY <1>7
     DEF RunnerAskUser, Interrupt
<1>8. ASSUME NEW s \in Streams, RunnerFinish(s) PROVE EarnedInv'
  BY <1>8
     DEF RunnerFinish
<1>9. ASSUME NEW s \in Streams, CreateApproval(s) PROVE EarnedInv'
  BY <1>9
     DEF CreateApproval, GoTo
<1>10. ASSUME NEW s \in Streams, UpdateRunStatusRead(s) PROVE EarnedInv'
  BY <1>10
     DEF UpdateRunStatusRead
<1>11. ASSUME NEW s \in Streams, UpdateRunStatusWrite(s) PROVE EarnedInv'
  BY <1>11
     DEF UpdateRunStatusWrite, GoTo
<1>12. ASSUME NEW s \in Streams, Disconnect(s) PROVE EarnedInv'
  BY <1>12
     DEF Disconnect, GoTo, Alive
<1>13. ASSUME NEW q \in Requests, DecideCheck(q) PROVE EarnedInv'
  BY <1>13
     DEF DecideCheck, Accept
<1>14. ASSUME NEW q \in Requests, DecideCommit(q) PROVE EarnedInv'
  BY <1>14
     DEF DecideCommit
<1>15. ASSUME NEW q \in Requests, AnswerRun(q) PROVE EarnedInv'
  BY <1>15
     DEF AnswerRun, Accept
<1>16. ASSUME NEW q \in Requests, CompleteCheck(q) PROVE EarnedInv'
  BY <1>16
     DEF CompleteCheck, Accept
<1>17. ASSUME NEW q \in Requests, CompleteCommit(q) PROVE EarnedInv'
  BY <1>17
     DEF CompleteCommit
<1>18. ASSUME NEW q \in Requests, ResumeStart(q) PROVE EarnedInv'
  BY <1>18
     DEF ResumeStart
<1>19. ASSUME NEW q \in Requests, ResumeEnd(q) PROVE EarnedInv'
  BY <1>19
     DEF ResumeEnd, Interrupt
<1>20. CASE Restart
  <2>1. restarts' > 0
    BY <1>20, BoundsAssumption DEF Restart
  <2>2. \A r \in Runs : status'[r] = status[r] \/ status'[r] = "failed"
    BY <1>20 DEF Restart
  <2>3. /\ \A s \in Streams : pc[s] = "ended" => pc'[s] = "ended"
        /\ \A s \in Streams : pc'[s] = "write" => pc[s] = "write"
        /\ \A q \in Requests : rpc[q] = "done" => rpc'[q] = "done"
        /\ UNCHANGED <<runOf, outcome, write, target, kind>>
    BY <1>20 DEF Restart, Alive, InFlight
  <2> QED
    BY <2>1, <2>2, <2>3
<1>21. CASE UNCHANGED vars
  BY <1>21
<1> QED
  BY <1>1, <1>2, <1>3, <1>4, <1>5, <1>6, <1>7, <1>8, <1>9, <1>10, <1>11,
     <1>12, <1>13, <1>14, <1>15, <1>16, <1>17, <1>18, <1>19, <1>20, <1>21
     DEF Next, StreamStep, RequestStep, UserStep

(* No step takes a run out of a terminal status behind everyone's back.    *)
LEMMA QuiescentStep ==
    ASSUME TypeOK, WellLinked, Next, NEW r \in Runs, status[r] \in Terminal, Quiet(r)
    PROVE  status'[r] = status[r]
<1> USE NullsAssumption DEF TypeOK, WellLinked, Quiet, Terminal, Alive, InFlight, vars, rows,
            streamData, streams, gates, requestData, requests, history
<1>1. ASSUME NEW s \in Streams, FindActiveRun(s) PROVE status'[r] = status[r]
  BY <1>1
     DEF FindActiveRun
<1>2. ASSUME NEW s \in Streams, StartRunner(s) PROVE status'[r] = status[r]
  BY <1>2
     DEF StartRunner, MakeRun, GoTo
<1>3. ASSUME NEW s \in Streams, MakeQueuedRun(s) PROVE status'[r] = status[r]
  BY <1>3
     DEF MakeQueuedRun, MakeRun, GoTo
<1>4. ASSUME NEW s \in Streams, EnqueuePrivateChat(s) PROVE status'[r] = status[r]
  BY <1>4
     DEF EnqueuePrivateChat, GoTo
<1>5. ASSUME NEW s \in Streams, DrainQueued(s) PROVE status'[r] = status[r]
  BY <1>5
     DEF DrainQueued, GoTo, Interrupt
<1>6. ASSUME NEW s \in Streams, RunnerInterrupt(s) PROVE status'[r] = status[r]
  BY <1>6
     DEF RunnerInterrupt, Interrupt
<1>7. ASSUME NEW s \in Streams, RunnerAskUser(s) PROVE status'[r] = status[r]
  BY <1>7
     DEF RunnerAskUser, Interrupt
<1>8. ASSUME NEW s \in Streams, RunnerFinish(s) PROVE status'[r] = status[r]
  BY <1>8
     DEF RunnerFinish
<1>9. ASSUME NEW s \in Streams, CreateApproval(s) PROVE status'[r] = status[r]
  BY <1>9
     DEF CreateApproval, GoTo
<1>10. ASSUME NEW s \in Streams, UpdateRunStatusRead(s) PROVE status'[r] = status[r]
  BY <1>10
     DEF UpdateRunStatusRead
<1>11. ASSUME NEW s \in Streams, UpdateRunStatusWrite(s) PROVE status'[r] = status[r]
  BY <1>11
     DEF UpdateRunStatusWrite, GoTo
<1>12. ASSUME NEW s \in Streams, Disconnect(s) PROVE status'[r] = status[r]
  BY <1>12
     DEF Disconnect, GoTo, Alive
<1>13. ASSUME NEW q \in Requests, DecideCheck(q) PROVE status'[r] = status[r]
  BY <1>13
     DEF DecideCheck, Accept
<1>14. ASSUME NEW q \in Requests, DecideCommit(q) PROVE status'[r] = status[r]
  BY <1>14
     DEF DecideCommit
<1>15. ASSUME NEW q \in Requests, AnswerRun(q) PROVE status'[r] = status[r]
  BY <1>15
     DEF AnswerRun, Accept
<1>16. ASSUME NEW q \in Requests, CompleteCheck(q) PROVE status'[r] = status[r]
  BY <1>16
     DEF CompleteCheck, Accept
<1>17. ASSUME NEW q \in Requests, CompleteCommit(q) PROVE status'[r] = status[r]
  BY <1>17
     DEF CompleteCommit
<1>18. ASSUME NEW q \in Requests, ResumeStart(q) PROVE status'[r] = status[r]
  BY <1>18
     DEF ResumeStart
<1>19. ASSUME NEW q \in Requests, ResumeEnd(q) PROVE status'[r] = status[r]
  BY <1>19
     DEF ResumeEnd, Interrupt
<1>20. CASE Restart
  BY <1>20
     DEF Restart, Alive, InFlight, Orphans
<1> QED
  BY <1>1, <1>2, <1>3, <1>4, <1>5, <1>6, <1>7, <1>8, <1>9, <1>10, <1>11,
     <1>12, <1>13, <1>14, <1>15, <1>16, <1>17, <1>18, <1>19, <1>20
     DEF Next, StreamStep, RequestStep, UserStep

(* A call whose approval row is yet to be inserted belongs to one stream   *)
(* and has none, and who found a call's approval pending finds a row.      *)
ApprovalInv ==
    /\ \A s \in Streams : pc[s] = "event" => approval[callOf[s]] = "none"
    /\ \A s, o \in Streams :
         pc[s] = "event" /\ pc[o] = "event" /\ callOf[s] = callOf[o] => s = o
    /\ \A q \in Requests :
         rpc[q] = "checked" /\ kind[q] \in {"approved", "denied"}
         => approval[about[q]] # "none"

(* A call is interrupted once, and its row inserted by that stream alone.  *)
LEMMA ApprovalStep ==
    TypeOK /\ WellLinked /\ ApprovalInv /\ [Next]_vars => ApprovalInv'
<1> SUFFICES ASSUME TypeOK, WellLinked, ApprovalInv, [Next]_vars
             PROVE  ApprovalInv'
  OBVIOUS
<1> USE NullsAssumption DEF TypeOK, WellLinked, ApprovalInv, vars, rows, streamData,
                            streams, gates, requestData, requests, history
<1>1. ASSUME UNCHANGED <<approval, rpc, kind, about>>,
             \A s \in Streams :
               pc'[s] = "event" => pc[s] = "event" /\ callOf'[s] = callOf[s]
      PROVE  ApprovalInv'
  BY <1>1
<1>2. ASSUME NEW s \in Streams,
             \/ FindActiveRun(s) \/ StartRunner(s) \/ MakeQueuedRun(s)
             \/ EnqueuePrivateChat(s) \/ DrainQueued(s) \/ RunnerAskUser(s)
             \/ RunnerFinish(s) \/ UpdateRunStatusRead(s)
             \/ UpdateRunStatusWrite(s) \/ Disconnect(s)
      PROVE  ApprovalInv'
  <2>1. UNCHANGED <<approval, rpc, kind, about>>
    BY <1>2 DEF FindActiveRun, StartRunner, MakeQueuedRun, EnqueuePrivateChat,
                DrainQueued, RunnerAskUser, RunnerFinish, UpdateRunStatusRead,
                UpdateRunStatusWrite, Disconnect
  <2>2. CASE FindActiveRun(s) \/ RunnerFinish(s) \/ UpdateRunStatusRead(s)
    BY <1>1, <2>1, <2>2 DEF FindActiveRun, RunnerFinish, UpdateRunStatusRead
  <2>3. CASE RunnerAskUser(s)
    BY <1>1, <2>1, <2>3 DEF RunnerAskUser
  <2>4. CASE \/ StartRunner(s) \/ MakeQueuedRun(s) \/ EnqueuePrivateChat(s)
             \/ DrainQueued(s) \/ UpdateRunStatusWrite(s) \/ Disconnect(s)
    <3>1. callOf' = callOf /\ \A o \in Streams : pc'[o] = "event" => pc[o] = "event"
      BY <2>4 DEF StartRunner, MakeQueuedRun, EnqueuePrivateChat, DrainQueued,
                  UpdateRunStatusWrite, Disconnect, GoTo
    <3> QED
      BY <1>1, <2>1, <3>1
  <2> QED
    BY <1>2, <2>2, <2>3, <2>4
<1>3. ASSUME NEW s \in Streams, RunnerInterrupt(s) PROVE ApprovalInv'
  <2>1. PICK c \in Calls : callRun[c] = NoRun /\ callOf' = [callOf EXCEPT ![s] = c]
    BY <1>3 DEF RunnerInterrupt, Interrupt
  <2>2. approval[c] = "none" /\ \A o \in Streams : pc[o] = "event" => callOf[o] # c
    BY <2>1
  <2> QED
    BY <1>3, <2>1, <2>2 DEF RunnerInterrupt
<1>4. ASSUME NEW s \in Streams, CreateApproval(s) PROVE ApprovalInv'
  BY <1>4 DEF CreateApproval, GoTo
<1>5. ASSUME NEW q \in Requests, DecideCheck(q) PROVE ApprovalInv'
  BY <1>5 DEF DecideCheck, Accept
<1>6. ASSUME NEW q \in Requests, DecideCommit(q) PROVE ApprovalInv'
  BY <1>6 DEF DecideCommit
<1>7. ASSUME NEW q \in Requests, AnswerRun(q) \/ CompleteCheck(q) PROVE ApprovalInv'
  BY <1>7 DEF AnswerRun, CompleteCheck, Accept
<1>8. ASSUME NEW q \in Requests, CompleteCommit(q) PROVE ApprovalInv'
  BY <1>8 DEF CompleteCommit
<1>9. ASSUME NEW q \in Requests, ResumeStart(q) \/ ResumeEnd(q) PROVE ApprovalInv'
  BY <1>9 DEF ResumeStart, ResumeEnd
<1>10. CASE Restart
  BY <1>10 DEF Restart, Alive, InFlight
<1>11. CASE UNCHANGED vars
  BY <1>11
<1> QED
  BY <1>2, <1>3, <1>4, <1>5, <1>6, <1>7, <1>8, <1>9, <1>10, <1>11
     DEF Next, StreamStep, RequestStep, UserStep

(* A settled decision stays settled: only a pending approval is taken up.  *)
LEMMA SettledStep ==
    ASSUME TypeOK, WellLinked, ApprovalInv, [Next]_vars,
           NEW c \in Calls, NEW d \in {"approved", "denied"}, Settled(c, d)
    PROVE  Settled(c, d)'
<1> USE NullsAssumption DEF TypeOK, WellLinked, ApprovalInv, Settled, vars, rows, streamData,
                            streams, gates, requestData, requests, history
<1>1. ASSUME NEW s \in Streams,
             \/ FindActiveRun(s) \/ StartRunner(s) \/ MakeQueuedRun(s)
             \/ EnqueuePrivateChat(s) \/ DrainQueued(s) \/ RunnerInterrupt(s)
             \/ RunnerAskUser(s) \/ RunnerFinish(s) \/ UpdateRunStatusRead(s)
             \/ UpdateRunStatusWrite(s) \/ Disconnect(s)
      PROVE  Settled(c, d)'
  <2>1. UNCHANGED <<approval, rpc, about>>
    BY <1>1 DEF FindActiveRun, StartRunner, MakeQueuedRun, EnqueuePrivateChat,
                DrainQueued, RunnerInterrupt, RunnerAskUser, RunnerFinish,
                UpdateRunStatusRead, UpdateRunStatusWrite, Disconnect
  <2> QED
    BY <2>1
<1>2. ASSUME NEW s \in Streams, CreateApproval(s) PROVE Settled(c, d)'
  BY <1>2 DEF CreateApproval, GoTo
<1>3. ASSUME NEW q \in Requests, DecideCheck(q) PROVE Settled(c, d)'
  BY <1>3 DEF DecideCheck, Accept
<1>4. ASSUME NEW q \in Requests, DecideCommit(q) PROVE Settled(c, d)'
  BY <1>4 DEF DecideCommit
<1>5. ASSUME NEW q \in Requests, AnswerRun(q) \/ CompleteCheck(q)
      PROVE  Settled(c, d)'
  BY <1>5 DEF AnswerRun, CompleteCheck, Accept
<1>6. ASSUME NEW q \in Requests, CompleteCommit(q) PROVE Settled(c, d)'
  BY <1>6 DEF CompleteCommit
<1>7. ASSUME NEW q \in Requests, ResumeStart(q) \/ ResumeEnd(q)
      PROVE  Settled(c, d)'
  BY <1>7 DEF ResumeStart, ResumeEnd
<1>8. CASE Restart
  BY <1>8 DEF Restart, InFlight
<1>9. CASE UNCHANGED vars
  BY <1>9
<1> QED
  BY <1>1, <1>2, <1>3, <1>4, <1>5, <1>6, <1>7, <1>8, <1>9
     DEF Next, StreamStep, RequestStep, UserStep

-----------------------------------------------------------------------------
(* The invariant the theorems rest on. *)
IInv == /\ TypeOK
        /\ WellLinked
        /\ ReleaseNeedsGrant
        /\ LockHolderIsResuming
        /\ OwnedInv
        /\ EarnedInv
        /\ ApprovalInv

(* The strengthened invariant holds in every reachable state. *)
LEMMA Invariance == Spec => []IInv
<1>1. Init => IInv
  BY NullsAssumption, BoundsAssumption
     DEF Init, IInv, TypeOK, WellLinked, ReleaseNeedsGrant, LockHolderIsResuming,
         OwnedInv, EarnedInv, ApprovalInv, StatusIsEarned, Status, Active, Terminal, Decision,
         StreamPC, Outcome, RequestPC, Kind
<1>2. IInv /\ [Next]_vars => IInv'
  BY TypeStep, LinkStep, ReleaseStep, LockStep, OwnedStep, EarnedStep, ApprovalStep
  DEF IInv
<1> QED
  BY <1>1, <1>2, PTL DEF Spec

(* Every variable of every behaviour has the type TypeOK gives it.         *)
THEOREM TypeCorrect == Spec => []TypeOK
  BY Invariance, PTL DEF IInv

(* The rows and the data the handlers carry stay linked, whatever commits  *)
(* between a handler's read and its write.                                 *)
THEOREM LinksHold == Spec => []WellLinked
  BY Invariance, PTL DEF IInv

(* No interrupted call is resumed as approved in a run for which no        *)
(* approve was ever committed.                                             *)
THEOREM NoReleaseWithoutGrant == Spec => []ReleaseNeedsGrant
  BY Invariance, PTL DEF IInv

(* A run shown as running has a stream, had one that was cut off, or was   *)
(* reused by a message deferred to the private worker.                     *)
THEOREM RunningHasOwner == Spec => []RunningIsOwned
<1>1. OwnedInv => RunningIsOwned
  BY DEF OwnedInv, RunningIsOwned
<1> QED
  BY <1>1, Invariance, PTL DEF IInv

(* Every settled status rests on an outcome, a completion or a restart.    *)
THEOREM StatusEarned == Spec => []StatusIsEarned
  BY Invariance, PTL DEF IInv, EarnedInv

(* A lock on a run's row belongs to a resume task at work on that run.     *)
THEOREM LocksAreHeldByResumes == Spec => []LockHolderIsResuming
  BY Invariance, PTL DEF IInv

(* A terminal status with nothing in flight is final.                      *)
THEOREM TerminalStaysQuiet == Spec => QuiescentTerminalIsFinal
<1>1. IInv /\ [Next]_vars =>
        [\A r \in Runs : status[r] \in Terminal /\ Quiet(r) => status'[r] = status[r]]_vars
  BY QuiescentStep DEF IInv
<1> QED
  BY <1>1, Invariance, PTL DEF Spec, QuiescentTerminalIsFinal

(* Whatever follows it, a decision that no request raced with stands.      *)
THEOREM DecisionsStand == Spec => SettledDecisionStands
<1>1. ASSUME NEW c \in Calls, NEW d \in {"approved", "denied"}
      PROVE  Spec => [](Settled(c, d) => [](approval[c] = d))
  <2>1. IInv /\ Settled(c, d) /\ [Next]_vars => Settled(c, d)'
    BY SettledStep DEF IInv
  <2>2. Settled(c, d) => approval[c] = d
    BY DEF Settled
  <2> QED
    BY <2>1, <2>2, Invariance, PTL DEF Spec
<1> QED
  BY <1>1 DEF SettledDecisionStands

-----------------------------------------------------------------------------
(* The only interrupt its run has had. *)
OnlyInterrupt(c) == \A o \in Calls : callRun[o] = callRun[c] => o = c

(* The call that runs is the one the user approved as long as its run has  *)
(* been interrupted only once: whatever races, ReleaseMatchesGrant fails   *)
(* by a further interrupt of the same run alone (_resume_graph hands the   *)
(* decision to whatever the run is parked on).                             *)
THEOREM OneInterruptIsSafe ==
    Spec => [](\A p \in released : OnlyInterrupt(p[1]) => p[1] \in granted)
<1>1. TypeOK /\ ReleaseNeedsGrant =>
        \A p \in released : OnlyInterrupt(p[1]) => p[1] \in granted
  BY DEF TypeOK, ReleaseNeedsGrant, OnlyInterrupt
<1> QED
  BY <1>1, Invariance, PTL DEF IInv

(* How far a stream and a request have come. *)
StreamRank(p) ==
    CASE p = "idle" -> 0
      [] p \in {"found", "private"} -> 1
      [] p \in {"graph", "enqueue"} -> 2
      [] p = "event" -> 3
      [] p = "settle" -> 4
      [] p = "write" -> 5
      [] p = "queued" -> 6
      [] OTHER -> 7

RequestRank(p) ==
    CASE p = "idle" -> 0
      [] p = "checked" -> 1
      [] p = "scheduled" -> 2
      [] p = "resuming" -> 3
      [] OTHER -> 4

StreamsAdvance(moves) ==
    /\ \A s \in Streams : pc'[s] # pc[s] => StreamRank(pc'[s]) > StreamRank(pc[s])
    /\ moves => \E s \in Streams : pc'[s] # pc[s]

RequestsAdvance(moves) ==
    /\ \A q \in Requests : rpc'[q] # rpc[q] => RequestRank(rpc'[q]) > RequestRank(rpc[q])
    /\ moves => \E q \in Requests : rpc'[q] # rpc[q]

(* A step moves a stream or a request on, or is a restart; none goes back. *)
WorkAdvances ==
    /\ StreamsAdvance(FALSE) /\ RequestsAdvance(FALSE)
    /\ \/ StreamsAdvance(TRUE)
       \/ RequestsAdvance(TRUE)
       \/ restarts' = restarts + 1

(* A step of a stream takes that stream on, and no request.               *)
LEMMA StreamStepAdvances ==
    ASSUME TypeOK, NEW s \in Streams,
           StreamStep(s) \/ DrainQueued(s) \/ FindActiveRun(s) \/ Disconnect(s)
    PROVE  StreamsAdvance(TRUE) /\ UNCHANGED rpc
<1>1. pc[s] \in StreamPC /\ DOMAIN pc = Streams
  BY DEF TypeOK
<1>2. UNCHANGED rpc
  BY DEF StreamStep, StartRunner, MakeQueuedRun, EnqueuePrivateChat, RunnerInterrupt, RunnerAskUser,
         RunnerFinish, CreateApproval, UpdateRunStatusRead, UpdateRunStatusWrite, DrainQueued,
         FindActiveRun, Disconnect, requests
<1> DEFINE Goes(from, to) == pc[s] = from /\ pc' = [pc EXCEPT ![s] = to]
<1>3. PICK p : pc' = [pc EXCEPT ![s] = p] /\ StreamRank(p) > StreamRank(pc[s])
  <2>1. CASE FindActiveRun(s)
    <3>1. Goes("idle", "found") \/ Goes("idle", "private")
      BY <2>1 DEF FindActiveRun
    <3> QED
      BY <3>1 DEF StreamRank
  <2>2. CASE Disconnect(s)
    <3>1. pc[s] \in Alive /\ pc' = [pc EXCEPT ![s] = "gone"]
      BY <2>2 DEF Disconnect, GoTo
    <3>2. StreamRank("gone") = 7 /\ StreamRank(pc[s]) \in 1 .. 5
      BY <3>1 DEF StreamRank, Alive
    <3>3. StreamRank("gone") > StreamRank(pc[s])
      BY <3>2
    <3> QED
      BY <3>1, <3>3, Zenon
  <2>3. CASE StreamStep(s) \/ DrainQueued(s)
    <3>1. \/ Goes("found", "graph") \/ Goes("private", "enqueue")
          \/ Goes("enqueue", "queued") \/ Goes("enqueue", "lost") \/ Goes("queued", "drained")
          \/ Goes("graph", "event") \/ Goes("graph", "settle") \/ Goes("event", "settle")
          \/ Goes("settle", "write") \/ Goes("write", "ended")
          \/ Goes("write", "gone")
      BY <2>3 DEF StreamStep, StartRunner, MakeQueuedRun, EnqueuePrivateChat, RunnerInterrupt,
                  RunnerAskUser, RunnerFinish, CreateApproval, UpdateRunStatusRead,
                  UpdateRunStatusWrite, DrainQueued, GoTo
    <3> QED
      BY <3>1 DEF StreamRank
  <2> QED
    BY <2>1, <2>2, <2>3
<1>4. pc'[s] = p /\ p # pc[s] /\ \A o \in Streams : o # s => pc'[o] = pc[o]
  <2>1. StreamRank(pc[s]) \in Nat
    BY DEF StreamRank
  <2> QED
    BY <1>1, <1>3, <2>1
<1> QED
  BY <1>2, <1>3, <1>4 DEF StreamsAdvance

(* A step of a request takes that request on, and no stream.              *)
LEMMA RequestStepAdvances ==
    ASSUME TypeOK, NEW q \in Requests,
           RequestStep(q) \/ DecideCheck(q) \/ AnswerRun(q) \/ CompleteCheck(q)
    PROVE  RequestsAdvance(TRUE) /\ UNCHANGED pc
<1>1. rpc[q] \in RequestPC /\ DOMAIN rpc = Requests
  BY DEF TypeOK
<1>2. UNCHANGED pc
  BY DEF RequestStep, DecideCommit, CompleteCommit, ResumeStart, ResumeEnd, DecideCheck, AnswerRun,
         CompleteCheck, Accept, streams
<1>3. PICK p : rpc' = [rpc EXCEPT ![q] = p] /\ RequestRank(p) > RequestRank(rpc[q])
  BY <1>1 DEF RequestStep, DecideCommit, CompleteCommit, ResumeStart, ResumeEnd, DecideCheck, AnswerRun,
         CompleteCheck, Accept, RequestRank, RequestPC
<1>4. rpc'[q] = p /\ p # rpc[q] /\ \A o \in Requests : o # q => rpc'[o] = rpc[o]
  <2>1. RequestRank(rpc[q]) \in Nat
    BY DEF RequestRank
  <2> QED
    BY <1>1, <1>3, <2>1
<1> QED
  BY <1>2, <1>3, <1>4 DEF RequestsAdvance

(* No interleaving sends a stream or a request back, and each step moves   *)
(* one on unless it is a restart: a thread's work is over after at most    *)
(* 7 steps of each message, 4 of each request and MaxRestarts restarts, so *)
(* only waiting can keep StreamsEnd and RequestsEnd from holding, and a    *)
(* row is only waited for while a resume task is at work on it.            *)
THEOREM WorkIsBounded == Spec => [][WorkAdvances]_vars
<1>1. ASSUME TypeOK, Next PROVE WorkAdvances
  <2>1. CASE \E s \in Streams : StreamStep(s) \/ DrainQueued(s) \/ FindActiveRun(s) \/ Disconnect(s)
    <3>1. StreamsAdvance(TRUE) /\ UNCHANGED rpc
      BY <1>1, <2>1, StreamStepAdvances
    <3> QED
      BY <3>1 DEF WorkAdvances, StreamsAdvance, RequestsAdvance
  <2>2. CASE \E q \in Requests : RequestStep(q) \/ DecideCheck(q) \/ AnswerRun(q) \/ CompleteCheck(q)
    <3>1. RequestsAdvance(TRUE) /\ UNCHANGED pc
      BY <1>1, <2>2, RequestStepAdvances
    <3> QED
      BY <3>1 DEF WorkAdvances, StreamsAdvance, RequestsAdvance
  <2>3. CASE Restart
    <3>1. /\ \A s \in Streams : pc'[s] # pc[s] => pc[s] \in Alive /\ pc'[s] = "gone"
          /\ \A q \in Requests : rpc'[q] # rpc[q] => rpc[q] \in InFlight /\ rpc'[q] = "lost"
          /\ restarts' = restarts + 1
      BY <2>3 DEF Restart
    <3> QED
      BY <3>1 DEF WorkAdvances, StreamsAdvance, RequestsAdvance, StreamRank, RequestRank, Alive, InFlight
  <2> QED
    BY <1>1, <2>1, <2>2, <2>3 DEF Next, UserStep
<1>2. TypeOK /\ [Next]_vars => [WorkAdvances]_vars
  BY <1>1
<1> QED
  BY <1>2, Invariance, PTL DEF Spec, IInv

-----------------------------------------------------------------------------
(* Run r has been served by one stream only, and no request has decided or *)
(* answered anything in it.                                                *)
Undisturbed(r) ==
    /\ \A s, o \in Streams : runOf[s] = r /\ runOf[o] = r => s = o
    /\ \A q \in Requests : target[q] = r => kind[q] = "complete"
    /\ restarts = 0

(* A stream has an outcome after its graph only, and one that was asked    *)
(* leaves its run parked; a request completes or resumes; neither has a    *)
(* run before it is made.                                                  *)
ParkedInv ==
    /\ \A s \in Streams :
          pc[s] \in Deferred \cup {"idle", "found", "graph"} => outcome[s] = "none"
    /\ \A s \in Streams : pc[s] = "idle" => runOf[s] = NoRun
    /\ \A q \in Requests : rpc[q] = "idle" => target[q] = NoRun
    /\ \A q \in Requests : rpc[q] \in {"scheduled", "resuming"} => kind[q] # "complete"
    /\ \A s \in Streams :
          outcome[s] = "asked" /\ Undisturbed(runOf[s]) => parked[runOf[s]] # NoCall

(* Only a disturbance takes the interrupt from a run that was asked.      *)
LEMMA ParkedStep == TypeOK /\ WellLinked /\ ParkedInv /\ [Next]_vars => ParkedInv'
<1> SUFFICES ASSUME TypeOK, WellLinked, ParkedInv, [Next]_vars
             PROVE  ParkedInv'
  OBVIOUS
<1> USE NullsAssumption DEF TypeOK, WellLinked, ParkedInv, Undisturbed, Deferred, vars, rows,
            streamData, streams, gates, requestData, requests, history
<1>1. ASSUME NEW s \in Streams, FindActiveRun(s) PROVE ParkedInv'
  <2>1. /\ \A o \in Streams \ {s} : runOf'[o] = runOf[o] /\ pc'[o] = pc[o]
        /\ pc'[s] \in {"found", "private"} /\ outcome[s] = "none" /\ runOf[s] = NoRun
        /\ UNCHANGED <<outcome, target, kind, rpc, restarts, parked>>
    BY <1>1 DEF FindActiveRun
  <2>2. ASSUME NEW o \in Streams, outcome[o] = "asked", Undisturbed(runOf[o])'
        PROVE  parked[runOf[o]] # NoCall
    <3>1. o # s /\ runOf[o] \in Runs /\ runOf'[o] = runOf[o]
      BY <2>1, <2>2
    <3>2. Undisturbed(runOf[o])
      BY <2>1, <2>2, <3>1
    <3> QED
      BY <2>2, <3>2
  <2>3. \A o \in Streams : outcome'[o] = "asked" /\ Undisturbed(runOf[o])'
                            => parked'[runOf'[o]] # NoCall
    BY <2>1, <2>2
  <2> QED
    BY <2>1, <2>3
<1>2. ASSUME NEW s \in Streams, StartRunner(s) PROVE ParkedInv'
  BY <1>2
     DEF StartRunner, MakeRun, GoTo
<1>3. ASSUME NEW s \in Streams, MakeQueuedRun(s) PROVE ParkedInv'
  BY <1>3
     DEF MakeQueuedRun, MakeRun, GoTo
<1>4. ASSUME NEW s \in Streams, EnqueuePrivateChat(s) PROVE ParkedInv'
  BY <1>4
     DEF EnqueuePrivateChat, GoTo
<1>5. ASSUME NEW s \in Streams, DrainQueued(s) PROVE ParkedInv'
  BY <1>5
     DEF DrainQueued, GoTo, Interrupt
<1>6. ASSUME NEW s \in Streams, RunnerInterrupt(s) PROVE ParkedInv'
  BY <1>6
     DEF RunnerInterrupt, Interrupt
<1>7. ASSUME NEW s \in Streams, RunnerAskUser(s) PROVE ParkedInv'
  BY <1>7
     DEF RunnerAskUser, Interrupt
<1>8. ASSUME NEW s \in Streams, RunnerFinish(s) PROVE ParkedInv'
  BY <1>8
     DEF RunnerFinish
<1>9. ASSUME NEW s \in Streams, CreateApproval(s) PROVE ParkedInv'
  BY <1>9
     DEF CreateApproval, GoTo
<1>10. ASSUME NEW s \in Streams, UpdateRunStatusRead(s) PROVE ParkedInv'
  BY <1>10
     DEF UpdateRunStatusRead
<1>11. ASSUME NEW s \in Streams, UpdateRunStatusWrite(s) PROVE ParkedInv'
  BY <1>11
     DEF UpdateRunStatusWrite, GoTo
<1>12. ASSUME NEW s \in Streams, Disconnect(s) PROVE ParkedInv'
  BY <1>12
     DEF Disconnect, GoTo, Alive
<1>13. ASSUME NEW q \in Requests, DecideCheck(q) PROVE ParkedInv'
  BY <1>13
     DEF DecideCheck, Accept
<1>14. ASSUME NEW q \in Requests, DecideCommit(q) PROVE ParkedInv'
  BY <1>14
     DEF DecideCommit
<1>15. ASSUME NEW q \in Requests, AnswerRun(q) PROVE ParkedInv'
  BY <1>15
     DEF AnswerRun, Accept
<1>16. ASSUME NEW q \in Requests, CompleteCheck(q) PROVE ParkedInv'
  BY <1>16
     DEF CompleteCheck, Accept
<1>17. ASSUME NEW q \in Requests, CompleteCommit(q) PROVE ParkedInv'
  BY <1>17
     DEF CompleteCommit
<1>18. ASSUME NEW q \in Requests, ResumeStart(q) PROVE ParkedInv'
  BY <1>18
     DEF ResumeStart
<1>19. ASSUME NEW q \in Requests, ResumeEnd(q) PROVE ParkedInv'
  BY <1>19
     DEF ResumeEnd, Interrupt
<1>20. CASE Restart
  BY <1>20
     DEF Restart, Alive, InFlight
<1>21. CASE UNCHANGED vars
  BY <1>21
<1> QED
  BY <1>1, <1>2, <1>3, <1>4, <1>5, <1>6, <1>7, <1>8, <1>9, <1>10, <1>11,
     <1>12, <1>13, <1>14, <1>15, <1>16, <1>17, <1>18, <1>19, <1>20, <1>21
     DEF Next, StreamStep, RequestStep, UserStep

(* A run that waits for an approval has an interrupt to resume as long as  *)
(* nothing but its stream has touched it: AwaitingIsParked fails by a      *)
(* resume, by a further message of the run or by a restart alone.          *)
THEOREM AwaitingNeedsDisturbance ==
    Spec => [](\A r \in Runs :
                  status[r] = "awaiting_approval" /\ Undisturbed(r) => parked[r] # NoCall)
<1>1. Init => ParkedInv
  BY DEF Init, ParkedInv, Deferred
<1>2. IInv /\ ParkedInv =>
        \A r \in Runs : status[r] = "awaiting_approval" /\ Undisturbed(r) => parked[r] # NoCall
  BY DEF IInv, ParkedInv, EarnedInv, StatusIsEarned
<1> QED
  BY <1>1, <1>2, ParkedStep, Invariance, PTL DEF Spec, IInv

-----------------------------------------------------------------------------
(* A message that began its run has it for itself while it is deferred: a  *)
(* queued run is not an active one, which others would take up.            *)
FirstInv ==
    \A s \in Streams : pc[s] \in Deferred /\ fresh[s] =>
        /\ status[runOf[s]] \notin Active
        /\ \A o \in Streams : runOf[o] = runOf[s] => o = s
        /\ pc[s] = "lost" => InsertsMayFail

(* No other stream takes up its run.                                       *)
LEMMA FirstStep == TypeOK /\ WellLinked /\ FirstInv /\ [Next]_vars => FirstInv'
<1> SUFFICES ASSUME TypeOK, WellLinked, FirstInv, [Next]_vars
             PROVE  FirstInv'
  OBVIOUS
<1> USE NullsAssumption DEF TypeOK, WellLinked, FirstInv, Deferred, Active, Terminal, vars, rows,
            streamData, streams, gates, requestData, requests, history
<1>1. ASSUME NEW s \in Streams, FindActiveRun(s) PROVE FirstInv'
  <2>1. PICK r \in Runs :
          /\ \/ NewestActive(r)
             \/ Unused(r) /\ (InsertsMayFail \/ \A o \in Runs : status[o] \notin Active)
          /\ runOf' = [runOf EXCEPT ![s] = r]
          /\ fresh' = [fresh EXCEPT ![s] = (status[r] = "none")]
    BY <1>1 DEF FindActiveRun
  <2>2. /\ \A o \in Streams \ {s} : runOf'[o] = runOf[o] /\ pc'[o] = pc[o] /\ fresh'[o] = fresh[o]
        /\ pc'[s] \in {"found", "private"} /\ runOf'[s] = r /\ status' = status
        /\ fresh'[s] = (status[r] = "none")
    BY <1>1, <2>1 DEF FindActiveRun
  <2>3. /\ fresh'[s] => status[r] \notin Active /\ \A o \in Streams : runOf[o] # r
        /\ \A o \in Streams : pc[o] \in Deferred /\ fresh[o] => runOf[o] # r
    BY <2>1, <2>2 DEF Unused, NewestActive
  <2> QED
    BY <2>2, <2>3
<1>2. ASSUME NEW s \in Streams, StartRunner(s) PROVE FirstInv'
  BY <1>2
     DEF StartRunner, MakeRun, GoTo
<1>3. ASSUME NEW s \in Streams, MakeQueuedRun(s) PROVE FirstInv'
  BY <1>3
     DEF MakeQueuedRun, MakeRun, GoTo
<1>4. ASSUME NEW s \in Streams, EnqueuePrivateChat(s) PROVE FirstInv'
  BY <1>4
     DEF EnqueuePrivateChat, GoTo
<1>5. ASSUME NEW s \in Streams, DrainQueued(s) PROVE FirstInv'
  BY <1>5
     DEF DrainQueued, GoTo, Interrupt
<1>6. ASSUME NEW s \in Streams, RunnerInterrupt(s) PROVE FirstInv'
  BY <1>6
     DEF RunnerInterrupt, Interrupt
<1>7. ASSUME NEW s \in Streams, RunnerAskUser(s) PROVE FirstInv'
  BY <1>7
     DEF RunnerAskUser, Interrupt
<1>8. ASSUME NEW s \in Streams, RunnerFinish(s) PROVE FirstInv'
  BY <1>8
     DEF RunnerFinish
<1>9. ASSUME NEW s \in Streams, CreateApproval(s) PROVE FirstInv'
  BY <1>9
     DEF CreateApproval, GoTo
<1>10. ASSUME NEW s \in Streams, UpdateRunStatusRead(s) PROVE FirstInv'
  BY <1>10
     DEF UpdateRunStatusRead
<1>11. ASSUME NEW s \in Streams, UpdateRunStatusWrite(s) PROVE FirstInv'
  BY <1>11
     DEF UpdateRunStatusWrite, GoTo
<1>12. ASSUME NEW s \in Streams, Disconnect(s) PROVE FirstInv'
  BY <1>12
     DEF Disconnect, GoTo, Alive
<1>13. ASSUME NEW q \in Requests, DecideCheck(q) PROVE FirstInv'
  BY <1>13
     DEF DecideCheck, Accept
<1>14. ASSUME NEW q \in Requests, DecideCommit(q) PROVE FirstInv'
  BY <1>14
     DEF DecideCommit
<1>15. ASSUME NEW q \in Requests, AnswerRun(q) PROVE FirstInv'
  BY <1>15
     DEF AnswerRun, Accept
<1>16. ASSUME NEW q \in Requests, CompleteCheck(q) PROVE FirstInv'
  BY <1>16
     DEF CompleteCheck, Accept
<1>17. ASSUME NEW q \in Requests, CompleteCommit(q) PROVE FirstInv'
  BY <1>17
     DEF CompleteCommit
<1>18. ASSUME NEW q \in Requests, ResumeStart(q) PROVE FirstInv'
  BY <1>18
     DEF ResumeStart
<1>19. ASSUME NEW q \in Requests, ResumeEnd(q) PROVE FirstInv'
  BY <1>19
     DEF ResumeEnd, Interrupt
<1>20. CASE Restart
  BY <1>20
     DEF Restart, Alive, InFlight
<1>21. CASE UNCHANGED vars
  BY <1>21
<1> QED
  BY <1>1, <1>2, <1>3, <1>4, <1>5, <1>6, <1>7, <1>8, <1>9, <1>10, <1>11,
     <1>12, <1>13, <1>14, <1>15, <1>16, <1>17, <1>18, <1>19, <1>20, <1>21
     DEF Next, StreamStep, RequestStep, UserStep

(* A deferred message that began its run reaches the durable queue unless  *)
(* the insert fails: dropped as duplicates are only later messages of a    *)
(* run that was active (submit_chat).                                      *)
THEOREM FirstMessageIsQueued ==
    Spec => [](\A s \in Streams : pc[s] = "lost" /\ fresh[s] => InsertsMayFail)
<1>1. Init => FirstInv
  BY DEF Init, FirstInv, Deferred
<1>2. FirstInv => \A s \in Streams : pc[s] = "lost" /\ fresh[s] => InsertsMayFail
  BY DEF FirstInv, Deferred
<1> QED
  BY <1>1, <1>2, FirstStep, Invariance, PTL DEF Spec, IInv
=============================================================================
