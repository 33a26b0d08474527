-------------------------- MODULE RunExecutionProofs --------------------------
(***************************************************************************)
(* Proofs about RunExecution, for every set of requests and source types   *)
(* and every lease.                                                        *)
(***************************************************************************)
EXTENDS RunExecution, TLAPS

\* The transactions that hold the row lock across an await.
Holding == {"validating", "validated", "persisted"}

\* A run is executed once, by one request.
OneAttempt ==
    /\ issued \in {0, 1}
    /\ status \in Open => issued = 0 /\ results = {}
    /\ token # NoToken => token = issued
    /\ \A r \in Requests : IF pc[r] = "idle" THEN mine[r] = NoToken /\ hb[r] = "off"
                                             ELSE mine[r] = issued /\ issued = 1
    /\ \A r, q \in Requests : pc[r] # "idle" /\ pc[q] # "idle" => r = q

\* A request that records its failure may lose the lock to a late report's rollback.
LockFollowsFrame ==
    \A r \in Requests :
        /\ pc[r] \in Holding => lock = r
        /\ lock = r => pc[r] \in Holding \cup {"recording"}
        /\ lock = r /\ pc[r] = "recording" => status = "RECONCILING" /\ token = mine[r]

\* A thread that was left behind reports for the one attempt, beside a request that
\* works no more.
LateThreads ==
    \A r \in Requests : late[r] # NoThread =>
        /\ pc[r] \in {"idle", "failing", "recording"}
        /\ late[r].attempt = issued /\ issued = 1
        /\ late[r].reports < CashPosition

\* How far a worker has come, and what it may rely on there.
Position ==
    \A r \in Requests :
        /\ pc[r] \in {"started", "validating", "validated"} => reports[r] = 0
        /\ pc[r] = "running" => reports[r] \in 1..Persistence
        /\ pc[r] = "persisted" => reports[r] = Persistence
        /\ pc[r] \in {"validated", "running", "persisted", "ai"} => Usable(files)
        /\ pc[r] \in {"running", "persisted"} /\ reports[r] >= Ingested => read[r] = files
        /\ pc[r] \in Working \ {"ai"} => results = {}
        /\ pc[r] = "ai" => results # {}

IInv ==
    /\ TypeOK
    /\ Recoverable
    /\ OneAttempt
    /\ LockFollowsFrame
    /\ LateThreads
    /\ Position
    /\ ResultMatchesEvidence
    /\ SuccessIsDurable

\* Every stage a worker reports is a stage the row may show.
LEMMA StagesType == \A n \in 1..AiAnalysis : Stages[n] \in StageNames
BY DEF StageNames, AiAnalysis

LEMMA InitInv == Init => IInv
BY NoRequestAssumption, LeaseAssumption
DEF Init, IInv, TypeOK, Recoverable, OneAttempt, LockFollowsFrame, LateThreads, Position,
    ResultMatchesEvidence, SuccessIsDurable, Holding, Working, Open, Frozen, Evidence,
    Content, NoFiles, NoToken, NoLease, StageNames, Usable, Ingested, AiAnalysis, Persistence, CashPosition, NoThread

LEMMA NextInv == IInv /\ [Next]_vars => IInv'
<1> SUFFICES ASSUME IInv, [Next]_vars PROVE IInv'
  OBVIOUS
<1> USE NoRequestAssumption, LeaseAssumption
    DEF IInv, Holding, Working, Open, Frozen, Evidence, Content, NoToken, NoLease,
        Ingested, CashPosition, Persistence, AiAnalysis, NoThread, rowVars, frameVars, taskVars, history
<1>pc. pc \in [Requests -> Working \cup {"idle", "failing", "recording"}]
  BY DEF TypeOK
<1>1. CASE AddFiles
  BY <1>1 DEF AddFiles, RowFree, Uploadable, Usable,
     TypeOK, Recoverable, OneAttempt, LockFollowsFrame, LateThreads, Position,
     ResultMatchesEvidence, SuccessIsDurable
<1>2. CASE ValidateRun
  BY <1>2 DEF ValidateRun, RowFree, Usable,
     TypeOK, Recoverable, OneAttempt, LockFollowsFrame, LateThreads, Position,
     ResultMatchesEvidence, SuccessIsDurable
<1>3. CASE Tick
  BY <1>3 DEF Tick, Countdown, Usable,
     TypeOK, Recoverable, OneAttempt, LockFollowsFrame, LateThreads, Position,
     ResultMatchesEvidence, SuccessIsDurable
<1>4. ASSUME NEW r \in Requests, ExecuteReplay(r) PROVE IInv'
  BY <1>4 DEF ExecuteReplay, Calls, RowFree, Answer, Usable,
     TypeOK, Recoverable, OneAttempt, LockFollowsFrame, LateThreads, Position,
     ResultMatchesEvidence, SuccessIsDurable
<1>5. ASSUME NEW r \in Requests, ExecuteInProgress(r) PROVE IInv'
  BY <1>5 DEF ExecuteInProgress, Calls, RowFree, Answer, Usable,
     TypeOK, Recoverable, OneAttempt, LockFollowsFrame, LateThreads, Position,
     ResultMatchesEvidence, SuccessIsDurable
<1>6. ASSUME NEW r \in Requests, ExecuteAbandon(r) PROVE IInv'
  BY <1>6 DEF ExecuteAbandon, Calls, RowFree, Answer, Release, LeaseExpired, StageNames, Usable,
     TypeOK, Recoverable, OneAttempt, LockFollowsFrame, LateThreads, Position,
     ResultMatchesEvidence, SuccessIsDurable
<1>7. ASSUME NEW r \in Requests, ExecuteFrozen(r) PROVE IInv'
  BY <1>7 DEF ExecuteFrozen, Calls, RowFree, Answer, Usable,
     TypeOK, Recoverable, OneAttempt, LockFollowsFrame, LateThreads, Position,
     ResultMatchesEvidence, SuccessIsDurable
<1>8. ASSUME NEW r \in Requests, ExecuteStart(r) PROVE IInv'
  BY <1>8 DEF ExecuteStart, Calls, RowFree, Startable, Answer, Renewal, NoFiles, StageNames, Usable,
     TypeOK, Recoverable, OneAttempt, LockFollowsFrame, LateThreads, Position,
     ResultMatchesEvidence, SuccessIsDurable
<1>9. ASSUME NEW r \in Requests, BeginValidation(r) PROVE IInv'
  BY <1>9 DEF BeginValidation, RowFree, Usable,
     TypeOK, Recoverable, OneAttempt, LockFollowsFrame, LateThreads, Position,
     ResultMatchesEvidence, SuccessIsDurable
<1>10. ASSUME NEW r \in Requests, FinishValidation(r) PROVE IInv'
  <2>a. /\ pc[r] = "validating"
        /\ \/ pc' = [pc EXCEPT ![r] = "validated"] /\ lock' = lock /\ Usable(files)
           \/ pc' = [pc EXCEPT ![r] = "failing"] /\ lock' = NoRequest
    BY <1>10 DEF FinishValidation, Rollback, Unlock, LockFollowsFrame, Usable
  <2>1. TypeOK'
    BY <1>10, <2>a DEF FinishValidation, Rollback, Unlock, Usable, TypeOK
  <2>2. Recoverable'
    BY <1>10, <2>a DEF FinishValidation, Rollback, Unlock, Usable, Recoverable, TypeOK
  <2>3. OneAttempt'
    BY <1>10, <1>pc, <2>a DEF FinishValidation, OneAttempt
  <2>4. LockFollowsFrame'
    BY <1>10, <1>pc, <2>a DEF FinishValidation, LockFollowsFrame
  <2>5. Position'
    <3>1. CASE pc' = [pc EXCEPT ![r] = "validated"] /\ Usable(files)
      BY <1>10, <2>a, <3>1 DEF FinishValidation, Position, TypeOK, OneAttempt, Usable
    <3>2. CASE pc' = [pc EXCEPT ![r] = "failing"]
      BY <1>10, <2>a, <3>2 DEF FinishValidation, Position, TypeOK, Usable
    <3>3. QED
      BY <2>a, <3>1, <3>2
  <2>6. ResultMatchesEvidence'
    BY <1>10, <2>a DEF FinishValidation, Rollback, Unlock, Usable, ResultMatchesEvidence, TypeOK, Usable
  <2>7. SuccessIsDurable'
    BY <1>10, <2>a DEF FinishValidation, Rollback, Unlock, Usable, SuccessIsDurable, TypeOK
  <2>8. LateThreads'
    BY <1>10, <2>a DEF FinishValidation, Rollback, Unlock, Usable, LateThreads, TypeOK, OneAttempt, NoThread
  <2>9. QED
    BY <2>1, <2>2, <2>3, <2>4, <2>5, <2>6, <2>7, <2>8
<1>11. ASSUME NEW r \in Requests, RecordProgress(r) PROVE IInv'
  <2>a. /\ status = "RECONCILING" /\ status' = "RECONCILING"
        /\ reports[r] + 1 \in 1..AiAnalysis
        /\ mine[r] = issued /\ token = issued
    <3>1. token = mine[r] /\ status' = TxnStatus(r) /\ TxnStatus(r) = "RECONCILING"
      BY <1>11 DEF RecordProgress, Fence
    <3>2. mine[r] = issued /\ issued = 1
      BY <1>11 DEF RecordProgress, Reporting, OneAttempt
    <3>3. reports[r] + 1 \in 1..AiAnalysis
      <4>1. Reporting(r)
        BY <1>11 DEF RecordProgress
      <4>2. reports[r] \in 0..Persistence
        BY <4>1 DEF Reporting, Position
      <4>3. QED
        BY <4>2
    <3>4. QED
      BY <3>1, <3>2, <3>3 DEF Recoverable
  <2>1. TypeOK'
    BY <1>11, <2>a, StagesType DEF RecordProgress, Reporting, CanUpdate, Fence, TxnStatus, TypeOK, Renewal, OneAttempt, Position
  <2>2. Recoverable'
    BY <1>11, <2>a DEF RecordProgress, Reporting, CanUpdate, Fence, TxnStatus, Recoverable, TypeOK, Renewal, OneAttempt
  <2>3. OneAttempt'
    BY <1>11, <2>a DEF RecordProgress, Reporting, CanUpdate, Fence, TxnStatus, OneAttempt, TypeOK
  <2>4. LockFollowsFrame'
    BY <1>11, <2>a DEF RecordProgress, Reporting, CanUpdate, Fence, TxnStatus, LockFollowsFrame, TypeOK, OneAttempt
  <2>5. Position'
    <3>1. \A q \in Requests \ {r} : pc'[q] = "idle"
      BY <1>11 DEF RecordProgress, Reporting, OneAttempt, TypeOK
    <3>2. /\ reports'[r] = reports[r] + 1
          /\ files' = files /\ Usable(files)
          /\ reports'[r] \in 1..AiAnalysis
          /\ pc'[r] = IF reports'[r] = AiAnalysis THEN "ai" ELSE "running"
      BY <1>11, <2>a DEF RecordProgress, Reporting, Position, TypeOK
    <3>3. pc'[r] = "ai" <=> pc[r] = "persisted"
      <4>1. reports[r] \in 0..AiAnalysis
        BY DEF TypeOK
      <4>2. Reporting(r) /\ (pc[r] = "validated" => reports[r] = 0)
              /\ (pc[r] = "persisted" => reports[r] = Persistence)
        BY <1>11 DEF RecordProgress, Reporting, Position
      <4>3. QED
        BY <3>2, <4>1, <4>2 DEF Reporting
    <3>4. reports'[r] >= Ingested /\ pc'[r] = "running" => read'[r] = files
      <4>1. CASE reports[r] + 1 = Ingested
        BY <1>11, <4>1 DEF RecordProgress, TypeOK
      <4>2. CASE reports[r] >= Ingested
        BY <1>11, <3>3, <4>2 DEF RecordProgress, Reporting, Position, TypeOK
      <4>3. reports[r] \in 0..AiAnalysis
        BY DEF TypeOK
      <4>4. QED
        BY <3>2, <4>1, <4>2, <4>3
    <3>5. IF pc'[r] = "ai" THEN results' # {} ELSE results' = {}
      BY <1>11, <3>2, <3>3 DEF RecordProgress, Reporting, Position
    <3>6. QED
      BY <3>1, <3>2, <3>3, <3>4, <3>5 DEF Position, Usable
  <2>6. ResultMatchesEvidence'
    BY <1>11, <2>a DEF RecordProgress, Reporting, CanUpdate, Fence, TxnStatus, ResultMatchesEvidence, TypeOK, OneAttempt, Position, Usable
  <2>7. SuccessIsDurable'
    BY <1>11, <2>a DEF RecordProgress, Reporting, CanUpdate, Fence, TxnStatus, SuccessIsDurable, TypeOK, OneAttempt
  <2>8. LateThreads'
    BY <1>11, <2>a DEF RecordProgress, Reporting, CanUpdate, Fence, TxnStatus, LateThreads, TypeOK, OneAttempt, NoThread
  <2>9. QED
    BY <2>1, <2>2, <2>3, <2>4, <2>5, <2>6, <2>7, <2>8
<1>12. ASSUME NEW r \in Requests, PersistResult(r) PROVE IInv'
  <2>a. /\ pc[r] = "running" /\ reports[r] = Persistence /\ lock = NoRequest
        /\ \/ results = {} /\ pc' = [pc EXCEPT ![r] = "persisted"] /\ lock' = r
           \/ pc' = [pc EXCEPT ![r] = "failing"] /\ lock' = NoRequest
    BY <1>12 DEF PersistResult, RowFree, Rollback, Unlock
  <2>1. TypeOK'
    BY <1>12, <2>a DEF PersistResult, RowFree, Rollback, Unlock, TypeOK
  <2>2. Recoverable'
    BY <1>12, <2>a DEF PersistResult, RowFree, Rollback, Unlock, Recoverable, TypeOK
  <2>3. OneAttempt'
    BY <1>12, <1>pc, <2>a DEF PersistResult, OneAttempt
  <2>4. LockFollowsFrame'
    BY <1>12, <1>pc, <2>a DEF PersistResult, LockFollowsFrame
  <2>5. Position'
    BY <1>12, <2>a DEF PersistResult, RowFree, Rollback, Unlock, Position, TypeOK, OneAttempt, Usable
  <2>6. ResultMatchesEvidence'
    BY <1>12, <2>a DEF PersistResult, RowFree, Rollback, Unlock, ResultMatchesEvidence, TypeOK, Usable
  <2>7. SuccessIsDurable'
    BY <1>12, <2>a DEF PersistResult, RowFree, Rollback, Unlock, SuccessIsDurable, TypeOK
  <2>8. LateThreads'
    BY <1>12, <2>a DEF PersistResult, RowFree, Rollback, Unlock, LateThreads, TypeOK, OneAttempt, NoThread
  <2>9. QED
    BY <2>1, <2>2, <2>3, <2>4, <2>5, <2>6, <2>7, <2>8
<1>13. ASSUME NEW r \in Requests, Complete(r) PROVE IInv'
  BY <1>13 DEF Complete, RowFree, Fence, TxnStatus, Release, Finish, Answer, StageNames, Usable,
     TypeOK, Recoverable, OneAttempt, LockFollowsFrame, LateThreads, Position,
     ResultMatchesEvidence, SuccessIsDurable
<1>14. ASSUME NEW r \in Requests, LeaseLost(r) PROVE IInv'
  BY <1>14 DEF LeaseLost, Reporting, CanUpdate, Rollback, Unlock, Usable,
     TypeOK, Recoverable, OneAttempt, LockFollowsFrame, LateThreads, Position,
     ResultMatchesEvidence, SuccessIsDurable
<1>15. ASSUME NEW r \in Requests, RecordFailure(r) PROVE IInv'
  <2>1. CASE Fence(r, mine[r])
    <3>a. /\ status = "RECONCILING" /\ token = mine[r]
          /\ mine[r] = issued /\ issued = 1
      BY <1>15, <2>1 DEF RecordFailure, Fence, TxnStatus, OneAttempt
    <3>1. TypeOK'
      BY <1>15, <2>1, <3>a DEF RecordFailure, RowFree, TypeOK
    <3>2. Recoverable'
      BY <1>15, <2>1, <3>a DEF RecordFailure, RowFree, Recoverable, TypeOK
    <3>3. OneAttempt'
      BY <1>15, <2>1, <3>a DEF RecordFailure, RowFree, OneAttempt, TypeOK
    <3>4. LockFollowsFrame'
      BY <1>15, <2>1, <3>a DEF RecordFailure, RowFree, LockFollowsFrame, TypeOK
    <3>5. LateThreads'
      BY <1>15, <2>1, <3>a DEF RecordFailure, RowFree, LateThreads, TypeOK
    <3>6. Position'
      BY <1>15, <2>1, <3>a DEF RecordFailure, RowFree, Position, TypeOK, OneAttempt, Usable
    <3>7. ResultMatchesEvidence'
      BY <1>15, <2>1, <3>a DEF RecordFailure, RowFree, ResultMatchesEvidence, TypeOK, Usable
    <3>8. SuccessIsDurable'
      BY <1>15, <2>1, <3>a DEF RecordFailure, RowFree, SuccessIsDurable, TypeOK
    <3>9. QED
      BY <3>1, <3>2, <3>3, <3>4, <3>5, <3>6, <3>7, <3>8
  <2>2. CASE ~Fence(r, mine[r])
    <3>a. /\ pc' = [pc EXCEPT ![r] = "idle"]
          /\ mine' = [mine EXCEPT ![r] = NoToken]
          /\ hb' = [hb EXCEPT ![r] = "off"]
          /\ hbLease' = [hbLease EXCEPT ![r] = 0]
          /\ reply' = [reply EXCEPT ![r] = "error"]
          /\ lock = NoRequest
          /\ UNCHANGED <<rowVars, lock, late, reports, read, history>>
      BY <1>15, <2>2 DEF RecordFailure, RowFree, Finish, Answer
    <3>1. TypeOK'
      BY <1>15, <3>a DEF RecordFailure, TypeOK
    <3>2. Recoverable'
      BY <1>15, <3>a DEF RecordFailure, Recoverable, TypeOK
    <3>3. OneAttempt'
      BY <1>15, <3>a DEF RecordFailure, OneAttempt, TypeOK
    <3>4. LockFollowsFrame'
      BY <1>15, <3>a DEF RecordFailure, LockFollowsFrame, TypeOK
    <3>5. LateThreads'
      BY <1>15, <3>a DEF RecordFailure, LateThreads, TypeOK, OneAttempt
    <3>6. Position'
      BY <1>15, <3>a DEF RecordFailure, Position, TypeOK, Usable
    <3>7. ResultMatchesEvidence'
      BY <1>15, <3>a DEF RecordFailure, ResultMatchesEvidence, TypeOK, Usable
    <3>8. SuccessIsDurable'
      BY <1>15, <3>a DEF RecordFailure, SuccessIsDurable, TypeOK
    <3>9. QED
      BY <3>1, <3>2, <3>3, <3>4, <3>5, <3>6, <3>7, <3>8
  <2>3. QED
    BY <2>1, <2>2
<1>16. ASSUME NEW r \in Requests, WorkerRaises(r) PROVE IInv'
  BY <1>16 DEF WorkerRaises, Rollback, Unlock, Usable,
     TypeOK, Recoverable, OneAttempt, LockFollowsFrame, LateThreads, Position,
     ResultMatchesEvidence, SuccessIsDurable
<1>17. ASSUME NEW r \in Requests, Crash(r) PROVE IInv'
  BY <1>17 DEF Crash, Unlock, Finish, Answer, Usable,
     TypeOK, Recoverable, OneAttempt, LockFollowsFrame, LateThreads, Position,
     ResultMatchesEvidence, SuccessIsDurable
<1>18. ASSUME NEW r \in Requests, HeartbeatWake(r) PROVE IInv'
  BY <1>18 DEF HeartbeatWake, Renewal, Usable,
     TypeOK, Recoverable, OneAttempt, LockFollowsFrame, LateThreads, Position,
     ResultMatchesEvidence, SuccessIsDurable
<1>19. ASSUME NEW r \in Requests, HeartbeatWrite(r) PROVE IInv'
  <2>a. /\ lease' \in {lease, hbLease[r]}
        /\ hb' \in [Requests -> {"off", "sleeping", "writing"}]
        /\ lease' \in NoLease..Lease
    <3>1. /\ hb \in [Requests -> {"off", "sleeping", "writing"}] /\ lease \in NoLease..Lease
          /\ hbLease[r] \in 0..Lease
      BY DEF TypeOK
    <3>2. QED
      BY <1>19, <3>1 DEF HeartbeatWrite, HeartbeatFence
  <2>b. silence' \in 0..Lease
    <3>1. hbLease[r] \in 0..Lease /\ silence \in 0..Lease
      BY DEF TypeOK
    <3>2. silence' \in {silence, Lease - hbLease[r]}
      BY <1>19 DEF HeartbeatWrite, HeartbeatFence
    <3>3. QED
      BY <3>1, <3>2
  <2>1. TypeOK'
    BY <1>19, <2>a, <2>b DEF HeartbeatWrite, RowFree, HeartbeatFence, TypeOK, OneAttempt
  <2>2. Recoverable'
    BY <1>19, <2>a DEF HeartbeatWrite, RowFree, HeartbeatFence, Recoverable, TypeOK, OneAttempt
  <2>3. OneAttempt'
    BY <1>19, <2>a DEF HeartbeatWrite, RowFree, HeartbeatFence, OneAttempt, TypeOK
  <2>4. LockFollowsFrame'
    BY <1>19, <2>a DEF HeartbeatWrite, RowFree, HeartbeatFence, LockFollowsFrame, TypeOK
  <2>5. Position'
    BY <1>19, <2>a DEF HeartbeatWrite, RowFree, HeartbeatFence, Position, TypeOK, OneAttempt, Usable
  <2>6. ResultMatchesEvidence'
    BY <1>19, <2>a DEF HeartbeatWrite, RowFree, HeartbeatFence, ResultMatchesEvidence, TypeOK, Usable
  <2>7. SuccessIsDurable'
    BY <1>19, <2>a DEF HeartbeatWrite, RowFree, HeartbeatFence, SuccessIsDurable, TypeOK
  <2>8. LateThreads'
    BY <1>19, <2>a DEF HeartbeatWrite, RowFree, HeartbeatFence, LateThreads, TypeOK, OneAttempt, NoThread
  <2>9. QED
    BY <2>1, <2>2, <2>3, <2>4, <2>5, <2>6, <2>7, <2>8
<1>20. ASSUME NEW r \in Requests, HeartbeatDies(r) PROVE IInv'
  BY <1>20 DEF HeartbeatDies, Usable,
     TypeOK, Recoverable, OneAttempt, LockFollowsFrame, LateThreads, Position,
     ResultMatchesEvidence, SuccessIsDurable
<1>21. ASSUME NEW r \in Requests, CommitFailure(r) PROVE IInv'
  BY <1>21 DEF CommitFailure, Unlock, Release, Finish, Answer, StageNames, Usable,
     TypeOK, Recoverable, OneAttempt, LockFollowsFrame, LateThreads, Position,
     ResultMatchesEvidence, SuccessIsDurable
<1>22. ASSUME NEW r \in Requests, WorkerCancelled(r) PROVE IInv'
  BY <1>22 DEF WorkerCancelled, Rollback, Unlock, Usable,
     TypeOK, Recoverable, OneAttempt, LockFollowsFrame, LateThreads, Position,
     ResultMatchesEvidence, SuccessIsDurable
<1>23. ASSUME NEW r \in Requests, LateReport(r) PROVE IInv'
  <2>a. /\ pc[r] \in {"idle", "failing", "recording"}
        /\ late[r].attempt = issued /\ issued = 1
        /\ status = "RECONCILING" /\ late[r].reports + 1 \in 1..CashPosition
    <3>1. /\ pc[r] \in {"idle", "failing", "recording"}
          /\ late[r].attempt = issued /\ issued = 1
      BY <1>23 DEF LateReport, LateThreads
    <3>2. status = "RECONCILING"
      BY <1>23, <3>1 DEF LateReport, Fence, TxnStatus
    <3>3. late[r].reports \in 0..CashPosition - 1
      BY <1>23, <3>1 DEF LateReport, LateThreads, TypeOK
    <3>4. QED
      BY <3>1, <3>2, <3>3
  <2>1. TypeOK'
    BY <1>23, <2>a, StagesType DEF LateReport, Renewal, TypeOK
  <2>2. Recoverable'
    BY <1>23, <2>a, StagesType DEF LateReport, Renewal, Recoverable, TypeOK
  <2>3. OneAttempt'
    BY <1>23, <2>a, StagesType DEF LateReport, Renewal, OneAttempt, TypeOK
  <2>4. LockFollowsFrame'
    BY <1>23, <2>a, StagesType DEF LateReport, Renewal, LockFollowsFrame, TypeOK
  <2>5. LateThreads'
    BY <1>23, <2>a, StagesType DEF LateReport, Renewal, LateThreads, TypeOK
  <2>6. Position'
    BY <1>23, <2>a, StagesType DEF LateReport, Renewal, Position, TypeOK, OneAttempt, Usable
  <2>7. ResultMatchesEvidence'
    BY <1>23, <2>a, StagesType DEF LateReport, Renewal, ResultMatchesEvidence, TypeOK, Usable
  <2>8. SuccessIsDurable'
    BY <1>23, <2>a, StagesType DEF LateReport, Renewal, SuccessIsDurable, TypeOK
  <2>9. QED
    BY <2>1, <2>2, <2>3, <2>4, <2>5, <2>6, <2>7, <2>8
<1>24. ASSUME NEW r \in Requests, LateReportRefused(r) PROVE IInv'
  BY <1>24 DEF LateReportRefused, CanUpdate, Unlock, Usable,
     TypeOK, Recoverable, OneAttempt, LockFollowsFrame, LateThreads, Position,
     ResultMatchesEvidence, SuccessIsDurable
<1>25. CASE UNCHANGED vars
  BY <1>25 DEF vars, TypeOK, Recoverable, OneAttempt, LockFollowsFrame, LateThreads, Position,
     ResultMatchesEvidence, SuccessIsDurable, Usable
<1>26. QED
  BY <1>1, <1>2, <1>3, <1>4, <1>5, <1>6, <1>7, <1>8, <1>9, <1>10, <1>11, <1>12, <1>13,
     <1>14, <1>15, <1>16, <1>17, <1>18, <1>19, <1>20, <1>21, <1>22, <1>23, <1>24, <1>25
  DEF Next, Execute, Worker, LateThread, Heartbeat


LEMMA Inductive == Spec => []IInv
<1>1. QED
  BY InitInv, NextInv, PTL DEF Spec

\* Every variable keeps its type.
THEOREM TypeCorrect == Spec => []TypeOK
BY Inductive, PTL DEF IInv

\* A RECONCILING run has an owner and an expiry, so that it can be taken over; no
\* other run has either.
THEOREM AlwaysRecoverable == Spec => []Recoverable
BY Inductive, PTL DEF IInv

\* Whatever the requests do, a run is executed at most once and by one request.
THEOREM SingleExecution == Spec => []AtMostOneAttempt
<1>1. IInv => AtMostOneAttempt
  BY DEF IInv, OneAttempt, AtMostOneAttempt
<1>2. QED
  BY <1>1, Inductive, PTL

\* Persisted results were computed from the run's own, valid files.
THEOREM ResultsAreFaithful == Spec => []ResultMatchesEvidence
BY Inductive, PTL DEF IInv

\* A caller told of success was told the truth.
THEOREM SuccessIsTruthful == Spec => []SuccessIsDurable
BY Inductive, PTL DEF IInv

\* No step changes the row of a COMPLETED or FAILED run.
THEOREM FrozenForever == Spec => FrozenStaysFrozen
<1> USE DEF Frozen, Open, NoToken, rowVars
<1>1. ASSUME IInv, [Next]_vars, status \in Frozen PROVE rowVars' = rowVars
  <2>1. /\ token = NoToken
        /\ status \notin Open \cup {"RECONCILING"}
        /\ \A r \in Requests : pc[r] # "idle" => mine[r] # NoToken
    BY <1>1 DEF IInv, Recoverable, OneAttempt
  <2>2. \A r \in Requests : ~RecordProgress(r) /\ ~Complete(r)
    BY <2>1 DEF RecordProgress, Reporting, Complete, Fence
  <2>3. \A r \in Requests : CommitFailure(r) => lock # r
    BY <1>1, <2>1 DEF CommitFailure, IInv, LockFollowsFrame
  <2>4. \A r \in Requests : HeartbeatWrite(r) => ~HeartbeatFence(r)
    BY <2>1 DEF HeartbeatFence
  <2>5. ~AddFiles /\ ~ValidateRun /\ ~Tick
    BY <2>1 DEF AddFiles, Uploadable, ValidateRun, Tick
  <2>6. ASSUME NEW r \in Requests, Execute(r) PROVE rowVars' = rowVars
    BY <1>1, <2>1, <2>6 DEF Execute, ExecuteReplay, ExecuteInProgress, ExecuteAbandon,
                            ExecuteFrozen, ExecuteStart, Startable
  <2>7. ASSUME NEW r \in Requests, Worker(r) PROVE rowVars' = rowVars
    BY <2>2, <2>3, <2>7 DEF Worker, BeginValidation, FinishValidation, PersistResult,
                            LeaseLost, RecordFailure, CommitFailure
  <2>8. ASSUME NEW r \in Requests,
               WorkerRaises(r) \/ WorkerCancelled(r) \/ Crash(r) \/ LateThread(r)
        PROVE  rowVars' = rowVars
    <3>1. ~LateReport(r)
      BY <1>1, <2>1 DEF LateReport, Fence, IInv, LateThreads
    <3>2. QED
      BY <2>8, <3>1 DEF WorkerRaises, WorkerCancelled, Crash, LateThread, LateReportRefused
  <2>9. ASSUME NEW r \in Requests, Heartbeat(r) PROVE rowVars' = rowVars
    BY <2>4, <2>9 DEF Heartbeat, HeartbeatWake, HeartbeatWrite, HeartbeatDies
  <2>10. CASE UNCHANGED vars
    BY <2>10 DEF vars
  <2>11. QED
    BY <1>1, <2>5, <2>6, <2>7, <2>8, <2>9, <2>10 DEF Next
<1>2. IInv /\ [Next]_vars => [(status \in Frozen) => (rowVars' = rowVars)]_vars
  BY <1>1
<1>3. QED
  BY <1>2, Inductive, PTL DEF Spec, FrozenStaysFrozen


\* A worker that stops renewing is seen as expired within one lease, whatever
\* stale values its heartbeat writes.
THEOREM LeaseBound == Spec => []LeaseNeverOutlivesSilence
<1> DEFINE L == LeaseNeverOutlivesSilence
<1> USE LeaseAssumption DEF LeaseNeverOutlivesSilence, Open, Frozen
<1>1. Init => L
  BY DEF Init
<1>2. ASSUME IInv, L, [Next]_vars PROVE L'
  <2> USE DEF rowVars, frameVars, taskVars, history
  <2>1. CASE AddFiles \/ ValidateRun
    BY <2>1 DEF AddFiles, ValidateRun
  <2>2. CASE Tick
    <3>1. lease \in NoLease..Lease /\ silence \in 0..Lease /\ lease # NoLease
      BY <1>2, <2>2 DEF IInv, TypeOK, Recoverable, Tick
    <3>2. QED
      BY <1>2, <2>2, <3>1 DEF Tick, Countdown, NoLease
  <2>3. ASSUME NEW r \in Requests, Execute(r) PROVE L'
    BY <1>2, <2>3 DEF Execute, ExecuteReplay, ExecuteInProgress, ExecuteAbandon,
                      ExecuteFrozen, ExecuteStart, Release, Renewal
  <2>4. ASSUME NEW r \in Requests, RecordProgress(r) PROVE L'
    BY <2>4 DEF RecordProgress, Renewal
  <2>5. ASSUME NEW r \in Requests, Worker(r), ~RecordProgress(r) PROVE L'
    BY <1>2, <2>5 DEF Worker, BeginValidation, FinishValidation, PersistResult, Complete,
                      LeaseLost, RecordFailure, CommitFailure, Release
  <2>6. ASSUME NEW r \in Requests,
               WorkerRaises(r) \/ WorkerCancelled(r) \/ Crash(r) \/ LateThread(r)
        PROVE  L'
    <3>1. CASE LateReport(r)
      BY <3>1 DEF LateReport, Renewal
    <3>2. CASE ~LateReport(r)
      BY <1>2, <2>6, <3>2 DEF WorkerRaises, WorkerCancelled, Crash, LateThread, LateReportRefused
    <3>3. QED
      BY <3>1, <3>2
  <2>7. ASSUME NEW r \in Requests, HeartbeatWrite(r) PROVE L'
    <3>1. hbLease[r] \in 0..Lease /\ silence \in 0..Lease
      BY <1>2 DEF IInv, TypeOK
    <3>2. CASE HeartbeatFence(r)
      BY <2>7, <3>1, <3>2 DEF HeartbeatWrite
    <3>3. CASE ~HeartbeatFence(r)
      BY <1>2, <2>7, <3>3 DEF HeartbeatWrite
    <3>4. QED
      BY <3>2, <3>3
  <2>8. ASSUME NEW r \in Requests, HeartbeatWake(r) \/ HeartbeatDies(r) PROVE L'
    BY <1>2, <2>8 DEF HeartbeatWake, HeartbeatDies
  <2>9. CASE UNCHANGED vars
    BY <1>2, <2>9 DEF vars
  <2>10. QED
    BY <1>2, <2>1, <2>2, <2>3, <2>4, <2>5, <2>6, <2>7, <2>8, <2>9 DEF Next, Heartbeat
<1>3. QED
  BY <1>1, <1>2, Inductive, PTL DEF Spec

-------------------------------------------------------------------------------
(* RunExecution implements RunLifecycle.                                     *)

LEMMA PhaseOf ==
    ASSUME status \in Open \cup {"RECONCILING"} \cup Frozen
    PROVE  /\ status \in Open <=> Phase = "open"
           /\ status = "RECONCILING" <=> Phase = "running"
           /\ status = "COMPLETED" <=> Phase = "completed"
           /\ status = "FAILED" <=> Phase = "failed"
BY DEF Phase, Open, Frozen

LEMMA LifecycleStep == IInv /\ IInv' /\ [Next]_vars => [Lifecycle!Next]_Lifecycle!vars
<1> SUFFICES ASSUME IInv, IInv', [Next]_vars PROVE [Lifecycle!Next]_Lifecycle!vars
  OBVIOUS
<1> USE DEF rowVars, frameVars, taskVars, history, Open, Frozen
<1> DEFINE From == {p.from : p \in results}
<1>a. /\ status \in Open <=> Phase = "open"
      /\ status = "RECONCILING" <=> Phase = "running"
      /\ status = "COMPLETED" <=> Phase = "completed"
      /\ status = "FAILED" <=> Phase = "failed"
  BY PhaseOf DEF IInv, TypeOK
<1>b. /\ status' \in Open <=> Phase' = "open"
      /\ status' = "RECONCILING" <=> Phase' = "running"
      /\ status' = "COMPLETED" <=> Phase' = "completed"
      /\ status' = "FAILED" <=> Phase' = "failed"
  BY DEF Phase, IInv, TypeOK
<1>c. ASSUME status' = status, files' = files, results' = results
      PROVE  UNCHANGED Lifecycle!vars
  BY <1>c DEF Lifecycle!vars, Phase
<1>1. CASE AddFiles
  <2>1. \A s \in SourceTypes : files[s] # "absent" => files'[s] = files[s]
    BY <1>1 DEF AddFiles, IInv, TypeOK, Evidence
  <2>2. Phase = "open" /\ Phase' = "open" /\ results' = results
    BY <1>1, <1>a, <1>b DEF AddFiles, Uploadable
  <2>3. files' \in Lifecycle!Evidence
    BY DEF IInv, TypeOK, Evidence, Content, Lifecycle!Evidence, Lifecycle!Content
  <2>4. QED
    BY <2>1, <2>2, <2>3 DEF Lifecycle!Next, Lifecycle!Supply
<1>2. CASE ValidateRun
  BY <1>2, <1>a, <1>b DEF ValidateRun, Lifecycle!vars
<1>3. CASE Tick
  BY <1>3, <1>c DEF Tick
<1>4. ASSUME NEW r \in Requests, ExecuteStart(r) PROVE Lifecycle!Start
  BY <1>4, <1>a, <1>b DEF ExecuteStart, Startable, Lifecycle!Start
<1>5. ASSUME NEW r \in Requests, ExecuteAbandon(r) PROVE Lifecycle!Fail
  BY <1>5, <1>a, <1>b DEF ExecuteAbandon, Release, Lifecycle!Fail
<1>6. ASSUME NEW r \in Requests,
             ExecuteReplay(r) \/ ExecuteInProgress(r) \/ ExecuteFrozen(r)
      PROVE  UNCHANGED Lifecycle!vars
  BY <1>6, <1>c DEF ExecuteReplay, ExecuteInProgress, ExecuteFrozen
<1>7. ASSUME NEW r \in Requests, RecordProgress(r)
      PROVE  [Lifecycle!Next]_Lifecycle!vars
  <2>1. Reporting(r) /\ pc[r] # "idle" /\ mine[r] # NoToken /\ token = mine[r]
    BY <1>7 DEF RecordProgress, Reporting, Fence, IInv, OneAttempt, NoToken
  <2>2. status = "RECONCILING" /\ status' = "RECONCILING" /\ files' = files
    BY <1>7, <2>1 DEF RecordProgress, Fence, IInv, Recoverable
  <2>3. CASE pc[r] = "persisted"
    <3>1. /\ results = {} /\ Usable(files) /\ read[r] = files
      BY <2>3 DEF IInv, Position, Working, Persistence, Ingested
    <3>2. results' = {[by |-> mine[r], from |-> files]}
      BY <1>7, <2>3, <3>1 DEF RecordProgress
    <3>3. From = {} /\ From' = {files}
      BY <3>1, <3>2
    <3>4. Lifecycle!Publish
      BY <1>a, <1>b, <2>2, <3>1, <3>3 DEF Lifecycle!Publish, Lifecycle!Usable, Usable
    <3>5. QED
      BY <3>4 DEF Lifecycle!Next
  <2>4. CASE pc[r] # "persisted"
    BY <1>7, <1>c, <2>2, <2>4 DEF RecordProgress
  <2>5. QED
    BY <2>3, <2>4
<1>8. ASSUME NEW r \in Requests, Complete(r) PROVE Lifecycle!Complete
  <2>1. /\ status = "RECONCILING" /\ status' = "COMPLETED"
        /\ files' = files /\ results' = results
    BY <1>8 DEF Complete, Fence, TxnStatus, Release
  <2>2. results # {} /\ \A p \in results : p.from = files
    BY <1>8 DEF Complete, IInv, Position, ResultMatchesEvidence
  <2>3. From = {files}
    BY <2>2
  <2>4. QED
    BY <1>a, <1>b, <2>1, <2>3 DEF Lifecycle!Complete
<1>9. ASSUME NEW r \in Requests, CommitFailure(r) PROVE [Lifecycle!Next]_Lifecycle!vars
  <2>1. CASE lock = r
    <3>1. status = "RECONCILING" /\ status' = "FAILED"
      BY <1>9, <2>1 DEF CommitFailure, Release, IInv, LockFollowsFrame
    <3>2. Lifecycle!Fail
      BY <1>9, <1>a, <1>b, <3>1 DEF CommitFailure, Lifecycle!Fail
    <3>3. QED
      BY <3>2 DEF Lifecycle!Next
  <2>2. CASE lock # r
    BY <1>9, <1>c, <2>2 DEF CommitFailure
  <2>3. QED
    BY <2>1, <2>2
<1>10. ASSUME NEW r \in Requests,
              BeginValidation(r) \/ FinishValidation(r) \/ PersistResult(r) \/ LeaseLost(r)
                \/ RecordFailure(r) \/ WorkerRaises(r) \/ WorkerCancelled(r) \/ Crash(r)
                \/ LateThread(r) \/ Heartbeat(r)
       PROVE  UNCHANGED Lifecycle!vars
  BY <1>10, <1>c DEF BeginValidation, FinishValidation, PersistResult, LeaseLost,
     RecordFailure, WorkerRaises, WorkerCancelled, Crash, LateThread, LateReport,
     LateReportRefused, Heartbeat, HeartbeatWake, HeartbeatWrite, HeartbeatDies
<1>11. CASE UNCHANGED vars
  BY <1>11, <1>c DEF vars
<1>12. QED
  BY <1>1, <1>2, <1>3, <1>4, <1>5, <1>6, <1>7, <1>8, <1>9, <1>10, <1>11
  DEF Next, Execute, Worker, Lifecycle!Next

\* What callers rely on, RunLifecycle, is what RunExecution does.
THEOREM Refinement == Spec => ImplementsLifecycle
<1>1. Init => Lifecycle!Init
  BY DEF Init, Lifecycle!Init, Phase, Open, NoFiles
<1>2. QED
  BY <1>1, LifecycleStep, Inductive, PTL DEF Spec, ImplementsLifecycle, Lifecycle!Spec

===============================================================================
