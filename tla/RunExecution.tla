----------------------------- MODULE RunExecution -----------------------------
(***************************************************************************)
(* The execution of one reconciliation run:                                *)
(* services/reconciliation/run_service.py.                                 *)
(*                                                                         *)
(* A run is one row of reconciliation_runs.  Requests add source files,    *)
(* validate, and call execute_reconciliation.  The request that starts the *)
(* run becomes its worker: it writes a fresh attempt token and a lease,    *)
(* spawns a heartbeat task, and from then on publishes its progress by     *)
(* UPDATEs fenced by (status, token).  A worker may raise or die at any    *)
(* await; the row lock its open transaction holds then disappears with it. *)
(* The pipeline runs in a thread, which a cancellation of the request does *)
(* not stop: it goes on reporting, through the same session, while the     *)
(* request records its failure and after it has gone.                      *)
(*                                                                         *)
(* Time is relative: "lease" is the number of ticks until                  *)
(* execution_lease_expires_at, and is 0 once that instant has passed.      *)
(***************************************************************************)
EXTENDS Integers, Sequences

CONSTANTS
    Requests,     \* HTTP requests, each with a database session of its own
    NoRequest,    \* nobody holds the row lock
    SourceTypes,  \* REQUIRED_SOURCE_TYPES
    Lease         \* EXECUTION_LEASE_SECONDS, in ticks

ASSUME NoRequestAssumption == NoRequest \notin Requests
ASSUME LeaseAssumption == Lease \in Nat \ {0}

VARIABLES
    \* The committed row and what hangs off it.
    status, stage,
    token,        \* execution_attempt_token; NoToken is NULL
    lease,        \* execution_lease_expires_at; NoLease is NULL
    files,        \* quality of the source file on record for each type
    results,      \* persisted results: who computed them, from which files
    lock,         \* the request whose open transaction holds the row lock
    \* Each request's stack frame.
    pc,
    mine,         \* attempt_token
    reports,      \* how many stages this worker has reported
    read,         \* the files the pipeline ingested
    reply,        \* what the caller was last told
    \* Each worker's heartbeat task.
    hb,
    hbLease,      \* the lease it computed before its UPDATE
    \* The pipeline thread that a cancelled request leaves behind.
    late,         \* the attempt it reports for, and how many stages it has reported
    \* History.
    issued,       \* attempt tokens handed out
    silence       \* age in ticks of the newest renewal committed (up to Lease)

rowVars == <<status, stage, token, lease, files, results>>
frameVars == <<pc, mine, reports, read, reply>>
taskVars == <<hb, hbLease, late>>
history == <<issued, silence>>
vars == <<rowVars, lock, frameVars, taskVars, history>>

NoToken == 0
NoLease == -1

Open == {"CREATED", "FILES_UPLOADED", "READY_FOR_RECONCILIATION", "VALIDATION_FAILED"}
Frozen == {"COMPLETED", "FAILED"}
Content == {"valid", "invalid"}
Evidence == [SourceTypes -> Content \cup {"absent"}]

\* The stages a worker reports, in order.  execute_reconciliation reports
\* "ingestion" before it hands over to the pipeline thread, which reports it again.
Stages == << "ingestion", "ingestion", "normalization", "candidate_generation",
             "matching_rules", "verification_classification", "cash_position",
             "persistence", "ai_exception_analysis" >>
Ingested == 3       \* reporting "normalization": every file has been read
CashPosition == 7   \* the last stage the pipeline thread reports
Persistence == 8
AiAnalysis == 9

StageNames == {Stages[i] : i \in 1..AiAnalysis}
                \cup {"created", "validation", "completed", "failed", "abandoned"}

Working == {"started", "validating", "validated", "running", "persisted", "ai"}

NoThread == [attempt |-> NoToken, reports |-> 0]

TypeOK ==
    /\ status \in Open \cup {"RECONCILING"} \cup Frozen
    /\ stage \in StageNames
    /\ token \in Nat
    /\ lease \in NoLease..Lease
    /\ files \in Evidence
    /\ results \subseteq [by : Nat, from : Evidence]
    /\ lock \in Requests \cup {NoRequest}
    /\ pc \in [Requests -> Working \cup {"idle", "failing", "recording"}]
    /\ mine \in [Requests -> Nat]
    /\ reports \in [Requests -> 0..AiAnalysis]
    /\ read \in [Requests -> Evidence]
    /\ reply \in [Requests -> {"none", "success", "refused", "error"}]
    /\ hb \in [Requests -> {"off", "sleeping", "writing"}]
    /\ hbLease \in [Requests -> 0..Lease]
    /\ late \in [Requests -> [attempt : Nat, reports : 0..CashPosition]]
    /\ issued \in Nat
    /\ silence \in 0..Lease

NoFiles == [s \in SourceTypes |-> "absent"]

Init ==
    /\ status = "CREATED"
    /\ stage = "created"
    /\ token = NoToken
    /\ lease = NoLease
    /\ files = NoFiles
    /\ results = {}
    /\ lock = NoRequest
    /\ pc = [r \in Requests |-> "idle"]
    /\ mine = [r \in Requests |-> NoToken]
    /\ reports = [r \in Requests |-> 0]
    /\ read = [r \in Requests |-> NoFiles]
    /\ reply = [r \in Requests |-> "none"]
    /\ hb = [r \in Requests |-> "off"]
    /\ hbLease = [r \in Requests |-> 0]
    /\ late = [r \in Requests |-> NoThread]
    /\ issued = 0
    /\ silence = 0

-------------------------------------------------------------------------------
(* Supplying and validating evidence.  Both handlers hold the row lock from *)
(* their first statement to their commit, so each is one step.              *)

RowFree == lock = NoRequest

\* An upload check that forgets the run that is executing.
UploadableUntilFrozen == status \notin Frozen

Uploadable == status \in Open

AddFiles ==
    /\ RowFree
    /\ Uploadable
    /\ \E new \in (SUBSET SourceTypes) \ {{}} :
         /\ \A s \in new : files[s] = "absent"
         /\ \E c \in [new -> Content] :
              files' = [s \in SourceTypes |-> IF s \in new THEN c[s] ELSE files[s]]
    /\ status' = "FILES_UPLOADED"
    /\ UNCHANGED <<stage, token, lease, results, lock, frameVars, taskVars, history>>

Usable(e) == \A s \in SourceTypes : e[s] = "valid"

ValidateRun ==
    /\ RowFree
    /\ status \in Open
    /\ status' = IF Usable(files) THEN "READY_FOR_RECONCILIATION" ELSE "VALIDATION_FAILED"
    /\ UNCHANGED <<stage, token, lease, files, results, lock, frameVars, taskVars, history>>

-------------------------------------------------------------------------------
(* The entry of execute_reconciliation, one action per outcome.  Each runs  *)
(* under the row lock and ends by committing or by raising.                 *)

Calls(r) == pc[r] = "idle" /\ RowFree

Answer(r, a) == reply' = [reply EXCEPT ![r] = a]

\* A missing expiry taken for an expired one, and the other way round.
LeaseExpiredIfMissing == lease = NoLease

LeaseExpired == lease # NoLease /\ lease = 0

\* A start check that lets a failed run be retried in place.
StartableUnlessCompleted == status \in Open \cup {"FAILED"}

Startable == status \in Open

\* An extension of the old expiry instead of a new one.
RenewalFromExpiry == lease + Lease

\* now + EXECUTION_LEASE_SECONDS.
Renewal == Lease

\* Already COMPLETED: the stored result is replayed.
ExecuteReplay(r) ==
    /\ Calls(r)
    /\ status = "COMPLETED"
    /\ Answer(r, "success")
    /\ UNCHANGED <<rowVars, lock, pc, mine, reports, read, taskVars, history>>

\* A client that polls a lease into life instead of only reading it.
PollRenewsLease(r) ==
    /\ Calls(r)
    /\ status = "RECONCILING"
    /\ lease' = Lease
    /\ Answer(r, "refused")
    /\ UNCHANGED <<status, stage, token, files, results, lock,
                   pc, mine, reports, read, taskVars, history>>

\* RUN_EXECUTION_IN_PROGRESS.
ExecuteInProgress(r) ==
    /\ Calls(r)
    /\ status = "RECONCILING"
    /\ ~LeaseExpired
    /\ Answer(r, "refused")
    /\ UNCHANGED <<rowVars, lock, pc, mine, reports, read, taskVars, history>>

\* A release that leaves the expiry behind.
ReleaseTokenOnly(s, st) ==
    /\ status' = s
    /\ stage' = st
    /\ token' = NoToken
    /\ UNCHANGED lease

\* The run is given its final status and nobody owns it any more.
Release(s, st) ==
    /\ status' = s
    /\ stage' = st
    /\ token' = NoToken
    /\ lease' = NoLease

\* RUN_EXECUTION_ABANDONED: the expired execution is frozen as it is.
ExecuteAbandon(r) ==
    /\ Calls(r)
    /\ status = "RECONCILING"
    /\ LeaseExpired
    /\ Release("FAILED", "abandoned")
    /\ Answer(r, "refused")
    /\ UNCHANGED <<files, results, lock, pc, mine, reports, read, taskVars, history>>

\* RUN_EXECUTION_FROZEN.
ExecuteFrozen(r) ==
    /\ Calls(r)
    /\ status = "FAILED"
    /\ Answer(r, "refused")
    /\ UNCHANGED <<rowVars, lock, pc, mine, reports, read, taskVars, history>>

ExecuteStart(r) ==
    /\ Calls(r)
    /\ Startable
    /\ status' = "RECONCILING"
    /\ stage' = "validation"
    /\ token' = issued + 1
    /\ lease' = Renewal
    /\ pc' = [pc EXCEPT ![r] = "started"]
    /\ mine' = [mine EXCEPT ![r] = issued + 1]
    /\ reports' = [reports EXCEPT ![r] = 0]
    /\ read' = [read EXCEPT ![r] = NoFiles]
    /\ hb' = [hb EXCEPT ![r] = "sleeping"]
    /\ Answer(r, "none")
    /\ issued' = issued + 1
    /\ silence' = 0
    /\ UNCHANGED <<files, results, lock, hbLease, late>>

-------------------------------------------------------------------------------
(* The worker.                                                              *)

\* validate_run(internal=True) locks the row and holds it while every file is
\* ingested, up to the commit of the first progress report.
BeginValidation(r) ==
    /\ pc[r] = "started"
    /\ RowFree
    /\ lock' = r
    /\ pc' = [pc EXCEPT ![r] = "validating"]
    /\ UNCHANGED <<rowVars, mine, reports, read, reply, taskVars, history>>

\* The end of r's transaction.
Unlock(r) == lock' = IF lock = r THEN NoRequest ELSE lock

\* The handler of BaseException rolls back first.
Rollback(r) ==
    /\ pc' = [pc EXCEPT ![r] = "failing"]
    /\ Unlock(r)

\* Validation whose result nobody looks at.
FinishValidationUnchecked(r) ==
    /\ pc[r] = "validating"
    /\ pc' = [pc EXCEPT ![r] = "validated"]
    /\ UNCHANGED <<rowVars, lock, mine, reports, read, reply, taskVars, history>>

\* Validation writes "RECONCILING" into its own open transaction, whatever the
\* row said: see TxnStatus.
FinishValidation(r) ==
    /\ pc[r] = "validating"
    /\ IF Usable(files)
         THEN pc' = [pc EXCEPT ![r] = "validated"] /\ UNCHANGED lock
         ELSE Rollback(r)
    /\ UNCHANGED <<rowVars, mine, reports, read, reply, taskVars, history>>

\* status as r's own transaction sees it: with what it wrote and did not commit.
TxnStatus(r) == CASE pc[r] = "validated" -> "RECONCILING"
                  [] pc[r] = "recording" /\ lock = r -> "FAILED"
                  [] OTHER -> status

\* The fence without the attempt token.
FenceOnStatusOnly(r, attempt) == TxnStatus(r) = "RECONCILING"

\* The WHERE clause of every UPDATE made for an attempt.
Fence(r, attempt) == TxnStatus(r) = "RECONCILING" /\ token = attempt

\* The row lock r needs for an UPDATE: free, or held by its own transaction.
CanUpdate(r) == lock \in {NoRequest, r}

\* Where the worker calls _record_progress.
Reporting(r) ==
    \/ pc[r] = "validated"
    \/ pc[r] = "running" /\ reports[r] < Persistence
    \/ pc[r] = "persisted"

\* _record_progress: publish the stage and everything staged before it (the
\* persisted cases, for the last report), renew the lease, commit.
RecordProgress(r) ==
    LET n == reports[r] + 1
    IN  /\ Reporting(r)
        /\ CanUpdate(r)
        /\ Fence(r, mine[r])
        /\ status' = TxnStatus(r)
        /\ stage' = Stages[n]
        /\ lease' = Renewal
        /\ silence' = 0
        /\ results' = IF pc[r] = "persisted"
                        THEN results \cup {[by |-> mine[r], from |-> read[r]]}
                        ELSE results
        /\ reports' = [reports EXCEPT ![r] = n]
        /\ read' = IF n = Ingested THEN [read EXCEPT ![r] = files] ELSE read
        /\ pc' = [pc EXCEPT ![r] = IF n = AiAnalysis THEN "ai" ELSE "running"]
        /\ lock' = NoRequest
        /\ UNCHANGED <<token, files, mine, reply, taskVars, issued>>

\* _persist_result and _carry_forward_review_state: an unfenced write of the row
\* and its cases, left uncommitted.  Refused where cases exist.
PersistResult(r) ==
    /\ pc[r] = "running" /\ reports[r] = Persistence
    /\ RowFree
    /\ IF results = {}
         THEN pc' = [pc EXCEPT ![r] = "persisted"] /\ lock' = r
         ELSE Rollback(r)
    /\ UNCHANGED <<rowVars, mine, reports, read, reply, taskVars, history>>

Finish(r, a) ==
    /\ pc' = [pc EXCEPT ![r] = "idle"]
    /\ mine' = [mine EXCEPT ![r] = NoToken]
    /\ hb' = [hb EXCEPT ![r] = "off"]
    /\ hbLease' = [hbLease EXCEPT ![r] = 0]
    /\ Answer(r, a)

\* The completion when nobody looks at its row count.
CompleteUnchecked(r) ==
    /\ pc[r] = "ai"
    /\ RowFree
    /\ IF Fence(r, mine[r]) THEN Release("COMPLETED", "completed")
                   ELSE UNCHANGED <<status, stage, token, lease>>
    /\ Finish(r, "success")
    /\ UNCHANGED <<files, results, lock, late, reports, read, history>>

\* The AI stage and the completion: two fenced UPDATEs in one transaction, the
\* first of which takes the row lock the second still holds.
Complete(r) ==
    /\ pc[r] = "ai"
    /\ RowFree
    /\ Fence(r, mine[r])
    /\ Release("COMPLETED", "completed")
    /\ Finish(r, "success")
    /\ UNCHANGED <<files, results, lock, late, reports, read, history>>

\* EXECUTION_LEASE_LOST: a fenced UPDATE matched no row.
LeaseLost(r) ==
    /\ Reporting(r) \/ pc[r] = "ai"
    /\ CanUpdate(r)
    /\ ~Fence(r, mine[r])
    /\ Rollback(r)
    /\ UNCHANGED <<rowVars, mine, reports, read, reply, taskVars, history>>

\* Any statement of the try block raises: a lost file, a parse error, a
\* database error, a cancellation at any other await than that of the pipeline.
WorkerRaises(r) ==
    /\ pc[r] \in Working
    /\ Rollback(r)
    /\ UNCHANGED <<rowVars, mine, reports, read, reply, taskVars, history>>

\* The request is cancelled while it awaits the pipeline thread.  The thread does
\* not notice: on_stage goes on scheduling _record_progress on the loop.
WorkerCancelled(r) ==
    /\ pc[r] = "running" /\ reports[r] < CashPosition
    /\ Rollback(r)
    /\ late' = [late EXCEPT ![r] = [attempt |-> mine[r], reports |-> reports[r]]]
    /\ UNCHANGED <<rowVars, mine, reports, read, reply, hb, hbLease, history>>

\* The handler's fenced UPDATE, uncommitted until the audit event is written; where
\* it matches no row the handler only raises again.
RecordFailure(r) ==
    /\ pc[r] = "failing"
    /\ RowFree
    /\ IF Fence(r, mine[r])
         THEN /\ pc' = [pc EXCEPT ![r] = "recording"]
              /\ lock' = r
              /\ UNCHANGED <<mine, hb, hbLease, reply>>
         ELSE Finish(r, "error") /\ UNCHANGED lock
    /\ UNCHANGED <<rowVars, late, reports, read, history>>

\* The handler's commit: the failure is published, unless a late report of the
\* pipeline thread rolled the UPDATE back.
CommitFailure(r) ==
    /\ pc[r] = "recording"
    /\ IF lock = r THEN Release("FAILED", "failed")
                   ELSE UNCHANGED <<status, stage, token, lease>>
    /\ Unlock(r)
    /\ Finish(r, "error")
    /\ UNCHANGED <<files, results, late, reports, read, history>>

\* The process dies, or its failure handler cannot use the session: the database
\* refuses, or a late report is using it.  The database rolls back; the committed
\* row keeps its token and lease.
Crash(r) ==
    /\ pc[r] # "idle"
    /\ Unlock(r)
    /\ Finish(r, "error")
    /\ UNCHANGED <<rowVars, late, reports, read, history>>

-------------------------------------------------------------------------------
(* The thread of a cancelled request: _record_progress in the middle of the  *)
(* failure handler, or on the session that the request has closed.           *)

\* The attempt is still the row's: the stage is published and the lease renewed,
\* and the thread goes on to its next stage, or ends.
LateReport(r) ==
    LET n == late[r].reports + 1
    IN  /\ late[r] # NoThread
        /\ CanUpdate(r)
        /\ Fence(r, late[r].attempt)
        /\ stage' = Stages[n]
        /\ lease' = Renewal
        /\ silence' = 0
        /\ late' = [late EXCEPT ![r] = IF n = CashPosition THEN NoThread
                                                           ELSE [@ EXCEPT !.reports = n]]
        /\ UNCHANGED <<status, token, files, results, lock, frameVars, hb, hbLease, issued>>

\* It is not, or the handler's own uncommitted UPDATE says so: the thread rolls the
\* session back, that UPDATE with it, and ends.
LateReportRefused(r) ==
    /\ late[r] # NoThread
    /\ CanUpdate(r)
    /\ ~Fence(r, late[r].attempt)
    /\ Unlock(r)
    /\ late' = [late EXCEPT ![r] = NoThread]
    /\ UNCHANGED <<rowVars, frameVars, hb, hbLease, history>>

-------------------------------------------------------------------------------
(* _execution_heartbeat, on a connection of its own.  The new lease is       *)
(* computed first; the UPDATE then waits for the row lock.                   *)

HeartbeatWake(r) ==
    /\ hb[r] = "sleeping"
    /\ hb' = [hb EXCEPT ![r] = "writing"]
    /\ hbLease' = [hbLease EXCEPT ![r] = Renewal]
    /\ UNCHANGED <<rowVars, lock, late, frameVars, history>>

HeartbeatFence(r) == status = "RECONCILING" /\ token = mine[r]

HeartbeatWrite(r) ==
    /\ hb[r] = "writing"
    /\ RowFree
    /\ IF HeartbeatFence(r)
         THEN /\ lease' = hbLease[r]
              /\ silence' = IF silence < Lease - hbLease[r] THEN silence ELSE Lease - hbLease[r]
              /\ hb' = [hb EXCEPT ![r] = "sleeping"]
         ELSE /\ hb' = [hb EXCEPT ![r] = "off"]
              /\ UNCHANGED <<lease, silence>>
    /\ hbLease' = [hbLease EXCEPT ![r] = 0]
    /\ UNCHANGED <<status, stage, token, files, results, lock, late, frameVars, issued>>

\* Any exception ends the task for good; the worker carries on without it.
HeartbeatDies(r) ==
    /\ hb[r] # "off"
    /\ hb' = [hb EXCEPT ![r] = "off"]
    /\ hbLease' = [hbLease EXCEPT ![r] = 0]
    /\ UNCHANGED <<rowVars, lock, late, frameVars, history>>

Countdown(n) == IF n > 0 THEN n - 1 ELSE n

Tick ==
    /\ status = "RECONCILING"
    /\ lease' = Countdown(lease)
    /\ hbLease' = [r \in Requests |-> Countdown(hbLease[r])]
    /\ silence' = IF silence < Lease THEN silence + 1 ELSE silence
    /\ UNCHANGED <<status, stage, token, files, results, lock, late, frameVars, hb, issued>>

-------------------------------------------------------------------------------
Execute(r) ==
    \/ ExecuteReplay(r)
    \/ ExecuteInProgress(r)
    \/ ExecuteAbandon(r)
    \/ ExecuteFrozen(r)
    \/ ExecuteStart(r)

Worker(r) ==
    \/ BeginValidation(r)
    \/ FinishValidation(r)
    \/ RecordProgress(r)
    \/ PersistResult(r)
    \/ Complete(r)
    \/ LeaseLost(r)
    \/ RecordFailure(r)
    \/ CommitFailure(r)

LateThread(r) == LateReport(r) \/ LateReportRefused(r)

Heartbeat(r) == HeartbeatWake(r) \/ HeartbeatWrite(r) \/ HeartbeatDies(r)

Next ==
    \/ AddFiles
    \/ ValidateRun
    \/ Tick
    \/ \E r \in Requests :
         \/ Execute(r) \/ Worker(r)
         \/ WorkerRaises(r) \/ WorkerCancelled(r) \/ Crash(r)
         \/ LateThread(r) \/ Heartbeat(r)

Spec == Init /\ [][Next]_vars

\* A worker that has not died makes its next step; time passes; and somebody
\* keeps calling reconcile.  Nothing else is fair: workers may die, heartbeats may
\* stop, a thread left behind may report or not, evidence may never arrive.
Fairness ==
    /\ WF_vars(Tick)
    /\ \A r \in Requests : WF_vars(Worker(r))
    /\ WF_vars(\E r \in Requests : ExecuteAbandon(r))

FairSpec == Spec /\ Fairness

-------------------------------------------------------------------------------
(* Properties.                                                              *)

\* A run that is RECONCILING has an owner and an expiry, and no other run has
\* either: execute_reconciliation treats a missing expiry as "in progress", so a
\* RECONCILING row without one could never be taken over.
Recoverable ==
    /\ status = "RECONCILING" <=> token # NoToken
    /\ status = "RECONCILING" <=> lease # NoLease

\* However requests race, retry and die, one execution of the run is ever started,
\* and no request works for an attempt other than that one.
AtMostOneAttempt ==
    /\ issued <= 1
    /\ \A r, q \in Requests : pc[r] # "idle" /\ pc[q] # "idle" => r = q

\* What is persisted was computed from exactly the files on record, all of them
\* valid, by the attempt the run was started with; a COMPLETED run has a result.
ResultMatchesEvidence ==
    /\ \A p \in results : p.from = files /\ p.by = issued /\ Usable(files)
    /\ \A p, q \in results : p = q
    /\ status = "COMPLETED" => results # {}

\* A caller that was told of success (executed, or replayed) was told the truth:
\* the run is COMPLETED, with its result, and stays so.
SuccessIsDurable ==
    \A r \in Requests : reply[r] = "success" => status = "COMPLETED" /\ results # {}

\* The stored lease never outlives the last renewal by more than Lease: a worker
\* that stopped renewing is seen as expired no later than that, whatever stale
\* values its heartbeat wrote and however often clients polled.
LeaseNeverOutlivesSilence == status = "RECONCILING" => lease + silence <= Lease

\* No step changes the row of a finished run: not a late worker, not its
\* heartbeat, not an upload, a validation or another reconcile.
FrozenStaysFrozen == [][(status \in Frozen) => (rowVars' = rowVars)]_vars

\* A started execution is finished, one way or the other, even if its worker dies.
Settles == status = "RECONCILING" ~> status \in Frozen

\* "The previous worker stopped renewing its execution lease." (the
\* failure_reason of an abandoned run): the newest renewal it committed is a whole
\* Lease old.
AbandonedOnlyAfterSilence ==
    [][status = "RECONCILING" /\ stage' = "abandoned" => silence = Lease]_vars

\* The run as its callers see it.
Phase == CASE status \in Open -> "open"
           [] status = "RECONCILING" -> "running"
           [] status = "COMPLETED" -> "completed"
           [] status = "FAILED" -> "failed"

Lifecycle == INSTANCE RunLifecycle WITH
    phase <- Phase, evidence <- files, published <- {p.from : p \in results}

\* RunExecution implements the life cycle its callers rely on.
ImplementsLifecycle == Lifecycle!Spec
===============================================================================
