# ClearLedger in TLA+

ClearLedger reconciles what a merchant sold with what a payment provider settled
and what the bank received. A *run* collects source files, is executed once by a
deterministic pipeline, and leaves *cases* that people then review, with or
without the help of an AI analyst. This directory holds a model of the parts of
that system where order, time, failure and concurrency decide whether it is
correct, the TLC runs that check it on small instances, and proofs that hold for
every instance. Paths below are relative to `src/`.

## 1. Inventory

### Components, state and operations

| Component | State | Operations | Correct when |
|---|---|---|---|
| Run execution (`services/reconciliation/run_service.py`) | the row of `reconciliation_runs` (status, stage, attempt token, lease, revisions), source files, persisted cases, one heartbeat task per worker | `create_run`, `add_files_to_run`, `validate_run`, `execute_reconciliation`, `_record_progress`, `_persist_result`, `_execution_heartbeat`, `_run_ai_stage`, `_carry_forward_review_state` | a run is executed once, from the files on record; success is durable; a finished run is frozen; a dead worker's run is settled; a successor takes over explicit reviews and nothing else |
| Idempotency keys (`apps/api/app/idempotency.py`) | `idempotency_records` (state, checksum, claim token, lease), claims and heartbeats of each session | `replay_response`, `store_response`, `abandon_idempotency_claims` | the work of a key is committed once, with its response, and replayed to the same body only |
| Session life cycle (`apps/api/app/dependencies.py`, `db/session.py`) | one open transaction per request | commit, rollback, release of claims | what failed is rolled back |
| Review (`services/reconciliation/review_service.py`, `apps/api/app/routes/review.py`) | cases, evidence edges, decisions, tasks, the run's `review_revision` and aggregates | `approve`, `reject`, `defer`, `assign`, `create_task`, `recalculate_aggregates` | decisions are made on what was seen; totals match cases; cash is proved |
| AI analyst (`services/ai_analyst`, `apps/api/app/routes/ai.py`) | suggestions and analyses of a case | `analyze_single`, `analyze_unresolved_cases` | it suggests, never decides; a case is never left half-analyzed |
| Web client (`apps/web`) | query cache, pending mutation keys | review dialog, uploads, reconcile | retries repeat a mutation, never duplicate it |
| Reconciliation engine (`services/reconciliation`: `orchestrator.py`, `candidates.py`, `rules.py`, `evidence.py`, `invariants.py`, `exceptions.py`) | the evidence graph of a call | `run_reconciliation` | money is allocated once, evidence does not depend on the order of rows, cases partition the records, confirmed cash is in the bank |
| Cash position (`services/cash_position`) | none | buckets, forecast, tax audit | no paise is lost or counted twice |
| Ingestion, normalization (`services/ingestion`, `services/normalization`) | none | CSV files to normalized records | every row is used or rejected with a reason |
| Reporting (`services/reporting`) | none | control package and its verifier | the package of a completed run can be checked without the program |
| Evaluation | none | metrics of a finished run against ground truth | - |
| Persistence (`db`) | PostgreSQL | repositories, migrations | row locks, unique constraints |
| Generator, evaluator, deployment, scripts | none | demo data, benchmarks | - |

### Interactions

A request of the web client carries an idempotency key. Its route claims the key
(committed at once), calls the service, whose statements stay in the open
transaction of the request, and publishes work and response with one commit. Run
execution is the exception: it commits its progress as it goes, on the session of
the request, from a pipeline thread, while a heartbeat task renews the lease on a
connection of its own. Review and analysis serialize on the row lock of the run.
The AI provider is called with that lock held.

### What is hard about it

* Requests, workers and heartbeats interleave at every `await`; what they share is
  rows, fenced by tokens and locks.
* A worker may die at any point; its transaction is rolled back, what it committed
  (the RECONCILING row, the claim) stays until a lease runs out.
* A worker that is slow looks like one that is dead, and comes back.
* An answer may be lost; clients try again, with the same key or another.
* A page is old when its reader decides.
* The engine is sequential, but its input is not under control: identifiers are missing,
  doubled and misspelt, receipts tie, and what one stage leaves (an edge across two cases, a
  case id twice, a row without an identifier) another one has to live with.
* The model that is asked about ties may answer anything, late, or not at all.

`PROJECT.json` lists every hazard at its line, with the properties that cover it.

## 2. The modules

| Module | Models | Checked by | Proved in |
|---|---|---|---|
| `RunLifecycle` | what a run promises its callers (abstract) | `execution` | `RunExecutionProofs` |
| `RunExecution` | one run: requests, its worker, its heartbeat | `MCRunExecution` | `RunExecutionProofs` |
| `OnceOnly` | what an idempotency key promises (abstract) | `idempotency` | `IdempotencyProofs` |
| `Idempotency` | one key: claims, waiting, take-over, abandonment | `MCIdempotency` | `IdempotencyProofs` |
| `CaseOutcomes` | the cases a run leaves behind, as review takes them up | `engine`, `review` | `ReviewProofs` |
| `Review` | the cases of one COMPLETED run, reviewers, analysts | `MCReview` | `ReviewProofs` |
| `Succession` | a run, its successors, and the reviews they carry forward | `MCSuccession` | `SuccessionProofs` |
| `Policy` | calendar, settlement days, expected fee and tax | `MCEngine` | `CaseProofs` |
| `Ingestion` | files to normalized records | `MCEngine` | `CaseProofs` |
| `Candidates` | the relationships worth testing | `MCEngine` | `CaseProofs` |
| `Allocation` | what matching promises (abstract) | `engine` | `MatchingProofs`, `EngineProofs` |
| `MatchingRules`, `Matching` | the rules in their order, the evidence graph | `MCEngine` | `MatchingProofs`, `EngineProofs` |
| `Cases` | grouping, invariants, residual, classification | `MCEngine` | `CaseProofs`, `EngineProofs` |
| `CashPosition` | buckets, forecast, tax audit | `MCEngine` | `SumProofs`, `CaseProofs`, `EngineProofs` |
| `Engine` | the stages above, in the order of a run, and what is persisted | `MCEngine` | `EngineProofs` |
| `Analysis` | `Engine`, then the AI analyst and its provider | `MCEngine` | `EngineProofs` |
| `ControlPackage` | `Analysis`, then reviews of its cases, and the export with its verifier | `MCEngine` | `EngineProofs` |

`ControlPackage` extends `Analysis`, which extends `Engine`, which extends the modules of the
stages: a run of it leads from the files to the export. `CaseOutcomes` is where this chain and
`Review` meet: `OutcomesAreReviewable` checks that the chain only leaves what `Review` assumes.

Each module has sections in the order of the code. `PROJECT.json` maps every
definition to its lines. Definitions that precede another one and whose comment
describes an error (`FenceOnStatusOnly` before `Fence`) are plausible bugs: each
property is checked to fail when one of them takes the place of its neighbour.

### RunExecution

State: the columns of the row (`status`, `stage`, `token`, `lease`), the `files`
on record (absent, valid or invalid, per source type), the persisted `results`
with the files they came from, and the request that holds the row `lock`. Each
request has its stack frame (`pc`, `mine`, `reports`, `read`, `reply`) and each
worker its heartbeat (`hb`, `hbLease`); `late` is a pipeline thread whose request was cancelled.

* Atomicity. A handler that locks the row with its first statement and ends by
  committing is one action (`AddFiles`, `ValidateRun`, `Execute...`). The worker is
  cut at every commit and wherever it starts to hold the lock: validation holds it
  from `BeginValidation` to the first `RecordProgress`, persistence from
  `PersistResult` to the next. What it wrote in between is not in the committed
  variables; `TxnStatus` is what the writer itself sees.
* Time. A lease is the number of ticks that are left, so the clock never grows.
  `hbLease` is an expiry that the heartbeat has computed and not yet written.
* Failure. `WorkerRaises` is any exception of the `try` block; `RecordFailure` and
  `CommitFailure` are the UPDATE and the commit of the handler; `Crash` is the death of the
  process, or a handler that cannot use the session. `HeartbeatDies` covers every exception
  of the heartbeat, which the code logs and forgets.
* The thread of a cancelled request (`WorkerCancelled`). A cancellation ends the await of
  `asyncio.to_thread` and not the thread, which goes on scheduling `_record_progress` on the
  request's session, up to the stage "cash_position": before the failure UPDATE, between it
  and its commit, or after the request has gone. `LateReport` renews the lease of the run as
  long as its attempt owns it; `LateReportRefused` rolls the session back, and with it the
  failure that the handler has written and not committed. The run is then RECONCILING with
  nobody at work, until its lease runs out. Two statements that overlap within the driver
  are refused by it: for the handler that is `Crash`, for the thread it is silence.
* `PersistResult` holds the row lock from its first statement; the code takes it with the
  first flush (line 1209). Before that it reads, and writes nothing that others see.
* History. `issued` counts the tokens drawn, `silence` is the age of the newest
  renewal committed. No action reads them.
* Left out: what the pipeline computes (`results` records its input), the parts of
  `_run_ai_stage` that touch cases, the file system; `_carry_forward_review_state` is the
  subject of `Succession`.

### Idempotency

State: the committed row, `effects` (how often the work of the route has been
committed), each request (`pc`, `sends`, `reply`), the rows that were `seen`
expired and still exist (the take-over names the row by id), and heartbeats.
`Claim` is the INSERT, `LookAgain`, `LookConflict`, `LookReplay` and `LookExpired`
are the outcomes of the SELECT that follows a failed INSERT, `Recover` the
compare-and-set, which grants what is left of a lease whose end was computed before the
waiting (line 192), `Store` the commit of work and response. `Cancel` is the
cancellation of a task by the server, allowed by the constant `Cancellable`.
A fresh token per claim is represented by the request: a request claims anew only
after its old claim is gone, and nothing else distinguishes tokens.
`MaxSends` bounds how often a client repeats a request. `OnceOnly` counts how `times` the work
was published, which is `effects`: a second publication is no step of it.

### Review

State: `revision`, `cases`, `totals` (the projection metrics and cash position
were last computed from), the analyst that holds the row `lock`, what each reviewer
looked at and is about to send (`intent`), and `requests` sent so far.

* A case is the fields that decisions read or write. `proved`, `provable` stand for
  the verdict of `verify_case` over its verified evidence, without and with the
  suggested edge; `ambiguous` for the exception code AMBIGUOUS_CANDIDATES.
  `Classified` (in `CaseOutcomes`) says which combinations an execution can leave; TLC is
  given one of each kind (`MCReview`), the proofs any subset of them.
* A decision is one action because the row lock is held from the read of the case to
  the commit. An analysis is two (`BeginAnalysis`, `FinishAnalysis`) because the
  provider is asked in between, or one and a death (`AnalysisDies`).
* `Dialog` is the set of reviewers who use the dialog of the web app, which
  refetches the revision when it submits. The others name the revision they saw.
* The idempotency key is what `Idempotency` shows of it: `stored` is the body that
  has been answered under the present key. Cancellation by the server is not
  modelled here a second time; the run `idempotency_cancel_loses` is about it.
* `Look` reads case and revision together, as the receipt does under a shared row
  lock. The case page fetches them by two requests, which is weaker: what holds of
  `Look` may fail for such a page, and what fails fails all the more.
* History. `intent.fresh` (the case is as it was seen), `intent.decided` (decisions
  recorded for this intent) and `refused` are read by no guard.
* `MaxRequests` bounds the requests sent, over all people.

### Succession

State: `status`, `inputs` and the reviews of each run (`owner` of each case, `decisions`,
open `tasks`, `revision`), the number of the `last` run, and of its worker the position
`pc` and what it has read of the parent (`readOwners`, `readDecisions`).

* Runs are numbered: `create_run` refuses a parent that is not frozen or has a child
  already, under the parent's row lock, so a lineage is a chain and only its last run is
  executed. A chain goes on after a FAILED run, from which nothing is carried.
* `inputs` stands for dataset, policy snapshot and result checksum, which
  `Unchanged` compares. With equal inputs the pipeline leaves equal cases, so the check of
  `case_evidence_changed` never skips one.
* `_carry_forward_review_state` reads the parent's cases, its ASSIGN decisions and its open
  tasks by three statements, each with the snapshot of its own that READ COMMITTED gives it.
  `ReadCases` and `ReadDecisions` are the first two; the third and the commit are
  `PublishCarried`, because nobody can tell when the last read took place: what others write
  meanwhile is neither seen nor overwritten.
* `Assign` and `CreateTask` review any COMPLETED run, the one being succeeded included. The
  other decisions do not touch owners or tasks in a way that is carried.
* The order of `Source` is that of `created_at`, the start of the transaction that made the
  decision. Revisions give the same order: a decision names the revision its author had
  seen, so its transaction starts after the one that made that revision has committed.
* History. `before` is what the parent had when its successor was started, `reviews`
  numbers the tasks. No guard but the bound `MaxReviews` reads them.

### The engine: Policy to Engine

State: the uploaded `files`, the `stage`, the normalized `records`, the `candidates` and the
evidence graph of `Matching` (`available`, `allocated`, `edges`, `rule`, `queue`, `rejected`,
`ambiguous`), `cases`, `cash`, and the persisted `result`.

* Data. A row is a record of the values its columns mean; identifiers are numbers (the one
  `normalize_id` makes of the text, with `spelling` to tell texts apart), days are numbers,
  amounts are paise. `flaw` says what in a row cannot be read, `cells` whether the row is shorter
  or longer than the header, or so short that it has no cell for its identifier and reading it
  raises (`Raises`, `ingestion/service.py:290`): such files never get past `Validate`. `columns`
  says which type the header of a file looks like.
* Stages are actions (`Validate` ... `PersistResult`), in the one order the code has; within
  `Match`, a rule first looks at all its candidates (`ApplyRule`) and then accepts them one by one
  (`Accept`, `Refuse`) **in any order**, where the code takes the order of the rows. What is checked
  and proved of matching therefore depends on no order.
* Grouping follows the union-find of the code link by link (`Root`, `Union`), and the property
  compares it with reachability. Invariants, residual and classification are functions of
  a case, in the order of the code's early returns.
* `Collides` is what the unique constraints refuse at `_persist_result`; the run then fails.
* Left out: explanations, log lines, the digests, and the characters of dates, amounts and
  narrations (a bank row is given its UTRs and references).

### Analysis

State: `todo` (cases prepared), `asking` (the case the provider is asked about and the attempts
so far), `suggestions`, `requests`. `Packet` is what is offered to the model, `Answers` what it may
say: any ranking of the packet, a foreign or repeated identifier, or an answer that is flawed
in any other way. Errors of the provider that may pass are retried at most `MaxRetries` times, a
timeout is not; whatever is left falls back to `Restore`. `VerifySuggested` is AI-INV-001 to 007.

### ControlPackage

`Approve` and `TurnDown` are the decisions of `Review` once more, now with the data: re-verification
of the case over records and evidence, promotion of the suggested edge, the stored invariants, and
`RecalculateAggregates`. `BuildControlPackage` is the export, `VerifyPackage` the verifier that ships
for recipients; it computes rows, contributions and sums by its own code, and that is how it is
modelled. Digests of what the package contains itself are left out.

## 3. What is checked

| Run | Question | Bounds | Result |
|---|---|---|---|
| `execution` | Is a run executed once, honestly, and settled? Does it implement `RunLifecycle`? | 3 requests, 2 source types, lease 3 | holds |
| `execution_silence` | Is a run abandoned only if its worker stopped renewing? | the same, 2 requests or fewer suffice | violated |
| `idempotency` | Is the work of a key committed once? Does it implement `OnceOnly`? Does every request end? | 3 requests, 2 bodies, 2 sends each, lease 2 | holds without cancellation |
| `idempotency_cancel` | Is a replayed success still the stored one when the server cancels requests? | the same | holds |
| `idempotency_cancel_loses` | Does cancellation publish work without a response? | the same | violated: it does |
| `review` | Do clients that name the revision they saw decide once, and on what they saw, while a user of the dialog and an analyst change the case? Are cash and refusals right whatever anybody sends? Is every request answered? | 1 case of 6 kinds, 2 reviewers, 1 analyst, 3 requests | holds |
| `review_dialog` | Does the dialog decide on what was seen? | 1 case, 2 reviewers, 2 requests | violated |
| `succession` | What do successors take over while their parents are reviewed? | 3 runs, 2 cases, 2 owners, 2 inputs, 3 reviews | explicit assignments and open tasks, whole and numbered |
| `succession_forgets` | Does an assignment survive every unchanged successor? | the same | violated: only the first |
| `engine` | Is evidence sound and independent of order, is every record in one case, every paise in one place, every suggestion a receipt, every analysis ended, every export verifiable? | 6142 initial states (below), 1 retry, 1 case per run, 2 requests after the run | holds |
| `engine_hides` | Is every record of a reconciled case covered by evidence? | the same | violated |
| `analysis_conflict` | Is a suggested receipt one that no other case has used? | the same | violated |

Why these bounds are enough to be interesting. Three requests on one run are a
worker, one that polls, abandons or replays, and a third between them; only one
attempt is ever started, so a second run of the pipeline needs no fourth. Lease 3
lets a heartbeat be late by one tick or two, and still be in time. For a key, three
requests are an owner, one that takes over and one that still waits or has another
body, and two sends let each of them return after it died. In `review` the properties are
about one case each, so there is one, and three requests are a decision, an intervening change
and a retry; several cases and their totals are in `engine` and in the proofs. Three runs are
what it takes to carry something twice; three reviews are an assignment, one that replaces it
while the worker reads, and a task. The safety properties of these modules do not depend on the
numbers: section 5.

The inputs of `engine` (`MCEngine`) are families of complete files, in both matching modes:

* `ReceiptFamily`: two life cycles of equal or different amounts and up to two receipts, each
  with the UTR or the reference of either settlement, both or none, of either amount, on either
  day: ties, splits, straddling evidence.
* `BatchFamily`: a settlement of two payments and up to three of 25 things that may be wrong with
  it (amounts, fees, taxes, identifiers twice or respelled, unreadable rows, statuses, days, missing,
  split, tied and stray receipts, taxes charged or credited to a payment nobody has, currency, a
  net of zero).
* `RespelledFamily`, `PendingFamily`, `TieFamily`: one identifier for two receipts, settlements
  whose receipts are still to come around weekends and a holiday, and receipts that tie within and
  across merchants, credits and debits.
* `FileFamily`: a file with the columns of another, without some, with rows of another type, short,
  cut and long rows, or none.

Each family contains inputs for which the mutants in `PROJECT.json` break the properties they
are for. `MaxRequests` = 2 is a request and a decision about its outcome, or two decisions.

Deadlock is not checked in `idempotency*`, `review*`, `succession*` and the runs of the engine,
where everything asked for may be done. It is in `execution`.

### Fairness

* `RunExecution`: a worker that is alive makes its next step (the event loop and the
  database schedule it), time passes, and somebody calls reconcile while the lease of
  a run has run out. The last is an assumption about clients, and needed: no job of
  the server looks for abandoned runs. Heartbeats, uploads, exceptions, crashes and the
  reports of a thread left behind are not fair; the latter end, with the stages of the pipeline.
* `Idempotency`: live requests go on (the wait loop polls for ever), time passes.
  `EveryRequestEnds` then holds because each claim is completed, abandoned or
  taken over; it says nothing about how long.
* `Review`: strong fairness of `Handle`, because a request waits for a row lock that
  others take and release, and PostgreSQL queues its waiters; weak fairness of the end
  of an analysis, because the AI client has a timeout.
* `Analysis`, `ControlPackage`: weak fairness of `Analyze`. One coroutine does the analyses one
  after the other, and each call of the provider ends, with an answer or after
  `timeout_seconds` (`client.py:143`). Nobody has to ask for an analysis or to review.

## 4. What does not hold

1. **A stale heartbeat shortens a lease** (`execution_silence`). `_execution_heartbeat`
   computes the expiry at `run_service.py:709`, then waits for a connection and for the
   row lock. A worker that persists holds that lock; when `_record_progress` has
   committed a new expiry the heartbeat overwrites it with the older one. The run can be
   frozen as abandoned ("The previous worker stopped renewing its execution lease.",
   line 488) though its worker renewed it a moment ago. `LeaseNeverOutlivesSilence` and
   `FrozenStaysFrozen` show the damage is limited to losing the execution.
2. **A cancelled request commits its work** (`idempotency_cancel_loses`).
   `CancelledError` passes `except Exception` at `dependencies.py:25`, and the commit in
   `abandon_idempotency_claims` that deletes the claim publishes what the request staged.
   A retry does it again.
3. **The dialog checks a revision nobody saw** (`review_dialog`). The review dialog
   refetches the run inside the mutation (`ReviewActionDialog.tsx:59`), so
   STALE_REVIEW_REVISION protects against changes of the last milliseconds only.
4. **An assignment is carried once** (`succession_forgets`). The query at
   `run_service.py:873` looks for ASSIGN decisions; a carried one is recorded as
   CARRY_FORWARD_ASSIGNMENT. The second successor of unchanged inputs gives the case back to
   the derived owner, and its report mentions it neither as carried nor as skipped, though
   "rerun never silently removes assigned ownership" (`docs/REVIEW_2026-09-05.md:185`).
5. **A reconciled case may hide a record** (`engine_hides`). `_has_complete_evidence`
   (`exceptions.py:43`) asks for one edge of each relationship, not for one per record: with a batch
   of two payments, an order or a payment that no evidence touches is RECONCILED with the rest,
   against the "row coverage" of `docs/REVIEW_2026-09-05.md:113`. `ConfirmedCashIsInTheBank`
   shows that the money is there all the same.
6. **A used receipt is suggested again** (`analysis_conflict`). The analyst checks a
   candidate against the evidence of its case (`service.py:342`); evidence of the amount rule that
   reaches into the case from another one is not read, so AI-INV-007 passes.

Met on the way, without a run:

* `docs/HARDENING_2026-09-05.md:10` says carrying decisions into a successor "is not implemented"
  (`run_service.py:815-987` implements it), line 11 speaks of an advisory lock where the code has
  claims with leases.
* A retried decision of the dialog has another body, as its revision is refetched; the server
  refuses it as a reused key, the client drops the key, and a third try records it again.
* A case assigned between the two reads of the parent is carried with the earlier owner and
  cites the later decision.
* A request that is cancelled during the pipeline may have the failure it recorded rolled back by a
  report of its thread (`run_service.py:684`), and still commit the audit event
  RECONCILIATION_FAILED; the run stays RECONCILING until its lease has run out.
* Settlements with a certain prefix are PENDING_WITHIN_SLA without a look at their date
  (`orchestrator.py:239`); the forecast then reports them as overdue.
* Two cases may derive one case id (`orchestrator.py:134`), and a file detected as a type that
  another file has leads to row numbers twice; in both cases the whole run fails when it is
  persisted (`PersistFails`).
* The tax audit takes the tax of a payment once per row, so a payment recorded twice is audited
  twice; `TaxIsAccountedFor` excludes it. A tax credited to a payment that the run does not have is
  in the recorded tax and in no other figure, as `tax_audit.py:275` only disputes what is positive;
  `TaxIsAccountedFor` counts it on its own. The residual of an ambiguous case is the amount of
  the first candidate in row order.
* A file uploaded as another type than it is, and rows with fewer or more cells than columns, make
  the control package fail its own verifier: `PackagesVerify` says that nothing else does.

## 5. What is proved

All theorems hold for every value of the constants that satisfies the named
assumptions of the module. Each proof is an inductive invariant, one step per action.

**RunExecutionProofs.** The invariant adds to `TypeOK` what the code never writes down:
tokens drawn are at most one, because `ExecuteStart` needs a status that no step returns
to; a request that works holds the only token ever drawn; while it is validating, persisting
or reporting, the lock is its own exactly when its transaction wrote something
(`LockFollowsFrame`); a thread left behind reports for the same token, beside a request that
records its failure or is gone (`LateThreads`); and what a worker has read are the files on
record, because uploads are refused once the run has started. `TypeCorrect`, `AlwaysRecoverable`, `SingleExecution`, `ResultsAreFaithful`,
`SuccessIsTruthful`, `FrozenForever`, `LeaseBound`, and `Refinement`: every step is one of
`RunLifecycle`, or stutters.

**IdempotencyProofs.** The invariant relates `effects` to the state of the row, and says that a
claim token is held by a request that works for it, or by a dead one. `TypeCorrect`,
`SuccessIsTruthful` and `ClaimsRespected` hold with and without cancellation;
`OnceWithoutCancellation` and `PromiseKept` assume `Cancellable = FALSE`, and finding 2 shows that
they must: a cancelled request publishes its work, and its retry publishes it again.

**ReviewProofs.** The invariant keeps each case in a set of consistent ones (`OutcomesSound`,
`ActedSound`, `AnalyzedSound` show that the outcomes of the execution are, and that decisions
and analyses preserve it), and says that an intent not newer than the revision has an honest
`fresh`, and that a stored answer belongs to a revision below the present one. `TypeCorrect`,
`AggregatesAreCurrent`, `RevisionIsSound`, `CashIsProved`, `RefusalIsFinal` and
`ReconciliationIsFinal` hold for all clients; `InformedOnce` and `InformedSee` hold of the clients
that name the revision they saw, whatever the users of the dialog do meanwhile, and finding 3
shows that they are false of the latter.

**SuccessionProofs.** Reviews go on while the worker reads, so the invariant rests on what only
grows: what a successor was started from is still among the parent's decisions and tasks
(`Kept`), each read has seen at least that (`Read`), and a run that has published nothing is
blank (`Blank`), so that numbering starts from zero. `OwnedAsAssigned` says that an owner read by
the first statement is backed by a decision the second will find. The choice of `Source` exists
because revisions are bounded (`Greatest`, from the well-foundedness of finite sets). `TypeCorrect`,
`OnlyExplicitCarried`, `AssignmentsAreKept`, `TasksAreKept`, `DecisionsNumbered`.

**MatchingProofs.** For any candidates, invalid entities and availability. A rule compares its
candidates with earlier evidence once, before the first is accepted; that nothing is allocated
twice rests on the queue: none of it touches evidence (`QueueIsFree`), no two of it conflict
(`QueueIsApart`). `NothingAllocatedTwice`; `MatchingAllocates`: the rules implement `Allocation`;
`NothingOverallocated` (INV-006). `MatchingIsDetermined` is confluence: the evidence is the one that
five applications of `After` compute at one stroke. Its invariant says that a rule in
progress has made evidence of exactly the winners that have left the queue (`InProgress`), and its
core (`RoomIsFixed`) that accepting one candidate does not change the room of another. It assumes
`Proper`: candidates join entities by integers, and no identifier is that of a settlement and of a
bank transaction, or else their availability would be shared and order would matter.

**SumProofs.** What amounts need: sums over finite sets exist, can be split at any element or
part, added, renamed, and taken over the parts of a family that share nothing. The
sums of the community modules are folds; a sum is unrolled once and for all as the function that
sums every subset (`SumExists`, `SumIsUnique`).

**CaseProofs.** Facts about rows, records, candidates, cases and cash that speak of no state.

* Every row of every file becomes a record whose identifier, place, amounts and days are numbers
  (`RecordsOfFiles`); a candidate joins two records of the kinds of its relationship
  (`CandidatesJoinRecords`), and one without a reason against it has their amount (`SupportedReceipt`).
* Union-find. A parent function is a forest if what is constant along parents is constant up to the
  root (`IsForest`); `Union` keeps it one (`UnionIs`) and its trees then connect one link more
  (`UnionConnects`). So the forest of all links connects exactly what they do, in whatever order they
  are taken (`JoinConnects`); reachability closes after as many steps as there are links.
* Cash. Cases divide the records, so each settlement counts once (`ConfirmedCash`); the
  next business day exists because holidays end and some weekday is open (`NextBusinessDayIs`),
  hence each settlement in transit lands on one side or the other of each day (`ForecastAddsUp`); a
  component is in the case of its payment, so tax is audited where it is recorded (`TaxAddsUp`).
* Outcomes. Whatever fails, classification leaves a state, a code and a bucket that fit together
  (`OutcomesAreSound`), and nothing is left of what passes all invariants (`NothingIsLeft`). Which
  invariants a case fails is a matter of its records and its evidence (`SameFailures`).

**EngineProofs.** Theorems of `ControlSpec`, i.e. of a run from any files through any answers of the
model and any decisions. Of all its steps only matching touches candidates, evidence and queue
(`OnlyMatchingMatches`), so a run is a run of `Matching` (`RunMatches`), and `RunAllocates`
and `RunStaysWithin` follow. The other invariants are layers:

* `RunInv`: each stage is a function of what the stage before it left. With the lemmas of
  `CaseProofs` it gives `CasesAreComponents`, `ForecastIsComplete`, `TaxIsAudited`; with
  `SupportedInv` (evidence and ties are of candidates that nothing speaks against) and `EvidenceInv`
  (no end is used twice) also `SafeCashIsInTheBank`.
* `RowsInv`: the rows in the database and the cases of the pipeline are one to one, and a row that
  was not reviewed differs from its case only by the state that analysis gives it, which tells
  whether it is in `todo` or in `asking`. Hence `RunIsReviewable`.
* `SuggestedInv`: a suggestion is a receipt of the whole settlement, unused by the evidence of its
  case, and goes with the one row that waits for its review; evidence that was not in the graph
  belongs to a reviewed case, which is not analyzed again: an approval takes its suggestion with
  it, so that no evidence it adds is the end of a suggestion left. Hence `ModelSuggestsReceipts`.
* `PackageInv`: a RECONCILED row has no residual and no failed invariant, every edge of the graph is
  on file, and the stored cash is that of the rows as they are, after every decision. An approval
  only promotes what `verify_case` has just passed over the evidence in the database, and then the
  case had not failed without it either (`PassedBefore`). With what the package says of files
  (`SourceIsCovered`, `MisfiledIsNoticed`, `RaggedIsNoticed`) this gives `PackagesCanBeChecked`.

Two theorems have a hypothesis about the files, because the code gives nothing better:

* `RunIsDetermined` needs `KindsApart`, that no identifier is that of records of two kinds (as the
  prefixes of the identifiers are meant to ensure): availability and allocation are kept per
  identifier, so that a settlement and a receipt of one identifier would share theirs, and the
  order of rows would decide. Files read as another type can violate it (`FileFamily`); for these
  `EvidenceIsDetermined` is only model-checked.
* `ModelSuggestsReceipts` needs `BankRowsAgree`, that the rows of a bank transaction agree on its
  currency and value date: a candidate is made of one row of an identifier and checked against the last. All
  inputs of `MCEngine` satisfy it.

The assumptions about constants are those of the code. Every identifier read is in `Entities`,
and a row that can be read has its amount, since the record classes require it
(`DatasetsAssumption`); `AsOf` is a day; holidays are a finite list and not all weekdays are
weekend, without which `next_business_day` would not return (`CalendarAssumption`); denominators
of rates are positive (`RatesAssumption`); `Null` is no number (`NullAssumption`), and case names
are derived from patterns (`CaseNameAssumption`).

Induction is nowhere taken from a theorem with an operator parameter. Where one is needed, over the
subsets of a finite set or over numbers, the fact is stated of a set `P` of what it holds of, and the
well-foundedness of strict inclusion does the rest (`SmallerSubsets`, `OneByOne`, `EveryNatural`).

Only model-checked: the liveness properties `Settles`, `EveryRequestEnds`,
`EveryRequestIsHandled` and `EveryAnalysisEnds`, since the prover handles neither fairness nor
ENABLED; `EvidenceIsDetermined` where identifiers are shared across kinds; and the findings, which
are counterexamples. Every safety property of a passing run is a theorem, the two hypotheses above
and `Cancellable = FALSE` for `PublishedTogether` and `KeepsPromise` apart.

## 6. What is not modelled

See "components" of `PROJECT.json`. In short:

* characters: parsing of dates, amounts and narrations, wording of explanations and prompts,
  rendering, digests;
* files on disk: a failed upload may leave one without a row, which no stage reads and the next
  upload replaces, and `_verify_source_hash` compares the others with their rows;
* connections and their pool, authentication, reads for display, grounded questions;
* the generator, the evaluator, migrations, deployment.

They keep no state of a run, or are better tested with examples.

## 7. Plan

Done: run execution, idempotency keys, review, succession, the engine from files to persisted
result, the analyst, reviews with their data, the control package, and the theorems of all of these. What would come next:

1. `KeyedRun`: `Idempotency` around `RunExecution`, whose reconcile route commits on its own.
2. The lineage of `Succession` as the snapshot of its parent (an abstract specification).
3. More rows per input: three settlements with receipts that tie in a ring.
