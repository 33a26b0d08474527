------------------------------- MODULE Succession -------------------------------
(***************************************************************************)
(* A run and its successors: create_run with a parent_run_id, and what     *)
(* _carry_forward_review_state takes over from the parent                  *)
(* (services/reconciliation/run_service.py).                               *)
(*                                                                         *)
(* A frozen run may have one successor, so a lineage is numbered 1, 2, ... *)
(* and only its last run is ever executed.  When that run has persisted    *)
(* its cases, and before it commits them, it copies explicit assignments   *)
(* and open tasks of the parent, provided nothing but the reviews could    *)
(* differ.  It reads the parent by three statements and without a lock,    *)
(* while people go on reviewing it.                                        *)
(***************************************************************************)
EXTENDS Integers, FiniteSets

CONSTANTS
    Cases,
    Owners,
    Nobody,      \* a NULL owner_role
    Default,     \* the owner the execution derives for each case
    Inputs,      \* dataset, policy and what the execution makes of them
    NoInput,
    MaxRuns,     \* how long a lineage gets
    MaxReviews   \* how many reviews there are, over all its runs

ASSUME CasesAssumption == IsFiniteSet(Cases)
ASSUME OwnersAssumption == Nobody \notin Owners /\ Default \in [Cases -> Owners \cup {Nobody}]
ASSUME InputsAssumption == NoInput \notin Inputs
ASSUME BoundsAssumption == MaxRuns \in Nat \ {0} /\ MaxReviews \in Nat

VARIABLES
    last,        \* the run that has no successor yet
    status, inputs,
    owner, decisions, tasks, revision,   \* each run's committed reviews
    \* The worker of the last run.
    pc, readOwners, readDecisions,
    \* History.
    reviews,     \* reviews so far; numbers the tasks
    before       \* the parent's reviews when a run was started

reviewVars == <<owner, decisions, tasks, revision>>
workerVars == <<pc, readOwners, readDecisions>>
vars == <<last, status, inputs, reviewVars, workerVars, reviews, before>>

Runs == 1..MaxRuns
Frozen == {"COMPLETED", "FAILED"}

\* A human_decisions row.  Its revision is that of the run when it was recorded;
\* "cites" is the decision a carried one is said to come from.  Its owner is kept
\* in the audit trail.
Decision == [case : Cases, action : {"ASSIGN", "CARRY_FORWARD_ASSIGNMENT"},
             owner : Owners, revision : Nat, cites : Nat]

Task == [case : Cases, origin : Nat]

TypeOK ==
    /\ last \in Runs
    /\ status \in [Runs -> {"none", "open", "running"} \cup Frozen]
    /\ inputs \in [Runs -> Inputs \cup {NoInput}]
    /\ owner \in [Runs -> [Cases -> Owners \cup {Nobody}]]
    /\ decisions \in [Runs -> SUBSET Decision]
    /\ tasks \in [Runs -> SUBSET Task]
    /\ revision \in [Runs -> Nat]
    /\ pc \in {"idle", "persisting", "cases", "decisions", "published"}
    /\ readOwners \in [Cases -> Owners \cup {Nobody}]
    /\ readDecisions \subseteq Decision
    /\ reviews \in 0..MaxReviews
    /\ before \in [Runs -> [decisions : SUBSET Decision, tasks : SUBSET Task]]

Nothing == [decisions |-> {}, tasks |-> {}]

Init ==
    /\ last = 1
    /\ status = [n \in Runs |-> IF n = 1 THEN "open" ELSE "none"]
    /\ inputs = [n \in Runs |-> NoInput]
    /\ owner = [n \in Runs |-> Default]
    /\ decisions = [n \in Runs |-> {}]
    /\ tasks = [n \in Runs |-> {}]
    /\ revision = [n \in Runs |-> 0]
    /\ pc = "idle"
    /\ readOwners = Default
    /\ readDecisions = {}
    /\ reviews = 0
    /\ before = [n \in Runs |-> Nothing]

-------------------------------------------------------------------------------
(* create_run, under the row lock of the parent.                            *)

CreateSuccessor ==
    /\ last < MaxRuns
    /\ status[last] \in Frozen
    /\ last' = last + 1
    /\ status' = [status EXCEPT ![last + 1] = "open"]
    /\ UNCHANGED <<inputs, reviewVars, workerVars, reviews, before>>

-------------------------------------------------------------------------------
(* The execution of the last run, as far as reviews are concerned.          *)

Parent == last - 1

\* Evidence is supplied, and the execution starts.
Start(i) ==
    /\ status[last] = "open"
    /\ status' = [status EXCEPT ![last] = "running"]
    /\ inputs' = [inputs EXCEPT ![last] = i]
    /\ pc' = "persisting"
    /\ before' = IF last = 1 THEN before
                 ELSE [before EXCEPT ![last] =
                        [decisions |-> decisions[Parent], tasks |-> tasks[Parent]]]
    /\ UNCHANGED <<last, reviewVars, readOwners, readDecisions, reviews>>

\* The parent's completeness alone.
UnchangedIfComplete(n) == n > 1 /\ status[n - 1] = "COMPLETED"

\* Same dataset, policy and result as the parent.
Unchanged(n) == n > 1 /\ status[n - 1] = "COMPLETED" /\ inputs[n - 1] = inputs[n]

ReadCases ==
    /\ pc = "persisting"
    /\ Unchanged(last)
    /\ readOwners' = owner[Parent]
    /\ pc' = "cases"
    /\ UNCHANGED <<last, status, inputs, reviewVars, readDecisions, reviews, before>>

ReadDecisions ==
    /\ pc = "cases"
    /\ readDecisions' = {d \in decisions[Parent] : d.action = "ASSIGN"}
    /\ pc' = "decisions"
    /\ UNCHANGED <<last, status, inputs, reviewVars, readOwners, reviews, before>>

\* The assigned cases, whether or not they were read with an owner.
CarriedIfAssigned == {c \in Cases : \E d \in readDecisions : d.case = c}

\* Only owners the execution would not derive anyway.
CarriedIfNew ==
    {c \in Cases : readOwners[c] \notin {Nobody, Default[c]} /\ \E d \in readDecisions : d.case = c}

\* The cases with an explicit assignment.
Carried == {c \in Cases : readOwners[c] # Nobody /\ \E d \in readDecisions : d.case = c}

\* The latest one.  A decision is recorded under the row lock at a revision its author
\* had seen, so creation times order them as revisions do.
Source(c) ==
    CHOOSE d \in readDecisions :
        d.case = c /\ \A e \in readDecisions : e.case = c => e.revision <= d.revision

\* Decisions carried without counting them as reviews.
CarryUncounted(c, i) ==
    [case |-> c, action |-> "CARRY_FORWARD_ASSIGNMENT", owner |-> readOwners[c],
     revision |-> revision[last], cites |-> Source(c).revision]

\* The i-th case that is carried.
Carry(c, i) ==
    [case |-> c, action |-> "CARRY_FORWARD_ASSIGNMENT", owner |-> readOwners[c],
     revision |-> revision[last] + i, cites |-> Source(c).revision]

\* The open tasks of cases whose assignment is carried.
CarriedTasksIfAssigned == {t \in tasks[Parent] : t.case \in Carried}

CarriedTasks == tasks[Parent]

\* The last of the reads, and the commit of cases and reviews.
PublishCarried ==
    /\ pc = "decisions"
    /\ \E i \in [Carried -> 1..Cardinality(Carried)] :
         /\ \A c, d \in Carried : i[c] = i[d] => c = d
         /\ decisions' = [decisions EXCEPT ![last] = {Carry(c, i[c]) : c \in Carried}]
    /\ owner' = [owner EXCEPT ![last] =
                   [c \in Cases |-> IF c \in Carried THEN readOwners[c] ELSE Default[c]]]
    /\ revision' = [revision EXCEPT ![last] = @ + Cardinality(Carried)]
    /\ tasks' = [tasks EXCEPT ![last] = CarriedTasks]
    /\ pc' = "published"
    /\ UNCHANGED <<last, status, inputs, readOwners, readDecisions, reviews, before>>

\* REVIEW_CARRY_FORWARD_SKIPPED, or no parent: the cases as they are derived.
PublishDerived ==
    /\ pc = "persisting"
    /\ ~Unchanged(last)
    /\ pc' = "published"
    /\ UNCHANGED <<last, status, inputs, reviewVars, readOwners, readDecisions, reviews, before>>

Stop(s) ==
    /\ status' = [status EXCEPT ![last] = s]
    /\ pc' = "idle"
    /\ readOwners' = Default
    /\ readDecisions' = {}
    /\ UNCHANGED <<last, inputs, reviewVars, reviews, before>>

Complete == pc = "published" /\ Stop("COMPLETED")

\* It fails, or is found abandoned; what was published stays.
Fail == pc # "idle" /\ Stop("FAILED")

-------------------------------------------------------------------------------
(* Reviews, of any COMPLETED run: that it has a successor is no obstacle.   *)

Reviewable(n) ==
    /\ status[n] = "COMPLETED"
    /\ reviews < MaxReviews
    /\ reviews' = reviews + 1
    /\ revision' = [revision EXCEPT ![n] = @ + 1]

Assign(n, c, o) ==
    /\ Reviewable(n)
    /\ owner' = [owner EXCEPT ![n][c] = o]
    /\ decisions' = [decisions EXCEPT ![n] = @ \cup
                       {[case |-> c, action |-> "ASSIGN", owner |-> o,
                         revision |-> revision[n] + 1, cites |-> 0]}]
    /\ UNCHANGED <<last, status, inputs, tasks, workerVars, before>>

CreateTask(n, c) ==
    /\ Reviewable(n)
    /\ tasks' = [tasks EXCEPT ![n] = @ \cup {[case |-> c, origin |-> reviews + 1]}]
    /\ UNCHANGED <<last, status, inputs, owner, decisions, workerVars, before>>

-------------------------------------------------------------------------------
Execution ==
    \/ \E i \in Inputs : Start(i)
    \/ ReadCases
    \/ ReadDecisions
    \/ PublishCarried
    \/ PublishDerived
    \/ Complete
    \/ Fail

Review ==
    \E n \in Runs, c \in Cases : CreateTask(n, c) \/ \E o \in Owners : Assign(n, c, o)

Next == CreateSuccessor \/ Execution \/ Review

Spec == Init /\ [][Next]_vars

-------------------------------------------------------------------------------
(* Properties.                                                              *)

Explicit(D, c) == {d \in D : d.case = c /\ d.action = "ASSIGN"}

\* "Only an explicit assignment backed by identical policy, inputs, baseline result,
\* and case evidence can cross the execution boundary." (_carry_forward_review_state)
OnlyExplicitCrosses ==
    \A n \in Runs : \A d \in decisions[n] :
        d.action = "CARRY_FORWARD_ASSIGNMENT" =>
            /\ n > 1 /\ status[n - 1] = "COMPLETED" /\ inputs[n - 1] = inputs[n]
            /\ \E s \in Explicit(decisions[n - 1], d.case) : s.revision = d.cites

\* What was assigned in a completed run before its successor was started is not lost
\* on the way, nor replaced by what the execution derives: the successor says so, and
\* its owner is one that somebody assigned, for all that is assigned meanwhile.
AssignmentsSurvive ==
    \A n \in Runs : status[n] = "COMPLETED" /\ Unchanged(n) =>
        \A c \in Cases : Explicit(before[n].decisions, c) # {} =>
            \E d \in decisions[n] :
                /\ d.case = c /\ d.action = "CARRY_FORWARD_ASSIGNMENT"
                /\ \E s \in Explicit(decisions[n - 1], c) : s.owner = d.owner

\* The same of open tasks, whether or not their case was assigned to somebody.
TasksSurvive ==
    \A n \in Runs : status[n] = "COMPLETED" /\ Unchanged(n) =>
        before[n].tasks \subseteq tasks[n]

\* A revision is that of one decision, carried or not: it identifies what a reviewer
\* has seen in the successor as it does in a first run.
DecisionsAreNumbered ==
    \A n \in Runs : \A d, e \in decisions[n] :
        /\ d.revision \in 1..revision[n]
        /\ d.revision = e.revision => d = e

\* "rerun never silently removes assigned ownership" (docs/REVIEW_2026-09-05.md): who
\* owned a case by assignment, first-hand or carried, owns it in the successor.
OwnershipSurvives ==
    \A n \in Runs : status[n] = "COMPLETED" /\ Unchanged(n) =>
        \A d \in before[n].decisions : \E e \in decisions[n] : e.case = d.case
===============================================================================
