-------------------------------- MODULE Analysis --------------------------------
(***************************************************************************)
(* The AI analyst (services/ai_analyst): after a run is persisted, and     *)
(* later for single cases on request, a model is asked which of the        *)
(* receipts that tie in a case it would look at first.  Its answer is      *)
(* validated, checked, and at best suggested to a reviewer.                *)
(*                                                                         *)
(* The provider may answer anything, late, wrongly or not at all.  The     *)
(* wording, tokens, cost and latency of an answer and the rows that only   *)
(* report on an analysis are left out.  What reviewers do with a           *)
(* suggestion is module Review.                                            *)
(***************************************************************************)
EXTENDS Engine

CONSTANTS
    MaxRetries,      \* ai_max_retries
    MaxCasesPerRun,  \* ai_max_cases_per_run
    MaxCandidates,   \* how many candidates a packet holds
    Unknown,         \* an identifier that is in no packet
    MaxRequests      \* bound: what is asked for when the run is over

VARIABLES
    todo,            \* cases prepared and not yet begun
    asking,          \* the case the provider is asked about, if any
    suggestions,     \* SUGGESTED edges
    requests

analysisVars == <<todo, asking, suggestions, requests>>
allVars == <<vars, analysisVars>>

AnalysisInit ==
    /\ Init
    /\ todo = {} /\ asking = {} /\ suggestions = {} /\ requests = 0

\* The row of a case and the snapshot of its records.
Persisted(id) == CHOOSE c \in result.cases : c.id = id
Snapshot(id) == CHOOSE c \in cases : c.id = id

UpdateCases(ids, state, level) ==
    result' = [result EXCEPT !.cases =
                 {IF c.id \in ids THEN [c EXCEPT !.state = state, !.level = level] ELSE c :
                    c \in result.cases}]

Idle == todo = {} /\ asking = {}

-------------------------------------------------------------------------------
(* Which cases, and what is known of them.                                  *)

IsEligible(c) ==
    c.state \in {"ACTIONABLE_EXCEPTION", "NEEDS_ANALYSIS"} /\ c.code = "AMBIGUOUS_CANDIDATES"

\* The run itself only has cases analyzed in which at least two candidates tie.
Selected ==
    {c.id : c \in {d \in cases : /\ d.state = "ACTIONABLE_EXCEPTION"
                                 /\ d.code = "AMBIGUOUS_CANDIDATES"
                                 /\ Cardinality(d.ambiguous) >= 2}}

Eligible == {c.id : c \in {d \in result.cases : IsEligible(d)}}

\* The receipts nothing was decided for, the rejected ones included.
Undecided(id) ==
    {c \in Within(Snapshot(id).entities, candidates) :
        c.relationship = "settlement_bank" /\ Decision(c) # "VERIFIED"}

Stronger(c, d) ==
    \/ RuleNumber(c) < RuleNumber(d)
    \/ RuleNumber(c) = RuleNumber(d) /\ Before(<<c.source, c.target>>, <<d.source, d.target>>)

Packet(id) ==
    LET offered == IF Undecided(id) # {} THEN Undecided(id)
                   ELSE Within(Snapshot(id).entities, candidates)
    IN  {c \in offered : Cardinality({d \in offered : Stronger(d, c)}) < MaxCandidates}

\* What a provider may say: which candidates, in which order, and whether everything
\* else in the answer, from its form to what it cites, is as demanded.
Answers(id) ==
    [flawless : BOOLEAN,
     ranked : {<<>>} \cup {<<c>> : c \in Packet(id) \cup {Unknown}}
                     \cup {<<c, c>> : c \in Packet(id)}]

\* validate_ai_response.
IsValid(answer, id) ==
    answer.flawless /\ Range(answer.ranked) \subseteq Packet(id) /\ IsInjective(answer.ranked)

\* The allocation is what both records say, and it is signed: a debit is no receipt.
Balances(c, s, b) ==
    s.amount # Null /\ b.amount # Null /\ c.amount = s.amount /\ s.amount = b.amount

\* Money of any day, as long as both days can be read.
BothDated(s, b) == SettlementDay(s) # Null /\ b.due # Null

\* The bank has the money on the day of the settlement or later.
NotBefore(s, b) == BothDated(s, b) /\ SettlementDay(s) <= b.due

\* Evidence of the case is read, not evidence of the run.
EvidenceOf(id) == {x.edge : x \in {y \in result.edges : y.case = id}}

ConflictsWith(c, e) ==
    /\ e.relationship = c.relationship
    /\ {e.source, e.target} \cap {c.source, c.target} # {}
    /\ ~(e.source = c.source /\ e.target = c.target)

\* verify_suggested_relationship.
VerifySuggested(c, id) ==
    LET case == Snapshot(id)
    IN  /\ c \in candidates
        /\ {c.source, c.target} \subseteq case.entities
        /\ c.relationship = "settlement_bank"
        /\ LET s == Record(case, c.source)
               b == Record(case, c.target)
           IN  /\ s.type = "settlements" /\ b.type = "bank_transactions"
               /\ Balances(c, s, b)
               /\ s.currency # Null /\ s.currency = b.currency
               /\ NotBefore(s, b)
        /\ ~\E e \in EvidenceOf(id) : ConflictsWith(c, e)

\* The candidate ranked first, if it passes.
Supported(answer, id) ==
    {c \in {answer.ranked[k] : k \in DOMAIN answer.ranked \cap {1}} \cap Undecided(id) :
        VerifySuggested(c, id)}

-------------------------------------------------------------------------------
(* Steps.                                                                   *)

\* select_ai_analysis_cases and prepare_cases; nothing is prepared when AI is disabled.
PrepareCases ==
    /\ stage = "persisted"
    /\ stage' = "ai_exception_analysis"
    /\ \/ UNCHANGED <<result, todo>>
       \/ \E chosen \in kSubset(Min({MaxCasesPerRun, Cardinality(Selected)}), Selected) :
             /\ todo' = chosen
             /\ UpdateCases(chosen, "NEEDS_ANALYSIS", "UNRESOLVED")
    /\ UNCHANGED <<files, records, cases, cash, matchingVars, asking, suggestions, requests>>

EndStage ==
    /\ stage = "ai_exception_analysis" /\ Idle
    /\ stage' = "analyzed"
    /\ UNCHANGED <<files, records, cases, cash, result, matchingVars, analysisVars>>

\* analyze_single, under the lock of the run.
Request(id) ==
    /\ stage = "analyzed" /\ Idle
    /\ requests < MaxRequests
    /\ id \in Eligible
    /\ requests' = requests + 1
    /\ todo' = {id}
    /\ UpdateCases({id}, "NEEDS_ANALYSIS", "UNRESOLVED")
    /\ UNCHANGED <<files, stage, records, cases, cash, matchingVars, asking, suggestions>>

Begin(id) ==
    /\ id \in todo /\ asking = {}
    /\ todo' = todo \ {id}
    /\ asking' = {[case |-> id, attempts |-> 0]}
    /\ UpdateCases({id}, "AI_ANALYSIS_PENDING", Persisted(id).level)
    /\ UNCHANGED <<files, stage, records, cases, cash, matchingVars, suggestions, requests>>

\* A failure that is reported and leaves the case as it is.
ReportOnly(id) ==
    /\ asking' = {}
    /\ UNCHANGED <<files, stage, records, cases, cash, result, matchingVars,
                   todo, suggestions, requests>>

\* _restore_exception: the deterministic result stands.
Restore(id) ==
    /\ asking' = {}
    /\ UpdateCases({id}, "ACTIONABLE_EXCEPTION", "UNRESOLVED")
    /\ UNCHANGED <<files, stage, records, cases, cash, matchingVars, todo, suggestions, requests>>

\* _persist_suggestion.
Suggest(id, c) ==
    /\ asking' = {}
    /\ suggestions' = suggestions \cup {[edge |-> EdgeOf(c), case |-> id]}
    /\ UpdateCases({id}, "SUGGESTED_FOR_REVIEW", "SUGGESTED")
    /\ UNCHANGED <<files, stage, records, cases, cash, matchingVars, todo, requests>>

Retry(a) ==
    /\ a.attempts < MaxRetries
    /\ asking' = {[a EXCEPT !.attempts = a.attempts + 1]}
    /\ UNCHANGED <<vars, todo, suggestions, requests>>

\* The packet is too large, the case cannot be read, or the suggestion cannot be
\* written.
AnalysisFails(a) == Restore(a.case)

\* A provider that takes too long is not asked again.
ProviderTimesOut(a) == Restore(a.case)

\* Errors of the provider that may pass are tried again, others end the analysis.
ProviderFails(a) == Retry(a) \/ Restore(a.case)

AnswerIsRejected(a, answer) ==
    /\ ~IsValid(answer, a.case)
    /\ IF a.attempts < MaxRetries THEN Retry(a) ELSE Restore(a.case)

AnswerIsUseless(a, answer) ==
    /\ IsValid(answer, a.case) /\ Supported(answer, a.case) = {}
    /\ Restore(a.case)

AnswerIsSuggested(a, answer) ==
    /\ IsValid(answer, a.case)
    /\ \E c \in Supported(answer, a.case) : Suggest(a.case, c)

Reconcile == Next /\ UNCHANGED analysisVars

Analyze ==
    \/ PrepareCases \/ EndStage
    \/ \E id \in todo : Begin(id)
    \/ \E a \in asking :
          \/ AnalysisFails(a) \/ ProviderTimesOut(a) \/ ProviderFails(a)
          \/ \E answer \in Answers(a.case) :
                AnswerIsRejected(a, answer) \/ AnswerIsUseless(a, answer)
                \/ AnswerIsSuggested(a, answer)

AnalysisNext == Reconcile \/ Analyze \/ \E id \in Eligible : Request(id)

\* One thread makes the analyses one after the other; every call of the provider ends
\* after timeout_seconds.  Nobody has to ask for another analysis.
AnalysisSpec == AnalysisInit /\ [][AnalysisNext]_allVars /\ WF_allVars(Analyze)

-------------------------------------------------------------------------------
(* Properties.                                                              *)

\* A case nobody has reviewed waits for it exactly if there is one suggestion, and
\* whatever the model answered, that is a credit of the whole settlement: money that
\* came in, in the currency of the settlement, not before it, and not yet used by the
\* evidence of the case.
SuggestionsAreReceipts ==
    /\ \A c \in {k \in result.cases : ~k.reviewed} :
          Cardinality({x \in suggestions : x.case = c.id})
            = IF c.state = "SUGGESTED_FOR_REVIEW" THEN 1 ELSE 0
    /\ \A x \in suggestions :
          \E s \in Settlements(Snapshot(x.case)),
             b \in OfType(Snapshot(x.case).records, "bank_transactions") :
                /\ x.edge.source = s.id /\ x.edge.target = b.id
                /\ b.signed = s.amount /\ x.edge.amount = s.amount
                /\ b.currency = s.currency
                /\ Null \notin {SettlementDay(s), b.due} /\ SettlementDay(s) <= b.due
                /\ \A e \in EvidenceOf(x.case) : e.relationship = "settlement_bank" =>
                      e.source # s.id /\ e.target # b.id

\* No case is left half-way, whether the provider answers, errs or falls silent.
HalfWay == \E c \in result.cases : c.state \in {"NEEDS_ANALYSIS", "AI_ANALYSIS_PENDING"}
EveryAnalysisEnds == HalfWay ~> ~HalfWay

\* Review takes the cases up as CaseOutcomes describes them: what it assumes of the cases
\* a run leaves behind is what the run leaves behind.
Outcome(c) ==
    LET case == Snapshot(c.id)
        suggested == c.state = "SUGGESTED_FOR_REVIEW"
    IN  [state |-> c.state, level |-> c.level, bucket |-> c.bucket,
         suggestion |-> IF suggested THEN "suggested" ELSE "none", ai |-> suggested,
         ambiguous |-> c.code = "AMBIGUOUS_CANDIDATES", residual |-> c.residual # 0,
         received |-> c.receipt = "CONFIRMED", proved |-> case.failed = {},
         provable |-> case.ambiguous # {}, owner |-> "default", task |-> FALSE]

Reviewed == INSTANCE CaseOutcomes
OutcomesAreReviewable ==
    stage = "analyzed" /\ Idle =>
        \A c \in {k \in result.cases : ~k.reviewed} : Outcome(c) \in Reviewed!Classified

\* AI-INV-007, "suggestion does not conflict with a verified allocation": no suggested
\* receipt is one that verified evidence of the run has used for another settlement.
SuggestionsAreFree ==
    \A x \in suggestions : ~\E e \in edges : ConflictsWith(x.edge, e)

=============================================================================
