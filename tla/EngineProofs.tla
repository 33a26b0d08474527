------------------------------ MODULE EngineProofs ------------------------------
(***************************************************************************)
(* Proofs about the engine as a whole, for any files a run is given and    *)
(* whatever the model and the reviewers say about its cases: its evidence  *)
(* keeps the promise of Allocation and is determined by its candidates;    *)
(* cases are components; safe cash is in the bank, the forecast and the    *)
(* audit lose nothing; what is left is reviewable, suggestions are         *)
(* receipts, and the package can be checked.                               *)
(*                                                                         *)
(* The invariants that carry it: RunInv says that each stage is a function *)
(* of the one before it, EvidenceInv and SupportedInv (MatchingProofs)     *)
(* what matching leaves, RowsInv that the rows of the database and the     *)
(* cases of the pipeline belong together while analysts and reviewers      *)
(* move them, SuggestedInv and PackageInv what these add.  What no state   *)
(* is needed for is in CaseProofs.                                         *)
(***************************************************************************)
EXTENDS ControlPackage, MatchingProofs, CaseProofs

\* Of the steps of a run, its analyses and its reviews, only matching touches evidence.
LEMMA OnlyMatchingMatches ==
    ASSUME [ControlNext]_allVars
    PROVE  \/ MatchingStep
           \/ BeginMatching(candidates', invalid', available')
           \/ UNCHANGED matchingVars
  <1>1. CASE Match
    BY <1>1 DEF Match
  <1>2. CASE Generate
    BY <1>2 DEF Generate, BeginMatching
  <1>3. CASE Validate \/ Normalize \/ Classify \/ Account \/ PersistResult \/ PersistFails
    BY <1>3 DEF Validate, Normalize, Classify, Account, PersistResult, PersistFails,
                matchingVars, graphVars
  <1>4. CASE Analyze \/ \E id \in Eligible : Request(id)
    BY <1>4 DEF Analyze, PrepareCases, EndStage, Request, Begin, AnalysisFails, ProviderTimesOut,
                ProviderFails, AnswerIsRejected, AnswerIsUseless, AnswerIsSuggested, Restore,
                Retry, Suggest, vars, matchingVars, graphVars
  <1>5. CASE ReviewCase
    BY <1>5 DEF ReviewCase, Approve, TurnDown, Decide, matchingVars, graphVars
  <1>6. CASE UNCHANGED allVars
    BY <1>6 DEF allVars, vars, matchingVars, graphVars
  <1> QED
    BY <1>1, <1>2, <1>3, <1>4, <1>5, <1>6 DEF ControlNext, AnalysisNext, Reconcile, Next

\* Every step keeps evidence and queue apart, and is an allocation or none.
LEMMA EvidenceIsApart ==
    ASSUME EvidenceInv, [ControlNext]_allVars
    PROVE  EvidenceInv' /\ [Promise!Allocate]_allocations
  <1>1. CASE MatchingStep
    BY <1>1, StepKeepsApart, StepAllocates
  <1>2. CASE UNCHANGED <<queue, edges>>
    BY <1>2, UnchangedIsApart DEF allocations
  <1> QED BY <1>1, <1>2, OnlyMatchingMatches DEF BeginMatching, matchingVars, graphVars

\* A run, from its files to its control package, implements Allocation: its evidence only
\* grows, and never about a record that other evidence of the relationship has taken.
THEOREM RunAllocates == ControlSpec => Allocates
  <1>1. AnalysisInit => EvidenceInv /\ Promise!Init
    BY InitIsApart DEF AnalysisInit, Init, MatchingInit, Promise!Init, allocations
  <1>2. EvidenceInv /\ [ControlNext]_allVars => EvidenceInv' /\ [Promise!Allocate]_allocations
    BY EvidenceIsApart
  <1> QED BY <1>1, <1>2, PTL DEF ControlSpec, Allocates, Promise!Spec

(* What every stage leaves behind.                                          *)

BeforeRecords == {"uploaded", "validation_failed", "ingestion"}
BeforeMatching == BeforeRecords \cup {"candidate_generation"}
BeforeCases == BeforeMatching \cup {"matching_rules"}
InAnalysis == {"ai_exception_analysis", "analyzed"}
WithCases == {"cash_position", "reconciled", "failed", "persisted"} \cup InAnalysis

\* What classification has made of the groups once matching is done.
Classified ==
    /\ Matched
    /\ cases = {VerifiedCase(c, edges, Overallocated) :
                   c \in BuildCases(records, candidates, ambiguous)}

\* Every stage starts from what the stages before it have made of the files.
RunInv ==
    /\ files \in Datasets
    /\ stage \in BeforeCases \cup WithCases
    /\ records = IF stage \in BeforeRecords THEN {} ELSE NormalizeRecords(IngestedRows)
    /\ stage \in BeforeMatching <=> rule = -1
    /\ stage \notin BeforeMatching =>
          /\ candidates = GenerateCandidates(records)
          /\ invalid = InvalidEntities(records)
          /\ available = AvailableAmounts(records)
    /\ stage \in BeforeMatching =>
          candidates = {} /\ available = [e \in Entities |-> Unlimited]
    /\ stage \in WithCases => Classified
    /\ stage \in {"reconciled", "persisted"} => cash = CalculateCashPosition(cases)
    /\ stage \notin InAnalysis => Idle

\* A run starts with its files.
LEMMA RunInvStarts == AnalysisInit => RunInv
  BY DEF AnalysisInit, Init, MatchingInit, RunInv, BeforeRecords, BeforeMatching, BeforeCases,
         InAnalysis, WithCases, Idle

\* The same files are read as the same rows.
LEMMA SameFiles ==
    ASSUME UNCHANGED files
    PROVE  IngestedRows' = IngestedRows
  BY DEF IngestedRows

\* What does not touch the result of the stages keeps it, once there are cases.
LEMMA CasesStay ==
    ASSUME RunInv, stage \in WithCases, stage' \in WithCases,
           UNCHANGED <<files, records, cases, matchingVars>>,
           stage' \in {"reconciled", "persisted"} => cash' = CalculateCashPosition(cases),
           stage' \notin InAnalysis => Idle'
    PROVE  RunInv'
  <1>1. UNCHANGED <<mode, candidates, invalid, available, allocated, rule, queue, edges, ambiguous>>
    BY DEF matchingVars, graphVars, inputVars
  <1>2. IngestedRows' = IngestedRows
    BY SameFiles
  <1>3. Classified'
    BY <1>1 DEF RunInv, Classified, Matched, Overallocated
  <1>4. \A s \in WithCases : s \notin BeforeRecords /\ s \notin BeforeMatching
    BY DEF WithCases, InAnalysis, BeforeRecords, BeforeMatching
  <1>5. records' = NormalizeRecords(IngestedRows')
    BY <1>2, <1>4 DEF RunInv
  <1> QED BY <1>1, <1>3, <1>4, <1>5 DEF RunInv

\* Analyses and reviews leave alone what they start from.
LEMMA AnalysisStays ==
    ASSUME RunInv, Analyze \/ (\E id \in Eligible : Request(id)) \/ ReviewCase
    PROVE  /\ stage \in WithCases /\ stage' \in WithCases
           /\ UNCHANGED <<files, records, cases, matchingVars>>
           /\ stage' \in InAnalysis
  <1>0. stage \notin InAnalysis => todo = {} /\ asking = {}
    BY DEF RunInv, Idle
  <1>1. CASE PrepareCases \/ EndStage
    BY <1>1 DEF PrepareCases, EndStage, WithCases, InAnalysis
  <1>2. ASSUME NEW id \in todo, Begin(id)
        PROVE  UNCHANGED <<files, stage, records, cases, matchingVars>> /\ stage \in InAnalysis
    BY <1>0, <1>2 DEF Begin
  <1>3. ASSUME NEW a \in asking,
               \/ AnalysisFails(a) \/ ProviderTimesOut(a) \/ ProviderFails(a)
               \/ \E answer \in Answers(a.case) :
                     AnswerIsRejected(a, answer) \/ AnswerIsUseless(a, answer)
                     \/ AnswerIsSuggested(a, answer)
        PROVE  UNCHANGED <<files, stage, records, cases, matchingVars>> /\ stage \in InAnalysis
    BY <1>0, <1>3 DEF AnalysisFails, ProviderTimesOut, ProviderFails, AnswerIsRejected,
         AnswerIsUseless, AnswerIsSuggested, Restore, Retry, Suggest, vars, engineVars
  <1>4. ASSUME NEW id \in Eligible, Request(id)
        PROVE  UNCHANGED <<files, stage, records, cases, matchingVars>> /\ stage \in InAnalysis
    BY <1>4 DEF Request, InAnalysis
  <1>5. CASE ReviewCase
    BY <1>5 DEF ReviewCase, Approve, TurnDown, Decide, InAnalysis, WithCases
  <1> QED BY <1>1, <1>2, <1>3, <1>4, <1>5 DEF Analyze, WithCases

\* Every stage takes up what the one before it has left.
LEMMA RunInvStep ==
    ASSUME RunInv, [ControlNext]_allVars
    PROVE  RunInv'
  <1>1. CASE Reconcile /\ (Validate \/ Normalize)
    <2>1. IngestedRows' = IngestedRows
      BY <1>1, SameFiles DEF Validate, Normalize
    <2> QED BY <1>1, <2>1 DEF Reconcile, Validate, Normalize, RunInv, BeforeRecords, BeforeMatching,
               BeforeCases, InAnalysis, WithCases, matchingVars, graphVars, inputVars, Idle,
               analysisVars
  <1>2. CASE Reconcile /\ Generate
    <2>1. IngestedRows' = IngestedRows
      BY <1>2, SameFiles DEF Generate
    <2> QED BY <1>2, <2>1 DEF Reconcile, Generate, BeginMatching, RunInv, BeforeRecords, BeforeMatching,
               BeforeCases, InAnalysis, WithCases, Idle, analysisVars
  <1>3. CASE Reconcile /\ Match
    <2>1. IngestedRows' = IngestedRows
      BY <1>3, SameFiles DEF Match, engineVars
    <2>2. UNCHANGED <<candidates, invalid, available>>
      BY <1>3 DEF Match, MatchingStep, ApplyRule, Accept, Refuse, graphVars, inputVars
    <2>3. rule # -1 /\ rule' # -1
      <3>1. rule # -1
        BY <1>3 DEF RunInv, Match, BeforeRecords, BeforeMatching
      <3>2. CASE ApplyRule
        <4>1. rule \in 0..(LastRule(mode) - 1) /\ rule' = rule + 1
          BY <3>2 DEF ApplyRule
        <4> QED BY <3>1, <4>1
      <3> QED BY <1>3, <3>1, <3>2 DEF Match, MatchingStep, Accept, Refuse
    <2> QED BY <1>3, <2>1, <2>2, <2>3 DEF Reconcile, Match, engineVars, RunInv, BeforeRecords,
               BeforeMatching, BeforeCases, InAnalysis, WithCases, Idle, analysisVars
  <1>4. CASE Reconcile /\ Classify
    <2>1. IngestedRows' = IngestedRows
      BY <1>4, SameFiles DEF Classify
    <2>2. UNCHANGED <<mode, candidates, invalid, available, allocated, rule, queue, edges, ambiguous>>
      BY <1>4 DEF Classify, matchingVars, graphVars, inputVars
    <2>3. Classified'
      BY <1>4, <2>2 DEF Classify, Classified, Matched, Overallocated
    <2> QED BY <1>4, <2>1, <2>2, <2>3 DEF Reconcile, Classify, RunInv, BeforeRecords,
               BeforeMatching, BeforeCases, InAnalysis, WithCases, Idle, analysisVars
  <1>5. CASE Reconcile /\ (Account \/ PersistResult \/ PersistFails)
    <2>1. stage' \notin InAnalysis => Idle'
      BY <1>5 DEF Reconcile, Account, PersistResult, PersistFails, RunInv, InAnalysis, Idle,
                  analysisVars
    <2>2. /\ stage \in WithCases /\ stage' \in WithCases
          /\ UNCHANGED <<files, records, cases, matchingVars>>
          /\ stage' \in {"reconciled", "persisted"} => cash' = CalculateCashPosition(cases)
      BY <1>5 DEF Account, PersistResult, PersistFails, RunInv, WithCases
    <2> QED BY <2>1, <2>2, CasesStay
  <1>6. CASE Analyze \/ (\E id \in Eligible : Request(id)) \/ ReviewCase
    <2>1. stage' \notin {"reconciled", "persisted"}
      BY <1>6, AnalysisStays DEF InAnalysis
    <2> QED BY <1>6, <2>1, AnalysisStays, CasesStay
  <1>7. CASE UNCHANGED allVars
    <2>1. UNCHANGED <<files, stage, records, cases, cash, todo, asking, matchingVars>>
      BY <1>7 DEF allVars, vars, engineVars, analysisVars
    <2>2. IngestedRows' = IngestedRows
      BY <2>1, SameFiles
    <2>3. UNCHANGED <<mode, candidates, invalid, available, allocated, rule, queue, edges, ambiguous>>
      BY <2>1 DEF matchingVars, graphVars, inputVars
    <2>4. Classified => Classified'
      BY <2>1, <2>3 DEF Classified, Matched, Overallocated
    <2> QED BY <2>1, <2>2, <2>3, <2>4 DEF RunInv, Idle
  <1> QED BY <1>1, <1>2, <1>3, <1>4, <1>5, <1>6, <1>7 DEF ControlNext, AnalysisNext, Reconcile, Next

\* Every step leaves evidence and ties supported.
LEMMA SupportedStep ==
    ASSUME RunInv, SupportedInv, [ControlNext]_allVars
    PROVE  SupportedInv'
  <1>1. CASE Match
    <2>1. rule # -1
      BY <1>1 DEF RunInv, Match, BeforeMatching, BeforeRecords
    <2> QED BY <1>1, <2>1, StepIsSupported DEF Match
  <1>2. CASE BeginMatching(candidates', invalid', available')
    BY <1>2, BeginIsSupported
  <1>3. CASE UNCHANGED matchingVars
    BY <1>3, UnchangedIsSupported
  <1>4. Match \/ BeginMatching(candidates', invalid', available') \/ UNCHANGED matchingVars
    <2>1. CASE Generate
      BY <2>1 DEF Generate, BeginMatching
    <2>2. CASE Analyze \/ (\E id \in Eligible : Request(id)) \/ ReviewCase
      BY <2>2, AnalysisStays
    <2> QED BY <2>1, <2>2 DEF ControlNext, AnalysisNext, Reconcile, Next, Validate, Normalize,
               Classify, Account, PersistResult, PersistFails, allVars, vars
  <1> QED BY <1>1, <1>2, <1>3, <1>4

\* What holds throughout a run.
LEMMA EngineInvHolds == ControlSpec => [](RunInv /\ SupportedInv /\ EvidenceInv)
  <1>1. AnalysisInit => RunInv /\ SupportedInv /\ EvidenceInv
    BY RunInvStarts, InitIsSupported, InitIsApart DEF AnalysisInit, Init
  <1>2. RunInv /\ SupportedInv /\ EvidenceInv /\ [ControlNext]_allVars
          => (RunInv /\ SupportedInv /\ EvidenceInv)'
    BY RunInvStep, SupportedStep, EvidenceIsApart
  <1> QED BY <1>1, <1>2, PTL DEF ControlSpec

\* Records, and what matching leaves of them as evidence.
LEMMA RecordsRead ==
    ASSUME RunInv
    PROVE  /\ AreRecords(records)
           /\ \A r \in records : r.id \in Entities
  <1>1. CASE stage \in BeforeRecords
    BY <1>1, FS_EmptySet DEF RunInv, AreRecords
  <1>2. CASE stage \notin BeforeRecords
    <2>1. /\ files \in [TypeSet -> SourceFile]
          /\ \A t \in TypeSet : \A r \in IngestFile(files[t], t) : EntityId(r) \in Entities
      BY DatasetsAssumption DEF RunInv
    <2>2. records = NormalizeRecords(UNION {IngestFile(files[t], t) : t \in TypeSet})
      BY <1>2 DEF RunInv, IngestedRows
    <2>3. /\ AreRecords(records)
          /\ \A n \in records : \E r \in UNION {IngestFile(files[t], t) : t \in TypeSet} :
                n.id = EntityId(r)
      BY <2>1, <2>2, RecordsOfFiles
    <2> QED BY <2>1, <2>3
  <1> QED BY <1>1, <1>2

\* Evidence of receipts is of bank transactions and settlements of its amount.
LEMMA EvidenceRead ==
    ASSUME RunInv, SupportedInv
    PROVE  BankEvidence(edges, records) /\ IsFiniteSet(edges)
  <1> SUFFICES ASSUME NEW e \in edges, e.relationship = "settlement_bank"
               PROVE  /\ e.amount \in Int
                      /\ \E s \in OfType(records, "settlements") :
                            s.id = e.source /\ s.amount = e.amount
                      /\ \E b \in OfType(records, "bank_transactions") :
                            b.id = e.target /\ b.signed = e.amount
    BY DEF BankEvidence, SupportedInv
  <1>1. PICK c \in candidates : c.reasons = {} /\ e = EdgeOf(c)
    BY DEF SupportedInv, Supporting
  <1>2. /\ c.source = e.source /\ c.target = e.target /\ c.amount = e.amount
        /\ c.relationship = "settlement_bank"
    BY <1>1 DEF EdgeOf
  <1>3. candidates = GenerateCandidates(records)
    BY <1>1 DEF RunInv
  <1> QED BY <1>1, <1>2, <1>3, RecordsRead, SupportedReceipt

\* Safe cash is what the bank has: for any files, the amounts of the receipts that verified
\* evidence joins to reconciled settlements, each of them a bank transaction of its own.
THEOREM SafeCashIsInTheBank == ControlSpec => []ConfirmedCashIsInTheBank
  <1>1. ASSUME RunInv, SupportedInv, EvidenceInv
        PROVE  ConfirmedCashIsInTheBank
    <2> SUFFICES ASSUME stage \in {"reconciled", "persisted"} PROVE ConfirmedCashIsInTheBank
      BY DEF ConfirmedCashIsInTheBank
    <2> DEFINE C == BuildCases(records, candidates, ambiguous)
               over == Overallocated
               settled == {s.id : s \in UNION {Settlements(c) :
                                  c \in {d \in cases : d.state = "RECONCILED"}}}
               receipts == {e \in edges : e.relationship = "settlement_bank" /\ e.source \in settled}
    <2>1. /\ cases = {VerifiedCase(c, edges, over) : c \in C}
          /\ cash = CalculateCashPosition(cases)
      BY <1>1 DEF RunInv, Classified, WithCases
    <2>2. CasesDivide(C, records) /\ \A c \in C : IsBuilt(c)
      BY <1>1, RecordsRead, BuiltCases, CasesAreBuilt DEF AreRecords
    <2>3. BankEvidence(edges, records) /\ IsFiniteSet(edges)
      BY <1>1, EvidenceRead
    <2>4. \A e, g \in edges : e # g /\ e.relationship = g.relationship =>
             e.source # g.source /\ (e.relationship # "payment_settlement" => e.target # g.target)
      BY <1>1 DEF EvidenceInv, SingleAllocation
    <2>5. cash.safe = Allocated(receipts)
      <3> HIDE DEF C, over
      <3>1. \A e, g \in edges : e # g /\ e.relationship = g.relationship => e.source # g.source
        BY <2>4
      <3>2. LET V == {VerifiedCase(c, edges, over) : c \in C}
                paid == {s.id : s \in UNION {Settlements(c) :
                                   c \in {d \in V : d.state = "RECONCILED"}}}
            IN  CalculateCashPosition(V).safe
                  = Allocated({e \in edges : e.relationship = "settlement_bank" /\ e.source \in paid})
        BY <2>2, <2>3, <3>1, ConfirmedCash
      <3> QED BY <2>1, <3>2
    <2>6. /\ \A e \in receipts : \E b \in OfType(records, "bank_transactions") :
                b.id = e.target /\ b.signed = e.amount
          /\ \A e, f \in receipts : e.target = f.target => e = f
      BY <2>3, <2>4 DEF BankEvidence
    <2> HIDE DEF receipts
    <2> QED BY <2>5, <2>6 DEF ConfirmedCashIsInTheBank, receipts
  <1> QED BY <1>1, EngineInvHolds, PTL

\* The cases of a run, as what the lemmas of CaseProofs speak of.
LEMMA CasesRead ==
    ASSUME RunInv, stage \in WithCases
    PROVE  /\ CasesDivide(cases, records)
           /\ \A v \in cases : AreRecords(v.records) /\ v.net \in Int /\ v.gross \in Int
  <1> DEFINE C == BuildCases(records, candidates, ambiguous)
             over == Overallocated
  <1>1. cases = {VerifiedCase(c, edges, over) : c \in C}
    BY DEF RunInv, Classified
  <1>2. CasesDivide(C, records) /\ \A c \in C : IsBuilt(c)
    BY RecordsRead, BuiltCases, CasesAreBuilt DEF AreRecords
  <1>3. CasesDivide(cases, records)
    <2> HIDE DEF C, over
    <2> QED BY <1>1, <1>2, VerifiedDivide
  <1>4. ASSUME NEW v \in cases
        PROVE  AreRecords(v.records) /\ v.net \in Int /\ v.gross \in Int
    <2>1. PICK c \in C : v = VerifiedCase(c, edges, over)
      BY <1>1
    <2>2. v.records = c.records /\ v.net = c.net /\ v.gross = c.gross
      BY <2>1, VerifiedFields
    <2>3. AreRecords(c.records)
      BY <1>2, RecordsRead, FS_Subset DEF CasesDivide, AreRecords
    <2> QED BY <1>2, <2>2, <2>3, NetIsInt
  <1> QED BY <1>3, <1>4

\* The forecast conserves what is in transit, for any files, any calendar and any day.
THEOREM ForecastIsComplete == ControlSpec => []ForecastConserves
  <1>1. ASSUME RunInv
        PROVE  ForecastConserves
    <2> SUFFICES ASSUME stage = "reconciled" PROVE ForecastConserves
      BY DEF ForecastConserves
    <2>1. cash = CalculateCashPosition(cases)
      BY <1>1 DEF RunInv
    <2>2. /\ IsFiniteSet(cases)
          /\ \A c \in cases : c.net \in Int /\ AreRecords(c.records)
      BY <1>1, CasesRead DEF CasesDivide, WithCases
    <2>3. cash.safe \in Int
      <3>1. cash.safe = cash.buckets["BANK_CONFIRMED"]
        BY <2>1 DEF CalculateCashPosition, CashBuckets
      <3> QED BY <2>1, <2>2, <3>1, BucketIsNet
    <2>4. cash.buckets["SETTLEMENT_CONFIRMED_IN_TRANSIT"] + cash.buckets["EXPECTED_SETTLEMENT"]
            = Net(InTransit(cases))
      BY <2>1, <2>2, TransitIsBuckets
    <2>5. LET forecast == CalculateCashForecast(cases, cash.safe, AsOf)
              later == {c \in Scheduled(cases) : \A d \in Horizon : LandingDay(c) > AsOf + d}
          IN  Net(InTransit(cases)) = forecast.closing[7] - cash.safe
                                        + forecast.overdue + forecast.undated + Net(later)
      BY <2>2, <2>3, AsOfAssumption, ForecastAddsUp
    <2> QED BY <2>4, <2>5 DEF ForecastConserves
  <1> QED BY <1>1, EngineInvHolds, PTL

-------------------------------------------------------------------------------
(* Groups.                                                                  *)

\* What is linked with an identifier is what is reached along as many links as there are.
LEMMA LinkedIs ==
    ASSUME IsFiniteSet(GivenLinks(records, candidates)), NEW id
    PROVE  LET links == GivenLinks(records, candidates)
           IN  \E reach : /\ IsReach(reach, links, id, Cardinality(links))
                          /\ Linked(id) = reach[Cardinality(links)] \cap {r.id : r \in records}
  <1> DEFINE links == GivenLinks(records, candidates)
             N == Cardinality(links)
             Reach(f) == [n \in 0..N |-> IF n = 0 THEN {id} ELSE Along(links, f[n - 1])]
             reach == CHOOSE f : f = Reach(f)
  <1>1. Linked(id) = reach[N] \cap {r.id : r \in records}
    BY DEF Linked, Along
  <1>2. N \in Nat
    BY FS_CardinalityType
  <1>3. \E f : f = Reach(f)
    <2> DEFINE n == N
               k == links
    <2>1. \E f : IsReach(f, k, id, n)
      <3>1. n \in Nat
        BY <1>2
      <3> HIDE DEF k, n
      <3> QED BY <3>1, ReachExists
    <2> QED BY <2>1 DEF IsReach
  <1>4. reach = Reach(reach)
    BY <1>3
  <1> HIDE DEF reach
  <1>5. IsReach(reach, links, id, N)
    BY <1>4 DEF IsReach
  <1> QED BY <1>1, <1>5

\* Cases are what is connected, for any files: no record is lost or in two cases, and
\* however long the chain of components and candidates between two records, and in
\* whatever order its links were joined, they are in one case exactly if there is one.
THEOREM CasesAreComponents == ControlSpec => []GroupsAreComponents
  <1>1. ASSUME RunInv
        PROVE  GroupsAreComponents
    <2> SUFFICES ASSUME stage = "cash_position" PROVE GroupsAreComponents
      BY DEF GroupsAreComponents
    <2> DEFINE ids == Identifiers(records, candidates)
               links == GivenLinks(records, candidates)
               N == Cardinality(links)
    <2>1. CasesDivide(cases, records)
      BY <1>1, CasesRead DEF WithCases
    <2>2. IsFiniteSet(links)
      <3>1. candidates = GenerateCandidates(records)
        BY <1>1 DEF RunInv, BeforeMatching, BeforeRecords
      <3>2. AreRecords(records)
        BY <1>1, RecordsRead
      <3> QED BY <3>1, <3>2, CandidatesAreFinite, LinksAreFinite DEF AreRecords
    <2>3. PICK root :
             /\ Connects(Joined(records, candidates), root, links, ids)
             /\ CaseGroups(records, candidates) = {{x \in ids : root[x] = root[top]} : top \in ids}
      BY <2>2, GroupsConnect
    <2>4. \A l \in links : l[1] \in ids /\ l[2] \in ids
      BY DEF Identifiers
    <2>5. ASSUME NEW r \in records
          PROVE  Cardinality({c \in cases : r \in c.records}) = 1
      <3>1. PICK c \in cases : r \in c.records
        BY <2>1 DEF CasesDivide
      <3>2. ASSUME NEW d \in cases, r \in d.records PROVE d = c
        <4>1. r.id \in c.entities /\ r.id \in d.entities
          BY <2>1, <3>1, <3>2 DEF CasesDivide
        <4> QED BY <2>1, <4>1 DEF CasesDivide
      <3>3. {d \in cases : r \in d.records} = {c}
        BY <3>1, <3>2
      <3> QED BY <3>3, FS_Singleton
    <2>6. ASSUME NEW c \in cases
          PROVE  c.entities = Linked((CHOOSE r \in c.records : TRUE).id)
      <3> DEFINE first == CHOOSE r \in c.records : TRUE
                 id == first.id
      <3>1. /\ first \in c.records /\ first \in records
            /\ c.entities = {r.id : r \in c.records}
        BY <2>1 DEF CasesDivide
      <3> HIDE DEF first
      <3>2. id \in ids
        BY <3>1 DEF Identifiers
      <3>3. PICK b \in BuildCases(records, candidates, ambiguous) : c.entities = b.entities
        <4>1. PICK b \in BuildCases(records, candidates, ambiguous) :
                 c = VerifiedCase(b, edges, Overallocated)
          BY <1>1 DEF RunInv, WithCases, Classified
        <4> QED BY <4>1, VerifiedFields
      <3>4. PICK g \in CaseGroups(records, candidates) :
               b.entities = {r.id : r \in {q \in records : q.id \in g}}
        <4>1. PICK g \in CaseGroups(records, candidates) : b = BuildCase(g, records, ambiguous)
          BY DEF BuildCases
        <4> QED BY <4>1 DEF BuildCase
      <3>5. PICK top \in ids : g = {x \in ids : root[x] = root[top]}
        BY <2>3
      <3>6. g = {x \in ids : root[x] = root[id]}
        <4>1. id \in g
          BY <3>1, <3>3, <3>4
        <4> HIDE DEF ids, id
        <4> QED BY <3>5, <4>1
      <3>7. PICK reach : /\ IsReach(reach, links, id, N)
                         /\ Linked(id) = reach[N] \cap {r.id : r \in records}
        BY <2>2, LinkedIs
      <3>8. reach[N] = g
        <4> DEFINE D == ids
                   L == links
                   i == id
                   p == Joined(records, candidates)
        <4>1. /\ IsFiniteSet(L) /\ \A l \in L : l[1] \in D /\ l[2] \in D
              /\ Connects(p, root, L, D) /\ i \in D /\ IsReach(reach, L, i, Cardinality(L))
              /\ g = {x \in D : root[x] = root[i]}
          BY <2>2, <2>3, <2>4, <3>2, <3>6, <3>7
        <4> HIDE DEF D, L, i, p
        <4>2. reach[Cardinality(L)] = g
          BY <4>1, ReachIsGroup
        <4> QED BY <4>2 DEF L
      <3>9. b.entities = g \cap {r.id : r \in records}
        BY <3>4
      <3> QED BY <3>3, <3>7, <3>8, <3>9 DEF first
    <2> HIDE DEF ids, links
    <2> QED BY <2>5, <2>6 DEF GroupsAreComponents
  <1> QED BY <1>1, EngineInvHolds, PTL

\* The audit accounts for every paise of recorded tax, for any files and any policy, where
\* no payment is recorded twice.
THEOREM TaxIsAudited == ControlSpec => []TaxIsAccountedFor
  <1>1. ASSUME RunInv
        PROVE  TaxIsAccountedFor
    <2> SUFFICES ASSUME stage = "reconciled",
                        IsInjective([r \in OfType(records, "payments") |-> r.id])
                 PROVE  TaxIsAccountedFor
      BY DEF TaxIsAccountedFor
    <2>1. CasesDivide(cases, records) /\ AreRecords(records)
      BY <1>1, CasesRead, RecordsRead DEF WithCases
    <2>2. TiedCharges(cases, records)
      <3> SUFFICES ASSUME NEW v \in cases, NEW k \in v.records,
                          NEW p \in OfType(records, "payments"),
                          k.type = "settlement_components", k.event = p.id
                   PROVE  p \in v.records
        BY DEF TiedCharges
      <3>1. k \in records /\ p \in records
        BY <2>1 DEF CasesDivide, OfType
      <3>2. k.id # Null /\ p.id # Null
        BY <2>1, <3>1, NullAssumption DEF AreRecords, IsRecord
      <3>3. <<k.id, p.id>> \in GivenLinks(records, candidates)
        BY <3>1, <3>2 DEF GivenLinks, Links, OfType
      <3>4. IsFiniteSet(GivenLinks(records, candidates))
        <4>1. candidates = GenerateCandidates(records)
          BY <1>1 DEF RunInv, BeforeMatching, BeforeRecords
        <4> QED BY <2>1, <4>1, CandidatesAreFinite, LinksAreFinite DEF AreRecords
      <3>5. PICK b \in BuildCases(records, candidates, ambiguous) : v.records = b.records
        <4>1. PICK b \in BuildCases(records, candidates, ambiguous) :
                 v = VerifiedCase(b, edges, Overallocated)
          BY <1>1 DEF RunInv, WithCases, Classified
        <4> QED BY <4>1, VerifiedFields
      <3> QED BY <3>1, <3>3, <3>4, <3>5, LinksStayInCases
    <2>3. \A p, q \in OfType(records, "payments") : p.id = q.id => p = q
      BY DEF IsInjective
    <2> QED BY <2>1, <2>2, <2>3, TaxAddsUp DEF TaxIsAccountedFor
  <1> QED BY <1>1, EngineInvHolds, PTL

-------------------------------------------------------------------------------
(* Evidence within what is available.                                       *)

\* What is registered as available is an amount.
Amounts == available \in [Entities -> Nat \cup {Unlimited}]

\* Available is the amount of a record, or no limit.
LEMMA AmountsRead ==
    ASSUME RunInv
    PROVE  Amounts
  <1>1. CASE stage \in BeforeMatching
    BY <1>1 DEF RunInv, Amounts
  <1>2. CASE stage \notin BeforeMatching
    <2> DEFINE limited == {r \in records : /\ r.type \in {"settlements", "bank_transactions"}
                                           /\ r.amount # Null}
    <2>1. available = [e \in Entities |-> IF Known(limited, e)
                                          THEN Abs(LastWith(limited, e).amount) ELSE Unlimited]
      BY <1>2 DEF RunInv, AvailableAmounts
    <2>2. AreRecords(limited) /\ \A r \in limited : r.amount \in Int
      BY RecordsRead, FS_Subset DEF AreRecords, IsRecord, Given
    <2>3. ASSUME NEW e \in Entities, Known(limited, e)
          PROVE  Abs(LastWith(limited, e).amount) \in Nat
      <3> HIDE DEF limited
      <3>1. LastWith(limited, e).amount \in Int
        BY <2>2, <2>3, LastWithIs
      <3> QED BY <3>1 DEF Abs
    <2> HIDE DEF limited
    <2> QED BY <2>1, <2>3 DEF Amounts
  <1> QED BY <1>1, <1>2

\* No identifier is that of records of two kinds; of a component an identifier is only
\* where its row is.
KindsApart ==
    \A r, q \in records :
        r.id = q.id /\ "settlement_components" \notin {r.type, q.type} => r.type = q.type

\* Candidates join records by amounts, and settlements to bank transactions only.
LEMMA CandidatesAreProper ==
    ASSUME RunInv, KindsApart
    PROVE  Proper
  <1>1. CASE stage \in BeforeMatching
    BY <1>1 DEF RunInv, Proper
  <1>2. CASE stage \notin BeforeMatching
    <2>1. \A c \in candidates : JoinsRecords(c, records)
      BY <1>2, RecordsRead, CandidatesJoinRecords DEF RunInv
    <2>2. ASSUME NEW c \in candidates, NEW d \in candidates, c.relationship = d.relationship
          PROVE  c.source # d.target
      <3>1. PICK l \in records : /\ c.source = l.id
                                 /\ l.type = EndTypes[c.relationship][1]
        BY <2>1 DEF JoinsRecords
      <3>2. PICK r \in records : /\ d.target = r.id
                                 /\ r.type = EndTypes[c.relationship][2]
        BY <2>1, <2>2 DEF JoinsRecords
      <3>3. c.relationship \in Relationships
        BY <2>1 DEF JoinsRecords
      <3>4. l.type # r.type /\ "settlement_components" \notin {l.type, r.type}
        BY <3>1, <3>2, <3>3 DEF Relationships, EndTypes
      <3> QED BY <3>1, <3>2, <3>4 DEF KindsApart
    <2> QED BY <2>1, <2>2, RecordsRead DEF Proper, JoinsRecords
  <1> QED BY <1>1, <1>2

\* The evidence of a run is decided by its candidates, through all stages and whatever
\* happens afterwards, in whichever order files, rows and candidates are read, as long as
\* no identifier is that of records of two kinds.
THEOREM RunIsDetermined == ControlSpec /\ []KindsApart => []EvidenceIsDetermined
  <1>1. AnalysisInit => DeterminedInv
    BY InitIsDetermined DEF AnalysisInit, Init
  <1>2. RunInv /\ KindsApart => Proper
    BY CandidatesAreProper
  <1>3. DeterminedInv /\ Proper /\ [ControlNext]_allVars => DeterminedInv'
    BY OnlyMatchingMatches, BeginDetermines, StepDetermines, UnchangedIsDetermined
  <1> QED BY <1>1, <1>2, <1>3, EngineInvHolds, DeterminedAtLast, PTL DEF ControlSpec

\* A run is a run of Matching, so that what is shown of Matching holds of it.
THEOREM RunMatches == ControlSpec => MatchingSpec
  <1>1. AnalysisInit => MatchingInit
    BY DEF AnalysisInit, Init
  <1>2. RunInv => Amounts
    BY AmountsRead
  <1>3. Amounts' /\ [ControlNext]_allVars => [MatchingNext]_matchingVars
    BY OnlyMatchingMatches DEF MatchingNext, Amounts
  <1> QED BY <1>1, <1>2, <1>3, EngineInvHolds, PTL DEF ControlSpec, MatchingSpec

\* INV-006 for any files: no settlement and no receipt is allocated more than it has.
THEOREM RunStaysWithin == ControlSpec => []WithinAvailable
  BY RunMatches, NothingOverallocated, PTL

-------------------------------------------------------------------------------
(* The rows of the cases, while they are analyzed and reviewed.             *)

Filed == {"persisted"} \cup InAnalysis

ResultFields == {"cases", "edges", "candidates", "issues"}
RowFields == {"id", "state", "code", "bucket", "level", "gross", "net", "residual", "atRisk",
              "severity", "receipt", "entities", "failed", "reviewed"}

ReviewedStates == {"RECONCILED", "APPROVED_PENDING_VERIFICATION", "REJECTED_SUGGESTION",
                   "DEFERRED"}

\* A row that an analysis is about, or has been.
InHand(r) ==
    \/ r.state = "NEEDS_ANALYSIS" /\ r.level = "UNRESOLVED" /\ r.id \in todo
    \/ /\ r.state = "AI_ANALYSIS_PENDING" /\ r.level = "UNRESOLVED"
       /\ \E a \in asking : a.case = r.id
    \/ r.state = "SUGGESTED_FOR_REVIEW" /\ r.level = "SUGGESTED"

\* What a row says of its case: until it is reviewed, what classification has found, but
\* for the state of a case in which candidates tie.
IsRowOf(r, v) ==
    /\ DOMAIN r = RowFields /\ r.reviewed \in BOOLEAN
    /\ r.id = v.id /\ r.gross = v.gross
    /\ r.reviewed => r.state \in ReviewedStates
    /\ ~r.reviewed =>
          /\ r.code = v.code /\ r.bucket = v.bucket /\ r.net = v.net
          /\ r.residual = v.residual /\ r.failed = v.failed /\ r.receipt = ReceiptState(v)
          /\ \/ /\ r.state = v.state
                /\ r.level = IF v.state = "RECONCILED" THEN "VERIFIED" ELSE "UNRESOLVED"
             \/ v.code = "AMBIGUOUS_CANDIDATES" /\ InHand(r)

\* Cases and rows have one identifier each, and the same.
RowsMirrorCases ==
    /\ \A v, w \in cases : v.id = w.id => v = w
    /\ \A r, q \in result.cases : r.id = q.id => r = q
    /\ \A r \in result.cases : \E v \in cases : IsRowOf(r, v)
    /\ \A v \in cases : \E r \in result.cases : r.id = v.id

\* What is to be analyzed nobody has reviewed, and one case is asked about at a time.
WorkIsKnown ==
    /\ \A id \in todo :
          \E r \in result.cases : r.id = id /\ ~r.reviewed /\ r.state = "NEEDS_ANALYSIS"
    /\ \A a \in asking :
          /\ DOMAIN a = {"case", "attempts"}
          /\ \E r \in result.cases :
                r.id = a.case /\ ~r.reviewed /\ r.state = "AI_ANALYSIS_PENDING"
    /\ \A a, b \in asking : a = b

\* Rows exist once they are persisted, and are reviewed and suggested to in analysis only.
RowsInv ==
    /\ DOMAIN result = ResultFields
    /\ stage \notin Filed => result = Nothing
    /\ stage \notin InAnalysis => suggestions = {} /\ \A r \in result.cases : ~r.reviewed
    /\ stage \in Filed => RowsMirrorCases
    /\ WorkIsKnown

\* A run starts without rows.
LEMMA RowsInvStarts == AnalysisInit => RowsInv
  BY DEF AnalysisInit, Init, RowsInv, Nothing, ResultFields, Filed, InAnalysis, WorkIsKnown

\* Classification leaves every case in one of its outcomes.
LEMMA OutcomesRead ==
    ASSUME RunInv, stage \in WithCases
    PROVE  \A v \in cases : OutcomeIsSound(v)
  <1> SUFFICES ASSUME NEW v \in cases PROVE OutcomeIsSound(v)
    OBVIOUS
  <1>1. PICK c \in BuildCases(records, candidates, ambiguous) :
           v = VerifiedCase(c, edges, Overallocated)
    BY DEF RunInv, Classified
  <1>2. AreRecords(c.records)
    <2>1. v.records = c.records
      BY <1>1, VerifiedFields
    <2> QED BY <2>1, CasesRead
  <1> QED BY <1>1, <1>2, OutcomesAreSound

\* A row that analysis has moved.
SameCase(q, r) ==
    /\ DOMAIN q = RowFields
    /\ q.id = r.id /\ q.code = r.code /\ q.bucket = r.bucket /\ q.gross = r.gross
    /\ q.net = r.net /\ q.residual = r.residual /\ q.failed = r.failed
    /\ q.receipt = r.receipt /\ q.reviewed = r.reviewed

\* UpdateCases moves the rows it is told to and leaves the others alone.
LEMMA UpdatedRows ==
    ASSUME DOMAIN result = ResultFields, \A r \in result.cases : DOMAIN r = RowFields,
           NEW ids, NEW state, NEW level, UpdateCases(ids, state, level)
    PROVE  /\ DOMAIN result' = ResultFields /\ result'.edges = result.edges
           /\ \E moved :
                 /\ result'.cases = {moved[r] : r \in result.cases}
                 /\ \A r \in result.cases :
                       /\ SameCase(moved[r], r)
                       /\ r.id \in ids => moved[r].state = state /\ moved[r].level = level
                       /\ r.id \notin ids => moved[r] = r
  <1> DEFINE moved == [r \in result.cases |->
                         IF r.id \in ids THEN [r EXCEPT !.state = state, !.level = level] ELSE r]
  <1>1. /\ DOMAIN result' = ResultFields /\ result'.edges = result.edges
        /\ result'.cases = {IF c.id \in ids THEN [c EXCEPT !.state = state, !.level = level] ELSE c :
                               c \in result.cases}
    BY DEF UpdateCases, ResultFields
  <1>2. result'.cases = {moved[r] : r \in result.cases}
    BY <1>1
  <1>3. ASSUME NEW r \in result.cases
        PROVE  /\ SameCase(moved[r], r)
               /\ r.id \in ids => moved[r].state = state /\ moved[r].level = level
               /\ r.id \notin ids => moved[r] = r
    <2>1. CASE r.id \in ids
      <3>1. moved[r] = [r EXCEPT !.state = state, !.level = level]
        BY <2>1
      <3>2. DOMAIN r = RowFields
        OBVIOUS
      <3> HIDE DEF moved
      <3> QED BY <2>1, <3>1, <3>2 DEF SameCase, RowFields
    <2>2. CASE r.id \notin ids
      BY <2>2 DEF SameCase
    <2> QED BY <2>1, <2>2
  <1> QED BY <1>1, <1>2, <1>3

\* A move of cases in which candidates tie keeps rows and cases together.
LEMMA RowsMove ==
    ASSUME RunInv, RowsInv, stage \in Filed, UNCHANGED <<cases, edges>>,
           NEW ids, NEW state, NEW level, UpdateCases(ids, state, level),
           \A r \in result.cases :
              r.id \in ids => ~r.reviewed /\ r.code = "AMBIGUOUS_CANDIDATES",
           \/ state = "ACTIONABLE_EXCEPTION" /\ level = "UNRESOLVED"
           \/ state = "NEEDS_ANALYSIS" /\ level = "UNRESOLVED" /\ ids \subseteq todo'
           \/ /\ state = "AI_ANALYSIS_PENDING" /\ level = "UNRESOLVED"
              /\ \A id \in ids : \E a \in asking' : a.case = id
           \/ state = "SUGGESTED_FOR_REVIEW" /\ level = "SUGGESTED",
           \A id : id \notin ids =>
              /\ id \in todo => id \in todo'
              /\ (\E a \in asking : a.case = id) => \E a \in asking' : a.case = id
    PROVE  /\ DOMAIN result' = ResultFields /\ RowsMirrorCases'
           /\ \A r \in result.cases : r.id \notin ids => r \in result'.cases
           /\ \A r \in result.cases : r.id \in ids =>
                 \E q \in result'.cases : q.id = r.id /\ ~q.reviewed /\ q.state = state
  <1>1. RowsMirrorCases /\ DOMAIN result = ResultFields
    BY DEF RowsInv
  <1>2. \A r \in result.cases : DOMAIN r = RowFields
    BY <1>1 DEF RowsMirrorCases, IsRowOf
  <1>3. DOMAIN result' = ResultFields
    BY <1>1, <1>2, UpdatedRows
  <1>4. PICK moved :
           /\ result'.cases = {moved[r] : r \in result.cases}
           /\ \A r \in result.cases :
                 /\ SameCase(moved[r], r)
                 /\ r.id \in ids => moved[r].state = state /\ moved[r].level = level
                 /\ r.id \notin ids => moved[r] = r
    BY <1>1, <1>2, UpdatedRows
  <1>5. \A r \in result.cases : moved[r].id = r.id
    BY <1>4 DEF SameCase
  <1>6. \A r, q \in result'.cases : r.id = q.id => r = q
    BY <1>1, <1>4, <1>5 DEF RowsMirrorCases
  <1>7. \A v \in cases : \E r \in result'.cases : r.id = v.id
    BY <1>1, <1>4, <1>5 DEF RowsMirrorCases
  <1>8. \A v \in cases : OutcomeIsSound(v)
    BY OutcomesRead DEF Filed, WithCases
  <1>9. ASSUME NEW r \in result.cases
        PROVE  \E v \in cases : IsRowOf(moved[r], v)'
    <2>1. PICK v \in cases : IsRowOf(r, v)
      BY <1>1 DEF RowsMirrorCases
    <2>2. ReceiptState(v)' = ReceiptState(v)
      BY DEF ReceiptState, Confirmed
    <2>3. SameCase(moved[r], r)
      BY <1>4
    <2>4. CASE r.id \in ids
      <3>1. ~r.reviewed /\ v.code = "AMBIGUOUS_CANDIDATES"
        BY <2>1, <2>4 DEF IsRowOf
      <3>2. v.state = "ACTIONABLE_EXCEPTION"
        BY <1>8, <3>1 DEF OutcomeIsSound, NoCode
      <3>3. moved[r].state = state /\ moved[r].level = level
        BY <1>4, <2>4
      <3> QED BY <2>1, <2>2, <2>3, <2>4, <3>1, <3>2, <3>3 DEF IsRowOf, SameCase, InHand
    <2>5. CASE r.id \notin ids
      <3>1. moved[r] = r
        BY <1>4, <2>5
      <3>2. InHand(r) => InHand(r)'
        BY <2>5 DEF InHand
      <3> QED BY <2>1, <2>2, <3>1, <3>2 DEF IsRowOf
    <2> QED BY <2>4, <2>5
  <1>10. \A r \in result'.cases : \E v \in cases' : IsRowOf(r, v)'
    BY <1>4, <1>9
  <1>11. \A r \in result.cases : r.id \notin ids => r \in result'.cases
    BY <1>4
  <1>12. \A r \in result.cases : r.id \in ids =>
            \E q \in result'.cases : q.id = r.id /\ ~q.reviewed /\ q.state = state
    BY <1>4 DEF SameCase
  <1> QED BY <1>1, <1>3, <1>6, <1>7, <1>10, <1>11, <1>12 DEF RowsMirrorCases

\* What changes neither cases nor rows nor the work on them keeps them together.
LEMMA RowsStay ==
    ASSUME UNCHANGED <<cases, edges, result, todo, asking>>
    PROVE  /\ RowsMirrorCases' = RowsMirrorCases /\ WorkIsKnown' = WorkIsKnown
  <1>1. \A v : ReceiptState(v)' = ReceiptState(v)
    BY DEF ReceiptState, Confirmed
  <1>2. \A r : InHand(r)' = InHand(r)
    BY DEF InHand
  <1>3. \A r, v : IsRowOf(r, v)' = IsRowOf(r, v)
    BY <1>1, <1>2 DEF IsRowOf
  <1> QED BY <1>3 DEF RowsMirrorCases, WorkIsKnown

\* The identifier of a case in which candidates tie is that of such a row.
LEMMA TiedRows ==
    ASSUME RunInv, RowsInv, stage \in Filed, NEW id,
           \/ id \in todo \/ (\E a \in asking : a.case = id) \/ id \in Eligible
           \/ id \in Selected /\ stage = "persisted"
    PROVE  /\ \E r \in result.cases : r.id = id
           /\ \A r \in result.cases :
                 r.id = id => ~r.reviewed /\ r.code = "AMBIGUOUS_CANDIDATES"
  <1>1. RowsMirrorCases /\ WorkIsKnown
    BY DEF RowsInv
  <1>2. \A v \in cases : OutcomeIsSound(v)
    BY OutcomesRead DEF Filed, WithCases
  <1>3. ASSUME NEW r \in result.cases, ~r.reviewed,
               r.state \in {"NEEDS_ANALYSIS", "AI_ANALYSIS_PENDING"}
        PROVE  r.code = "AMBIGUOUS_CANDIDATES"
    <2>1. PICK v \in cases : IsRowOf(r, v)
      BY <1>1 DEF RowsMirrorCases
    <2> QED BY <1>2, <1>3, <2>1 DEF IsRowOf, OutcomeIsSound
  <1>4. CASE id \in todo \/ \E a \in asking : a.case = id
    BY <1>1, <1>3, <1>4 DEF WorkIsKnown, RowsMirrorCases
  <1>5. CASE id \in Eligible
    <2>1. PICK r \in result.cases : r.id = id /\ IsEligible(r)
      BY <1>5 DEF Eligible
    <2>2. ~r.reviewed
      BY <1>1, <2>1 DEF RowsMirrorCases, IsRowOf, IsEligible, ReviewedStates
    <2> QED BY <1>1, <2>1, <2>2 DEF RowsMirrorCases, IsEligible
  <1>6. CASE id \in Selected /\ stage = "persisted"
    <2>1. PICK w \in cases : w.id = id /\ w.code = "AMBIGUOUS_CANDIDATES"
      BY <1>6 DEF Selected
    <2>2. \A r \in result.cases : ~r.reviewed
      BY <1>6 DEF RowsInv, InAnalysis
    <2>3. \A r \in result.cases : r.id = id => r.code = "AMBIGUOUS_CANDIDATES"
      BY <1>1, <2>1, <2>2 DEF RowsMirrorCases, IsRowOf
    <2> QED BY <1>1, <2>1, <2>2, <2>3 DEF RowsMirrorCases
  <1> QED BY <1>4, <1>5, <1>6

\* The AI stage prepares cases in which candidates tie.
LEMMA PrepareKeepsRows ==
    ASSUME RunInv, RowsInv, PrepareCases
    PROVE  RowsInv'
  <1>1. /\ stage = "persisted" /\ stage \in Filed /\ stage' \in InAnalysis /\ stage' \in Filed
        /\ UNCHANGED <<cases, edges, asking, suggestions>>
        /\ todo = {} /\ asking = {}
    BY DEF PrepareCases, Filed, InAnalysis, RunInv, Idle, matchingVars, graphVars
  <1>2. CASE UNCHANGED <<result, todo>>
    BY <1>1, <1>2, RowsStay DEF RowsInv
  <1>3. ASSUME NEW chosen \in SUBSET Selected, todo' = chosen,
               UpdateCases(chosen, "NEEDS_ANALYSIS", "UNRESOLVED")
        PROVE  RowsInv'
    <2>1. ASSUME NEW id \in chosen
          PROVE  /\ \E r \in result.cases : r.id = id
                 /\ \A r \in result.cases :
                       r.id = id => ~r.reviewed /\ r.code = "AMBIGUOUS_CANDIDATES"
      BY <1>1, TiedRows
    <2>2. /\ DOMAIN result' = ResultFields /\ RowsMirrorCases'
          /\ \A r \in result.cases : r.id \in chosen =>
                \E q \in result'.cases :
                   q.id = r.id /\ ~q.reviewed /\ q.state = "NEEDS_ANALYSIS"
      BY <1>1, <1>3, <2>1, RowsMove
    <2>3. WorkIsKnown'
      BY <1>1, <1>3, <2>1, <2>2 DEF WorkIsKnown
    <2> QED BY <1>1, <2>2, <2>3 DEF RowsInv
  <1> QED BY <1>2, <1>3 DEF PrepareCases, kSubset

\* So does a request for an analysis.
LEMMA RequestKeepsRows ==
    ASSUME RunInv, RowsInv, NEW id \in Eligible, Request(id)
    PROVE  RowsInv'
  <1>1. /\ stage \in Filed /\ stage' \in InAnalysis /\ stage' \in Filed
        /\ UNCHANGED <<cases, edges, asking, suggestions>>
        /\ todo = {} /\ asking = {} /\ todo' = {id}
        /\ UpdateCases({id}, "NEEDS_ANALYSIS", "UNRESOLVED")
    BY DEF Request, Filed, InAnalysis, Idle, matchingVars, graphVars
  <1>2. /\ \E r \in result.cases : r.id = id
        /\ \A r \in result.cases :
              r.id = id => ~r.reviewed /\ r.code = "AMBIGUOUS_CANDIDATES"
    BY <1>1, TiedRows
  <1>3. /\ DOMAIN result' = ResultFields /\ RowsMirrorCases'
        /\ \A r \in result.cases : r.id \in {id} =>
              \E q \in result'.cases :
                 q.id = r.id /\ ~q.reviewed /\ q.state = "NEEDS_ANALYSIS"
    BY <1>1, <1>2, RowsMove
  <1>4. WorkIsKnown'
    BY <1>1, <1>2, <1>3 DEF WorkIsKnown
  <1> QED BY <1>1, <1>3, <1>4 DEF RowsInv

\* A prepared case is asked about.
LEMMA BeginKeepsRows ==
    ASSUME RunInv, RowsInv, NEW id \in todo, Begin(id)
    PROVE  RowsInv'
  <1>1. /\ stage \in Filed /\ stage' \in InAnalysis /\ stage' \in Filed
        /\ UNCHANGED <<cases, edges, suggestions>>
        /\ asking = {} /\ asking' = {[case |-> id, attempts |-> 0]} /\ todo' = todo \ {id}
        /\ UpdateCases({id}, "AI_ANALYSIS_PENDING", Persisted(id).level)
    <2>1. stage \in InAnalysis
      BY DEF RunInv, Idle
    <2> QED BY <2>1 DEF Begin, Filed, matchingVars, graphVars
  <1>2. /\ \E r \in result.cases : r.id = id
        /\ \A r \in result.cases :
              r.id = id => ~r.reviewed /\ r.code = "AMBIGUOUS_CANDIDATES"
    BY <1>1, TiedRows
  <1>3. Persisted(id).level = "UNRESOLVED"
    <2>1. RowsMirrorCases /\ WorkIsKnown
      BY <1>1 DEF RowsInv
    <2>2. PICK r \in result.cases : r.id = id /\ ~r.reviewed /\ r.state = "NEEDS_ANALYSIS"
      BY <2>1 DEF WorkIsKnown
    <2>3. Persisted(id) = r
      BY <2>1, <2>2 DEF Persisted, RowsMirrorCases
    <2>4. PICK v \in cases : IsRowOf(r, v)
      BY <2>1 DEF RowsMirrorCases
    <2>5. OutcomeIsSound(v)
      BY <1>1, OutcomesRead DEF Filed, WithCases
    <2> QED BY <2>2, <2>3, <2>4, <2>5 DEF IsRowOf, InHand, OutcomeIsSound
  <1>4. /\ \A other : other \notin {id} =>
              /\ other \in todo => other \in todo'
              /\ (\E a \in asking : a.case = other) => \E a \in asking' : a.case = other
        /\ \A other \in {id} : \E a \in asking' : a.case = other
    BY <1>1
  <1>5. /\ DOMAIN result' = ResultFields /\ RowsMirrorCases'
        /\ \A r \in result.cases : r.id \notin {id} => r \in result'.cases
        /\ \A r \in result.cases : r.id \in {id} =>
              \E q \in result'.cases :
                 q.id = r.id /\ ~q.reviewed /\ q.state = "AI_ANALYSIS_PENDING"
    BY <1>1, <1>2, <1>3, <1>4, RowsMove
  <1>6. WorkIsKnown'
    <2>1. WorkIsKnown
      BY DEF RowsInv
    <2>2. ASSUME NEW other \in todo'
          PROVE  \E r \in result'.cases :
                    r.id = other /\ ~r.reviewed /\ r.state = "NEEDS_ANALYSIS"
      BY <1>1, <1>5, <2>1 DEF WorkIsKnown
    <2>3. ASSUME NEW a \in asking'
          PROVE  /\ DOMAIN a = {"case", "attempts"}
                 /\ \E r \in result'.cases :
                       r.id = a.case /\ ~r.reviewed /\ r.state = "AI_ANALYSIS_PENDING"
      BY <1>1, <1>2, <1>5
    <2> QED BY <1>1, <2>2, <2>3 DEF WorkIsKnown
  <1> QED BY <1>1, <1>5, <1>6 DEF RowsInv

\* An analysis ends with its case back among the exceptions, or suggested for review.
LEMMA EndKeepsRows ==
    ASSUME RunInv, RowsInv, NEW a \in asking, asking' = {}, stage \in InAnalysis,
           UNCHANGED <<stage, cases, edges, todo>>, NEW state, NEW level,
           UpdateCases({a.case}, state, level),
           \/ state = "ACTIONABLE_EXCEPTION" /\ level = "UNRESOLVED"
           \/ state = "SUGGESTED_FOR_REVIEW" /\ level = "SUGGESTED"
    PROVE  RowsInv'
  <1> DEFINE id == a.case
  <1>1. stage \in Filed /\ WorkIsKnown
    BY DEF Filed, RowsInv
  <1>2. /\ \E r \in result.cases : r.id = id
        /\ \A r \in result.cases :
              r.id = id => ~r.reviewed /\ r.code = "AMBIGUOUS_CANDIDATES"
    BY <1>1, TiedRows
  <1>3. \A other : other \notin {id} =>
           /\ other \in todo => other \in todo'
           /\ (\E b \in asking : b.case = other) => \E b \in asking' : b.case = other
    BY <1>1 DEF WorkIsKnown
  <1>4. id \notin todo
    BY <1>1 DEF WorkIsKnown, RowsInv, RowsMirrorCases
  <1>5. /\ DOMAIN result' = ResultFields /\ RowsMirrorCases'
        /\ \A r \in result.cases : r.id \notin {id} => r \in result'.cases
    <2> HIDE DEF id
    <2> QED BY <1>1, <1>2, <1>3, RowsMove DEF id
  <1>6. WorkIsKnown'
    BY <1>1, <1>4, <1>5 DEF WorkIsKnown
  <1> QED BY <1>1, <1>5, <1>6 DEF RowsInv

\* Asking again changes no row.
LEMMA RetryKeepsRows ==
    ASSUME RunInv, RowsInv, NEW a \in asking, Retry(a)
    PROVE  RowsInv'
  <1>1. /\ asking' = {[a EXCEPT !.attempts = a.attempts + 1]}
        /\ UNCHANGED <<stage, cases, edges, result, todo, suggestions>>
    BY DEF Retry, vars, engineVars, matchingVars, graphVars
  <1>2. stage \in Filed /\ RowsMirrorCases /\ WorkIsKnown
    BY DEF RowsInv, RunInv, Idle, Filed
  <1>3. PICK b : asking' = {b} /\ b.case = a.case /\ DOMAIN b = {"case", "attempts"}
    <2>1. DOMAIN a = {"case", "attempts"}
      BY <1>2 DEF WorkIsKnown
    <2> DEFINE again == [a EXCEPT !.attempts = a.attempts + 1]
    <2>2. again.case = a.case /\ DOMAIN again = {"case", "attempts"}
      BY <2>1
    <2> HIDE DEF again
    <2>3. asking' = {again}
      BY <1>1 DEF again
    <2> QED BY <2>2, <2>3
  <1>4. asking = {a}
    BY <1>2 DEF WorkIsKnown
  <1>5. \A v : ReceiptState(v)' = ReceiptState(v)
    BY <1>1 DEF ReceiptState, Confirmed
  <1>6. \A r : InHand(r)' = InHand(r)
    BY <1>1, <1>3, <1>4 DEF InHand
  <1>7. \A r, v : IsRowOf(r, v)' = IsRowOf(r, v)
    BY <1>5, <1>6 DEF IsRowOf
  <1>8. RowsMirrorCases'
    BY <1>1, <1>2, <1>7 DEF RowsMirrorCases
  <1>9. WorkIsKnown'
    BY <1>1, <1>2, <1>3, <1>4 DEF WorkIsKnown
  <1> QED BY <1>1, <1>8, <1>9 DEF RowsInv

\* However an analysis goes on or ends.
LEMMA AnalyzeKeepsRows ==
    ASSUME RunInv, RowsInv, Analyze
    PROVE  RowsInv'
  <1>1. CASE EndStage
    <2>1. UNCHANGED <<cases, edges, result, todo, asking, suggestions>>
      BY <1>1 DEF EndStage, matchingVars, graphVars, analysisVars
    <2> QED BY <1>1, <2>1, RowsStay DEF EndStage, RowsInv, Filed, InAnalysis
  <1>2. ASSUME NEW a \in asking, Restore(a.case)
        PROVE  RowsInv'
    <2>1. /\ asking' = {} /\ UNCHANGED <<stage, cases, edges, todo>> /\ stage \in InAnalysis
          /\ UpdateCases({a.case}, "ACTIONABLE_EXCEPTION", "UNRESOLVED")
      BY <1>2 DEF Restore, RunInv, Idle, matchingVars, graphVars
    <2> QED BY <2>1, EndKeepsRows
  <1>3. ASSUME NEW a \in asking, NEW c, Suggest(a.case, c)
        PROVE  RowsInv'
    <2>1. /\ asking' = {} /\ UNCHANGED <<stage, cases, edges, todo>> /\ stage \in InAnalysis
          /\ UpdateCases({a.case}, "SUGGESTED_FOR_REVIEW", "SUGGESTED")
      BY <1>3 DEF Suggest, RunInv, Idle, matchingVars, graphVars
    <2> QED BY <2>1, EndKeepsRows
  <1> QED BY <1>1, <1>2, <1>3, PrepareKeepsRows, BeginKeepsRows, RetryKeepsRows
          DEF Analyze, AnalysisFails, ProviderTimesOut, ProviderFails, AnswerIsRejected,
              AnswerIsUseless, AnswerIsSuggested

\* What a decision makes of a row.
Reviewable(row, c) ==
    /\ DOMAIN row = RowFields /\ row.id = c.id /\ row.gross = c.gross
    /\ row.reviewed = TRUE /\ row.state \in ReviewedStates

\* What decisions make of a row.
LEMMA DecidedRows ==
    ASSUME NEW c, DOMAIN c = RowFields
    PROVE  /\ Reviewable(ApprovedRow(c), c)
           /\ \A state \in ReviewedStates : Reviewable(RefusedRow(c, state), c)
  <1>1. Reviewable(ApprovedRow(c), c)
    <2>1. CASE Reverified(c)
      <3> DEFINE net == Total(Snapshot(c.id).records, "settlements")
                 failed == RecordedInvariants(c)
                 receipt == IF Reviewing(c) # {} THEN "CONFIRMED" ELSE c.receipt
                 bucket == IF c.receipt = "CONFIRMED" \/ Reviewing(c) # {}
                              THEN "BANK_CONFIRMED" ELSE "UNRESOLVED"
      <3>1. ApprovedRow(c) =
              [c EXCEPT !.state = "RECONCILED", !.level = "VERIFIED", !.reviewed = TRUE,
                        !.net = net, !.residual = 0, !.atRisk = 0, !.failed = failed,
                        !.receipt = receipt, !.bucket = bucket]
        BY <2>1 DEF ApprovedRow
      <3> HIDE DEF net, failed, receipt, bucket
      <3> QED BY <3>1 DEF Reviewable, RowFields, ReviewedStates
    <2>2. CASE ~Reverified(c)
      BY <2>2 DEF ApprovedRow, Reviewable, RowFields, ReviewedStates
    <2> QED BY <2>1, <2>2
  <1>2. \A state \in ReviewedStates : Reviewable(RefusedRow(c, state), c)
    BY DEF RefusedRow, Reviewable, RowFields, ReviewedStates
  <1> QED BY <1>1, <1>2

\* A decision replaces one row by such a one.
LEMMA DecideKeepsRows ==
    ASSUME RunInv, RowsInv, NEW c \in result.cases, NEW row, Reviewable(row, c), NEW promoted,
           Decide(c, row, promoted)
    PROVE  RowsInv'
  <1>1. /\ stage \in Filed /\ stage \in InAnalysis /\ todo = {} /\ asking = {}
        /\ UNCHANGED <<stage, cases, edges, todo, asking>>
        /\ result' = [result EXCEPT !.cases = (result.cases \ {c}) \cup {row},
                                    !.edges = result.edges \cup {[edge |-> e, case |-> c.id] :
                                                                    e \in promoted}]
    BY DEF Decide, Idle, Filed, InAnalysis, matchingVars, graphVars
  <1>2. RowsMirrorCases /\ DOMAIN result = ResultFields
    BY <1>1 DEF RowsInv
  <1>3. /\ DOMAIN result' = ResultFields /\ result'.cases = (result.cases \ {c}) \cup {row}
    BY <1>1, <1>2 DEF ResultFields
  <1>4. \A v : ReceiptState(v)' = ReceiptState(v)
    BY <1>1 DEF ReceiptState, Confirmed
  <1>5. \A r : InHand(r)' = InHand(r)
    BY <1>1 DEF InHand
  <1>6. \A r, v : IsRowOf(r, v)' = IsRowOf(r, v)
    BY <1>4, <1>5 DEF IsRowOf
  <1>7. \E v \in cases : IsRowOf(row, v)
    <2>1. PICK v \in cases : IsRowOf(c, v)
      BY <1>2 DEF RowsMirrorCases
    <2> QED BY <2>1 DEF IsRowOf, Reviewable
  <1>8. RowsMirrorCases'
    BY <1>1, <1>2, <1>3, <1>6, <1>7 DEF RowsMirrorCases, Reviewable
  <1>9. WorkIsKnown'
    BY <1>1 DEF WorkIsKnown
  <1> QED BY <1>1, <1>3, <1>8, <1>9 DEF RowsInv

\* Approvals, rejections and deferrals are such decisions.
LEMMA ReviewKeepsRows ==
    ASSUME RunInv, RowsInv, ReviewCase
    PROVE  RowsInv'
  <1>1. PICK c \in result.cases :
           Approve(c) \/ \E state \in {"REJECTED_SUGGESTION", "DEFERRED"} : TurnDown(c, state)
    BY DEF ReviewCase
  <1>2. DOMAIN c = RowFields
    <2>1. stage \in Filed
      BY <1>1 DEF Approve, TurnDown, Decide, Filed, InAnalysis
    <2> QED BY <2>1 DEF RowsInv, RowsMirrorCases, IsRowOf
  <1>3. CASE Approve(c)
    BY <1>2, <1>3, DecidedRows, DecideKeepsRows DEF Approve
  <1>4. ASSUME NEW state \in {"REJECTED_SUGGESTION", "DEFERRED"}, TurnDown(c, state)
        PROVE  RowsInv'
    BY <1>2, <1>4, DecidedRows, DecideKeepsRows DEF TurnDown, ReviewedStates
  <1> QED BY <1>1, <1>3, <1>4

\* _persist_result writes one row for each case.
LEMMA PersistKeepsRows ==
    ASSUME RunInv, RowsInv, PersistResult, UNCHANGED analysisVars
    PROVE  RowsInv'
  <1>1. /\ stage = "reconciled" /\ stage' = "persisted" /\ todo = {} /\ asking = {}
        /\ UNCHANGED <<cases, edges, todo, asking, suggestions>>
        /\ DOMAIN result' = ResultFields
        /\ result'.cases = {PersistedCase(v) : v \in cases}
    BY DEF PersistResult, RunInv, InAnalysis, Idle, analysisVars, matchingVars, graphVars,
           ResultFields
  <1>2. \A v, w \in cases : v.id = w.id => v = w
    BY DEF PersistResult, Collides
  <1>3. ASSUME NEW v
        PROVE  ~PersistedCase(v).reviewed
    BY DEF PersistedCase
  <1>4. RowsMirrorCases'
    <2>0. PICK row : row = [v \in cases |-> PersistedCase(v)]
      OBVIOUS
    <2>1. result'.cases = {row[v] : v \in cases}
      BY <1>1, <2>0
    <2>2. \A v \in cases : row[v].id = v.id /\ IsRowOf(row[v], v)'
      <3> SUFFICES ASSUME NEW v \in cases
                   PROVE  row[v].id = v.id /\ IsRowOf(row[v], v)'
        OBVIOUS
      <3>1. row[v] = PersistedCase(v)
        BY <2>0
      <3>2. ReceiptState(v)' = ReceiptState(v)
        BY <1>1 DEF ReceiptState, Confirmed
      <3> QED BY <3>1, <3>2 DEF PersistedCase, RowFields, IsRowOf
    <2>3. \A r, q \in result'.cases : r.id = q.id => r = q
      BY <1>2, <2>1, <2>2
    <2>4. \A r \in result'.cases : \E v \in cases : IsRowOf(r, v)'
      BY <2>1, <2>2
    <2>5. \A v \in cases : \E r \in result'.cases : r.id = v.id
      BY <2>1, <2>2
    <2> QED BY <1>1, <1>2, <2>3, <2>4, <2>5 DEF RowsMirrorCases
  <1>5. WorkIsKnown'
    BY <1>1 DEF WorkIsKnown
  <1>6. \A r \in result'.cases : ~r.reviewed
    BY <1>1, <1>3
  <1>7. suggestions' = {}
    BY <1>1 DEF RowsInv, InAnalysis
  <1> QED BY <1>1, <1>4, <1>5, <1>6, <1>7 DEF RowsInv, Filed, InAnalysis

\* Every step keeps rows and cases together.
LEMMA RowsInvStep ==
    ASSUME RunInv, RowsInv, [ControlNext]_allVars
    PROVE  RowsInv'
  <1>1. CASE Reconcile /\ (\/ Validate \/ Normalize \/ Generate \/ Match \/ Classify \/ Account
                          \/ PersistFails)
    <2>1. /\ UNCHANGED <<result, todo, asking, suggestions>>
          /\ stage \notin Filed /\ stage' \notin Filed
      BY <1>1 DEF Reconcile, Validate, Normalize, Generate, Match, Classify, Account, PersistFails,
                  analysisVars, engineVars, Filed, InAnalysis
    <2>2. WorkIsKnown'
      BY <2>1 DEF RowsInv, WorkIsKnown
    <2> QED BY <2>1, <2>2 DEF RowsInv, Filed
  <1>2. CASE UNCHANGED allVars
    <2>1. UNCHANGED <<stage, cases, edges, result, todo, asking, suggestions>>
      BY <1>2 DEF allVars, vars, engineVars, matchingVars, graphVars, analysisVars
    <2> QED BY <2>1, RowsStay DEF RowsInv
  <1> QED BY <1>1, <1>2, PersistKeepsRows, AnalyzeKeepsRows, RequestKeepsRows, ReviewKeepsRows
          DEF ControlNext, AnalysisNext, Reconcile, Next

\* What holds of rows throughout a run.
LEMMA RowsInvHolds == ControlSpec => [](RunInv /\ SupportedInv /\ RowsInv)
  BY RowsInvStarts, RowsInvStep, EngineInvHolds, PTL DEF ControlSpec

\* What a run leaves behind, of whatever files and whatever the model answered, is what
\* review assumes of a case.
THEOREM RunIsReviewable == ControlSpec => []OutcomesAreReviewable
  <1>1. ASSUME RunInv, RowsInv
        PROVE  OutcomesAreReviewable
    <2> SUFFICES ASSUME stage = "analyzed", Idle, NEW r \in result.cases, ~r.reviewed
                 PROVE  Outcome(r) \in Reviewed!Classified
      BY DEF OutcomesAreReviewable
    <2>1. RowsMirrorCases /\ stage \in WithCases
      BY <1>1 DEF RowsInv, Filed, InAnalysis, WithCases
    <2>2. PICK v \in cases : IsRowOf(r, v)
      BY <2>1 DEF RowsMirrorCases
    <2>3. Snapshot(r.id) = v
      BY <2>1, <2>2 DEF Snapshot, RowsMirrorCases, IsRowOf
    <2>4. OutcomeIsSound(v)
      BY <1>1, <2>1, OutcomesRead
    <2>5. v.state = "RECONCILED" => ReceiptState(v) = "CONFIRMED"
      <3>1. PICK c \in BuildCases(records, candidates, ambiguous) :
               v = VerifiedCase(c, edges, Overallocated)
        BY <1>1, <2>1 DEF RunInv, Classified
      <3>2. v.entities = c.entities
        BY <3>1, VerifiedFields
      <3> QED BY <3>1, <3>2, ReconciledIsConfirmed DEF ReceiptState, Confirmed
    <2>6. \/ /\ r.state = v.state
             /\ r.level = IF v.state = "RECONCILED" THEN "VERIFIED" ELSE "UNRESOLVED"
          \/ /\ v.code = "AMBIGUOUS_CANDIDATES" /\ r.state = "SUGGESTED_FOR_REVIEW"
             /\ r.level = "SUGGESTED"
      BY <2>2 DEF IsRowOf, InHand, Idle
    <2> DEFINE o == Outcome(r)
    <2>7. /\ o = [state |-> r.state, level |-> r.level, bucket |-> v.bucket,
                  suggestion |-> IF r.state = "SUGGESTED_FOR_REVIEW" THEN "suggested" ELSE "none",
                  ai |-> r.state = "SUGGESTED_FOR_REVIEW",
                  ambiguous |-> v.code = "AMBIGUOUS_CANDIDATES", residual |-> v.residual # 0,
                  received |-> ReceiptState(v) = "CONFIRMED", proved |-> v.failed = {},
                  provable |-> v.ambiguous # {}, owner |-> "default", task |-> FALSE]
      BY <2>2, <2>3 DEF Outcome, IsRowOf
    <2> HIDE DEF o
    <2>8. o \in Reviewed!Case
      BY <2>4, <2>6, <2>7 DEF OutcomeIsSound, Reviewed!Case, Reviewed!CaseStates,
                              Reviewed!Buckets
    <2>9. o \in Reviewed!Classified
      BY <2>4, <2>5, <2>6, <2>7, <2>8 DEF OutcomeIsSound, Reviewed!Classified, NoCode
    <2> QED BY <2>9 DEF o
  <1> QED BY <1>1, RowsInvHolds, PTL

-------------------------------------------------------------------------------
(* Suggestions.                                                             *)

\* Bank transactions of one identifier are of one currency and one value date.  (A
\* candidate is made of one row of an identifier, and checked against the last.)
BankRowsAgree ==
    \A r, q \in OfType(records, "bank_transactions") :
        r.id = q.id => r.currency = q.currency /\ r.due = q.due

\* A suggestion is a receipt of the whole settlement,
Backed(x) ==
    \E s \in Settlements(Snapshot(x.case)),
       b \in OfType(Snapshot(x.case).records, "bank_transactions") :
          /\ x.edge.source = s.id /\ x.edge.target = b.id
          /\ b.signed = s.amount /\ x.edge.amount = s.amount
          /\ b.currency = s.currency
          /\ Null \notin {SettlementDay(s), b.due} /\ SettlementDay(s) <= b.due

\* and neither the settlement nor the receipt is an end of evidence of the case.
Unused(x) ==
    \A y \in result.edges :
        y.case = x.case /\ y.edge.relationship = "settlement_bank" =>
            y.edge.source # x.edge.source /\ y.edge.target # x.edge.target

\* Suggestions and rows that wait for review belong together one to one, and evidence that
\* a review has added is that of a case without a suggestion.
SuggestedInv ==
    /\ \A x \in suggestions :
          /\ Backed(x) /\ Unused(x)
          /\ \E r \in result.cases :
                r.id = x.case /\ (r.reviewed \/ r.state = "SUGGESTED_FOR_REVIEW")
    /\ \A x, y \in suggestions : x.case = y.case => x = y
    /\ \A r \in result.cases : ~r.reviewed /\ r.state = "SUGGESTED_FOR_REVIEW" =>
          \E x \in suggestions : x.case = r.id
    /\ \A y \in result.edges :
          \/ y.edge \in edges
          \/ \E r \in result.cases : r.id = y.case /\ r.reviewed

\* A run starts without suggestions.
LEMMA SuggestedInvStarts == AnalysisInit => SuggestedInv
  BY DEF AnalysisInit, Init, SuggestedInv, Nothing

\* What changes neither rows nor suggestions keeps them together.
LEMMA SuggestionsStay ==
    ASSUME SuggestedInv, UNCHANGED <<cases, edges, result, suggestions>>
    PROVE  SuggestedInv'
  <1>1. \A x : Backed(x)' = Backed(x) /\ Unused(x)' = Unused(x)
    BY DEF Backed, Unused, Snapshot
  <1> QED BY <1>1 DEF SuggestedInv

\* Moving rows that do not wait for review leaves their suggestions alone.
LEMMA MoveKeepsSuggestions ==
    ASSUME RowsInv, SuggestedInv, stage \in Filed, UNCHANGED <<cases, edges, suggestions>>,
           NEW ids, NEW state, NEW level, UpdateCases(ids, state, level),
           \A r \in result.cases :
              r.id \in ids => ~r.reviewed /\ r.state # "SUGGESTED_FOR_REVIEW",
           state # "SUGGESTED_FOR_REVIEW"
    PROVE  SuggestedInv'
  <1>1. DOMAIN result = ResultFields /\ \A r \in result.cases : DOMAIN r = RowFields
    BY DEF RowsInv, RowsMirrorCases, IsRowOf
  <1>2. RowsMirrorCases
    BY DEF RowsInv
  <1>3. result'.edges = result.edges
    BY <1>1, UpdatedRows
  <1>4. PICK moved :
           /\ result'.cases = {moved[r] : r \in result.cases}
           /\ \A r \in result.cases :
                 /\ SameCase(moved[r], r)
                 /\ r.id \in ids => moved[r].state = state /\ moved[r].level = level
                 /\ r.id \notin ids => moved[r] = r
    BY <1>1, UpdatedRows
  <1>5. \A x : Backed(x)' = Backed(x) /\ Unused(x)' = Unused(x)
    BY <1>3 DEF Backed, Unused, Snapshot
  <1>6. \A r \in result.cases : moved[r].id = r.id /\ moved[r].reviewed = r.reviewed
    BY <1>4 DEF SameCase
  <1>7. ASSUME NEW x \in suggestions
        PROVE  \E r \in result'.cases :
                  r.id = x.case /\ (r.reviewed \/ r.state = "SUGGESTED_FOR_REVIEW")
    <2>1. PICK r \in result.cases :
             r.id = x.case /\ (r.reviewed \/ r.state = "SUGGESTED_FOR_REVIEW")
      BY DEF SuggestedInv
    <2>2. r.id \notin ids
      BY <1>2, <2>1 DEF RowsMirrorCases, IsRowOf
    <2> QED BY <1>4, <2>1, <2>2
  <1>8. ASSUME NEW r \in result.cases, ~moved[r].reviewed,
               moved[r].state = "SUGGESTED_FOR_REVIEW"
        PROVE  \E x \in suggestions : x.case = moved[r].id
    <2>1. r.id \notin ids /\ moved[r] = r
      BY <1>4, <1>8
    <2> QED BY <1>8, <2>1 DEF SuggestedInv
  <1>9. ASSUME NEW y \in result.edges
        PROVE  y.edge \in edges \/ \E r \in result'.cases : r.id = y.case /\ r.reviewed
    BY <1>4, <1>6 DEF SuggestedInv
  <1>10. \A r \in result'.cases : ~r.reviewed /\ r.state = "SUGGESTED_FOR_REVIEW" =>
            \E x \in suggestions : x.case = r.id
    BY <1>4, <1>8
  <1> QED BY <1>3, <1>5, <1>7, <1>9, <1>10 DEF SuggestedInv

\* What verify_suggested_relationship passes is a receipt nothing has used.
LEMMA SupportedIsReceipt ==
    ASSUME RunInv, RowsInv, SuggestedInv, BankRowsAgree, stage \in Filed,
           NEW id, NEW answer, NEW c \in Supported(answer, id),
           NEW v \in cases, v.id = id,
           \A r \in result.cases : r.id = id => ~r.reviewed
    PROVE  LET x == [edge |-> EdgeOf(c), case |-> id] IN Backed(x) /\ Unused(x)
  <1> DEFINE x == [edge |-> EdgeOf(c), case |-> id]
  <1>1. /\ x.case = id /\ x.edge.source = c.source /\ x.edge.target = c.target
        /\ x.edge.amount = c.amount
    BY DEF EdgeOf
  <1>2. RowsMirrorCases
    BY DEF RowsInv
  <1>3. Snapshot(id) = v
    BY <1>2 DEF Snapshot, RowsMirrorCases
  <1>4. c \in Undecided(id) /\ VerifySuggested(c, id)
    BY DEF Supported
  <1> DEFINE s == Record(v, c.source)
             b == Record(v, c.target)
  <1>5. /\ c \in candidates /\ {c.source, c.target} \subseteq v.entities
        /\ c.relationship = "settlement_bank"
        /\ s.type = "settlements" /\ b.type = "bank_transactions"
        /\ s.amount # Null /\ b.amount # Null /\ c.amount = s.amount /\ s.amount = b.amount
        /\ s.currency = b.currency
        /\ Null \notin {SettlementDay(s), b.due} /\ SettlementDay(s) <= b.due
    BY <1>3, <1>4 DEF VerifySuggested, Balances, NotBefore, BothDated
  <1>6. ~\E e \in EvidenceOf(id) : ConflictsWith(c, e)
    BY <1>4 DEF VerifySuggested
  <1>7. /\ CasesDivide(cases, records) /\ AreRecords(v.records)
    BY CasesRead DEF Filed, WithCases
  <1>8. /\ s \in v.records /\ s.id = c.source /\ b \in v.records /\ b.id = c.target
        /\ b \in records
    <2>1. Known(v.records, c.source) /\ Known(v.records, c.target)
      BY <1>5, <1>7 DEF Known, CasesDivide
    <2>2. s \in v.records /\ s.id = c.source /\ b \in v.records /\ b.id = c.target
      BY <1>7, <2>1, LastWithIs DEF Record
    <2>3. b \in records
      BY <1>7, <2>2 DEF CasesDivide
    <2> QED BY <2>2, <2>3
  <1>9. PICK r \in OfType(records, "bank_transactions") : c.target = r.id /\ c.amount = OrZero(r.signed)
    <2>1. candidates = GenerateCandidates(records)
      BY DEF RunInv, Filed, InAnalysis, BeforeMatching, BeforeRecords
    <2> QED BY <1>5, <2>1, RecordsRead, BankCandidate
  <1>10. /\ s \in Settlements(v) /\ s.amount \in Int /\ b.signed \in Int
         /\ b.amount = 0 => b.signed = 0
    <2> HIDE DEF s, b
    <2> QED BY <1>5, <1>7, <1>8 DEF Settlements, OfType, AreRecords, IsRecord, Given
  <1>11. Backed(x)
    <2> HIDE DEF s, b, x
    <2>1. b \in OfType(v.records, "bank_transactions") /\ b \in OfType(records, "bank_transactions")
      BY <1>5, <1>8 DEF OfType
    <2>2. r \in OfType(v.records, "bank_transactions")
      BY <1>5, <1>7, <1>9 DEF OfType, CasesDivide
    <2>3. r.currency = b.currency /\ r.due = b.due
      BY <1>8, <1>9, <2>1 DEF BankRowsAgree
    <2>4. CASE r.signed # Null
      <3>1. r.signed = s.amount
        BY <1>5, <1>9, <2>4 DEF OrZero
      <3> QED BY <1>1, <1>3, <1>5, <1>8, <1>9, <1>10, <2>2, <2>3, <3>1 DEF Backed
    <2>5. CASE r.signed = Null
      <3>1. b.signed = s.amount
        BY <1>5, <1>9, <1>10, <2>5 DEF OrZero
      <3> QED BY <1>1, <1>3, <1>5, <1>8, <1>10, <2>1, <3>1 DEF Backed
    <2> QED BY <2>4, <2>5
  <1>12. Unused(x)
    <2> SUFFICES ASSUME NEW y \in result.edges, y.case = id,
                        y.edge.relationship = "settlement_bank",
                        y.edge.source = c.source \/ y.edge.target = c.target
                 PROVE  FALSE
      BY <1>1 DEF Unused
    <2> DEFINE e == y.edge
    <2>1. e \in EvidenceOf(id)
      BY DEF EvidenceOf
    <2>2. e.source = c.source /\ e.target = c.target
      BY <1>5, <1>6, <2>1 DEF ConflictsWith
    <2>3. \E r2 \in result.cases : r2.id = id
      BY <1>2 DEF RowsMirrorCases
    <2>4. e \in edges
      BY <1>2 DEF SuggestedInv, RowsMirrorCases
    <2>5. Decision(c) = "VERIFIED"
      BY <1>5, <2>2, <2>4 DEF Decision
    <2> QED BY <1>4, <2>5 DEF Undecided
  <1> QED BY <1>11, <1>12

\* The AI stage prepares no case that waits for review.
LEMMA PrepareKeepsSuggestions ==
    ASSUME RunInv, RowsInv, SuggestedInv, PrepareCases
    PROVE  SuggestedInv'
  <1>1. /\ stage = "persisted" /\ stage \in Filed
        /\ UNCHANGED <<cases, edges, suggestions>> /\ suggestions = {}
    BY DEF PrepareCases, Filed, InAnalysis, RowsInv, matchingVars, graphVars
  <1>2. CASE UNCHANGED <<result, todo>>
    BY <1>1, <1>2, SuggestionsStay
  <1>3. ASSUME NEW chosen \in SUBSET Selected, UpdateCases(chosen, "NEEDS_ANALYSIS", "UNRESOLVED")
        PROVE  SuggestedInv'
    <2>1. ASSUME NEW r \in result.cases, r.id \in chosen
          PROVE  ~r.reviewed /\ r.state # "SUGGESTED_FOR_REVIEW"
      <3>1. r.id \in Selected
        BY <1>3, <2>1
      <3>2. ~r.reviewed
        BY <1>1, <3>1, TiedRows
      <3> QED BY <1>1, <3>2 DEF SuggestedInv
    <2> QED BY <1>1, <1>3, <2>1, MoveKeepsSuggestions
  <1> QED BY <1>2, <1>3 DEF PrepareCases, kSubset

\* Nor does a request for an analysis.
LEMMA RequestKeepsSuggestions ==
    ASSUME RunInv, RowsInv, SuggestedInv, NEW id \in Eligible, Request(id)
    PROVE  SuggestedInv'
  <1>1. /\ stage \in Filed /\ UNCHANGED <<cases, edges, suggestions>>
        /\ UpdateCases({id}, "NEEDS_ANALYSIS", "UNRESOLVED")
    BY DEF Request, Filed, InAnalysis, matchingVars, graphVars
  <1>2. ASSUME NEW r \in result.cases, r.id \in {id}
        PROVE  ~r.reviewed /\ r.state # "SUGGESTED_FOR_REVIEW"
    <2>1. PICK q \in result.cases : q.id = id /\ IsEligible(q)
      BY DEF Eligible
    <2>2. r = q
      BY <1>1, <1>2, <2>1 DEF RowsInv, RowsMirrorCases
    <2> QED BY <1>1, <1>2, <2>1, <2>2, TiedRows DEF IsEligible
  <1> QED BY <1>1, <1>2, MoveKeepsSuggestions

\* The row of a case that is prepared or asked about.
LEMMA WorkRows ==
    ASSUME RunInv, RowsInv, NEW id, id \in todo \/ \E a \in asking : a.case = id
    PROVE  /\ stage \in InAnalysis /\ stage \in Filed
           /\ \E r \in result.cases : r.id = id
           /\ \A r \in result.cases :
                 r.id = id => /\ ~r.reviewed /\ r.state # "SUGGESTED_FOR_REVIEW"
                              /\ r.code = "AMBIGUOUS_CANDIDATES"
  <1>1. stage \in InAnalysis /\ stage \in Filed
    BY DEF RunInv, Idle, Filed
  <1>2. RowsMirrorCases /\ WorkIsKnown
    BY <1>1 DEF RowsInv
  <1> QED BY <1>1, <1>2, TiedRows DEF WorkIsKnown, RowsMirrorCases

\* A case that is prepared or asked about has no suggestion.
LEMMA MovesKeepSuggestions ==
    ASSUME RunInv, RowsInv, SuggestedInv, NEW id, id \in todo \/ (\E a \in asking : a.case = id),
           UNCHANGED <<cases, edges, suggestions>>, NEW state, NEW level,
           UpdateCases({id}, state, level), state # "SUGGESTED_FOR_REVIEW"
    PROVE  SuggestedInv'
  <1>1. stage \in Filed
    BY WorkRows
  <1>2. \A r \in result.cases :
           r.id \in {id} => ~r.reviewed /\ r.state # "SUGGESTED_FOR_REVIEW"
    BY WorkRows
  <1> QED BY <1>1, <1>2, MoveKeepsSuggestions

\* A suggestion is made for a case that has none.
LEMMA SuggestKeepsSuggestions ==
    ASSUME RunInv, RowsInv, SuggestedInv, BankRowsAgree, NEW a \in asking,
           NEW answer, NEW c \in Supported(answer, a.case), Suggest(a.case, c)
    PROVE  SuggestedInv'
  <1> DEFINE id == a.case
             x == [edge |-> EdgeOf(c), case |-> id]
  <1>1. /\ UNCHANGED <<cases, edges>> /\ suggestions' = suggestions \cup {x}
        /\ UpdateCases({id}, "SUGGESTED_FOR_REVIEW", "SUGGESTED")
    BY DEF Suggest, matchingVars, graphVars
  <1>2. /\ stage \in Filed
        /\ \E r \in result.cases : r.id = id
        /\ \A r \in result.cases : r.id = id => ~r.reviewed /\ r.state # "SUGGESTED_FOR_REVIEW"
    BY WorkRows
  <1>3. RowsMirrorCases /\ DOMAIN result = ResultFields
    BY <1>2 DEF RowsInv
  <1>4. \A r \in result.cases : DOMAIN r = RowFields
    BY <1>3 DEF RowsMirrorCases, IsRowOf
  <1>5. result'.edges = result.edges
    BY <1>1, <1>3, <1>4, UpdatedRows
  <1>6. PICK moved :
           /\ result'.cases = {moved[r] : r \in result.cases}
           /\ \A r \in result.cases :
                 /\ SameCase(moved[r], r)
                 /\ r.id \in {id} => moved[r].state = "SUGGESTED_FOR_REVIEW"
                 /\ r.id \notin {id} => moved[r] = r
    BY <1>1, <1>3, <1>4, UpdatedRows
  <1>7. \A y : Backed(y)' = Backed(y) /\ Unused(y)' = Unused(y)
    BY <1>1, <1>5 DEF Backed, Unused, Snapshot
  <1>8. Backed(x) /\ Unused(x)
    <2>1. PICK v \in cases : v.id = id
      BY <1>2, <1>3 DEF RowsMirrorCases, IsRowOf
    <2> QED BY <1>2, <2>1, SupportedIsReceipt
  <1>9. \A y \in suggestions : y.case # id
    BY <1>2, <1>3 DEF SuggestedInv, RowsMirrorCases
  <1>10. \A r \in result.cases : moved[r].id = r.id /\ moved[r].reviewed = r.reviewed
    BY <1>6 DEF SameCase
  <1>11. x.case = id
    OBVIOUS
  <1> HIDE DEF x, id
  <1>12. ASSUME NEW y \in suggestions'
         PROVE  /\ Backed(y) /\ Unused(y)
                /\ \E r \in result'.cases :
                      r.id = y.case /\ (r.reviewed \/ r.state = "SUGGESTED_FOR_REVIEW")
    <2>1. CASE y \in suggestions
      BY <1>6, <1>9, <2>1 DEF SuggestedInv
    <2>2. CASE y = x
      BY <1>2, <1>6, <1>8, <1>10, <1>11, <2>2
    <2> QED BY <1>1, <2>1, <2>2
  <1>13. ASSUME NEW r \in result'.cases, ~r.reviewed, r.state = "SUGGESTED_FOR_REVIEW"
         PROVE  \E y \in suggestions' : y.case = r.id
    <2>1. PICK q \in result.cases : r = moved[q]
      BY <1>6
    <2>2. CASE q.id = id
      BY <1>1, <1>10, <1>11, <2>1, <2>2
    <2>3. CASE q.id # id
      BY <1>1, <1>6, <1>13, <2>1, <2>3 DEF SuggestedInv
    <2> QED BY <2>2, <2>3
  <1>14. \A y, z \in suggestions' : y.case = z.case => y = z
    BY <1>1, <1>9, <1>11 DEF SuggestedInv
  <1>15. \A y \in result.edges :
            y.edge \in edges \/ \E r \in result'.cases : r.id = y.case /\ r.reviewed
    BY <1>6, <1>10 DEF SuggestedInv
  <1> QED BY <1>1, <1>5, <1>7, <1>12, <1>13, <1>14, <1>15 DEF SuggestedInv

\* However an analysis goes on or ends.
LEMMA AnalyzeKeepsSuggestions ==
    ASSUME RunInv, RowsInv, SuggestedInv, BankRowsAgree, Analyze
    PROVE  SuggestedInv'
  <1>1. CASE EndStage
    BY <1>1, SuggestionsStay DEF EndStage, matchingVars, graphVars, analysisVars
  <1>2. ASSUME NEW id \in todo, Begin(id)
        PROVE  SuggestedInv'
    BY <1>2, MovesKeepSuggestions DEF Begin, matchingVars, graphVars
  <1>3. ASSUME NEW a \in asking, Restore(a.case)
        PROVE  SuggestedInv'
    <2>1. /\ UNCHANGED <<cases, edges, suggestions>>
          /\ UpdateCases({a.case}, "ACTIONABLE_EXCEPTION", "UNRESOLVED")
      BY <1>3 DEF Restore, matchingVars, graphVars
    <2> QED BY <2>1, MovesKeepSuggestions
  <1>4. ASSUME NEW a \in asking, Retry(a)
        PROVE  SuggestedInv'
    BY <1>4, SuggestionsStay DEF Retry, vars, engineVars, matchingVars, graphVars
  <1> QED BY <1>1, <1>2, <1>3, <1>4, PrepareKeepsSuggestions, SuggestKeepsSuggestions
          DEF Analyze, AnalysisFails, ProviderTimesOut, ProviderFails, AnswerIsRejected,
              AnswerIsUseless, AnswerIsSuggested

\* A decision about a case takes its suggestion with it if it adds evidence.
LEMMA DecideKeepsSuggestions ==
    ASSUME RunInv, RowsInv, SuggestedInv, NEW c \in result.cases, NEW row, Reviewable(row, c),
           NEW promoted, promoted = {} \/ promoted = Reviewing(c),
           Decide(c, row, promoted)
    PROVE  SuggestedInv'
  <1>1. /\ stage \in InAnalysis /\ UNCHANGED <<cases, edges>>
        /\ result' = [result EXCEPT !.cases = (result.cases \ {c}) \cup {row},
                                    !.edges = result.edges \cup {[edge |-> e, case |-> c.id] :
                                                                    e \in promoted}]
        /\ suggestions' = {x \in suggestions : x.case = c.id => x.edge \notin promoted}
    BY DEF Decide, InAnalysis, matchingVars, graphVars
  <1>2. RowsMirrorCases /\ DOMAIN result = ResultFields
    BY <1>1 DEF RowsInv, Filed
  <1>3. /\ result'.cases = (result.cases \ {c}) \cup {row}
        /\ result'.edges = result.edges \cup {[edge |-> e, case |-> c.id] : e \in promoted}
    BY <1>1, <1>2 DEF ResultFields
  <1>4. promoted # {} => \A x \in suggestions' : x.case # c.id
    <2> SUFFICES ASSUME promoted = Reviewing(c), promoted # {}, NEW x \in suggestions,
                        x.case = c.id
                 PROVE  x.edge \in promoted
      BY <1>1
    <2> QED BY DEF Reviewing
  <1>5. /\ \A r \in result.cases : r.id = c.id => r = c
        /\ row.id = c.id /\ row.reviewed /\ row \in result'.cases
    BY <1>2, <1>3 DEF RowsMirrorCases, Reviewable
  <1>6. \A x : Backed(x)' = Backed(x)
    BY <1>1 DEF Backed, Snapshot
  <1>7. ASSUME NEW x \in suggestions'
        PROVE  Unused(x)'
    <2>1. Unused(x)
      BY <1>1 DEF SuggestedInv
    <2>2. \A y \in result'.edges : y \in result.edges \/ (promoted # {} /\ y.case = c.id)
      BY <1>3
    <2> QED BY <1>4, <2>1, <2>2 DEF Unused
  <1>8. ASSUME NEW x \in suggestions
        PROVE  \E r \in result'.cases :
                  r.id = x.case /\ (r.reviewed \/ r.state = "SUGGESTED_FOR_REVIEW")
    <2>1. PICK r \in result.cases :
             r.id = x.case /\ (r.reviewed \/ r.state = "SUGGESTED_FOR_REVIEW")
      BY DEF SuggestedInv
    <2> QED BY <1>3, <1>5, <2>1
  <1>9. ASSUME NEW r \in result'.cases, ~r.reviewed, r.state = "SUGGESTED_FOR_REVIEW"
        PROVE  \E x \in suggestions' : x.case = r.id
    <2>1. r \in result.cases /\ r # c
      BY <1>3, <1>5, <1>9
    <2>2. PICK x \in suggestions : x.case = r.id
      BY <1>9, <2>1 DEF SuggestedInv
    <2> QED BY <1>1, <1>5, <2>1, <2>2
  <1>10. ASSUME NEW y \in result'.edges
         PROVE  y.edge \in edges \/ \E r \in result'.cases : r.id = y.case /\ r.reviewed
    <2>1. CASE y \in result.edges
      BY <1>3, <1>5, <2>1 DEF SuggestedInv
    <2>2. CASE y.case = c.id
      BY <1>5, <2>2
    <2> QED BY <1>3, <2>1, <2>2
  <1>11. \A x \in suggestions' : x \in suggestions
    BY <1>1
  <1>12. \A x \in suggestions' : Backed(x) /\ Unused(x)'
    BY <1>7, <1>11 DEF SuggestedInv
  <1> QED BY <1>1, <1>6, <1>8, <1>9, <1>10, <1>11, <1>12 DEF SuggestedInv

\* Every step leaves only receipts as suggestions.
LEMMA SuggestedInvStep ==
    ASSUME RunInv, RowsInv, SuggestedInv, BankRowsAgree, [ControlNext]_allVars
    PROVE  SuggestedInv'
  <1>1. CASE Reconcile /\ (\/ Validate \/ Normalize \/ Generate \/ Match \/ Classify \/ Account
                          \/ PersistFails)
    <2>1. /\ UNCHANGED <<result, suggestions>> /\ stage \notin Filed /\ stage \notin InAnalysis
      BY <1>1 DEF Reconcile, Validate, Normalize, Generate, Match, Classify, Account, PersistFails,
                  analysisVars, engineVars, Filed, InAnalysis
    <2>2. suggestions = {} /\ result.cases = {} /\ result.edges = {}
      BY <2>1 DEF RowsInv, Nothing
    <2> QED BY <2>1, <2>2 DEF SuggestedInv
  <1>2. CASE Reconcile /\ PersistResult
    <2>1. /\ suggestions' = {} /\ edges' = edges
          /\ result'.cases = {PersistedCase(v) : v \in cases}
          /\ result'.edges = {[edge |-> e, case |-> CaseOfEdge(e)] : e \in edges}
      BY <1>2 DEF Reconcile, PersistResult, analysisVars, RowsInv, InAnalysis, matchingVars,
                  graphVars
    <2>2. \A y \in result'.edges : y.edge \in edges'
      BY <2>1
    <2>3. \A r \in result'.cases : r.state # "SUGGESTED_FOR_REVIEW"
      <3>1. stage \in WithCases
        BY <1>2 DEF PersistResult, WithCases
      <3>2. \A v \in cases : PersistedCase(v).state = v.state /\ OutcomeIsSound(v)
        BY <3>1, OutcomesRead DEF PersistedCase
      <3> QED BY <2>1, <3>2 DEF OutcomeIsSound
    <2> QED BY <2>1, <2>2, <2>3 DEF SuggestedInv
  <1>3. ASSUME NEW id \in Eligible, Request(id)
        PROVE  SuggestedInv'
    BY <1>3, RequestKeepsSuggestions
  <1>4. CASE ReviewCase
    <2>1. PICK c \in result.cases :
             Approve(c) \/ \E state \in {"REJECTED_SUGGESTION", "DEFERRED"} : TurnDown(c, state)
      BY <1>4 DEF ReviewCase
    <2>2. DOMAIN c = RowFields
      <3>1. stage \in Filed
        BY <2>1 DEF Approve, TurnDown, Decide, Filed, InAnalysis
      <3> QED BY <3>1 DEF RowsInv, RowsMirrorCases, IsRowOf
    <2>3. CASE Approve(c)
      <3> DEFINE promoted == IF Reverified(c) THEN Reviewing(c) ELSE {}
      <3>1. promoted = {} \/ promoted = Reviewing(c)
        OBVIOUS
      <3>2. Decide(c, ApprovedRow(c), promoted)
        BY <2>3 DEF Approve
      <3> HIDE DEF promoted
      <3> QED BY <2>2, <3>1, <3>2, DecidedRows, DecideKeepsSuggestions
    <2>4. ASSUME NEW state \in {"REJECTED_SUGGESTION", "DEFERRED"}, TurnDown(c, state)
          PROVE  SuggestedInv'
      <3>1. Reviewable(RefusedRow(c, state), c)
        BY <2>2, DecidedRows DEF ReviewedStates
      <3>2. Decide(c, RefusedRow(c, state), {})
        BY <2>4 DEF TurnDown
      <3> QED BY <3>1, <3>2, DecideKeepsSuggestions
    <2> QED BY <2>1, <2>3, <2>4
  <1>5. CASE UNCHANGED allVars
    BY <1>5, SuggestionsStay DEF allVars, vars, engineVars, matchingVars, graphVars, analysisVars
  <1> QED BY <1>1, <1>2, <1>3, <1>4, <1>5, AnalyzeKeepsSuggestions
          DEF ControlNext, AnalysisNext, Reconcile, Next

\* What is suggested then is a receipt of the settlement, in time and unused in its case.
LEMMA SuggestionsAreSound ==
    ASSUME RunInv, RowsInv, SuggestedInv
    PROVE  SuggestionsAreReceipts
  <1>1. ASSUME NEW r \in result.cases, ~r.reviewed
        PROVE  Cardinality({x \in suggestions : x.case = r.id})
                 = IF r.state = "SUGGESTED_FOR_REVIEW" THEN 1 ELSE 0
    <2> DEFINE X == {x \in suggestions : x.case = r.id}
    <2>1. \A q \in result.cases : q.id = r.id => q = r
      <3>1. stage \in Filed
        BY DEF RowsInv, Nothing
      <3> QED BY <3>1 DEF RowsInv, RowsMirrorCases
    <2>2. CASE r.state = "SUGGESTED_FOR_REVIEW"
      <3>1. PICK x : X = {x}
        BY <1>1, <2>2 DEF SuggestedInv
      <3> QED BY <2>2, <3>1, FS_Singleton
    <2>3. CASE r.state # "SUGGESTED_FOR_REVIEW"
      <3>1. X = {}
        BY <1>1, <2>1, <2>3 DEF SuggestedInv
      <3> QED BY <2>3, <3>1, FS_EmptySet
    <2> QED BY <2>2, <2>3
  <1>2. ASSUME NEW x \in suggestions
        PROVE  \E s \in Settlements(Snapshot(x.case)),
                  b \in OfType(Snapshot(x.case).records, "bank_transactions") :
                    /\ x.edge.source = s.id /\ x.edge.target = b.id
                    /\ b.signed = s.amount /\ x.edge.amount = s.amount
                    /\ b.currency = s.currency
                    /\ Null \notin {SettlementDay(s), b.due} /\ SettlementDay(s) <= b.due
                    /\ \A e \in EvidenceOf(x.case) : e.relationship = "settlement_bank" =>
                          e.source # s.id /\ e.target # b.id
    <2>1. Backed(x) /\ Unused(x)
      BY DEF SuggestedInv
    <2>2. \A e \in EvidenceOf(x.case) : e.relationship = "settlement_bank" =>
             e.source # x.edge.source /\ e.target # x.edge.target
      BY <2>1 DEF EvidenceOf, Unused
    <2> QED BY <2>1, <2>2 DEF Backed
  <1> QED BY <1>1, <1>2 DEF SuggestionsAreReceipts

\* Whatever the model answers, what is suggested of any files is money of the right amount
\* and currency, not dated before the settlement, that the evidence of the case has not
\* used; as long as the rows of a bank transaction agree on its currency and day, since a
\* candidate is made of one of the rows with its identifier and checked against another.
THEOREM ModelSuggestsReceipts ==
    ControlSpec /\ []BankRowsAgree => []SuggestionsAreReceipts
  <1>1. RunInv /\ RowsInv /\ SuggestedInv /\ BankRowsAgree /\ [ControlNext]_allVars
          => SuggestedInv'
    BY SuggestedInvStep
  <1>2. RunInv /\ RowsInv /\ SuggestedInv => SuggestionsAreReceipts
    BY SuggestionsAreSound
  <1> QED BY <1>1, <1>2, SuggestedInvStarts, RowsInvHolds, PTL DEF ControlSpec

-------------------------------------------------------------------------------
(* What a package says of files.                                            *)

\* A row as the package has it.
Kept(file, i) ==
    [number |-> RowNumber(i), columns |-> file.columns, values |-> RawValues(file.rows[i])]

Source(t) == [content |-> files[t], rows |-> PackagedRows(t)]

Uploaded == files \in [TypeSet -> SourceFile]

\* The rows of a file are a sequence, of the fields a row has.
LEMMA UploadedRows ==
    ASSUME Uploaded, NEW t \in TypeSet
    PROVE  /\ Len(files[t].rows) \in Nat
           /\ DOMAIN files[t].rows = 1..Len(files[t].rows)
           /\ \A i \in DOMAIN files[t].rows : files[t].rows[i] \in SourceRow
  <1>1. files[t].rows \in Seq(SourceRow)
    BY DEF Uploaded, SourceFile
  <1> QED BY <1>1

\* The rows of a package are those of the files that are read as its type.
LEMMA PackagedRowsAre ==
    ASSUME NEW t
    PROVE  PackagedRows(t) =
              UNION {{Kept(files[u], i) : i \in DOMAIN files[u].rows} :
                        u \in {w \in TypeSet : DetectedType(files[w], w) = t}}
  BY DEF PackagedRows, Kept

\* Where no file is misfiled, the rows under a type are the rows of its file.
LEMMA RowsOfTheFile ==
    ASSUME Uploaded, ~Misfiled, NEW t \in TypeSet
    PROVE  PackagedRows(t) = {Kept(files[t], i) : i \in DOMAIN files[t].rows}
  <1>1. \A u \in TypeSet : DOMAIN files[u].rows # {} => DetectedType(files[u], u) = u
    <2>1. ASSUME NEW u \in TypeSet, files[u].rows = <<>>
          PROVE  DOMAIN files[u].rows = {}
      BY <2>1
    <2> QED BY <2>1 DEF Misfiled
  <1>2. ASSUME NEW x \in PackagedRows(t)
        PROVE  x \in {Kept(files[t], i) : i \in DOMAIN files[t].rows}
    <2>1. PICK u \in TypeSet : /\ DetectedType(files[u], u) = t
                               /\ \E i \in DOMAIN files[u].rows : x = Kept(files[u], i)
      BY PackagedRowsAre
    <2> QED BY <1>1, <2>1
  <1>3. ASSUME NEW i \in DOMAIN files[t].rows
        PROVE  Kept(files[t], i) \in PackagedRows(t)
    <2>1. DetectedType(files[t], t) = t
      BY <1>1
    <2> QED BY <2>1, PackagedRowsAre
  <1> QED BY <1>2, <1>3

\* A row that fills its columns is kept as it is.
LEMMA RowIsKept ==
    ASSUME NEW row \in SourceRow
    PROVE  RawValues(row) = row <=> row.cells = "all"
  <1>1. DOMAIN RawValues(row) = DOMAIN row /\ RawValues(row).cells = "all"
    BY DEF RawValues, SourceRow
  <1>2. \A k \in DOMAIN row : k # "cells" => RawValues(row)[k] = row[k]
    BY DEF RawValues, SourceRow
  <1>3. row.cells = "all" => RawValues(row) = row
    BY DEF RawValues, SourceRow
  <1> QED BY <1>1, <1>3

\* A source that has its rows, all of them whole, passes the verifier.
LEMMA SourceIsCovered ==
    ASSUME Uploaded, ~Misfiled, ~Ragged, NEW t \in TypeSet
    PROVE  SourceErrors(Source(t)) = {}
  <1> DEFINE n == Len(files[t].rows)
             D == 1..n
             f == [i \in D |-> Kept(files[t], i)]
             g == [i \in D |-> i + 1]
             rows == PackagedRows(t)
             numbers == {r.number : r \in rows}
  <1>1. n \in Nat /\ DOMAIN files[t].rows = D
    BY UploadedRows
  <1>2. rows = {f[i] : i \in D}
    BY <1>1, RowsOfTheFile
  <1>3. \A i \in D : /\ f[i].number = i + 1 /\ f[i].columns = files[t].columns
                     /\ f[i].values = RawValues(files[t].rows[i])
    BY DEF Kept, RowNumber
  <1>4. numbers = {g[i] : i \in D}
    <2>1. \A i \in D : f[i].number = g[i]
      BY <1>3
    <2> HIDE DEF f, g, D, rows
    <2> QED BY <1>2, <2>1
  <1>a. \A i \in D : g[i] = i + 1 /\ i \in Int
    BY <1>1
  <1> HIDE DEF f, g
  <1>5. /\ \A i, j \in D : f[i] = f[j] => i = j
        /\ \A i, j \in D : g[i] = g[j] => i = j
    <2> HIDE DEF D
    <2>1. \A i, j \in D : i + 1 = j + 1 => i = j
      BY <1>a
    <2> QED BY <1>3, <1>a, <2>1
  <1>6. IsFiniteSet(D) /\ Cardinality(D) = n
    <2>1. D = 1..n /\ 1 \in Int /\ n \in Int
      BY <1>1
    <2>2. 1 > n => n = 0
      BY <1>1
    <2> QED BY <1>1, <2>1, <2>2, FS_Interval
  <1>7. \A r \in rows : /\ r.number - 1 \in D => r.columns = files[t].columns
                        /\ r.number - 1 \in D => r.values = files[t].rows[r.number - 1]
    <2> HIDE DEF D, rows
    <2> SUFFICES ASSUME NEW i \in D
                 PROVE  /\ f[i].columns = files[t].columns
                        /\ f[i].values = files[t].rows[f[i].number - 1]
      BY <1>2
    <2>1. f[i].number - 1 = i
      BY <1>a, <1>3
    <2>2. files[t].rows[i] \in SourceRow /\ files[t].rows[i].cells = "all"
      BY <1>1, UploadedRows DEF Ragged
    <2>3. f[i].values = files[t].rows[i]
      BY <1>3, <2>2, RowIsKept
    <2> QED BY <1>3, <2>1, <2>3
  <1> HIDE DEF D
  <1>8. Cardinality(rows) = n /\ Cardinality(numbers) = n
    <2>1. Cardinality({f[i] : i \in D}) = n
      BY <1>5, <1>6, ImagesCount
    <2>2. Cardinality({g[i] : i \in D}) = n
      BY <1>5, <1>6, ImagesCount
    <2> QED BY <1>2, <1>4, <2>1, <2>2
  <1>9. Source(t).content = files[t] /\ Source(t).rows = rows
    BY DEF Source
  <1>10. Cardinality(Source(t).rows) = Len(Source(t).content.rows)
    BY <1>8, <1>9
  <1>11. Cardinality({r.number : r \in Source(t).rows}) = Cardinality(Source(t).rows)
    BY <1>8, <1>9
  <1>12. ~\E r \in Source(t).rows : /\ r.number - 1 \in DOMAIN Source(t).content.rows
                                    /\ \/ r.columns # Source(t).content.columns
                                       \/ r.values # Source(t).content.rows[r.number - 1]
    BY <1>1, <1>7, <1>9
  <1> QED BY <1>10, <1>11, <1>12 DEF SourceErrors

\* A file that is read as another type shows under its own: its rows are not there, or
\* those of another file are.
LEMMA MisfiledIsNoticed ==
    ASSUME Uploaded, Misfiled
    PROVE  \E t \in TypeSet : \E x : x \in SourceErrors(Source(t))
  <1>1. PICK t \in TypeSet : files[t].rows # <<>> /\ DetectedType(files[t], t) # t
    BY DEF Misfiled
  <1> DEFINE rows == PackagedRows(t)
  <1>2. /\ Len(files[t].rows) # 0 /\ 1 \in DOMAIN files[t].rows
    <2>1. files[t].rows \in Seq(SourceRow)
      BY DEF Uploaded, SourceFile
    <2> QED BY <1>1, <2>1
  <1>3. Source(t).content = files[t] /\ Source(t).rows = rows
    BY DEF Source
  <1>4. CASE rows = {}
    <2>1. Cardinality(rows) = 0
      BY <1>4, FS_EmptySet
    <2> DEFINE error == "row coverage mismatch"
    <2>2. error \in SourceErrors(Source(t))
      BY <1>2, <1>3, <2>1 DEF SourceErrors
    <2> HIDE DEF error
    <2> QED BY <2>2
  <1>5. CASE rows # {}
    <2>1. PICK u \in TypeSet : DetectedType(files[u], u) = t /\ DOMAIN files[u].rows # {}
      BY <1>5, PackagedRowsAre
    <2>2. files[u].columns = t
      BY <1>1, <2>1 DEF DetectedType
    <2>3. files[t].columns # t
      BY <1>1 DEF DetectedType
    <2>4. 1 \in DOMAIN files[u].rows
      BY <2>1, UploadedRows
    <2>5. Kept(files[u], 1) \in rows
      BY <2>1, <2>4, PackagedRowsAre
    <2>6. Kept(files[u], 1).number - 1 = 1 /\ Kept(files[u], 1).columns = t
      BY <2>2 DEF Kept, RowNumber
    <2> DEFINE error == "row differs from source bytes"
    <2>7. error \in SourceErrors(Source(t))
      BY <1>2, <1>3, <2>3, <2>5, <2>6 DEF SourceErrors
    <2> HIDE DEF error
    <2> QED BY <2>7
  <1> QED BY <1>4, <1>5

\* A row that is kept otherwise than it was written shows.
LEMMA RaggedIsNoticed ==
    ASSUME Uploaded, ~Misfiled, Ragged
    PROVE  \E t \in TypeSet : \E x : x \in SourceErrors(Source(t))
  <1>1. PICK t \in TypeSet : \E i \in DOMAIN files[t].rows : files[t].rows[i].cells # "all"
    BY DEF Ragged
  <1>0. PICK i \in DOMAIN files[t].rows : files[t].rows[i].cells # "all"
    BY <1>1
  <1> DEFINE rows == PackagedRows(t)
             r == Kept(files[t], i)
  <1>2. r \in rows
    BY RowsOfTheFile
  <1>3. i \in Nat /\ files[t].rows[i] \in SourceRow
    BY UploadedRows
  <1>4. r.number - 1 = i /\ r.values # files[t].rows[i]
    BY <1>0, <1>3, RowIsKept DEF Kept, RowNumber
  <1>5. Source(t).content = files[t] /\ Source(t).rows = rows
    BY DEF Source
  <1> HIDE DEF r
  <1> DEFINE error == "row differs from source bytes"
  <1>6. error \in SourceErrors(Source(t))
    BY <1>2, <1>4, <1>5 DEF SourceErrors
  <1> HIDE DEF error
  <1> QED BY <1>6

-------------------------------------------------------------------------------
(* What a package says of cases.                                            *)

\* What is allocated is an amount.
AmountsAllocated ==
    /\ DOMAIN allocated = Relationships \X Entities
    /\ \A k \in Relationships \X Entities : allocated[k] \in Int

\* A run starts with nothing allocated.
LEMMA AllocatedStarts == AnalysisInit => AmountsAllocated
  BY DEF AnalysisInit, Init, MatchingInit, AmountsAllocated

\* Candidates, once there are any, join records.
LEMMA SupportingRead ==
    ASSUME RunInv, NEW c \in Supporting
    PROVE  JoinsRecords(c, records)
  <1>1. c \in candidates
    BY DEF Supporting
  <1>2. candidates = GenerateCandidates(records)
    BY <1>1 DEF RunInv
  <1> QED BY <1>1, <1>2, RecordsRead, CandidatesJoinRecords

\* What SupportedInv says of queue, evidence and ties.
LEMMA SupportedReads ==
    ASSUME SupportedInv
    PROVE  /\ queue \subseteq Supporting /\ IsFiniteSet(edges)
           /\ \A e \in edges : \E c \in Supporting : e = EdgeOf(c)
           /\ \E why : \A a \in ambiguous : \E c \in Supporting : a = Because(c, why)
  BY Zenon DEF SupportedInv

\* Every step allocates amounts.
LEMMA AllocatedStep ==
    ASSUME RunInv, SupportedInv, AmountsAllocated, [ControlNext]_allVars
    PROVE  AmountsAllocated'
  <1>1. ASSUME NEW c \in queue, Accept(c)
        PROVE  AmountsAllocated'
    <2>1. c.amount \in Int
      BY SupportingRead, SupportedReads DEF JoinsRecords
    <2>2. Abs(c.amount) \in Int
      BY <2>1 DEF Abs
    <2>3. allocated' = [k \in DOMAIN allocated |->
                           IF k[1] = c.relationship /\ k[2] \in {c.source, c.target}
                           THEN allocated[k] + Abs(c.amount) ELSE allocated[k]]
      BY <1>1 DEF Accept
    <2>4. ASSUME NEW k \in Relationships \X Entities
          PROVE  allocated'[k] \in Int
      <3>1. allocated[k] \in Int /\ k \in DOMAIN allocated
        BY DEF AmountsAllocated
      <3> QED BY <2>2, <2>3, <3>1
    <2> QED BY <2>3, <2>4 DEF AmountsAllocated
  <1>2. allocated' = allocated => AmountsAllocated'
    BY DEF AmountsAllocated
  <1>3. \/ \E c \in queue : Accept(c)
        \/ allocated' = allocated
    <2>1. ASSUME NEW c \in queue, Refuse(c)
          PROVE  allocated' = allocated
      <3>1. UNCHANGED graphVars
        BY <2>1, Zenon DEF Refuse
      <3> QED BY <3>1 DEF graphVars
    <2>2. ASSUME ApplyRule
          PROVE  allocated' = allocated
      <3>1. UNCHANGED graphVars
        BY <2>2, Zenon DEF ApplyRule
      <3> QED BY <3>1 DEF graphVars
    <2> QED BY <2>1, <2>2, OnlyMatchingMatches
            DEF MatchingStep, BeginMatching, matchingVars, graphVars
  <1> QED BY <1>1, <1>2, <1>3

\* INV-006 does not fail at the end of a run.
LEMMA NotOverallocated ==
    ASSUME RunInv, AmountsAllocated, WithinAvailable
    PROVE  ~Overallocated
  <1>1. ASSUME NEW e \in Entities, available[e] # Unlimited
        PROVE  ~(allocated[<<"settlement_bank", e>>] > available[e])
    <2> DEFINE k == <<"settlement_bank", e>>
    <2>1. available[e] \in Nat
      BY <1>1, AmountsRead DEF Amounts
    <2>2. k \in Relationships \X Entities
      BY DEF Relationships
    <2>3. allocated[k] <= available[e]
      BY <1>1, Zenon DEF WithinAvailable
    <2> HIDE DEF k
    <2>4. allocated[k] \in Int
      BY <2>2 DEF AmountsAllocated
    <2>5. ~(allocated[k] > available[e])
      BY <2>1, <2>3, <2>4
    <2> QED BY <2>5 DEF k
  <1> QED BY <1>1, Zenon DEF Overallocated

\* Only candidates tie, and finitely many.
LEMMA TiedRead ==
    ASSUME RunInv, SupportedInv
    PROVE  IsFiniteSet(ambiguous) /\ \A a \in ambiguous : Ties(a)
  <1>0. PICK why : \A a \in ambiguous : \E c \in Supporting : a = Because(c, why)
    BY SupportedReads
  <1> DEFINE tied == [c \in Supporting |-> Because(c, why)]
  <1>1. \A a \in ambiguous : \E c \in Supporting : a = tied[c]
    BY <1>0
  <1>2. ASSUME NEW c \in Supporting
        PROVE  Ties(tied[c])
    <2>1. JoinsRecords(c, records)
      BY SupportingRead
    <2>2. tied[c] = [c EXCEPT !.reasons = why]
      BY DEF Because
    <2> HIDE DEF tied
    <2>3. /\ tied[c].amount = c.amount /\ tied[c].place = c.place /\ tied[c].rule = c.rule
      BY <2>1, <2>2 DEF JoinsRecords, CandidateFields
    <2> QED BY <2>1, <2>3 DEF JoinsRecords, Ties
  <1>3. IsFiniteSet(Supporting)
    <2>1. CASE stage \in BeforeMatching
      BY <2>1, FS_EmptySet DEF RunInv, Supporting
    <2>2. CASE stage \notin BeforeMatching
      <3>1. IsFiniteSet(candidates)
        BY <2>2, RecordsRead, CandidatesAreFinite DEF RunInv, AreRecords
      <3> QED BY <3>1, FS_Subset DEF Supporting
    <2> QED BY <2>1, <2>2
  <1> HIDE DEF tied
  <1>4. IsFiniteSet(ambiguous)
    BY <1>1, <1>3, ValuesAreFinite
  <1> QED BY <1>1, <1>2, <1>4

\* What is left of a case is an amount.
LEMMA ResidualsRead ==
    ASSUME RunInv, SupportedInv, stage \in WithCases, NEW v \in cases
    PROVE  v.residual \in Int
  <1>1. PICK c \in BuildCases(records, candidates, ambiguous) :
           v = VerifiedCase(c, edges, Overallocated)
    BY DEF RunInv, Classified
  <1>2. AreRecords(c.records) /\ c.gross \in Int
    <2>1. v.records = c.records /\ v.gross = c.gross
      BY <1>1, VerifiedFields
    <2> QED BY <2>1, CasesRead
  <1>3. IsFiniteSet(c.ambiguous) /\ \A a \in c.ambiguous : Ties(a)
    <2>1. c.ambiguous \subseteq ambiguous
      BY CasesAreBuilt DEF Within
    <2> QED BY <2>1, TiedRead, FS_Subset
  <1>4. IsFiniteSet(edges) /\ \A e \in edges : e.amount \in Int
    <2>1. ASSUME NEW e \in edges
          PROVE  e.amount \in Int
      <3>1. PICK k \in Supporting : e = EdgeOf(k)
        BY SupportedReads
      <3>2. e.amount = k.amount
        BY <3>1 DEF EdgeOf
      <3> QED BY <3>1, <3>2, SupportingRead DEF JoinsRecords
    <2> QED BY <2>1, SupportedReads
  <1>5. v.residual = Residual(c, edges)
    BY <1>1, VerifiedFields
  <1> QED BY <1>2, <1>3, <1>4, <1>5, ResidualIsInt

\* A row fails nothing, or what its case has failed, and then all its evidence is of the run.
IsHonest(r) ==
    \/ r.failed = {}
    \/ /\ \E v \in cases : v.id = r.id /\ r.failed = v.failed
       /\ \A y \in result.edges : y.case = r.id => y.edge \in edges

\* What the verifier asks of a row.
IsVerified(r) ==
    /\ r.net \in Int /\ r.residual \in Int
    /\ r.state = "RECONCILED" => r.residual = 0 /\ r.failed = {}

\* What the package of a run holds: rows that bear looking at, all evidence of the run, and
\* the cash that the rows make.
PackageInv ==
    stage \in Filed =>
        /\ \A r \in result.cases : IsVerified(r) /\ IsHonest(r)
        /\ \A e \in edges : [edge |-> e, case |-> CaseOfEdge(e)] \in result.edges
        /\ SameCash(cash, result.cases)

\* A run starts without a package.
LEMMA PackageInvStarts == AnalysisInit => PackageInv
  BY DEF AnalysisInit, Init, PackageInv, Filed, InAnalysis

\* What changes neither cases, evidence, cash nor rows keeps the package sound.
LEMMA PackageStays ==
    ASSUME PackageInv, UNCHANGED <<cases, edges, cash, result>>, stage' \in Filed => stage \in Filed
    PROVE  PackageInv'
  <1>1. \A e : CaseOfEdge(e)' = CaseOfEdge(e)
    BY DEF CaseOfEdge
  <1>2. \A r : IsHonest(r)' = IsHonest(r)
    BY DEF IsHonest
  <1> QED BY <1>1, <1>2 DEF PackageInv

\* There is a row for every case.
LEMMA RowsRead ==
    ASSUME RunInv, RowsInv, stage \in Filed
    PROVE  /\ IsFiniteSet(result.cases) /\ Cardinality(result.cases) = Cardinality(cases)
           /\ \A r \in result.cases : r.gross \in Int
  <1>1. RowsMirrorCases
    BY DEF RowsInv
  <1>2. IsFiniteSet(cases) /\ \A v \in cases : v.gross \in Int
    BY CasesRead DEF Filed, WithCases, CasesDivide
  <1>3. \A r \in result.cases : \E v \in cases : r.id = v.id /\ r.gross = v.gross
    BY <1>1 DEF RowsMirrorCases, IsRowOf
  <1> DEFINE C == cases
             R == result.cases
  <1>4. /\ IsFiniteSet(C)
        /\ \A v, w \in C : v.id = w.id => v = w
        /\ \A r, q \in R : r.id = q.id => r = q
        /\ \A r \in R : \E v \in C : r.id = v.id
        /\ \A v \in C : \E r \in R : r.id = v.id
    BY <1>1, <1>2, <1>3 DEF RowsMirrorCases
  <1> HIDE DEF C, R
  <1>5. IsFiniteSet(R) /\ Cardinality(R) = Cardinality(C)
    BY <1>4, RowsCount
  <1> QED BY <1>2, <1>3, <1>5 DEF C, R

\* What counts for cash is an amount.
LEMMA ContributionIsInt ==
    ASSUME NEW r, r.net \in Int, r.residual \in Int, r.gross \in Int
    PROVE  Contribution(r) \in Int
  BY DEF Contribution, AmountAtRisk, Abs

\* Rows that agree on amounts and bucket count the same.
LEMMA SameContribution ==
    ASSUME NEW r, NEW q, r.bucket = q.bucket, r.net = q.net, r.residual = q.residual,
           r.gross = q.gross
    PROVE  Contribution(r) = Contribution(q)
  BY DEF Contribution, AmountAtRisk

\* _persist_result makes rows, evidence and cash that agree.
LEMMA PersistPackages ==
    ASSUME RunInv, SupportedInv, PersistResult
    PROVE  PackageInv'
  <1>1. /\ stage = "reconciled" /\ stage \in WithCases
        /\ UNCHANGED <<cases, edges, cash>>
        /\ result'.cases = {PersistedCase(v) : v \in cases}
        /\ result'.edges = {[edge |-> e, case |-> CaseOfEdge(e)] : e \in edges}
        /\ \A v, w \in cases : v.id = w.id => v = w
    BY DEF PersistResult, Collides, WithCases, matchingVars, graphVars
  <1> DEFINE m == [v \in cases |-> PersistedCase(v)]
  <1>2. ASSUME NEW v \in cases
        PROVE  /\ m[v].id = v.id /\ m[v].bucket = v.bucket /\ m[v].net = v.net
               /\ m[v].residual = v.residual /\ m[v].gross = v.gross
               /\ m[v].failed = v.failed /\ m[v].state = v.state
    BY DEF PersistedCase
  <1>3. ASSUME NEW v \in cases
        PROVE  /\ v.net \in Int /\ v.gross \in Int /\ v.residual \in Int
               /\ v.state = "RECONCILED" => v.residual = 0 /\ v.failed = {}
    BY <1>1, CasesRead, ResidualsRead, OutcomesRead DEF OutcomeIsSound
  <1>4. result'.cases = {m[v] : v \in cases}
    BY <1>1
  <1> HIDE DEF m
  <1>5. \A r \in result'.cases : IsVerified(r)
    BY <1>2, <1>3, <1>4 DEF IsVerified
  <1>6. \A r \in result'.cases : IsHonest(r)'
    <2>1. \A y \in result'.edges : y.edge \in edges
      BY <1>1
    <2> QED BY <1>1, <1>2, <1>4, <2>1 DEF IsHonest
  <1>7. \A e \in edges' : [edge |-> e, case |-> CaseOfEdge(e)']  \in result'.edges
    <2>1. \A e : CaseOfEdge(e)' = CaseOfEdge(e)
      BY <1>1 DEF CaseOfEdge
    <2> QED BY <1>1, <2>1
  <1>8. SameCash(cash, {m[v] : v \in cases})
    <2> DEFINE C == cases
               k == cash
    <2>1. IsFiniteSet(C)
      BY <1>1, CasesRead DEF CasesDivide
    <2>2. \A v \in C : /\ m[v].id = v.id /\ m[v].bucket = v.bucket
                       /\ Contribution(m[v]) = Contribution(v) /\ Contribution(v) \in Int
      BY <1>2, <1>3, SameContribution, ContributionIsInt
    <2>3. \A v, w \in C : m[v] = m[w] => v = w
      BY <1>1, <1>2
    <2>4. SameCash(k, C)
      BY <1>1, CalculatedCash DEF RunInv
    <2> HIDE DEF C, k
    <2>5. SameCash(k, {m[v] : v \in C})
      BY <2>1, <2>2, <2>3, <2>4, CashRenamed
    <2> QED BY <2>5 DEF C, k
  <1> QED BY <1>1, <1>4, <1>5, <1>6, <1>7, <1>8 DEF PackageInv, IsVerified

\* Moving rows says nothing new of a case.
LEMMA MoveKeepsPackage ==
    ASSUME RunInv, RowsInv, PackageInv, stage \in Filed, UNCHANGED <<cases, edges, cash>>,
           NEW ids, NEW state, NEW level, UpdateCases(ids, state, level),
           state # "RECONCILED"
    PROVE  PackageInv'
  <1>1. DOMAIN result = ResultFields /\ RowsMirrorCases
    BY DEF RowsInv
  <1>2. \A r \in result.cases : DOMAIN r = RowFields
    BY <1>1 DEF RowsMirrorCases, IsRowOf
  <1>3. result'.edges = result.edges
    BY <1>1, <1>2, UpdatedRows
  <1>4. PICK moved :
           /\ result'.cases = {moved[r] : r \in result.cases}
           /\ \A r \in result.cases :
                 /\ SameCase(moved[r], r)
                 /\ r.id \in ids => moved[r].state = state /\ moved[r].level = level
                 /\ r.id \notin ids => moved[r] = r
    BY <1>1, <1>2, UpdatedRows
  <1>5. \A r \in result.cases :
           /\ moved[r].id = r.id /\ moved[r].bucket = r.bucket /\ moved[r].gross = r.gross
           /\ moved[r].net = r.net /\ moved[r].residual = r.residual
           /\ moved[r].failed = r.failed
           /\ moved[r].state = "RECONCILED" => r.state = "RECONCILED"
    BY <1>4 DEF SameCase
  <1>6. \A r \in result'.cases : IsVerified(r)
    BY <1>4, <1>5 DEF PackageInv, IsVerified
  <1>7. \A r \in result'.cases : IsHonest(r)'
    BY <1>3, <1>4, <1>5 DEF PackageInv, IsHonest
  <1>8. \A e : CaseOfEdge(e)' = CaseOfEdge(e)
    BY DEF CaseOfEdge
  <1>9. SameCash(cash, result'.cases)
    <2> DEFINE R == result.cases
               k == cash
    <2>1. IsFiniteSet(R) /\ \A r \in R : r.gross \in Int
      BY RowsRead
    <2>2. \A r \in R : /\ moved[r].id = r.id /\ moved[r].bucket = r.bucket
                       /\ Contribution(moved[r]) = Contribution(r) /\ Contribution(r) \in Int
      BY <1>5, <2>1, SameContribution, ContributionIsInt DEF PackageInv, IsVerified
    <2>3. \A r, q \in R : moved[r] = moved[q] => r = q
      BY <1>1, <1>5 DEF RowsMirrorCases
    <2>4. SameCash(k, R)
      BY DEF PackageInv
    <2> HIDE DEF R, k
    <2>5. SameCash(k, {moved[r] : r \in R})
      BY <2>1, <2>2, <2>3, <2>4, CashRenamed
    <2> QED BY <1>4, <2>5 DEF R, k
  <1> QED BY <1>3, <1>6, <1>7, <1>8, <1>9 DEF PackageInv, IsVerified

\* A case that verify_case passes again, over the evidence it has in the database, had
\* passed it before.
LEMMA PassedBefore ==
    ASSUME RunInv, RowsInv, PackageInv, AmountsAllocated, WithinAvailable, stage \in Filed,
           NEW c \in result.cases, VerifyCase(Snapshot(c.id), EvidenceOf(c.id), FALSE) = {}
    PROVE  c.failed = {}
  <1> SUFFICES ASSUME c.failed # {}
               PROVE  FALSE
    OBVIOUS
  <1>1. PICK v \in cases : /\ v.id = c.id /\ c.failed = v.failed
                           /\ \A y \in result.edges : y.case = c.id => y.edge \in edges
    BY DEF PackageInv, IsHonest
  <1>2. RowsMirrorCases
    BY DEF RowsInv
  <1>3. Snapshot(c.id) = v
    BY <1>1, <1>2 DEF Snapshot, RowsMirrorCases
  <1>4. stage \in WithCases
    BY DEF Filed, WithCases
  <1>5. PICK b \in BuildCases(records, candidates, ambiguous) :
           v = VerifiedCase(b, edges, Overallocated)
    BY <1>4 DEF RunInv, Classified
  <1>6. /\ v.records = b.records /\ v.entities = b.entities
        /\ v.failed = VerifyCase(b, edges, Overallocated)
    BY <1>5, VerifiedFields
  <1>7. EvidenceOf(c.id) \subseteq edges
    BY <1>1 DEF EvidenceOf
  <1>8. ASSUME NEW e \in edges, e.source \in v.entities
        PROVE  e \in EvidenceOf(c.id)
    <2>1. \A w \in cases : e.source \in w.entities => w = v
      BY <1>4, <1>8, CasesRead DEF CasesDivide
    <2>2. CaseOfEdge(e) = c.id
      BY <1>1, <1>8, <2>1 DEF CaseOfEdge
    <2>3. [edge |-> e, case |-> c.id] \in result.edges
      BY <2>2 DEF PackageInv
    <2> QED BY <2>3 DEF EvidenceOf
  <1>9. CaseEdges(v, EvidenceOf(c.id)) = CaseEdges(b, edges)
    BY <1>6, <1>7, <1>8 DEF CaseEdges, Within
  <1>10. FALSE = Overallocated
    <2>1. Overallocated \in BOOLEAN
      BY DEF Overallocated
    <2> QED BY <2>1, NotOverallocated
  <1>11. VerifyCase(v, EvidenceOf(c.id), FALSE) = VerifyCase(b, edges, Overallocated)
    <2> DEFINE es == EvidenceOf(c.id)
               fs == edges
               over == FALSE
               other == Overallocated
    <2>1. over = other /\ v.records = b.records /\ CaseEdges(v, es) = CaseEdges(b, fs)
      BY <1>6, <1>9, <1>10
    <2> HIDE DEF es, fs, over, other
    <2>2. VerifyCase(v, es, over) = VerifyCase(b, fs, other)
      BY <2>1, SameFailures
    <2> QED BY <2>2 DEF es, fs, over, other
  <1> QED BY <1>1, <1>3, <1>6, <1>11

\* A decision makes the cash anew, of the rows as they are then.
LEMMA DecideCounts ==
    ASSUME RunInv, RowsInv, PackageInv, NEW c \in result.cases, NEW row, Reviewable(row, c),
           IsVerified(row), NEW promoted, Decide(c, row, promoted)
    PROVE  SameCash(cash, result.cases)'
  <1>1. /\ stage \in Filed /\ cases' = cases
        /\ result' = [result EXCEPT !.cases = (result.cases \ {c}) \cup {row},
                                    !.edges = result.edges \cup {[edge |-> e, case |-> c.id] :
                                                                    e \in promoted}]
        /\ RecalculateAggregates(result'.cases)
    BY DEF Decide, Filed, InAnalysis
  <1>2. /\ DOMAIN result = ResultFields /\ RowsMirrorCases /\ RowsMirrorCases'
    <2>1. RowsInv'
      BY DecideKeepsRows
    <2>2. stage' = stage
      BY DEF Decide
    <2> QED BY <1>1, <2>1, <2>2 DEF RowsInv, Filed, InAnalysis
  <1>3. result'.cases = (result.cases \ {c}) \cup {row}
    BY <1>1, <1>2 DEF ResultFields
  <1>4. PICK R : R = result'.cases
    OBVIOUS
  <1> DEFINE m == [r \in R |-> [Snapshot(r.id) EXCEPT !.state = r.state, !.bucket = r.bucket,
                                                      !.net = r.net, !.residual = r.residual]]
  <1>5. cash' = CalculateCashPosition({m[r] : r \in R})
    <2> DEFINE M == {[Snapshot(r.id) EXCEPT !.state = r.state, !.bucket = r.bucket,
                                            !.net = r.net, !.residual = r.residual] : r \in R}
    <2>1. cash' = CalculateCashPosition(M)
      BY <1>1, <1>4, Zenon DEF RecalculateAggregates
    <2>2. M = {m[r] : r \in R}
      OBVIOUS
    <2> HIDE DEF m, M
    <2> QED BY <2>1, <2>2
  <1>6. IsFiniteSet(R) /\ \A r \in R : r.net \in Int /\ r.residual \in Int /\ r.gross \in Int
    <2>1. IsFiniteSet(result.cases) /\ \A r \in result.cases : r.gross \in Int
      BY <1>1, RowsRead
    <2>2. \A r \in result.cases : IsVerified(r)
      BY <1>1 DEF PackageInv
    <2>3. row.gross = c.gross
      BY DEF Reviewable
    <2>4. IsFiniteSet(R)
      BY <1>3, <1>4, <2>1, FS_Subset, FS_AddElement
    <2> QED BY <1>3, <1>4, <2>1, <2>2, <2>3, <2>4 DEF IsVerified
  <1>7. ASSUME NEW r \in R
        PROVE  /\ m[r].id = r.id /\ m[r].bucket = r.bucket /\ m[r].net = r.net
               /\ m[r].residual = r.residual /\ m[r].gross = r.gross
    <2>1. PICK v \in cases : v.id = r.id /\ v.gross = r.gross
      <3>1. \E q \in result.cases : q.id = r.id /\ q.gross = r.gross
        BY <1>3, <1>4 DEF Reviewable
      <3> QED BY <1>2, <3>1 DEF RowsMirrorCases, IsRowOf
    <2>2. Snapshot(r.id) = v
      BY <1>2, <2>1 DEF Snapshot, RowsMirrorCases
    <2>3. {"id", "state", "bucket", "net", "residual", "gross"} \subseteq DOMAIN v
      <3>1. PICK b \in BuildCases(records, candidates, ambiguous) :
               v = VerifiedCase(b, edges, Overallocated)
        BY <1>1 DEF RunInv, Classified, Filed, WithCases
      <3> QED BY <3>1 DEF VerifiedCase
    <2>4. m[r] = [v EXCEPT !.state = r.state, !.bucket = r.bucket, !.net = r.net,
                           !.residual = r.residual]
      BY <2>2
    <2> HIDE DEF m
    <2> QED BY <2>1, <2>3, <2>4
  <1>8. \A r, q \in R : m[r] = m[q] => r = q
    <2>1. \A r, q \in R : r.id = q.id => r = q
      BY <1>2, <1>4 DEF RowsMirrorCases
    <2> HIDE DEF m
    <2> QED BY <1>7, <2>1
  <1>9. \A r \in R : /\ m[r].id = r.id /\ m[r].bucket = r.bucket
                     /\ Contribution(m[r]) = Contribution(r) /\ Contribution(r) \in Int
    <2> HIDE DEF m
    <2> QED BY <1>6, <1>7, SameContribution, ContributionIsInt
  <1>10. PICK k : k = cash'
    OBVIOUS
  <1> HIDE DEF m
  <1>11. SameCash(k, R)
    BY <1>5, <1>6, <1>8, <1>9, <1>10, CalculatedCash, CashRenamed
  <1> QED BY <1>4, <1>10, <1>11

\* A decision that verifies a case only where it has proved it keeps the package sound.
LEMMA DecideKeepsPackage ==
    ASSUME RunInv, RowsInv, PackageInv, NEW c \in result.cases, NEW row, Reviewable(row, c),
           IsVerified(row), NEW promoted, Decide(c, row, promoted),
           row.failed = {} \/ (row.failed = c.failed /\ promoted = {})
    PROVE  PackageInv'
  <1>1. /\ stage \in Filed /\ UNCHANGED <<cases, edges>>
        /\ result' = [result EXCEPT !.cases = (result.cases \ {c}) \cup {row},
                                    !.edges = result.edges \cup {[edge |-> e, case |-> c.id] :
                                                                    e \in promoted}]
    BY DEF Decide, Filed, InAnalysis, matchingVars, graphVars
  <1>2. DOMAIN result = ResultFields /\ RowsMirrorCases
    BY <1>1 DEF RowsInv
  <1>3. /\ result'.cases = (result.cases \ {c}) \cup {row}
        /\ result'.edges = result.edges \cup {[edge |-> e, case |-> c.id] : e \in promoted}
    BY <1>1, <1>2 DEF ResultFields
  <1>4. /\ \A r \in result.cases : IsVerified(r) /\ IsHonest(r)
        /\ \A e \in edges : [edge |-> e, case |-> CaseOfEdge(e)] \in result.edges
    BY <1>1 DEF PackageInv
  <1>5. ASSUME NEW r \in result'.cases
        PROVE  IsHonest(r)'
    <2>1. CASE r \in result.cases \ {c}
      <3>1. r.id # c.id
        BY <1>2, <2>1 DEF RowsMirrorCases
      <3>2. \A y \in result'.edges : y.case = r.id => y \in result.edges
        BY <1>3, <3>1
      <3> QED BY <1>1, <1>4, <2>1, <3>2 DEF IsHonest
    <2>2. CASE r = row
      <3>1. row.id = c.id
        BY DEF Reviewable
      <3>2. promoted = {} => result'.edges = result.edges
        BY <1>3
      <3> QED BY <1>1, <1>4, <2>2, <3>1, <3>2 DEF IsHonest
    <2> QED BY <1>3, <2>1, <2>2
  <1>6. \A e : CaseOfEdge(e)' = CaseOfEdge(e)
    BY <1>1 DEF CaseOfEdge
  <1>7. \A r \in result'.cases : IsVerified(r)
    BY <1>3, <1>4
  <1> QED BY <1>1, <1>3, <1>4, <1>5, <1>6, <1>7, DecideCounts DEF PackageInv, IsVerified

\* What an approval makes of a row: a case that is proved, or one that waits for its proof.
LEMMA ApprovedIsVerified ==
    ASSUME RunInv, RowsInv, PackageInv, AmountsAllocated, WithinAvailable, stage \in Filed,
           NEW c \in result.cases
    PROVE  /\ IsVerified(ApprovedRow(c))
           /\ \/ ApprovedRow(c).failed = {}
              \/ ApprovedRow(c).failed = c.failed /\ ~Reverified(c)
  <1>1. DOMAIN c = RowFields /\ IsVerified(c)
    BY DEF RowsInv, RowsMirrorCases, IsRowOf, PackageInv
  <1>2. CASE Reverified(c)
    <2> DEFINE net == Total(Snapshot(c.id).records, "settlements")
               failed == RecordedInvariants(c)
               receipt == IF Reviewing(c) # {} THEN "CONFIRMED" ELSE c.receipt
               bucket == IF c.receipt = "CONFIRMED" \/ Reviewing(c) # {}
                            THEN "BANK_CONFIRMED" ELSE "UNRESOLVED"
    <2>1. ApprovedRow(c) =
            [c EXCEPT !.state = "RECONCILED", !.level = "VERIFIED", !.reviewed = TRUE,
                      !.net = net, !.residual = 0, !.atRisk = 0, !.failed = failed,
                      !.receipt = receipt, !.bucket = bucket]
      BY <1>2 DEF ApprovedRow
    <2>2. net \in Int
      <3>1. PICK v \in cases : v.id = c.id
        BY DEF RowsInv, RowsMirrorCases, IsRowOf
      <3>2. Snapshot(c.id) = v
        BY <3>1 DEF Snapshot, RowsInv, RowsMirrorCases
      <3>3. AreRecords(v.records)
        BY CasesRead DEF Filed, WithCases
      <3> QED BY <3>2, <3>3, TotalIsInt
    <2>3. failed = {}
      <3>1. CASE Reviewing(c) = {}
        <4>1. VerifyCase(Snapshot(c.id), EvidenceOf(c.id) \cup Reviewing(c), FALSE) = {}
          BY <1>2, Zenon DEF Reverified
        <4>2. EvidenceOf(c.id) \cup Reviewing(c) = EvidenceOf(c.id)
          BY <3>1
        <4>3. VerifyCase(Snapshot(c.id), EvidenceOf(c.id), FALSE) = {}
          BY <4>1, <4>2, Zenon
        <4> QED BY <3>1, <4>3, PassedBefore DEF RecordedInvariants
      <3>2. CASE Reviewing(c) # {}
        BY <3>2 DEF RecordedInvariants
      <3> QED BY <3>1, <3>2
    <2> HIDE DEF net, failed, receipt, bucket
    <2>4. /\ ApprovedRow(c).net = net /\ ApprovedRow(c).residual = 0
          /\ ApprovedRow(c).failed = failed
      BY <1>1, <2>1 DEF RowFields
    <2> QED BY <2>2, <2>3, <2>4 DEF IsVerified
  <1>3. CASE ~Reverified(c)
    <2>1. ApprovedRow(c) = [c EXCEPT !.state = "APPROVED_PENDING_VERIFICATION",
                                     !.reviewed = TRUE, !.bucket = "UNRESOLVED"]
      BY <1>3 DEF ApprovedRow
    <2>2. /\ ApprovedRow(c).net = c.net /\ ApprovedRow(c).residual = c.residual
          /\ ApprovedRow(c).failed = c.failed
          /\ ApprovedRow(c).state = "APPROVED_PENDING_VERIFICATION"
      BY <1>1, <2>1 DEF RowFields
    <2> QED BY <1>1, <1>3, <2>2 DEF IsVerified
  <1> QED BY <1>2, <1>3

\* Whatever reviewers decide, rows, evidence and cash agree.
LEMMA ReviewKeepsPackage ==
    ASSUME RunInv, RowsInv, PackageInv, AmountsAllocated, WithinAvailable, ReviewCase
    PROVE  PackageInv'
  <1>1. PICK c \in result.cases :
           Approve(c) \/ \E state \in {"REJECTED_SUGGESTION", "DEFERRED"} : TurnDown(c, state)
    BY DEF ReviewCase
  <1>2. stage \in Filed
    BY <1>1 DEF Approve, TurnDown, Decide, Filed, InAnalysis
  <1>3. DOMAIN c = RowFields /\ IsVerified(c)
    BY <1>2 DEF RowsInv, RowsMirrorCases, IsRowOf, PackageInv
  <1>4. CASE Approve(c)
    <2> DEFINE promoted == IF Reverified(c) THEN Reviewing(c) ELSE {}
               row == ApprovedRow(c)
    <2>1. Decide(c, row, promoted) /\ Reviewable(row, c)
      BY <1>3, <1>4, DecidedRows DEF Approve
    <2>2. ~Reverified(c) => promoted = {}
      OBVIOUS
    <2>3. IsVerified(row) /\ (row.failed = {} \/ (row.failed = c.failed /\ promoted = {}))
      BY <1>2, <2>2, ApprovedIsVerified
    <2> HIDE DEF promoted, row
    <2> QED BY <2>1, <2>3, DecideKeepsPackage
  <1>5. ASSUME NEW state \in {"REJECTED_SUGGESTION", "DEFERRED"}, TurnDown(c, state)
        PROVE  PackageInv'
    <2> DEFINE promoted == {}
               row == RefusedRow(c, state)
    <2>1. Decide(c, row, promoted) /\ Reviewable(row, c) /\ promoted = {}
      BY <1>3, <1>5, DecidedRows DEF TurnDown, ReviewedStates
    <2>2. row.failed = c.failed /\ IsVerified(row)
      BY <1>3 DEF RefusedRow, RowFields, IsVerified
    <2> HIDE DEF promoted, row
    <2> QED BY <2>1, <2>2, DecideKeepsPackage
  <1> QED BY <1>1, <1>4, <1>5

\* Every step keeps the package sound.
LEMMA PackageInvStep ==
    ASSUME RunInv, SupportedInv, RowsInv, AmountsAllocated, WithinAvailable, PackageInv,
           [ControlNext]_allVars
    PROVE  PackageInv'
  <1>1. CASE Reconcile /\ (\/ Validate \/ Normalize \/ Generate \/ Match \/ Classify \/ Account
                          \/ PersistFails)
    <2>1. stage' \notin Filed
      BY <1>1 DEF Reconcile, Validate, Normalize, Generate, Match, Classify, Account, PersistFails,
                  engineVars, Filed, InAnalysis
    <2> QED BY <2>1 DEF PackageInv
  <1>2. CASE Reconcile /\ PersistResult
    BY <1>2, PersistPackages DEF Reconcile
  <1>3. CASE PrepareCases
    <2>1. /\ stage \in Filed /\ UNCHANGED <<cases, edges, cash>>
          /\ \/ UNCHANGED result
             \/ \E chosen : UpdateCases(chosen, "NEEDS_ANALYSIS", "UNRESOLVED")
      BY <1>3 DEF PrepareCases, matchingVars, graphVars, Filed
    <2>2. CASE UNCHANGED result
      BY <2>1, <2>2, PackageStays
    <2>3. CASE \E chosen : UpdateCases(chosen, "NEEDS_ANALYSIS", "UNRESOLVED")
      BY <2>1, <2>3, MoveKeepsPackage
    <2> QED BY <2>1, <2>2, <2>3
  <1>4. CASE EndStage
    BY <1>4, PackageStays DEF EndStage, matchingVars, graphVars, Filed, InAnalysis
  <1>5. ASSUME NEW id \in Eligible, Request(id)
        PROVE  PackageInv'
    <2>1. /\ stage \in Filed /\ UNCHANGED <<cases, edges, cash>>
          /\ UpdateCases({id}, "NEEDS_ANALYSIS", "UNRESOLVED")
      BY <1>5 DEF Request, matchingVars, graphVars, Filed, InAnalysis
    <2> QED BY <2>1, MoveKeepsPackage
  <1>6. ASSUME NEW id \in todo, Begin(id)
        PROVE  PackageInv'
    <2>1. /\ stage \in Filed /\ UNCHANGED <<cases, edges, cash>>
          /\ UpdateCases({id}, "AI_ANALYSIS_PENDING", Persisted(id).level)
      BY <1>6, WorkRows DEF Begin, matchingVars, graphVars
    <2> QED BY <2>1, MoveKeepsPackage
  <1>7. ASSUME NEW a \in asking, Restore(a.case)
        PROVE  PackageInv'
    <2>1. /\ stage \in Filed /\ UNCHANGED <<cases, edges, cash>>
          /\ UpdateCases({a.case}, "ACTIONABLE_EXCEPTION", "UNRESOLVED")
      BY <1>7, WorkRows DEF Restore, matchingVars, graphVars
    <2> QED BY <2>1, MoveKeepsPackage
  <1>8. ASSUME NEW a \in asking, NEW c, Suggest(a.case, c)
        PROVE  PackageInv'
    <2>1. /\ stage \in Filed /\ UNCHANGED <<cases, edges, cash>>
          /\ UpdateCases({a.case}, "SUGGESTED_FOR_REVIEW", "SUGGESTED")
      BY <1>8, WorkRows DEF Suggest, matchingVars, graphVars
    <2> QED BY <2>1, MoveKeepsPackage
  <1>9. ASSUME NEW a \in asking, Retry(a)
        PROVE  PackageInv'
    BY <1>9, PackageStays DEF Retry, vars, engineVars, matchingVars, graphVars
  <1>10. CASE Analyze
    BY <1>3, <1>4, <1>6, <1>7, <1>8, <1>9, <1>10
       DEF Analyze, AnalysisFails, ProviderTimesOut, ProviderFails, AnswerIsRejected,
           AnswerIsUseless, AnswerIsSuggested
  <1>11. CASE UNCHANGED allVars
    BY <1>11, PackageStays DEF allVars, vars, engineVars, matchingVars, graphVars
  <1> QED BY <1>1, <1>2, <1>5, <1>10, <1>11, ReviewKeepsPackage
          DEF ControlNext, AnalysisNext, Reconcile, Next

\* A sound package has no errors but those of its sources.
LEMMA PackageIsChecked ==
    ASSUME RunInv, RowsInv, PackageInv, stage = "analyzed"
    PROVE  VerifyPackage(BuildControlPackage) = {} <=> ~Misfiled /\ ~Ragged
  <1> DEFINE package == BuildControlPackage
             R == result.cases
             m == [r \in R |-> PackagedCase(r)]
             P == {m[r] : r \in R}
             k == cash
  <1>1. /\ package.totalCases = Cardinality(cases)
        /\ package.cases = P /\ package.cash = k
        /\ \A t \in TypeSet : package.sources[t] = Source(t)
    BY DEF BuildControlPackage, Source
  <1>2. stage \in Filed /\ stage \in WithCases
    BY DEF Filed, WithCases, InAnalysis
  <1>3. /\ RowsMirrorCases /\ \A r \in R : IsVerified(r)
        /\ SameCash(k, R) /\ IsFiniteSet(R) /\ \A r \in R : r.gross \in Int
    BY <1>2, RowsRead DEF RowsInv, PackageInv
  <1>4. \A r \in R : /\ m[r].id = r.id /\ m[r].bucket = r.bucket /\ m[r].net = r.net
                     /\ m[r].residual = r.residual /\ m[r].gross = r.gross
                     /\ m[r].state = r.state /\ m[r].failed = r.failed
                     /\ m[r].contribution = Contribution(r)
    BY DEF PackagedCase
  <1>5. \A r \in R : /\ Contribution(m[r]) = Contribution(r) /\ Contribution(r) \in Int
    <2> HIDE DEF m, R
    <2> QED BY <1>3, <1>4, SameContribution, ContributionIsInt DEF IsVerified
  <1>6. \A r, q \in R : r.id = q.id => r = q
    BY <1>3 DEF RowsMirrorCases
  <1>7. SameCash(k, P)
    <2> HIDE DEF m, R, k
    <2>1. \A r, q \in R : m[r] = m[q] => r = q
      BY <1>4, <1>6
    <2> QED BY <1>3, <1>4, <1>5, <2>1, CashRenamed
  <1>8. \A c \in P : VerifiedContribution(c) = Contribution(c)
    BY DEF VerifiedContribution, Contribution, AmountAtRisk, InTransitBuckets
  <1>9. CashErrors(package) = {}
    <2>1. ASSUME NEW b
          PROVE  /\ {c \in package.cases : c.bucket = b} = InBucket(P, b)
                 /\ [c \in InBucket(P, b) |-> VerifiedContribution(c)]
                      = [c \in InBucket(P, b) |-> Contribution(c)]
      <3> HIDE DEF P, package
      <3> QED BY <1>1, <1>8 DEF InBucket
    <2> HIDE DEF P, package, k
    <2>2. \A b \in CashBuckets :
             /\ package.cash.buckets[b] =
                   SumFunction([c \in {d \in package.cases : d.bucket = b} |->
                                   VerifiedContribution(c)])
             /\ package.cash.members[b] = {c.id : c \in {d \in package.cases : d.bucket = b}}
      BY <1>1, <1>7, <2>1 DEF SameCash
    <2>3. package.cash.safe =
             SumFunction([c \in {d \in package.cases : d.bucket = "BANK_CONFIRMED"} |->
                             VerifiedContribution(c)])
      BY <1>1, <1>7, <2>2 DEF SameCash, CashBuckets
    <2> DEFINE sum == "cash bucket sum mismatch"
               member == "cash bucket membership mismatch"
               movement == "confirmed movement mismatch"
               WrongSum == \E b \in CashBuckets : package.cash.buckets[b] #
                              SumFunction([c \in {d \in package.cases : d.bucket = b} |->
                                              VerifiedContribution(c)])
               WrongMember == \E b \in CashBuckets : package.cash.members[b] #
                                 {c.id : c \in {d \in package.cases : d.bucket = b}}
               WrongSafe == package.cash.safe #
                               SumFunction([c \in {d \in package.cases :
                                                       d.bucket = "BANK_CONFIRMED"} |->
                                               VerifiedContribution(c)])
    <2>4. ~WrongSum /\ ~WrongMember /\ ~WrongSafe
      BY <2>2, <2>3, Zenon
    <2>5. CashErrors(package) = (IF WrongSum THEN {sum} ELSE {})
                                  \cup (IF WrongMember THEN {member} ELSE {})
                                  \cup (IF WrongSafe THEN {movement} ELSE {})
      BY Zenon DEF CashErrors
    <2> HIDE DEF sum, member, movement, WrongSum, WrongMember, WrongSafe
    <2> QED BY <2>4, <2>5
  <1>10. /\ Cardinality(package.cases) = package.totalCases
         /\ Cardinality({c.id : c \in package.cases}) = package.totalCases
    <2> DEFINE C == cases
    <2>1. IsFiniteSet(C)
      BY <1>2, CasesRead DEF CasesDivide
    <2>2. /\ \A v, w \in C : v.id = w.id => v = w
          /\ \A r \in R : \E v \in C : r.id = v.id
          /\ \A v \in C : \E r \in R : r.id = v.id
      BY <1>3 DEF RowsMirrorCases, IsRowOf
    <2> HIDE DEF C, R, m
    <2>3. /\ \A r, q \in P : r.id = q.id => r = q
          /\ \A r \in P : \E v \in C : r.id = v.id
          /\ \A v \in C : \E r \in P : r.id = v.id
      BY <1>4, <1>6, <2>2
    <2> HIDE DEF P, package
    <2>4. Cardinality(P) = Cardinality(C) /\ Cardinality({r.id : r \in P}) = Cardinality(C)
      BY <2>1, <2>2, <2>3, RowsCount
    <2> QED BY <1>1, <2>4 DEF C
  <1>11. ASSUME NEW c \in P
         PROVE  CaseErrors(c) = {}
    <2>1. PICK r \in R : c = m[r]
      OBVIOUS
    <2> HIDE DEF m, R
    <2>2. c.contribution = VerifiedContribution(c)
      BY <1>4, <1>5, <1>8, <1>11, <2>1
    <2>3. c.state = "RECONCILED" => c.residual = 0 /\ c.failed = {}
      BY <1>3, <1>4, <2>1 DEF IsVerified
    <2> DEFINE contribution == "incorrect cash contribution"
               residual == "reconciled case has residual"
               failed == "reconciled case lacks passing verification"
    <2>4. CaseErrors(c) =
             (IF c.contribution # VerifiedContribution(c) THEN {contribution} ELSE {})
             \cup (IF c.state = "RECONCILED" /\ c.residual # 0 THEN {residual} ELSE {})
             \cup (IF c.state = "RECONCILED" /\ c.failed # {} THEN {failed} ELSE {})
      BY Zenon DEF CaseErrors
    <2> HIDE DEF contribution, residual, failed
    <2> QED BY <2>2, <2>3, <2>4
  <1> HIDE DEF package, P
  <1>12. VerifyPackage(package) = UNION {SourceErrors(Source(t)) : t \in TypeSet}
    <2>1. UNION {CaseErrors(c) : c \in package.cases} = {}
      BY <1>1, <1>11
    <2>2. UNION {SourceErrors(package.sources[t]) : t \in TypeSet}
            = UNION {SourceErrors(Source(t)) : t \in TypeSet}
      BY <1>1
    <2> QED BY <1>9, <1>10, <2>1, <2>2 DEF VerifyPackage
  <1>13. Uploaded
    BY DatasetsAssumption DEF RunInv, Uploaded
  <1>14. VerifyPackage(package) = {} <=> \A t \in TypeSet : SourceErrors(Source(t)) = {}
    BY <1>12
  <1>15. VerifyPackage(package) = {} <=> ~Misfiled /\ ~Ragged
    BY <1>13, <1>14, SourceIsCovered, MisfiledIsNoticed, RaggedIsNoticed
  <1> QED BY <1>15 DEF package

\* "An exported control package can be checked without the application runtime": the
\* package of a completed run passes the verifier exactly if every file was what it was
\* uploaded as and every row filled its columns, whatever the files, the model's answers
\* and the decisions of reviewers.
THEOREM PackagesCanBeChecked == ControlSpec => []PackagesVerify
  <1>1. AnalysisInit => AmountsAllocated /\ PackageInv
    BY AllocatedStarts, PackageInvStarts
  <1>2. RunInv /\ SupportedInv /\ AmountsAllocated /\ [ControlNext]_allVars => AmountsAllocated'
    BY AllocatedStep
  <1>3. /\ RunInv /\ SupportedInv /\ RowsInv /\ AmountsAllocated /\ WithinAvailable
        /\ PackageInv /\ [ControlNext]_allVars
        => PackageInv'
    BY PackageInvStep
  <1>4. RunInv /\ RowsInv /\ PackageInv => PackagesVerify
    BY PackageIsChecked DEF PackagesVerify
  <1> QED BY <1>1, <1>2, <1>3, <1>4, RowsInvHolds, RunStaysWithin, PTL DEF ControlSpec

=============================================================================
