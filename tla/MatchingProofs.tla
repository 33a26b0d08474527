----------------------------- MODULE MatchingProofs -----------------------------
(***************************************************************************)
(* Proofs about Matching, for any entities, candidates and availability.   *)
(*                                                                         *)
(* A rule compares its candidates with the evidence of earlier rules once, *)
(* before the first of them is accepted.  That no record is allocated      *)
(* twice all the same rests on two facts about the candidates in the       *)
(* queue: none touches evidence (QueueIsFree), and no two of them conflict *)
(* (QueueIsApart), so that accepting one leaves the others free.  Both     *)
(* take nothing from the type of a candidate.                              *)
(***************************************************************************)
EXTENDS Matching, FiniteSetTheorems, TLAPS

\* No candidate that is about to be accepted wants a record that evidence has taken.
QueueIsFree ==
    \A c \in queue, e \in edges :
        e.relationship = c.relationship =>
            /\ e.source # c.source
            /\ e.relationship # "payment_settlement" => e.target # c.target

\* No two candidates that are about to be accepted want the same record.
QueueIsApart == \A c, d \in queue : c # d => ~Conflict(c, d)

EvidenceInv == QueueIsFree /\ QueueIsApart /\ SingleAllocation

\* What is allocated is known for every entity, and nothing is before matching.
Allotted ==
    /\ DOMAIN allocated = Relationships \X Entities
    /\ available \in [Entities -> Nat \cup {Unlimited}]
    /\ rule = -1 => (queue = {} /\ \A k \in Relationships \X Entities : allocated[k] = 0)

-------------------------------------------------------------------------------
\* The evidence of an accepted candidate is about its ends.
LEMMA EdgeOfFields ==
    ASSUME NEW c
    PROVE  /\ EdgeOf(c).source = c.source
           /\ EdgeOf(c).target = c.target
           /\ EdgeOf(c).relationship = c.relationship
  BY DEF EdgeOf

\* A candidate a rule puts into the queue is valid and conflicts with no other valid one.
LEMMA ApplyRuleQueues ==
    ASSUME ApplyRule
    PROVE  /\ edges' = edges
           /\ \A c \in queue' : ~AlreadyAllocated(c)
           /\ \A c, d \in queue' : c # d => ~Conflict(c, d)
  <1> DEFINE k == rule + 1
  <1>1. queue' = Valid(k) \ Conflicting(k) /\ edges' = edges
    BY DEF ApplyRule, graphVars
  <1>2. ASSUME NEW c \in queue' PROVE ~AlreadyAllocated(c)
    <2>1. Reasons(c) = {}
      BY <1>1, <1>2 DEF Valid
    <2> QED BY <2>1 DEF Reasons
  <1>3. ASSUME NEW c \in queue', NEW d \in queue', c # d PROVE ~Conflict(c, d)
    <2>1. c \in Valid(k) /\ d \in Valid(k) /\ c \notin Conflicting(k)
      BY <1>1, <1>3
    <2> QED BY <2>1, <1>3 DEF Conflicting
  <1> QED BY <1>1, <1>2, <1>3

\* Evidence that shares nothing with the queue stays apart from it when one of the
\* queue becomes evidence.
LEMMA AcceptKeepsApart ==
    ASSUME EvidenceInv, NEW c, Accept(c)
    PROVE  EvidenceInv'
  <1> DEFINE new == EdgeOf(c)
  <1>1. c \in queue /\ queue' = queue \ {c} /\ edges' = edges \cup {new}
    BY DEF Accept
  <1>2. new.source = c.source /\ new.target = c.target /\ new.relationship = c.relationship
    BY EdgeOfFields
  <1> HIDE DEF new
  <1>3. QueueIsApart'
    BY <1>1 DEF EvidenceInv, QueueIsApart, Conflict
  <1>4. QueueIsFree'
    <2> SUFFICES ASSUME NEW d \in queue', NEW e \in edges', e.relationship = d.relationship
                 PROVE  /\ e.source # d.source
                        /\ e.relationship # "payment_settlement" => e.target # d.target
      BY DEF QueueIsFree
    <2>1. d \in queue /\ d # c
      BY <1>1
    <2>2. CASE e \in edges
      BY <2>1, <2>2 DEF EvidenceInv, QueueIsFree
    <2>3. CASE e = new
      <3>1. ~Conflict(c, d)
        BY <1>1, <2>1 DEF EvidenceInv, QueueIsApart
      <3> QED BY <1>2, <2>3, <3>1 DEF Conflict
    <2> QED BY <1>1, <2>2, <2>3
  <1>5. SingleAllocation'
    <2>1. \A e \in edges : e.relationship = new.relationship =>
            /\ e.source # new.source
            /\ e.relationship # "payment_settlement" => e.target # new.target
      BY <1>1, <1>2 DEF EvidenceInv, QueueIsFree
    <2> QED BY <1>1, <2>1 DEF EvidenceInv, SingleAllocation
  <1> QED BY <1>3, <1>4, <1>5 DEF EvidenceInv

\* Whatever matching does, evidence and queue stay apart.
LEMMA StepKeepsApart ==
    ASSUME EvidenceInv, MatchingStep
    PROVE  EvidenceInv'
  <1>1. CASE ApplyRule
    BY <1>1, ApplyRuleQueues
       DEF EvidenceInv, QueueIsFree, QueueIsApart, SingleAllocation, AlreadyAllocated, Touches
  <1>2. ASSUME NEW c \in queue, Accept(c) PROVE EvidenceInv'
    BY <1>2, AcceptKeepsApart
  <1>3. ASSUME NEW c \in queue, Refuse(c) PROVE EvidenceInv'
    BY <1>3 DEF Refuse, graphVars, EvidenceInv, QueueIsFree, QueueIsApart, SingleAllocation,
                Conflict
  <1> QED BY <1>1, <1>2, <1>3 DEF MatchingStep

\* Before matching there is nothing to keep apart, and its beginning changes no evidence.
LEMMA InitIsApart == MatchingInit => EvidenceInv
  BY DEF MatchingInit, EvidenceInv, QueueIsFree, QueueIsApart, SingleAllocation

\* So does a step that changes neither.
LEMMA UnchangedIsApart ==
    ASSUME EvidenceInv, UNCHANGED <<queue, edges>>
    PROVE  EvidenceInv'
  BY DEF EvidenceInv, QueueIsFree, QueueIsApart, SingleAllocation, Conflict

\* Every step of matching is an allocation of what was free, or none.
LEMMA StepAllocates ==
    ASSUME EvidenceInv, MatchingStep
    PROVE  [Promise!Allocate]_allocations
  <1>1. CASE ApplyRule
    BY <1>1 DEF ApplyRule, graphVars, allocations
  <1>2. ASSUME NEW c \in queue, Refuse(c) PROVE [Promise!Allocate]_allocations
    BY <1>2 DEF Refuse, graphVars, allocations
  <1>3. ASSUME NEW c \in queue, Accept(c) PROVE Promise!Allocate
    <2> DEFINE a == <<c.relationship, c.source, c.target>>
    <2>1. allocations' = allocations \cup {a}
      BY <1>3, EdgeOfFields DEF Accept, allocations
    <2>2. Promise!Free(a)
      BY <1>3 DEF Promise!Free, EvidenceInv, QueueIsFree, allocations
    <2> QED BY <2>1, <2>2 DEF Promise!Allocate
  <1> QED BY <1>1, <1>2, <1>3 DEF MatchingStep

-------------------------------------------------------------------------------
\* No record is allocated twice within a relationship, although candidates are accepted
\* one after the other without being compared again.
THEOREM NothingAllocatedTwice == MatchingSpec => []SingleAllocation
  <1>1. EvidenceInv /\ [MatchingNext]_matchingVars => EvidenceInv'
    <2> SUFFICES ASSUME EvidenceInv, [MatchingNext]_matchingVars PROVE EvidenceInv'
      OBVIOUS
    <2>1. CASE MatchingStep
      BY <2>1, StepKeepsApart
    <2>2. CASE UNCHANGED <<queue, edges>>
      BY <2>2, UnchangedIsApart
    <2> QED BY <2>1, <2>2 DEF MatchingNext, BeginMatching, matchingVars, graphVars
  <1>2. EvidenceInv => SingleAllocation
    BY DEF EvidenceInv
  <1> QED BY <1>1, <1>2, InitIsApart, PTL DEF MatchingSpec

\* Matching implements Allocation: it only ever adds evidence, about records that no
\* evidence of the relationship has taken.
THEOREM MatchingAllocates == MatchingSpec => Allocates
  <1>1. MatchingInit => Promise!Init
    BY DEF MatchingInit, Promise!Init, allocations
  <1>2. EvidenceInv /\ [MatchingNext]_matchingVars =>
            EvidenceInv' /\ [Promise!Allocate]_allocations
    <2> SUFFICES ASSUME EvidenceInv, [MatchingNext]_matchingVars
                 PROVE  EvidenceInv' /\ [Promise!Allocate]_allocations
      OBVIOUS
    <2>1. CASE MatchingStep
      BY <2>1, StepKeepsApart, StepAllocates
    <2>2. CASE UNCHANGED <<queue, edges>>
      BY <2>2, UnchangedIsApart DEF allocations
    <2> QED BY <2>1, <2>2 DEF MatchingNext, BeginMatching, matchingVars, graphVars
  <1> QED BY <1>1, <1>2, InitIsApart, PTL DEF MatchingSpec, Allocates, Promise!Spec

\* INV-006 for any candidates and any availability: no settlement and no receipt is
\* allocated more than it has, in whichever order candidates are accepted.
THEOREM NothingOverallocated == MatchingSpec => []WithinAvailable
  <1> DEFINE Inv == Allotted /\ WithinAvailable
  <1>1. MatchingInit => Inv
    BY DEF MatchingInit, Allotted, WithinAvailable, Relationships
  <1>2. Inv /\ [MatchingNext]_matchingVars => Inv'
    <2> SUFFICES ASSUME Inv, [MatchingNext]_matchingVars PROVE Inv'
      OBVIOUS
    <2>1. ASSUME available' \in [Entities -> Nat \cup {Unlimited}],
                 BeginMatching(candidates', invalid', available')
          PROVE  Inv'
      <3>1. rule' = 0 /\ rule = -1 /\ allocated' = allocated
        BY <2>1 DEF BeginMatching
      <3>2. Allotted'
        BY <2>1, <3>1 DEF Allotted
      <3>3. ASSUME NEW entity \in Entities, available'[entity] # Unlimited
            PROVE  allocated'["settlement_bank", entity] <= available'[entity]
        <4>1. allocated'["settlement_bank", entity] = 0
          BY <3>1 DEF Allotted, Relationships
        <4>2. 0 <= available'[entity]
          BY <2>1, <3>3
        <4> QED BY <4>1, <4>2
      <3>4. WithinAvailable'
        BY <3>3 DEF WithinAvailable
      <3> QED BY <3>2, <3>4
    <2>2. CASE ApplyRule
      <3>1. rule' # -1
        <4>1. rule \in 0..(LastRule(mode) - 1) /\ rule' = rule + 1
          BY <2>2 DEF ApplyRule
        <4> QED BY <4>1
      <3>2. UNCHANGED <<available, allocated>>
        BY <2>2 DEF ApplyRule, graphVars
      <3> QED BY <3>1, <3>2 DEF Allotted, WithinAvailable
    <2>3. ASSUME NEW c \in queue, Refuse(c) PROVE Inv'
      BY <2>3 DEF Refuse, graphVars, Allotted, WithinAvailable
    <2>4. ASSUME NEW c \in queue, Accept(c) PROVE Inv'
      <3>1. available' = available /\ rule' = rule /\ rule # -1
        BY <2>4 DEF Accept, Allotted
      <3>2. allocated' = [k \in Relationships \X Entities |->
                             IF k[1] = c.relationship /\ k[2] \in {c.source, c.target}
                             THEN allocated[k] + Abs(c.amount) ELSE allocated[k]]
        BY <2>4 DEF Accept, Allotted
      <3>3. Allotted'
        BY <3>1, <3>2 DEF Allotted
      <3>4. ASSUME NEW entity \in Entities, available'[entity] # Unlimited
            PROVE  allocated'["settlement_bank", entity] <= available'[entity]
        <4> DEFINE k == <<"settlement_bank", entity>>
        <4>1. k \in Relationships \X Entities
          BY DEF Relationships
        <4>2. CASE c.relationship = "settlement_bank" /\ entity \in {c.source, c.target}
          <5>1. HasRoom(c, entity)
            BY <2>4, <4>2 DEF Accept, AllocationAvailable
          <5>2. allocated[k] + Abs(c.amount) <= available[entity]
            BY <3>1, <3>4, <4>2, <5>1 DEF HasRoom
          <5>3. allocated'[k] = allocated[k] + Abs(c.amount)
            BY <3>2, <4>1, <4>2
          <5> QED BY <3>1, <5>2, <5>3
        <4>3. CASE ~(c.relationship = "settlement_bank" /\ entity \in {c.source, c.target})
          <5>1. allocated'[k] = allocated[k]
            BY <3>2, <4>1, <4>3
          <5> QED BY <3>1, <3>4, <5>1 DEF WithinAvailable
        <4> QED BY <4>2, <4>3
      <3>5. WithinAvailable'
        BY <3>4 DEF WithinAvailable
      <3> QED BY <3>3, <3>5
    <2>5. CASE UNCHANGED matchingVars
      BY <2>5 DEF matchingVars, graphVars, inputVars, Allotted, WithinAvailable
    <2> QED BY <2>1, <2>2, <2>3, <2>4, <2>5 DEF MatchingNext, MatchingStep
  <1>3. Inv => WithinAvailable
    OBVIOUS
  <1> QED BY <1>1, <1>2, <1>3, PTL DEF MatchingSpec

-------------------------------------------------------------------------------
(* Evidence is determined.                                                  *)

\* What candidates are made of: a candidate joins two entities by an amount, and no
\* entity is the source of one and the target of another of its relationship, as a
\* settlement never has the identifier of a bank transaction.
Proper ==
    \A c \in candidates :
        /\ c.source \in Entities /\ c.target \in Entities
        /\ c.relationship \in Relationships
        /\ c.amount \in Int
        /\ \A d \in candidates : c.relationship = d.relationship => c.source # d.target

\* What candidates in the queue and evidence come from.
FromCandidates ==
    /\ queue \subseteq candidates
    /\ \A e \in edges : \E c \in candidates :
          e.source = c.source /\ e.target = c.target /\ e.relationship = c.relationship

\* Nothing is allocated of a record that no evidence touches.
Untouched ==
    /\ DOMAIN allocated = Relationships \X Entities
    /\ \A k \in Relationships \X Entities :
          (\A e \in edges : e.relationship = k[1] => k[2] \notin {e.source, e.target})
            => allocated[k] = 0

\* The evidence of the rules before rule k.
Base(k) ==
    CASE k = 2 -> After(1, {})
      [] k = 3 -> After(2, After(1, {}))
      [] k = 4 -> EvidenceById
      [] k = 5 -> After(4, EvidenceById)
      [] k = 6 -> EvidenceOfAll
      [] OTHER -> {}

\* A rule in progress has made evidence of the winners that have left the queue.
InProgress ==
    /\ rule \in -1..5
    /\ rule < 1 => queue = {} /\ edges = {}
    /\ rule >= 1 => /\ queue \subseteq Contenders(rule, Base(rule))
                    /\ edges = Base(rule) \cup
                                 {EdgeOf(c) : c \in Winners(rule, Base(rule)) \ queue}

\* A settlement or a receipt is large enough for the candidate.
LargeEnough(c) ==
    c.relationship = "settlement_bank" =>
        \A end \in {c.source, c.target} :
            available[end] = Unlimited \/ Abs(c.amount) <= available[end]

\* Whether a candidate in the queue is accepted depends on no other in the queue.
LEMMA RoomIsFixed ==
    ASSUME Proper, QueueIsFree, FromCandidates, Untouched, NEW c \in queue
    PROVE  AllocationAvailable(c) <=> LargeEnough(c)
  <1>1. /\ c \in candidates
        /\ c.source \in Entities /\ c.target \in Entities
        /\ c.relationship \in Relationships /\ c.amount \in Int
    BY DEF FromCandidates, Proper
  <1>2. ASSUME NEW e \in edges, e.relationship = c.relationship
        PROVE  /\ c.source \notin {e.source, e.target}
               /\ c.relationship # "payment_settlement" => c.target \notin {e.source, e.target}
    <2>1. PICK d \in candidates :
             e.source = d.source /\ e.target = d.target /\ e.relationship = d.relationship
      BY DEF FromCandidates
    <2>2. c.source # d.target /\ d.source # c.target
      BY <1>1, <1>2, <2>1 DEF Proper
    <2> QED BY <1>2, <2>1, <2>2 DEF QueueIsFree
  <1>3. /\ Holding(c, c.source) = {}
        /\ c.relationship # "payment_settlement" => Holding(c, c.target) = {}
    BY <1>2 DEF Holding
  <1>4. CASE c.relationship = "settlement_bank"
    <2>1. ASSUME NEW end \in {c.source, c.target}
          PROVE  HasRoom(c, end) <=>
                    (available[end] = Unlimited \/ Abs(c.amount) <= available[end])
      <3> DEFINE k == <<c.relationship, end>>
      <3>1. k \in Relationships \X Entities /\ k[1] = c.relationship /\ k[2] = end
        BY <1>1
      <3>2. allocated[k] = 0
        BY <1>2, <1>4, <3>1 DEF Untouched
      <3>3. allocated[k] + Abs(c.amount) = Abs(c.amount)
        BY <1>1, <3>2 DEF Abs
      <3>4. Holding(c, end) = {}
        BY <1>3, <1>4
      <3> QED BY <1>4, <3>3, <3>4 DEF HasRoom
    <2> QED BY <1>4, <2>1 DEF AllocationAvailable, LargeEnough
  <1>5. CASE c.relationship # "settlement_bank"
    BY <1>3, <1>5 DEF AllocationAvailable, HasRoom, LargeEnough
  <1> QED BY <1>4, <1>5

\* The winners are the contenders that fit into what is available.
LEMMA WinnersAreLargeEnough ==
    ASSUME NEW k, NEW E
    PROVE  Winners(k, E) = {c \in Contenders(k, E) : LargeEnough(c)}
  BY DEF Winners, LargeEnough

\* Who wins depends on what does not change once matching has begun.
LEMMA WinnersStay ==
    ASSUME UNCHANGED <<candidates, invalid, available>>
    PROVE  \A k, E : /\ Contenders(k, E)' = Contenders(k, E)
                     /\ Winners(k, E)' = Winners(k, E)
                     /\ After(k, E)' = After(k, E)
  <1> TAKE k, E
  <1>1. Of(k)' = Of(k)
    BY DEF Of
  <1>2. Unopposed(k, E)' = Unopposed(k, E)
    BY <1>1 DEF Unopposed
  <1>3. Contenders(k, E)' = Contenders(k, E)
    BY <1>2 DEF Contenders
  <1>4. Winners(k, E)' = Winners(k, E)
    BY <1>3 DEF Winners
  <1>5. After(k, E)' = After(k, E)
    BY <1>4 DEF After, EdgeOf
  <1> QED BY <1>3, <1>4, <1>5

\* Nor does the evidence a rule starts from change.
LEMMA BaseStays ==
    ASSUME UNCHANGED <<candidates, invalid, available>>
    PROVE  \A k : Base(k)' = Base(k)
  BY WinnersStay DEF Base, EvidenceById, EvidenceOfAll

\* At the start of a rule the queue holds those who would win but for room.
LEMMA RuleQueuesContenders ==
    ASSUME ApplyRule
    PROVE  queue' = Contenders(rule + 1, edges)
  <1> DEFINE k == rule + 1
  <1>1. Valid(k) = Unopposed(k, edges)
    BY DEF Valid, Reasons, InvalidReasons, AlreadyAllocated, Touches, Unopposed
  <1>2. queue' = Valid(k) \ Conflicting(k)
    BY DEF ApplyRule
  <1> HIDE DEF k
  <1> QED BY <1>1, <1>2 DEF Conflicting, Conflict, Contenders, k

\* When a rule is done, its evidence is what the next one starts from.
LEMMA DoneIsBase ==
    ASSUME InProgress, queue = {}, rule >= 0
    PROVE  edges = Base(rule + 1)
  <1>1. CASE rule = 0
    BY <1>1 DEF InProgress, Base
  <1>2. CASE rule # 0
    <2>1. edges = After(rule, Base(rule))
      BY <1>2 DEF InProgress, After
    <2>2. rule \in 1..5
      BY <1>2 DEF InProgress
    <2>3. Base(rule + 1) = After(rule, Base(rule))
      BY <2>2 DEF Base, EvidenceById, EvidenceOfAll
    <2> QED BY <2>1, <2>3
  <1> QED BY <1>1, <1>2

DeterminedInv ==
    /\ EvidenceInv
    /\ FromCandidates
    /\ Untouched
    /\ InProgress

\* The beginning of matching,
LEMMA BeginDetermines ==
    ASSUME DeterminedInv, BeginMatching(candidates', invalid', available')
    PROVE  DeterminedInv'
  <1>1. rule = -1 /\ rule' = 0 /\ UNCHANGED <<allocated, queue, edges>>
    BY DEF BeginMatching
  <1>2. queue = {} /\ edges = {}
    BY <1>1 DEF DeterminedInv, InProgress
  <1>3. EvidenceInv'
    BY <1>1, UnchangedIsApart DEF DeterminedInv
  <1>4. FromCandidates' /\ Untouched'
    BY <1>1, <1>2 DEF DeterminedInv, FromCandidates, Untouched
  <1>5. InProgress'
    BY <1>1, <1>2 DEF InProgress
  <1> QED BY <1>3, <1>4, <1>5 DEF DeterminedInv

\* and that of a rule, find evidence as it should be.
LEMMA ApplyRuleDetermines ==
    ASSUME DeterminedInv, ApplyRule
    PROVE  DeterminedInv'
  <1>1. /\ rule \in 0..(LastRule(mode) - 1) /\ rule' = rule + 1 /\ queue = {}
        /\ UNCHANGED <<candidates, invalid, available, allocated, edges>>
    BY DEF ApplyRule, graphVars, inputVars
  <1>2. rule \in 0..4
    BY <1>1 DEF LastRule
  <1>3. edges = Base(rule + 1)
    BY <1>1, <1>2, DoneIsBase DEF DeterminedInv
  <1>4. queue' = Contenders(rule + 1, Base(rule + 1))
    BY <1>3, RuleQueuesContenders
  <1>5. /\ Base(rule)' = Base(rule + 1)
        /\ Contenders(rule, Base(rule))' = Contenders(rule + 1, Base(rule + 1))
        /\ Winners(rule, Base(rule))' = Winners(rule + 1, Base(rule + 1))
    BY <1>1, BaseStays, WinnersStay
  <1>6. Winners(rule + 1, Base(rule + 1)) \subseteq queue'
    BY <1>4 DEF Winners
  <1>7. InProgress'
    BY <1>1, <1>2, <1>3, <1>4, <1>5, <1>6 DEF InProgress
  <1>8. EvidenceInv'
    BY StepKeepsApart DEF DeterminedInv, MatchingStep
  <1>9. FromCandidates' /\ Untouched'
    BY <1>1, <1>4 DEF DeterminedInv, FromCandidates, Untouched, Contenders, Unopposed, Of
  <1> QED BY <1>7, <1>8, <1>9 DEF DeterminedInv

\* Whether a candidate is accepted or refused, the winners that have left the queue are
\* the evidence of the rule.
LEMMA QueueDetermines ==
    ASSUME DeterminedInv, Proper, NEW c \in queue, Accept(c) \/ Refuse(c)
    PROVE  InProgress'
  <1> DEFINE E == Base(rule)
             C == Contenders(rule, E)
             W == Winners(rule, E)
  <1>1. /\ UNCHANGED <<candidates, invalid, available, rule>>
        /\ queue' = queue \ {c}
    BY DEF Accept, Refuse, graphVars, inputVars
  <1>2. rule \in 1..5 /\ queue \subseteq C /\ edges = E \cup {EdgeOf(d) : d \in W \ queue}
    BY DEF DeterminedInv, InProgress
  <1>3. c \in W <=> LargeEnough(c)
    BY <1>2, WinnersAreLargeEnough
  <1>4. AllocationAvailable(c) <=> LargeEnough(c)
    BY RoomIsFixed DEF DeterminedInv, EvidenceInv
  <1>5. edges' = E \cup {EdgeOf(d) : d \in W \ queue'}
    <2>1. CASE Accept(c)
      <3>1. c \in W /\ edges' = edges \cup {EdgeOf(c)}
        BY <1>3, <1>4, <2>1 DEF Accept
      <3>2. W \ queue' = (W \ queue) \cup {c}
        BY <1>1, <3>1
      <3> HIDE DEF W, E
      <3> QED BY <1>2, <3>1, <3>2
    <2>2. CASE Refuse(c)
      <3>1. c \notin W /\ edges' = edges
        BY <1>3, <1>4, <2>2 DEF Refuse, graphVars
      <3>2. W \ queue' = W \ queue
        BY <1>1, <3>1
      <3> HIDE DEF W, E
      <3> QED BY <1>2, <3>1, <3>2
    <2> QED BY <2>1, <2>2
  <1>6. Base(rule)' = E /\ Contenders(rule, Base(rule))' = C /\ Winners(rule, Base(rule))' = W
    BY <1>1, BaseStays, WinnersStay
  <1>7. queue' \subseteq C
    BY <1>1, <1>2
  <1>8. {EdgeOf(d) : d \in Winners(rule, Base(rule)) \ queue}' = {EdgeOf(d) : d \in W \ queue'}
    BY <1>6 DEF EdgeOf
  <1> HIDE DEF W, E, C
  <1> QED BY <1>1, <1>2, <1>5, <1>6, <1>7, <1>8 DEF InProgress

\* New evidence is of candidates, and touches what the queue does not.
LEMMA AcceptTouches ==
    ASSUME DeterminedInv, NEW c \in queue, Accept(c)
    PROVE  FromCandidates' /\ Untouched'
  <1>1. /\ edges' = edges \cup {EdgeOf(c)} /\ queue' = queue \ {c} /\ candidates' = candidates
        /\ allocated' = [k \in Relationships \X Entities |->
                            IF k[1] = c.relationship /\ k[2] \in {c.source, c.target}
                            THEN allocated[k] + Abs(c.amount) ELSE allocated[k]]
    BY DEF Accept, inputVars, DeterminedInv, Untouched
  <1>2. FromCandidates'
    BY <1>1, EdgeOfFields DEF DeterminedInv, FromCandidates
  <1>3. ASSUME NEW k \in Relationships \X Entities,
               \A e \in edges' : e.relationship = k[1] => k[2] \notin {e.source, e.target}
        PROVE  allocated'[k] = 0
    <2>1. ~(k[1] = c.relationship /\ k[2] \in {c.source, c.target})
      BY <1>1, <1>3, EdgeOfFields
    <2>2. allocated'[k] = allocated[k]
      BY <1>1, <2>1
    <2> QED BY <1>1, <1>3, <2>2 DEF DeterminedInv, Untouched
  <1> QED BY <1>1, <1>2, <1>3 DEF Untouched

\* Whatever matching does, its evidence stays determined.
LEMMA StepDetermines ==
    ASSUME DeterminedInv, Proper, MatchingStep
    PROVE  DeterminedInv'
  <1>1. ASSUME NEW c \in queue, Accept(c) PROVE DeterminedInv'
    <2>1. EvidenceInv'
      BY <1>1, AcceptKeepsApart DEF DeterminedInv
    <2> QED BY <1>1, <2>1, QueueDetermines, AcceptTouches DEF DeterminedInv
  <1>2. ASSUME NEW c \in queue, Refuse(c) PROVE DeterminedInv'
    <2>1. /\ UNCHANGED <<edges, allocated, candidates>>
          /\ queue' \subseteq queue
      BY <1>2 DEF Refuse, graphVars, inputVars
    <2>2. EvidenceInv'
      BY <1>2, StepKeepsApart DEF DeterminedInv, MatchingStep
    <2>3. FromCandidates' /\ Untouched'
      BY <2>1 DEF DeterminedInv, FromCandidates, Untouched
    <2> QED BY <1>2, <2>2, <2>3, QueueDetermines DEF DeterminedInv
  <1> QED BY <1>1, <1>2, ApplyRuleDetermines DEF MatchingStep

\* Before matching there is no evidence.
LEMMA InitIsDetermined == MatchingInit => DeterminedInv
  <1> SUFFICES ASSUME MatchingInit PROVE DeterminedInv
    OBVIOUS
  <1>1. EvidenceInv
    BY InitIsApart
  <1>2. FromCandidates /\ Untouched
    BY DEF MatchingInit, FromCandidates, Untouched
  <1>3. InProgress
    BY DEF MatchingInit, InProgress
  <1> QED BY <1>1, <1>2, <1>3 DEF DeterminedInv

\* A step that leaves matching alone.
LEMMA UnchangedIsDetermined ==
    ASSUME DeterminedInv, UNCHANGED matchingVars
    PROVE  DeterminedInv'
  <1>1. UNCHANGED <<candidates, invalid, available, allocated, rule, queue, edges>>
    BY DEF matchingVars, graphVars, inputVars
  <1>2. EvidenceInv'
    BY <1>1, UnchangedIsApart DEF DeterminedInv
  <1>3. FromCandidates' /\ Untouched'
    BY <1>1 DEF DeterminedInv, FromCandidates, Untouched
  <1>4. /\ Base(rule)' = Base(rule)
        /\ Contenders(rule, Base(rule))' = Contenders(rule, Base(rule))
        /\ Winners(rule, Base(rule))' = Winners(rule, Base(rule))
    BY <1>1, BaseStays, WinnersStay
  <1>5. {EdgeOf(d) : d \in Winners(rule, Base(rule)) \ queue}'
          = {EdgeOf(d) : d \in Winners(rule, Base(rule)) \ queue}
    BY <1>1, <1>4 DEF EdgeOf
  <1>6. InProgress'
    BY <1>1, <1>4, <1>5 DEF DeterminedInv, InProgress
  <1> QED BY <1>2, <1>3, <1>6 DEF DeterminedInv

\* When the last rule is done the evidence is that of all rules.
LEMMA DeterminedAtLast == DeterminedInv => EvidenceIsDetermined
  <1> SUFFICES ASSUME DeterminedInv, Matched
               PROVE  edges = IF mode = "exact_id_only" THEN EvidenceById ELSE EvidenceOfAll
    BY DEF EvidenceIsDetermined
  <1>1. rule = LastRule(mode) /\ queue = {}
    BY DEF Matched
  <1>2. rule \in {3, 5}
    BY <1>1 DEF LastRule
  <1>3. edges = Base(rule + 1)
    BY <1>1, <1>2, DoneIsBase DEF DeterminedInv
  <1>4. CASE mode = "exact_id_only"
    BY <1>1, <1>3, <1>4 DEF LastRule, Base
  <1>5. CASE mode # "exact_id_only"
    BY <1>1, <1>3, <1>5 DEF LastRule, Base
  <1> QED BY <1>4, <1>5

\* Whatever the candidates and their order, evidence is decided by their strength alone,
\* as long as no identifier is that of a settlement and of a bank transaction.
THEOREM MatchingIsDetermined == MatchingSpec /\ []Proper => []EvidenceIsDetermined
  <1>1. DeterminedInv /\ Proper /\ [MatchingNext]_matchingVars => DeterminedInv'
    BY BeginDetermines, StepDetermines, UnchangedIsDetermined DEF MatchingNext
  <1> QED BY <1>1, InitIsDetermined, DeterminedAtLast, PTL DEF MatchingSpec

-------------------------------------------------------------------------------
(* Evidence is supported.                                                   *)

Supporting == {c \in candidates : c.reasons = {}}

\* Evidence is finite and made of candidates nothing speaks against, and only such
\* candidates tie.
SupportedInv ==
    /\ rule = -1 => queue = {} /\ edges = {} /\ ambiguous = {}
    /\ IsFiniteSet(edges)
    /\ queue \subseteq Supporting
    /\ \A e \in edges : \E c \in Supporting : e = EdgeOf(c)
    /\ \A a \in ambiguous : \E c \in Supporting :
          a = Because(c, {"equal-strength candidates conflict"})

\* Before matching there is nothing to support.
LEMMA InitIsSupported == MatchingInit => SupportedInv
  BY FS_EmptySet DEF MatchingInit, SupportedInv

\* A step that leaves matching alone leaves its evidence supported.
LEMMA UnchangedIsSupported ==
    ASSUME SupportedInv, UNCHANGED matchingVars
    PROVE  SupportedInv'
  <1>1. UNCHANGED <<candidates, rule, queue, edges, ambiguous>>
    BY DEF matchingVars, graphVars, inputVars
  <1>2. Supporting' = Supporting
    BY <1>1 DEF Supporting
  <1> QED BY <1>1, <1>2 DEF SupportedInv, EdgeOf, Because

\* Matching begins without evidence.
LEMMA BeginIsSupported ==
    ASSUME SupportedInv, BeginMatching(candidates', invalid', available')
    PROVE  SupportedInv'
  BY FS_EmptySet DEF SupportedInv, BeginMatching

\* Whatever matching does, evidence and ties are of candidates without a reason against
\* them.
LEMMA StepIsSupported ==
    ASSUME SupportedInv, MatchingStep, rule # -1
    PROVE  SupportedInv'
  <1>1. candidates' = candidates /\ Supporting' = Supporting
    BY DEF MatchingStep, ApplyRule, Accept, Refuse, inputVars, Supporting
  <1>2. CASE ApplyRule
    <2>1. rule' # -1 /\ edges' = edges
      <3>1. rule \in 0..(LastRule(mode) - 1) /\ rule' = rule + 1 /\ edges' = edges
        BY <1>2 DEF ApplyRule, graphVars
      <3> QED BY <3>1
    <2>2. \A k : Valid(k) \subseteq Supporting
      BY DEF Valid, Of, Reasons, Supporting
    <2>3. /\ queue' \subseteq Valid(rule + 1)
          /\ ambiguous' = ambiguous \cup {Because(c, {"equal-strength candidates conflict"}) :
                                            c \in Conflicting(rule + 1)}
          /\ Conflicting(rule + 1) \subseteq Valid(rule + 1)
      BY <1>2 DEF ApplyRule, Conflicting
    <2>4. \A a \in ambiguous' : \E c \in Supporting :
             a = Because(c, {"equal-strength candidates conflict"})
      BY <2>2, <2>3 DEF SupportedInv
    <2>5. queue' \subseteq Supporting
      BY <2>2, <2>3
    <2> QED BY <1>1, <2>1, <2>4, <2>5 DEF SupportedInv, EdgeOf, Because
  <1>3. ASSUME NEW c \in queue, Accept(c) PROVE SupportedInv'
    <2>1. /\ edges' = edges \cup {EdgeOf(c)} /\ queue' \subseteq queue
          /\ rule' = rule /\ ambiguous' = ambiguous
      BY <1>3 DEF Accept
    <2>2. IsFiniteSet(edges')
      BY <2>1, FS_AddElement DEF SupportedInv
    <2>3. \A e \in edges' : \E d \in Supporting : e = EdgeOf(d)
      BY <2>1 DEF SupportedInv
    <2> QED BY <1>1, <2>1, <2>2, <2>3 DEF SupportedInv, EdgeOf, Because
  <1>4. ASSUME NEW c \in queue, Refuse(c) PROVE SupportedInv'
    BY <1>1, <1>4 DEF Refuse, graphVars, SupportedInv, EdgeOf, Because
  <1> QED BY <1>2, <1>3, <1>4 DEF MatchingStep

=============================================================================
