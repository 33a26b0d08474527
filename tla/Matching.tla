-------------------------------- MODULE Matching --------------------------------
(***************************************************************************)
(* The matching rules over the candidates of a run                         *)
(* (services/reconciliation/rules.py) and the evidence graph they fill     *)
(* (evidence.py).                                                          *)
(*                                                                         *)
(* The rules run from the strongest to the weakest.  A rule first looks at *)
(* all of its candidates, against the evidence of the rules before it:     *)
(* some are rejected, some conflict with each other and are ambiguous, and *)
(* the rest are accepted one after the other.  The code accepts them in    *)
(* the order of the candidates; here "queue" is accepted in any order, so  *)
(* that what holds here depends on no order of rows or files.              *)
(***************************************************************************)
EXTENDS MatchingRules, FiniteSets

CONSTANTS
    Entities,   \* identifiers a record may have
    Unlimited   \* the availability of an entity that registers none

VARIABLES
    mode,         \* matching_mode of the run
    candidates,
    invalid,      \* entities with a record that was rejected
    available,    \* what a settlement or a bank transaction may be allocated
    allocated,    \* what it has been, by relationship
    rule,         \* how many rules have begun; -1 before matching
    queue,        \* candidates the current rule has yet to accept
    edges,
    rejected, ambiguous

graphVars == <<available, allocated, edges>>
inputVars == <<mode, candidates, invalid>>
matchingVars == <<graphVars, inputVars, rule, queue, rejected, ambiguous>>

MatchingInit ==
    /\ mode \in Modes
    /\ candidates = {} /\ invalid = {}
    /\ available = [e \in Entities |-> Unlimited]
    /\ allocated = [k \in Relationships \X Entities |-> 0]
    /\ rule = -1
    /\ queue = {} /\ edges = {} /\ rejected = {} /\ ambiguous = {}

\* apply_matching_rules is called: availability is registered, nothing is tried.
BeginMatching(found, bad, amounts) ==
    /\ rule = -1
    /\ rule' = 0
    /\ candidates' = found
    /\ invalid' = bad
    /\ available' = amounts
    /\ UNCHANGED <<mode, allocated, queue, edges, rejected, ambiguous>>

-------------------------------------------------------------------------------
(* Trying a rule.                                                           *)

Of(k) == {c \in candidates : c.rule = Rules[k].rule /\ c.relationship = Rules[k].relationship}

\* A rule that only looks whether the source was used.
TouchesSource(e, c) == e.source = c.source

Touches(e, c) == e.source = c.source \/ e.target = c.target

AlreadyAllocated(c) ==
    \E e \in edges : e.relationship = c.relationship /\ Touches(e, c)

InvalidReasons(c) ==
    (IF c.source \in invalid THEN {"source entity has invalid source record"} ELSE {})
    \cup (IF c.target \in invalid THEN {"target entity has invalid source record"} ELSE {})

Reasons(c) ==
    c.reasons \cup InvalidReasons(c)
    \cup (IF AlreadyAllocated(c) THEN {"duplicate allocation"} ELSE {})

Valid(k) == {c \in Of(k) : Reasons(c) = {}}

\* A rule that does not mind two claims to one target.
ConflictOfSources(c, d) == c.source = d.source

\* Many payments make one settlement: sharing that target is no conflict.
Conflict(c, d) ==
    c.source = d.source \/ (c.target = d.target /\ c.relationship # "payment_settlement")

Conflicting(k) == {c \in Valid(k) : \E d \in Valid(k) \ {c} : Conflict(c, d)}

Because(c, reasons) == [c EXCEPT !.reasons = reasons]

ApplyRule ==
    /\ rule \in 0..(LastRule(mode) - 1)
    /\ queue = {}
    /\ LET k == rule + 1
       IN  /\ rule' = k
           /\ queue' = Valid(k) \ Conflicting(k)
           /\ ambiguous' = ambiguous \cup {Because(c, {"equal-strength candidates conflict"}) :
                                             c \in Conflicting(k)}
           /\ rejected' = rejected \cup {Because(c, Reasons(c)) : c \in Of(k) \ Valid(k)}
    /\ UNCHANGED <<graphVars, inputVars>>

-------------------------------------------------------------------------------
(* The evidence graph.                                                      *)

EdgeOf(c) == [source |-> c.source, target |-> c.target, relationship |-> c.relationship,
              rule |-> c.rule, amount |-> c.amount]

Holding(c, entity) ==
    {e \in edges : e.relationship = c.relationship /\ entity \in {e.source, e.target}}

\* A check of what was allocated so far, without the allocation itself.
HasRoomSoFar(c, entity) ==
    IF c.relationship = "settlement_bank" /\ available[entity] # Unlimited
    THEN allocated[c.relationship, entity] <= available[entity]
    ELSE TRUE

\* What an end of an edge may still take; only bank receipts register amounts.
HasRoom(c, entity) ==
    IF c.relationship = "settlement_bank" /\ available[entity] # Unlimited
    THEN allocated[c.relationship, entity] + Abs(c.amount) <= available[entity]
    ELSE \/ c.relationship = "payment_settlement" /\ entity = c.target
         \/ Holding(c, entity) = {}
         \/ \E e \in Holding(c, entity) : e.source = c.source /\ e.target = c.target

AllocationAvailable(c) == HasRoom(c, c.source) /\ HasRoom(c, c.target)

\* add_edge.
Accept(c) ==
    /\ c \in queue
    /\ queue' = queue \ {c}
    /\ AllocationAvailable(c)
    /\ edges' = edges \cup {EdgeOf(c)}
    /\ allocated' = [k \in DOMAIN allocated |->
                        IF k[1] = c.relationship /\ k[2] \in {c.source, c.target}
                        THEN allocated[k] + Abs(c.amount) ELSE allocated[k]]
    /\ UNCHANGED <<available, inputVars, rule, rejected, ambiguous>>

\* add_edge raises: the candidate is rejected after all.
Refuse(c) ==
    /\ c \in queue
    /\ queue' = queue \ {c}
    /\ ~AllocationAvailable(c)
    /\ rejected' = rejected \cup {Because(c, c.reasons \cup {"duplicate allocation"})}
    /\ UNCHANGED <<graphVars, inputVars, rule, ambiguous>>

Matched == rule = LastRule(mode) /\ queue = {}

MatchingStep == ApplyRule \/ \E c \in queue : Accept(c) \/ Refuse(c)

-------------------------------------------------------------------------------
(* Matching on its own: whatever the candidates, and whatever they may take. *)

MatchingNext ==
    \/ /\ available' \in [Entities -> Nat \cup {Unlimited}]
       /\ BeginMatching(candidates', invalid', available')
    \/ MatchingStep

MatchingSpec == MatchingInit /\ [][MatchingNext]_matchingVars

-------------------------------------------------------------------------------
(* Properties.                                                              *)

\* Two pieces of evidence of one relationship never share a source, nor, unless many
\* payments make one settlement, a target: no record is allocated twice, although no
\* rule compares a candidate with the others it is about to accept.
SingleAllocation ==
    \A e, f \in edges :
        e # f /\ e.relationship = f.relationship =>
            /\ e.source # f.source
            /\ e.relationship # "payment_settlement" => e.target # f.target

\* Rule k over the evidence E, at one stroke: whom nothing speaks against,
Unopposed(k, E) ==
    {c \in Of(k) :
        /\ c.reasons = {} /\ {c.source, c.target} \cap invalid = {}
        /\ \A e \in E : e.relationship = c.relationship =>
                          e.source # c.source /\ e.target # c.target}

\* who wants nothing that another of them wants,
Contenders(k, E) ==
    {c \in Unopposed(k, E) :
        \A d \in Unopposed(k, E) \ {c} :
            /\ d.source # c.source
            /\ c.relationship # "payment_settlement" => d.target # c.target}

\* and for whom a receipt and a settlement are large enough.
Winners(k, E) ==
    {c \in Contenders(k, E) :
        c.relationship = "settlement_bank" =>
            \A end \in {c.source, c.target} :
                available[end] = Unlimited \/ Abs(c.amount) <= available[end]}

After(k, E) == E \cup {EdgeOf(c) : c \in Winners(k, E)}

EvidenceById == After(3, After(2, After(1, {})))
EvidenceOfAll == After(5, After(4, EvidenceById))

\* The evidence of a run is decided by the strength of its candidates alone: it does not
\* depend on the order in which rows were read or candidates accepted.
EvidenceIsDetermined ==
    Matched => edges = IF mode = "exact_id_only" THEN EvidenceById ELSE EvidenceOfAll

\* INV-006: what is allocated of a settlement or a bank transaction never exceeds it.
WithinAvailable ==
    \A entity \in Entities :
        available[entity] # Unlimited =>
            allocated["settlement_bank", entity] <= available[entity]

\* Evidence is what Allocation promises: every edge takes records no other edge of its
\* relationship has, and no edge is taken back.
allocations == {<<e.relationship, e.source, e.target>> : e \in edges}
Promise == INSTANCE Allocation WITH Shared <- {"payment_settlement"}
Allocates == Promise!Spec

=============================================================================
