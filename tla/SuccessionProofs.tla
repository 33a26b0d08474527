---------------------------- MODULE SuccessionProofs ----------------------------
(***************************************************************************)
(* Proofs about Succession, for lineages of any length and any number of   *)
(* cases, owners and reviews.                                              *)
(*                                                                         *)
(* Reviews of the parent go on while its successor reads it, so the        *)
(* argument is about what only grows: the decisions and tasks of a run     *)
(* (Kept), of which each read of the worker sees at least what was there   *)
(* when it started (Read).                                                 *)
(***************************************************************************)
EXTENDS Succession, FiniteSetTheorems, WellFoundedInduction, TLAPS

\* Only the last run is not frozen, and only its worker works.
Lineage ==
    /\ \A n \in Runs : n < last => status[n] \in Frozen
    /\ \A n \in Runs : n > last => status[n] = "none"
    /\ pc # "idle" <=> status[last] = "running"
    /\ status[last] # "none"

\* A run that has published nothing has no reviews.
Blank ==
    \A n \in Runs :
        n > last \/ (n = last /\ status[n] \in {"open", "running"} /\ pc # "published") =>
            decisions[n] = {} /\ tasks[n] = {} /\ revision[n] = 0

\* The owner of a case with explicit assignments is one of those assigned.
OwnedAsAssigned ==
    \A n \in Runs, c \in Cases : Explicit(decisions[n], c) # {} =>
        \E s \in Explicit(decisions[n], c) : s.owner = owner[n][c]

\* What a successor was started from is still there.
Kept ==
    \A n \in Runs : n > 1 =>
        /\ before[n].decisions \subseteq decisions[n - 1]
        /\ before[n].tasks \subseteq tasks[n - 1]

\* What the worker has read.
Read ==
    /\ pc \in {"cases", "decisions"} =>
         /\ Unchanged(last)
         /\ \A c \in Cases : Explicit(before[last].decisions, c) # {} =>
              \E s \in Explicit(decisions[Parent], c) : s.owner = readOwners[c]
    /\ pc = "decisions" =>
         /\ readDecisions \subseteq {d \in decisions[Parent] : d.action = "ASSIGN"}
         /\ {d \in before[last].decisions : d.action = "ASSIGN"} \subseteq readDecisions

Published(n) == status[n] = "COMPLETED" \/ (n = last /\ pc = "published")

Carries ==
    \A n \in Runs : Published(n) /\ Unchanged(n) =>
        /\ \A c \in Cases : Explicit(before[n].decisions, c) # {} =>
             \E d \in decisions[n] :
                /\ d.case = c /\ d.action = "CARRY_FORWARD_ASSIGNMENT"
                /\ \E s \in Explicit(decisions[n - 1], c) : s.owner = d.owner
        /\ before[n].tasks \subseteq tasks[n]

Inv ==
    /\ TypeOK
    /\ Lineage
    /\ Blank
    /\ OwnedAsAssigned
    /\ Kept
    /\ Read
    /\ Carries
    /\ OnlyExplicitCrosses
    /\ DecisionsAreNumbered

-------------------------------------------------------------------------------
(* What the worker carries.                                                 *)

\* A nonempty set of numbers with an upper bound has a greatest one.
LEMMA Greatest ==
    ASSUME NEW T \in SUBSET Nat, T # {}, NEW b \in Nat, \A t \in T : t <= b
    PROVE  \E m \in T : \A t \in T : t <= m
<1> DEFINE U == {t..b : t \in T}
           R == StrictSubsetOrdering(0..b)
<1>1. IsFiniteSet(0..b)
  BY FS_Interval
<1>2. U \subseteq FiniteSubsetsOf(0..b) /\ U # {}
  <2>1. \A t \in T : t..b \in SUBSET (0..b)
    OBVIOUS
  <2>2. FiniteSubsetsOf(0..b) = SUBSET (0..b)
    BY <1>1, FS_FiniteSubsetsOfFinite
  <2>3. U \subseteq SUBSET (0..b) /\ U # {}
    BY <2>1
  <2> QED
    BY <2>2, <2>3
<1>3. \E u \in U : \A v \in U : ~ (<<v, u>> \in R)
  <2> HIDE DEF U
  <2> QED
    BY <1>2, FS_StrictSubsetOrderingWellFounded, WFMin
<1>4. PICK m \in T : \A t \in T : ~ (<<t..b, m..b>> \in R)
  BY <1>3
<1>5. ASSUME NEW t \in T, m < t PROVE <<t..b, m..b>> \in R
  <2>1. t..b \in SUBSET (0..b) /\ m..b \in SUBSET (0..b)
    OBVIOUS
  <2>2. t..b \subseteq m..b /\ m \in m..b /\ m \notin t..b
    BY <1>5
  <2> QED
    BY <2>1, <2>2 DEF StrictSubsetOrdering
<1>6. \A t \in T : ~ (m < t)
  <2> HIDE DEF R
  <2> QED
    BY <1>4, <1>5
<1> QED
  BY <1>6

\* A carried decision names one that the worker has read.
LEMMA SourceExists ==
    ASSUME TypeOK, DecisionsAreNumbered, NEW n \in Runs,
           readDecisions \subseteq decisions[n],
           NEW c \in Carried
    PROVE  Source(c) \in readDecisions /\ Source(c).case = c
<1> DEFINE D == {d \in readDecisions : d.case = c}
           T == {d.revision : d \in D}
<1>1. D # {}
  BY DEF Carried
<1>2. \A d \in D : d.revision \in Nat /\ d.revision <= revision[n]
  BY DEF TypeOK, DecisionsAreNumbered, Decision
<1>3. revision[n] \in Nat
  BY DEF TypeOK
<1>4. T \in SUBSET Nat /\ T # {} /\ \A t \in T : t <= revision[n]
  BY <1>1, <1>2
<1>5. \E m \in T : \A t \in T : t <= m
  <2> HIDE DEF T
  <2> QED
    BY <1>3, <1>4, Greatest
<1>6. \E d \in readDecisions :
        d.case = c /\ \A e \in readDecisions : e.case = c => e.revision <= d.revision
  BY <1>5
<1>7. QED
  BY <1>6 DEF Source

\* How many cases are carried.
LEMMA CarriedFinite == Cardinality(Carried) \in Nat
<1>1. Carried \in SUBSET Cases
  BY DEF Carried
<1>2. QED
  BY <1>1, CasesAssumption, FS_Subset, FS_CardinalityType

-------------------------------------------------------------------------------
(* Inv is inductive.                                                        *)

LEMMA InitInv == Init => Inv
<1> SUFFICES ASSUME Init PROVE Inv
  OBVIOUS
<1> USE BoundsAssumption, OwnersAssumption, InputsAssumption DEF Init, Runs
<1>1. TypeOK
  BY DEF TypeOK, Nothing, Frozen, Decision, Task
<1>2. Lineage /\ Blank
  BY DEF Lineage, Blank, Frozen
<1>3. OwnedAsAssigned /\ Kept /\ Read /\ Carries
  BY DEF OwnedAsAssigned, Kept, Read, Carries, Published, Explicit, Nothing
<1>4. OnlyExplicitCrosses /\ DecisionsAreNumbered
  BY DEF OnlyExplicitCrosses, DecisionsAreNumbered
<1>5. QED
  BY <1>1, <1>2, <1>3, <1>4 DEF Inv

\* Decisions and tasks only grow, so a run that carries enough goes on doing so.
LEMMA CarriesStable ==
    ASSUME Carries,
           \A n \in Runs : decisions[n] \subseteq decisions'[n] /\ tasks[n] \subseteq tasks'[n],
           \A n \in Runs : Published(n)' /\ Unchanged(n)' =>
               Published(n) /\ Unchanged(n) /\ before'[n] = before[n]
    PROVE  Carries'
<1> SUFFICES ASSUME NEW n \in Runs, Published(n)', Unchanged(n)'
             PROVE  /\ \A c \in Cases : Explicit(before'[n].decisions, c) # {} =>
                         \E d \in decisions'[n] :
                           /\ d.case = c /\ d.action = "CARRY_FORWARD_ASSIGNMENT"
                           /\ \E s \in Explicit(decisions'[n - 1], c) : s.owner = d.owner
                    /\ before'[n].tasks \subseteq tasks'[n]
  BY DEF Carries
<1>1. Published(n) /\ Unchanged(n) /\ before'[n] = before[n]
  OBVIOUS
<1>2. n - 1 \in Runs
  BY <1>1, BoundsAssumption DEF Unchanged, Runs
<1>3. \A c \in Cases : Explicit(decisions[n - 1], c) \subseteq Explicit(decisions'[n - 1], c)
  BY <1>2 DEF Explicit
<1> QED
  BY <1>1, <1>3 DEF Carries

\* The carried decisions and tasks are published.
LEMMA PublishCarriedInv == Inv /\ PublishCarried => Inv'
<1> SUFFICES ASSUME Inv, PublishCarried PROVE Inv'
  OBVIOUS
<1> USE BoundsAssumption DEF Inv, Runs, Frozen, Parent, reviewVars, workerVars
<1>1. /\ pc = "decisions" /\ last \in Runs /\ status[last] = "running"
      /\ Unchanged(last) /\ last > 1 /\ Parent \in Runs
      /\ decisions[last] = {} /\ revision[last] = 0
      /\ \A n \in Runs : n > last => decisions[n] = {} /\ status[n] = "none"
  BY DEF PublishCarried, TypeOK, Lineage, Blank, Read, Unchanged
<1>2. readDecisions \subseteq {d \in decisions[Parent] : d.action = "ASSIGN"}
  BY <1>1 DEF Read
<1>3. Carried \subseteq Cases /\ \A c \in Carried : readOwners[c] \in Owners
  BY DEF Carried, TypeOK
<1>4. ASSUME NEW c \in Carried
      PROVE  /\ Source(c) \in readDecisions /\ Source(c).case = c
             /\ Source(c).revision \in Nat
  <2>1. Source(c) \in readDecisions /\ Source(c).case = c
    BY <1>1, <1>2, SourceExists
  <2> QED
    BY <2>1 DEF TypeOK, Decision
<1>5. Cardinality(Carried) \in Nat
  BY CarriedFinite
<1>6. PICK i \in [Carried -> 1..Cardinality(Carried)] :
        /\ \A c, d \in Carried : i[c] = i[d] => c = d
        /\ decisions' = [decisions EXCEPT ![last] = {Carry(c, i[c]) : c \in Carried}]
  BY DEF PublishCarried
<1>7. ASSUME NEW c \in Carried
      PROVE  /\ Carry(c, i[c]) \in Decision
             /\ Carry(c, i[c]).case = c
             /\ Carry(c, i[c]).action = "CARRY_FORWARD_ASSIGNMENT"
             /\ Carry(c, i[c]).owner = readOwners[c]
             /\ Carry(c, i[c]).revision = i[c]
             /\ Carry(c, i[c]).cites = Source(c).revision
             /\ i[c] \in 1..Cardinality(Carried)
  BY <1>1, <1>3, <1>4, <1>5, <1>6 DEF Carry, Decision
<1>8. decisions'[last] = {Carry(c, i[c]) : c \in Carried}
      /\ \A n \in Runs : n # last => decisions'[n] = decisions[n]
  BY <1>1, <1>6 DEF TypeOK
<1> HIDE DEF Parent
<1>9. TypeOK'
  <2>1. decisions' \in [Runs -> SUBSET Decision]
    BY <1>6, <1>7 DEF TypeOK
  <2>2. owner' \in [Runs -> [Cases -> Owners \cup {Nobody}]]
    BY <1>3, OwnersAssumption DEF PublishCarried, TypeOK
  <2>3. tasks' \in [Runs -> SUBSET Task]
    BY <1>1 DEF PublishCarried, TypeOK, CarriedTasks
  <2>4. revision' \in [Runs -> Nat]
    BY <1>1, <1>5 DEF PublishCarried, TypeOK
  <2> QED
    BY <2>1, <2>2, <2>3, <2>4 DEF PublishCarried, TypeOK
<1>10. Lineage' /\ Blank'
  BY <1>1, <1>8 DEF PublishCarried, TypeOK, Lineage, Blank
<1>11. OwnedAsAssigned'
  <2>1. \A d \in decisions'[last] : d.action # "ASSIGN"
    BY <1>7, <1>8
  <2>2. \A n \in Runs : n # last => owner'[n] = owner[n]
    BY DEF PublishCarried, TypeOK
  <2> QED
    BY <1>8, <2>1, <2>2 DEF OwnedAsAssigned, Explicit
<1>12. Kept' /\ Read'
  <2>1. \A n \in Runs : tasks[n] \subseteq tasks'[n] /\ decisions[n] \subseteq decisions'[n]
    <3>1. tasks[last] = {}
      BY <1>1 DEF Blank
    <3> QED
      BY <1>1, <1>8, <3>1 DEF PublishCarried, TypeOK
  <2>2. before' = before /\ pc' = "published"
    BY DEF PublishCarried
  <2>3. \A n \in Runs : n > 1 => n - 1 \in Runs
    OBVIOUS
  <2>4. Kept'
    BY <2>1, <2>2, <2>3 DEF Kept
  <2> QED
    BY <2>2, <2>4 DEF Read
<1>13. Carries'
  <2> SUFFICES ASSUME NEW n \in Runs, Published(n)', Unchanged(n)'
               PROVE  /\ \A c \in Cases : Explicit(before'[n].decisions, c) # {} =>
                           \E d \in decisions'[n] :
                             /\ d.case = c /\ d.action = "CARRY_FORWARD_ASSIGNMENT"
                             /\ \E s \in Explicit(decisions'[n - 1], c) : s.owner = d.owner
                      /\ before'[n].tasks \subseteq tasks'[n]
    BY DEF Carries
  <2>1. before' = before /\ status' = status /\ inputs' = inputs /\ last' = last
    BY DEF PublishCarried
  <2>2. CASE n = last
    <3>1. ASSUME NEW c \in Cases, Explicit(before[n].decisions, c) # {}
          PROVE  \E d \in decisions'[n] :
                   /\ d.case = c /\ d.action = "CARRY_FORWARD_ASSIGNMENT"
                   /\ \E s \in Explicit(decisions'[n - 1], c) : s.owner = d.owner
      <4>1. PICK s \in Explicit(decisions[Parent], c) : s.owner = readOwners[c]
        BY <1>1, <2>2, <3>1 DEF Read
      <4>2. s \in Decision /\ s.owner \in Owners
        BY <1>1, <4>1 DEF TypeOK, Explicit, Decision
      <4>3. \E d \in readDecisions : d.case = c
        BY <1>1, <2>2, <3>1 DEF Read, Explicit
      <4>4. c \in Carried
        BY <4>1, <4>2, <4>3, OwnersAssumption DEF Carried
      <4>5. decisions'[n - 1] = decisions[Parent]
        BY <1>1, <1>8, <2>2 DEF Parent
      <4>6. Carry(c, i[c]) \in decisions'[n]
        BY <1>8, <2>2, <4>4
      <4> QED
        BY <1>7, <4>1, <4>4, <4>5, <4>6
    <3>2. before[n].tasks \subseteq tasks'[n]
      BY <1>1, <2>2 DEF PublishCarried, CarriedTasks, Kept, Parent, TypeOK
    <3> QED
      BY <2>1, <3>1, <3>2
  <2>3. CASE n # last
    <3>1. n - 1 # last /\ n - 1 \in Runs /\ Published(n) /\ Unchanged(n)
      BY <1>1, <2>1, <2>3 DEF Published, Unchanged
    <3>2. tasks'[n] = tasks[n]
      BY <2>3 DEF PublishCarried, TypeOK
    <3>3. decisions'[n] = decisions[n] /\ decisions'[n - 1] = decisions[n - 1]
      BY <1>8, <2>3, <3>1
    <3> QED
      BY <2>1, <3>1, <3>2, <3>3 DEF Carries
  <2> QED
    BY <2>2, <2>3
<1>14. OnlyExplicitCrosses'
  <2> SUFFICES ASSUME NEW n \in Runs, NEW d \in decisions'[n],
                      d.action = "CARRY_FORWARD_ASSIGNMENT"
               PROVE  /\ n > 1 /\ status'[n - 1] = "COMPLETED" /\ inputs'[n - 1] = inputs'[n]
                      /\ \E s \in Explicit(decisions'[n - 1], d.case) : s.revision = d.cites
    BY DEF OnlyExplicitCrosses
  <2>1. status' = status /\ inputs' = inputs
    BY DEF PublishCarried
  <2>2. CASE n = last
    <3>1. PICK c \in Carried : d = Carry(c, i[c])
      BY <1>8, <2>2
    <3>2. Source(c) \in Explicit(decisions[Parent], d.case) /\ Source(c).revision = d.cites
      BY <1>2, <1>4, <1>7, <3>1 DEF Explicit
    <3>3. decisions'[n - 1] = decisions[Parent]
      BY <1>1, <1>8, <2>2 DEF Parent
    <3> QED
      BY <1>1, <2>1, <2>2, <3>2, <3>3 DEF Unchanged
  <2>3. CASE n # last
    <3>1. d \in decisions[n]
      BY <1>8, <2>3
    <3>2. n > 1 /\ n - 1 \in Runs /\ n - 1 # last
      BY <1>1, <2>3, <3>1 DEF OnlyExplicitCrosses
    <3>3. decisions'[n - 1] = decisions[n - 1]
      BY <1>8, <3>2
    <3> QED
      BY <2>1, <3>1, <3>3 DEF OnlyExplicitCrosses
  <2> QED
    BY <2>2, <2>3
<1>15. DecisionsAreNumbered'
  <2>1. revision'[last] = Cardinality(Carried) /\ \A n \in Runs : n # last => revision'[n] = revision[n]
    BY <1>1, <1>5 DEF PublishCarried, TypeOK
  <2>2. \A d, e \in decisions'[last] :
          d.revision \in 1..Cardinality(Carried) /\ (d.revision = e.revision => d = e)
    BY <1>6, <1>7, <1>8
  <2> QED
    BY <1>8, <2>1, <2>2 DEF DecisionsAreNumbered
<1> QED
  BY <1>9, <1>10, <1>11, <1>12, <1>13, <1>14, <1>15

\* A case is assigned.
LEMMA AssignInv ==
    ASSUME Inv, NEW m \in Runs, NEW a \in Cases, NEW o \in Owners, Assign(m, a, o)
    PROVE  Inv'
<1> DEFINE new == [case |-> a, action |-> "ASSIGN", owner |-> o,
                   revision |-> revision[m] + 1, cites |-> 0]
<1> USE BoundsAssumption DEF Inv, Runs, Frozen, Parent, reviewVars, workerVars
<1>1. m <= last /\ status[m] = "COMPLETED" /\ (m = last => pc = "idle")
  BY DEF Assign, Reviewable, Lineage, TypeOK
<1>2. /\ last' = last /\ status' = status /\ inputs' = inputs /\ tasks' = tasks
      /\ pc' = pc /\ readOwners' = readOwners /\ readDecisions' = readDecisions
      /\ before' = before
  BY DEF Assign
<1>3. /\ decisions'[m] = decisions[m] \cup {new}
      /\ revision'[m] = revision[m] + 1
      /\ owner'[m][a] = o
      /\ \A c \in Cases : c # a => owner'[m][c] = owner[m][c]
      /\ \A n \in Runs : n # m => /\ decisions'[n] = decisions[n]
                                  /\ revision'[n] = revision[n]
                                  /\ owner'[n] = owner[n]
  BY DEF Assign, Reviewable, TypeOK
<1>4. new \in Decision
  BY DEF TypeOK, Decision
<1>5. \A n \in Runs : decisions[n] \subseteq decisions'[n]
  BY <1>3
<1> HIDE DEF new
<1>6. new.case = a /\ new.action = "ASSIGN" /\ new.owner = o /\ new.revision = revision[m] + 1
  BY DEF new
<1>7. TypeOK'
  <2>1. decisions' \in [Runs -> SUBSET Decision]
    BY <1>4 DEF Assign, TypeOK, new
  <2>2. owner' \in [Runs -> [Cases -> Owners \cup {Nobody}]]
    BY DEF Assign, TypeOK
  <2>3. revision' \in [Runs -> Nat] /\ reviews' \in 0..MaxReviews
    BY DEF Assign, Reviewable, TypeOK
  <2> QED
    BY <1>2, <2>1, <2>2, <2>3 DEF TypeOK
<1>8. Lineage' /\ Blank'
  BY <1>1, <1>2, <1>3 DEF Lineage, Blank
<1>9. \A n \in Runs, c \in Cases : Explicit(decisions[n], c) \subseteq Explicit(decisions[n], c)'
  BY <1>5 DEF Explicit
<1>10. OwnedAsAssigned'
  <2> SUFFICES ASSUME NEW n \in Runs, NEW c \in Cases, Explicit(decisions'[n], c) # {}
               PROVE  \E s \in Explicit(decisions'[n], c) : s.owner = owner'[n][c]
    BY DEF OwnedAsAssigned
  <2>1. CASE n = m /\ c = a
    BY <1>3, <1>6, <2>1 DEF Explicit
  <2>2. CASE ~ (n = m /\ c = a)
    <3>1. Explicit(decisions'[n], c) = Explicit(decisions[n], c) /\ owner'[n][c] = owner[n][c]
      BY <1>3, <1>6, <2>2 DEF Explicit
    <3> QED
      BY <3>1 DEF OwnedAsAssigned
  <2> QED
    BY <2>1, <2>2
<1>11. \A n \in Runs : n > 1 => n - 1 \in Runs
  OBVIOUS
<1>12. Kept'
  BY <1>2, <1>5, <1>11 DEF Kept
<1>13. Read'
  <2>1. CASE pc \in {"cases", "decisions"}
    <3>1. Unchanged(last) /\ last \in Runs /\ last > 1
      BY <2>1 DEF Read, TypeOK, Unchanged
    <3>2. Unchanged(last)'
      BY <1>2, <3>1 DEF Unchanged
    <3>3. Parent \in Runs /\ Parent' = Parent
      BY <1>2, <3>1
    <3>4. decisions[Parent] \subseteq decisions'[Parent]
      BY <1>5, <3>3
    <3> HIDE DEF Parent
    <3>5. \A c \in Cases : Explicit(before[last].decisions, c) # {} =>
            \E s \in Explicit(decisions'[Parent], c) : s.owner = readOwners[c]
      BY <2>1, <3>4 DEF Read, Explicit
    <3> QED
      BY <1>2, <2>1, <3>2, <3>3, <3>4, <3>5 DEF Read, Explicit
  <2> QED
    BY <1>2, <2>1 DEF Read
<1>14. Carries'
  BY <1>2, <1>5, CarriesStable DEF Published, Unchanged
<1>15. OnlyExplicitCrosses'
  <2> SUFFICES ASSUME NEW n \in Runs, NEW d \in decisions'[n],
                      d.action = "CARRY_FORWARD_ASSIGNMENT"
               PROVE  /\ n > 1 /\ status'[n - 1] = "COMPLETED" /\ inputs'[n - 1] = inputs'[n]
                      /\ \E s \in Explicit(decisions'[n - 1], d.case) : s.revision = d.cites
    BY DEF OnlyExplicitCrosses
  <2>1. d \in decisions[n]
    BY <1>3, <1>6
  <2>2. n - 1 \in Runs
    BY <2>1 DEF OnlyExplicitCrosses
  <2>3. \A s \in decisions[n - 1] : s \in decisions'[n - 1]
    BY <1>5, <2>2
  <2> QED
    BY <1>2, <2>1, <2>3 DEF OnlyExplicitCrosses, Explicit
<1>16. DecisionsAreNumbered'
  <2> SUFFICES ASSUME NEW n \in Runs, NEW d \in decisions'[n], NEW e \in decisions'[n]
               PROVE  d.revision \in 1..revision'[n] /\ (d.revision = e.revision => d = e)
    BY DEF DecisionsAreNumbered
  <2>1. revision[n] \in Nat /\ \A x \in decisions[n] : x.revision \in 1..revision[n]
    BY DEF TypeOK, DecisionsAreNumbered
  <2>2. CASE n = m
    BY <1>3, <1>6, <2>1, <2>2 DEF DecisionsAreNumbered
  <2>3. CASE n # m
    BY <1>3, <2>3 DEF DecisionsAreNumbered
  <2> QED
    BY <2>2, <2>3
<1> QED
  BY <1>7, <1>8, <1>10, <1>12, <1>13, <1>14, <1>15, <1>16

LEMMA NextInv == Inv /\ [Next]_vars => Inv'
<1> SUFFICES ASSUME Inv, [Next]_vars PROVE Inv'
  OBVIOUS
<1> USE BoundsAssumption DEF Inv, Runs, Frozen, Parent, reviewVars, workerVars
<1>1. CASE CreateSuccessor
  <2>1. pc = "idle" /\ last + 1 \in Runs
    BY <1>1 DEF CreateSuccessor, Lineage, TypeOK
  <2>2. TypeOK'
    BY <1>1, <2>1 DEF CreateSuccessor, TypeOK
  <2>3. Lineage' /\ Blank'
    BY <1>1, <2>1 DEF CreateSuccessor, TypeOK, Lineage, Blank
  <2>4. OwnedAsAssigned' /\ Kept'
    BY <1>1 DEF CreateSuccessor, OwnedAsAssigned, Kept, Explicit
  <2>5. Read'
    BY <1>1, <2>1 DEF CreateSuccessor, Read
  <2>6. Carries'
    <3>1. \A n \in Runs : Published(n)' => status[n] = "COMPLETED" /\ n # last + 1
      BY <1>1, <2>1 DEF CreateSuccessor, TypeOK, Published
    <3>2. \A n \in Runs : n # last + 1 /\ Unchanged(n)' => Unchanged(n)
      BY <1>1, <2>1 DEF CreateSuccessor, TypeOK, Unchanged
    <3>3. UNCHANGED <<decisions, tasks, before>>
      BY <1>1 DEF CreateSuccessor
    <3> QED
      BY <3>1, <3>2, <3>3, CarriesStable DEF Published
  <2>7. OnlyExplicitCrosses' /\ DecisionsAreNumbered'
    BY <1>1, <2>1
    DEF CreateSuccessor, TypeOK, Lineage, Blank, OnlyExplicitCrosses, DecisionsAreNumbered, Explicit
  <2> QED
    BY <2>2, <2>3, <2>4, <2>6, <2>7, <2>5
<1>2. ASSUME NEW i \in Inputs, Start(i) PROVE Inv'
  <2>1. pc = "idle" /\ decisions[last] = {} /\ \A n \in Runs : n > last => decisions[n] = {}
    BY <1>2 DEF Start, Lineage, Blank, TypeOK
  <2>2. TypeOK'
    BY <1>2 DEF Start, TypeOK
  <2>3. Lineage' /\ Blank'
    BY <1>2, <2>1 DEF Start, TypeOK, Lineage, Blank
  <2>4. OwnedAsAssigned' /\ Kept' /\ Read'
    BY <1>2, <2>1 DEF Start, TypeOK, OwnedAsAssigned, Kept, Read, Explicit
  <2>5. Carries'
    <3>1. \A n \in Runs : Published(n)' => Published(n) /\ n # last
      BY <1>2 DEF Start, TypeOK, Published
    <3>2. \A n \in Runs : n # last /\ Unchanged(n)' => Unchanged(n) /\ before'[n] = before[n]
      BY <1>2 DEF Start, TypeOK, Unchanged
    <3>3. UNCHANGED <<decisions, tasks>>
      BY <1>2 DEF Start
    <3> QED
      BY <3>1, <3>2, <3>3, CarriesStable
  <2>6. OnlyExplicitCrosses' /\ DecisionsAreNumbered'
    BY <1>2, <2>1
    DEF Start, TypeOK, Lineage, OnlyExplicitCrosses, DecisionsAreNumbered, Explicit
  <2> QED
    BY <2>2, <2>3, <2>4, <2>5, <2>6
<1>3. CASE ReadCases
  <2>1. TypeOK'
    BY <1>3 DEF ReadCases, TypeOK, Unchanged
  <2>2. Lineage' /\ Blank' /\ OwnedAsAssigned' /\ Kept'
    <3>1. Lineage' /\ Blank'
      BY <1>3 DEF ReadCases, Lineage, Blank
    <3>2. OwnedAsAssigned' /\ Kept'
      BY <1>3 DEF ReadCases, OwnedAsAssigned, Kept, Explicit
    <3> QED
      BY <3>1, <3>2
  <2>3. Read'
    <3>1. ASSUME NEW c \in Cases, Explicit(before[last].decisions, c) # {}
          PROVE  \E s \in Explicit(decisions[Parent], c) : s.owner = owner[Parent][c]
      <4>1. Parent \in Runs /\ last \in Runs /\ last > 1
        BY <1>3 DEF ReadCases, TypeOK, Unchanged
      <4>2. Explicit(decisions[Parent], c) # {}
        BY <3>1, <4>1 DEF Kept, Explicit
      <4> QED
        BY <4>1, <4>2 DEF OwnedAsAssigned
    <3> QED
      BY <1>3, <3>1 DEF ReadCases, Read, Unchanged, Explicit
  <2>4. Carries'
    BY <1>3, CarriesStable DEF ReadCases, Published, Unchanged
  <2>5. OnlyExplicitCrosses' /\ DecisionsAreNumbered'
    BY <1>3 DEF ReadCases, OnlyExplicitCrosses, DecisionsAreNumbered, Explicit
  <2> QED
    BY <2>1, <2>2, <2>3, <2>4, <2>5
<1>4. CASE ReadDecisions
  <2>1. Unchanged(last)
    BY <1>4 DEF ReadDecisions, Read
  <2>2. TypeOK'
    BY <1>4, <2>1 DEF ReadDecisions, TypeOK, Unchanged
  <2>3. Lineage' /\ Blank' /\ OwnedAsAssigned' /\ Kept'
    <3>1. Lineage' /\ Blank'
      BY <1>4 DEF ReadDecisions, Lineage, Blank
    <3>2. OwnedAsAssigned' /\ Kept'
      BY <1>4 DEF ReadDecisions, OwnedAsAssigned, Kept, Explicit
    <3> QED
      BY <3>1, <3>2
  <2>4. Read'
    BY <1>4, <2>1 DEF ReadDecisions, Read, Kept, TypeOK, Unchanged, Explicit
  <2>5. Carries'
    BY <1>4, CarriesStable DEF ReadDecisions, Published, Unchanged
  <2>6. OnlyExplicitCrosses' /\ DecisionsAreNumbered'
    BY <1>4 DEF ReadDecisions, OnlyExplicitCrosses, DecisionsAreNumbered, Explicit
  <2> QED
    BY <2>2, <2>3, <2>4, <2>5, <2>6
<1>5. CASE PublishCarried
  BY <1>5, PublishCarriedInv
<1>6. CASE PublishDerived
  <2>1. TypeOK'
    BY <1>6 DEF PublishDerived, TypeOK
  <2>2. Lineage' /\ Blank' /\ OwnedAsAssigned' /\ Kept' /\ Read'
    BY <1>6 DEF PublishDerived, TypeOK, Lineage, Blank, OwnedAsAssigned, Kept, Read, Explicit
  <2>3. Carries'
    <3>1. \A n \in Runs : Unchanged(n)' => Unchanged(n) /\ n # last
      BY <1>6 DEF PublishDerived, Unchanged
    <3>2. \A n \in Runs : n # last /\ Published(n)' => Published(n)
      BY <1>6 DEF PublishDerived, Published
    <3>3. UNCHANGED <<decisions, tasks, before>>
      BY <1>6 DEF PublishDerived
    <3> QED
      BY <3>1, <3>2, <3>3, CarriesStable
  <2>4. OnlyExplicitCrosses' /\ DecisionsAreNumbered'
    BY <1>6 DEF PublishDerived, OnlyExplicitCrosses, DecisionsAreNumbered, Explicit
  <2> QED
    BY <2>1, <2>2, <2>3, <2>4
<1>7. ASSUME Complete \/ Fail PROVE Inv'
  <2>1. PICK s \in Frozen : Stop(s) /\ (s = "COMPLETED" => pc = "published") /\ pc # "idle"
    BY <1>7 DEF Complete, Fail
  <2>2. last \in Runs /\ status[last] = "running"
    BY <2>1 DEF TypeOK, Lineage
  <2>3. TypeOK'
    BY <2>1, OwnersAssumption DEF Stop, TypeOK
  <2>4. Lineage' /\ Blank'
    BY <2>1, <2>2 DEF Stop, TypeOK, Lineage, Blank
  <2>5. OwnedAsAssigned' /\ Kept' /\ Read'
    BY <2>1 DEF Stop, OwnedAsAssigned, Kept, Read, Explicit
  <2>6. Carries'
    BY <2>1, <2>2 DEF Stop, TypeOK, Lineage, Carries, Published, Unchanged, Explicit
  <2>7. OnlyExplicitCrosses' /\ DecisionsAreNumbered'
    BY <2>1, <2>2
    DEF Stop, TypeOK, Lineage, OnlyExplicitCrosses, DecisionsAreNumbered, Explicit
  <2> QED
    BY <2>3, <2>4, <2>6, <2>7, <2>5
<1>8. ASSUME NEW n \in Runs, NEW c \in Cases, CreateTask(n, c) PROVE Inv'
  <2>1. n <= last /\ status[n] = "COMPLETED" /\ (n = last => pc = "idle")
    BY <1>8 DEF CreateTask, Reviewable, Lineage, TypeOK
  <2>2. TypeOK'
    BY <1>8 DEF CreateTask, Reviewable, TypeOK, Task
  <2>3. /\ \A k \in Runs : tasks[k] \subseteq tasks'[k]
        /\ \A k \in Runs : k # n => tasks'[k] = tasks[k] /\ revision'[k] = revision[k]
        /\ UNCHANGED <<last, status, inputs, owner, decisions, workerVars, before>>
    BY <1>8 DEF CreateTask, Reviewable, TypeOK
  <2>4. Lineage' /\ Blank'
    BY <2>1, <2>3 DEF Lineage, Blank
  <2>5. OwnedAsAssigned' /\ Read'
    BY <2>3 DEF OwnedAsAssigned, Read, Unchanged, Explicit
  <2>6. Kept'
    <3>1. \A k \in Runs : k > 1 => k - 1 \in Runs
      OBVIOUS
    <3> QED
      BY <2>3, <3>1 DEF Kept
  <2>7. Carries'
    BY <2>3, CarriesStable DEF Published, Unchanged
  <2>8. OnlyExplicitCrosses'
    BY <1>8 DEF CreateTask, Reviewable, OnlyExplicitCrosses, Explicit
  <2>9. DecisionsAreNumbered'
    BY <1>8 DEF CreateTask, Reviewable, DecisionsAreNumbered, TypeOK, Decision
  <2> QED
    BY <2>2, <2>4, <2>7, <2>8, <2>9, <2>5, <2>6
<1>9. ASSUME NEW n \in Runs, NEW c \in Cases, NEW o \in Owners, Assign(n, c, o) PROVE Inv'
  BY <1>9, AssignInv
<1>10. CASE UNCHANGED vars
  <2>1. TypeOK' /\ Lineage' /\ Blank'
    BY <1>10 DEF vars, TypeOK, Lineage, Blank
  <2>2. OwnedAsAssigned' /\ Kept' /\ Read'
    BY <1>10 DEF vars, OwnedAsAssigned, Kept, Read, Unchanged, Explicit
  <2>3. Carries'
    BY <1>10, CarriesStable DEF vars, Published, Unchanged
  <2>4. OnlyExplicitCrosses' /\ DecisionsAreNumbered'
    BY <1>10 DEF vars, OnlyExplicitCrosses, DecisionsAreNumbered, Explicit
  <2> QED
    BY <2>1, <2>2, <2>3, <2>4
<1> QED
  BY <1>1, <1>2, <1>3, <1>4, <1>5, <1>6, <1>7, <1>8, <1>9, <1>10 DEF Next, Execution, Review

LEMMA Inductive == Spec => []Inv
<1>1. Init => Inv
  BY InitInv
<1>2. Inv /\ [Next]_vars => Inv'
  BY NextInv
<1> QED
  BY <1>1, <1>2, PTL DEF Spec

-------------------------------------------------------------------------------
(* The theorems.                                                            *)

\* The rows a lineage writes keep their types, and the worker its position.
THEOREM TypeCorrect == Spec => []TypeOK
<1>1. Inv => TypeOK
  BY DEF Inv
<1> QED
  BY <1>1, Inductive, PTL

\* Nothing but an explicit assignment is carried, and only from a completed parent with
\* the same inputs, however the reads of _carry_forward_review_state and the reviews of
\* the parent interleave.
THEOREM OnlyExplicitCarried == Spec => []OnlyExplicitCrosses
<1>1. Inv => OnlyExplicitCrosses
  BY DEF Inv
<1> QED
  BY <1>1, Inductive, PTL

\* Each case explicitly assigned before the successor was started is carried to it, with
\* an owner somebody assigned.
THEOREM AssignmentsAreKept == Spec => []AssignmentsSurvive
<1>1. Inv => AssignmentsSurvive
  BY DEF Inv, Carries, Published, AssignmentsSurvive
<1> QED
  BY <1>1, Inductive, PTL

\* No task open before the successor was started is left behind.
THEOREM TasksAreKept == Spec => []TasksSurvive
<1>1. Inv => TasksSurvive
  BY DEF Inv, Carries, Published, TasksSurvive
<1> QED
  BY <1>1, Inductive, PTL

\* Carried decisions count as reviews: a revision is that of one decision.
THEOREM DecisionsNumbered == Spec => []DecisionsAreNumbered
<1>1. Inv => DecisionsAreNumbered
  BY DEF Inv
<1> QED
  BY <1>1, Inductive, PTL
===============================================================================
